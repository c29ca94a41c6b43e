----------------------------- MODULE MndpProofs -----------------------------
(***************************************************************************)
(* Discover's listen window and its table, for every window, read deadline *)
(* and buffer, whatever is announced and whenever the context is cancelled; *)
(* what ParsePacket reads of every announcement, however it is cut; and    *)
(* the listing the command prints.                                         *)
(***************************************************************************)
EXTENDS Mndp, Induction, FiniteSetTheorems, TLAPS

\* What may arrive: the start of an announcement.
DatagramsOf(a) ==
  {[attrs |-> a, src |-> ip, words |-> SubSeq(Encode(a), 1, n)] :
     n \in {k \in Cuts : k <= Len(Encode(a))}, ip \in IPs}

Datagram == UNION {DatagramsOf(a) : a \in Announcements}

\* Every datagram in the buffer or in the history is one that arrived.
CountInv ==
  /\ queue \in Seq(Datagram) /\ Len(queue) <= QueueCap
  /\ heard \in Seq(Datagram)
  /\ Len(heard) + Len(queue) <= arrivals
  /\ arrivals <= MaxArrivals

\* The table is keyed by the neighbours' addresses.
TableInv == \A m \in DOMAIN seen : m # NoMAC /\ seen[m].mac = m

\* Where the clock, the two deadlines and a cancellation can be.  A read that
\* began before the cancellation may run on to its own deadline, which lies at
\* most Slice after the time it began and so after the cancellation.
TimeInv ==
  /\ {timeout, deadline, readDeadline, now, arrivals} \subseteq Nat
  /\ cancelledAt \in -1 .. now
  /\ pc \in {"exec", "listen"} => now = 0
  /\ pc = "top" => /\ now <= deadline
                   /\ cancelledAt # -1 => now <= cancelledAt + Slice
  /\ pc = "read" => /\ now <= readDeadline /\ readDeadline <= deadline
                    /\ readDeadline <= now + Slice
                    /\ cancelledAt # -1 => readDeadline <= cancelledAt + Slice

\* What the command has to say, and the code it ends with.
ResultInv ==
  /\ pc \in {"exec", "listen", "top", "read", "print", "exit"}
  /\ code \in -1 .. 2
  /\ pc = "print" => result = collectNeighbors(seen)
  /\ pc = "exit" /\ code # 2 /\ ~failed =>
       code = 0 /\ output = collectNeighbors(seen)

FailedInv == failed \in BOOLEAN

MndpInv == CountInv /\ TableInv /\ TimeInv /\ ResultInv /\ FailedInv

----------------------------------------------------------------------------

LEMMA Bounds ==
  Slice \in Nat \ {0} /\ QueueCap \in Nat \ {0} /\ MaxArrivals \in Nat
BY MndpAssumption

LEMMA MinOfTwo ==
  ASSUME NEW a \in Nat, NEW b \in Nat
  PROVE  /\ Min({a, b}) \in {a, b}
         /\ Min({a, b}) <= a /\ Min({a, b}) <= b
<1>1. \E x \in {a, b} : \A y \in {a, b} : x <= y
  BY SMT
<1> QED BY <1>1, SMT DEF Min

LEMMA AppendIs ==
  ASSUME NEW S, NEW q \in Seq(S), NEW e \in S
  PROVE  Append(q, e) \in Seq(S) /\ Len(Append(q, e)) = Len(q) + 1
BY SMT

LEMMA QueueIs ==
  ASSUME NEW S, NEW q \in Seq(S), q # << >>
  PROVE  /\ Head(q) \in S /\ Tail(q) \in Seq(S)
         /\ Len(Tail(q)) = Len(q) - 1 /\ Len(q) \in Nat \ {0}
BY SMT

LEMMA MndpInit == Init => MndpInv
<1> SUFFICES ASSUME Init PROVE MndpInv
  OBVIOUS
<1>1. CountInv
  BY Bounds DEF Init, CountInv
<1>2. TableInv
  BY DEF Init, TableInv
<1>3. TimeInv
  BY DEF Init, TimeInv
<1>4. ResultInv
  BY DEF Init, ResultInv
<1>5. FailedInv
  BY Zenon DEF Init, FailedInv
<1> QED BY <1>1, <1>2, <1>3, <1>4, <1>5 DEF MndpInv

\* A datagram adds or replaces the entry of the address it announces.
LEMMA LearnKeyed ==
  ASSUME TableInv, NEW pkt, NEW src, seen' = learn(pkt, src)
  PROVE  TableInv'
<1>1. CASE pkt.ok /\ pkt.mac # NoMAC
  <2>1. PICK n : n = packetToNeighbor(pkt, src)
    OBVIOUS
  <2>2. seen' = store(seen, n) /\ n.mac = pkt.mac
    BY <1>1, <2>1 DEF learn, packetToNeighbor
  <2> QED BY <1>1, <2>2 DEF TableInv, store
<1>2. CASE ~(pkt.ok /\ pkt.mac # NoMAC)
  BY <1>2 DEF learn, TableInv
<1> QED BY <1>1, <1>2

\* Reading a datagram moves it from the buffer to the history.
LEMMA ReadKeeps ==
  ASSUME MndpInv, ReadFromUDP
  PROVE  MndpInv'
<1> USE Bounds DEF MndpInv, ReadFromUDP
<1>1. CountInv'
  <2>1. heard' = Append(heard, Head(queue)) /\ queue' = Tail(queue)
        /\ queue # << >> /\ UNCHANGED arrivals
    OBVIOUS
  <2>2. /\ Len(heard') = Len(heard) + 1 /\ Len(queue') = Len(queue) - 1
        /\ heard' \in Seq(Datagram) /\ queue' \in Seq(Datagram)
        /\ Len(heard) \in Nat /\ Len(queue) \in Nat
    BY <2>1, AppendIs, QueueIs DEF CountInv
  <2> QED BY <2>1, <2>2, SMT DEF CountInv, TimeInv
<1>2. TableInv'
  BY LearnKeyed
<1>3. TimeInv' /\ ResultInv' /\ FailedInv'
  BY DEF TimeInv, ResultInv, FailedInv
<1> QED BY <1>1, <1>2, <1>3

\* A datagram arrives, and is dropped when the buffer is full.
LEMMA ArriveKeeps ==
  ASSUME MndpInv, Arrive
  PROVE  MndpInv'
<1> USE Bounds DEF MndpInv, Arrive, envUnchanged
<1>1. CountInv'
  <2>1. PICK a \in Announcements, n \in Cuts, ip \in IPs :
          /\ n <= Len(Encode(a))
          /\ queue' = IF Len(queue) < QueueCap
                        THEN Append(queue, [attrs |-> a, src |-> ip,
                                            words |-> SubSeq(Encode(a), 1, n)])
                        ELSE queue
    OBVIOUS
  <2>2. PICK d \in DatagramsOf(a) :
          queue' = IF Len(queue) < QueueCap THEN Append(queue, d) ELSE queue
    BY <2>1 DEF DatagramsOf
  <2>3. d \in Datagram
    BY <2>2 DEF Datagram
  <2>4. queue' \in Seq(Datagram) /\ Len(queue) \in Nat /\ Len(heard) \in Nat
        /\ Len(queue') \in Len(queue) .. Len(queue) + 1
        /\ Len(queue') <= QueueCap
    BY <2>2, <2>3, AppendIs DEF CountInv
  <2> QED BY <2>4, SMTT(30) DEF CountInv, TimeInv
<1>2. TableInv' /\ TimeInv' /\ ResultInv' /\ FailedInv'
  BY DEF TableInv, TimeInv, ResultInv, FailedInv
<1> QED BY <1>1, <1>2

\* The head of the loop: a read deadline inside the window, or the end.
LEMMA TopKeeps ==
  ASSUME MndpInv, top
  PROVE  MndpInv'
<1> USE Bounds DEF MndpInv, top, netVars
<1>1. CountInv' /\ TableInv'
  BY DEF CountInv, TableInv
<1>2. TimeInv'
  <2>1. CASE now < deadline /\ cancelledAt = -1
    <3>1. PICK r : r = Min({now + Slice, deadline})
      OBVIOUS
    <3>2. now \in Nat /\ deadline \in Nat /\ now + Slice \in Nat
      BY DEF TimeInv
    <3>3. r \in {now + Slice, deadline} /\ r <= now + Slice /\ r <= deadline
      BY <3>1, <3>2, MinOfTwo
    <3>4. pc' = "read" /\ readDeadline' = r
          /\ UNCHANGED <<timeout, deadline, now, cancelledAt, arrivals>>
      BY <2>1, <3>1
    <3> QED BY <2>1, <3>2, <3>3, <3>4 DEF TimeInv
  <2>2. CASE ~(now < deadline /\ cancelledAt = -1)
    BY <2>2 DEF TimeInv, return
  <2> QED BY <2>1, <2>2
<1>3. ResultInv' /\ FailedInv'
  BY DEF ResultInv, FailedInv, return
<1> QED BY <1>1, <1>2, <1>3

\* The steps that hear nothing.
LEMMA OthersKeep ==
  ASSUME MndpInv,
         \/ execMndp \/ openListener \/ ReadTimeout \/ ReadError
         \/ PrintNeighbors \/ Tick \/ CancelCtx \/ UNCHANGED vars
  PROVE  MndpInv'
<1> USE Bounds DEF MndpInv, netVars, envUnchanged
<1>1. CountInv' /\ TableInv'
  BY DEF execMndp, openListener, ReadTimeout, ReadError, PrintNeighbors, Tick,
         CancelCtx, vars, CountInv, TableInv
<1>2. TimeInv'
  <2>1. CASE execMndp
    <3>1. timeout' \in Nat
      <4>1. \/ UNCHANGED timeout
            \/ \E t \in Timeouts : ~(t <= 0) /\ timeout' = t
        BY <2>1 DEF execMndp
      <4>2. Timeouts \subseteq Int
        BY MndpAssumption
      <4> QED BY <4>1, <4>2 DEF TimeInv
    <3> QED BY <2>1, <3>1 DEF execMndp, TimeInv
  <2>2. CASE openListener
    BY <2>2 DEF openListener, TimeInv
  <2>3. CASE ReadTimeout
    BY <2>3 DEF ReadTimeout, TimeInv
  <2>4. CASE ReadError \/ PrintNeighbors
    BY <2>4 DEF ReadError, PrintNeighbors, TimeInv
  <2>5. CASE Tick
    BY <2>5 DEF Tick, TimeInv
  <2>6. CASE CancelCtx
    BY <2>6 DEF CancelCtx, TimeInv
  <2>7. CASE UNCHANGED vars
    BY <2>7 DEF vars, TimeInv
  <2> QED BY <2>1, <2>2, <2>3, <2>4, <2>5, <2>6, <2>7
<1>3. ResultInv'
  <2>1. CASE execMndp
    BY <2>1 DEF execMndp, ResultInv
  <2>2. CASE openListener \/ ReadTimeout \/ ReadError
    BY <2>2 DEF openListener, ReadTimeout, ReadError, ResultInv
  <2>3. CASE PrintNeighbors
    BY <2>3 DEF PrintNeighbors, ResultInv
  <2>4. CASE Tick \/ CancelCtx
    BY <2>4 DEF Tick, CancelCtx, ResultInv
  <2>5. CASE UNCHANGED vars
    BY <2>5 DEF vars, ResultInv
  <2> QED BY <2>1, <2>2, <2>3, <2>4, <2>5
<1>4. FailedInv'
  BY Zenon DEF execMndp, openListener, ReadTimeout, ReadError, PrintNeighbors,
     Tick, CancelCtx, vars, FailedInv
<1> QED BY <1>1, <1>2, <1>3, <1>4

\* MndpInv is inductive.
LEMMA MndpNext == MndpInv /\ [Next]_vars => MndpInv'
BY ReadKeeps, ArriveKeeps, TopKeeps, OthersKeep DEF Next, Finished

LEMMA MndpAlways == Spec => []MndpInv
BY MndpInit, MndpNext, PTL DEF Spec

\* Every variable of the command has its type, and the table is keyed by the
\* neighbours' own addresses, never by the empty one.
THEOREM MndpTypeCorrect == Spec => []MndpTypeOK
<1>1. MndpInv => MndpTypeOK
  <2> SUFFICES ASSUME MndpInv PROVE MndpTypeOK
    OBVIOUS
  <2>1. Len(heard) <= MaxArrivals
    BY Bounds DEF MndpInv, CountInv, TimeInv
  <2> QED BY <2>1 DEF MndpInv, CountInv, TableInv, TimeInv, ResultInv,
               FailedInv, MndpTypeOK
<1> QED BY <1>1, MndpAlways, PTL

\* Discover never listens past its window, whatever the window and the read
\* deadline are and however much arrives, nor more than one read deadline past
\* a cancellation of its context.
THEOREM DiscoverEndsOnTime == Spec => []EndsOnTime
<1>1. MndpInv => EndsOnTime
  BY Bounds DEF MndpInv, TimeInv, EndsOnTime
<1> QED BY <1>1, MndpAlways, PTL

\* A command that met no failure exits with code 0 and has printed the whole
\* table as collectNeighbors orders it: nothing learned before the window
\* closed or the context was cancelled is left out.
THEOREM TablePrinted ==
  Spec => [](pc = "exit" /\ code # 2 /\ ~failed =>
               code = 0 /\ output = collectNeighbors(seen))
<1>1. MndpInv => (pc = "exit" /\ code # 2 /\ ~failed =>
                    code = 0 /\ output = collectNeighbors(seen))
  BY DEF MndpInv, ResultInv
<1> QED BY <1>1, MndpAlways, PTL

----------------------------------------------------------------------------
(* ParsePacket reads of a datagram what its sender put into it.            *)

LEMMA MaxIs ==
  ASSUME NEW n \in Nat, NEW T \in SUBSET (0 .. n), 0 \in T
  PROVE  Max(T) \in T /\ \A y \in T : y <= Max(T)
<1>1. PICK U : U = {x \in Nat : \E y \in T : x = n - y}
  OBVIOUS
<1>2. n \in U
  BY <1>1
<1>3. PICK x \in U : \A z \in U : x <= z
  BY <1>1, <1>2, Least
<1>4. PICK y \in T : x = n - y
  BY <1>1, <1>3
<1>5. ASSUME NEW z \in T PROVE y >= z
  <2>1. n - z \in U
    BY <1>1
  <2>2. x <= n - z /\ y \in 0 .. n /\ z \in 0 .. n
    BY <1>3, <2>1
  <2> QED BY <1>4, <2>2
<1>6. \A z \in T : z \in Int
  OBVIOUS
<1>7. \E v \in T : \A z \in T : v >= z
  BY <1>5
<1> HIDE DEF Max
<1>8. Max(T) \in T /\ \A z \in T : Max(T) >= z
  BY <1>7, Zenon DEF Max
<1> QED BY <1>6, <1>8

\* An attribute as it is sent, and an announcement attribute by attribute.
Attr == [type : Nat, val : Seq(Nat)]

Block(x) == <<x.type, Len(x.val)>> \o x.val

Blocks(a) == [i \in 1 .. Len(a) |-> Block(a[i])]

LEMMA BlockIs ==
  ASSUME NEW x \in Attr
  PROVE  /\ Block(x) \in Seq(Nat) /\ Len(x.val) \in Nat
         /\ Len(Block(x)) = 2 + Len(x.val)
         /\ Block(x)[1] = x.type /\ Block(x)[2] = Len(x.val)
         /\ \A i \in 1 .. Len(x.val) : Block(x)[2 + i] = x.val[i]
<1>1. PICK h : h = <<x.type, Len(x.val)>>
  OBVIOUS
<1>2. PICK v \in Seq(Nat) : v = x.val
  BY DEF Attr
<1>3. /\ h \in Seq(Nat) /\ Len(h) = 2 /\ h[1] = x.type /\ h[2] = Len(v)
      /\ Len(v) \in Nat
  BY <1>1, <1>2 DEF Attr
<1>4. Block(x) = h \o v
  BY <1>1, <1>2 DEF Block
<1>5. /\ h \o v \in Seq(Nat) /\ Len(h \o v) = 2 + Len(v)
      /\ (h \o v)[1] = h[1] /\ (h \o v)[2] = h[2]
      /\ \A i \in 1 .. Len(v) : (h \o v)[2 + i] = v[i]
  <2>1. 1 \in 1 .. Len(h) /\ 2 \in 1 .. Len(h)
    BY <1>3
  <2>2. /\ h \o v \in Seq(Nat) /\ Len(h \o v) = Len(h) + Len(v)
        /\ \A i \in 1 .. Len(h) : (h \o v)[i] = h[i]
        /\ \A i \in 1 .. Len(v) : (h \o v)[Len(h) + i] = v[i]
    <3>1. h \in Seq(Nat)
      BY <1>3
    <3> QED BY <3>1, ConcatIs
  <2> QED BY <1>3, <2>1, <2>2
<1> QED BY <1>2, <1>3, <1>4, <1>5

LEMMA BlocksAre ==
  ASSUME NEW a \in Seq(Attr)
  PROVE  /\ Blocks(a) \in Seq(Seq(Nat)) /\ Len(Blocks(a)) = Len(a) /\ Len(a) \in Nat
         /\ \A i \in 1 .. Len(a) : /\ a[i] \in Attr /\ Blocks(a)[i] = Block(a[i])
                                   /\ Blocks(a)[i] \in Seq(Nat)
<1>1. Len(a) \in Nat /\ \A i \in 1 .. Len(a) : a[i] \in Attr
  OBVIOUS
<1>2. \A i \in 1 .. Len(a) : Block(a[i]) \in Seq(Nat)
  BY <1>1, BlockIs
<1>3. Blocks(a) \in [1 .. Len(a) -> Seq(Nat)]
  BY <1>2 DEF Blocks
<1>4. Blocks(a) \in Seq(Seq(Nat)) /\ Len(Blocks(a)) = Len(a)
  BY <1>1, <1>3
<1> QED BY <1>1, <1>2, <1>4 DEF Blocks

\* f[k] are the words of the first k attributes of a.
Encodes(f, a) ==
  a \in Seq(Attr) /\ f \in [0 .. Len(a) -> Seq(Nat)] /\ Concats(f, Blocks(a))

\* Where they end in the datagram.
End(f, k) == 2 + Len(f[k])

LEMMA EncodesIs ==
  ASSUME NEW a, NEW f, Encodes(f, a)
  PROVE  /\ a \in Seq(Attr) /\ Len(a) \in Nat /\ Blocks(a) \in Seq(Seq(Nat))
         /\ \A k \in 0 .. Len(a) : f[k] \in Seq(Nat) /\ End(f, k) \in Nat
         /\ f[0] = << >> /\ End(f, 0) = 2
         /\ \A k \in 1 .. Len(a) :
              /\ k - 1 \in 0 .. Len(a) /\ k \in 0 .. Len(a) /\ a[k] \in Attr
              /\ Len(a[k].val) \in Nat
              /\ f[k] = f[k - 1] \o Block(a[k])
              /\ End(f, k) = End(f, k - 1) + 2 + Len(a[k].val)
<1>1. a \in Seq(Attr) /\ f \in [0 .. Len(a) -> Seq(Nat)] /\ Concats(f, Blocks(a))
  BY DEF Encodes
<1>2. /\ Blocks(a) \in Seq(Seq(Nat)) /\ Len(Blocks(a)) = Len(a) /\ Len(a) \in Nat
      /\ \A i \in 1 .. Len(a) : a[i] \in Attr /\ Blocks(a)[i] = Block(a[i])
  BY <1>1, BlocksAre
<1>3. \A k \in 0 .. Len(a) : f[k] \in Seq(Nat) /\ End(f, k) \in Nat
  BY <1>1 DEF End
<1>4. f[0] = << >> /\ End(f, 0) = 2
  BY <1>1 DEF Concats, End
<1>5. ASSUME NEW k \in 1 .. Len(a)
      PROVE  /\ k - 1 \in 0 .. Len(a) /\ k \in 0 .. Len(a) /\ a[k] \in Attr
             /\ Len(a[k].val) \in Nat
             /\ f[k] = f[k - 1] \o Block(a[k])
             /\ End(f, k) = End(f, k - 1) + 2 + Len(a[k].val)
  <2>1. k - 1 \in 0 .. Len(a) /\ k \in 0 .. Len(a) /\ a[k] \in Attr
    BY <1>2
  <2>2. f[k] = f[k - 1] \o Block(a[k])
    BY <1>1, <1>2 DEF Concats
  <2>3. /\ Block(a[k]) \in Seq(Nat) /\ Len(a[k].val) \in Nat
        /\ Len(Block(a[k])) = 2 + Len(a[k].val)
    BY <2>1, BlockIs
  <2>4. f[k - 1] \in Seq(Nat)
    BY <1>3, <2>1
  <2>5. PICK s \in Seq(Nat), t \in Seq(Nat), l \in Nat :
          s = f[k - 1] /\ t = Block(a[k]) /\ l = Len(a[k].val)
    BY <2>3, <2>4
  <2>6. f[k] = s \o t /\ Len(t) = 2 + l /\ Len(s) \in Nat
    BY <2>2, <2>3, <2>5
  <2>7. Len(f[k]) = Len(s) + Len(t)
    BY <2>6, ConcatIs
  <2>8. End(f, k) = 2 + Len(f[k]) /\ End(f, k - 1) = 2 + Len(s)
    BY <2>5 DEF End
  <2>9. End(f, k) = End(f, k - 1) + 2 + l
    BY <2>6, <2>7, <2>8
  <2> QED BY <2>1, <2>2, <2>3, <2>5, <2>9
<1> QED BY <1>1, <1>2, <1>3, <1>4, <1>5

LEMMA EncodesExists ==
  ASSUME NEW a \in Seq(Attr)
  PROVE  \E f : Encodes(f, a)
<1>1. Blocks(a) \in Seq(Seq(Nat)) /\ Len(Blocks(a)) = Len(a)
  BY BlocksAre
<1>2. PICK q \in Seq(Seq(Nat)) : q = Blocks(a)
  BY <1>1
<1>3. PICK f \in [0 .. Len(q) -> Seq(Nat)] : Concats(f, q)
  BY ConcatsExist
<1> QED BY <1>1, <1>2, <1>3 DEF Encodes

LEMMA EncodeIs ==
  ASSUME NEW a, NEW f, Encodes(f, a)
  PROVE  /\ Encode(a) = <<1, 0>> \o f[Len(a)]
         /\ Encode(a) \in Seq(Nat) /\ Len(Encode(a)) = End(f, Len(a))
         /\ \A i \in 1 .. Len(f[Len(a)]) : Encode(a)[2 + i] = f[Len(a)][i]
<1>1. a \in Seq(Attr) /\ f \in [0 .. Len(a) -> Seq(Nat)] /\ Concats(f, Blocks(a))
  BY DEF Encodes
<1>2. Blocks(a) \in Seq(Seq(Nat)) /\ Len(Blocks(a)) = Len(a) /\ Len(a) \in Nat
  BY <1>1, BlocksAre
<1>3. PICK q \in Seq(Seq(Nat)) : q = Blocks(a)
  BY <1>2
<1>4. FlattenSeq(q) = f[Len(q)]
  BY <1>1, <1>2, <1>3, FlattenIs
<1>5. PICK s \in Seq(Nat) : s = f[Len(a)]
  <2>1. Len(a) \in 0 .. Len(a)
    BY <1>2
  <2> QED BY <1>1, <2>1
<1>6. Encode(a) = <<1, 0>> \o s
  BY <1>2, <1>3, <1>4, <1>5 DEF Encode, Blocks, Block
<1>7. <<1, 0>> \in Seq(Nat) /\ Len(<<1, 0>>) = 2
  OBVIOUS
<1>h. PICK h \in Seq(Nat) : h = <<1, 0>> /\ Len(h) = 2
  BY <1>7
<1>8. /\ h \o s \in Seq(Nat) /\ Len(h \o s) = 2 + Len(s)
      /\ \A i \in 1 .. Len(s) : (h \o s)[2 + i] = s[i]
  BY <1>h, ConcatIs
<1> QED BY <1>5, <1>6, <1>h, <1>8 DEF End

LEMMA EncodedFirst ==
  ASSUME NEW a, NEW f, Encodes(f, a), NEW k \in 0 .. Len(a)
  PROVE  Extends(f[Len(a)], f[k])
<1>1. a \in Seq(Attr) /\ f \in [0 .. Len(a) -> Seq(Nat)] /\ Concats(f, Blocks(a))
  BY DEF Encodes
<1>2. Blocks(a) \in Seq(Seq(Nat)) /\ Len(Blocks(a)) = Len(a) /\ Len(a) \in Nat
  BY <1>1, BlocksAre
<1>3. PICK q \in Seq(Seq(Nat)) : q = Blocks(a)
  BY <1>2
<1>4. PICK m \in 0 .. Len(q) : m = Len(a) /\ k \in 0 .. Len(q) /\ k <= m
  BY <1>2, <1>3
<1>5. Extends(f[m], f[k])
  BY <1>1, <1>2, <1>3, <1>4, ConcatsGrow
<1> QED BY <1>4, <1>5

\* The first k attributes of an announcement end where an announcement of
\* them alone would.
LEMMA EncodeFirst ==
  ASSUME NEW a, NEW f, Encodes(f, a), NEW k \in 0 .. Len(a)
  PROVE  Len(Encode(SubSeq(a, 1, k))) = End(f, k)
<1>1. a \in Seq(Attr) /\ f \in [0 .. Len(a) -> Seq(Nat)] /\ Concats(f, Blocks(a))
  BY DEF Encodes
<1>2. PICK b : b = SubSeq(a, 1, k)
  OBVIOUS
<1>3. /\ b \in Seq(Attr) /\ Len(b) = k /\ Len(a) \in Nat /\ k \in Nat /\ k <= Len(a)
      /\ \A i \in 1 .. k : b[i] = a[i]
  BY <1>1, <1>2
<1>4. PICK g : g = [i \in 0 .. k |-> f[i]]
  OBVIOUS
<1>5. g \in [0 .. k -> Seq(Nat)]
  BY <1>1, <1>3, <1>4, SMTT(30)
<1>6. Concats(g, Blocks(b))
  <2>1. g[0] = << >>
    BY <1>1, <1>3, <1>4 DEF Concats
  <2>2. Len(Blocks(b)) = k /\ \A i \in 1 .. k : Blocks(b)[i] = Block(b[i])
    BY <1>3, BlocksAre
  <2>3. ASSUME NEW i \in 1 .. k
        PROVE  g[i] = g[i - 1] \o Blocks(b)[i]
    <3>1. i \in 1 .. Len(a) /\ i \in 0 .. k /\ i - 1 \in 0 .. k
      BY <1>3
    <3>2. f[i] = f[i - 1] \o Block(a[i])
      BY <3>1, EncodesIs
    <3> QED BY <1>3, <1>4, <2>2, <3>1, <3>2
  <2> QED BY <2>1, <2>2, <2>3 DEF Concats
<1>7. Encodes(g, b)
  BY <1>3, <1>5, <1>6 DEF Encodes
<1>8. Len(Encode(b)) = End(g, k)
  BY <1>3, <1>7, EncodeIs
<1>9. g[k] = f[k]
  BY <1>3, <1>4
<1> QED BY <1>2, <1>8, <1>9 DEF End

\* Offsets grow, by a header at least.
LEMMA EndsGrow ==
  ASSUME NEW a, NEW f, Encodes(f, a), NEW k \in 0 .. Len(a)
  PROVE  End(f, k) >= 2 + k /\ End(f, k) <= End(f, Len(a))
<1> DEFINE S == {x \in Nat : x <= Len(a) => End(f, x) >= 2 + x}
<1>0. Len(a) \in Nat /\ k \in Nat /\ k <= Len(a)
  BY EncodesIs
<1>1. 0 \in S
  <2>1. End(f, 0) = 2
    BY EncodesIs
  <2> QED BY <2>1
<1>2. ASSUME NEW x \in S PROVE x + 1 \in S
  <2>0. x \in Nat
    OBVIOUS
  <2> SUFFICES ASSUME x + 1 <= Len(a) PROVE End(f, x + 1) >= 2 + (x + 1)
    BY <2>0
  <2>1. PICK j \in 1 .. Len(a) : j = x + 1
    BY <1>0, <2>0
  <2>2. End(f, j) = End(f, j - 1) + 2 + Len(a[j].val) /\ Len(a[j].val) \in Nat
        /\ j - 1 \in 0 .. Len(a)
    BY EncodesIs
  <2>3. j - 1 = x /\ x <= Len(a)
    BY <1>0, <2>0, <2>1
  <2>4. End(f, x) \in Nat /\ End(f, x) >= 2 + x
    BY <2>2, <2>3, EncodesIs
  <2>5. PICK l \in Nat : l = Len(a[j].val)
    BY <2>2
  <2>6. End(f, j) = End(f, x) + 2 + l
    BY <2>2, <2>3, <2>5
  <2>7. End(f, j) >= 2 + (x + 1)
    BY <2>0, <2>4, <2>6
  <2> QED BY <2>1, <2>7
<1>3. S = Nat
  <2> HIDE DEF S
  <2>1. S \in SUBSET Nat
    BY DEF S
  <2> QED BY <1>1, <1>2, <2>1, SetInduction
<1>4. End(f, k) >= 2 + k
  <2>1. k \in S
    <3> HIDE DEF S
    <3> QED BY <1>0, <1>3
  <2> QED BY <1>0, <2>1
<1>5. End(f, k) <= End(f, Len(a))
  <2>1. Extends(f[Len(a)], f[k])
    BY EncodedFirst
  <2>2. f[k] \in Seq(Nat) /\ f[Len(a)] \in Seq(Nat)
    <3>1. Len(a) \in 0 .. Len(a)
      BY <1>0
    <3> QED BY <3>1, EncodesIs
  <2>3. Len(f[k]) \in Nat /\ Len(f[Len(a)]) \in Nat
    BY <2>2
  <2> QED BY <2>1, <2>3 DEF Extends, End
<1> QED BY <1>4, <1>5

LEMMA EndsBelow ==
  ASSUME NEW a, NEW f, Encodes(f, a), NEW k \in 0 .. Len(a), NEW m \in 0 .. Len(a),
         k <= m
  PROVE  End(f, k) <= End(f, m)
<1>1. PICK q \in Seq(Seq(Nat)) : q = Blocks(a) /\ Len(q) = Len(a)
  BY BlocksAre DEF Encodes
<1>2. f \in [0 .. Len(q) -> Seq(Nat)] /\ Concats(f, q) /\ k \in 0 .. Len(q) /\ m \in 0 .. Len(q)
  BY <1>1 DEF Encodes
<1>3. Extends(f[m], f[k])
  BY <1>2, ConcatsGrow
<1>4. Len(f[k]) \in Nat /\ Len(f[m]) \in Nat
  BY <1>2
<1> QED BY <1>3, <1>4 DEF Extends, End

LEMMA NatPieceIs ==
  ASSUME NEW s \in Seq(Nat), NEW c \in Nat, NEW l \in Nat, c + l <= Len(s)
  PROVE  /\ SubSeq(s, c + 1, c + l) \in Seq(Nat)
         /\ Len(SubSeq(s, c + 1, c + l)) = l
         /\ \A i \in 1 .. l : SubSeq(s, c + 1, c + l)[i] = s[c + i]
BY SMTT(60)

\* The words of the k-th attribute, in the datagram.
AttrAt(w, e, x) ==
  /\ w[e + 1] = x.type /\ w[e + 2] = Len(x.val)
  /\ \A i \in 1 .. Len(x.val) : w[(e + 2) + i] = x.val[i]

LEMMA WordsAt ==
  ASSUME NEW a, NEW f, Encodes(f, a), NEW k \in 1 .. Len(a),
         NEW e \in Nat, e = End(f, k - 1)
  PROVE  AttrAt(Encode(a), e, a[k])
<1>1. PICK b \in Seq(Nat), s \in Seq(Nat), t \in Seq(Nat), l \in Nat, w \in {a[k].val} :
        /\ b = Block(a[k]) /\ s = f[k - 1] /\ t = f[Len(a)]
        /\ l = Len(a[k].val) /\ w = a[k].val
  <2>1. a[k] \in Attr /\ Len(a[k].val) \in Nat
    BY EncodesIs
  <2>2. k - 1 \in 0 .. Len(a) /\ Len(a) \in 0 .. Len(a)
    BY EncodesIs
  <2>3. Block(a[k]) \in Seq(Nat)
    BY <2>1, BlockIs
  <2>4. f[k - 1] \in Seq(Nat) /\ f[Len(a)] \in Seq(Nat)
    BY <2>2, EncodesIs
  <2> QED BY <2>1, <2>3, <2>4
<1>2. /\ Len(b) = 2 + l /\ b[1] = a[k].type /\ b[2] = l
      /\ \A i \in 1 .. l : b[2 + i] = w[i]
  BY <1>1, BlockIs, EncodesIs
<1>3. Extends(t, s \o b)
  <2>1. k \in 0 .. Len(a) /\ f[k] = f[k - 1] \o Block(a[k])
    BY EncodesIs
  <2>2. Extends(f[Len(a)], f[k])
    BY <2>1, EncodedFirst
  <2> QED BY <1>1, <2>1, <2>2
<1>4. e = 2 + Len(s) /\ Len(s) \in Nat
  BY <1>1 DEF End
<1>5. \A i \in 1 .. Len(t) : Encode(a)[2 + i] = t[i]
  BY <1>1, EncodeIs
<1>6. ASSUME NEW i \in 1 .. Len(b)
      PROVE  Encode(a)[e + i] = b[i]
  <2>1. /\ Len(s \o b) = Len(s) + Len(b) /\ Len(b) \in Nat
        /\ (s \o b)[Len(s) + i] = b[i]
    BY ConcatIs
  <2>2. PICK j \in Nat : j = Len(s) + i
    BY <1>4, <2>1
  <2>i. i \in Nat /\ 1 <= i /\ i <= Len(b)
    BY <2>1
  <2>n. PICK n \in Nat, r \in Nat : n = Len(s) /\ r = Len(b)
    BY <1>4, <2>1
  <2>r. Len(s \o b) = n + r
    BY <2>1, <2>n
  <2>u. e = 2 + n /\ j = n + i /\ i <= r
    BY <1>4, <2>2, <2>i, <2>n
  <2>t. j \in 1 .. n + r
    BY <2>i, <2>u
  <2>v. 2 + j = e + i
    <3>1. \A x, y \in Nat : 2 + (x + y) = (2 + x) + y
      OBVIOUS
    <3> QED BY <2>i, <2>u, <3>1, ZenonT(30)
  <2>3. j \in 1 .. Len(s \o b) /\ 2 + j = e + i
    BY <2>r, <2>t, <2>v, Zenon
  <2>4. t[j] = b[i] /\ Len(s \o b) <= Len(t)
    BY <1>3, <2>1, <2>2, <2>3 DEF Extends
  <2>5. j \in 1 .. Len(t)
    BY <1>4, <2>1, <2>2, <2>3, <2>4
  <2>6. Encode(a)[2 + j] = b[i]
    BY <1>5, <2>4, <2>5
  <2> QED BY <2>3, <2>6
<1>7. Encode(a)[e + 1] = a[k].type /\ Encode(a)[e + 2] = l
  <2>1. 1 \in 1 .. Len(b) /\ 2 \in 1 .. Len(b)
    BY <1>2
  <2> QED BY <1>2, <1>6, <2>1
<1>8. ASSUME NEW i \in 1 .. l
      PROVE  Encode(a)[(e + 2) + i] = w[i]
  <2>1. 2 + i \in 1 .. Len(b) /\ e + (2 + i) = (e + 2) + i
    BY <1>2
  <2>2. Encode(a)[e + (2 + i)] = b[2 + i]
    BY <1>6, <2>1
  <2> QED BY <1>2, <2>1, <2>2
<1> QED BY <1>1, <1>7, <1>8 DEF AttrAt

\* buf is the start of what the device sent.
Starts(buf, a) ==
  /\ buf \in Seq(Nat) /\ Len(buf) \in Nat /\ Len(buf) <= Len(Encode(a))
  /\ \A i \in 1 .. Len(buf) : buf[i] = Encode(a)[i]

\* One turn of the loop reads the next attribute.
LEMMA TurnReads ==
  ASSUME NEW a, NEW f, Encodes(f, a), NEW buf, Starts(buf, a),
         NEW k \in 1 .. Len(a), End(f, k) <= Len(buf), NEW p
  PROVE  nextAttr(buf, [off |-> End(f, k - 1), pkt |-> p])
           = [off |-> End(f, k), pkt |-> setAttr(p, a[k])]
<1>1. PICK e \in Nat, l \in Nat, x \in Attr, b \in Nat, m \in Nat :
        /\ e = End(f, k - 1) /\ l = Len(a[k].val) /\ x = a[k] /\ b = End(f, k)
        /\ m = Len(buf)
  <2>1. /\ k - 1 \in 0 .. Len(a) /\ k \in 0 .. Len(a) /\ a[k] \in Attr
        /\ Len(a[k].val) \in Nat
    BY EncodesIs
  <2>2. End(f, k - 1) \in Nat /\ End(f, k) \in Nat
    BY <2>1, EncodesIs
  <2> QED BY <2>1, <2>2 DEF Starts
<1>2. b = (e + 2) + l
  <2>1. End(f, k) = End(f, k - 1) + 2 + Len(a[k].val)
    BY EncodesIs
  <2> QED BY <1>1, <2>1
<1>3. b <= m
  BY <1>1
<1>4. /\ Encode(a)[e + 1] = x.type /\ Encode(a)[e + 2] = l
      /\ \A i \in 1 .. l : Encode(a)[(e + 2) + i] = x.val[i]
  <2>1. AttrAt(Encode(a), e, a[k])
    BY <1>1, WordsAt
  <2> QED BY <1>1, <2>1, Zenon DEF AttrAt
<1>5. \A i \in 1 .. m : buf[i] = Encode(a)[i]
  BY <1>1 DEF Starts
<1>6. buf[e + 1] = x.type /\ buf[e + 2] = l
  <2>1. e + 1 \in 1 .. m /\ e + 2 \in 1 .. m
    BY <1>2, <1>3
  <2> QED BY <1>4, <1>5, <2>1
<1>7. SubSeq(buf, (e + 2) + 1, (e + 2) + l) = x.val
  <2>1. PICK s : s = SubSeq(buf, (e + 2) + 1, (e + 2) + l)
    OBVIOUS
  <2>2. PICK c \in Nat : c = e + 2
    OBVIOUS
  <2>3. buf \in Seq(Nat) /\ c + l <= Len(buf)
    BY <1>1, <1>2, <1>3, <2>2 DEF Starts
  <2>4. /\ SubSeq(buf, c + 1, c + l) \in Seq(Nat)
        /\ Len(SubSeq(buf, c + 1, c + l)) = l
        /\ \A i \in 1 .. l : SubSeq(buf, c + 1, c + l)[i] = buf[c + i]
    BY <2>3, NatPieceIs
  <2>5. s \in Seq(Nat) /\ Len(s) = l /\ \A i \in 1 .. l : s[i] = buf[c + i]
    BY <2>1, <2>2, <2>4
  <2>6. ASSUME NEW i \in 1 .. l PROVE s[i] = x.val[i]
    <3>1. c + i \in 1 .. m
      BY <1>1, <2>3
    <3>2. buf[c + i] = Encode(a)[c + i]
      BY <1>5, <3>1
    <3> QED BY <1>4, <2>2, <2>5, <3>2
  <2>7. x.val \in Seq(Nat) /\ Len(x.val) = l
    BY <1>1 DEF Attr
  <2> QED BY <2>1, <2>5, <2>6, <2>7
<1>8. [type |-> buf[e + 1], val |-> SubSeq(buf, (e + 2) + 1, (e + 2) + l)] = x
  BY <1>6, <1>7 DEF Attr
<1>9. ~(m - e < 2) /\ ~(l > m - (e + 2))
  BY <1>2, <1>3
<1>a. PICK at : at = [off |-> e, pkt |-> p]
  OBVIOUS
<1>10. at = [off |-> e, pkt |-> p] /\ at.off = e /\ at.pkt = p
  BY <1>a
<1>11. nextAttr(buf, at)
         = IF m - e < 2 \/ l > m - (e + 2) THEN at
           ELSE [off |-> (e + 2) + l,
                 pkt |-> setAttr(p, [type |-> buf[e + 1],
                           val |-> SubSeq(buf, (e + 2) + 1, (e + 2) + l)])]
  BY <1>1, <1>6, <1>10 DEF nextAttr, attrHeaderLen
<1>12. nextAttr(buf, at) = [off |-> b, pkt |-> setAttr(p, x)]
  BY <1>2, <1>8, <1>9, <1>11, Zenon
<1> QED BY <1>1, <1>10, <1>12

\* It stops after the last attribute that arrived whole.
LEMMA TurnStops ==
  ASSUME NEW a, NEW f, Encodes(f, a), NEW buf, Starts(buf, a),
         NEW k \in 0 .. Len(a), End(f, k) <= Len(buf),
         k = Len(a) \/ End(f, k + 1) > Len(buf), NEW p
  PROVE  nextAttr(buf, [off |-> End(f, k), pkt |-> p]) = [off |-> End(f, k), pkt |-> p]
<1>1. PICK e \in Nat, m \in Nat : e = End(f, k) /\ m = Len(buf)
  BY EncodesIs DEF Starts
<1>2. m - e < 2 \/ buf[e + 2] > m - (e + 2)
  <2>1. CASE k = Len(a)
    <3>1. m <= e
      BY <1>1, <2>1, EncodeIs DEF Starts
    <3> QED BY <3>1
  <2>2. CASE k # Len(a) /\ ~(m - e < 2)
    <3>0. Len(a) \in Nat
      BY EncodesIs
    <3>1. PICK j \in 1 .. Len(a) : j = k + 1 /\ j - 1 = k
      BY <2>2, <3>0
    <3>2. /\ End(f, j) = End(f, j - 1) + 2 + Len(a[j].val) /\ Len(a[j].val) \in Nat
      BY EncodesIs
    <3>3. PICK l \in Nat : l = Len(a[j].val)
      BY <3>2
    <3>4. End(f, j) = e + 2 + l /\ End(f, j) > m
      BY <1>1, <2>2, <3>1, <3>2, <3>3
    <3>5. Encode(a)[e + 2] = l
      BY <1>1, <3>1, <3>3, WordsAt, ZenonT(30) DEF AttrAt
    <3>6. e + 2 \in 1 .. m
      BY <2>2
    <3>7. buf[e + 2] = l
      BY <1>1, <3>5, <3>6 DEF Starts
    <3> QED BY <3>4, <3>7
  <2> QED BY <2>1, <2>2
<1>a. PICK at : at = [off |-> e, pkt |-> p]
  OBVIOUS
<1>3. at = [off |-> e, pkt |-> p] /\ at.off = e
  BY <1>a
<1>4. nextAttr(buf, at) = at
  BY <1>1, <1>2, <1>3 DEF nextAttr, attrHeaderLen
<1> QED BY <1>1, <1>3, <1>4

\* The last of the first k attributes with a type and enough words, or 0.
LastIn(a, k, type, len) ==
  Max({0} \cup {i \in 1 .. k : a[i].type = type /\ Len(a[i].val) >= len})

LEMMA LastInIs ==
  ASSUME NEW a, NEW k \in Nat, NEW type, NEW len
  PROVE  /\ LastIn(a, k, type, len) \in 0 .. k
         /\ LastIn(a, k, type, len) # 0 =>
              /\ a[LastIn(a, k, type, len)].type = type
              /\ Len(a[LastIn(a, k, type, len)].val) >= len
         /\ \A i \in 1 .. k : a[i].type = type /\ Len(a[i].val) >= len =>
              i <= LastIn(a, k, type, len)
<1>1. PICK T : T = {0} \cup {i \in 1 .. k : a[i].type = type /\ Len(a[i].val) >= len}
  OBVIOUS
<1>2. T \in SUBSET (0 .. k) /\ 0 \in T
  BY <1>1
<1>3. PICK x : x = Max(T)
  OBVIOUS
<1>4. x \in T /\ \A y \in T : y <= x
  BY <1>2, <1>3, MaxIs
<1>5. LastIn(a, k, type, len) = x
  BY <1>1, <1>3 DEF LastIn
<1>6. /\ x \in 0 .. k /\ (x # 0 => a[x].type = type /\ Len(a[x].val) >= len)
      /\ \A i \in 1 .. k : a[i].type = type /\ Len(a[i].val) >= len => i <= x
  BY <1>1, <1>2, <1>4
<1> QED BY <1>5, <1>6

LEMMA LastInStep ==
  ASSUME NEW a, NEW k \in Nat \ {0}, NEW type, NEW len
  PROVE  LastIn(a, k, type, len) =
           IF a[k].type = type /\ Len(a[k].val) >= len THEN k
           ELSE LastIn(a, k - 1, type, len)
<1> DEFINE Fits(i) == a[i].type = type /\ Len(a[i].val) >= len
<1>1. PICK x, y : x = LastIn(a, k, type, len) /\ y = LastIn(a, k - 1, type, len)
  OBVIOUS
<1>2. x \in 0 .. k /\ (x # 0 => Fits(x)) /\ \A i \in 1 .. k : Fits(i) => i <= x
  BY <1>1, LastInIs
<1>3. k - 1 \in Nat
  OBVIOUS
<1>4. /\ y \in 0 .. k - 1 /\ (y # 0 => Fits(y))
      /\ \A i \in 1 .. k - 1 : Fits(i) => i <= y
  BY <1>1, <1>3, LastInIs
<1> HIDE DEF Fits
<1>5. CASE Fits(k)
  <2>1. k \in 1 .. k
    OBVIOUS
  <2>2. k <= x
    BY <1>2, <1>5, <2>1
  <2>3. x = k
    BY <1>2, <2>2
  <2> QED BY <1>1, <1>5, <2>3 DEF Fits
<1>6. CASE ~Fits(k)
  <2>1. x # k
    BY <1>2, <1>6
  <2>2. x # 0 => x \in 1 .. k - 1 /\ Fits(x)
    BY <1>2, <2>1
  <2>3. y # 0 => y \in 1 .. k
    BY <1>4
  <2>4. x # 0 => x <= y
    BY <1>4, <2>2
  <2>5. y # 0 => y <= x
    BY <1>2, <1>4, <2>3
  <2>6. x = y
    BY <1>2, <1>4, <2>4, <2>5
  <2> QED BY <1>1, <1>6, <2>6 DEF Fits
<1> QED BY <1>5, <1>6

\* What the first k attributes say.
ReadOf(a, k) ==
  LET m == LastIn(a, k, attrAddress, macLen)
      n == LastIn(a, k, attrIdentity, 0)
      u == LastIn(a, k, attrTimestamp, uptimeLen)
  IN [ok       |-> TRUE,
      mac      |-> IF m = 0 THEN NoMAC ELSE SubSeq(a[m].val, 1, macLen),
      identity |-> IF n = 0 THEN << >> ELSE clipString(a[n].val),
      uptime   |-> IF u = 0 THEN 0 ELSE littleEndian(a[u].val)]

LEMMA ReadOfNone == \A a : ReadOf(a, 0) = emptyPacket
<1>1. \A a, t, l : LastIn(a, 0, t, l) = 0
  <2>1. 0 .. 0 = {0} /\ 0 \in Nat
    OBVIOUS
  <2> QED BY <2>1, LastInIs
<1> QED BY <1>1 DEF ReadOf, emptyPacket

LEMMA ExceptIs ==
  ASSUME NEW b, NEW m, NEW i, NEW u, NEW v, NEW p,
         p = [ok |-> b, mac |-> m, identity |-> i, uptime |-> u]
  PROVE  /\ [p EXCEPT !.mac = v] = [ok |-> b, mac |-> v, identity |-> i, uptime |-> u]
         /\ [p EXCEPT !.identity = v] = [ok |-> b, mac |-> m, identity |-> v, uptime |-> u]
         /\ [p EXCEPT !.uptime = v] = [ok |-> b, mac |-> m, identity |-> i, uptime |-> v]
BY SMT

LEMMA ReadOfStep ==
  ASSUME NEW a \in Seq(Attr), NEW k \in 1 .. Len(a)
  PROVE  ReadOf(a, k) = setAttr(ReadOf(a, k - 1), a[k])
<1>0. k \in Nat \ {0} /\ a[k] \in Attr /\ Len(a[k].val) \in Nat
  <2>1. k \in Nat \ {0} /\ a[k] \in Attr
    OBVIOUS
  <2> QED BY <2>1, BlockIs
<1>1. PICK x : x = a[k]
  OBVIOUS
<1>2. PICK m, n, u, mm, nn, uu :
        /\ m = LastIn(a, k - 1, attrAddress, macLen)
        /\ n = LastIn(a, k - 1, attrIdentity, 0)
        /\ u = LastIn(a, k - 1, attrTimestamp, uptimeLen)
        /\ mm = LastIn(a, k, attrAddress, macLen)
        /\ nn = LastIn(a, k, attrIdentity, 0)
        /\ uu = LastIn(a, k, attrTimestamp, uptimeLen)
  OBVIOUS
<1>3. /\ mm = IF x.type = attrAddress /\ Len(x.val) >= macLen THEN k ELSE m
      /\ nn = IF x.type = attrIdentity /\ Len(x.val) >= 0 THEN k ELSE n
      /\ uu = IF x.type = attrTimestamp /\ Len(x.val) >= uptimeLen THEN k ELSE u
  BY <1>0, <1>1, <1>2, LastInStep, SMTT(30)
<1>4. Len(x.val) >= 0 /\ k # 0
  BY <1>0, <1>1
<1>5. PICK M, I, U :
        /\ M = IF m = 0 THEN NoMAC ELSE SubSeq(a[m].val, 1, macLen)
        /\ I = IF n = 0 THEN << >> ELSE clipString(a[n].val)
        /\ U = IF u = 0 THEN 0 ELSE littleEndian(a[u].val)
  OBVIOUS
<1>6. PICK b, p : b = TRUE /\ p = [ok |-> b, mac |-> M, identity |-> I, uptime |-> U]
  OBVIOUS
<1>p. p = [ok |-> b, mac |-> M, identity |-> I, uptime |-> U]
  BY <1>6
<1>7. ReadOf(a, k - 1) = p
  BY <1>2, <1>5, <1>6, Zenon DEF ReadOf
<1>8. ReadOf(a, k) =
        [ok       |-> TRUE,
         mac      |-> IF mm = 0 THEN NoMAC ELSE SubSeq(a[mm].val, 1, macLen),
         identity |-> IF nn = 0 THEN << >> ELSE clipString(a[nn].val),
         uptime   |-> IF uu = 0 THEN 0 ELSE littleEndian(a[uu].val)]
  BY <1>2, Zenon DEF ReadOf
<1>9. ReadOf(a, k) =
        [ok       |-> TRUE,
         mac      |-> IF x.type = attrAddress /\ Len(x.val) >= macLen
                        THEN SubSeq(x.val, 1, macLen) ELSE M,
         identity |-> IF x.type = attrIdentity THEN clipString(x.val) ELSE I,
         uptime   |-> IF x.type = attrTimestamp /\ Len(x.val) >= uptimeLen
                        THEN littleEndian(x.val) ELSE U]
  BY <1>1, <1>3, <1>4, <1>5, <1>8
<1>10. setAttr(p, x) =
        [ok       |-> TRUE,
         mac      |-> IF x.type = attrAddress /\ Len(x.val) >= macLen
                        THEN SubSeq(x.val, 1, macLen) ELSE M,
         identity |-> IF x.type = attrIdentity THEN clipString(x.val) ELSE I,
         uptime   |-> IF x.type = attrTimestamp /\ Len(x.val) >= uptimeLen
                        THEN littleEndian(x.val) ELSE U]
  <2>0. attrAddress # attrIdentity /\ attrIdentity # attrTimestamp /\ attrAddress # attrTimestamp
    BY DEF attrAddress, attrIdentity, attrTimestamp
  <2>1. CASE x.type = attrAddress /\ Len(x.val) >= macLen
    <3>1. setAttr(p, x) = [p EXCEPT !.mac = SubSeq(x.val, 1, macLen)]
      BY <2>0, <2>1, Zenon DEF setAttr
    <3>2. x.type # attrIdentity /\ x.type # attrTimestamp
      BY <2>0, <2>1
    <3>v. PICK v : v = SubSeq(x.val, 1, macLen)
      OBVIOUS
    <3>3. [p EXCEPT !.mac = v] = [ok |-> b, mac |-> v, identity |-> I, uptime |-> U]
      BY <1>p, ExceptIs, SMT
    <3> QED BY <1>6, <2>1, <3>1, <3>2, <3>v, <3>3, Zenon
  <2>2. CASE x.type = attrIdentity
    <3>1. setAttr(p, x) = [p EXCEPT !.identity = clipString(x.val)]
      BY <2>0, <2>2, Zenon DEF setAttr
    <3>2. x.type # attrAddress /\ x.type # attrTimestamp
      BY <2>0, <2>2
    <3>3. [p EXCEPT !.identity = clipString(x.val)] =
            [ok |-> b, mac |-> M, identity |-> clipString(x.val), uptime |-> U]
      BY <1>p, ExceptIs, SMT
    <3> QED BY <1>6, <2>2, <3>1, <3>2, <3>3, Zenon
  <2>3. CASE x.type = attrTimestamp /\ Len(x.val) >= uptimeLen
    <3>1. setAttr(p, x) = [p EXCEPT !.uptime = littleEndian(x.val)]
      BY <2>0, <2>3, Zenon DEF setAttr
    <3>2. x.type # attrAddress /\ x.type # attrIdentity
      BY <2>0, <2>3
    <3>3. [p EXCEPT !.uptime = littleEndian(x.val)] =
            [ok |-> b, mac |-> M, identity |-> I, uptime |-> littleEndian(x.val)]
      BY <1>p, ExceptIs, SMT
    <3> QED BY <1>6, <2>3, <3>1, <3>2, <3>3, Zenon
  <2>4. CASE /\ ~(x.type = attrAddress /\ Len(x.val) >= macLen)
             /\ x.type # attrIdentity
             /\ ~(x.type = attrTimestamp /\ Len(x.val) >= uptimeLen)
    <3>1. setAttr(p, x) = p
      BY <2>4, Zenon DEF setAttr
    <3> QED BY <1>6, <2>4, <3>1, Zenon
  <2> QED BY <2>1, <2>2, <2>3, <2>4
<1> QED BY <1>1, <1>7, <1>9, <1>10

\* ParsePacket reads the attributes that arrived whole.
LEMMA ParseIs ==
  ASSUME NEW a, NEW f, Encodes(f, a), NEW buf, Starts(buf, a),
         Len(buf) >= minPacketLen, NEW K \in 0 .. Len(a),
         End(f, K) <= Len(buf), K = Len(a) \/ End(f, K + 1) > Len(buf)
  PROVE  ParsePacket(buf) = ReadOf(a, K)
<1>0. PICK m \in Nat : m = Len(buf)
  BY DEF Starts
<1>1. K <= m /\ K \in Nat /\ Len(a) \in Nat /\ K <= Len(a)
  <2>1. End(f, K) >= 2 + K /\ End(f, K) \in Nat /\ Len(a) \in Nat
    BY EndsGrow, EncodesIs
  <2> QED BY <1>0, <2>1
<1>2. PICK At : At = [k \in 0 .. Len(a) |-> [off |-> End(f, k), pkt |-> ReadOf(a, k)]]
  OBVIOUS
<1>3. PICK g : g = [k \in 0 .. m |-> IF k <= K THEN At[k] ELSE At[K]]
  OBVIOUS
<1> DEFINE Step(h) == [k \in 0 .. m |->
             IF k = 0 THEN [off |-> headerLen, pkt |-> emptyPacket]
             ELSE nextAttr(buf, h[k - 1])]
<1>4. At[0] = [off |-> headerLen, pkt |-> emptyPacket]
  <2>1. At[0] = [off |-> End(f, 0), pkt |-> ReadOf(a, 0)]
    BY <1>1, <1>2
  <2> QED BY <2>1, ReadOfNone, EncodesIs DEF headerLen
<1>5. ASSUME NEW k \in 1 .. Len(a), k <= K
      PROVE  nextAttr(buf, At[k - 1]) = At[k]
  <2>1. k \in 0 .. Len(a) /\ k - 1 \in 0 .. Len(a)
    BY <1>1
  <2>2. End(f, k) <= Len(buf)
    <3>1. End(f, k) <= End(f, K)
      BY <1>1, <1>5, EndsBelow
    <3>2. End(f, k) \in Nat /\ End(f, K) \in Nat
      BY <2>1, EncodesIs
    <3> QED BY <1>0, <3>1, <3>2
  <2>3. nextAttr(buf, [off |-> End(f, k - 1), pkt |-> ReadOf(a, k - 1)])
          = [off |-> End(f, k), pkt |-> setAttr(ReadOf(a, k - 1), a[k])]
    BY <2>2, TurnReads
  <2>4. ReadOf(a, k) = setAttr(ReadOf(a, k - 1), a[k])
    BY EncodesIs, ReadOfStep
  <2> QED BY <1>2, <2>1, <2>3, <2>4
<1>6. nextAttr(buf, At[K]) = At[K]
  BY <1>2, TurnStops
<1>7. g = Step(g)
  <2>1. ASSUME NEW k \in 0 .. m
        PROVE  g[k] = IF k = 0 THEN [off |-> headerLen, pkt |-> emptyPacket]
                      ELSE nextAttr(buf, g[k - 1])
    <3>1. CASE k = 0
      <4>1. g[k] = At[0]
        BY <1>1, <1>3, <3>1
      <4> QED BY <1>4, <3>1, <4>1
    <3>2. CASE k # 0 /\ k <= K
      <4>1. k \in 1 .. Len(a) /\ k - 1 \in 0 .. m /\ k - 1 <= K
        BY <1>1, <3>2
      <4>2. g[k] = At[k] /\ g[k - 1] = At[k - 1]
        BY <1>3, <3>2, <4>1
      <4> QED BY <1>5, <3>2, <4>1, <4>2
    <3>3. CASE k # 0 /\ ~(k <= K)
      <4>1. k - 1 \in 0 .. m /\ (k - 1 <= K => k - 1 = K)
        BY <1>1, <3>3
      <4>2. g[k] = At[K] /\ g[k - 1] = At[K]
        BY <1>3, <3>3, <4>1
      <4> QED BY <1>6, <3>3, <4>2
    <3> QED BY <3>1, <3>2, <3>3
  <2> QED BY <1>3, <2>1
<1>8. PICK h : h = Step(h) /\ ParsePacket(buf) = h[m].pkt
  <2>1. ~(Len(buf) < minPacketLen)
    BY <1>0, MndpAssumption
  <2> QED BY <1>0, <1>7, <2>1 DEF ParsePacket
<1>9. h[m] = g[m]
  <2> DEFINE S == {k \in Nat : k <= m => h[k] = g[k]}
  <2>1. 0 \in S
    BY <1>7, <1>8
  <2>2. ASSUME NEW k \in S PROVE k + 1 \in S
    <3>0. k \in Nat
      OBVIOUS
    <3> SUFFICES ASSUME k + 1 <= m PROVE h[k + 1] = g[k + 1]
      BY <3>0
    <3>1. /\ k + 1 \in 0 .. m /\ k + 1 # 0 /\ (k + 1) - 1 = k /\ h[k] = g[k]
      BY <3>0
    <3>2. h[k + 1] = nextAttr(buf, h[k])
      BY <1>8, <3>1
    <3>3. g[k + 1] = nextAttr(buf, g[k])
      BY <1>7, <3>1
    <3> QED BY <3>1, <3>2, <3>3
  <2>3. S = Nat
    <3> HIDE DEF S
    <3>1. S \in SUBSET Nat
      BY DEF S
    <3> QED BY <2>1, <2>2, <3>1, SetInduction
  <2>4. m \in S
    <3> HIDE DEF S
    <3> QED BY <2>3
  <2> QED BY <2>4
<1>10. g[m] = At[K]
  <2>1. m \in 0 .. m /\ (m <= K => m = K)
    BY <1>1
  <2> QED BY <1>3, <2>1
<1> QED BY <1>1, <1>2, <1>8, <1>9, <1>10

LEMMA ArrivedIs ==
  ASSUME NEW d \in Datagram
  PROVE  /\ d.attrs \in Seq(Attr)
         /\ Starts(SubSeq(d.words, 1, Arrived(d)), d.attrs)
         /\ Len(SubSeq(d.words, 1, Arrived(d))) = Arrived(d)
<1>1. PICK a \in Announcements, n \in Cuts :
        n <= Len(Encode(a)) /\ d.attrs = a /\ d.words = SubSeq(Encode(a), 1, n)
  <2>1. PICK a \in Announcements : d \in DatagramsOf(a)
    BY DEF Datagram
  <2> QED BY <2>1 DEF DatagramsOf
<1>2. a \in Seq(Attr) /\ n \in Nat /\ maxPacketBuf \in Nat
  BY MndpAssumption DEF MndpAssumption, Attr
<1>3. PICK f : Encodes(f, a)
  BY <1>2, EncodesExists
<1>4. PICK w \in Seq(Nat) : w = Encode(a)
  BY <1>3, EncodeIs
<1>5. PICK s : s = SubSeq(w, 1, n)
  OBVIOUS
<1>6. /\ s \in Seq(Nat) /\ Len(s) = n /\ \A i \in 1 .. n : s[i] = w[i]
      /\ n <= Len(w) /\ Len(w) \in Nat
  BY <1>1, <1>2, <1>4, <1>5
<1>7. PICK m : m = Min({Len(s), maxPacketBuf})
  OBVIOUS
<1>8. m \in {n, maxPacketBuf} /\ m <= n
  BY <1>2, <1>6, <1>7, MinOfTwo
<1>9. d.words = s /\ Arrived(d) = m
  BY <1>1, <1>4, <1>5, <1>7 DEF Arrived
<1>10. PICK b : b = SubSeq(s, 1, m)
  OBVIOUS
<1>11. m \in Nat /\ m <= Len(s)
  BY <1>2, <1>6, <1>8
<1>12. b \in Seq(Nat) /\ Len(b) = m /\ \A i \in 1 .. m : b[i] = s[i]
  BY <1>6, <1>10, <1>11
<1>13. Starts(b, a)
  <2>1. m <= Len(w)
    BY <1>2, <1>6, <1>11
  <2>2. \A i \in 1 .. m : i \in 1 .. n
    BY <1>2, <1>6, <1>11
  <2> QED BY <1>4, <1>6, <1>11, <1>12, <2>1, <2>2 DEF Starts
<1> QED BY <1>1, <1>2, <1>9, <1>10, <1>12, <1>13

\* How many attributes arrived whole.
LEMMA WholeIs ==
  ASSUME NEW d \in Datagram, NEW f, Encodes(f, d.attrs), Arrived(d) >= minPacketLen
  PROVE  /\ Whole(d) \in 0 .. Len(d.attrs) /\ End(f, Whole(d)) <= Arrived(d)
         /\ Whole(d) = Len(d.attrs) \/ End(f, Whole(d) + 1) > Arrived(d)
<1>0. PICK l \in Nat, m \in Nat : l = Len(d.attrs) /\ m = Arrived(d)
  BY ArrivedIs DEF Starts
<1>1. PICK T : T = {0} \cup {n \in 1 .. l : End(f, n) <= m}
  OBVIOUS
<1>2. \A n \in 1 .. l : Len(Encode(SubSeq(d.attrs, 1, n))) = End(f, n)
  BY <1>0, EncodeFirst
<1>3. Whole(d) = Max(T)
  BY <1>0, <1>1, <1>2 DEF Whole
<1>4. PICK K : K = Max(T)
  OBVIOUS
<1>5. K \in T /\ \A y \in T : y <= K
  <2>1. T \in SUBSET (0 .. l) /\ 0 \in T
    BY <1>1
  <2> QED BY <1>4, <2>1, MaxIs
<1>6. K \in 0 .. l
  BY <1>1, <1>5
<1>7. End(f, K) <= m
  <2>1. CASE K = 0
    <3>1. End(f, K) = 2
      BY <2>1, EncodesIs
    <3> QED BY <1>0, <3>1, MndpAssumption DEF MndpAssumption, headerLen
  <2>2. CASE K # 0
    BY <1>1, <1>5, <2>2
  <2> QED BY <2>1, <2>2
<1>8. K = l \/ End(f, K + 1) > m
  <2> SUFFICES ASSUME K # l PROVE End(f, K + 1) > m
    OBVIOUS
  <2>1. PICK j \in 1 .. l : j = K + 1 /\ ~(j <= K)
    BY <1>6
  <2>2. j \in 0 .. Len(d.attrs)
    BY <1>0
  <2>3. End(f, j) \in Nat /\ j \notin T
    BY <1>5, <2>1, <2>2, EncodesIs
  <2> QED BY <1>1, <2>1, <2>3
<1> QED BY <1>0, <1>3, <1>4, <1>6, <1>7, <1>8

\* A name is clipped below the limit.
LEMMA ClipIs ==
  ASSUME NEW v \in Seq(Nat)
  PROVE  clipString(v) = SubSeq(v, 1, Min({Len(v), mndpMaxStringLen - 1}))
<1>1. PICK m \in Nat, l \in Nat : m = mndpMaxStringLen - 1 /\ l = Len(v)
  BY MndpAssumption DEF MndpAssumption
<1>2. mndpMaxStringLen = m + 1
  BY <1>1, MndpAssumption DEF MndpAssumption
<1>3. PICK x : x = Min({l, m})
  OBVIOUS
<1>4. x \in {l, m} /\ x <= l /\ x <= m
  BY <1>3, MinOfTwo
<1>5. CASE l >= m + 1
  <2>1. x = m
    BY <1>4, <1>5
  <2> QED BY <1>1, <1>2, <1>3, <1>5, <2>1 DEF clipString
<1>6. CASE ~(l >= m + 1)
  <2>1. x = l
    BY <1>4, <1>6
  <2>2. clipString(v) = v
    BY <1>1, <1>2, <1>6 DEF clipString
  <2>3. SubSeq(v, 1, Len(v)) = v
    OBVIOUS
  <2> QED BY <1>1, <1>3, <2>1, <2>2, <2>3
<1> QED BY <1>5, <1>6

\* A datagram says what its whole attributes say.
LEMMA SaysIs ==
  ASSUME NEW d \in Datagram, d.attrs \in Seq(Attr), Whole(d) \in 0 .. Len(d.attrs)
  PROVE  packetToNeighbor(ReadOf(d.attrs, Whole(d)), d.src) = Says(d)
<1>1. PICK a \in Seq(Attr), k \in Nat : a = d.attrs /\ k = Whole(d) /\ k <= Len(a)
  OBVIOUS
<1>2. \A t, l : LastOf(d, t, l) = LastIn(a, k, t, l)
  BY <1>1, Zenon DEF LastOf, LastIn
<1>3. PICK m, n, u : /\ m = LastIn(a, k, attrAddress, macLen)
                     /\ n = LastIn(a, k, attrIdentity, 0)
                     /\ u = LastIn(a, k, attrTimestamp, uptimeLen)
  OBVIOUS
<1>4. n # 0 => clipString(a[n].val)
                 = SubSeq(a[n].val, 1, Min({Len(a[n].val), mndpMaxStringLen - 1}))
  <2> SUFFICES ASSUME n # 0
               PROVE  clipString(a[n].val)
                 = SubSeq(a[n].val, 1, Min({Len(a[n].val), mndpMaxStringLen - 1}))
    OBVIOUS
  <2>1. n \in 0 .. k
    BY <1>3, LastInIs
  <2>2. n \in 1 .. Len(a) /\ a[n] \in Attr
    BY <1>1, <2>1
  <2>3. PICK v \in Seq(Nat) : v = a[n].val
    BY <2>2 DEF Attr
  <2>4. clipString(v) = SubSeq(v, 1, Min({Len(v), mndpMaxStringLen - 1}))
    BY ClipIs
  <2> QED BY <2>3, <2>4, Zenon
<1>5. PICK I : I = IF n = 0 THEN << >> ELSE clipString(a[n].val)
  OBVIOUS
<1>6. I = IF n = 0 THEN << >>
          ELSE SubSeq(a[n].val, 1, Min({Len(a[n].val), mndpMaxStringLen - 1}))
  BY <1>4, <1>5, Zenon
<1>7. PICK r : r = [mac |-> IF m = 0 THEN NoMAC ELSE SubSeq(a[m].val, 1, macLen),
                    identity |-> I,
                    uptime |-> IF u = 0 THEN 0 ELSE a[u].val[1] + Word * a[u].val[2],
                    ip |-> d.src]
  OBVIOUS
<1>8. Says(d) = r
  BY <1>1, <1>2, <1>3, <1>6, <1>7, ZenonT(30) DEF Says
<1>9. packetToNeighbor(ReadOf(a, k), d.src) = r
  BY <1>3, <1>5, <1>7, Zenon DEF packetToNeighbor, ReadOf, littleEndian
<1> QED BY <1>1, <1>8, <1>9

\* A datagram that is long enough and announces an address.
Announces(d) == Arrived(d) >= minPacketLen /\ Says(d).mac # NoMAC

\* ParsePacket reads of each datagram what its sender put into it.
Agrees(pkt, d) ==
  /\ (pkt.ok /\ pkt.mac # NoMAC) <=> Announces(d)
  /\ Announces(d) => packetToNeighbor(pkt, d.src) = Says(d)

\* ParsePacket reads of every datagram, cut wherever it may be, exactly the
\* attributes that arrived whole, the last of each kind winning: no word of one
\* attribute is ever taken for a part of another.
THEOREM ParserAgrees ==
  \A d \in Datagram : Agrees(ParsePacket(SubSeq(d.words, 1, Arrived(d))), d)
<1> SUFFICES ASSUME NEW d \in Datagram
             PROVE  Agrees(ParsePacket(SubSeq(d.words, 1, Arrived(d))), d)
  OBVIOUS
<1>1. PICK buf : buf = SubSeq(d.words, 1, Arrived(d))
  OBVIOUS
<1>2. /\ d.attrs \in Seq(Attr) /\ Starts(buf, d.attrs) /\ Len(buf) = Arrived(d)
      /\ Arrived(d) \in Nat
  BY <1>1, ArrivedIs DEF Starts
<1>3. minPacketLen \in Nat
  BY MndpAssumption DEF MndpAssumption
<1>4. CASE Arrived(d) >= minPacketLen
  <2>1. PICK f : Encodes(f, d.attrs)
    BY <1>2, EncodesExists
  <2>2. PICK K : K = Whole(d)
    OBVIOUS
  <2>3. /\ K \in 0 .. Len(d.attrs) /\ End(f, K) <= Len(buf)
        /\ K = Len(d.attrs) \/ End(f, K + 1) > Len(buf)
    BY <1>2, <1>4, <2>1, <2>2, WholeIs
  <2>4. PICK pkt : pkt = ReadOf(d.attrs, K)
    OBVIOUS
  <2>5. ParsePacket(buf) = pkt
    BY <1>2, <1>4, <2>1, <2>3, <2>4, ParseIs
  <2>6. packetToNeighbor(pkt, d.src) = Says(d)
    BY <1>2, <2>2, <2>3, <2>4, SaysIs
  <2>7. packetToNeighbor(pkt, d.src).mac = pkt.mac
    BY DEF packetToNeighbor
  <2>8. pkt.ok = TRUE
    BY <2>4, Zenon DEF ReadOf
  <2> QED BY <1>1, <1>4, <2>5, <2>6, <2>7, <2>8, Zenon DEF Agrees, Announces
<1>5. CASE ~(Arrived(d) >= minPacketLen)
  <2>1. Len(buf) < minPacketLen
    BY <1>2, <1>3, <1>5
  <2>2. ParsePacket(buf) = ErrShortPacket
    BY <2>1, Zenon DEF ParsePacket
  <2>3. ErrShortPacket.ok = FALSE
    BY Zenon DEF ErrShortPacket
  <2> QED BY <1>1, <1>5, <2>2, <2>3, Zenon DEF Agrees, Announces
<1> QED BY <1>4, <1>5

----------------------------------------------------------------------------
(* The table: it is right after any number of datagrams.                   *)

\* The table holds n: n is the last word of a device that was heard.
LastWord(n) ==
  \E i \in 1 .. Len(heard) :
    /\ Announces(heard[i]) /\ n = Says(heard[i])
    /\ \A k \in 1 .. Len(heard) :
         Announces(heard[k]) /\ k > i => Says(heard[k]).mac # n.mac

LEMMA KnownIs ==
  /\ \A n : n \in Known <=> LastWord(n)
  /\ \A n : n \in Known' <=> LastWord(n)'
BY DEF Known, Useful, LastWord, Announces

\* A datagram that announces nothing changes nobody's last word.
LEMMA SilentHeard ==
  ASSUME heard \in Seq(Datagram), NEW d \in Datagram, ~Announces(d),
         heard' = Append(heard, d), NEW n
  PROVE  LastWord(n)' <=> LastWord(n)
<1>1. /\ Len(heard') = Len(heard) + 1 /\ Len(heard) \in Nat
      /\ \A i \in 1 .. Len(heard) : heard'[i] = heard[i]
      /\ heard'[Len(heard) + 1] = d
  OBVIOUS
<1>2. ASSUME NEW i \in 1 .. Len(heard'), Announces(heard'[i])
      PROVE  i \in 1 .. Len(heard) /\ heard'[i] = heard[i]
  BY <1>1, <1>2
<1>3. ASSUME NEW i \in 1 .. Len(heard)
      PROVE  i \in 1 .. Len(heard') /\ heard'[i] = heard[i]
  BY <1>1
<1> QED BY <1>2, <1>3 DEF LastWord

\* One that does takes the place of its device's last word.
LEMMA AnnouncementHeard ==
  ASSUME heard \in Seq(Datagram), NEW d \in Datagram, Announces(d),
         heard' = Append(heard, d), NEW n
  PROVE  LastWord(n)' <=> \/ n = Says(d)
                          \/ LastWord(n) /\ n.mac # Says(d).mac
<1>1. PICK l \in Nat :
        /\ l = Len(heard) /\ Len(heard') = l + 1
        /\ \A i \in 1 .. l : heard'[i] = heard[i]
        /\ heard'[l + 1] = d
  OBVIOUS
<1>2. ASSUME n = Says(d)
      PROVE  LastWord(n)'
  <2>1. l + 1 \in 1 .. Len(heard') /\ \A k \in 1 .. Len(heard') : ~(k > l + 1)
    BY <1>1
  <2> QED BY <1>1, <1>2, <2>1 DEF LastWord
<1>3. ASSUME LastWord(n), n.mac # Says(d).mac
      PROVE  LastWord(n)'
  <2>1. PICK i \in 1 .. l :
          /\ Announces(heard[i]) /\ n = Says(heard[i])
          /\ \A k \in 1 .. l :
               Announces(heard[k]) /\ k > i => Says(heard[k]).mac # n.mac
    BY <1>1, <1>3 DEF LastWord
  <2>2. i \in 1 .. Len(heard') /\ heard'[i] = heard[i]
    BY <1>1
  <2>3. ASSUME NEW k \in 1 .. Len(heard'), Announces(heard'[k]), k > i
        PROVE  Says(heard'[k]).mac # n.mac
    <3>1. CASE k = l + 1
      BY <1>1, <1>3, <3>1
    <3>2. CASE k # l + 1
      <4>1. k \in 1 .. l /\ heard'[k] = heard[k]
        BY <1>1, <3>2
      <4> QED BY <2>1, <2>3, <4>1
    <3> QED BY <3>1, <3>2
  <2> QED BY <2>1, <2>2, <2>3 DEF LastWord
<1>4. ASSUME LastWord(n)', n # Says(d)
      PROVE  LastWord(n) /\ n.mac # Says(d).mac
  <2>1. PICK i \in 1 .. Len(heard') :
          /\ Announces(heard'[i]) /\ n = Says(heard'[i])
          /\ \A k \in 1 .. Len(heard') :
               Announces(heard'[k]) /\ k > i => Says(heard'[k]).mac # n.mac
    BY <1>4 DEF LastWord
  <2>2. i \in 1 .. l /\ heard'[i] = heard[i] /\ l + 1 > i
    BY <1>1, <1>4, <2>1
  <2>3. n.mac # Says(d).mac
    <3>1. l + 1 \in 1 .. Len(heard')
      BY <1>1
    <3> QED BY <1>1, <2>1, <2>2, <3>1
  <2>4. \A k \in 1 .. l : k \in 1 .. Len(heard') /\ heard'[k] = heard[k]
    BY <1>1
  <2> QED BY <1>1, <2>1, <2>2, <2>3, <2>4 DEF LastWord
<1> QED BY <1>2, <1>3, <1>4

\* The property, element by element, before and after a step.
LEMMA TableHas ==
  /\ LatestPerDevice <=>
       \A n : (\E m \in DOMAIN seen : n = seen[m]) <=> LastWord(n)
  /\ LatestPerDevice' <=>
       \A n : (\E m \in DOMAIN seen' : n = seen'[m]) <=> LastWord(n)'
BY KnownIs DEF LatestPerDevice

\* Reading a datagram keeps the table in step with the history.
LEMMA LatestRead ==
  ASSUME MndpInv, LatestPerDevice, ReadFromUDP
  PROVE  LatestPerDevice'
<1>1. PICK d \in Datagram : d = Head(queue) /\ heard' = Append(heard, d)
  BY QueueIs DEF ReadFromUDP, MndpInv, CountInv
<1>2. PICK pkt : /\ pkt = ParsePacket(SubSeq(d.words, 1, Arrived(d)))
                 /\ Agrees(pkt, d)
  BY ParserAgrees
<1>3. seen' = learn(pkt, d.src)
  BY <1>1, <1>2 DEF ReadFromUDP, Arrived
<1>4. heard \in Seq(Datagram) /\ TableInv
  BY DEF MndpInv, CountInv
<1>5. \A n : (\E m \in DOMAIN seen : n = seen[m]) <=> LastWord(n)
  BY TableHas
<1>6. ASSUME NEW n
      PROVE  (\E m \in DOMAIN seen' : n = seen'[m]) <=> LastWord(n)'
  <2>1. CASE ~Announces(d)
    <3>1. seen' = seen
      BY <1>2, <1>3, <2>1 DEF learn, Agrees
    <3>2. LastWord(n)' <=> LastWord(n)
      BY <1>1, <1>4, <2>1, SilentHeard
    <3> QED BY <1>5, <3>1, <3>2
  <2>2. CASE Announces(d)
    <3>1. PICK w : w = Says(d)
      OBVIOUS
    <3>2. seen' = store(seen, w)
      BY <1>2, <1>3, <2>2, <3>1 DEF learn, Agrees
    <3>3. LastWord(n)' <=> n = w \/ (LastWord(n) /\ n.mac # w.mac)
      BY <1>1, <1>4, <2>2, <3>1, AnnouncementHeard
    <3>4. (\E m \in DOMAIN seen' : n = seen'[m]) <=>
            n = w \/ \E m \in DOMAIN seen : n = seen[m] /\ m # w.mac
      BY <3>2 DEF store
    <3>5. (\E m \in DOMAIN seen : n = seen[m] /\ m # w.mac) <=>
            (\E m \in DOMAIN seen : n = seen[m]) /\ n.mac # w.mac
      BY <1>4 DEF TableInv
    <3> QED BY <1>5, <3>3, <3>4, <3>5
  <2> QED BY <2>1, <2>2
<1> QED BY <1>6, TableHas

\* After any number of datagrams in any order, cut wherever they may be and
\* however often a device repeats or changes its announcement, the table holds
\* exactly one entry per address heard, and that entry is the device's last
\* word ("one Neighbor entry per unique MAC seen").
THEOREM TableIsLatest == Spec => []LatestPerDevice
<1>1. Init => LatestPerDevice
  <2> SUFFICES ASSUME Init PROVE LatestPerDevice
    OBVIOUS
  <2>1. Len(heard) = 0 /\ DOMAIN seen = {}
    BY DEF Init
  <2> QED BY <2>1 DEF LatestPerDevice, Known, Useful
<1>2. MndpInv /\ LatestPerDevice /\ [Next]_vars => LatestPerDevice'
  <2> SUFFICES ASSUME MndpInv, LatestPerDevice, [Next]_vars
               PROVE  LatestPerDevice'
    OBVIOUS
  <2>1. CASE ReadFromUDP
    BY <2>1, LatestRead
  <2>2. CASE UNCHANGED <<seen, heard>>
    BY <2>2, TableHas DEF LastWord
  <2>3. ReadFromUDP \/ UNCHANGED <<seen, heard>>
    BY DEF Next, execMndp, openListener, top, ReadTimeout, ReadError,
           PrintNeighbors, Arrive, Tick, CancelCtx, Finished, envUnchanged, vars
  <2> QED BY <2>1, <2>2, <2>3
<1> QED BY <1>1, <1>2, MndpAlways, PTL DEF Spec

----------------------------------------------------------------------------
(* The listing.  Addresses are totally ordered, so the table can be sorted. *)

Mac == [1 .. macLen -> Nat]

LEMMA MacLessIs ==
  ASSUME NEW a \in Mac, NEW b \in Mac
  PROVE  /\ a[1] \in Nat /\ a[2] \in Nat /\ a[3] \in Nat
         /\ b[1] \in Nat /\ b[2] \in Nat /\ b[3] \in Nat
         /\ a = b <=> a[1] = b[1] /\ a[2] = b[2] /\ a[3] = b[3]
         /\ macLess(a, b) <=> \/ a[1] < b[1]
                              \/ a[1] = b[1] /\ a[2] < b[2]
                              \/ a[1] = b[1] /\ a[2] = b[2] /\ a[3] < b[3]
<1>1. 1 .. macLen = {1, 2, 3}
  BY DEF macLen
<1>2. a \in [{1, 2, 3} -> Nat] /\ b \in [{1, 2, 3} -> Nat]
  BY <1>1 DEF Mac
<1>3. macLess(a, b) <=> \E i \in {1, 2, 3} : a[i] < b[i] /\ \A j \in 1 .. i - 1 : a[j] = b[j]
  BY <1>1 DEF macLess
<1>4. 1 .. 1 - 1 = {} /\ 1 .. 2 - 1 = {1} /\ 1 .. 3 - 1 = {1, 2}
  OBVIOUS
<1>5. macLess(a, b) <=> \/ a[1] < b[1] /\ \A j \in {} : a[j] = b[j]
                        \/ a[2] < b[2] /\ \A j \in {1} : a[j] = b[j]
                        \/ a[3] < b[3] /\ \A j \in {1, 2} : a[j] = b[j]
  BY <1>3, <1>4, Zenon
<1>6. a = b <=> a[1] = b[1] /\ a[2] = b[2] /\ a[3] = b[3]
  BY <1>2
<1> QED BY <1>2, <1>5, <1>6

LEMMA MacOrder ==
  ASSUME NEW a \in Mac, NEW b \in Mac, NEW c \in Mac
  PROVE  /\ macLess(a, b) \/ a = b \/ macLess(b, a)
         /\ macLess(a, b) /\ macLess(b, c) => macLess(a, c)
<1>1. macLess(a, b) \/ a = b \/ macLess(b, a)
  BY MacLessIs
<1>2. macLess(a, b) /\ macLess(b, c) => macLess(a, c)
  BY MacLessIs
<1> QED BY <1>1, <1>2

\* A set of entries with an address each, all different.
Keyed(B) ==
  /\ IsFiniteSet(B) /\ \A x \in B : x.mac \in Mac
  /\ \A x, y \in B : x.mac = y.mac => x = y

HasLast(S) == \E x \in S : \A y \in S : y = x \/ macLess(y.mac, x.mac)

LEMMA LastExists ==
  ASSUME NEW B, Keyed(B)
  PROVE  \A S \in SUBSET B : S # {} => HasLast(S)
<1> DEFINE N == {n \in Nat : \A S \in SUBSET B : Cardinality(S) = n + 1 => HasLast(S)}
<1>0. \A S \in SUBSET B : IsFiniteSet(S) /\ Cardinality(S) \in Nat
  BY FS_Subset, FS_CardinalityType DEF Keyed
<1>1. 0 \in N
  <2> SUFFICES ASSUME NEW S \in SUBSET B, Cardinality(S) = 0 + 1
               PROVE  HasLast(S)
    OBVIOUS
  <2>0. IsFiniteSet(S) /\ Cardinality(S) = 1
    BY <1>0
  <2>1. \E x : S = {x}
    BY <2>0, FS_Singleton
  <2> QED BY <2>1 DEF HasLast
<1>2. ASSUME NEW n \in N PROVE n + 1 \in N
  <2>0. n \in Nat
    OBVIOUS
  <2> SUFFICES ASSUME NEW S \in SUBSET B, Cardinality(S) = (n + 1) + 1
               PROVE  HasLast(S)
    BY <2>0
  <2>1. S # {}
    BY <2>0, FS_EmptySet
  <2>2. PICK z \in S : TRUE
    BY <2>1
  <2>3. PICK T \in SUBSET B : T = S \ {z}
    OBVIOUS
  <2>4. Cardinality(T) = n + 1
    <3>1. Cardinality(T) = Cardinality(S) - 1
      BY <1>0, <2>2, <2>3, FS_RemoveElement
    <3> QED BY <2>0, <3>1
  <2>5. HasLast(T)
    BY <2>4
  <2>6. PICK x \in T : \A y \in T : y = x \/ macLess(y.mac, x.mac)
    BY <2>5 DEF HasLast
  <2>7. x.mac \in Mac /\ z.mac \in Mac /\ x \in B /\ z \in B /\ x # z /\ x.mac # z.mac
    BY <2>2, <2>3, <2>6 DEF Keyed
  <2>8. CASE macLess(z.mac, x.mac)
    BY <2>2, <2>3, <2>6, <2>8 DEF HasLast
  <2>9. CASE macLess(x.mac, z.mac)
    <3>1. ASSUME NEW y \in T PROVE macLess(y.mac, z.mac)
      <4>1. y.mac \in Mac
        BY DEF Keyed
      <4> QED BY <2>6, <2>7, <2>9, <4>1, MacOrder
    <3> QED BY <2>2, <2>3, <3>1 DEF HasLast
  <2> QED BY <2>7, <2>8, <2>9, MacOrder
<1>3. N = Nat
  <2> HIDE DEF N
  <2>1. N \in SUBSET Nat
    BY DEF N
  <2> QED BY <1>1, <1>2, <2>1, SetInduction
<1>4. ASSUME NEW S \in SUBSET B, S # {} PROVE HasLast(S)
  <2>1. PICK n : n = Cardinality(S) - 1
    OBVIOUS
  <2>2. Cardinality(S) # 0 /\ Cardinality(S) \in Nat
    BY <1>0, <1>4, FS_EmptySet
  <2>3. n \in Nat /\ Cardinality(S) = n + 1
    BY <2>1, <2>2
  <2>4. n \in N
    <3> HIDE DEF N
    <3> QED BY <1>3, <2>3
  <2> QED BY <2>3, <2>4
<1> QED BY <1>4

\* s lists the n members of S by address.
Lists(s, S, n) ==
  /\ s \in [1 .. n -> S] /\ Range(s) = S
  /\ \A i, j \in 1 .. n : i < j => macLess(s[i].mac, s[j].mac)

HasListing(S) == \E s : Lists(s, S, Cardinality(S))

LEMMA ListingExists ==
  ASSUME NEW B, Keyed(B)
  PROVE  HasListing(B)
<1> DEFINE N == {n \in Nat : \A S \in SUBSET B : Cardinality(S) = n => HasListing(S)}
<1>0. \A S \in SUBSET B : IsFiniteSet(S) /\ Cardinality(S) \in Nat
  BY FS_Subset, FS_CardinalityType DEF Keyed
<1>1. 0 \in N
  <2> SUFFICES ASSUME NEW S \in SUBSET B, Cardinality(S) = 0
               PROVE  HasListing(S)
    OBVIOUS
  <2>1. S = {} /\ 1 .. 0 = {}
    BY <1>0, FS_EmptySet
  <2>2. PICK s : s = [i \in 1 .. 0 |-> 0]
    OBVIOUS
  <2>3. s \in [1 .. 0 -> S] /\ Range(s) = S
    BY <2>1, <2>2 DEF Range
  <2>4. Lists(s, S, 0)
    BY <2>1, <2>3 DEF Lists
  <2> QED BY <2>4 DEF HasListing
<1>2. ASSUME NEW n \in N PROVE n + 1 \in N
  <2>0. n \in Nat
    OBVIOUS
  <2> SUFFICES ASSUME NEW S \in SUBSET B, Cardinality(S) = n + 1
               PROVE  HasListing(S)
    BY <2>0
  <2>1. S # {}
    BY <2>0, FS_EmptySet
  <2>2. PICK x \in S : \A y \in S : y = x \/ macLess(y.mac, x.mac)
    BY <2>1, LastExists DEF HasLast
  <2>3. PICK T \in SUBSET B : T = S \ {x}
    OBVIOUS
  <2>4. Cardinality(T) = n
    <3>1. Cardinality(T) = Cardinality(S) - 1
      BY <1>0, <2>2, <2>3, FS_RemoveElement
    <3> QED BY <2>0, <3>1
  <2>5. HasListing(T)
    BY <2>4
  <2>6. PICK t : Lists(t, T, n)
    BY <2>4, <2>5 DEF HasListing
  <2>7. PICK s : s = [i \in 1 .. n + 1 |-> IF i = n + 1 THEN x ELSE t[i]]
    OBVIOUS
  <2>8. /\ n + 1 \in 1 .. n + 1 /\ s[n + 1] = x
        /\ \A i \in 1 .. n : i \in 1 .. n + 1 /\ s[i] = t[i] /\ t[i] \in T
        /\ \A i \in 1 .. n + 1 : i # n + 1 => i \in 1 .. n
    BY <2>0, <2>6, <2>7 DEF Lists
  <2>9. s \in [1 .. n + 1 -> S]
    <3>1. ASSUME NEW i \in 1 .. n + 1 PROVE (IF i = n + 1 THEN x ELSE t[i]) \in S
      BY <2>3, <2>8
    <3> QED BY <2>7, <3>1
  <2>10. Range(s) = S
    <3>1. ASSUME NEW y \in S PROVE \E i \in 1 .. n + 1 : s[i] = y
      <4>1. CASE y = x
        BY <2>8, <4>1
      <4>2. CASE y # x
        <5>1. y \in Range(t) /\ DOMAIN t = 1 .. n
          BY <2>3, <2>6, <4>2 DEF Lists
        <5>2. PICK i \in 1 .. n : t[i] = y
          BY <5>1 DEF Range
        <5> QED BY <2>8, <5>2
      <4> QED BY <4>1, <4>2
    <3>2. DOMAIN s = 1 .. n + 1
      BY <2>7
    <3> QED BY <2>9, <3>1, <3>2 DEF Range
  <2>11. ASSUME NEW i \in 1 .. n + 1, NEW j \in 1 .. n + 1, i < j
         PROVE  macLess(s[i].mac, s[j].mac)
    <3>1. i # n + 1 /\ i \in 1 .. n
      BY <2>0, <2>8, <2>11
    <3>2. CASE j = n + 1
      <4>1. s[i] = t[i] /\ s[i] \in T
        BY <2>8, <3>1
      <4>2. s[i] # x /\ s[i] \in S
        BY <2>3, <4>1
      <4> QED BY <2>2, <2>8, <3>2, <4>2
    <3>3. CASE j # n + 1
      <4>1. j \in 1 .. n
        BY <2>8, <3>3
      <4> QED BY <2>6, <2>8, <2>11, <3>1, <4>1 DEF Lists
    <3> QED BY <3>2, <3>3
  <2>12. Lists(s, S, n + 1)
    BY <2>9, <2>10, <2>11 DEF Lists
  <2> QED BY <2>12 DEF HasListing
<1>3. N = Nat
  <2> HIDE DEF N
  <2>1. N \in SUBSET Nat
    BY DEF N
  <2> QED BY <1>1, <1>2, <2>1, SetInduction
<1>4. PICK n \in Nat : n = Cardinality(B)
  BY <1>0
<1>5. n \in N
  <2> HIDE DEF N
  <2> QED BY <1>3, <1>4
<1> QED BY <1>4, <1>5

\* What collectNeighbors returns.
LEMMA SortedIs ==
  ASSUME NEW B, Keyed(B)
  PROVE  Lists(sortedByMac(B), B, Cardinality(B))
<1>1. PICK s : Lists(s, B, Cardinality(B))
  BY ListingExists DEF HasListing
<1>2. \E l \in [1 .. Cardinality(B) -> B] :
        /\ Range(l) = B
        /\ \A i, j \in 1 .. Cardinality(B) : i < j => macLess(l[i].mac, l[j].mac)
  BY <1>1 DEF Lists
<1> QED BY <1>2 DEF sortedByMac, Lists

\* An address that is announced is one.
LEMMA SaysMac ==
  ASSUME NEW d \in Datagram, Announces(d)
  PROVE  Says(d).mac \in Mac
<1>1. PICK a \in Seq(Attr), k \in Nat :
        a = d.attrs /\ k = Whole(d) /\ k <= Len(a)
  <2>1. d.attrs \in Seq(Attr)
    BY ArrivedIs
  <2>2. PICK f : Encodes(f, d.attrs)
    BY <2>1, EncodesExists
  <2>3. Whole(d) \in 0 .. Len(d.attrs)
    BY <2>2, WholeIs DEF Announces
  <2>4. Whole(d) \in Nat /\ Whole(d) <= Len(d.attrs)
    BY <2>1, <2>3
  <2> QED BY <2>1, <2>2, <2>4
<1>2. PICK m : m = LastIn(a, k, attrAddress, macLen)
  OBVIOUS
<1>3. LastOf(d, attrAddress, macLen) = m
  BY <1>1, <1>2, Zenon DEF LastOf, LastIn
<1>4. Says(d).mac = IF m = 0 THEN NoMAC ELSE SubSeq(a[m].val, 1, macLen)
  BY <1>1, <1>3, Zenon DEF Says
<1>5. m # 0
  BY <1>4, Zenon DEF Announces
<1>6. m \in 0 .. k /\ Len(a[m].val) >= macLen
  BY <1>2, <1>5, LastInIs
<1>7. m \in 1 .. Len(a) /\ a[m] \in Attr
  BY <1>1, <1>5, <1>6
<1>8. PICK v \in Seq(Nat) : v = a[m].val
  BY <1>7 DEF Attr
<1>9. Len(v) \in Nat /\ macLen \in Nat /\ macLen <= Len(v)
  BY <1>6, <1>8 DEF macLen
<1>10. SubSeq(v, 1, macLen) \in [1 .. macLen -> Nat]
  <2>1. PICK c \in Nat : c = macLen
    BY <1>9
  <2>2. PICK s : s = SubSeq(v, 1, c)
    OBVIOUS
  <2>3. s \in Seq(Nat) /\ Len(s) = c
    BY <1>9, <2>1, <2>2
  <2>4. s \in [1 .. c -> Nat]
    BY <2>3
  <2> QED BY <2>1, <2>2, <2>4
<1> QED BY <1>4, <1>5, <1>8, <1>10 DEF Mac

\* The neighbours to list are finitely many, one for each address.
LEMMA KnownKeyed ==
  ASSUME MndpInv
  PROVE  Keyed(Known)
<1>1. PICK l \in Nat : l = Len(heard) /\ \A i \in 1 .. l : heard[i] \in Datagram
  BY DEF MndpInv, CountInv
<1>2. \A n \in Known : \E i \in 1 .. l :
        /\ Announces(heard[i]) /\ n = Says(heard[i])
        /\ \A k \in 1 .. l : Announces(heard[k]) /\ k > i => Says(heard[k]).mac # n.mac
  BY <1>1, KnownIs DEF LastWord
<1>3. IsFiniteSet(Known)
  <2>1. PICK g : g = [i \in 1 .. l |-> Says(heard[i])]
    OBVIOUS
  <2>2. PICK R : R = {g[i] : i \in 1 .. l}
    OBVIOUS
  <2>3. g \in Surjection(1 .. l, R)
    BY <2>1, <2>2 DEF Surjection
  <2>4. IsFiniteSet(1 .. l)
    BY <1>1, FS_Interval
  <2>5. IsFiniteSet(R)
    BY <2>3, <2>4, FS_Surjection
  <2>6. Known \subseteq R
    BY <1>2, <2>1, <2>2
  <2> QED BY <2>5, <2>6, FS_Subset
<1>4. ASSUME NEW n \in Known PROVE n.mac \in Mac
  BY <1>1, <1>2, SaysMac
<1>5. ASSUME NEW x \in Known, NEW y \in Known, x.mac = y.mac
      PROVE  x = y
  <2>1. PICK i \in 1 .. l :
        /\ Announces(heard[i]) /\ x = Says(heard[i])
        /\ \A k \in 1 .. l : Announces(heard[k]) /\ k > i => Says(heard[k]).mac # x.mac
    BY <1>2
  <2>2. PICK j \in 1 .. l :
        /\ Announces(heard[j]) /\ y = Says(heard[j])
        /\ \A k \in 1 .. l : Announces(heard[k]) /\ k > j => Says(heard[k]).mac # y.mac
    BY <1>2
  <2>3. ~(i > j) /\ ~(j > i)
    BY <1>5, <2>1, <2>2
  <2>4. i = j
    BY <2>3
  <2> QED BY <2>1, <2>2, <2>4
<1> QED BY <1>3, <1>4, <1>5 DEF Keyed

\* A command that met no failure, whether its window ran out or its context was
\* cancelled, exits with code 0 and has printed exactly the neighbours heard,
\* each with its last word, in the order of their addresses ("Partial results
\* gathered before cancellation are returned with a nil error").
THEOREM ListingIsComplete == Spec => []PrintsAllKnown
<1>1. MndpInv /\ LatestPerDevice => PrintsAllKnown
  <2> SUFFICES ASSUME MndpInv, LatestPerDevice, pc = "exit", code # 2, ~failed
               PROVE  /\ code = 0 /\ Range(output) = Known
                      /\ \A i \in 1 .. Len(output) - 1 :
                           macLess(output[i].mac, output[i + 1].mac)
    BY DEF PrintsAllKnown
  <2>1. code = 0 /\ output = collectNeighbors(seen)
    BY DEF MndpInv, ResultInv
  <2>2. output = sortedByMac(Known)
    BY <2>1 DEF collectNeighbors, LatestPerDevice
  <2>3. PICK B, c : B = Known /\ c = Cardinality(B)
    OBVIOUS
  <2>4. Keyed(B)
    BY <2>3, KnownKeyed
  <2>5. Lists(output, B, c) /\ c \in Nat
    BY <2>2, <2>3, <2>4, SortedIs, FS_CardinalityType DEF Keyed
  <2>6. Range(output) = Known /\ Len(output) = c
    BY <2>3, <2>5 DEF Lists
  <2>7. ASSUME NEW i \in 1 .. Len(output) - 1
        PROVE  macLess(output[i].mac, output[i + 1].mac)
    <3>1. i \in 1 .. c /\ i + 1 \in 1 .. c /\ i < i + 1
      BY <2>5, <2>6
    <3> QED BY <2>5, <3>1 DEF Lists
  <2> QED BY <2>1, <2>6, <2>7
<1> QED BY <1>1, MndpAlways, TableIsLatest, PTL

=============================================================================

---------------------------- MODULE SocketsProofs ----------------------------
(***************************************************************************)
(* Proofs about Sockets, for any number of sessions and descriptors: whose *)
(* socket a number stands for, that every number is given back, whose      *)
(* datagrams a receive loop takes, and that every IP checksum is right.    *)
(***************************************************************************)
EXTENDS Sockets, TLAPS

Releasing == {"closeRecv", "closeRecvFd", "closeSend"}
Opening   == {"recv", "bind", "send", "key"}

OwnLabels == Opening \cup Releasing \cup {"up", "join", "down"}
RxLabels  == Releasing \cup {"off", "top", "read", "call", "blocked", "done"}
TxLabels  == {"off", "tick", "build", "sendto", "done"}

\* Every variable is a function on the sessions, with values of its type.
ShapeInv ==
  /\ vlan \in Vlans
  /\ fdTable \in [Fds -> Files]
  /\ recvFd \in [Sessions -> Fds \cup {NoFd}]
  /\ sendFd \in [Sessions -> Fds \cup {NoFd}]
  /\ key \in [Sessions -> Keys \cup {NoSessionKey}]
  /\ ipID \in [Sessions -> 0 .. maxUint16]
  /\ closed \in [Sessions -> BOOLEAN] /\ down \in [Sessions -> BOOLEAN]
  /\ pc \in [Sessions -> [Roles -> OwnLabels \cup RxLabels \cup TxLabels]]
  /\ file \in [Sessions -> Files] /\ via \in [Sessions -> Files]
  /\ sends \in [Sessions -> Nat]
  /\ DOMAIN frame = Sessions
  /\ taken \in [Sessions -> InAir \cup {NoFrame}]

\* Where a session's goroutines can be, and the bound on its sends.
PlaceOf(s) ==
  /\ pc[s]["own"] \in OwnLabels /\ pc[s]["rx"] \in RxLabels
  /\ pc[s]["tx"] \in TxLabels
  /\ sends[s] <= MaxSends[s]
  /\ pc[s]["tx"] = "build" => sends[s] < MaxSends[s]

\* The life of a session: the loops start when Open succeeds, `closed` is set
\* by the one goroutine that then releases, `down` during the release.
LifeOf(s) ==
  /\ pc[s]["own"] \in Opening => pc[s]["rx"] = "off"
  /\ pc[s]["rx"] = "off" => /\ pc[s]["own"] \in Opening \cup {"down"}
                            /\ pc[s]["tx"] = "off"
                            /\ ~closed[s] /\ taken[s] = NoFrame
  /\ pc[s]["rx"] # "off" => /\ recvFd[s] \in Fds /\ sendFd[s] \in Fds
                            /\ ~closed[s] => pc[s]["own"] = "up"
  /\ down[s] => closed[s]
  /\ ~closed[s] => pc[s]["rx"] \notin Releasing \cup {"done"}
  /\ pc[s]["own"] \in Releasing \cup {"join"} =>
       closed[s] /\ pc[s]["rx"] \notin Releasing

\* Does session s have a receive socket, a send socket?
HasRecv(s) ==
  \/ pc[s]["own"] \in {"bind", "send", "key"}
  \/ pc[s]["own"] = "up" /\ ~closed[s]
  \/ \E r \in {"own", "rx"} : pc[s][r] \in {"closeRecv", "closeRecvFd"}

HasSend(s) ==
  \/ pc[s]["own"] = "key"
  \/ pc[s]["own"] = "up" /\ ~closed[s]
  \/ \E r \in {"own", "rx"} : pc[s][r] \in Releasing

\* The table holds exactly the sockets the sessions have, each under the
\* number its session remembers.
TableOf(s) ==
  /\ HasRecv(s) => recvFd[s] \in Fds /\ fdTable[recvFd[s]] = File(s, "recv")
  /\ HasSend(s) => sendFd[s] \in Fds /\ fdTable[sendFd[s]] = File(s, "send")
  /\ \A d \in Fds : fdTable[d].who = s =>
       \/ fdTable[d] = File(s, "recv") /\ HasRecv(s) /\ d = recvFd[s]
       \/ fdTable[d] = File(s, "send") /\ HasSend(s) /\ d = sendFd[s]

\* Sends and reads go through a session's own sockets until it is closed.
UseOf(s) ==
  /\ via[s] \in {NoFile, File(s, "send")} \/ closed[s]
  /\ file[s] \in {NoFile, File(s, "recv")} \/ closed[s]

\* A frame that waits for its sendto carries the checksum of its header.
Summed(f) ==
  /\ f.total \in Nat /\ f.total < 65536 /\ f.id \in Nat /\ f.id < 65536
  /\ f.sum = internetChecksum(ipWords(f.total, f.id, 0))

FrameOf(s) == frame[s] # NoFrame => Summed(frame[s])

\* TakesOwnDatagrams, of one session.
TakesOf(s) ==
  taken[s] # NoFrame =>
    \/ taken[s] \in Genuine([vlan |-> vlan[s], key |-> key[s]])
    \/ key[s] = clientType

SessionInv(s) ==
  PlaceOf(s) /\ LifeOf(s) /\ TableOf(s) /\ UseOf(s) /\ FrameOf(s) /\ TakesOf(s)

SocketsInv == ShapeInv /\ \A s \in Sessions : SessionInv(s)

----------------------------------------------------------------------------
(* Frames.                                                                 *)

\* Sums of up to 65535 times 65535 fold to 65535.
LEMMA FoldMultiple ==
  ASSUME NEW k \in Nat, 0 < k, k < 65536
  PROVE  Fold(Fold(65535 * k)) = 65535
<1>1. PICK j \in Nat : j = k - 1
  BY SMT
<1>2. PICK r \in Nat : r = 65535 - j
  BY <1>1, SMT
<1>3. Fold(65535 * k) = j + r
  <2>1. PICK S \in Nat : S = 65535 * k
    BY SMT
  <2>2. r < 65536 /\ S = 65536 * j + r
    BY <1>1, <1>2, <2>1, SMT
  <2>3. S % 65536 = r /\ S \div 65536 = j
    BY <2>2, SMT
  <2> QED BY <2>1, <2>3, SMT DEF Fold
<1>4. j + r = 65535
  BY <1>1, <1>2, SMT
<1>5. Fold(65535) = 65535
  BY SMT DEF Fold
<1> QED BY <1>3, <1>4, <1>5, SMT

LEMMA HeaderSum ==
  ASSUME NEW total \in Int, NEW id \in Int, NEW c \in Int
  PROVE  WordSum(ipWords(total, id, c)) = total + id + c + 165135
BY SMT DEF WordSum, ipWords

\* A header with the checksum of its other words sums to 65535.
LEMMA ChecksumCloses ==
  ASSUME NEW total \in Nat, total < 65536, NEW id \in Nat, id < 65536
  PROVE  Fold(Fold(WordSum(ipWords(total, id,
           internetChecksum(ipWords(total, id, 0)))))) = 65535
<1>1. PICK S \in Nat : S = total + id + 165135
  BY SMT
<1>2. PICK q \in Nat, r \in Nat : S = 65536 * q + r /\ r < 65536
  <2>1. S = 65536 * (S \div 65536) + (S % 65536) /\ S % 65536 < 65536
    BY SMT
  <2>2. S \div 65536 \in Nat /\ S % 65536 \in Nat
    BY SMT
  <2> QED BY <2>1, <2>2, SMT
<1>3. 0 < q /\ q < 5
  BY <1>1, <1>2, SMT
<1>4. PICK F \in Nat :
        /\ F = Fold(q + r) /\ F < 65536
        /\ F = q + r \/ F = q + r - 65535
  <2>1. CASE q + r < 65536
    <3>1. Fold(q + r) = q + r
      BY <2>1, SMT DEF Fold
    <3> QED BY <2>1, <3>1, SMT
  <2>2. CASE q + r >= 65536
    <3>1. PICK x \in Nat : x = q + r - 65536 /\ x < 65536
      BY <1>2, <1>3, <2>2, SMT
    <3>2. Fold(65536 + x) = 1 + x
      BY <3>1, SMT DEF Fold
    <3>3. Fold(q + r) = q + r - 65535
      BY <3>1, <3>2, SMT
    <3> QED BY <2>2, <3>3, <1>2, <1>3, SMT
  <2> QED BY <2>1, <2>2, SMT
<1>5. WordSum(ipWords(total, id, 0)) = 65536 * q + r
  <2>1. WordSum(ipWords(total, id, 0)) = total + id + 0 + 165135
    BY HeaderSum, SMT
  <2> QED BY <1>1, <1>2, <2>1, SMT
<1>6. internetChecksum(ipWords(total, id, 0)) = 65535 - F
  <2>1. Fold(S) = q + r
    <3>1. S % 65536 = r /\ S \div 65536 = q
      BY <1>2, SMT
    <3> QED BY <3>1, SMT DEF Fold
  <2>2. WordSum(ipWords(total, id, 0)) = S
    BY <1>2, <1>5, SMT
  <2>3. Fold(Fold(WordSum(ipWords(total, id, 0)))) = F
    BY <1>4, <2>1, <2>2, SMT
  <2> QED BY <2>3, SMT DEF internetChecksum
<1>7. PICK c \in Nat : c = 65535 - F
  BY <1>4, SMT
<1>8. WordSum(ipWords(total, id, c)) = total + id + c + 165135
  BY HeaderSum, SMT
<1>9. PICK k \in Nat : k < 65536 /\ 0 < k
                      /\ (65535 * k = 65536 * q + r + c)
  <2>1. CASE F = q + r
    <3>1. PICK k \in Nat : k = q + 1
      BY SMT
    <3>2. k < 65536 /\ 0 < k /\ 65535 * k = 65536 * q + r + c
      BY <1>3, <1>7, <2>1, <3>1, SMT
    <3> QED BY <3>2, SMT
  <2>2. CASE F = q + r - 65535
    <3>1. PICK k \in Nat : k = q + 2
      BY SMT
    <3>2. k < 65536 /\ 0 < k /\ 65535 * k = 65536 * q + r + c
      BY <1>3, <1>7, <2>2, <3>1, SMT
    <3> QED BY <3>2, SMT
  <2> QED BY <1>4, <2>1, <2>2, SMT
<1>10. WordSum(ipWords(total, id, c)) = 65535 * k
  BY <1>1, <1>2, <1>8, <1>9, SMT
<1>11. Fold(Fold(65535 * k)) = 65535
  BY <1>9, FoldMultiple, SMT
<1> QED BY <1>6, <1>7, <1>10, <1>11, SMT

\* The receiver of VLAN v.
Filter(f, v) == IF v # 0 THEN rawFilter(f, v) ELSE udpFilter(f)

\* A device's datagram, spelled out.
Datagram(vid, k, dst, tagged) ==
  [dst |-> dst, src |-> DevMAC,
   etype |-> IF tagged THEN ethP8021Q ELSE ethPIP, vid |-> vid, inner |-> ethPIP,
   ver |-> 4, ihl |-> 5, proto |-> 17, total |-> 50, id |-> 1,
   sum |-> internetChecksum(ipWords(50, 1, 0)), port |-> udpPort, udpLen |-> 30,
   hdr |-> [ptype |-> "DATA", at14 |-> clientType, at16 |-> k],
   n |-> IF tagged THEN 68 ELSE 64]

LEMMA ReplyIs ==
  ASSUME NEW v \in Nat, v < 4095, NEW k, NEW dst
  PROVE  Reply([vlan |-> v, key |-> k], dst) = Datagram(v, k, dst, v # 0)
<1>1. v % 4096 = v
  BY SMT
<1>2. 28 + 22 + 0 = 50 /\ 50 - 20 = 30 /\ 14 + 4 + 50 = 68 /\ 14 + 0 + 50 = 64
  BY SMT
<1> QED BY <1>1, <1>2, SMT DEF Reply, buildFrame, encode, headerLen, Datagram

\* What a receiver passes of the frames around a device's datagram is the
\* datagram, with or without options, in the receiver's VLAN; or it is another
\* client's datagram, which has the client type where the key belongs.
LEMMA PassedIsGenuine ==
  ASSUME NEW v \in Nat, v < 4095, NEW w \in Nat, w < 4095, NEW k,
         NEW dst \in {OurMAC, Broadcast},
         NEW f \in Variants(Reply([vlan |-> w, key |-> k], dst)), Filter(f, v)
  PROVE  \/ /\ f \in Genuine([vlan |-> v, key |-> k])
            /\ decodeKey(f.hdr, "toClient") = k
         \/ decodeKey(f.hdr, "toClient") = clientType
<1> DEFINE g == Datagram(w, k, dst, w # 0)
<1>1. Reply([vlan |-> w, key |-> k], dst) = g
  BY ReplyIs
<1>2. /\ Reply([vlan |-> v, key |-> k], dst) = Datagram(v, k, dst, v # 0)
      /\ Reply([vlan |-> v, key |-> k], dst) \in Genuine([vlan |-> v, key |-> k])
      /\ WithOptions(Reply([vlan |-> v, key |-> k], dst))
           \in Genuine([vlan |-> v, key |-> k])
  BY ReplyIs, SMT DEF Genuine
<1>3. \A x : decodeKey(x, "toClient") = x.at16
  BY SMT DEF decodeKey
<1>4. g.hdr.at16 = k /\ WithOptions(g).hdr.at16 = k
  BY SMT DEF Datagram, WithOptions
<1>5. CASE f = g
  <2>1. w = v
    BY <1>5, SMT DEF Filter, rawFilter, udpFilter, Datagram, ethP8021Q, ethPIP
  <2> QED BY <1>1, <1>2, <1>3, <1>4, <1>5, <2>1
<1>6. CASE f = WithOptions(g)
  <2>1. w = v
    BY <1>6, SMT DEF Filter, rawFilter, udpFilter, Datagram, WithOptions,
                     ethP8021Q, ethPIP
  <2> QED BY <1>1, <1>2, <1>3, <1>4, <1>6, <2>1
<1>7. CASE w # 0 /\ f = [g EXCEPT !.vid = (w + 1) % 4096]
  <2>1. v # 0 /\ (w + 1) % 4096 = v
    BY <1>7, SMT DEF Filter, rawFilter, udpFilter, Datagram, ethP8021Q, ethPIP
  <2>2. f = Datagram(v, k, dst, v # 0)
    BY <1>7, <2>1, SMT DEF Datagram
  <2> QED BY <1>2, <1>3, <2>2, SMT DEF Datagram
<1>8. CASE f \in {[g EXCEPT !.port = 5678], [g EXCEPT !.proto = 6],
                  [g EXCEPT !.n = @ - 1], [g EXCEPT !.n = 13],
                  [g EXCEPT !.src = OurMAC]}
  BY <1>8, SMT DEF Filter, rawFilter, udpFilter, Datagram, ethP8021Q, ethPIP,
                   udpPort, OurMAC, DevMAC
<1>9. CASE f = [g EXCEPT !.hdr = encode("DATA", @.at16, "toServer")]
  BY <1>3, <1>9, SMT DEF Datagram, encode
<1> QED
  <2>1. /\ f \in Variants(g)
        /\ g.etype = IF w # 0 THEN ethP8021Q ELSE ethPIP
        /\ g.vid = w /\ g = [g EXCEPT !.vid = g.vid]
    BY <1>1, SMT DEF Datagram
  <2> QED BY <2>1, <1>5, <1>6, <1>7, <1>8, <1>9, SMT DEF Variants, ethP8021Q, ethPIP

\* The same for what RecvFrame hands to rxLoop.
LEMMA TakenIsOwn ==
  ASSUME vlan \in Vlans, NEW s \in Sessions, NEW f \in Passed[vlan[s]],
         decodeKey(f.hdr, "toClient") = key[s]
  PROVE  /\ f \in InAir
         /\ \/ f \in Genuine([vlan |-> vlan[s], key |-> key[s]])
            \/ key[s] = clientType
<1>1. vlan[s] \in {V[t] : V \in Vlans, t \in Sessions}
  OBVIOUS
<1>2. f \in InAir /\ Filter(f, vlan[s])
  BY <1>1, SMT DEF Passed, Filter
<1>3. PICK h \in Segment, dst \in {OurMAC, Broadcast} : f \in Variants(Reply(h, dst))
  BY <1>2, SMT DEF InAir
<1>4. /\ h = [vlan |-> h.vlan, key |-> h.key]
      /\ h.vlan \in Nat /\ h.vlan < 4095
      /\ vlan[s] \in Nat /\ vlan[s] < 4095
  <2>1. h \in [vlan : 0 .. maxVlan, key : 0 .. maxUint16]
    BY SocketsAssumption DEF SocketsAssumption
  <2>2. vlan \in [Sessions -> 0 .. maxVlan]
    BY SocketsAssumption DEF SocketsAssumption
  <2>3. \A x \in 0 .. maxVlan : x \in Nat /\ x <= maxVlan
    BY DEF maxVlan
  <2>4. maxVlan < 4095
    BY SMT DEF maxVlan
  <2>5. maxVlan \in Nat
    BY SMT DEF maxVlan
  <2>6. h.vlan \in Nat /\ h.vlan <= maxVlan /\ vlan[s] \in Nat /\ vlan[s] <= maxVlan
    BY <2>1, <2>2, <2>3, SMT
  <2>7. h.vlan < 4095 /\ vlan[s] < 4095
    BY <2>4, <2>5, <2>6, SMT
  <2> QED BY <2>1, <2>6, <2>7, SMT
<1>5. PICK w, k : h = [vlan |-> w, key |-> k] /\ w \in Nat /\ w < 4095
  BY <1>4
<1>6. \/ /\ f \in Genuine([vlan |-> vlan[s], key |-> k])
         /\ decodeKey(f.hdr, "toClient") = k
      \/ decodeKey(f.hdr, "toClient") = clientType
  BY <1>2, <1>3, <1>4, <1>5, PassedIsGenuine
<1> QED BY <1>2, <1>6

----------------------------------------------------------------------------
(* One session's step and the others.                                      *)

\* What a session has to itself.
Untouched(t) ==
  /\ pc'[t] = pc[t] /\ closed'[t] = closed[t] /\ down'[t] = down[t]
  /\ recvFd'[t] = recvFd[t] /\ sendFd'[t] = sendFd[t] /\ key'[t] = key[t]
  /\ via'[t] = via[t] /\ file'[t] = file[t] /\ sends'[t] = sends[t]
  /\ frame'[t] = frame[t] /\ taken'[t] = taken[t]

\* The entries of the table that were or become t's have not changed.
Spared(t) ==
  \A d \in Fds : \/ fdTable'[d] = fdTable[d]
                 \/ fdTable[d].who # t /\ fdTable'[d].who # t

\* A step of other sessions, or of the SSH server.
LEMMA BystanderKeeps ==
  ASSUME NEW t \in Sessions, SessionInv(t), Untouched(t), Spared(t), vlan' = vlan
  PROVE  SessionInv(t)'
<1>1. PlaceOf(t)' /\ LifeOf(t)'
  BY SMT DEF SessionInv, PlaceOf, LifeOf, Untouched
<1>2. HasRecv(t)' = HasRecv(t) /\ HasSend(t)' = HasSend(t)
  BY SMT DEF HasRecv, HasSend, Untouched
<1>3. TableOf(t)'
  BY <1>2, SMT DEF SessionInv, TableOf, Untouched, Spared, File
<1>4. UseOf(t)'
  BY SMT DEF SessionInv, UseOf, Untouched
<1>5. FrameOf(t)'
  BY Zenon DEF SessionInv, FrameOf, Untouched
<1>6. TakesOf(t)'
  BY Zenon DEF SessionInv, TakesOf, Untouched
<1> QED BY <1>1, <1>3, <1>4, <1>5, <1>6 DEF SessionInv

LEMMA GotoIs ==
  ASSUME ShapeInv, NEW s \in Sessions, NEW r \in Roles,
         NEW l \in OwnLabels \cup RxLabels \cup TxLabels, Goto(s, r, l)
  PROVE  /\ pc' \in [Sessions -> [Roles -> OwnLabels \cup RxLabels \cup TxLabels]]
         /\ pc'[s][r] = l
         /\ \A q \in Roles \ {r} : pc'[s][q] = pc[s][q]
         /\ \A t \in Sessions \ {s} : pc'[t] = pc[t]
<1>1. pc \in [Sessions -> [Roles -> OwnLabels \cup RxLabels \cup TxLabels]]
  BY SMT DEF ShapeInv
<1> QED BY <1>1, SMT DEF Goto

----------------------------------------------------------------------------
(* The steps.                                                              *)

\* A step of session s that keeps the invariant of s, its own shape, and its
\* hands off the others.
Good(s) ==
  /\ ShapeInv' /\ SessionInv(s)' /\ vlan' = vlan
  /\ \A t \in Sessions \ {s} : Untouched(t) /\ Spared(t)

LEMMA GoodKeeps ==
  ASSUME SocketsInv, NEW s \in Sessions, Good(s)
  PROVE  SocketsInv'
<1>1. \A t \in Sessions \ {s} : SessionInv(t)'
  BY BystanderKeeps DEF SocketsInv, Good
<1> QED BY <1>1 DEF SocketsInv, Good

LEMMA InitInv == Init => SocketsInv
<1> SUFFICES ASSUME Init PROVE SocketsInv
  OBVIOUS
<1>1. ShapeInv
  <2>1. 0 \in 0 .. maxUint16
    BY SMT DEF maxUint16
  <2>2. pc \in [Sessions -> [Roles -> OwnLabels \cup RxLabels \cup TxLabels]]
    BY SMT DEF Init, Roles, OwnLabels, RxLabels, TxLabels, Opening
  <2> QED BY <2>1, <2>2, SMT DEF Init, ShapeInv, Files, File, NoFile
<1>2. ASSUME NEW s \in Sessions PROVE SessionInv(s)
  <2>1. /\ pc[s]["own"] = "recv" /\ pc[s]["rx"] = "off" /\ pc[s]["tx"] = "off"
        /\ ~closed[s] /\ ~down[s] /\ taken[s] = NoFrame /\ frame[s] = NoFrame
        /\ via[s] = NoFile /\ file[s] = NoFile /\ sends[s] = 0
    BY SMT DEF Init, Roles
  <2>2. PlaceOf(s) /\ LifeOf(s)
    BY <2>1, SocketsAssumption, SMT DEF PlaceOf, LifeOf, Opening, Releasing,
       OwnLabels, RxLabels, TxLabels, SocketsAssumption
  <2>3. ~HasRecv(s) /\ ~HasSend(s) /\ \A d \in Fds : fdTable[d].who # s
    BY <2>1, SocketsAssumption, SMT
       DEF HasRecv, HasSend, Init, NoFile, File, Releasing, SocketsAssumption
  <2> QED BY <2>1, <2>2, <2>3 DEF SessionInv, TableOf, UseOf, FrameOf, TakesOf
<1> QED BY <1>1, <1>2 DEF SocketsInv

\* A free number is given to session s.
LEMMA GivenIs ==
  ASSUME ShapeInv, NEW s \in Sessions, NEW k \in {"recv", "send"}, NEW d \in Fds,
         fdTable[d] = NoFile, fdTable' = [fdTable EXCEPT ![d] = File(s, k)]
  PROVE  /\ fdTable' \in [Fds -> Files]
         /\ fdTable'[d] = File(s, k)
         /\ \A e \in Fds \ {d} : fdTable'[e] = fdTable[e]
         /\ \A t \in Sessions \ {s} : Spared(t)
<1>1. fdTable \in [Fds -> Files] /\ File(s, k) \in Files
  BY SMT DEF ShapeInv, Files, File
<1>2. File(s, k).who = s /\ NoFile.who \notin Sessions
  BY SocketsAssumption DEF File, NoFile, SocketsAssumption
<1> QED BY <1>1, <1>2, SMT DEF Spared

\* A number of session s is freed.
LEMMA FreedIs ==
  ASSUME ShapeInv, NEW s \in Sessions, NEW d \in Fds, fdTable[d].who = s, CloseFd(d)
  PROVE  /\ fdTable' \in [Fds -> Files]
         /\ fdTable'[d].who \notin Sessions
         /\ \A e \in Fds \ {d} : fdTable'[e] = fdTable[e]
         /\ \A t \in Sessions \ {s} : Spared(t)
<1>1. fdTable \in [Fds -> Files] /\ NoFile \in Files
  BY SMT DEF ShapeInv, Files, File, NoFile
<1>2. NoFile.who \notin Sessions
  BY SocketsAssumption DEF File, NoFile, SocketsAssumption
<1> QED BY <1>1, <1>2, SMT DEF Spared, CloseFd

\* Opening the receive socket: nothing is s's but what it is given.
LEMMA OpenRecvGood ==
  ASSUME SocketsInv, NEW s \in Sessions, OpenRecv(s)
  PROVE  Good(s)
<1> USE DEF OpenUnchanged
<1>1. /\ pc[s]["own"] = "recv" /\ pc[s]["rx"] = "off" /\ ~closed[s]
      /\ pc[s]["tx"] = "off" /\ ~HasRecv(s) /\ ~HasSend(s)
  BY SMT DEF OpenRecv, SocketsInv, SessionInv, LifeOf, HasRecv, HasSend, Opening, Releasing
<1>2. PICK l \in {"bind", "send", "down"} :
        /\ Goto(s, "own", l)
        /\ \/ /\ l # "down"
              /\ \E d \in Fds : /\ fdTable[d] = NoFile
                                /\ fdTable' = [fdTable EXCEPT ![d] = File(s, "recv")]
                                /\ recvFd' = [recvFd EXCEPT ![s] = d]
           \/ l = "down" /\ UNCHANGED <<fdTable, recvFd>>
  BY SMT DEF OpenRecv, Alloc, Lowest, Free
<1>3. /\ pc' \in [Sessions -> [Roles -> OwnLabels \cup RxLabels \cup TxLabels]]
      /\ pc'[s]["own"] = l /\ pc'[s]["rx"] = "off" /\ pc'[s]["tx"] = "off"
      /\ \A t \in Sessions \ {s} : pc'[t] = pc[t]
  <2>1. l \in OwnLabels /\ "own" \in Roles /\ {"rx", "tx"} \subseteq Roles \ {"own"}
    BY DEF OwnLabels, Opening, Roles
  <2> QED BY <1>1, <1>2, <2>1, GotoIs DEF SocketsInv
<1>4. PlaceOf(s)' /\ LifeOf(s)'
  BY <1>1, <1>3, SMT DEF SocketsInv, SessionInv, PlaceOf, LifeOf, OwnLabels,
     RxLabels, TxLabels, Opening, Releasing, OpenRecv
<1>5. UseOf(s)' /\ FrameOf(s)' /\ TakesOf(s)'
  BY Zenon DEF SocketsInv, SessionInv, UseOf, FrameOf, TakesOf, OpenRecv
<1>6. CASE l = "down"
  <2>1. ~HasRecv(s)' /\ ~HasSend(s)'
    BY <1>3, <1>6 DEF HasRecv, HasSend, Releasing
  <2>2. TableOf(s)'
    BY <1>1, <1>2, <1>6, <2>1 DEF TableOf, SocketsInv, SessionInv
  <2>3. \A t \in Sessions \ {s} : Untouched(t) /\ Spared(t)
    BY <1>2, <1>3, <1>6, SMT DEF Untouched, Spared, OpenRecv
  <2>4. ShapeInv'
    BY <1>2, <1>3, <1>6 DEF ShapeInv, SocketsInv, OpenRecv
  <2> QED BY <1>4, <1>5, <2>2, <2>3, <2>4 DEF Good, SessionInv, OpenRecv
<1>7. CASE l # "down"
  <2>1. PICK d \in Fds : /\ fdTable[d] = NoFile
                         /\ fdTable' = [fdTable EXCEPT ![d] = File(s, "recv")]
                         /\ recvFd' = [recvFd EXCEPT ![s] = d]
    BY <1>2, <1>7
  <2>2. /\ fdTable' \in [Fds -> Files]
        /\ fdTable'[d] = File(s, "recv")
        /\ \A e \in Fds \ {d} : fdTable'[e] = fdTable[e]
        /\ \A t \in Sessions \ {s} : Spared(t)
    BY <2>1, GivenIs DEF SocketsInv
  <2>3. HasRecv(s)' /\ ~HasSend(s)'
    BY <1>3, <1>7 DEF HasRecv, HasSend, Releasing
  <2>4. /\ recvFd' \in [Sessions -> Fds \cup {NoFd}] /\ recvFd'[s] = d
        /\ \A t \in Sessions \ {s} : recvFd'[t] = recvFd[t]
    BY <2>1, SMT DEF SocketsInv, ShapeInv
  <2>5. TableOf(s)'
    BY <1>1, <2>2, <2>3, <2>4, SMT DEF TableOf, SocketsInv, SessionInv
  <2>6. \A t \in Sessions \ {s} : Untouched(t)
    BY <1>3, <2>4 DEF Untouched, OpenRecv
  <2>7. ShapeInv'
    BY <1>3, <2>2, <2>4 DEF ShapeInv, SocketsInv, OpenRecv
  <2> QED BY <1>4, <1>5, <2>2, <2>5, <2>6, <2>7 DEF Good, SessionInv, OpenRecv
<1> QED BY <1>6, <1>7

\* The bind, or the end of it all.
LEMMA BindRawGood ==
  ASSUME SocketsInv, NEW s \in Sessions, BindRaw(s)
  PROVE  Good(s)
<1> USE DEF OpenUnchanged
<1>1. /\ pc[s]["own"] = "bind" /\ pc[s]["rx"] = "off" /\ ~closed[s]
      /\ pc[s]["tx"] = "off" /\ HasRecv(s) /\ ~HasSend(s)
  BY SMT DEF BindRaw, SocketsInv, SessionInv, LifeOf, HasRecv, HasSend, Opening, Releasing
<1>2. PICK l \in {"send", "down"} :
        /\ Goto(s, "own", l)
        /\ IF l = "down" THEN CloseFd(recvFd[s]) ELSE UNCHANGED fdTable
  BY SMT DEF BindRaw
<1>3. /\ pc' \in [Sessions -> [Roles -> OwnLabels \cup RxLabels \cup TxLabels]]
      /\ pc'[s]["own"] = l /\ pc'[s]["rx"] = "off" /\ pc'[s]["tx"] = "off"
      /\ \A t \in Sessions \ {s} : pc'[t] = pc[t]
  <2>1. l \in OwnLabels /\ "own" \in Roles /\ {"rx", "tx"} \subseteq Roles \ {"own"}
    BY DEF OwnLabels, Opening, Roles
  <2> QED BY <1>1, <1>2, <2>1, GotoIs DEF SocketsInv
<1>4. PlaceOf(s)' /\ LifeOf(s)'
  BY <1>1, <1>3, SMT DEF SocketsInv, SessionInv, PlaceOf, LifeOf, OwnLabels,
     RxLabels, TxLabels, Opening, Releasing, BindRaw
<1>5. UseOf(s)' /\ FrameOf(s)' /\ TakesOf(s)'
  BY Zenon DEF SocketsInv, SessionInv, UseOf, FrameOf, TakesOf, BindRaw
<1>6. \A t \in Sessions \ {s} : Untouched(t)
  BY <1>3 DEF Untouched, BindRaw
<1>7. CASE l = "send"
  <2>1. HasRecv(s)' /\ ~HasSend(s)' /\ fdTable' = fdTable
    BY <1>2, <1>3, <1>7 DEF HasRecv, HasSend, Releasing
  <2>2. TableOf(s)'
    BY <1>1, <1>2, <2>1 DEF TableOf, SocketsInv, SessionInv, BindRaw
  <2>3. ShapeInv' /\ \A t \in Sessions \ {s} : Spared(t)
    BY <1>3, <2>1 DEF ShapeInv, SocketsInv, BindRaw, Spared
  <2> QED BY <1>4, <1>5, <1>6, <2>2, <2>3 DEF Good, SessionInv, BindRaw
<1>8. CASE l = "down"
  <2>0. recvFd[s] \in Fds /\ fdTable[recvFd[s]] = File(s, "recv")
    BY <1>1 DEF SocketsInv, SessionInv, TableOf
  <2>1. recvFd[s] \in Fds /\ fdTable[recvFd[s]].who = s /\ CloseFd(recvFd[s])
    BY <1>2, <1>8, <2>0 DEF File
  <2>2. /\ fdTable' \in [Fds -> Files]
        /\ fdTable'[recvFd[s]].who \notin Sessions
        /\ \A e \in Fds \ {recvFd[s]} : fdTable'[e] = fdTable[e]
        /\ \A t \in Sessions \ {s} : Spared(t)
    BY <2>1, FreedIs DEF SocketsInv
  <2>3. ~HasRecv(s)' /\ ~HasSend(s)'
    BY <1>3, <1>8 DEF HasRecv, HasSend, Releasing
  <2>4. TableOf(s)'
    BY <1>1, <2>1, <2>2, <2>3, SMT DEF TableOf, SocketsInv, SessionInv
  <2>5. ShapeInv'
    BY <1>3, <2>2 DEF ShapeInv, SocketsInv, BindRaw
  <2> QED BY <1>4, <1>5, <1>6, <2>2, <2>4, <2>5 DEF Good, SessionInv, BindRaw
<1> QED BY <1>7, <1>8

\* Opening the sender, or giving the receiver back.
LEMMA OpenSenderGood ==
  ASSUME SocketsInv, NEW s \in Sessions, OpenSender(s)
  PROVE  Good(s)
<1> USE DEF OpenUnchanged
<1>1. /\ pc[s]["own"] = "send" /\ pc[s]["rx"] = "off" /\ ~closed[s]
      /\ pc[s]["tx"] = "off" /\ HasRecv(s) /\ ~HasSend(s)
  BY SMT DEF OpenSender, SocketsInv, SessionInv, LifeOf, HasRecv, HasSend, Opening, Releasing
<1>2. PICK l \in {"key", "down"} :
        /\ Goto(s, "own", l)
        /\ \/ l = "down" /\ CloseFd(recvFd[s]) /\ UNCHANGED sendFd
           \/ /\ l = "key"
              /\ \E d \in Fds : /\ fdTable[d] = NoFile
                                /\ fdTable' = [fdTable EXCEPT ![d] = File(s, "send")]
                                /\ sendFd' = [sendFd EXCEPT ![s] = d]
  BY SMT DEF OpenSender, Alloc, Lowest, Free
<1>3. /\ pc' \in [Sessions -> [Roles -> OwnLabels \cup RxLabels \cup TxLabels]]
      /\ pc'[s]["own"] = l /\ pc'[s]["rx"] = "off" /\ pc'[s]["tx"] = "off"
      /\ \A t \in Sessions \ {s} : pc'[t] = pc[t]
  <2>1. l \in OwnLabels /\ "own" \in Roles /\ {"rx", "tx"} \subseteq Roles \ {"own"}
    BY DEF OwnLabels, Opening, Roles
  <2> QED BY <1>1, <1>2, <2>1, GotoIs DEF SocketsInv
<1>4. PlaceOf(s)' /\ LifeOf(s)'
  BY <1>1, <1>3, SMT DEF SocketsInv, SessionInv, PlaceOf, LifeOf, OwnLabels,
     RxLabels, TxLabels, Opening, Releasing, OpenSender
<1>5. UseOf(s)' /\ FrameOf(s)' /\ TakesOf(s)'
  BY Zenon DEF SocketsInv, SessionInv, UseOf, FrameOf, TakesOf, OpenSender
<1>6. recvFd[s] \in Fds /\ fdTable[recvFd[s]] = File(s, "recv")
  BY <1>1 DEF SocketsInv, SessionInv, TableOf
<1>7. CASE l = "key"
  <2>1. PICK d \in Fds : /\ fdTable[d] = NoFile
                         /\ fdTable' = [fdTable EXCEPT ![d] = File(s, "send")]
                         /\ sendFd' = [sendFd EXCEPT ![s] = d]
    BY <1>2, <1>7
  <2>2. /\ fdTable' \in [Fds -> Files]
        /\ fdTable'[d] = File(s, "send")
        /\ \A e \in Fds \ {d} : fdTable'[e] = fdTable[e]
        /\ \A t \in Sessions \ {s} : Spared(t)
    BY <2>1, GivenIs DEF SocketsInv
  <2>3. HasRecv(s)' /\ HasSend(s)' /\ recvFd[s] # d
    BY <1>3, <1>6, <1>7, <2>1 DEF HasRecv, HasSend, Releasing, File, NoFile
  <2>4. /\ sendFd' \in [Sessions -> Fds \cup {NoFd}] /\ sendFd'[s] = d
        /\ \A t \in Sessions \ {s} : sendFd'[t] = sendFd[t]
    BY <2>1, SMT DEF SocketsInv, ShapeInv
  <2>5. TableOf(s)'
    BY <1>1, <1>6, <2>2, <2>3, <2>4, SMT DEF TableOf, SocketsInv, SessionInv, OpenSender
  <2>6. \A t \in Sessions \ {s} : Untouched(t)
    BY <1>3, <2>4 DEF Untouched, OpenSender
  <2>7. ShapeInv'
    BY <1>3, <2>2, <2>4 DEF ShapeInv, SocketsInv, OpenSender
  <2> QED BY <1>4, <1>5, <2>2, <2>5, <2>6, <2>7 DEF Good, SessionInv, OpenSender
<1>8. CASE l = "down"
  <2>1. fdTable[recvFd[s]].who = s /\ CloseFd(recvFd[s]) /\ UNCHANGED sendFd
    BY <1>2, <1>6, <1>8 DEF File
  <2>2. /\ fdTable' \in [Fds -> Files]
        /\ fdTable'[recvFd[s]].who \notin Sessions
        /\ \A e \in Fds \ {recvFd[s]} : fdTable'[e] = fdTable[e]
        /\ \A t \in Sessions \ {s} : Spared(t)
    BY <1>6, <2>1, FreedIs DEF SocketsInv
  <2>3. ~HasRecv(s)' /\ ~HasSend(s)'
    BY <1>3, <1>8 DEF HasRecv, HasSend, Releasing
  <2>4. TableOf(s)'
    BY <1>1, <2>1, <2>2, <2>3, SMT DEF TableOf, SocketsInv, SessionInv
  <2>5. ShapeInv' /\ \A t \in Sessions \ {s} : Untouched(t)
    BY <1>3, <2>1, <2>2 DEF ShapeInv, SocketsInv, OpenSender, Untouched
  <2> QED BY <1>4, <1>5, <2>2, <2>4, <2>5 DEF Good, SessionInv, OpenSender
<1> QED BY <1>7, <1>8

\* The key, with which the loops start, or both sockets given back.
LEMMA DrawKeyGood ==
  ASSUME SocketsInv, NEW s \in Sessions, DrawKey(s)
  PROVE  Good(s)
<1> USE DEF OpenUnchanged
<1>1. /\ pc[s]["own"] = "key" /\ pc[s]["rx"] = "off" /\ ~closed[s]
      /\ pc[s]["tx"] = "off" /\ HasRecv(s) /\ HasSend(s) /\ ~down[s]
      /\ taken[s] = NoFrame
  BY SMT DEF DrawKey, SocketsInv, SessionInv, LifeOf, HasRecv, HasSend, Opening, Releasing
<1>2. /\ recvFd[s] \in Fds /\ fdTable[recvFd[s]] = File(s, "recv")
      /\ sendFd[s] \in Fds /\ fdTable[sendFd[s]] = File(s, "send")
  BY <1>1 DEF SocketsInv, SessionInv, TableOf
<1>3. UseOf(s)' /\ FrameOf(s)' /\ TakesOf(s)'
  BY <1>1, Zenon DEF SocketsInv, SessionInv, UseOf, FrameOf, TakesOf, DrawKey
<1>4. CASE pc' = [pc EXCEPT ![s] = [own |-> "up", rx |-> "top", tx |-> "tick"]]
  <2>1. PICK k \in Keys, i \in IPIDs :
          /\ key' = [key EXCEPT ![s] = k] /\ ipID' = [ipID EXCEPT ![s] = i]
          /\ UNCHANGED fdTable
    <3>1. [pc EXCEPT ![s] = [own |-> "up", rx |-> "top", tx |-> "tick"]]
            # [pc EXCEPT ![s]["own"] = "down"]
      BY SMT DEF SocketsInv, ShapeInv, Roles
    <3> QED BY <1>4, <3>1, Zenon DEF DrawKey, Goto
  <2>2. /\ pc' \in [Sessions -> [Roles -> OwnLabels \cup RxLabels \cup TxLabels]]
        /\ pc'[s]["own"] = "up" /\ pc'[s]["rx"] = "top" /\ pc'[s]["tx"] = "tick"
        /\ \A t \in Sessions \ {s} : pc'[t] = pc[t]
    BY <1>4, SMT DEF SocketsInv, ShapeInv, Roles, OwnLabels, RxLabels, TxLabels
  <2>3. /\ key' \in [Sessions -> Keys \cup {NoSessionKey}]
        /\ ipID' \in [Sessions -> 0 .. maxUint16]
        /\ \A t \in Sessions \ {s} : key'[t] = key[t]
    <3>1. i \in 0 .. maxUint16
      BY SocketsAssumption DEF SocketsAssumption
    <3>2. /\ key \in [Sessions -> Keys \cup {NoSessionKey}]
          /\ ipID \in [Sessions -> 0 .. maxUint16]
      BY DEF SocketsInv, ShapeInv
    <3> QED BY <2>1, <3>1, <3>2
  <2>4. PlaceOf(s)' /\ LifeOf(s)'
    BY <1>1, <1>2, <2>2, SMT DEF SocketsInv, SessionInv, PlaceOf, LifeOf, OwnLabels,
       RxLabels, TxLabels, Opening, Releasing, DrawKey
  <2>5. HasRecv(s)' /\ HasSend(s)'
    BY <1>1, <2>2 DEF HasRecv, HasSend, DrawKey
  <2>6. TableOf(s)' /\ \A t \in Sessions \ {s} : Spared(t)
    BY <1>1, <2>1, <2>5 DEF TableOf, SocketsInv, SessionInv, DrawKey, Spared
  <2>7. \A t \in Sessions \ {s} : Untouched(t)
    BY <2>2, <2>3 DEF Untouched, DrawKey
  <2>8. ShapeInv'
    BY <2>1, <2>2, <2>3 DEF ShapeInv, SocketsInv, DrawKey
  <2> QED BY <1>3, <2>4, <2>6, <2>7, <2>8 DEF Good, SessionInv, DrawKey
<1>5. CASE /\ fdTable' = [fdTable EXCEPT ![recvFd[s]] = NoFile, ![sendFd[s]] = NoFile]
           /\ Goto(s, "own", "down") /\ UNCHANGED <<key, ipID>>
  <2>1. /\ pc' \in [Sessions -> [Roles -> OwnLabels \cup RxLabels \cup TxLabels]]
        /\ pc'[s]["own"] = "down" /\ pc'[s]["rx"] = "off" /\ pc'[s]["tx"] = "off"
        /\ \A t \in Sessions \ {s} : pc'[t] = pc[t]
    <3>1. "down" \in OwnLabels /\ "own" \in Roles /\ {"rx", "tx"} \subseteq Roles \ {"own"}
      BY DEF OwnLabels, Roles
    <3> QED BY <1>1, <1>5, <3>1, GotoIs DEF SocketsInv
  <2>2. /\ fdTable' \in [Fds -> Files]
        /\ \A e \in Fds : fdTable'[e] = IF e \in {recvFd[s], sendFd[s]} THEN NoFile
                                        ELSE fdTable[e]
    <3>1. fdTable \in [Fds -> Files] /\ NoFile \in Files
      BY DEF SocketsInv, ShapeInv, NoFile, File, Files
    <3> QED BY <1>2, <1>5, <3>1, SMT
  <2>3. PlaceOf(s)' /\ LifeOf(s)'
    BY <1>1, <2>1, SMT DEF SocketsInv, SessionInv, PlaceOf, LifeOf, OwnLabels,
       RxLabels, TxLabels, Opening, Releasing, DrawKey
  <2>4. ~HasRecv(s)' /\ ~HasSend(s)'
    BY <2>1 DEF HasRecv, HasSend, Releasing
  <2>5. NoFile.who \notin Sessions /\ File(s, "recv").who = s /\ File(s, "send").who = s
    BY SocketsAssumption DEF SocketsAssumption, NoFile, File
  <2>6. TableOf(s)'
    BY <2>2, <2>4, <2>5, SMT DEF TableOf, SocketsInv, SessionInv
  <2>7. \A t \in Sessions \ {s} : Untouched(t) /\ Spared(t)
    BY <1>2, <1>5, <2>1, <2>2, <2>5 DEF Untouched, Spared, DrawKey
  <2>8. ShapeInv'
    BY <1>5, <2>1, <2>2 DEF ShapeInv, SocketsInv, DrawKey
  <2> QED BY <1>3, <2>3, <2>6, <2>7, <2>8 DEF Good, SessionInv, DrawKey
<1> QED BY <1>4, <1>5 DEF DrawKey

\* What a change of one label of s does to the control state.
LEMMA Moved ==
  ASSUME SocketsInv, NEW s \in Sessions, NEW r \in Roles,
         NEW l \in OwnLabels \cup RxLabels \cup TxLabels, Goto(s, r, l)
  PROVE  /\ pc' \in [Sessions -> [Roles -> OwnLabels \cup RxLabels \cup TxLabels]]
         /\ pc'[s]["own"] = IF r = "own" THEN l ELSE pc[s]["own"]
         /\ pc'[s]["rx"] = IF r = "rx" THEN l ELSE pc[s]["rx"]
         /\ pc'[s]["tx"] = IF r = "tx" THEN l ELSE pc[s]["tx"]
         /\ \A t \in Sessions \ {s} : pc'[t] = pc[t]
<1>1. {"own", "rx", "tx"} \subseteq Roles
  BY DEF Roles
<1> QED BY <1>1, GotoIs DEF SocketsInv

\* A step of s that leaves the table and the numbers, and s with the sockets
\* it had.
LEMMA TableKept ==
  ASSUME SocketsInv, NEW s \in Sessions, UNCHANGED <<fdTable, recvFd, sendFd>>,
         HasRecv(s)' = HasRecv(s), HasSend(s)' = HasSend(s)
  PROVE  TableOf(s)' /\ \A t \in Sessions : Spared(t)
BY Zenon DEF TableOf, Spared, SocketsInv, SessionInv

\* The swap, by Close and by fail.
LEMMA SwapKeeps ==
  ASSUME SocketsInv, NEW s \in Sessions, NEW r \in {"own", "rx"}, NEW lost,
         Swap(s, r, lost),
         \/ r = "own" /\ pc[s]["own"] = "up" /\ lost = "down"
         \/ r = "rx" /\ pc[s]["rx"] \in {"call", "blocked"} /\ lost = "done",
         UNCHANGED <<recvFd, sendFd, fdTable, down, sends, taken>>
  PROVE  /\ pc' \in [Sessions -> [Roles -> OwnLabels \cup RxLabels \cup TxLabels]]
         /\ closed' \in [Sessions -> BOOLEAN]
         /\ closed[s] => closed'[s]
         /\ \A t \in Sessions \ {s} : pc'[t] = pc[t] /\ closed'[t] = closed[t]
         /\ PlaceOf(s)' /\ LifeOf(s)' /\ TableOf(s)'
<1>1. /\ r \in Roles /\ "down" \in OwnLabels /\ "done" \in RxLabels
      /\ "closeRecv" \in OwnLabels
  BY DEF OwnLabels, RxLabels, Releasing, Roles
<1>2. closed \in [Sessions -> BOOLEAN]
  BY DEF SocketsInv, ShapeInv
<1>3. CASE closed[s]
  <2>1. Goto(s, r, lost) /\ closed' = closed
    BY <1>3 DEF Swap
  <2>2. /\ pc' \in [Sessions -> [Roles -> OwnLabels \cup RxLabels \cup TxLabels]]
        /\ pc'[s]["own"] = IF r = "own" THEN lost ELSE pc[s]["own"]
        /\ pc'[s]["rx"] = IF r = "rx" THEN lost ELSE pc[s]["rx"]
        /\ pc'[s]["tx"] = pc[s]["tx"]
        /\ \A t \in Sessions \ {s} : pc'[t] = pc[t]
    BY <1>1, <2>1, Moved
  <2>3. PlaceOf(s)' /\ LifeOf(s)'
    BY <1>3, <2>1, <2>2, SMT DEF SocketsInv, SessionInv, PlaceOf, LifeOf, OwnLabels,
       RxLabels, TxLabels, Opening, Releasing
  <2>4. HasRecv(s)' = HasRecv(s) /\ HasSend(s)' = HasSend(s)
    BY <1>3, <2>1, <2>2, SMT DEF HasRecv, HasSend, Releasing
  <2> QED BY <1>2, <2>1, <2>2, <2>3, <2>4, TableKept
<1>4. CASE ~closed[s]
  <2>1. Goto(s, r, "closeRecv") /\ closed' = [closed EXCEPT ![s] = TRUE]
    BY <1>4 DEF Swap
  <2>2. /\ pc' \in [Sessions -> [Roles -> OwnLabels \cup RxLabels \cup TxLabels]]
        /\ pc'[s]["own"] = IF r = "own" THEN "closeRecv" ELSE pc[s]["own"]
        /\ pc'[s]["rx"] = IF r = "rx" THEN "closeRecv" ELSE pc[s]["rx"]
        /\ pc'[s]["tx"] = pc[s]["tx"]
        /\ \A t \in Sessions \ {s} : pc'[t] = pc[t]
    BY <1>1, <2>1, Moved
  <2>3. /\ closed' \in [Sessions -> BOOLEAN] /\ closed'[s]
        /\ \A t \in Sessions \ {s} : closed'[t] = closed[t]
    BY <1>2, <2>1
  <2>4. pc[s]["own"] = "up"
    BY <1>4 DEF SocketsInv, SessionInv, LifeOf
  <2>5. PlaceOf(s)' /\ LifeOf(s)'
    BY <1>4, <2>2, <2>3, <2>4, SMT DEF SocketsInv, SessionInv, PlaceOf, LifeOf, OwnLabels,
       RxLabels, TxLabels, Opening, Releasing
  <2>6. HasRecv(s)' = HasRecv(s) /\ HasSend(s)' = HasSend(s)
    BY <1>4, <2>2, <2>3, <2>4, SMT DEF HasRecv, HasSend, Releasing
  <2> QED BY <2>2, <2>3, <2>5, <2>6, TableKept
<1> QED BY <1>3, <1>4

LEMMA CloseGood ==
  ASSUME SocketsInv, NEW s \in Sessions, Close(s)
  PROVE  Good(s)
<1> USE DEF DownUnchanged
<1>1. /\ pc' \in [Sessions -> [Roles -> OwnLabels \cup RxLabels \cup TxLabels]]
      /\ closed' \in [Sessions -> BOOLEAN]
      /\ closed[s] => closed'[s]
      /\ \A t \in Sessions \ {s} : pc'[t] = pc[t] /\ closed'[t] = closed[t]
      /\ PlaceOf(s)' /\ LifeOf(s)' /\ TableOf(s)'
  BY SwapKeeps DEF Close
<1>2. UseOf(s)' /\ FrameOf(s)' /\ TakesOf(s)'
  BY <1>1, Zenon DEF SocketsInv, SessionInv, UseOf, FrameOf, TakesOf, Close
<1>3. \A t \in Sessions \ {s} : Untouched(t) /\ Spared(t)
  BY <1>1 DEF Untouched, Spared, Close
<1>4. ShapeInv'
  BY <1>1 DEF SocketsInv, ShapeInv, Close
<1> QED BY <1>1, <1>2, <1>3, <1>4 DEF Good, SessionInv, Close

LEMMA MarkClosedGood ==
  ASSUME SocketsInv, NEW s \in Sessions, NEW r \in {"own", "rx"}, MarkClosed(s, r)
  PROVE  Good(s)
<1> USE DEF DownUnchanged
<1>1. "closeRecvFd" \in OwnLabels /\ r \in Roles
  BY DEF OwnLabels, Releasing, Roles
<1>2. /\ pc' \in [Sessions -> [Roles -> OwnLabels \cup RxLabels \cup TxLabels]]
      /\ pc'[s]["own"] = IF r = "own" THEN "closeRecvFd" ELSE pc[s]["own"]
      /\ pc'[s]["rx"] = IF r = "rx" THEN "closeRecvFd" ELSE pc[s]["rx"]
      /\ pc'[s]["tx"] = pc[s]["tx"]
      /\ \A t \in Sessions \ {s} : pc'[t] = pc[t]
  BY <1>1, Moved DEF MarkClosed
<1>3. /\ down' \in [Sessions -> BOOLEAN] /\ down'[s]
      /\ \A t \in Sessions \ {s} : down'[t] = down[t]
  BY DEF MarkClosed, SocketsInv, ShapeInv
<1>4. closed[s] /\ pc[s][r] = "closeRecv"
  BY SMT DEF MarkClosed, SocketsInv, SessionInv, LifeOf, Releasing
<1>5. PlaceOf(s)' /\ LifeOf(s)'
  BY <1>2, <1>3, <1>4, SMT DEF SocketsInv, SessionInv, PlaceOf, LifeOf, OwnLabels,
     RxLabels, TxLabels, Opening, Releasing, MarkClosed
<1>6. HasRecv(s)' = HasRecv(s) /\ HasSend(s)' = HasSend(s)
  BY <1>2, <1>4, SMT DEF HasRecv, HasSend, Releasing, MarkClosed
<1>7. TableOf(s)' /\ \A t \in Sessions : Spared(t)
  BY <1>6, TableKept DEF MarkClosed
<1>8. UseOf(s)' /\ FrameOf(s)' /\ TakesOf(s)'
  BY Zenon DEF SocketsInv, SessionInv, UseOf, FrameOf, TakesOf, MarkClosed
<1>9. ShapeInv' /\ \A t \in Sessions \ {s} : Untouched(t)
  BY <1>2, <1>3 DEF SocketsInv, ShapeInv, MarkClosed, Untouched
<1> QED BY <1>5, <1>7, <1>8, <1>9 DEF Good, SessionInv, MarkClosed

\* close(2) of the receive number, which is still the session's own.
LEMMA CloseRecvGood ==
  ASSUME SocketsInv, NEW s \in Sessions, NEW r \in {"own", "rx"}, CloseRecv(s, r)
  PROVE  Good(s)
<1> USE DEF DownUnchanged
<1>1. "closeSend" \in OwnLabels /\ r \in Roles
  BY DEF OwnLabels, Releasing, Roles
<1>2. /\ pc' \in [Sessions -> [Roles -> OwnLabels \cup RxLabels \cup TxLabels]]
      /\ pc'[s]["own"] = IF r = "own" THEN "closeSend" ELSE pc[s]["own"]
      /\ pc'[s]["rx"] = IF r = "rx" THEN "closeSend" ELSE pc[s]["rx"]
      /\ pc'[s]["tx"] = pc[s]["tx"]
      /\ \A t \in Sessions \ {s} : pc'[t] = pc[t]
  BY <1>1, Moved DEF CloseRecv
<1>3. /\ pc[s][r] = "closeRecvFd" /\ closed[s] /\ HasRecv(s) /\ HasSend(s)
      /\ pc[s]["own"] \notin Opening
      /\ r = "own" => pc[s]["rx"] \notin Releasing
      /\ r = "rx" => pc[s]["own"] \notin Releasing
  BY SMT DEF CloseRecv, SocketsInv, SessionInv, LifeOf, Releasing, HasRecv, HasSend
<1>4. PlaceOf(s)' /\ LifeOf(s)'
  BY <1>2, <1>3, SMT DEF SocketsInv, SessionInv, PlaceOf, LifeOf, OwnLabels,
     RxLabels, TxLabels, Opening, Releasing, CloseRecv
<1>5. ~HasRecv(s)' /\ HasSend(s)'
  BY <1>2, <1>3, SMT DEF HasRecv, HasSend, Releasing, Opening, CloseRecv
<1>6. /\ recvFd[s] \in Fds /\ fdTable[recvFd[s]] = File(s, "recv")
      /\ sendFd[s] \in Fds /\ fdTable[sendFd[s]] = File(s, "send")
      /\ CloseFd(recvFd[s])
  BY <1>3 DEF SocketsInv, SessionInv, TableOf, CloseRecv
<1>7. fdTable[recvFd[s]].who = s /\ recvFd[s] # sendFd[s]
  BY <1>6 DEF File
<1>8. /\ fdTable' \in [Fds -> Files]
      /\ fdTable'[recvFd[s]].who \notin Sessions
      /\ \A e \in Fds \ {recvFd[s]} : fdTable'[e] = fdTable[e]
      /\ \A t \in Sessions \ {s} : Spared(t)
  BY <1>6, <1>7, FreedIs DEF SocketsInv
<1>9. TableOf(s)'
  BY <1>5, <1>6, <1>7, <1>8, SMT DEF TableOf, SocketsInv, SessionInv, CloseRecv
<1>10. UseOf(s)' /\ FrameOf(s)' /\ TakesOf(s)'
  BY Zenon DEF SocketsInv, SessionInv, UseOf, FrameOf, TakesOf, CloseRecv
<1>11. ShapeInv' /\ \A t \in Sessions \ {s} : Untouched(t)
  BY <1>2, <1>8 DEF SocketsInv, ShapeInv, CloseRecv, Untouched
<1> QED BY <1>4, <1>8, <1>9, <1>10, <1>11 DEF Good, SessionInv, CloseRecv

\* close(2) of the send number, the last thing the session has.
LEMMA CloseSenderGood ==
  ASSUME SocketsInv, NEW s \in Sessions, NEW r \in {"own", "rx"}, CloseSender(s, r)
  PROVE  Good(s)
<1> USE DEF DownUnchanged
<1>1. "join" \in OwnLabels /\ "done" \in RxLabels /\ r \in Roles
  BY DEF OwnLabels, RxLabels, Roles
<1>2. /\ pc' \in [Sessions -> [Roles -> OwnLabels \cup RxLabels \cup TxLabels]]
      /\ pc'[s]["own"] = IF r = "own" THEN "join" ELSE pc[s]["own"]
      /\ pc'[s]["rx"] = IF r = "rx" THEN "done" ELSE pc[s]["rx"]
      /\ pc'[s]["tx"] = pc[s]["tx"]
      /\ \A t \in Sessions \ {s} : pc'[t] = pc[t]
  BY <1>1, Moved DEF CloseSender
<1>3. /\ pc[s][r] = "closeSend" /\ closed[s] /\ HasSend(s) /\ ~HasRecv(s)
      /\ pc[s]["own"] \notin Opening
      /\ r = "own" => pc[s]["rx"] \notin Releasing
      /\ r = "rx" => pc[s]["own"] \notin Releasing
  BY SMT DEF CloseSender, SocketsInv, SessionInv, LifeOf, Releasing, Opening, HasRecv, HasSend
<1>4. PlaceOf(s)' /\ LifeOf(s)'
  BY <1>2, <1>3, SMT DEF SocketsInv, SessionInv, PlaceOf, LifeOf, OwnLabels,
     RxLabels, TxLabels, Opening, Releasing, CloseSender
<1>5. ~HasRecv(s)' /\ ~HasSend(s)'
  BY <1>2, <1>3, SMT DEF HasRecv, HasSend, Releasing, Opening, CloseSender
<1>6. /\ sendFd[s] \in Fds /\ fdTable[sendFd[s]] = File(s, "send")
      /\ CloseFd(sendFd[s])
  BY <1>3 DEF SocketsInv, SessionInv, TableOf, CloseSender
<1>7. fdTable[sendFd[s]].who = s
  BY <1>6 DEF File
<1>8. /\ fdTable' \in [Fds -> Files]
      /\ fdTable'[sendFd[s]].who \notin Sessions
      /\ \A e \in Fds \ {sendFd[s]} : fdTable'[e] = fdTable[e]
      /\ \A t \in Sessions \ {s} : Spared(t)
  BY <1>6, <1>7, FreedIs DEF SocketsInv
<1>9. TableOf(s)'
  BY <1>3, <1>5, <1>8, SMT DEF TableOf, SocketsInv, SessionInv
<1>10. UseOf(s)' /\ FrameOf(s)' /\ TakesOf(s)'
  BY Zenon DEF SocketsInv, SessionInv, UseOf, FrameOf, TakesOf, CloseSender
<1>11. ShapeInv' /\ \A t \in Sessions \ {s} : Untouched(t)
  BY <1>2, <1>8 DEF SocketsInv, ShapeInv, CloseSender, Untouched
<1> QED BY <1>4, <1>8, <1>9, <1>10, <1>11 DEF Good, SessionInv, CloseSender

LEMMA JoinGood ==
  ASSUME SocketsInv, NEW s \in Sessions, Join(s)
  PROVE  Good(s)
<1> USE DEF DownUnchanged
<1>1. "down" \in OwnLabels /\ "own" \in Roles
  BY DEF OwnLabels, Roles
<1>2. /\ pc' \in [Sessions -> [Roles -> OwnLabels \cup RxLabels \cup TxLabels]]
      /\ pc'[s]["own"] = "down" /\ pc'[s]["rx"] = pc[s]["rx"]
      /\ pc'[s]["tx"] = pc[s]["tx"]
      /\ \A t \in Sessions \ {s} : pc'[t] = pc[t]
  BY <1>1, Moved DEF Join
<1>3. pc[s]["own"] = "join" /\ pc[s]["rx"] = "done" /\ closed[s]
  BY SMT DEF Join, SocketsInv, SessionInv, LifeOf
<1>4. PlaceOf(s)' /\ LifeOf(s)'
  BY <1>2, <1>3, SMT DEF SocketsInv, SessionInv, PlaceOf, LifeOf, OwnLabels,
     RxLabels, TxLabels, Opening, Releasing, Join
<1>5. HasRecv(s)' = HasRecv(s) /\ HasSend(s)' = HasSend(s)
  BY <1>2, <1>3, SMT DEF HasRecv, HasSend, Releasing, Join
<1>6. TableOf(s)' /\ \A t \in Sessions : Spared(t)
  BY <1>5, TableKept DEF Join
<1>7. UseOf(s)' /\ FrameOf(s)' /\ TakesOf(s)'
  BY Zenon DEF SocketsInv, SessionInv, UseOf, FrameOf, TakesOf, Join
<1>8. ShapeInv' /\ \A t \in Sessions \ {s} : Untouched(t)
  BY <1>2 DEF SocketsInv, ShapeInv, Join, Untouched
<1> QED BY <1>4, <1>6, <1>7, <1>8 DEF Good, SessionInv, Join

\* A step of the receive loop that does not end in fail.
LEMMA RxMoveGood ==
  ASSUME SocketsInv, NEW s \in Sessions, RxUnchanged, UNCHANGED closed,
         NEW l \in {"top", "read", "call", "blocked", "done"}, Goto(s, "rx", l),
         pc[s]["rx"] \in {"top", "read", "call", "blocked"},
         l = "done" => closed[s],
         file' \in [Sessions -> Files], taken' \in [Sessions -> InAir \cup {NoFrame}],
         \A t \in Sessions \ {s} : file'[t] = file[t] /\ taken'[t] = taken[t],
         UseOf(s)', TakesOf(s)'
  PROVE  Good(s)
<1> USE DEF RxUnchanged
<1>1. l \in RxLabels /\ "rx" \in Roles
  BY DEF RxLabels, Roles
<1>2. /\ pc' \in [Sessions -> [Roles -> OwnLabels \cup RxLabels \cup TxLabels]]
      /\ pc'[s]["own"] = pc[s]["own"] /\ pc'[s]["rx"] = l
      /\ pc'[s]["tx"] = pc[s]["tx"]
      /\ \A t \in Sessions \ {s} : pc'[t] = pc[t]
  BY <1>1, Moved
<1>3. PlaceOf(s)' /\ LifeOf(s)'
  BY <1>2, SMT DEF SocketsInv, SessionInv, PlaceOf, LifeOf, OwnLabels,
     RxLabels, TxLabels, Opening, Releasing
<1>4. HasRecv(s)' = HasRecv(s) /\ HasSend(s)' = HasSend(s)
  BY <1>2, SMT DEF HasRecv, HasSend, Releasing
<1>5. TableOf(s)' /\ \A t \in Sessions : Spared(t)
  BY <1>4, TableKept
<1>6. FrameOf(s)'
  BY Zenon DEF SocketsInv, SessionInv, FrameOf
<1>7. ShapeInv' /\ \A t \in Sessions \ {s} : Untouched(t)
  BY <1>2 DEF SocketsInv, ShapeInv, Untouched
<1> QED BY <1>3, <1>5, <1>6, <1>7 DEF Good, SessionInv

LEMMA NoFileIs == NoFile \in Files /\ NoFile.who \notin Sessions
BY SocketsAssumption DEF NoFile, File, Files, SocketsAssumption

\* The receive call returns: its file is no longer held.
LEMMA LetGo ==
  ASSUME SocketsInv, NEW s \in Sessions, file' = [file EXCEPT ![s] = NoFile]
  PROVE  /\ file' \in [Sessions -> Files] /\ file'[s] = NoFile
         /\ \A t \in Sessions \ {s} : file'[t] = file[t]
BY NoFileIs DEF SocketsInv, ShapeInv

LEMMA RxTopGood ==
  ASSUME SocketsInv, NEW s \in Sessions, RxTop(s)
  PROVE  Good(s)
<1>1. /\ taken' \in [Sessions -> InAir \cup {NoFrame}] /\ taken'[s] = NoFrame
      /\ \A t \in Sessions \ {s} : taken'[t] = taken[t]
  BY DEF RxTop, SocketsInv, ShapeInv
<1>2. file \in [Sessions -> Files] /\ (down[s] => closed[s])
  BY DEF SocketsInv, ShapeInv, SessionInv, LifeOf
<1>3. UseOf(s)' /\ TakesOf(s)'
  BY <1>1, Zenon DEF SocketsInv, SessionInv, UseOf, TakesOf, RxTop, RxUnchanged
<1>4. PICK l \in {"call", "done"} : Goto(s, "rx", l) /\ (l = "done" => closed[s])
  BY <1>2 DEF RxTop
<1> QED BY <1>1, <1>2, <1>3, <1>4, RxMoveGood DEF RxTop

LEMMA ReadCheckGood ==
  ASSUME SocketsInv, NEW s \in Sessions, ReadCheck(s)
  PROVE  Good(s)
<1>1. /\ file \in [Sessions -> Files] /\ (down[s] => closed[s])
      /\ taken \in [Sessions -> InAir \cup {NoFrame}]
  BY DEF SocketsInv, ShapeInv, SessionInv, LifeOf
<1>2. UseOf(s)' /\ TakesOf(s)'
  BY Zenon DEF SocketsInv, SessionInv, UseOf, TakesOf, ReadCheck, RxUnchanged
<1>3. PICK l \in {"call", "done"} : Goto(s, "rx", l) /\ (l = "done" => closed[s])
  BY <1>1 DEF ReadCheck
<1> QED BY <1>1, <1>2, <1>3, RxMoveGood DEF ReadCheck

\* An error of Read: the loop ends, or is the one to release.
LEMMA RxErrorGood ==
  ASSUME SocketsInv, NEW s \in Sessions, RxUnchanged, UNCHANGED taken, RxError(s),
         pc[s]["rx"] \in {"call", "blocked"},
         file' \in [Sessions -> Files], file'[s] \in {NoFile, file[s]},
         \A t \in Sessions \ {s} : file'[t] = file[t]
  PROVE  Good(s)
<1> USE DEF RxUnchanged
<1>1. CASE down[s]
  <2>1. Goto(s, "rx", "done") /\ UNCHANGED closed /\ closed[s]
    BY <1>1 DEF RxError, SocketsInv, SessionInv, LifeOf
  <2>2. UseOf(s)' /\ TakesOf(s)'
    BY <2>1, Zenon DEF SocketsInv, SessionInv, UseOf, TakesOf
  <2>3. taken \in [Sessions -> InAir \cup {NoFrame}]
    BY DEF SocketsInv, ShapeInv
  <2> QED BY <2>1, <2>2, <2>3, RxMoveGood
<1>2. CASE ~down[s]
  <2>1. Swap(s, "rx", "done")
    BY <1>2 DEF RxError
  <2>2. /\ pc' \in [Sessions -> [Roles -> OwnLabels \cup RxLabels \cup TxLabels]]
        /\ closed' \in [Sessions -> BOOLEAN]
        /\ closed[s] => closed'[s]
        /\ \A t \in Sessions \ {s} : pc'[t] = pc[t] /\ closed'[t] = closed[t]
        /\ PlaceOf(s)' /\ LifeOf(s)' /\ TableOf(s)'
    BY <2>1, SwapKeeps
  <2>3. UseOf(s)' /\ FrameOf(s)' /\ TakesOf(s)'
    BY <2>2, Zenon DEF SocketsInv, SessionInv, UseOf, FrameOf, TakesOf
  <2>4. \A t \in Sessions \ {s} : Untouched(t) /\ Spared(t)
    BY <2>2 DEF Untouched, Spared
  <2>5. ShapeInv'
    BY <2>2 DEF SocketsInv, ShapeInv
  <2> QED BY <2>2, <2>3, <2>4, <2>5 DEF Good, SessionInv
<1> QED BY <1>1, <1>2

\* recvfrom looks the number up, which is the session's own until it is closed.
LEMMA RecvfromGood ==
  ASSUME SocketsInv, NEW s \in Sessions, Recvfrom(s)
  PROVE  Good(s)
<1>1. /\ file \in [Sessions -> Files] /\ fdTable \in [Fds -> Files]
      /\ taken \in [Sessions -> InAir \cup {NoFrame}] /\ recvFd[s] \in Fds
      /\ ~closed[s] => fdTable[recvFd[s]] = File(s, "recv")
  BY SMT DEF Recvfrom, SocketsInv, ShapeInv, SessionInv, LifeOf, TableOf, HasRecv
<1>2. PICK f : f = IF Raw(s) THEN fdTable[recvFd[s]]
                   ELSE IF fdTable[recvFd[s]] = File(s, "recv") THEN File(s, "recv")
                   ELSE NoFile
  OBVIOUS
<1>3. CASE f = NoFile
  <2>1. RxError(s) /\ UNCHANGED file
    BY <1>2, <1>3 DEF Recvfrom
  <2> QED BY <1>1, <2>1, RxErrorGood DEF Recvfrom
<1>4. CASE f # NoFile
  <2>1. /\ file' = [file EXCEPT ![s] = f] /\ Goto(s, "rx", "blocked")
        /\ UNCHANGED closed
    BY <1>2, <1>4 DEF Recvfrom
  <2>2. f \in Files /\ (~closed[s] => f = File(s, "recv"))
    BY <1>1, <1>2, <1>4
  <2>3. /\ file' \in [Sessions -> Files] /\ file'[s] = f
        /\ \A t \in Sessions \ {s} : file'[t] = file[t]
    BY <1>1, <2>1, <2>2
  <2>4. UseOf(s)' /\ TakesOf(s)'
    BY <2>1, <2>2, <2>3, Zenon
       DEF SocketsInv, SessionInv, UseOf, TakesOf, Recvfrom, RxUnchanged
  <2> QED BY <1>1, <2>1, <2>3, <2>4, RxMoveGood DEF Recvfrom
<1> QED BY <1>3, <1>4

LEMMA RecvErrorGood ==
  ASSUME SocketsInv, NEW s \in Sessions, RecvError(s)
  PROVE  Good(s)
BY LetGo, RxErrorGood DEF RecvError

LEMMA RecvTimeoutGood ==
  ASSUME SocketsInv, NEW s \in Sessions, RecvTimeout(s)
  PROVE  Good(s)
<1>1. taken \in [Sessions -> InAir \cup {NoFrame}]
  BY DEF SocketsInv, ShapeInv
<1>2. UseOf(s)' /\ TakesOf(s)'
  BY LetGo, Zenon DEF SocketsInv, SessionInv, UseOf, TakesOf, RecvTimeout, RxUnchanged
<1> QED BY <1>1, <1>2, LetGo, RxMoveGood DEF RecvTimeout

LEMMA RecvDropGood ==
  ASSUME SocketsInv, NEW s \in Sessions, RecvDrop(s)
  PROVE  Good(s)
<1>1. taken \in [Sessions -> InAir \cup {NoFrame}]
  BY DEF SocketsInv, ShapeInv
<1>2. UseOf(s)' /\ TakesOf(s)'
  BY LetGo, Zenon DEF SocketsInv, SessionInv, UseOf, TakesOf, RecvDrop, RxUnchanged
<1> QED BY <1>1, <1>2, LetGo, RxMoveGood DEF RecvDrop

\* A frame is taken only if TakenIsOwn says whose it is.
LEMMA RecvFrameGood ==
  ASSUME SocketsInv, NEW s \in Sessions, NEW f \in Passed[vlan[s]], RecvFrame(s, f)
  PROVE  Good(s)
<1>1. taken \in [Sessions -> InAir \cup {NoFrame}] /\ vlan \in Vlans
  BY DEF SocketsInv, ShapeInv
<1>2. UseOf(s)'
  BY LetGo, Zenon DEF SocketsInv, SessionInv, UseOf, RecvFrame, RxUnchanged
<1>3. CASE decodeKey(f.hdr, "toClient") = key[s]
  <2>1. taken' = [taken EXCEPT ![s] = f]
    BY <1>3 DEF RecvFrame
  <2>2. /\ f \in InAir
        /\ \/ f \in Genuine([vlan |-> vlan[s], key |-> key[s]])
           \/ key[s] = clientType
    BY <1>1, <1>3, TakenIsOwn
  <2>3. /\ taken' \in [Sessions -> InAir \cup {NoFrame}] /\ taken'[s] = f
        /\ \A t \in Sessions \ {s} : taken'[t] = taken[t]
    BY <1>1, <2>1, <2>2
  <2>4. TakesOf(s)'
    BY <2>2, <2>3, Zenon DEF TakesOf, RecvFrame, RxUnchanged
  <2> QED BY <1>2, <2>3, <2>4, LetGo, RxMoveGood DEF RecvFrame
<1>4. CASE decodeKey(f.hdr, "toClient") # key[s]
  <2>1. taken' = taken
    BY <1>4 DEF RecvFrame
  <2>2. TakesOf(s)'
    BY <2>1, Zenon DEF SocketsInv, SessionInv, TakesOf, RecvFrame, RxUnchanged
  <2> QED BY <1>1, <1>2, <2>1, <2>2, LetGo, RxMoveGood DEF RecvFrame
<1> QED BY <1>3, <1>4

\* A step of a sender.
LEMMA TxMoveGood ==
  ASSUME SocketsInv, NEW s \in Sessions, TxUnchanged,
         NEW l \in {"tick", "build", "sendto", "done"}, Goto(s, "tx", l),
         pc[s]["tx"] \in {"tick", "build", "sendto"},
         via' \in [Sessions -> Files], ipID' \in [Sessions -> 0 .. maxUint16],
         sends' \in [Sessions -> Nat], sends'[s] <= MaxSends[s],
         l = "build" => sends'[s] < MaxSends[s], DOMAIN frame' = Sessions,
         \A t \in Sessions \ {s} : /\ via'[t] = via[t] /\ sends'[t] = sends[t]
                                   /\ frame'[t] = frame[t],
         UseOf(s)', FrameOf(s)'
  PROVE  Good(s)
<1> USE DEF TxUnchanged
<1>1. l \in TxLabels /\ "tx" \in Roles
  BY DEF TxLabels, Roles
<1>2. /\ pc' \in [Sessions -> [Roles -> OwnLabels \cup RxLabels \cup TxLabels]]
      /\ pc'[s]["own"] = pc[s]["own"] /\ pc'[s]["rx"] = pc[s]["rx"]
      /\ pc'[s]["tx"] = l
      /\ \A t \in Sessions \ {s} : pc'[t] = pc[t]
  BY <1>1, Moved
<1>3. PlaceOf(s)' /\ LifeOf(s)'
  BY <1>2, SMT DEF SocketsInv, SessionInv, PlaceOf, LifeOf, OwnLabels,
     RxLabels, TxLabels, Opening, Releasing
<1>4. HasRecv(s)' = HasRecv(s) /\ HasSend(s)' = HasSend(s)
  BY <1>2, SMT DEF HasRecv, HasSend, Releasing
<1>5. TableOf(s)' /\ \A t \in Sessions : Spared(t)
  BY <1>4, TableKept
<1>6. TakesOf(s)'
  BY Zenon DEF SocketsInv, SessionInv, TakesOf
<1>7. ShapeInv' /\ \A t \in Sessions \ {s} : Untouched(t)
  BY <1>2 DEF SocketsInv, ShapeInv, Untouched
<1> QED BY <1>3, <1>5, <1>6, <1>7 DEF Good, SessionInv

LEMMA TxCheckGood ==
  ASSUME SocketsInv, NEW s \in Sessions, TxCheck(s)
  PROVE  Good(s)
<1>1. /\ via \in [Sessions -> Files] /\ ipID \in [Sessions -> 0 .. maxUint16]
      /\ sends \in [Sessions -> Nat] /\ sends[s] <= MaxSends[s]
      /\ DOMAIN frame = Sessions
  BY DEF SocketsInv, ShapeInv, SessionInv, PlaceOf
<1>2. /\ via' \in [Sessions -> Files] /\ via'[s] = NoFile
      /\ \A t \in Sessions \ {s} : via'[t] = via[t]
  BY <1>1, NoFileIs DEF TxCheck
<1>3. PICK l \in {"build", "done"} : /\ Goto(s, "tx", l)
                                     /\ l = "build" => sends[s] < MaxSends[s]
  BY DEF TxCheck
<1>4. UseOf(s)' /\ FrameOf(s)'
  BY <1>2, Zenon DEF SocketsInv, SessionInv, UseOf, FrameOf, TxCheck, TxUnchanged
<1> QED BY <1>1, <1>2, <1>3, <1>4, TxMoveGood DEF TxCheck

LEMMA BoundsAre ==
  /\ maxPayload \in Nat /\ maxPayload < 2000
  /\ maxUint16 \in Nat /\ maxUint16 < 65536
BY SMT DEF maxPayload, maxUint16

\* The header of a frame Send builds carries its checksum.
LEMMA BuiltIsSummed ==
  ASSUME NEW len \in PayloadLens, NEW v, NEW i \in 0 .. maxUint16, NEW h
  PROVE  /\ Summed(buildFrame(OurMAC, DevMAC, v, i, h, len))
         /\ buildFrame(OurMAC, DevMAC, v, i, h, len) # NoFrame
<1>1. len \in 0 .. maxPayload
  BY SocketsAssumption DEF SocketsAssumption
<1>2. /\ maxPayload \in Nat /\ maxPayload < 2000
      /\ maxUint16 \in Nat /\ maxUint16 < 65536
  BY BoundsAre
<1>3. PICK n : n = 28 + headerLen + len
  OBVIOUS
<1>4. n \in Nat /\ n < 65536 /\ i \in Nat /\ i < 65536
  BY <1>1, <1>2, <1>3, SMT DEF headerLen
<1>5. PICK f : f = buildFrame(OurMAC, DevMAC, v, i, h, len)
  OBVIOUS
<1>6. /\ f.total = n /\ f.id = i
      /\ f.sum = internetChecksum(ipWords(n, i, 0)) /\ f # NoFrame
  BY <1>3, <1>5, SMT DEF buildFrame, NoFrame
<1> QED BY <1>4, <1>5, <1>6 DEF Summed

LEMMA BuildFrameGood ==
  ASSUME SocketsInv, NEW s \in Sessions, BuildFrame(s)
  PROVE  Good(s)
<1>1. /\ via \in [Sessions -> Files] /\ ipID \in [Sessions -> 0 .. maxUint16]
      /\ sends \in [Sessions -> Nat] /\ sends[s] < MaxSends[s]
      /\ DOMAIN frame = Sessions
  BY DEF SocketsInv, ShapeInv, SessionInv, PlaceOf, BuildFrame
<1>2. nextIPID(ipID[s]) \in 0 .. maxUint16
  <2>1. ipID[s] \in Nat
    BY <1>1
  <2>2. (ipID[s] + 1) % 65536 \in Nat /\ (ipID[s] + 1) % 65536 < 65536
    BY <2>1, SMT
  <2>3. \A x \in Nat : x < 65536 => x <= maxUint16
    BY SMT DEF maxUint16
  <2>4. nextIPID(ipID[s]) \in Nat /\ nextIPID(ipID[s]) <= maxUint16
    BY <2>2, <2>3 DEF nextIPID
  <2>5. maxUint16 \in Nat
    BY SMT DEF maxUint16
  <2> QED BY <2>4, <2>5, SMT
<1>3. /\ ipID' \in [Sessions -> 0 .. maxUint16] /\ ipID'[s] \in 0 .. maxUint16
  BY <1>1, <1>2, SMT DEF BuildFrame
<1>4. /\ sends' \in [Sessions -> Nat] /\ sends'[s] <= MaxSends[s]
      /\ \A t \in Sessions \ {s} : sends'[t] = sends[t]
  BY <1>1, SocketsAssumption, SMT DEF BuildFrame, SocketsAssumption
<1>5. PICK len \in PayloadLens :
        frame' = [frame EXCEPT ![s] =
                    buildFrame(OurMAC, DevMAC, vlan[s], ipID'[s],
                               encode("ACK", key[s], "toServer"), len)]
  BY Zenon DEF BuildFrame
<1>6. /\ DOMAIN frame' = Sessions /\ Summed(frame'[s])
      /\ \A t \in Sessions \ {s} : frame'[t] = frame[t]
  BY <1>1, <1>3, <1>5, BuiltIsSummed, Zenon
<1>7. UseOf(s)' /\ FrameOf(s)'
  <2>1. FrameOf(s)'
    BY <1>6, SMT DEF FrameOf, Summed
  <2>2. UseOf(s)'
    BY Zenon DEF SocketsInv, SessionInv, UseOf, BuildFrame, TxUnchanged
  <2> QED BY <2>1, <2>2
<1> QED BY <1>1, <1>3, <1>4, <1>6, <1>7, TxMoveGood DEF BuildFrame

\* sendto looks the number up, which is the session's own until it is closed.
LEMMA SendtoGood ==
  ASSUME SocketsInv, NEW s \in Sessions, Sendto(s)
  PROVE  Good(s)
<1>1. /\ via \in [Sessions -> Files] /\ ipID \in [Sessions -> 0 .. maxUint16]
      /\ sends \in [Sessions -> Nat] /\ sends[s] <= MaxSends[s]
      /\ DOMAIN frame = Sessions /\ fdTable \in [Fds -> Files]
  BY DEF SocketsInv, ShapeInv, SessionInv, PlaceOf
<1>2. sendFd[s] \in Fds /\ (~closed[s] => fdTable[sendFd[s]] = File(s, "send"))
  BY SMT DEF Sendto, SocketsInv, SessionInv, LifeOf, TableOf, HasSend
<1>3. /\ via' \in [Sessions -> Files] /\ via'[s] = fdTable[sendFd[s]]
      /\ \A t \in Sessions \ {s} : via'[t] = via[t]
  BY <1>1, <1>2 DEF Sendto
<1>4. /\ DOMAIN frame' = Sessions /\ frame'[s] = NoFrame
      /\ \A t \in Sessions \ {s} : frame'[t] = frame[t]
  BY <1>1 DEF Sendto
<1>5. UseOf(s)' /\ FrameOf(s)'
  BY <1>2, <1>3, <1>4, Zenon
     DEF SocketsInv, SessionInv, UseOf, FrameOf, Sendto, TxUnchanged
<1> QED BY <1>1, <1>3, <1>4, <1>5, TxMoveGood DEF Sendto

\* The SSH server takes a free number, or gives its own back.
LEMMA SshKeeps ==
  ASSUME SocketsInv, SshAccept \/ SshEnds
  PROVE  SocketsInv'
<1>1. PICK d \in Fds, f \in {NoFile, SshConn} :
        /\ fdTable[d] \in {NoFile, SshConn}
        /\ fdTable' = [fdTable EXCEPT ![d] = f]
  BY DEF SshAccept, SshEnds, Alloc, Lowest, Free, CloseFd
<1>2. /\ \A g \in {NoFile, SshConn} : g \in Files /\ g.who \notin Sessions
      /\ fdTable \in [Fds -> Files]
  BY SocketsAssumption
     DEF NoFile, SshConn, File, Files, SocketsAssumption, SocketsInv, ShapeInv
<1>3. fdTable' \in [Fds -> Files] /\ \A t \in Sessions : Spared(t)
  BY <1>1, <1>2, SMT DEF Spared
<1>4. ShapeInv' /\ vlan' = vlan /\ \A t \in Sessions : Untouched(t)
  BY <1>3 DEF SshAccept, SshEnds, SocketsInv, ShapeInv, Untouched
<1> QED BY <1>3, <1>4, BystanderKeeps DEF SocketsInv

LEMMA StutterKeeps == SocketsInv /\ UNCHANGED vars => SocketsInv'
<1> SUFFICES ASSUME SocketsInv, UNCHANGED vars PROVE SocketsInv'
  OBVIOUS
<1>1. ShapeInv' /\ vlan' = vlan
  BY DEF SocketsInv, ShapeInv, vars
<1>2. \A t \in Sessions : Untouched(t) /\ Spared(t)
  BY DEF vars, Untouched, Spared
<1> QED BY <1>1, <1>2, BystanderKeeps DEF SocketsInv

LEMMA NextKeeps == SocketsInv /\ [Next]_vars => SocketsInv'
<1> SUFFICES ASSUME SocketsInv, [Next]_vars PROVE SocketsInv'
  OBVIOUS
<1>1. CASE UNCHANGED vars
  BY <1>1, StutterKeeps
<1>2. CASE SshAccept \/ SshEnds
  BY <1>2, SshKeeps
<1>3. ASSUME NEW s \in Sessions,
             OpenRecv(s) \/ BindRaw(s) \/ OpenSender(s) \/ DrawKey(s) \/ Close(s) \/ Join(s)
      PROVE  SocketsInv'
  BY <1>3, GoodKeeps, OpenRecvGood, BindRawGood, OpenSenderGood, DrawKeyGood, CloseGood,
     JoinGood
<1>4. ASSUME NEW s \in Sessions, RxStep(s) PROVE SocketsInv'
  BY <1>4, GoodKeeps, RxTopGood, ReadCheckGood, RecvfromGood, RecvTimeoutGood,
     RecvErrorGood DEF RxStep
<1>5. ASSUME NEW s \in Sessions, RecvDrop(s) \/ \E f \in Passed[vlan[s]] : RecvFrame(s, f)
      PROVE  SocketsInv'
  BY <1>5, GoodKeeps, RecvDropGood, RecvFrameGood
<1>6. ASSUME NEW s \in Sessions, NEW r \in {"own", "rx"}, DownStep(s, r)
      PROVE  SocketsInv'
  BY <1>6, GoodKeeps, MarkClosedGood, CloseRecvGood, CloseSenderGood DEF DownStep
<1>7. ASSUME NEW s \in Sessions, TxCheck(s) \/ BuildFrame(s) \/ Sendto(s)
      PROVE  SocketsInv'
  BY <1>7, GoodKeeps, TxCheckGood, BuildFrameGood, SendtoGood
<1> QED BY <1>1, <1>2, <1>3, <1>4, <1>5, <1>6, <1>7 DEF Next

LEMMA SpecInv == Spec => []SocketsInv
BY InitInv, NextKeeps, PTL DEF Spec

----------------------------------------------------------------------------
(* The results.                                                            *)

\* Every variable keeps its type, and an IP ID its 16 bits, for any sessions,
\* keys, descriptors and traffic.
THEOREM SocketsTypeCorrect == Spec => []SocketsTypeOK
<1>1. SocketsInv => SocketsTypeOK
  <2> SUFFICES ASSUME SocketsInv PROVE SocketsTypeOK
    OBVIOUS
  <2>1. ASSUME NEW s \in Sessions
        PROVE  /\ sends[s] \in 0 .. MaxSends[s]
               /\ taken[s] \in InAir \cup {NoFrame}
    BY SocketsAssumption, SMT
       DEF SocketsInv, ShapeInv, SessionInv, PlaceOf, SocketsAssumption
  <2>2. \A s \in Sessions : PlaceOf(s)
    BY DEF SocketsInv, SessionInv
  <2> QED BY <2>1, <2>2 DEF SocketsInv, ShapeInv, SocketsTypeOK, PlaceOf, OwnLabels,
          RxLabels, TxLabels, Opening, Releasing
<1> QED BY <1>1, SpecInv, PTL

\* Until a session is closed its descriptor numbers are its own, for its reads,
\* its sends and the closes of whoever wins the swap, whatever other sessions
\* and SSH clients do to the table.
THEOREM OwnDescriptors == Spec => []OwnDescriptorsUntilClosed
<1>1. SocketsInv => OwnDescriptorsUntilClosed
  <2> SUFFICES ASSUME SocketsInv, NEW s \in Sessions
        PROVE  /\ pc[s]["own"] = "up" /\ ~closed[s] => Own(s)
               /\ \A r \in {"own", "rx"} :
                    /\ pc[s][r] \in {"closeRecv", "closeRecvFd"} => Own(s)
                    /\ pc[s][r] = "closeSend" => fdTable[sendFd[s]] = File(s, "send")
               /\ via[s] \in {NoFile, File(s, "send")} \/ closed[s]
               /\ file[s] \in {NoFile, File(s, "recv")} \/ closed[s]
    BY DEF OwnDescriptorsUntilClosed
  <2>1. TableOf(s) /\ UseOf(s)
    BY DEF SocketsInv, SessionInv
  <2> QED BY <2>1, SMT DEF TableOf, UseOf, HasRecv, HasSend, Own, Releasing
<1> QED BY <1>1, SpecInv, PTL

\* When Open has failed, or Close and the receive loop are through, no entry of
\* the table is the session's.
THEOREM AllDescriptorsReturned == Spec => []DescriptorsReturned
<1>1. SocketsInv => DescriptorsReturned
  <2> SUFFICES ASSUME SocketsInv, NEW s \in Sessions,
                      pc[s]["own"] = "down", pc[s]["rx"] \in {"off", "done"}
               PROVE  \A d \in Fds : fdTable[d].who # s
    BY DEF DescriptorsReturned
  <2>1. ~HasRecv(s) /\ ~HasSend(s)
    BY DEF HasRecv, HasSend, Releasing
  <2> QED BY <2>1 DEF SocketsInv, SessionInv, TableOf
<1> QED BY <1>1, SpecInv, PTL

\* A receive loop takes only datagrams of a device in its VLAN that carry its
\* key, unless the key it drew is the client type.
THEOREM OnlyOwnDatagrams == Spec => []TakesOwnDatagrams
<1>1. SocketsInv => TakesOwnDatagrams
  BY DEF SocketsInv, SessionInv, TakesOf, TakesOwnDatagrams
<1> QED BY <1>1, SpecInv, PTL

\* Whatever the length and the IP ID, the header of a frame sums to 0xffff:
\* two folds are enough.
THEOREM ChecksumsValid == Spec => []ChecksumValid
<1>1. SocketsInv => ChecksumValid
  <2> SUFFICES ASSUME SocketsInv, NEW s \in Sessions, frame[s] # NoFrame
        PROVE  Fold(Fold(WordSum(ipWords(frame[s].total, frame[s].id, frame[s].sum)))) = 65535
    BY DEF ChecksumValid
  <2>1. Summed(frame[s])
    BY DEF SocketsInv, SessionInv, FrameOf
  <2> QED BY <2>1, ChecksumCloses, SMT DEF Summed
<1> QED BY <1>1, SpecInv, PTL

=============================================================================

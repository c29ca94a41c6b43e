---------------------------- MODULE StreamProofs ----------------------------
(***************************************************************************)
(* Write and Resize keep their promise: the session implements the         *)
(* abstract stream, for every number of callers and whatever the link      *)
(* loses, repeats or reorders.  In the other direction Read hands out a    *)
(* contiguous stretch of what the device sends.                            *)
(***************************************************************************)
EXTENDS SessionProofs, Induction

\* What the argument needs of a session: its counter does not wrap and stays
\* within the window in which every old packet is recognised.  (That the
\* device does not answer keepalives is part of Spec; the run keepalive_ack
\* shows what one that does can make Write believe.)
StreamScope ==
  /\ MaxOut < Mod
  /\ MaxOut <= Window

Holding == {"xmit", "wait", "rexmit"}

EndOf(i) == sent[i].seq + sent[i].plen

\* dataMu is held by the one caller past the lock, whose payload is the last.
LockInv ==
  /\ \A t \in Senders : pc[t] \in Holding <=> dataMu = t
  /\ \A t \in Senders : dataMu = t => job[t].id = Len(sent)

\* The payloads cover disjoint, ascending ranges of a counter in bounds.
SentInv ==
  /\ out <= MaxOut
  /\ \A i \in 1 .. Len(sent) : EndOf(i) <= out
  /\ \A i, j \in 1 .. Len(sent) : i < j => EndOf(i) <= sent[j].seq

\* The device's mark is the counter of the payload it took last.
PeerInv ==
  /\ peerInc.inSeen <=> peerGot # << >>
  /\ \A k \in 1 .. Len(peerGot) : peerGot[k] \in 1 .. Len(sent)
  /\ peerGot # << >> => peerInc.in = sent[peerGot[Len(peerGot)]].seq
  /\ PeerStreamInOrder

\* The counters of the ACKs on the link and in ackCh.
AckCounters ==
  {m.ctr : m \in {x \in toUs : x.ptype = "ACK"}}
    \cup {ackCh[k] : k \in 1 .. Len(ackCh)}

\* The device has taken payload i or a later one.
Passed(i) == peerInc.inSeen /\ sent[i].seq <= peerInc.in

\* An ACK answers a payload the device took, or passed over for a later one.
AckInv ==
  \A c \in AckCounters : \E i \in 1 .. Len(sent) : c = EndOf(i) /\ Passed(i)

StreamInv == LockInv /\ SentInv /\ PeerInv /\ AckInv /\ ConfirmedDelivered

----------------------------------------------------------------------------

\* The typed parts the arguments below use again and again.
LEMMA SentTyped ==
  ASSUME TypeInv
  PROVE  /\ sent \in Seq(Payload) /\ Len(sent) \in Nat /\ out \in Nat
         /\ \A i \in 1 .. Len(sent) :
              /\ sent[i].seq \in Nat /\ sent[i].plen \in Nat /\ sent[i].plen > 0
              /\ EndOf(i) \in Nat /\ sent[i].seq < EndOf(i)
<1>1. sent \in Seq(Payload) /\ Len(sent) \in Nat /\ out \in Nat
  BY DEF TypeInv, TypeOK, Counter
<1>2. ASSUME NEW i \in 1 .. Len(sent)
      PROVE  /\ sent[i].seq \in Nat /\ sent[i].plen \in Nat
             /\ sent[i].plen > 0
             /\ EndOf(i) \in Nat /\ sent[i].seq < EndOf(i)
  <2>1. sent[i] \in Payload
    BY <1>1
  <2> QED BY <2>1 DEF Payload, Counter, EndOf
<1> QED BY <1>1, <1>2

LEMMA PeerTyped ==
  ASSUME TypeInv
  PROVE  /\ peerGot \in Seq(Nat) /\ Len(peerGot) \in Nat
         /\ peerInc.in \in Nat /\ peerInc.inSeen \in BOOLEAN
BY DEF TypeInv, TypeOK, InCounters, Counter

\* Counters order the payloads: a lower counter is an earlier payload, and no
\* two payloads are answered by the same ACK.
LEMMA SentOrdered ==
  ASSUME TypeInv, SentInv, NEW i \in 1 .. Len(sent), NEW j \in 1 .. Len(sent)
  PROVE  /\ sent[i].seq < sent[j].seq => i < j
         /\ sent[i].seq <= sent[j].seq => i <= j
         /\ EndOf(i) = EndOf(j) => i = j
<1>1. /\ i < j => EndOf(i) <= sent[j].seq
      /\ j < i => EndOf(j) <= sent[i].seq
  BY DEF SentInv
<1>2. /\ sent[i].seq \in Nat /\ EndOf(i) \in Nat /\ sent[i].seq < EndOf(i)
      /\ sent[j].seq \in Nat /\ EndOf(j) \in Nat /\ sent[j].seq < EndOf(j)
  BY SentTyped
<1>3. i \in Nat /\ j \in Nat
  BY SentTyped
<1> HIDE DEF EndOf
<1> QED BY <1>1, <1>2, <1>3

\* The names of the callers are not the name of nobody.
LEMMA SendersReal == NoProc \notin Senders
BY ProcNames DEF Senders, NoProc

LEMMA StreamInvInit ==
  ASSUME Init
  PROVE  StreamInv
<1>1. LockInv
  BY SendersReal DEF Init, LockInv, Holding, Procs, Senders, NoProc
<1>2. SentInv
  BY SessionAssumption DEF Init, SentInv
<1>3. PeerInv /\ ConfirmedDelivered
  BY DEF Init, PeerInv, PeerStreamInOrder, ConfirmedDelivered, NothingSeen
<1>4. AckCounters = {}
  BY DEF Init, AckCounters
<1> QED BY <1>1, <1>2, <1>3, <1>4 DEF StreamInv, AckInv

----------------------------------------------------------------------------
(* Steps that have no part in the stream.                                  *)

\* What no step outside sendDataAndWaitAck and the device changes.
LockAside ==
  /\ UNCHANGED dataMu
  /\ \A t \in Senders : pc'[t] \in Holding <=> pc[t] \in Holding
  /\ \A t \in Senders : dataMu = t => job'[t].id = job[t].id

StreamAside ==
  /\ UNCHANGED <<out, sent, confirmed, peerInc, peerGot>>
  /\ LockAside
  /\ AckCounters' \subseteq AckCounters

LEMMA AsideKeeps ==
  ASSUME StreamInv, StreamAside
  PROVE  StreamInv'
<1> USE DEF StreamInv, StreamAside
<1>1. LockInv'
  BY DEF LockInv, LockAside
<1>2. SentInv'
  BY DEF SentInv, EndOf
<1>3. PeerInv' /\ ConfirmedDelivered'
  BY DEF PeerInv, PeerStreamInOrder, ConfirmedDelivered
<1>4. AckInv'
  BY DEF AckInv, Passed, EndOf
<1> QED BY <1>1, <1>2, <1>3, <1>4

\* A goroutine moves between labels outside the lock.
LEMMA MoveAside ==
  ASSUME TypeInv, StreamInv, NEW p \in Procs, NEW l, Goto(p, l),
         l \notin Holding, pc[p] \notin Holding, UNCHANGED <<job, dataMu>>
  PROVE  LockAside
BY DEF LockAside, Goto, TypeInv, TypeOK, Senders, Procs

LEMMA CallAside ==
  ASSUME TypeInv, StreamInv, NEW t \in Senders, NEW kind, NEW plen,
         Call(t, kind, plen), pc[t] \notin Holding, UNCHANGED dataMu
  PROVE  LockAside
<1>1. dataMu # t
  BY DEF StreamInv, LockInv
<1>2. \A u \in Senders \ {t} : job'[u] = job[u] /\ pc'[u] = pc[u]
  BY DEF Call, Goto, TypeInv, TypeOK, Senders, Procs
<1>3. pc'[t] = "lock"
  BY DEF Call, Goto, TypeInv, TypeOK, Senders, Procs
<1> QED BY <1>1, <1>2, <1>3 DEF LockAside, Holding

\* ACKs come and go only through the device, rxLoop and waitForAck.
LEMMA SameAcks ==
  ASSUME UNCHANGED <<toUs, ackCh>>
  PROVE  AckCounters' \subseteq AckCounters
BY DEF AckCounters

LEMMA CallersAside ==
  ASSUME TypeInv, StreamInv, NEW t \in Writers,
         Resize(t) \/ \E n \in 0 .. MaxPayload : Write(t, n)
  PROVE  StreamAside
<1> USE DEF CallerUnchanged, chanVars, peerVars, netVars
<1>1. t \in Senders /\ "idle" \notin Holding
  BY DEF Senders, Holding
<1>2. ASSUME UNCHANGED <<pc, job, dataMu>>
      PROVE  LockAside
  BY <1>2 DEF LockAside
<1>3. pc[t] \notin Holding
  BY <1>1 DEF Resize, Write
<1>4. LockAside
  BY <1>1, <1>2, <1>3, CallAside DEF Resize, Write
<1> QED BY <1>4, SameAcks DEF StreamAside, Resize, Write

LEMMA OpenAside ==
  ASSUME TypeInv, StreamInv, OpenStep
  PROVE  StreamAside
<1> USE DEF HandshakeUnchanged, peerVars, callerVars, chanVars, netVars
<1>o. "open" \in Procs /\ "open" \in Senders
  BY DEF Procs, Senders
<1>l. /\ {"cas", "ret", "flip", "hello", "salt", "endauth", "sockets", "ok"}
           \cap Holding = {}
  BY DEF Holding
<1>u. ASSUME UNCHANGED <<pc, job, dataMu>>
      PROVE  LockAside
  BY <1>u DEF LockAside
<1>1. CASE OpenSockets
  <2>1. LockAside
    BY <1>1, <1>o, <1>l, ProcNames
       DEF OpenSockets, Goto, LockAside, TypeInv, TypeOK, Procs, Senders, Holding
  <2> QED BY <1>1, <2>1, SameAcks DEF OpenSockets, StreamAside
<1>2. CASE sendSessionStart
  <2>1. LockAside
    BY <1>2, <1>o, <1>l, CallAside, MoveAside DEF sendSessionStart
  <2> QED BY <1>2, <2>1, SameAcks DEF sendSessionStart, StreamAside
<1>3. CASE AwaitSalt
  <2>1. LockAside
    BY <1>3, <1>o, <1>l, <1>u, CallAside, MoveAside DEF AwaitSalt, AfterSalt
  <2> QED BY <1>3, <2>1, SameAcks DEF AwaitSalt, StreamAside
<1>4. CASE AwaitEndAuth
  <2>1. LockAside
    BY <1>4, <1>o, <1>l, <1>u, MoveAside DEF AwaitEndAuth
  <2> QED BY <1>4, <2>1, SameAcks DEF AwaitEndAuth, StreamAside
<1>5. CASE HandshakeTimeout
  <2>1. LockAside
    BY <1>5, <1>o, <1>l, MoveAside DEF HandshakeTimeout
  <2> QED BY <1>5, <2>1, SameAcks DEF HandshakeTimeout, StreamAside
<1>6. CASE EnterTerminalMode
  <2>1. LockAside
    BY <1>6, <1>l, ProcNames
       DEF EnterTerminalMode, LockAside, TypeInv, TypeOK, Procs, Senders, Holding
  <2> QED BY <1>6, <2>1, SameAcks DEF EnterTerminalMode, StreamAside
<1> QED BY <1>1, <1>2, <1>3, <1>4, <1>5, <1>6 DEF OpenStep

LEMMA DownAside ==
  ASSUME TypeInv, StreamInv,
         \/ FailSwap \/ ParentCancel
         \/ \E c \in Closers : Close(c)
         \/ \E p \in Teardown : DownStep(p)
  PROVE  StreamAside
<1> USE DEF DownUnchanged, callerVars, chanVars, peerVars
<1>m. ASSUME NEW p \in Teardown, pc[p] \notin Holding,
             NEW l \in DownLabels \cup {"cas", "join", "ret", "exit"},
             Goto(p, l), DownUnchanged
      PROVE  StreamAside
  <2>1. p \in Procs /\ l \notin Holding
    BY DEF Teardown, Procs, DownLabels, Holding
  <2>2. LockAside
    BY <1>m, <2>1, MoveAside
  <2> QED BY <1>m, <2>2, SameAcks DEF StreamAside
<1>l. /\ {"cancel", "conn", "sender", "pipe", "end"} \subseteq DownLabels
      /\ {"cas", "end", "cancel", "conn", "sender", "pipe", "join", "fail",
          "idle"} \cap Holding = {}
  BY DEF DownLabels, Holding
<1>t. "rx" \in Teardown /\ Closers \subseteq Teardown
  BY DEF Teardown
<1>1. CASE FailSwap
  BY <1>1, <1>m, <1>l, <1>t DEF FailSwap, SwapClosed
<1>2. CASE ParentCancel
  BY <1>2, SameAcks DEF ParentCancel, StreamAside, LockAside
<1>3. CASE \E c \in Closers : Close(c)
  BY <1>3, <1>m, <1>l, <1>t DEF Close
<1>4. ASSUME NEW p \in Teardown, DownStep(p)
      PROVE  StreamAside
  <2>1. CASE CloseSwap(p)
    BY <2>1, <1>m, <1>l DEF CloseSwap, SwapClosed
  <2>2. CASE SendEnd(p) \/ Cancel(p) \/ CloseConn(p)
    BY <2>2, <1>m, <1>l DEF SendEnd, Cancel, CloseConn
  <2>3. CASE CloseSender(p) \/ ClosePipe(p) \/ Join(p)
    BY <2>3, <1>m, <1>l DEF CloseSender, ClosePipe, Join
  <2> QED BY <1>4, <2>1, <2>2, <2>3 DEF DownStep
<1> QED BY <1>1, <1>2, <1>3, <1>4

\* The receive loop, the reader and the keepalive loop never hold dataMu.
LEMMA OtherLabels ==
  ASSUME TypeInv, NEW p \in {"rx", "rd", "ka"}, NEW l, Goto(p, l),
         UNCHANGED <<job, dataMu>>
  PROVE  LockAside
BY ProcNames DEF LockAside, Goto, TypeInv, TypeOK, Senders, Procs

\* A buffered ACK was on the link before.
LEMMA RxAckAside ==
  ASSUME TypeInv, NEW m \in toUs, RxAck(m)
  PROVE  AckCounters' \subseteq AckCounters
<1>1. m.ctr \in AckCounters
  BY DEF RxAck, AckCounters
<1>2. ackCh \in Seq(Counter) /\ m.ctr \in Counter
  BY DEF TypeInv, TypeOK, ToUsMsg
<1>3. \A k \in 1 .. Len(ackCh') : ackCh'[k] \in AckCounters
  <2>1. CASE ackCh' = ackCh
    BY <2>1 DEF AckCounters
  <2>2. CASE ackCh' = Append(ackCh, m.ctr)
    <3> SUFFICES ASSUME NEW k \in 1 .. Len(ackCh')
                 PROVE  ackCh'[k] \in AckCounters
      OBVIOUS
    <3>1. k \in 1 .. Len(ackCh) \/ k = Len(ackCh) + 1
      BY <1>2, <2>2
    <3>2. CASE k \in 1 .. Len(ackCh)
      BY <1>2, <2>2, <3>2 DEF AckCounters
    <3>3. CASE k = Len(ackCh) + 1
      BY <1>1, <1>2, <2>2, <3>3
    <3> QED BY <3>1, <3>2, <3>3
  <2> QED BY <2>1, <2>2 DEF RxAck
<1>4. toUs' = toUs
  BY DEF RxAck, RxUnchanged
<1> QED BY <1>3, <1>4 DEF AckCounters

LEMMA RxAside ==
  ASSUME TypeInv, StreamInv, RxStep \/ ReadStep
  PROVE  StreamAside
<1> USE DEF RxUnchanged, callerVars, chanVars, peerVars
<1>m. ASSUME NEW p \in {"rx", "rd"}, NEW l, Goto(p, l), RxUnchanged,
             UNCHANGED ackCh
      PROVE  StreamAside
  BY <1>m, OtherLabels, SameAcks DEF StreamAside
<1>1. CASE RxCheck \/ RxNothing \/ RxSocketClosed \/ RxSocketError
  BY <1>1, <1>m DEF RxCheck, RxNothing, RxSocketClosed, RxSocketError
<1>2. ASSUME NEW m \in toUs, RxAck(m)
      PROVE  StreamAside
  <2>1. LockAside
    BY <1>2, OtherLabels DEF RxAck
  <2> QED BY <1>2, <2>1, RxAckAside DEF RxAck, StreamAside
<1>3. ASSUME NEW m \in toUs, RxData(m) \/ RxEnd(m)
      PROVE  StreamAside
  BY <1>3, <1>m DEF RxData, RxEnd
<1>4. CASE DispatchPlain \/ DispatchControl \/ WriteBrokenPipe \/ RxExit
  BY <1>4, <1>m DEF DispatchPlain, DispatchControl, WriteBrokenPipe, RxExit,
                    NextRecord
<1>5. CASE FailSwap
  BY <1>5, DownAside
<1>6. CASE ReadStep
  BY <1>6, <1>m DEF ReadStep, Read, ReadEOF, NextRecord
<1> QED BY <1>1, <1>2, <1>3, <1>4, <1>5, <1>6 DEF RxStep

LEMMA KaAside ==
  ASSUME TypeInv, StreamInv, KaStep
  PROVE  StreamAside
<1> USE DEF KaUnchanged, callerVars, chanVars, peerVars
<1>1. CASE KeepaliveTick
  BY <1>1, SameAcks DEF KeepaliveTick, StreamAside, LockAside
<1>2. CASE KeepaliveStop
  BY <1>2, OtherLabels, SameAcks DEF KeepaliveStop, StreamAside
<1> QED BY <1>1, <1>2 DEF KaStep

\* The device, but for what it does with DATA: its own packets are no ACKs.
LEMMA PeerAside ==
  ASSUME StreamScope, TypeInv, StreamInv,
         PeerHello \/ PeerSend \/ PeerEnd
  PROVE  StreamAside
<1> USE DEF PeerUnchanged, callerVars, chanVars, peerVars
<1>1. UNCHANGED <<pc, job, dataMu, out, sent, confirmed, ackCh, peerInc, peerGot>>
  BY DEF PeerHello, PeerSend, PeerEnd
<1>2. \A m \in toUs' : m.ptype = "ACK" => m \in toUs
  <2>1. CASE PeerHello
    BY <2>1 DEF PeerHello
  <2>2. CASE PeerSend
    BY <2>2 DEF PeerSend, FromPeer
  <2>3. CASE PeerEnd
    BY <2>3 DEF PeerEnd, FromPeer
  <2> QED BY <2>1, <2>2, <2>3
<1>3. AckCounters' \subseteq AckCounters
  BY <1>1, <1>2 DEF AckCounters
<1> QED BY <1>1, <1>3 DEF StreamAside, LockAside

----------------------------------------------------------------------------
(* The device takes DATA.                                                  *)

\* The ACK that answers a payload carries the end of its range: no wrap.
LEMMA AckIsEnd ==
  ASSUME StreamScope, TypeInv, SentInv, NEW i \in 1 .. Len(sent)
  PROVE  ackCounterFor(sent[i].seq, sent[i].plen) = EndOf(i)
<1>1. EndOf(i) \in Nat /\ EndOf(i) <= out /\ out <= MaxOut /\ out \in Nat
  BY SentTyped DEF SentInv
<1>2. MaxOut \in Nat /\ Mod \in Nat /\ MaxOut < Mod
  BY SessionAssumption, SeqAssumption DEF StreamScope
<1>3. EndOf(i) < Mod
  BY <1>1, <1>2
<1>4. EndOf(i) % Mod = EndOf(i)
  BY <1>1, <1>2, <1>3
<1> QED BY <1>4 DEF ackCounterFor, EndOf

\* Within the window, the device accepts exactly what is beyond its mark.
LEMMA AcceptsBeyondMark ==
  ASSUME StreamScope, TypeInv, SentInv, PeerInv, NEW i \in 1 .. Len(sent)
  PROVE  acceptIncoming(peerInc, sent[i].seq) <=>
           ~peerInc.inSeen \/ sent[i].seq > peerInc.in
<1>1. CASE ~peerInc.inSeen
  BY <1>1 DEF acceptIncoming
<1>2. CASE peerInc.inSeen
  <2>1. peerGot # << >> /\ Len(peerGot) \in 1 .. Len(peerGot)
    BY <1>2, PeerTyped DEF PeerInv
  <2> DEFINE n == peerGot[Len(peerGot)]
  <2>2. n \in 1 .. Len(sent) /\ peerInc.in = sent[n].seq
    BY <2>1 DEF PeerInv
  <2>3. sent[n].seq \in Nat /\ sent[n].seq < EndOf(n) /\ EndOf(n) <= out
        /\ EndOf(n) \in Nat /\ sent[i].seq \in Nat /\ out \in Nat
        /\ out <= MaxOut
    BY <2>2, SentTyped DEF SentInv
  <2>4. MaxOut \in Nat /\ Window \in Nat /\ MaxOut <= Window
    BY SessionAssumption, SeqAssumption DEF StreamScope
  <2> HIDE DEF n
  <2>5. sent[n].seq - sent[i].seq <= Window
    BY <2>3, <2>4
  <2>6. ~(sent[n].seq - sent[i].seq > Window)
    BY <2>3, <2>4, <2>5
  <2> QED BY <1>2, <2>2, <2>6 DEF acceptIncoming
<1> QED BY <1>1, <1>2

LEMMA PeerDataKeeps ==
  ASSUME StreamScope, TypeInv, StreamInv, NEW m \in toPeer, PeerData(m)
  PROVE  StreamInv'
<1> USE DEF StreamInv
<1> DEFINE i == m.id
           accepts == acceptIncoming(peerInc, sent[i].seq)
<1>1. i \in 1 .. Len(sent) /\ m.ctr = sent[i].seq /\ i \in Nat
  BY SentTyped DEF PeerData, TypeInv, DataInv
<1>2. UNCHANGED <<pc, job, dataMu, out, sent, confirmed, ackCh>>
  BY DEF PeerData, PeerUnchanged, callerVars, chanVars
<1>3. /\ peerInc' = IF accepts THEN [in |-> sent[i].seq, inSeen |-> TRUE]
                    ELSE peerInc
      /\ peerGot' = IF accepts THEN Append(peerGot, i) ELSE peerGot
      /\ toUs' = toUs \cup {FromPeer("ACK", EndOf(i), << >>)}
  BY <1>1, AckIsEnd DEF PeerData, markIncoming
<1>4. accepts <=> ~peerInc.inSeen \/ sent[i].seq > peerInc.in
  BY <1>1, AcceptsBeyondMark
<1>5. LockInv' /\ SentInv'
  BY <1>2 DEF LockInv, SentInv, EndOf
<1>t. /\ peerGot \in Seq(Nat) /\ Len(peerGot) \in Nat
      /\ peerInc.in \in Nat /\ sent[i].seq \in Nat
  BY <1>1, PeerTyped, SentTyped
<1>6. ASSUME accepts, NEW k \in 1 .. Len(peerGot)
      PROVE  peerGot[k] < i
  <2> DEFINE n == peerGot[Len(peerGot)]
  <2>1. peerGot # << >> /\ Len(peerGot) \in 1 .. Len(peerGot)
    BY <1>t
  <2>2. n \in 1 .. Len(sent) /\ peerGot[k] \in 1 .. Len(sent)
        /\ peerInc.in = sent[n].seq /\ peerInc.inSeen
    BY <2>1 DEF PeerInv
  <2>3. sent[n].seq < sent[i].seq
    BY <1>4, <1>6, <1>t, <2>2
  <2>4. n < i
    BY <1>1, <2>2, <2>3, SentOrdered
  <2>5. k = Len(peerGot) \/ peerGot[k] < n
    BY <2>1, <1>t DEF PeerInv, PeerStreamInOrder
  <2>6. n \in Nat /\ peerGot[k] \in Nat
    BY <2>2, SentTyped
  <2> HIDE DEF n, i
  <2>7. CASE k = Len(peerGot)
    BY <2>4, <2>7 DEF n
  <2>8. CASE peerGot[k] < n
    BY <1>1, <2>4, <2>6, <2>8
  <2> QED BY <2>5, <2>7, <2>8
<1>7. PeerInv'
  <2>1. CASE ~accepts
    <3>1. UNCHANGED <<peerInc, peerGot, sent>>
      BY <1>2, <1>3, <2>1
    <3> QED BY <3>1 DEF PeerInv, PeerStreamInOrder
  <2>2. CASE accepts
    <3> HIDE DEF accepts, i
    <3>1. /\ peerGot' = Append(peerGot, i) /\ sent' = sent
          /\ peerInc'.in = sent[i].seq /\ peerInc'.inSeen = TRUE
      BY <1>2, <1>3, <2>2
    <3>2. /\ Len(peerGot') = Len(peerGot) + 1
          /\ peerGot'[Len(peerGot) + 1] = i
          /\ \A k \in 1 .. Len(peerGot) : peerGot'[k] = peerGot[k]
          /\ peerGot' # << >>
      BY <3>1, <1>t, <1>1
    <3>3. \A k \in 1 .. Len(peerGot') : k \in 1 .. Len(peerGot)
                                        \/ k = Len(peerGot) + 1
      BY <3>2, <1>t
    <3>4. \A k \in 1 .. Len(peerGot') : peerGot'[k] \in 1 .. Len(sent')
      BY <1>1, <3>1, <3>2, <3>3 DEF PeerInv
    <3>5. PeerStreamInOrder'
      <4> SUFFICES ASSUME NEW j \in 1 .. Len(peerGot'),
                          NEW k \in 1 .. Len(peerGot'), j < k
                   PROVE  peerGot'[j] < peerGot'[k]
        BY DEF PeerStreamInOrder
      <4>1. j \in 1 .. Len(peerGot)
        BY <3>2, <1>t
      <4>2. CASE k \in 1 .. Len(peerGot)
        BY <3>2, <4>1, <4>2 DEF PeerInv, PeerStreamInOrder
      <4>3. CASE k = Len(peerGot) + 1
        BY <2>2, <1>6, <3>2, <4>1, <4>3
      <4> QED BY <3>3, <4>2, <4>3
    <3> QED BY <3>1, <3>2, <3>4, <3>5 DEF PeerInv
  <2> QED BY <2>1, <2>2
<1>8. \A j \in 1 .. Len(sent) : Passed(j) => Passed(j)'
  <2> SUFFICES ASSUME NEW j \in 1 .. Len(sent), Passed(j)
               PROVE  Passed(j)'
    OBVIOUS
  <2>1. sent[j].seq \in Nat
    BY SentTyped
  <2>2. CASE accepts
    BY <1>2, <1>3, <1>4, <1>t, <2>1, <2>2 DEF Passed
  <2>3. CASE ~accepts
    BY <1>2, <1>3, <2>3 DEF Passed
  <2> QED BY <2>2, <2>3
<1>9. Passed(i)'
  <2>1. CASE accepts
    BY <1>2, <1>3, <1>t, <2>1 DEF Passed
  <2>2. CASE ~accepts
    BY <1>2, <1>3, <1>4, <1>t, <2>2 DEF Passed
  <2> QED BY <2>1, <2>2
<1>10. AckCounters' \subseteq AckCounters \cup {EndOf(i)}
  BY <1>2, <1>3 DEF AckCounters, FromPeer
<1>11. AckInv'
  <2> SUFFICES ASSUME NEW c \in AckCounters'
               PROVE  \E j \in 1 .. Len(sent) : c = EndOf(j) /\ Passed(j)'
    BY <1>2 DEF AckInv, EndOf
  <2>1. CASE c \in AckCounters
    BY <1>8, <2>1 DEF AckInv
  <2>2. CASE c = EndOf(i)
    BY <1>1, <1>9, <2>2
  <2> QED BY <1>10, <2>1, <2>2
<1>12. ConfirmedDelivered'
  <2>1. \A k \in 1 .. Len(peerGot) :
          k \in 1 .. Len(peerGot') /\ peerGot'[k] = peerGot[k]
    BY <1>1, <1>3, <1>t
  <2> QED BY <1>2, <2>1 DEF ConfirmedDelivered
<1> QED BY <1>5, <1>7, <1>11, <1>12

----------------------------------------------------------------------------
(* sendDataAndWaitAck.                                                     *)

\* The wanted ACK means that the device took the caller's payload, which is
\* the last one, and nothing after it.
LEMMA AckMeansTaken ==
  ASSUME StreamScope, TypeInv, StreamInv, NEW t \in Senders,
         pc[t] = "wait", ackCh # << >>, Head(ackCh) = wantAck(t)
  PROVE  \E k \in 1 .. Len(peerGot) : peerGot[k] = job[t].id
<1> DEFINE n == job[t].id
<1>1. n \in 1 .. Len(sent) /\ n = Len(sent)
      /\ job[t].seq = sent[n].seq /\ job[t].plen = sent[n].plen
  BY DEF TypeInv, JobInv, SendLabels, StreamInv, LockInv, Holding
<1>2. Head(ackCh) = EndOf(n)
  BY <1>1, AckIsEnd DEF wantAck, StreamInv
<1>3. Head(ackCh) \in AckCounters
  <2>1. ackCh \in Seq(Counter)
    BY DEF TypeInv, TypeOK
  <2>2. 1 \in 1 .. Len(ackCh) /\ Head(ackCh) = ackCh[1]
    BY <2>1
  <2> QED BY <2>2 DEF AckCounters
<1>4. PICK i \in 1 .. Len(sent) : Head(ackCh) = EndOf(i) /\ Passed(i)
  BY <1>3 DEF StreamInv, AckInv
<1>5. i = n
  BY <1>1, <1>2, <1>4, SentOrdered DEF StreamInv
<1>6. Len(peerGot) \in 1 .. Len(peerGot)
  BY <1>4, PeerTyped DEF StreamInv, PeerInv, Passed
<1> DEFINE l == peerGot[Len(peerGot)]
<1>7. l \in 1 .. Len(sent) /\ sent[n].seq <= sent[l].seq
  BY <1>4, <1>5, <1>6 DEF StreamInv, PeerInv, Passed
<1>8. n <= l
  BY <1>1, <1>7, SentOrdered DEF StreamInv
<1>9. l = n
  BY <1>1, <1>7, <1>8, SentTyped
<1> QED BY <1>6, <1>9

\* A call that returns gives dataMu back and confirms what was taken.
LEMMA ReturnKeeps ==
  ASSUME TypeInv, StreamInv, NEW t \in Senders, NEW ok \in BOOLEAN,
         pc[t] \in Holding, Return(t, ok),
         ok => \E k \in 1 .. Len(peerGot) : peerGot[k] = job[t].id,
         UNCHANGED <<out, sent, peerInc, peerGot>>,
         AckCounters' \subseteq AckCounters
  PROVE  StreamInv'
<1> USE DEF StreamInv
<1>1. dataMu = t /\ dataMu' = NoProc
  BY DEF LockInv, Return
<1>2. pc'[t] \notin Holding /\ \A u \in Senders \ {t} : pc'[u] = pc[u]
  BY DEF Return, Goto, AfterSend, Holding, TypeInv, TypeOK, Senders, Procs
<1>3. LockInv'
  BY <1>1, <1>2, SendersReal DEF LockInv
<1>4. SentInv' /\ PeerInv' /\ AckInv'
  BY DEF SentInv, PeerInv, PeerStreamInOrder, AckInv, Passed, EndOf
<1>5. ConfirmedDelivered'
  BY DEF ConfirmedDelivered, Return
<1> QED BY <1>3, <1>4, <1>5

\* A new payload gets the range after all the others.
LEMMA ReserveKeeps ==
  ASSUME StreamScope, TypeInv, StreamInv, NEW t \in Senders, LockAndReserve(t)
  PROVE  StreamInv'
<1> USE DEF StreamInv
<1>n. PICK n, plen : n = Len(sent) + 1 /\ plen = job[t].plen
  OBVIOUS
<1>1. /\ plen \in Nat /\ plen > 0 /\ out \in Nat /\ Len(sent) \in Nat
      /\ n \in Nat /\ out + plen <= MaxOut
  BY <1>n, SentTyped
     DEF LockAndReserve, TypeInv, TypeOK, JobInv, SendLabels, Job
<1>2. out' = out + plen
  <2>1. MaxOut \in Nat /\ Mod \in Nat /\ MaxOut < Mod
    BY SessionAssumption, SeqAssumption DEF StreamScope
  <2>2. (out + plen) % Mod = out + plen
    BY <1>1, <2>1
  <2> QED BY <1>n, <2>2 DEF LockAndReserve, reserveOut
<1>3. /\ Len(sent') = n
      /\ \A i \in 1 .. Len(sent) : sent'[i] = sent[i] /\ i \in 1 .. n
      /\ sent'[n].seq = out /\ sent'[n].plen = plen
  BY <1>n, <1>1, SentTyped DEF LockAndReserve
<1>4. UNCHANGED <<peerInc, peerGot, confirmed, toUs>> /\ ackCh' = << >>
  BY DEF LockAndReserve, peerVars, netVars
<1>5. LockInv'
  <2>1. dataMu = NoProc /\ dataMu' = t
    BY DEF LockAndReserve, DataMuFree
  <2>2. /\ pc'[t] = "xmit" /\ job'[t].id = n
        /\ \A u \in Senders \ {t} : pc'[u] = pc[u]
    BY <1>n DEF LockAndReserve, Goto, TypeInv, TypeOK, Senders, Procs
  <2>3. \A u \in Senders : pc[u] \notin Holding
    BY <2>1, SendersReal DEF LockInv
  <2> QED BY <1>3, <2>1, <2>2, <2>3 DEF LockInv, Holding
<1>6. SentInv'
  <2> SUFFICES /\ \A i \in 1 .. n : EndOf(i)' <= out'
               /\ \A i, j \in 1 .. n : i < j => EndOf(i)' <= sent'[j].seq
    BY <1>1, <1>2, <1>3 DEF SentInv
  <2>1. \A i \in 1 .. Len(sent) :
          EndOf(i)' = EndOf(i) /\ EndOf(i) \in Nat /\ EndOf(i) <= out
    BY <1>3, SentTyped DEF SentInv, EndOf
  <2>2. EndOf(n)' = out + plen
    BY <1>3 DEF EndOf
  <2>3. \A i \in 1 .. n : i \in 1 .. Len(sent) \/ i = n
    BY <1>n, <1>1
  <2>4. \A i \in 1 .. n : EndOf(i)' <= out'
    <3> SUFFICES ASSUME NEW i \in 1 .. n PROVE EndOf(i)' <= out'
      OBVIOUS
    <3>1. CASE i \in 1 .. Len(sent)
      BY <1>1, <1>2, <2>1, <3>1
    <3>2. CASE i = n
      BY <1>1, <1>2, <2>2, <3>2
    <3> QED BY <2>3, <3>1, <3>2
  <2>5. ASSUME NEW i \in 1 .. n, NEW j \in 1 .. n, i < j
        PROVE  EndOf(i)' <= sent'[j].seq
    <3>1. i \in 1 .. Len(sent)
      BY <1>n, <1>1, <2>5
    <3>2. CASE j \in 1 .. Len(sent)
      BY <1>3, <2>1, <2>5, <3>1, <3>2 DEF SentInv
    <3>3. CASE j = n
      BY <1>3, <2>1, <3>1, <3>3
    <3> QED BY <2>3, <3>2, <3>3
  <2> QED BY <2>4, <2>5
<1>7. PeerInv'
  <2>1. \A k \in 1 .. Len(peerGot) :
          peerGot[k] \in 1 .. n /\ sent'[peerGot[k]] = sent[peerGot[k]]
    BY <1>3 DEF PeerInv
  <2>2. peerGot # << >> => Len(peerGot) \in 1 .. Len(peerGot)
    BY PeerTyped
  <2> QED BY <1>3, <1>4, <2>1, <2>2 DEF PeerInv, PeerStreamInOrder
<1>8. AckInv'
  <2> SUFFICES ASSUME NEW c \in AckCounters'
               PROVE  \E j \in 1 .. Len(sent') : c = EndOf(j)' /\ Passed(j)'
    BY DEF AckInv
  <2>1. c \in AckCounters
    BY <1>4 DEF AckCounters
  <2>2. PICK j \in 1 .. Len(sent) : c = EndOf(j) /\ Passed(j)
    BY <2>1 DEF AckInv
  <2>3. j \in 1 .. Len(sent') /\ EndOf(j)' = EndOf(j) /\ Passed(j)'
    BY <1>3, <1>4, <2>2 DEF EndOf, Passed
  <2> QED BY <2>2, <2>3
<1>9. ConfirmedDelivered'
  BY <1>4 DEF ConfirmedDelivered
<1> QED BY <1>5, <1>6, <1>7, <1>8, <1>9

\* Receiving an ACK takes it out of the channel.
LEMMA TailAcks ==
  ASSUME TypeInv, ackCh # << >>, ackCh' = Tail(ackCh), UNCHANGED toUs
  PROVE  AckCounters' \subseteq AckCounters
<1>1. ackCh \in Seq(Counter)
  BY DEF TypeInv, TypeOK
<1>2. \A k \in 1 .. Len(ackCh') :
        k + 1 \in 1 .. Len(ackCh) /\ ackCh'[k] = ackCh[k + 1]
  BY <1>1
<1> QED BY <1>2 DEF AckCounters

\* A step of a caller that keeps dataMu.
LEMMA StayAside ==
  ASSUME TypeInv, NEW t \in Senders, pc[t] \in Holding,
         NEW l \in Holding, Goto(t, l), UNCHANGED dataMu,
         \A u \in Senders : job'[u].id = job[u].id
  PROVE  LockAside
BY DEF LockAside, Goto, TypeInv, TypeOK, Senders, Procs

\* What a step of sendDataAndWaitAck after the lock does to the stream: none
\* of it, or the call returns, with success only if its payload was taken.
LEMMA SendCases ==
  ASSUME StreamScope, TypeInv, StreamInv, NEW t \in Senders,
         SendStep(t), ~LockAndReserve(t)
  PROVE  \/ StreamAside
         \/ \E ok \in BOOLEAN :
              /\ pc[t] \in Holding /\ Return(t, ok)
              /\ ok => \E k \in 1 .. Len(peerGot) : peerGot[k] = job[t].id
              /\ UNCHANGED <<out, sent, peerInc, peerGot>>
              /\ AckCounters' \subseteq AckCounters
<1> USE DEF SendUnchanged, peerVars
<1>h. {"xmit", "wait", "rexmit"} = Holding
  BY DEF Holding
<1>1. CASE Xmit(t)
  <2>1. CASE Goto(t, "wait") /\ UNCHANGED <<job, dataMu, confirmed>>
    BY <1>1, <1>h, <2>1, StayAside, SameAcks DEF Xmit, StreamAside
  <2>2. CASE Return(t, FALSE)
    BY <1>1, <1>h, <2>2, SameAcks DEF Xmit
  <2> QED BY <1>1, <2>1, <2>2 DEF Xmit
<1>2. CASE RecvAck(t)
  <2>1. AckCounters' \subseteq AckCounters
    BY <1>2, TailAcks DEF RecvAck
  <2>2. CASE Head(ackCh) = wantAck(t)
    BY <1>2, <1>h, <2>1, <2>2, AckMeansTaken DEF RecvAck
  <2>3. CASE Head(ackCh) # wantAck(t)
    BY <1>2, <2>1, <2>3 DEF RecvAck, StreamAside, LockAside
  <2> QED BY <2>2, <2>3
<1>3. CASE WaitCancelled(t)
  BY <1>3, <1>h, SameAcks DEF WaitCancelled
<1>4. CASE AckTimeout(t)
  BY <1>4, <1>h, StayAside, SameAcks DEF AckTimeout, StreamAside
<1>5. CASE Rexmit(t)
  <2>1. CASE /\ job' = [job EXCEPT ![t] = NextAttempt(@)]
             /\ Goto(t, "wait") /\ UNCHANGED <<dataMu, confirmed>>
    <3>1. \A u \in Senders : job'[u].id = job[u].id
      BY <2>1 DEF NextAttempt, TypeInv, TypeOK
    <3> QED BY <1>5, <1>h, <2>1, <3>1, StayAside, SameAcks
            DEF Rexmit, StreamAside
  <2>2. CASE Return(t, FALSE)
    BY <1>5, <1>h, <2>2, SameAcks DEF Rexmit
  <2> QED BY <1>5, <2>1, <2>2 DEF Rexmit
<1> QED BY <1>1, <1>2, <1>3, <1>4, <1>5 DEF SendStep

\* Everything a step can do to the stream.
LEMMA StepCases ==
  ASSUME StreamScope, TypeInv, StreamInv, [Next]_vars
  PROVE  \/ StreamAside
         \/ \E t \in Senders : LockAndReserve(t)
         \/ \E m \in toPeer : PeerData(m)
         \/ \E t \in Senders, ok \in BOOLEAN :
              /\ pc[t] \in Holding /\ Return(t, ok)
              /\ ok => \E k \in 1 .. Len(peerGot) : peerGot[k] = job[t].id
              /\ UNCHANGED <<out, sent, peerInc, peerGot>>
              /\ AckCounters' \subseteq AckCounters
<1>1. CASE UNCHANGED vars
  BY <1>1, SameAcks DEF vars, callerVars, chanVars, netVars, peerVars,
                        StreamAside, LockAside
<1>2. ASSUME NEW t \in Senders, SendStep(t), ~LockAndReserve(t)
      PROVE  \/ StreamAside
             \/ \E ok \in BOOLEAN :
                  /\ pc[t] \in Holding /\ Return(t, ok)
                  /\ ok => \E k \in 1 .. Len(peerGot) : peerGot[k] = job[t].id
                  /\ UNCHANGED <<out, sent, peerInc, peerGot>>
                  /\ AckCounters' \subseteq AckCounters
  BY <1>2, SendCases
<1>3. CASE \/ \E t \in Writers : Resize(t)
                                  \/ \E n \in 0 .. MaxPayload : Write(t, n)
           \/ OpenStep
  BY <1>3, CallersAside, OpenAside
<1>4. CASE \/ \E c \in Closers : Close(c)
           \/ \E p \in Teardown : DownStep(p)
           \/ ParentCancel
  BY <1>4, DownAside
<1>5. CASE RxStep \/ ReadStep \/ KaStep
  BY <1>5, RxAside, KaAside
<1>6. CASE PeerStep
  BY <1>6, PeerAside DEF PeerStep
<1> QED BY <1>1, <1>2, <1>3, <1>4, <1>5, <1>6 DEF Next, Finished

LEMMA StreamInvNext ==
  ASSUME StreamScope, TypeInv, StreamInv, [Next]_vars
  PROVE  StreamInv'
<1>1. CASE StreamAside
  BY <1>1, AsideKeeps
<1>2. CASE \E t \in Senders : LockAndReserve(t)
  BY <1>2, ReserveKeeps
<1>3. CASE \E m \in toPeer : PeerData(m)
  BY <1>3, PeerDataKeeps
<1>4. ASSUME NEW t \in Senders, NEW ok \in BOOLEAN,
             pc[t] \in Holding, Return(t, ok),
             ok => \E k \in 1 .. Len(peerGot) : peerGot[k] = job[t].id,
             UNCHANGED <<out, sent, peerInc, peerGot>>,
             AckCounters' \subseteq AckCounters
      PROVE  StreamInv'
  BY <1>4, ReturnKeeps
<1> QED BY <1>1, <1>2, <1>3, <1>4, StepCases

----------------------------------------------------------------------------

LEMMA StreamInvariant ==
  ASSUME StreamScope
  PROVE  Spec => [](TypeInv /\ StreamInv)
<1>1. Init => TypeInv /\ StreamInv
  BY TypeInit, StreamInvInit
<1>2. (TypeInv /\ StreamInv) /\ [Next]_vars => (TypeInv /\ StreamInv)'
  BY TypeNext, StreamInvNext
<1> QED BY <1>1, <1>2, PTL DEF Spec

\* Write's promise: whatever the link does and however many callers there
\* are, a payload is confirmed to its caller only if the device took it.
THEOREM WriteConfirmsDelivery ==
  ASSUME StreamScope
  PROVE  Spec => []ConfirmedDelivered
<1>1. StreamInv => ConfirmedDelivered
  BY DEF StreamInv
<1> QED BY <1>1, StreamInvariant, PTL

\* acceptIncoming at the other end and dataMu at this one keep the stream in
\* order: the device takes no payload twice and none after a later one.
THEOREM DeviceStreamInOrder ==
  ASSUME StreamScope
  PROVE  Spec => []PeerStreamInOrder
<1>1. StreamInv => PeerStreamInOrder
  BY DEF StreamInv, PeerInv
<1> QED BY <1>1, StreamInvariant, PTL

----------------------------------------------------------------------------
(* The refinement.                                                         *)

LEMMA ReserveSubmits ==
  ASSUME TypeInv, NEW t \in Senders, LockAndReserve(t)
  PROVE  WriteStream!Submit
<1>1. Len(sent') = Len(sent) + 1 /\ dataMu = NoProc /\ dataMu' = t
  BY SentTyped DEF LockAndReserve, DataMuFree
<1>2. t # NoProc
  BY SendersReal
<1>3. UNCHANGED <<peerGot, confirmed>>
  BY DEF LockAndReserve, peerVars
<1> QED BY <1>1, <1>2, <1>3 DEF WriteStream!Submit

LEMMA DataTakes ==
  ASSUME StreamScope, TypeInv, StreamInv, StreamInv', NEW m \in toPeer,
         PeerData(m)
  PROVE  WriteStream!Take \/ UNCHANGED WriteStream!streamVars
<1>1. UNCHANGED <<sent, dataMu, confirmed>>
  BY DEF PeerData, PeerUnchanged, callerVars
<1>2. CASE peerGot' = peerGot
  BY <1>1, <1>2 DEF WriteStream!streamVars
<1>3. CASE peerGot' = Append(peerGot, m.id)
  <2>1. m.id \in 1 .. Len(sent)
    BY DEF PeerData, TypeInv, DataInv
  <2>2. /\ Len(peerGot') = Len(peerGot) + 1 /\ Len(peerGot) \in Nat
        /\ peerGot'[Len(peerGot) + 1] = m.id
        /\ \A k \in 1 .. Len(peerGot) : peerGot'[k] = peerGot[k]
    BY <1>3, <2>1, PeerTyped
  <2>3. \A k \in 1 .. Len(peerGot) : peerGot[k] < m.id
    <3> SUFFICES ASSUME NEW k \in 1 .. Len(peerGot) PROVE peerGot[k] < m.id
      OBVIOUS
    <3>1. k \in 1 .. Len(peerGot') /\ Len(peerGot) + 1 \in 1 .. Len(peerGot')
          /\ k < Len(peerGot) + 1
      BY <2>2
    <3>2. peerGot'[k] < peerGot'[Len(peerGot) + 1]
      BY <3>1 DEF StreamInv, PeerInv, PeerStreamInOrder
    <3> QED BY <2>2, <3>2
  <2> QED BY <1>1, <1>3, <2>1, <2>3 DEF WriteStream!Take
<1> QED BY <1>2, <1>3 DEF PeerData

LEMMA ReturnConfirms ==
  ASSUME TypeInv, StreamInv, NEW t \in Senders, NEW ok \in BOOLEAN,
         pc[t] \in Holding, Return(t, ok),
         ok => \E k \in 1 .. Len(peerGot) : peerGot[k] = job[t].id,
         UNCHANGED <<sent, peerGot>>
  PROVE  WriteStream!Confirm \/ WriteStream!GiveUp
<1>1. dataMu = t /\ t # NoProc /\ dataMu' = NoProc
  BY SendersReal DEF StreamInv, LockInv, Return
<1>2. job[t].id = Len(sent) /\ job[t].id \in 1 .. Len(sent)
  BY <1>1 DEF StreamInv, LockInv, TypeInv, JobInv, SendLabels, Holding
<1>3. Len(sent) # 0
  BY <1>2, SentTyped
<1>4. CASE ok
  <2>1. Len(sent) \in WriteStream!TakenSet
    BY <1>2, <1>4 DEF WriteStream!TakenSet
  <2>2. confirmed' = confirmed \cup {Len(sent)}
    BY <1>2, <1>4 DEF Return
  <2> QED BY <1>1, <1>3, <2>1, <2>2 DEF WriteStream!Confirm
<1>5. CASE ~ok
  <2>1. confirmed' = confirmed
    BY <1>5 DEF Return
  <2> QED BY <1>1, <1>3, <2>1 DEF WriteStream!GiveUp
<1> QED BY <1>4, <1>5

\* Every step is a step of the abstract stream or none.
LEMMA StreamSimulated ==
  ASSUME StreamScope, TypeInv, StreamInv, [Next]_vars
  PROVE  [WriteStream!StreamNext]_(WriteStream!streamVars)
<1> USE DEF WriteStream!StreamNext
<1>1. CASE StreamAside
  BY <1>1 DEF StreamAside, LockAside, WriteStream!streamVars
<1>2. CASE \E t \in Senders : LockAndReserve(t)
  BY <1>2, ReserveSubmits
<1>3. ASSUME NEW m \in toPeer, PeerData(m)
      PROVE  [WriteStream!StreamNext]_(WriteStream!streamVars)
  BY <1>3, StreamInvNext, DataTakes
<1>4. ASSUME NEW t \in Senders, NEW ok \in BOOLEAN,
             pc[t] \in Holding, Return(t, ok),
             ok => \E k \in 1 .. Len(peerGot) : peerGot[k] = job[t].id,
             UNCHANGED <<sent, peerGot>>
      PROVE  [WriteStream!StreamNext]_(WriteStream!streamVars)
  BY <1>4, ReturnConfirms
<1> QED BY <1>1, <1>2, <1>3, <1>4, StepCases

\* The session implements the abstract stream of Write and Resize: locking,
\* retransmission, duplicate detection and teardown in any interleaving, over
\* any link, are no more than submitting, taking, confirming and giving up.
THEOREM SessionImplementsStream ==
  ASSUME StreamScope
  PROVE  Spec => ImplementsStream
<1>1. Init => WriteStream!StreamInit
  BY DEF Init, WriteStream!StreamInit
<1>2. TypeInv /\ StreamInv /\ [Next]_vars
        => [WriteStream!StreamNext]_(WriteStream!streamVars)
  BY StreamSimulated
<1> QED BY <1>1, <1>2, StreamInvariant, PTL
        DEF Spec, ImplementsStream, WriteStream!StreamSpec

----------------------------------------------------------------------------
(* The other direction: what Read hands out.                               *)

Count == Len(Script) + 2          \* packets the device sends at most

PacketRecs(i) == IF i = 2 THEN EndAuthRecs ELSE Script[i - 2]

\* Framed records, then at most one of terminal data, as iterateControl yields
\* them; the terminal data has number a, and what comes after it number b.
Carries(recs, a, b) ==
  /\ \A k \in 1 .. Len(recs) - 1 : recs[k].cp # PlainData
  /\ IF recs[Len(recs)].cp = PlainData
     THEN recs[Len(recs)].body = a /\ b = a + 1
     ELSE b = a

\* What the argument needs of the device.  off[i] is its counter and num[i] the
\* number of its next terminal data after i packets: no packet is empty, the
\* counter does not wrap and stays within the window, terminal data is numbered
\* in the order it is sent, and no keepalive of ours, which is an ACK, can be
\* taken for the answer to one of its packets.
DeviceScope(off, num) ==
  /\ off \in [0 .. Count -> Nat] /\ num \in [0 .. Count -> Nat]
  /\ off[0] = PeerStart
  /\ off[1] = PeerStart + 1 /\ num[1] = num[0]          \* PASSSALT
  /\ \A i \in 2 .. Count :
       /\ PacketRecs(i) # << >>
       /\ off[i] = off[i - 1] + Len(PacketRecs(i))
       /\ Carries(PacketRecs(i), num[i - 1], num[i])
  /\ off[Count] < Mod /\ off[Count] - PeerStart <= Window
  /\ MaxTicks = 0 \/ MaxOut < PeerStart

\* recs are the records of the i-th packet.
IsPacket(off, num, i, recs) ==
  /\ recs # << >> /\ off[i - 1] + Len(recs) = off[i]
  /\ Carries(recs, num[i - 1], num[i])

\* The DATA on the link is what the device has sent so far.
DeviceInv(off, num) ==
  /\ peerPos <= Count /\ peerOut = off[peerPos]
  /\ \A m \in toUs : m.ptype = "DATA" =>
       \E i \in 1 .. peerPos :
         m.ctr = off[i - 1] /\ IsPacket(off, num, i, m.recs)

\* The keepalives, which carry `out`, stay clear of the device's counters.
OutInv == MaxTicks = 0 \/ out < PeerStart

\* acceptIncoming has let c packets pass, and no other is acknowledged: the
\* device is at most one ahead.
TakenUpTo(off, c) ==
  /\ inc.inSeen <=> c > 0
  /\ c > 0 => inc.in = off[c - 1]
  /\ c <= peerPos /\ peerPos <= c + 1
  /\ \A m \in toPeer : m.ptype = "ACK" =>
       m.ctr < PeerStart \/ \E i \in 1 .. c : m.ctr = off[i]

Dispatching == {"dispatch", "write"}

\* The receive loop can still hand something to Read.
Live == /\ ~pipeClosed
        /\ \/ pc["rx"] \in Dispatching \cup {"read"}
           \/ pc["rx"] = "top" /\ ~cancelled

\* Read has had all terminal data from some number on, up to where the receive
\* loop is in the c-th packet; when it loses some, no more is handed out.
HandedUpTo(num, c) ==
  /\ rxRecs # << >> => c > 0 /\ Carries(rxRecs, num[c - 1], num[c])
  /\ pc["rx"] \notin Dispatching => rxRecs = << >>
  /\ pc["rx"] = "write" => terminalMode /\ Head(rxRecs).cp = PlainData
  /\ readLog # << >> => terminalMode /\ pc["rx"] # "off"
  /\ DeliveredContiguous
  /\ Live /\ readLog # << >> =>
       readLog[Len(readLog)] + 1 =
         IF rxRecs = << >> THEN num[c] ELSE num[c - 1]

ReceiveInv(off, num) ==
  /\ DeviceInv(off, num) /\ OutInv
  /\ \E c \in 0 .. Count : TakenUpTo(off, c) /\ HandedUpTo(num, c)

LEMMA CountNat == Count \in Nat /\ Count >= 2 /\ 2 \in 2 .. Count
BY SessionAssumption DEF Count

\* The device's counter grows with every packet, and stays within the window.
LEMMA OffsetsGrow ==
  ASSUME NEW off, NEW num, DeviceScope(off, num)
  PROVE  /\ \A i \in 0 .. Count : off[i] \in Nat /\ num[i] \in Nat
         /\ \A i, j \in 0 .. Count : i < j => off[i] < off[j]
         /\ \A i \in 0 .. Count : PeerStart <= off[i] /\ off[i] < Mod
         /\ \A i, j \in 0 .. Count : ~(off[i] - off[j] > Window)
<1>0. Count \in Nat /\ Count >= 2 /\ PeerStart \in Nat /\ Mod \in Nat /\ Window \in Nat
  BY CountNat, SessionAssumption, SeqAssumption DEF Counter
<1>1. \A i \in 0 .. Count : off[i] \in Nat /\ num[i] \in Nat
  BY <1>0 DEF DeviceScope
<1>2. ASSUME NEW i \in 1 .. Count
      PROVE  off[i - 1] < off[i]
  <2>1. CASE i = 1
    BY <1>0, <2>1 DEF DeviceScope
  <2>2. CASE i # 1
    <3>1. i \in 2 .. Count /\ i - 1 \in 0 .. Count
      BY <1>0, <2>2
    <3>2. off[i - 1] \in Nat
      BY <1>1, <3>1
    <3>3. PacketRecs(i) # << >> /\ PacketRecs(i) \in Seq(Record)
      <4>1. PacketRecs(i) # << >>
        BY <3>1 DEF DeviceScope
      <4>2. i # 2 => i - 2 \in 1 .. Len(Script)
        BY <3>1, SessionAssumption DEF Count
      <4> QED BY <4>1, <4>2, SessionAssumption, SMTT(30) DEF PacketRecs
    <3>4. Len(PacketRecs(i)) \in Nat /\ Len(PacketRecs(i)) > 0
      BY <3>3
    <3>5. off[i] = off[i - 1] + Len(PacketRecs(i))
      BY <3>1 DEF DeviceScope
    <3> QED BY <3>2, <3>4, <3>5
  <2> QED BY <2>1, <2>2
<1> DEFINE S == {k \in Nat : \A i, j \in 0 .. Count : j = i + k + 1 => off[i] < off[j]}
<1>3. 0 \in S
  <2>1. ASSUME NEW i \in 0 .. Count, NEW j \in 0 .. Count, j = i + 0 + 1
        PROVE  off[i] < off[j]
    <3>1. j \in 1 .. Count /\ j - 1 = i
      BY <1>0, <2>1
    <3> QED BY <1>2, <3>1
  <2> QED BY <2>1
<1>4. ASSUME NEW k \in S PROVE k + 1 \in S
  <2>1. ASSUME NEW i \in 0 .. Count, NEW j \in 0 .. Count, j = i + (k + 1) + 1
        PROVE  off[i] < off[j]
    <3>1. j \in 1 .. Count /\ j - 1 \in 0 .. Count /\ j - 1 = i + k + 1
      BY <1>0, <2>1
    <3>2. off[i] < off[j - 1]
      BY <1>4, <3>1
    <3>3. off[j - 1] < off[j]
      BY <1>2, <3>1
    <3>4. off[i] \in Nat /\ off[j] \in Nat /\ off[j - 1] \in Nat
      BY <1>1, <3>1
    <3> QED BY <3>2, <3>3, <3>4
  <2> QED BY <2>1
<1>5. S = Nat
  <2>1. S \in SUBSET Nat
    BY DEF S
  <2> HIDE DEF S
  <2> QED BY <1>3, <1>4, <2>1, SetInduction
<1>6. ASSUME NEW i \in 0 .. Count, NEW j \in 0 .. Count, i < j
      PROVE  off[i] < off[j]
  <2>1. j - i - 1 \in Nat /\ j = i + (j - i - 1) + 1
    BY <1>6, <1>0
  <2>2. j - i - 1 \in S
    <3> HIDE DEF S
    <3> QED BY <1>5, <2>1
  <2> QED BY <2>1, <2>2
<1>7. ASSUME NEW i \in 0 .. Count
      PROVE  /\ PeerStart <= off[i] /\ off[i] <= off[Count]
  <2>1. 0 \in 0 .. Count /\ Count \in 0 .. Count /\ off[0] = PeerStart
    BY <1>0 DEF DeviceScope
  <2>2. PeerStart <= off[i]
    <3>1. i = 0 \/ 0 < i
      BY <1>0
    <3> QED BY <2>1, <3>1, <1>6, <1>1, <1>0
  <2>3. off[i] <= off[Count]
    <3>1. i = Count \/ i < Count
      BY <1>0
    <3> QED BY <2>1, <3>1, <1>6, <1>1, <1>0
  <2> QED BY <2>2, <2>3
<1>8. off[Count] < Mod /\ off[Count] - PeerStart <= Window /\ off[Count] \in Nat
  BY <1>0, <1>1 DEF DeviceScope
<1>9. \A i \in 0 .. Count : PeerStart <= off[i] /\ off[i] < Mod
  <2> HIDE DEF S
  <2> QED BY <1>7, <1>8, <1>1, <1>0
<1>10. ASSUME NEW i \in 0 .. Count, NEW j \in 0 .. Count
       PROVE  ~(off[i] - off[j] > Window)
  BY <1>7, <1>8, <1>1, <1>0
<1> QED BY <1>1, <1>6, <1>9, <1>10

\* What the device sends next is the packet of its place.
LEMMA SendsPacket ==
  ASSUME NEW off, NEW num, DeviceScope(off, num), TypeInv, peerPos < Count,
         NEW recs \in PeerPayloads
  PROVE  IsPacket(off, num, peerPos + 1, recs) /\ recs \in Seq(Record)
<1>0. peerPos \in Nat /\ Count \in Nat
  BY CountNat DEF TypeInv, TypeOK
<1>1. CASE peerPos = 0
  <2>1. PICK n \in SaltLens : recs = <<[cp |-> PassSalt, body |-> n]>>
    BY <1>1 DEF PeerPayloads
  <2>2. /\ Len(recs) = 1 /\ recs[1].cp # PlainData /\ recs # << >>
        /\ recs \in Seq(Record)
    BY <2>1, SessionAssumption DEF PassSalt, PlainData, Record
  <2>3. Carries(recs, num[0], num[1])
    BY <2>2 DEF Carries, DeviceScope
  <2>4. off[0] + 1 = off[1]
    BY DEF DeviceScope
  <2> QED BY <1>1, <2>2, <2>3, <2>4 DEF IsPacket
<1>2. CASE peerPos # 0
  <2>1. peerPos + 1 \in 2 .. Count /\ (peerPos + 1) - 1 = peerPos
        /\ (peerPos + 1) - 2 = peerPos - 1
    BY <1>0, <1>2
  <2>2. recs = PacketRecs(peerPos + 1)
    BY <1>0, <1>2, <2>1 DEF PeerPayloads, PacketRecs
  <2>3. recs \in Seq(Record)
    <3>1. peerPos # 1 => peerPos - 1 \in 1 .. Len(Script)
      BY <1>0, <1>2, SessionAssumption DEF Count
    <3> QED BY <1>0, <1>2, <3>1, SessionAssumption, SMTT(30) DEF PeerPayloads
  <2> QED BY <2>1, <2>2, <2>3 DEF IsPacket, DeviceScope
<1> QED BY <1>1, <1>2

LEMMA ReceiveInit ==
  ASSUME NEW off, NEW num, DeviceScope(off, num), Init
  PROVE  ReceiveInv(off, num)
<1>0. 0 \in 0 .. Count /\ Count \in Nat
  BY CountNat
<1>1. DeviceInv(off, num)
  BY <1>0 DEF Init, DeviceInv, DeviceScope
<1>2. OutInv
  BY SessionAssumption DEF Init, OutInv, DeviceScope, Counter
<1>3. TakenUpTo(off, 0)
  BY DEF Init, TakenUpTo, NothingSeen
<1>4. pc["rx"] = "off"
  BY ProcNames DEF Init, Procs
<1>5. HandedUpTo(num, 0)
  BY <1>4 DEF Init, HandedUpTo, DeliveredContiguous, Dispatching
<1> QED BY <1>0, <1>1, <1>2, <1>3, <1>5 DEF ReceiveInv

----------------------------------------------------------------------------
(* Steps that have no part in it.                                          *)

\* Nothing is sent by the device or acknowledged, and the receive loop moves
\* nowhere but from one turn to the next or to its end.
ReceiveAside ==
  /\ UNCHANGED <<inc, rxRecs, readLog, peerOut, peerPos>>
  /\ \A m \in toUs' : m.ptype = "DATA" => m \in toUs
  /\ \A m \in toPeer' : m.ptype = "ACK" => m \in toPeer
  /\ terminalMode => terminalMode'
  /\ \A l \in Dispatching : pc'["rx"] = l <=> pc["rx"] = l
  /\ pc'["rx"] = "off" => pc["rx"] = "off"
  /\ Live' => Live \/ readLog = << >>
  /\ OutInv => OutInv'

LEMMA ReceiveAsideKeeps ==
  ASSUME NEW off, NEW num, ReceiveInv(off, num), ReceiveAside
  PROVE  ReceiveInv(off, num)'
<1>1. DeviceInv(off, num)' /\ OutInv'
  BY DEF ReceiveInv, DeviceInv, ReceiveAside, IsPacket
<1>2. PICK c \in 0 .. Count : TakenUpTo(off, c) /\ HandedUpTo(num, c)
  BY DEF ReceiveInv
<1>3. TakenUpTo(off, c)'
  BY <1>2 DEF TakenUpTo, ReceiveAside
<1>4. HandedUpTo(num, c)'
  <2> USE DEF ReceiveAside, HandedUpTo
  <2>1. /\ rxRecs' # << >> => c > 0 /\ Carries(rxRecs', num[c - 1], num[c])
        /\ pc'["rx"] \notin Dispatching => rxRecs' = << >>
    BY <1>2 DEF Dispatching
  <2>2. pc'["rx"] = "write" => terminalMode' /\ Head(rxRecs').cp = PlainData
    BY <1>2 DEF Dispatching
  <2>3. /\ readLog' # << >> => terminalMode' /\ pc'["rx"] # "off"
        /\ DeliveredContiguous'
    BY <1>2 DEF DeliveredContiguous
  <2>4. Live' /\ readLog' # << >> =>
          readLog'[Len(readLog')] + 1 =
            IF rxRecs' = << >> THEN num[c] ELSE num[c - 1]
    BY <1>2
  <2> QED BY <2>1, <2>2, <2>3, <2>4 DEF Carries
<1> QED BY <1>1, <1>2, <1>3, <1>4 DEF ReceiveInv, Count

\* While the receive loop and the pipe stay where they are, it is no livelier.
LEMMA NoLivelier ==
  ASSUME TypeInv, TypeInv', pc'["rx"] = pc["rx"],
         cancelled => cancelled', pipeClosed => pipeClosed'
  PROVE  /\ Live' => Live
         /\ \A l \in Dispatching : pc'["rx"] = l <=> pc["rx"] = l
         /\ pc'["rx"] = "off" => pc["rx"] = "off"
BY DEF Live

\* The callers of Write and Resize and the handshake.
LEMMA SendReceives ==
  ASSUME NEW off, NEW num, DeviceScope(off, num), TypeInv, TypeInv',
         NEW t \in Senders, SendStep(t)
  PROVE  ReceiveAside
<1> USE DEF SendUnchanged, downVars, rxVars, peerVars, callerVars, chanVars, netVars
<1>0. t # "rx" /\ t \in Procs /\ pc \in [Procs -> Labels]
  BY ProcNames DEF Senders, Procs, TypeInv, TypeOK
<1>1. \A l : Goto(t, l) => pc'["rx"] = pc["rx"]
  BY <1>0 DEF Goto, Procs
<1>2. pc'["rx"] = pc["rx"]
  BY <1>1 DEF SendStep, LockAndReserve, Xmit, RecvAck, WaitCancelled, AckTimeout,
              Rexmit, Return
<1>3. UNCHANGED <<inc, rxRecs, readLog, peerOut, peerPos, toUs, terminalMode,
                  cancelled, pipeClosed>>
  BY DEF SendStep, LockAndReserve, Xmit, RecvAck, WaitCancelled, AckTimeout, Rexmit
<1>4. \A m \in toPeer' : m.ptype = "ACK" => m \in toPeer
  <2>1. \/ toPeer' = toPeer
        \/ toPeer' = toPeer \cup {Data(job[t].seq, job[t].id)}
    BY DEF SendStep, LockAndReserve, Xmit, RecvAck, WaitCancelled, AckTimeout,
           Rexmit, SendOk, SendErr
  <2>2. Data(job[t].seq, job[t].id).ptype # "ACK"
    BY DEF Data
  <2> QED BY <2>1, <2>2
<1>5. OutInv => OutInv'
  <2>1. CASE LockAndReserve(t)
    <3>0. job[t].plen \in Nat /\ out \in Nat
      BY DEF TypeInv, TypeOK, Counter, Job
    <3>1. Mod \in Nat /\ MaxOut \in Nat /\ PeerStart \in Counter
      BY SeqAssumption, SessionAssumption
    <3>c. PeerStart \in Nat /\ PeerStart < Mod
      BY <3>1 DEF Counter
    <3>2. out + job[t].plen <= MaxOut /\ out' = (out + job[t].plen) % Mod
      BY <2>1 DEF LockAndReserve, reserveOut
    <3>3. CASE MaxOut < PeerStart
      <4>1. out' = out + job[t].plen
        <5>1. out + job[t].plen \in Nat /\ out + job[t].plen < Mod
          BY <3>0, <3>1, <3>c, <3>2, <3>3
        <5>2. (out + job[t].plen) % Mod = out + job[t].plen
          BY <5>1, <3>1
        <5> QED BY <3>2, <5>2
      <4> QED BY <3>0, <3>1, <3>c, <3>2, <3>3, <4>1 DEF OutInv
    <3> QED BY <3>3 DEF OutInv, DeviceScope
  <2>2. CASE ~LockAndReserve(t)
    BY <2>2 DEF SendStep, Xmit, RecvAck, WaitCancelled, AckTimeout, Rexmit, OutInv
  <2> QED BY <2>1, <2>2
<1> QED BY <1>2, <1>3, <1>4, <1>5, NoLivelier DEF ReceiveAside

LEMMA CallersReceive ==
  ASSUME TypeInv, TypeInv', NEW t \in Writers,
         Resize(t) \/ \E n \in 0 .. MaxPayload : Write(t, n)
  PROVE  ReceiveAside
<1> USE DEF CallerUnchanged, downVars, rxVars, peerVars, netVars
<1>0. t # "rx" /\ t \in Procs /\ pc \in [Procs -> Labels]
  BY ProcNames DEF Procs, TypeInv, TypeOK
<1>1. pc'["rx"] = pc["rx"]
  BY <1>0 DEF Resize, Write, Call, Goto, Procs
<1>2. UNCHANGED <<inc, rxRecs, readLog, peerOut, peerPos, toUs, toPeer, out,
                  terminalMode, cancelled, pipeClosed>>
  BY DEF Resize, Write
<1> QED BY <1>1, <1>2, NoLivelier DEF ReceiveAside, OutInv

LEMMA OpenReceives ==
  ASSUME TypeInv, TypeInv', DownInv, NEW num, NEW c, HandedUpTo(num, c), OpenStep
  PROVE  ReceiveAside
<1> USE DEF HandshakeUnchanged, downVars, rxVars, peerVars, callerVars, chanVars, netVars
<1>0. {"open", "rx"} \subseteq Procs /\ pc \in [Procs -> Labels]
  BY DEF Procs, TypeInv, TypeOK
<1>1. UNCHANGED <<inc, rxRecs, readLog, peerOut, peerPos, toUs, out, cancelled,
                  pipeClosed>>
  BY DEF OpenStep, OpenSockets, sendSessionStart, AwaitSalt, AwaitEndAuth,
         HandshakeTimeout, EnterTerminalMode
<1>2. terminalMode => terminalMode'
  BY DEF OpenStep, OpenSockets, sendSessionStart, AwaitSalt, AwaitEndAuth,
         HandshakeTimeout, EnterTerminalMode
<1>3. \A m \in toPeer' : m.ptype = "ACK" => m \in toPeer
  <2>1. toPeer' = toPeer \/ toPeer' = toPeer \cup {SessionStart}
    BY DEF OpenStep, OpenSockets, sendSessionStart, AwaitSalt, AwaitEndAuth,
           HandshakeTimeout, EnterTerminalMode, SendBestEffort, SendOk, SendErr
  <2> QED BY <2>1 DEF SessionStart
<1>4. CASE OpenSockets
  <2>1. pc["rx"] = "off" /\ pc["open"] = "sockets"
    BY <1>4 DEF OpenSockets, DownInv, BirthInv
  <2>2. pc'["rx"] \in {"off", "top"}
    BY <1>4, <1>0, <2>1 DEF OpenSockets, Goto
  <2>3. readLog = << >>
    BY <2>1 DEF HandedUpTo
  <2> QED BY <1>1, <1>2, <1>3, <2>1, <2>2, <2>3 DEF ReceiveAside, Dispatching, OutInv
<1>5. CASE ~OpenSockets
  <2>1. \A l : Goto("open", l) => pc'["rx"] = pc["rx"]
    BY <1>0 DEF Goto
  <2>2. pc'["rx"] = pc["rx"]
    BY <1>0, <1>5, <2>1 DEF OpenStep, sendSessionStart, AwaitSalt, AfterSalt,
         AwaitEndAuth, HandshakeTimeout, EnterTerminalMode, Call
  <2> QED BY <1>1, <1>2, <1>3, <2>2, NoLivelier DEF ReceiveAside, OutInv
<1> QED BY <1>4, <1>5

LEMMA DownReceives ==
  ASSUME TypeInv, TypeInv',
         \/ FailSwap \/ ParentCancel
         \/ \E c \in Closers : Close(c)
         \/ \E p \in Teardown : DownStep(p)
  PROVE  ReceiveAside
<1> USE DEF DownUnchanged, downVars, rxVars, peerVars, callerVars
<1>0. pc \in [Procs -> Labels] /\ Teardown \subseteq Procs /\ Closers \subseteq Teardown
  BY DEF Procs, Teardown, TypeInv, TypeOK
<1>1. /\ UNCHANGED <<inc, rxRecs, readLog, peerOut, peerPos, toUs, out, terminalMode>>
      /\ cancelled => cancelled'
      /\ pipeClosed => pipeClosed'
  BY DEF FailSwap, ParentCancel, Close, DownStep, CloseSwap, SendEnd, Cancel,
         CloseConn, CloseSender, ClosePipe, Join
<1>2. \A m \in toPeer' : m.ptype = "ACK" => m \in toPeer
  <2>1. toPeer' = toPeer \/ toPeer' = toPeer \cup {End}
    BY DEF FailSwap, ParentCancel, Close, DownStep, CloseSwap, SendEnd, Cancel,
           CloseConn, CloseSender, ClosePipe, Join, SendBestEffort, SendOk, SendErr
  <2> QED BY <2>1 DEF End
<1> DEFINE Ends == DownLabels \cup {"join", "exit", "ret", "fail", "cas"}
<1>m. ASSUME NEW p \in Teardown, NEW l \in Ends, Goto(p, l),
             p # "rx" \/ pc[p] \in Ends
      PROVE  \/ pc'["rx"] = pc["rx"]
             \/ pc["rx"] \in Ends /\ pc'["rx"] \in Ends
  BY <1>0, <1>m DEF Goto
<1>3. \/ pc'["rx"] = pc["rx"]
      \/ pc["rx"] \in Ends /\ pc'["rx"] \in Ends
  <2>l. {"cancel", "conn", "sender", "pipe", "end", "join", "exit", "ret", "fail",
         "cas"} \subseteq Ends
    BY DEF DownLabels
  <2>t. "rx" \in Teardown
    BY DEF Teardown
  <2> HIDE DEF Ends
  <2>1. CASE FailSwap
    BY <2>1, <1>m, <2>l, <2>t DEF FailSwap, SwapClosed
  <2>2. CASE ParentCancel
    BY <2>2 DEF ParentCancel
  <2>3. ASSUME NEW c \in Closers, Close(c)
        PROVE  pc'["rx"] = pc["rx"]
    BY <2>3, <1>0, ProcNames DEF Close, Goto
  <2>4. ASSUME NEW p \in Teardown, DownStep(p)
        PROVE  \/ pc'["rx"] = pc["rx"]
               \/ pc["rx"] \in Ends /\ pc'["rx"] \in Ends
    <3>1. CASE CloseSwap(p)
      BY <3>1, <1>m, <2>l DEF CloseSwap, SwapClosed
    <3>2. CASE SendEnd(p) \/ Cancel(p) \/ CloseConn(p)
      BY <3>2, <1>m, <2>l DEF SendEnd, Cancel, CloseConn
    <3>3. CASE CloseSender(p) \/ ClosePipe(p) \/ Join(p)
      BY <3>3, <1>m, <2>l DEF CloseSender, ClosePipe, Join
    <3> QED BY <2>4, <3>1, <3>2, <3>3 DEF DownStep
  <2> QED BY <2>1, <2>2, <2>3, <2>4
<1>4. CASE pc'["rx"] = pc["rx"]
  BY <1>1, <1>2, <1>4, NoLivelier DEF ReceiveAside, OutInv
<1>5. CASE pc["rx"] \in Ends /\ pc'["rx"] \in Ends
  <2>1. {"top", "read", "dispatch", "write"} \cap Ends = {}
    BY DEF DownLabels
  <2>o. "off" \notin Ends
    BY DEF DownLabels
  <2> HIDE DEF Ends
  <2>2. ~Live' /\ \A l \in Dispatching : pc'["rx"] # l /\ pc["rx"] # l
    BY <1>5, <2>1 DEF Live, Dispatching
  <2>3. pc'["rx"] # "off"
    BY <1>5, <2>o
  <2> QED BY <1>1, <1>2, <2>2, <2>3 DEF ReceiveAside, OutInv
<1> QED BY <1>3, <1>4, <1>5

\* The receive loop when it gets nothing, an ACK or END, and at its end; the
\* reader at the end of the stream; the end of the keepalive loop.
LEMMA IdleReceives ==
  ASSUME TypeInv, TypeInv',
         \/ RxCheck \/ RxNothing \/ RxSocketClosed \/ RxSocketError
         \/ \E m \in toUs : RxAck(m) \/ RxEnd(m)
         \/ RxExit \/ ReadEOF \/ KeepaliveStop
  PROVE  ReceiveAside
<1> USE DEF RxUnchanged, KaUnchanged, downVars, rxVars, peerVars, callerVars
<1>0. {"rx", "rd", "ka"} \subseteq Procs /\ pc \in [Procs -> Labels]
  BY DEF Procs, TypeInv, TypeOK
<1>1. /\ UNCHANGED <<inc, rxRecs, readLog, peerOut, peerPos, toUs, toPeer, out,
                     terminalMode, cancelled>>
      /\ pipeClosed => pipeClosed'
  BY DEF RxCheck, RxNothing, RxSocketClosed, RxSocketError, RxAck, RxEnd, RxExit,
         ReadEOF, KeepaliveStop
<1>2. CASE pc'["rx"] = pc["rx"]
  BY <1>1, <1>2, NoLivelier DEF ReceiveAside, OutInv
<1>3. CASE \/ pc["rx"] = "top" /\ pc'["rx"] = IF cancelled THEN "exit" ELSE "read"
           \/ pc["rx"] = "read" /\ pc'["rx"] \in {"top", "exit", "fail"}
           \/ pc["rx"] = "exit" /\ pc'["rx"] = "done"
  <2>1. Live' => Live
    BY <1>1, <1>3 DEF Live, Dispatching
  <2>2. pc'["rx"] # "off" /\ \A l \in Dispatching : pc'["rx"] # l /\ pc["rx"] # l
    BY <1>3 DEF Dispatching
  <2> QED BY <1>1, <2>1, <2>2 DEF ReceiveAside, OutInv
<1>4. \A l : Goto("rx", l) => pc'["rx"] = l
  BY <1>0 DEF Goto
<1>5. CASE ReadEOF \/ KeepaliveStop
  BY <1>0, <1>2, <1>5 DEF ReadEOF, KeepaliveStop, Goto
<1>6. CASE RxCheck \/ RxNothing \/ RxSocketClosed \/ RxSocketError \/ RxExit
  BY <1>3, <1>4, <1>6 DEF RxCheck, RxNothing, RxSocketClosed, RxSocketError, RxExit
<1>7. CASE \E m \in toUs : RxAck(m) \/ RxEnd(m)
  BY <1>3, <1>4, <1>7 DEF RxAck, RxEnd, Receives
<1> QED BY <1>5, <1>6, <1>7

\* A keepalive is an ACK, and none of the device's.
LEMMA TickKeeps ==
  ASSUME NEW off, NEW num, DeviceScope(off, num), TypeInv, TypeInv',
         ReceiveInv(off, num), KeepaliveTick
  PROVE  ReceiveInv(off, num)'
<1> USE DEF KaUnchanged, downVars, rxVars, peerVars, callerVars
<1>1. UNCHANGED <<inc, rxRecs, readLog, peerOut, peerPos, toUs, out,
                  terminalMode, cancelled, pipeClosed, pc>>
  BY DEF KeepaliveTick
<1>2. out < PeerStart
  <2>1. ticks \in Nat /\ ticks < MaxTicks
    BY DEF TypeInv, TypeOK, KeepaliveTick
  <2>2. MaxTicks # 0
    BY <2>1
  <2> QED BY <2>2 DEF ReceiveInv, OutInv
<1>3. \A m \in toPeer' : m \in toPeer \/ m.ctr < PeerStart
  BY <1>2 DEF KeepaliveTick, SendBestEffort, SendOk, SendErr, Ack
<1>4. PICK c \in 0 .. Count : TakenUpTo(off, c) /\ HandedUpTo(num, c)
  BY DEF ReceiveInv
<1>5. TakenUpTo(off, c)'
  BY <1>1, <1>3, <1>4 DEF TakenUpTo
<1>6. HandedUpTo(num, c)'
  BY <1>1, <1>4 DEF HandedUpTo, Carries, DeliveredContiguous, Live
<1>7. DeviceInv(off, num)' /\ OutInv'
  BY <1>1 DEF ReceiveInv, DeviceInv, OutInv, IsPacket
<1> QED BY <1>4, <1>5, <1>6, <1>7 DEF ReceiveInv, Count

----------------------------------------------------------------------------
(* Packets, one by one.                                                    *)

\* Stop-and-wait: the next packet is sent when the last one was taken.
LEMMA SendKeeps ==
  ASSUME NEW off, NEW num, DeviceScope(off, num), TypeInv, TypeInv',
         ReceiveInv(off, num), PeerSend
  PROVE  ReceiveInv(off, num)'
<1> USE DEF PeerUnchanged, downVars, rxVars, callerVars
<1>1. UNCHANGED <<inc, rxRecs, readLog, toPeer, out, terminalMode, cancelled,
                  pipeClosed, pc>>
  BY DEF PeerSend
<1>2. peerPos \in Nat /\ Count \in Nat /\ peerPos < Count /\ peerPos' = peerPos + 1
  BY CountNat DEF TypeInv, TypeOK, PeerSend, PeerReady, Count
<1>3. PICK recs \in PeerPayloads :
        /\ toUs' = toUs \cup {FromPeer("DATA", peerOut, recs)}
        /\ peerOut' = reserveOut(peerOut, PayloadLen(recs))
  BY DEF PeerSend
<1>4. IsPacket(off, num, peerPos + 1, recs) /\ recs \in Seq(Record)
  BY <1>2, SendsPacket
<1>5. /\ peerPos \in 0 .. Count /\ peerPos + 1 \in 0 .. Count
      /\ (peerPos + 1) - 1 = peerPos
  BY <1>2
<1>6. off[peerPos] \in Nat /\ off[peerPos + 1] \in Nat /\ off[peerPos + 1] < Mod
      /\ PeerStart <= off[peerPos] /\ Mod \in Nat
  BY <1>5, OffsetsGrow, SeqAssumption
<1>7. peerOut = off[peerPos] /\ off[peerPos] + Len(recs) = off[peerPos + 1]
  BY <1>4, <1>5 DEF ReceiveInv, DeviceInv, IsPacket
<1>8. peerOut' = off[peerPos']
  <2>1. peerOut' = off[peerPos + 1] % Mod
    BY <1>3, <1>7 DEF reserveOut, PayloadLen
  <2> QED BY <1>2, <1>6, <2>1
<1>9. DeviceInv(off, num)'
  <2>1. ASSUME NEW m \in toUs', m.ptype = "DATA"
        PROVE  \E i \in 1 .. peerPos' :
                 m.ctr = off[i - 1] /\ IsPacket(off, num, i, m.recs)
    <3>1. CASE m \in toUs
      <4>1. PICK i \in 1 .. peerPos :
              m.ctr = off[i - 1] /\ IsPacket(off, num, i, m.recs)
        BY <2>1, <3>1 DEF ReceiveInv, DeviceInv
      <4>2. i \in 1 .. peerPos'
        BY <1>2
      <4> QED BY <4>1, <4>2
    <3>2. CASE m \notin toUs
      <4>1. m.ctr = peerOut /\ m.recs = recs
        BY <1>3, <3>2 DEF FromPeer
      <4>2. peerPos + 1 \in 1 .. peerPos'
        BY <1>2
      <4> QED BY <1>4, <1>5, <1>7, <4>1, <4>2
    <3> QED BY <3>1, <3>2
  <2>2. peerPos' <= Count
    BY <1>2
  <2> QED BY <1>8, <2>1, <2>2 DEF DeviceInv, IsPacket, Carries, Count
<1>10. PICK c \in 0 .. Count : TakenUpTo(off, c) /\ HandedUpTo(num, c)
  BY DEF ReceiveInv
<1>11. c = peerPos
  <2>1. c \in Nat /\ c <= peerPos
    BY <1>2, <1>10 DEF TakenUpTo
  <2>2. CASE peerPos = 0
    BY <2>1, <2>2
  <2>3. CASE peerPos > 0
    <3>1. Ack(peerOut) \in toPeer
      BY <2>3 DEF PeerSend, PeerReady
    <3>2. Ack(peerOut).ptype = "ACK" /\ Ack(peerOut).ctr = off[peerPos]
      BY <1>7 DEF Ack
    <3>3. PICK i \in 1 .. c : off[peerPos] = off[i]
      <4>1. ~(off[peerPos] < PeerStart)
        BY <1>6, SessionAssumption, SMTT(30) DEF Counter
      <4> QED BY <1>10, <3>1, <3>2, <4>1 DEF TakenUpTo
    <3>4. i \in 0 .. Count /\ i <= c
      BY <1>2, <2>1
    <3>5. ~(i < peerPos)
      <4>1. i < peerPos => off[i] < off[peerPos]
        BY <1>5, <3>4, OffsetsGrow
      <4>2. off[i] \in Nat
        BY <3>4, OffsetsGrow
      <4> QED BY <1>6, <3>3, <4>1, <4>2
    <3> QED BY <1>2, <2>1, <3>4, <3>5
  <2> QED BY <1>2, <2>2, <2>3
<1>12. TakenUpTo(off, c)'
  BY <1>1, <1>2, <1>10, <1>11 DEF TakenUpTo
<1>13. HandedUpTo(num, c)'
  BY <1>1, <1>10 DEF HandedUpTo, Carries, DeliveredContiguous, Live
<1>14. OutInv'
  BY <1>1 DEF ReceiveInv, OutInv
<1> QED BY <1>9, <1>10, <1>12, <1>13, <1>14 DEF ReceiveInv, Count

\* The other steps of the device.
LEMMA PeerReceives ==
  ASSUME TypeInv, TypeInv',
         PeerHello \/ PeerEnd \/ \E m \in toPeer : PeerData(m)
  PROVE  ReceiveAside
<1> USE DEF PeerUnchanged, downVars, rxVars, callerVars, peerVars
<1>1. UNCHANGED <<inc, rxRecs, readLog, toPeer, out, terminalMode, cancelled,
                  pipeClosed, pc, peerOut, peerPos>>
  BY DEF PeerHello, PeerEnd, PeerData
<1>2. \A m \in toUs' : m.ptype = "DATA" => m \in toUs
  BY DEF PeerHello, PeerEnd, PeerData, FromPeer
<1> QED BY <1>1, <1>2, NoLivelier DEF ReceiveAside, OutInv

\* acceptIncoming lets exactly the next packet pass.
LEMMA AcceptsNext ==
  ASSUME NEW off, NEW num, DeviceScope(off, num), TypeInv,
         NEW c \in 0 .. Count, TakenUpTo(off, c), peerPos <= Count,
         NEW i \in 1 .. peerPos
  PROVE  acceptIncoming(inc, off[i - 1]) <=> i = c + 1
<1>0. c \in Nat /\ peerPos \in Nat /\ Count \in Nat /\ i \in Nat /\ i > 0
      /\ i <= peerPos /\ peerPos <= c + 1
  BY CountNat DEF TypeInv, TypeOK, TakenUpTo
<1>1. CASE c = 0
  BY <1>0, <1>1 DEF acceptIncoming, TakenUpTo
<1>2. CASE c > 0
  <2>1. inc.inSeen /\ inc.in = off[c - 1]
    BY <1>2 DEF TakenUpTo
  <2>2. c - 1 \in 0 .. Count /\ i - 1 \in 0 .. Count
    BY <1>0, <1>2
  <2>3. ~(off[c - 1] - off[i - 1] > Window)
    BY <2>2, OffsetsGrow
  <2>4. off[i - 1] > off[c - 1] <=> i - 1 > c - 1
    <3>1. off[i - 1] \in Nat /\ off[c - 1] \in Nat
      BY <2>2, OffsetsGrow
    <3>2. i - 1 > c - 1 => off[c - 1] < off[i - 1]
      BY <2>2, OffsetsGrow
    <3>3. i - 1 < c - 1 => off[i - 1] < off[c - 1]
      BY <2>2, OffsetsGrow
    <3>4. i - 1 = c - 1 \/ i - 1 < c - 1 \/ i - 1 > c - 1
      BY <1>0
    <3> QED BY <1>0, <3>1, <3>2, <3>3, <3>4
  <2>5. i - 1 > c - 1 <=> i = c + 1
    BY <1>0
  <2> QED BY <2>1, <2>3, <2>4, <2>5 DEF acceptIncoming
<1> QED BY <1>0, <1>1, <1>2

\* processInboundData takes the next packet, and acknowledges any.
LEMMA DataKeeps ==
  ASSUME NEW off, NEW num, DeviceScope(off, num), TypeInv, TypeInv',
         ReceiveInv(off, num), NEW m \in toUs, RxData(m)
  PROVE  ReceiveInv(off, num)'
<1> USE DEF RxUnchanged, downVars, peerVars, callerVars
<1>0. "rx" \in Procs /\ pc \in [Procs -> Labels] /\ pc["rx"] = "read"
  BY DEF Procs, TypeInv, TypeOK, RxData, Receives
<1>1. UNCHANGED <<readLog, peerOut, peerPos, toUs, out, terminalMode, cancelled,
                  pipeClosed>>
  BY DEF RxData
<1>2. PICK c \in 0 .. Count : TakenUpTo(off, c) /\ HandedUpTo(num, c)
  BY DEF ReceiveInv
<1>3. PICK i \in 1 .. peerPos :
        m.ctr = off[i - 1] /\ IsPacket(off, num, i, m.recs)
  BY DEF ReceiveInv, DeviceInv, RxData
<1>4. /\ c \in Nat /\ i \in Nat /\ i > 0 /\ peerPos \in Nat /\ Count \in Nat
      /\ i <= peerPos /\ peerPos <= Count /\ peerPos <= c + 1 /\ c <= peerPos
  BY <1>2, CountNat DEF TypeInv, TypeOK, TakenUpTo, ReceiveInv, DeviceInv
<1>5. acceptIncoming(inc, m.ctr) <=> i = c + 1
  BY <1>2, <1>3, <1>4, AcceptsNext
<1>6. ackCounterFor(m.ctr, PayloadLen(m.recs)) = off[i]
  <2>1. i \in 0 .. Count
    BY <1>4
  <2>2. off[i] \in Nat /\ off[i] < Mod /\ Mod \in Nat
    BY <2>1, OffsetsGrow, SeqAssumption
  <2>3. ackCounterFor(m.ctr, PayloadLen(m.recs)) = off[i] % Mod
    BY <1>3 DEF ackCounterFor, PayloadLen, IsPacket
  <2> QED BY <2>2, <2>3
<1>7. \A a \in toPeer' : a \in toPeer \/ a.ctr = off[i]
  BY <1>6 DEF RxData, SendBestEffort, SendOk, SendErr, Ack
<1>8. DeviceInv(off, num)' /\ OutInv'
  BY <1>1 DEF ReceiveInv, DeviceInv, IsPacket, OutInv
<1>9. rxRecs = << >> /\ (Live <=> ~pipeClosed)
  BY <1>0, <1>2 DEF HandedUpTo, Dispatching, Live
<1>10. CASE i = c + 1
  <2>1. /\ inc' = [in |-> off[i - 1], inSeen |-> TRUE]
        /\ rxRecs' = m.recs /\ pc'["rx"] = "dispatch"
    BY <1>0, <1>3, <1>5, <1>10 DEF RxData, markIncoming, Goto, IsPacket
  <2>2. i \in 0 .. Count /\ i - 1 = c
    BY <1>4, <1>10
  <2>3. TakenUpTo(off, i)'
    <3>1. \A a \in toPeer' : a.ptype = "ACK" =>
            a.ctr < PeerStart \/ \E j \in 1 .. i : a.ctr = off[j]
      <4>1. i \in 1 .. i /\ 1 .. c \subseteq 1 .. i
        BY <1>4, <1>10
      <4> QED BY <1>2, <1>7, <4>1 DEF TakenUpTo
    <3>2. i <= peerPos' /\ peerPos' <= i + 1
      BY <1>1, <1>4, <1>10
    <3>3. inc'.inSeen /\ inc'.in = off[i - 1]
      BY <2>1
    <3> QED BY <1>4, <3>1, <3>2, <3>3 DEF TakenUpTo
  <2>4. HandedUpTo(num, i)'
    <3>1. Carries(rxRecs', num[i - 1], num[i]) /\ rxRecs' # << >> /\ i > 0
      BY <1>3, <1>4, <2>1 DEF IsPacket
    <3>2. pc'["rx"] \in Dispatching /\ pc'["rx"] # "write" /\ pc'["rx"] # "off"
      BY <2>1 DEF Dispatching
    <3>3. (readLog' # << >> => terminalMode') /\ DeliveredContiguous'
      BY <1>1, <1>2 DEF HandedUpTo, DeliveredContiguous
    <3>4. Live' /\ readLog' # << >> => readLog'[Len(readLog')] + 1 = num[i - 1]
      BY <1>1, <1>2, <1>9, <2>2 DEF HandedUpTo, Live
    <3> QED BY <3>1, <3>2, <3>3, <3>4 DEF HandedUpTo, Carries
  <2> QED BY <1>8, <2>2, <2>3, <2>4 DEF ReceiveInv, Count
<1>11. CASE i # c + 1
  <2>1. inc' = inc /\ rxRecs' = << >> /\ pc'["rx"] = "top"
    BY <1>0, <1>5, <1>9, <1>11 DEF RxData, markIncoming, Goto
  <2>2. i \in 1 .. c
    BY <1>4, <1>11
  <2>3. TakenUpTo(off, c)'
    BY <1>1, <1>2, <1>7, <2>1, <2>2 DEF TakenUpTo
  <2>4. HandedUpTo(num, c)'
    <3>1. (readLog' # << >> => terminalMode') /\ DeliveredContiguous'
      BY <1>1, <1>2 DEF HandedUpTo, DeliveredContiguous
    <3>2. Live' /\ readLog' # << >> => readLog'[Len(readLog')] + 1 = num[c]
      BY <1>1, <1>2, <1>9 DEF HandedUpTo, Live
    <3> QED BY <2>1, <3>1, <3>2 DEF HandedUpTo
  <2> QED BY <1>2, <1>8, <2>3, <2>4 DEF ReceiveInv, Count
<1> QED BY <1>10, <1>11

----------------------------------------------------------------------------
(* Records, one by one.                                                    *)

LEMMA NoLength ==
  ASSUME NEW A, NEW s \in Seq(A), Len(s) = 0
  PROVE  s = << >>
OBVIOUS

\* Only the last record of a packet can be terminal data.
LEMMA PlainIsLast ==
  ASSUME NEW recs \in Seq(Record), recs # << >>, NEW a, NEW b, Carries(recs, a, b)
  PROVE  /\ Len(recs) \in Nat /\ Len(recs) > 0 /\ Head(recs) = recs[1]
         /\ Head(recs).cp = PlainData => Len(recs) = 1 /\ recs[1].body = a /\ b = a + 1
         /\ Len(recs) = 1 => Tail(recs) = << >>
         /\ Len(recs) = 1 /\ Head(recs).cp # PlainData => b = a
         /\ Len(recs) # 1 => Tail(recs) # << >> /\ Carries(Tail(recs), a, b)
<1>1. Len(recs) \in Nat /\ Len(recs) > 0 /\ Head(recs) = recs[1]
  OBVIOUS
<1>2. ASSUME Head(recs).cp = PlainData
      PROVE  Len(recs) = 1
  <2> DEFINE n == Len(recs)
  <2>0. n \in Nat /\ n > 0
    BY <1>1
  <2> HIDE DEF n
  <2>1. n # 1 => 1 \in 1 .. n - 1
    BY <2>0
  <2> QED BY <1>1, <1>2, <2>1 DEF Carries, n
<1>t. /\ Tail(recs) \in Seq(Record) /\ Len(Tail(recs)) \in Nat
      /\ Len(Tail(recs)) = Len(recs) - 1
  OBVIOUS
<1>3. Len(recs) = 1 => Tail(recs) = << >>
  <2>1. Len(recs) = 1 => Len(Tail(recs)) = 0
    BY <1>t
  <2> QED BY <1>t, <2>1, NoLength
<1>4. ASSUME Len(recs) # 1
      PROVE  Tail(recs) # << >> /\ Carries(Tail(recs), a, b)
  <2>1. Len(Tail(recs)) = Len(recs) - 1 /\ Len(recs) - 1 > 0 /\ Tail(recs) # << >>
    <3>1. Len(recs) - 1 > 0
      BY <1>1, <1>4
    <3>2. Len(Tail(recs)) # 0
      BY <1>t, <3>1
    <3>3. Len(<< >>) = 0
      OBVIOUS
    <3> QED BY <1>t, <3>1, <3>2, <3>3
  <2>2. \A k \in 1 .. Len(recs) - 1 : Tail(recs)[k] = recs[k + 1]
    BY <1>1, <1>4
  <2>3. ASSUME NEW k \in 1 .. Len(Tail(recs)) - 1
        PROVE  Tail(recs)[k].cp # PlainData
    <3>1. k \in 1 .. Len(recs) - 1 /\ k + 1 \in 1 .. Len(recs) - 1
      BY <1>1, <2>1
    <3> QED BY <2>2, <3>1 DEF Carries
  <2>4. Tail(recs)[Len(Tail(recs))] = recs[Len(recs)]
    <3>1. Len(recs) - 1 \in 1 .. Len(recs) - 1 /\ (Len(recs) - 1) + 1 = Len(recs)
      BY <1>1, <2>1
    <3> QED BY <2>1, <2>2, <3>1
  <2> QED BY <2>1, <2>3, <2>4 DEF Carries
<1> QED BY <1>1, <1>2, <1>3, <1>4 DEF Carries

\* The next record, when the one in hand was not handed out.
LEMMA SkipKeeps ==
  ASSUME NEW off, NEW num, DeviceScope(off, num), TypeInv, TypeInv',
         ReceiveInv(off, num), pc["rx"] \in Dispatching, NextRecord,
         UNCHANGED <<inc, readLog, peerOut, peerPos, toUs, toPeer, out,
                     terminalMode, cancelled, pipeClosed>>,
         Head(rxRecs).cp = PlainData => ~terminalMode \/ pipeClosed
  PROVE  ReceiveInv(off, num)'
<1>0. /\ "rx" \in Procs /\ pc \in [Procs -> Labels]
      /\ rxRecs \in Seq(Record) /\ rxRecs # << >>
  BY DEF Procs, TypeInv, TypeOK, RxInv, Dispatching
<1>1. PICK c \in 0 .. Count : TakenUpTo(off, c) /\ HandedUpTo(num, c)
  BY DEF ReceiveInv
<1>2. c > 0 /\ Carries(rxRecs, num[c - 1], num[c])
  BY <1>0, <1>1 DEF HandedUpTo
<1>3. DeviceInv(off, num)' /\ OutInv' /\ TakenUpTo(off, c)'
  BY <1>1 DEF ReceiveInv, DeviceInv, IsPacket, OutInv, TakenUpTo
<1>4. /\ rxRecs' = Tail(rxRecs)
      /\ pc'["rx"] = IF Len(rxRecs) = 1 THEN "top" ELSE "dispatch"
  BY <1>0 DEF NextRecord, Goto
<1>5. (readLog' # << >> => terminalMode') /\ DeliveredContiguous'
  BY <1>1 DEF HandedUpTo, DeliveredContiguous
<1>6. Live' => Live
  BY <1>4 DEF Live, Dispatching
<1>7. Live /\ readLog # << >> =>
        Head(rxRecs).cp # PlainData /\ readLog[Len(readLog)] + 1 = num[c - 1]
  BY <1>0, <1>1 DEF HandedUpTo, Live
<1>8. CASE Len(rxRecs) = 1
  <2>1. rxRecs' = << >> /\ pc'["rx"] = "top"
    BY <1>0, <1>2, <1>4, <1>8, PlainIsLast
  <2>2. Live' /\ readLog' # << >> => readLog'[Len(readLog')] + 1 = num[c]
    <3>1. Head(rxRecs).cp # PlainData => num[c] = num[c - 1]
      BY <1>0, <1>2, <1>8, PlainIsLast
    <3> QED BY <1>6, <1>7, <3>1
  <2>3. HandedUpTo(num, c)'
    BY <1>5, <2>1, <2>2 DEF HandedUpTo
  <2> QED BY <1>1, <1>3, <2>3 DEF ReceiveInv, Count
<1>9. CASE Len(rxRecs) # 1
  <2>1. rxRecs' # << >> /\ Carries(rxRecs', num[c - 1], num[c])
    BY <1>0, <1>2, <1>4, <1>9, PlainIsLast
  <2>2. pc'["rx"] = "dispatch"
    BY <1>4, <1>9
  <2>3. Live' /\ readLog' # << >> => readLog'[Len(readLog')] + 1 = num[c - 1]
    BY <1>6, <1>7
  <2>4. HandedUpTo(num, c)'
    BY <1>2, <1>5, <2>1, <2>2, <2>3 DEF HandedUpTo, Carries, Dispatching
  <2> QED BY <1>1, <1>3, <2>4 DEF ReceiveInv, Count
<1> QED BY <1>8, <1>9

\* Read takes the piece that comes after the last one.
LEMMA ReadKeeps ==
  ASSUME NEW off, NEW num, DeviceScope(off, num), TypeInv, TypeInv',
         ReceiveInv(off, num), Read
  PROVE  ReceiveInv(off, num)'
<1> USE DEF RxUnchanged, downVars, peerVars, callerVars
<1>0. /\ "rx" \in Procs /\ pc \in [Procs -> Labels] /\ pc["rx"] = "write"
      /\ rxRecs \in Seq(Record) /\ rxRecs # << >> /\ readLog \in Seq(Nat)
  BY DEF Procs, TypeInv, TypeOK, RxInv, Read
<1>1. UNCHANGED <<inc, peerOut, peerPos, toUs, toPeer, out, terminalMode,
                  cancelled, pipeClosed>>
  BY DEF Read
<1>2. PICK c \in 0 .. Count : TakenUpTo(off, c) /\ HandedUpTo(num, c)
  BY DEF ReceiveInv
<1>3. c > 0 /\ Carries(rxRecs, num[c - 1], num[c]) /\ Head(rxRecs).cp = PlainData
      /\ terminalMode
  BY <1>0, <1>2 DEF HandedUpTo
<1>4. Len(rxRecs) = 1 /\ Tail(rxRecs) = << >> /\ Head(rxRecs).body = num[c - 1]
      /\ num[c] = num[c - 1] + 1
  BY <1>0, <1>3, PlainIsLast
<1>5. /\ rxRecs' = << >> /\ pc'["rx"] = "top"
      /\ readLog' = Append(readLog, num[c - 1])
  BY <1>0, <1>4 DEF Read, NextRecord, Goto
<1>6. DeviceInv(off, num)' /\ OutInv' /\ TakenUpTo(off, c)'
  BY <1>1, <1>2 DEF ReceiveInv, DeviceInv, IsPacket, OutInv, TakenUpTo
<1>7. readLog # << >> => readLog[Len(readLog)] + 1 = num[c - 1]
  <2>1. Live
    BY <1>0 DEF Live, Dispatching, Read
  <2> QED BY <1>0, <1>2, <2>1 DEF HandedUpTo
<1>8. /\ Len(readLog) \in Nat /\ Len(readLog') = Len(readLog) + 1
      /\ \A k \in 1 .. Len(readLog) : readLog'[k] = readLog[k]
      /\ readLog'[Len(readLog) + 1] = num[c - 1]
  BY <1>0, <1>5
<1>9. DeliveredContiguous'
  <2>1. ASSUME NEW k \in 1 .. Len(readLog') - 1
        PROVE  readLog'[k + 1] = readLog'[k] + 1
    <3>1. k \in 1 .. Len(readLog)
      BY <1>8
    <3>2. CASE k = Len(readLog)
      <4>1. readLog # << >>
        BY <3>1, <3>2
      <4> QED BY <1>7, <1>8, <3>1, <3>2, <4>1
    <3>3. CASE k # Len(readLog)
      <4>1. k \in 1 .. Len(readLog) - 1 /\ k + 1 \in 1 .. Len(readLog)
        BY <1>8, <3>1, <3>3
      <4>2. readLog[k + 1] = readLog[k] + 1
        BY <1>2, <4>1 DEF HandedUpTo, DeliveredContiguous
      <4> QED BY <1>8, <3>1, <4>1, <4>2
    <3> QED BY <3>2, <3>3
  <2> QED BY <2>1 DEF DeliveredContiguous
<1>10. HandedUpTo(num, c)'
  <2>1. readLog'[Len(readLog')] + 1 = num[c]
    BY <1>4, <1>8
  <2> QED BY <1>1, <1>3, <1>5, <1>9, <2>1 DEF HandedUpTo
<1> QED BY <1>2, <1>6, <1>10 DEF ReceiveInv, Count

\* The dispatch of one record.
LEMMA DispatchKeeps ==
  ASSUME NEW off, NEW num, DeviceScope(off, num), TypeInv, TypeInv',
         ReceiveInv(off, num), DispatchPlain \/ DispatchControl \/ WriteBrokenPipe
  PROVE  ReceiveInv(off, num)'
<1> USE DEF RxUnchanged, downVars, peerVars, callerVars
<1>0. /\ "rx" \in Procs /\ pc \in [Procs -> Labels]
      /\ rxRecs # << >> /\ pc["rx"] \in Dispatching
  BY DEF Procs, TypeInv, TypeOK, RxInv, Dispatching, DispatchPlain,
         DispatchControl, WriteBrokenPipe
<1>1. UNCHANGED <<inc, readLog, peerOut, peerPos, toUs, toPeer, out,
                  terminalMode, cancelled, pipeClosed>>
  BY DEF DispatchPlain, DispatchControl, WriteBrokenPipe
<1>2. CASE /\ NextRecord
           /\ Head(rxRecs).cp = PlainData => ~terminalMode \/ pipeClosed
  BY <1>0, <1>1, <1>2, SkipKeeps
<1>3. PICK c \in 0 .. Count : TakenUpTo(off, c) /\ HandedUpTo(num, c)
  BY DEF ReceiveInv
<1>4. DeviceInv(off, num)' /\ OutInv' /\ TakenUpTo(off, c)'
  BY <1>1, <1>3 DEF ReceiveInv, DeviceInv, IsPacket, OutInv, TakenUpTo
<1>5. ASSUME Goto("rx", "write"), UNCHANGED rxRecs, terminalMode,
             Head(rxRecs).cp = PlainData
      PROVE  ReceiveInv(off, num)'
  <2>1. pc'["rx"] = "write"
    BY <1>0, <1>5 DEF Goto
  <2>2. HandedUpTo(num, c)'
    BY <1>0, <1>1, <1>3, <1>5, <2>1
       DEF HandedUpTo, Carries, DeliveredContiguous, Live, Dispatching
  <2> QED BY <1>3, <1>4, <2>2 DEF ReceiveInv, Count
<1>6. ASSUME Goto("rx", "top"), rxRecs' = << >>, cancelled
      PROVE  ReceiveInv(off, num)'
  <2>1. pc'["rx"] = "top" /\ ~Live'
    BY <1>0, <1>1, <1>6 DEF Goto, Live, Dispatching
  <2>2. HandedUpTo(num, c)'
    BY <1>0, <1>1, <1>3, <1>6, <2>1 DEF HandedUpTo, DeliveredContiguous
  <2> QED BY <1>3, <1>4, <2>2 DEF ReceiveInv, Count
<1> QED BY <1>2, <1>5, <1>6 DEF DispatchPlain, DispatchControl, WriteBrokenPipe

LEMMA ReceiveNext ==
  ASSUME NEW off, NEW num, DeviceScope(off, num), TypeInv, TypeInv', DownInv,
         ReceiveInv(off, num), [Next]_vars
  PROVE  ReceiveInv(off, num)'
<1>1. CASE UNCHANGED vars
  <2>1. ReceiveAside
    BY <1>1, NoLivelier DEF vars, callerVars, chanVars, netVars, peerVars, downVars,
                            rxVars, ReceiveAside, OutInv
  <2> QED BY <2>1, ReceiveAsideKeeps
<1>2. CASE \E t \in Senders : SendStep(t)
  BY <1>2, SendReceives, ReceiveAsideKeeps
<1>3. CASE \E t \in Writers : Resize(t) \/ \E n \in 0 .. MaxPayload : Write(t, n)
  BY <1>3, CallersReceive, ReceiveAsideKeeps
<1>4. CASE OpenStep
  BY <1>4, OpenReceives, ReceiveAsideKeeps DEF ReceiveInv
<1>5. CASE \/ ParentCancel \/ FailSwap
           \/ \E c \in Closers : Close(c)
           \/ \E p \in Teardown : DownStep(p)
  BY <1>5, DownReceives, ReceiveAsideKeeps
<1>6. CASE RxStep
  <2>1. CASE \/ RxCheck \/ RxNothing \/ RxSocketClosed \/ RxSocketError
             \/ \E m \in toUs : RxAck(m) \/ RxEnd(m)
             \/ RxExit
    BY <2>1, IdleReceives, ReceiveAsideKeeps
  <2>2. CASE \E m \in toUs : RxData(m)
    BY <2>2, DataKeeps
  <2>3. CASE DispatchPlain \/ DispatchControl \/ WriteBrokenPipe
    BY <2>3, DispatchKeeps
  <2> QED BY <1>5, <1>6, <2>1, <2>2, <2>3 DEF RxStep
<1>7. CASE ReadStep
  BY <1>7, ReadKeeps, IdleReceives, ReceiveAsideKeeps DEF ReadStep
<1>8. CASE KaStep
  BY <1>8, TickKeeps, IdleReceives, ReceiveAsideKeeps DEF KaStep
<1>9. CASE PeerStep
  <2>1. CASE PeerHello \/ PeerEnd \/ \E m \in toPeer : PeerData(m)
    BY <2>1, PeerReceives, ReceiveAsideKeeps
  <2>2. CASE PeerSend
    BY <2>2, SendKeeps
  <2> QED BY <1>9, <2>1, <2>2 DEF PeerStep
<1> QED BY <1>1, <1>2, <1>3, <1>4, <1>5, <1>6, <1>7, <1>8, <1>9 DEF Next, Finished

\* Read hands out a contiguous stretch of the device's terminal stream, whatever
\* the link loses, repeats and reorders and wherever the session ends: what
\* acceptIncoming lets pass is each packet once and in order, and once terminal
\* data is lost to a closed pipe or a cancelled context nothing more is read.
THEOREM ReadIsContiguous ==
  ASSUME NEW off, NEW num, DeviceScope(off, num)
  PROVE  Spec => []DeliveredContiguous
<1>1. Init => TypeInv /\ DownInv /\ ReceiveInv(off, num)
  BY TypeInit, DownInit, ReceiveInit
<1>2. (TypeInv /\ DownInv /\ ReceiveInv(off, num)) /\ [Next]_vars
        => (TypeInv /\ DownInv /\ ReceiveInv(off, num))'
  BY TypeNext, DownNext, ReceiveNext
<1>3. ReceiveInv(off, num) => DeliveredContiguous
  BY DEF ReceiveInv, HandedUpTo
<1> QED BY <1>1, <1>2, <1>3, PTL DEF Spec

=============================================================================

------------------------------- MODULE Session -------------------------------
(***************************************************************************)
(* One MAC-Telnet client session (internal/mactelnet/session.go, loop.go): *)
(* the goroutine inside Open, the receive loop, the keepalive loop,        *)
(* concurrent callers of Write and Resize, one reader, concurrent callers  *)
(* of Close, and the device at the other end of a lossy link.              *)
(*                                                                         *)
(* The link keeps every packet ever sent and delivers any of them at any   *)
(* time, any number of times or never: loss, duplication and reordering    *)
(* are all choices of what is received next, and retransmitting adds       *)
(* nothing to the set.                                                     *)
(***************************************************************************)
EXTENDS Seq, Sequences, FiniteSets

CONSTANTS
  Writers,          \* goroutines calling Write or Resize on the open session
  Closers,          \* goroutines calling Close on the open session
  CpHeaderLen,      \* bytes of a control-record header (9)
  MaxPayload,       \* largest DATA payload, maxPacket - headerLen (1478)
  AckCap,           \* capacity of ackCh (8)
  CtlCap,           \* capacity of controlCh (16)
  AuthAttempts,     \* len(authSchedule)
  DataAttempts,     \* len(dataSchedule)
  AuthLen,          \* bytes of each of the two handshake payloads
  MaxCalls,         \* bound: Write and Resize calls per writer
  MaxTicks,         \* bound: keepalive packets
  MaxOut,           \* bound: last value of the outgoing byte counter
  PeerStart,        \* first counter of the device's own stream
  SaltLens,         \* lengths of the PASSSALT body the device may send
  EndAuthRecs,      \* control records of the device's END_AUTH packet
  Script,           \* payloads the device sends after that packet
  Events            \* which failures of the environment may happen

PlainData == "PLAINDATA"
PassSalt  == "PASSSALT"
EndAuth   == "END_AUTH"
OtherCtl  == "OTHER"

\* A control record: its type and what distinguishes its body.
Record == [cp : {PlainData, PassSalt, EndAuth, OtherCtl}, body : Nat]

NoProc == "none"

ASSUME SessionAssumption ==
  /\ {"open", "rx", "ka", "rd", NoProc} \cap (Writers \cup Closers) = {}
  /\ Writers \cap Closers = {}
  /\ {CpHeaderLen, MaxPayload, AckCap, CtlCap} \subseteq Nat \ {0}
  /\ {AuthAttempts, DataAttempts, AuthLen} \subseteq Nat \ {0}
  /\ {MaxCalls, MaxTicks, MaxOut} \subseteq Nat
  /\ PeerStart \in Counter
  /\ SaltLens \subseteq Nat
  /\ EndAuthRecs \in Seq(Record)
  /\ Script \in Seq(Seq(Record))
  /\ Events \subseteq {"sendErr", "readErr", "cancel", "peerEnd"}

VARIABLES
  pc,            \* where each goroutine is
  job,           \* the locals of a caller inside sendDataAndWaitAck
  calls,         \* calls made by each writer
  dataMu,        \* holder of dataMu
  out,           \* counters.out
  inc,           \* counters.in and counters.inSeen
  ackCh,         \* ACK counters buffered for waitForAck
  controlCh,     \* control records buffered for awaitControl
  terminalMode,  \* set once END_AUTH was taken by the handshake
  cancelled,     \* s.ctx is done
  closedBy,      \* who won the compare-and-swap on `closed`
  conn, sender,  \* the receive and the send socket
  pipeClosed,    \* rxPipe: one of its ends is closed
  rxRecs,        \* records of the packet rxLoop is still dispatching
  ticks,         \* keepalives sent
  readLog,       \* history: terminal data handed to Read, in order
  sent,          \* history: every DATA payload that got a counter
  confirmed,     \* history: payloads whose sendDataAndWaitAck returned nil
  toPeer, toUs,  \* packets sent to and by the device
  peerState,     \* the device: "listening", "up" or "ended"
  peerInc,       \*   its mark for recognising duplicates
  peerGot,       \*   the payloads it took, in order
  peerOut,       \*   its outgoing byte counter
  peerPos        \*   the packets of its own it has sent

callerVars == <<job, calls, dataMu, out, sent, confirmed>>
chanVars   == <<ackCh, controlCh>>
downVars   == <<cancelled, closedBy, conn, sender, pipeClosed>>
rxVars     == <<inc, rxRecs, readLog>>
netVars    == <<toPeer, toUs>>
peerVars   == <<peerState, peerInc, peerGot, peerOut, peerPos>>

vars == <<pc, callerVars, chanVars, downVars, rxVars, netVars,
          terminalMode, ticks, peerVars>>

Senders  == {"open"} \cup Writers           \* callers of sendDataAndWaitAck
Teardown == {"open", "rx"} \cup Closers     \* who may release the resources
Procs    == {"open", "rx", "ka", "rd"} \cup Writers \cup Closers

closed == closedBy # NoProc

Goto(p, label) == pc' = [pc EXCEPT ![p] = label]

----------------------------------------------------------------------------
(* Packets.  `id` names the payload of a DATA packet to the device: its    *)
(* place in `sent`.                                                        *)

SessionStart == [ptype |-> "SESSIONSTART", ctr |-> 0, id |-> 0]
End          == [ptype |-> "END", ctr |-> 0, id |-> 0]
Ack(c)       == [ptype |-> "ACK", ctr |-> c, id |-> 0]
Data(c, i)   == [ptype |-> "DATA", ctr |-> c, id |-> i]

FromPeer(t, c, recs) == [ptype |-> t, ctr |-> c, recs |-> recs]

\* Bytes of a DATA payload of the device.  Its counters have a scale of their
\* own: one unit a record, since all that matters is that they advance.
PayloadLen(recs) == Len(recs)

\* rawSender.Send: it fails once the descriptor is closed, and may fail
\* at any time when the interface is down.
SendOk(m) == sender = "open" /\ toPeer' = toPeer \cup {m}
SendErr   == (sender # "open" \/ "sendErr" \in Events) /\ UNCHANGED toPeer

\* A send whose error the caller ignores.
SendBestEffort(m) == SendOk(m) \/ SendErr

\* The locals of a call that has not yet been given a counter.
NewJob(kind, plen) ==
  [kind |-> kind, id |-> 0, seq |-> 0, plen |-> plen, attempt |-> 0]
NoJob == NewJob("none", 0)

Init ==
  /\ pc = [p \in Procs |-> IF p = "open" THEN "sockets"
                           ELSE IF p \in {"rx", "ka", "rd"} THEN "off"
                           ELSE "idle"]
  /\ job = [t \in Senders |-> NoJob]
  /\ calls = [t \in Writers |-> 0]
  /\ dataMu = NoProc
  /\ out = 0
  /\ inc = NothingSeen
  /\ ackCh = << >> /\ controlCh = << >>
  /\ terminalMode = FALSE
  /\ cancelled = FALSE
  /\ closedBy = NoProc
  /\ conn = "none" /\ sender = "none"
  /\ pipeClosed = FALSE
  /\ rxRecs = << >>
  /\ ticks = 0
  /\ readLog = << >>
  /\ sent = << >> /\ confirmed = {}
  /\ toPeer = {} /\ toUs = {}
  /\ peerState = "listening" /\ peerInc = NothingSeen /\ peerGot = << >>
  /\ peerOut = PeerStart /\ peerPos = 0

----------------------------------------------------------------------------
(* sendDataAndWaitAck: called by the handshake, by Write and by Resize.    *)

Call(t, kind, plen) ==
  /\ job' = [job EXCEPT ![t] = NewJob(kind, plen)]
  /\ Goto(t, "lock")

\* Where the caller continues when sendDataAndWaitAck returns.
AfterSend(t, ok) ==
  IF t \in Writers THEN "idle"
  ELSE IF ~ok THEN "cas"
  ELSE IF job[t].kind = "init" THEN "salt"
  ELSE "endauth"

Return(t, ok) ==
  /\ dataMu' = NoProc
  /\ job' = [job EXCEPT ![t] = NoJob]
  /\ confirmed' = IF ok THEN confirmed \cup {job[t].id} ELSE confirmed
  /\ Goto(t, AfterSend(t, ok))

\* Mutant: the callers are not serialised.
DataMuIgnored == TRUE

DataMuFree == dataMu = NoProc

\* Take dataMu, drain ackCh, reserve the counter range of the payload.
\* Nobody else receives from ackCh or changes `out` while dataMu is held,
\* so the three are one step.
LockAndReserve(t) ==
  /\ pc[t] = "lock"
  /\ DataMuFree
  /\ out + job[t].plen <= MaxOut
  /\ dataMu' = t
  /\ ackCh' = << >>
  /\ sent' = Append(sent, [kind |-> job[t].kind, seq |-> out,
                           plen |-> job[t].plen])
  /\ job' = [job EXCEPT ![t] = [kind |-> @.kind, id |-> Len(sent) + 1,
                                seq |-> out, plen |-> @.plen, attempt |-> 0]]
  /\ out' = reserveOut(out, job[t].plen)
  /\ Goto(t, "xmit")
  /\ UNCHANGED <<calls, confirmed, controlCh, downVars, rxVars, netVars,
                 terminalMode, ticks, peerVars>>

SendUnchanged == UNCHANGED <<calls, out, sent, controlCh, downVars, rxVars,
                             toUs, terminalMode, ticks, peerVars>>

\* The first transmission.
Xmit(t) ==
  /\ pc[t] = "xmit"
  /\ \/ /\ SendOk(Data(job[t].seq, job[t].id))
        /\ Goto(t, "wait")
        /\ UNCHANGED <<job, dataMu, confirmed>>
     \/ SendErr /\ Return(t, FALSE)
  /\ UNCHANGED ackCh
  /\ SendUnchanged

wantAck(t) == ackCounterFor(job[t].seq, job[t].plen)

\* waitForAck takes an ACK: the wanted one ends the wait, others are ignored.
RecvAck(t) ==
  /\ pc[t] = "wait"
  /\ ackCh # << >>
  /\ ackCh' = Tail(ackCh)
  /\ IF Head(ackCh) = wantAck(t)
     THEN Return(t, TRUE)
     ELSE UNCHANGED <<pc, job, dataMu, confirmed>>
  /\ UNCHANGED toPeer
  /\ SendUnchanged

WaitCancelled(t) ==
  /\ pc[t] = "wait"
  /\ cancelled
  /\ Return(t, FALSE)
  /\ UNCHANGED <<ackCh, toPeer>>
  /\ SendUnchanged

\* Mutant: the deadline is looked at only when an ACK has arrived.
AckTimeoutOnAck(t) ==
  /\ pc[t] = "wait" /\ ackCh # << >>
  /\ Goto(t, "rexmit")
  /\ UNCHANGED <<job, dataMu, confirmed, ackCh, toPeer>>
  /\ SendUnchanged

\* The interval of this attempt ends, whatever lies in ackCh.
AckTimeout(t) ==
  /\ pc[t] = "wait"
  /\ Goto(t, "rexmit")
  /\ UNCHANGED <<job, dataMu, confirmed, ackCh, toPeer>>
  /\ SendUnchanged

\* len(schedule)
Schedule == IF terminalMode THEN DataAttempts ELSE AuthAttempts

NextAttempt(j) == [kind |-> j.kind, id |-> j.id, seq |-> j.seq,
                   plen |-> j.plen, attempt |-> j.attempt + 1]

\* Mutant: every transmission takes a counter of its own.
RexmitFresh(t) ==
  /\ pc[t] = "rexmit"
  /\ job[t].attempt + 1 < Schedule
  /\ out + job[t].plen <= MaxOut
  /\ SendOk(Data(out, job[t].id))
  /\ job' = [job EXCEPT ![t].attempt = @ + 1, ![t].seq = out]
  /\ out' = reserveOut(out, job[t].plen)
  /\ Goto(t, "wait")
  /\ UNCHANGED <<dataMu, confirmed, ackCh, calls, sent, controlCh, downVars,
                 rxVars, toUs, terminalMode, ticks, peerVars>>

\* Retransmit; the transmission after the last interval is not waited for.
Rexmit(t) ==
  /\ pc[t] = "rexmit"
  /\ \/ /\ SendOk(Data(job[t].seq, job[t].id))
        /\ IF job[t].attempt + 1 < Schedule
           THEN /\ job' = [job EXCEPT ![t] = NextAttempt(@)]
                /\ Goto(t, "wait")
                /\ UNCHANGED <<dataMu, confirmed>>
           ELSE Return(t, FALSE)
     \/ SendErr /\ Return(t, FALSE)
  /\ UNCHANGED ackCh
  /\ SendUnchanged

----------------------------------------------------------------------------
(* Write and Resize.                                                       *)

Opened == pc["open"] = "ok"

CallerUnchanged == UNCHANGED <<dataMu, out, sent, confirmed, chanVars,
                               downVars, rxVars, netVars, terminalMode,
                               ticks, peerVars>>

\* Write's early returns: closed, nothing to send, or too much.  The limit
\* allows for a record header although PLAINDATA is sent without one.
WriteRefused(n) == closed \/ n = 0 \/ n + CpHeaderLen > MaxPayload

Write(t, n) ==
  /\ Opened /\ pc[t] = "idle" /\ calls[t] < MaxCalls
  /\ calls' = [calls EXCEPT ![t] = @ + 1]
  /\ IF WriteRefused(n)
     THEN UNCHANGED <<pc, job>>
     ELSE Call(t, "write", n)
  /\ CallerUnchanged

\* Two records of a uint16 each.
Resize(t) ==
  /\ Opened /\ pc[t] = "idle" /\ calls[t] < MaxCalls
  /\ calls' = [calls EXCEPT ![t] = @ + 1]
  /\ IF closed
     THEN UNCHANGED <<pc, job>>
     ELSE Call(t, "resize", 2 * (CpHeaderLen + 2))
  /\ CallerUnchanged

----------------------------------------------------------------------------
(* Open and the handshake.                                                 *)

\* Both sockets and the receive loop, or an error that leaves none open.
OpenSockets ==
  /\ pc["open"] = "sockets"
  /\ \/ /\ conn' = "open" /\ sender' = "open"
        /\ pc' = [pc EXCEPT !["open"] = "hello", !["rx"] = "top"]
     \/ Goto("open", "ret") /\ UNCHANGED <<conn, sender>>
  /\ UNCHANGED <<callerVars, chanVars, cancelled, closedBy, pipeClosed,
                 rxVars, netVars, terminalMode, ticks, peerVars>>

HandshakeUnchanged == UNCHANGED <<calls, dataMu, out, sent, confirmed, ackCh,
                                  downVars, rxVars, toUs, ticks, peerVars>>

\* SESSIONSTART and on to the auth-init payload, unless the send, the EC-SRP
\* key generation or buildAuthInit fails.
sendSessionStart ==
  /\ pc["open"] = "hello"
  /\ \/ SendOk(SessionStart) /\ Call("open", "init", AuthLen)
     \/ SendBestEffort(SessionStart) /\ Goto("open", "cas") /\ UNCHANGED job
  /\ HandshakeUnchanged
  /\ UNCHANGED <<controlCh, terminalMode>>

md5SaltLen   == 16
ecsrpSaltLen == 49

\* What follows a PASSSALT: an unknown length fails the handshake, and so may
\* docrypto on the device's key or buildAuthFinish on a long user name.
AfterSalt(len) ==
  \/ len \in {md5SaltLen, ecsrpSaltLen} /\ Call("open", "finish", AuthLen)
  \/ Goto("open", "cas") /\ UNCHANGED job

AwaitSalt ==
  /\ pc["open"] = "salt"
  /\ controlCh # << >>
  /\ controlCh' = Tail(controlCh)
  /\ IF Head(controlCh).cp = PassSalt
     THEN AfterSalt(Head(controlCh).body)
     ELSE UNCHANGED <<pc, job>>
  /\ HandshakeUnchanged
  /\ UNCHANGED <<terminalMode, toPeer>>

AwaitEndAuth ==
  /\ pc["open"] = "endauth"
  /\ controlCh # << >>
  /\ controlCh' = Tail(controlCh)
  /\ IF Head(controlCh).cp = EndAuth
     THEN Goto("open", "flip")
     ELSE UNCHANGED pc
  /\ HandshakeUnchanged
  /\ UNCHANGED <<job, terminalMode, toPeer>>

\* Mutant: the error of awaitControl is not looked at.
HandshakeTimeoutIgnored ==
  /\ pc["open"] \in {"salt", "endauth"}
  /\ IF pc["open"] = "salt" THEN Call("open", "finish", AuthLen)
     ELSE Goto("open", "flip") /\ UNCHANGED job
  /\ HandshakeUnchanged
  /\ UNCHANGED <<controlCh, terminalMode, toPeer>>

\* Mutant: awaitControl watches only the session's context.
HandshakeNoTimeout ==
  /\ pc["open"] \in {"salt", "endauth"} /\ cancelled
  /\ Goto("open", "cas")
  /\ HandshakeUnchanged
  /\ UNCHANGED <<job, controlCh, terminalMode, toPeer>>

\* authPhaseTimeout or the session's context ends awaitControl.
HandshakeTimeout ==
  /\ pc["open"] \in {"salt", "endauth"}
  /\ Goto("open", "cas")
  /\ HandshakeUnchanged
  /\ UNCHANGED <<job, controlCh, terminalMode, toPeer>>

\* terminalMode.Store(true); Open starts keepaliveLoop and returns.
EnterTerminalMode ==
  /\ pc["open"] = "flip"
  /\ terminalMode' = TRUE
  /\ pc' = [pc EXCEPT !["open"] = "ok", !["ka"] = "run", !["rd"] = "read"]
  /\ HandshakeUnchanged
  /\ UNCHANGED <<job, controlCh, toPeer>>

----------------------------------------------------------------------------
(* Close and fail: whoever swaps `closed` from false to true releases the  *)
(* resources, one call after the other.  Close also sends END first and    *)
(* waits for the receive loop; fail runs on the receive loop itself.       *)

DownUnchanged == UNCHANGED <<callerVars, chanVars, rxVars, toUs,
                             terminalMode, ticks, peerVars>>

Close(c) ==
  /\ Opened /\ pc[c] = "idle"
  /\ Goto(c, "cas")
  /\ DownUnchanged /\ UNCHANGED <<downVars, toPeer>>

\* Mutant: `closed` is set without looking at its old value.
SwapAlways(p, won, lost) ==
  /\ closedBy' = p
  /\ Goto(p, won)

\* closed.CompareAndSwap(false, true)
SwapClosed(p, won, lost) ==
  IF closed
  THEN Goto(p, lost) /\ UNCHANGED closedBy
  ELSE closedBy' = p /\ Goto(p, won)

CloseSwap(p) ==
  /\ p # "rx" /\ pc[p] = "cas"
  /\ SwapClosed(p, "end", "ret")
  /\ DownUnchanged
  /\ UNCHANGED <<cancelled, conn, sender, pipeClosed, toPeer>>

FailSwap ==
  /\ pc["rx"] = "fail"
  /\ SwapClosed("rx", "cancel", "exit")
  /\ DownUnchanged
  /\ UNCHANGED <<cancelled, conn, sender, pipeClosed, toPeer>>

SendEnd(p) ==
  /\ pc[p] = "end"
  /\ SendBestEffort(End)
  /\ Goto(p, "cancel")
  /\ DownUnchanged /\ UNCHANGED downVars

Cancel(p) ==
  /\ pc[p] = "cancel"
  /\ cancelled' = TRUE
  /\ Goto(p, "conn")
  /\ DownUnchanged
  /\ UNCHANGED <<closedBy, conn, sender, pipeClosed, toPeer>>

CloseConn(p) ==
  /\ pc[p] = "conn"
  /\ conn' = "closed"
  /\ Goto(p, "sender")
  /\ DownUnchanged
  /\ UNCHANGED <<cancelled, closedBy, sender, pipeClosed, toPeer>>

CloseSender(p) ==
  /\ pc[p] = "sender"
  /\ sender' = "closed"
  /\ Goto(p, "pipe")
  /\ DownUnchanged
  /\ UNCHANGED <<cancelled, closedBy, conn, pipeClosed, toPeer>>

\* Mutant: the pipe stays open until the receive loop closes it.
ClosePipeLate(p) ==
  /\ pc[p] = "pipe"
  /\ Goto(p, IF p = "rx" THEN "exit" ELSE "join")
  /\ DownUnchanged
  /\ UNCHANGED <<downVars, toPeer>>

\* Either end of an io.Pipe unblocks both sides.
ClosePipe(p) ==
  /\ pc[p] = "pipe"
  /\ pipeClosed' = TRUE
  /\ Goto(p, IF p = "rx" THEN "exit" ELSE "join")
  /\ DownUnchanged
  /\ UNCHANGED <<cancelled, closedBy, conn, sender, toPeer>>

\* Mutant: Close does not wait for the receive loop.
JoinNobody(p) ==
  /\ pc[p] = "join"
  /\ Goto(p, "ret")
  /\ DownUnchanged /\ UNCHANGED <<downVars, toPeer>>

\* <-s.done
Join(p) ==
  /\ pc[p] = "join"
  /\ pc["rx"] = "done"
  /\ Goto(p, "ret")
  /\ DownUnchanged /\ UNCHANGED <<downVars, toPeer>>

\* The context given to Open is cancelled: s.ctx is done, nothing is closed.
ParentCancel ==
  /\ "cancel" \in Events
  /\ conn # "none"        \* s.ctx exists
  /\ ~cancelled
  /\ cancelled' = TRUE
  /\ UNCHANGED pc
  /\ DownUnchanged
  /\ UNCHANGED <<closedBy, conn, sender, pipeClosed, toPeer>>

----------------------------------------------------------------------------
(* rxLoop.                                                                 *)

RxUnchanged == UNCHANGED <<callerVars, toUs, terminalMode, ticks, peerVars>>

\* Mutant: the loop does not read on while ackCh is full.
RxCheckBackpressure ==
  /\ pc["rx"] = "top"
  /\ Goto("rx", IF cancelled THEN "exit"
                ELSE IF Len(ackCh) = AckCap THEN "top" ELSE "read")
  /\ RxUnchanged /\ UNCHANGED <<chanVars, downVars, rxVars, toPeer>>

\* The look at s.ctx at the top of the loop.
RxCheck ==
  /\ pc["rx"] = "top"
  /\ Goto("rx", IF cancelled THEN "exit" ELSE "read")
  /\ RxUnchanged /\ UNCHANGED <<chanVars, downVars, rxVars, toPeer>>

\* The 500 ms deadline passes (closing an AF_PACKET socket does not end the
\* Read before it does), or the datagram is short, has a bad header, another
\* session's key or a type the loop does not handle.
RxNothing ==
  /\ pc["rx"] = "read"
  /\ Goto("rx", "top")
  /\ RxUnchanged /\ UNCHANGED <<chanVars, downVars, rxVars, toPeer>>

RxSocketClosed ==
  /\ pc["rx"] = "read" /\ conn # "open"
  /\ Goto("rx", "exit")
  /\ RxUnchanged /\ UNCHANGED <<chanVars, downVars, rxVars, toPeer>>

RxSocketError ==
  /\ pc["rx"] = "read" /\ conn = "open" /\ "readErr" \in Events
  /\ Goto("rx", "fail")
  /\ RxUnchanged /\ UNCHANGED <<chanVars, downVars, rxVars, toPeer>>

Receives(m) == pc["rx"] = "read" /\ conn = "open" /\ m \in toUs

\* Mutant: ackCh grows without limit.
RxAckUnbounded(m) ==
  /\ Receives(m) /\ m.ptype = "ACK"
  /\ ackCh' = Append(ackCh, m.ctr)
  /\ Goto("rx", "top")
  /\ RxUnchanged /\ UNCHANGED <<controlCh, downVars, rxVars, toPeer>>

\* An ACK is dropped when ackCh is full.
RxAck(m) ==
  /\ Receives(m) /\ m.ptype = "ACK"
  /\ ackCh' = IF Len(ackCh) < AckCap THEN Append(ackCh, m.ctr) ELSE ackCh
  /\ Goto("rx", "top")
  /\ RxUnchanged /\ UNCHANGED <<controlCh, downVars, rxVars, toPeer>>

\* Mutant: duplicates are acknowledged and dispatched again.
RxDataTwice(m) ==
  /\ Receives(m) /\ m.ptype = "DATA"
  /\ SendBestEffort(Ack(ackCounterFor(m.ctr, PayloadLen(m.recs))))
  /\ inc' = markIncoming(inc, m.ctr)
  /\ rxRecs' = m.recs /\ Goto("rx", "dispatch")
  /\ RxUnchanged /\ UNCHANGED <<chanVars, downVars, readLog>>

\* processInboundData: acknowledge whatever it is, then drop duplicates.
RxData(m) ==
  /\ Receives(m) /\ m.ptype = "DATA"
  /\ SendBestEffort(Ack(ackCounterFor(m.ctr, PayloadLen(m.recs))))
  /\ inc' = markIncoming(inc, m.ctr)
  /\ IF acceptIncoming(inc, m.ctr) /\ m.recs # << >>
     THEN rxRecs' = m.recs /\ Goto("rx", "dispatch")
     ELSE UNCHANGED rxRecs /\ Goto("rx", "top")
  /\ RxUnchanged /\ UNCHANGED <<chanVars, downVars, readLog>>

RxEnd(m) ==
  /\ Receives(m) /\ m.ptype = "END"
  /\ Goto("rx", "fail")
  /\ RxUnchanged /\ UNCHANGED <<chanVars, downVars, rxVars, toPeer>>

\* The callback of iterateControl returns true: on to the next record.
NextRecord ==
  /\ rxRecs' = Tail(rxRecs)
  /\ Goto("rx", IF Len(rxRecs) = 1 THEN "top" ELSE "dispatch")

\* PLAINDATA: dropped before terminal mode, else written to the pipe.
DispatchPlain ==
  /\ pc["rx"] = "dispatch" /\ Head(rxRecs).cp = PlainData
  /\ IF terminalMode
     THEN Goto("rx", "write") /\ UNCHANGED rxRecs
     ELSE NextRecord
  /\ RxUnchanged /\ UNCHANGED <<chanVars, downVars, inc, readLog, toPeer>>

\* Other records wait for room in controlCh or for the end of the session.
DispatchControl ==
  /\ pc["rx"] = "dispatch" /\ Head(rxRecs).cp # PlainData
  /\ \/ /\ Len(controlCh) < CtlCap
        /\ controlCh' = Append(controlCh, Head(rxRecs))
        /\ NextRecord
     \/ /\ cancelled
        /\ rxRecs' = << >> /\ Goto("rx", "top")
        /\ UNCHANGED controlCh
  /\ RxUnchanged /\ UNCHANGED <<ackCh, downVars, inc, readLog, toPeer>>

\* rxPipeW.Write on a closed pipe: the error is ignored.
WriteBrokenPipe ==
  /\ pc["rx"] = "write" /\ pipeClosed
  /\ NextRecord
  /\ RxUnchanged /\ UNCHANGED <<chanVars, downVars, inc, readLog, toPeer>>

\* Session.Read meets the blocked pipe write.
Read ==
  /\ pc["rd"] = "read" /\ pc["rx"] = "write" /\ ~pipeClosed
  /\ readLog' = Append(readLog, Head(rxRecs).body)
  /\ NextRecord
  /\ RxUnchanged /\ UNCHANGED <<chanVars, downVars, inc, toPeer>>

ReadEOF ==
  /\ pc["rd"] = "read" /\ pipeClosed
  /\ Goto("rd", "eof")
  /\ RxUnchanged /\ UNCHANGED <<chanVars, downVars, rxVars, toPeer>>

\* Mutant: the loop returns without closing its end of the pipe.
RxExitPipeOpen ==
  /\ pc["rx"] = "exit"
  /\ Goto("rx", "done")
  /\ RxUnchanged /\ UNCHANGED <<chanVars, downVars, rxVars, toPeer>>

\* The deferred calls: rxPipeW.Close(), close(s.done).
RxExit ==
  /\ pc["rx"] = "exit"
  /\ pipeClosed' = TRUE
  /\ Goto("rx", "done")
  /\ RxUnchanged
  /\ UNCHANGED <<chanVars, cancelled, closedBy, conn, sender, rxVars, toPeer>>

----------------------------------------------------------------------------
(* keepaliveLoop.                                                          *)

KaUnchanged == UNCHANGED <<callerVars, chanVars, downVars, rxVars, toUs,
                           terminalMode, peerVars>>

\* `out` is read without a lock: an ACK at the counter reserved last, which
\* may belong to a payload still waiting for its own ACK.
KeepaliveTick ==
  /\ pc["ka"] = "run" /\ ~closed /\ ticks < MaxTicks
  /\ SendBestEffort(Ack(out))
  /\ ticks' = ticks + 1
  /\ KaUnchanged /\ UNCHANGED pc

KeepaliveStop ==
  /\ pc["ka"] = "run" /\ (cancelled \/ closed)
  /\ Goto("ka", "done")
  /\ KaUnchanged /\ UNCHANGED <<ticks, toPeer>>

----------------------------------------------------------------------------
(* The device.  It is outside the repository: stop-and-wait in both        *)
(* directions as seq.go describes, its packets those the handshake expects. *)
(* A packet is what iterateControl makes of it: framed records, then at    *)
(* most one PLAINDATA record, the unframed rest.                           *)

PeerUnchanged == UNCHANGED <<pc, callerVars, chanVars, downVars, rxVars,
                             toPeer, terminalMode, ticks>>

PeerHello ==
  /\ peerState = "listening" /\ SessionStart \in toPeer
  /\ peerState' = "up"
  /\ PeerUnchanged
  /\ UNCHANGED <<toUs, peerInc, peerGot, peerOut, peerPos>>

PeerData(m) ==
  /\ peerState = "up" /\ m \in toPeer /\ m.ptype = "DATA"
  /\ toUs' = toUs \cup
       {FromPeer("ACK", ackCounterFor(m.ctr, sent[m.id].plen), << >>)}
  /\ peerInc' = markIncoming(peerInc, m.ctr)
  /\ peerGot' = IF acceptIncoming(peerInc, m.ctr)
                THEN Append(peerGot, m.id) ELSE peerGot
  /\ PeerUnchanged /\ UNCHANGED <<peerState, peerOut, peerPos>>

PeerHas(kind) == \E k \in 1 .. Len(peerGot) : sent[peerGot[k]].kind = kind

\* The device's packets in order: PASSSALT, END_AUTH, then the script.
PeerPayloads ==
  CASE peerPos = 0 -> {<<[cp |-> PassSalt, body |-> n]>> : n \in SaltLens}
    [] peerPos = 1 -> {EndAuthRecs}
    [] OTHER        -> {Script[peerPos - 1]}

PeerReady ==
  /\ peerPos < Len(Script) + 2
  /\ peerPos > 0 => Ack(peerOut) \in toPeer   \* the previous one is ACKed
  /\ peerPos = 0 => PeerHas("init")
  /\ peerPos = 1 => PeerHas("finish")

PeerSend ==
  /\ peerState = "up" /\ PeerReady
  /\ \E recs \in PeerPayloads :
       /\ toUs' = toUs \cup {FromPeer("DATA", peerOut, recs)}
       /\ peerOut' = reserveOut(peerOut, PayloadLen(recs))
  /\ peerPos' = peerPos + 1
  /\ PeerUnchanged /\ UNCHANGED <<peerState, peerInc, peerGot>>

\* A device that answers the anti-timeout packet echoes its counter: no part
\* of Next, see AnsweringSpec.
PeerAnswerKeepalive(m) ==
  /\ peerState = "up" /\ m \in toPeer /\ m.ptype = "ACK"
  /\ toUs' = toUs \cup {FromPeer("ACK", m.ctr, << >>)}
  /\ PeerUnchanged /\ UNCHANGED peerVars

\* The device ends the session, or learns that the client did.
PeerEnd ==
  /\ peerState = "up"
  /\ \/ "peerEnd" \in Events /\ toUs' = toUs \cup {FromPeer("END", 0, << >>)}
     \/ End \in toPeer /\ UNCHANGED toUs
  /\ peerState' = "ended"
  /\ PeerUnchanged /\ UNCHANGED <<peerInc, peerGot, peerOut, peerPos>>

----------------------------------------------------------------------------
(* The specification.                                                      *)

SendStep(t) ==
  \/ LockAndReserve(t) \/ Xmit(t) \/ RecvAck(t) \/ WaitCancelled(t)
  \/ AckTimeout(t) \/ Rexmit(t)

OpenStep ==
  \/ OpenSockets \/ sendSessionStart \/ AwaitSalt \/ AwaitEndAuth
  \/ HandshakeTimeout \/ EnterTerminalMode

DownStep(p) ==
  \/ CloseSwap(p) \/ SendEnd(p) \/ Cancel(p) \/ CloseConn(p)
  \/ CloseSender(p) \/ ClosePipe(p) \/ Join(p)

RxStep ==
  \/ RxCheck \/ RxNothing \/ RxSocketClosed \/ RxSocketError
  \/ \E m \in toUs : RxAck(m) \/ RxData(m) \/ RxEnd(m)
  \/ DispatchPlain \/ DispatchControl \/ WriteBrokenPipe
  \/ FailSwap \/ RxExit

ReadStep == Read \/ ReadEOF

KaStep == KeepaliveTick \/ KeepaliveStop

PeerStep ==
  \/ PeerHello \/ PeerSend \/ PeerEnd
  \/ \E m \in toPeer : PeerData(m)

\* Every goroutine has returned or waits for a caller that never comes.
Quiescent ==
  /\ pc["open"] \in {"ok", "ret"}
  /\ pc["rx"] \in {"off", "done"}
  /\ pc["ka"] \in {"off", "done"}
  /\ pc["rd"] \in {"off", "eof"}
  /\ \A t \in Writers : pc[t] = "idle"
  /\ \A c \in Closers : pc[c] \in {"idle", "ret"}

Finished == Quiescent /\ UNCHANGED vars

Next ==
  \/ \E t \in Senders : SendStep(t)
  \/ \E t \in Writers : Resize(t) \/ \E n \in 0 .. MaxPayload : Write(t, n)
  \/ OpenStep
  \/ \E c \in Closers : Close(c)
  \/ \E p \in Teardown : DownStep(p)
  \/ ParentCancel
  \/ RxStep \/ ReadStep \/ KaStep
  \/ PeerStep
  \/ Finished

Spec == Init /\ [][Next]_vars

\* The same session with a device that answers keepalives.
AnsweringNext == Next \/ \E m \in toPeer : PeerAnswerKeepalive(m)
AnsweringSpec == Init /\ [][AnsweringNext]_vars

(***************************************************************************)
(* The Go scheduler runs every goroutine that can run, a mutex is handed   *)
(* on (sync.Mutex has a starvation mode), and timers fire.  Nothing is     *)
(* assumed of the link or of the device, and nobody has to call Write,     *)
(* Resize, Close or Read.                                                  *)
(***************************************************************************)
Fairness ==
  /\ \A t \in Senders :
       WF_vars(LockAndReserve(t) \/ Xmit(t) \/ AckTimeout(t) \/ Rexmit(t))
  /\ WF_vars(OpenSockets \/ sendSessionStart \/ HandshakeTimeout
             \/ EnterTerminalMode)
  /\ \A p \in Teardown : WF_vars(DownStep(p))
  /\ WF_vars(RxStep)
  /\ WF_vars(KeepaliveStop)

FairSpec == Spec /\ Fairness

----------------------------------------------------------------------------
(* Properties.                                                             *)

ToPeerMsg == [ptype : {"SESSIONSTART", "DATA", "ACK", "END"},
              ctr : Counter, id : Nat]
ToUsMsg   == [ptype : {"DATA", "ACK", "END"}, ctr : Counter,
              recs : Seq(Record)]
Job       == [kind : {"none", "init", "finish", "write", "resize"},
              id : Nat, seq : Counter, plen : Nat, attempt : Nat]
Payload   == [kind : {"init", "finish", "write", "resize"},
              seq : Counter, plen : Nat \ {0}]

SendLabels == {"lock", "xmit", "wait", "rexmit"}
DownLabels == {"end", "cancel", "conn", "sender", "pipe"}
Labels == SendLabels \cup DownLabels \cup
  {"off", "idle", "sockets", "hello", "salt", "endauth", "flip", "ok", "ret",
   "cas", "join", "top", "read", "dispatch", "write", "fail", "exit", "done",
   "run", "eof"}

\* Every variable has the type its declaration gives it: the counters stay
\* inside uint32 and the two channels inside their capacities.
TypeOK ==
  /\ pc \in [Procs -> Labels]
  /\ job \in [Senders -> Job]
  /\ calls \in [Writers -> Nat]
  /\ dataMu \in Senders \cup {NoProc}
  /\ out \in Counter
  /\ inc \in InCounters
  /\ ackCh \in Seq(Counter) /\ Len(ackCh) <= AckCap
  /\ controlCh \in Seq(Record) /\ Len(controlCh) <= CtlCap
  /\ terminalMode \in BOOLEAN
  /\ cancelled \in BOOLEAN
  /\ closedBy \in Teardown \cup {NoProc}
  /\ conn \in {"none", "open", "closed"}
  /\ sender \in {"none", "open", "closed"}
  /\ pipeClosed \in BOOLEAN
  /\ rxRecs \in Seq(Record)
  /\ ticks \in Nat
  /\ readLog \in Seq(Nat)
  /\ sent \in Seq(Payload)
  /\ confirmed \subseteq Nat
  /\ toPeer \subseteq ToPeerMsg
  /\ toUs \subseteq ToUsMsg
  /\ peerState \in {"listening", "up", "ended"}
  /\ peerInc \in InCounters
  /\ peerGot \in Seq(Nat)
  /\ peerOut \in Counter
  /\ peerPos \in Nat

\* Write's promise ("returns once the bytes are confirmed received"): a
\* payload whose sendDataAndWaitAck returned nil was taken by the device, not
\* merely acknowledged as a duplicate of something else.
ConfirmedDelivered ==
  \A i \in confirmed : \E k \in 1 .. Len(peerGot) : peerGot[k] = i

\* However packets are lost, repeated and reordered, the device takes each
\* payload at most once and in the order the callers got dataMu.
PeerStreamInOrder ==
  \A j, k \in 1 .. Len(peerGot) : j < k => peerGot[j] < peerGot[k]

\* The abstract stream: dataMu is what makes a payload the pending one.
WriteStream == INSTANCE Stream WITH
  submitted <- Len(sent),
  pending   <- IF dataMu = NoProc THEN 0 ELSE Len(sent),
  taken     <- peerGot

\* The session implements the abstract stream: however packets are lost,
\* repeated and reordered and whichever timer fires, every step of goroutines,
\* link and device is a step of what Write promises, or none.
ImplementsStream == WriteStream!StreamSpec

\* What Read hands out is a contiguous stretch of the device's terminal
\* stream: nothing twice, nothing out of order and no hole, in spite of
\* duplicates and of the session ending between two records.
DeliveredContiguous ==
  \A k \in 1 .. Len(readLog) - 1 : readLog[k + 1] = readLog[k] + 1

\* Open hands out a session only if the device took both handshake payloads
\* and sent an END_AUTH: no stale or foreign record can stand in for it.
OpenedMeansAuthenticated ==
  Opened => /\ PeerHas("init") /\ PeerHas("finish")
            /\ peerPos >= 2

\* Only the winner of the swap releases the resources, so the send socket's
\* raw descriptor is closed at most once and never while it is not open.
SocketClosedOnce ==
  /\ \A p, q \in Teardown :
       pc[p] \in DownLabels /\ pc[q] \in DownLabels => p = q
  /\ \A p \in Teardown :
       pc[p] \in {"end", "cancel", "conn", "sender"} => sender = "open"

Released == conn = "closed" /\ sender = "closed" /\ pipeClosed

\* A Close, or an Open that failed after it had opened the sockets, returns
\* with everything released, and if it won the swap with the receive loop
\* ended; one that lost it may return before, but only while the winner is
\* still at work.  Nobody leaves the sockets to a goroutine that is gone.
CloseReleases ==
  \A p \in Closers \cup {"open"} :
    pc[p] = "ret" /\ sender # "none" =>
      IF closedBy = p THEN Released /\ pc["rx"] = "done"
      ELSE Released \/ \E q \in Teardown \ {p} :
                         closedBy = q /\ pc[q] \in DownLabels

\* "terminalMode flips to true after END_AUTH ... after, it's pumped to
\* rxPipeW": the first terminal data after END_AUTH is the first Read returns.
NothingLostAfterEndAuth ==
  readLog # << >> => readLog[1] = 1

\* Where the receive loop waits by design: at its socket, in a pipe write
\* nobody reads (backpressure), or before its start and after its end.
RxAtRest == pc["rx"] \in {"off", "read", "write", "done"}

\* "It runs from session start until ctx is canceled or the socket is
\* closed" (rxLoop): the receive loop comes back to its socket, unless the
\* caller does not read.
RxRunsUntilClosed == []<>RxAtRest

\* Blocked on a controlCh that nobody empties after the handshake.
RxWedged == Opened /\ pc["rx"] = "dispatch" /\ Len(controlCh) = CtlCap

\* That is the only other thing that can stop the receive loop for good: ACKs
\* nobody waits for cannot.
RxRuns == []<>(RxAtRest \/ RxWedged)

\* Every Write and Resize returns, whatever the device and the link do.
WriteReturns ==
  \A t \in Writers : pc[t] = "lock" ~> pc[t] = "idle"

\* Open returns, whatever the device and the link do.
OpenReturns == <>(pc["open"] \in {"ok", "ret"})

\* Every Close returns, even with the receive loop blocked on a reader that
\* went away or on a full control channel.
CloseReturns == \A c \in Closers : pc[c] = "cas" ~> pc[c] = "ret"

\* The receive and keepalive loops have ended and any Read returns.
AllDown == pc["rx"] = "done" /\ pc["ka"] \in {"off", "done"} /\ pipeClosed

\* Once the session is closed, by whoever, everything it started ends.  A
\* cancelled context does the same, except that it does not wake a receive
\* loop blocked in a pipe write: that takes a reader or a Close.
ShutdownCompletes ==
  /\ closed ~> AllDown
  /\ cancelled ~> (AllDown \/ pc["rx"] = "write")

=============================================================================

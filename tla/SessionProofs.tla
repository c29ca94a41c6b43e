---------------------------- MODULE SessionProofs ----------------------------
(***************************************************************************)
(* Proofs about Session: its type invariant, and that Open hands out only  *)
(* authenticated sessions and Close and fail release their resources once, *)
(* for every device script, every loss, repetition and reordering, and     *)
(* every number of writers and callers of Close.                           *)
(***************************************************************************)
EXTENDS Session, TLAPS

\* Whoever is inside sendDataAndWaitAck has a payload; once it holds a
\* counter range, its locals and the history agree.
JobInv ==
  /\ \A t \in Senders : pc[t] \in SendLabels =>
       job[t].kind # "none" /\ job[t].plen > 0
  /\ \A t \in Senders : pc[t] \in SendLabels \ {"lock"} =>
       /\ job[t].id \in 1 .. Len(sent)
       /\ job[t].seq = sent[job[t].id].seq
       /\ job[t].plen = sent[job[t].id].plen

\* A DATA packet on the link carries the counter its payload was given.
DataInv ==
  \A m \in toPeer : m.ptype = "DATA" =>
    m.id \in 1 .. Len(sent) /\ m.ctr = sent[m.id].seq

\* While it dispatches, the receive loop has a record in hand.
RxInv == pc["rx"] \in {"dispatch", "write"} => rxRecs # << >>

TypeInv == TypeOK /\ JobInv /\ DataInv /\ RxInv

----------------------------------------------------------------------------

\* The fixed goroutines are neither writers nor closers.
LEMMA ProcNames ==
  /\ \A w \in Writers : w \notin {"open", "rx", "ka", "rd", "none"}
  /\ \A c \in Closers : c \notin {"open", "rx", "ka", "rd", "none"}
  /\ \A w \in Writers : w \notin Closers
BY SessionAssumption DEF NoProc

\* The counter arithmetic of seq.go stays inside uint32.
LEMMA CounterClosed ==
  /\ Mod > 0
  /\ 0 \in Counter
  /\ \A a, b \in Nat : reserveOut(a, b) \in Counter
  /\ \A a, b \in Nat : ackCounterFor(a, b) \in Counter
BY SeqAssumption DEF Counter, reserveOut, ackCounterFor

\* The length of a payload is a natural number.
LEMMA PayloadLenNat ==
  ASSUME NEW recs \in Seq(Record)
  PROVE  PayloadLen(recs) \in Nat
BY DEF PayloadLen

\* acceptIncoming's mark is a pair of counters again.
LEMMA MarkTyped ==
  ASSUME NEW c \in InCounters, NEW s \in Counter
  PROVE  markIncoming(c, s) \in InCounters
BY DEF markIncoming, InCounters

LEMMA TypeInit == Init => TypeInv
<1> SUFFICES ASSUME Init PROVE TypeInv
  OBVIOUS
<1>1. TypeOK
  <2>1. /\ pc \in [Procs -> Labels]
        /\ job \in [Senders -> Job]
        /\ calls \in [Writers -> Nat]
    BY CounterClosed
       DEF Init, Procs, Senders, Labels, SendLabels, DownLabels, Job, NoJob,
           NewJob
  <2>2. inc \in InCounters /\ peerInc \in InCounters /\ peerGot \in Seq(Nat)
    BY CounterClosed DEF Init, InCounters, NothingSeen
  <2>3. /\ ackCh \in Seq(Counter) /\ Len(ackCh) <= AckCap
        /\ controlCh \in Seq(Record) /\ Len(controlCh) <= CtlCap
        /\ rxRecs \in Seq(Record)
        /\ readLog \in Seq(Nat)
        /\ sent \in Seq(Payload)
    BY SessionAssumption DEF Init
  <2> QED BY <2>1, <2>2, <2>3, CounterClosed, SessionAssumption
           DEF Init, TypeOK
<1>2. JobInv /\ DataInv /\ RxInv
  BY DEF Init, JobInv, DataInv, RxInv, Procs, Senders, SendLabels
<1> QED BY <1>1, <1>2 DEF TypeInv

\* The capacities of the two channels are positive.
LEMMA Capacities == AckCap \in Nat \ {0} /\ CtlCap \in Nat \ {0}
BY SessionAssumption

\* Receiving from a buffered channel keeps it within its capacity.
LEMMA TailBounded ==
  ASSUME NEW S, NEW q \in Seq(S), q # << >>, NEW n \in Nat, Len(q) <= n
  PROVE  Tail(q) \in Seq(S) /\ Len(Tail(q)) <= n
OBVIOUS

\* A goroutine moves to a label outside sendDataAndWaitAck and outside the
\* dispatch of records.
LEMMA MoveTyped ==
  ASSUME TypeInv, NEW p \in Procs,
         NEW l \in Labels \ (SendLabels \cup {"dispatch", "write"}),
         Goto(p, l), UNCHANGED <<job, sent>>,
         p = "rx" \/ UNCHANGED rxRecs
  PROVE  /\ pc' \in [Procs -> Labels]
         /\ JobInv' /\ RxInv'
<1> USE DEF TypeInv, TypeOK, Goto
<1>1. pc' \in [Procs -> Labels]
  OBVIOUS
<1>2. JobInv'
  BY DEF JobInv, Procs, Senders
<1>3. RxInv'
  BY DEF RxInv, Procs
<1> QED BY <1>1, <1>2, <1>3

\* A caller enters sendDataAndWaitAck.
LEMMA CallTyped ==
  ASSUME TypeInv, NEW t \in Senders, NEW plen \in Nat \ {0},
         NEW kind \in {"init", "finish", "write", "resize"},
         Call(t, kind, plen), UNCHANGED <<sent, rxRecs>>
  PROVE  /\ pc' \in [Procs -> Labels]
         /\ job' \in [Senders -> Job]
         /\ JobInv' /\ RxInv'
<1> USE CounterClosed, ProcNames DEF TypeInv, TypeOK, Call, Goto, Procs, Senders
<1>0. NewJob(kind, plen) \in Job
  BY DEF NewJob, Job
<1>1. pc' \in [Procs -> Labels] /\ job' \in [Senders -> Job]
  BY <1>0 DEF Labels, SendLabels
<1>2. JobInv'
  BY DEF JobInv, SendLabels, NewJob
<1>3. RxInv'
  BY DEF RxInv
<1> QED BY <1>1, <1>2, <1>3

\* A caller leaves sendDataAndWaitAck.
LEMMA ReturnTyped ==
  ASSUME TypeInv, NEW t \in Senders, NEW ok \in BOOLEAN,
         Return(t, ok), UNCHANGED <<sent, rxRecs>>
  PROVE  /\ pc' \in [Procs -> Labels]
         /\ job' \in [Senders -> Job]
         /\ dataMu' \in Senders \cup {NoProc}
         /\ confirmed' \subseteq Nat
         /\ JobInv' /\ RxInv'
<1> USE CounterClosed, ProcNames
    DEF TypeInv, TypeOK, Return, AfterSend, Goto, Procs, Senders
<1>1. pc' \in [Procs -> Labels]
  BY DEF Labels
<1>2. /\ job' \in [Senders -> Job]
      /\ dataMu' \in Senders \cup {NoProc}
      /\ confirmed' \subseteq Nat
  BY DEF Job, NoJob, NewJob
<1>3. JobInv'
  BY DEF JobInv, SendLabels
<1>4. RxInv'
  BY DEF RxInv
<1> QED BY <1>1, <1>2, <1>3, <1>4

LEMMA TypeSend ==
  ASSUME TypeInv, NEW t \in Senders, SendStep(t)
  PROVE  TypeInv'
<1> USE ProcNames DEF TypeInv
<1>p. t \in Procs /\ t # "rx"
  BY DEF Procs, Senders
<1>1. CASE LockAndReserve(t)
  <2>1. /\ job[t].plen \in Nat \ {0}
        /\ job[t].kind \in {"init", "finish", "write", "resize"}
        /\ out \in Nat /\ Len(sent) \in Nat
    <3>1. pc[t] \in SendLabels
      BY <1>1 DEF LockAndReserve, SendLabels
    <3>2. job[t].kind # "none" /\ job[t].plen > 0
      BY <3>1 DEF JobInv
    <3>3. job[t] \in Job
      BY DEF TypeOK
    <3>4. out \in Nat /\ Len(sent) \in Nat
      BY DEF TypeOK, Counter
    <3> QED BY <3>2, <3>3, <3>4 DEF Job
  <2> USE <1>1 DEF LockAndReserve, downVars, rxVars, netVars, peerVars,
                      Goto
  <2>2. job' \in [Senders -> Job] /\ out' \in Counter
    BY <2>1, CounterClosed, SMTT(30) DEF TypeOK, Job
  <2>3. sent' \in Seq(Payload) /\ Len(sent') = Len(sent) + 1
    BY <2>1 DEF TypeOK, Payload
  <2>4. ackCh' \in Seq(Counter) /\ Len(ackCh') <= AckCap
    BY SessionAssumption
  <2>5. pc' \in [Procs -> Labels] /\ dataMu' \in Senders \cup {NoProc}
    BY <1>p DEF TypeOK, Labels, SendLabels
  <2>6. TypeOK'
    BY <2>2, <2>3, <2>4, <2>5 DEF TypeOK
  <2>7. JobInv'
    <3> SUFFICES ASSUME NEW u \in Senders, pc'[u] \in SendLabels
                 PROVE  /\ job'[u].kind # "none" /\ job'[u].plen > 0
                        /\ pc'[u] # "lock" =>
                             /\ job'[u].id \in 1 .. Len(sent')
                             /\ job'[u].seq = sent'[job'[u].id].seq
                             /\ job'[u].plen = sent'[job'[u].id].plen
      BY DEF JobInv
    <3>1. CASE u = t
      BY <3>1, <2>1, <2>3, SMTT(30) DEF TypeOK, Job
    <3>2. CASE u # t
      BY <3>2, <1>p, <2>3 DEF TypeOK, JobInv, Job
    <3> QED BY <3>1, <3>2
  <2>8. DataInv' /\ RxInv'
    BY <1>p, <2>3 DEF TypeOK, DataInv, RxInv, Procs
  <2> QED BY <2>6, <2>7, <2>8
<1>2. ASSUME pc[t] \in {"xmit", "rexmit"}, SendOk(Data(job[t].seq, job[t].id)),
             UNCHANGED sent
      PROVE  toPeer' \subseteq ToPeerMsg /\ DataInv'
  <2>1. job[t] \in Job
    BY DEF TypeOK
  <2>2. Data(job[t].seq, job[t].id) \in ToPeerMsg
    BY <2>1 DEF Data, ToPeerMsg, Job
  <2>3. toPeer' \subseteq ToPeerMsg
    BY <1>2, <2>2 DEF TypeOK, SendOk
  <2>4. DataInv'
    BY <1>2, <2>1 DEF SendOk, Data, JobInv, DataInv, SendLabels
  <2> QED BY <2>3, <2>4
<1>3. CASE Xmit(t)
  <2> USE <1>3 DEF Xmit, SendUnchanged, downVars, rxVars, peerVars
  <2>1. CASE SendOk(Data(job[t].seq, job[t].id)) /\ Goto(t, "wait")
             /\ UNCHANGED <<job, dataMu, confirmed>>
    <3>1. pc' \in [Procs -> Labels] /\ JobInv' /\ RxInv'
      BY <2>1, <1>p DEF TypeOK, JobInv, RxInv, Goto, Labels, SendLabels, Procs
    <3> QED BY <2>1, <3>1, <1>2 DEF TypeOK
  <2>2. CASE SendErr /\ Return(t, FALSE)
    BY <2>2, ReturnTyped, ZenonT(30) DEF TypeOK, SendErr, DataInv
  <2> QED BY <2>1, <2>2
<1>4. CASE RecvAck(t)
  <2> USE <1>4 DEF RecvAck, SendUnchanged, downVars, rxVars, peerVars
  <2>1. ackCh' \in Seq(Counter) /\ Len(ackCh') <= AckCap
    BY Capacities, TailBounded DEF TypeOK
  <2>2. CASE Return(t, TRUE)
    BY <2>1, <2>2, ReturnTyped, ZenonT(30) DEF TypeOK, DataInv
  <2>3. CASE UNCHANGED <<pc, job, dataMu, confirmed>>
    BY <2>1, <2>3 DEF TypeOK, JobInv, DataInv, RxInv
  <2> QED BY <2>2, <2>3
<1>5. CASE WaitCancelled(t)
  BY <1>5, ReturnTyped, ZenonT(30)
     DEF WaitCancelled, SendUnchanged, downVars, rxVars, peerVars, TypeOK, DataInv
<1>6. CASE AckTimeout(t)
  <2> USE <1>6 DEF AckTimeout, SendUnchanged, downVars, rxVars, peerVars
  <2>1. pc' \in [Procs -> Labels] /\ JobInv' /\ RxInv'
    BY <1>p DEF TypeOK, JobInv, RxInv, Goto, Labels, SendLabels, Procs
  <2> QED BY <2>1 DEF TypeOK, DataInv
<1>7. CASE Rexmit(t)
  <2> USE <1>7 DEF Rexmit, SendUnchanged, downVars, rxVars, peerVars
  <2>1. CASE /\ SendOk(Data(job[t].seq, job[t].id))
             /\ job' = [job EXCEPT ![t] = NextAttempt(@)]
             /\ Goto(t, "wait")
             /\ UNCHANGED <<dataMu, confirmed>>
    <3>1. pc' \in [Procs -> Labels] /\ RxInv'
      BY <2>1, <1>p DEF TypeOK, RxInv, Goto, Labels, SendLabels, Procs
    <3>2. job' \in [Senders -> Job]
      BY <2>1, SMTT(30) DEF TypeOK, Job, NextAttempt
    <3>3. JobInv'
      BY <2>1, <1>p DEF TypeOK, JobInv, NextAttempt, Goto, SendLabels
    <3> QED BY <2>1, <3>1, <3>2, <3>3, <1>2 DEF TypeOK
  <2>2. CASE SendOk(Data(job[t].seq, job[t].id)) /\ Return(t, FALSE)
    BY <2>2, <1>2, ReturnTyped, ZenonT(30) DEF TypeOK
  <2>3. CASE SendErr /\ Return(t, FALSE)
    BY <2>3, ReturnTyped, ZenonT(30) DEF TypeOK, SendErr, DataInv
  <2> QED BY <2>1, <2>2, <2>3
<1> QED BY <1>1, <1>3, <1>4, <1>5, <1>6, <1>7 DEF SendStep

LEMMA TypeCallers ==
  ASSUME TypeInv, NEW t \in Writers,
         Resize(t) \/ \E n \in 0 .. MaxPayload : Write(t, n)
  PROVE  TypeInv'
<1> USE DEF TypeInv, CallerUnchanged, chanVars, downVars, rxVars, netVars,
            peerVars
<1>1. t \in Senders
  BY DEF Senders
<1>2. ASSUME calls' = [calls EXCEPT ![t] = @ + 1]
      PROVE  calls' \in [Writers -> Nat]
  BY <1>2 DEF TypeOK
<1>3. ASSUME NEW plen \in Nat \ {0}, NEW kind \in {"write", "resize"},
             calls' = [calls EXCEPT ![t] = @ + 1],
             Call(t, kind, plen), CallerUnchanged
      PROVE  TypeInv'
  BY <1>1, <1>2, <1>3, CallTyped, SMTT(30) DEF TypeOK, DataInv
<1>4. ASSUME calls' = [calls EXCEPT ![t] = @ + 1],
             UNCHANGED <<pc, job>>, CallerUnchanged
      PROVE  TypeInv'
  BY <1>2, <1>4 DEF TypeOK, JobInv, DataInv, RxInv
<1>5. CASE Resize(t)
  <2>1. 2 * (CpHeaderLen + 2) \in Nat \ {0}
    BY SessionAssumption
  <2> QED BY <1>5, <2>1, <1>3, <1>4 DEF Resize
<1>6. CASE \E n \in 0 .. MaxPayload : Write(t, n)
  <2>1. PICK n \in 0 .. MaxPayload : Write(t, n)
    BY <1>6
  <2>2. CASE WriteRefused(n)
    BY <2>1, <2>2, <1>4 DEF Write
  <2>3. CASE ~WriteRefused(n)
    <3>1. n \in Nat \ {0}
      BY <2>3, Capacities DEF WriteRefused
    <3> QED BY <2>1, <2>3, <3>1, <1>3 DEF Write
  <2> QED BY <2>2, <2>3
<1> QED BY <1>5, <1>6

LEMMA TypeOpen ==
  ASSUME TypeInv, OpenStep
  PROVE  TypeInv'
<1> USE DEF TypeInv, HandshakeUnchanged, downVars, rxVars, peerVars
<1>o. "open" \in Procs /\ "open" \in Senders /\ AuthLen \in Nat \ {0}
  BY SessionAssumption DEF Procs, Senders
<1>m. ASSUME NEW l \in {"ret", "cas", "flip"},
             Goto("open", l), UNCHANGED <<job, sent, rxRecs>>
      PROVE  pc' \in [Procs -> Labels] /\ JobInv' /\ RxInv'
  <2>1. l \in Labels \ (SendLabels \cup {"dispatch", "write"})
    BY DEF Labels, SendLabels
  <2> QED BY <1>m, <1>o, <2>1, MoveTyped
<1>l. {"hello", "ok", "run", "read", "top"} \subseteq Labels \ SendLabels
  BY DEF Labels, SendLabels
<1>c. ASSUME controlCh # << >>, controlCh' = Tail(controlCh)
      PROVE  controlCh' \in Seq(Record) /\ Len(controlCh') <= CtlCap
  BY <1>c, Capacities, TailBounded DEF TypeOK
<1>s. ASSUME NEW m \in ToPeerMsg, m.ptype # "DATA", SendOk(m), UNCHANGED sent
      PROVE  toPeer' \subseteq ToPeerMsg /\ DataInv'
  BY <1>s DEF TypeOK, SendOk, DataInv
<1>1. CASE OpenSockets
  <2> USE <1>1 DEF OpenSockets, callerVars, chanVars, netVars
  <2>1. CASE pc' = [pc EXCEPT !["open"] = "hello", !["rx"] = "top"]
    <3>1. pc' \in [Procs -> Labels] /\ JobInv' /\ RxInv'
      BY <1>l, <2>1 DEF TypeOK, JobInv, RxInv, Procs, Senders, SendLabels
    <3> QED BY <3>1 DEF TypeOK, DataInv
  <2>2. CASE Goto("open", "ret") /\ UNCHANGED <<conn, sender>>
    BY <2>2, <1>m DEF TypeOK, DataInv
  <2> QED BY <2>1, <2>2
<1>2. CASE sendSessionStart
  <2> USE <1>2 DEF sendSessionStart
  <2>m. SessionStart \in ToPeerMsg /\ SessionStart.ptype # "DATA"
    BY CounterClosed DEF SessionStart, ToPeerMsg
  <2>1. CASE SendOk(SessionStart) /\ Call("open", "init", AuthLen)
    BY <2>1, <2>m, <1>o, <1>s, CallTyped DEF TypeOK
  <2>2. CASE SendErr /\ Goto("open", "cas") /\ UNCHANGED job
    BY <2>2, <1>m DEF TypeOK, DataInv, SendErr
  <2>3. CASE SendOk(SessionStart) /\ Goto("open", "cas") /\ UNCHANGED job
    BY <2>3, <2>m, <1>m, <1>s DEF TypeOK
  <2> QED BY <2>1, <2>2, <2>3 DEF SendBestEffort
<1>3. CASE AwaitSalt
  <2> USE <1>3, <1>c DEF AwaitSalt
  <2>1. CASE Call("open", "finish", AuthLen)
    BY <2>1, <1>o, CallTyped DEF TypeOK, DataInv
  <2>2. CASE Goto("open", "cas") /\ UNCHANGED job
    BY <2>2, <1>m DEF TypeOK, DataInv
  <2>3. CASE UNCHANGED <<pc, job>>
    BY <2>3 DEF TypeOK, JobInv, DataInv, RxInv
  <2> QED BY <2>1, <2>2, <2>3 DEF AfterSalt
<1>4. CASE AwaitEndAuth
  <2> USE <1>4, <1>c DEF AwaitEndAuth
  <2>1. CASE Goto("open", "flip")
    BY <2>1, <1>m DEF TypeOK, DataInv
  <2>2. CASE UNCHANGED pc
    BY <2>2 DEF TypeOK, JobInv, DataInv, RxInv
  <2> QED BY <2>1, <2>2
<1>5. CASE HandshakeTimeout
  BY <1>5, <1>m DEF HandshakeTimeout, TypeOK, DataInv
<1>6. CASE EnterTerminalMode
  <2> USE <1>6 DEF EnterTerminalMode
  <2>1. pc' \in [Procs -> Labels] /\ JobInv' /\ RxInv'
    BY <1>l, ProcNames
       DEF TypeOK, JobInv, RxInv, Procs, Senders, SendLabels
  <2> QED BY <2>1, ZenonT(30) DEF TypeOK, DataInv
<1> QED BY <1>1, <1>2, <1>3, <1>4, <1>5, <1>6 DEF OpenStep

\* A packet other than DATA is sent, or the send fails.
LEMMA BestEffortTyped ==
  ASSUME TypeInv, NEW m \in ToPeerMsg, m.ptype # "DATA",
         SendBestEffort(m), UNCHANGED sent
  PROVE  toPeer' \subseteq ToPeerMsg /\ DataInv'
BY DEF TypeInv, TypeOK, SendBestEffort, SendOk, SendErr, DataInv

LEMMA AckIsMsg ==
  ASSUME NEW c \in Counter
  PROVE  Ack(c) \in ToPeerMsg /\ Ack(c).ptype # "DATA"
BY DEF Ack, ToPeerMsg

LEMMA TypeDown ==
  ASSUME TypeInv,
         \/ FailSwap \/ ParentCancel
         \/ \E c \in Closers : Close(c)
         \/ \E p \in Teardown : DownStep(p)
  PROVE  TypeInv'
<1> USE DEF TypeInv, DownUnchanged, callerVars, chanVars, downVars, rxVars,
            peerVars
<1>m. ASSUME NEW p \in Teardown \cup Closers,
             NEW l \in DownLabels \cup {"cas", "join", "ret", "exit"},
             Goto(p, l), UNCHANGED <<job, sent, rxRecs>>
      PROVE  pc' \in [Procs -> Labels] /\ JobInv' /\ RxInv'
  <2>1. p \in Procs
    BY DEF Teardown, Procs
  <2>2. l \in Labels \ (SendLabels \cup {"dispatch", "write"})
    BY DEF Labels, SendLabels, DownLabels
  <2> QED BY <1>m, <2>1, <2>2, MoveTyped
<1>1. CASE \E c \in Closers : Close(c)
  BY <1>1, <1>m DEF Close, TypeOK, DataInv
<1>2. ASSUME NEW p \in Teardown, NEW won \in {"end", "cancel"},
             NEW lost \in {"ret", "exit"},
             SwapClosed(p, won, lost), UNCHANGED <<job, sent, rxRecs>>
      PROVE  /\ pc' \in [Procs -> Labels] /\ JobInv' /\ RxInv'
             /\ closedBy' \in Teardown \cup {NoProc}
  <2>1. won \in DownLabels
    BY DEF DownLabels
  <2> QED BY <1>2, <2>1, <1>m DEF SwapClosed, TypeOK
<1>3. CASE FailSwap
  <2>1. "rx" \in Teardown
    BY DEF Teardown
  <2> QED BY <1>3, <2>1, <1>2 DEF FailSwap, TypeOK, DataInv
<1>4. CASE ParentCancel
  BY <1>4 DEF ParentCancel, TypeOK, JobInv, DataInv, RxInv
<1>5. ASSUME NEW p \in Teardown, DownStep(p)
      PROVE  TypeInv'
  <2>l. {"cancel", "conn", "sender", "pipe"} \subseteq DownLabels
    BY DEF DownLabels
  <2>1. CASE CloseSwap(p)
    BY <2>1, <1>2 DEF CloseSwap, TypeOK, DataInv
  <2>2. CASE SendEnd(p)
    <3>1. End \in ToPeerMsg /\ End.ptype # "DATA"
      BY CounterClosed DEF End, ToPeerMsg
    <3>2. toPeer' \subseteq ToPeerMsg /\ DataInv'
      BY <2>2, <3>1, BestEffortTyped DEF SendEnd
    <3> QED BY <2>2, <2>l, <3>2, <1>m DEF SendEnd, TypeOK
  <2>3. CASE Cancel(p)
    BY <2>3, <2>l, <1>m DEF Cancel, TypeOK, DataInv
  <2>4. CASE CloseConn(p)
    BY <2>4, <2>l, <1>m DEF CloseConn, TypeOK, DataInv
  <2>5. CASE CloseSender(p)
    BY <2>5, <2>l, <1>m DEF CloseSender, TypeOK, DataInv
  <2>6. CASE ClosePipe(p)
    BY <2>6, <1>m DEF ClosePipe, TypeOK, DataInv
  <2>7. CASE Join(p)
    BY <2>7, <1>m DEF Join, TypeOK, DataInv
  <2> QED BY <1>5, <2>1, <2>2, <2>3, <2>4, <2>5, <2>6, <2>7 DEF DownStep
<1> QED BY <1>1, <1>3, <1>4, <1>5

\* The receive loop goes on to the next record, if there is one.
LEMMA NextRecordTyped ==
  ASSUME TypeInv, pc["rx"] \in {"dispatch", "write"}, NextRecord,
         UNCHANGED <<job, sent>>
  PROVE  /\ pc' \in [Procs -> Labels]
         /\ rxRecs' \in Seq(Record)
         /\ JobInv' /\ RxInv'
<1> USE ProcNames DEF TypeInv, NextRecord, Goto
<1>1. rxRecs \in Seq(Record) /\ rxRecs # << >>
  BY DEF TypeOK, RxInv
<1>2. rxRecs' \in Seq(Record) /\ Len(rxRecs') = Len(rxRecs) - 1
  BY <1>1
<1>3. pc' \in [Procs -> Labels]
  BY DEF TypeOK, Labels
<1>4. JobInv'
  BY DEF TypeOK, JobInv, Senders, Procs
<1>5. Len(rxRecs) # 1 => rxRecs' # << >>
  <2>1. Len(rxRecs) \in Nat /\ Len(rxRecs) # 0
    BY <1>1
  <2>2. rxRecs' = << >> => Len(rxRecs') = 0
    OBVIOUS
  <2> HIDE DEF NextRecord
  <2> QED BY <1>2, <2>1, <2>2
<1>6. pc'["rx"] = IF Len(rxRecs) = 1 THEN "top" ELSE "dispatch"
  BY DEF TypeOK, Procs
<1>7. RxInv'
  BY <1>5, <1>6 DEF RxInv
<1> QED BY <1>2, <1>3, <1>4, <1>7

LEMMA TypeRx ==
  ASSUME TypeInv, RxStep \/ ReadStep
  PROVE  TypeInv'
<1> USE DEF TypeInv, RxUnchanged, callerVars, chanVars, downVars, rxVars,
            peerVars
<1>m. ASSUME NEW p \in {"rx", "rd"},
             NEW l \in {"top", "read", "fail", "exit", "done", "eof"},
             Goto(p, l), UNCHANGED <<job, sent>>,
             p = "rx" \/ UNCHANGED rxRecs
      PROVE  pc' \in [Procs -> Labels] /\ JobInv' /\ RxInv'
  <2>1. p \in Procs
    BY DEF Procs
  <2>2. l \in Labels \ (SendLabels \cup {"dispatch", "write"})
    BY DEF Labels, SendLabels
  <2> QED BY <1>m, <2>1, <2>2, MoveTyped
<1>1. CASE RxCheck
  BY <1>1, <1>m DEF RxCheck, TypeOK, DataInv
<1>2. CASE RxNothing
  BY <1>2, <1>m DEF RxNothing, TypeOK, DataInv
<1>3. CASE RxSocketClosed
  BY <1>3, <1>m DEF RxSocketClosed, TypeOK, DataInv
<1>4. CASE RxSocketError
  BY <1>4, <1>m DEF RxSocketError, TypeOK, DataInv
<1>5. ASSUME NEW m \in toUs, RxAck(m)
      PROVE  TypeInv'
  <2>1. m.ctr \in Counter
    BY DEF TypeOK, ToUsMsg
  <2>2. ackCh' \in Seq(Counter) /\ Len(ackCh') <= AckCap
    BY <1>5, <2>1, Capacities DEF RxAck, TypeOK
  <2> QED BY <1>5, <2>2, <1>m DEF RxAck, TypeOK, DataInv
<1>6. ASSUME NEW m \in toUs, RxData(m)
      PROVE  TypeInv'
  <2> USE <1>6 DEF RxData
  <2>1. m.ctr \in Counter /\ m.ctr \in Nat /\ m.recs \in Seq(Record)
    BY DEF TypeOK, ToUsMsg, Counter
  <2>2. toPeer' \subseteq ToPeerMsg /\ DataInv'
    <3> DEFINE c == ackCounterFor(m.ctr, PayloadLen(m.recs))
    <3>1. c \in Counter
      BY <2>1, CounterClosed, PayloadLenNat
    <3> QED BY <3>1, AckIsMsg, BestEffortTyped
  <2>3. inc' \in InCounters
    BY <2>1, MarkTyped DEF TypeOK
  <2>4. CASE rxRecs' = m.recs /\ m.recs # << >> /\ Goto("rx", "dispatch")
    <3>1. pc' \in [Procs -> Labels] /\ JobInv' /\ RxInv'
      BY <2>4, ProcNames DEF TypeOK, JobInv, RxInv, Goto, Procs, Senders,
                             Labels, SendLabels
    <3> QED BY <2>1, <2>2, <2>3, <2>4, <3>1 DEF TypeOK
  <2>5. CASE UNCHANGED rxRecs /\ Goto("rx", "top")
    BY <2>2, <2>3, <2>5, <1>m DEF TypeOK
  <2> QED BY <2>4, <2>5
<1>7. ASSUME NEW m \in toUs, RxEnd(m)
      PROVE  TypeInv'
  BY <1>7, <1>m DEF RxEnd, TypeOK, DataInv
<1>8. CASE DispatchPlain
  <2> USE <1>8 DEF DispatchPlain
  <2>1. CASE Goto("rx", "write") /\ UNCHANGED rxRecs
    <3>1. pc' \in [Procs -> Labels] /\ JobInv' /\ RxInv'
      BY <2>1, ProcNames DEF TypeOK, JobInv, RxInv, Goto, Procs, Senders,
                             Labels, SendLabels
    <3> QED BY <2>1, <3>1 DEF TypeOK, DataInv
  <2>2. CASE NextRecord
    BY <2>2, NextRecordTyped DEF TypeOK, DataInv
  <2> QED BY <2>1, <2>2
<1>9. CASE DispatchControl
  <2> USE <1>9 DEF DispatchControl
  <2>1. Head(rxRecs) \in Record
    BY DEF TypeOK, RxInv
  <2>2. CASE Len(controlCh) < CtlCap /\ NextRecord
             /\ controlCh' = Append(controlCh, Head(rxRecs))
    <3>1. controlCh' \in Seq(Record) /\ Len(controlCh') <= CtlCap
      BY <2>1, <2>2, Capacities DEF TypeOK
    <3> QED BY <2>2, <3>1, NextRecordTyped, SMTT(30) DEF TypeOK, DataInv
  <2>3. CASE rxRecs' = << >> /\ Goto("rx", "top") /\ UNCHANGED controlCh
    BY <2>3, <1>m DEF TypeOK, DataInv
  <2> QED BY <2>2, <2>3
<1>10. CASE WriteBrokenPipe
  BY <1>10, NextRecordTyped DEF WriteBrokenPipe, TypeOK, DataInv
<1>11. CASE RxExit
  BY <1>11, <1>m DEF RxExit, TypeOK, DataInv
<1>12. CASE Read
  <2>1. Head(rxRecs) \in Record
    BY <1>12 DEF Read, TypeOK, RxInv
  <2>2. readLog' \in Seq(Nat)
    BY <1>12, <2>1 DEF Read, TypeOK, Record
  <2> QED BY <1>12, <2>2, NextRecordTyped DEF Read, TypeOK, DataInv
<1>13. CASE ReadEOF
  BY <1>13, <1>m DEF ReadEOF, TypeOK, DataInv
<1>14. CASE FailSwap
  BY <1>14, TypeDown
<1> QED
  BY <1>1, <1>2, <1>3, <1>4, <1>5, <1>6, <1>7, <1>8, <1>9, <1>10, <1>11,
     <1>12, <1>13, <1>14 DEF RxStep, ReadStep

LEMMA TypeKa ==
  ASSUME TypeInv, KaStep
  PROVE  TypeInv'
<1> USE DEF TypeInv, KaUnchanged, callerVars, chanVars, downVars, rxVars,
            peerVars
<1>1. CASE KeepaliveTick
  <2>1. toPeer' \subseteq ToPeerMsg /\ DataInv'
    BY <1>1, AckIsMsg, BestEffortTyped DEF KeepaliveTick, TypeOK
  <2> QED BY <1>1, <2>1 DEF KeepaliveTick, TypeOK, JobInv, RxInv
<1>2. CASE KeepaliveStop
  <2>1. "ka" \in Procs
        /\ "done" \in Labels \ (SendLabels \cup {"dispatch", "write"})
    BY DEF Procs, Labels, SendLabels
  <2> QED BY <1>2, <2>1, MoveTyped DEF KeepaliveStop, TypeOK, DataInv
<1> QED BY <1>1, <1>2 DEF KaStep

LEMMA TypePeer ==
  ASSUME TypeInv, PeerStep
  PROVE  TypeInv'
<1> USE DEF TypeInv, PeerUnchanged, callerVars, chanVars, downVars, rxVars,
            peerVars, JobInv, DataInv, RxInv
<1>f. \A t \in {"DATA", "ACK", "END"}, c \in Counter, recs \in Seq(Record) :
        FromPeer(t, c, recs) \in ToUsMsg
  BY DEF FromPeer, ToUsMsg
<1>e. << >> \in Seq(Record)
  OBVIOUS
<1>1. CASE PeerHello
  BY <1>1 DEF PeerHello, TypeOK
<1>2. ASSUME NEW m \in toPeer, PeerData(m)
      PROVE  TypeInv'
  <2> USE <1>2 DEF PeerData
  <2>1. m.ctr \in Counter /\ m.ctr \in Nat /\ m.id \in Nat
    BY DEF TypeOK, ToPeerMsg, Counter
  <2>2. sent[m.id].plen \in Nat
    <3>1. sent \in Seq(Payload) /\ m.id \in 1 .. Len(sent)
      BY DEF TypeOK
    <3>2. sent[m.id] \in Payload
      BY <3>1
    <3> QED BY <3>2 DEF Payload
  <2>3. toUs' \subseteq ToUsMsg
    <3>1. ackCounterFor(m.ctr, sent[m.id].plen) \in Counter
      BY <2>1, <2>2, CounterClosed
    <3> QED BY <3>1, <1>e, <1>f DEF TypeOK
  <2>4. peerInc' \in InCounters
    BY <2>1, MarkTyped DEF TypeOK
  <2>5. peerGot' \in Seq(Nat)
    BY <2>1 DEF TypeOK
  <2> QED BY <2>3, <2>4, <2>5 DEF TypeOK
<1>3. CASE PeerSend
  <2>1. PICK recs \in PeerPayloads :
             /\ toUs' = toUs \cup {FromPeer("DATA", peerOut, recs)}
             /\ peerOut' = reserveOut(peerOut, PayloadLen(recs))
    BY <1>3 DEF PeerSend
  <2>2. recs \in Seq(Record)
    <3>1. peerPos \in Nat /\ peerPos < Len(Script) + 2
      BY <1>3 DEF PeerSend, PeerReady, TypeOK
    <3>2. CASE peerPos = 0
      <4>1. PeerPayloads = {<<[cp |-> PassSalt, body |-> n]>> : n \in SaltLens}
        BY <3>2 DEF PeerPayloads
      <4>2. PICK n \in SaltLens : recs = <<[cp |-> PassSalt, body |-> n]>>
        BY <4>1
      <4>3. [cp |-> PassSalt, body |-> n] \in Record
        BY SessionAssumption DEF Record
      <4> QED BY <4>2, <4>3
    <3>3. CASE peerPos = 1
      BY <3>3, SessionAssumption DEF PeerPayloads
    <3>4. CASE peerPos > 1
      BY <3>1, <3>4, SessionAssumption, SMTT(30) DEF PeerPayloads
    <3> QED BY <3>1, <3>2, <3>3, <3>4
  <2>3. toUs' \subseteq ToUsMsg
    BY <2>1, <2>2, <1>f DEF TypeOK
  <2>4. peerOut' \in Counter
    <3>1. peerOut \in Nat
      BY DEF TypeOK, Counter
    <3> QED BY <2>1, <2>2, <3>1, PayloadLenNat, CounterClosed
  <2> QED BY <1>3, <2>3, <2>4 DEF PeerSend, TypeOK
<1>4. CASE PeerEnd
  <2>1. toUs' \subseteq ToUsMsg
    <3>1. FromPeer("END", 0, << >>) \in ToUsMsg
      BY <1>e, <1>f, CounterClosed
    <3> QED BY <1>4, <3>1 DEF PeerEnd, TypeOK
  <2> QED BY <1>4, <2>1 DEF PeerEnd, TypeOK
<1> QED BY <1>1, <1>2, <1>3, <1>4 DEF PeerStep

LEMMA TypeStutter ==
  ASSUME TypeInv, UNCHANGED vars
  PROVE  TypeInv'
BY DEF TypeInv, TypeOK, JobInv, DataInv, RxInv, vars, callerVars, chanVars,
       downVars, rxVars, netVars, peerVars

\* TypeInv is inductive.
LEMMA TypeNext == TypeInv /\ [Next]_vars => TypeInv'
BY TypeSend, TypeCallers, TypeOpen, TypeDown, TypeRx, TypeKa, TypePeer,
   TypeStutter DEF Next, Finished

\* Every reachable state has the declared types: counters stay inside uint32,
\* the two channels inside their capacities, and a DATA packet that reaches
\* the device names a payload that was really given a counter.
THEOREM TypeCorrect == Spec => []TypeOK
<1>1. Spec => []TypeInv
  BY TypeInit, TypeNext, PTL DEF Spec
<1>2. TypeInv => TypeOK
  BY DEF TypeInv
<1> QED BY <1>1, <1>2, PTL

----------------------------------------------------------------------------
(* An open session is an authenticated one: the END_AUTH that ends the     *)
(* handshake can be traced back through controlCh, the packet being        *)
(* dispatched and the link to a device that had taken both handshake       *)
(* payloads before it sent one.                                            *)

HasEndAuth(q) == \E k \in 1 .. Len(q) : q[k].cp = EndAuth

\* An END_AUTH anywhere on its way to Open, or already taken by it, means
\* that the device has sent its END_AUTH packet.
TraceInv ==
  /\ \A m \in toUs : HasEndAuth(m.recs) => peerPos >= 2
  /\ HasEndAuth(rxRecs) => peerPos >= 2
  /\ HasEndAuth(controlCh) => peerPos >= 2
  /\ pc["open"] \in {"flip", "ok"} => peerPos >= 2

\* What the device took before it sent each of its handshake packets.
TakenInv ==
  /\ peerPos >= 1 => PeerHas("init")
  /\ peerPos >= 2 => PeerHas("finish")
  /\ \A k \in 1 .. Len(peerGot) : peerGot[k] \in 1 .. Len(sent)

AuthInv == TraceInv /\ TakenInv

----------------------------------------------------------------------------

\* No step but the device's own puts an END_AUTH where there was none
\* upstream of it.
Flows ==
  /\ \A m \in toUs' : HasEndAuth(m.recs) => m \in toUs
  /\ HasEndAuth(rxRecs') =>
       HasEndAuth(rxRecs) \/ \E m \in toUs : HasEndAuth(m.recs)
  /\ HasEndAuth(controlCh') => HasEndAuth(controlCh) \/ HasEndAuth(rxRecs)
  /\ pc'["open"] \in {"flip", "ok"} =>
       pc["open"] \in {"flip", "ok"} \/ HasEndAuth(controlCh)
  /\ UNCHANGED peerPos

\* What the device took and what the client numbered only grow.
Grows ==
  /\ Len(peerGot) <= Len(peerGot')
  /\ \A k \in 1 .. Len(peerGot) : peerGot'[k] = peerGot[k]
  /\ \A i \in 1 .. Len(sent) : sent'[i] = sent[i]
  /\ \A k \in 1 .. Len(peerGot') : peerGot'[k] \in 1 .. Len(sent')

LEMMA AuthInit == Init => AuthInv
<1> SUFFICES ASSUME Init PROVE AuthInv
  OBVIOUS
<1>1. pc["open"] = "sockets" /\ peerPos = 0 /\ toUs = {}
  BY DEF Init, Procs
<1>2. Len(rxRecs) = 0 /\ Len(controlCh) = 0 /\ Len(peerGot) = 0
  BY DEF Init
<1> QED BY <1>1, <1>2 DEF AuthInv, TraceInv, TakenInv, HasEndAuth

\* What the device has taken, it keeps.
LEMMA HasStays ==
  ASSUME TypeInv, TypeInv', TakenInv, Grows, NEW kind, PeerHas(kind)
  PROVE  PeerHas(kind)'
<1>1. PICK k \in 1 .. Len(peerGot) : sent[peerGot[k]].kind = kind
  BY DEF PeerHas
<1>2. Len(peerGot) \in Nat /\ Len(peerGot') \in Nat
  BY SMTT(30) DEF TypeInv, TypeOK
<1>3. k \in 1 .. Len(peerGot') /\ peerGot'[k] = peerGot[k]
  BY <1>2 DEF Grows
<1>4. sent'[peerGot[k]] = sent[peerGot[k]]
  BY DEF TakenInv, Grows
<1> QED BY <1>1, <1>3, <1>4 DEF PeerHas

\* Such a step keeps AuthInv.
LEMMA FlowKeeps ==
  ASSUME TypeInv, TypeInv', AuthInv, Flows, Grows
  PROVE  AuthInv'
<1>1. TraceInv'
  BY DEF AuthInv, TraceInv, Flows
<1>2. TakenInv'
  BY HasStays DEF AuthInv, TakenInv, Flows, Grows
<1> QED BY <1>1, <1>2 DEF AuthInv

\* The history variables stand still.
LEMMA StillGrows ==
  ASSUME TypeInv, TakenInv, UNCHANGED <<sent, peerGot>>
  PROVE  Grows
BY DEF Grows, TakenInv, TypeInv, TypeOK

\* Nothing on the way to Open moves.
LEMMA StillFlows ==
  ASSUME UNCHANGED <<toUs, rxRecs, controlCh, peerPos>>,
         pc'["open"] \in {"flip", "ok"} => pc["open"] \in {"flip", "ok"}
  PROVE  Flows
BY DEF Flows

\* Receiving from a queue does not add to it.
LEMMA TailHasLess ==
  ASSUME NEW q \in Seq(Record), q # << >>, HasEndAuth(Tail(q))
  PROVE  HasEndAuth(q)
<1>1. PICK k \in 1 .. Len(Tail(q)) : Tail(q)[k].cp = EndAuth
  BY DEF HasEndAuth
<1>2. k + 1 \in 1 .. Len(q) /\ Tail(q)[k] = q[k + 1]
  OBVIOUS
<1> QED BY <1>1, <1>2 DEF HasEndAuth

LEMMA HeadIsOne ==
  ASSUME NEW q \in Seq(Record), q # << >>, Head(q).cp = EndAuth
  PROVE  HasEndAuth(q)
<1>1. 1 \in 1 .. Len(q) /\ Head(q) = q[1]
  OBVIOUS
<1> QED BY <1>1 DEF HasEndAuth

\* Buffering a record adds that one.
LEMMA AppendHas ==
  ASSUME NEW q \in Seq(Record), NEW r \in Record, HasEndAuth(Append(q, r))
  PROVE  HasEndAuth(q) \/ r.cp = EndAuth
<1>1. PICK k \in 1 .. Len(Append(q, r)) : Append(q, r)[k].cp = EndAuth
  BY DEF HasEndAuth
<1>2. Len(q) \in Nat /\ k \in 1 .. (Len(q) + 1)
  OBVIOUS
<1>3. CASE k = Len(q) + 1
  BY <1>1, <1>3
<1>4. CASE k # Len(q) + 1
  <2>1. k \in 1 .. Len(q) /\ Append(q, r)[k] = q[k]
    BY <1>2, <1>4
  <2> QED BY <1>1, <2>1 DEF HasEndAuth
<1> QED BY <1>3, <1>4

\* An empty list of records holds no END_AUTH.
LEMMA EmptyHasNone == ~HasEndAuth(<< >>)
BY DEF HasEndAuth

----------------------------------------------------------------------------

\* A caller of sendDataAndWaitAck numbers a payload or moves on: Open, when it
\* is the caller, not past the handshake.
LEMMA AuthSend ==
  ASSUME TypeInv, TypeInv', AuthInv, NEW t \in Senders, SendStep(t)
  PROVE  AuthInv'
<1> USE ProcNames DEF SendStep
<1>1. UNCHANGED <<toUs, rxRecs, controlCh, peerPos, peerGot>>
  BY DEF LockAndReserve, Xmit, RecvAck, WaitCancelled, AckTimeout, Rexmit,
         SendUnchanged, rxVars, netVars, peerVars
<1>2. pc'["open"] \in {"flip", "ok"} => pc["open"] \in {"flip", "ok"}
  <2>1. ASSUME NEW l \in {"xmit", "wait", "rexmit", "idle", "cas", "salt",
                          "endauth"}, Goto(t, l)
        PROVE  pc'["open"] \in {"flip", "ok"} => pc["open"] \in {"flip", "ok"}
    BY <2>1 DEF Goto, TypeInv, TypeOK, Senders, Procs
  <2>2. \A ok \in BOOLEAN :
          AfterSend(t, ok) \in {"idle", "cas", "salt", "endauth"}
    BY DEF AfterSend
  <2>3. ASSUME NEW ok \in BOOLEAN, Return(t, ok)
        PROVE  pc'["open"] \in {"flip", "ok"} => pc["open"] \in {"flip", "ok"}
    BY <2>1, <2>2, <2>3 DEF Return
  <2> QED BY <2>1, <2>3 DEF LockAndReserve, Xmit, RecvAck, WaitCancelled,
                            AckTimeout, Rexmit
<1>3. Grows
  <2>1. CASE LockAndReserve(t)
    <3>1. sent \in Seq(Payload) /\ sent' \in Seq(Payload)
      BY DEF TypeInv, TypeOK
    <3>2. /\ Len(sent') = Len(sent) + 1
          /\ \A i \in 1 .. Len(sent) : sent'[i] = sent[i]
      BY <2>1, <3>1 DEF LockAndReserve
    <3>3. Len(sent) \in Nat
      BY <3>1
    <3> HIDE DEF SendStep
    <3> QED BY <1>1, <3>2, <3>3, SMTT(30) DEF Grows, AuthInv, TakenInv, TypeInv, TypeOK
  <2>2. CASE ~LockAndReserve(t)
    <3>1. UNCHANGED sent
      BY <2>2 DEF Xmit, RecvAck, WaitCancelled, AckTimeout, Rexmit,
                    SendUnchanged
    <3> QED BY <1>1, <3>1, StillGrows DEF AuthInv
  <2> QED BY <2>1, <2>2
<1> QED BY <1>1, <1>2, <1>3, StillFlows, FlowKeeps

\* The other goroutines that number nothing and take no record.
LEMMA AuthAside ==
  ASSUME TypeInv, TypeInv', AuthInv,
         \/ \E t \in Writers :
              Resize(t) \/ \E n \in 0 .. MaxPayload : Write(t, n)
         \/ \E c \in Closers : Close(c)
         \/ \E p \in Teardown : DownStep(p)
         \/ ParentCancel \/ FailSwap \/ KaStep \/ UNCHANGED vars
  PROVE  AuthInv'
<1> USE ProcNames DEF callerVars, chanVars, rxVars, netVars, peerVars,
                      CallerUnchanged, DownUnchanged, KaUnchanged
<1>g. ASSUME NEW p \in Procs,
             NEW l \in {"lock", "cas", "ret", "end", "cancel", "conn", "sender",
                       "pipe", "join", "exit", "done"}, Goto(p, l)
      PROVE  pc'["open"] \in {"flip", "ok"} => pc["open"] \in {"flip", "ok"}
  BY <1>g DEF Goto, TypeInv, TypeOK, Procs
<1>k. ASSUME UNCHANGED <<toUs, rxRecs, controlCh, peerPos, peerGot, sent>>,
             pc'["open"] \in {"flip", "ok"} => pc["open"] \in {"flip", "ok"}
      PROVE  AuthInv'
  BY <1>k, StillFlows, StillGrows, FlowKeeps DEF AuthInv
<1>1. ASSUME NEW t \in Writers,
             Resize(t) \/ \E n \in 0 .. MaxPayload : Write(t, n)
      PROVE  AuthInv'
  <2>1. UNCHANGED pc \/ Goto(t, "lock")
    BY <1>1 DEF Resize, Write, Call
  <2> QED BY <1>1, <2>1, <1>g, <1>k DEF Resize, Write, Procs
<1>2. ASSUME NEW c \in Closers, Close(c)
      PROVE  AuthInv'
  BY <1>2, <1>g, <1>k DEF Close, Procs
<1>3. ASSUME NEW p \in Teardown, DownStep(p)
      PROVE  AuthInv'
  <2>1. p \in Procs
    BY DEF Procs, Teardown
  <2>2. UNCHANGED <<toUs, rxRecs, controlCh, peerPos, peerGot, sent>>
    BY <1>3 DEF DownStep, CloseSwap, SendEnd, Cancel, CloseConn, CloseSender,
                ClosePipe, Join
  <2>3. \E l \in {"ret", "end", "cancel", "conn", "sender", "pipe", "join",
                  "exit"} : Goto(p, l)
    BY <1>3 DEF DownStep, CloseSwap, SwapClosed, SendEnd, Cancel, CloseConn,
                CloseSender, ClosePipe, Join
  <2> QED BY <2>1, <2>2, <2>3, <1>g, <1>k
<1>4. CASE ParentCancel
  BY <1>4, <1>k DEF ParentCancel
<1>5. CASE FailSwap
  BY <1>5, <1>g, <1>k DEF FailSwap, SwapClosed, Procs
<1>6. CASE KaStep
  BY <1>6, <1>g, <1>k DEF KaStep, KeepaliveTick, KeepaliveStop, Procs
<1>7. CASE UNCHANGED vars
  BY <1>7, <1>k DEF vars
<1> QED BY <1>1, <1>2, <1>3, <1>4, <1>5, <1>6, <1>7

\* Open takes records from controlCh and nowhere else.
LEMMA AuthOpen ==
  ASSUME TypeInv, TypeInv', AuthInv, OpenStep
  PROVE  AuthInv'
<1> USE DEF HandshakeUnchanged, callerVars, chanVars, netVars, rxVars, peerVars
<1>t. controlCh \in Seq(Record) /\ pc \in [Procs -> Labels] /\ "open" \in Procs
  BY DEF TypeInv, TypeOK, Procs
<1>0. UNCHANGED <<toUs, rxRecs, peerPos, peerGot, sent>>
  BY DEF OpenStep, OpenSockets, sendSessionStart, AwaitSalt, AwaitEndAuth,
         HandshakeTimeout, EnterTerminalMode
<1>1. HasEndAuth(controlCh') => HasEndAuth(controlCh)
  <2>1. \/ UNCHANGED controlCh
        \/ controlCh # << >> /\ controlCh' = Tail(controlCh)
    BY DEF OpenStep, OpenSockets, sendSessionStart, AwaitSalt, AwaitEndAuth,
           HandshakeTimeout, EnterTerminalMode
  <2> QED BY <1>t, <2>1, TailHasLess
<1>2. pc'["open"] \in {"flip", "ok"} =>
        pc["open"] \in {"flip", "ok"} \/ HasEndAuth(controlCh)
  <2>1. CASE OpenSockets
    BY <1>t, <2>1 DEF OpenSockets, Goto
  <2>2. CASE sendSessionStart
    BY <1>t, <2>2 DEF sendSessionStart, Call, Goto
  <2>3. CASE AwaitSalt
    BY <1>t, <2>3 DEF AwaitSalt, AfterSalt, Call, Goto
  <2>4. CASE AwaitEndAuth
    <3>1. CASE Head(controlCh).cp = EndAuth
      BY <1>t, <2>4, <3>1, HeadIsOne DEF AwaitEndAuth
    <3>2. CASE Head(controlCh).cp # EndAuth
      BY <2>4, <3>2 DEF AwaitEndAuth
    <3> QED BY <3>1, <3>2
  <2>5. CASE HandshakeTimeout
    BY <1>t, <2>5 DEF HandshakeTimeout, Goto
  <2>6. CASE EnterTerminalMode
    BY <2>6 DEF EnterTerminalMode
  <2> QED BY <2>1, <2>2, <2>3, <2>4, <2>5, <2>6 DEF OpenStep
<1>3. Flows
  BY <1>0, <1>1, <1>2 DEF Flows
<1> QED BY <1>0, <1>3, StillGrows, FlowKeeps DEF AuthInv

\* The receive loop moves records from a packet on the link to controlCh or
\* to the reader.
LEMMA AuthRx ==
  ASSUME TypeInv, TypeInv', AuthInv, RxStep \/ ReadStep
  PROVE  AuthInv'
<1> USE ProcNames DEF RxUnchanged, callerVars, chanVars, rxVars, peerVars
<1>t. /\ controlCh \in Seq(Record) /\ rxRecs \in Seq(Record)
      /\ pc \in [Procs -> Labels]
      /\ "open" \in Procs /\ "rx" \in Procs /\ "rd" \in Procs
  BY DEF TypeInv, TypeOK, Procs
<1>k. ASSUME UNCHANGED <<toUs, peerPos, peerGot, sent>>,
             pc'["open"] = pc["open"],
             HasEndAuth(rxRecs') =>
               HasEndAuth(rxRecs) \/ \E m \in toUs : HasEndAuth(m.recs),
             HasEndAuth(controlCh') =>
               HasEndAuth(controlCh) \/ HasEndAuth(rxRecs)
      PROVE  AuthInv'
  <2>1. Flows
    BY <1>k DEF Flows
  <2> QED BY <1>k, <2>1, StillGrows, FlowKeeps DEF AuthInv
<1>g. ASSUME NEW p \in {"rx", "rd"}, NEW l, Goto(p, l)
      PROVE  pc'["open"] = pc["open"]
  BY <1>t, <1>g DEF Goto
<1>n. ASSUME NextRecord, pc["rx"] \in {"dispatch", "write"}
      PROVE  /\ pc'["open"] = pc["open"]
             /\ HasEndAuth(rxRecs') => HasEndAuth(rxRecs)
  <2>1. rxRecs # << >>
    BY <1>n DEF TypeInv, RxInv
  <2> QED BY <1>t, <1>n, <1>g, <2>1, TailHasLess DEF NextRecord
<1>1. CASE RxCheck
  BY <1>1, <1>g, <1>k DEF RxCheck
<1>2. CASE RxNothing
  BY <1>2, <1>g, <1>k DEF RxNothing
<1>3. CASE RxSocketClosed
  BY <1>3, <1>g, <1>k DEF RxSocketClosed
<1>4. CASE RxSocketError
  BY <1>4, <1>g, <1>k DEF RxSocketError
<1>5. ASSUME NEW m \in toUs, RxAck(m) \/ RxEnd(m)
      PROVE  AuthInv'
  BY <1>5, <1>g, <1>k DEF RxAck, RxEnd
<1>6. ASSUME NEW m \in toUs, RxData(m)
      PROVE  AuthInv'
  <2>1. rxRecs' = m.recs \/ rxRecs' = rxRecs
    BY <1>6 DEF RxData
  <2>2. pc'["open"] = pc["open"]
    BY <1>6, <1>g DEF RxData
  <2>3. UNCHANGED <<toUs, peerPos, peerGot, sent, controlCh>>
    BY <1>6 DEF RxData
  <2> QED BY <2>1, <2>2, <2>3, <1>k
<1>7. CASE DispatchPlain
  BY <1>7, <1>g, <1>n, <1>k DEF DispatchPlain
<1>8. CASE DispatchControl
  <2>1. UNCHANGED <<toUs, peerPos, peerGot, sent>> /\ pc["rx"] = "dispatch"
    BY <1>8 DEF DispatchControl
  <2>2. CASE controlCh' = Append(controlCh, Head(rxRecs)) /\ NextRecord
    <3>1. rxRecs # << >> /\ Head(rxRecs) \in Record
      BY <1>t, <2>1 DEF TypeInv, RxInv
    <3>2. HasEndAuth(controlCh') => HasEndAuth(controlCh) \/ HasEndAuth(rxRecs)
      BY <1>t, <2>2, <3>1, AppendHas, HeadIsOne
    <3> QED BY <2>1, <2>2, <3>2, <1>n, <1>k
  <2>3. CASE rxRecs' = << >> /\ Goto("rx", "top") /\ UNCHANGED controlCh
    BY <2>1, <2>3, <1>g, <1>k, EmptyHasNone
  <2> QED BY <1>8, <2>2, <2>3 DEF DispatchControl
<1>9. CASE WriteBrokenPipe
  BY <1>9, <1>n, <1>k DEF WriteBrokenPipe
<1>10. CASE Read
  BY <1>10, <1>n, <1>k DEF Read
<1>11. CASE ReadEOF
  BY <1>11, <1>g, <1>k DEF ReadEOF
<1>12. CASE RxExit
  BY <1>12, <1>g, <1>k DEF RxExit
<1>13. CASE FailSwap
  BY <1>13, AuthAside
<1> QED BY <1>1, <1>2, <1>3, <1>4, <1>5, <1>6, <1>7, <1>8, <1>9, <1>10,
           <1>11, <1>12, <1>13 DEF RxStep, ReadStep

\* The device takes a payload, or sends its next packet, which holds an
\* END_AUTH only once it has taken both handshake payloads.
LEMMA AuthPeer ==
  ASSUME TypeInv, TypeInv', AuthInv, PeerStep
  PROVE  AuthInv'
<1> USE DEF PeerUnchanged, callerVars, chanVars, rxVars, peerVars
<1>0. UNCHANGED <<pc, rxRecs, controlCh, sent>>
  BY DEF PeerStep, PeerHello, PeerSend, PeerEnd, PeerData
<1>r. \A t, c : FromPeer(t, c, << >>).recs = << >>
  BY DEF FromPeer
<1>n. ASSUME NEW t, NEW c, UNCHANGED peerPos,
             toUs' = toUs \cup {FromPeer(t, c, << >>)}
      PROVE  Flows
  BY <1>0, <1>r, <1>n, EmptyHasNone DEF Flows
<1>1. CASE PeerHello
  BY <1>0, <1>1, StillFlows, StillGrows, FlowKeeps DEF PeerHello, AuthInv
<1>2. CASE PeerEnd
  <2>1. Flows
    BY <1>0, <1>2, <1>n, StillFlows DEF PeerEnd
  <2> QED BY <1>0, <1>2, <2>1, StillGrows, FlowKeeps DEF PeerEnd, AuthInv
<1>4. ASSUME NEW m \in toPeer, PeerData(m)
      PROVE  AuthInv'
  <2>1. Flows
    BY <1>4, <1>n DEF PeerData
  <2>2. m.id \in 1 .. Len(sent) /\ m.id \in Nat
    BY <1>4 DEF PeerData, TypeInv, DataInv, TypeOK, ToPeerMsg
  <2>3. peerGot \in Seq(Nat) /\ Len(peerGot) \in Nat
    BY DEF TypeInv, TypeOK
  <2>4. CASE peerGot' = peerGot
    BY <1>0, <2>1, <2>4, StillGrows, FlowKeeps DEF AuthInv
  <2>5. CASE peerGot' = Append(peerGot, m.id)
    <3>1. /\ Len(peerGot') = Len(peerGot) + 1
          /\ \A k \in 1 .. Len(peerGot) : peerGot'[k] = peerGot[k]
          /\ peerGot'[Len(peerGot) + 1] = m.id
      BY <2>2, <2>3, <2>5
    <3>2. \A k \in 1 .. Len(peerGot) : peerGot[k] \in 1 .. Len(sent)
      BY DEF AuthInv, TakenInv
    <3>3. Grows
      BY <1>0, <2>2, <2>3, <3>1, <3>2 DEF Grows
    <3> QED BY <2>1, <3>3, FlowKeeps
  <2> QED BY <1>4, <2>4, <2>5 DEF PeerData
<1>5. CASE PeerSend
  <2> USE <1>5 DEF PeerSend
  <2>1. /\ peerPos' = peerPos + 1 /\ peerPos \in Nat
        /\ UNCHANGED peerGot /\ PeerReady
    BY DEF TypeInv, TypeOK
  <2>2. PICK recs \in PeerPayloads :
          toUs' = toUs \cup {FromPeer("DATA", peerOut, recs)}
    OBVIOUS
  <2>3. HasEndAuth(recs) => peerPos >= 1
    <3>1. CASE peerPos = 0
      <4>1. PICK n \in SaltLens : recs = <<[cp |-> PassSalt, body |-> n]>>
        BY <3>1 DEF PeerPayloads
      <4>2. \A k \in 1 .. Len(recs) : recs[k].cp = PassSalt
        BY <4>1
      <4> QED BY <4>2 DEF HasEndAuth, PassSalt, EndAuth
    <3> QED BY <2>1, <3>1
  <2>4. \A m \in toUs' : m \in toUs \/ m.recs = recs
    BY <2>2 DEF FromPeer
  <2>5. TraceInv'
    <3>1. \A m \in toUs' : HasEndAuth(m.recs) => peerPos' >= 2
      BY <2>1, <2>3, <2>4 DEF AuthInv, TraceInv
    <3> QED BY <1>0, <2>1, <3>1 DEF AuthInv, TraceInv
  <2>6. TakenInv'
    <3>1. \A kind : PeerHas(kind)' <=> PeerHas(kind)
      BY <1>0, <2>1 DEF PeerHas
    <3>2. peerPos' >= 1 => PeerHas("init")
      BY <2>1 DEF AuthInv, TakenInv, PeerReady
    <3>3. peerPos' >= 2 => PeerHas("finish")
      BY <2>1 DEF AuthInv, TakenInv, PeerReady
    <3> QED BY <1>0, <2>1, <3>1, <3>2, <3>3 DEF AuthInv, TakenInv
  <2> QED BY <2>5, <2>6 DEF AuthInv
<1> QED BY <1>1, <1>2, <1>4, <1>5 DEF PeerStep

\* AuthInv is inductive relative to TypeInv.
LEMMA AuthNext == TypeInv /\ AuthInv /\ [Next]_vars => AuthInv'
<1> SUFFICES ASSUME TypeInv, AuthInv, [Next]_vars
             PROVE  AuthInv'
  OBVIOUS
<1>1. TypeInv'
  BY TypeNext
<1> QED BY <1>1, AuthSend, AuthAside, AuthOpen, AuthRx, AuthPeer
        DEF Next, Finished

\* Open hands out a session only if the device took the auth-init and the
\* auth-finish payload and sent its END_AUTH packet afterwards: neither a
\* stale or repeated control record nor a timeout of the handshake can stand
\* in for it, whatever the device's script and the link do.
THEOREM OpenIsAuthenticated == Spec => []OpenedMeansAuthenticated
<1>1. Spec => []TypeInv
  BY TypeInit, TypeNext, PTL DEF Spec
<1>2. Spec => []AuthInv
  BY <1>1, AuthInit, AuthNext, PTL DEF Spec
<1>3. TypeInv /\ AuthInv => OpenedMeansAuthenticated
  BY DEF TypeInv, TypeOK, AuthInv, TraceInv, TakenInv,
         OpenedMeansAuthenticated, Opened
<1> QED BY <1>1, <1>2, <1>3, PTL

----------------------------------------------------------------------------
(* Teardown: Close and fail release a session's resources once, and        *)
(* completely, for every number of callers of Close.                       *)

Callers == Closers \cup {"open"}    \* who runs Close, as opposed to fail

\* Only the winner of the swap is anywhere in the release sequence, and the
\* winner stays in it until it is through.
OwnerInv ==
  /\ \A p \in Teardown : pc[p] \in DownLabels \cup {"join"} => closedBy = p
  /\ \A p \in Callers : closedBy = p => pc[p] \in DownLabels \cup {"join", "ret"}
  /\ closedBy = "rx" => pc["rx"] \in DownLabels \cup {"exit", "done"}

\* There is nothing to release before the sockets are open, and nobody who
\* could; a Close call needs an open session.
BirthInv ==
  /\ sender = "none" => /\ pc["open"] \in {"sockets", "ret"}
                        /\ pc["rx"] = "off" /\ closedBy = NoProc
  /\ pc["open"] = "sockets" => sender = "none"
  /\ \A c \in Closers : pc[c] # "idle" => pc["open"] = "ok"

\* The send socket is open until its owner closes it.
SenderInv ==
  /\ closedBy = NoProc => sender # "closed"
  /\ \A p \in Teardown :
       pc[p] \in {"end", "cancel", "conn", "sender"} => sender = "open"

\* How far the owner of the release has come: a Close, or fail on the receive
\* loop.
PhaseInv ==
  /\ \A p \in Callers : closedBy = p =>
       /\ pc[p] \in {"sender", "pipe", "join", "ret"} => conn = "closed"
       /\ pc[p] \in {"pipe", "join", "ret"} => sender = "closed"
       /\ pc[p] \in {"join", "ret"} => pipeClosed
       /\ pc[p] = "ret" => pc["rx"] = "done"
  /\ closedBy = "rx" =>
       /\ pc["rx"] \in {"sender", "pipe", "exit", "done"} => conn = "closed"
       /\ pc["rx"] \in {"pipe", "exit", "done"} => sender = "closed"
       /\ pc["rx"] \in {"exit", "done"} => pipeClosed

\* Whoever returns from Close, or from an Open that had opened the sockets,
\* leaves an owner.
LeftInv ==
  \A p \in Callers : pc[p] = "ret" /\ sender # "none" => closedBy # NoProc

DownInv == OwnerInv /\ BirthInv /\ SenderInv /\ PhaseInv /\ LeftInv

----------------------------------------------------------------------------

\* Where Open and the receive loop are while neither releases anything.
OpenBusy == SendLabels \cup {"hello", "salt", "endauth", "flip"}
RxBusy   == {"top", "read", "dispatch", "write"}

\* A step that has no part in opening or releasing the resources.
Quiet ==
  /\ UNCHANGED <<closedBy, conn, sender, pipeClosed>>
  /\ \A c \in Closers : pc'[c] = pc[c]
  /\ \/ pc'["open"] = pc["open"]
     \/ pc["open"] \in OpenBusy /\ pc'["open"] \in OpenBusy \cup {"cas", "ok"}
  /\ \/ pc'["rx"] = pc["rx"]
     \/ pc["rx"] \in RxBusy /\ pc'["rx"] \in RxBusy \cup {"fail", "exit"}

LEMMA DownInit == Init => DownInv
<1> SUFFICES ASSUME Init PROVE DownInv
  OBVIOUS
<1>1. /\ pc["open"] = "sockets" /\ pc["rx"] = "off"
      /\ \A c \in Closers : pc[c] = "idle"
      /\ sender = "none" /\ closedBy = NoProc
  BY ProcNames DEF Init, Procs
<1>2. \A p \in Teardown : pc[p] \in {"sockets", "off", "idle"} /\ p # NoProc
  BY <1>1, ProcNames DEF Teardown, NoProc
<1>3. OwnerInv /\ SenderInv /\ PhaseInv /\ LeftInv
  BY <1>1, <1>2 DEF OwnerInv, SenderInv, PhaseInv, LeftInv, Callers, Teardown,
                    DownLabels, NoProc
<1>4. BirthInv
  BY <1>1 DEF BirthInv
<1> QED BY <1>3, <1>4 DEF DownInv

\* A quiet step disturbs nothing.
LEMMA QuietKeeps ==
  ASSUME DownInv, Quiet
  PROVE  DownInv'
<1> USE ProcNames DEF DownInv, Quiet
<1>1. OwnerInv'
  BY DEF OwnerInv, Callers, Teardown, OpenBusy, RxBusy, SendLabels, DownLabels
<1>2. BirthInv'
  BY DEF BirthInv, OpenBusy, RxBusy, SendLabels
<1>3. SenderInv'
  BY DEF SenderInv, Teardown, OpenBusy, RxBusy, SendLabels
<1>4. PhaseInv'
  BY DEF OwnerInv, PhaseInv, Callers, OpenBusy, RxBusy, SendLabels, DownLabels
<1>5. LeftInv'
  BY DEF LeftInv, Callers, OpenBusy, SendLabels
<1> QED BY <1>1, <1>2, <1>3, <1>4, <1>5

\* The opening of the sockets, or its failure.
LEMMA DownSockets ==
  ASSUME TypeInv, DownInv, OpenSockets
  PROVE  DownInv'
<1> USE ProcNames DEF OpenSockets
<1>1. /\ sender = "none" /\ closedBy = NoProc /\ closedBy' = NoProc
      /\ pc["open"] = "sockets" /\ pc["rx"] = "off"
      /\ \A c \in Closers : pc[c] = "idle"
  BY DEF DownInv, BirthInv
<1>2. /\ \A c \in Closers : pc'[c] = "idle"
      /\ \/ pc'["open"] = "hello" /\ pc'["rx"] = "top" /\ sender' = "open"
         \/ pc'["open"] = "ret" /\ pc'["rx"] = "off" /\ sender' = "none"
  BY <1>1 DEF Goto, TypeInv, TypeOK, Procs
<1>3. \A p \in Teardown : pc'[p] \in {"idle", "hello", "top", "ret", "off"}
                          /\ p # NoProc
  BY <1>2 DEF Teardown, NoProc
<1>4. OwnerInv' /\ SenderInv' /\ PhaseInv'
  BY <1>1, <1>2, <1>3 DEF OwnerInv, SenderInv, PhaseInv, Callers, Teardown,
                          DownLabels, NoProc
<1>6. LeftInv'
  BY <1>2 DEF LeftInv, Callers
<1>5. BirthInv'
  BY <1>1, <1>2 DEF BirthInv
<1> QED BY <1>4, <1>5, <1>6 DEF DownInv

\* The swap of `closed`, by Close and by fail.
LEMMA DownSwap ==
  ASSUME TypeInv, DownInv, UNCHANGED <<conn, sender, pipeClosed>>,
         NEW p \in Teardown,
         \/ p # "rx" /\ pc[p] = "cas" /\ SwapClosed(p, "end", "ret")
         \/ p = "rx" /\ pc[p] = "fail" /\ SwapClosed(p, "cancel", "exit")
  PROVE  DownInv'
<1> USE ProcNames
<1>1. /\ \A q \in Teardown \ {p} : pc'[q] = pc[q]
      /\ \/ /\ closedBy = NoProc /\ closedBy' = p
            /\ pc'[p] = IF p = "rx" THEN "cancel" ELSE "end"
         \/ /\ closedBy # NoProc /\ closedBy' = closedBy
            /\ pc'[p] = IF p = "rx" THEN "exit" ELSE "ret"
  BY DEF SwapClosed, closed, Goto, TypeInv, TypeOK, Procs, Teardown
<1>2. sender # "none" /\ pc["open"] # "sockets"
  BY DEF DownInv, BirthInv, Teardown
<1>3. closedBy # p /\ p # NoProc
  BY DEF DownInv, OwnerInv, Callers, Teardown, DownLabels, NoProc
<1>4. \A q \in Teardown : closedBy = NoProc =>
        pc[q] \notin DownLabels \cup {"join"}
  BY DEF DownInv, OwnerInv, Teardown, NoProc
<1>5. {"end", "cancel"} \subseteq DownLabels
      /\ {"ret", "exit", "join"} \cap DownLabels = {}
  BY DEF DownLabels
<1>6. OwnerInv'
  <2>1. CASE closedBy = NoProc
    BY <1>1, <1>3, <1>4, <1>5, <2>1 DEF OwnerInv, Callers, Teardown
  <2>2. CASE closedBy # NoProc
    BY <1>1, <1>3, <1>5, <2>2 DEF DownInv, OwnerInv, Callers, Teardown
  <2> QED BY <2>1, <2>2
<1>7. BirthInv'
  BY <1>1, <1>2 DEF DownInv, BirthInv, Teardown
<1>8. SenderInv'
  <2>1. closedBy = NoProc => sender = "open"
    BY <1>2 DEF DownInv, SenderInv, TypeInv, TypeOK
  <2> QED BY <1>1, <1>3, <2>1 DEF DownInv, SenderInv
<1>9. PhaseInv'
  BY <1>1, <1>3 DEF DownInv, PhaseInv, Callers, Teardown
<1>10. LeftInv'
  BY <1>1, <1>3 DEF LeftInv
<1> QED BY <1>6, <1>7, <1>8, <1>9, <1>10 DEF DownInv

\* Only the owner runs the release sequence, and pc is a function on the
\* goroutines that may.
LEMMA OwnerMoves ==
  ASSUME TypeInv, DownInv, NEW p \in Teardown,
         pc[p] \in DownLabels \cup {"join"}, NEW l, Goto(p, l)
  PROVE  /\ closedBy = p /\ p # NoProc
         /\ pc'[p] = l /\ \A q \in Teardown \ {p} : pc'[q] = pc[q]
         /\ \A q \in Teardown \ {p} : pc[q] \notin DownLabels \cup {"join"}
         /\ sender # "none" /\ pc["open"] # "sockets"
<1> USE ProcNames
<1>1. closedBy = p /\ p # NoProc
  BY DEF DownInv, OwnerInv, Teardown, NoProc
<1>2. pc'[p] = l /\ \A q \in Teardown \ {p} : pc'[q] = pc[q]
  BY DEF Goto, TypeInv, TypeOK, Procs, Teardown
<1>3. \A q \in Teardown \ {p} : pc[q] \notin DownLabels \cup {"join"}
  BY <1>1 DEF DownInv, OwnerInv
<1>4. sender # "none" /\ pc["open"] # "sockets"
  BY <1>1 DEF DownInv, BirthInv
<1> QED BY <1>1, <1>2, <1>3, <1>4

\* The release sequence: each call leaves the next one to its owner.
LEMMA DownRelease ==
  ASSUME TypeInv, DownInv, NEW p \in Teardown,
         SendEnd(p) \/ Cancel(p) \/ CloseConn(p) \/ CloseSender(p)
         \/ ClosePipe(p) \/ Join(p)
  PROVE  DownInv'
<1> USE ProcNames
<1>l. pc[p] \in DownLabels \cup {"join"}
  BY DEF SendEnd, Cancel, CloseConn, CloseSender, ClosePipe, Join, DownLabels
<1>g. \E l : Goto(p, l)
  BY DEF SendEnd, Cancel, CloseConn, CloseSender, ClosePipe, Join
<1>o. /\ closedBy = p /\ p # NoProc
      /\ \A q \in Teardown \ {p} : pc'[q] = pc[q]
      /\ \A q \in Teardown \ {p} : pc[q] \notin DownLabels \cup {"join"}
      /\ sender # "none" /\ pc["open"] # "sockets"
  BY <1>l, <1>g, OwnerMoves
<1>n. /\ closedBy' = closedBy
      /\ \/ /\ pc[p] = "end" /\ pc'[p] = "cancel"
            /\ UNCHANGED <<conn, sender, pipeClosed>>
         \/ /\ pc[p] = "cancel" /\ pc'[p] = "conn"
            /\ UNCHANGED <<conn, sender, pipeClosed>>
         \/ /\ pc[p] = "conn" /\ pc'[p] = "sender"
            /\ conn' = "closed" /\ UNCHANGED <<sender, pipeClosed>>
         \/ /\ pc[p] = "sender" /\ pc'[p] = "pipe"
            /\ sender' = "closed" /\ UNCHANGED <<conn, pipeClosed>>
         \/ /\ pc[p] = "pipe" /\ pc'[p] = IF p = "rx" THEN "exit" ELSE "join"
            /\ pipeClosed' = TRUE /\ UNCHANGED <<conn, sender>>
         \/ /\ pc[p] = "join" /\ pc'[p] = "ret" /\ pc["rx"] = "done"
            /\ UNCHANGED <<conn, sender, pipeClosed>>
  BY <1>l, OwnerMoves DEF SendEnd, Cancel, CloseConn, CloseSender, ClosePipe,
     Join, downVars
<1>1. OwnerInv'
  BY <1>o, <1>n DEF DownInv, OwnerInv, Callers, Teardown, DownLabels
<1>2. BirthInv'
  BY <1>o, <1>n DEF DownInv, BirthInv, Teardown, DownLabels
<1>3. SenderInv'
  BY <1>o, <1>n DEF DownInv, SenderInv, DownLabels
<1>4. PhaseInv'
  BY <1>o, <1>n DEF DownInv, PhaseInv, Callers, Teardown, DownLabels
<1>5. LeftInv'
  BY <1>o, <1>n DEF LeftInv
<1> QED BY <1>1, <1>2, <1>3, <1>4, <1>5 DEF DownInv

\* The receive loop's deferred calls.
LEMMA DownRxExit ==
  ASSUME TypeInv, DownInv, RxExit
  PROVE  DownInv'
<1> USE ProcNames
<1>1. /\ pc["rx"] = "exit" /\ pc'["rx"] = "done" /\ pipeClosed' = TRUE
      /\ UNCHANGED <<closedBy, conn, sender>>
      /\ \A q \in Callers : pc'[q] = pc[q]
  BY DEF RxExit, Goto, TypeInv, TypeOK, Procs, Callers
<1>2. OwnerInv' /\ SenderInv' /\ PhaseInv'
  BY <1>1 DEF DownInv, OwnerInv, SenderInv, PhaseInv, Callers, Teardown,
              DownLabels
<1>3. BirthInv' /\ LeftInv'
  BY <1>1 DEF DownInv, BirthInv, LeftInv, Callers
<1> QED BY <1>2, <1>3 DEF DownInv

\* Close is called.
LEMMA DownClose ==
  ASSUME TypeInv, DownInv, NEW c \in Closers, Close(c)
  PROVE  DownInv'
<1> USE ProcNames
<1>1. /\ pc["open"] = "ok" /\ pc[c] = "idle" /\ pc'[c] = "cas"
      /\ UNCHANGED <<closedBy, conn, sender, pipeClosed>>
      /\ \A q \in Teardown \ {c} : pc'[q] = pc[q]
  BY DEF Close, Opened, Goto, TypeInv, TypeOK, Procs, Teardown, downVars
<1>2. OwnerInv' /\ SenderInv' /\ PhaseInv'
  BY <1>1 DEF DownInv, OwnerInv, SenderInv, PhaseInv, Callers, Teardown,
              DownLabels
<1>3. BirthInv' /\ LeftInv'
  BY <1>1 DEF DownInv, BirthInv, LeftInv, Callers, Teardown
<1> QED BY <1>2, <1>3 DEF DownInv

\* One goroutine other than a closer moves, and the resources stay.
LEMMA MoveQuiet ==
  ASSUME TypeInv, UNCHANGED <<closedBy, conn, sender, pipeClosed>>,
         NEW p \in Writers \cup {"open", "rx", "ka", "rd"}, NEW l, Goto(p, l),
         p = "open" => /\ pc["open"] \in OpenBusy
                       /\ l \in OpenBusy \cup {"cas", "ok"},
         p = "rx" => /\ pc["rx"] \in RxBusy
                     /\ l \in RxBusy \cup {"fail", "exit"}
  PROVE  Quiet
<1>1. /\ \A q \in Procs \ {p} : pc'[q] = pc[q]
      /\ pc'[p] = l
  BY DEF Goto, TypeInv, TypeOK, Procs
<1> QED BY <1>1, ProcNames DEF Quiet, Procs

\* Nothing moves but what no part of the teardown looks at.
LEMMA StillQuiet ==
  ASSUME UNCHANGED <<pc, closedBy, conn, sender, pipeClosed>>
  PROVE  Quiet
BY DEF Quiet

LEMMA SendQuiet ==
  ASSUME TypeInv, NEW t \in Senders, SendStep(t)
  PROVE  Quiet
<1>1. UNCHANGED <<closedBy, conn, sender, pipeClosed>>
  BY DEF SendStep, LockAndReserve, Xmit, RecvAck, WaitCancelled, AckTimeout,
         Rexmit, SendUnchanged, downVars
<1>2. pc[t] \in OpenBusy
  BY DEF SendStep, LockAndReserve, Xmit, RecvAck, WaitCancelled, AckTimeout,
         Rexmit, OpenBusy, SendLabels
<1>3. t \in Writers \cup {"open", "rx", "ka", "rd"} /\ t # "rx"
  BY ProcNames DEF Senders
<1>4. ASSUME NEW l \in OpenBusy \cup {"cas"}, Goto(t, l)
      PROVE  Quiet
  BY <1>1, <1>2, <1>3, <1>4, MoveQuiet
<1>5. ASSUME NEW ok \in BOOLEAN, Return(t, ok)
      PROVE  Quiet
  <2>1. CASE t \in Writers
    BY <1>1, <1>3, <1>5, <2>1, ProcNames, MoveQuiet DEF Return
  <2>2. CASE t \notin Writers
    <3>1. AfterSend(t, ok) \in OpenBusy \cup {"cas"}
      BY <2>2 DEF AfterSend, OpenBusy
    <3> QED BY <1>4, <1>5, <3>1 DEF Return
  <2> QED BY <2>1, <2>2
<1>6. {"xmit", "wait", "rexmit"} \subseteq OpenBusy
  BY DEF OpenBusy, SendLabels
<1>7. CASE LockAndReserve(t)
  BY <1>4, <1>6, <1>7 DEF LockAndReserve
<1>8. CASE Xmit(t)
  BY <1>4, <1>5, <1>6, <1>8 DEF Xmit
<1>9. CASE RecvAck(t)
  BY <1>1, <1>5, <1>9, StillQuiet DEF RecvAck
<1>10. CASE WaitCancelled(t)
  BY <1>5, <1>10 DEF WaitCancelled
<1>11. CASE AckTimeout(t)
  BY <1>4, <1>6, <1>11 DEF AckTimeout
<1>12. CASE Rexmit(t)
  BY <1>4, <1>5, <1>6, <1>12 DEF Rexmit
<1> QED BY <1>7, <1>8, <1>9, <1>10, <1>11, <1>12 DEF SendStep

LEMMA CallersQuiet ==
  ASSUME TypeInv, NEW t \in Writers,
         Resize(t) \/ \E n \in 0 .. MaxPayload : Write(t, n)
  PROVE  Quiet
<1>1. UNCHANGED <<closedBy, conn, sender, pipeClosed>>
  BY DEF Resize, Write, CallerUnchanged, downVars
<1>2. UNCHANGED pc \/ Goto(t, "lock")
  BY DEF Resize, Write, Call
<1> QED BY <1>1, <1>2, ProcNames, MoveQuiet, StillQuiet

LEMMA OpenQuiet ==
  ASSUME TypeInv, OpenStep, ~OpenSockets
  PROVE  Quiet
<1> USE DEF HandshakeUnchanged, downVars
<1>1. ASSUME pc["open"] \in {"hello", "salt", "endauth"},
             NEW l \in {"lock", "cas", "flip"}, Goto("open", l),
             UNCHANGED <<closedBy, conn, sender, pipeClosed>>
      PROVE  Quiet
  <2>1. pc["open"] \in OpenBusy /\ l \in OpenBusy \cup {"cas"}
    BY <1>1 DEF OpenBusy, SendLabels
  <2> QED BY <1>1, <2>1, MoveQuiet
<1>2. CASE sendSessionStart
  BY <1>1, <1>2 DEF sendSessionStart, Call
<1>3. CASE AwaitSalt
  BY <1>1, <1>3, StillQuiet DEF AwaitSalt, AfterSalt, Call
<1>4. CASE AwaitEndAuth
  BY <1>1, <1>4, StillQuiet DEF AwaitEndAuth
<1>5. CASE HandshakeTimeout
  BY <1>1, <1>5 DEF HandshakeTimeout
<1>6. CASE EnterTerminalMode
  <2>1. /\ pc["open"] = "flip" /\ pc'["open"] = "ok" /\ pc'["rx"] = pc["rx"]
        /\ \A c \in Closers : pc'[c] = pc[c]
    BY <1>6, ProcNames DEF EnterTerminalMode, TypeInv, TypeOK, Procs
  <2> QED BY <1>6, <2>1 DEF EnterTerminalMode, Quiet, OpenBusy
<1> QED BY <1>2, <1>3, <1>4, <1>5, <1>6 DEF OpenStep

LEMMA RxQuiet ==
  ASSUME TypeInv, RxStep \/ ReadStep, ~FailSwap, ~RxExit
  PROVE  Quiet
<1> USE DEF downVars
<1>1. ASSUME pc["rx"] \in RxBusy,
             NEW l \in RxBusy \cup {"fail", "exit"}, Goto("rx", l),
             UNCHANGED <<closedBy, conn, sender, pipeClosed>>
      PROVE  Quiet
  BY <1>1, MoveQuiet
<1>2. ASSUME pc["rx"] \in RxBusy, NextRecord,
             UNCHANGED <<closedBy, conn, sender, pipeClosed>>
      PROVE  Quiet
  BY <1>1, <1>2 DEF NextRecord, RxBusy
<1>3. CASE RxCheck
  BY <1>1, <1>3 DEF RxCheck, RxBusy
<1>4. CASE RxNothing
  BY <1>1, <1>4 DEF RxNothing, RxBusy
<1>5. CASE RxSocketClosed
  BY <1>1, <1>5 DEF RxSocketClosed, RxBusy
<1>6. CASE RxSocketError
  BY <1>1, <1>6 DEF RxSocketError, RxBusy
<1>7. ASSUME NEW m \in toUs, RxAck(m) \/ RxEnd(m)
      PROVE  Quiet
  BY <1>1, <1>7 DEF RxAck, RxEnd, Receives, RxBusy
<1>8. ASSUME NEW m \in toUs, RxData(m)
      PROVE  Quiet
  BY <1>1, <1>8 DEF RxData, Receives, RxBusy
<1>9. CASE DispatchPlain
  BY <1>1, <1>2, <1>9 DEF DispatchPlain, RxBusy
<1>10. CASE DispatchControl
  BY <1>1, <1>2, <1>10 DEF DispatchControl, RxBusy
<1>11. CASE WriteBrokenPipe
  BY <1>2, <1>11 DEF WriteBrokenPipe, RxBusy
<1>12. CASE Read
  BY <1>2, <1>12 DEF Read, RxBusy
<1>13. CASE ReadEOF
  BY <1>13, MoveQuiet DEF ReadEOF
<1> QED BY <1>3, <1>4, <1>5, <1>6, <1>7, <1>8, <1>9, <1>10, <1>11, <1>12,
           <1>13 DEF RxStep, ReadStep

LEMMA OthersQuiet ==
  ASSUME TypeInv, KaStep \/ PeerStep \/ ParentCancel \/ UNCHANGED vars
  PROVE  Quiet
<1> USE DEF downVars
<1>1. CASE KaStep
  BY <1>1, MoveQuiet, StillQuiet DEF KaStep, KeepaliveTick, KeepaliveStop,
                                     KaUnchanged
<1>2. CASE PeerStep
  BY <1>2, StillQuiet DEF PeerStep, PeerHello, PeerSend, PeerEnd, PeerData,
                          PeerUnchanged
<1>3. CASE ParentCancel
  BY <1>3, StillQuiet DEF ParentCancel
<1>4. CASE UNCHANGED vars
  BY <1>4, StillQuiet DEF vars
<1> QED BY <1>1, <1>2, <1>3, <1>4

\* DownInv is inductive relative to TypeInv.
LEMMA DownNext == TypeInv /\ DownInv /\ [Next]_vars => DownInv'
<1> SUFFICES ASSUME TypeInv, DownInv, [Next]_vars
             PROVE  DownInv'
  OBVIOUS
<1>1. ASSUME NEW p \in Teardown, DownStep(p)
      PROVE  DownInv'
  BY <1>1, DownSwap, DownRelease DEF DownStep, CloseSwap
<1>2. CASE FailSwap
  BY <1>2, DownSwap DEF FailSwap, Teardown
<1>3. CASE OpenStep
  BY <1>3, DownSockets, OpenQuiet, QuietKeeps
<1>4. CASE RxStep \/ ReadStep
  BY <1>2, <1>4, DownRxExit, RxQuiet, QuietKeeps
<1>5. CASE \E c \in Closers : Close(c)
  BY <1>5, DownClose
<1>6. CASE \E t \in Senders : SendStep(t)
  BY <1>6, SendQuiet, QuietKeeps
<1>7. CASE \E t \in Writers :
             Resize(t) \/ \E n \in 0 .. MaxPayload : Write(t, n)
  BY <1>7, CallersQuiet, QuietKeeps
<1>8. CASE KaStep \/ PeerStep \/ ParentCancel \/ UNCHANGED vars
  BY <1>8, OthersQuiet, QuietKeeps
<1> QED BY <1>1, <1>3, <1>4, <1>5, <1>6, <1>7, <1>8 DEF Next, Finished

LEMMA DownAlways == Spec => []DownInv
<1>1. Spec => []TypeInv
  BY TypeInit, TypeNext, PTL DEF Spec
<1> QED BY <1>1, DownInit, DownNext, PTL DEF Spec

\* However many goroutines call Close, and whether or not the receive loop
\* calls fail at the same time, only the winner of closed.CompareAndSwap
\* releases the resources: the send socket's raw descriptor is closed at most
\* once, and it is open whenever its owner sends END or is about to close it.
THEOREM ReleasedOnce == Spec => []SocketClosedOnce
<1>1. DownInv => SocketClosedOnce
  BY DEF DownInv, OwnerInv, SenderInv, SocketClosedOnce, Teardown
<1> QED BY <1>1, DownAlways, PTL

\* When a Close, or an Open that fails, returns, the sockets and the pipe are
\* closed, with the receive loop ended if it won the swap; one that lost it
\* may come back before that, but never with the winner gone.
THEOREM ReleasedFully == Spec => []CloseReleases
<1>1. TypeInv /\ DownInv => CloseReleases
  <2> SUFFICES ASSUME TypeInv, DownInv, NEW p \in Callers,
                      pc[p] = "ret", sender # "none"
               PROVE  IF closedBy = p THEN Released /\ pc["rx"] = "done"
                      ELSE Released \/ \E q \in Teardown \ {p} :
                                         closedBy = q /\ pc[q] \in DownLabels
    BY DEF CloseReleases, Callers
  <2>1. CASE closedBy = p
    BY <2>1 DEF DownInv, PhaseInv, Released
  <2>2. CASE closedBy # p
    <3>1. closedBy \in Callers \cup {"rx"} /\ closedBy \in Teardown \ {p}
      BY <2>2 DEF DownInv, LeftInv, TypeInv, TypeOK, Callers, Teardown
    <3>2. CASE pc[closedBy] \in DownLabels
      BY <2>2, <3>1, <3>2
    <3>3. CASE pc[closedBy] \notin DownLabels
      <4>1. CASE closedBy \in Callers
        BY <2>2, <3>3, <4>1 DEF DownInv, OwnerInv, PhaseInv, Released
      <4>2. CASE closedBy = "rx"
        BY <2>2, <3>3, <4>2 DEF DownInv, OwnerInv, PhaseInv, Released
      <4> QED BY <3>1, <4>1, <4>2
    <3> QED BY <3>2, <3>3
  <2> QED BY <2>1, <2>2
<1>2. Spec => []TypeInv
  BY TypeInit, TypeNext, PTL DEF Spec
<1> QED BY <1>1, <1>2, DownAlways, PTL

=============================================================================

------------------------------ MODULE SshProofs ------------------------------
(***************************************************************************)
(* Proofs about SshSession, for whatever the client types and requests:    *)
(* the channels between the goroutines keep their capacities, chReader has *)
(* one reader, the channel is closed only behind the session, and the      *)
(* device gets what was typed behind the password, byte for byte.          *)
(***************************************************************************)
EXTENDS SshSession, Induction, TLAPS

\* What the type invariant leaves out.
MoreTypes ==
  /\ chClosed \in BOOLEAN /\ clientGone \in BOOLEAN /\ eof \in BOOLEAN
  /\ npkt \in Nat /\ arrived \in Seq(STRING) /\ buf \in Seq(STRING)
  /\ rc \in Codes /\ winch \in Sizes \cup {NoSize}
  /\ resizer = "resize" => winch \in Sizes

\* How far exec is, and who it has started.  A prompt that timed out leaves
\* its goroutine behind, but then no session is opened.
StageInv ==
  /\ execStarted <=> exec # "off"
  /\ exec # "done" => execDone = << >>
  /\ hs \in {"ret", "done"} => exec \in {"off", "done"} /\ execDone = << >>
  /\ hs = "drain" => execStarted
  /\ chClosed => hs = "done"
  /\ sess = "open" => exec \in {"select", "close"}
  /\ exec \in {"off", "start"} => prompter = "off"
  /\ prompter \in {"ask", "read"} =>
       exec \in {"prompt", "ret", "done"} /\ pumpIn = "off"
  /\ exec \in {"off", "start", "prompt", "open"} => pumpIn = "off" /\ pumpOut = "off"

\* A result or an error is sent once by whoever is done.
ResultInv ==
  /\ prompter # "done" => resCh = << >>
  /\ pumpIn # "done" /\ pumpOut # "done" => errCh = << >>
  /\ pumpIn # "done" \/ pumpOut # "done" => Len(errCh) <= 1

SshInv == SshTypeOK /\ MoreTypes /\ StageInv /\ ResultInv

----------------------------------------------------------------------------
(* Sequences.                                                              *)

LEMMA MinOfTwo ==
  ASSUME NEW a \in Nat, NEW b \in Nat
  PROVE  Min({a, b}) \in Nat /\ Min({a, b}) <= a /\ Min({a, b}) <= b
<1>1. \E x \in {a, b} : \A y \in {a, b} : x <= y
  BY SMT
<1> QED BY <1>1, SMT DEF Min

LEMMA AppendIs ==
  ASSUME NEW S, NEW q \in Seq(S), NEW e \in S
  PROVE  Append(q, e) \in Seq(S) /\ Len(Append(q, e)) = Len(q) + 1
BY SMT

LEMMA TailIs ==
  ASSUME NEW S, NEW q \in Seq(S), q # << >>
  PROVE  /\ Tail(q) \in Seq(S) /\ Len(Tail(q)) = Len(q) - 1
         /\ Head(q) \in S /\ Len(q) \in Nat \ {0}
BY SMT

LEMMA EmptyIs ==
  ASSUME NEW S, NEW q \in Seq(S)
  PROVE  Len(q) \in Nat /\ (Len(q) = 0 <=> q = << >>) /\ << >> \in Seq(S)
BY SMT

----------------------------------------------------------------------------
(* The steps.                                                              *)

LEMMA SshInit == Init => SshInv
<1> SUFFICES ASSUME Init PROVE SshInv
  OBVIOUS
<1>0. \A S : << >> \in Seq(S) /\ Len(<< >>) = 0
  BY SMT
<1>1. SshTypeOK
  <2>1. {WinchCap, BufSize, MaxPassLen} \subseteq Nat
    BY SshAssumption DEF SshAssumption
  <2>2. pwdLen \in 0 .. MaxPassLen /\ Len(winchCh) <= WinchCap /\ Len(buf) <= BufSize
    BY <2>1, <1>0, SMT DEF Init
  <2>3. execStarted \in BOOLEAN /\ cancelled \in BOOLEAN
    BY Zenon DEF Init
  <2> QED BY <1>0, <2>2, <2>3, SMT DEF Init, SshTypeOK
<1>2. MoreTypes
  <2>1. chClosed \in BOOLEAN /\ clientGone \in BOOLEAN /\ eof \in BOOLEAN
    BY Zenon DEF Init
  <2> QED BY <1>0, <2>1, SMT DEF Init, MoreTypes, Codes
<1>3. StageInv /\ ResultInv
  BY <1>0, SMT DEF Init, StageInv, ResultInv
<1> QED BY <1>1, <1>2, <1>3 DEF SshInv

LEMMA PtyReqKeeps ==
  ASSUME SshInv, NEW size \in Sizes, PtyReq(size)
  PROVE  SshInv'
<1> USE DEF SshInv, PtyReq, Request, ReqUnchanged, chVars, inVars, askVars,
            pumpVars, sizeVars
<1>1. SshTypeOK'
  <2>1. ptySize' \in Sizes \cup {NoSize}
    OBVIOUS
  <2> QED BY <2>1 DEF SshTypeOK
<1>2. MoreTypes'
  BY SMT DEF SshTypeOK, MoreTypes, StageInv, ResultInv, Codes
<1>3. StageInv' /\ ResultInv'
  BY SMT DEF SshTypeOK, StageInv, ResultInv
<1> QED BY <1>1, <1>2, <1>3

LEMMA WindowChangeKeeps ==
  ASSUME SshInv, NEW size \in Sizes, WindowChange(size)
  PROVE  SshInv'
<1> USE DEF SshInv, WindowChange, Request, ReqUnchanged, chVars, inVars, askVars,
            pumpVars, sizeVars
<1>1. SshTypeOK'
  <2>1. winchCh \in Seq(Sizes) /\ Len(winchCh) <= WinchCap /\ WinchCap \in Nat
    BY SshAssumption DEF SshTypeOK, SshAssumption
  <2>2. winchCh' \in Seq(Sizes) /\ Len(winchCh') <= WinchCap
    BY <2>1, AppendIs, EmptyIs, SMT
  <2> QED BY <2>2 DEF SshTypeOK
<1>2. MoreTypes'
  BY AppendIs, SMT DEF SshTypeOK, MoreTypes, StageInv, ResultInv, Codes
<1>3. StageInv' /\ ResultInv'
  BY AppendIs, SMT DEF SshTypeOK, StageInv, ResultInv
<1> QED BY <1>1, <1>2, <1>3

LEMMA ExecReqKeeps ==
  ASSUME SshInv, NEW cmd \in Commands, ExecReq(cmd)
  PROVE  SshInv'
<1> USE DEF SshInv, ExecReq, Request, chVars, inVars, askVars, pumpVars, sizeVars
<1>1. SshTypeOK'
  <2>1. execStarted' \in BOOLEAN /\ cancelled' \in BOOLEAN
    BY Zenon DEF SshTypeOK
  <2>2. exec' \in {exec, "start"}
    OBVIOUS
  <2> QED BY <2>1, <2>2, SMT DEF SshTypeOK
<1>2. MoreTypes'
  BY SMT DEF SshTypeOK, MoreTypes, StageInv, ResultInv, Codes
<1>3. StageInv' /\ ResultInv'
  BY SMT DEF SshTypeOK, StageInv, ResultInv
<1> QED BY <1>1, <1>2, <1>3

LEMMA OtherReqKeeps ==
  ASSUME SshInv, OtherReq
  PROVE  SshInv'
<1> USE DEF SshInv, OtherReq, Request, ReqUnchanged, chVars, inVars, askVars,
            pumpVars, sizeVars
<1>1. SshTypeOK'
  BY SMT DEF SshTypeOK, MoreTypes, StageInv, ResultInv, Codes
<1>2. MoreTypes'
  BY SMT DEF SshTypeOK, MoreTypes, StageInv, ResultInv, Codes
<1>3. StageInv' /\ ResultInv'
  BY SMT DEF SshTypeOK, StageInv, ResultInv
<1> QED BY <1>1, <1>2, <1>3

LEMMA ReqsClosedKeeps ==
  ASSUME SshInv, ReqsClosed
  PROVE  SshInv'
<1> USE DEF SshInv, ReqsClosed, ReqUnchanged, reqVars, chVars, inVars, execVars,
            askVars, pumpVars, sizeVars
<1>1. SshTypeOK'
  BY SMT DEF SshTypeOK, MoreTypes, StageInv, ResultInv, Codes
<1>2. MoreTypes'
  BY SMT DEF SshTypeOK, MoreTypes, StageInv, ResultInv, Codes
<1>3. StageInv' /\ ResultInv'
  BY SMT DEF SshTypeOK, StageInv, ResultInv
<1> QED BY <1>1, <1>2, <1>3

LEMMA ExecDrainedKeeps ==
  ASSUME SshInv, ExecDrained
  PROVE  SshInv'
<1> USE DEF SshInv, ExecDrained, reqVars, chVars, inVars, execVars, askVars,
            pumpVars, sizeVars
<1>1. SshTypeOK'
  BY TailIs, EmptyIs, SMT DEF SshTypeOK, MoreTypes, StageInv, ResultInv, Codes
<1>2. MoreTypes'
  BY TailIs, EmptyIs, SMT DEF SshTypeOK, MoreTypes, StageInv, ResultInv, Codes
<1>3. StageInv' /\ ResultInv'
  BY TailIs, EmptyIs, SMT DEF SshTypeOK, StageInv, ResultInv
<1> QED BY <1>1, <1>2, <1>3

LEMMA sendExitStatusKeeps ==
  ASSUME SshInv, sendExitStatus
  PROVE  SshInv'
<1> USE DEF SshInv, sendExitStatus, reqVars, chVars, inVars, execVars, askVars,
            pumpVars, sizeVars
<1>1. SshTypeOK'
  BY TailIs, EmptyIs, AppendIs, SMT DEF SshTypeOK, MoreTypes, StageInv, ResultInv, Codes
<1>2. MoreTypes'
  BY TailIs, EmptyIs, AppendIs, SMT DEF SshTypeOK, MoreTypes, StageInv, ResultInv, Codes
<1>3. StageInv' /\ ResultInv'
  BY TailIs, EmptyIs, AppendIs, SMT DEF SshTypeOK, StageInv, ResultInv
<1> QED BY <1>1, <1>2, <1>3

LEMMA HandleReturnKeeps ==
  ASSUME SshInv, HandleReturn
  PROVE  SshInv'
<1> USE DEF SshInv, HandleReturn, reqVars, chVars, inVars, execVars, askVars,
            pumpVars, sizeVars
<1>1. SshTypeOK'
  BY SMT DEF SshTypeOK, MoreTypes, StageInv, ResultInv, Codes
<1>2. MoreTypes'
  BY SMT DEF SshTypeOK, MoreTypes, StageInv, ResultInv, Codes
<1>3. StageInv' /\ ResultInv'
  BY SMT DEF SshTypeOK, StageInv, ResultInv
<1> QED BY <1>1, <1>2, <1>3

LEMMA DispatchExecKeeps ==
  ASSUME SshInv, DispatchExec
  PROVE  SshInv'
<1> USE DEF SshInv, ExecUnchanged, reqVars, chVars, inVars, execVars, askVars,
            pumpVars, sizeVars
<1>1. /\ exec = "start" /\ prompter = "off" /\ pumpIn = "off" /\ pumpOut = "off"
      /\ execDone = << >> /\ sess # "open" /\ hs \notin {"ret", "done"}
  BY DEF DispatchExec, StageInv
<1>2. /\ deviceSize' \in {deviceSize, ptySize}
      /\ rc' \in Codes
      /\ \/ exec' = "prompt" /\ prompter' = "ask"
         \/ exec' \in {"open", "ret"} /\ prompter' = prompter
  <2>1. rc \in Codes /\ {0, 1, 2} \subseteq Codes /\ {2, 127} \subseteq Codes
    BY DEF MoreTypes, Codes
  <2> QED BY <2>1, Zenon DEF DispatchExec
<1>3. UNCHANGED <<hs, reqVars, cancelled, chVars, inVars, buf, command, execDone, pwdLen,
                  resCh, pumpVars, resizer, winch, sess, deviceIn>>
  BY DEF DispatchExec
<1>4. SshTypeOK'
  BY <1>1, <1>2, <1>3, SMT DEF SshTypeOK
<1>5. MoreTypes'
  BY <1>2, <1>3, SMT DEF MoreTypes
<1>6. StageInv' /\ ResultInv'
  BY <1>1, <1>2, <1>3, SMT DEF StageInv, ResultInv
<1> QED BY <1>4, <1>5, <1>6

LEMMA PasswordResultKeeps ==
  ASSUME SshInv, PasswordResult
  PROVE  SshInv'
<1> USE DEF SshInv, PasswordResult, ExecUnchanged, reqVars, chVars, inVars,
            execVars, askVars, pumpVars, sizeVars
<1>1. SshTypeOK'
  BY TailIs, EmptyIs, SMT DEF SshTypeOK, MoreTypes, StageInv, ResultInv, Codes
<1>2. MoreTypes'
  BY TailIs, EmptyIs, SMT DEF SshTypeOK, MoreTypes, StageInv, ResultInv, Codes
<1>3. StageInv' /\ ResultInv'
  BY TailIs, EmptyIs, SMT DEF SshTypeOK, StageInv, ResultInv
<1> QED BY <1>1, <1>2, <1>3

LEMMA PromptTimeoutKeeps ==
  ASSUME SshInv, PromptTimeout
  PROVE  SshInv'
<1> USE DEF SshInv, PromptTimeout, ExecUnchanged, reqVars, chVars, inVars, execVars,
            askVars, pumpVars, sizeVars
<1>1. SshTypeOK'
  BY SMT DEF SshTypeOK, MoreTypes, StageInv, ResultInv, Codes
<1>2. MoreTypes'
  BY SMT DEF SshTypeOK, MoreTypes, StageInv, ResultInv, Codes
<1>3. StageInv' /\ ResultInv'
  BY SMT DEF SshTypeOK, StageInv, ResultInv
<1> QED BY <1>1, <1>2, <1>3

LEMMA OpenSessionKeeps ==
  ASSUME SshInv, OpenSession
  PROVE  SshInv'
<1> USE DEF SshInv, OpenSession, ExecUnchanged, reqVars, chVars, inVars, execVars,
            askVars, pumpVars, sizeVars
<1>1. SshTypeOK'
  BY SMT DEF SshTypeOK, MoreTypes, StageInv, ResultInv, Codes
<1>2. MoreTypes'
  BY SMT DEF SshTypeOK, MoreTypes, StageInv, ResultInv, Codes
<1>3. StageInv' /\ ResultInv'
  BY SMT DEF SshTypeOK, StageInv, ResultInv
<1> QED BY <1>1, <1>2, <1>3

LEMMA SelectDoneKeeps ==
  ASSUME SshInv, SelectDone
  PROVE  SshInv'
<1> USE DEF SshInv, SelectDone, ExecUnchanged, reqVars, chVars, inVars, execVars,
            askVars, pumpVars, sizeVars
<1>1. SshTypeOK'
  <2>1. errCh' \in Seq({"clean", "error"}) /\ Len(errCh') <= 2
    BY TailIs, SMT DEF SshTypeOK
  <2> QED BY <2>1, SMT DEF SshTypeOK
<1>2. MoreTypes'
  BY TailIs, EmptyIs, SMT DEF SshTypeOK, MoreTypes, StageInv, ResultInv, Codes
<1>3. StageInv' /\ ResultInv'
  BY TailIs, EmptyIs, SMT DEF SshTypeOK, StageInv, ResultInv
<1> QED BY <1>1, <1>2, <1>3

LEMMA CloseSessionKeeps ==
  ASSUME SshInv, CloseSession
  PROVE  SshInv'
<1> USE DEF SshInv, CloseSession, ExecUnchanged, reqVars, chVars, inVars, execVars,
            askVars, pumpVars, sizeVars
<1>1. SshTypeOK'
  BY SMT DEF SshTypeOK, MoreTypes, StageInv, ResultInv, Codes
<1>2. MoreTypes'
  BY SMT DEF SshTypeOK, MoreTypes, StageInv, ResultInv, Codes
<1>3. StageInv' /\ ResultInv'
  BY SMT DEF SshTypeOK, StageInv, ResultInv
<1> QED BY <1>1, <1>2, <1>3

LEMMA ExecReturnKeeps ==
  ASSUME SshInv, ExecReturn
  PROVE  SshInv'
<1> USE DEF SshInv, ExecReturn, ExecUnchanged, reqVars, chVars, inVars, execVars,
            askVars, pumpVars, sizeVars
<1>1. SshTypeOK'
  BY AppendIs, SMT DEF SshTypeOK, MoreTypes, StageInv, ResultInv, Codes
<1>2. MoreTypes'
  BY AppendIs, SMT DEF SshTypeOK, MoreTypes, StageInv, ResultInv, Codes
<1>3. StageInv' /\ ResultInv'
  BY AppendIs, SMT DEF SshTypeOK, StageInv, ResultInv
<1> QED BY <1>1, <1>2, <1>3

LEMMA FillIs ==
  ASSUME SshInv, Fill
  PROVE  /\ buf' \in Seq(STRING) /\ arrived' \in Seq(STRING) /\ Len(buf') <= BufSize
<1>1. arrived \in Seq(STRING) /\ BufSize \in Nat
  BY SshAssumption DEF SshInv, MoreTypes, SshAssumption
<1>2. PICK n : n = Min({Len(arrived), BufSize})
  OBVIOUS
<1>3. n \in Nat /\ n <= Len(arrived) /\ n <= BufSize /\ Len(arrived) \in Nat
  BY <1>1, <1>2, EmptyIs, MinOfTwo
<1>4. buf' = SubSeq(arrived, 1, n) /\ arrived' = SubSeq(arrived, n + 1, Len(arrived))
  BY <1>2 DEF Fill
<1> QED BY <1>1, <1>3, <1>4, SMT

LEMMA AskKeeps ==
  ASSUME SshInv, Ask
  PROVE  SshInv'
<1> USE DEF SshInv, Ask, AskUnchanged, PromptReturn, reqVars, chVars, inVars,
            execVars, askVars, pumpVars, sizeVars
<1>1. SshTypeOK'
  <2>1. resCh' \in Seq({"ok", "error"}) /\ Len(resCh') <= 1
    <3>1. resCh = << >> /\ resCh \in Seq({"ok", "error"})
      BY DEF SshTypeOK, ResultInv
    <3>2. resCh' \in {resCh, Append(resCh, "error")}
      BY Zenon
    <3>3. \A q \in {resCh, Append(resCh, "error")} :
            q \in Seq({"ok", "error"}) /\ Len(q) <= 1
      <4>1. Append(resCh, "error") \in Seq({"ok", "error"})
        BY <3>1, AppendIs
      <4>2. Len(resCh) <= 1 /\ Len(Append(resCh, "error")) <= 1
        BY <3>1, SMT
      <4> QED BY <3>1, <4>1, <4>2, Zenon
    <3> QED BY <3>2, <3>3, Zenon
  <2>2. prompter' \in {"read", "done"}
    BY Zenon
  <2> QED BY <2>1, <2>2, SMT DEF SshTypeOK
<1>2. MoreTypes'
  BY AppendIs, EmptyIs, SMT DEF SshTypeOK, MoreTypes, StageInv, ResultInv
<1>3. StageInv' /\ ResultInv'
  BY AppendIs, EmptyIs, SMT DEF SshTypeOK, StageInv, ResultInv
<1> QED BY <1>1, <1>2, <1>3

LEMMA PromptFillKeeps ==
  ASSUME SshInv, PromptFill
  PROVE  SshInv'
<1> USE DEF SshInv, PromptFill, AskUnchanged, PromptReturn, reqVars, chVars, inVars,
            execVars, askVars, pumpVars, sizeVars
<1>1. SshTypeOK'
  BY FillIs, SMT DEF SshTypeOK, MoreTypes, StageInv, ResultInv
<1>2. MoreTypes'
  BY FillIs, SMT DEF SshTypeOK, MoreTypes, StageInv, ResultInv
<1>3. StageInv' /\ ResultInv'
  BY FillIs, SMT DEF SshTypeOK, StageInv, ResultInv
<1> QED BY <1>1, <1>2, <1>3

LEMMA PromptEOFKeeps ==
  ASSUME SshInv, PromptEOF
  PROVE  SshInv'
<1> USE DEF SshInv, PromptEOF, AskUnchanged, PromptReturn, reqVars, chVars, inVars,
            execVars, askVars, pumpVars, sizeVars
<1>1. SshTypeOK'
  BY AppendIs, EmptyIs, SMT DEF SshTypeOK, MoreTypes, StageInv, ResultInv
<1>2. MoreTypes'
  BY AppendIs, EmptyIs, SMT DEF SshTypeOK, MoreTypes, StageInv, ResultInv
<1>3. StageInv' /\ ResultInv'
  BY AppendIs, EmptyIs, SMT DEF SshTypeOK, StageInv, ResultInv
<1> QED BY <1>1, <1>2, <1>3

LEMMA EndOfLineKeeps ==
  ASSUME SshInv, EndOfLine
  PROVE  SshInv'
<1> USE DEF SshInv, EndOfLine, AskUnchanged, PromptReturn, reqVars, chVars, inVars,
            execVars, askVars, pumpVars, sizeVars
<1>a. buf \in Seq(STRING) /\ Len(buf) <= BufSize /\ BufSize \in Nat
  BY SshAssumption DEF SshTypeOK, MoreTypes, SshAssumption
<1>b. Tail(buf) \in Seq(STRING) /\ Len(Tail(buf)) <= BufSize
  BY <1>a, TailIs, SMT
<1>0. buf' \in Seq(STRING) /\ Len(buf') <= BufSize
  <2>1. Len(buf) > 1 => Tail(buf) # << >>
    BY <1>a, TailIs, SMTT(30)
  <2>2. Len(buf) > 1 => Tail(Tail(buf)) \in Seq(STRING) /\ Len(Tail(Tail(buf))) <= BufSize
    BY <1>a, <1>b, <2>1, TailIs, SMT
  <2> QED BY <1>b, <2>2
<1>1. SshTypeOK'
  BY <1>0, AppendIs, EmptyIs, SMT DEF SshTypeOK, MoreTypes, StageInv, ResultInv
<1>2. MoreTypes'
  BY <1>0, AppendIs, EmptyIs, SMT DEF SshTypeOK, MoreTypes, StageInv, ResultInv
<1>3. StageInv' /\ ResultInv'
  BY <1>0, AppendIs, EmptyIs, SMT DEF SshTypeOK, StageInv, ResultInv
<1> QED BY <1>1, <1>2, <1>3

LEMMA PasswordByteKeeps ==
  ASSUME SshInv, PasswordByte
  PROVE  SshInv'
<1> USE DEF SshInv, PasswordByte, AskUnchanged, PromptReturn, reqVars, chVars,
            inVars, execVars, askVars, pumpVars, sizeVars
<1>a. buf \in Seq(STRING) /\ Len(buf) <= BufSize /\ BufSize \in Nat
  BY SshAssumption DEF SshTypeOK, MoreTypes, SshAssumption
<1>b. Tail(buf) \in Seq(STRING) /\ Len(Tail(buf)) <= BufSize
  BY <1>a, TailIs, SMT
<1>0. buf' \in Seq(STRING) /\ Len(buf') <= BufSize /\ pwdLen' \in 0 .. MaxPassLen
  <2>1. MaxPassLen \in Nat /\ pwdLen \in 0 .. MaxPassLen
    BY SshAssumption DEF SshTypeOK, SshAssumption
  <2>2. pwdLen' \in 0 .. MaxPassLen
    BY <2>1, SMT
  <2> QED BY <1>b, <2>2
<1>1. SshTypeOK'
  <2>1. resCh' \in Seq({"ok", "error"}) /\ Len(resCh') <= 1
    <3>1. resCh = << >> /\ resCh \in Seq({"ok", "error"})
      BY DEF SshTypeOK, ResultInv
    <3>2. resCh' \in {resCh, Append(resCh, "error")}
      BY Zenon
    <3>3. \A q \in {resCh, Append(resCh, "error")} :
            q \in Seq({"ok", "error"}) /\ Len(q) <= 1
      <4>1. Append(resCh, "error") \in Seq({"ok", "error"})
        BY <3>1, AppendIs
      <4>2. Len(resCh) <= 1 /\ Len(Append(resCh, "error")) <= 1
        BY <3>1, SMT
      <4> QED BY <3>1, <4>1, <4>2, Zenon
    <3> QED BY <3>2, <3>3, Zenon
  <2>2. prompter' \in {"read", "done"}
    BY Zenon
  <2> QED BY <1>0, <2>1, <2>2, SMT DEF SshTypeOK
<1>2. MoreTypes'
  BY <1>0, AppendIs, EmptyIs, SMT DEF SshTypeOK, MoreTypes, StageInv, ResultInv
<1>3. StageInv' /\ ResultInv'
  BY <1>0, AppendIs, EmptyIs, SMT DEF SshTypeOK, StageInv, ResultInv
<1> QED BY <1>1, <1>2, <1>3

LEMMA PumpWriteKeeps ==
  ASSUME SshInv, PumpWrite
  PROVE  SshInv'
<1> USE DEF SshInv, PumpWrite, PumpUnchanged, reqVars, chVars, inVars, execVars,
            askVars, pumpVars, sizeVars
<1>1. SshTypeOK'
  <2>1. errCh' \in Seq({"clean", "error"}) /\ Len(errCh') <= 2
    <3>1. Len(errCh) <= 1 /\ errCh \in Seq({"clean", "error"})
      BY DEF SshTypeOK, ResultInv
    <3>2. errCh' \in {errCh, Append(errCh, "clean"), Append(errCh, "error")}
      BY Zenon
    <3> QED BY <3>1, <3>2, AppendIs, EmptyIs, SMT
  <2>2. pumpIn' \in {"write", "done"}
    BY Zenon
  <2> QED BY <2>1, <2>2, SMT DEF SshTypeOK
<1>2. MoreTypes'
  BY AppendIs, EmptyIs, SMT DEF SshTypeOK, MoreTypes, StageInv, ResultInv
<1>3. StageInv' /\ ResultInv'
  BY AppendIs, EmptyIs, SMT DEF SshTypeOK, StageInv, ResultInv
<1> QED BY <1>1, <1>2, <1>3

LEMMA PumpWroteKeeps ==
  ASSUME SshInv, PumpWrote
  PROVE  SshInv'
<1> USE DEF SshInv, PumpWrote, PumpUnchanged, reqVars, chVars, inVars, execVars,
            askVars, pumpVars, sizeVars
<1>0. buf' \in Seq(STRING) /\ Len(buf') <= BufSize
  <2>1. BufSize \in Nat
    BY SshAssumption DEF SshAssumption
  <2>2. << >> \in Seq(STRING) /\ Len(<< >>) = 0
    BY SMT
  <2> QED BY <2>1, <2>2, SMT
<1>1. SshTypeOK'
  BY <1>0, SMT DEF SshTypeOK
<1>2. MoreTypes'
  BY <1>0, SMT DEF MoreTypes
<1>3. StageInv' /\ ResultInv'
  BY SMT DEF StageInv, ResultInv
<1> QED BY <1>1, <1>2, <1>3

LEMMA PumpWriteFailedKeeps ==
  ASSUME SshInv, PumpWriteFailed
  PROVE  SshInv'
<1> USE DEF SshInv, PumpWriteFailed, PumpUnchanged, reqVars, chVars, inVars,
            execVars, askVars, pumpVars, sizeVars
<1>1. SshTypeOK'
  BY AppendIs, EmptyIs, SMT DEF SshTypeOK, MoreTypes, StageInv, ResultInv
<1>2. MoreTypes'
  BY AppendIs, EmptyIs, SMT DEF SshTypeOK, MoreTypes, StageInv, ResultInv
<1>3. StageInv' /\ ResultInv'
  BY AppendIs, EmptyIs, SMT DEF SshTypeOK, StageInv, ResultInv
<1> QED BY <1>1, <1>2, <1>3

LEMMA PumpFillKeeps ==
  ASSUME SshInv, PumpFill
  PROVE  SshInv'
<1> USE DEF SshInv, PumpFill, PumpUnchanged, reqVars, chVars, inVars, execVars,
            askVars, pumpVars, sizeVars
<1>1. SshTypeOK'
  BY FillIs, SMT DEF SshTypeOK, MoreTypes, StageInv, ResultInv
<1>2. MoreTypes'
  BY FillIs, SMT DEF SshTypeOK, MoreTypes, StageInv, ResultInv
<1>3. StageInv' /\ ResultInv'
  BY FillIs, SMT DEF SshTypeOK, StageInv, ResultInv
<1> QED BY <1>1, <1>2, <1>3

LEMMA PumpEOFKeeps ==
  ASSUME SshInv, PumpEOF
  PROVE  SshInv'
<1> USE DEF SshInv, PumpEOF, PumpUnchanged, reqVars, chVars, inVars, execVars,
            askVars, pumpVars, sizeVars
<1>1. SshTypeOK'
  BY AppendIs, EmptyIs, SMT DEF SshTypeOK, MoreTypes, StageInv, ResultInv
<1>2. MoreTypes'
  BY AppendIs, EmptyIs, SMT DEF SshTypeOK, MoreTypes, StageInv, ResultInv
<1>3. StageInv' /\ ResultInv'
  BY AppendIs, EmptyIs, SMT DEF SshTypeOK, StageInv, ResultInv
<1> QED BY <1>1, <1>2, <1>3

LEMMA PumpOutputKeeps ==
  ASSUME SshInv, PumpOutput
  PROVE  SshInv'
<1> USE DEF SshInv, PumpOutput, PumpUnchanged, reqVars, chVars, inVars, execVars,
            askVars, pumpVars, sizeVars
<1>1. SshTypeOK'
  BY SMT DEF SshTypeOK, MoreTypes, StageInv, ResultInv
<1>2. MoreTypes'
  BY SMT DEF SshTypeOK, MoreTypes, StageInv, ResultInv
<1>3. StageInv' /\ ResultInv'
  BY SMT DEF SshTypeOK, StageInv, ResultInv
<1> QED BY <1>1, <1>2, <1>3

LEMMA PumpShownKeeps ==
  ASSUME SshInv, PumpShown
  PROVE  SshInv'
<1> USE DEF SshInv, PumpShown, PumpUnchanged, reqVars, chVars, inVars, execVars,
            askVars, pumpVars, sizeVars
<1>1. SshTypeOK'
  BY SMT DEF SshTypeOK, MoreTypes, StageInv, ResultInv
<1>2. MoreTypes'
  BY SMT DEF SshTypeOK, MoreTypes, StageInv, ResultInv
<1>3. StageInv' /\ ResultInv'
  BY SMT DEF SshTypeOK, StageInv, ResultInv
<1> QED BY <1>1, <1>2, <1>3

LEMMA PumpOutEndsKeeps ==
  ASSUME SshInv, PumpOutEnds
  PROVE  SshInv'
<1> USE DEF SshInv, PumpOutEnds, PumpUnchanged, reqVars, chVars, inVars, execVars,
            askVars, pumpVars, sizeVars
<1>1. SshTypeOK'
  BY AppendIs, EmptyIs, SMT DEF SshTypeOK, MoreTypes, StageInv, ResultInv
<1>2. MoreTypes'
  BY AppendIs, EmptyIs, SMT DEF SshTypeOK, MoreTypes, StageInv, ResultInv
<1>3. StageInv' /\ ResultInv'
  BY AppendIs, EmptyIs, SMT DEF SshTypeOK, StageInv, ResultInv
<1> QED BY <1>1, <1>2, <1>3

LEMMA TakeWinchKeeps ==
  ASSUME SshInv, TakeWinch
  PROVE  SshInv'
<1> USE DEF SshInv, TakeWinch, ResizeUnchanged, reqVars, chVars, inVars, execVars,
            askVars, pumpVars, sizeVars
<1>1. SshTypeOK'
  <2>1. winchCh \in Seq(Sizes) /\ Len(winchCh) <= WinchCap /\ WinchCap \in Nat
    BY SshAssumption DEF SshTypeOK, SshAssumption
  <2>2. winchCh' \in Seq(Sizes) /\ Len(winchCh') <= WinchCap
    BY <2>1, TailIs, SMT
  <2> QED BY <2>2, SMT DEF SshTypeOK
<1>2. MoreTypes'
  BY TailIs, SMT DEF SshTypeOK, MoreTypes, StageInv, ResultInv
<1>3. StageInv' /\ ResultInv'
  BY TailIs, SMT DEF SshTypeOK, StageInv, ResultInv
<1> QED BY <1>1, <1>2, <1>3

LEMMA ForwardWinchKeeps ==
  ASSUME SshInv, ForwardWinch
  PROVE  SshInv'
<1> USE DEF SshInv, ForwardWinch, ResizeUnchanged, reqVars, chVars, inVars,
            execVars, askVars, pumpVars, sizeVars
<1>1. SshTypeOK'
  BY SMT DEF SshTypeOK, MoreTypes, StageInv, ResultInv
<1>2. MoreTypes'
  BY SMT DEF SshTypeOK, MoreTypes, StageInv, ResultInv
<1>3. StageInv' /\ ResultInv'
  BY SMT DEF SshTypeOK, StageInv, ResultInv
<1> QED BY <1>1, <1>2, <1>3

LEMMA ResizerEndsKeeps ==
  ASSUME SshInv, ResizerEnds
  PROVE  SshInv'
<1> USE DEF SshInv, ResizerEnds, ResizeUnchanged, reqVars, chVars, inVars, execVars,
            askVars, pumpVars, sizeVars
<1>1. SshTypeOK'
  BY SMT DEF SshTypeOK, MoreTypes, StageInv, ResultInv
<1>2. MoreTypes'
  BY SMT DEF SshTypeOK, MoreTypes, StageInv, ResultInv
<1>3. StageInv' /\ ResultInv'
  BY SMT DEF SshTypeOK, StageInv, ResultInv
<1> QED BY <1>1, <1>2, <1>3

LEMMA ClientTypesKeeps ==
  ASSUME SshInv, ClientTypes
  PROVE  SshInv'
<1> USE DEF SshInv, ClientTypes, EnvUnchanged, reqVars, chVars, inVars, execVars,
            askVars, pumpVars, sizeVars
<1>0. arrived' \in Seq(STRING)
  <2>1. Packets[npkt + 1] \in Seq(STRING)
    <3>1. Packets \in Seq(Seq(STRING)) /\ npkt \in Nat /\ npkt < Len(Packets)
      BY SshAssumption DEF MoreTypes, SshAssumption
    <3>2. npkt + 1 \in 1 .. Len(Packets)
      BY <3>1, SMT
    <3> QED BY <3>1, <3>2, SMT
  <2>2. arrived \in Seq(STRING)
    BY DEF MoreTypes
  <2> QED BY <2>1, <2>2, SMT
<1>1. SshTypeOK'
  BY <1>0, SMT DEF SshTypeOK, MoreTypes, StageInv, ResultInv
<1>2. MoreTypes'
  BY <1>0, SMT DEF SshTypeOK, MoreTypes, StageInv, ResultInv
<1>3. StageInv' /\ ResultInv'
  BY <1>0, SMT DEF SshTypeOK, StageInv, ResultInv
<1> QED BY <1>1, <1>2, <1>3

LEMMA ClientEOFKeeps ==
  ASSUME SshInv, ClientEOF
  PROVE  SshInv'
<1> USE DEF SshInv, ClientEOF, EnvUnchanged, reqVars, chVars, inVars, execVars,
            askVars, pumpVars, sizeVars
<1>1. SshTypeOK'
  BY SMT DEF SshTypeOK, MoreTypes, StageInv, ResultInv
<1>2. MoreTypes'
  BY SMT DEF SshTypeOK, MoreTypes, StageInv, ResultInv
<1>3. StageInv' /\ ResultInv'
  BY SMT DEF SshTypeOK, StageInv, ResultInv
<1> QED BY <1>1, <1>2, <1>3

LEMMA ClientCloseKeeps ==
  ASSUME SshInv, ClientClose
  PROVE  SshInv'
<1> USE DEF SshInv, ClientClose, EnvUnchanged, reqVars, chVars, inVars, execVars,
            askVars, pumpVars, sizeVars
<1>1. SshTypeOK'
  BY SMT DEF SshTypeOK, MoreTypes, StageInv, ResultInv
<1>2. MoreTypes'
  BY SMT DEF SshTypeOK, MoreTypes, StageInv, ResultInv
<1>3. StageInv' /\ ResultInv'
  BY SMT DEF SshTypeOK, StageInv, ResultInv
<1> QED BY <1>1, <1>2, <1>3

LEMMA ServerShutdownKeeps ==
  ASSUME SshInv, ServerShutdown
  PROVE  SshInv'
<1> USE DEF SshInv, ServerShutdown, EnvUnchanged, reqVars, chVars, inVars, execVars,
            askVars, pumpVars, sizeVars
<1>1. SshTypeOK'
  BY SMT DEF SshTypeOK, MoreTypes, StageInv, ResultInv
<1>2. MoreTypes'
  BY SMT DEF SshTypeOK, MoreTypes, StageInv, ResultInv
<1>3. StageInv' /\ ResultInv'
  BY SMT DEF SshTypeOK, StageInv, ResultInv
<1> QED BY <1>1, <1>2, <1>3

LEMMA DeviceEndKeeps ==
  ASSUME SshInv, DeviceEnd
  PROVE  SshInv'
<1> USE DEF SshInv, DeviceEnd, EnvUnchanged, reqVars, chVars, inVars, execVars,
            askVars, pumpVars, sizeVars
<1>1. SshTypeOK'
  BY SMT DEF SshTypeOK, MoreTypes, StageInv, ResultInv
<1>2. MoreTypes'
  BY SMT DEF SshTypeOK, MoreTypes, StageInv, ResultInv
<1>3. StageInv' /\ ResultInv'
  BY SMT DEF SshTypeOK, StageInv, ResultInv
<1> QED BY <1>1, <1>2, <1>3

LEMMA SshStutter == SshInv /\ UNCHANGED vars => SshInv'
<1> SUFFICES ASSUME SshInv, UNCHANGED vars PROVE SshInv'
  OBVIOUS
<1> USE DEF SshInv, vars, reqVars, chVars, inVars, execVars, askVars, pumpVars,
            sizeVars
<1>1. SshTypeOK'
  BY SMT DEF SshTypeOK
<1>2. MoreTypes'
  BY SMT DEF MoreTypes
<1>3. StageInv' /\ ResultInv'
  BY SMT DEF StageInv, ResultInv
<1> QED BY <1>1, <1>2, <1>3

LEMMA SshNext == SshInv /\ [Next]_vars => SshInv'
<1> SUFFICES ASSUME SshInv, [Next]_vars PROVE SshInv'
  OBVIOUS
<1>1. CASE UNCHANGED vars
  BY <1>1, SshStutter
<1>2. CASE RequestStep
  BY <1>2, PtyReqKeeps, WindowChangeKeeps, ExecReqKeeps, OtherReqKeeps DEF RequestStep
<1>3. CASE HandlerStep
  BY <1>3, ReqsClosedKeeps, ExecDrainedKeeps, sendExitStatusKeeps, HandleReturnKeeps
     DEF HandlerStep
<1>4. CASE ExecStep
  BY <1>4, DispatchExecKeeps, PasswordResultKeeps, PromptTimeoutKeeps, OpenSessionKeeps,
     SelectDoneKeeps, CloseSessionKeeps, ExecReturnKeeps DEF ExecStep
<1>5. CASE AskStep
  BY <1>5, AskKeeps, PromptFillKeeps, PromptEOFKeeps, EndOfLineKeeps, PasswordByteKeeps
     DEF AskStep
<1>6. CASE PumpInStep
  BY <1>6, PumpWriteKeeps, PumpWroteKeeps, PumpWriteFailedKeeps, PumpFillKeeps,
     PumpEOFKeeps DEF PumpInStep
<1>7. CASE PumpOutStep
  BY <1>7, PumpOutputKeeps, PumpShownKeeps, PumpOutEndsKeeps DEF PumpOutStep
<1>8. CASE ResizeStep
  BY <1>8, TakeWinchKeeps, ForwardWinchKeeps, ResizerEndsKeeps DEF ResizeStep
<1>9. CASE EnvStep
  BY <1>9, ClientTypesKeeps, ClientEOFKeeps, ClientCloseKeeps, ServerShutdownKeeps,
     DeviceEndKeeps DEF EnvStep
<1> QED BY <1>1, <1>2, <1>3, <1>4, <1>5, <1>6, <1>7, <1>8, <1>9 DEF Next

LEMMA SshAlways == Spec => []SshInv
BY SshInit, SshNext, PTL DEF Spec

----------------------------------------------------------------------------
(* What follows from SshInv.                                               *)

\* Every variable keeps its type, and no send on execDone, resCh or errCh ever
\* finds the channel full, so none of the goroutines blocks on its way out.
THEOREM SshTypeCorrect == Spec => []SshTypeOK
BY SshAlways, PTL DEF SshInv

\* chReader has one user at a time, although a prompt that timed out leaves
\* its goroutine in ReadByte: execMactelnet then opens no session.
THEOREM ReaderIsAlone == Spec => []OneReader
<1>1. SshInv => OneReader
  BY DEF SshInv, StageInv, OneReader
<1> QED BY <1>1, SshAlways, PTL

\* When handleSession closes the channel, exec has returned and its MAC-Telnet
\* session is closed, wherever the client's disconnect met it.
THEOREM SessionReleasedFirst == Spec => []ReleasedBeforeClose
<1>1. SshInv => ReleasedBeforeClose
  BY DEF SshInv, StageInv, ReleasedBeforeClose
<1> QED BY <1>1, SshAlways, PTL

----------------------------------------------------------------------------
(* What the client types, by position: who holds which part of it.         *)

\* What the first k packets carry.
SentBy[k \in 0 .. Len(Packets)] ==
  IF k = 0 THEN << >> ELSE SentBy[k - 1] \o Packets[k]

\* How much of it has left chReader, for the password or for the device.
Used == Len(SentBy[npkt]) - Len(arrived) - Len(buf)

\* s is what was typed from position k on.
At(s, k) ==
  /\ k + Len(s) <= Len(Typed)
  /\ \A i \in 1 .. Len(s) : s[i] = Typed[k + i]

\* Where the device's input may start: at once when the password came with the
\* command, otherwise behind the line end, or behind the LF that follows it.
StartsOf(cmd) ==
  IF cmd # "mactelnet" THEN {0}
  ELSE {k \in 0 .. Len(Typed) :
          \/ k \in LineEnds /\ \A j \in LineEnds : k <= j
          \/ /\ k - 1 \in LineEnds /\ \A j \in LineEnds : k - 1 <= j
             /\ Typed[k] = "LF"}

\* The buffers hold what comes next, and the device has what came before.
PlaceInv ==
  /\ npkt \in 0 .. Len(Packets) /\ Used \in Nat
  /\ At(buf, Used) /\ At(arrived, Used + Len(buf))
  /\ deviceIn \in Seq(STRING)
  /\ prompter = "off" /\ pumpIn = "off" => Used = 0
  /\ prompter # "off" => command = "mactelnet"
  /\ prompter \in {"ask", "read"} => \A j \in LineEnds : Used < j
  /\ pumpIn = "off" /\ resCh = <<"ok">> => Used \in StartsOf(command)
  /\ exec = "open" => Used \in StartsOf(command)
  /\ pumpIn = "off" => deviceIn = << >>
  /\ pumpIn \in {"copy", "write"} =>
       /\ Used - Len(deviceIn) \in StartsOf(command)
       /\ At(deviceIn, Used - Len(deviceIn))
  /\ pumpIn = "done" => \E k \in StartsOf(command) : At(deviceIn, k)

----------------------------------------------------------------------------
(* SentBy and Typed, by induction on the packets.                          *)

LEMMA PacketsAre ==
  /\ Packets \in Seq(Seq(STRING)) /\ Len(Packets) \in Nat
  /\ \A i \in 1 .. Len(Packets) : Packets[i] \in Seq(STRING)
<1>1. Packets \in Seq(Seq(STRING))
  BY SshAssumption, Zenon DEF SshAssumption
<1> QED BY <1>1, SMT

LEMMA SentByIs ==
  /\ SentBy[0] = << >>
  /\ \A i \in 1 .. Len(Packets) : SentBy[i] = SentBy[i - 1] \o Packets[i]
  /\ SentBy \in [0 .. Len(Packets) -> Seq(STRING)]
<1>0. Packets \in Seq(Seq(STRING))
  BY PacketsAre
<1>1. PICK f \in [0 .. Len(Packets) -> Seq(STRING)] : Concats(f, Packets)
  BY <1>0, ConcatsExist
<1>2. Solves(f, Packets)
  BY <1>0, <1>1, ConcatsSolve
<1>3. Solves(SentBy, Packets)
  BY <1>2 DEF SentBy, Solves
<1>4. \A i \in 0 .. Len(Packets) : SentBy[i] = f[i]
  <2>1. PICK h : h = SentBy
    OBVIOUS
  <2>2. Solves(h, Packets)
    BY <1>3, <2>1
  <2>3. \A i \in 0 .. Len(Packets) : h[i] = f[i]
    BY <1>0, <1>1, <2>2, ConcatsFixed
  <2> QED BY <2>1, <2>3
<1>5. SentBy = f
  <2>1. DOMAIN SentBy = 0 .. Len(Packets)
    BY <1>3 DEF Solves
  <2>2. SentBy = [i \in 0 .. Len(Packets) |-> SentBy[i]]
    BY <1>3, <2>1 DEF Solves
  <2> QED BY <1>1, <1>4, <2>2
<1> QED BY <1>1, <1>5 DEF Concats

\* Typed is all of it.
LEMMA TypedIs == Typed = SentBy[Len(Packets)] /\ Typed \in Seq(STRING)
<1>0. Packets \in Seq(Seq(STRING)) /\ Len(Packets) \in 0 .. Len(Packets)
  BY PacketsAre
<1>1. PICK f \in [0 .. Len(Packets) -> Seq(STRING)] : f = SentBy
  BY SentByIs
<1>2. Concats(f, Packets)
  BY <1>1, SentByIs DEF Concats
<1>3. Typed = f[Len(Packets)]
  BY <1>0, <1>2, FlattenIs DEF Typed
<1> QED BY <1>0, <1>1, <1>3

\* What was sent first stays first.
LEMMA SentByGrows ==
  ASSUME NEW k \in 0 .. Len(Packets)
  PROVE  /\ Len(SentBy[k]) <= Len(Typed)
         /\ \A i \in 1 .. Len(SentBy[k]) : SentBy[k][i] = Typed[i]
<1>0. Packets \in Seq(Seq(STRING)) /\ Len(Packets) \in 0 .. Len(Packets) /\ k <= Len(Packets)
  BY PacketsAre
<1>1. PICK f \in [0 .. Len(Packets) -> Seq(STRING)] : f = SentBy
  BY SentByIs
<1>2. Concats(f, Packets)
  BY <1>1, SentByIs DEF Concats
<1>3. PICK m \in 0 .. Len(Packets) : m = Len(Packets)
  BY <1>0
<1>4. Extends(f[m], f[k])
  <2>1. k <= m
    BY <1>0, <1>3
  <2> QED BY <1>0, <1>1, <1>2, <1>3, <2>1, ConcatsGrow
<1> QED BY <1>1, <1>3, <1>4, TypedIs DEF Extends

----------------------------------------------------------------------------
(* Pieces of the stream.                                                   *)

LEMMA LineEndsAre == LineEnds \in SUBSET (1 .. Len(Typed)) /\ Len(Typed) \in Nat
BY TypedIs DEF LineEnds

LEMMA StartsAre == \A cmd : StartsOf(cmd) \subseteq 0 .. Len(Typed)
<1>1. 0 \in 0 .. Len(Typed)
  BY LineEndsAre
<1> QED BY <1>1 DEF StartsOf

LEMMA AtEmpty ==
  ASSUME NEW k \in 0 .. Len(Typed)
  PROVE  At(<< >>, k)
BY LineEndsAre, SMT DEF At

LEMMA AtConcat ==
  ASSUME NEW s \in Seq(STRING), NEW t \in Seq(STRING), NEW k \in Nat,
         At(s, k), At(t, k + Len(s))
  PROVE  At(s \o t, k)
<1>1. s \o t \in Seq(STRING) /\ Len(s \o t) = Len(s) + Len(t)
  OBVIOUS
<1>2. Len(s) \in Nat /\ Len(t) \in Nat /\ Len(Typed) \in Nat
  BY LineEndsAre
<1>3. ASSUME NEW i \in 1 .. Len(s) + Len(t)
      PROVE  (s \o t)[i] = Typed[k + i]
  <2>1. CASE i <= Len(s)
    <3>1. i \in 1 .. Len(s) /\ (s \o t)[i] = s[i]
      BY <1>2, <2>1
    <3> QED BY <3>1 DEF At
  <2>2. CASE ~(i <= Len(s))
    <3>1. PICK j : j = i - Len(s)
      OBVIOUS
    <3>2. j \in 1 .. Len(t) /\ (s \o t)[i] = t[j] /\ (k + Len(s)) + j = k + i
      BY <1>2, <2>2, <3>1
    <3> QED BY <3>2 DEF At
  <2> QED BY <2>1, <2>2
<1> QED BY <1>1, <1>2, <1>3 DEF At

LEMMA AtSplit ==
  ASSUME NEW s \in Seq(STRING), NEW k \in Nat, NEW n \in 0 .. Len(s), At(s, k)
  PROVE  /\ At(SubSeq(s, 1, n), k) /\ At(SubSeq(s, n + 1, Len(s)), k + n)
         /\ Len(SubSeq(s, 1, n)) = n /\ Len(SubSeq(s, n + 1, Len(s))) = Len(s) - n
<1>1. Len(s) \in Nat /\ Len(Typed) \in Nat /\ n \in Nat
  BY LineEndsAre
<1>2. /\ Len(SubSeq(s, 1, n)) = n /\ Len(SubSeq(s, n + 1, Len(s))) = Len(s) - n
      /\ \A i \in 1 .. n : SubSeq(s, 1, n)[i] = s[i]
      /\ \A i \in 1 .. Len(s) - n : SubSeq(s, n + 1, Len(s))[i] = s[n + i]
  BY <1>1
<1>3. At(SubSeq(s, 1, n), k)
  BY <1>1, <1>2 DEF At
<1>4. ASSUME NEW i \in 1 .. Len(s) - n
      PROVE  s[n + i] = Typed[(k + n) + i]
  <2>1. PICK j : j = n + i
    OBVIOUS
  <2>2. j \in 1 .. Len(s) /\ k + j = (k + n) + i
    BY <1>1, <2>1
  <2> QED BY <2>1, <2>2 DEF At
<1>5. At(SubSeq(s, n + 1, Len(s)), k + n)
  <2>1. PICK t : t = SubSeq(s, n + 1, Len(s))
    OBVIOUS
  <2>2. Len(t) = Len(s) - n /\ \A i \in 1 .. Len(t) : t[i] = Typed[(k + n) + i]
    BY <1>2, <1>4, <2>1
  <2>3. (k + n) + Len(t) <= Len(Typed)
    BY <1>1, <2>2 DEF At
  <2>4. At(t, k + n)
    BY <2>2, <2>3 DEF At
  <2> QED BY <2>1, <2>4
<1> QED BY <1>2, <1>3, <1>5

LEMMA AtTail ==
  ASSUME NEW s \in Seq(STRING), s # << >>, NEW k \in Nat, At(s, k)
  PROVE  Head(s) = Typed[k + 1] /\ At(Tail(s), k + 1) /\ k + 1 \in 1 .. Len(Typed)
<1>1. Len(s) \in Nat \ {0} /\ Len(Typed) \in Nat /\ Head(s) = s[1]
  BY LineEndsAre, TailIs
<1>2. Head(s) = Typed[k + 1] /\ k + 1 \in 1 .. Len(Typed)
  BY <1>1 DEF At
<1>3. Tail(s) \in Seq(STRING) /\ Len(Tail(s)) = Len(s) - 1
      /\ \A i \in 1 .. Len(s) - 1 : Tail(s)[i] = s[i + 1]
  BY <1>1
<1>4. ASSUME NEW i \in 1 .. Len(s) - 1
      PROVE  s[i + 1] = Typed[(k + 1) + i]
  <2>1. i + 1 \in 1 .. Len(s) /\ k + (i + 1) = (k + 1) + i
    BY <1>1
  <2> QED BY <2>1 DEF At
<1>5. At(Tail(s), k + 1)
  BY <1>1, <1>3, <1>4 DEF At
<1> QED BY <1>2, <1>5

\* The next packet continues what was sent.
LEMMA NextPacket ==
  ASSUME NEW k \in Nat, k < Len(Packets)
  PROVE  /\ At(Packets[k + 1], Len(SentBy[k]))
         /\ Len(SentBy[k + 1]) = Len(SentBy[k]) + Len(Packets[k + 1])
         /\ Packets[k + 1] \in Seq(STRING) /\ SentBy[k] \in Seq(STRING)
<1>1. k \in 0 .. Len(Packets) /\ k + 1 \in 1 .. Len(Packets) /\ (k + 1) - 1 = k
      /\ k + 1 \in 0 .. Len(Packets)
  BY PacketsAre
<1>2. Packets[k + 1] \in Seq(STRING) /\ SentBy[k] \in Seq(STRING)
  BY <1>1, PacketsAre, SentByIs
<1>3. PICK s \in Seq(STRING), t \in Seq(STRING) : s = SentBy[k] /\ t = Packets[k + 1]
  BY <1>2
<1>4. SentBy[k + 1] = s \o t
  BY <1>1, <1>3, SentByIs
<1>5. /\ Len(s \o t) <= Len(Typed)
      /\ \A i \in 1 .. Len(s \o t) : (s \o t)[i] = Typed[i]
  BY <1>1, <1>4, SentByGrows
<1>6. Len(s \o t) = Len(s) + Len(t) /\ Len(s) \in Nat /\ Len(t) \in Nat
  OBVIOUS
<1>7. ASSUME NEW i \in 1 .. Len(t)
      PROVE  t[i] = Typed[Len(s) + i]
  <2>1. Len(s) + i \in 1 .. Len(s \o t) /\ (s \o t)[Len(s) + i] = t[i]
    BY <1>6
  <2> QED BY <1>5, <2>1
<1>8. At(t, Len(s))
  BY <1>5, <1>6, <1>7, LineEndsAre DEF At
<1> QED BY <1>2, <1>3, <1>4, <1>6, <1>8

----------------------------------------------------------------------------
(* Every step keeps everybody's place in the stream.                       *)

\* A step that moves no byte: only who is where changes.
LEMMA PlaceStill ==
  ASSUME PlaceInv, UNCHANGED <<npkt, arrived, buf, deviceIn>>,
         prompter' = "off" /\ pumpIn' = "off" => Used = 0,
         prompter' # "off" => command' = "mactelnet",
         prompter' \in {"ask", "read"} => \A j \in LineEnds : Used < j,
         pumpIn' = "off" /\ resCh' = <<"ok">> => Used \in StartsOf(command'),
         exec' = "open" => Used \in StartsOf(command'),
         pumpIn' = "off" => deviceIn = << >>,
         pumpIn' \in {"copy", "write"} =>
           /\ Used - Len(deviceIn) \in StartsOf(command')
           /\ At(deviceIn, Used - Len(deviceIn)),
         pumpIn' = "done" => \E k \in StartsOf(command') : At(deviceIn, k)
  PROVE  PlaceInv'
<1>1. Used' = Used
  BY DEF Used
<1> QED BY <1>1, Zenon DEF PlaceInv

\* A step in which the prompt and the input pump have no part.
Elsewhere ==
  /\ UNCHANGED <<npkt, arrived, buf, deviceIn, prompter, pumpIn, resCh, command>>
  /\ exec' = "open" => exec = "open"

LEMMA ElsewhereKeepsPlace ==
  ASSUME PlaceInv, Elsewhere
  PROVE  PlaceInv'
<1>1. UNCHANGED <<npkt, arrived, buf, deviceIn>>
  BY DEF Elsewhere
<1> QED BY <1>1, PlaceStill, Zenon DEF PlaceInv, Elsewhere

\* Most steps are of that kind.
LEMMA StepsElsewhere ==
  ASSUME \/ \E size \in Sizes : PtyReq(size) \/ WindowChange(size)
         \/ OtherReq \/ HandlerStep \/ PromptTimeout \/ SelectDone
         \/ CloseSession \/ ExecReturn \/ PumpOutStep \/ ResizeStep
         \/ ClientEOF \/ ClientClose \/ ServerShutdown \/ DeviceEnd
         \/ UNCHANGED vars
  PROVE  Elsewhere
<1> USE DEF Elsewhere, vars, reqVars, chVars, inVars, execVars, askVars, pumpVars,
            sizeVars
<1>1. ASSUME NEW size \in Sizes, PtyReq(size) \/ WindowChange(size) PROVE Elsewhere
  BY <1>1 DEF PtyReq, WindowChange, ReqUnchanged
<1>2. CASE OtherReq
  BY <1>2 DEF OtherReq, ReqUnchanged
<1>3. CASE HandlerStep
  BY <1>3 DEF HandlerStep, ReqsClosed, ExecDrained, sendExitStatus, HandleReturn,
              ReqUnchanged
<1>4. CASE PromptTimeout \/ SelectDone \/ CloseSession \/ ExecReturn
  BY <1>4 DEF PromptTimeout, SelectDone, CloseSession, ExecReturn, ExecUnchanged
<1>5. CASE PumpOutStep
  BY <1>5 DEF PumpOutStep, PumpOutput, PumpShown, PumpOutEnds, PumpUnchanged
<1>6. CASE ResizeStep
  BY <1>6 DEF ResizeStep, TakeWinch, ForwardWinch, ResizerEnds, ResizeUnchanged
<1>7. CASE ClientEOF \/ ClientClose \/ ServerShutdown \/ DeviceEnd
  BY <1>7 DEF ClientEOF, ClientClose, ServerShutdown, DeviceEnd, EnvUnchanged
<1>8. CASE UNCHANGED vars
  BY <1>8
<1> QED BY <1>1, <1>2, <1>3, <1>4, <1>5, <1>6, <1>7, <1>8

LEMMA ExecReqPlace ==
  ASSUME SshInv, PlaceInv, NEW cmd \in Commands, ExecReq(cmd)
  PROVE  PlaceInv'
<1>1. /\ UNCHANGED <<npkt, arrived, buf, deviceIn, prompter, pumpIn, resCh>>
      /\ \/ UNCHANGED <<command, exec>>
         \/ ~execStarted /\ exec' = "start"
  BY DEF ExecReq, inVars, askVars, pumpVars
<1>2. CASE UNCHANGED <<command, exec>>
  BY <1>1, <1>2, ElsewhereKeepsPlace DEF Elsewhere
<1>3. CASE ~execStarted /\ exec' = "start"
  <2>1. prompter = "off" /\ pumpIn = "off" /\ resCh = << >>
    BY <1>3, SMT DEF SshInv, StageInv, ResultInv, SshTypeOK
  <2>2. << >> # <<"ok">>
    BY SMT
  <2> QED BY <1>1, <1>3, <2>1, <2>2, PlaceStill, Zenon DEF PlaceInv
<1> QED BY <1>1, <1>2, <1>3

LEMMA DispatchExecPlace ==
  ASSUME SshInv, PlaceInv, DispatchExec
  PROVE  PlaceInv'
<1>1. /\ UNCHANGED <<npkt, arrived, buf, deviceIn, pumpIn, resCh, command>>
      /\ \/ exec' = "ret" /\ prompter' = prompter
         \/ exec' = "prompt" /\ prompter' = "ask" /\ command = "mactelnet"
         \/ exec' = "open" /\ prompter' = prompter /\ command # "mactelnet"
  BY DEF DispatchExec, ExecUnchanged, inVars, pumpVars
<1>2. prompter = "off" /\ pumpIn = "off" /\ resCh = << >>
  BY DEF DispatchExec, SshInv, StageInv, ResultInv
<1>3. << >> # <<"ok">> /\ Used = 0 /\ \A j \in LineEnds : 0 < j
  BY <1>2, LineEndsAre, SMT DEF PlaceInv
<1>4. command # "mactelnet" => Used \in StartsOf(command)
  BY <1>3 DEF StartsOf
<1> QED BY <1>1, <1>2, <1>3, <1>4, PlaceStill, Zenon DEF PlaceInv

LEMMA PasswordResultPlace ==
  ASSUME SshInv, PlaceInv, PasswordResult
  PROVE  PlaceInv'
<1>1. /\ UNCHANGED <<npkt, arrived, buf, deviceIn, prompter, pumpIn, command>>
      /\ resCh # << >> /\ resCh' = Tail(resCh) /\ exec = "prompt"
      /\ exec' = "open" => Head(resCh) = "ok"
  BY DEF PasswordResult, ExecUnchanged, inVars, pumpVars
<1>2. resCh \in Seq({"ok", "error"}) /\ Len(resCh) <= 1 /\ pumpIn = "off"
  BY <1>1, SMT DEF SshInv, SshTypeOK, StageInv
<1>a. Len(resCh) = 1 /\ Len(resCh') = 0
  <2>1. Len(Tail(resCh)) = Len(resCh) - 1 /\ Len(resCh) \in Nat \ {0}
    BY <1>1, <1>2, TailIs
  <2> QED BY <1>1, <1>2, <2>1, SMT
<1>3. resCh' # <<"ok">>
  <2>1. Len(<<"ok">>) = 1
    BY SMT
  <2> QED BY <1>a, <2>1
<1>4. Head(resCh) = "ok" => resCh = <<"ok">>
  BY <1>2, <1>a, SMT
<1> QED BY <1>1, <1>2, <1>3, <1>4, PlaceStill, Zenon DEF PlaceInv

LEMMA OpenSessionPlace ==
  ASSUME SshInv, PlaceInv, OpenSession
  PROVE  PlaceInv'
<1>1. /\ UNCHANGED <<npkt, arrived, buf, deviceIn, prompter, resCh, command>>
      /\ exec = "open" /\ exec' # "open" /\ pumpIn' \in {"copy", pumpIn}
  BY DEF OpenSession, ExecUnchanged, inVars, askVars, pumpVars
<1>2. pumpIn = "off" /\ prompter \notin {"ask", "read"} /\ Used \in StartsOf(command)
  BY <1>1, SMT DEF SshInv, StageInv, PlaceInv
<1>3. deviceIn = << >> /\ Len(deviceIn) = 0
  <2>1. Len(<< >>) = 0
    BY SMT
  <2> QED BY <1>2, <2>1 DEF PlaceInv
<1>4. Used \in 0 .. Len(Typed) /\ Used - Len(deviceIn) = Used
  BY <1>2, <1>3, StartsAre, LineEndsAre, SMT
<1>5. At(deviceIn, Used)
  BY <1>3, <1>4, AtEmpty
<1>6. Used - Len(deviceIn) \in StartsOf(command) /\ At(deviceIn, Used - Len(deviceIn))
  BY <1>2, <1>4, <1>5
<1>7. UNCHANGED <<npkt, arrived, buf, deviceIn>>
  BY <1>1
<1>8. CASE pumpIn' = "copy"
  <2>1. pumpIn' # "off" /\ pumpIn' # "done"
    BY <1>8
  <2> QED BY <1>1, <1>2, <1>3, <1>6, <1>7, <2>1, PlaceStill, Zenon DEF PlaceInv
<1>9. CASE pumpIn' = pumpIn
  <2>1. Elsewhere
    BY <1>1, <1>9 DEF Elsewhere
  <2> QED BY <2>1, ElsewhereKeepsPlace
<1> QED BY <1>1, <1>8, <1>9

\* The prompt ends without a password, at the first write or at the channel's
\* end, or goes on.
LEMMA AskPlace ==
  ASSUME SshInv, PlaceInv, Ask \/ PromptEOF
  PROVE  PlaceInv'
<1>1. /\ UNCHANGED <<npkt, arrived, buf, deviceIn, pumpIn, command, exec>>
      /\ prompter \in {"ask", "read"}
      /\ \/ prompter' = "read" /\ resCh' = resCh
         \/ prompter' = "done" /\ resCh' = Append(resCh, "error")
  BY DEF Ask, PromptEOF, PromptReturn, AskUnchanged, pumpVars, execVars
<1>2. resCh = << >>
  BY <1>1, SMT DEF SshInv, ResultInv
<1>3. resCh # <<"ok">> /\ Append(resCh, "error") # <<"ok">>
  BY <1>2, SMT
<1>4. prompter' # "off" /\ command = "mactelnet" /\ resCh' # <<"ok">>
  BY <1>1, <1>3 DEF PlaceInv
<1> QED BY <1>1, <1>4, PlaceStill, Zenon DEF PlaceInv

\* The pump starts a write, or ends without one.
LEMMA PumpWritePlace ==
  ASSUME SshInv, PlaceInv, PumpWrite \/ PumpEOF
  PROVE  PlaceInv'
<1>1. /\ UNCHANGED <<npkt, arrived, buf, deviceIn, prompter, resCh, command, exec>>
      /\ pumpIn = "copy" /\ pumpIn' \in {"write", "done"}
  BY DEF PumpWrite, PumpEOF, PumpUnchanged, askVars, execVars
<1>2. Used - Len(deviceIn) \in StartsOf(command) /\ At(deviceIn, Used - Len(deviceIn))
  BY <1>1 DEF PlaceInv
<1>3. pumpIn' # "off" /\ UNCHANGED <<npkt, arrived, buf, deviceIn>>
  BY <1>1
<1>4. pumpIn' = "done" => \E k \in StartsOf(command') : At(deviceIn, k)
  BY <1>1, <1>2
<1> QED BY <1>1, <1>2, <1>3, <1>4, PlaceStill, Zenon DEF PlaceInv

\* The lengths behind Used.
LEMMA UsedIs ==
  ASSUME SshInv, PlaceInv
  PROVE  /\ Len(buf) \in Nat /\ Len(arrived) \in Nat /\ Len(deviceIn) \in Nat
         /\ Used \in Nat /\ Len(SentBy[npkt]) \in Nat
         /\ Len(SentBy[npkt]) = Used + Len(buf) + Len(arrived)
<1>1. buf \in Seq(STRING) /\ arrived \in Seq(STRING) /\ deviceIn \in Seq(STRING)
  BY DEF SshInv, MoreTypes, PlaceInv
<1>2. SentBy[npkt] \in Seq(STRING)
  BY SentByIs DEF PlaceInv
<1>3. /\ Len(buf) \in Nat /\ Len(arrived) \in Nat /\ Len(deviceIn) \in Nat
      /\ Len(SentBy[npkt]) \in Nat
  BY <1>1, <1>2, EmptyIs
<1>4. Used \in Nat
  BY DEF PlaceInv
<1> QED BY <1>3, <1>4 DEF Used

\* A refill moves no byte past the reader.
LEMMA FillPlace ==
  ASSUME SshInv, PlaceInv, Fill, npkt' = npkt
  PROVE  Used' = Used /\ At(buf', Used) /\ At(arrived', Used + Len(buf'))
<1>1. arrived \in Seq(STRING) /\ BufSize \in Nat
  BY SshAssumption DEF SshInv, MoreTypes, SshAssumption
<1>2. PICK n : n = Min({Len(arrived), BufSize})
  OBVIOUS
<1>3. n \in Nat /\ n <= Len(arrived) /\ Len(arrived) \in Nat
  BY <1>1, <1>2, EmptyIs, MinOfTwo
<1>4. /\ buf' = SubSeq(arrived, 1, n) /\ arrived' = SubSeq(arrived, n + 1, Len(arrived))
      /\ buf = << >>
  BY <1>2 DEF Fill
<1>5. n \in 0 .. Len(arrived)
  BY <1>3
<1>6. Len(buf) = 0
  BY <1>4, SMT
<1>7. At(arrived, Used) /\ Used \in Nat
  <2>1. At(arrived, Used + Len(buf)) /\ Used \in Nat
    BY DEF PlaceInv
  <2>2. Used + Len(buf) = Used
    BY <1>6, <2>1
  <2> QED BY <2>1, <2>2
<1>8. /\ At(buf', Used) /\ At(arrived', Used + n)
      /\ Len(buf') = n /\ Len(arrived') = Len(arrived) - n
  BY <1>1, <1>4, <1>5, <1>7, AtSplit
<1>9. Used' = Used
  <2>1. Used' = Len(SentBy[npkt]) - Len(arrived') - Len(buf')
    BY DEF Used
  <2> QED BY <1>3, <1>6, <1>8, <2>1, UsedIs
<1> QED BY <1>8, <1>9

LEMMA FillStepPlace ==
  ASSUME SshInv, PlaceInv, PromptFill \/ PumpFill
  PROVE  PlaceInv'
<1>1. /\ Fill
      /\ UNCHANGED <<npkt, deviceIn, prompter, pumpIn, resCh, command, exec>>
  BY DEF PromptFill, PumpFill, AskUnchanged, PumpUnchanged, askVars, pumpVars, execVars
<1>2. Used' = Used /\ At(buf', Used) /\ At(arrived', Used + Len(buf'))
  BY <1>1, FillPlace
<1> QED BY <1>1, <1>2, Zenon DEF PlaceInv

\* The line ends where the first line end was typed.
LEMMA EndOfLinePlace ==
  ASSUME SshInv, PlaceInv, EndOfLine
  PROVE  PlaceInv'
<1>1. /\ UNCHANGED <<npkt, arrived, deviceIn, pumpIn, command, exec>>
      /\ prompter = "read" /\ prompter' = "done" /\ resCh' = Append(resCh, "ok")
      /\ buf # << >> /\ Head(buf) \in {"CR", "LF"}
      /\ buf' = IF Head(buf) = "CR" /\ Len(buf) > 1 /\ buf[2] = "LF"
                THEN Tail(Tail(buf)) ELSE Tail(buf)
  BY DEF EndOfLine, PromptReturn, AskUnchanged, pumpVars, execVars
<1>2. /\ resCh = << >> /\ pumpIn = "off" /\ exec # "open" /\ command = "mactelnet"
      /\ buf \in Seq(STRING) /\ Used \in Nat /\ At(buf, Used)
      /\ At(arrived, Used + Len(buf)) /\ \A j \in LineEnds : Used < j
  BY <1>1 DEF SshInv, StageInv, ResultInv, MoreTypes, PlaceInv
<1>3. /\ Head(buf) = Typed[Used + 1] /\ At(Tail(buf), Used + 1)
      /\ Used + 1 \in 1 .. Len(Typed)
  BY <1>1, <1>2, AtTail
<1>4. Used + 1 \in LineEnds
  BY <1>1, <1>3 DEF LineEnds
<1>5. \A j \in LineEnds : Used + 1 <= j
  BY <1>2, LineEndsAre
<1>6. Tail(buf) \in Seq(STRING) /\ Len(Tail(buf)) = Len(buf) - 1 /\ Len(buf) \in Nat \ {0}
  BY <1>1, <1>2, TailIs
<1>7. Used' = Len(SentBy[npkt]) - Len(arrived) - Len(buf')
  BY <1>1 DEF Used
<1>8. /\ At(buf', Used') /\ Used' \in StartsOf("mactelnet") /\ Used' \in Nat
      /\ Used' + Len(buf') = Used + Len(buf)
  <2>1. CASE ~(Head(buf) = "CR" /\ Len(buf) > 1 /\ buf[2] = "LF")
    <3>1. buf' = Tail(buf)
      BY <1>1, <2>1
    <3>a. Len(buf') = Len(buf) - 1
      BY <1>6, <3>1
    <3>b. Used' = Used + 1
      BY <1>6, <1>7, <3>a, UsedIs
    <3>2. Used' = Used + 1 /\ Used' \in 0 .. Len(Typed)
      BY <1>2, <1>3, <3>b
    <3>3. Used' \in StartsOf("mactelnet")
      BY <1>4, <1>5, <3>2 DEF StartsOf
    <3>4. Used' \in Nat /\ Used' + Len(buf') = Used + Len(buf)
      BY <1>2, <1>6, <3>a, <3>b
    <3> QED BY <1>3, <3>1, <3>2, <3>3, <3>4
  <2>2. CASE Head(buf) = "CR" /\ Len(buf) > 1 /\ buf[2] = "LF"
    <3>1. buf' = Tail(Tail(buf))
      BY <1>1, <2>2
    <3>2. Tail(buf) # << >> /\ Head(Tail(buf)) = "LF"
      <4>1. Len(Tail(buf)) # 0
        BY <1>6, <2>2
      <4>2. Tail(buf) # << >>
        BY <1>6, <4>1, EmptyIs
      <4>3. Head(Tail(buf)) = buf[2]
        BY <1>2, <1>6, <2>2, <4>2, SMT
      <4> QED BY <2>2, <4>2, <4>3
    <3>3. /\ Head(Tail(buf)) = Typed[(Used + 1) + 1] /\ At(Tail(Tail(buf)), (Used + 1) + 1)
          /\ (Used + 1) + 1 \in 1 .. Len(Typed)
      <4>1. Used + 1 \in Nat
        BY <1>2
      <4> QED BY <1>3, <1>6, <3>2, <4>1, AtTail
    <3>4. Len(Tail(Tail(buf))) = Len(buf) - 2
      <4>1. Len(Tail(Tail(buf))) = Len(Tail(buf)) - 1
        BY <1>6, <3>2, TailIs
      <4> QED BY <1>6, <4>1
    <3>a. Len(buf') = Len(buf) - 2
      BY <3>1, <3>4
    <3>b. Used' = (Used + 1) + 1
      BY <1>6, <1>7, <3>a, UsedIs
    <3>5. Used' = (Used + 1) + 1 /\ Used' - 1 = Used + 1
      BY <1>2, <3>b
    <3>6. Used' \in 0 .. Len(Typed) /\ Typed[Used'] = "LF"
      BY <3>2, <3>3, <3>5
    <3>7. Used' - 1 \in LineEnds /\ \A j \in LineEnds : Used' - 1 <= j
      BY <1>4, <1>5, <3>5
    <3>8. Used' \in StartsOf("mactelnet")
      BY <3>6, <3>7 DEF StartsOf
    <3>9. Used' \in Nat /\ Used' + Len(buf') = Used + Len(buf)
      BY <1>2, <1>6, <3>a, <3>b
    <3> QED BY <3>1, <3>3, <3>5, <3>8, <3>9
  <2> QED BY <2>1, <2>2
<1> QED BY <1>1, <1>2, <1>8, Zenon DEF PlaceInv

\* A byte of the password is no line end.
LEMMA PasswordBytePlace ==
  ASSUME SshInv, PlaceInv, PasswordByte
  PROVE  PlaceInv'
<1>1. /\ UNCHANGED <<npkt, arrived, deviceIn, pumpIn, command, exec>>
      /\ prompter = "read" /\ buf # << >> /\ Head(buf) \notin {"CR", "LF"}
      /\ buf' = Tail(buf)
      /\ \/ prompter' = prompter /\ resCh' = resCh
         \/ prompter' = "done" /\ resCh' = Append(resCh, "error")
  BY DEF PasswordByte, PromptReturn, AskUnchanged, askVars, pumpVars, execVars
<1>2. /\ resCh = << >> /\ pumpIn = "off" /\ exec # "open" /\ command = "mactelnet"
      /\ buf \in Seq(STRING) /\ Used \in Nat /\ At(buf, Used)
      /\ At(arrived, Used + Len(buf)) /\ \A j \in LineEnds : Used < j
  BY <1>1 DEF SshInv, StageInv, ResultInv, MoreTypes, PlaceInv
<1>3. Head(buf) = Typed[Used + 1] /\ At(Tail(buf), Used + 1)
  BY <1>1, <1>2, AtTail
<1>4. Used + 1 \notin LineEnds
  BY <1>1, <1>3 DEF LineEnds
<1>5. \A j \in LineEnds : Used + 1 < j
  BY <1>2, <1>4, LineEndsAre
<1>6. Len(Tail(buf)) = Len(buf) - 1 /\ Len(buf) \in Nat \ {0}
  BY <1>1, <1>2, TailIs
<1>7. Used' = Len(SentBy[npkt]) - Len(arrived) - Len(buf')
  BY <1>1 DEF Used
<1>8. Used' = Used + 1 /\ Used' \in Nat /\ Used' + Len(buf') = Used + Len(buf)
  BY <1>1, <1>2, <1>6, <1>7, UsedIs, SMTT(30)
<1>9. resCh' # <<"ok">> /\ prompter' # "off"
  <2>1. << >> # <<"ok">> /\ Append(<< >>, "error") # <<"ok">>
    BY SMT
  <2> QED BY <1>1, <1>2, <2>1
<1>10. At(buf', Used') /\ At(arrived', Used' + Len(buf')) /\ \A j \in LineEnds : Used' < j
  BY <1>1, <1>2, <1>3, <1>5, <1>8
<1> QED BY <1>1, <1>2, <1>8, <1>9, <1>10, Zenon DEF PlaceInv

\* What is in the buffer comes right behind what the device has.
LEMMA WrittenAt ==
  ASSUME SshInv, PlaceInv, pumpIn = "write"
  PROVE  /\ At(deviceIn \o buf, Used - Len(deviceIn))
         /\ Used - Len(deviceIn) \in StartsOf(command)
         /\ deviceIn \o buf \in Seq(STRING)
         /\ Len(deviceIn \o buf) = Len(deviceIn) + Len(buf)
<1>1. /\ Used - Len(deviceIn) \in StartsOf(command)
      /\ At(deviceIn, Used - Len(deviceIn)) /\ At(buf, Used)
      /\ deviceIn \in Seq(STRING) /\ buf \in Seq(STRING)
  BY DEF PlaceInv, SshInv, MoreTypes
<1>2. PICK h : h = Used - Len(deviceIn)
  OBVIOUS
<1>3. h \in Nat /\ h + Len(deviceIn) = Used
  <2>1. h \in 0 .. Len(Typed)
    BY <1>1, <1>2, StartsAre
  <2> QED BY <1>2, <2>1, LineEndsAre, UsedIs
<1>4. At(deviceIn \o buf, h)
  BY <1>1, <1>2, <1>3, AtConcat
<1> QED BY <1>1, <1>2, <1>4

LEMMA PumpWrotePlace ==
  ASSUME SshInv, PlaceInv, PumpWrote
  PROVE  PlaceInv'
<1>1. /\ UNCHANGED <<npkt, arrived, prompter, resCh, command, exec>>
      /\ deviceIn' = deviceIn \o buf /\ buf' = << >>
      /\ pumpIn = "write" /\ pumpIn' = "copy"
  BY DEF PumpWrote, PumpUnchanged, askVars, execVars
<1>2. /\ prompter \notin {"ask", "read"} /\ exec # "open" /\ At(buf, Used)
      /\ At(arrived, Used + Len(buf))
  BY <1>1 DEF SshInv, StageInv, PlaceInv
<1>3. Len(buf') = 0
  BY <1>1, SMT
<1>4. Used' = Len(SentBy[npkt]) - Len(arrived) - Len(buf')
  BY <1>1 DEF Used
<1>5. Used' = Used + Len(buf) /\ Used' \in Nat /\ Used' + Len(buf') = Used + Len(buf)
  BY <1>3, <1>4, UsedIs, SMTT(30)
<1>6. At(buf', Used')
  <2>1. Used + Len(buf) <= Len(Typed)
    BY <1>2 DEF At
  <2>2. Used' \in 0 .. Len(Typed)
    BY <1>5, <2>1, LineEndsAre
  <2> QED BY <1>1, <2>2, AtEmpty
<1>7. /\ Used' - Len(deviceIn') = Used - Len(deviceIn) /\ deviceIn' \in Seq(STRING)
      /\ At(deviceIn', Used - Len(deviceIn)) /\ Used - Len(deviceIn) \in StartsOf(command)
  BY <1>1, <1>5, WrittenAt, UsedIs
<1>8. At(arrived', Used' + Len(buf'))
  BY <1>1, <1>2, <1>5
<1> QED BY <1>1, <1>2, <1>5, <1>6, <1>7, <1>8, Zenon DEF PlaceInv

LEMMA PumpWriteFailedPlace ==
  ASSUME SshInv, PlaceInv, PumpWriteFailed
  PROVE  PlaceInv'
<1>1. /\ UNCHANGED <<npkt, arrived, buf, prompter, resCh, command, exec>>
      /\ deviceIn' \in {deviceIn, deviceIn \o buf}
      /\ pumpIn = "write" /\ pumpIn' = "done"
  BY DEF PumpWriteFailed, PumpUnchanged, askVars, execVars
<1>2. /\ prompter \notin {"ask", "read"} /\ exec # "open"
      /\ deviceIn \in Seq(STRING) /\ At(deviceIn, Used - Len(deviceIn))
  BY <1>1 DEF SshInv, StageInv, PlaceInv
<1>3. \E k \in StartsOf(command) : At(deviceIn', k)
  BY <1>1, <1>2, WrittenAt
<1>4. deviceIn' \in Seq(STRING)
  BY <1>1, <1>2, WrittenAt
<1>5. Used' = Used
  BY <1>1 DEF Used
<1> QED BY <1>1, <1>2, <1>3, <1>4, <1>5, Zenon DEF PlaceInv

LEMMA ClientTypesPlace ==
  ASSUME SshInv, PlaceInv, ClientTypes
  PROVE  PlaceInv'
<1>1. /\ UNCHANGED <<buf, deviceIn, prompter, pumpIn, resCh, command, exec>>
      /\ npkt < Len(Packets) /\ npkt' = npkt + 1
      /\ arrived' = arrived \o Packets[npkt + 1]
  BY DEF ClientTypes, EnvUnchanged, askVars, pumpVars, execVars
<1>2. npkt \in Nat /\ npkt' \in 0 .. Len(Packets)
  BY <1>1, PacketsAre DEF PlaceInv
<1>3. PICK q \in Seq(STRING) : q = Packets[npkt + 1]
  BY <1>1, <1>2, NextPacket
<1>4. At(q, Len(SentBy[npkt])) /\ Len(SentBy[npkt + 1]) = Len(SentBy[npkt]) + Len(q)
  BY <1>1, <1>2, <1>3, NextPacket
<1>5. arrived \in Seq(STRING) /\ At(arrived, Used + Len(buf))
  BY DEF SshInv, MoreTypes, PlaceInv
<1>6. Used + Len(buf) \in Nat /\ (Used + Len(buf)) + Len(arrived) = Len(SentBy[npkt])
  BY UsedIs
<1>7. At(arrived', Used + Len(buf))
  BY <1>1, <1>3, <1>4, <1>5, <1>6, AtConcat
<1>8. Used' = Used
  <2>1. Used' = Len(SentBy[npkt + 1]) - Len(arrived') - Len(buf)
    BY <1>1 DEF Used
  <2>2. Len(arrived') = Len(arrived) + Len(q) /\ Len(q) \in Nat
    BY <1>1, <1>3, <1>5
  <2> QED BY <1>4, <2>1, <2>2, UsedIs
<1> QED BY <1>1, <1>2, <1>7, <1>8, Zenon DEF PlaceInv

LEMMA PlaceInit == Init => PlaceInv
<1> SUFFICES ASSUME Init PROVE PlaceInv
  OBVIOUS
<1>1. /\ npkt = 0 /\ arrived = << >> /\ buf = << >> /\ deviceIn = << >>
      /\ prompter = "off" /\ pumpIn = "off" /\ resCh = << >> /\ exec = "off"
  BY DEF Init
<1>2. Len(<< >>) = 0 /\ << >> # <<"ok">> /\ << >> \in Seq(STRING)
  BY SMT
<1>3. Used = 0
  <2>1. Len(SentBy[npkt]) = 0 /\ Len(arrived) = 0 /\ Len(buf) = 0
    BY <1>1, <1>2, SentByIs
  <2> QED BY <2>1 DEF Used
<1>4. At(<< >>, 0) /\ 0 + Len(<< >>) = 0 /\ 0 \in 0 .. Len(Packets)
  <2>1. 0 \in 0 .. Len(Typed) /\ 0 \in 0 .. Len(Packets)
    BY LineEndsAre, PacketsAre
  <2> QED BY <1>2, <2>1, AtEmpty
<1>5. At(buf, Used) /\ At(arrived, Used + Len(buf)) /\ Used \in Nat
  BY <1>1, <1>3, <1>4
<1> QED BY <1>1, <1>2, <1>3, <1>4, <1>5, Zenon DEF PlaceInv

LEMMA PlaceNext == SshInv /\ PlaceInv /\ [Next]_vars => PlaceInv'
<1> SUFFICES ASSUME SshInv, PlaceInv, [Next]_vars PROVE PlaceInv'
  OBVIOUS
<1>1. CASE Elsewhere
  BY <1>1, ElsewhereKeepsPlace
<1>2. CASE RequestStep
  BY <1>1, <1>2, StepsElsewhere, ExecReqPlace DEF RequestStep
<1>3. CASE HandlerStep \/ PumpOutStep \/ ResizeStep \/ UNCHANGED vars
  BY <1>1, <1>3, StepsElsewhere
<1>4. CASE ExecStep
  BY <1>1, <1>4, StepsElsewhere, DispatchExecPlace, PasswordResultPlace,
     OpenSessionPlace DEF ExecStep
<1>5. CASE AskStep
  BY <1>5, AskPlace, FillStepPlace, EndOfLinePlace, PasswordBytePlace DEF AskStep
<1>6. CASE PumpInStep
  BY <1>6, PumpWritePlace, PumpWrotePlace, PumpWriteFailedPlace, FillStepPlace
     DEF PumpInStep
<1>7. CASE EnvStep
  BY <1>1, <1>7, StepsElsewhere, ClientTypesPlace DEF EnvStep
<1> QED BY <1>2, <1>3, <1>4, <1>5, <1>6, <1>7 DEF Next

LEMMA PlaceAlways == Spec => []PlaceInv
BY SshAlways, PlaceInit, PlaceNext, PTL DEF Spec

\* What was typed behind position k.
LEMMA RestIs ==
  ASSUME NEW k \in 0 .. Len(Typed), NEW t, t = SubSeq(Typed, k + 1, Len(Typed))
  PROVE  /\ t \in Seq(STRING) /\ Len(t) = Len(Typed) - k
         /\ \A i \in 1 .. Len(t) : t[i] = Typed[k + i]
BY TypedIs

LEMMA AtIsPrefix ==
  ASSUME NEW s \in Seq(STRING), NEW k \in 0 .. Len(Typed), At(s, k),
         NEW t \in Seq(STRING), Len(t) = Len(Typed) - k,
         \A i \in 1 .. Len(t) : t[i] = Typed[k + i]
  PROVE  IsPrefix(s, t)
<1>1. Len(s) \in Nat /\ Len(t) \in Nat /\ Len(s) <= Len(t)
  BY LineEndsAre DEF At
<1>2. \A i \in 1 .. Len(s) : s[i] = t[i]
  BY <1>1 DEF At
<1>3. SubSeq(s, 1, Len(s)) = SubSeq(t, 1, Len(s))
  <2>1. /\ SubSeq(s, 1, Len(s)) = [i \in 1 .. Len(s) |-> s[i]]
        /\ SubSeq(t, 1, Len(s)) = [i \in 1 .. Len(s) |-> t[i]]
    BY <1>1
  <2> QED BY <1>2, <2>1
<1> QED BY <1>1, <1>3 DEF IsPrefix

LEMMA MinIsLeast ==
  ASSUME NEW T \in SUBSET Nat, NEW k \in T, \A j \in T : k <= j
  PROVE  Min(T) = k
<1>1. Min(T) = CHOOSE x \in T : \A y \in T : x <= y
  BY DEF Min
<1>2. Min(T) \in T /\ \A y \in T : Min(T) <= y
  BY <1>1
<1>3. PICK m \in Nat : m = Min(T)
  BY <1>2
<1>4. m <= k /\ k <= m /\ k \in Nat
  BY <1>2, <1>3
<1> QED BY <1>3, <1>4

LEMMA PlaceIsIntact == SshInv /\ PlaceInv => StreamIntact
<1> SUFFICES ASSUME SshInv, PlaceInv PROVE StreamIntact
  OBVIOUS
<1>0. Len(Typed) \in Nat /\ LineEnds \in SUBSET Nat /\ deviceIn \in Seq(STRING)
  BY LineEndsAre DEF PlaceInv
<1>1. CASE deviceIn = << >>
  <2>1. AfterPassword \in Seq(STRING)
    <3>1. << >> \in Seq(STRING)
      BY SMT
    <3>2. ASSUME LineEnds # {}
          PROVE  SubSeq(Typed, Min(LineEnds) + 1, Len(Typed)) \in Seq(STRING)
      <4>1. PICK k \in LineEnds : \A j \in LineEnds : k <= j
        BY <1>0, <3>2, Least
      <4>2. Min(LineEnds) = k
        BY <1>0, <4>1, MinIsLeast
      <4>3. k \in 0 .. Len(Typed)
        BY LineEndsAre
      <4> QED BY <4>2, <4>3, RestIs
    <3> QED BY <3>1, <3>2, TypedIs DEF AfterPassword
  <2>2. Len(<< >>) = 0
    BY SMT
  <2>3. PICK t \in Seq(STRING) : t = AfterPassword
    BY <2>1
  <2>4. SubSeq(t, 1, 0) = << >> /\ SubSeq(<< >>, 1, 0) = << >> /\ Len(t) >= 0
    BY <2>3, SMT
  <2>5. IsPrefix(deviceIn, t)
    BY <1>1, <2>2, <2>4 DEF IsPrefix
  <2> QED BY <2>3, <2>5 DEF StreamIntact
<1>2. CASE deviceIn # << >>
  <2>1. PICK h \in StartsOf(command) : At(deviceIn, h)
    BY <1>2 DEF SshInv, SshTypeOK, PlaceInv
  <2>2. h \in 0 .. Len(Typed) /\ h \in Nat
    BY <2>1, StartsAre, LineEndsAre
  <2>3. CASE command # "mactelnet"
    <3>1. AfterPassword = Typed
      BY <2>3 DEF AfterPassword
    <3>2. h = 0
      BY <2>1, <2>3 DEF StartsOf
    <3>3. Len(Typed) = Len(Typed) - h /\ \A i \in 1 .. Len(Typed) : h + i = i
      BY <1>0, <3>2
    <3>4. IsPrefix(deviceIn, Typed)
      BY <1>0, <2>1, <2>2, <3>3, TypedIs, AtIsPrefix
    <3> QED BY <3>1, <3>4 DEF StreamIntact
  <2>4. CASE command = "mactelnet" /\ h \in LineEnds /\ \A j \in LineEnds : h <= j
    <3>1. AfterPassword = SubSeq(Typed, h + 1, Len(Typed))
      <4>1. Min(LineEnds) = h /\ LineEnds # {}
        BY <1>0, <2>4, MinIsLeast
      <4> QED BY <2>4, <4>1 DEF AfterPassword
    <3>2. IsPrefix(deviceIn, AfterPassword)
      BY <1>0, <2>1, <2>2, <3>1, RestIs, AtIsPrefix
    <3> QED BY <3>2 DEF StreamIntact
  <2>5. CASE /\ command = "mactelnet" /\ h - 1 \in LineEnds
             /\ \A j \in LineEnds : h - 1 <= j
             /\ Typed[h] = "LF"
    <3>1. PICK m : m = h - 1
      OBVIOUS
    <3>2. m \in LineEnds /\ m + 1 = h /\ m \in 0 .. Len(Typed) /\ \A j \in LineEnds : m <= j
      BY <2>2, <2>5, <3>1, LineEndsAre
    <3>3. PICK t : t = AfterPassword
      OBVIOUS
    <3>4. t = SubSeq(Typed, m + 1, Len(Typed))
      <4>1. Min(LineEnds) = m /\ LineEnds # {}
        BY <1>0, <3>2, MinIsLeast
      <4> QED BY <2>5, <3>3, <4>1 DEF AfterPassword
    <3>5. /\ t \in Seq(STRING) /\ Len(t) = Len(Typed) - m
          /\ \A i \in 1 .. Len(t) : t[i] = Typed[m + i]
      BY <3>2, <3>4, RestIs
    <3>6. Len(t) > 0 /\ 1 \in 1 .. Len(t)
      BY <1>0, <2>2, <3>2, <3>5
    <3>7. Head(t) = "LF"
      <4>1. Head(t) = t[1]
        BY <3>5, <3>6
      <4>2. t[1] = Typed[m + 1]
        BY <3>5, <3>6
      <4> QED BY <2>5, <3>2, <4>1, <4>2
    <3>8. PICK u : u = Tail(t)
      OBVIOUS
    <3>9. /\ u \in Seq(STRING) /\ Len(u) = Len(Typed) - h
          /\ \A i \in 1 .. Len(u) : u[i] = Typed[h + i]
      <4>1. u \in Seq(STRING) /\ Len(u) = Len(t) - 1 /\ \A i \in 1 .. Len(u) : u[i] = t[i + 1]
        BY <3>5, <3>6, <3>8
      <4>2. Len(u) = Len(Typed) - h
        <5>1. m \in Nat
          BY <3>2, LineEndsAre
        <5>2. Len(u) = (Len(Typed) - m) - 1 /\ h = m + 1
          BY <3>2, <3>5, <4>1
        <5> QED BY <1>0, <5>1, <5>2
      <4>3. ASSUME NEW i \in 1 .. Len(u) PROVE u[i] = Typed[h + i]
        <5>1. i + 1 \in 1 .. Len(t) /\ m + (i + 1) = h + i
          BY <1>0, <2>2, <3>2, <3>5, <4>2
        <5> QED BY <3>5, <4>1, <5>1
      <4> QED BY <4>1, <4>2, <4>3
    <3>10. IsPrefix(deviceIn, Tail(t))
      BY <1>0, <2>1, <2>2, <3>8, <3>9, AtIsPrefix
    <3> QED BY <3>3, <3>6, <3>7, <3>10 DEF StreamIntact
  <2> QED BY <2>1, <2>3, <2>4, <2>5 DEF StartsOf
<1> QED BY <1>1, <1>2

\* Whatever the client types, in whatever packets, and whenever it closes: the
\* password line goes to the prompt and what follows it to the device, in
\* order, without a hole, and with no byte of the password among it.
THEOREM DeviceGetsTyped == Spec => []StreamIntact
BY SshAlways, PlaceAlways, PlaceIsIntact, PTL

=============================================================================

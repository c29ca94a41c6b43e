----------------------------- MODULE SshSession -----------------------------
(***************************************************************************)
(* One SSH session channel (internal/sshserver/server.go, exec.go):        *)
(* handleSession and its requests, the exec goroutine with the password    *)
(* prompt, and the goroutines that join the channel to a MAC-Telnet        *)
(* session: two io.Copy pumps and the window-change forwarder.             *)
(*                                                                         *)
(* mactelnet.Session appears by what module Session shows of it: Open and  *)
(* Close return, Write delivers or fails, Read ends when the session does. *)
(* The SSH library appears by what handleSession uses: Close sends the     *)
(* close message, and the channel's reads and its request stream end when  *)
(* the client's own close arrives.                                         *)
(***************************************************************************)
EXTENDS Integers, Sequences, SequencesExt, FiniteSetsExt

CONSTANTS
  Packets,      \* what the client types, packet by packet
  Commands,     \* the commands its exec request may name
  Sizes,        \* terminal sizes in pty-req and window-change
  WinchCap,     \* capacity of winchCh (4)
  BufSize,      \* bytes bufio.NewReader buffers (4096)
  WriteLimit,   \* largest Session.Write (maxPacket - headerLen - cpHeaderLen)
  MaxPassLen,   \* maxLen of readPasswordPrompt (256)
  MaxReqs,      \* bound: channel requests
  MaxOutput,    \* bound: chunks of terminal output
  Events        \* what the environment may do, see below

NoSize == "nosize"

ASSUME SshAssumption ==
  /\ Packets \in Seq(Seq(STRING))
  /\ Commands \subseteq {"mactelnet", "mactelnet -p", "query", "bad"}
  /\ Sizes # {} /\ NoSize \notin Sizes
  /\ {WinchCap, BufSize, WriteLimit, MaxPassLen} \subseteq Nat \ {0}
  /\ MaxReqs \in Nat /\ MaxOutput \in Nat
  /\ Events \subseteq {"shutdown", "clientClose", "eof", "deviceEnd",
                       "openFails", "linkFails"}

VARIABLES
  hs,           \* handleSession
  nreq,         \* requests handled
  ptySize,      \* *ptyCols, *ptyRows
  execStarted,
  winchCh,
  execDone,     \* the exec's code, once sent
  cancelled,    \* sessCtx is done
  chClosed,     \* handleSession has closed the channel
  exitStatus,   \* what sendExitStatus sent
  clientGone,   \* the client's close has arrived, or its connection is lost
  npkt,         \* packets of Packets sent so far
  eof,          \* the client has sent EOF
  arrived,      \* bytes the channel holds
  buf,          \* bytes chReader holds
  exec,         \* the exec goroutine
  command, rc,
  prompter,     \* the goroutine inside readPasswordPromptWithTimeout
  pwdLen,       \* bytes of the password so far
  resCh,
  pumpIn, pumpOut, resizer,
  winch,        \* the size the resizer is about to send
  errCh,
  sess,         \* the MAC-Telnet session
  deviceIn,     \* terminal input the device got
  deviceSize,   \* terminal size given to Open, then to Resize
  shown         \* chunks of output the client got

reqVars  == <<nreq, ptySize, execStarted, winchCh>>
chVars   == <<chClosed, exitStatus, clientGone>>
inVars   == <<npkt, eof, arrived>>
execVars == <<exec, command, rc, execDone>>
askVars  == <<prompter, pwdLen, resCh>>
pumpVars == <<pumpIn, pumpOut, errCh, shown>>
sizeVars == <<resizer, winch, deviceSize>>

vars == <<hs, reqVars, cancelled, chVars, inVars, buf, execVars, askVars,
          pumpVars, sizeVars, sess, deviceIn>>

Init ==
  /\ hs = "loop" /\ nreq = 0 /\ ptySize = NoSize /\ execStarted = FALSE
  /\ winchCh = << >>
  /\ execDone = << >> /\ cancelled = FALSE
  /\ chClosed = FALSE /\ exitStatus = << >> /\ clientGone = FALSE
  /\ npkt = 0 /\ eof = FALSE /\ arrived = << >> /\ buf = << >>
  /\ exec = "off" /\ command = "none" /\ rc = 0
  /\ prompter = "off" /\ pwdLen = 0 /\ resCh = << >>
  /\ pumpIn = "off" /\ pumpOut = "off" /\ errCh = << >> /\ shown = 0
  /\ resizer = "off" /\ winch = NoSize /\ deviceSize = NoSize
  /\ sess = "none" /\ deviceIn = << >>

----------------------------------------------------------------------------
(* handleSession and handleReq.                                            *)

ReqUnchanged == UNCHANGED <<chVars, inVars, buf, command, rc, execDone, askVars,
                            pumpVars, sizeVars, sess, deviceIn>>

Request == hs = "loop" /\ ~clientGone /\ nreq < MaxReqs /\ nreq' = nreq + 1

PtyReq(size) ==
  /\ Request
  /\ ptySize' = size
  /\ ReqUnchanged
  /\ UNCHANGED <<hs, cancelled, exec, execStarted, winchCh>>

\* A size that finds winchCh full is dropped.
WindowChange(size) ==
  /\ Request
  /\ winchCh' = IF Len(winchCh) < WinchCap THEN Append(winchCh, size)
                ELSE winchCh
  /\ ReqUnchanged
  /\ UNCHANGED <<hs, cancelled, exec, ptySize, execStarted>>

\* Mutant: every exec request starts a goroutine.
ExecReqAgain(cmd) ==
  /\ Request
  /\ execStarted' = TRUE /\ exec' = "start" /\ command' = cmd
  /\ UNCHANGED <<chVars, inVars, buf, rc, execDone, askVars, pumpVars,
                 sizeVars, sess, deviceIn, hs, cancelled, ptySize, winchCh>>

\* The first exec request starts the exec goroutine; later ones do nothing.
ExecReq(cmd) ==
  /\ Request
  /\ IF execStarted
     THEN UNCHANGED <<execStarted, exec, command>>
     ELSE execStarted' = TRUE /\ exec' = "start" /\ command' = cmd
  /\ UNCHANGED <<chVars, inVars, buf, rc, execDone, askVars, pumpVars,
                 sizeVars, sess, deviceIn, hs, cancelled, ptySize, winchCh>>

\* A request of another type, or one that does not parse, is refused.
OtherReq ==
  /\ Request
  /\ ReqUnchanged
  /\ UNCHANGED <<hs, cancelled, exec, ptySize, execStarted, winchCh>>

\* Mutant: handleSession does not wait for the exec.
ReqsClosedNoWait ==
  /\ hs = "loop" /\ clientGone
  /\ cancelled' = TRUE
  /\ hs' = "ret"
  /\ ReqUnchanged /\ UNCHANGED <<reqVars, exec>>

\* The request stream has ended: cancel the exec, if any, and wait for it.
ReqsClosed ==
  /\ hs = "loop" /\ clientGone
  /\ cancelled' = TRUE
  /\ hs' = IF execStarted THEN "drain" ELSE "ret"
  /\ ReqUnchanged /\ UNCHANGED <<reqVars, exec>>

ExecDrained ==
  /\ hs = "drain" /\ execDone # << >>
  /\ execDone' = Tail(execDone)
  /\ hs' = "ret"
  /\ UNCHANGED <<reqVars, cancelled, chVars, inVars, buf, exec, command, rc,
                 askVars, pumpVars, sizeVars, sess, deviceIn>>

sendExitStatus ==
  /\ hs = "loop" /\ execDone # << >>
  /\ execDone' = Tail(execDone)
  /\ exitStatus' = IF clientGone THEN exitStatus
                   ELSE Append(exitStatus, Head(execDone))
  /\ hs' = "ret"
  /\ UNCHANGED <<reqVars, cancelled, chClosed, clientGone, inVars, buf, exec,
                 command, rc, askVars, pumpVars, sizeVars, sess, deviceIn>>

\* Mutant: the channel is left to the client to close.
HandleReturnNoClose ==
  /\ hs = "ret"
  /\ cancelled' = TRUE
  /\ hs' = "done"
  /\ UNCHANGED <<reqVars, chVars, inVars, buf, execVars, askVars, pumpVars,
                 sizeVars, sess, deviceIn>>

\* The deferred cancel() and ch.Close().
HandleReturn ==
  /\ hs = "ret"
  /\ cancelled' = TRUE /\ chClosed' = TRUE
  /\ hs' = "done"
  /\ UNCHANGED <<reqVars, exitStatus, clientGone, inVars, buf, execVars,
                 askVars, pumpVars, sizeVars, sess, deviceIn>>

----------------------------------------------------------------------------
(* dispatchExec and execMactelnet.                                         *)

ExecUnchanged == UNCHANGED <<hs, reqVars, cancelled, chVars, inVars, buf,
                             command>>

\* Parse the command.  The dimensions are read here, not when the request
\* was handled.  Codes: 127 and 2 are refusals, 0 and 1 what a query returns.
DispatchExec ==
  /\ exec = "start"
  /\ \/ /\ command \in {"mactelnet", "mactelnet -p"}
        /\ deviceSize' = ptySize
        /\ IF command = "mactelnet"
           THEN exec' = "prompt" /\ prompter' = "ask"
           ELSE exec' = "open" /\ UNCHANGED prompter
        /\ UNCHANGED rc
     \/ /\ command = "bad"
        /\ rc' \in {2, 127} /\ exec' = "ret"
        /\ UNCHANGED <<prompter, deviceSize>>
     \/ /\ command = "query"
        /\ rc' \in {0, 1, 2} /\ exec' = "ret"
        /\ UNCHANGED <<prompter, deviceSize>>
  /\ ExecUnchanged
  /\ UNCHANGED <<execDone, pwdLen, resCh, pumpVars, resizer, winch, sess,
                 deviceIn>>

PasswordResult ==
  /\ exec = "prompt" /\ resCh # << >>
  /\ resCh' = Tail(resCh)
  /\ IF Head(resCh) = "ok" THEN exec' = "open" /\ UNCHANGED rc
     ELSE exec' = "ret" /\ rc' = 1
  /\ ExecUnchanged
  /\ UNCHANGED <<execDone, prompter, pwdLen, pumpVars, sizeVars, sess,
                 deviceIn>>

\* Mutant: the prompt is not timed.
PromptCancelOnly ==
  /\ exec = "prompt" /\ cancelled
  /\ exec' = "ret" /\ rc' = 1
  /\ ExecUnchanged
  /\ UNCHANGED <<execDone, askVars, pumpVars, sizeVars, sess, deviceIn>>

\* Mutant: after the timeout the session is opened without a password.
PromptTimeoutGoesOn ==
  /\ exec = "prompt"
  /\ exec' = "open"
  /\ ExecUnchanged
  /\ UNCHANGED <<rc, execDone, askVars, pumpVars, sizeVars, sess, deviceIn>>

\* passwordPromptTimeout passes, or sessCtx is done.
PromptTimeout ==
  /\ exec = "prompt"
  /\ exec' = "ret" /\ rc' = 1
  /\ ExecUnchanged
  /\ UNCHANGED <<execDone, askVars, pumpVars, sizeVars, sess, deviceIn>>

\* mactelnet.Open, and the three goroutines when it succeeds.
OpenSession ==
  /\ exec = "open"
  /\ \/ /\ ~cancelled
        /\ sess' = "open" /\ exec' = "select"
        /\ pumpIn' = "copy" /\ pumpOut' = "copy" /\ resizer' = "run"
        /\ UNCHANGED rc
     \/ /\ cancelled \/ "openFails" \in Events
        /\ exec' = "ret" /\ rc' = 1
        /\ UNCHANGED <<sess, pumpIn, pumpOut, resizer>>
  /\ ExecUnchanged
  /\ UNCHANGED <<execDone, askVars, errCh, shown, winch, deviceSize, deviceIn>>

\* The select that ends the session: sessCtx, or the first pump to return.
SelectDone ==
  /\ exec = "select"
  /\ \/ /\ cancelled
        /\ rc' = 0 /\ UNCHANGED errCh
     \/ /\ errCh # << >>
        /\ rc' = IF Head(errCh) = "error" THEN 1 ELSE 0
        /\ errCh' = Tail(errCh)
  /\ exec' = "close"
  /\ ExecUnchanged
  /\ UNCHANGED <<execDone, askVars, pumpIn, pumpOut, shown, sizeVars, sess,
                 deviceIn>>

\* The deferred sess.Close().
CloseSession ==
  /\ exec = "close"
  /\ sess' = "closed" /\ exec' = "ret"
  /\ ExecUnchanged
  /\ UNCHANGED <<rc, execDone, askVars, pumpVars, sizeVars, deviceIn>>

ExecReturn ==
  /\ exec = "ret"
  /\ execDone' = Append(execDone, rc)
  /\ exec' = "done"
  /\ ExecUnchanged
  /\ UNCHANGED <<rc, askVars, pumpVars, sizeVars, sess, deviceIn>>

----------------------------------------------------------------------------
(* readPasswordPrompt, on a goroutine of its own.                          *)

AskUnchanged == UNCHANGED <<hs, reqVars, cancelled, chVars, npkt, eof,
                            execVars, pumpVars, sizeVars, sess, deviceIn>>

PromptReturn(result) == prompter' = "done" /\ resCh' = Append(resCh, result)

\* Write "Password: ".
Ask ==
  /\ prompter = "ask"
  /\ IF chClosed \/ clientGone
     THEN PromptReturn("error")
     ELSE prompter' = "read" /\ UNCHANGED resCh
  /\ AskUnchanged /\ UNCHANGED <<arrived, buf, pwdLen>>

\* bufio.Reader.fill: as much of what has arrived as the buffer holds.
Fill ==
  LET n == Min({Len(arrived), BufSize})
  IN /\ buf = << >> /\ n > 0
     /\ buf' = SubSeq(arrived, 1, n)
     /\ arrived' = SubSeq(arrived, n + 1, Len(arrived))

\* The channel's Read returns io.EOF.
AtEOF == buf = << >> /\ arrived = << >> /\ (eof \/ clientGone)

PromptFill ==
  /\ prompter = "read" /\ Fill
  /\ AskUnchanged /\ UNCHANGED askVars

PromptEOF ==
  /\ prompter = "read" /\ AtEOF
  /\ PromptReturn("error")
  /\ AskUnchanged /\ UNCHANGED <<arrived, buf, pwdLen>>

\* Mutant: the buffer is thrown away with the line.
EndOfLineDropsBuffer ==
  /\ prompter = "read" /\ buf # << >> /\ Head(buf) \in {"CR", "LF"}
  /\ buf' = << >>
  /\ PromptReturn("ok")
  /\ AskUnchanged /\ UNCHANGED <<arrived, pwdLen>>

\* The line ends; after a CR an LF is taken too, if it is already in buf.
EndOfLine ==
  /\ prompter = "read" /\ buf # << >> /\ Head(buf) \in {"CR", "LF"}
  /\ buf' = IF Head(buf) = "CR" /\ Len(buf) > 1 /\ buf[2] = "LF"
            THEN Tail(Tail(buf)) ELSE Tail(buf)
  /\ PromptReturn("ok")
  /\ AskUnchanged /\ UNCHANGED <<arrived, pwdLen>>

\* Backspace edits, control bytes are ignored, others add to the password.
PasswordByte ==
  /\ prompter = "read" /\ buf # << >> /\ Head(buf) \notin {"CR", "LF"}
  /\ buf' = Tail(buf)
  /\ \/ /\ Head(buf) = "BS"
        /\ pwdLen' = IF pwdLen > 0 THEN pwdLen - 1 ELSE 0
        /\ UNCHANGED <<prompter, resCh>>
     \/ Head(buf) = "CTL" /\ UNCHANGED askVars
     \/ /\ Head(buf) \notin {"BS", "CTL"}
        /\ IF pwdLen >= MaxPassLen
           THEN PromptReturn("error") /\ UNCHANGED pwdLen
           ELSE pwdLen' = pwdLen + 1 /\ UNCHANGED <<prompter, resCh>>
  /\ AskUnchanged /\ UNCHANGED arrived

----------------------------------------------------------------------------
(* The pumps and the resizer.                                              *)

PumpUnchanged == UNCHANGED <<hs, reqVars, cancelled, chVars, npkt, eof,
                             execVars, askVars, sizeVars, sess>>

\* bufio.Reader.WriteTo hands Session.Write the whole buffer.
PumpWrite ==
  /\ pumpIn = "copy" /\ buf # << >>
  /\ IF sess # "open" THEN pumpIn' = "done" /\ errCh' = Append(errCh, "clean")
     ELSE IF Len(buf) > WriteLimit
     THEN pumpIn' = "done" /\ errCh' = Append(errCh, "error")
     ELSE pumpIn' = "write" /\ UNCHANGED errCh
  /\ PumpUnchanged /\ UNCHANGED <<pumpOut, shown, arrived, buf, deviceIn>>

PumpWrote ==
  /\ pumpIn = "write" /\ sess = "open"
  /\ deviceIn' = deviceIn \o buf
  /\ buf' = << >> /\ pumpIn' = "copy"
  /\ PumpUnchanged /\ UNCHANGED <<pumpOut, shown, errCh, arrived>>

\* The session ends under Write, or no ACK comes; the device may have the
\* bytes all the same.
PumpWriteFailed ==
  /\ pumpIn = "write"
  /\ sess # "open" \/ cancelled \/ "linkFails" \in Events
  /\ deviceIn' \in {deviceIn, deviceIn \o buf}
  /\ pumpIn' = "done" /\ errCh' = Append(errCh, "error")
  /\ PumpUnchanged /\ UNCHANGED <<pumpOut, shown, arrived, buf>>

PumpFill ==
  /\ pumpIn = "copy" /\ Fill
  /\ PumpUnchanged /\ UNCHANGED <<pumpVars, deviceIn>>

PumpEOF ==
  /\ pumpIn = "copy" /\ AtEOF
  /\ pumpIn' = "done" /\ errCh' = Append(errCh, "clean")
  /\ PumpUnchanged /\ UNCHANGED <<pumpOut, shown, arrived, buf, deviceIn>>

\* io.Copy(ch, sess): a chunk of output, then a write to the channel that
\* waits for the client's window.
PumpOutput ==
  /\ pumpOut = "copy" /\ sess = "open" /\ ~cancelled /\ shown < MaxOutput
  /\ pumpOut' = "write"
  /\ PumpUnchanged /\ UNCHANGED <<pumpIn, errCh, shown, arrived, buf, deviceIn>>

PumpShown ==
  /\ pumpOut = "write" /\ ~chClosed /\ ~clientGone
  /\ shown' = shown + 1 /\ pumpOut' = "copy"
  /\ PumpUnchanged /\ UNCHANGED <<pumpIn, errCh, arrived, buf, deviceIn>>

\* Either the session's pipe or the channel is closed.
PumpOutEnds ==
  /\ \/ pumpOut = "copy" /\ (sess # "open" \/ cancelled)
     \/ pumpOut = "write" /\ clientGone
  /\ pumpOut' = "done" /\ errCh' = Append(errCh, "clean")
  /\ PumpUnchanged /\ UNCHANGED <<pumpIn, shown, arrived, buf, deviceIn>>

ResizeUnchanged == UNCHANGED <<hs, nreq, ptySize, execStarted,
                               cancelled, chVars, inVars, buf, execVars,
                               askVars, pumpVars, sess, deviceIn>>

TakeWinch ==
  /\ resizer = "run" /\ winchCh # << >>
  /\ winch' = Head(winchCh) /\ winchCh' = Tail(winchCh)
  /\ resizer' = "resize"
  /\ ResizeUnchanged /\ UNCHANGED deviceSize

\* Session.Resize; its error is ignored.
ForwardWinch ==
  /\ resizer = "resize"
  /\ \/ sess = "open" /\ deviceSize' = winch
     \/ /\ sess # "open" \/ cancelled \/ "linkFails" \in Events
        /\ UNCHANGED deviceSize
  /\ resizer' = "run"
  /\ ResizeUnchanged /\ UNCHANGED <<winch, winchCh>>

ResizerEnds ==
  /\ resizer = "run" /\ cancelled
  /\ resizer' = "done"
  /\ ResizeUnchanged /\ UNCHANGED <<winch, winchCh, deviceSize>>

----------------------------------------------------------------------------
(* The client, the server's context and the device.                        *)

EnvUnchanged == UNCHANGED <<hs, reqVars, chClosed, exitStatus, buf, execVars,
                            askVars, pumpVars, sizeVars, deviceIn>>

ClientTypes ==
  /\ ~clientGone /\ ~eof /\ npkt < Len(Packets)
  /\ npkt' = npkt + 1
  /\ arrived' = arrived \o Packets[npkt + 1]
  /\ EnvUnchanged /\ UNCHANGED <<cancelled, clientGone, eof, sess>>

ClientEOF ==
  /\ "eof" \in Events /\ ~clientGone /\ ~eof
  /\ eof' = TRUE
  /\ EnvUnchanged /\ UNCHANGED <<cancelled, clientGone, npkt, arrived, sess>>

ClientClose ==
  /\ "clientClose" \in Events \/ chClosed
  /\ ~clientGone
  /\ clientGone' = TRUE
  /\ EnvUnchanged /\ UNCHANGED <<cancelled, inVars, sess>>

ServerShutdown ==
  /\ "shutdown" \in Events /\ ~cancelled
  /\ cancelled' = TRUE
  /\ EnvUnchanged /\ UNCHANGED <<clientGone, inVars, sess>>

DeviceEnd ==
  /\ "deviceEnd" \in Events /\ sess = "open"
  /\ sess' = "closed"
  /\ EnvUnchanged /\ UNCHANGED <<cancelled, clientGone, inVars>>

----------------------------------------------------------------------------
(* The specification.                                                      *)

RequestStep ==
  \/ \E size \in Sizes : PtyReq(size) \/ WindowChange(size)
  \/ \E cmd \in Commands : ExecReq(cmd)
  \/ OtherReq

HandlerStep == ReqsClosed \/ ExecDrained \/ sendExitStatus \/ HandleReturn

ExecStep ==
  \/ DispatchExec \/ PasswordResult \/ PromptTimeout \/ OpenSession
  \/ SelectDone \/ CloseSession \/ ExecReturn

AskStep == Ask \/ PromptFill \/ PromptEOF \/ EndOfLine \/ PasswordByte

PumpInStep ==
  \/ PumpWrite \/ PumpWrote \/ PumpWriteFailed \/ PumpFill \/ PumpEOF

PumpOutStep == PumpOutput \/ PumpShown \/ PumpOutEnds

ResizeStep == TakeWinch \/ ForwardWinch \/ ResizerEnds

EnvStep ==
  \/ ClientTypes \/ ClientEOF \/ ClientClose \/ ServerShutdown \/ DeviceEnd

AllReturned ==
  /\ hs = "done" /\ exec \in {"off", "done"}
  /\ {prompter, pumpIn, pumpOut, resizer} \subseteq {"off", "done"}

Next ==
  \/ RequestStep \/ HandlerStep \/ ExecStep \/ AskStep
  \/ PumpInStep \/ PumpOutStep \/ ResizeStep \/ EnvStep
  \/ AllReturned /\ UNCHANGED vars

Spec == Init /\ [][Next]_vars

(***************************************************************************)
(* Every goroutine that can run does, the prompt's timer fires, and Open,  *)
(* Write and Resize return (module Session).  A client answers the         *)
(* server's close of the channel, as RFC 4254 requires; nothing else is    *)
(* assumed of it, not even that it reads what it is sent.                  *)
(***************************************************************************)
Fairness ==
  /\ WF_vars(HandlerStep)
  /\ WF_vars(ExecStep)
  /\ WF_vars(AskStep)
  /\ WF_vars(PumpInStep)
  /\ WF_vars(PumpOutput \/ PumpOutEnds)
  /\ WF_vars(ResizeStep)
  /\ WF_vars(chClosed /\ ClientClose)

FairSpec == Spec /\ Fairness

----------------------------------------------------------------------------
(* Properties.                                                             *)

Codes == {0, 1, 2, 127}

\* Every variable has the type of its declaration; the channels stay inside
\* their capacities (execDone and resCh 1, errCh 2, winchCh WinchCap).
SshTypeOK ==
  /\ hs \in {"loop", "drain", "ret", "done"}
  /\ ptySize \in Sizes \cup {NoSize} /\ deviceSize \in Sizes \cup {NoSize}
  /\ execStarted \in BOOLEAN /\ cancelled \in BOOLEAN
  /\ winchCh \in Seq(Sizes) /\ Len(winchCh) <= WinchCap
  /\ execDone \in Seq(Codes) /\ Len(execDone) <= 1
  /\ exitStatus \in Seq(Codes)
  /\ exec \in {"off", "start", "prompt", "open", "select", "close", "ret",
               "done"}
  /\ prompter \in {"off", "ask", "read", "done"}
  /\ pwdLen \in 0 .. MaxPassLen
  /\ resCh \in Seq({"ok", "error"}) /\ Len(resCh) <= 1
  /\ errCh \in Seq({"clean", "error"}) /\ Len(errCh) <= 2
  /\ Len(buf) <= BufSize
  /\ pumpIn \in {"off", "copy", "write", "done"}
  /\ pumpOut \in {"off", "copy", "write", "done"}
  /\ resizer \in {"off", "run", "resize", "done"}
  /\ sess \in {"none", "open", "closed"}

\* chReader is not locked: the prompt's goroutine and the pump never use it at
\* the same time, even when the prompt timed out and its goroutine lives on.
OneReader == ~(prompter \in {"ask", "read"} /\ pumpIn \in {"copy", "write"})

Typed == FlattenSeq(Packets)

\* Where a line ends in what is typed.
LineEnds == {i \in 1 .. Len(Typed) : Typed[i] \in {"CR", "LF"}}

\* The terminal input proper: everything typed after the password line.
AfterPassword ==
  IF command # "mactelnet" THEN Typed
  ELSE IF LineEnds = {} THEN << >>
  ELSE SubSeq(Typed, Min(LineEnds) + 1, Len(Typed))

\* The device gets what was typed after the password, in order and without a
\* hole, and never a byte of the password; an LF behind the CR may be missing.
StreamIntact ==
  \/ IsPrefix(deviceIn, AfterPassword)
  \/ /\ Len(AfterPassword) > 0 /\ Head(AfterPassword) = "LF"
     /\ IsPrefix(deviceIn, Tail(AfterPassword))

\* The channel is closed only after the MAC-Telnet session: a client that
\* disconnects in the middle of anything leaves no session behind.
ReleasedBeforeClose == chClosed => sess # "open" /\ exec \in {"off", "done"}

\* "Caller should chunk" (Session.Write): what the pump hands to Write fits.
WritesFit == pumpIn = "copy" /\ sess = "open" => Len(buf) <= WriteLimit

\* A client that goes away, or an exec that returns, ends every goroutine of
\* the channel, the prompt's blocked ReadByte included.
NothingLeaks ==
  /\ clientGone ~> AllReturned
  /\ execDone # << >> ~> AllReturned

\* "A client that ... never sends a password no longer pins the proxy".
PromptEnds == exec = "prompt" ~> exec # "prompt"

=============================================================================

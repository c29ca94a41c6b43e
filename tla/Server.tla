------------------------------- MODULE Server -------------------------------
(***************************************************************************)
(* The daemon (cmd/mactelnet-proxy/main.go, internal/sshserver/server.go,  *)
(* keys.go): starting up on the files of the keys directory, the accept    *)
(* loop, public-key authentication against a key set that SIGHUP replaces, *)
(* shutdown on SIGTERM, and crashes and restarts at any point.             *)
(*                                                                         *)
(* What runs on an authenticated connection is module SshSession; here it  *)
(* is only whether a MAC-Telnet session with a device is up.               *)
(***************************************************************************)
EXTENDS Integers

CONSTANTS
  Conns,       \* TCP connections of clients, each used once
  PubKeys,     \* client keys
  MaxBoots,    \* bound: starts of the process
  MaxEdits,    \* bound: edits of authorized_keys
  MaxHups,     \* bound: SIGHUPs
  Events,      \* which failures may happen
  Missing,     \* no such file
  Torn         \* a host key file without a complete key

ASSUME ServerAssumption ==
  /\ {MaxBoots, MaxEdits, MaxHups} \subseteq Nat
  /\ Events \subseteq {"crash", "term", "fsErr", "listenErr"}
  /\ Missing # Torn /\ {Missing, Torn} \cap Nat = {}
  /\ \A K \in SUBSET PubKeys : K # Missing

VARIABLES
  proc,          \* where runServe is
  boots,         \* starts so far
  hostFile,      \* the host key file: Missing, Torn or the key in it
  signer,        \* the host key in memory, 0 for none
  served,        \* history: the host keys clients were shown
  authFile,      \* authorized_keys: Missing or a set of keys
  edits,
  keys,          \* s.keys
  hups,
  hupCh,         \* hupCh holds a signal
  reloader,      \* the SIGHUP goroutine: "off", "wait", "read", "lock", "done"
  fileKeys,      \* the keys the reloader has parsed
  unsignalled,   \* history: an edit still needs a (successful) SIGHUP
  ctxDone,       \* SIGTERM or SIGINT has been received
  listener,      \* "none", "open", "closed"
  conn,          \* each connection
  device         \* the MAC-Telnet session of each connection: "none",
                 \*   "opening", "up", "ended", "crashed" or "abandoned"

bootVars == <<boots, hostFile, signer, served>>
fileVars == <<authFile, edits, unsignalled>>
hupVars  == <<hups, hupCh, reloader, fileKeys>>
connVars == <<conn, device>>

vars == <<proc, bootVars, fileVars, keys, hupVars, ctxDone, listener, connVars>>

Init ==
  /\ proc = "down" /\ boots = 0
  /\ hostFile = Missing /\ signer = 0 /\ served = {}
  /\ authFile = Missing /\ edits = 0 /\ unsignalled = FALSE
  /\ keys = {}
  /\ hups = 0 /\ hupCh = FALSE /\ reloader = "off" /\ fileKeys = {}
  /\ ctxDone = FALSE /\ listener = "none"
  /\ conn = [c \in Conns |-> "none"]
  /\ device = [c \in Conns |-> "none"]

----------------------------------------------------------------------------
(* The end of the process: everything in memory is gone, the kernel closes *)
(* the connections, and a device that got no END keeps its session.        *)

ProcessEnds(fate) ==
  /\ proc' = "down"
  /\ signer' = 0 /\ keys' = {}
  /\ hupCh' = FALSE /\ reloader' = "off" /\ fileKeys' = {}
  /\ ctxDone' = FALSE /\ listener' = "none"
  /\ conn' = [c \in Conns |-> IF conn[c] = "none" THEN "none" ELSE "closed"]
  /\ device' = [c \in Conns |-> IF device[c] \in {"opening", "up"} THEN fate
                            ELSE device[c]]

\* A failed step of the start: runServe returns 1.
StartFails == ProcessEnds("crashed") /\ UNCHANGED <<boots, served, fileVars, hups>>

FsErr == "fsErr" \in Events

----------------------------------------------------------------------------
(* Starting up: New, the SIGHUP goroutine, Serve.                          *)

BootUnchanged == UNCHANGED <<served, fileVars, hupVars, ctxDone, listener,
                             connVars>>

Start ==
  /\ proc = "down" /\ boots < MaxBoots
  /\ boots' = boots + 1
  /\ proc' = "hostkey"
  /\ BootUnchanged /\ UNCHANGED <<hostFile, signer, keys>>

\* loadOrCreateHostKey: a missing file is created, one that does not parse
\* is an error.
LoadHostKey ==
  /\ proc = "hostkey"
  /\ \/ /\ hostFile = Missing
        /\ proc' = "create"
        /\ BootUnchanged /\ UNCHANGED <<boots, hostFile, signer, keys>>
     \/ /\ hostFile \notin {Missing, Torn}
        /\ signer' = hostFile
        /\ proc' = "authkeys"
        /\ BootUnchanged /\ UNCHANGED <<boots, hostFile, keys>>
     \/ /\ hostFile = Torn \/ FsErr
        /\ StartFails /\ UNCHANGED hostFile

\* Mutant: a host key that cannot be stored is used all the same.
CreateHostKeyIgnored ==
  /\ proc = "create"
  /\ \/ hostFile' = Torn /\ proc' = "write" /\ UNCHANGED signer
     \/ FsErr /\ signer' = boots /\ proc' = "authkeys" /\ UNCHANGED hostFile
  /\ BootUnchanged /\ UNCHANGED <<boots, keys>>

\* generateHostKey: os.WriteFile creates the file first ...
CreateHostKey ==
  /\ proc = "create"
  /\ \/ /\ hostFile' = Torn
        /\ proc' = "write"
        /\ BootUnchanged /\ UNCHANGED <<boots, signer, keys>>
     \/ FsErr /\ StartFails /\ UNCHANGED hostFile

\* ... and then writes it.  The key of each start is a new one.
WriteHostKey ==
  /\ proc = "write"
  /\ \/ /\ hostFile' = boots
        /\ signer' = boots
        /\ proc' = "authkeys"
        /\ BootUnchanged /\ UNCHANGED <<boots, keys>>
     \/ FsErr /\ StartFails /\ UNCHANGED hostFile

\* What loadAuthorizedKeys returns; a missing file becomes an empty one.
loadAuthorizedKeys == IF authFile = Missing THEN {} ELSE authFile

\* The reload in New: no edit before it needs a signal.
LoadKeys ==
  /\ proc = "authkeys"
  /\ \/ /\ keys' = loadAuthorizedKeys /\ authFile' = loadAuthorizedKeys
        /\ unsignalled' = FALSE
        /\ proc' = "notify"
        /\ UNCHANGED <<bootVars, edits, hupVars, ctxDone, listener, connVars>>
     \/ FsErr /\ StartFails /\ UNCHANGED hostFile

\* signal.Notify and the goroutine that serves hupCh.
NotifyHup ==
  /\ proc = "notify"
  /\ reloader' = "wait"
  /\ proc' = "listen"
  /\ UNCHANGED <<bootVars, fileVars, keys, hups, hupCh, fileKeys, ctxDone,
                 listener, connVars>>

Listen ==
  /\ proc = "listen"
  /\ \/ /\ listener' = "open"
        /\ proc' = "serve"
        /\ UNCHANGED <<bootVars, fileVars, keys, hupVars, ctxDone, connVars>>
     \/ "listenErr" \in Events /\ StartFails /\ UNCHANGED hostFile

----------------------------------------------------------------------------
(* SIGHUP and the reload of authorized_keys.                               *)

Notified == proc \in {"listen", "serve"}

\* Mutant: hupCh has no buffer, so a signal during a reload is dropped.
SigHupUnbuffered ==
  /\ Notified /\ hups < MaxHups
  /\ hups' = hups + 1
  /\ unsignalled' = FALSE
  /\ hupCh' = (hupCh \/ reloader = "wait")
  /\ UNCHANGED <<proc, bootVars, authFile, edits, keys, reloader, fileKeys,
                 ctxDone, listener, connVars>>

\* Before signal.Notify the default action ends the process; afterwards the
\* signal is queued unless one is queued already.
SigHup ==
  /\ proc # "down" /\ hups < MaxHups
  /\ hups' = hups + 1
  /\ unsignalled' = FALSE
  /\ IF Notified
     THEN /\ hupCh' = TRUE
          /\ UNCHANGED <<proc, signer, keys, reloader, fileKeys, ctxDone,
                         listener, connVars>>
     ELSE ProcessEnds("crashed")
  /\ UNCHANGED <<boots, hostFile, served, authFile, edits>>

HupUnchanged == UNCHANGED <<proc, bootVars, edits, hups, ctxDone, listener,
                            connVars>>

TakeHup ==
  /\ reloader = "wait" /\ hupCh
  /\ hupCh' = FALSE
  /\ reloader' = "read"
  /\ HupUnchanged /\ UNCHANGED <<authFile, unsignalled, keys, fileKeys>>

\* On an error the old keys stay in force.
ReadKeys ==
  /\ reloader = "read"
  /\ \/ /\ fileKeys' = loadAuthorizedKeys /\ authFile' = loadAuthorizedKeys
        /\ reloader' = "lock"
        /\ UNCHANGED unsignalled
     \/ /\ FsErr
        /\ reloader' = "wait" /\ unsignalled' = TRUE
        /\ UNCHANGED <<authFile, fileKeys>>
  /\ HupUnchanged /\ UNCHANGED <<hupCh, keys>>

\* Mutant: the reload takes the signals that came meanwhile for its own.
SwapKeysDrains ==
  /\ reloader = "lock"
  /\ keys' = fileKeys
  /\ hupCh' = FALSE
  /\ reloader' = "wait"
  /\ HupUnchanged /\ UNCHANGED <<authFile, unsignalled, fileKeys>>

SwapKeys ==
  /\ reloader = "lock"
  /\ keys' = fileKeys
  /\ reloader' = "wait"
  /\ HupUnchanged /\ UNCHANGED <<authFile, unsignalled, hupCh, fileKeys>>

ReloaderEnds ==
  /\ reloader = "wait" /\ ctxDone
  /\ reloader' = "done"
  /\ HupUnchanged /\ UNCHANGED <<authFile, unsignalled, hupCh, keys, fileKeys>>

----------------------------------------------------------------------------
(* Serve and handleConn.                                                   *)

ConnUnchanged == UNCHANGED <<proc, boots, hostFile, signer, fileVars, keys,
                             hupVars, ctxDone, listener>>

\* The kernel completes the connection; it waits for Accept.
Connect(c) ==
  /\ conn[c] = "none" /\ listener = "open"
  /\ conn' = [conn EXCEPT ![c] = "queued"]
  /\ ConnUnchanged /\ UNCHANGED <<served, device>>

\* Accept; the client sees the host key in the key exchange.
Accept(c) ==
  /\ proc = "serve" /\ listener = "open" /\ conn[c] = "queued"
  /\ conn' = [conn EXCEPT ![c] = "handshake"]
  /\ served' = served \cup {signer}
  /\ ConnUnchanged /\ UNCHANGED device

\* authPublicKey accepts the key that is offered ...
authPublicKey(c, k) ==
  /\ conn[c] = "handshake" /\ k \in keys
  /\ conn' = [conn EXCEPT ![c] = "checked"]
  /\ ConnUnchanged /\ UNCHANGED <<served, device>>

\* ... and the client signs: NewServerConn returns.
Established(c) ==
  /\ conn[c] = "checked"
  /\ conn' = [conn EXCEPT ![c] = "up"]
  /\ ConnUnchanged /\ UNCHANGED <<served, device>>

\* handshakeTimeout, a refused key or a lost connection; an established
\* connection ends when its client leaves, before its sessions have ended.
ConnEnds(c) ==
  /\ conn[c] \in {"handshake", "checked", "up"}
  /\ conn' = [conn EXCEPT ![c] = "closed"]
  /\ ConnUnchanged /\ UNCHANGED <<served, device>>

\* An exec of mactelnet calls Open ...
ExecStarts(c) ==
  /\ conn[c] = "up" /\ device[c] = "none"
  /\ device' = [device EXCEPT ![c] = "opening"]
  /\ ConnUnchanged /\ UNCHANGED <<served, conn>>

\* ... which may succeed although the client has left or the context is
\* cancelled: handleSession waits for the exec, and the selects of the
\* handshake may take the device's answer before they see ctx.Done ...
SessionOpens(c) ==
  /\ device[c] = "opening"
  /\ device' = [device EXCEPT ![c] = "up"]
  /\ ConnUnchanged /\ UNCHANGED <<served, conn>>

\* ... or fails, and has then sent END.
OpenFails(c) ==
  /\ device[c] = "opening"
  /\ device' = [device EXCEPT ![c] = "none"]
  /\ ConnUnchanged /\ UNCHANGED <<served, conn>>

\* Session.Close has sent END: the client or the device is through, or the
\* context is cancelled.
SessionEnds(c) ==
  /\ device[c] = "up"
  /\ device' = [device EXCEPT ![c] = "ended"]
  /\ ConnUnchanged /\ UNCHANGED <<served, conn>>

----------------------------------------------------------------------------
(* Shutdown, crashes and the administrator.                                *)

SigTerm ==
  /\ "term" \in Events /\ proc # "down" /\ ~ctxDone
  /\ ctxDone' = TRUE
  /\ UNCHANGED <<proc, bootVars, fileVars, keys, hupVars, listener, connVars>>

\* Mutant: the listener is closed once every client has left.
CloseListenerIdle ==
  /\ ctxDone /\ listener = "open"
  /\ \A c \in Conns : conn[c] \in {"none", "closed"}
  /\ listener' = "closed"
  /\ UNCHANGED <<proc, bootVars, fileVars, keys, hupVars, ctxDone, connVars>>

\* The goroutine in Serve.  Connections nobody has accepted are reset.
CloseListener ==
  /\ ctxDone /\ listener = "open"
  /\ listener' = "closed"
  /\ conn' = [c \in Conns |-> IF conn[c] = "queued" THEN "closed" ELSE conn[c]]
  /\ UNCHANGED <<proc, bootVars, fileVars, keys, hupVars, ctxDone, device>>

\* Accept fails with net.ErrClosed; Serve and runServe return, main exits.
ServeReturns ==
  /\ proc = "serve" /\ listener = "closed"
  /\ ProcessEnds("abandoned")
  /\ UNCHANGED <<boots, hostFile, served, fileVars, hups>>

Crash ==
  /\ "crash" \in Events /\ proc # "down"
  /\ ProcessEnds("crashed")
  /\ UNCHANGED <<boots, hostFile, served, fileVars, hups>>

EditKeys ==
  /\ edits < MaxEdits
  /\ edits' = edits + 1
  /\ authFile' \in SUBSET PubKeys
  /\ unsignalled' = TRUE
  /\ UNCHANGED <<proc, bootVars, keys, hupVars, ctxDone, listener, connVars>>

----------------------------------------------------------------------------

BootStep ==
  \/ LoadHostKey \/ CreateHostKey \/ WriteHostKey \/ LoadKeys \/ NotifyHup
  \/ Listen

ReloadStep == TakeHup \/ ReadKeys \/ SwapKeys \/ ReloaderEnds

ConnStep(c) ==
  \/ Connect(c) \/ Accept(c) \/ (\E k \in PubKeys : authPublicKey(c, k))
  \/ Established(c) \/ ConnEnds(c)
  \/ ExecStarts(c) \/ SessionOpens(c) \/ OpenFails(c) \/ SessionEnds(c)

Next ==
  \/ Start \/ BootStep \/ SigHup \/ ReloadStep
  \/ \E c \in Conns : ConnStep(c)
  \/ SigTerm \/ CloseListener \/ ServeReturns \/ Crash \/ EditKeys

Spec == Init /\ [][Next]_vars

(***************************************************************************)
(* The goroutines that can run do.  Nobody has to start the process, to    *)
(* connect, to leave or to send a signal.                                  *)
(***************************************************************************)
Fairness ==
  /\ WF_vars(BootStep)
  /\ WF_vars(ReloadStep)
  /\ WF_vars(CloseListener)
  /\ WF_vars(ServeReturns)

FairSpec == Spec /\ Fairness

----------------------------------------------------------------------------
(* Properties.                                                             *)

\* Every variable has its type.
ServerTypeOK ==
  /\ proc \in {"down", "hostkey", "create", "write", "authkeys", "notify",
               "listen", "serve"}
  /\ hostFile \in {Missing, Torn} \cup 1 .. boots
  /\ signer \in 0 .. boots /\ served \subseteq 1 .. boots
  /\ authFile = Missing \/ authFile \subseteq PubKeys
  /\ keys \subseteq PubKeys /\ fileKeys \subseteq PubKeys
  /\ {hupCh, unsignalled, ctxDone} \subseteq BOOLEAN
  /\ reloader \in {"off", "wait", "read", "lock", "done"}
  /\ listener \in {"none", "open", "closed"}
  /\ conn \in [Conns -> {"none", "queued", "handshake", "checked", "up",
                         "closed"}]
  /\ device \in [Conns -> {"none", "opening", "up", "ended", "crashed",
                           "abandoned"}]

\* "Subsequent boots reuse the same key so SSH clients don't see a new
\* fingerprint each restart" (loadOrCreateHostKey): wherever crashes and
\* failed writes strike, all clients of all starts see one host key.
HostKeyStable == \A k1, k2 \in served : k1 = k2

\* An edit of authorized_keys followed by a SIGHUP comes into force, also when
\* the signal arrives during a reload or while another one is queued.
ReloadTakesEffect ==
  []<>(proc # "serve" \/ ctxDone \/ unsignalled \/ keys = authFile)

\* Whenever the SIGHUP goroutine waits, no signal is queued and every edit has
\* been signalled, the keys authPublicKey checks against are those of the
\* file: neither a signal during a reload nor a read that an edit overtook
\* leaves an old set in force.
KeysCurrentWhenIdle ==
  reloader = "wait" /\ ~hupCh /\ ~unsignalled => keys = authFile

\* A signal to stop ends the process whatever its clients do.
StopsOnSignal == ctxDone ~> proc = "down"

=============================================================================

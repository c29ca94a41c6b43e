---------------------------- MODULE ServerProofs ----------------------------
(***************************************************************************)
(* All clients of all starts of the daemon see the same host key, and an   *)
(* idle reloader has the keys of the file in force, for any number of      *)
(* clients, keys, edits, signals, starts, crashes and failed writes.       *)
(***************************************************************************)
EXTENDS Server, TLAPS

\* A key that a client has seen is the one in the file: it was written before
\* it was used, and a file with a key in it is never written again.
HostKeyInv ==
  /\ \A k \in served : k = hostFile
  /\ proc \in {"create", "write"} => served = {}
  /\ proc \in {"authkeys", "notify", "listen", "serve"} =>
       signer = hostFile /\ hostFile # Missing
  /\ hostFile = Missing => served = {}
  /\ boots \in Nat

LEMMA HostKeyInit == Init => HostKeyInv
BY DEF Init, HostKeyInv

\* However the process ends, the file and the history stay.
LEMMA EndKeeps ==
  ASSUME HostKeyInv, NEW fate, ProcessEnds(fate), UNCHANGED <<boots, hostFile, served>>
  PROVE  HostKeyInv'
BY DEF HostKeyInv, ProcessEnds

LEMMA OthersKeep ==
  ASSUME HostKeyInv, UNCHANGED <<proc, bootVars>>
  PROVE  HostKeyInv'
BY DEF HostKeyInv, bootVars

\* A key is neither of the two states of a file without one.
LEMMA KeyNotMissing == Missing # Torn /\ \A n \in Nat : n # Missing
BY ServerAssumption

LEMMA BootKeeps ==
  ASSUME HostKeyInv, Start \/ BootStep
  PROVE  HostKeyInv'
<1> USE DEF BootUnchanged, bootVars
<1>1. CASE Start
  BY <1>1 DEF Start, HostKeyInv
<1>2. CASE LoadHostKey
  <2>1. CASE StartFails /\ UNCHANGED hostFile
    BY <2>1, EndKeeps DEF StartFails
  <2>2. CASE hostFile = Missing /\ proc' = "create"
             /\ UNCHANGED <<boots, served, hostFile, signer>>
    BY <2>2 DEF HostKeyInv
  <2> QED BY <1>2, <2>1, <2>2 DEF LoadHostKey, HostKeyInv
<1>3. CASE CreateHostKey
  BY <1>3, EndKeeps, KeyNotMissing DEF CreateHostKey, StartFails, HostKeyInv
<1>4. CASE WriteHostKey
  BY <1>4, EndKeeps, KeyNotMissing DEF WriteHostKey, StartFails, HostKeyInv
<1>5. CASE LoadKeys
  BY <1>5, EndKeeps DEF LoadKeys, StartFails, HostKeyInv
<1>6. CASE NotifyHup
  BY <1>6 DEF NotifyHup, HostKeyInv
<1>7. CASE Listen
  BY <1>7, EndKeeps DEF Listen, StartFails, HostKeyInv
<1> QED BY <1>1, <1>2, <1>3, <1>4, <1>5, <1>6, <1>7 DEF BootStep

LEMMA ConnKeeps ==
  ASSUME HostKeyInv, NEW c \in Conns, ConnStep(c)
  PROVE  HostKeyInv'
<1> USE DEF ConnUnchanged
<1>1. CASE Accept(c)
  BY <1>1 DEF Accept, HostKeyInv
<1>2. CASE ~Accept(c)
  BY <1>2, OthersKeep DEF ConnStep, Connect, authPublicKey, Established,
     ConnEnds, ExecStarts, SessionOpens, OpenFails, SessionEnds, bootVars
<1> QED BY <1>1, <1>2

LEMMA SignalKeeps ==
  ASSUME HostKeyInv,
         \/ SigHup \/ ReloadStep \/ SigTerm \/ CloseListener \/ ServeReturns
         \/ Crash \/ EditKeys
  PROVE  HostKeyInv'
<1>1. CASE SigHup
  BY <1>1, EndKeeps, OthersKeep DEF SigHup, bootVars
<1>2. CASE ReloadStep
  BY <1>2, OthersKeep DEF ReloadStep, TakeHup, ReadKeys, SwapKeys,
     ReloaderEnds, HupUnchanged
<1>3. CASE SigTerm \/ CloseListener \/ EditKeys
  BY <1>3, OthersKeep DEF SigTerm, CloseListener, EditKeys
<1>4. CASE ServeReturns \/ Crash
  BY <1>4, EndKeeps DEF ServeReturns, Crash
<1> QED BY <1>1, <1>2, <1>3, <1>4

\* HostKeyInv is inductive.
LEMMA HostKeyNext == HostKeyInv /\ [Next]_vars => HostKeyInv'
<1> SUFFICES ASSUME HostKeyInv, [Next]_vars
             PROVE  HostKeyInv'
  OBVIOUS
<1>1. CASE UNCHANGED vars
  BY <1>1, OthersKeep DEF vars
<1>2. CASE Next
  BY <1>2, BootKeeps, ConnKeeps, SignalKeeps DEF Next
<1> QED BY <1>1, <1>2

\* Wherever crashes, failed writes and signals strike loadOrCreateHostKey and
\* generateHostKey, clients never see a second host key.
THEOREM OneHostKey == Spec => []HostKeyStable
<1>1. HostKeyInv => HostKeyStable
  BY DEF HostKeyInv, HostKeyStable
<1> QED BY <1>1, HostKeyInit, HostKeyNext, PTL DEF Spec

----------------------------------------------------------------------------
(* Types.                                                                  *)

\* The host keys: a key is named after the start that made it.
KeyTypes ==
  /\ proc \in {"down", "hostkey", "create", "write", "authkeys", "notify",
               "listen", "serve"}
  /\ boots \in Nat /\ (proc # "down" => boots >= 1)
  /\ hostFile \in {Missing, Torn} \cup 1 .. boots
  /\ signer \in 0 .. boots /\ served \subseteq 1 .. boots
  /\ proc \in {"authkeys", "notify", "listen", "serve"} => signer >= 1

\* The client keys.
FileTypes ==
  /\ authFile = Missing \/ authFile \subseteq PubKeys
  /\ keys \subseteq PubKeys /\ fileKeys \subseteq PubKeys

FlagTypes == hupCh \in BOOLEAN /\ unsignalled \in BOOLEAN /\ ctxDone \in BOOLEAN

\* The reloader, connections and sessions.
ConnTypes ==
  /\ reloader \in {"off", "wait", "read", "lock", "done"}
  /\ listener \in {"none", "open", "closed"}
  /\ conn \in [Conns -> {"none", "queued", "handshake", "checked", "up",
                         "closed"}]
  /\ device \in [Conns -> {"none", "opening", "up", "ended", "crashed",
                           "abandoned"}]

ServerInv == KeyTypes /\ FileTypes /\ FlagTypes /\ ConnTypes

LEMMA ServerInit == Init => ServerInv
<1> SUFFICES ASSUME Init PROVE ServerInv
  OBVIOUS
<1>1. KeyTypes /\ FileTypes /\ ConnTypes
  BY DEF Init, KeyTypes, FileTypes, ConnTypes
<1>2. FlagTypes
  BY Zenon DEF Init, FlagTypes
<1> QED BY <1>1, <1>2 DEF ServerInv

\* The end of the process, however it comes about.
LEMMA EndTyped ==
  ASSUME ServerInv, NEW fate \in {"crashed", "abandoned"}, ProcessEnds(fate),
         UNCHANGED <<boots, hostFile, served, authFile>>
  PROVE  KeyTypes' /\ FileTypes' /\ ConnTypes'
<1> USE DEF ServerInv, ProcessEnds
<1>1. KeyTypes'
  BY DEF KeyTypes
<1>2. FileTypes'
  BY DEF FileTypes
<1>3. ConnTypes'
  BY DEF ConnTypes
<1> QED BY <1>1, <1>2, <1>3

\* Nothing but the flags and the counters changes.
LEMMA StillTyped ==
  ASSUME ServerInv,
         UNCHANGED <<proc, bootVars, authFile, keys, fileKeys, reloader,
                     listener, connVars>>
  PROVE  KeyTypes' /\ FileTypes' /\ ConnTypes'
BY DEF ServerInv, KeyTypes, FileTypes, ConnTypes, bootVars, connVars

LEMMA LoadTyped ==
  ASSUME FileTypes
  PROVE  loadAuthorizedKeys \subseteq PubKeys
BY DEF FileTypes, loadAuthorizedKeys

LEMMA BootTyped ==
  ASSUME ServerInv, Start \/ BootStep
  PROVE  KeyTypes' /\ FileTypes' /\ ConnTypes'
<1> USE KeyNotMissing
    DEF BootUnchanged, bootVars, fileVars, hupVars, connVars, StartFails
<1>e. ASSUME StartFails, UNCHANGED hostFile
      PROVE  KeyTypes' /\ FileTypes' /\ ConnTypes'
  BY <1>e, EndTyped
<1>1. CASE Start
  BY <1>1 DEF Start, ServerInv, KeyTypes, FileTypes, ConnTypes
<1>2. CASE LoadHostKey
  <2>1. CASE StartFails /\ UNCHANGED hostFile
    BY <2>1, <1>e
  <2>2. CASE ~(StartFails /\ UNCHANGED hostFile)
    <3>1. KeyTypes'
      <4>1. CASE proc' = "create"
        BY <1>2, <2>2, <4>1 DEF LoadHostKey, ServerInv, KeyTypes
      <4>2. CASE proc' # "create"
        <5>1. /\ hostFile \notin {Missing, Torn} /\ signer' = hostFile
              /\ proc = "hostkey" /\ proc' = "authkeys"
              /\ UNCHANGED <<boots, hostFile, served>>
          BY <1>2, <2>2, <4>2 DEF LoadHostKey
        <5>2. hostFile \in 1 .. boots /\ boots \in Nat
          BY <5>1 DEF ServerInv, KeyTypes
        <5> QED BY <5>1, <5>2 DEF ServerInv, KeyTypes
      <4> QED BY <4>1, <4>2
    <3>2. FileTypes' /\ ConnTypes'
      BY <1>2, <2>2 DEF LoadHostKey, ServerInv, FileTypes, ConnTypes
    <3> QED BY <3>1, <3>2
  <2> QED BY <2>1, <2>2
<1>3. CASE CreateHostKey
  BY <1>3, <1>e DEF CreateHostKey, ServerInv, KeyTypes, FileTypes, ConnTypes
<1>4. CASE WriteHostKey
  <2>1. CASE StartFails /\ UNCHANGED hostFile
    BY <2>1, <1>e
  <2>2. CASE ~(StartFails /\ UNCHANGED hostFile)
    <3>1. /\ hostFile' = boots /\ signer' = boots
          /\ proc = "write" /\ proc' = "authkeys"
          /\ UNCHANGED <<boots, served>>
      BY <1>4, <2>2 DEF WriteHostKey
    <3>2. boots \in Nat /\ boots >= 1
      BY <3>1 DEF ServerInv, KeyTypes
    <3>3. KeyTypes'
      BY <3>1, <3>2 DEF ServerInv, KeyTypes
    <3>4. FileTypes' /\ ConnTypes'
      BY <1>4, <2>2 DEF WriteHostKey, ServerInv, FileTypes, ConnTypes
    <3> QED BY <3>3, <3>4
  <2> QED BY <2>1, <2>2
<1>5. CASE LoadKeys
  BY <1>5, <1>e, LoadTyped
     DEF LoadKeys, ServerInv, KeyTypes, FileTypes, ConnTypes
<1>6. CASE NotifyHup
  BY <1>6 DEF NotifyHup, ServerInv, KeyTypes, FileTypes, ConnTypes
<1>7. CASE Listen
  BY <1>7, <1>e DEF Listen, ServerInv, KeyTypes, FileTypes, ConnTypes
<1> QED BY <1>1, <1>2, <1>3, <1>4, <1>5, <1>6, <1>7 DEF BootStep

LEMMA ConnTyped ==
  ASSUME ServerInv, NEW c \in Conns, ConnStep(c)
  PROVE  KeyTypes' /\ FileTypes' /\ ConnTypes'
<1> USE DEF ServerInv, ConnUnchanged, fileVars, hupVars
<1>1. KeyTypes'
  <2>1. CASE Accept(c)
    <3>1. /\ proc = "serve" /\ served' = served \cup {signer}
          /\ UNCHANGED <<proc, boots, hostFile, signer>>
      BY <2>1 DEF Accept
    <3>2. signer \in 1 .. boots
      BY <3>1 DEF KeyTypes
    <3> QED BY <3>1, <3>2 DEF KeyTypes
  <2>2. CASE ~Accept(c)
    BY <2>2 DEF ConnStep, Connect, authPublicKey, Established, ConnEnds,
                ExecStarts, SessionOpens, OpenFails, SessionEnds, KeyTypes
  <2> QED BY <2>1, <2>2
<1>2. FileTypes'
  BY DEF ConnStep, Connect, Accept, authPublicKey, Established, ConnEnds,
         ExecStarts, SessionOpens, OpenFails, SessionEnds, FileTypes
<1>3. ConnTypes'
  BY DEF ConnStep, Connect, Accept, authPublicKey, Established, ConnEnds,
         ExecStarts, SessionOpens, OpenFails, SessionEnds, ConnTypes
<1> QED BY <1>1, <1>2, <1>3

LEMMA SignalTyped ==
  ASSUME ServerInv,
         \/ SigHup \/ ReloadStep \/ SigTerm \/ CloseListener \/ ServeReturns
         \/ Crash \/ EditKeys \/ UNCHANGED vars
  PROVE  KeyTypes' /\ FileTypes' /\ ConnTypes'
<1> USE DEF HupUnchanged, bootVars, fileVars, hupVars, connVars
<1>1. CASE SigHup
  <2>1. CASE ProcessEnds("crashed")
    BY <1>1, <2>1, EndTyped DEF SigHup
  <2>2. CASE Notified
    BY <1>1, <2>2, StillTyped DEF SigHup
  <2> QED BY <1>1, <2>1, <2>2 DEF SigHup
<1>2. CASE ReloadStep
  BY <1>2, LoadTyped DEF ReloadStep, TakeHup, ReadKeys, SwapKeys, ReloaderEnds,
     ServerInv, KeyTypes, FileTypes, ConnTypes
<1>3. CASE SigTerm
  BY <1>3, StillTyped DEF SigTerm
<1>4. CASE CloseListener
  BY <1>4 DEF CloseListener, ServerInv, KeyTypes, FileTypes, ConnTypes
<1>5. CASE ServeReturns \/ Crash
  BY <1>5, EndTyped DEF ServeReturns, Crash
<1>6. CASE EditKeys
  BY <1>6 DEF EditKeys, ServerInv, KeyTypes, FileTypes, ConnTypes
<1>7. CASE UNCHANGED vars
  BY <1>7, StillTyped DEF vars
<1> QED BY <1>1, <1>2, <1>3, <1>4, <1>5, <1>6, <1>7

LEMMA FlagsTyped ==
  ASSUME FlagTypes, [Next]_vars
  PROVE  FlagTypes'
<1> USE DEF FlagTypes, bootVars, fileVars, hupVars, connVars
<1>e. ASSUME NEW fate, ProcessEnds(fate), UNCHANGED unsignalled
      PROVE  FlagTypes'
  BY <1>e, Zenon DEF ProcessEnds
<1>1. CASE Start \/ BootStep
  BY <1>1, <1>e, Zenon DEF Start, BootStep, LoadHostKey, CreateHostKey,
     WriteHostKey, LoadKeys, NotifyHup, Listen, BootUnchanged, StartFails
<1>2. CASE SigHup
  BY <1>2, Zenon DEF SigHup, ProcessEnds
<1>3. CASE ReloadStep
  BY <1>3, Zenon DEF ReloadStep, TakeHup, ReadKeys, SwapKeys, ReloaderEnds,
     HupUnchanged
<1>4. ASSUME NEW c \in Conns, ConnStep(c)
      PROVE  FlagTypes'
  BY <1>4, Zenon DEF ConnStep, Connect, Accept, authPublicKey, Established,
     ConnEnds, ExecStarts, SessionOpens, OpenFails, SessionEnds, ConnUnchanged
<1>5. CASE SigTerm \/ CloseListener \/ EditKeys \/ UNCHANGED vars
  BY <1>5, Zenon DEF SigTerm, CloseListener, EditKeys, vars
<1>6. CASE ServeReturns \/ Crash
  BY <1>6, <1>e, Zenon DEF ServeReturns, Crash
<1> QED BY <1>1, <1>2, <1>3, <1>4, <1>5, <1>6 DEF Next

\* ServerInv is inductive.
LEMMA ServerNext == ServerInv /\ [Next]_vars => ServerInv'
<1> SUFFICES ASSUME ServerInv, [Next]_vars
             PROVE  ServerInv'
  OBVIOUS
<1>1. FlagTypes'
  BY FlagsTyped DEF ServerInv
<1>2. KeyTypes' /\ FileTypes' /\ ConnTypes'
  BY BootTyped, ConnTyped, SignalTyped DEF Next
<1> QED BY <1>1, <1>2 DEF ServerInv

\* Every variable of the daemon has its type through any number of starts,
\* crashes, reloads and clients: a host key is always one that some start has
\* made, and the keys in force are client keys.
THEOREM ServerTypeCorrect == Spec => []ServerTypeOK
<1>1. ServerInv => ServerTypeOK
  <2> SUFFICES ASSUME ServerInv PROVE ServerTypeOK
    OBVIOUS
  <2>1. {hupCh, unsignalled, ctxDone} \subseteq BOOLEAN
    BY Zenon DEF ServerInv, FlagTypes
  <2> QED BY <2>1 DEF ServerInv, KeyTypes, FileTypes, ConnTypes, ServerTypeOK
<1> QED BY <1>1, ServerInit, ServerNext, PTL DEF Spec

----------------------------------------------------------------------------
(* The reload of authorized_keys.                                          *)

\* What the reloader has read, or the start has loaded, is the file as it is,
\* unless a signal is queued or an edit waits for one; and there is no
\* reloader before signal.Notify.
ReloadInv ==
  /\ reloader = "wait" /\ ~hupCh /\ ~unsignalled => keys = authFile
  /\ reloader = "lock" /\ ~hupCh /\ ~unsignalled => fileKeys = authFile
  /\ proc = "notify" /\ ~unsignalled => keys = authFile
  /\ ~Notified => reloader = "off"

LEMMA ReloadInit == Init => ReloadInv
BY DEF Init, ReloadInv, Notified

\* After the end of a process there is no reloader.
LEMMA EndReload ==
  ASSUME NEW fate, ProcessEnds(fate)
  PROVE  ReloadInv'
BY DEF ProcessEnds, ReloadInv, Notified

LEMMA ReloadStill ==
  ASSUME ReloadInv,
         UNCHANGED <<proc, authFile, unsignalled, keys, hupCh, reloader, fileKeys>>
  PROVE  ReloadInv'
BY DEF ReloadInv, Notified

LEMMA ReloadBoot ==
  ASSUME ReloadInv, Start \/ BootStep
  PROVE  ReloadInv'
<1> USE DEF BootUnchanged, fileVars, hupVars
<1>1. CASE Start
  BY <1>1 DEF Start, ReloadInv, Notified
<1>2. CASE LoadHostKey
  BY <1>2, EndReload DEF LoadHostKey, StartFails, ReloadInv, Notified
<1>3. CASE CreateHostKey
  BY <1>3, EndReload DEF CreateHostKey, StartFails, ReloadInv, Notified
<1>4. CASE WriteHostKey
  BY <1>4, EndReload DEF WriteHostKey, StartFails, ReloadInv, Notified
<1>5. CASE LoadKeys
  BY <1>5, EndReload DEF LoadKeys, StartFails, ReloadInv, Notified
<1>6. CASE NotifyHup
  BY <1>6 DEF NotifyHup, ReloadInv, Notified
<1>7. CASE Listen
  BY <1>7, EndReload DEF Listen, StartFails, ReloadInv, Notified
<1> QED BY <1>1, <1>2, <1>3, <1>4, <1>5, <1>6, <1>7 DEF BootStep

LEMMA ReloadSignals ==
  ASSUME ReloadInv,
         \/ SigHup \/ ReloadStep \/ SigTerm \/ CloseListener \/ ServeReturns
         \/ Crash \/ EditKeys
  PROVE  ReloadInv'
<1> USE DEF fileVars, hupVars, HupUnchanged
<1>1. CASE SigHup
  BY <1>1, EndReload DEF SigHup, ReloadInv, Notified
<1>2. CASE TakeHup
  BY <1>2 DEF TakeHup, ReloadInv, Notified
<1>3. CASE ReadKeys
  BY <1>3 DEF ReadKeys, ReloadInv, Notified
<1>4. CASE SwapKeys
  BY <1>4 DEF SwapKeys, ReloadInv, Notified
<1>5. CASE ReloaderEnds
  BY <1>5 DEF ReloaderEnds, ReloadInv, Notified
<1>6. CASE SigTerm \/ CloseListener
  BY <1>6, ReloadStill DEF SigTerm, CloseListener
<1>7. CASE EditKeys
  BY <1>7 DEF EditKeys, ReloadInv, Notified
<1>8. CASE ServeReturns \/ Crash
  BY <1>8, EndReload DEF ServeReturns, Crash
<1> QED BY <1>1, <1>2, <1>3, <1>4, <1>5, <1>6, <1>7, <1>8 DEF ReloadStep

\* ReloadInv is inductive.
LEMMA ReloadNext == ReloadInv /\ [Next]_vars => ReloadInv'
<1> SUFFICES ASSUME ReloadInv, [Next]_vars
             PROVE  ReloadInv'
  OBVIOUS
<1>1. CASE UNCHANGED vars
  BY <1>1, ReloadStill DEF vars, fileVars, hupVars
<1>2. ASSUME NEW c \in Conns, ConnStep(c)
      PROVE  ReloadInv'
  BY <1>2, ReloadStill DEF ConnStep, Connect, Accept, authPublicKey,
     Established, ConnEnds, ExecStarts, SessionOpens, OpenFails, SessionEnds,
     ConnUnchanged, fileVars, hupVars
<1> QED BY <1>1, <1>2, ReloadBoot, ReloadSignals DEF Next

\* However edits, signals, failed reads and restarts interleave with a reload,
\* a reloader that is idle with nothing signalled has the file's keys in force.
THEOREM IdleReloaderIsCurrent == Spec => []KeysCurrentWhenIdle
<1>1. ReloadInv => KeysCurrentWhenIdle
  BY DEF ReloadInv, KeysCurrentWhenIdle
<1> QED BY <1>1, ReloadInit, ReloadNext, PTL DEF Spec

=============================================================================

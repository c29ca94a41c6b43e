# A TLA+ model of mactelnet-proxy

`mactelnet-proxy` is an SSH server whose channels speak MAC-Telnet: a MikroTik
terminal protocol over UDP broadcast, with its own sequence numbers, ACKs,
handshake and teardown. The Go code is under `src/src`, the design documents
under `src/docs`. This directory holds TLA+ models of its concurrent parts, the
TLC runs that check them on small instances, and TLAPS proofs of what matters
most. `PROJECT.json` links every definition to the lines it models.

## 1. Inventory

### Components

| Component | Source | State | Operations |
|---|---|---|---|
| sequencing | `internal/mactelnet/seq.go` | `counters.out`, `in`, `inSeen` | `reserveOut`, `acceptIncoming`, `ackCounterFor`, retransmit schedule |
| MAC-Telnet session | `session.go` | `dataMu`, `sendMu`, `ackCh`, `controlCh`, `terminalMode`, `closed`, `ctx`, `done`, `errVal`, receive pipe | `Open`, `handshake`, `Write`, `Read`, `Resize`, `Close`, `fail` |
| receive and keepalive loops | `loop.go` | current packet and record, ticker | `rxLoop`, `processInboundData`, `keepaliveLoop` |
| sockets | `conn.go` | receive socket, raw send descriptor | `openSockets`, `Send`, `Read`, `Close`, frame building and filtering |
| wire codec | `protocol.go` | none | headers, control records, `iterateControl` |
| authentication payloads | `auth.go` | none | `detectAuthMode`, `buildAuthInit`, `buildAuthFinish` |
| EC-SRP arithmetic | `mtwei.go` | none | curve arithmetic, proofs of the password |
| SSH session channel | `sshserver/server.go`, `exec.go` | `execStarted`, pty size, `winchCh`, prompt, buffered reader | `handleSession`, `handleReq`, `execMactelnet`, two copy pumps, resize forwarder |
| SSH server | `sshserver/server.go`, `cmd/.../main.go` | listener, connections, authorised keys (under the RWMutex `keysMu`), root context | start, accept, authenticate, SIGHUP reload, SIGTERM |
| key files | `sshserver/keys.go` | `host_key`, `authorized_keys` on disk | load or create, stub, reload |
| interface listing | `sshserver/ifaces.go` | none | reads `/sys`, prints |
| MNDP discovery | `internal/mndp`, `cmd/.../mndp.go` | socket, deadline, neighbours seen | `Discover`, `ParsePacket`, `execMndp` |
| command line | `cmd/mactelnet-proxy` | none | flags, stand-alone front ends |

### How they interact

A client connects; the *SSH server* authenticates it against the key set in
force and starts one goroutine per connection and per channel. A channel
collects `pty-req` and `window-change` requests, refuses others (`env` too) and, on
`exec`, starts one goroutine that may prompt for a password, calls
`mactelnet.Open`, and joins session and channel with two `io.Copy` pumps; window
changes reach the session through the bounded `winchCh`. A *session* has a receive goroutine and a
keepalive goroutine; callers of `Write`, `Resize` and `Close` are any others.
The receive loop hands ACK counters to the waiting sender through `ackCh`,
control records to the handshake through `controlCh`, and terminal bytes to the
reader through an `io.Pipe`. A stop-and-wait *device* is at the other end of an
unreliable link. SIGHUP swaps the key set; SIGTERM cancels the root context,
from which every session's context is derived.

### What is hard, and what correctness means

* **Delivery over a bad link.** Packets are lost, repeated and reordered; ACKs
  are matched by a cumulative counter alone. Correct: what `Write` confirms was
  taken by the device, each side's stream is in order and without gaps or
  repeats, and the handshake cannot be skipped.
* **Shared channels.** `ackCh` is shared by successive waits, `controlCh` is only
  read during the handshake, `terminalMode` is set by one goroutine and read by
  another. Correct: nothing acknowledged is dropped, nobody waits for ever.
* **Teardown.** `Close` (any number of callers), a failing `Open` and `fail` on
  the receive goroutine race for the release. Correct: exactly one releases,
  the raw descriptor (an integer the kernel reuses) is closed once, and whoever
  returns has left nothing behind, or only what the winner is still releasing.
* **One channel reader.** The prompt and the input pump read the same SSH
  stream. Correct: never two readers, and nothing typed is lost or reordered,
  whether the password came from the prompt or a flag.
* **Bare descriptors.** Raw sockets are integers in a table shared with every
  other socket of the process. Correct: until a session is closed its numbers are
  its own, nothing leaks when a step of `Open` fails, and a receive loop ends even
  if its number already means something else.
* **The handshake's own promises.** Bytes, arithmetic and time. Correct: the device
  reads what was meant, the right password is accepted, and `Open` is bounded.
* **Restart.** The host key is created on first start; a crash or failed write
  may leave half a file. Correct: clients never see the host key change.
* **Reload and shutdown.** SIGHUP may arrive before its handler is installed,
  twice in a row, or while a reload is under way. Correct: the set in force is
  finally the file's, and SIGTERM ends the process.

`PROJECT.json` lists the hazards line by line.

## 2. Modules

| Module | Role |
|---|---|
| `Seq` | counter arithmetic modulo 2^32 with the 65535 window |
| `Stream` | abstract: what `Write` and `Resize` promise, without counters, ACKs or goroutines |
| `Session` | the session: all goroutines, link, device; implements `Stream` |
| `MCSession` | device scripts and symmetry sets for TLC |
| `Codec` | control records and authentication payloads on bytes |
| `Ecsrp` | the curve arithmetic, keys and answers, over any curve |
| `Handshake` | extends both: the handshake with bytes, answers and a clock, against a device |
| `MCHandshake` | a toy curve, digests and credentials for TLC |
| `Sockets` | descriptor table, opening, sending, receiving with the frame filter, closing |
| `MCSockets` | its VLANs and neighbours for TLC |
| `SshSession` | one SSH session channel with the MAC-Telnet session behind it |
| `MCSshSession` | its client inputs for TLC |
| `Server` | the daemon: files, signals, accept loop, restarts |
| `Mndp` | the `mndp` command: listen window, TLV parser, table of neighbours |
| `MCMndp` | its announcements for TLC |
| `SessionProofs`, `StreamProofs` | theorems about `Session`: types, release, authentication; the two directions of the data |
| `HandshakeProofs` | the retransmit schedule, the duration of `Open`, the codec (what each side reads of the other's payloads), and the answers: curve arithmetic up to the one the device expects |
| `Induction` | induction with sets in place of predicates, and concatenation of sequences, for the modules above and below |
| `SocketsProofs`, `SshProofs`, `ServerProofs`, `MndpProofs` | theorems about the module each is named for |

### `Session`

Every goroutine is a control point; an action is one stretch of code during
which no other goroutine can observe a change.

| Code | Model |
|---|---|
| `sendDataAndWaitAck`, `waitForAck` | `LockAndReserve`, `Xmit`, `RecvAck`, `AckTimeout`, `Rexmit`, `WaitCancelled`, the same for handshake, `Write` and `Resize` |
| `Write`, `Resize` | `Write`, `Resize` with their early returns, then the steps above |
| `Open`, `handshake`, `awaitControl` | `OpenSockets`, `sendSessionStart`, `AwaitSalt`, `AwaitEndAuth`, `HandshakeTimeout`, `EnterTerminalMode` |
| `Close`, `fail` | `Close`, `CloseSwap` / `FailSwap`, then `SendEnd`, `Cancel`, `CloseConn`, `CloseSender`, `ClosePipe`, `Join` |
| `rxLoop` | `RxCheck`, `RxNothing`, `RxSocketClosed`, `RxSocketError`, `RxAck`, `RxData`, `RxEnd`, `RxExit` |
| `processInboundData` | `DispatchPlain`, `DispatchControl`, `WriteBrokenPipe` |
| `Read` on the pipe | `Read`, `ReadEOF` |
| `keepaliveLoop` | `KeepaliveTick`, `KeepaliveStop` |
| parent context | `ParentCancel` |
| device (external) | `Peer*`: stop-and-wait receiver and sender |

The link is the set of all packets ever sent: a packet may be taken at any later
moment, any number of times, or never, which gives loss, duplication and
reordering at once. `Events` selects which failures of the environment a run
allows; the proofs make no assumption about it. A payload is a count of bytes
and a job identifier, as no property looks at a byte. `io.Pipe` is synchronous,
so the receive loop stands in its write until the reader has taken the piece or
the pipe is closed. `openSockets` opens two sockets and closes the first if the
second fails; no other goroutine exists yet, so the action is "both or none".
The device of `Spec` does not answer the keepalive's ACK; `AnsweringSpec` is the
same session with one that does.

### `Stream`, and how `Session` implements it

`Stream` has four actions. `Submit` numbers a payload and makes it the pending
one; `Take` is the device taking some submitted payload that is later than all it
has taken; `Confirm` ends the call with success, and needs the pending payload to
be taken; `GiveUp` ends it with an error and promises nothing. `Session` maps
`submitted` to the number of payloads reserved, `pending` to the payload of the
holder of `dataMu`, `taken` to what the device has taken. Every other step of
`Session` is a stutter. `ImplementsStream` is the abstract specification as a
property of the run `transfer`; it says in one formula what `ConfirmedDelivered`
and `PeerStreamInOrder` say of states, and adds the order of calls: without
`dataMu` two payloads would be pending at once.

### `Handshake`, `Codec`, `Ecsrp`

`Session` has the handshake as a protocol among goroutines; these modules have
what it computes. `Codec` encodes records to bytes and walks bytes back, cutting
a length that goes beyond the packet, as `iterateControl` does. `Ecsrp` follows
`mtwei.go` function by function; points at infinity have nil coordinates there, so
using one is a panic, and `Panic` is that outcome. Curve, generator, order,
offsets and digest are parameters. At its end `Ecsrp` states what the code takes
from mathematics and cannot see: `FieldLaw` (p is an odd prime: inverses, at most two
roots), `GroupLaw(M)` (`M` lists the n multiples of the generator, n is an odd prime,
`add` is closed and associative where multiples meet other points) and `TangleEnds`
(the search for a point to fold in ends); TLC evaluates all three for the curve of
the run. The device is external; its half of the
exchange is keygen with a validator, which `mtwei.go` also has, and the textbook
computation of the shared point. `keygen` clamps the bytes of its scalar in the
order of RFC 7748 and then reads them big-endian, so what it clamps are not the
bits the RFC means; the scalar stays a number, and the model picks any.

| Code | Model |
|---|---|
| `buildRetransmitSchedule`, `Configure` | the operator of that name; `budget`, `schedule` in `Init` |
| `handshake` | `Start`, `StartFails`, `AwaitSalt` with `AnswerSalt`, `AwaitEndAuth` |
| `sendDataAndWaitAck` | `Acked`, `NoAck` (the interval passes; the last one gives up), `Cancelled` |
| `awaitControl` | `AwaitSalt`, `AwaitEndAuth`, `AwaitLonger`, `AwaitTimeout`, `Cancelled` |
| `buildAuthInit`, `buildAuthFinish` | `authInit`, `authFinish`, refused by `Fits` when too long |
| `computeMD5Response`, `mtweiID`, `docrypto` | operators of those names |

`now` moves only while the goroutine waits. `session.go` says that
`authPhaseTimeout` "caps the entire SESSIONSTART → END_AUTH dance"; that is
`OpenWithinAuthPhase`, and the run `auth_deadline` refutes it: only the two
`awaitControl` calls look at the timeout, and a send that begins just before it has
its own retransmit budget, so with the defaults `Open` can take 40 s. `OpenBounded`
is the bound the code does keep.

### `Sockets`

`Session` knows a socket as open or closed; here a raw socket is a number in the
kernel's table, which gives the lowest free one to whoever asks next, sessions
and SSH connections alike. `OpenRecv`, `BindRaw`, `OpenSender`, `DrawKey` are the
steps of `Open`, each of which can fail; `Close` or `RxError` (`fail`) swaps
`closed`, and the winner does `MarkClosed`, `CloseRecv`, `CloseSender`. The receive
loop is `RxTop`, `Recvfrom` (the number is looked up here), then a timeout, an
error, a frame that is dropped (`RecvDrop`, then `ReadCheck` looks at `closed`
again) or one that passes (`RecvFrame`). `TxCheck`, `BuildFrame`, `Sendto` are a
sender: the number is looked up in `Sendto`, after the frame was built. Frames are
records of the fields the filter reads; the checksum is computed. An untagged
session's receive socket is a `net.UDPConn`, which Go guards against reuse.

`OwnDescriptorsUntilClosed` is as much as the code keeps: a keepalive, an ACK or
a retransmission that passed its look at `closed` can still reach `Sendto` after
`CloseSender`, and then goes out through whatever socket has the number by then;
`rawReceiver.Read` has the same gap between its look at `closed` and `Recvfrom`.
`docs/ARCHITECTURE.md` says that each session owns its sockets; that is true
until `Close`. What a closed session does with a number that is no longer its own is
in the model and no property forbids it; `CloseEndsRead` says that it stops.

### `SshSession`

The request loop of `handleSession` / `handleReq`, the goroutine `exec`
starts, the password prompt with its timer, the pumps in both directions, the
resize forwarder and an environment: client input, disconnect, shutdown, device
END and link failure. The MAC-Telnet session appears by what `Session`
establishes about it: `Write` returns, `Close` releases, `Read` delivers in order.

### `Server`

Start-up is one action per file operation (`LoadHostKey`, `CreateHostKey`,
`WriteHostKey`, `LoadKeys`), then `NotifyHup`, `Listen`; a crash may fall
between any two. SIGHUP before `signal.Notify` kills the process, as it does by
default; afterwards it enters the one-place `hupCh`. `TakeHup`, `ReadKeys`,
`SwapKeys` are the reload goroutine; `Connect`, `Accept`, `authPublicKey`,
`Established`, `ConnEnds` the connections; `ExecStarts`, `SessionOpens`, `OpenFails`,
`SessionEnds` the MAC-Telnet session behind one, which may still open when its client
has left or the context is cancelled; `SigTerm`, `CloseListener`, `ServeReturns` the
shutdown. `unsignalled` is history: an edit of `authorized_keys` since the last
SIGHUP or start, or a reload that could not read the file.

### `Mndp`

`execMndp`, `openListener`, then `Discover`'s loop: `top` (window, context, read
deadline), `ReadFromUDP` with `ParsePacket`, `ReadTimeout`, `ReadError`, and
`PrintNeighbors`. A datagram is a sequence of 16-bit words, cut at any of `Cuts`
and again by the read buffer; `nextAttr`, `setAttr` and `clipString` walk it as the
code does, and `Says` defines what it means from the announcement itself, without
the encoding. The six string attributes are treated alike by the code and are one
here. `Discover`'s own steps take no time, so the clock moves only while
a read is blocked; `EndsOnTime` is a statement about deadlines, not about load.

## 3. Runs

Runs that pass (distinct states, and seconds with two workers, approximate):

| Run | Config | States | Time | Checks |
|---|---|---|---|---|
| transfer | `SessionTransfer` | 1.0M | 168 | `TypeOK`, `ConfirmedDelivered`, `PeerStreamInOrder`, `DeliveredContiguous`, `OpenedMeansAuthenticated`, `ImplementsStream` |
| liveness | `SessionLiveness` | 115k | 122 | `SocketClosedOnce`, `CloseReleases`, `RxRuns`, `WriteReturns`, `OpenReturns`, `CloseReturns`, `ShutdownCompletes` |
| handshake | `Handshake` | 365k | 80 | `HandshakeTypeOK`, `ScheduleSpendsBudget`, `OpenBounded`, `DeviceReadsWhatWasMeant`, `CutPacketKeepsPrefix`, `RightPasswordAccepted` |
| sockets | `Sockets` | 47k | 36 | `SocketsTypeOK`, `OwnDescriptorsUntilClosed`, `DescriptorsReturned`, `TakesOwnDatagrams`, `ChecksumValid`, `CloseEndsRead` |
| ssh_channel | `SshChannel` | 224k | 71 | `SshTypeOK`, `OneReader`, `StreamIntact`, `ReleasedBeforeClose`, `NothingLeaks`, `PromptEnds` |
| mndp | `Mndp` | 240k | 31 | `MndpTypeOK`, `LatestPerDevice`, `EndsOnTime`, `PrintsAllKnown`, `DiscoverReturns` |
| daemon | `Server` | 199k | 38 | `HostKeyStable`, `KeysCurrentWhenIdle`, `ReloadTakesEffect`, `StopsOnSignal` |

Runs that TLC must refute, because the code disagrees with what a comment or
document says of it (`PROJECT.json`, `findings`, quotes the lines):

| Run | Property | What the counterexample shows |
|---|---|---|
| end_auth_race | `NothingLostAfterEndAuth` | the loop queues END_AUTH and dispatches the next terminal data before the handshake has set `terminalMode`: acknowledged, then dropped |
| wedge | `RxRunsUntilClosed` | nobody receives from `controlCh` after the handshake; one control record too many stops the loop until `Close` |
| keepalive_ack | `ConfirmedDelivered` | a keepalive carries the counter the waiting `Write` wants; a device that answers keepalives confirms bytes it never got |
| ssh_paste | `WritesFit` | the pump passes up to 4096 bytes, `Write` accepts at most 1469 |
| auth_deadline | `OpenWithinAuthPhase` | a PASSSALT just before the auth-phase timeout: the answer is sent, and its ACK waited for, beyond it |

`ConfirmedDelivered` therefore holds in `transfer` for a device that does not
answer keepalives and is refuted in `keepalive_ack` for one that does. Which of
the two a real device is cannot be read from this repository; the comment in
`session.go` says answers would be harmless.

Two further disagreements can be read off the models without a run of their own.
`Open` says that "on failure all resources are released before returning"; if the
receive loop is inside `fail` when the handshake gives up, the `Close` in `Open`
finds `closed` set and returns at once, with the sockets still open. `CloseReleases`
allows just that: a caller that lost the swap may return early while the winner is
still at work, but never once the winner is gone, and `DescriptorsReturned` says that
nothing is left when the receive loop has ended too. And after SIGTERM `Serve` returns
as soon as the listener is closed and the process exits without waiting for its
sessions: `StopsOnSignal` is what is left of "graceful shutdown", and the model's
sessions that got no END are `abandoned`.

### Bounds, and why they are enough

* `Mod` = 1000, `Window` = 100 stand for 2^32 and 65535 with their proportions;
  the runs do not wrap (`MaxOut` caps the counter at 50). Wrap-around is a
  planned run. `PeerStart` = 500 is the device's first counter, away from ours
  so that a confusion of directions shows.
* `AckCap`, `CtlCap` 1 or 2 (8 and 16 in the code): small, so full channels occur.
* `AuthAttempts`, `DataAttempts` 1 or 2: a schedule's last step and one before it.
  A retransmission is a new packet only in that it may meet a later state, so one
  suffices for each interleaving.
* `MaxCalls` 1 call per caller, two callers: both contend for `dataMu` and leave
  ACKs for each other. `MaxTicks` ≤ 1 keepalive.
* `MaxPayload` 2, `CpHeaderLen` 1, `AuthLen` 3 stand for 1469, 9 and the
  handshake payloads: accepted and refused lengths are both inputs. In
  `liveness` it is 1, so `Write` is always refused there and `Resize` is the
  call that blocks, through the same `sendDataAndWaitAck`. That run has one writer:
  it shows that a call gives up, not how `dataMu` is handed on.
* `Events`: `transfer` lets any send fail, `liveness` the receive socket, the parent
  context and the device. One caller of `Close` races the receive loop there; the
  theorems `ReleasedOnce` and `ReleasedFully` have any number. Salts of an unknown
  length are in `liveness`, `Handshake` has them as bytes.
* `Handshake`: the curve y^2 = x^3 + 30x + 30 over GF(101) has 104 points and a
  generator of order 13, the Montgomery shape and cofactor of the real one. Of the
  private scalars one is a multiple of the order (its public key does not exist),
  the others meet doubling and opposite points in `add`. Names that both payloads,
  only the first, or none has room for; a wrong password; two keys no `keygen` made,
  one off the curve; packets cut by 1, 3 and 10 bytes; budgets of 0 (the ramp), 1 ms
  (below it) and 4.5 s (whole seconds and a rest). `auth_deadline` has the default
  of 10 s and fewer keys.
* `Sockets`: one session, tagged or not, three numbers, so one is free for an SSH
  connection while it is up and all are in play once it closes. Two keys, one of them
  the client type, which the filter cannot tell from a client's own datagrams; three
  VLANs with two keys each on the segment; lengths 0 and the longest; IP IDs next to
  the wrap and one whose header needs the second fold of the checksum.
* `Server`: two starts (create, then load what a crash left), two clients, two
  edits and two SIGHUPs (one taken, one pending), one key in or out of the file.
* `Mndp`: two datagrams from five announcements (two devices, a change of name, no
  address, a repeated and a too short address, a name at the length limit), a socket buffer
  of one so that it overflows, a window of 3 ticks with reads of 2 so that the last
  read is a short one, and 0 as a refused `-t`.
* Symmetry is declared on the writers in `transfer`, where no liveness is checked
  and the members appear only as set elements.

Among the runs that pass, `CHECK_DEADLOCK FALSE` appears only for `Server`, where
nobody has to start the process again. In the other modules a behaviour that has
ended has an explicit final stuttering step, so a deadlock would be reported. (Two
of the refuted runs, `wedge` and `ssh_paste`, also say it: their environments are
cut down to what the counterexample needs and may run out of steps.)

### Fairness

`FairSpec` assumes that the Go scheduler runs every goroutine that can run, that
`sync.Mutex` does not starve a waiter (its starvation mode), and that timers
fire: retransmit timers, the handshake timer, receive deadlines, the prompt's
timeout. Nothing is assumed of link, device, the callers of `Write` and `Close`, or the
reader of the pipe. In `SshSession` the client is assumed to answer
`CHANNEL_CLOSE`, which RFC 4254 requires; in `Server` the boot steps, the reload
goroutine, `CloseListener` and `ServeReturns` are fair, clients and signals are not;
in `Mndp` the command's steps, the read deadline and the clock are, datagrams are not;
in `Sockets` the receive loop and a release under way are, and a receive call ends
sooner or later (`SO_RCVTIMEO`), while frames may follow each other for ever.

## 4. Theorems

Proved with TLAPS for every value of the constants that satisfies the named
assumption of the module that declares them, so for any number of writers, closers,
sessions, clients, restarts, packets and any set of failures. The theorems
of `StreamProofs` have hypotheses of their own, `StreamScope` and `DeviceScope`,
explained below; the instance of `transfer` satisfies both. `RightAnswerIsGiven` of
`HandshakeProofs` has the laws of the curve; the instance of `handshake` obeys them.

* **`SessionProofs!TypeCorrect`**: `Spec => []TypeOK`. `TypeOK` is not
  inductive: a step that takes an ACK or a data packet off the link computes with
  its counter and looks its job up in `sent`. `TypeInv` adds that a goroutine
  past the lock in `sendDataAndWaitAck` holds a job recorded in `sent`, with its
  counter and length (`JobInv`), that DATA on the link belongs to such a job
  (`DataInv`), and that the receive loop has a record in hand while it
  dispatches (`RxInv`).
* **`SessionProofs!ReleasedOnce`**: `Spec => []SocketClosedOnce`, and
  **`ReleasedFully`**: `Spec => []CloseReleases`. The invariant `DownInv` says
  who owns the release and where in it the owner stands: at most one goroutine is
  in the sequence, and it is the one that swapped `closed` (`OwnerInv`); before
  `openSockets` there is nothing to release and nobody to do it (`BirthInv`); the
  send socket is open until its owner closes it (`SenderInv`); what each point of the
  sequence has already released, on a caller of `Close` and on the receive loop
  (`PhaseInv`); and who returns leaves an owner (`LeftInv`), which is what a caller
  that lost the swap needs. Most actions leave these variables alone; one lemma disposes of
  them, and there is a case each for the sockets, the swap, the steps of the
  release, the end of the receive loop and a call of `Close`.
* **`StreamProofs!SessionImplementsStream`**: `Spec => ImplementsStream`, the
  refinement for every number of callers and payloads, with
  **`WriteConfirmsDelivery`** (`[]ConfirmedDelivered`) and
  **`DeviceStreamInOrder`** (`[]PeerStreamInOrder`). Their hypothesis
  `StreamScope` names what they need: the outgoing counter stays within the window
  (`MaxOut <= Window`, so at most 65535 bytes sent, and no wrap), as a packet older
  than the window is taken for new. That the device does not answer keepalives is
  part of `Spec`; with `AnsweringSpec` the run `keepalive_ack` refutes them. `StreamInv` adds to
  `TypeInv` that `dataMu` is held by the one caller past the lock and its payload is
  the last (`LockInv`); payloads cover disjoint, ascending ranges (`SentInv`), so a
  counter names one payload and so does an ACK; the device's mark is the counter of
  the payload it took last (`PeerInv`); and every ACK, on the link or in `ackCh`,
  answers a payload the device took or passed over (`AckInv`). The core is
  `AckMeansTaken`: the wanted ACK names the last payload, nothing later can have
  passed it over, so the device took it. A step leaves the stream alone
  (`StreamAside`, one lemma per group of actions), reserves, is taken, or returns
  (`StepCases`), and these are the steps of `Stream`.
* **`StreamProofs!ReadIsContiguous`**: `Spec => []DeliveredContiguous`, the other
  direction: what `Read` hands out is a stretch of the device's terminal stream
  without hole or repetition. `ReceiveInv` says that the DATA on the link is what
  the device has sent (`DeviceInv`); that `acceptIncoming` has let some number c of
  packets pass, its mark is the counter of the c-th, only these are acknowledged and
  so the device, which stops and waits, is at most one ahead (`TakenUpTo`); and that
  `Read` has had everything up to where the receive loop stands in the c-th
  (`HandedUpTo`). Once a piece is lost to a closed pipe or a cancelled context, no
  later one is handed out, which is why the last part is about a loop that is still
  `Live`. `DeviceScope(off, num)` names what is needed of the device: no empty packet
  (two packets would have one counter), a counter that neither wraps nor leaves the
  window, terminal data numbered as it is sent, at most one piece to a packet; and
  that our counter stays below the device's if keepalives are sent. The last is a
  trait of the protocol: a keepalive is an ACK that carries `out`, and a device whose
  next counter happened to equal it would take an unreceived packet for received.
* **`SessionProofs!OpenIsAuthenticated`**: `Spec => []OpenedMeansAuthenticated`.
  `AuthInv` follows END_AUTH back to its sender: if one is on the link, in the
  receive loop's hands, in `controlCh` or taken by `Open`, the device's script
  is past its second payload (`TraceInv`), and a script that far has taken
  auth-init and auth-finish (`TakenInv`). Every action but the device's own
  moves records along this path and invents none (`Flows`).
* **`HandshakeProofs!BudgetIsSpent`**: `Spec => []ScheduleSpendsBudget`, for every
  integer budget, where the run tries three. The schedule never changes
  (`ScheduleInv`), so this is a fact about `buildRetransmitSchedule`: a prefix of
  the ramp, whole seconds and a rest (`Pieces`), whose sum is that of its parts
  (`SumConcat`). `CHOOSE` finds its prefix since the sums of the ramp's prefixes
  start below the budget and the first one above it has a predecessor (`RampIs`).
* **`HandshakeProofs!OpenReturnsInTime`**: `Spec => []OpenBounded`. `TimeInv` says
  what the clock can show at each place: during a send no more than the intervals
  it has left behind (`UpTo`), for the second send on top of the deadline of the
  awaits, or of a first send that outlasted it (`Limit`).
* **`HandshakeProofs!CutPacketIsPrefix`**: `Spec => []CutPacketKeepsPrefix`;
  **`DeviceReadsTheClient`**: `Spec => []DeviceReadsWhatWasMeant`; and
  **`HandshakeIsTyped`**: `Spec => []HandshakeTypeOK`. The codec for every name, key,
  salt, answer, terminal size and cut, not those of the run. `iterateControl` is a
  recursive function; `Turns` describes it as a sequence of loop states, one
  `nextControl` apart, and `Decoding` says that such a sequence, however found, ends
  in its value. `RoundTrip` then builds one for a payload that is laid out as framed
  records and perhaps terminal data (`Laid`), record by record. `TalkInv` is the
  state part: what is in flight, and what the device heard, is a payload made by
  `buildAuthInit` or `buildAuthFinish` from values that fit (`IsFinish`).
* **`HandshakeProofs!RightAnswerIsGiven`**: `Spec => []RightPasswordAccepted`, for
  every curve, credential, salt, scalar and cut, from `FieldLaw`, `GroupLaw(M)`,
  `TangleEnds` and `Digests` (a digest of a number is a number). The arithmetic comes
  first: `scalarMult` computes multiples (`ScalarMultIs`, by induction over the turns
  of its loop), a compressed key lifts back to its point (`LiftsBack`), and what
  `tangle` folds in with one parity it folds out with the other (`UnfoldIs`), the root
  0 included, whose mirror p - 0 is left unreduced. So client and device arrive at the
  same multiple of the generator, (v*h + a)*b (`DocryptoIs`, `DeviceMultiple`), and at
  Infinity only where a factor is a multiple of n (`SecretIs`), for which n must be
  prime. The state part: `HeldInv` (the client's key is `keygen` of its scalar),
  `PassInv` (a PASSSALT that waits in `controlCh` was read of the device's one packet)
  and `AnswerInv` (what was answered, or panicked on, is such a record). A packet
  yields PASSSALT once, whole or shorter (`ArrivedIs`), so if the device's salt arrived
  whole it is the one that was answered. (A body cut to the length of an MD5 salt
  would be answered as one; the property speaks of salts that arrived.)
* **`SocketsProofs`**: **`OwnDescriptors`**, **`AllDescriptorsReturned`**,
  **`OnlyOwnDatagrams`**, **`ChecksumsValid`** and **`SocketsTypeCorrect`**, all
  from `SocketsInv`, one conjunction per session. Its heart is `TableOf`: the
  descriptor table has exactly the sockets that the places of the session's
  goroutines say it has (`HasRecv`, `HasSend`), each under the number it
  remembers; `LifeOf` says that only the goroutine that swapped `closed` is in the
  release. A step is good to its own session and leaves the others' fields and
  entries alone (`GoodKeeps`), so no proof ever compares two sessions. The
  checksum is arithmetic: a sum of ten words needs at most two folds (`ChecksumCloses`).
  That no session is named `sshd` or `nobody`, the two other owners of entries,
  is an assumption of `Sockets`.
* **`SshProofs`**: **`ReaderIsAlone`** (`[]OneReader`), **`SessionReleasedFirst`**
  (`[]ReleasedBeforeClose`), **`SshTypeCorrect`** and **`DeviceGetsTyped`**
  (`[]StreamIntact`). `StageInv` relates the places
  of the goroutines: a prompt's goroutine that is still reading means that exec is
  in the prompt or on its way out and no pump was started; the session is open
  only while exec pumps or closes it; `handleSession` returns only after exec.
  `ResultInv`: each goroutine sends its one result when it is done, so the buffered
  channels never overflow. `DeviceGetsTyped` follows every byte the client types:
  what prompt, pump and device have had, what sits in the reader's buffer and what is
  still to come, laid end to end, is always the client's input, cut after the
  password's line (`PlaceInv`).
* **`ServerProofs!OneHostKey`**: `Spec => []HostKeyStable`. `HostKeyInv`: a
  key a client has been shown is the one in the file; the process serves only
  after it has written or read the key; while the file is missing nobody has been
  served. A torn file is refused at start rather than replaced, and that is
  what carries the proof over a crash in `WriteHostKey`.
  **`IdleReloaderIsCurrent`**: `Spec => []KeysCurrentWhenIdle`. `ReloadInv` follows the
  file's content through the reload: unless a signal is queued or an edit waits for
  one, what the start has loaded, what the reloader has parsed and what is in force
  afterwards is the file as it is; and there is no reloader before `signal.Notify`.
  **`ServerTypeCorrect`**: `Spec => []ServerTypeOK`.
* **`MndpProofs`**: **`DiscoverEndsOnTime`** (`[]EndsOnTime`), **`TablePrinted`**,
  **`MndpTypeCorrect`**, **`ParserAgrees`**, **`TableIsLatest`** and
  **`ListingIsComplete`**. `TimeInv` relates clock, window, read deadline and
  cancellation at each place; a read that began before the cancellation ends at most
  `Slice` after it. `ParserAgrees`: for every announcement and every cut,
  `ParsePacket` reads the attributes that arrived whole and no other, which `Says`
  defines without the encoding. With it `TableIsLatest` is `[]LatestPerDevice` for
  histories of any length, and `ListingIsComplete`, `[]PrintsAllKnown`, adds that
  `collectNeighbors` lists every entry of the table once and in order.

Induction over data is done with sets: well-foundedness of `<` on `Nat` gives every
non-empty set of naturals a least member, hence a set that has 0 and is closed under
+1 is `Nat` (`Induction!Least`, `SetInduction`). What a recursive function computes is
settled by showing that a sequence of its intermediate values exists and that two such
sequences agree (`SumsExist` and `SumsUnique` for `Sum`, `Decoding` for
`iterateControl`, `ScalarMultIs` for `scalarMult`).

Only model-checked, and why:

* every liveness property (of `liveness`, `ssh_channel`, `daemon`, `mndp`, and `CloseEndsRead` of `sockets`):
  TLAPS 1.4.5 reasons about neither fairness nor `ENABLED`.

## 5. Not modelled

* Curve25519 itself: 256-bit arithmetic is out of TLC's reach, so the constants in
  `newMtweiState` are not checked, only the formulas. MD5 and SHA-256 are parameters.
* Byte offsets inside Ethernet, IP and UDP headers: a frame is a record of fields.
* In `rawReceiver.Read` the deadline restarts with every frame it drops, since
  `SO_RCVTIMEO` is per call: on a busy VLAN `rxLoop` may look at `ctx` much later than
  every 500 ms. `CloseEndsRead` shows that it still ends, through the look at `closed`.
* `SetReadDeadline` of a raw receiver is a `setsockopt` on a number that may be stale
  by then (`conn.go:430`): `RxTop` leaves that call out, its effect on the session's
  own socket is `RecvTimeout`.
* The diagnostics that `execMactelnet` writes to the channel's stderr (`exec.go:231`,
  `243`, `278`) can block on a client whose window is zero; they take no time in
  `SshSession`.
* `encodePing` and `detectAuthMode`, which nothing calls.
* Counters that wrap: `Seq` has the arithmetic, but the runs stay below `Mod`.
* Which terminal size the device ends up with: a full `winchCh` drops the newest
  one, as its comment says, and the runs use one size.
* Interface listing, flag and environment parsing, `splitCmd`, the stand-alone
  front ends of `cmd/mactelnet-proxy`, MNDP's table and JSON layout.

## 6. Plan

Done: `Session` (transfer, teardown, blocking calls) with `Stream` above it, `Handshake`
with `Codec` and `Ecsrp`, `Sockets`, `SshSession`, `Server`, `Mndp`, and theorems
about every one of them. Next, in this order:

1. `Seq` across the wrap: what a late duplicate does next to 2^32.
2. `*ptyCols` and `*ptyRows` read by the exec goroutine in two steps while
   `handleSession` handles another `pty-req`.
3. `splitCmd` and the flag sets as operators on tokens.

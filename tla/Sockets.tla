------------------------------- MODULE Sockets -------------------------------
(***************************************************************************)
(* The sockets of several MAC-Telnet sessions in one process (conn.go, and *)
(* what Open, Close, fail, rxLoop and keepaliveLoop do to them).           *)
(*                                                                         *)
(* The raw sockets are bare integers: a number names whatever the kernel's *)
(* descriptor table holds under it when the system call is made, and the   *)
(* kernel hands out the lowest free number.  The UDP socket of an untagged *)
(* session is a net.UDPConn, which Go protects against use after Close.    *)
(***************************************************************************)
EXTENDS Integers, Sequences, FiniteSets

CONSTANTS
  Sessions,    \* names of the sessions
  Vlans,       \* configurations: the vlanID of each session, 0 for untagged
  Keys,        \* session keys rand.Read may yield
  Segment,     \* VLAN and key of the sessions, ours and other clients', heard
  Fds,         \* descriptor numbers of the process
  PayloadLens, \* bytes behind the header of the packets a session sends
  IPIDs,       \* IP IDs a session may have reached
  MaxSends     \* bound: sends of each session after that

maxUint16  == 65535
maxVlan    == 4094
maxPayload == 1478                   \* what Ethernet leaves behind the header

ASSUME SocketsAssumption ==
  /\ {"sshd", "nobody"} \cap Sessions = {}
  /\ Vlans \subseteq [Sessions -> 0 .. maxVlan]
  /\ Keys \subseteq 0 .. maxUint16
  /\ Segment \subseteq [vlan : 0 .. maxVlan, key : 0 .. maxUint16]
  /\ Fds \subseteq Nat /\ IsFiniteSet(Fds)
  /\ PayloadLens \subseteq 0 .. maxPayload
  /\ IPIDs \subseteq 0 .. maxUint16
  /\ MaxSends \in [Sessions -> Nat]

----------------------------------------------------------------------------
(* Packet headers (protocol.go): bytes 14-15 and 16-17 hold the session    *)
(* key and the client type, in an order that depends on the direction.     *)

headerLen  == 22
clientType == 21                     \* {0x00, 0x15}

encode(ptype, key, dir) ==
  IF dir = "toServer" THEN [ptype |-> ptype, at14 |-> key, at16 |-> clientType]
                      ELSE [ptype |-> ptype, at14 |-> clientType, at16 |-> key]

\* Mutant: the key is looked for where the client puts it.
decodeKeyUnswapped(h, dir) == h.at14

decodeKey(h, dir) == IF dir = "toServer" THEN h.at14 ELSE h.at16

----------------------------------------------------------------------------
(* Frames.                                                                 *)

ethPIP    == 2048                    \* 0x0800
ethP8021Q == 33024                   \* 0x8100
udpPort   == 20561
OurMAC    == "ours"
DevMAC    == "device"
Broadcast == "broadcast"

\* internetChecksum: the one's-complement sum of 16-bit words, folded, inverted.
\* Its one caller passes the ten words of an IP header.
WordSum(w) ==
  w[1] + w[2] + w[3] + w[4] + w[5] + w[6] + w[7] + w[8] + w[9] + w[10]
Fold(sum) == (sum % 65536) + (sum \div 65536)

\* Mutant: the carries are folded in once.
checksumOnce(ws) == 65535 - (Fold(WordSum(ws)) % 65536)

internetChecksum(ws) == 65535 - Fold(Fold(WordSum(ws)))

\* The ten words of the IP header: version and length, total length, ID, no
\* fragment, TTL and UDP, checksum, source 0.0.0.0, destination broadcast.
ipWords(total, id, sum) == <<17664, total, id, 0, 16401, sum, 0, 0, 65535, 65535>>

\* The layers of a frame of `n` bytes.  `vid` and `inner` are read only behind
\* a tag.
buildFrame(src, dst, vlanID, ipID, hdr, plen) ==
  LET ipLen == 28 + headerLen + plen
      tag   == IF vlanID # 0 THEN 4 ELSE 0
  IN  [dst |-> dst, src |-> src,
       etype |-> IF vlanID # 0 THEN ethP8021Q ELSE ethPIP,
       vid |-> vlanID % 4096, inner |-> ethPIP,
       ver |-> 4, ihl |-> 5, proto |-> 17,
       total |-> ipLen, id |-> ipID,
       sum |-> internetChecksum(ipWords(ipLen, ipID, 0)),
       port |-> udpPort, udpLen |-> ipLen - 20,
       hdr |-> hdr, n |-> 14 + tag + ipLen]

\* The filter of rawReceiver.Read, in its order.
rawFilter(f, vlanID) ==
  /\ f.n >= 14
  /\ f.src # OurMAC
  /\ f.dst \in {OurMAC, Broadcast}
  /\ f.etype = ethP8021Q /\ f.n >= 18
  /\ f.vid = vlanID
  /\ f.inner = ethPIP
  /\ f.n >= 38 /\ f.ver = 4 /\ f.ihl >= 5
  /\ f.n >= 18 + 4 * f.ihl
  /\ f.proto = 17
  /\ f.n >= 26 + 4 * f.ihl
  /\ f.port = udpPort
  /\ f.udpLen >= 8 /\ 18 + 4 * f.ihl + f.udpLen <= f.n

\* What the kernel's UDP socket passes on: untagged, to our port, whole.
udpFilter(f) ==
  /\ f.etype = ethPIP /\ f.src # OurMAC /\ f.dst \in {OurMAC, Broadcast}
  /\ f.proto = 17 /\ f.port = udpPort /\ 14 + f.total <= f.n

----------------------------------------------------------------------------

VARIABLES
  vlan,       \* the vlanID of each session
  fdTable,    \* what each descriptor number stands for
  recvFd,     \* the receive descriptor of each session
  sendFd,     \* rawSender.fd
  key,        \* sessionKey
  ipID,       \* rawSender.ipID
  closed,     \* Session.closed
  down,       \* s.ctx is cancelled and rawReceiver.closed set
  pc,         \* the goroutines of each session
  file,       \* the open file a receive call is blocked on
  sends,      \* sends of each session
  frame,      \* the frame Send has built, until sendto
  via,        \* the file the last sendto went through, until the next send
  taken       \* the frame rxLoop is handling as its own

vars == <<vlan, fdTable, recvFd, sendFd, key, ipID, closed, down, pc, file,
          sends, frame, via, taken>>

File(who, kind) == [who |-> who, kind |-> kind]
NoFile == File("nobody", "none")
SshConn == File("sshd", "tcp")      \* a client's connection, in the same table

\* own: Open, then Close.  rx: rxLoop.  tx: any sender, here keepaliveLoop.
Roles == {"own", "rx", "tx"}
NoFd  == -1
NoFrame == << >>
NoSessionKey == -1

Init ==
  /\ vlan \in Vlans
  /\ fdTable = [d \in Fds |-> NoFile]
  /\ recvFd = [s \in Sessions |-> NoFd] /\ sendFd = [s \in Sessions |-> NoFd]
  /\ key = [s \in Sessions |-> NoSessionKey]
  /\ ipID = [s \in Sessions |-> 0]
  /\ closed = [s \in Sessions |-> FALSE]
  /\ down = [s \in Sessions |-> FALSE]
  /\ pc = [s \in Sessions |-> [r \in Roles |-> IF r = "own" THEN "recv" ELSE "off"]]
  /\ file = [s \in Sessions |-> NoFile]
  /\ sends = [s \in Sessions |-> 0]
  /\ frame = [s \in Sessions |-> NoFrame]
  /\ via = [s \in Sessions |-> NoFile]
  /\ taken = [s \in Sessions |-> NoFrame]

Goto(s, r, label) == pc' = [pc EXCEPT ![s][r] = label]

Free == {d \in Fds : fdTable[d] = NoFile}

\* The kernel gives out the lowest free number, if there is one.
Lowest(d) == d \in Free /\ \A e \in Free : d <= e
Alloc(d, f) == Lowest(d) /\ fdTable' = [fdTable EXCEPT ![d] = f]

\* close(2): frees whatever the number stands for.
CloseFd(d) == fdTable' = [fdTable EXCEPT ![d] = NoFile]

Raw(s) == vlan[s] # 0

----------------------------------------------------------------------------
(* openSockets and the rest of Open.                                       *)

OpenUnchanged == UNCHANGED <<vlan, closed, down, file, sends, frame, via, taken>>

\* openRecv, or openRawReceiver up to its bind.
OpenRecv(s) ==
  /\ pc[s]["own"] = "recv"
  /\ \/ \E d \in Fds :
          /\ Alloc(d, File(s, "recv"))
          /\ recvFd' = [recvFd EXCEPT ![s] = d]
          /\ Goto(s, "own", IF Raw(s) THEN "bind" ELSE "send")
     \/ Goto(s, "own", "down") /\ UNCHANGED <<fdTable, recvFd>>
  /\ OpenUnchanged /\ UNCHANGED <<sendFd, key, ipID>>

\* Mutant: the descriptor is forgotten when bind fails.
BindRawLeaks(s) ==
  /\ pc[s]["own"] = "bind"
  /\ Goto(s, "own", "send") \/ Goto(s, "own", "down")
  /\ OpenUnchanged /\ UNCHANGED <<fdTable, recvFd, sendFd, key, ipID>>

BindRaw(s) ==
  /\ pc[s]["own"] = "bind"
  /\ \/ Goto(s, "own", "send") /\ UNCHANGED fdTable
     \/ Goto(s, "own", "down") /\ CloseFd(recvFd[s])
  /\ OpenUnchanged /\ UNCHANGED <<recvFd, sendFd, key, ipID>>

\* openRawSender; its failure closes the receive socket.
OpenSender(s) ==
  /\ pc[s]["own"] = "send"
  /\ \/ \E d \in Fds :
          /\ Alloc(d, File(s, "send"))
          /\ sendFd' = [sendFd EXCEPT ![s] = d]
          /\ Goto(s, "own", "key")
     \/ CloseFd(recvFd[s]) /\ Goto(s, "own", "down") /\ UNCHANGED sendFd
  /\ OpenUnchanged /\ UNCHANGED <<recvFd, key, ipID>>

\* rand.Read; then rxLoop is started, and the session goes on from some IP ID
\* it has reached.  The failure closes both.
DrawKey(s) ==
  /\ pc[s]["own"] = "key"
  /\ \/ /\ \E k \in Keys : key' = [key EXCEPT ![s] = k]
        /\ \E i \in IPIDs : ipID' = [ipID EXCEPT ![s] = i]
        /\ pc' = [pc EXCEPT ![s] = [own |-> "up", rx |-> "top", tx |-> "tick"]]
        /\ UNCHANGED fdTable
     \/ /\ fdTable' = [fdTable EXCEPT ![recvFd[s]] = NoFile, ![sendFd[s]] = NoFile]
        /\ Goto(s, "own", "down")
        /\ UNCHANGED <<key, ipID>>
  /\ OpenUnchanged /\ UNCHANGED <<recvFd, sendFd>>

----------------------------------------------------------------------------
(* Close and fail, after Session: the winner of the swap closes the        *)
(* receive socket, then the sender; Close then waits for the receive loop. *)

DownUnchanged == UNCHANGED <<vlan, recvFd, sendFd, key, ipID, file, sends,
                             frame, via, taken>>

\* Mutant: nobody asks who was first.
SwapAlways(s, r, lost) ==
  closed' = [closed EXCEPT ![s] = TRUE] /\ Goto(s, r, "closeRecv")

Swap(s, r, lost) ==
  IF closed[s] THEN Goto(s, r, lost) /\ UNCHANGED closed
  ELSE closed' = [closed EXCEPT ![s] = TRUE] /\ Goto(s, r, "closeRecv")

\* Close; its best-effort END is one more send, like the ones of "tx".
Close(s) ==
  /\ pc[s]["own"] = "up"
  /\ Swap(s, "own", "down")
  /\ DownUnchanged /\ UNCHANGED <<fdTable, down>>

\* s.cancel(), then conn.Close(): a rawReceiver sets its flag, then closes the
\* number.
MarkClosed(s, r) ==
  /\ pc[s][r] = "closeRecv"
  /\ down' = [down EXCEPT ![s] = TRUE]
  /\ Goto(s, r, "closeRecvFd")
  /\ DownUnchanged /\ UNCHANGED <<fdTable, closed>>

CloseRecv(s, r) ==
  /\ pc[s][r] = "closeRecvFd"
  /\ CloseFd(recvFd[s])
  /\ Goto(s, r, "closeSend")
  /\ DownUnchanged /\ UNCHANGED <<closed, down>>

CloseSender(s, r) ==
  /\ pc[s][r] = "closeSend"
  /\ CloseFd(sendFd[s])
  /\ Goto(s, r, IF r = "own" THEN "join" ELSE "done")
  /\ DownUnchanged /\ UNCHANGED <<closed, down>>

Join(s) ==
  /\ pc[s]["own"] = "join" /\ pc[s]["rx"] = "done"
  /\ Goto(s, "own", "down")
  /\ DownUnchanged /\ UNCHANGED <<fdTable, closed, down>>

----------------------------------------------------------------------------
(* rxLoop over either receiver.                                            *)

RxUnchanged == UNCHANGED <<vlan, fdTable, recvFd, sendFd, key, ipID, down,
                           sends, frame, via>>

\* The look at s.ctx, SetReadDeadline, and Read's first look at closed, which
\* is set after ctx is cancelled.
RxTop(s) ==
  /\ pc[s]["rx"] = "top"
  /\ Goto(s, "rx", IF down[s] THEN "done" ELSE "call")
  /\ taken' = [taken EXCEPT ![s] = NoFrame]
  /\ RxUnchanged /\ UNCHANGED <<closed, file>>

\* Mutant: the loop in Read asks only its socket.
ReadCheckNot(s) ==
  /\ pc[s]["rx"] = "read"
  /\ Goto(s, "rx", "call")
  /\ RxUnchanged /\ UNCHANGED <<closed, file, taken>>

\* The loop in Read after a frame it dropped: closed means ErrClosed.
ReadCheck(s) ==
  /\ pc[s]["rx"] = "read"
  /\ Goto(s, "rx", IF down[s] THEN "done" ELSE "call")
  /\ RxUnchanged /\ UNCHANGED <<closed, file, taken>>

\* An error of Read: rxLoop ends if the session is down, else it calls fail.
RxError(s) == IF down[s] THEN Goto(s, "rx", "done") /\ UNCHANGED closed
              ELSE Swap(s, "rx", "done")

\* The system call looks the number up; from then on it holds the file.  A
\* net.UDPConn looks its own socket up, or reports that it is closed.
Recvfrom(s) ==
  /\ pc[s]["rx"] = "call"
  /\ LET f == IF Raw(s) THEN fdTable[recvFd[s]]
              ELSE IF fdTable[recvFd[s]] = File(s, "recv") THEN File(s, "recv")
              ELSE NoFile
     IN  IF f = NoFile
         THEN RxError(s) /\ UNCHANGED file
         ELSE /\ file' = [file EXCEPT ![s] = f]
              /\ Goto(s, "rx", "blocked")
              /\ UNCHANGED closed
  /\ RxUnchanged /\ UNCHANGED taken

\* EAGAIN, the deadline: back to the top of rxLoop.
RecvTimeout(s) ==
  /\ pc[s]["rx"] = "blocked"
  /\ Goto(s, "rx", "top")
  /\ file' = [file EXCEPT ![s] = NoFile]
  /\ RxUnchanged /\ UNCHANGED <<closed, taken>>

RecvError(s) ==
  /\ pc[s]["rx"] = "blocked"
  /\ RxError(s)
  /\ file' = [file EXCEPT ![s] = NoFile]
  /\ RxUnchanged /\ UNCHANGED taken

\* A datagram of a session's device, to its client's address or to all.
Reply(h, dst) ==
  buildFrame(DevMAC, dst, h.vlan, 1, encode("DATA", h.key, "toClient"), 0)

WithOptions(f) == [f EXCEPT !.ihl = 6, !.total = @ + 4, !.n = @ + 4]

\* What else is on the segment: other tags, ports and protocols, a cut frame,
\* an IP header with options, another client's datagram, our own echo.
Variants(f) ==
  {f, [f EXCEPT !.vid = IF f.etype = ethP8021Q THEN (@ + 1) % 4096 ELSE @],
   [f EXCEPT !.port = 5678], [f EXCEPT !.proto = 6], [f EXCEPT !.n = @ - 1],
   [f EXCEPT !.n = 13], WithOptions(f),
   [f EXCEPT !.hdr = encode("DATA", @.at16, "toServer")],
   [f EXCEPT !.src = OurMAC]}

InAir == UNION {Variants(Reply(h, dst)) : h \in Segment, dst \in {OurMAC, Broadcast}}

\* What a receiver for VLAN v passes on.
Passed == [v \in {V[s] : V \in Vlans, s \in Sessions} |->
             {f \in InAir : IF v # 0 THEN rawFilter(f, v) ELSE udpFilter(f)}]

\* What a raw read takes from a UDP or a TCP socket, or from a sender's, which
\* sees only untagged frames, is not a frame the filter passes.
Hears(s) == Raw(s) => file[s].kind = "recv" /\ Raw(file[s].who)

\* A frame the filter drops keeps a raw Read in its loop; what the kernel
\* drops is not seen.
RecvDrop(s) ==
  /\ pc[s]["rx"] = "blocked" /\ Raw(s)
  /\ Hears(s) => Passed[vlan[s]] # InAir
  /\ file' = [file EXCEPT ![s] = NoFile]
  /\ Goto(s, "rx", "read")
  /\ RxUnchanged /\ UNCHANGED <<closed, taken>>

\* One it passes goes to rxLoop, which drops it unless the key is the session's.
RecvFrame(s, f) ==
  /\ pc[s]["rx"] = "blocked" /\ Hears(s)
  /\ file' = [file EXCEPT ![s] = NoFile]
  /\ taken' = IF decodeKey(f.hdr, "toClient") = key[s]
              THEN [taken EXCEPT ![s] = f] ELSE taken
  /\ Goto(s, "rx", "top")
  /\ RxUnchanged /\ UNCHANGED closed

----------------------------------------------------------------------------
(* Senders.  Send is under sendMu, which Close does not take.              *)

TxUnchanged == UNCHANGED <<vlan, fdTable, recvFd, sendFd, key, closed, down,
                           file, taken>>

\* The look at `closed` before a send; ctx is done no earlier.
TxCheck(s) ==
  /\ pc[s]["tx"] = "tick" /\ (closed[s] \/ sends[s] < MaxSends[s])
  /\ Goto(s, "tx", IF closed[s] THEN "done" ELSE "build")
  /\ via' = [via EXCEPT ![s] = NoFile]
  /\ TxUnchanged /\ UNCHANGED <<ipID, sends, frame>>

\* Mutant: the IP ID does not wrap.
nextIPIDWide(i) == i + 1

nextIPID(i) == (i + 1) % 65536

\* rawSender.Send: a new IP ID and the frame,
BuildFrame(s) ==
  /\ pc[s]["tx"] = "build"
  /\ ipID' = [ipID EXCEPT ![s] = nextIPID(@)]
  /\ sends' = [sends EXCEPT ![s] = @ + 1]
  /\ \E len \in PayloadLens :
       frame' = [frame EXCEPT ![s] =
                   buildFrame(OurMAC, DevMAC, vlan[s], ipID'[s],
                              encode("ACK", key[s], "toServer"), len)]
  /\ Goto(s, "tx", "sendto")
  /\ TxUnchanged /\ UNCHANGED via

\* then sendto on the number.  On a freed one it fails: the error is counted
\* and, by these callers, ignored.
Sendto(s) ==
  /\ pc[s]["tx"] = "sendto"
  /\ via' = [via EXCEPT ![s] = fdTable[sendFd[s]]]
  /\ frame' = [frame EXCEPT ![s] = NoFrame]
  /\ Goto(s, "tx", "tick")
  /\ TxUnchanged /\ UNCHANGED <<ipID, sends>>

\* sshserver accepts a client, whose connection later ends.
SshAccept ==
  /\ \A d \in Fds : fdTable[d] # SshConn
  /\ \E d \in Fds : Alloc(d, SshConn)
  /\ UNCHANGED <<vlan, recvFd, sendFd, key, ipID, closed, down, pc, file, sends,
                 frame, via, taken>>

SshEnds ==
  /\ \E d \in Fds : fdTable[d] = SshConn /\ CloseFd(d)
  /\ UNCHANGED <<vlan, recvFd, sendFd, key, ipID, closed, down, pc, file, sends,
                 frame, via, taken>>

----------------------------------------------------------------------------

RxStep(s) ==
  RxTop(s) \/ ReadCheck(s) \/ Recvfrom(s) \/ RecvTimeout(s) \/ RecvError(s)

DownStep(s, r) == MarkClosed(s, r) \/ CloseRecv(s, r) \/ CloseSender(s, r)

Next ==
  \/ \E s \in Sessions :
       \/ OpenRecv(s) \/ BindRaw(s) \/ OpenSender(s) \/ DrawKey(s)
       \/ Close(s) \/ Join(s)
       \/ RxStep(s) \/ RecvDrop(s) \/ \E f \in Passed[vlan[s]] : RecvFrame(s, f)
       \/ \E r \in {"own", "rx"} : DownStep(s, r)
       \/ TxCheck(s) \/ BuildFrame(s) \/ Sendto(s)
  \/ SshAccept \/ SshEnds

Spec == Init /\ [][Next]_vars

\* Goroutines that can run do; nobody has to call Close.  The receive call ends:
\* with a frame, with its deadline, or with an error.  A frame is followed by
\* RxTop or ReadCheck, so it can recur for ever, and is not named here.
Fairness ==
  \A s \in Sessions :
    /\ WF_vars(RxStep(s) \/ DownStep(s, "rx"))
    /\ WF_vars(DownStep(s, "own"))

FairSpec == Spec /\ Fairness

----------------------------------------------------------------------------
(* Properties.                                                             *)

Files == [who : Sessions \cup {"sshd", "nobody"}, kind : {"recv", "send", "tcp", "none"}]

\* Every variable has its type; a frame's IP ID stays a uint16.
SocketsTypeOK ==
  /\ vlan \in Vlans
  /\ key \in [Sessions -> Keys \cup {NoSessionKey}]
  /\ fdTable \in [Fds -> Files]
  /\ recvFd \in [Sessions -> Fds \cup {NoFd}]
  /\ sendFd \in [Sessions -> Fds \cup {NoFd}]
  /\ ipID \in [Sessions -> 0 .. maxUint16]
  /\ closed \in [Sessions -> BOOLEAN] /\ down \in [Sessions -> BOOLEAN]
  /\ file \in [Sessions -> Files] /\ via \in [Sessions -> Files]
  /\ \A s \in Sessions :
       /\ sends[s] \in 0 .. MaxSends[s]
       /\ taken[s] \in InAir \cup {NoFrame}
       /\ pc[s]["own"] \in {"recv", "bind", "send", "key", "up", "closeRecv",
                           "closeRecvFd", "closeSend", "join", "down"}
       /\ pc[s]["rx"] \in {"off", "top", "read", "call", "blocked", "closeRecv",
                          "closeRecvFd", "closeSend", "done"}
       /\ pc[s]["tx"] \in {"off", "tick", "build", "sendto", "done"}

Own(s) == fdTable[recvFd[s]] = File(s, "recv") /\ fdTable[sendFd[s]] = File(s, "send")

\* Until it is closed a session's numbers stand for its own sockets, and no
\* frame leaves and no read is made through another: only a send or a read
\* that overlaps Close can hit a number that is a client's by then.  close(2)
\* itself never does, whichever of Close and fail releases.
OwnDescriptorsUntilClosed ==
  \A s \in Sessions :
    /\ pc[s]["own"] = "up" /\ ~closed[s] => Own(s)
    /\ \A r \in {"own", "rx"} :
         /\ pc[s][r] \in {"closeRecv", "closeRecvFd"} => Own(s)
         /\ pc[s][r] = "closeSend" => fdTable[sendFd[s]] = File(s, "send")
    /\ via[s] \in {NoFile, File(s, "send")} \/ closed[s]
    /\ file[s] \in {NoFile, File(s, "recv")} \/ closed[s]

\* Whatever failed in Open and whoever tore the session down: once Open or
\* Close has returned and the receive loop has ended, every number is free.
DescriptorsReturned ==
  \A s \in Sessions :
    pc[s]["own"] = "down" /\ pc[s]["rx"] \in {"off", "done"} =>
      \A d \in Fds : fdTable[d].who # s

\* The datagrams of a device, with or without IP options.
Genuine(h) ==
  UNION {{Reply(h, dst), WithOptions(Reply(h, dst))} : dst \in {OurMAC, Broadcast}}

\* All sessions hear the whole segment on one port.  What a receive loop takes
\* comes from its own device, or from that of a session in the same VLAN that
\* drew the same key; or the session drew the client type as its key.
TakesOwnDatagrams ==
  \A s \in Sessions :
    taken[s] # NoFrame =>
      \/ taken[s] \in Genuine([vlan |-> vlan[s], key |-> key[s]])
      \/ key[s] = clientType

\* The IP header of every frame sums to 0xffff, for every length and IP ID.
ChecksumValid ==
  \A s \in Sessions :
    frame[s] # NoFrame =>
      Fold(Fold(WordSum(ipWords(frame[s].total, frame[s].id, frame[s].sum)))) = 65535

\* However busy the segment, the receive loop ends after Close or fail, even
\* if its number already stands for a socket on which frames never cease.
CloseEndsRead == \A s \in Sessions : closed[s] ~> pc[s]["rx"] = "done"

=============================================================================

-------------------------------- MODULE Mndp --------------------------------
(***************************************************************************)
(* MNDP discovery (internal/mndp) as the exec command `mndp` runs it        *)
(* (sshserver/exec.go): the listen window with its read deadlines and       *)
(* cancellation, the TLV parser, and the table of neighbours.               *)
(*                                                                         *)
(* A datagram is a sequence of 16-bit words: two words of header, then      *)
(* attributes of a type word, a length word (in words) and a value.         *)
(* Discover's own steps take no time: the clock moves while it is blocked   *)
(* in a read.                                                              *)
(***************************************************************************)
EXTENDS Integers, Sequences, SequencesExt, FiniteSetsExt

CONSTANTS
  Announcements,    \* what devices announce: sequences of attributes
  Cuts,             \* how many words of it may arrive
  IPs,              \* UDP source addresses
  minPacketLen,     \* 9 words
  maxPacketBuf,     \* 750 words
  mndpMaxStringLen, \* 64 words
  Timeouts,         \* values of -t, in ticks
  Slice,            \* the read deadline (500 ms), in ticks
  QueueCap,         \* datagrams the socket buffer holds
  MaxArrivals,      \* bound: datagrams that arrive
  Events            \* which failures of the environment may happen

headerLen     == 2
attrHeaderLen == 2
macLen        == 3
uptimeLen     == 2
Word          == 65536

attrAddress   == 1
attrIdentity  == 5    \* and the five other string attributes
attrTimestamp == 10

NoMAC == [i \in 1 .. macLen |-> 0]

ASSUME MndpAssumption ==
  /\ Announcements \subseteq Seq([type : Nat, val : Seq(Nat)])
  /\ {minPacketLen, maxPacketBuf, mndpMaxStringLen, Slice, QueueCap}
       \subseteq Nat \ {0}
  /\ minPacketLen >= headerLen
  /\ Timeouts \subseteq Int /\ MaxArrivals \in Nat /\ Cuts \subseteq Nat
  /\ Events \subseteq {"bindErr", "readErr", "cancel", "outErr"}

VARIABLES
  pc,         \* execMndp and, inside it, Discover
  timeout,    \* -t
  deadline,
  readDeadline,
  seen,       \* MAC -> neighbour
  result,     \* what Discover returned
  code,       \* exit code of the command
  output,     \* the neighbours it printed
  queue,      \* the socket's receive buffer
  now,
  cancelledAt,\* when the context was cancelled, or -1
  arrivals,
  heard,      \* history: the datagrams Discover has read
  failed      \* history: the socket or the channel has failed

vars == <<pc, timeout, deadline, readDeadline, seen, result, code, output,
          queue, now, cancelledAt, arrivals, heard, failed>>

Init ==
  /\ pc = "exec" /\ timeout = 0 /\ deadline = 0 /\ readDeadline = 0
  /\ seen = << >> /\ result = << >> /\ code = -1 /\ output = << >>
  /\ queue = << >> /\ now = 0 /\ cancelledAt = -1 /\ arrivals = 0
  /\ heard = << >> /\ failed = FALSE

----------------------------------------------------------------------------
(* ParsePacket.                                                            *)

emptyPacket == [ok |-> TRUE, mac |-> NoMAC, identity |-> << >>, uptime |-> 0]

clipString(b) ==
  IF Len(b) >= mndpMaxStringLen THEN SubSeq(b, 1, mndpMaxStringLen - 1) ELSE b

\* The uptime is little-endian, unlike everything else.
littleEndian(b) == b[1] + Word * b[2]

\* One attribute stored in the packet; unknown and short ones are skipped.
setAttr(pkt, attr) ==
  LET val == attr.val IN
  CASE attr.type = attrAddress /\ Len(val) >= macLen ->
         [pkt EXCEPT !.mac = SubSeq(val, 1, macLen)]
    [] attr.type = attrIdentity ->
         [pkt EXCEPT !.identity = clipString(val)]
    [] attr.type = attrTimestamp /\ Len(val) >= uptimeLen ->
         [pkt EXCEPT !.uptime = littleEndian(val)]
    [] OTHER -> pkt

\* One turn of the loop, which has read the first off words; it stops at the
\* end and at an attribute whose value is cut off.
nextAttr(buf, at) ==
  LET ln == buf[at.off + attrHeaderLen]
      v  == at.off + attrHeaderLen
  IN  IF Len(buf) - at.off < attrHeaderLen \/ ln > Len(buf) - v THEN at
      ELSE [off |-> v + ln,
            pkt |-> setAttr(at.pkt, [type |-> buf[at.off + 1],
                                     val  |-> SubSeq(buf, v + 1, v + ln)])]

ErrShortPacket == [ok |-> FALSE]

\* Each turn reads a word or is the last, so Len(buf) turns are enough.
ParsePacket(buf) ==
  LET after[k \in 0 .. Len(buf)] ==
        IF k = 0 THEN [off |-> headerLen, pkt |-> emptyPacket]
        ELSE nextAttr(buf, after[k - 1])
  IN  IF Len(buf) < minPacketLen THEN ErrShortPacket ELSE after[Len(buf)].pkt

packetToNeighbor(pkt, src) ==
  [mac |-> pkt.mac, identity |-> pkt.identity, uptime |-> pkt.uptime,
   ip |-> src]

macLess(a, b) ==
  \E i \in 1 .. macLen : a[i] < b[i] /\ \A j \in 1 .. i - 1 : a[j] = b[j]

\* The members of S in the order of their addresses.
sortedByMac(S) ==
  CHOOSE s \in [1 .. Cardinality(S) -> S] :
    /\ Range(s) = S
    /\ \A i, j \in 1 .. Cardinality(S) : i < j => macLess(s[i].mac, s[j].mac)

\* Mutant: nothing is returned unless the window has expired.
collectNeighborsLate(tbl) ==
  sortedByMac({tbl[m] : m \in IF now < deadline THEN {} ELSE DOMAIN tbl})

collectNeighbors(tbl) == sortedByMac({tbl[m] : m \in DOMAIN tbl})

----------------------------------------------------------------------------
(* execMndp and Discover.                                                  *)

netVars == <<queue, now, cancelledAt, arrivals>>

\* Bad flags or a timeout that is not positive end the command at once.
execMndp ==
  /\ pc = "exec"
  /\ \/ \E t \in Timeouts :
          IF t <= 0 THEN pc' = "exit" /\ code' = 2 /\ UNCHANGED timeout
                    ELSE pc' = "listen" /\ timeout' = t /\ UNCHANGED code
     \/ pc' = "exit" /\ code' = 2 /\ UNCHANGED timeout
  /\ UNCHANGED <<deadline, readDeadline, seen, result, output, netVars, heard,
                 failed>>

\* Binding the socket, the best-effort SOLICIT, and the start of the window.
openListener ==
  /\ pc = "listen"
  /\ \/ pc' = "top" /\ deadline' = now + timeout /\ UNCHANGED <<code, failed>>
     \/ /\ "bindErr" \in Events
        /\ pc' = "exit" /\ code' = 1 /\ failed' = TRUE /\ UNCHANGED deadline
  /\ UNCHANGED <<timeout, readDeadline, seen, result, output, netVars, heard>>

return == pc' = "print" /\ result' = collectNeighbors(seen)

\* Mutant: the context is not looked at.
topBlind ==
  /\ pc = "top"
  /\ IF now < deadline
       THEN /\ pc' = "read" /\ UNCHANGED result
            /\ readDeadline' = Min({now + Slice, deadline})
       ELSE return /\ UNCHANGED readDeadline
  /\ UNCHANGED <<timeout, deadline, seen, code, output, netVars, heard, failed>>

\* The head of Discover's loop.
top ==
  /\ pc = "top"
  /\ IF now < deadline /\ cancelledAt = -1
       THEN /\ pc' = "read" /\ UNCHANGED result
            /\ readDeadline' = Min({now + Slice, deadline})
       ELSE return /\ UNCHANGED readDeadline
  /\ UNCHANGED <<timeout, deadline, seen, code, output, netVars, heard, failed>>

\* The entry of a device in the table, new or replaced.
store(tbl, n) ==
  [m \in DOMAIN tbl \cup {n.mac} |-> IF m = n.mac THEN n ELSE tbl[m]]

\* Mutant: the first announcement of a device is kept.
learnOnce(pkt, src) ==
  IF pkt.ok /\ pkt.mac # NoMAC /\ pkt.mac \notin DOMAIN seen
    THEN store(seen, packetToNeighbor(pkt, src))
    ELSE seen

\* Mutant: an announcement without an address is a neighbour.
learnNameless(pkt, src) ==
  IF pkt.ok THEN store(seen, packetToNeighbor(pkt, src)) ELSE seen

\* A datagram too short or without a MAC is skipped; any other replaces what
\* was known of the device.
learn(pkt, src) ==
  IF pkt.ok /\ pkt.mac # NoMAC
    THEN store(seen, packetToNeighbor(pkt, src))
    ELSE seen

\* ReadFromUDP keeps what fits into the buffer.
ReadFromUDP ==
  /\ pc = "read" /\ queue # << >>
  /\ LET d   == Head(queue)
         buf == SubSeq(d.words, 1, Min({Len(d.words), maxPacketBuf}))
     IN  /\ seen' = learn(ParsePacket(buf), d.src)
         /\ heard' = Append(heard, d)
  /\ queue' = Tail(queue)
  /\ pc' = "top"
  /\ UNCHANGED <<timeout, deadline, readDeadline, result, code, output, now,
                 cancelledAt, arrivals, failed>>

\* Mutant: after a timeout the read is tried again at once.
ReadTimeoutAgain ==
  /\ pc = "read" /\ now >= readDeadline
  /\ UNCHANGED vars

ReadTimeout ==
  /\ pc = "read" /\ now >= readDeadline
  /\ pc' = "top"
  /\ UNCHANGED <<timeout, deadline, readDeadline, seen, result, code, output,
                 netVars, heard, failed>>

\* Any other read error: Discover returns what it has with the error, and the
\* command prints only the error.
ReadError ==
  /\ pc = "read" /\ "readErr" \in Events
  /\ pc' = "exit" /\ code' = 1 /\ failed' = TRUE
  /\ result' = collectNeighbors(seen)
  /\ UNCHANGED <<timeout, deadline, readDeadline, seen, output, netVars, heard>>

\* Printing; only the JSON encoder reports a channel that has failed.
PrintNeighbors ==
  /\ pc = "print"
  /\ \/ code' = 0 /\ output' = result /\ UNCHANGED failed
     \/ /\ "outErr" \in Events
        /\ code' \in {0, 1} /\ failed' = TRUE /\ UNCHANGED output
  /\ pc' = "exit"
  /\ UNCHANGED <<timeout, deadline, readDeadline, seen, result, netVars, heard>>

----------------------------------------------------------------------------
(* The environment: devices, the kernel's socket buffer, the clock and the *)
(* context.                                                                *)

envUnchanged == UNCHANGED <<pc, timeout, deadline, readDeadline, seen, result,
                            code, output, heard, failed>>

\* How a device encodes its announcement.
Encode(attrs) ==
  <<1, 0>> \o FlattenSeq([i \in 1 .. Len(attrs) |->
                 <<attrs[i].type, Len(attrs[i].val)>> \o attrs[i].val])

\* A datagram, possibly cut short; a full buffer drops it.
Arrive ==
  /\ pc \in {"top", "read"} /\ arrivals < MaxArrivals
  /\ arrivals' = arrivals + 1
  /\ \E a \in Announcements, n \in Cuts, ip \in IPs :
       /\ n <= Len(Encode(a))
       /\ queue' = IF Len(queue) < QueueCap
                     THEN Append(queue, [attrs |-> a, src |-> ip,
                                         words |-> SubSeq(Encode(a), 1, n)])
                     ELSE queue
  /\ UNCHANGED <<now, cancelledAt>> /\ envUnchanged

Tick ==
  /\ pc = "read" /\ now < readDeadline
  /\ now' = now + 1
  /\ UNCHANGED <<queue, cancelledAt, arrivals>> /\ envUnchanged

CancelCtx ==
  /\ "cancel" \in Events /\ pc # "exit" /\ cancelledAt = -1
  /\ cancelledAt' = now
  /\ UNCHANGED <<queue, now, arrivals>> /\ envUnchanged

Finished == pc = "exit" /\ UNCHANGED vars

Next ==
  \/ execMndp \/ openListener \/ top \/ ReadFromUDP \/ ReadTimeout \/ ReadError
  \/ PrintNeighbors \/ Arrive \/ Tick \/ CancelCtx \/ Finished

Spec == Init /\ [][Next]_vars

\* The goroutine runs, its read deadline fires and time passes.
Fairness ==
  /\ WF_vars(execMndp) /\ WF_vars(openListener) /\ WF_vars(top)
  /\ WF_vars(ReadTimeout) /\ WF_vars(PrintNeighbors) /\ WF_vars(Tick)

FairSpec == Spec /\ Fairness

----------------------------------------------------------------------------
(* Properties.                                                             *)

\* Every variable has its type, and the table is keyed by the neighbours' MACs.
MndpTypeOK ==
  /\ pc \in {"exec", "listen", "top", "read", "print", "exit"}
  /\ {timeout, deadline, readDeadline, now, arrivals} \subseteq Nat
  /\ cancelledAt \in -1 .. now /\ code \in -1 .. 2 /\ failed \in BOOLEAN
  /\ Len(queue) <= QueueCap /\ Len(heard) <= MaxArrivals
  /\ \A m \in DOMAIN seen : m # NoMAC /\ seen[m].mac = m

\* What a datagram says, defined on the announcement instead of its encoding:
\* the attributes that arrived whole count, the last of each type wins.
Arrived(d) == Min({Len(d.words), maxPacketBuf})

Whole(d) ==
  Max({0} \cup {n \in 1 .. Len(d.attrs) :
                  Len(Encode(SubSeq(d.attrs, 1, n))) <= Arrived(d)})

LastOf(d, type, len) ==
  Max({0} \cup {i \in 1 .. Whole(d) : /\ d.attrs[i].type = type
                                      /\ Len(d.attrs[i].val) >= len})

Says(d) ==
  LET a == LastOf(d, attrAddress, macLen)
      n == LastOf(d, attrIdentity, 0)
      u == LastOf(d, attrTimestamp, uptimeLen)
  IN [mac |-> IF a = 0 THEN NoMAC ELSE SubSeq(d.attrs[a].val, 1, macLen),
      identity |-> IF n = 0 THEN << >>
                   ELSE LET v == d.attrs[n].val IN
                        SubSeq(v, 1, Min({Len(v), mndpMaxStringLen - 1})),
      uptime |-> IF u = 0 THEN 0
                 ELSE d.attrs[u].val[1] + Word * d.attrs[u].val[2],
      ip |-> d.src]

Useful == {i \in 1 .. Len(heard) : /\ Arrived(heard[i]) >= minPacketLen
                                   /\ Says(heard[i]).mac # NoMAC}

\* The neighbours a listener should know: for each MAC heard, its latest word.
Known ==
  {Says(heard[i]) : i \in {j \in Useful :
      \A k \in Useful : k > j => Says(heard[k]).mac # Says(heard[j]).mac}}

\* "one Neighbor entry per unique MAC seen" (Discover): whatever arrives, cut
\* wherever it may be, the table holds every device heard and its last words.
LatestPerDevice == {seen[m] : m \in DOMAIN seen} = Known

\* "The function returns when the timeout elapses or ctx is canceled, whichever
\* comes first": it never listens past the window, nor more than one read
\* deadline past a cancellation.
EndsOnTime ==
  pc \in {"top", "read"} =>
    /\ now <= deadline
    /\ cancelledAt # -1 => now <= cancelledAt + Slice

\* "Partial results gathered before cancellation are returned with a nil
\* error": a command that met no failure prints all it knows, by MAC.
PrintsAllKnown ==
  pc = "exit" /\ code # 2 /\ ~failed =>
    /\ code = 0 /\ Range(output) = Known
    /\ \A i \in 1 .. Len(output) - 1 : macLess(output[i].mac, output[i + 1].mac)

\* The command ends, also when the segment is silent.
DiscoverReturns == <>(pc = "exit")

=============================================================================

--------------------------------- MODULE Seq ---------------------------------
(***************************************************************************)
(* The sequencing primitives of internal/mactelnet/seq.go.                 *)
(*                                                                         *)
(* MAC-Telnet is stop-and-wait over datagrams: a DATA packet carries a     *)
(* byte-offset counter, the receiver answers with an ACK whose counter is  *)
(* that offset plus the payload length, and a receiver recognises          *)
(* retransmissions by comparing counters.  Counters are uint32: Mod stands *)
(* for 2^32 and Window for 65535.                                          *)
(***************************************************************************)
EXTENDS Integers

CONSTANTS Mod,      \* number of counter values (2^32 in the code)
          Window    \* largest backwards jump taken for a retransmission (65535)

ASSUME SeqAssumption ==
  /\ Mod \in Nat
  /\ Window \in Nat
  /\ Window < Mod

Counter == 0 .. (Mod - 1)

\* The receive half of the counters struct: `in` and `inSeen`.
InCounters == [in : Counter, inSeen : BOOLEAN]

NothingSeen == [in |-> 0, inSeen |-> FALSE]

\* reserveOut puts the value before the bump on the wire; this is the bump.
reserveOut(out, n) == (out + n) % Mod

\* Counter of the ACK that answers `payloadLen` bytes starting at `seq`.
ackCounterFor(seq, payloadLen) == (seq + payloadLen) % Mod

(***************************************************************************)
(* acceptIncoming's verdict: the first packet, a higher counter, or a      *)
(* backwards jump too long for a retransmission.  The uint32 subtraction   *)
(* of the third clause is reached only when seq <= c.in, where it is the   *)
(* integer one.                                                            *)
(***************************************************************************)
acceptIncoming(c, seq) ==
  \/ ~c.inSeen
  \/ seq > c.in
  \/ c.in - seq > Window

\* The counters after acceptIncoming: the mark moves exactly when it accepts.
markIncoming(c, seq) ==
  IF acceptIncoming(c, seq) THEN [in |-> seq, inSeen |-> TRUE] ELSE c

=============================================================================

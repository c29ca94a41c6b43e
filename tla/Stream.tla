------------------------------- MODULE Stream -------------------------------
(***************************************************************************)
(* What Write and Resize promise their callers, without counters, ACKs,    *)
(* timers or goroutines: payloads are numbered as they are submitted, one  *)
(* is pending at a time, the device takes a payload at most once and never *)
(* after a later one, and a call succeeds only for a payload it has taken. *)
(* A call that gives up says nothing: its payload may be lost, taken       *)
(* already, or still taken before the next one is.                         *)
(***************************************************************************)
EXTENDS Naturals, Sequences

VARIABLES submitted,  \* how many payloads were submitted
          pending,    \* the payload a caller waits for, 0 if none
          taken,      \* the payloads the device took, in order
          confirmed   \* the payloads whose call succeeded

streamVars == <<submitted, pending, taken, confirmed>>

TakenSet == {taken[k] : k \in 1 .. Len(taken)}

StreamInit ==
  /\ submitted = 0
  /\ pending = 0
  /\ taken = << >>
  /\ confirmed = {}

Submit ==
  /\ pending = 0
  /\ submitted' = submitted + 1
  /\ pending' = submitted + 1
  /\ UNCHANGED <<taken, confirmed>>

Take ==
  /\ \E i \in 1 .. submitted :
       /\ \A k \in 1 .. Len(taken) : taken[k] < i
       /\ taken' = Append(taken, i)
  /\ UNCHANGED <<submitted, pending, confirmed>>

Confirm ==
  /\ pending # 0 /\ pending \in TakenSet
  /\ confirmed' = confirmed \cup {pending}
  /\ pending' = 0
  /\ UNCHANGED <<submitted, taken>>

GiveUp ==
  /\ pending # 0
  /\ pending' = 0
  /\ UNCHANGED <<submitted, taken, confirmed>>

StreamNext == Submit \/ Take \/ Confirm \/ GiveUp

StreamSpec == StreamInit /\ [][StreamNext]_streamVars

=============================================================================

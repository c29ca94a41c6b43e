------------------------------ MODULE MCSockets ------------------------------
(***************************************************************************)
(* Instances of Sockets for TLC.                                           *)
(***************************************************************************)
EXTENDS Sockets

Same(v) == [s \in Sessions |-> v]

\* Tagged or untagged; two sends.
EitherVlan == {Same(0), Same(7)}
TwoSends   == Same(2)

\* The session's key in its VLAN and in others, and other keys in all of them.
Neighbourhood == {[vlan |-> v, key |-> k] : v \in {0, 7, 8}, k \in {1, 2}}

=============================================================================

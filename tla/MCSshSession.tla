---------------------------- MODULE MCSshSession ----------------------------
(***************************************************************************)
(* Instances of SshSession for TLC: what the client types.                 *)
(***************************************************************************)
EXTENDS SshSession

\* An edited password whose CR and LF come in different packets, then input.
TwoPackets == <<<<"s", "BS", "CTL", "s", "CR">>, <<"LF", "a", "b">>>>

\* A password and a paste longer than WriteLimit.
Paste == <<<<"s", "CR">>, <<"a", "b", "c">>>>

=============================================================================

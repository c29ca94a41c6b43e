----------------------------- MODULE MCSession -----------------------------
(***************************************************************************)
(* Instances of Session for TLC: what the device sends.                    *)
(***************************************************************************)
EXTENDS Session, TLC

EndAuthRec == [cp |-> EndAuth, body |-> 0]
Plain(n)   == [cp |-> PlainData, body |-> n]
Control    == [cp |-> OtherCtl, body |-> 0]

\* END_AUTH alone, then terminal data.
EndAuthOnly == <<EndAuthRec>>
NoScript    == << >>
ScriptTwo   == <<<<Plain(1)>>, <<Control, Plain(2)>>>>

\* Terminal data in the END_AUTH packet, and one control record more than
\* controlCh holds when CtlCap is 1.
EndAuthMore == <<EndAuthRec, Control, Plain(1)>>
ScriptWedge == <<<<Control>>>>

WriterSymmetry == Permutations(Writers)

=============================================================================

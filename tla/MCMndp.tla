------------------------------- MODULE MCMndp -------------------------------
(* Announcements for TLC: two devices, one that changes its name, one name  *)
(* as long as the limit, one announcement without an address and one with  *)
(* an address twice and a short one.                                       *)
EXTENDS Mndp

Address(m)  == [type |-> attrAddress, val |-> <<0, 0, m>>]
Identity(v) == [type |-> attrIdentity, val |-> v]
Uptime(l,h) == [type |-> attrTimestamp, val |-> <<l, h>>]
Unknown     == [type |-> 14, val |-> <<1>>]

MCAnnouncements ==
  {<<Address(1), Identity(<<7>>)>>,
   <<Address(1), Identity(<<8, 8, 8>>), Uptime(5, 1)>>,
   <<Unknown, Address(2), Uptime(2, 0)>>,
   <<Identity(<<9>>), Uptime(3, 3)>>,
   <<Address(2), [type |-> attrAddress, val |-> <<4>>],
     [type |-> attrTimestamp, val |-> <<4>>]>>}
=============================================================================

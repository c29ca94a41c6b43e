----------------------------- MODULE MCHandshake -----------------------------
(***************************************************************************)
(* Handshake on the curve y^2 = x^3 + 30x + 30 over GF(101), the           *)
(* Weierstrass form of y^2 = x^3 + 32x^2 + x: order 104, its generator's   *)
(* 13.  Keys and salts are shortened to 2 bytes and 1.                     *)
(***************************************************************************)
EXTENDS Handshake

ToySha(v) == (v * v + 7 * v + 3) % 89
ToyMd5(v) == (5 * v + 11) % 251

\* A short name, one that only the first payload has room for, and
\* one that neither has.
SomeUsers == {<<97>>, [i \in 1 .. 6 |-> 97], [i \in 1 .. 40 |-> 97]}
Right == <<114>>
SomePasswords == {Right, <<119>>}
SomeSalts == {<<7>>}
SomeJunk == {<<1, 0>>, <<99, 2>>}

ToyMultiples == [i \in 0 .. (n - 1) |-> IF i = 0 THEN Infinity ELSE scalarMult(i, generator)]

\* What the proof about RightPasswordAccepted takes from mathematics holds here.
ASSUME ToyFieldLaw   == FieldLaw
ASSUME ToyGroupLaw   == GroupLaw(ToyMultiples)
ASSUME ToyTangleEnds == TangleEnds

=============================================================================

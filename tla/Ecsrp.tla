-------------------------------- MODULE Ecsrp --------------------------------
(***************************************************************************)
(* The EC-SRP arithmetic of internal/mactelnet/mtwei.go, over any curve    *)
(* y^2 = x^3 + a*x + b on GF(p): the code's is Curve25519, the runs use a  *)
(* small curve of the same shape (Montgomery form, cofactor 8).            *)
(*                                                                         *)
(* The digest is a parameter.  A point at infinity has nil coordinates,    *)
(* and using a nil coordinate panics: Panic is that outcome, and it is     *)
(* absorbing.                                                              *)
(***************************************************************************)
EXTENDS Integers

CONSTANTS p, a, b,       \* the field prime and the curve
          gx, gy, n,     \* the generator and its order
          w2m, m2w,      \* offsets between the two forms' x-coordinates
          Sha256(_)      \* the digest of a number

ASSUME EcsrpAssumption ==
  /\ p \in Nat /\ p > 3
  /\ {a, b, gx, gy, w2m, m2w} \subseteq 0 .. (p - 1)
  /\ n \in Nat \ {0}
  /\ (w2m + m2w) % p = 0
  /\ (gy * gy) % p = (gx * gx * gx + a * gx + b) % p

Nil == -1
Affine(x, y) == [X |-> x, Y |-> y, Inf |-> FALSE]
Infinity     == [X |-> Nil, Y |-> Nil, Inf |-> TRUE]
Panic        == [X |-> Nil - 1, Y |-> Nil - 1, Inf |-> TRUE]

generator == Affine(gx, gy)

\* big.Int.ModInverse: nil unless d is invertible.
Invertible(d) == d % p # 0
ModInverse(d) == CHOOSE i \in 1 .. (p - 1) : (d * i) % p = 1

\* The third intersection of the line of slope lam through p1 and p2, mirrored.
chord(lam, p1, p2) ==
  LET rx == (lam * lam - p1.X - p2.X) % p
  IN  Affine(rx, ((p1.X - rx) * lam - p1.Y) % p)

double(pt) ==
  IF pt = Panic THEN Panic
  ELSE IF pt.Inf \/ pt.Y = 0 \/ ~Invertible(2 * pt.Y) THEN Infinity
  ELSE chord(((3 * pt.X * pt.X + a) * ModInverse(2 * pt.Y)) % p, pt, pt)

\* The sum of two infinities copies a nil coordinate.
add(p1, p2) ==
  IF Panic \in {p1, p2} \/ (p1.Inf /\ p2.Inf) THEN Panic
  ELSE IF p1.Inf THEN p2
  ELSE IF p2.Inf THEN p1
  ELSE IF p1.X = p2.X THEN IF p1.Y = p2.Y THEN double(p1) ELSE Infinity
  ELSE IF ~Invertible(p2.X - p1.X) THEN Infinity
  ELSE chord(((p2.Y - p1.Y) * ModInverse(p2.X - p1.X)) % p, p1, p2)

\* One turn of scalarMult: the lowest of the bits that are left.
nextBit(s) ==
  IF s.bits = 0 THEN s
  ELSE [bits |-> s.bits \div 2,
        res  |-> IF s.bits % 2 = 1 THEN add(s.res, s.cur) ELSE s.res,
        cur  |-> double(s.cur)]

\* Double-and-add from the lowest bit; copying pt needs its coordinates.  Each
\* turn halves what is left of k, so k turns are enough.
scalarMult(k, pt) ==
  LET after[i \in 0 .. k] ==
        IF i = 0 THEN [bits |-> k, res |-> Infinity, cur |-> pt]
        ELSE nextBit(after[i - 1])
  IN  IF pt.Inf THEN Panic ELSE after[k].res

\* The right-hand side of the curve equation, and its square roots.
Rhs(x)   == (x * x * x + a * x + b) % p
Roots(x) == {y \in 0 .. (p - 1) : (y * y) % p = Rhs(x)}

\* The point with this x and y-parity, Infinity standing for "not on the
\* curve".  The root 0 has the parity 1 as p - 0, which is not reduced.
liftX(x, yParity) ==
  IF Roots(x) = {} THEN Infinity
  ELSE LET y == CHOOSE r \in Roots(x) : TRUE
       IN  Affine(x, IF y % 2 = yParity THEN y ELSE p - y)

\* The first candidate from the seed on that lies on the curve.
candidate(edpx) == (Sha256(edpx) + m2w) % p
firstOnCurve(seed) ==
  CHOOSE e \in seed .. (seed + p * p) :
    /\ Roots(candidate(e)) # {}
    /\ \A f \in seed .. (e - 1) : Roots(candidate(f)) = {}

\* target with the validator's point folded in, or out when negate is 1.
tangle(target, v, negate) ==
  LET valPt == scalarMult(v, generator)
      seed  == Sha256((valPt.X + w2m) % p)
  IN  IF valPt.Inf THEN Panic
      ELSE add(target, liftX(candidate(firstOnCurve(seed)), negate))

NoValidator == -1

\* The public key: the Montgomery x and the parity of y.
compress(pub) == IF pub.Inf THEN Panic ELSE [x |-> (pub.X + w2m) % p, parity |-> pub.Y % 2]

keygen(priv, validator) ==
  LET pub == scalarMult(priv, generator)
  IN  compress(IF validator = NoValidator THEN pub ELSE tangle(pub, validator, 0))

\* h: the digest of both keys without their parity bytes.
keyHash(clientKey, serverKey) == Sha256(clientKey.x * p + serverKey.x)

secret(h, pt) == IF pt.Inf THEN Panic ELSE [h |-> h, z |-> (pt.X + w2m) % p]

NotOnCurve == Infinity

\* Mutant: the parity byte of the device's key is not looked at.
docryptoAnyParity(priv, serverKey, clientKey, validator) ==
  LET serverPub == liftX((serverKey.x + m2w) % p, 0)
      blinded   == tangle(serverPub, validator, 1)
      h         == keyHash(clientKey, serverKey)
      vh        == (((validator * h) % n) + priv) % n
  IN  IF serverPub = Infinity THEN NotOnCurve
      ELSE IF blinded.Inf THEN Panic
      ELSE secret(h, scalarMult(vh, blinded))

\* The client's answer, NotOnCurve and a panic being its two failures.
docrypto(priv, serverKey, clientKey, validator) ==
  LET serverPub == liftX((serverKey.x + m2w) % p, serverKey.parity)
      blinded   == tangle(serverPub, validator, 1)
      h         == keyHash(clientKey, serverKey)
      vh        == (((validator * h) % n) + priv) % n
  IN  IF serverPub = Infinity THEN NotOnCurve
      ELSE IF blinded.Inf THEN Panic
      ELSE secret(h, scalarMult(vh, blinded))

----------------------------------------------------------------------------
(* What mathematics says of the curve.  The code relies on it and cannot   *)
(* see it.                                                                 *)

Coords == 0 .. (p - 1)
Curve  == {Infinity} \cup
          {Affine(q[1], q[2]) : q \in {r \in Coords \X Coords : (r[2] * r[2]) % p = Rhs(r[1])}}

\* add as an operation on all of the curve.
plus(P, Q) == IF P = Infinity /\ Q = Infinity THEN Infinity ELSE add(P, Q)

\* p is an odd prime: inverses exist, and a number has two roots at most.
FieldLaw ==
  /\ p % 2 = 1
  /\ \A d \in Coords \ {0} : \E i \in Coords : (d * i) % p = 1
  /\ \A y, z \in Coords : (y * y) % p = (z * z) % p => y = z \/ y + z = p

\* n is an odd prime and M lists the n multiples of the generator.  It goes
\* round the group one generator at a time and meets Infinity only at 0; adding
\* to a multiple stays on the curve and is associative.
GroupLaw(M) ==
  /\ n % 2 = 1 /\ \A i, j \in 1 .. (n - 1) : (i * j) % n # 0
  /\ M \in [0 .. (n - 1) -> Curve]
  /\ \A i \in 0 .. (n - 1) : M[i] = Infinity <=> i = 0
  /\ \A i \in 0 .. (n - 1) : plus(M[i], generator) = M[(i + 1) % n]
  /\ \A i \in 0 .. (n - 1), Q, R \in Curve :
       /\ plus(M[i], Q) \in Curve
       /\ plus(plus(M[i], Q), R) = plus(M[i], plus(Q, R))

\* From every digest on, tangle finds a candidate that lies on the curve.
TangleEnds ==
  \A seed \in {Sha256(x) : x \in Coords} :
    \E e \in seed .. (seed + p * p) : Roots(candidate(e)) # {}

=============================================================================

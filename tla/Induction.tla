------------------------------- MODULE Induction -------------------------------
(***************************************************************************)
(* Induction over the naturals in the form the provers can use, with sets  *)
(* in place of the library's operator parameters, and what it gives for    *)
(* the concatenation of a sequence of sequences.                           *)
(***************************************************************************)
EXTENDS Integers, SequencesExt, WellFoundedInduction, TLAPS

\* Every nonempty set of naturals has a least member.
LEMMA Least ==
  ASSUME NEW T \in SUBSET Nat, T # {}
  PROVE  \E x \in T : \A y \in T : x <= y
<1>1. PICK R : R = OpToRel(<, Nat)
  OBVIOUS
<1>2. \A x, y \in Nat : <<x, y>> \in R <=> x < y
  BY <1>1 DEF OpToRel
<1>3. IsWellFoundedOn(R, Nat)
  BY <1>1, NatLessThanWellFounded
<1>4. PICK x \in T : \A y \in T : ~(<<y, x>> \in R)
  BY <1>3, WFMin
<1>5. ASSUME NEW y \in T
      PROVE  x <= y
  <2>1. x \in Nat /\ y \in Nat /\ ~(y < x)
    BY <1>2, <1>4
  <2> QED BY <2>1
<1> QED BY <1>5

\* A set of naturals with 0 and every successor of a member is all of them.
LEMMA SetInduction ==
  ASSUME NEW S \in SUBSET Nat, 0 \in S, \A k \in S : k + 1 \in S
  PROVE  S = Nat
<1> SUFFICES ASSUME S # Nat PROVE FALSE
  OBVIOUS
<1>1. Nat \ S \in SUBSET Nat /\ Nat \ S # {}
  OBVIOUS
<1>2. PICK x \in Nat \ S : \A y \in Nat \ S : x <= y
  BY <1>1, Least
<1>3. x # 0 /\ x - 1 \in Nat /\ ~(x <= x - 1)
  BY <1>2
<1>4. x - 1 \in S
  BY <1>2, <1>3
<1> QED BY <1>4, <1>3

----------------------------------------------------------------------------
(* Sequences, index by index.                                              *)

LEMMA ConcatIs ==
  ASSUME NEW A, NEW s \in Seq(A), NEW t \in Seq(A)
  PROVE  /\ s \o t \in Seq(A) /\ Len(s) \in Nat /\ Len(t) \in Nat
         /\ Len(s \o t) = Len(s) + Len(t)
         /\ \A i \in 1 .. Len(s) : (s \o t)[i] = s[i]
         /\ \A i \in 1 .. Len(t) : (s \o t)[Len(s) + i] = t[i]
<1>1. /\ s \o t \in Seq(A) /\ Len(s) \in Nat /\ Len(t) \in Nat
      /\ Len(s \o t) = Len(s) + Len(t)
  OBVIOUS
<1>2. \A i \in 1 .. Len(s) : (s \o t)[i] = s[i]
  OBVIOUS
<1>3. ASSUME NEW i \in 1 .. Len(t)
      PROVE  (s \o t)[Len(s) + i] = t[i]
  BY <1>1
<1> QED BY <1>1, <1>2, <1>3

LEMMA PieceIs ==
  ASSUME NEW A, NEW s \in Seq(A), NEW c \in Nat, NEW l \in Nat, c + l <= Len(s)
  PROVE  /\ SubSeq(s, c + 1, c + l) \in Seq(A)
         /\ Len(SubSeq(s, c + 1, c + l)) = l
         /\ \A i \in 1 .. l : SubSeq(s, c + 1, c + l)[i] = s[c + i]
OBVIOUS

----------------------------------------------------------------------------
(* Concatenations.                                                         *)

\* f[i] is the concatenation of the first i members of q.
Concats(f, q) ==
  f[0] = << >> /\ \A i \in 1 .. Len(q) : f[i] = f[i - 1] \o q[i]

HasConcats(q, A, k) ==
  \E f \in [0 .. k -> Seq(A)] :
    f[0] = << >> /\ \A i \in 1 .. k : f[i] = f[i - 1] \o q[i]

LEMMA ConcatsExist ==
  ASSUME NEW A, NEW q \in Seq(Seq(A))
  PROVE  \E f \in [0 .. Len(q) -> Seq(A)] : Concats(f, q)
<1> DEFINE S == {k \in Nat : k <= Len(q) => HasConcats(q, A, k)}
<1>0. Len(q) \in Nat /\ \A i \in 1 .. Len(q) : q[i] \in Seq(A)
  OBVIOUS
<1>1. 0 \in S
  <2>1. << >> \in Seq(A)
    OBVIOUS
  <2>2. [i \in 0 .. 0 |-> << >>] \in [0 .. 0 -> Seq(A)]
    BY <2>1
  <2>3. [i \in 0 .. 0 |-> << >>][0] = << >> /\ 1 .. 0 = {}
    OBVIOUS
  <2> QED BY <2>2, <2>3 DEF HasConcats
<1>2. ASSUME NEW k \in S PROVE k + 1 \in S
  <2>0. k \in Nat
    OBVIOUS
  <2> SUFFICES ASSUME k + 1 <= Len(q)
               PROVE  HasConcats(q, A, k + 1)
    BY <2>0
  <2>1. HasConcats(q, A, k)
    BY <1>0, <2>0
  <2>2. PICK f \in [0 .. k -> Seq(A)] :
          f[0] = << >> /\ \A i \in 1 .. k : f[i] = f[i - 1] \o q[i]
    BY <2>1 DEF HasConcats
  <2>3. PICK s : s = f[k] \o q[k + 1]
    OBVIOUS
  <2>4. s \in Seq(A)
    <3>1. k + 1 \in 1 .. Len(q) /\ k \in 0 .. k
      BY <1>0, <2>0
    <3>2. f[k] \in Seq(A) /\ q[k + 1] \in Seq(A)
      BY <1>0, <2>2, <3>1
    <3> QED BY <2>3, <3>2
  <2>5. PICK g : g = [i \in 0 .. k + 1 |-> IF i = k + 1 THEN s ELSE f[i]]
    OBVIOUS
  <2>6. g \in [0 .. k + 1 -> Seq(A)]
    <3>1. ASSUME NEW i \in 0 .. k + 1
          PROVE  (IF i = k + 1 THEN s ELSE f[i]) \in Seq(A)
      <4>1. i # k + 1 => i \in 0 .. k
        BY <2>0
      <4> QED BY <2>4, <4>1
    <3> QED BY <2>5, <3>1
  <2>7. g[0] = << >>
    BY <2>0, <2>2, <2>5
  <2>8. ASSUME NEW i \in 1 .. k + 1
        PROVE  g[i] = g[i - 1] \o q[i]
    <3>1. i \in 0 .. k + 1 /\ i - 1 \in 0 .. k + 1 /\ i - 1 # k + 1
      BY <2>0
    <3>2. g[i - 1] = f[i - 1]
      BY <2>5, <3>1
    <3>3. CASE i = k + 1
      <4>1. g[i] = s /\ i - 1 = k
        BY <2>0, <2>5, <3>1, <3>3
      <4> QED BY <2>3, <3>2, <3>3, <4>1
    <3>4. CASE i # k + 1
      <4>1. g[i] = f[i] /\ i \in 1 .. k
        BY <2>0, <2>5, <3>1, <3>4
      <4> QED BY <2>2, <3>2, <4>1
    <3> QED BY <3>3, <3>4
  <2> QED BY <2>6, <2>7, <2>8 DEF HasConcats
<1>3. S = Nat
  <2> HIDE DEF S
  <2>1. S \in SUBSET Nat
    BY DEF S
  <2> QED BY <1>1, <1>2, <2>1, SetInduction
<1>4. HasConcats(q, A, Len(q))
  BY <1>0, <1>3
<1> QED BY <1>4 DEF HasConcats, Concats

\* A recursive function that is given by the same equations is f.
Solves(h, q) ==
  h = [i \in 0 .. Len(q) |-> IF i = 0 THEN << >> ELSE h[i - 1] \o q[i]]

LEMMA ConcatsFixed ==
  ASSUME NEW A, NEW q \in Seq(Seq(A)), NEW f, Concats(f, q), NEW h, Solves(h, q)
  PROVE  \A i \in 0 .. Len(q) : h[i] = f[i]
<1> DEFINE S == {k \in Nat : k <= Len(q) => h[k] = f[k]}
<1>0. Len(q) \in Nat
  OBVIOUS
<1>1. 0 \in S
  BY <1>0 DEF Concats, Solves
<1>2. ASSUME NEW k \in S PROVE k + 1 \in S
  <2> SUFFICES ASSUME k + 1 <= Len(q) PROVE h[k + 1] = f[k + 1]
    OBVIOUS
  <2>1. /\ k \in Nat /\ h[k] = f[k] /\ k + 1 \in 1 .. Len(q) /\ (k + 1) - 1 = k
        /\ k + 1 \in 0 .. Len(q) /\ k + 1 # 0
    BY <1>0
  <2>2. h[k + 1] = h[k] \o q[k + 1]
    BY <2>1 DEF Solves
  <2> QED BY <2>1, <2>2 DEF Concats
<1>3. S = Nat
  <2> HIDE DEF S
  <2>1. S \in SUBSET Nat
    BY DEF S
  <2> QED BY <1>1, <1>2, <2>1, SetInduction
<1>4. ASSUME NEW i \in 0 .. Len(q) PROVE h[i] = f[i]
  <2>1. i \in Nat /\ i <= Len(q)
    BY <1>0
  <2>2. i \in S
    <3> HIDE DEF S
    <3> QED BY <1>3, <2>1
  <2> QED BY <2>1, <2>2
<1> QED BY <1>4

\* And the equations have a solution, so a definition by them can be unfolded.
LEMMA ConcatsSolve ==
  ASSUME NEW A, NEW q \in Seq(Seq(A)), NEW f \in [0 .. Len(q) -> Seq(A)], Concats(f, q)
  PROVE  Solves(f, q)
<1>0. Len(q) \in Nat
  OBVIOUS
<1>1. ASSUME NEW i \in 0 .. Len(q)
      PROVE  f[i] = IF i = 0 THEN << >> ELSE f[i - 1] \o q[i]
  <2>1. i # 0 => i \in 1 .. Len(q)
    BY <1>0
  <2> QED BY <2>1 DEF Concats
<1> QED BY <1>1 DEF Solves

\* What FlattenSeq computes.
LEMMA FlattenIs ==
  ASSUME NEW A, NEW q \in Seq(Seq(A)), NEW f \in [0 .. Len(q) -> Seq(A)], Concats(f, q)
  PROVE  FlattenSeq(q) = f[Len(q)]
<1>0. Len(q) \in Nat /\ \A i \in 1 .. Len(q) : q[i] \in Seq(A)
  OBVIOUS
<1>1. CASE Len(q) = 0
  <2>1. FlattenSeq(q) = q
    BY <1>1 DEF FlattenSeq
  <2>2. q = << >>
    BY <1>1
  <2> QED BY <1>1, <2>1, <2>2 DEF Concats
<1>2. CASE Len(q) # 0
  <2> DEFINE F(g) == [i \in 1 .. Len(q) |-> IF i = 1 THEN q[i] ELSE g[i - 1] \o q[i]]
  <2>a. \A i \in 1 .. Len(q) : f[i] = f[i - 1] \o q[i]
    BY DEF Concats
  <2>b. f[0] = << >> /\ \A s \in Seq(A) : << >> \o s = s
    BY DEF Concats
  <2>1. PICK e : e = [i \in 1 .. Len(q) |-> f[i]]
    OBVIOUS
  <2>2. e = F(e)
    <3>1. ASSUME NEW i \in 1 .. Len(q)
          PROVE  f[i] = IF i = 1 THEN q[i] ELSE e[i - 1] \o q[i]
      <4>1. f[i] = f[i - 1] \o q[i] /\ q[i] \in Seq(A)
        BY <1>0, <2>a
      <4>2. i # 1 => i - 1 \in 1 .. Len(q)
        BY <1>0
      <4>3. CASE i = 1
        <5>1. f[i - 1] = << >>
          BY <2>b, <4>3
        <5> QED BY <2>b, <4>1, <4>3, <5>1
      <4>4. CASE i # 1
        BY <2>1, <4>1, <4>2, <4>4
      <4> QED BY <4>3, <4>4
    <3> QED BY <2>1, <3>1
  <2>3. PICK h : h = F(h) /\ FlattenSeq(q) = h[Len(q)]
    BY <1>2, <2>2 DEF FlattenSeq
  <2> DEFINE S == {k \in Nat : k + 1 <= Len(q) => h[k + 1] = f[k + 1]}
  <2>4. 0 \in S
    <3>1. PICK j \in 1 .. Len(q) : j = 1
      BY <1>0, <1>2
    <3>2. h[j] = q[j]
      BY <2>3, <3>1
    <3>3. f[j] = f[j - 1] \o q[j] /\ q[j] \in Seq(A)
      BY <1>0, <2>a
    <3>4. j - 1 = 0
      BY <3>1
    <3>5. h[1] = f[1]
      BY <2>b, <3>1, <3>2, <3>3, <3>4
    <3> QED BY <3>5
  <2>5. ASSUME NEW k \in S PROVE k + 1 \in S
    <3>0. k \in Nat
      OBVIOUS
    <3> SUFFICES ASSUME (k + 1) + 1 <= Len(q)
                 PROVE  h[(k + 1) + 1] = f[(k + 1) + 1]
      BY <3>0
    <3>1. /\ (k + 1) + 1 \in 1 .. Len(q) /\ (k + 1) + 1 # 1
          /\ ((k + 1) + 1) - 1 = k + 1 /\ h[k + 1] = f[k + 1]
      BY <1>0, <3>0
    <3>2. h[(k + 1) + 1] = h[k + 1] \o q[(k + 1) + 1]
      BY <2>3, <3>1
    <3> QED BY <2>a, <3>1, <3>2
  <2>6. S = Nat
    <3> HIDE DEF S
    <3>1. S \in SUBSET Nat
      BY DEF S
    <3> QED BY <2>4, <2>5, <3>1, SetInduction
  <2>m. Len(q) - 1 \in Nat
    BY <1>0, <1>2
  <2>7. PICK k \in Nat : k = Len(q) - 1
    BY <2>m
  <2>8. k \in S
    <3> HIDE DEF S
    <3> QED BY <2>6
  <2>9. k + 1 = Len(q)
    BY <1>0, <2>7
  <2>10. h[k + 1] = f[k + 1]
    BY <1>0, <2>8, <2>9
  <2> QED BY <2>3, <2>9, <2>10
<1> QED BY <1>1, <1>2

\* What is concatenated first stays first.
Extends(t, s) == Len(s) <= Len(t) /\ \A i \in 1 .. Len(s) : s[i] = t[i]

LEMMA ConcatsGrow ==
  ASSUME NEW A, NEW q \in Seq(Seq(A)), NEW f \in [0 .. Len(q) -> Seq(A)], Concats(f, q),
         NEW k \in 0 .. Len(q), NEW m \in 0 .. Len(q), k <= m
  PROVE  Extends(f[m], f[k])
<1> DEFINE Ext(s, t) == Extends(t, s)
<1> DEFINE S == {d \in Nat : k + d <= Len(q) => Ext(f[k], f[k + d])}
<1>0. Len(q) \in Nat /\ k \in Nat /\ m \in Nat /\ f[k] \in Seq(A)
  OBVIOUS
<1>1. 0 \in S
  BY <1>0 DEF Extends
<1>2. ASSUME NEW d \in S PROVE d + 1 \in S
  <2>0. d \in Nat
    OBVIOUS
  <2> SUFFICES ASSUME k + (d + 1) <= Len(q)
               PROVE  Ext(f[k], f[k + (d + 1)])
    BY <2>0
  <2>1. PICK j : j = k + d
    OBVIOUS
  <2>2. /\ j \in 0 .. Len(q) /\ j + 1 \in 1 .. Len(q) /\ (j + 1) - 1 = j
        /\ k + (d + 1) = j + 1
    BY <1>0, <2>0, <2>1
  <2>3. Ext(f[k], f[j])
    BY <1>0, <2>0, <2>1
  <2>4. f[j + 1] = f[j] \o q[j + 1]
    BY <2>2 DEF Concats
  <2>5. f[j] \in Seq(A) /\ q[j + 1] \in Seq(A)
    <3>1. f[j] \in Seq(A)
      BY <2>2
    <3>2. \A i \in 1 .. Len(q) : q[i] \in Seq(A)
      OBVIOUS
    <3> QED BY <2>2, <3>1, <3>2
  <2>6. \A s, t, u \in Seq(A) : Ext(s, t) => Ext(s, t \o u)
    BY DEF Extends
  <2> HIDE DEF Ext
  <2>7. Ext(f[k], f[j + 1])
    BY <1>0, <2>3, <2>4, <2>5, <2>6
  <2> QED BY <2>2, <2>7
<1>3. S = Nat
  <2> HIDE DEF S
  <2>1. S \in SUBSET Nat
    BY DEF S
  <2> QED BY <1>1, <1>2, <2>1, SetInduction
<1>5. Ext(f[k], f[m])
  <2>1. PICK d \in Nat : d = m - k
    BY <1>0
  <2>2. d \in S
    <3> HIDE DEF S
    <3> QED BY <1>3
  <2>3. k + d = m /\ m <= Len(q)
    BY <1>0, <2>1
  <2> HIDE DEF Ext
  <2> QED BY <2>2, <2>3
<1> QED BY <1>5

\* Where the k-th of them is in the whole.
BlockAt(f, q, k) ==
  /\ Len(q[k]) \in Nat /\ Len(f[k - 1]) \in Nat /\ Len(f[k]) \in Nat
  /\ Len(f[k]) = Len(f[k - 1]) + Len(q[k])
  /\ Len(f[k]) <= Len(f[Len(q)])
  /\ \A i \in 1 .. Len(q[k]) : f[Len(q)][Len(f[k - 1]) + i] = q[k][i]

LEMMA ConcatsAt ==
  ASSUME NEW A, NEW q \in Seq(Seq(A)), NEW f \in [0 .. Len(q) -> Seq(A)], Concats(f, q),
         NEW k \in 1 .. Len(q)
  PROVE  BlockAt(f, q, k)
<1>1. PICK e \in Seq(A), s \in Seq(A), t \in Seq(A), m \in 0 .. Len(q) :
        e = q[k] /\ s = f[k - 1] /\ m = Len(q) /\ t = f[m] /\ k \in 0 .. Len(q)
  <2>1. /\ k - 1 \in 0 .. Len(q) /\ Len(q) \in 0 .. Len(q) /\ k \in 0 .. Len(q)
        /\ q[k] \in Seq(A)
    OBVIOUS
  <2>2. f[k - 1] \in Seq(A) /\ f[Len(q)] \in Seq(A)
    BY <2>1
  <2> QED BY <2>1, <2>2
<1>2. f[k] = s \o e
  BY <1>1 DEF Concats
<1>3. Extends(t, f[k])
  <2>1. k <= m
    BY <1>1
  <2> QED BY <1>1, <2>1, ConcatsGrow
<1>4. PICK l \in Nat, c \in Nat : l = Len(e) /\ c = Len(s)
  OBVIOUS
<1>5. Len(s \o e) = c + l /\ \A i \in 1 .. l : (s \o e)[c + i] = e[i]
  BY <1>4
<1>6. \A i \in 1 .. l : t[c + i] = e[i]
  <2> SUFFICES ASSUME NEW i \in 1 .. l PROVE t[c + i] = e[i]
    OBVIOUS
  <2>1. c + i \in 1 .. c + l
    OBVIOUS
  <2> QED BY <1>2, <1>3, <1>5, <2>1 DEF Extends
<1>7. Len(f[k]) = c + l /\ Len(f[k]) <= Len(t)
  BY <1>2, <1>3, <1>5 DEF Extends
<1>8. c + l \in Nat
  OBVIOUS
<1> QED BY <1>1, <1>4, <1>6, <1>7, <1>8, Zenon DEF BlockAt

================================================================================

--------------------------- MODULE HandshakeProofs ---------------------------
(***************************************************************************)
(* The retransmit schedule spends the operator's budget, and Open returns  *)
(* in bounded time, for every budget an operator can configure.  Then the  *)
(* codec: iterateControl reads every well-formed payload, whole or cut, as *)
(* what was meant, so the device reads what the client says in both        *)
(* authentication payloads.  Last the answers: from the laws of the field  *)
(* and the group, docrypto answers as the device expects.                  *)
(***************************************************************************)
EXTENDS Handshake, Induction, TLAPS

----------------------------------------------------------------------------
(* Sums.  Sum is a recursive function; what it computes is the last of the *)
(* sums of the sequence's prefixes.                                        *)

\* f[i] is the sum of the first i members of s, up to the k-th.
PrefixSums(f, s, k) ==
  f[0] = 0 /\ \A i \in 1 .. k : f[i] = f[i - 1] + s[i]

HasSums(s, k) == \E f \in [0 .. k -> Nat] : PrefixSums(f, s, k)

LEMMA SumsExist ==
  ASSUME NEW s \in Seq(Nat)
  PROVE  HasSums(s, Len(s))
<1> DEFINE S == {k \in Nat : k <= Len(s) => HasSums(s, k)}
<1>0. Len(s) \in Nat /\ \A i \in 1 .. Len(s) : s[i] \in Nat
  OBVIOUS
<1>1. 0 \in S
  <2>1. [i \in 0 .. 0 |-> 0] \in [0 .. 0 -> Nat]
    OBVIOUS
  <2>2. PrefixSums([i \in 0 .. 0 |-> 0], s, 0)
    BY DEF PrefixSums
  <2> QED BY <2>1, <2>2 DEF HasSums
<1>2. ASSUME NEW k \in S PROVE k + 1 \in S
  <2>0. k \in Nat
    OBVIOUS
  <2> SUFFICES ASSUME k + 1 <= Len(s)
               PROVE  HasSums(s, k + 1)
    BY <2>0
  <2>1. k \in Nat /\ k <= Len(s) /\ s[k + 1] \in Nat
    BY <1>0, <2>0
  <2>2. PICK f \in [0 .. k -> Nat] : PrefixSums(f, s, k)
    BY <2>1 DEF HasSums
  <2>3. PICK h : h = [i \in 0 .. k + 1 |-> IF i <= k THEN f[i] ELSE f[k] + s[k + 1]]
    OBVIOUS
  <2>4. h \in [0 .. k + 1 -> Nat]
    BY <2>1, <2>3
  <2>5. PrefixSums(h, s, k + 1)
    <3>1. h[0] = 0
      BY <2>1, <2>2, <2>3 DEF PrefixSums
    <3>2. ASSUME NEW i \in 1 .. k + 1 PROVE h[i] = h[i - 1] + s[i]
      <4>1. h[i - 1] = f[i - 1]
        BY <2>1, <2>3
      <4>2. CASE i = k + 1
        BY <2>1, <2>3, <4>1, <4>2
      <4>3. CASE i # k + 1
        <5>1. i \in 1 .. k /\ h[i] = f[i]
          BY <2>1, <2>3, <4>3
        <5> QED BY <2>2, <4>1, <5>1 DEF PrefixSums
      <4> QED BY <4>2, <4>3
    <3> QED BY <3>1, <3>2 DEF PrefixSums
  <2> QED BY <2>4, <2>5 DEF HasSums
<1>3. S = Nat
  <2> HIDE DEF S
  <2>1. S \in SUBSET Nat
    BY DEF S
  <2> QED BY <1>1, <1>2, <2>1, SetInduction
<1> QED BY <1>0, <1>3

LEMMA SumsUnique ==
  ASSUME NEW s \in Seq(Nat), NEW f, NEW g,
         PrefixSums(f, s, Len(s)), PrefixSums(g, s, Len(s))
  PROVE  \A i \in 0 .. Len(s) : f[i] = g[i]
<1> DEFINE S == {k \in Nat : k <= Len(s) => f[k] = g[k]}
<1>0. Len(s) \in Nat
  OBVIOUS
<1>1. 0 \in S
  BY DEF PrefixSums
<1>2. ASSUME NEW k \in S PROVE k + 1 \in S
  <2> SUFFICES ASSUME k + 1 <= Len(s) PROVE f[k + 1] = g[k + 1]
    OBVIOUS
  <2>1. k \in Nat /\ f[k] = g[k] /\ k + 1 \in 1 .. Len(s) /\ (k + 1) - 1 = k
    BY <1>0
  <2> QED BY <2>1 DEF PrefixSums
<1>3. S = Nat
  <2> HIDE DEF S
  <2>1. S \in SUBSET Nat
    BY DEF S
  <2> QED BY <1>1, <1>2, <2>1, SetInduction
<1> QED BY <1>0, <1>3

\* What Sum computes.
LEMMA SumIs ==
  ASSUME NEW s \in Seq(Nat), NEW f, PrefixSums(f, s, Len(s))
  PROVE  Sum(s) = f[Len(s)]
<1>1. PICK e \in [0 .. Len(s) -> Nat] : PrefixSums(e, s, Len(s))
  BY SumsExist DEF HasSums
<1>2. e = [i \in 0 .. Len(s) |-> IF i = 0 THEN 0 ELSE e[i - 1] + s[i]]
  BY <1>1 DEF PrefixSums
<1>3. PICK h : /\ h = [i \in 0 .. Len(s) |-> IF i = 0 THEN 0 ELSE h[i - 1] + s[i]]
               /\ Sum(s) = h[Len(s)]
  BY <1>2 DEF Sum
<1>4. PrefixSums(h, s, Len(s))
  <2>0. Len(s) \in Nat
    OBVIOUS
  <2>1. h[0] = 0
    BY <1>3, <2>0
  <2>2. ASSUME NEW i \in 1 .. Len(s) PROVE h[i] = h[i - 1] + s[i]
    <3>1. i \in 0 .. Len(s) /\ i # 0
      BY <2>0
    <3> QED BY <1>3, <3>1
  <2> QED BY <2>1, <2>2 DEF PrefixSums
<1>5. h[Len(s)] = f[Len(s)]
  BY <1>4, SumsUnique
<1> QED BY <1>3, <1>5

\* Sums of prefixes do not shrink: each is at most the sum.
LEMMA SumsGrow ==
  ASSUME NEW s \in Seq(Nat), NEW f \in [0 .. Len(s) -> Nat],
         PrefixSums(f, s, Len(s))
  PROVE  \A i \in 0 .. Len(s) : f[i] <= f[Len(s)]
<1> DEFINE S == {k \in Nat : k <= Len(s) => \A i \in 0 .. k : f[i] <= f[k]}
<1>0. Len(s) \in Nat /\ \A i \in 1 .. Len(s) : s[i] \in Nat
  OBVIOUS
<1>1. 0 \in S
  BY <1>0
<1>2. ASSUME NEW k \in S PROVE k + 1 \in S
  <2>0. k \in Nat /\ (k <= Len(s) => \A i \in 0 .. k : f[i] <= f[k])
    OBVIOUS
  <2> SUFFICES ASSUME k + 1 <= Len(s), NEW i \in 0 .. k + 1
               PROVE  f[i] <= f[k + 1]
    BY <2>0
  <2>1. f[k + 1] = f[k] + s[k + 1] /\ s[k + 1] \in Nat
    <3>1. k + 1 \in 1 .. Len(s) /\ (k + 1) - 1 = k
      BY <1>0, <2>0
    <3> QED BY <1>0, <3>1 DEF PrefixSums
  <2>2. f[i] \in Nat /\ f[k] \in Nat
    <3>1. i \in 0 .. Len(s) /\ k \in 0 .. Len(s)
      BY <1>0, <2>0
    <3> QED BY <3>1
  <2>3. CASE i = k + 1
    BY <2>1, <2>2, <2>3
  <2>4. CASE i # k + 1
    <3>1. f[i] <= f[k]
      BY <1>0, <2>0, <2>4
    <3> QED BY <2>1, <2>2, <3>1
  <2> QED BY <2>3, <2>4
<1>3. S = Nat
  <2> HIDE DEF S
  <2>1. S \in SUBSET Nat
    BY DEF S
  <2> QED BY <1>1, <1>2, <2>1, SetInduction
<1> QED BY <1>0, <1>3

\* The sum of a prefix.
LEMMA SumPrefix ==
  ASSUME NEW s \in Seq(Nat), NEW f, PrefixSums(f, s, Len(s)),
         NEW j \in 0 .. Len(s)
  PROVE  Sum(SubSeq(s, 1, j)) = f[j]
<1>1. PICK q : q = SubSeq(s, 1, j)
  OBVIOUS
<1>2. /\ Len(s) \in Nat /\ q \in Seq(Nat) /\ Len(q) = j
      /\ \A i \in 1 .. j : q[i] = s[i] /\ i \in 1 .. Len(s)
  BY <1>1
<1>3. PrefixSums(f, q, Len(q))
  BY <1>2 DEF PrefixSums
<1> QED BY <1>1, <1>2, <1>3, SumIs

LEMMA SumNat ==
  ASSUME NEW s \in Seq(Nat)
  PROVE  Sum(s) \in Nat
<1>1. PICK f \in [0 .. Len(s) -> Nat] : PrefixSums(f, s, Len(s))
  BY SumsExist DEF HasSums
<1>2. Len(s) \in 0 .. Len(s)
  OBVIOUS
<1> QED BY <1>1, <1>2, SumIs

LEMMA SumConcat ==
  ASSUME NEW s \in Seq(Nat), NEW t \in Seq(Nat)
  PROVE  Sum(s \o t) = Sum(s) + Sum(t)
<1>1. PICK f \in [0 .. Len(s) -> Nat] : PrefixSums(f, s, Len(s))
  BY SumsExist DEF HasSums
<1>2. PICK g \in [0 .. Len(t) -> Nat] : PrefixSums(g, t, Len(t))
  BY SumsExist DEF HasSums
<1>3. PICK u : u = s \o t
  OBVIOUS
<1>4. PICK l \in Nat : l = Len(s)
  OBVIOUS
<1>5. PICK m \in Nat : m = Len(t)
  OBVIOUS
<1>6. /\ u \in Seq(Nat) /\ Len(u) = l + m
      /\ \A i \in 1 .. l : u[i] = s[i]
      /\ \A i \in l + 1 .. l + m : u[i] = t[i - l]
  BY <1>3, <1>4, <1>5
<1>7. PICK h : h = [i \in 0 .. l + m |-> IF i <= l THEN f[i] ELSE f[l] + g[i - l]]
  OBVIOUS
<1>8. PrefixSums(h, u, l + m)
  <2>1. h[0] = 0
    BY <1>1, <1>7 DEF PrefixSums
  <2>2. ASSUME NEW i \in 1 .. l + m PROVE h[i] = h[i - 1] + u[i]
    <3>1. CASE i <= l
      <4>1. i \in 1 .. l /\ h[i] = f[i] /\ h[i - 1] = f[i - 1]
        BY <1>7, <3>1
      <4> QED BY <1>1, <1>4, <1>6, <4>1 DEF PrefixSums
    <3>2. CASE i > l
      <4>1. /\ i \in l + 1 .. l + m /\ i - l \in 1 .. m
            /\ h[i] = f[l] + g[i - l]
        BY <1>7, <3>2
      <4>2. g[i - l] = g[(i - l) - 1] + u[i]
        BY <1>2, <1>5, <1>6, <4>1 DEF PrefixSums
      <4>3. h[i - 1] = f[l] + g[(i - l) - 1]
        <5>1. CASE i = l + 1
          <6>1. (i - l) - 1 = 0 /\ h[i - 1] = f[l] /\ f[l] \in Nat
            BY <1>1, <1>4, <1>7, <5>1
          <6> QED BY <1>2, <6>1 DEF PrefixSums
        <5>2. CASE i # l + 1
          BY <1>7, <4>1, <5>2
        <5> QED BY <5>1, <5>2
      <4>4. /\ f[l] \in Nat /\ g[(i - l) - 1] \in Nat /\ g[i - l] \in Nat
            /\ u[i] \in Nat
        <5>1. /\ l \in 0 .. Len(s) /\ i \in 1 .. Len(u)
              /\ (i - l) - 1 \in 0 .. Len(t) /\ i - l \in 0 .. Len(t)
          BY <1>4, <1>5, <1>6, <4>1
        <5>2. f[l] \in Nat
          BY <5>1
        <5>3. g[(i - l) - 1] \in Nat /\ g[i - l] \in Nat
          BY <5>1
        <5>4. u[i] \in Nat
          BY <1>6, <5>1
        <5> QED BY <5>2, <5>3, <5>4
      <4> QED BY <4>1, <4>2, <4>3, <4>4
    <3> QED BY <3>1, <3>2
  <2> QED BY <2>1, <2>2 DEF PrefixSums
<1>9. h[l + m] = f[l] + g[m]
  <2>1. CASE m = 0
    <3>1. h[l + m] = f[l] /\ f[l] \in Nat
      <4>1. l + m = l /\ l \in 0 .. l + m /\ l <= l /\ l \in 0 .. Len(s)
        BY <1>4, <2>1
      <4>2. f[l] \in Nat
        BY <4>1
      <4>3. h[l] = f[l]
        BY <1>7, <4>1
      <4> QED BY <4>1, <4>2, <4>3
    <3>2. g[m] = 0
      BY <1>2, <2>1 DEF PrefixSums
    <3> QED BY <3>1, <3>2
  <2>2. CASE m # 0
    BY <1>7, <2>2
  <2> QED BY <2>1, <2>2
<1>10. Sum(u) = h[l + m] /\ Sum(s) = f[l] /\ Sum(t) = g[m]
  BY <1>1, <1>2, <1>4, <1>5, <1>6, <1>8, SumIs
<1> QED BY <1>3, <1>9, <1>10

LEMMA SumEmpty == Sum(<< >>) = 0
<1>1. << >> \in Seq(Nat) /\ Len(<< >>) = 0
  OBVIOUS
<1>2. PrefixSums([i \in 0 .. 0 |-> 0], << >>, 0)
  BY DEF PrefixSums
<1> QED BY <1>1, <1>2, SumIs

LEMMA SumOne ==
  ASSUME NEW x \in Nat
  PROVE  Sum(<<x>>) = x
<1>1. <<x>> \in Seq(Nat) /\ Len(<<x>>) = 1 /\ <<x>>[1] = x
  OBVIOUS
<1>2. PICK f : f = [i \in 0 .. 1 |-> IF i = 0 THEN 0 ELSE x]
  OBVIOUS
<1>3. f[0] = 0 /\ f[1] = x
  BY <1>2
<1>4. PrefixSums(f, <<x>>, 1)
  BY <1>1, <1>3 DEF PrefixSums
<1> QED BY <1>1, <1>3, <1>4, SumIs

\* A number of intervals of a second each.
LEMMA SumSeconds ==
  ASSUME NEW q \in Nat
  PROVE  /\ [i \in 1 .. q |-> Second] \in Seq(Nat)
         /\ Len([i \in 1 .. q |-> Second]) = q
         /\ Sum([i \in 1 .. q |-> Second]) = Second * q
<1>1. PICK s : s = [i \in 1 .. q |-> Second]
  OBVIOUS
<1>2. s \in Seq(Nat) /\ Len(s) = q /\ \A i \in 1 .. q : s[i] = Second
  BY <1>1 DEF Second
<1>3. PICK f : f = [i \in 0 .. q |-> Second * i]
  OBVIOUS
<1>4. PrefixSums(f, s, q)
  BY <1>2, <1>3 DEF PrefixSums, Second
<1>5. f[q] = Second * q
  BY <1>3
<1> QED BY <1>1, <1>2, <1>4, <1>5, SumIs

----------------------------------------------------------------------------
(* The schedule (seq.go).                                                  *)

\* The ramp's members, and the sums of its prefixes.
LEMMA Ramp ==
  /\ upstreamRamp \in Seq(Nat) /\ Len(upstreamRamp) = 9
  /\ \A i \in 1 .. 9 : upstreamRamp[i] >= 1 /\ upstreamRamp[i] <= Second
  /\ \A i \in 1 .. 8 : upstreamRamp[i] <= upstreamRamp[i + 1]
<1>1. upstreamRamp \in Seq(Nat) /\ Len(upstreamRamp) = 9
  BY DEF upstreamRamp
<1>2. /\ upstreamRamp[1] = 15 /\ upstreamRamp[2] = 20 /\ upstreamRamp[3] = 30
      /\ upstreamRamp[4] = 50 /\ upstreamRamp[5] = 90 /\ upstreamRamp[6] = 170
      /\ upstreamRamp[7] = 330 /\ upstreamRamp[8] = 660 /\ upstreamRamp[9] = 1000
  BY DEF upstreamRamp
<1>3. \A i \in 1 .. 9 : upstreamRamp[i] >= 1 /\ upstreamRamp[i] <= Second
  BY <1>2 DEF Second
<1>4. \A i \in 1 .. 8 : upstreamRamp[i] <= upstreamRamp[i + 1]
  BY <1>2
<1> QED BY <1>1, <1>3, <1>4

\* The prefix CHOOSE takes exists, whatever the budget.
LEMMA RampIs ==
  ASSUME NEW bud \in Nat
  PROVE  \E k \in 0 .. 9 :
           /\ RampWithin(bud) = SubSeq(upstreamRamp, 1, k)
           /\ Sum(SubSeq(upstreamRamp, 1, k)) <= bud
<1>1. PICK f \in [0 .. 9 -> Nat] : PrefixSums(f, upstreamRamp, 9)
  BY Ramp, SumsExist DEF HasSums
<1>2. \A j \in 0 .. 9 : Sum(SubSeq(upstreamRamp, 1, j)) = f[j]
  <2>1. upstreamRamp \in Seq(Nat)
    BY Ramp
  <2>2. PrefixSums(f, upstreamRamp, Len(upstreamRamp))
    BY <1>1, Ramp
  <2> SUFFICES ASSUME NEW j \in 0 .. Len(upstreamRamp)
               PROVE  Sum(SubSeq(upstreamRamp, 1, j)) = f[j]
    BY Ramp
  <2> QED BY <2>1, <2>2, SumPrefix
<1> DEFINE Fit(j) == f[j] <= bud /\ (j < 9 => f[j + 1] > bud)
<1>3. \E j \in 0 .. 9 : Fit(j)
  <2>1. PICK T : T = {c \in Nat : c <= 9 /\ f[c] > bud}
    OBVIOUS
  <2>2. CASE T = {}
    <3>1. f[9] \in Nat /\ ~(f[9] > bud)
      BY <2>1, <2>2
    <3>2. f[9] <= bud
      BY <3>1
    <3> QED BY <3>2
  <2>3. CASE T # {}
    <3>1. PICK c \in T : \A y \in T : c <= y
      BY <2>1, <2>3, Least
    <3>2. c \in Nat /\ c <= 9 /\ f[c] > bud
      BY <2>1
    <3>3. c # 0
      BY <1>1, <3>2 DEF PrefixSums
    <3>4. c - 1 \in 0 .. 9 /\ c - 1 < 9 /\ (c - 1) + 1 = c /\ ~(c <= c - 1)
      BY <3>2, <3>3
    <3>5. ~(f[c - 1] > bud) /\ f[c - 1] \in Nat
      BY <2>1, <3>1, <3>4
    <3>6. f[c - 1] <= bud
      BY <3>5
    <3> QED BY <3>2, <3>4, <3>6
  <2> QED BY <2>2, <2>3
<1>4. \A j \in 0 .. 9 :
        Fit(j) <=> /\ Sum(SubSeq(upstreamRamp, 1, j)) <= bud
                   /\ j < 9 => Sum(SubSeq(upstreamRamp, 1, j + 1)) > bud
  <2> SUFFICES ASSUME NEW j \in 0 .. 9
               PROVE  Fit(j) <=>
                        /\ Sum(SubSeq(upstreamRamp, 1, j)) <= bud
                        /\ j < 9 => Sum(SubSeq(upstreamRamp, 1, j + 1)) > bud
    OBVIOUS
  <2>1. j < 9 => j + 1 \in 0 .. 9
    OBVIOUS
  <2> QED BY <1>2, <2>1
<1>5. PICK k \in 0 .. 9 :
        /\ k = CHOOSE j \in 0 .. 9 :
                 /\ Sum(SubSeq(upstreamRamp, 1, j)) <= bud
                 /\ j < 9 => Sum(SubSeq(upstreamRamp, 1, j + 1)) > bud
        /\ Sum(SubSeq(upstreamRamp, 1, k)) <= bud
  <2> HIDE DEF Fit
  <2> QED BY <1>3, <1>4
<1>6. RampWithin(bud) = SubSeq(upstreamRamp, 1, k)
  BY <1>5, Ramp DEF RampWithin
<1> QED BY <1>5, <1>6

LEMMA PrefixOf ==
  ASSUME NEW s \in Seq(Nat), NEW j \in 0 .. Len(s)
  PROVE  /\ SubSeq(s, 1, j) \in Seq(Nat) /\ Len(SubSeq(s, 1, j)) = j
         /\ \A i \in 1 .. j : SubSeq(s, 1, j)[i] = s[i]
<1>1. Len(s) \in Nat
  OBVIOUS
<1> QED BY <1>1

LEMMA Concat ==
  ASSUME NEW s \in Seq(Nat), NEW t \in Seq(Nat), NEW u, u = s \o t,
         NEW l \in Nat, l = Len(s), NEW m \in Nat, m = Len(t)
  PROVE  /\ u \in Seq(Nat) /\ Len(u) = l + m
         /\ \A i \in 1 .. l : u[i] = s[i]
         /\ \A i \in l + 1 .. l + m : u[i] = t[i - l]
OBVIOUS

\* What is promised of a schedule: its length, its members, and their sum.
Shape(s, total) ==
  /\ s \in Seq(Nat) /\ Len(s) >= 1
  /\ Sum(s) = total
  /\ \A i \in 1 .. Len(s) : s[i] >= 1 /\ s[i] <= Second
  /\ \A i \in 1 .. (Len(s) - 2) : s[i] <= s[i + 1]

LEMMA WholeAndRest ==
  ASSUME NEW left \in Nat
  PROVE  /\ left \div Second \in Nat
         /\ left % Second \in Nat /\ left % Second <= Second
         /\ left = Second * (left \div Second) + (left % Second)
BY SMT DEF Second

\* A prefix of the ramp, whole seconds and a rest make a schedule.
LEMMA Pieces ==
  ASSUME NEW k \in 0 .. 9, NEW q \in Nat, NEW r \in Nat, r <= Second,
         NEW total \in Nat, total > 0,
         total = Sum(SubSeq(upstreamRamp, 1, k)) + (Second * q + r)
  PROVE  Shape(SubSeq(upstreamRamp, 1, k) \o [i \in 1 .. q |-> Second]
                 \o (IF r > 0 THEN <<r>> ELSE << >>), total)
<1>1. PICK x : x = SubSeq(upstreamRamp, 1, k)
  OBVIOUS
<1>2. PICK y : y = [i \in 1 .. q |-> Second]
  OBVIOUS
<1>3. PICK z : z = IF r > 0 THEN <<r>> ELSE << >>
  OBVIOUS
<1>4. PICK m \in {0, 1} : m = IF r > 0 THEN 1 ELSE 0
  OBVIOUS
<1>5. /\ x \in Seq(Nat) /\ Len(x) = k
      /\ \A i \in 1 .. k : x[i] = upstreamRamp[i]
  <2>1. upstreamRamp \in Seq(Nat) /\ k \in 0 .. Len(upstreamRamp)
    BY Ramp
  <2> QED BY <1>1, <2>1, PrefixOf
<1>6. /\ y \in Seq(Nat) /\ Len(y) = q
      /\ \A i \in 1 .. q : y[i] = Second
      /\ Sum(y) = Second * q
  BY <1>2, SumSeconds
<1>7. /\ z \in Seq(Nat) /\ Len(z) = m
      /\ (m = 1 => z[1] = r /\ r >= 1)
  BY <1>3, <1>4
<1>8. Sum(z) = r
  <2>1. CASE r > 0
    BY <1>3, <2>1, SumOne
  <2>2. CASE r = 0
    BY <1>3, <2>2, SumEmpty
  <2> QED BY <2>1, <2>2
<1>9. PICK s : s = x \o y \o z
  OBVIOUS
<1>10. /\ s \in Seq(Nat) /\ Len(s) = (k + q) + m
       /\ \A i \in 1 .. k : s[i] = upstreamRamp[i]
       /\ \A i \in k + 1 .. k + q : s[i] = Second
       /\ (m = 1 => s[k + q + 1] = r)
  <2>0. k \in Nat /\ m \in Nat
    OBVIOUS
  <2>1. PICK w : w = x \o y
    OBVIOUS
  <2>2. /\ w \in Seq(Nat) /\ Len(w) = k + q
        /\ \A i \in 1 .. k : w[i] = x[i]
        /\ \A i \in k + 1 .. k + q : w[i] = y[i - k]
    <3>1. x \in Seq(Nat) /\ y \in Seq(Nat) /\ k = Len(x) /\ q = Len(y)
      BY <1>5, <1>6
    <3> QED BY <2>0, <2>1, <3>1
  <2>3. k + q \in Nat
    BY <2>0
  <2>4. /\ s \in Seq(Nat) /\ Len(s) = (k + q) + m
        /\ \A i \in 1 .. k + q : s[i] = w[i]
        /\ \A i \in (k + q) + 1 .. (k + q) + m : s[i] = z[i - (k + q)]
    <3>1. w \in Seq(Nat) /\ z \in Seq(Nat) /\ k + q = Len(w) /\ m = Len(z)
      BY <1>7, <2>2
    <3>2. s = w \o z
      BY <1>9, <2>1
    <3>3. PICK l \in Nat : l = k + q
      BY <2>3
    <3>4. w \in Seq(Nat) /\ z \in Seq(Nat) /\ l = Len(w) /\ m = Len(z)
      BY <3>1, <3>3
    <3>5. /\ s \in Seq(Nat) /\ Len(s) = l + m
          /\ \A i \in 1 .. l : s[i] = w[i]
          /\ \A i \in l + 1 .. l + m : s[i] = z[i - l]
      BY <2>0, <3>2, <3>4, Concat
    <3> QED BY <3>3, <3>5
  <2>5. \A i \in 1 .. k : s[i] = upstreamRamp[i]
    <3> SUFFICES ASSUME NEW i \in 1 .. k PROVE s[i] = upstreamRamp[i]
      OBVIOUS
    <3>1. i \in 1 .. k + q
      BY <2>0
    <3>2. s[i] = w[i] /\ w[i] = x[i] /\ x[i] = upstreamRamp[i]
      BY <1>5, <2>2, <2>4, <3>1, Zenon
    <3> QED BY <3>2
  <2>6. \A i \in k + 1 .. k + q : s[i] = Second
    <3> SUFFICES ASSUME NEW i \in k + 1 .. k + q PROVE s[i] = Second
      OBVIOUS
    <3>1. i \in 1 .. k + q /\ i - k \in 1 .. q
      BY <2>0
    <3> QED BY <1>6, <2>2, <2>4, <3>1
  <2>7. ASSUME m = 1 PROVE s[k + q + 1] = r
    <3>1. /\ (k + q) + 1 \in (k + q) + 1 .. (k + q) + m
          /\ ((k + q) + 1) - (k + q) = 1
      BY <2>0, <2>3, <2>7
    <3> QED BY <1>7, <2>4, <2>7, <3>1
  <2> QED BY <2>4, <2>5, <2>6, <2>7
<1>11. Sum(s) = total
  <2>1. x \o y \in Seq(Nat) /\ Sum(x \o y) = Sum(x) + Sum(y)
    BY <1>5, <1>6, SumConcat
  <2>2. Sum(s) = Sum(x \o y) + Sum(z)
    BY <1>7, <1>9, <2>1, SumConcat
  <2>3. Sum(x) \in Nat /\ Second * q \in Nat
    BY <1>5, SumNat DEF Second
  <2> QED BY <1>1, <1>6, <1>8, <2>1, <2>2, <2>3
<1>12. Len(s) >= 1
  <2>1. CASE Len(s) = 0
    <3>1. s = << >>
      BY <1>10, <2>1
    <3> QED BY <1>11, <3>1, SumEmpty
  <2> QED BY <1>10, <2>1
<1>13. Second \in Nat /\ Second >= 1
  BY DEF Second
<1>14. ASSUME NEW i \in 1 .. Len(s)
       PROVE  s[i] >= 1 /\ s[i] <= Second
  <2>1. CASE i <= k
    <3>1. i \in 1 .. k /\ i \in 1 .. 9
      BY <1>10, <2>1
    <3> QED BY <1>10, <3>1, Ramp
  <2>2. CASE i > k /\ i <= k + q
    BY <1>10, <1>13, <2>2
  <2>3. CASE i > k + q
    <3>1. m = 1 /\ i = k + q + 1
      BY <1>10, <2>3
    <3> QED BY <1>7, <1>10, <3>1
  <2> QED BY <2>1, <2>2, <2>3
<1>15. ASSUME NEW i \in 1 .. (Len(s) - 2)
       PROVE  s[i] <= s[i + 1]
  <2>1. i + 1 <= k + q /\ i \in Nat /\ i >= 1
    BY <1>10
  <2>2. CASE i + 1 <= k
    <3>1. i \in 1 .. k /\ i + 1 \in 1 .. k /\ i \in 1 .. 8
      BY <2>1, <2>2
    <3> QED BY <1>10, <3>1, Ramp
  <2>3. CASE i = k
    <3>1. i \in 1 .. k /\ i \in 1 .. 9 /\ i + 1 \in k + 1 .. k + q
      BY <2>1, <2>3
    <3> QED BY <1>10, <3>1, Ramp
  <2>4. CASE i > k
    <3>1. i \in k + 1 .. k + q /\ i + 1 \in k + 1 .. k + q
      BY <2>1, <2>4
    <3> QED BY <1>10, <1>13, <3>1
  <2> QED BY <2>1, <2>2, <2>3, <2>4
<1>16. Shape(s, total)
  BY <1>10, <1>11, <1>12, <1>14, <1>15 DEF Shape
<1> QED BY <1>1, <1>2, <1>3, <1>9, <1>16

Total(bud) == IF bud > 0 THEN bud ELSE Sum(upstreamRamp)

\* What buildRetransmitSchedule returns, for every budget.
LEMMA ScheduleShape ==
  ASSUME NEW bud \in Int
  PROVE  Shape(buildRetransmitSchedule(bud), Total(bud))
<1>1. CASE bud <= 0
  <2>1. buildRetransmitSchedule(bud) = upstreamRamp /\ Total(bud) = Sum(upstreamRamp)
    BY <1>1 DEF buildRetransmitSchedule, Total
  <2> QED BY <2>1, Ramp DEF Shape
<1>2. CASE bud > 0
  <2>0. bud \in Nat /\ ~(bud <= 0)
    BY <1>2
  <2>1. PICK k \in 0 .. 9 :
          /\ RampWithin(bud) = SubSeq(upstreamRamp, 1, k)
          /\ Sum(SubSeq(upstreamRamp, 1, k)) <= bud
    BY <2>0, RampIs
  <2>2. PICK x : x = SubSeq(upstreamRamp, 1, k)
    OBVIOUS
  <2>3. x \in Seq(Nat)
    <3>1. upstreamRamp \in Seq(Nat) /\ k \in 0 .. Len(upstreamRamp)
      BY Ramp
    <3> QED BY <2>2, <3>1, PrefixOf
  <2>4. Sum(x) \in Nat /\ bud - Sum(x) \in Nat
    <3>1. Sum(x) \in Nat
      BY <2>3, SumNat
    <3> QED BY <2>0, <2>1, <2>2, <3>1
  <2>5. PICK left \in Nat : left = bud - Sum(x)
    BY <2>4
  <2>6. PICK q \in Nat : q = left \div Second
    BY WholeAndRest
  <2>7. PICK r \in Nat : r = left % Second
    BY WholeAndRest
  <2>8. r <= Second /\ left = Second * q + r
    BY <2>6, <2>7, WholeAndRest
  <2>9. bud = Sum(x) + (Second * q + r)
    BY <2>0, <2>4, <2>5, <2>8
  <2>10. buildRetransmitSchedule(bud) =
           x \o [i \in 1 .. q |-> Second] \o (IF r > 0 THEN <<r>> ELSE << >>)
    BY <2>0, <2>1, <2>2, <2>5, <2>6, <2>7 DEF buildRetransmitSchedule
  <2>11. Shape(x \o [i \in 1 .. q |-> Second]
                 \o (IF r > 0 THEN <<r>> ELSE << >>), bud)
    BY <1>2, <2>0, <2>2, <2>8, <2>9, Pieces
  <2>12. Total(bud) = bud
    BY <1>2 DEF Total
  <2> QED BY <2>10, <2>11, <2>12
<1> QED BY <1>1, <1>2

----------------------------------------------------------------------------
(* The schedule is made once, from the budget, and never touched.          *)

ScheduleInv == budget \in Budgets /\ schedule = buildRetransmitSchedule(budget)

LEMMA ScheduleKept ==
  ASSUME Next \/ UNCHANGED vars
  PROVE  UNCHANGED <<budget, schedule>>
BY DEF Next, vars, Start, StartFails, Acked, NoAck, AwaitLonger, AwaitTimeout,
       Cancelled, AwaitSalt, AwaitEndAuth, DeviceSalt, DeviceEndAuth, Finished,
       SendUnchanged, DeviceUnchanged

LEMMA ScheduleIsMade == Spec => []ScheduleInv
<1>1. Init => ScheduleInv
  BY DEF Init, ScheduleInv
<1>2. ScheduleInv /\ [Next]_vars => ScheduleInv'
  BY ScheduleKept DEF ScheduleInv
<1> QED BY <1>1, <1>2, PTL DEF Spec

LEMMA ScheduleInvShape ==
  ASSUME ScheduleInv
  PROVE  Shape(schedule, Total(budget))
<1>1. budget \in Int
  <2>1. Budgets \subseteq Int
    BY HandshakeAssumption
  <2> QED BY <2>1 DEF ScheduleInv
<1>2. Shape(buildRetransmitSchedule(budget), Total(budget))
  BY <1>1, ScheduleShape
<1> QED BY <1>2 DEF ScheduleInv

\* For every budget an operator may configure, the retransmit schedule
\* buildRetransmitSchedule makes (seq.go) adds up to it exactly, or to the
\* ramp where there is none, in intervals of a millisecond to a second that
\* never shrink before the last.
THEOREM BudgetIsSpent == Spec => []ScheduleSpendsBudget
<1>1. ScheduleInv => ScheduleSpendsBudget
  <2> SUFFICES ASSUME ScheduleInv PROVE ScheduleSpendsBudget
    OBVIOUS
  <2>1. Shape(schedule, Total(budget))
    BY ScheduleInvShape
  <2>2. Sum(schedule) = IF budget > 0 THEN budget ELSE Sum(upstreamRamp)
    BY <2>1 DEF Shape, Total
  <2>3. ASSUME NEW i \in 1 .. Len(schedule)
        PROVE  schedule[i] \in 1 .. Second
    <3>1. schedule[i] \in Nat /\ schedule[i] >= 1 /\ schedule[i] <= Second
      BY <2>1 DEF Shape
    <3>2. Second \in Nat
      BY DEF Second
    <3> QED BY <3>1, <3>2
  <2>4. \A i \in 1 .. (Len(schedule) - 2) : schedule[i] <= schedule[i + 1]
    BY <2>1 DEF Shape
  <2> QED BY <2>2, <2>3, <2>4 DEF ScheduleSpendsBudget
<1> QED BY <1>1, ScheduleIsMade, PTL

----------------------------------------------------------------------------
(* How long Open takes.                                                    *)

\* The intervals up to the j-th.
UpTo(s, j) == Sum(SubSeq(s, 1, j))

LEMMA Intervals ==
  ASSUME NEW s \in Seq(Nat)
  PROVE  /\ UpTo(s, 0) = 0
         /\ \A j \in 0 .. Len(s) : UpTo(s, j) \in Nat /\ UpTo(s, j) <= Sum(s)
         /\ \A j \in 1 .. Len(s) : UpTo(s, j) = UpTo(s, j - 1) + s[j]
<1>1. PICK f \in [0 .. Len(s) -> Nat] : PrefixSums(f, s, Len(s))
  BY SumsExist DEF HasSums
<1>2. \A j \in 0 .. Len(s) : UpTo(s, j) = f[j]
  BY <1>1, SumPrefix DEF UpTo
<1>3. Sum(s) = f[Len(s)] /\ \A j \in 0 .. Len(s) : f[j] <= f[Len(s)]
  BY <1>1, SumIs, SumsGrow
<1>4. Len(s) \in Nat /\ 0 \in 0 .. Len(s)
  OBVIOUS
<1>5. UpTo(s, 0) = 0
  BY <1>1, <1>2, <1>4 DEF PrefixSums
<1>6. \A j \in 1 .. Len(s) : UpTo(s, j) = UpTo(s, j - 1) + s[j]
  <2> SUFFICES ASSUME NEW j \in 1 .. Len(s)
               PROVE  UpTo(s, j) = UpTo(s, j - 1) + s[j]
    OBVIOUS
  <2>1. j \in 0 .. Len(s) /\ j - 1 \in 0 .. Len(s)
    BY <1>4
  <2> QED BY <1>1, <1>2, <2>1 DEF PrefixSums
<1> QED BY <1>2, <1>3, <1>5, <1>6

\* The deadline of the awaits, or the end of a first send that outlasts it.
Limit == Later(authPhaseTimeout, Sum(schedule))

\* What the clock can show at each place: a send has used the intervals it
\* left behind, on top of what the first send and the await before it took.
TimeInv ==
  /\ now \in Nat
  /\ attempt \in 1 .. Len(schedule)
  /\ pc = "start" => now = 0
  /\ pc = "ackInit" => now <= UpTo(schedule, attempt - 1)
  /\ pc = "salt" => now <= Limit
  /\ pc = "ackFinish" => now <= Limit + UpTo(schedule, attempt - 1)
  /\ now <= Limit + Sum(schedule)

LEMMA Facts ==
  ASSUME ScheduleInv
  PROVE  /\ schedule \in Seq(Nat) /\ Len(schedule) \in Nat /\ Len(schedule) >= 1
         /\ Sum(schedule) \in Nat /\ Limit \in Nat
         /\ authPhaseTimeout \in Nat /\ authPhaseTimeout - 1 \in Nat
         /\ authPhaseTimeout <= Limit /\ authPhaseTimeout - 1 <= Limit
         /\ Sum(schedule) <= Limit
         /\ UpTo(schedule, 0) = 0
<1>1. schedule \in Seq(Nat) /\ Len(schedule) \in Nat /\ Len(schedule) >= 1
  BY ScheduleInvShape DEF Shape
<1>2. Sum(schedule) \in Nat /\ UpTo(schedule, 0) = 0
  BY <1>1, SumNat, Intervals
<1>3. authPhaseTimeout \in Nat /\ authPhaseTimeout - 1 \in Nat
  BY DEF authPhaseTimeout
<1>4. Limit \in Nat /\ authPhaseTimeout <= Limit /\ Sum(schedule) <= Limit
  BY <1>2, <1>3 DEF Limit, Later
<1> QED BY <1>1, <1>2, <1>3, <1>4

\* A wait on the attempt's interval, whole or in part.
LEMMA Waited ==
  ASSUME ScheduleInv, TimeInv, Sending,
         NEW t, t \in {now, now + schedule[attempt] - 1, now + schedule[attempt]}
  PROVE  /\ t \in Nat /\ t <= Limit + Sum(schedule)
         /\ pc = "ackInit" => t <= UpTo(schedule, attempt) /\ t <= Limit
         /\ pc = "ackFinish" => t <= Limit + UpTo(schedule, attempt)
<1>1. schedule[attempt] \in Nat /\ schedule[attempt] >= 1
  BY ScheduleInvShape DEF Shape, TimeInv
<1>2. attempt \in 0 .. Len(schedule) /\ attempt - 1 \in 0 .. Len(schedule)
  BY Facts DEF TimeInv
<1>3. PICK v \in Nat : v = UpTo(schedule, attempt - 1)
  BY <1>2, Facts, Intervals
<1>4. PICK w \in Nat : w = UpTo(schedule, attempt)
  BY <1>2, Facts, Intervals
<1>5. w = v + schedule[attempt] /\ w <= Sum(schedule)
  BY <1>2, <1>3, <1>4, Facts, Intervals DEF TimeInv
<1>6. t \in Nat /\ t <= now + schedule[attempt] /\ now \in Nat
  BY <1>1 DEF TimeInv
<1>7. PICK x \in Nat, y \in Nat : x = Limit /\ y = Sum(schedule) /\ y <= x
  BY Facts
<1>8. CASE pc = "ackInit"
  <2>1. now <= v
    BY <1>3, <1>8 DEF TimeInv
  <2>2. t <= w /\ t <= x /\ t <= x + y
    BY <1>1, <1>5, <1>6, <1>7, <2>1
  <2> QED BY <1>4, <1>6, <1>7, <1>8, <2>2
<1>9. CASE pc = "ackFinish"
  <2>1. now <= x + v
    BY <1>3, <1>7, <1>9 DEF TimeInv
  <2>2. t <= x + w /\ t <= x + y
    BY <1>1, <1>5, <1>6, <1>7, <2>1
  <2> QED BY <1>4, <1>6, <1>7, <1>9, <2>2
<1> QED BY <1>8, <1>9 DEF Sending

\* A payload begins its send at the first interval; a packet too long for
\* it ends the handshake.
LEMMA SendBegins ==
  ASSUME NEW recs, NEW next, SendPayload(recs, next)
  PROVE  \/ pc' = next /\ attempt' = 1
         \/ pc' = "failed" /\ attempt' = attempt
BY DEF SendPayload

\* What each action does to the place, the clock and the attempt.
LEMMA SaltAnswered ==
  ASSUME AwaitSalt
  PROVE  /\ pc = "salt" /\ now' = now
         /\ \/ pc' = "ackFinish" /\ attempt' = 1
            \/ pc' \in {"salt", "failed", "panic"} /\ attempt' = attempt
<1>1. pc = "salt" /\ now' = now
  BY DEF AwaitSalt
<1>2. CASE UNCHANGED <<pc, meant, attempt>>
  BY <1>1, <1>2
<1>3. CASE AnswerSalt(Head(controlCh).body)
  <2>1. CASE \E resp : Finish(resp)
    BY <1>1, <2>1, SendBegins DEF Finish
  <2>2. CASE Stop("failed") \/ Stop("panic")
    BY <1>1, <2>2 DEF Stop
  <2> QED BY <1>3, <2>1, <2>2 DEF AnswerSalt
<1> QED BY <1>2, <1>3 DEF AwaitSalt

LEMMA Started ==
  ASSUME Start
  PROVE  /\ pc = "start" /\ now' = now
         /\ \/ pc' = "ackInit" /\ attempt' = 1
            \/ pc' \in {"failed", "panic"} /\ attempt' = attempt
BY SendBegins DEF Start

LEMMA TimeInit == Init => TimeInv
<1> SUFFICES ASSUME Init PROVE TimeInv
  OBVIOUS
<1>1. ScheduleInv
  BY DEF Init, ScheduleInv
<1> QED BY <1>1, Facts DEF Init, TimeInv

LEMMA TimeStep ==
  ASSUME ScheduleInv, TimeInv, Next \/ UNCHANGED vars
  PROVE  TimeInv'
<1>0. schedule' = schedule /\ Limit' = Limit /\ ScheduleInv'
  BY ScheduleKept DEF Limit, ScheduleInv
<1> USE DEF TimeInv
<1>1. CASE Start
  BY <1>0, <1>1, Started, Facts
<1>2. CASE StartFails
  BY <1>0, <1>2 DEF StartFails
<1>3. CASE Acked
  <2>1. /\ Sending /\ attempt' = attempt
        /\ now' \in {now, now + schedule[attempt] - 1, now + schedule[attempt]}
        /\ pc' = IF pc = "ackInit" THEN "salt" ELSE "endauth"
    BY <1>3 DEF Acked
  <2> QED BY <1>0, <2>1, Waited
<1>4. CASE NoAck
  <2>1. /\ Sending
        /\ now' \in {now, now + schedule[attempt] - 1, now + schedule[attempt]}
    BY <1>4 DEF NoAck
  <2>2. CASE attempt < Len(schedule)
    <3>1. attempt' = attempt + 1 /\ pc' = pc
      BY <1>4, <2>2 DEF NoAck
    <3>2. attempt' \in 1 .. Len(schedule) /\ attempt' - 1 = attempt
      BY <2>2, <3>1, Facts
    <3> QED BY <1>0, <2>1, <3>1, <3>2, Waited DEF Sending
  <2>3. CASE ~(attempt < Len(schedule))
    <3>1. attempt' = attempt /\ pc' = "failed"
      BY <1>4, <2>3 DEF NoAck
    <3> QED BY <1>0, <2>1, <3>1, Waited
  <2> QED BY <2>2, <2>3
<1>5. CASE AwaitLonger
  <2>1. Awaiting /\ now' = authPhaseTimeout - 1 /\ pc' = pc /\ attempt' = attempt
    BY <1>5 DEF AwaitLonger
  <2>2. now' \in Nat /\ now' <= Limit /\ now' <= Limit + Sum(schedule)
    BY <2>1, Facts
  <2> QED BY <1>0, <2>1, <2>2 DEF Awaiting
<1>6. CASE AwaitTimeout
  <2>1. /\ now' = IF now < authPhaseTimeout THEN authPhaseTimeout ELSE now
        /\ pc' = "failed" /\ attempt' = attempt
    BY <1>6 DEF AwaitTimeout
  <2>2. CASE now < authPhaseTimeout
    <3>1. now' = authPhaseTimeout
      BY <2>1, <2>2
    <3>2. authPhaseTimeout \in Nat /\ authPhaseTimeout <= Limit + Sum(schedule)
      BY Facts
    <3> QED BY <1>0, <2>1, <3>1, <3>2
  <2>3. CASE ~(now < authPhaseTimeout)
    BY <1>0, <2>1, <2>3
  <2> QED BY <2>2, <2>3
<1>7. CASE Cancelled
  BY <1>0, <1>7 DEF Cancelled
<1>8. CASE AwaitSalt
  BY <1>0, <1>8, SaltAnswered, Facts
<1>9. CASE AwaitEndAuth
  BY <1>0, <1>9 DEF AwaitEndAuth
<1>10. CASE DeviceSalt \/ DeviceEndAuth \/ Finished \/ UNCHANGED vars
  <2>1. UNCHANGED <<pc, now, attempt>>
    BY <1>10 DEF DeviceSalt, DeviceEndAuth, DeviceUnchanged, Finished, vars
  <2> QED BY <1>0, <2>1
<1> QED BY <1>1, <1>2, <1>3, <1>4, <1>5, <1>6, <1>7, <1>8, <1>9, <1>10 DEF Next

\* No wait inside Open (session.go) ends later than the auth-phase timeout and
\* one retransmit budget, or two budgets where the budget is the longer: with
\* every budget, whatever the device answers and whatever is lost.
THEOREM OpenReturnsInTime == Spec => []OpenBounded
<1>1. Init => TimeInv
  BY TimeInit
<1>2. ScheduleInv /\ TimeInv /\ [Next]_vars => TimeInv'
  BY TimeStep
<1>3. TimeInv => OpenBounded
  BY DEF TimeInv, OpenBounded, Limit
<1> QED BY <1>1, <1>2, <1>3, ScheduleIsMade, PTL DEF Spec

----------------------------------------------------------------------------
(* The codec.  A record that can be sent: framed, with a type of one byte  *)
(* and a length that fits, or terminal data that nothing takes for a frame. *)

Record(A) == [cpt : Int, body : Seq(A)]

Framable(r) ==
  r.cpt # cpTypePlainData /\ -128 <= r.cpt /\ r.cpt <= 127

Plainable(r) ==
  /\ r.cpt = cpTypePlainData /\ Len(r.body) > 0
  /\ ~(Len(r.body) >= cpHeaderLen /\ SubSeq(r.body, 1, 4) = cpMagic)

\* Terminal data ends a packet, having no length of its own.
WellFormed(recs, A) ==
  /\ Nat \subseteq A /\ recs \in Seq(Record(A))
  /\ \A i \in 1 .. Len(recs) :
       Framable(recs[i]) \/ (i = Len(recs) /\ Plainable(recs[i]))

LEMMA Uint32Is ==
  ASSUME NEW v \in Nat
  PROVE  /\ PutUint32(v) \in Seq(Nat) /\ Len(PutUint32(v)) = 4
         /\ \E s, t, u, w \in Nat : PutUint32(v) = <<s, t, u, w>>
         /\ Uint32(PutUint32(v)) = v
<1>1. \A x \in Nat : /\ Shift8(x) \in Nat /\ x % 256 \in Nat
                     /\ x = Shift8(x) * 256 + (x % 256)
  BY DEF Shift8
<1>a. PICK y \in Nat : y = Shift8(v)
  BY <1>1
<1>b. PICK z \in Nat : z = Shift8(y)
  BY <1>1
<1>c. PICK s \in Nat : s = Shift8(z)
  BY <1>1
<1>2. y = Shift8(v) /\ z = Shift8(y) /\ s = Shift8(z)
  BY <1>a, <1>b, <1>c
<1>3. PICK t \in Nat, u \in Nat, w \in Nat : t = z % 256 /\ u = y % 256 /\ w = v % 256
  BY <1>1
<1>4. PutUint32(v) = <<s, t, u, w>>
  BY <1>2, <1>3, SMTT(30) DEF PutUint32
<1>5. v = y * 256 + w /\ y = z * 256 + u /\ z = s * 256 + t
  BY <1>1, <1>2, <1>3
<1>6. Uint32(<<s, t, u, w>>) = ((s * 256 + t) * 256 + u) * 256 + w
  BY DEF Uint32
<1> QED BY <1>4, <1>5, <1>6

\* The bytes of a framed record: nine of header, then the body.
IsFrame(e, c, d) ==
  /\ Len(e) = 9 + Len(d)
  /\ \A i \in 1 .. 4 : e[i] = cpMagic[i]
  /\ e[5] = c % 256
  /\ \A i \in 1 .. 4 : e[5 + i] = PutUint32(Len(d))[i]
  /\ \A i \in 1 .. Len(d) : e[9 + i] = d[i]

LEMMA FrameIs ==
  ASSUME NEW A, Nat \subseteq A, NEW r \in Record(A), Framable(r)
  PROVE  /\ encodeControl(r) \in Seq(A) /\ r.body \in Seq(A) /\ r.cpt \in Int
         /\ Len(r.body) \in Nat /\ IsFrame(encodeControl(r), r.cpt, r.body)
<1>1. PICK d \in Seq(A), l \in Nat, c \in Nat :
        d = r.body /\ l = Len(r.body) /\ c = r.cpt % 256 /\ l = Len(d)
  <2>1. r.body \in Seq(A) /\ r.cpt \in Int
    BY DEF Record
  <2>2. Len(r.body) \in Nat /\ r.cpt % 256 \in Nat
    BY <2>1
  <2> QED BY <2>1, <2>2
<1>2. PICK g \in Seq(A), v \in Seq(A), o \in Seq(A) :
        /\ g = cpMagic /\ Len(g) = 4 /\ v = PutUint32(l) /\ Len(v) = 4
        /\ o = <<c>> /\ Len(o) = 1 /\ o[1] = c
  <2>1. cpMagic \in Seq(Nat) /\ Len(cpMagic) = 4
    BY DEF cpMagic
  <2>2. PutUint32(l) \in Seq(Nat) /\ Len(PutUint32(l)) = 4
    BY Uint32Is
  <2>3. <<c>> \in Seq(Nat) /\ Len(<<c>>) = 1 /\ <<c>>[1] = c
    OBVIOUS
  <2>4. \A s \in Seq(Nat) : s \in Seq(A)
    OBVIOUS
  <2> QED BY <2>1, <2>2, <2>3, <2>4
<1>3. encodeControl(r) = ((g \o o) \o v) \o d
  BY <1>1, <1>2, Zenon DEF encodeControl, Framable
<1>4. PICK x \in Seq(A) :
        /\ x = g \o o /\ Len(x) = 5 /\ x[5] = c
        /\ \A i \in 1 .. 4 : x[i] = g[i]
  <2>a. /\ g \o o \in Seq(A) /\ Len(g \o o) = Len(g) + Len(o)
        /\ \A i \in 1 .. Len(g) : (g \o o)[i] = g[i]
        /\ \A i \in 1 .. Len(o) : (g \o o)[Len(g) + i] = o[i]
    BY ConcatIs
  <2>1. /\ g \o o \in Seq(A) /\ Len(g \o o) = 4 + 1
        /\ \A i \in 1 .. 4 : (g \o o)[i] = g[i]
        /\ \A i \in 1 .. 1 : (g \o o)[4 + i] = o[i]
    BY <1>2, <2>a, Zenon
  <2>2. 1 \in 1 .. 1 /\ 4 + 1 = 5
    OBVIOUS
  <2>3. (g \o o)[5] = c
    BY <1>2, <2>1, <2>2
  <2> QED BY <2>1, <2>2, <2>3
<1>5. PICK y \in Seq(A) :
        /\ y = x \o v /\ Len(y) = 9
        /\ \A i \in 1 .. 5 : y[i] = x[i]
        /\ \A i \in 1 .. 4 : y[5 + i] = v[i]
  <2>a. /\ x \o v \in Seq(A) /\ Len(x \o v) = Len(x) + Len(v)
        /\ \A i \in 1 .. Len(x) : (x \o v)[i] = x[i]
        /\ \A i \in 1 .. Len(v) : (x \o v)[Len(x) + i] = v[i]
    BY ConcatIs
  <2>1. /\ x \o v \in Seq(A) /\ Len(x \o v) = 5 + 4
        /\ \A i \in 1 .. 5 : (x \o v)[i] = x[i]
        /\ \A i \in 1 .. 4 : (x \o v)[5 + i] = v[i]
    BY <1>2, <1>4, <2>a, SMTT(30)
  <2>2. 5 + 4 = 9
    OBVIOUS
  <2> QED BY <2>1, <2>2, Zenon
<1>6. PICK e \in Seq(A) :
        /\ e = y \o d /\ Len(e) = 9 + l
        /\ \A i \in 1 .. 9 : e[i] = y[i]
        /\ \A i \in 1 .. l : e[9 + i] = d[i]
  <2>1. /\ y \o d \in Seq(A) /\ Len(y \o d) = Len(y) + Len(d)
        /\ \A i \in 1 .. Len(y) : (y \o d)[i] = y[i]
        /\ \A i \in 1 .. Len(d) : (y \o d)[Len(y) + i] = d[i]
    BY ConcatIs
  <2>2. Len(d) = l /\ Len(y) = 9
    BY <1>1, <1>5
  <2>3. /\ Len(y \o d) = 9 + l
        /\ \A i \in 1 .. 9 : (y \o d)[i] = y[i]
        /\ \A i \in 1 .. l : (y \o d)[9 + i] = d[i]
    BY <2>1, <2>2, Zenon
  <2> QED BY <2>1, <2>3, Zenon
<1>7. encodeControl(r) = e
  BY <1>3, <1>4, <1>5, <1>6
<1>8. \A i \in 1 .. 4 : e[i] = cpMagic[i]
  <2> SUFFICES ASSUME NEW i \in 1 .. 4 PROVE e[i] = cpMagic[i]
    OBVIOUS
  <2>1. i \in 1 .. 5 /\ i \in 1 .. 9
    OBVIOUS
  <2> QED BY <1>2, <1>4, <1>5, <1>6, <2>1, SMTT(30)
<1>9. e[5] = c
  <2>1. 5 \in 1 .. 5 /\ 5 \in 1 .. 9
    OBVIOUS
  <2> QED BY <1>4, <1>5, <1>6, <2>1
<1>10. \A i \in 1 .. 4 : e[5 + i] = PutUint32(l)[i]
  <2> SUFFICES ASSUME NEW i \in 1 .. 4 PROVE e[5 + i] = PutUint32(l)[i]
    OBVIOUS
  <2>1. 5 + i \in 1 .. 9
    OBVIOUS
  <2> QED BY <1>2, <1>5, <1>6, <2>1
<1>11. IsFrame(e, r.cpt, d)
  BY <1>1, <1>6, <1>8, <1>9, <1>10, Zenon DEF IsFrame
<1>12. r.cpt \in Int
  BY DEF Record
<1> QED BY <1>1, <1>6, <1>7, <1>11, <1>12, Zenon

\* The bytes of s behind the first o are the first m of e.
BytesAt(s, o, e, m) == \A i \in 1 .. m : s[o + i] = e[i]

LEMMA CutOut ==
  ASSUME NEW A, NEW s \in Seq(A), NEW e \in Seq(A), NEW o \in Nat, NEW m \in Nat,
         BytesAt(s, o, e, m), o + m <= Len(s), m <= Len(e)
  PROVE  SubSeq(s, o + 1, o + m) = SubSeq(e, 1, m)
<1>1. PICK x, y : x = SubSeq(s, o + 1, o + m) /\ y = SubSeq(e, 0 + 1, 0 + m)
  OBVIOUS
<1>2. x \in Seq(A) /\ Len(x) = m /\ \A i \in 1 .. m : x[i] = s[o + i]
  BY <1>1, PieceIs
<1>3. y \in Seq(A) /\ Len(y) = m /\ \A i \in 1 .. m : y[i] = e[0 + i]
  <2>1. 0 + m <= Len(e) /\ 0 \in Nat
    OBVIOUS
  <2> QED BY <1>1, <2>1, PieceIs
<1>4. ASSUME NEW i \in 1 .. m PROVE x[i] = y[i]
  <2>1. 0 + i = i
    OBVIOUS
  <2> QED BY <1>2, <1>3, <2>1 DEF BytesAt
<1>5. x = y
  BY <1>2, <1>3, <1>4
<1>6. 0 + 1 = 1 /\ 0 + m = m
  OBVIOUS
<1> QED BY <1>1, <1>5, <1>6, Zenon

\* A turn of the loop behind o bytes reads m more, and x in them.
Reads(s, o, q, m, x) ==
  nextControl(s, [off |-> o, recs |-> q]) = [off |-> o + m, recs |-> Append(q, x)]

\* A turn of the loop that finds the header of r reads r, or what is there.
LEMMA TurnFramed ==
  ASSUME NEW A, Nat \subseteq A, NEW r \in Record(A), Framable(r),
         NEW s \in Seq(A), NEW o \in Nat, NEW m \in Nat, NEW q,
         9 <= m, m <= Len(encodeControl(r)), o + m <= Len(s),
         m = Len(encodeControl(r)) \/ Len(s) = o + m,
         BytesAt(s, o, encodeControl(r), m)
  PROVE  Reads(s, o, q, m, Rec(r.cpt, SubSeq(r.body, 1, m - 9)))
<1>1. PICK e \in Seq(A), d \in Seq(A), l \in Nat, c \in Int, N \in Nat :
        /\ e = encodeControl(r) /\ d = r.body /\ l = Len(r.body) /\ c = r.cpt
        /\ N = Len(s)
  <2>1. /\ encodeControl(r) \in Seq(A) /\ r.body \in Seq(A) /\ r.cpt \in Int
        /\ Len(r.body) \in Nat
    BY FrameIs
  <2>2. Len(s) \in Nat
    OBVIOUS
  <2> QED BY <2>1, <2>2, Zenon
<1>2. /\ Len(e) = 9 + l /\ l = Len(d)
      /\ \A i \in 1 .. 4 : e[i] = cpMagic[i]
      /\ e[5] = c % 256
      /\ \A i \in 1 .. 4 : e[5 + i] = PutUint32(l)[i]
      /\ \A i \in 1 .. l : e[9 + i] = d[i]
  <2>1. IsFrame(encodeControl(r), r.cpt, r.body)
    BY FrameIs
  <2> QED BY <1>1, <2>1, Zenon DEF IsFrame
<1>3. m <= 9 + l /\ o + m <= N /\ (m = 9 + l \/ N = o + m)
  BY <1>1, <1>2
<1>4. \A i \in 1 .. m : s[o + i] = e[i]
  BY <1>1 DEF BytesAt
<1>5. PICK k \in Nat : k = m - 9 /\ m = 9 + k /\ k <= l
  <2>1. m - 9 \in Nat /\ m = 9 + (m - 9) /\ m - 9 <= l
    BY <1>3
  <2> QED BY <2>1
<1>6. SubSeq(s, o + 1, o + 4) = cpMagic
  <2>1. PICK g \in Seq(A), j \in Nat : g = cpMagic /\ j = 4 /\ Len(g) = j
    <3>1. cpMagic \in Seq(Nat) /\ Len(cpMagic) = 4
      BY DEF cpMagic
    <3>2. \A x \in Seq(Nat) : x \in Seq(A)
      OBVIOUS
    <3>3. 4 \in Nat
      OBVIOUS
    <3> QED BY <3>1, <3>2, <3>3, Zenon
  <2>2. BytesAt(s, o, g, j)
    <3> SUFFICES ASSUME NEW i \in 1 .. j PROVE s[o + i] = g[i]
      BY DEF BytesAt
    <3>1. i \in 1 .. m
      BY <2>1
    <3> QED BY <1>2, <1>4, <2>1, <3>1
  <2>3. o + j <= Len(s) /\ j <= Len(g)
    BY <1>1, <1>3, <2>1
  <2>4. SubSeq(s, o + 1, o + j) = SubSeq(g, 1, j)
    BY <2>2, <2>3, CutOut
  <2>5. SubSeq(g, 1, j) = g
    BY <2>1
  <2> QED BY <2>1, <2>4, <2>5
<1>7. Uint32(SubSeq(s, o + 6, o + 9)) = l
  <2>1. PICK v \in Seq(A), j \in Nat, z \in Nat :
          v = PutUint32(l) /\ j = 4 /\ Len(v) = j /\ z = o + 5
    <3>1. PutUint32(l) \in Seq(Nat) /\ Len(PutUint32(l)) = 4
      BY Uint32Is
    <3>2. \A x \in Seq(Nat) : x \in Seq(A)
      OBVIOUS
    <3>3. 4 \in Nat /\ o + 5 \in Nat
      OBVIOUS
    <3> QED BY <3>1, <3>2, <3>3, Zenon
  <2>2. BytesAt(s, z, v, j)
    <3> SUFFICES ASSUME NEW i \in 1 .. j PROVE s[z + i] = v[i]
      BY DEF BytesAt
    <3>1. 5 + i \in 1 .. m /\ o + (5 + i) = z + i /\ i \in 1 .. 4
      BY <2>1
    <3>2. s[o + (5 + i)] = e[5 + i] /\ e[5 + i] = PutUint32(l)[i]
      BY <1>2, <1>4, <3>1, Zenon
    <3> QED BY <2>1, <3>1, <3>2, Zenon
  <2>3. z + j <= Len(s) /\ j <= Len(v)
    BY <1>1, <1>3, <2>1
  <2>4. SubSeq(s, z + 1, z + j) = SubSeq(v, 1, j)
    BY <2>2, <2>3, CutOut
  <2>5. SubSeq(v, 1, j) = v
    BY <2>1
  <2>6. z + 1 = o + 6 /\ z + j = o + 9
    BY <2>1
  <2>7. SubSeq(s, o + 6, o + 9) = PutUint32(l)
    BY <2>1, <2>4, <2>5, <2>6
  <2> QED BY <2>7, Uint32Is
<1>8. bodyLen(s, o) = k
  <2>1. CASE m = 9 + l
    <3>1. k = l /\ ~(l > N - o - 9)
      BY <1>3, <1>5, <2>1
    <3> QED BY <1>1, <1>7, <3>1 DEF bodyLen, cpHeaderLen
  <2>2. CASE m # 9 + l
    <3>1. l > N - o - 9 /\ N - o - 9 = k
      BY <1>3, <1>5, <2>2
    <3> QED BY <1>1, <1>7, <3>1 DEF bodyLen, cpHeaderLen
  <2> QED BY <2>1, <2>2
<1>9. Int8(s[o + 5]) = c
  <2>1. s[o + 5] = c % 256
    BY <1>2, <1>4
  <2>2. -128 <= c /\ c <= 127
    BY <1>1 DEF Framable
  <2> QED BY <2>1, <2>2, SMTT(30) DEF Int8
<1>10. SubSeq(s, (o + 9) + 1, (o + 9) + k) = SubSeq(d, 1, k)
  <2>1. PICK z \in Nat : z = o + 9
    OBVIOUS
  <2>2. BytesAt(s, z, d, k)
    <3> SUFFICES ASSUME NEW i \in 1 .. k PROVE s[z + i] = d[i]
      BY DEF BytesAt
    <3>1. 9 + i \in 1 .. m /\ o + (9 + i) = z + i /\ i \in 1 .. l
      BY <1>5, <2>1
    <3> QED BY <1>2, <1>4, <3>1, ZenonT(90)
  <2>3. z + k <= Len(s) /\ k <= Len(d)
    BY <1>1, <1>2, <1>3, <1>5, <2>1
  <2>4. SubSeq(s, z + 1, z + k) = SubSeq(d, 1, k)
    BY <2>2, <2>3, CutOut
  <2> QED BY <2>1, <2>4
<1>11. PICK at : at = [off |-> o, recs |-> q]
  OBVIOUS
<1>12. at.off = o /\ at.recs = q
  BY <1>11
<1>13. N - o # 0 /\ ~(N - o < 9)
  BY <1>3
<1>14. nextControl(s, at) = [off  |-> (o + 9) + k,
         recs |-> Append(q, Rec(Int8(s[o + 5]), SubSeq(s, (o + 9) + 1, (o + 9) + k)))]
  BY <1>1, <1>6, <1>8, <1>12, <1>13, Zenon DEF nextControl, cpHeaderLen
<1>15. (o + 9) + k = o + m
  BY <1>5
<1> QED BY <1>1, <1>5, <1>9, <1>10, <1>11, <1>14, <1>15, Zenon DEF Reads

\* Without a header, all that is left is terminal data.
LEMMA TurnPlain ==
  ASSUME NEW A, NEW e \in Seq(A), NEW s \in Seq(A), NEW o \in Nat, NEW m \in Nat, NEW q,
         0 < m, m <= Len(e), Len(s) = o + m, BytesAt(s, o, e, m),
         m < 9 \/ SubSeq(e, 1, 4) # cpMagic
  PROVE  Reads(s, o, q, m, Rec(cpTypePlainData, SubSeq(e, 1, m)))
<1>1. SubSeq(s, o + 1, o + m) = SubSeq(e, 1, m)
  BY CutOut, SMTT(30)
<1>2. m < 9 \/ SubSeq(s, o + 1, o + 4) # cpMagic
  <2> SUFFICES ASSUME ~(m < 9) PROVE SubSeq(s, o + 1, o + 4) = SubSeq(e, 1, 4)
    OBVIOUS
  <2>1. PICK j \in Nat : j = 4 /\ j <= m
    OBVIOUS
  <2>2. BytesAt(s, o, e, j) /\ o + j <= Len(s) /\ j <= Len(e)
    BY <2>1 DEF BytesAt
  <2>3. SubSeq(s, o + 1, o + j) = SubSeq(e, 1, j)
    BY <2>2, CutOut, SMTT(90)
  <2> QED BY <2>1, <2>3
<1>3. PICK at : at = [off |-> o, recs |-> q]
  OBVIOUS
<1>4. at.off = o /\ at.recs = q
  BY <1>3
<1>5. PICK N \in Nat : N = Len(s)
  OBVIOUS
<1>6. N - o = m /\ m # 0 /\ N = o + m
  BY <1>5
<1>7. nextControl(s, at)
        = [off  |-> N, recs |-> Append(q, Rec(cpTypePlainData, SubSeq(s, o + 1, N)))]
  BY <1>2, <1>4, <1>5, <1>6, Zenon DEF nextControl, cpHeaderLen
<1> QED BY <1>1, <1>3, <1>6, <1>7, Zenon DEF Reads

LEMMA TurnIdle ==
  ASSUME NEW s, NEW q, Len(s) \in Nat
  PROVE  nextControl(s, [off |-> Len(s), recs |-> q]) = [off |-> Len(s), recs |-> q]
<1>1. PICK at : at = [off |-> Len(s), recs |-> q]
  OBVIOUS
<1>2. at.off = Len(s) /\ Len(s) - Len(s) = 0
  BY <1>1
<1> QED BY <1>1, <1>2, Zenon DEF nextControl

\* The bytes of a record, and how many they are.
LEMMA RecordBytes ==
  ASSUME NEW A, Nat \subseteq A, NEW r \in Record(A), Framable(r) \/ Plainable(r)
  PROVE  /\ encodeControl(r) \in Seq(A) /\ Len(encodeControl(r)) \in Nat
         /\ Len(encodeControl(r)) >= 1 /\ Len(encodeControl(r)) = Size(r)
         /\ r.body \in Seq(A) /\ r = Rec(r.cpt, r.body)
<1>0. r.body \in Seq(A) /\ r.cpt \in Int /\ r = Rec(r.cpt, r.body)
  BY DEF Record, Rec
<1>1. CASE Framable(r)
  <2>1. encodeControl(r) \in Seq(A) /\ Len(r.body) \in Nat
    BY <1>1, FrameIs
  <2>2. IsFrame(encodeControl(r), r.cpt, r.body)
    BY <1>1, FrameIs
  <2>3. Len(encodeControl(r)) = 9 + Len(r.body)
    BY <2>2, Zenon DEF IsFrame
  <2>4. Size(r) = Len(r.body) + 9
    BY <1>1, Zenon DEF Size, Framable, cpHeaderLen
  <2> QED BY <1>0, <2>1, <2>3, <2>4
<1>2. CASE Plainable(r)
  <2>1. encodeControl(r) = r.body /\ Len(r.body) > 0
    BY <1>2 DEF encodeControl, Plainable
  <2>2. Size(r) = Len(r.body) + 0
    BY <1>2, Zenon DEF Size, Plainable
  <2> QED BY <1>0, <2>1, <2>2
<1> QED BY <1>1, <1>2

\* Where the k-th record of a payload t begins and ends.
LaidAt(recs, t, E, k) ==
  /\ E[k - 1] \in Nat /\ E[k] \in Nat
  /\ E[k] = E[k - 1] + Len(encodeControl(recs[k])) /\ E[k] <= Len(t)
  /\ BytesAt(t, E[k - 1], encodeControl(recs[k]), Len(encodeControl(recs[k])))

Laid(recs, t, E) ==
  /\ E[0] = 0 /\ E[Len(recs)] = Len(t)
  /\ \A k \in 0 .. Len(recs) : E[k] \in Nat /\ E[k] = EndOf(recs, k)
  /\ \A k \in 1 .. Len(recs) : LaidAt(recs, t, E, k)

LEMMA Layout ==
  ASSUME NEW A, NEW recs, WellFormed(recs, A)
  PROVE  /\ encodeAll(recs) \in Seq(A)
         /\ \E E : Laid(recs, encodeAll(recs), E)
<1>0. Len(recs) \in Nat /\ Nat \subseteq A /\ recs \in Seq(Record(A))
  BY DEF WellFormed
<1>1. ASSUME NEW i \in 1 .. Len(recs)
      PROVE  /\ encodeControl(recs[i]) \in Seq(A) /\ Len(encodeControl(recs[i])) \in Nat
             /\ Len(encodeControl(recs[i])) = Size(recs[i])
  <2>1. recs[i] \in Record(A) /\ (Framable(recs[i]) \/ Plainable(recs[i]))
    BY <1>0 DEF WellFormed
  <2> QED BY <1>0, <2>1, RecordBytes
<1>2. PICK q : q = [i \in 1 .. Len(recs) |-> encodeControl(recs[i])]
  OBVIOUS
<1>3. /\ q \in Seq(Seq(A)) /\ Len(q) = Len(recs)
      /\ \A i \in 1 .. Len(recs) : q[i] = encodeControl(recs[i])
  BY <1>0, <1>1, <1>2
<1>4. PICK f \in [0 .. Len(q) -> Seq(A)] : Concats(f, q)
  BY <1>3, ConcatsExist
<1>5. PICK t \in Seq(A) : t = f[Len(q)] /\ t = encodeAll(recs)
  <2>1. encodeAll(recs) = f[Len(q)]
    BY <1>2, <1>3, <1>4, FlattenIs DEF encodeAll
  <2>2. Len(q) \in 0 .. Len(q)
    BY <1>0, <1>3
  <2>3. f[Len(q)] \in Seq(A)
    BY <1>4, <2>2
  <2> QED BY <2>1, <2>3
<1>6. PICK E : E = [k \in 0 .. Len(recs) |-> Len(f[k])]
  OBVIOUS
<1>7. \A k \in 0 .. Len(recs) : E[k] = Len(f[k]) /\ E[k] \in Nat
  <2> SUFFICES ASSUME NEW k \in 0 .. Len(recs) PROVE E[k] = Len(f[k]) /\ E[k] \in Nat
    OBVIOUS
  <2>1. k \in 0 .. Len(q)
    BY <1>3
  <2>2. f[k] \in Seq(A)
    BY <1>4, <2>1
  <2> QED BY <1>6, <2>2
<1>8. E[0] = 0 /\ E[Len(recs)] = Len(t)
  <2>1. 0 \in 0 .. Len(recs) /\ Len(recs) \in 0 .. Len(recs)
    BY <1>0
  <2>2. f[0] = << >> /\ Len(<< >>) = 0
    BY <1>4 DEF Concats
  <2> QED BY <1>3, <1>5, <1>7, <2>1, <2>2
<1>9. ASSUME NEW k \in 1 .. Len(recs) PROVE LaidAt(recs, t, E, k)
  <2>1. k \in 1 .. Len(q) /\ k \in 0 .. Len(recs) /\ k - 1 \in 0 .. Len(recs)
    BY <1>0, <1>3
  <2>2. /\ Len(q[k]) \in Nat /\ Len(f[k - 1]) \in Nat /\ Len(f[k]) \in Nat
        /\ Len(f[k]) = Len(f[k - 1]) + Len(q[k])
        /\ Len(f[k]) <= Len(f[Len(q)])
        /\ \A i \in 1 .. Len(q[k]) : f[Len(q)][Len(f[k - 1]) + i] = q[k][i]
    <3>1. q \in Seq(Seq(A))
      BY <1>3
    <3>2. BlockAt(f, q, k)
      BY <1>4, <2>1, <3>1, ConcatsAt
    <3> QED BY <3>2, Zenon DEF BlockAt
  <2>3. E[k] = Len(f[k]) /\ E[k - 1] = Len(f[k - 1]) /\ E[k] \in Nat /\ E[k - 1] \in Nat
    BY <1>7, <2>1
  <2> QED BY <1>3, <1>5, <2>2, <2>3, Zenon DEF LaidAt, BytesAt
<1>10. ASSUME NEW k \in 0 .. Len(recs) PROVE E[k] = EndOf(recs, k)
  <2>0. k \in Nat /\ \A i \in 1 .. k : i \in 1 .. Len(recs)
    BY <1>0
  <2>1. PICK z : z = [j \in 1 .. k |-> Size(recs[j])]
    OBVIOUS
  <2>2. /\ z \in Seq(Nat) /\ Len(z) = k
        /\ \A j \in 1 .. k : z[j] = Len(encodeControl(recs[j]))
    BY <1>1, <2>0, <2>1
  <2>3. PrefixSums(E, z, k)
    <3> SUFFICES ASSUME NEW i \in 1 .. k PROVE E[i] = E[i - 1] + z[i]
      BY <1>8 DEF PrefixSums
    <3>1. LaidAt(recs, t, E, i)
      BY <1>9, <2>0
    <3> QED BY <2>2, <3>1 DEF LaidAt
  <2>4. Sum(z) = E[k]
    BY <2>2, <2>3, SumIs
  <2> QED BY <2>1, <2>4 DEF EndOf
<1>11. Laid(recs, t, E)
  BY <1>7, <1>8, <1>9, <1>10 DEF Laid
<1> QED BY <1>5, <1>11

\* The number of whole records Meaning takes exists.
LEMMA WholeExists ==
  ASSUME NEW A, NEW recs, WellFormed(recs, A), NEW len \in Nat
  PROVE  \E w \in 0 .. Len(recs) : Whole(recs, len, w)
<1>0. Len(recs) \in Nat
  BY DEF WellFormed
<1>1. PICK E : Laid(recs, encodeAll(recs), E)
  BY Layout
<1>2. E[0] = 0 /\ \A k \in 0 .. Len(recs) : E[k] \in Nat /\ EndOf(recs, k) = E[k]
  BY <1>1 DEF Laid
<1>3. PICK T : T = {c \in Nat : c <= Len(recs) /\ E[c] > len}
  OBVIOUS
<1>4. CASE T = {}
  <2>1. Len(recs) \in 0 .. Len(recs) /\ ~(E[Len(recs)] > len) /\ E[Len(recs)] \in Nat
    BY <1>0, <1>2, <1>3, <1>4
  <2>2. Whole(recs, len, Len(recs))
    BY <1>0, <1>2, <2>1 DEF Whole
  <2> QED BY <2>1, <2>2
<1>5. CASE T # {}
  <2>1. PICK c \in T : \A y \in T : c <= y
    BY <1>3, <1>5, Least
  <2>2. c \in Nat /\ c <= Len(recs) /\ E[c] > len /\ c # 0
    BY <1>2, <1>3
  <2>3. PICK w \in Nat : c = w + 1
    <3>1. c - 1 \in Nat /\ c = (c - 1) + 1
      BY <2>2
    <3> QED BY <3>1
  <2>4. w \in 0 .. Len(recs) /\ w + 1 \in 0 .. Len(recs) /\ ~(c <= w)
    BY <1>0, <2>2, <2>3
  <2>5. ~(E[w] > len)
    BY <1>0, <1>3, <2>1, <2>4
  <2>6. Whole(recs, len, w)
    BY <1>2, <2>2, <2>3, <2>4, <2>5 DEF Whole
  <2> QED BY <2>4, <2>6
<1> QED BY <1>4, <1>5

\* A record has a byte at least.
LEMMA LaidGrows ==
  ASSUME NEW A, NEW recs, WellFormed(recs, A), NEW E, Laid(recs, encodeAll(recs), E),
         NEW k \in 0 .. Len(recs)
  PROVE  k <= E[k]
<1> DEFINE S == {j \in Nat : j <= Len(recs) => j <= E[j]}
<1>0. Len(recs) \in Nat /\ E[0] = 0 /\ Nat \subseteq A /\ recs \in Seq(Record(A))
  BY DEF WellFormed, Laid
<1>1. 0 \in S
  BY <1>0
<1>2. ASSUME NEW j \in S PROVE j + 1 \in S
  <2>0. j \in Nat
    OBVIOUS
  <2> SUFFICES ASSUME j + 1 <= Len(recs) PROVE j + 1 <= E[j + 1]
    BY <2>0
  <2>1. j + 1 \in 1 .. Len(recs) /\ (j + 1) - 1 = j /\ j <= E[j]
    BY <1>0, <2>0
  <2>2. LaidAt(recs, encodeAll(recs), E, j + 1)
    BY <2>1 DEF Laid
  <2>3. recs[j + 1] \in Record(A) /\ (Framable(recs[j + 1]) \/ Plainable(recs[j + 1]))
    BY <1>0, <2>1 DEF WellFormed
  <2>4. Len(encodeControl(recs[j + 1])) >= 1 /\ Len(encodeControl(recs[j + 1])) \in Nat
    BY <1>0, <2>3, RecordBytes
  <2> QED BY <2>0, <2>1, <2>2, <2>4 DEF LaidAt
<1>3. S = Nat
  <2> HIDE DEF S
  <2>1. S \in SUBSET Nat
    BY DEF S
  <2> QED BY <1>1, <1>2, <2>1, SetInduction
<1>4. k \in S
  <2>1. k \in Nat
    BY <1>0
  <2> HIDE DEF S
  <2> QED BY <1>3, <2>1
<1> QED BY <1>0, <1>4

\* One turn that begins at a record reads it, or what the cut left of it.
LEMMA TurnWhole ==
  ASSUME NEW A, Nat \subseteq A, NEW r \in Record(A), NEW s \in Seq(A), NEW o \in Nat, NEW q,
         o + Len(encodeControl(r)) <= Len(s),
         BytesAt(s, o, encodeControl(r), Len(encodeControl(r))),
         Framable(r) \/ (Plainable(r) /\ Len(s) = o + Len(encodeControl(r)))
  PROVE  Reads(s, o, q, Len(encodeControl(r)), r)
<1>1. /\ encodeControl(r) \in Seq(A) /\ Len(encodeControl(r)) \in Nat
      /\ Len(encodeControl(r)) >= 1 
      /\ r.body \in Seq(A) /\ r = Rec(r.cpt, r.body)
  BY RecordBytes
<1>2. PICK m \in Nat : m = Len(encodeControl(r))
  BY <1>1
<1>3. CASE Framable(r)
  <2>1. IsFrame(encodeControl(r), r.cpt, r.body) /\ Len(r.body) \in Nat
    BY <1>3, FrameIs
  <2>2. m = 9 + Len(r.body)
    BY <1>2, <2>1, Zenon DEF IsFrame
  <2>3. 9 <= m /\ m - 9 = Len(r.body)
    BY <2>1, <2>2
  <2>4. SubSeq(r.body, 1, m - 9) = r.body
    BY <1>1, <2>3
  <2>5. Reads(s, o, q, m, Rec(r.cpt, SubSeq(r.body, 1, m - 9)))
    <3>1. m <= Len(encodeControl(r)) /\ o + m <= Len(s)
      BY <1>2
    <3>2. m = Len(encodeControl(r)) \/ Len(s) = o + m
      BY <1>2
    <3>3. BytesAt(s, o, encodeControl(r), m)
      BY <1>2
    <3> QED BY <1>3, <2>3, <3>1, <3>2, <3>3, TurnFramed
  <2> QED BY <1>1, <1>2, <2>4, <2>5
<1>4. CASE Plainable(r) /\ Len(s) = o + Len(encodeControl(r))
  <2>1. encodeControl(r) = r.body /\ r.cpt = cpTypePlainData
    BY <1>4 DEF encodeControl, Plainable
  <2>2. PICK e \in Seq(A) : e = r.body /\ m = Len(e)
    BY <1>1, <1>2, <2>1
  <2>3. m < 9 \/ SubSeq(e, 1, 4) # cpMagic
    BY <1>4, <2>2 DEF Plainable, cpHeaderLen
  <2>4. 0 < m /\ m <= Len(e) /\ Len(s) = o + m /\ BytesAt(s, o, e, m)
    BY <1>1, <1>2, <1>4, <2>1, <2>2
  <2>5. Reads(s, o, q, m, Rec(cpTypePlainData, SubSeq(e, 1, m)))
    BY <2>3, <2>4, TurnPlain
  <2>6. SubSeq(e, 1, m) = e
    BY <2>2
  <2> QED BY <1>1, <1>2, <2>1, <2>2, <2>5, <2>6
<1> QED BY <1>3, <1>4

LEMMA TurnCut ==
  ASSUME NEW A, Nat \subseteq A, NEW r \in Record(A), Framable(r) \/ Plainable(r),
         NEW s \in Seq(A), NEW o \in Nat, NEW m \in Nat, NEW q,
         0 < m, m < Len(encodeControl(r)), Len(s) = o + m,
         BytesAt(s, o, encodeControl(r), m)
  PROVE  Reads(s, o, q, m, CutRecord(r, m))
<1>1. PICK e \in Seq(A) : e = encodeControl(r) /\ Len(e) \in Nat /\ m < Len(e) /\ m <= Len(e)
  <2>1. encodeControl(r) \in Seq(A) /\ Len(encodeControl(r)) \in Nat
    BY RecordBytes
  <2>2. m <= Len(encodeControl(r))
    BY <2>1
  <2> QED BY <2>1, <2>2
<1>2. BytesAt(s, o, e, m)
  BY <1>1
<1>3. CASE Framable(r) /\ ~(m < 9)
  <2>1. Reads(s, o, q, m, Rec(r.cpt, SubSeq(r.body, 1, m - 9)))
    <3>1. 9 <= m
      BY <1>3
    <3>2. m <= Len(encodeControl(r))
      BY <1>1
    <3>3. o + m <= Len(s)
      OBVIOUS
    <3> QED BY <1>3, <3>1, <3>2, <3>3, TurnFramed, Zenon
  <2>2. CutRecord(r, m) = Rec(r.cpt, SubSeq(r.body, 1, m - 9))
    BY <1>3, Zenon DEF CutRecord, Framable, cpHeaderLen
  <2> QED BY <2>1, <2>2
<1>4. CASE Framable(r) /\ m < 9
  <2>1. Reads(s, o, q, m, Rec(cpTypePlainData, SubSeq(e, 1, m)))
    <3>1. m < 9 \/ SubSeq(e, 1, 4) # cpMagic
      BY <1>4
    <3> QED BY <1>1, <1>2, <3>1, TurnPlain
  <2>2. CutRecord(r, m) = Rec(cpTypePlainData, SubSeq(e, 1, m))
    BY <1>1, <1>4, Zenon DEF CutRecord, Framable, cpHeaderLen
  <2> QED BY <2>1, <2>2
<1>5. CASE Plainable(r)
  <2>1. e = r.body /\ r.cpt = cpTypePlainData
    BY <1>1, <1>5 DEF encodeControl, Plainable
  <2>2. m < 9 \/ SubSeq(e, 1, 4) # cpMagic
    BY <1>1, <1>5, <2>1 DEF Plainable, cpHeaderLen
  <2>3. Reads(s, o, q, m, Rec(cpTypePlainData, SubSeq(e, 1, m)))
    BY <1>1, <1>2, <2>2, TurnPlain
  <2>4. CutRecord(r, m) = Rec(cpTypePlainData, SubSeq(e, 1, m))
    BY <2>1, Zenon DEF CutRecord
  <2> QED BY <2>3, <2>4
<1> QED BY <1>3, <1>4, <1>5

LEMMA LaidOrdered ==
  ASSUME NEW A, NEW recs, WellFormed(recs, A), NEW E, Laid(recs, encodeAll(recs), E),
         NEW j \in 0 .. Len(recs), NEW k \in 0 .. Len(recs), j <= k
  PROVE  E[j] <= E[k]
<1> DEFINE S == {d \in Nat : j + d <= Len(recs) => E[j] <= E[j + d]}
<1>0. /\ Len(recs) \in Nat /\ Nat \subseteq A /\ recs \in Seq(Record(A)) /\ j \in Nat
      /\ \A i \in 0 .. Len(recs) : E[i] \in Nat
  BY DEF WellFormed, Laid
<1>1. 0 \in S
  BY <1>0
<1>2. ASSUME NEW d \in S PROVE d + 1 \in S
  <2>0. d \in Nat
    OBVIOUS
  <2> SUFFICES ASSUME j + (d + 1) <= Len(recs) PROVE E[j] <= E[j + (d + 1)]
    BY <2>0
  <2>1. PICK i \in Nat : i = j + d /\ j + (d + 1) = i + 1
    BY <1>0, <2>0
  <2>2. /\ i + 1 \in 1 .. Len(recs) /\ (i + 1) - 1 = i /\ i \in 0 .. Len(recs)
        /\ E[j] <= E[i] /\ j \in 0 .. Len(recs)
    BY <1>0, <2>0, <2>1
  <2>3. LaidAt(recs, encodeAll(recs), E, i + 1)
    BY <2>2 DEF Laid
  <2>4. recs[i + 1] \in Record(A) /\ (Framable(recs[i + 1]) \/ Plainable(recs[i + 1]))
    BY <1>0, <2>2 DEF WellFormed
  <2>5. Len(encodeControl(recs[i + 1])) \in Nat
    BY <1>0, <2>4, RecordBytes
  <2>6. E[i] <= E[i + 1] /\ E[i] \in Nat /\ E[i + 1] \in Nat /\ E[j] \in Nat
    BY <1>0, <2>2, <2>3, <2>5 DEF LaidAt
  <2> QED BY <2>1, <2>2, <2>6
<1>3. S = Nat
  <2> HIDE DEF S
  <2>1. S \in SUBSET Nat
    BY DEF S
  <2> QED BY <1>1, <1>2, <2>1, SetInduction
<1>4. PICK d \in Nat : d = k - j /\ j + d = k /\ j + d <= Len(recs)
  <2>1. k - j \in Nat /\ j + (k - j) = k /\ k <= Len(recs)
    BY <1>0
  <2> QED BY <2>1
<1>5. d \in S
  <2> HIDE DEF S
  <2> QED BY <1>3
<1> QED BY <1>4, <1>5

\* What iterateControl returns, from what its turns read.
Turns(s, m, At) ==
  /\ At = [k \in 0 .. m |-> At[k]]
  /\ At[0] = [off |-> 0, recs |-> << >>]
  /\ \A k \in 1 .. m : nextControl(s, At[k - 1]) = At[k]

LEMMA IterateIs ==
  ASSUME NEW s, NEW m \in Nat, m = Len(s), NEW At, Turns(s, m, At)
  PROVE  iterateControl(s) = At[m].recs
<1>0. /\ At = [k \in 0 .. m |-> At[k]]
      /\ At[0] = [off |-> 0, recs |-> << >>]
      /\ \A k \in 1 .. m : nextControl(s, At[k - 1]) = At[k]
  BY Zenon DEF Turns
<1> DEFINE Step(h) == [k \in 0 .. m |->
             IF k = 0 THEN [off |-> 0, recs |-> << >>] ELSE nextControl(s, h[k - 1])]
<1>1. At = Step(At)
  <2>1. ASSUME NEW k \in 0 .. m
        PROVE  At[k] = IF k = 0 THEN [off |-> 0, recs |-> << >>] ELSE nextControl(s, At[k - 1])
    <3>1. k # 0 => k \in 1 .. m
      OBVIOUS
    <3> QED BY <1>0, <3>1
  <2>2. [k \in 0 .. m |-> At[k]] = Step(At)
    BY <2>1
  <2> QED BY <1>0, <2>2
<1>2. PICK h : h = Step(h) /\ iterateControl(s) = h[m].recs
  BY <1>1 DEF iterateControl
<1>3. h[m] = At[m]
  <2> DEFINE S == {k \in Nat : k <= m => h[k] = At[k]}
  <2>1. 0 \in S
    BY <1>0, <1>2
  <2>2. ASSUME NEW k \in S PROVE k + 1 \in S
    <3>0. k \in Nat
      OBVIOUS
    <3> SUFFICES ASSUME k + 1 <= m PROVE h[k + 1] = At[k + 1]
      BY <3>0
    <3>1. /\ k + 1 \in 0 .. m /\ k + 1 \in 1 .. m /\ k + 1 # 0 /\ (k + 1) - 1 = k
          /\ h[k] = At[k]
      BY <3>0
    <3>2. h[k + 1] = nextControl(s, h[k])
      BY <1>2, <3>1
    <3>3. nextControl(s, At[(k + 1) - 1]) = At[k + 1]
      BY <1>0, <3>1
    <3> QED BY <3>1, <3>2, <3>3
  <2>3. S = Nat
    <3> HIDE DEF S
    <3>1. S \in SUBSET Nat
      BY DEF S
    <3> QED BY <2>1, <2>2, <3>1, SetInduction
  <2>4. m \in S
    <3> HIDE DEF S
    <3> QED BY <2>3
  <2> QED BY <2>4
<1> QED BY <1>2, <1>3

LEMMA MeaningIs ==
  ASSUME NEW A, NEW recs, WellFormed(recs, A), NEW len \in Nat
  PROVE  \E w \in 0 .. Len(recs) :
           /\ Whole(recs, len, w)
           /\ Meaning(recs, len) =
                SubSeq(recs, 1, w) \o
                  (IF len - EndOf(recs, w) = 0 THEN << >>
                   ELSE <<CutRecord(recs[w + 1], len - EndOf(recs, w))>>)
<1>1. \E w \in 0 .. Len(recs) : Whole(recs, len, w)
  BY WholeExists
<1> DEFINE w == CHOOSE i \in 0 .. Len(recs) : Whole(recs, len, i)
<1>3. w \in 0 .. Len(recs) /\ Whole(recs, len, w)
  BY <1>1, Zenon
<1>4. Meaning(recs, len) =
        SubSeq(recs, 1, w) \o
          (IF len - EndOf(recs, w) = 0 THEN << >>
           ELSE <<CutRecord(recs[w + 1], len - EndOf(recs, w))>>)
  BY DEF Meaning
<1> HIDE DEF w
<1> QED BY <1>3, <1>4

\* The records iterateControl finds in a payload of which len bytes arrived.
LEMMA Decoding ==
  ASSUME NEW A, NEW recs, WellFormed(recs, A), NEW len \in Nat,
         len <= Len(encodeAll(recs))
  PROVE  iterateControl(SubSeq(encodeAll(recs), 1, len)) = Meaning(recs, len)
<1>1. PICK t \in Seq(A), K \in Nat : t = encodeAll(recs) /\ K = Len(recs) /\ len <= Len(t)
  <2>1. Len(recs) \in Nat
    BY DEF WellFormed
  <2> QED BY <2>1, Layout
<1>2. PICK E : Laid(recs, t, E)
  BY <1>1, Layout
<1>3. /\ E[0] = 0 /\ E[K] = Len(t)
      /\ \A k \in 0 .. K : E[k] \in Nat /\ E[k] = EndOf(recs, k)
      /\ \A k \in 1 .. K : LaidAt(recs, t, E, k)
  BY <1>1, <1>2, Zenon DEF Laid
<1>4. \A k \in 0 .. K : k <= E[k]
  BY <1>1, <1>2, LaidGrows
<1>5. PICK w \in 0 .. K :
        /\ Whole(recs, len, w)
        /\ Meaning(recs, len) =
             SubSeq(recs, 1, w) \o
               (IF len - EndOf(recs, w) = 0 THEN << >>
                ELSE <<CutRecord(recs[w + 1], len - EndOf(recs, w))>>)
  BY <1>1, MeaningIs, Zenon
<1>a. PICK o \in Nat, m \in Nat : o = E[w] /\ o = EndOf(recs, w) /\ m = len - o /\ len = o + m
  <2>1. E[w] \in Nat /\ E[w] = EndOf(recs, w) /\ E[w] <= len
    BY <1>3, <1>5 DEF Whole
  <2>2. len - E[w] \in Nat /\ len = E[w] + (len - E[w])
    BY <2>1
  <2> QED BY <2>1, <2>2
<1>6. /\ Meaning(recs, len) = SubSeq(recs, 1, w) \o
           (IF m = 0 THEN << >> ELSE <<CutRecord(recs[w + 1], m)>>)
      /\ o = E[w] /\ len = o + m
  BY <1>5, <1>a, Zenon
<1>7. w < K => w + 1 \in 1 .. K /\ E[w + 1] > len
  <2> SUFFICES ASSUME w < K PROVE w + 1 \in 1 .. K /\ E[w + 1] > len
    OBVIOUS
  <2>1. w + 1 \in 1 .. K /\ w + 1 \in 0 .. K
    OBVIOUS
  <2> QED BY <1>1, <1>3, <1>5, <2>1 DEF Whole
<1>8. w <= o /\ o <= len /\ (w = K => m = 0)
  <2>1. w <= o /\ o <= len
    BY <1>4, <1>6
  <2>2. w = K => Len(t) = o
    BY <1>3, <1>6
  <2> QED BY <1>1, <1>6, <2>1, <2>2
<1>9. ASSUME NEW k \in 0 .. w PROVE E[k] \in Nat /\ E[k] <= o
  <2>1. k \in 0 .. Len(recs) /\ w \in 0 .. Len(recs) /\ k <= w
    BY <1>1
  <2>2. E[k] <= E[w]
    BY <1>1, <1>2, <2>1, LaidOrdered
  <2> QED BY <1>1, <1>3, <1>6, <2>1, <2>2
<1>10. PICK s : s = SubSeq(t, 1, len)
  OBVIOUS
<1>11. s \in Seq(A) /\ Len(s) = len /\ \A i \in 1 .. len : s[i] = t[i]
  BY <1>1, <1>10
<1>12. PICK At : At = [k \in 0 .. len |->
                        IF k <= w THEN [off |-> E[k], recs |-> SubSeq(recs, 1, k)]
                        ELSE [off |-> len, recs |-> Meaning(recs, len)]]
  OBVIOUS
<1>13. recs \in Seq(Record(A)) /\ Nat \subseteq A
  BY DEF WellFormed
<1>14. \A k \in 0 .. w : k \in 0 .. len
  BY <1>8
<1>15. At[0] = [off |-> 0, recs |-> << >>]
  <2>1. 0 \in 0 .. len /\ 0 <= w
    BY <1>1
  <2>2. SubSeq(recs, 1, 0) = << >>
    BY <1>13
  <2> QED BY <1>3, <1>12, <2>1, <2>2
<1>16. ASSUME NEW k \in 1 .. w
       PROVE  nextControl(s, At[k - 1]) = At[k]
  <2>1. /\ k \in 1 .. K /\ k \in 0 .. w /\ k - 1 \in 0 .. w
        /\ k <= w /\ k - 1 <= w
    BY <1>1
  <2>2. PICK r \in Record(A), q \in {SubSeq(recs, 1, k - 1)} : r = recs[k]
    <3>1. recs[k] \in Record(A)
      BY <1>1, <1>13, <2>1
    <3> QED BY <3>1
  <2>3. (k = K /\ Plainable(r)) \/ Framable(r)
    BY <1>1, <2>1, <2>2 DEF WellFormed
  <2>4. encodeControl(r) \in Seq(A) /\ Len(encodeControl(r)) \in Nat
    BY <1>13, <2>3, RecordBytes
  <2>5. PICK x \in Nat, z \in Nat :
          /\ x = E[k - 1] /\ z = Len(encodeControl(r)) /\ E[k] = x + z /\ x + z <= len
          /\ BytesAt(t, x, encodeControl(r), z)
    <3>1. LaidAt(recs, t, E, k)
      BY <1>3, <2>1
    <3>2. E[k] <= o /\ o <= len /\ E[k] \in Nat
      BY <1>8, <1>9, <2>1
    <3>3. E[k - 1] \in Nat /\ E[k] = E[k - 1] + Len(encodeControl(r)) /\ E[k] <= len
      BY <2>2, <3>1, <3>2 DEF LaidAt
    <3>4. BytesAt(t, E[k - 1], encodeControl(r), Len(encodeControl(r)))
      BY <2>2, <3>1 DEF LaidAt
    <3> QED BY <2>4, <3>3, <3>4
  <2>6. BytesAt(s, x, encodeControl(r), z)
    <3> SUFFICES ASSUME NEW i \in 1 .. z PROVE s[x + i] = encodeControl(r)[i]
      BY DEF BytesAt
    <3>1. x + i \in 1 .. len
      BY <2>5, SMTT(30)
    <3> QED BY <1>11, <2>5, <3>1 DEF BytesAt
  <2>7. Framable(r) \/ (Plainable(r) /\ Len(s) = x + z)
    <3> SUFFICES ASSUME k = K PROVE len = x + z
      BY <1>11, <2>3
    <3>1. E[k] = Len(t)
      BY <1>3
    <3> QED BY <1>1, <2>5, <3>1
  <2>8. Reads(s, x, q, z, r)
    <3>1. x + z <= Len(s)
      BY <1>11, <2>5
    <3> QED BY <1>11, <1>13, <2>5, <2>6, <2>7, <3>1, TurnWhole
  <2>9. Append(q, r) = SubSeq(recs, 1, k)
    BY <1>1, <1>13, <2>1, <2>2, SMTT(30)
  <2>10. At[k - 1] = [off |-> x, recs |-> q]
    BY <1>12, <1>14, <2>1, <2>2, <2>5
  <2>11. At[k] = [off |-> x + z, recs |-> SubSeq(recs, 1, k)]
    BY <1>12, <1>14, <2>1, <2>5
  <2> QED BY <2>8, <2>9, <2>10, <2>11 DEF Reads
<1>17. m = 0 => [off |-> len, recs |-> Meaning(recs, len)] = [off |-> o, recs |-> SubSeq(recs, 1, w)]
  <2> SUFFICES ASSUME m = 0 PROVE Meaning(recs, len) = SubSeq(recs, 1, w) /\ len = o
    OBVIOUS
  <2>1. len = o
    BY <1>6
  <2>2. SubSeq(recs, 1, w) \in Seq(Record(A))
    BY <1>1, <1>13
  <2>3. SubSeq(recs, 1, w) \o << >> = SubSeq(recs, 1, w)
    BY <2>2
  <2> QED BY <1>6, <2>1, <2>3
<1>18. At[w] = [off |-> o, recs |-> SubSeq(recs, 1, w)]
  <2>1. w \in 0 .. len /\ w <= w
    BY <1>1, <1>14
  <2> QED BY <1>6, <1>12, <2>1
<1>19. nextControl(s, [off |-> o, recs |-> SubSeq(recs, 1, w)])
         = [off |-> len, recs |-> Meaning(recs, len)]
  <2>1. CASE m = 0
    <3>1. Len(s) = o
      BY <1>6, <1>11, <2>1
    <3> QED BY <1>17, <2>1, <3>1, TurnIdle
  <2>2. CASE m # 0
    <3>1. w < K /\ w + 1 \in 1 .. K /\ E[w + 1] > len /\ 0 < m
      BY <1>7, <1>8, <2>2
    <3>2. PICK r \in Record(A), q \in {SubSeq(recs, 1, w)} : r = recs[w + 1]
      <4>1. recs[w + 1] \in Record(A)
        BY <1>1, <1>13, <3>1
      <4> QED BY <4>1
    <3>3. Framable(r) \/ Plainable(r)
      BY <1>1, <3>1, <3>2 DEF WellFormed
    <3>4. encodeControl(r) \in Seq(A) /\ Len(encodeControl(r)) \in Nat
      BY <1>13, <3>3, RecordBytes
    <3>5. LaidAt(recs, t, E, w + 1) /\ (w + 1) - 1 = w
      BY <1>3, <3>1
    <3>6. m < Len(encodeControl(r))
      <4>1. E[w + 1] = o + Len(encodeControl(r))
        BY <1>6, <3>2, <3>5 DEF LaidAt
      <4> QED BY <1>6, <3>1, <3>4, <4>1
    <3>7. BytesAt(s, o, encodeControl(r), m)
      <4>1. BytesAt(t, o, encodeControl(r), Len(encodeControl(r)))
        BY <1>6, <3>2, <3>5 DEF LaidAt
      <4> SUFFICES ASSUME NEW i \in 1 .. m PROVE s[o + i] = encodeControl(r)[i]
        BY DEF BytesAt
      <4>2. o + i \in 1 .. len /\ i \in 1 .. Len(encodeControl(r))
        BY <1>6, <3>4, <3>6, SMTT(30)
      <4> QED BY <1>11, <4>1, <4>2 DEF BytesAt
    <3>8. Reads(s, o, q, m, CutRecord(r, m))
      <4>1. Len(s) = o + m
        BY <1>6, <1>11
      <4> QED BY <1>11, <1>13, <3>1, <3>3, <3>6, <3>7, <4>1, TurnCut
    <3>9. Append(q, CutRecord(r, m)) = q \o <<CutRecord(r, m)>>
      <4>1. q \in Seq(Record(A))
        BY <1>1, <1>13, <3>2
      <4> QED BY <4>1
    <3>10. Meaning(recs, len) = Append(q, CutRecord(r, m))
      BY <1>6, <2>2, <3>2, <3>9
    <3> QED BY <1>6, <3>2, <3>8, <3>10 DEF Reads
  <2> QED BY <2>1, <2>2
<1>20. ASSUME NEW k \in 1 .. len, ~(k <= w)
       PROVE  nextControl(s, At[k - 1]) = At[k]
  <2>1. k \in 0 .. len /\ k - 1 \in 0 .. len
    OBVIOUS
  <2>2. At[k] = [off |-> len, recs |-> Meaning(recs, len)]
    BY <1>12, <1>20, <2>1
  <2>3. CASE k - 1 <= w
    <3>1. k - 1 = w
      BY <1>1, <1>20, <2>3
    <3> QED BY <1>18, <1>19, <2>2, <3>1
  <2>4. CASE ~(k - 1 <= w)
    <3>1. At[k - 1] = [off |-> len, recs |-> Meaning(recs, len)]
      BY <1>12, <2>1, <2>4
    <3>2. len = Len(s)
      BY <1>11
    <3> QED BY <2>2, <3>1, <3>2, TurnIdle
  <2> QED BY <2>3, <2>4
<1>21. iterateControl(s) = At[len].recs
  <2>1. \A k \in 1 .. len : nextControl(s, At[k - 1]) = At[k]
    <3> SUFFICES ASSUME NEW k \in 1 .. len PROVE nextControl(s, At[k - 1]) = At[k]
      OBVIOUS
    <3>1. k <= w => k \in 1 .. w
      BY <1>1
    <3> QED BY <1>16, <1>20, <3>1
  <2>2. At = [k \in 0 .. len |-> At[k]]
    BY <1>12
  <2>3. len = Len(s)
    BY <1>11
  <2>4. Turns(s, len, At)
    BY <1>15, <2>1, <2>2, Zenon DEF Turns
  <2> QED BY <2>3, <2>4, IterateIs
<1>22. At[len].recs = Meaning(recs, len)
  <2>1. len \in 0 .. len
    OBVIOUS
  <2>2. CASE len <= w
    <3>1. len = w /\ m = 0
      BY <1>6, <1>8, <2>2
    <3> QED BY <1>17, <1>18, <3>1
  <2>3. CASE ~(len <= w)
    BY <1>12, <2>1, <2>3
  <2> QED BY <2>2, <2>3
<1> QED BY <1>1, <1>10, <1>21, <1>22

\* A payload that arrives whole is read back record for record.
LEMMA RoundTrip ==
  ASSUME NEW A, NEW recs, WellFormed(recs, A)
  PROVE  iterateControl(encodeAll(recs)) = recs
<1>1. PICK t \in Seq(A), K \in Nat, len \in Nat :
        t = encodeAll(recs) /\ K = Len(recs) /\ len = Len(t)
  <2>1. Len(recs) \in Nat
    BY DEF WellFormed
  <2> QED BY <2>1, Layout
<1>2. PICK E : Laid(recs, t, E)
  BY <1>1, Layout
<1>3. E[K] = len /\ \A k \in 0 .. K : E[k] \in Nat /\ E[k] = EndOf(recs, k)
  BY <1>1, <1>2, Zenon DEF Laid
<1>4. PICK w \in 0 .. K :
        /\ Whole(recs, len, w)
        /\ Meaning(recs, len) =
             SubSeq(recs, 1, w) \o
               (IF len - EndOf(recs, w) = 0 THEN << >>
                ELSE <<CutRecord(recs[w + 1], len - EndOf(recs, w))>>)
  BY <1>1, MeaningIs, Zenon
<1>5. w = K
  <2> SUFFICES ASSUME w < K PROVE FALSE
    BY <1>1
  <2>1. w + 1 \in 0 .. Len(recs) /\ K \in 0 .. Len(recs) /\ w + 1 <= K
    BY <1>1
  <2>2. E[w + 1] <= E[K]
    BY <1>1, <1>2, <2>1, LaidOrdered
  <2>3. E[w + 1] > len
    BY <1>1, <1>3, <1>4, <2>1 DEF Whole
  <2> QED BY <1>1, <1>3, <2>1, <2>2, <2>3
<1>6. EndOf(recs, w) = len /\ len - len = 0
  BY <1>1, <1>3, <1>5
<1>7. recs \in Seq(Record(A))
  BY DEF WellFormed
<1>8. SubSeq(recs, 1, w) = recs
  BY <1>1, <1>5, <1>7
<1>9. recs \o << >> = recs
  BY <1>7
<1>10. Meaning(recs, len) = recs
  BY <1>4, <1>6, <1>8, <1>9
<1>11. iterateControl(SubSeq(encodeAll(recs), 1, len)) = Meaning(recs, len)
  <2>1. len <= Len(encodeAll(recs))
    BY <1>1
  <2> QED BY <2>1, Decoding
<1>12. SubSeq(t, 1, len) = t
  BY <1>1
<1> QED BY <1>1, <1>10, <1>11, <1>12

----------------------------------------------------------------------------
(* What arrives of the device's packet.                                    *)

\* The packet is well formed, and lost no more bytes than it has.
Sound(recs, cut) ==
  /\ cut \in Nat /\ cut <= Len(encodeAll(recs))
  /\ \E A : WellFormed(recs, A)

PacketInv == Sound(packet.recs, packet.cut)

LEMMA CutIsMeant ==
  ASSUME PacketInv
  PROVE  CutPacketKeepsPrefix
<1>1. PICK A : WellFormed(packet.recs, A)
  BY DEF PacketInv, Sound
<1>a. PICK recs : recs = packet.recs
  OBVIOUS
<1>2. PICK cut \in Nat, L \in Nat :
        /\ cut = packet.cut /\ L = Len(encodeAll(packet.recs)) /\ cut <= L
        /\ L = EndOf(packet.recs, Len(packet.recs))
  <2>1. encodeAll(packet.recs) \in Seq(A)
    BY <1>1, Layout
  <2>2. PICK E : Laid(packet.recs, encodeAll(packet.recs), E)
    BY <1>1, Layout
  <2>3. Len(packet.recs) \in 0 .. Len(packet.recs)
    BY <1>1 DEF WellFormed
  <2>4. EndOf(packet.recs, Len(packet.recs)) = Len(encodeAll(packet.recs))
    BY <2>2, <2>3 DEF Laid
  <2>5. Len(encodeAll(packet.recs)) \in Nat
    BY <2>1
  <2> QED BY <2>4, <2>5 DEF PacketInv, Sound
<1>3. PICK len \in Nat : len = L - cut /\ len <= L
  <2>1. L - cut \in Nat /\ L - cut <= L
    BY <1>2
  <2> QED BY <2>1
<1>4. iterateControl(SubSeq(encodeAll(recs), 1, len)) = Meaning(recs, len)
  BY <1>1, <1>a, <1>2, <1>3, Decoding
<1> QED BY <1>a, <1>2, <1>3, <1>4 DEF CutPacketKeepsPrefix, Decoded

LEMMA RecIs ==
  ASSUME NEW A, NEW c \in Int, NEW d \in Seq(A)
  PROVE  Rec(c, d) \in Record(A) /\ Rec(c, d).cpt = c /\ Rec(c, d).body = d
BY DEF Rec, Record

LEMMA FramableIs ==
  ASSUME NEW A, NEW c \in Nat, NEW d \in Seq(A), c <= 127
  PROVE  Rec(c, d) \in Record(A) /\ Framable(Rec(c, d))
<1>1. Rec(c, d) \in Record(A) /\ Rec(c, d).cpt = c
  BY RecIs
<1> QED BY <1>1 DEF Framable, cpTypePlainData

\* The packets the device sends PASSSALT in.
LEMMA AroundIs ==
  ASSUME NEW A, Nat \subseteq A, NEW d \in Seq(A),
         NEW recs \in Around(Rec(cpTypePassSalt, d))
  PROVE  WellFormed(recs, A) /\ 9 + Len(d) <= Len(encodeAll(recs))
<1>1. PICK r \in Record(A) : /\ r = Rec(cpTypePassSalt, d) /\ Framable(r)
                             /\ r.body = d
  <2>1. cpTypePassSalt \in Int /\ cpTypePassSalt = 1
    BY DEF cpTypePassSalt
  <2>2. /\ Rec(cpTypePassSalt, d) \in Record(A) /\ Rec(cpTypePassSalt, d).cpt = 1
        /\ Rec(cpTypePassSalt, d).body = d
    BY <2>1, RecIs
  <2>3. Framable(Rec(cpTypePassSalt, d))
    BY <2>2 DEF Framable, cpTypePlainData
  <2> QED BY <2>2, <2>3
<1>2. PICK u \in Record(A) : u = Rec(7, <<1>>) /\ Framable(u)
  <2>1. PICK z \in Seq(A), c \in Int : z = <<1>> /\ c = 7
    <3>1. <<1>> \in Seq(A) /\ 7 \in Int
      OBVIOUS
    <3> QED BY <3>1
  <2>2. Rec(c, z) \in Record(A) /\ Rec(c, z).cpt = c
    BY RecIs
  <2>3. Framable(Rec(c, z))
    BY <2>1, <2>2 DEF Framable, cpTypePlainData
  <2> QED BY <2>1, <2>2, <2>3
<1>3. PICK v \in Record(A) : v = Rec(cpTypePlainData, <<86, 52>>) /\ Plainable(v)
  <2>1. PICK z \in Seq(A), c \in Int : z = <<86, 52>> /\ c = cpTypePlainData /\ Len(z) = 2
    <3>1. <<86, 52>> \in Seq(A) /\ cpTypePlainData \in Int /\ Len(<<86, 52>>) = 2
      BY DEF cpTypePlainData
    <3> QED BY <3>1
  <2>2. Rec(c, z) \in Record(A) /\ Rec(c, z).cpt = c /\ Rec(c, z).body = z
    BY RecIs
  <2>3. ~(Len(z) >= 9) /\ Len(z) > 0
    BY <2>1
  <2>4. Plainable(Rec(c, z))
    BY <2>1, <2>2, <2>3, Zenon DEF Plainable, cpHeaderLen
  <2> QED BY <2>1, <2>2, <2>4
<1>4. recs = <<r>> \/ recs = <<u, r>> \/ recs = <<r, v>>
  BY <1>1, <1>2, <1>3 DEF Around
<1>5. WellFormed(recs, A) /\ \E k \in 1 .. Len(recs) : recs[k] = r
  <2>1. CASE recs = <<r>>
    <3>1. /\ recs \in Seq(Record(A)) /\ Len(recs) = 1 /\ 1 \in 1 .. Len(recs)
          /\ \A i \in 1 .. Len(recs) : recs[i] = r
      BY <2>1
    <3> QED BY <1>1, <3>1 DEF WellFormed
  <2>2. CASE recs = <<u, r>>
    <3>1. /\ recs \in Seq(Record(A)) /\ 2 \in 1 .. Len(recs) /\ recs[2] = r
          /\ \A i \in 1 .. Len(recs) : recs[i] = u \/ recs[i] = r
      BY <2>2
    <3> QED BY <1>1, <1>2, <3>1 DEF WellFormed
  <2>3. CASE recs = <<r, v>>
    <3>1. /\ recs \in Seq(Record(A)) /\ 1 \in 1 .. Len(recs) /\ recs[1] = r
          /\ \A i \in 1 .. Len(recs) : recs[i] = r \/ (i = Len(recs) /\ recs[i] = v)
      BY <2>3
    <3> QED BY <1>1, <1>3, <3>1 DEF WellFormed
  <2> QED BY <1>4, <2>1, <2>2, <2>3
<1>6. PICK k \in 1 .. Len(recs) : recs[k] = r
  BY <1>5
<1>7. PICK E : Laid(recs, encodeAll(recs), E)
  BY <1>5, Layout
<1>8. LaidAt(recs, encodeAll(recs), E, k)
  BY <1>7 DEF Laid
<1>9. Len(encodeControl(r)) = 9 + Len(d) /\ Len(d) \in Nat
  <2>1. IsFrame(encodeControl(r), r.cpt, r.body)
    BY <1>1, FrameIs
  <2> QED BY <1>1, <2>1 DEF IsFrame
<1>10. encodeAll(recs) \in Seq(A)
  BY <1>5, Layout
<1> QED BY <1>5, <1>6, <1>8, <1>9, <1>10 DEF LaidAt

\* What PASSSALT carries, behind whatever key.
LEMMA SaltBodyIs ==
  ASSUME NEW k \in DeviceKeys
  PROVE  \E A : Nat \subseteq A /\ SaltBody(k) \in Seq(A) /\ md5SaltLen <= Len(SaltBody(k))
<1>0. /\ md5SaltLen \in Nat /\ Salts \subseteq Seq(Nat) /\ JunkKeys \subseteq Seq(Nat)
      /\ \A s \in Salts : Len(s) = md5SaltLen
  BY HandshakeAssumption
<1>1. ASSUME NEW A, Nat \subseteq A, k.key \in Seq(A), k.salt \in Salts
      PROVE  /\ Nat \subseteq A /\ SaltBody(k) \in Seq(A)
             /\ md5SaltLen <= Len(SaltBody(k))
  <2>1. k.salt \in Seq(Nat) /\ Len(k.salt) = md5SaltLen
    BY <1>0, <1>1
  <2>2. k.salt \in Seq(A)
    BY <1>1, <2>1
  <2>3. /\ k.key \o k.salt \in Seq(A) /\ Len(k.key) \in Nat
        /\ Len(k.key \o k.salt) = Len(k.key) + Len(k.salt)
    BY <1>1, <2>2
  <2> QED BY <1>0, <1>1, <2>1, <2>3 DEF SaltBody
<1>2. CASE k \in [mode : {"md5"}, priv : {0}, key : {<< >>}, salt : Salts]
  <2>1. k.key = << >> /\ k.salt \in Salts
    BY <1>2
  <2>2. << >> \in Seq(Nat)
    OBVIOUS
  <2> QED BY <1>1, <2>1, <2>2
<1>3. CASE k \in [mode : {"junk"}, priv : {0}, key : JunkKeys, salt : Salts]
  <2>1. k.key \in Seq(Nat) /\ k.salt \in Salts
    BY <1>0, <1>3
  <2> QED BY <1>1, <2>1
<1>4. CASE \E q \in DevicePrivs \X Salts :
             k = [mode |-> "ecsrp", priv |-> q[1], salt |-> q[2],
                  key |-> KeyBytes(keygen(q[1], Validator(q[2])))]
  <2>1. PICK q \in DevicePrivs \X Salts :
             k = [mode |-> "ecsrp", priv |-> q[1], salt |-> q[2],
                  key |-> KeyBytes(keygen(q[1], Validator(q[2])))]
    BY <1>4
  <2>2. PICK x, y : k.key = <<x, y>> /\ k.salt \in Salts
    <3>1. k.key = KeyBytes(keygen(q[1], Validator(q[2]))) /\ k.salt = q[2]
      BY <2>1
    <3> QED BY <3>1 DEF KeyBytes
  <2>3. PICK A : A = Nat \cup {x, y}
    OBVIOUS
  <2>4. Nat \subseteq A /\ k.key \in Seq(A)
    BY <2>2, <2>3
  <2> QED BY <1>1, <2>2, <2>4
<1> QED BY <1>2, <1>3, <1>4 DEF DeviceKeys

LEMMA PacketInit == Init => PacketInv
<1> SUFFICES ASSUME Init PROVE PacketInv
  OBVIOUS
<1>1. packet.recs = << >> /\ packet.cut = 0
  BY DEF Init, NoPacket
<1>2. WellFormed(<< >>, Nat)
  BY DEF WellFormed
<1>3. encodeAll(<< >>) \in Seq(Nat)
  BY <1>2, Layout
<1>4. 0 \in Nat /\ 0 <= Len(encodeAll(<< >>))
  BY <1>3
<1> QED BY <1>1, <1>2, <1>4 DEF PacketInv, Sound

\* The packet changes when the device sends PASSSALT.
LEMMA PacketKept ==
  ASSUME Next \/ UNCHANGED vars
  PROVE  DeviceSalt \/ packet' = packet
BY DEF Next, vars, Start, StartFails, Acked, NoAck, AwaitLonger, AwaitTimeout,
       Cancelled, AwaitSalt, AwaitEndAuth, DeviceEndAuth, Finished,
       SendUnchanged, DeviceUnchanged

LEMMA PacketSent ==
  ASSUME DeviceSalt
  PROVE  \E recs, cut : /\ packet' = [recs |-> recs, cut |-> cut]
                        /\ DeviceSends(recs, cut) /\ Sound(recs, cut)
<1>1. PICK k \in DeviceKeys, cut \in Cuts :
        \E recs \in Around(Rec(cpTypePassSalt, SaltBody(k))) :
          DeviceSends(recs, cut) /\ packet' = [recs |-> recs, cut |-> cut]
  BY Zenon DEF DeviceSalt
<1>2. PICK recs \in Around(Rec(cpTypePassSalt, SaltBody(k))) :
        DeviceSends(recs, cut) /\ packet' = [recs |-> recs, cut |-> cut]
  BY <1>1
<1>3. PICK A : Nat \subseteq A /\ SaltBody(k) \in Seq(A) /\ md5SaltLen <= Len(SaltBody(k))
  BY SaltBodyIs
<1>4. WellFormed(recs, A) /\ 9 + Len(SaltBody(k)) <= Len(encodeAll(recs))
  BY <1>3, AroundIs
<1>5. encodeAll(recs) \in Seq(A)
  BY <1>4, Layout
<1>6. md5SaltLen \in Nat /\ cut \in 0 .. (9 + md5SaltLen)
  <2>1. md5SaltLen \in Nat /\ Cuts \subseteq 0 .. (9 + md5SaltLen)
    BY HandshakeAssumption DEF cpHeaderLen
  <2> QED BY <2>1
<1>7. cut \in Nat /\ cut <= Len(encodeAll(recs))
  <2>1. Len(SaltBody(k)) \in Nat /\ Len(encodeAll(recs)) \in Nat
    BY <1>3, <1>5
  <2> QED BY <1>3, <1>4, <1>6, <2>1
<1>8. Sound(recs, cut)
  BY <1>4, <1>7 DEF Sound
<1> QED BY <1>2, <1>8, Zenon

LEMMA PacketIsSound == Spec => []PacketInv
<1>1. PacketInv /\ [Next]_vars => PacketInv'
  <2> SUFFICES ASSUME PacketInv, Next \/ UNCHANGED vars PROVE PacketInv'
    OBVIOUS
  <2>1. CASE packet' = packet
    BY <2>1 DEF PacketInv
  <2>2. CASE DeviceSalt
    <3>1. PICK recs, cut : packet' = [recs |-> recs, cut |-> cut] /\ Sound(recs, cut)
      BY <2>2, PacketSent, Zenon
    <3>2. packet'.recs = recs /\ packet'.cut = cut
      BY <3>1
    <3> QED BY <3>1, <3>2 DEF PacketInv
  <2> QED BY <2>1, <2>2, PacketKept
<1> QED BY <1>1, PacketInit, PTL DEF Spec

\* Whatever the packet carries and wherever it is cut, iterateControl (protocol.go)
\* yields the records that arrived whole and, of the next, what arrived: for every
\* salt, key and cut.
THEOREM CutPacketIsPrefix == Spec => []CutPacketKeepsPrefix
BY PacketIsSound, CutIsMeant, PTL

----------------------------------------------------------------------------
(* The types of the records rxLoop queues.                                 *)

OneByte(c) == c \in Int /\ -128 <= c /\ c <= 127

Wire(X) == \A r \in X : OneByte(r.cpt)

ControlInv == \E X : controlCh \in Seq(X) /\ Wire(X)

LEMMA FramedIs ==
  ASSUME NEW X, NEW q \in Seq(X)
  PROVE  Framed(q) \in Seq(X)
<1>1. PICK u : u = [i \in 1 .. Len(q) |->
                     IF q[i].cpt = cpTypePlainData THEN << >> ELSE <<q[i]>>]
  OBVIOUS
<1>2. \A i \in 1 .. Len(q) :
        (IF q[i].cpt = cpTypePlainData THEN << >> ELSE <<q[i]>>) \in Seq(X)
  <2> SUFFICES ASSUME NEW i \in 1 .. Len(q)
               PROVE  << >> \in Seq(X) /\ <<q[i]>> \in Seq(X)
    OBVIOUS
  <2>1. q[i] \in X
    OBVIOUS
  <2> QED BY <2>1
<1>3. u \in Seq(Seq(X)) /\ Len(u) \in 0 .. Len(u)
  BY <1>1, <1>2
<1>4. PICK f \in [0 .. Len(u) -> Seq(X)] : Concats(f, u)
  BY <1>3, ConcatsExist
<1>5. Framed(q) = f[Len(u)]
  BY <1>1, <1>3, <1>4, FlattenIs DEF Framed
<1>6. f[Len(u)] \in Seq(X)
  BY <1>3, <1>4
<1> QED BY <1>5, <1>6

\* What is read of a payload, cut or not, has a wire type.
LEMMA DecodedIs ==
  ASSUME NEW A, NEW recs, WellFormed(recs, A), NEW cut \in Nat,
         cut <= Len(encodeAll(recs))
  PROVE  \E X : Decoded(recs, cut) \in Seq(X) /\ Wire(X)
<1>1. PICK K \in Nat, L \in Nat : K = Len(recs) /\ L = Len(encodeAll(recs))
  <2>1. Len(recs) \in Nat /\ encodeAll(recs) \in Seq(A)
    BY Layout DEF WellFormed
  <2> QED BY <2>1
<1>2. PICK len \in Nat : len = L - cut /\ len <= L
  <2>1. L - cut \in Nat /\ L - cut <= L
    BY <1>1
  <2> QED BY <2>1
<1>3. Decoded(recs, cut) = Meaning(recs, len)
  BY <1>1, <1>2, Decoding DEF Decoded
<1>4. PICK w \in 0 .. K :
        /\ Whole(recs, len, w)
        /\ Meaning(recs, len) =
             SubSeq(recs, 1, w) \o
               (IF len - EndOf(recs, w) = 0 THEN << >>
                ELSE <<CutRecord(recs[w + 1], len - EndOf(recs, w))>>)
  BY <1>1, MeaningIs, Zenon
<1>5. PICK m : m = len - EndOf(recs, w)
  OBVIOUS
<1>6. m # 0 => w + 1 \in 1 .. K
  <2> SUFFICES ASSUME w = K PROVE m = 0
    OBVIOUS
  <2>1. PICK E : Laid(recs, encodeAll(recs), E)
    BY Layout
  <2>2. EndOf(recs, K) = L
    <3>1. K \in 0 .. Len(recs)
      BY <1>1
    <3> QED BY <1>1, <2>1, <3>1 DEF Laid
  <2>3. L <= len
    BY <1>4, <2>2 DEF Whole
  <2> QED BY <1>2, <1>5, <2>2, <2>3
<1>7. recs \in Seq(Record(A))
  BY DEF WellFormed
<1>8. \A i \in 1 .. K : OneByte(recs[i].cpt)
  <2> SUFFICES ASSUME NEW i \in 1 .. K PROVE OneByte(recs[i].cpt)
    OBVIOUS
  <2>1. recs[i] \in Record(A) /\ (Framable(recs[i]) \/ Plainable(recs[i]))
    BY <1>1, <1>7 DEF WellFormed
  <2>2. recs[i].cpt \in Int
    BY <2>1 DEF Record
  <2> QED BY <2>1, <2>2 DEF Framable, Plainable, cpTypePlainData, OneByte
<1>9. m # 0 => OneByte(CutRecord(recs[w + 1], m).cpt)
  <2>1. \A r : CutRecord(r, m).cpt = r.cpt \/ CutRecord(r, m).cpt = -1
    BY DEF CutRecord, Rec, cpTypePlainData
  <2>2. OneByte(-1)
    BY DEF OneByte
  <2> QED BY <1>6, <1>8, <2>1, <2>2
<1>10. PICK X : X = {recs[i] : i \in 1 .. K}
                      \cup (IF m = 0 THEN {} ELSE {CutRecord(recs[w + 1], m)})
  OBVIOUS
<1>11. Wire(X)
  BY <1>8, <1>9, <1>10 DEF Wire
<1>12. SubSeq(recs, 1, w) \in Seq(X)
  <2>1. recs \in Seq(X)
    BY <1>1, <1>7, <1>10
  <2> QED BY <1>1, <2>1
<1>13. Meaning(recs, len) \in Seq(X)
  <2>1. (IF m = 0 THEN << >> ELSE <<CutRecord(recs[w + 1], m)>>) \in Seq(X)
    <3>1. CASE m = 0
      BY <3>1
    <3>2. CASE m # 0
      <4>1. CutRecord(recs[w + 1], m) \in X
        BY <1>10, <3>2
      <4> QED BY <3>2, <4>1
    <3> QED BY <3>1, <3>2
  <2>2. \A s, t \in Seq(X) : s \o t \in Seq(X)
    OBVIOUS
  <2> QED BY <1>4, <1>5, <1>12, <2>1, <2>2, Zenon
<1> QED BY <1>3, <1>11, <1>13

LEMMA Queued ==
  ASSUME ControlInv, NEW recs, NEW cut, Sound(recs, cut), DeviceSends(recs, cut)
  PROVE  ControlInv'
<1>1. PICK A : WellFormed(recs, A)
  BY DEF Sound
<1>2. PICK X : Decoded(recs, cut) \in Seq(X) /\ Wire(X)
  BY <1>1, DecodedIs DEF Sound
<1>3. Framed(Decoded(recs, cut)) \in Seq(X)
  BY <1>2, FramedIs
<1>4. PICK Y : controlCh \in Seq(Y) /\ Wire(Y)
  BY DEF ControlInv
<1>5. PICK Z : Z = X \cup Y
  OBVIOUS
<1>6. \A s \in Seq(X), t \in Seq(Y) : t \o s \in Seq(Z)
  <2> SUFFICES ASSUME NEW s \in Seq(X), NEW t \in Seq(Y) PROVE t \o s \in Seq(Z)
    OBVIOUS
  <2>1. s \in Seq(Z) /\ t \in Seq(Z)
    BY <1>5
  <2> QED BY <2>1
<1>7. controlCh' \in Seq(Z)
  BY <1>3, <1>4, <1>6, Zenon DEF DeviceSends
<1>8. Wire(Z)
  BY <1>2, <1>4, <1>5 DEF Wire
<1> QED BY <1>7, <1>8 DEF ControlInv

LEMMA ControlStep ==
  ASSUME ControlInv, Next \/ UNCHANGED vars
  PROVE  ControlInv'
<1>1. CASE DeviceSalt
  <2>1. PICK recs, cut : DeviceSends(recs, cut) /\ Sound(recs, cut)
    BY <1>1, PacketSent, Zenon
  <2> QED BY <2>1, Queued
<1>2. CASE DeviceEndAuth
  <2>1. PICK r \in Record(Nat) : r = Rec(cpTypeEndAuth, << >>) /\ Framable(r)
    <3>1. PICK z \in Seq(Nat), c \in Nat : z = << >> /\ c = cpTypeEndAuth /\ c <= 127
      <4>1. << >> \in Seq(Nat) /\ cpTypeEndAuth \in Nat /\ cpTypeEndAuth <= 127
        BY DEF cpTypeEndAuth
      <4> QED BY <4>1
    <3>2. Rec(c, z) \in Record(Nat) /\ Framable(Rec(c, z))
      BY <3>1, FramableIs
    <3> QED BY <3>1, <3>2
  <2>2. PICK recs : recs = <<r>>
    OBVIOUS
  <2>3. WellFormed(recs, Nat)
    <3>1. recs \in Seq(Record(Nat)) /\ \A i \in 1 .. Len(recs) : recs[i] = r
      BY <2>2
    <3> QED BY <2>1, <3>1 DEF WellFormed
  <2>4. encodeAll(recs) \in Seq(Nat)
    BY <2>3, Layout
  <2>5. Sound(recs, 0)
    BY <2>3, <2>4 DEF Sound
  <2>6. DeviceSends(recs, 0)
    BY <1>2, <2>1, <2>2, Zenon DEF DeviceEndAuth
  <2> QED BY <2>5, <2>6, Queued
<1>3. CASE AwaitSalt \/ AwaitEndAuth
  <2>1. PICK X : controlCh \in Seq(X) /\ Wire(X)
    BY DEF ControlInv
  <2>2. controlCh # << >> /\ controlCh' = Tail(controlCh)
    BY <1>3, Zenon DEF AwaitSalt, AwaitEndAuth
  <2>3. controlCh' \in Seq(X)
    BY <2>1, <2>2
  <2> QED BY <2>1, <2>3 DEF ControlInv
<1>4. CASE controlCh' = controlCh
  BY <1>4 DEF ControlInv
<1>5. DeviceSalt \/ DeviceEndAuth \/ AwaitSalt \/ AwaitEndAuth \/ controlCh' = controlCh
  BY DEF Next, vars, Start, StartFails, Acked, NoAck, AwaitLonger, AwaitTimeout,
         Cancelled, Finished, SendUnchanged
<1> QED BY <1>1, <1>2, <1>3, <1>4, <1>5

LEMMA ControlIsTyped == Spec => []ControlInv
<1>1. Init => ControlInv
  <2> SUFFICES ASSUME Init PROVE ControlInv
    OBVIOUS
  <2>1. controlCh \in Seq({}) /\ Wire({})
    BY DEF Init, Wire
  <2> QED BY <2>1 DEF ControlInv
<1>2. ControlInv /\ [Next]_vars => ControlInv'
  BY ControlStep
<1> QED BY <1>1, <1>2, PTL DEF Spec

----------------------------------------------------------------------------
(* What the device reads of the two payloads.                              *)

IsPair(s) == \E x, y : s = <<x, y>>
IsKey(k)  == \E x, y : k = [x |-> x, parity |-> y]

LEMMA PairIs ==
  ASSUME NEW s, IsPair(s)
  PROVE  \E A : Nat \subseteq A /\ s \in Seq(A)
<1>1. PICK x, y : s = <<x, y>>
  BY DEF IsPair
<1>2. PICK A : A = Nat \cup {x, y}
  OBVIOUS
<1>3. Nat \subseteq A /\ s \in Seq(A)
  BY <1>1, <1>2
<1> QED BY <1>3

LEMMA InitIsFramed ==
  ASSUME NEW user \in Seq(Nat), NEW key, IsPair(key)
  PROVE  \E A : WellFormed(authInit(user, key), A)
<1>1. PICK A : Nat \subseteq A /\ key \in Seq(A)
  BY PairIs
<1>2. PICK d \in Seq(A), z \in Seq(A) : d = user \o <<0>> \o key /\ z = << >>
  <2>1. user \in Seq(A) /\ <<0>> \in Seq(A) /\ << >> \in Seq(A)
    BY <1>1
  <2>2. user \o <<0>> \o key \in Seq(A)
    BY <1>1, <2>1
  <2> QED BY <2>1, <2>2
<1>3. PICK r \in Record(A) : r = Rec(cpTypeBeginAuth, z) /\ Framable(r)
  <2>1. cpTypeBeginAuth \in Nat /\ cpTypeBeginAuth <= 127
    BY DEF cpTypeBeginAuth
  <2> QED BY <2>1, FramableIs
<1>4. PICK q \in Record(A) : q = Rec(cpTypePassSalt, d) /\ Framable(q)
  <2>1. cpTypePassSalt \in Nat /\ cpTypePassSalt <= 127
    BY DEF cpTypePassSalt
  <2> QED BY <2>1, FramableIs
<1>5. authInit(user, key) = <<r, q>>
  BY <1>2, <1>3, <1>4 DEF authInit
<1>6. /\ <<r, q>> \in Seq(Record(A))
      /\ \A i \in 1 .. Len(<<r, q>>) : <<r, q>>[i] = r \/ <<r, q>>[i] = q
  OBVIOUS
<1>7. WellFormed(<<r, q>>, A)
  BY <1>1, <1>3, <1>4, <1>6 DEF WellFormed
<1> QED BY <1>5, <1>7

LEMMA Uint16Is ==
  ASSUME NEW v \in 0 .. maxUint16
  PROVE  PutUint16LE(v) \in Seq(Nat) /\ LittleEndian(PutUint16LE(v)) = v
<1>1. v \in Nat
  BY SMTT(90) DEF maxUint16
<1>2. PICK x \in Nat, y \in Nat : x = v % 256 /\ y = v \div 256 /\ v = x + 256 * y
  <2>1. v % 256 \in Nat /\ v \div 256 \in Nat /\ v = (v % 256) + 256 * (v \div 256)
    BY <1>1
  <2> QED BY <2>1
<1>3. PutUint16LE(v) = <<x, y>>
  BY <1>2 DEF PutUint16LE
<1>4. <<x, y>> \in Seq(Nat) /\ <<x, y>>[1] = x /\ <<x, y>>[2] = y
  OBVIOUS
<1>5. LittleEndian(<<x, y>>) = v
  BY <1>2, <1>4 DEF LittleEndian
<1> QED BY <1>3, <1>4, <1>5

\* The second payload answers the salt.
IsFinish(q) ==
  \E resp : IsPair(resp) /\ q = authFinish(resp, cred.user, defaultTermType, Cols, Rows)

LEMMA FinishIsFramed ==
  ASSUME NEW user \in Seq(Nat), NEW resp, IsPair(resp)
  PROVE  \E A : WellFormed(authFinish(resp, user, defaultTermType, Cols, Rows), A)
<1>1. PICK A : Nat \subseteq A /\ resp \in Seq(A)
  BY PairIs
<1>2. PICK t \in Seq(A), u \in Seq(A), x \in Seq(A), y \in Seq(A) :
        /\ t = defaultTermType /\ u = user
        /\ x = PutUint16LE(Cols) /\ y = PutUint16LE(Rows)
  <2>1. Cols \in 0 .. maxUint16 /\ Rows \in 0 .. maxUint16
    BY HandshakeAssumption
  <2>2. PutUint16LE(Cols) \in Seq(Nat) /\ PutUint16LE(Rows) \in Seq(Nat)
    BY <2>1, Uint16Is
  <2>3. defaultTermType \in Seq(Nat)
    BY DEF defaultTermType
  <2>4. \A s \in Seq(Nat) : s \in Seq(A)
    BY <1>1
  <2> QED BY <2>2, <2>3, <2>4
<1>3. PICK q \in Seq(Record(A)) :
        /\ q = authFinish(resp, user, defaultTermType, Cols, Rows)
        /\ \A i \in 1 .. Len(q) : Framable(q[i])
  <2>1. /\ Rec(cpTypePassword, resp) \in Record(A) /\ Framable(Rec(cpTypePassword, resp))
        /\ Rec(cpTypeUsername, u) \in Record(A) /\ Framable(Rec(cpTypeUsername, u))
        /\ Rec(cpTypeTermType, t) \in Record(A) /\ Framable(Rec(cpTypeTermType, t))
        /\ Rec(cpTypeTermWidth, x) \in Record(A) /\ Framable(Rec(cpTypeTermWidth, x))
        /\ Rec(cpTypeTermHeight, y) \in Record(A) /\ Framable(Rec(cpTypeTermHeight, y))
    <3>1. /\ cpTypePassword \in Nat /\ cpTypeUsername \in Nat /\ cpTypeTermType \in Nat
          /\ cpTypeTermWidth \in Nat /\ cpTypeTermHeight \in Nat
          /\ cpTypePassword <= 127 /\ cpTypeUsername <= 127 /\ cpTypeTermType <= 127
          /\ cpTypeTermWidth <= 127 /\ cpTypeTermHeight <= 127
      BY DEF cpTypePassword, cpTypeUsername, cpTypeTermType, cpTypeTermWidth, cpTypeTermHeight
    <3> QED BY <1>1, <3>1, FramableIs
  <2>2. PICK v \in Record(A), w \in Record(A), r \in Record(A), k \in Record(A), j \in Record(A) :
          /\ authFinish(resp, user, defaultTermType, Cols, Rows) = <<v, w, r, k, j>>
          /\ Framable(v) /\ Framable(w) /\ Framable(r) /\ Framable(k) /\ Framable(j)
    <3>1. authFinish(resp, user, defaultTermType, Cols, Rows) =
            <<Rec(cpTypePassword, resp), Rec(cpTypeUsername, u), Rec(cpTypeTermType, t),
              Rec(cpTypeTermWidth, x), Rec(cpTypeTermHeight, y)>>
      BY <1>2 DEF authFinish
    <3> QED BY <2>1, <3>1, SMTT(30)
  <2>3. /\ <<v, w, r, k, j>> \in Seq(Record(A))
        /\ \A i \in 1 .. Len(<<v, w, r, k, j>>) :
             <<v, w, r, k, j>>[i] \in {v, w, r, k, j}
    OBVIOUS
  <2>4. \A i \in 1 .. Len(<<v, w, r, k, j>>) : Framable(<<v, w, r, k, j>>[i])
    BY <2>2, <2>3
  <2> QED BY <2>2, <2>3, <2>4
<1>4. WellFormed(q, A)
  BY <1>1, <1>3 DEF WellFormed
<1> QED BY <1>3, <1>4

\* What the device has heard at each place: nothing, the first payload, or
\* both, as they were meant.
First == authInit(cred.user, KeyBytes(clientPub))

HeardBoth == \E q : IsFinish(q) /\ devGot = <<First, q>>

TalkInv ==
  /\ pc \in {"start", "ackInit", "salt", "ackFinish", "endauth", "ok", "failed", "panic"}
  /\ cred.user \in Seq(Nat)
  /\ devGot = << >> \/ devGot = <<First>> \/ HeardBoth
  /\ pc = "start" => devGot = << >>
  /\ pc = "ackInit" => meant = First /\ (devGot = << >> \/ devGot = <<First>>)
  /\ pc = "salt" => devGot = <<First>>
  /\ pc = "ackFinish" => IsFinish(meant) /\ devGot # << >>
  /\ pc = "ackInit" \/ devGot # << >> => IsKey(clientPub)

LEMMA AppendOne ==
  ASSUME NEW x, NEW y
  PROVE  Len(<<x>>) = 1 /\ Append(<<x>>, y) = <<x, y>>
<1>1. PICK S : S = {x, y}
  OBVIOUS
<1>2. PICK s \in Seq(S) : s = <<x>> /\ Len(s) = 1 /\ s[1] = x
  <2>1. <<x>> \in Seq(S) /\ Len(<<x>>) = 1 /\ <<x>>[1] = x
    BY <1>1
  <2> QED BY <2>1
<1>3. PICK t \in Seq(S) : t = <<x, y>> /\ Len(t) = 2 /\ t[1] = x /\ t[2] = y
  <2>1. <<x, y>> \in Seq(S) /\ Len(<<x, y>>) = 2 /\ <<x, y>>[1] = x /\ <<x, y>>[2] = y
    BY <1>1
  <2> QED BY <2>1
<1>4. PICK u \in Seq(S) : u = Append(s, y) /\ Len(u) = 2 /\ u[1] = x /\ u[2] = y
  <2>1. /\ Append(s, y) \in Seq(S) /\ Len(Append(s, y)) = 2
        /\ Append(s, y)[1] = x /\ Append(s, y)[2] = y
    BY <1>1, <1>2
  <2> QED BY <2>1
<1>5. u = t
  <2>1. Len(u) = Len(t) /\ \A i \in 1 .. Len(t) : u[i] = t[i]
    BY <1>3, <1>4
  <2> QED BY <2>1
<1> QED BY <1>2, <1>3, <1>4, <1>5

\* What a send makes the device hear.
LEMMA Heard ==
  ASSUME TalkInv, Sending, DeviceGets
  PROVE  /\ pc = "ackInit" => devGot' = <<First>>
         /\ pc = "ackFinish" => \E q : IsFinish(q) /\ devGot' = <<First, q>>
<1>1. CASE pc = "ackInit"
  <2>1. meant = First /\ (devGot = << >> \/ devGot = <<First>>)
    BY <1>1 DEF TalkInv
  <2>2. Len(<< >>) = 0 /\ Len(<<First>>) # 0 /\ Append(<< >>, First) = <<First>>
    OBVIOUS
  <2>3. iterateControl(encodeAll(First)) = First
    <3>1. IsPair(KeyBytes(clientPub)) /\ cred.user \in Seq(Nat)
      BY DEF IsPair, KeyBytes, TalkInv
    <3>2. PICK A : WellFormed(First, A)
      BY <3>1, InitIsFramed DEF First
    <3> QED BY <3>2, RoundTrip
  <2>4. devGot' = IF Len(devGot) = 0 THEN Append(devGot, First) ELSE devGot
    BY <1>1, <2>1, <2>3, Zenon DEF DeviceGets
  <2> QED BY <1>1, <2>1, <2>2, <2>4
<1>2. CASE pc = "ackFinish"
  <2>1. IsFinish(meant) /\ (devGot = <<First>> \/ HeardBoth)
    BY <1>2 DEF TalkInv
  <2>2. iterateControl(encodeAll(meant)) = meant
    <3>1. PICK resp : IsPair(resp) /\ meant = authFinish(resp, cred.user, defaultTermType, Cols, Rows)
      BY <2>1 DEF IsFinish
    <3>2. cred.user \in Seq(Nat)
      BY DEF TalkInv
    <3>3. PICK A : WellFormed(meant, A)
      BY <3>1, <3>2, FinishIsFramed
    <3> QED BY <3>3, RoundTrip
  <2>3. devGot' = IF Len(devGot) = 1 THEN Append(devGot, meant) ELSE devGot
    BY <1>2, <2>2, Zenon DEF DeviceGets
  <2>4. CASE devGot = <<First>>
    <3>1. Len(<<First>>) = 1 /\ Append(<<First>>, meant) = <<First, meant>>
      BY AppendOne
    <3>2. devGot' = <<First, meant>>
      BY <2>3, <2>4, <3>1
    <3> QED BY <1>2, <2>1, <3>2
  <2>5. CASE HeardBoth
    <3>1. PICK q : IsFinish(q) /\ devGot = <<First, q>>
      BY <2>5 DEF HeardBoth
    <3>2. Len(<<First, q>>) # 1
      OBVIOUS
    <3>3. devGot' = devGot
      BY <2>3, <3>1, <3>2
    <3> QED BY <1>2, <3>1, <3>3
  <2> QED BY <2>1, <2>4, <2>5
<1> QED BY <1>1, <1>2 DEF Sending

\* A step that leaves what was said alone, and does not begin a send.
LEMMA NothingSaid ==
  ASSUME TalkInv, UNCHANGED <<cred, clientPub, devGot>>,
         \/ UNCHANGED <<pc, meant>>
         \/ pc' \in {"ok", "failed", "panic"}
  PROVE  TalkInv'
<1>1. First' = First /\ \A q : IsFinish(q)' <=> IsFinish(q)
  BY DEF First, IsFinish
<1>2. HeardBoth' <=> HeardBoth
  BY <1>1 DEF HeardBoth
<1>3. CASE UNCHANGED <<pc, meant>>
  BY <1>1, <1>2, <1>3 DEF TalkInv, IsFinish
<1>4. CASE pc' \in {"ok", "failed", "panic"}
  BY <1>1, <1>2, <1>4 DEF TalkInv
<1> QED BY <1>3, <1>4

LEMMA TalkStarts ==
  ASSUME TalkInv, Start
  PROVE  TalkInv'
<1>1. PICK pub : pub = keygen(cred.priv, NoValidator)
  OBVIOUS
<1>2. pc = "start" /\ devGot = << >> /\ devGot' = << >> /\ cred' = cred /\ cred.user \in Seq(Nat)
  BY DEF TalkInv, Start
<1>3. CASE pub = Panic
  <2>1. pc' = "panic" /\ clientPub' = clientPub
    BY <1>1, <1>3, Zenon DEF Start
  <2> QED BY <1>2, <2>1, NothingSaid
<1>4. CASE pub # Panic
  <2>1. clientPub' = pub /\ SendPayload(authInit(cred.user, KeyBytes(pub)), "ackInit")
    BY <1>1, <1>4, Zenon DEF Start
  <2>2. IsKey(pub)
    <3>1. PICK pt : pub = compress(pt)
      BY <1>1, Zenon DEF keygen
    <3>2. pub = [x |-> (pt.X + w2m) % p, parity |-> pt.Y % 2]
      BY <1>4, <3>1, Zenon DEF compress
    <3> QED BY <3>2, Zenon DEF IsKey
  <2>3. \/ pc' = "ackInit" /\ meant' = First'
        \/ pc' = "failed"
    BY <1>2, <2>1, Zenon DEF SendPayload, First
  <2> QED BY <1>2, <2>1, <2>2, <2>3 DEF TalkInv
<1> QED BY <1>3, <1>4

LEMMA TalkAnswers ==
  ASSUME TalkInv, AwaitSalt
  PROVE  TalkInv'
<1>1. pc = "salt" /\ devGot = <<First>> /\ UNCHANGED <<cred, clientPub, devGot>>
  BY DEF TalkInv, AwaitSalt
<1>2. \/ UNCHANGED <<pc, meant>>
      \/ pc' \in {"ok", "failed", "panic"}
      \/ \E resp : IsPair(resp) /\ Finish(resp)
  <2>1. CASE UNCHANGED <<pc, meant, attempt>>
    BY <2>1
  <2>2. CASE AnswerSalt(Head(controlCh).body)
    <3>1. \A s, t : IsPair(computeMD5Response(s, t))
      BY Zenon DEF computeMD5Response, IsPair
    <3>2. \A s : IsPair(ResponseBytes(s))
      BY Zenon DEF ResponseBytes, IsPair
    <3>3. \/ Stop("failed") \/ Stop("panic")
          \/ \E resp : IsPair(resp) /\ Finish(resp)
      BY <2>2, <3>1, <3>2, Zenon DEF AnswerSalt
    <3> QED BY <3>3 DEF Stop
  <2> QED BY <2>1, <2>2 DEF AwaitSalt
<1>3. CASE UNCHANGED <<pc, meant>> \/ pc' \in {"ok", "failed", "panic"}
  BY <1>1, <1>3, NothingSaid
<1>4. CASE \E resp : IsPair(resp) /\ Finish(resp)
  <2>1. PICK resp : IsPair(resp) /\ Finish(resp)
    BY <1>4
  <2>2. \/ pc' = "failed"
        \/ /\ pc' = "ackFinish"
           /\ meant' = authFinish(resp, cred.user, defaultTermType, Cols, Rows)
    BY <2>1, Zenon DEF Finish, SendPayload
  <2>3. CASE pc' = "failed"
    BY <1>1, <2>3, NothingSaid
  <2>4. CASE /\ pc' = "ackFinish"
             /\ meant' = authFinish(resp, cred.user, defaultTermType, Cols, Rows)
    <3>1. IsFinish(meant)'
      BY <1>1, <2>1, <2>4 DEF IsFinish
    <3>2. First' = First /\ devGot' = <<First>> /\ devGot # << >>
      BY <1>1 DEF First
    <3>3. IsKey(clientPub)'
      BY <1>1, <3>2 DEF TalkInv, IsKey
    <3> QED BY <1>1, <2>4, <3>1, <3>2, <3>3 DEF TalkInv
  <2> QED BY <2>2, <2>3, <2>4
<1> QED BY <1>2, <1>3, <1>4

LEMMA TalkSends ==
  ASSUME TalkInv, Acked \/ NoAck
  PROVE  TalkInv'
<1>1. Sending /\ UNCHANGED <<cred, clientPub, meant>>
  BY DEF Acked, NoAck, SendUnchanged
<1>2. First' = First /\ (\A q : IsFinish(q)' <=> IsFinish(q)) /\ (IsFinish(meant)' <=> IsFinish(meant))
  BY <1>1 DEF First, IsFinish
<1>3. CASE devGot' = devGot /\ (pc' = pc \/ pc' = "failed")
  BY <1>1, <1>3, NothingSaid
<1>4. CASE DeviceGets
  <2>1. /\ pc = "ackInit" => pc' \in {"ackInit", "salt", "failed"}
        /\ pc = "ackFinish" => pc' \in {"ackFinish", "endauth", "failed"}
    BY DEF Acked, NoAck
  <2>2. CASE pc = "ackInit"
    <3>1. devGot' = <<First>> /\ meant = First /\ IsKey(clientPub)
      BY <1>1, <1>4, <2>2, Heard DEF TalkInv
    <3>2. devGot' = <<First'>> /\ meant' = First' /\ IsKey(clientPub)'
      BY <1>1, <1>2, <3>1
    <3> QED BY <1>1, <2>1, <2>2, <3>2 DEF TalkInv
  <2>3. CASE pc = "ackFinish"
    <3>1. PICK q : IsFinish(q) /\ devGot' = <<First, q>>
      BY <1>1, <1>4, <2>3, Heard
    <3>2. HeardBoth' /\ devGot' # << >>
      BY <1>2, <3>1 DEF HeardBoth
    <3>3. IsKey(clientPub)' /\ IsFinish(meant)'
      BY <1>1, <1>2, <2>3 DEF TalkInv
    <3> QED BY <1>1, <2>1, <2>3, <3>2, <3>3 DEF TalkInv
  <2> QED BY <1>1, <2>2, <2>3 DEF Sending
<1> QED BY <1>3, <1>4 DEF Acked, NoAck

LEMMA TalkStep ==
  ASSUME TalkInv, Next \/ UNCHANGED vars
  PROVE  TalkInv'
<1>1. CASE StartFails \/ AwaitTimeout \/ Cancelled
  <2>1. pc' = "failed" /\ UNCHANGED <<cred, clientPub, devGot>>
    BY <1>1 DEF StartFails, AwaitTimeout, Cancelled, SendUnchanged
  <2> QED BY <2>1, NothingSaid
<1>2. CASE AwaitLonger \/ DeviceSalt \/ DeviceEndAuth \/ Finished \/ UNCHANGED vars
  <2>1. UNCHANGED <<pc, meant, cred, clientPub, devGot>>
    BY <1>2 DEF AwaitLonger, SendUnchanged, DeviceSalt, DeviceEndAuth, DeviceUnchanged,
                Finished, vars
  <2> QED BY <2>1, NothingSaid
<1>3. CASE AwaitEndAuth
  <2>1. (pc' = "ok" \/ pc' = pc) /\ UNCHANGED <<meant, cred, clientPub, devGot>>
    BY <1>3, Zenon DEF AwaitEndAuth
  <2> QED BY <2>1, NothingSaid
<1> QED BY <1>1, <1>2, <1>3, TalkStarts, TalkAnswers, TalkSends DEF Next

LEMMA TalkIsSound == Spec => []TalkInv
<1>1. Init => TalkInv
  <2> SUFFICES ASSUME Init PROVE TalkInv
    OBVIOUS
  <2>1. Users \subseteq Seq(Nat)
    BY HandshakeAssumption
  <2>2. cred.user \in Seq(Nat)
    BY <2>1 DEF Init
  <2> QED BY <2>2 DEF Init, TalkInv
<1>2. TalkInv /\ [Next]_vars => TalkInv'
  BY TalkStep
<1> QED BY <1>1, <1>2, PTL DEF Spec

\* What the first payload says, as the device takes it apart.
LEMMA FirstIsRead ==
  ASSUME TalkInv, Len(devGot) >= 1
  PROVE  /\ devGot[1][1].cpt = cpTypeBeginAuth /\ DeviceUser = cred.user
         /\ DeviceSees = clientPub
<1>1. devGot[1] = First /\ IsKey(clientPub) /\ cred.user \in Seq(Nat)
  <2>1. devGot = <<First>> \/ HeardBoth
    BY DEF TalkInv
  <2>2. \A x, y : <<x>>[1] = x /\ <<x, y>>[1] = x
    OBVIOUS
  <2>3. devGot[1] = First
    BY <2>1, <2>2 DEF HeardBoth
  <2> QED BY <2>3 DEF TalkInv
<1>2. PICK x, y : clientPub = [x |-> x, parity |-> y]
  BY <1>1 DEF IsKey
<1>3. PICK A : A = Nat \cup {x, y}
  OBVIOUS
<1>4. PICK u \in Seq(A), v \in Seq(A) : u = cred.user /\ v = <<x, y>>
  <2>1. cred.user \in Seq(A) /\ <<x, y>> \in Seq(A)
    BY <1>1, <1>3
  <2> QED BY <2>1
<1>5. KeyBytes(clientPub) = v
  BY <1>2, <1>4 DEF KeyBytes
<1>6. PICK body \in Seq(A) : body = (u \o <<0>>) \o v
  <2>1. (u \o <<0>>) \o v \in Seq(A)
    BY <1>3, <1>4
  <2> QED BY <2>1
<1>7. First = <<Rec(cpTypeBeginAuth, << >>), Rec(cpTypePassSalt, body)>>
  BY <1>4, <1>5, <1>6, Zenon DEF First, authInit
<1>8. devGot[1][1] = Rec(cpTypeBeginAuth, << >>) /\ devGot[1][2] = Rec(cpTypePassSalt, body)
  BY <1>1, <1>7
<1>9. devGot[1][1].cpt = cpTypeBeginAuth /\ InitBody = body
  BY <1>8 DEF Rec, InitBody
<1>10. PICK l \in Nat : l = Len(u)
  OBVIOUS
<1>11. /\ Len(body) = l + 3 /\ \A i \in 1 .. l : body[i] = u[i]
       /\ body[l + 2] = x /\ body[l + 3] = y
  <2>1. PICK z \in Seq(A) : z = u \o <<0>> /\ Len(z) = l + 1 /\ \A i \in 1 .. l : z[i] = u[i]
    <3>1. <<0>> \in Seq(A) /\ Len(<<0>>) = 1
      BY <1>3
    <3>2. /\ u \o <<0>> \in Seq(A) /\ Len(u \o <<0>>) = l + 1
          /\ \A i \in 1 .. l : (u \o <<0>>)[i] = u[i]
      BY <1>10, <3>1, ConcatIs
    <3> QED BY <3>2
  <2>2. Len(v) = 2 /\ v[1] = x /\ v[2] = y
    BY <1>4
  <2>3. /\ Len(z \o v) = Len(z) + Len(v)
        /\ \A i \in 1 .. Len(z) : (z \o v)[i] = z[i]
        /\ \A i \in 1 .. Len(v) : (z \o v)[Len(z) + i] = v[i]
    BY ConcatIs
  <2>4. body = z \o v
    BY <1>6, <2>1
  <2>5. Len(body) = l + 3 /\ \A i \in 1 .. l : body[i] = u[i]
    <3>1. Len(body) = l + 3
      BY <2>1, <2>2, <2>3, <2>4
    <3>2. ASSUME NEW i \in 1 .. l PROVE body[i] = u[i]
      <4>1. i \in 1 .. Len(z)
        BY <2>1
      <4> QED BY <2>1, <2>3, <2>4, <4>1
    <3> QED BY <3>1, <3>2
  <2>6. 1 \in 1 .. Len(v) /\ 2 \in 1 .. Len(v) /\ Len(z) + 1 = l + 2 /\ Len(z) + 2 = l + 3
    BY <2>1, <2>2
  <2>7. body[l + 2] = v[1] /\ body[l + 3] = v[2]
    BY <2>3, <2>4, <2>6, Zenon
  <2> QED BY <2>2, <2>5, <2>7
<1>12. DeviceUser = u
  <2>1. Len(InitBody) - ecsrpPubkeyLen - 1 = l
    BY <1>9, <1>10, <1>11, HandshakeAssumption
  <2>2. DeviceUser = SubSeq(body, 1, l)
    BY <1>9, <2>1 DEF DeviceUser
  <2>3. PICK s \in Seq(A) : s = SubSeq(body, 1, l) /\ Len(s) = l /\ \A i \in 1 .. l : s[i] = body[i]
    <3>1. /\ SubSeq(body, 1, l) \in Seq(A) /\ Len(SubSeq(body, 1, l)) = l
          /\ \A i \in 1 .. l : SubSeq(body, 1, l)[i] = body[i]
      BY <1>11
    <3> QED BY <3>1
  <2>4. s = u
    BY <1>10, <1>11, <2>3
  <2> QED BY <2>2, <2>3, <2>4
<1>13. DeviceSees = clientPub
  <2>1. Len(DeviceUser) + 2 = l + 2 /\ Len(InitBody) = l + 3
    BY <1>9, <1>10, <1>11, <1>12
  <2>2. DeviceSees = KeyOf(SubSeq(body, l + 2, l + 3))
    BY <1>9, <2>1 DEF DeviceSees
  <2>3. SubSeq(body, l + 2, l + 3)[1] = body[l + 2] /\ SubSeq(body, l + 2, l + 3)[2] = body[l + 3]
    BY <1>11
  <2> QED BY <1>2, <1>11, <2>2, <2>3 DEF KeyOf
<1> QED BY <1>4, <1>9, <1>12, <1>13

\* And the second.
LEMMA FinishIsRead ==
  ASSUME TalkInv, Len(devGot) = 2
  PROVE  LET body(t) == devGot[2][CHOOSE i \in 1 .. 5 : devGot[2][i].cpt = t].body
         IN  /\ body(cpTypeUsername) = cred.user
             /\ body(cpTypeTermType) = defaultTermType
             /\ LittleEndian(body(cpTypeTermWidth)) = Cols
             /\ LittleEndian(body(cpTypeTermHeight)) = Rows
<1> DEFINE body(t) == devGot[2][CHOOSE i \in 1 .. 5 : devGot[2][i].cpt = t].body
<1>1. PICK q : IsFinish(q) /\ devGot[2] = q
  <2>1. HeardBoth
    <3>1. Len(<< >>) = 0 /\ Len(<<First>>) = 1
      OBVIOUS
    <3>2. devGot # << >> /\ devGot # <<First>>
      BY <3>1
    <3> QED BY <3>2 DEF TalkInv
  <2>2. \A x, y : <<x, y>>[2] = y
    OBVIOUS
  <2> QED BY <2>1, <2>2 DEF HeardBoth
<1>2. PICK resp : q = authFinish(resp, cred.user, defaultTermType, Cols, Rows)
  BY <1>1 DEF IsFinish
<1>3. /\ q[1] = Rec(2, resp) /\ q[2] = Rec(3, cred.user) /\ q[3] = Rec(4, defaultTermType)
      /\ q[4] = Rec(5, PutUint16LE(Cols)) /\ q[5] = Rec(6, PutUint16LE(Rows))
  <2>1. q = <<Rec(2, resp), Rec(3, cred.user), Rec(4, defaultTermType),
              Rec(5, PutUint16LE(Cols)), Rec(6, PutUint16LE(Rows))>>
    BY <1>2 DEF authFinish, cpTypePassword, cpTypeUsername, cpTypeTermType,
                cpTypeTermWidth, cpTypeTermHeight
  <2> QED BY <2>1
<1>4. \A c, d : Rec(c, d).cpt = c /\ Rec(c, d).body = d
  BY DEF Rec
<1>5. \A i \in 1 .. 5 : q[i].cpt = i + 1
  BY <1>3, <1>4
<1>6. ASSUME NEW k \in 1 .. 5
      PROVE  body(k + 1) = q[k].body
  <2>1. \A i \in 1 .. 5 : q[i].cpt = k + 1 <=> i = k
    BY <1>5
  <2>2. (CHOOSE i \in 1 .. 5 : q[i].cpt = k + 1) = k
    BY <2>1
  <2> QED BY <1>1, <2>2
<1>7. /\ cpTypeUsername = 2 + 1 /\ cpTypeTermType = 3 + 1
      /\ cpTypeTermWidth = 4 + 1 /\ cpTypeTermHeight = 5 + 1
      /\ 2 \in 1 .. 5 /\ 3 \in 1 .. 5 /\ 4 \in 1 .. 5 /\ 5 \in 1 .. 5
  BY DEF cpTypeUsername, cpTypeTermType, cpTypeTermWidth, cpTypeTermHeight
<1> HIDE DEF body
<1>8. /\ body(cpTypeUsername) = q[2].body /\ body(cpTypeTermType) = q[3].body
      /\ body(cpTypeTermWidth) = q[4].body /\ body(cpTypeTermHeight) = q[5].body
  BY <1>6, <1>7, Zenon
<1>9. /\ body(cpTypeUsername) = cred.user /\ body(cpTypeTermType) = defaultTermType
      /\ body(cpTypeTermWidth) = PutUint16LE(Cols)
      /\ body(cpTypeTermHeight) = PutUint16LE(Rows)
  <2>1. /\ q[2].body = cred.user /\ q[3].body = defaultTermType
        /\ q[4].body = PutUint16LE(Cols) /\ q[5].body = PutUint16LE(Rows)
    BY <1>3, <1>4
  <2> QED BY <1>8, <2>1
<1>10. LittleEndian(PutUint16LE(Cols)) = Cols /\ LittleEndian(PutUint16LE(Rows)) = Rows
  <2>1. Cols \in 0 .. maxUint16 /\ Rows \in 0 .. maxUint16
    BY HandshakeAssumption
  <2> QED BY <2>1, Uint16Is
<1>11. /\ body(cpTypeUsername) = cred.user /\ body(cpTypeTermType) = defaultTermType
       /\ LittleEndian(body(cpTypeTermWidth)) = Cols
       /\ LittleEndian(body(cpTypeTermHeight)) = Rows
  BY <1>9, <1>10
<1> QED BY <1>11, Zenon DEF body

\* For every name, key, answer and terminal size that fits the wire, the device
\* reads back what buildAuthInit and buildAuthFinish (auth.go) were given, however
\* often a payload is retransmitted.
THEOREM DeviceReadsTheClient == Spec => []DeviceReadsWhatWasMeant
<1>1. TalkInv => DeviceReadsWhatWasMeant
  BY FirstIsRead, FinishIsRead DEF DeviceReadsWhatWasMeant
<1> QED BY <1>1, TalkIsSound, PTL

\* The goroutine of Open is at one of its places, with an attempt the schedule
\* has, the device hears two payloads at most, and every record it is read to
\* have sent has a type of one byte, cut packets included.
THEOREM HandshakeIsTyped == Spec => []HandshakeTypeOK
<1>1. TimeInv /\ TalkInv /\ ControlInv => HandshakeTypeOK
  <2> SUFFICES ASSUME TimeInv, TalkInv, ControlInv PROVE HandshakeTypeOK
    OBVIOUS
  <2>1. now \in Nat /\ attempt \in 1 .. Len(schedule)
    BY DEF TimeInv
  <2>2. Len(devGot) <= 2
    <3>1. \A x, y : Len(<< >>) <= 2 /\ Len(<<x>>) <= 2 /\ Len(<<x, y>>) <= 2
      OBVIOUS
    <3>2. devGot = << >> \/ devGot = <<First>> \/ \E q : devGot = <<First, q>>
      BY DEF TalkInv, HeardBoth
    <3> QED BY <3>1, <3>2, Zenon
  <2>3. ASSUME NEW i \in 1 .. Len(controlCh) PROVE controlCh[i].cpt \in -128 .. 127
    <3>1. PICK X : controlCh \in Seq(X) /\ Wire(X)
      BY DEF ControlInv
    <3>2. controlCh[i] \in X
      BY <3>1
    <3>3. OneByte(controlCh[i].cpt)
      BY <3>1, <3>2 DEF Wire
    <3>4. \A c : OneByte(c) => c \in -128 .. 127
      BY DEF OneByte
    <3> QED BY <3>3, <3>4, Zenon
  <2> QED BY <2>1, <2>2, <2>3 DEF HandshakeTypeOK, TalkInv
<1>2. Init => TimeInv
  BY TimeInit
<1>3. ScheduleInv /\ TimeInv /\ [Next]_vars => TimeInv'
  BY TimeStep
<1> QED BY <1>1, <1>2, <1>3, ScheduleIsMade, TalkIsSound, ControlIsTyped, PTL DEF Spec

----------------------------------------------------------------------------
(* Remainders by a divisor that is not a numeral.                          *)

\* x is y and q times d.
Apart(x, y, q, d) == x = y + q * d

LEMMA DivMod ==
  ASSUME NEW x \in Int, NEW d \in Nat \ {0}
  PROVE  \E q \in Int, r \in Nat : r = x % d /\ r < d /\ Apart(x, r, q, d)
<1>1. /\ x \div d \in Int /\ x % d \in Nat /\ x % d < d
      /\ x = (x \div d) * d + (x % d)
  OBVIOUS
<1>2. PICK q \in Int, r \in Nat, z \in Int :
        q = x \div d /\ r = x % d /\ r < d /\ z = q * d /\ x = z + r
  BY <1>1
<1>3. x = r + q * d
  BY <1>2
<1> QED BY <1>2, <1>3 DEF Apart

LEMMA ApartSum ==
  ASSUME NEW x \in Int, NEW y \in Int, NEW z \in Int, NEW k \in Int, NEW l \in Int,
         NEW d \in Int, Apart(x, y, k, d), Apart(y, z, l, d)
  PROVE  Apart(x, z, k + l, d)
<1>1. PICK u \in Int, v \in Int : u = k * d /\ v = l * d
  OBVIOUS
<1>2. x = y + u /\ y = z + v
  BY <1>1 DEF Apart
<1>3. (k + l) * d = u + v
  BY <1>1
<1> QED BY <1>2, <1>3 DEF Apart

LEMMA ApartBack ==
  ASSUME NEW x \in Int, NEW y \in Int, NEW k \in Int, NEW d \in Int, Apart(x, y, k, d)
  PROVE  Apart(y, x, -k, d)
<1>1. PICK u \in Int : u = k * d
  OBVIOUS
<1>2. x = y + u
  BY <1>1 DEF Apart
<1>3. (-k) * d = -u
  BY <1>1
<1> QED BY <1>2, <1>3 DEF Apart

\* A quotient between -1 and 1 is 0.
LEMMA SmallMultiple ==
  ASSUME NEW q \in Int, NEW d \in Nat \ {0}, -d < q * d, q * d < d
  PROVE  q = 0
<1>1. CASE q >= 1
  <2>1. PICK e \in Nat : q = e + 1
    BY <1>1
  <2>2. q * d = e * d + d /\ e * d \in Nat
    BY <2>1
  <2> QED BY <2>2
<1>2. CASE q <= -1
  <2>1. PICK e \in Nat : q = (-1) - e
    <3>1. (-1) - q \in Nat /\ q = (-1) - ((-1) - q)
      BY <1>2
    <3> QED BY <3>1
  <2>2. q * d = (-d) - e * d /\ e * d \in Nat
    BY <2>1
  <2> QED BY <2>2
<1> QED BY <1>1, <1>2

LEMMA ModIs ==
  ASSUME NEW d \in Nat \ {0}, NEW q \in Int, NEW r \in Nat, r < d, NEW x \in Int,
         Apart(x, r, q, d)
  PROVE  x % d = r
<1>1. PICK k \in Int, s \in Nat : s = x % d /\ s < d /\ Apart(x, s, k, d)
  BY DivMod
<1>2. PICK l \in Int, z \in Int : l = q - k /\ z = l * d /\ z = s - r
  <2>1. PICK u \in Int, v \in Int : u = q * d /\ v = k * d
    OBVIOUS
  <2>2. x = r + u /\ x = s + v
    BY <1>1, <2>1 DEF Apart
  <2>3. (q - k) * d = u - v
    BY <2>1
  <2> QED BY <2>2, <2>3
<1>3. l = 0
  <2>1. -d < l * d /\ l * d < d
    BY <1>1, <1>2
  <2> QED BY <2>1, SmallMultiple
<1>4. z = 0
  BY <1>2, <1>3
<1> QED BY <1>1, <1>2, <1>4

LEMMA ModShift ==
  ASSUME NEW d \in Nat \ {0}, NEW x \in Int, NEW q \in Int, NEW y \in Int,
         Apart(y, x, q, d)
  PROVE  y % d = x % d
<1>1. PICK k \in Int, r \in Nat : r = x % d /\ r < d /\ Apart(x, r, k, d)
  BY DivMod
<1>2. PICK l \in Int : l = q + k
  OBVIOUS
<1>3. Apart(y, r, l, d)
  BY <1>1, <1>2, ApartSum
<1>4. y % d = r
  BY <1>1, <1>3, ModIs
<1> QED BY <1>1, <1>4

LEMMA ModSmall ==
  ASSUME NEW d \in Nat \ {0}, NEW x \in Nat, x < d
  PROVE  x % d = x
<1>1. Apart(x, x, 0, d)
  BY DEF Apart
<1> QED BY <1>1, ModIs

\* Equal remainders differ by a multiple.
LEMMA ModEqual ==
  ASSUME NEW d \in Nat \ {0}, NEW x \in Int, NEW y \in Int, x % d = y % d
  PROVE  \E q \in Int : Apart(y, x, q, d)
<1>1. PICK k \in Int, r \in Nat : r = x % d /\ Apart(x, r, k, d)
  BY DivMod
<1>2. PICK l \in Int : Apart(y, r, l, d)
  <2>1. PICK m \in Int, s \in Nat : s = y % d /\ Apart(y, s, m, d)
    BY DivMod
  <2>2. s = r
    BY <1>1, <2>1
  <2> QED BY <2>1, <2>2
<1>3. PICK j \in Int : j = -k
  OBVIOUS
<1>4. Apart(r, x, j, d)
  BY <1>1, <1>3, ApartBack
<1>5. Apart(y, x, l + j, d) /\ l + j \in Int
  BY <1>2, <1>4, ApartSum
<1> QED BY <1>5

\* A factor may be reduced first.
LEMMA ModFactor ==
  ASSUME NEW d \in Nat \ {0}, NEW x \in Int, NEW y \in Int
  PROVE  ((x % d) * y) % d = (x * y) % d
<1>1. PICK k \in Int, r \in Nat : r = x % d /\ Apart(x, r, k, d)
  BY DivMod
<1>2. PICK u \in Int, v \in Int, l \in Int : u = x * y /\ v = r * y /\ l = k * y
  OBVIOUS
<1>3. Apart(u, v, l, d)
  <2>1. x = r + k * d
    BY <1>1 DEF Apart
  <2>2. x * y = (r + k * d) * y
    BY <2>1
  <2>3. (r + k * d) * y = r * y + (k * y) * d
    OBVIOUS
  <2> QED BY <1>2, <2>2, <2>3 DEF Apart
<1>4. u % d = v % d
  BY <1>3, ModShift
<1> QED BY <1>1, <1>2, <1>4

\* A summand too.
LEMMA ModSummand ==
  ASSUME NEW d \in Nat \ {0}, NEW x \in Int, NEW y \in Int
  PROVE  ((x % d) + y) % d = (x + y) % d
<1>1. PICK k \in Int, r \in Nat : r = x % d /\ Apart(x, r, k, d)
  BY DivMod
<1>2. PICK u \in Int, v \in Int, z \in Int : u = x + y /\ v = r + y /\ z = k * d
  OBVIOUS
<1>3. Apart(u, v, k, d)
  <2>1. x = r + z
    BY <1>1, <1>2 DEF Apart
  <2>2. u = v + z
    BY <1>2, <2>1
  <2> QED BY <1>2, <2>2 DEF Apart
<1>4. u % d = v % d
  BY <1>3, ModShift
<1> QED BY <1>1, <1>2, <1>4

\* Doubling does not reach 0 by an odd divisor.
LEMMA ModDoubled ==
  ASSUME NEW d \in Nat \ {0}, d % 2 = 1, NEW y \in Nat, y % d # 0
  PROVE  (2 * y) % d # 0
<1> SUFFICES ASSUME (2 * y) % d = 0 PROVE FALSE
  OBVIOUS
<1>1. PICK q \in Int : 2 * y = q * d
  <2>1. PICK z \in Int : z = 2 * y
    OBVIOUS
  <2>2. PICK k \in Int, r \in Nat : r = z % d /\ Apart(z, r, k, d)
    BY DivMod
  <2>3. PICK u \in Int : u = k * d
    OBVIOUS
  <2>4. r = 0
    BY <2>1, <2>2
  <2>5. z = u
    BY <2>2, <2>3, <2>4 DEF Apart
  <2> QED BY <2>1, <2>3, <2>5
<1>2. PICK t \in Nat : d = 2 * t + 1
  <2>1. d \div 2 \in Nat /\ d = 2 * (d \div 2) + 1
    OBVIOUS
  <2> QED BY <2>1
<1>3. PICK s \in Int : q = 2 * s
  <2>1. PICK u \in Int : u = q * t
    OBVIOUS
  <2>2. q * d = 2 * u + q
    BY <1>2, <2>1
  <2>3. q = 2 * (y - u) /\ y - u \in Int
    BY <1>1, <2>2
  <2> QED BY <2>3
<1>4. Apart(y, 0, s, d)
  <2>1. PICK u \in Int : u = s * d
    OBVIOUS
  <2>2. q * d = 2 * u
    BY <1>3, <2>1
  <2>3. y = 0 + u
    BY <1>1, <2>2
  <2> QED BY <2>1, <2>3 DEF Apart
<1>5. y % d = 0
  BY <1>4, ModIs
<1> QED BY <1>5

----------------------------------------------------------------------------
(* Points.                                                                 *)

LEMMA ConstantsAre ==
  /\ p \in Nat \ {0} /\ p > 3 /\ n \in Nat \ {0}
  /\ {a, b, gx, gy, w2m, m2w} \subseteq Coords
  /\ Coords = {x \in Nat : x < p}
  /\ (w2m + m2w) % p = 0
  /\ (gy * gy) % p = (gx * gx * gx + a * gx + b) % p
BY EcsrpAssumption DEF Coords

\* A point of the curve that is not Infinity.
IsAffine(P) ==
  \E x, y \in Coords : P = Affine(x, y) /\ (y * y) % p = Rhs(x)

LEMMA CurveIs ==
  \A P : P \in Curve <=> P = Infinity \/ IsAffine(P)
<1>1. ASSUME NEW P
      PROVE  P \in {Affine(q[1], q[2]) :
                      q \in {r \in Coords \X Coords : (r[2] * r[2]) % p = Rhs(r[1])}}
             <=> IsAffine(P)
  <2>1. ASSUME NEW q \in {r \in Coords \X Coords : (r[2] * r[2]) % p = Rhs(r[1])},
               P = Affine(q[1], q[2])
        PROVE  IsAffine(P)
    BY <2>1 DEF IsAffine
  <2>2. ASSUME NEW x \in Coords, NEW y \in Coords, P = Affine(x, y), (y * y) % p = Rhs(x)
        PROVE  P \in {Affine(q[1], q[2]) :
                      q \in {r \in Coords \X Coords : (r[2] * r[2]) % p = Rhs(r[1])}}
    <3>1. <<x, y>> \in {r \in Coords \X Coords : (r[2] * r[2]) % p = Rhs(r[1])}
      BY <2>2
    <3> QED BY <2>2, <3>1
  <2> QED BY <2>1, <2>2 DEF IsAffine
<1> QED BY <1>1 DEF Curve

LEMMA AffineIs ==
  ASSUME NEW x, NEW y
  PROVE  /\ Affine(x, y).X = x /\ Affine(x, y).Y = y /\ Affine(x, y).Inf = FALSE
         /\ Affine(x, y) # Infinity /\ Affine(x, y) # Panic
BY DEF Affine, Infinity, Panic

LEMMA InfinityIs == Infinity.Inf = TRUE /\ Panic.Inf = TRUE /\ Infinity # Panic
BY DEF Infinity, Panic, Nil

LEMMA PointIs ==
  ASSUME NEW P \in Curve
  PROVE  P # Panic /\ P.Inf \in BOOLEAN /\ (P.Inf <=> P = Infinity)
<1>1. CASE P = Infinity
  BY <1>1, InfinityIs
<1>2. CASE IsAffine(P)
  <2>1. PICK x \in Coords, y \in Coords : P = Affine(x, y)
    BY <1>2 DEF IsAffine
  <2>2. P.Inf = FALSE /\ P # Infinity /\ P # Panic
    BY <2>1, AffineIs, ZenonT(30)
  <2> QED BY <2>2
<1> QED BY <1>1, <1>2, CurveIs

\* add is plus but for two infinities, and double is plus.
LEMMA PlusIs ==
  ASSUME NEW P \in Curve, NEW Q \in Curve
  PROVE  /\ P # Infinity \/ Q # Infinity => add(P, Q) = plus(P, Q)
         /\ plus(P, Infinity) = P /\ plus(Infinity, P) = P
         /\ double(P) = plus(P, P)
<1>0. /\ P # Panic /\ P.Inf \in BOOLEAN /\ (P.Inf <=> P = Infinity)
      /\ Q # Panic /\ Q.Inf \in BOOLEAN /\ (Q.Inf <=> Q = Infinity)
      /\ Infinity # Panic /\ Infinity.Inf = TRUE
  BY PointIs, InfinityIs
<1>1. P # Infinity \/ Q # Infinity => add(P, Q) = plus(P, Q)
  BY DEF plus
<1>2. P # Infinity => add(P, Infinity) = P /\ add(Infinity, P) = P
  BY <1>0, Zenon DEF add
<1>3. plus(P, Infinity) = P /\ plus(Infinity, P) = P
  BY <1>2, Zenon DEF plus
<1>4. double(P) = plus(P, P)
  <2>1. CASE P = Infinity
    BY <1>0, <2>1, Zenon DEF double, plus
  <2>2. CASE P # Infinity
    BY <1>0, <2>2, Zenon DEF add, plus
  <2> QED BY <2>1, <2>2
<1> QED BY <1>1, <1>3, <1>4

LEMMA GeneratorIs == generator \in Curve /\ generator # Infinity
<1>1. gx \in Coords /\ gy \in Coords /\ (gy * gy) % p = Rhs(gx)
  BY ConstantsAre DEF Rhs
<1>2. IsAffine(generator)
  BY <1>1 DEF IsAffine, generator
<1> QED BY <1>2, CurveIs, AffineIs DEF generator

----------------------------------------------------------------------------
(* Multiples of the generator.                                             *)

\* The generator, i times.
Mul(M, i) == M[i % n]

LEMMA MulIs ==
  ASSUME NEW M, GroupLaw(M), NEW i \in Nat
  PROVE  /\ Mul(M, i) \in Curve
         /\ Mul(M, i) = Infinity <=> i % n = 0
         /\ plus(Mul(M, i), generator) = Mul(M, i + 1)
         /\ \A Q, R \in Curve :
              /\ plus(Mul(M, i), Q) \in Curve
              /\ plus(plus(Mul(M, i), Q), R) = plus(Mul(M, i), plus(Q, R))
<1>0. n \in Nat \ {0}
  BY ConstantsAre
<1>1. PICK k \in Int, r \in Nat : r = i % n /\ r < n /\ Apart(i, r, k, n)
  BY <1>0, DivMod
<1>2. r \in 0 .. (n - 1)
  BY <1>0, <1>1
<1>3. (r + 1) % n = (i + 1) % n
  BY <1>0, <1>1, ModSummand, SMTT(30)
<1>4. Mul(M, i) = M[r]
  BY <1>1 DEF Mul
<1>5. /\ M[r] \in Curve /\ (M[r] = Infinity <=> r = 0)
      /\ plus(M[r], generator) = M[(r + 1) % n]
      /\ \A Q, R \in Curve :
              /\ plus(M[r], Q) \in Curve
              /\ plus(plus(M[r], Q), R) = plus(M[r], plus(Q, R))
  BY <1>2, Zenon DEF GroupLaw
<1> QED BY <1>1, <1>3, <1>4, <1>5 DEF Mul

LEMMA MulZero ==
  ASSUME NEW M, GroupLaw(M)
  PROVE  Mul(M, 0) = Infinity /\ Mul(M, 1) = generator
<1>0. 0 % n = 0
  BY ConstantsAre, ModSmall
<1>1. Mul(M, 0) = Infinity
  BY <1>0, MulIs
<1>2. plus(Infinity, generator) = generator
  BY GeneratorIs, PlusIs
<1>3. plus(Mul(M, 0), generator) = Mul(M, 0 + 1)
  BY MulIs
<1> QED BY <1>1, <1>2, <1>3

LEMMA MulAdds ==
  ASSUME NEW M, GroupLaw(M), NEW i \in Nat, NEW j \in Nat
  PROVE  plus(Mul(M, i), Mul(M, j)) = Mul(M, i + j)
<1> DEFINE S == {k \in Nat : plus(Mul(M, i), Mul(M, k)) = Mul(M, i + k)}
<1>1. 0 \in S
  <2>1. plus(Mul(M, i), Infinity) = Mul(M, i)
    BY MulIs, PlusIs
  <2> QED BY <2>1, MulZero
<1>2. ASSUME NEW k \in S PROVE k + 1 \in S
  <2>0. k \in Nat /\ i + k \in Nat /\ (i + k) + 1 = i + (k + 1)
    OBVIOUS
  <2>1. plus(Mul(M, i), Mul(M, k)) = Mul(M, i + k)
    OBVIOUS
  <2>2. plus(Mul(M, i + k), generator) = Mul(M, i + (k + 1))
    BY <2>0, MulIs
  <2>3. plus(Mul(M, k), generator) = Mul(M, k + 1)
    BY <2>0, MulIs
  <2>4. plus(plus(Mul(M, i), Mul(M, k)), generator)
          = plus(Mul(M, i), plus(Mul(M, k), generator))
    <3>1. Mul(M, k) \in Curve
      BY <2>0, MulIs
    <3> QED BY <3>1, GeneratorIs, MulIs
  <2> QED BY <2>0, <2>1, <2>2, <2>3, <2>4
<1>3. S = Nat
  <2> HIDE DEF S
  <2>1. S \in SUBSET Nat
    BY DEF S
  <2> QED BY <1>1, <1>2, <2>1, SetInduction
<1>4. j \in S
  <2> HIDE DEF S
  <2> QED BY <1>3
<1> QED BY <1>4

\* Only the remainder of the multiple counts.
LEMMA MulSame ==
  ASSUME NEW M, NEW i \in Int, NEW j \in Int, NEW q \in Int, Apart(i, j, q, n)
  PROVE  Mul(M, i) = Mul(M, j)
BY ConstantsAre, ModShift DEF Mul

----------------------------------------------------------------------------
(* scalarMult.                                                             *)

\* f runs through k turns of the loop from s0 on.
Run(f, s0, k) ==
  /\ f = [i \in 0 .. k |-> f[i]]
  /\ f[0] = s0
  /\ \A i \in 1 .. k : f[i] = nextBit(f[i - 1])

LEMMA RunExists ==
  ASSUME NEW s0, NEW k \in Nat
  PROVE  \E f : Run(f, s0, k)
<1> DEFINE S == {j \in Nat : \E f : Run(f, s0, j)}
<1>1. 0 \in S
  <2>1. PICK f : f = [i \in 0 .. 0 |-> s0]
    OBVIOUS
  <2>2. Run(f, s0, 0)
    BY <2>1 DEF Run
  <2> QED BY <2>2
<1>2. ASSUME NEW j \in S PROVE j + 1 \in S
  <2>1. j \in Nat
    OBVIOUS
  <2>2. PICK f : Run(f, s0, j)
    OBVIOUS
  <2>3. PICK h : h = [i \in 0 .. j + 1 |-> IF i <= j THEN f[i] ELSE nextBit(f[j])]
    OBVIOUS
  <2>4. Run(h, s0, j + 1)
    <3>1. h = [i \in 0 .. j + 1 |-> h[i]] /\ h[0] = s0
      BY <2>1, <2>2, <2>3 DEF Run
    <3>2. ASSUME NEW i \in 1 .. j + 1 PROVE h[i] = nextBit(h[i - 1])
      <4>1. i - 1 \in 0 .. j /\ h[i - 1] = f[i - 1]
        BY <2>1, <2>3
      <4>2. CASE i = j + 1
        BY <2>1, <2>3, <4>1, <4>2
      <4>3. CASE i # j + 1
        <5>1. i \in 1 .. j /\ h[i] = f[i]
          BY <2>1, <2>3, <4>3
        <5> QED BY <2>2, <4>1, <5>1 DEF Run
      <4> QED BY <4>2, <4>3
    <3> QED BY <3>1, <3>2 DEF Run
  <2> QED BY <2>1, <2>4
<1>3. S = Nat
  <2> HIDE DEF S
  <2>1. S \in SUBSET Nat
    BY DEF S
  <2> QED BY <1>1, <1>2, <2>1, SetInduction
<1>4. k \in S
  <2> HIDE DEF S
  <2> QED BY <1>3
<1> QED BY <1>4

LEMMA ScalarMultRuns ==
  ASSUME NEW k \in Nat, NEW pt, pt.Inf = FALSE,
         NEW f, Run(f, [bits |-> k, res |-> Infinity, cur |-> pt], k)
  PROVE  scalarMult(k, pt) = f[k].res
<1>0. PICK s0 : s0 = [bits |-> k, res |-> Infinity, cur |-> pt]
  OBVIOUS
<1> DEFINE Step(h) == [i \in 0 .. k |-> IF i = 0 THEN s0 ELSE nextBit(h[i - 1])]
<1>1. /\ f = [i \in 0 .. k |-> f[i]] /\ f[0] = s0
      /\ \A i \in 1 .. k : f[i] = nextBit(f[i - 1])
  BY <1>0, Zenon DEF Run
<1>2. f = Step(f)
  <2>1. ASSUME NEW i \in 0 .. k
        PROVE  f[i] = IF i = 0 THEN s0 ELSE nextBit(f[i - 1])
    <3>1. i # 0 => i \in 1 .. k
      OBVIOUS
    <3> QED BY <1>1, <3>1
  <2>2. [i \in 0 .. k |-> f[i]] = Step(f)
    BY <2>1
  <2> QED BY <1>1, <2>2
<1>3. PICK h : h = Step(h) /\ scalarMult(k, pt) = h[k].res
  BY <1>0, <1>2 DEF scalarMult
<1>4. h[k] = f[k]
  <2> DEFINE S == {i \in Nat : i <= k => h[i] = f[i]}
  <2>1. 0 \in S
    BY <1>1, <1>3
  <2>2. ASSUME NEW i \in S PROVE i + 1 \in S
    <3>0. i \in Nat
      OBVIOUS
    <3> SUFFICES ASSUME i + 1 <= k PROVE h[i + 1] = f[i + 1]
      BY <3>0
    <3>1. /\ i + 1 \in 0 .. k /\ i + 1 \in 1 .. k /\ i + 1 # 0 /\ (i + 1) - 1 = i
          /\ h[i] = f[i]
      BY <3>0
    <3>2. h[i + 1] = nextBit(h[i])
      BY <1>3, <3>1
    <3>3. f[i + 1] = nextBit(f[(i + 1) - 1])
      BY <1>1, <3>1
    <3> QED BY <3>1, <3>2, <3>3
  <2>3. S = Nat
    <3> HIDE DEF S
    <3>1. S \in SUBSET Nat
      BY DEF S
    <3> QED BY <2>1, <2>2, <3>1, SetInduction
  <2>4. k \in S
    <3> HIDE DEF S
    <3> QED BY <2>3
  <2> QED BY <2>4
<1> QED BY <1>3, <1>4

\* What the loop has added and what is left of it make t together; the power of
\* two it holds is never Infinity.
Halfway(M, s, c, t) ==
  \E x, y \in Nat :
    /\ s = [bits |-> c, res |-> Mul(M, x), cur |-> Mul(M, y)]
    /\ y % n # 0
    /\ x + c * y = t

LEMMA HalfwayStep ==
  ASSUME NEW M, GroupLaw(M), NEW s, NEW c \in Nat, NEW t \in Nat, Halfway(M, s, c, t)
  PROVE  Halfway(M, nextBit(s), IF c = 0 THEN 0 ELSE c \div 2, t)
<1>1. PICK x \in Nat, y \in Nat :
        /\ s = [bits |-> c, res |-> Mul(M, x), cur |-> Mul(M, y)]
        /\ y % n # 0
        /\ x + c * y = t
  BY DEF Halfway
<1>2. s.bits = c /\ s.res = Mul(M, x) /\ s.cur = Mul(M, y)
  BY <1>1
<1>3. CASE c = 0
  BY <1>2, <1>3, Zenon DEF nextBit
<1>4. CASE c # 0
  <2>1. PICK h \in Nat, r \in {0, 1} : h = c \div 2 /\ r = c % 2 /\ c = 2 * h + r
    OBVIOUS
  <2>2. PICK z \in Nat : z = y + y
    OBVIOUS
  <2>3. z % n # 0
    <3>1. z = 2 * y
      BY <2>2
    <3>2. n \in Nat \ {0} /\ n % 2 = 1
      BY ConstantsAre DEF GroupLaw
    <3> QED BY <1>1, <3>1, <3>2, ModDoubled
  <2>4. Mul(M, x) \in Curve /\ Mul(M, y) \in Curve /\ Mul(M, y) # Infinity
    BY <1>1, MulIs
  <2>5. double(Mul(M, y)) = Mul(M, z)
    BY <2>2, <2>4, PlusIs, MulAdds
  <2>6. add(Mul(M, x), Mul(M, y)) = Mul(M, x + y)
    BY <2>4, PlusIs, MulAdds
  <2>7. PICK u \in Nat : u = h * y
    OBVIOUS
  <2>8. h * z = u + u
    BY <2>2, <2>7
  <2>9. CASE r = 1
    <3>1. nextBit(s) = [bits |-> h, res |-> Mul(M, x + y), cur |-> Mul(M, z)]
      BY <1>2, <1>4, <2>1, <2>5, <2>6, <2>9, Zenon DEF nextBit
    <3>2. c * y = (u + u) + y
      BY <2>1, <2>7, <2>9
    <3>3. (x + y) + h * z = t /\ x + y \in Nat
      BY <1>1, <2>8, <3>2
    <3> QED BY <1>4, <2>1, <2>3, <3>1, <3>3 DEF Halfway
  <2>10. CASE r = 0
    <3>0. r # 1
      BY <2>10
    <3>1. nextBit(s) = [bits |-> h, res |-> Mul(M, x), cur |-> Mul(M, z)]
      BY <1>2, <1>4, <2>1, <2>5, <3>0, Zenon DEF nextBit
    <3>2. c * y = u + u
      BY <2>1, <2>7, <2>10
    <3>3. x + h * z = t
      BY <1>1, <2>8, <3>2
    <3> QED BY <1>4, <2>1, <2>3, <3>1, <3>3 DEF Halfway
  <2> QED BY <2>1, <2>9, <2>10
<1> QED BY <1>3, <1>4

\* Double-and-add computes the multiple.
LEMMA ScalarMultIs ==
  ASSUME NEW M, GroupLaw(M), NEW k \in Nat, NEW m \in Nat, m % n # 0
  PROVE  scalarMult(k, Mul(M, m)) = Mul(M, k * m)
<1>0. PICK pt : pt = Mul(M, m)
  OBVIOUS
<1>t. PICK t \in Nat : t = k * m
  OBVIOUS
<1>1. pt.Inf = FALSE
  BY <1>0, MulIs, PointIs
<1>2. PICK s0 : s0 = [bits |-> k, res |-> Infinity, cur |-> pt]
  OBVIOUS
<1>3. PICK f : Run(f, s0, k)
  BY RunExists
<1>4. scalarMult(k, pt) = f[k].res
  BY <1>1, <1>2, <1>3, ScalarMultRuns
<1> DEFINE Good(i) == \E c \in Nat : (c = 0 \/ c + i <= k) /\ Halfway(M, f[i], c, t)
<1> DEFINE S == {i \in Nat : i <= k => Good(i)}
<1>5. 0 \in S
  <2>1. f[0] = [bits |-> k, res |-> Mul(M, 0), cur |-> Mul(M, m)]
    BY <1>0, <1>2, <1>3, MulZero DEF Run
  <2>2. 0 + k * m = t
    BY <1>t
  <2>3. Halfway(M, f[0], k, t)
    BY <2>1, <2>2 DEF Halfway
  <2> QED BY <2>3
<1>6. ASSUME NEW i \in S PROVE i + 1 \in S
  <2>0. i \in Nat
    OBVIOUS
  <2> SUFFICES ASSUME i + 1 <= k PROVE Good(i + 1)
    BY <2>0
  <2>1. PICK c \in Nat : (c = 0 \/ c + i <= k) /\ Halfway(M, f[i], c, t)
    BY <2>0
  <2>2. f[i + 1] = nextBit(f[i])
    <3>1. i + 1 \in 1 .. k /\ (i + 1) - 1 = i
      BY <2>0
    <3> QED BY <1>3, <3>1 DEF Run
  <2>3. PICK e \in Nat : e = IF c = 0 THEN 0 ELSE c \div 2
    OBVIOUS
  <2>4. Halfway(M, f[i + 1], e, t)
    BY <2>1, <2>2, <2>3, HalfwayStep
  <2>5. e = 0 \/ e + (i + 1) <= k
    BY <2>0, <2>1, <2>3
  <2> QED BY <2>4, <2>5
<1>7. S = Nat
  <2> HIDE DEF S
  <2>1. S \in SUBSET Nat
    BY DEF S
  <2> QED BY <1>5, <1>6, <2>1, SetInduction
<1>8. k \in S
  <2> HIDE DEF S
  <2> QED BY <1>7
<1>9. PICK c \in Nat : (c = 0 \/ c + k <= k) /\ Halfway(M, f[k], c, t)
  BY <1>8
<1>10. Halfway(M, f[k], 0, t)
  BY <1>9
<1>11. PICK x \in Nat, y \in Nat :
         f[k] = [bits |-> 0, res |-> Mul(M, x), cur |-> Mul(M, y)] /\ x + 0 * y = t
  BY <1>10 DEF Halfway
<1>12. f[k].res = Mul(M, x) /\ x = t
  BY <1>11
<1> QED BY <1>0, <1>t, <1>4, <1>12

----------------------------------------------------------------------------
(* Lifting an x-coordinate.                                                *)

LEMMA NegSquare ==
  ASSUME NEW y \in Coords, y # 0
  PROVE  p - y \in Coords /\ ((p - y) * (p - y)) % p = (y * y) % p
<1>0. p \in Nat \ {0} /\ y \in Nat /\ y < p
  BY ConstantsAre
<1>1. p - y \in Coords
  BY <1>0, ConstantsAre
<1>2. PICK u \in Int, v \in Int, q \in Int :
        u = (p - y) * (p - y) /\ v = y * y /\ q = (p - y) - y
  BY <1>0
<1>3. Apart(u, v, q, p)
  BY <1>0, <1>2 DEF Apart
<1>4. u % p = v % p
  BY <1>0, <1>3, ModShift
<1> QED BY <1>1, <1>2, <1>4

LEMMA RhsIs ==
  ASSUME NEW x \in Coords
  PROVE  Rhs(x) \in Coords
BY ConstantsAre DEF Rhs

\* Of the roots liftX may find it returns the one of the parity asked for: an
\* even one and what p is more, which is p itself for the root 0.
LEMMA LiftIs ==
  ASSUME FieldLaw, NEW c \in Coords, Roots(c) # {}
  PROVE  \E y \in Coords :
           /\ (y * y) % p = Rhs(c)
           /\ liftX(c, 0) = Affine(c, y) /\ liftX(c, 1) = Affine(c, p - y)
<1>0. p \in Nat /\ Coords = {x \in Nat : x < p} /\ p % 2 = 1
  BY ConstantsAre DEF FieldLaw
<1>1. PICK r : r = CHOOSE z \in Roots(c) : TRUE
  OBVIOUS
<1>2. r \in Roots(c)
  BY <1>1
<1>3. r \in Coords /\ (r * r) % p = Rhs(c)
  BY <1>2 DEF Roots, Coords
<1>4. \A g : liftX(c, g) = Affine(c, IF r % 2 = g THEN r ELSE p - r)
  BY <1>1 DEF liftX
<1>5. CASE r % 2 = 0
  <2>1. liftX(c, 0) = Affine(c, r) /\ liftX(c, 1) = Affine(c, p - r)
    BY <1>4, <1>5
  <2> QED BY <1>3, <2>1
<1>6. CASE r % 2 = 1
  <2>1. liftX(c, 0) = Affine(c, p - r) /\ liftX(c, 1) = Affine(c, r)
    BY <1>4, <1>6
  <2>2. r # 0 /\ p - (p - r) = r
    BY <1>0, <1>3, <1>6
  <2>3. p - r \in Coords /\ ((p - r) * (p - r)) % p = Rhs(c)
    BY <1>3, <2>2, NegSquare
  <2> QED BY <2>1, <2>2, <2>3
<1>7. r % 2 \in {0, 1}
  BY <1>0, <1>3
<1> QED BY <1>5, <1>6, <1>7

\* liftX is the inverse of compress.
LEMMA LiftsBack ==
  ASSUME FieldLaw, NEW P, IsAffine(P)
  PROVE  /\ compress(P).x \in Nat
         /\ liftX((compress(P).x + m2w) % p, compress(P).parity) = P
<1>0. p \in Nat \ {0} /\ p % 2 = 1 /\ w2m \in Coords /\ m2w \in Coords
  BY ConstantsAre DEF FieldLaw
<1>1. PICK x \in Coords, y \in Coords : P = Affine(x, y) /\ (y * y) % p = Rhs(x)
  BY DEF IsAffine
<1>2. PICK u : u = (x + w2m) % p
  OBVIOUS
<1>3. compress(P) = [x |-> u, parity |-> y % 2]
  <2>1. P.Inf = FALSE /\ P.X = x /\ P.Y = y
    BY <1>1, AffineIs, ZenonT(30)
  <2> QED BY <1>2, <2>1, Zenon DEF compress
<1>4. compress(P).x = u /\ compress(P).parity = y % 2
  BY <1>3
<1>5. u \in Nat /\ (u + m2w) % p = x
  <2>0. x \in Int /\ w2m \in Int /\ m2w \in Int
    BY ConstantsAre
  <2>1. u \in Nat
    BY <1>0, <1>2, <2>0
  <2>2. PICK z \in Int : z = x + w2m
    BY <2>0
  <2>3. (u + m2w) % p = (z + m2w) % p
    BY <1>0, <1>2, <2>0, <2>2, ModSummand
  <2>4. PICK d \in Int, v \in Int : d = w2m + m2w /\ v = d + x
    BY <2>0
  <2>5. (d % p) + x = x /\ d % p = 0
    BY <2>0, <2>4, ConstantsAre
  <2>6. ((d % p) + x) % p = v % p
    BY <1>0, <2>0, <2>4, ModSummand
  <2>7. x % p = x
    BY <1>0, ConstantsAre, ModSmall
  <2>8. z + m2w = v
    BY <2>0, <2>2, <2>4
  <2> QED BY <2>1, <2>3, <2>5, <2>6, <2>7, <2>8
<1>6. liftX(x, y % 2) = Affine(x, y)
  <2>0. y \in Roots(x)
    BY <1>1 DEF Roots, Coords
  <2>1. PICK r : r = CHOOSE z \in Roots(x) : TRUE
    OBVIOUS
  <2>2. r \in Roots(x)
    BY <2>0, <2>1
  <2>3. r \in Coords /\ (r * r) % p = (y * y) % p
    BY <1>1, <2>2 DEF Roots, Coords
  <2>4. r = y \/ r + y = p
    BY <1>1, <2>3 DEF FieldLaw
  <2>5. liftX(x, y % 2) = Affine(x, IF r % 2 = y % 2 THEN r ELSE p - r)
    BY <2>0, <2>1 DEF liftX
  <2>6. r \in Nat /\ y \in Nat
    BY <2>3, ConstantsAre
  <2>7. (IF r % 2 = y % 2 THEN r ELSE p - r) = y
    BY <1>0, <2>4, <2>6
  <2> QED BY <2>5, <2>7
<1> QED BY <1>1, <1>4, <1>5, <1>6

----------------------------------------------------------------------------
(* Folding the validator's point in and out.                               *)

LEMMA InverseIs ==
  ASSUME FieldLaw, NEW d \in Int, Invertible(d)
  PROVE  ModInverse(d) \in Int
<1>0. p \in Nat \ {0} /\ Coords = {x \in Nat : x < p}
  BY ConstantsAre
<1>1. PICK k \in Int, e \in Nat : e = d % p /\ e < p /\ Apart(d, e, k, p)
  BY <1>0, DivMod
<1>2. e \in Coords \ {0}
  BY <1>0, <1>1 DEF Invertible
<1>3. PICK i \in Coords : (e * i) % p = 1
  BY <1>2 DEF FieldLaw
<1>4. (d * i) % p = 1
  <2>1. i \in Int
    BY <1>0
  <2>2. ((d % p) * i) % p = (d * i) % p
    BY <1>0, <2>1, ModFactor
  <2> QED BY <1>1, <1>3, <2>2, Zenon
<1>5. i # 0
  <2>1. 0 % p = 0
    BY <1>0, ModSmall
  <2>2. i = 0 => e * i = 0
    OBVIOUS
  <2> QED BY <1>3, <2>1, <2>2
<1>6. i \in 1 .. (p - 1)
  BY <1>0, <1>5
<1> QED BY <1>4, <1>6 DEF ModInverse

\* The two points of an x-coordinate add up to Infinity.
LEMMA MirrorIs ==
  ASSUME FieldLaw, NEW c, NEW y \in Coords
  PROVE  add(Affine(c, y), Affine(c, p - y)) = Infinity
<1>1. y # p - y
  <2>1. p \in Nat /\ p % 2 = 1 /\ y \in Nat
    BY ConstantsAre DEF FieldLaw
  <2> QED BY <2>1
<1>2. PICK P, Q : P = Affine(c, y) /\ Q = Affine(c, p - y)
  OBVIOUS
<1>3. /\ P.X = c /\ P.Y = y /\ P.Inf = FALSE /\ P # Panic
      /\ Q.X = c /\ Q.Y = p - y /\ Q.Inf = FALSE /\ Q # Panic
  BY <1>2, AffineIs, ZenonT(30)
<1>4. add(P, Q) = Infinity
  BY <1>1, <1>3, Zenon DEF add
<1> QED BY <1>2, <1>4

\* A point whose y is p adds like the one whose y is 0.
LEMMA UnreducedIs ==
  ASSUME FieldLaw, NEW S, NEW sx \in Coords, NEW sy \in Coords, S = Affine(sx, sy),
         NEW c \in Coords, c # sx
  PROVE  add(S, Affine(c, p)) = add(S, Affine(c, 0))
<1>0. p \in Nat \ {0} /\ sx \in Int /\ sy \in Int /\ c \in Int
  BY ConstantsAre
<1>1. PICK V, W : V = Affine(c, 0) /\ W = Affine(c, p)
  OBVIOUS
<1>2. /\ S.X = sx /\ S.Y = sy /\ S.Inf = FALSE /\ S # Panic
      /\ V.X = c /\ V.Y = 0 /\ V.Inf = FALSE /\ V # Panic
      /\ W.X = c /\ W.Y = p /\ W.Inf = FALSE /\ W # Panic
  <2>1. S.X = sx /\ S.Y = sy /\ S.Inf = FALSE /\ S # Panic
    BY AffineIs, ZenonT(30)
  <2>2. V.X = c /\ V.Y = 0 /\ V.Inf = FALSE /\ V # Panic
    BY <1>1, AffineIs, ZenonT(30)
  <2>3. W.X = c /\ W.Y = p /\ W.Inf = FALSE /\ W # Panic
    BY <1>1, AffineIs, ZenonT(30)
  <2> QED BY <2>1, <2>2, <2>3
<1>3. CASE ~Invertible(c - sx)
  <2>1. add(S, V) = Infinity /\ add(S, W) = Infinity
    BY <1>2, <1>3, Zenon DEF add
  <2> QED BY <1>1, <2>1
<1>4. CASE Invertible(c - sx)
  <2>1. PICK i \in Int : i = ModInverse(c - sx)
    BY <1>0, <1>4, InverseIs
  <2>2. PICK u \in Int, v \in Int : u = (p - sy) * i /\ v = (0 - sy) * i
    BY <1>0
  <2>3. Apart(u, v, i, p)
    <3>1. (p - sy) * i = (0 - sy) * i + i * p
      BY <1>0
    <3> QED BY <2>2, <3>1 DEF Apart
  <2>4. u % p = v % p
    BY <1>0, <2>3, ModShift
  <2>5. ((W.Y - S.Y) * ModInverse(W.X - S.X)) % p = ((V.Y - S.Y) * ModInverse(V.X - S.X)) % p
    BY <1>2, <2>1, <2>2, <2>4, Zenon
  <2>6. PICK l : /\ l = ((W.Y - S.Y) * ModInverse(W.X - S.X)) % p
                 /\ l = ((V.Y - S.Y) * ModInverse(V.X - S.X)) % p
    BY <2>5, Zenon
  <2>7. add(S, V) = chord(l, S, V) /\ add(S, W) = chord(l, S, W)
    BY <1>2, <1>4, <2>6, Zenon DEF add
  <2>8. chord(l, S, V) = chord(l, S, W)
    BY <1>2, Zenon DEF chord
  <2> QED BY <1>1, <2>7, <2>8
<1> QED BY <1>3, <1>4

\* What one point of an x-coordinate folds in, the other folds out, even where
\* liftX leaves its y unreduced.
LEMMA UnfoldIs ==
  ASSUME FieldLaw, NEW M, GroupLaw(M), NEW i \in Nat, i % n # 0,
         NEW c \in Coords, NEW y \in Coords, (y * y) % p = Rhs(c),
         NEW S \in Curve, S # Infinity, S = plus(Mul(M, i), Affine(c, y))
  PROVE  add(S, Affine(c, p - y)) = Mul(M, i)
<1>0. PICK V, W : V = Affine(c, y) /\ W = Affine(c, p - y)
  OBVIOUS
<1>1. V \in Curve /\ V # Infinity
  <2>1. IsAffine(V)
    BY <1>0 DEF IsAffine
  <2> QED BY <1>0, <2>1, CurveIs, AffineIs
<1>2. PICK T : T = Mul(M, i)
  OBVIOUS
<1>3. /\ T # Infinity /\ T \in Curve
      /\ \A Q, R \in Curve : plus(plus(T, Q), R) = plus(T, plus(Q, R))
      /\ plus(T, Infinity) = T
  BY <1>2, MulIs, PlusIs
<1>4. S = plus(T, V)
  BY <1>0, <1>2
<1>5. CASE y # 0
  <2>1. IsAffine(W)
    BY <1>0, <1>5, NegSquare DEF IsAffine
  <2>2. W \in Curve
    BY <2>1, CurveIs
  <2>3. plus(V, W) = Infinity
    <3>1. add(V, W) = Infinity
      BY <1>0, MirrorIs
    <3> QED BY <1>1, <2>2, <3>1, PlusIs
  <2>4. add(S, W) = plus(S, W)
    BY <2>2, PlusIs
  <2>5. plus(S, W) = T
    BY <1>1, <1>3, <1>4, <2>2, <2>3
  <2> QED BY <1>0, <1>2, <2>4, <2>5
<1>6. CASE y = 0
  <2>0. W = Affine(c, p) /\ V = Affine(c, 0)
    <3>1. p - 0 = p
      BY ConstantsAre
    <3> QED BY <1>0, <1>6, <3>1
  <2>1. plus(V, V) = Infinity
    <3>1. V.Y = 0 /\ V # Panic
      BY <2>0, AffineIs
    <3>2. double(V) = Infinity
      BY <3>1, Zenon DEF double
    <3> QED BY <1>1, <3>2, PlusIs
  <2>2. plus(S, V) = T
    BY <1>1, <1>3, <1>4, <2>1
  <2>3. PICK sx \in Coords, sy \in Coords : S = Affine(sx, sy) /\ (sy * sy) % p = Rhs(sx)
    BY CurveIs DEF IsAffine
  <2>4. sx # c
    <3> SUFFICES ASSUME sx = c PROVE FALSE
      OBVIOUS
    <3>1. sy = y \/ sy + y = p
      BY <2>3 DEF FieldLaw
    <3>2. sy = 0
      BY <1>6, <2>3, <3>1, ConstantsAre
    <3>3. S = V
      BY <2>0, <2>3, <3>2
    <3> QED BY <1>3, <2>1, <2>2, <3>3
  <2>5. add(S, W) = add(S, V)
    BY <2>0, <2>3, <2>4, UnreducedIs
  <2>6. add(S, V) = plus(S, V)
    BY <1>1, PlusIs
  <2> QED BY <1>0, <1>2, <2>2, <2>5, <2>6
<1> QED BY <1>5, <1>6

----------------------------------------------------------------------------
(* The exchange.                                                           *)

\* A digest is a number.
Digests == \A x \in Nat : Sha256(x) \in Nat

LEMMA OneIs ==
  ASSUME NEW M, GroupLaw(M)
  PROVE  1 % n # 0
BY MulZero, MulIs, GeneratorIs

\* Multiples of the generator itself.
LEMMA MultIs ==
  ASSUME NEW M, GroupLaw(M), NEW k \in Nat
  PROVE  scalarMult(k, generator) = Mul(M, k)
<1>1. scalarMult(k, Mul(M, 1)) = Mul(M, k * 1)
  BY OneIs, ScalarMultIs
<1>2. k * 1 = k
  OBVIOUS
<1> QED BY <1>1, <1>2, MulZero

LEMMA CandidateIs ==
  ASSUME Digests, NEW e \in Nat
  PROVE  candidate(e) \in Coords
<1>1. Sha256(e) \in Nat /\ m2w \in Nat /\ p \in Nat \ {0}
  BY ConstantsAre DEF Digests
<1>2. PICK z \in Int : z = Sha256(e) + m2w
  BY <1>1
<1>3. PICK k \in Int, r \in Nat : r = z % p /\ r < p /\ Apart(z, r, k, p)
  BY <1>1, DivMod
<1>4. r \in Coords
  BY <1>3, ConstantsAre
<1> QED BY <1>2, <1>3, <1>4 DEF candidate

LEMMA FirstOnCurveIs ==
  ASSUME Digests, TangleEnds, NEW x \in Coords
  PROVE  /\ firstOnCurve(Sha256(x)) \in Nat
         /\ Roots(candidate(firstOnCurve(Sha256(x)))) # {}
<1>0. PICK seed \in Nat : seed = Sha256(x)
  BY ConstantsAre DEF Digests
<1>1. PICK q \in Nat : q = seed + p * p
  BY ConstantsAre
<1> DEFINE T == {e \in Nat : e \in seed .. q /\ Roots(candidate(e)) # {}}
<1>2. T # {}
  <2>1. \E e \in seed .. q : Roots(candidate(e)) # {}
    BY <1>0, <1>1 DEF TangleEnds
  <2>2. \A e \in seed .. q : e \in Nat
    OBVIOUS
  <2> QED BY <2>1, <2>2
<1>3. PICK e \in T : \A f \in T : e <= f
  <2> HIDE DEF T
  <2>1. T \in SUBSET Nat
    BY DEF T
  <2> QED BY <1>2, <2>1, Least
<1>4. e \in seed .. q /\ Roots(candidate(e)) # {} /\ e \in Nat
  BY <1>3
<1>5. \A f \in seed .. (e - 1) : Roots(candidate(f)) = {}
  <2> SUFFICES ASSUME NEW f \in seed .. (e - 1), Roots(candidate(f)) # {} PROVE FALSE
    OBVIOUS
  <2>1. f \in Nat /\ f \in seed .. q /\ f < e
    BY <1>4
  <2>2. f \in T
    BY <2>1
  <2> QED BY <1>3, <1>4, <2>1, <2>2
<1>6. PICK g : g = firstOnCurve(seed)
  OBVIOUS
<1>7. g \in seed .. q /\ Roots(candidate(g)) # {}
  BY <1>1, <1>4, <1>5, <1>6, Zenon DEF firstOnCurve
<1>8. g \in Nat
  BY <1>7
<1> QED BY <1>0, <1>6, <1>7, <1>8

\* tangle adds one of two mirrored points, the same for every target.
FoldsIn(v, c, y) ==
  /\ (y * y) % p = Rhs(c)
  /\ \A T : /\ tangle(T, v, 0) = add(T, Affine(c, y))
            /\ tangle(T, v, 1) = add(T, Affine(c, p - y))

LEMMA TangleIs ==
  ASSUME FieldLaw, Digests, TangleEnds, NEW M, GroupLaw(M), NEW v \in Nat
  PROVE  \/ \A T, g : tangle(T, v, g) = Panic
         \/ \E c, y \in Coords : FoldsIn(v, c, y)
<1>1. PICK P \in Curve : P = scalarMult(v, generator)
  BY MultIs, MulIs
<1>2. CASE P.Inf
  <2>1. ASSUME NEW T, NEW g PROVE tangle(T, v, g) = Panic
    BY <1>1, <1>2, Zenon DEF tangle
  <2> QED BY <2>1
<1>3. CASE ~P.Inf
  <2>1. PICK x \in Coords, y \in Coords : P = Affine(x, y)
    BY <1>3, PointIs, InfinityIs, CurveIs DEF IsAffine
  <2>2. PICK z \in Coords : z = (P.X + w2m) % p
    <3>0. x \in Int /\ w2m \in Int /\ p \in Nat \ {0}
      BY ConstantsAre
    <3>1. P.X = x
      BY <2>1, AffineIs
    <3>2. PICK s \in Int : s = P.X + w2m
      BY <3>0, <3>1
    <3>3. PICK k \in Int, r \in Nat : r = s % p /\ r < p /\ Apart(s, r, k, p)
      BY <3>0, DivMod
    <3>4. r \in Coords
      BY <3>3, ConstantsAre
    <3> QED BY <3>2, <3>3, <3>4
  <2>3. PICK c \in Coords : c = candidate(firstOnCurve(Sha256(z))) /\ Roots(c) # {}
    BY FirstOnCurveIs, CandidateIs
  <2>4. \A T, g : tangle(T, v, g) = add(T, liftX(c, g))
    BY <1>1, <1>3, <2>2, <2>3, Zenon DEF tangle
  <2>5. PICK u \in Coords :
          /\ (u * u) % p = Rhs(c)
          /\ liftX(c, 0) = Affine(c, u) /\ liftX(c, 1) = Affine(c, p - u)
    BY <2>3, LiftIs
  <2>6. FoldsIn(v, c, u)
    BY <2>4, <2>5, Zenon DEF FoldsIn
  <2> QED BY <2>6
<1> QED BY <1>2, <1>3

\* A record of another kind than a point.
LEMMA NoPoint ==
  /\ \A x, y : [x |-> x, parity |-> y] # Panic
  /\ \A h, z : [h |-> h, z |-> z] # Panic
<1>1. "X" \in DOMAIN Panic
  BY DEF Panic
<1>2. \A x, y : "X" \notin DOMAIN [x |-> x, parity |-> y]
  OBVIOUS
<1>3. \A h, z : "X" \notin DOMAIN [h |-> h, z |-> z]
  OBVIOUS
<1> QED BY <1>1, <1>2, <1>3

\* The client's key: there is none for a multiple of the order.
LEMMA ClientKeyIs ==
  ASSUME FieldLaw, NEW M, GroupLaw(M), NEW k \in Nat
  PROVE  /\ k % n = 0 => keygen(k, NoValidator) = Panic
         /\ k % n # 0 =>
              LET key == keygen(k, NoValidator)
              IN  /\ key # Panic /\ key.x \in Nat
                  /\ liftX((key.x + m2w) % p, key.parity) = Mul(M, k)
<1>1. keygen(k, NoValidator) = compress(Mul(M, k))
  BY MultIs DEF keygen
<1>2. CASE k % n = 0
  <2>1. Mul(M, k) = Infinity /\ Infinity.Inf = TRUE
    BY <1>2, MulIs, InfinityIs
  <2>2. compress(Infinity) = Panic
    BY <2>1, Zenon DEF compress
  <2> QED BY <1>1, <1>2, <2>1, <2>2
<1>3. CASE k % n # 0
  <2>1. IsAffine(Mul(M, k))
    BY <1>3, MulIs, CurveIs
  <2>2. PICK key : key = compress(Mul(M, k))
    OBVIOUS
  <2>3. key.x \in Nat /\ liftX((key.x + m2w) % p, key.parity) = Mul(M, k)
    BY <2>1, <2>2, LiftsBack
  <2>4. key # Panic
    <3>1. Mul(M, k).Inf = FALSE
      BY <1>3, MulIs, PointIs
    <3> QED BY <2>2, <3>1, NoPoint DEF compress
  <2> QED BY <1>1, <1>3, <2>2, <2>3, <2>4
<1> QED BY <1>2, <1>3

\* The device's key is a point of the curve: its multiple with the validator's
\* point folded in.
LEMMA DeviceKeyIs ==
  ASSUME FieldLaw, Digests, TangleEnds, NEW M, GroupLaw(M), NEW k \in Nat, NEW v \in Nat,
         keygen(k, v) # Panic
  PROVE  \E c, y \in Coords, S \in Curve :
           /\ FoldsIn(v, c, y)
           /\ S # Infinity /\ S = plus(Mul(M, k), Affine(c, y))
           /\ keygen(k, v) = compress(S) /\ keygen(k, v).x \in Nat
           /\ liftX((keygen(k, v).x + m2w) % p, keygen(k, v).parity) = S
<1>0. PICK T \in Curve : T = Mul(M, k)
  BY MulIs
<1>1. keygen(k, v) = compress(tangle(T, v, 0))
  <2>1. v # NoValidator
    BY DEF NoValidator
  <2>2. scalarMult(k, generator) = T
    BY <1>0, MultIs
  <2> QED BY <2>1, <2>2, Zenon DEF keygen
<1>2. \A P : P.Inf = TRUE => compress(P) = Panic
  BY DEF compress
<1>3. tangle(T, v, 0) # Panic
  BY <1>1, <1>2, InfinityIs
<1>4. PICK c \in Coords, y \in Coords : FoldsIn(v, c, y)
  BY <1>3, TangleIs
<1>5. PICK V : V = Affine(c, y)
  OBVIOUS
<1>6. IsAffine(V) /\ V \in Curve /\ V # Infinity
  <2>1. (y * y) % p = Rhs(c)
    BY <1>4 DEF FoldsIn
  <2>2. IsAffine(V)
    BY <1>5, <2>1 DEF IsAffine
  <2> QED BY <1>5, <2>2, CurveIs, AffineIs
<1>7. PICK S \in Curve : S = plus(T, V) /\ S = tangle(T, v, 0)
  <2>1. tangle(T, v, 0) = add(T, V)
    BY <1>4, <1>5 DEF FoldsIn
  <2>2. add(T, V) = plus(T, V)
    BY <1>6, PlusIs
  <2>3. plus(T, V) \in Curve
    BY <1>0, <1>6, MulIs
  <2> QED BY <2>1, <2>2, <2>3
<1>8. S # Infinity
  BY <1>1, <1>2, <1>7, InfinityIs
<1>9. IsAffine(S)
  BY <1>8, CurveIs
<1>10. keygen(k, v) = compress(S)
  BY <1>1, <1>7
<1>11. /\ compress(S).x \in Nat
       /\ liftX((compress(S).x + m2w) % p, compress(S).parity) = S
  BY <1>9, LiftsBack
<1> QED BY <1>0, <1>4, <1>5, <1>7, <1>8, <1>10, <1>11, Zenon

\* The scalar of the client's answer.
Scalar(v, h, k) == (((v * h) % n) + k) % n

LEMMA ScalarIs ==
  ASSUME NEW v \in Nat, NEW h \in Nat, NEW k \in Nat
  PROVE  /\ Scalar(v, h, k) \in Nat /\ Scalar(v, h, k) < n
         /\ Scalar(v, h, k) = (v * h + k) % n
<1>0. n \in Nat \ {0}
  BY ConstantsAre
<1>1. PICK x \in Int : x = v * h
  OBVIOUS
<1>2. ((x % n) + k) % n = (x + k) % n
  <2>1. k \in Int
    OBVIOUS
  <2> QED BY <1>0, <2>1, ModSummand
<1>3. PICK z \in Int : z = x + k
  OBVIOUS
<1>4. PICK q \in Int, r \in Nat : r = z % n /\ r < n /\ Apart(z, r, q, n)
  BY <1>0, DivMod
<1>5. Scalar(v, h, k) = (x + k) % n
  BY <1>1, <1>2 DEF Scalar
<1>6. Scalar(v, h, k) = r
  BY <1>3, <1>4, <1>5
<1> QED BY <1>1, <1>4, <1>5, <1>6

\* What the client computes.
LEMMA DocryptoIs ==
  ASSUME FieldLaw, Digests, TangleEnds, NEW M, GroupLaw(M),
         NEW i \in Nat, NEW k \in Nat, NEW v \in Nat, NEW clientKey, clientKey.x \in Nat,
         NEW key, key = keygen(k, v), key # Panic,
         NEW h, h = keyHash(clientKey, key)
  PROVE  /\ h \in Nat
         /\ k % n = 0 => docrypto(i, key, clientKey, v) = Panic
         /\ k % n # 0 => docrypto(i, key, clientKey, v)
                           = secret(h, Mul(M, Scalar(v, h, i) * k))
<1>1. PICK c \in Coords, y \in Coords, S \in Curve :
           /\ FoldsIn(v, c, y)
           /\ S # Infinity /\ S = plus(Mul(M, k), Affine(c, y))
           /\ key.x \in Nat
           /\ liftX((key.x + m2w) % p, key.parity) = S
  <2>1. \E c, y \in Coords, S \in Curve :
           /\ FoldsIn(v, c, y)
           /\ S # Infinity /\ S = plus(Mul(M, k), Affine(c, y))
           /\ key.x \in Nat
           /\ liftX((key.x + m2w) % p, key.parity) = S
    BY DeviceKeyIs
  <2> QED BY <2>1
<1>2. h \in Nat
  <2>1. PICK z \in Nat : z = clientKey.x * p + key.x
    BY <1>1, ConstantsAre
  <2> QED BY <2>1 DEF keyHash, Digests
<1>3. (y * y) % p = Rhs(c)
  BY <1>1 DEF FoldsIn
<1>4. PICK B : B = add(S, Affine(c, p - y)) /\ B = tangle(S, v, 1)
  BY <1>1, Zenon DEF FoldsIn
<1>5. PICK s : s = Scalar(v, h, i)
  OBVIOUS
<1>6. docrypto(i, key, clientKey, v) =
        IF B.Inf THEN Panic ELSE secret(h, scalarMult(s, B))
  <2>1. docrypto(i, key, clientKey, v) =
          IF S = Infinity THEN NotOnCurve
          ELSE IF B.Inf THEN Panic ELSE secret(h, scalarMult(s, B))
    BY <1>1, <1>4, <1>5, Zenon DEF docrypto, Scalar
  <2> QED BY <1>1, <2>1
<1>7. CASE k % n = 0
  <2>1. Mul(M, k) = Infinity
    BY <1>7, MulIs
  <2>2. IsAffine(Affine(c, y))
    BY <1>3 DEF IsAffine
  <2>3. S = Affine(c, y)
    BY <1>1, <2>1, <2>2, CurveIs, PlusIs
  <2>4. B = Infinity
    BY <1>4, <2>3, MirrorIs
  <2> QED BY <1>2, <1>6, <1>7, <2>4, InfinityIs
<1>8. CASE k % n # 0
  <2>1. B = Mul(M, k)
    BY <1>1, <1>3, <1>4, <1>8, UnfoldIs
  <2>2. B.Inf = FALSE
    BY <1>8, <2>1, MulIs, PointIs
  <2>3. scalarMult(s, B) = Mul(M, s * k)
    <3>1. s \in Nat
      BY <1>2, <1>5, ScalarIs
    <3>2. scalarMult(s, Mul(M, k)) = Mul(M, s * k)
      BY <1>8, <3>1, ScalarMultIs
    <3> QED BY <2>1, <3>2
  <2> QED BY <1>2, <1>5, <1>6, <1>8, <2>2, <2>3
<1> QED BY <1>7, <1>8

\* What the device computes: the same multiple.
LEMMA DeviceMultiple ==
  ASSUME NEW M, GroupLaw(M), NEW i \in Nat, NEW k \in Nat, NEW v \in Nat, NEW h \in Nat,
         Scalar(v, h, i) # 0,
         NEW A, A = Mul(M, i), NEW hV, hV = scalarMult((h * v) % n, generator)
  PROVE  scalarMult(k, IF hV = Infinity THEN A ELSE add(A, hV))
           = Mul(M, Scalar(v, h, i) * k)
<1>0. n \in Nat \ {0}
  BY ConstantsAre
<1>1. PICK e \in Nat : e = (h * v) % n /\ e = (v * h) % n
  <2>1. h * v = v * h
    OBVIOUS
  <2>2. PICK z \in Int : z = h * v
    OBVIOUS
  <2>3. PICK q \in Int, r \in Nat : r = z % n /\ r < n /\ Apart(z, r, q, n)
    BY <1>0, DivMod
  <2> QED BY <2>1, <2>2, <2>3
<1>2. hV = Mul(M, e)
  BY <1>1, MultIs
<1>3. PICK P : P = IF hV = Infinity THEN A ELSE add(A, hV)
  OBVIOUS
<1>4. A \in Curve /\ hV \in Curve
  BY <1>2, MulIs
<1>5. P = plus(A, hV)
  BY <1>3, <1>4, PlusIs
<1>6. PICK u \in Nat : u = i + e
  OBVIOUS
<1>7. P = Mul(M, u)
  BY <1>2, <1>5, <1>6, MulAdds
<1>8. PICK s \in Nat : s = Scalar(v, h, i) /\ s = u % n
  <2>1. e + i = u
    BY <1>6
  <2>2. Scalar(v, h, i) = (e + i) % n
    BY <1>1 DEF Scalar
  <2> QED BY <2>1, <2>2, ScalarIs
<1>9. scalarMult(k, P) = Mul(M, k * u)
  BY <1>7, <1>8, ScalarMultIs
<1>10. Mul(M, k * u) = Mul(M, s * k)
  <2>0. u \in Int
    OBVIOUS
  <2>1. PICK q \in Int, r \in Nat : r = u % n /\ Apart(u, r, q, n)
    BY <1>0, <2>0, DivMod
  <2>2. PICK x \in Int, y \in Int, l \in Int : x = k * u /\ y = s * k /\ l = k * q
    OBVIOUS
  <2>3. Apart(x, y, l, n)
    <3>1. u = s + q * n
      BY <1>8, <2>1 DEF Apart
    <3>2. k * (s + q * n) = s * k + (k * q) * n
      BY <1>0
    <3> QED BY <2>2, <3>1, <3>2 DEF Apart
  <2>4. Mul(M, x) = Mul(M, y)
    BY <2>3, MulSame
  <2> QED BY <2>2, <2>4
<1> QED BY <1>3, <1>8, <1>9, <1>10

\* The answer exists unless one of the two scalars is a multiple of the order.
LEMMA SecretIs ==
  ASSUME NEW M, GroupLaw(M), NEW s \in Nat, s < n, NEW k \in Nat, k % n # 0, NEW h
  PROVE  secret(h, Mul(M, s * k)) = Panic <=> s = 0
<1>0. n \in Nat \ {0}
  BY ConstantsAre
<1>1. PICK z \in Nat : z = s * k
  OBVIOUS
<1>2. z % n = 0 <=> s = 0
  <2>1. CASE s = 0
    <3>1. z = 0
      BY <1>1, <2>1
    <3> QED BY <1>0, <2>1, <3>1, ModSmall
  <2>2. CASE s # 0
    <3>0. k \in Int /\ s \in Int
      OBVIOUS
    <3>1. PICK q \in Int, r \in Nat : r = k % n /\ r < n /\ Apart(k, r, q, n)
      BY <1>0, <3>0, DivMod
    <3>2. s \in 1 .. (n - 1) /\ r \in 1 .. (n - 1)
      BY <1>0, <2>2, <3>1
    <3>3. (r * s) % n # 0
      BY <3>2 DEF GroupLaw
    <3>4. ((k % n) * s) % n = (k * s) % n
      BY <1>0, <3>0, ModFactor
    <3>5. k * s = s * k
      OBVIOUS
    <3> QED BY <1>1, <2>2, <3>1, <3>3, <3>4, <3>5
  <2> QED BY <2>1, <2>2
<1>3. PICK P \in Curve : P = Mul(M, z) /\ (P = Infinity <=> s = 0)
  BY <1>2, MulIs
<1>4. P.Inf \in BOOLEAN /\ (P.Inf <=> s = 0)
  BY <1>3, PointIs
<1>5. secret(h, P) = Panic <=> P.Inf
  <2>1. [h |-> h, z |-> (P.X + w2m) % p] # Panic
    BY NoPoint
  <2> QED BY <2>1, Zenon DEF secret
<1> QED BY <1>1, <1>3, <1>4, <1>5

----------------------------------------------------------------------------
(* The numbers the digests take.                                           *)

\* f[i] is what Join makes of the first i members of s, up to the k-th.
Joins(f, s, k) ==
  f[0] = Len(s) /\ \A i \in 1 .. k : f[i] = JoinByte(f[i - 1], s[i])

HasJoins(s, k) == \E f \in [0 .. k -> Nat] : Joins(f, s, k)

LEMMA JoinsExist ==
  ASSUME NEW s \in Seq(Nat)
  PROVE  HasJoins(s, Len(s))
<1> DEFINE S == {k \in Nat : k <= Len(s) => HasJoins(s, k)}
<1>0. Len(s) \in Nat /\ \A i \in 1 .. Len(s) : s[i] \in Nat
  OBVIOUS
<1>1. 0 \in S
  <2>1. [i \in 0 .. 0 |-> Len(s)] \in [0 .. 0 -> Nat]
    BY <1>0
  <2>2. Joins([i \in 0 .. 0 |-> Len(s)], s, 0)
    BY DEF Joins
  <2> QED BY <2>1, <2>2 DEF HasJoins
<1>2. ASSUME NEW k \in S PROVE k + 1 \in S
  <2>0. k \in Nat
    OBVIOUS
  <2> SUFFICES ASSUME k + 1 <= Len(s)
               PROVE  HasJoins(s, k + 1)
    BY <2>0
  <2>1. k \in Nat /\ k <= Len(s) /\ s[k + 1] \in Nat
    BY <1>0, <2>0
  <2>2. PICK f \in [0 .. k -> Nat] : Joins(f, s, k)
    BY <2>1 DEF HasJoins
  <2>a. PICK x \in Nat : x = JoinByte(f[k], s[k + 1])
    <3>1. f[k] \in Nat
      BY <2>1, <2>2
    <3>2. \A v, c \in Nat : JoinByte(v, c) \in Nat
      BY DEF JoinByte
    <3> QED BY <2>1, <3>1, <3>2
  <2>3. PICK h : h = [i \in 0 .. k + 1 |-> IF i <= k THEN f[i] ELSE x]
    OBVIOUS
  <2>4. h \in [0 .. k + 1 -> Nat]
    BY <2>1, <2>3
  <2>5. Joins(h, s, k + 1)
    <3>1. h[0] = Len(s)
      BY <2>1, <2>2, <2>3 DEF Joins
    <3>2. ASSUME NEW i \in 1 .. k + 1 PROVE h[i] = JoinByte(h[i - 1], s[i])
      <4>1. h[i - 1] = f[i - 1]
        BY <2>1, <2>3
      <4>2. CASE i = k + 1
        <5>1. h[i] = x /\ i - 1 = k
          BY <2>1, <2>3, <4>2
        <5> QED BY <2>a, <4>1, <4>2, <5>1
      <4>3. CASE i # k + 1
        <5>1. i \in 1 .. k /\ h[i] = f[i]
          BY <2>1, <2>3, <4>3
        <5> QED BY <2>2, <4>1, <5>1 DEF Joins
      <4> QED BY <4>2, <4>3
    <3> QED BY <3>1, <3>2 DEF Joins
  <2> QED BY <2>4, <2>5 DEF HasJoins
<1>3. S = Nat
  <2> HIDE DEF S
  <2>1. S \in SUBSET Nat
    BY DEF S
  <2> QED BY <1>1, <1>2, <2>1, SetInduction
<1> QED BY <1>0, <1>3

LEMMA JoinsUnique ==
  ASSUME NEW s \in Seq(Nat), NEW f, NEW g,
         Joins(f, s, Len(s)), Joins(g, s, Len(s))
  PROVE  \A i \in 0 .. Len(s) : f[i] = g[i]
<1> DEFINE S == {k \in Nat : k <= Len(s) => f[k] = g[k]}
<1>0. Len(s) \in Nat
  OBVIOUS
<1>1. 0 \in S
  BY DEF Joins
<1>2. ASSUME NEW k \in S PROVE k + 1 \in S
  <2> SUFFICES ASSUME k + 1 <= Len(s) PROVE f[k + 1] = g[k + 1]
    OBVIOUS
  <2>1. k \in Nat /\ f[k] = g[k] /\ k + 1 \in 1 .. Len(s) /\ (k + 1) - 1 = k
    BY <1>0
  <2> QED BY <2>1, Zenon DEF Joins
<1>3. S = Nat
  <2> HIDE DEF S
  <2>1. S \in SUBSET Nat
    BY DEF S
  <2> QED BY <1>1, <1>2, <2>1, SetInduction
<1> QED BY <1>0, <1>3

LEMMA JoinIs ==
  ASSUME NEW s \in Seq(Nat)
  PROVE  Join(s) \in Nat
<1>1. PICK e \in [0 .. Len(s) -> Nat] : Joins(e, s, Len(s))
  BY JoinsExist DEF HasJoins
<1>2. e = [i \in 0 .. Len(s) |-> IF i = 0 THEN Len(s) ELSE JoinByte(e[i - 1], s[i])]
  BY <1>1 DEF Joins
<1>3. PICK h : /\ h = [i \in 0 .. Len(s) |->
                        IF i = 0 THEN Len(s) ELSE JoinByte(h[i - 1], s[i])]
               /\ Join(s) = h[Len(s)]
  BY <1>2 DEF Join
<1>4. Joins(h, s, Len(s))
  <2>0. Len(s) \in Nat
    OBVIOUS
  <2>1. h[0] = Len(s)
    BY <1>3, <2>0
  <2>2. ASSUME NEW i \in 1 .. Len(s) PROVE h[i] = JoinByte(h[i - 1], s[i])
    <3>1. i \in 0 .. Len(s) /\ i # 0
      BY <2>0
    <3> QED BY <1>3, <3>1
  <2> QED BY <2>1, <2>2 DEF Joins
<1>5. h[Len(s)] = e[Len(s)] /\ e[Len(s)] \in Nat
  <2>1. Len(s) \in 0 .. Len(s)
    OBVIOUS
  <2> QED BY <1>1, <1>4, <2>1, JoinsUnique
<1> QED BY <1>3, <1>5

\* The validator is a number.
LEMMA ValidatorIs ==
  ASSUME Digests, NEW user \in Seq(Nat), NEW pass \in Seq(Nat), NEW salt \in Seq(Nat)
  PROVE  mtweiID(user, pass, salt) \in Nat
<1>1. PICK s \in Seq(Nat) : s = user \o <<58>> \o pass
  <2>1. user \o <<58>> \o pass \in Seq(Nat)
    OBVIOUS
  <2> QED BY <2>1
<1>2. PICK x \in Nat : x = Sha256(Join(s))
  <2>1. Sha256(Join(s)) \in Nat
    BY JoinIs DEF Digests
  <2> QED BY <2>1
<1>3. PICK t \in Seq(Nat) : t = salt \o <<x>>
  <2>1. salt \o <<x>> \in Seq(Nat)
    OBVIOUS
  <2> QED BY <2>1
<1>4. Sha256(Join(t)) \in Nat
  BY JoinIs DEF Digests
<1> QED BY <1>1, <1>2, <1>3, <1>4 DEF mtweiID

----------------------------------------------------------------------------
(* Which salt is answered.                                                 *)

\* PASSSALT with this body is read of the packet.
Arrived(recs, cut, body) ==
  \E i \in 1 .. Len(Decoded(recs, cut)) :
    Decoded(recs, cut)[i].cpt = cpTypePassSalt /\ Decoded(recs, cut)[i].body = body

Received(body) == Arrived(packet.recs, packet.cut, body)

LEMMA DecodedWhole ==
  ASSUME NEW A, NEW recs, WellFormed(recs, A)
  PROVE  Decoded(recs, 0) = recs
<1>1. encodeAll(recs) \in Seq(A)
  BY Layout
<1>2. PICK s \in Seq(A) : s = encodeAll(recs)
  BY <1>1
<1>3. SubSeq(s, 1, Len(s) - 0) = s
  <2>1. Len(s) \in Nat /\ Len(s) - 0 = Len(s)
    OBVIOUS
  <2> QED BY <2>1
<1>4. iterateControl(s) = recs
  BY <1>2, RoundTrip
<1> QED BY <1>2, <1>3, <1>4 DEF Decoded

LEMMA NothingArrives == \A body : ~Arrived(<< >>, 0, body)
<1>1. WellFormed(<< >>, Nat)
  BY DEF WellFormed
<1>2. Decoded(<< >>, 0) = << >>
  BY <1>1, DecodedWhole
<1> QED BY <1>2 DEF Arrived

\* What arrives of PASSSALT is the whole of it, or only less of it.
LEMMA ArrivedIs ==
  ASSUME NEW A, Nat \subseteq A, NEW d \in Seq(A),
         NEW recs \in Around(Rec(cpTypePassSalt, d)), NEW cut, Sound(recs, cut)
  PROVE  /\ \A body : Arrived(recs, cut, body) => body = d \/ Len(body) < Len(d)
         /\ Arrived(recs, cut, d) => \A body : Arrived(recs, cut, body) => body = d
<1>1. WellFormed(recs, A)
  BY AroundIs
<1>2. PICK K \in Nat, L \in Nat : K = Len(recs) /\ L = Len(encodeAll(recs))
  <2>1. Len(recs) \in Nat /\ encodeAll(recs) \in Seq(A)
    BY <1>1, Layout DEF WellFormed
  <2> QED BY <2>1
<1>3. PICK len \in Nat : len = L - cut /\ len <= L
  <2>1. L - cut \in Nat /\ L - cut <= L
    BY <1>2 DEF Sound
  <2> QED BY <2>1
<1>4. Decoded(recs, cut) = Meaning(recs, len)
  BY <1>1, <1>2, <1>3, Decoding DEF Decoded
<1>5. PICK w \in 0 .. K :
        /\ Whole(recs, len, w)
        /\ Meaning(recs, len) =
             SubSeq(recs, 1, w) \o
               (IF len - EndOf(recs, w) = 0 THEN << >>
                ELSE <<CutRecord(recs[w + 1], len - EndOf(recs, w))>>)
  BY <1>1, <1>2, <1>3, MeaningIs, Zenon
<1>6. PICK m : m = len - EndOf(recs, w)
  OBVIOUS
<1>7. PICK E : Laid(recs, encodeAll(recs), E)
  BY <1>1, Layout
<1>8. PICK j \in 1 .. K : /\ \A i \in 1 .. K : recs[i].cpt = 1 => i = j
                          /\ recs[j].cpt = 1 /\ recs[j].body = d /\ Framable(recs[j])
  <2>1. PICK r : r = Rec(cpTypePassSalt, d) /\ r.cpt = 1 /\ r.body = d /\ Framable(r)
    BY DEF Rec, cpTypePassSalt, Framable, cpTypePlainData
  <2>a. \A c, z : Rec(c, z).cpt = c
    BY DEF Rec
  <2>2. PICK u : u = Rec(7, <<1>>) /\ u.cpt # 1
    <3>1. Rec(7, <<1>>).cpt # 1
      BY <2>a
    <3> QED BY <3>1, Zenon
  <2>3. PICK v : v = Rec(cpTypePlainData, <<86, 52>>) /\ v.cpt # 1
    <3>1. Rec(cpTypePlainData, <<86, 52>>).cpt # 1
      BY <2>a DEF cpTypePlainData
    <3> QED BY <3>1, Zenon
  <2>4. recs = <<r>> \/ recs = <<u, r>> \/ recs = <<r, v>>
    BY <2>1, <2>2, <2>3 DEF Around
  <2>5. CASE recs = <<r>>
    <3>1. K = 1 /\ recs[1] = r
      BY <1>2, <2>5
    <3> QED BY <2>1, <3>1
  <2>6. CASE recs = <<u, r>>
    <3>1. K = 2 /\ recs[1] = u /\ recs[2] = r
      BY <1>2, <2>6
    <3>2. \A i \in 1 .. K : recs[i].cpt = 1 => i = 2
      BY <2>2, <3>1
    <3> QED BY <2>1, <3>1, <3>2
  <2>7. CASE recs = <<r, v>>
    <3>1. K = 2 /\ recs[1] = r /\ recs[2] = v
      BY <1>2, <2>7
    <3>2. \A i \in 1 .. K : recs[i].cpt = 1 => i = 1
      BY <2>3, <3>1
    <3> QED BY <2>1, <3>1, <3>2
  <2> QED BY <2>4, <2>5, <2>6, <2>7
<1>9. /\ m \in Nat
      /\ m # 0 => w + 1 \in 1 .. K /\ m < Len(encodeControl(recs[w + 1]))
                   /\ Len(encodeControl(recs[w + 1])) \in Nat
  <2>0. w \in 0 .. Len(recs)
    BY <1>2
  <2>1. E[w] \in Nat /\ E[w] = EndOf(recs, w) /\ E[w] <= len
    BY <1>5, <1>7, <2>0 DEF Laid, Whole
  <2>2. m \in Nat /\ len = E[w] + m
    BY <1>6, <2>1
  <2>3. ASSUME m # 0
        PROVE  w + 1 \in 1 .. K
    <3>1. w = K => E[w] = L
      BY <1>2, <1>7 DEF Laid
    <3>2. w # K
      BY <1>3, <2>1, <2>2, <2>3, <3>1
    <3> QED BY <3>2
  <2>4. ASSUME w + 1 \in 1 .. K
        PROVE  m < Len(encodeControl(recs[w + 1])) /\ Len(encodeControl(recs[w + 1])) \in Nat
    <3>1. w + 1 \in 1 .. Len(recs) /\ w + 1 \in 0 .. Len(recs) /\ (w + 1) - 1 = w
      BY <1>2, <2>4
    <3>2. E[w + 1] \in Nat /\ E[w + 1] = EndOf(recs, w + 1) /\ LaidAt(recs, encodeAll(recs), E, w + 1)
      BY <1>7, <3>1 DEF Laid
    <3>3. E[w + 1] = E[w] + Len(encodeControl(recs[w + 1]))
      BY <3>1, <3>2 DEF LaidAt
    <3>4. EndOf(recs, w + 1) > len
      <4>1. w < Len(recs)
        BY <3>1
      <4> QED BY <1>5, <4>1 DEF Whole
    <3>5. Len(encodeControl(recs[w + 1])) \in Nat
      <4>1. /\ recs[w + 1] \in Record(A) /\ (Framable(recs[w + 1]) \/ Plainable(recs[w + 1]))
        BY <1>1, <3>1 DEF WellFormed
      <4> QED BY <4>1, RecordBytes
    <3> QED BY <2>1, <2>2, <3>2, <3>3, <3>4, <3>5
  <2> QED BY <2>2, <2>3, <2>4
<1>10. PICK q : q = Decoded(recs, cut)
  OBVIOUS
<1>11. ASSUME NEW i \in 1 .. Len(q)
       PROVE  \/ i \in 1 .. w /\ q[i] = recs[i]
              \/ m # 0 /\ q[i] = CutRecord(recs[w + 1], m)
  <2>1. PICK c : c = CutRecord(recs[w + 1], m)
    OBVIOUS
  <2>2. PICK X : X = Record(A) \cup {c}
    OBVIOUS
  <2>3. PICK s \in Seq(X) : s = SubSeq(recs, 1, w) /\ Len(s) = w /\ \A k \in 1 .. w : s[k] = recs[k]
    <3>1. recs \in Seq(X)
      BY <1>1, <2>2 DEF WellFormed
    <3>2. /\ SubSeq(recs, 1, w) \in Seq(X) /\ Len(SubSeq(recs, 1, w)) = w
          /\ \A k \in 1 .. w : SubSeq(recs, 1, w)[k] = recs[k]
      BY <1>2, <3>1
    <3> QED BY <3>2
  <2>4. PICK t \in Seq(X) : /\ t = (IF m = 0 THEN << >> ELSE <<c>>)
                            /\ \A k \in 1 .. Len(t) : m # 0 /\ t[k] = c
    <3>1. CASE m = 0
      <4>1. << >> \in Seq(X) /\ \A k \in 1 .. Len(<< >>) : FALSE
        OBVIOUS
      <4> QED BY <3>1, <4>1, Zenon
    <3>2. CASE m # 0
      <4>1. <<c>> \in Seq(X) /\ Len(<<c>>) = 1 /\ <<c>>[1] = c
        BY <2>2
      <4>2. \A k \in 1 .. Len(<<c>>) : <<c>>[k] = c
        BY <4>1
      <4> QED BY <3>2, <4>1, <4>2, Zenon
    <3> QED BY <3>1, <3>2
  <2>5. q = s \o t
    BY <1>4, <1>5, <1>6, <1>10, <2>1, <2>3, <2>4, Zenon
  <2>6. /\ Len(s) \in Nat /\ Len(t) \in Nat /\ Len(q) = Len(s) + Len(t)
        /\ \A k \in 1 .. Len(s) : q[k] = s[k]
        /\ \A k \in 1 .. Len(t) : q[Len(s) + k] = t[k]
    BY <2>5, ConcatIs
  <2>7. CASE i <= Len(s)
    BY <2>3, <2>6, <2>7
  <2>8. CASE i > Len(s)
    <3>1. i - Len(s) \in 1 .. Len(t) /\ Len(s) + (i - Len(s)) = i
      BY <2>6, <2>8
    <3>2. q[i] = t[i - Len(s)]
      BY <2>6, <3>1
    <3> QED BY <2>1, <2>4, <3>1, <3>2
  <2> QED BY <2>6, <2>7, <2>8
<1>12. ASSUME m # 0, NEW c, c = CutRecord(recs[w + 1], m), c.cpt = 1
       PROVE  w + 1 = j /\ Len(c.body) < Len(d)
  <2>0. PICK r : r = recs[w + 1]
    OBVIOUS
  <2>1. ~(m < 9) /\ r.cpt = 1 /\ c = Rec(r.cpt, SubSeq(r.body, 1, m - 9))
    <3>1. \A x, y : Rec(x, y).cpt = x
      BY DEF Rec
    <3>2. cpTypePlainData # 1 /\ cpHeaderLen = 9
      BY DEF cpTypePlainData, cpHeaderLen
    <3>3. r.cpt # cpTypePlainData
      BY <1>12, <2>0, <3>1, <3>2, Zenon DEF CutRecord
    <3>4. ~(m < 9)
      BY <1>12, <2>0, <3>1, <3>2, <3>3, Zenon DEF CutRecord
    <3>5. c = Rec(r.cpt, SubSeq(r.body, 1, m - 9))
      BY <1>12, <2>0, <3>2, <3>3, <3>4, Zenon DEF CutRecord
    <3> QED BY <1>12, <3>1, <3>4, <3>5
  <2>2. w + 1 \in 1 .. K
    BY <1>9, <1>12
  <2>3. w + 1 = j
    BY <1>8, <2>0, <2>1, <2>2
  <2>4. r.body = d /\ Framable(r) /\ r \in Record(A)
    <3>1. r \in Record(A)
      BY <1>1, <1>2, <2>0, <2>2 DEF WellFormed
    <3> QED BY <1>8, <2>0, <2>3, <3>1
  <2>5. Len(encodeControl(r)) = 9 + Len(d)
    <3>1. IsFrame(encodeControl(r), r.cpt, r.body)
      BY <2>4, FrameIs
    <3> QED BY <2>4, <3>1 DEF IsFrame
  <2>6. c.body = SubSeq(d, 1, m - 9)
    BY <2>1, <2>4 DEF Rec
  <2>7. Len(d) \in Nat /\ m - 9 \in Nat /\ m - 9 < Len(d)
    BY <1>9, <1>12, <2>0, <2>1, <2>5
  <2>8. Len(SubSeq(d, 1, m - 9)) = m - 9
    BY <2>7
  <2> QED BY <2>3, <2>6, <2>7, <2>8
<1>13. ASSUME NEW body, Arrived(recs, cut, body)
       PROVE  (j <= w /\ body = d) \/ (j = w + 1 /\ Len(body) < Len(d))
  <2>1. PICK i \in 1 .. Len(q) : q[i].cpt = 1 /\ q[i].body = body
    BY <1>10, <1>13 DEF Arrived, cpTypePassSalt
  <2>2. CASE i \in 1 .. w /\ q[i] = recs[i]
    <3>1. i \in 1 .. K
      BY <2>2
    <3>2. i = j
      BY <1>8, <2>1, <2>2, <3>1
    <3> QED BY <1>8, <2>1, <2>2, <3>2
  <2>3. CASE m # 0 /\ q[i] = CutRecord(recs[w + 1], m)
    BY <1>12, <2>1, <2>3
  <2> QED BY <1>11, <2>2, <2>3
<1>14. ~(Len(d) < Len(d)) /\ ~(j <= w /\ j = w + 1)
  OBVIOUS
<1> QED BY <1>13, <1>14

\* The caller's credentials, and the key made of them.
HasKey == clientPub = keygen(cred.priv, NoValidator) /\ clientPub # Panic

HeldInv ==
  /\ cred.user \in Seq(Nat) /\ cred.pass \in Seq(Nat) /\ cred.priv \in Nat
  /\ pc = "ackInit" \/ devGot # << >> => HasKey

LEMMA HeldIsSound == Spec => []HeldInv
<1>1. Init => HeldInv
  <2> SUFFICES ASSUME Init PROVE HeldInv
    OBVIOUS
  <2>1. cred \in [user : Users, pass : Passwords, priv : Privs]
    BY DEF Init
  <2>2. Users \subseteq Seq(Nat) /\ Passwords \subseteq Seq(Nat) /\ Privs \subseteq Nat
    BY HandshakeAssumption
  <2> QED BY <2>1, <2>2 DEF Init, HeldInv
<1>2. TalkInv /\ HeldInv /\ [Next]_vars => HeldInv'
  <2> SUFFICES ASSUME TalkInv, HeldInv, Next \/ UNCHANGED vars PROVE HeldInv'
    OBVIOUS
  <2>0. cred' = cred
    BY DEF Next, vars, Start, StartFails, Acked, NoAck, AwaitLonger, AwaitTimeout,
           Cancelled, AwaitSalt, AwaitEndAuth, DeviceSalt, DeviceEndAuth, Finished,
           SendUnchanged, DeviceUnchanged
  <2>1. CASE Start
    <3>1. devGot' = << >>
      BY <2>1 DEF Start, TalkInv
    <3>2. PICK pub : pub = keygen(cred.priv, NoValidator)
      OBVIOUS
    <3>3. CASE pub = Panic
      <4>1. pc' = "panic"
        BY <2>1, <3>2, <3>3, Zenon DEF Start
      <4> QED BY <2>0, <3>1, <4>1 DEF HeldInv
    <3>4. CASE pub # Panic
      <4>1. clientPub' = pub
        BY <2>1, <3>2, <3>4, Zenon DEF Start
      <4> QED BY <2>0, <3>2, <3>4, <4>1 DEF HeldInv, HasKey
    <3> QED BY <3>3, <3>4
  <2>2. CASE Acked \/ NoAck
    <3>1. HasKey /\ clientPub' = clientPub
      BY <2>2 DEF Acked, NoAck, Sending, SendUnchanged, TalkInv, HeldInv
    <3> QED BY <2>0, <3>1 DEF HeldInv, HasKey
  <2>3. CASE UNCHANGED <<clientPub, devGot>> /\ (pc' = "ackInit" => pc = "ackInit")
    BY <2>0, <2>3 DEF HeldInv, HasKey
  <2>4. CASE AwaitSalt
    <3>1. UNCHANGED <<clientPub, devGot>> /\ pc = "salt"
      BY <2>4 DEF AwaitSalt
    <3>2. devGot = <<First>> /\ <<First>> # << >>
      BY <3>1 DEF TalkInv
    <3>3. devGot # << >>
      BY <3>2
    <3> QED BY <2>0, <3>1, <3>3 DEF HeldInv, HasKey
  <2>5. CASE AwaitEndAuth
    <3>1. UNCHANGED <<clientPub, devGot>> /\ (pc' = "ok" \/ pc' = pc)
      BY <2>5, Zenon DEF AwaitEndAuth
    <3> QED BY <2>3, <3>1
  <2>6. CASE \/ StartFails \/ AwaitLonger \/ AwaitTimeout \/ Cancelled \/ DeviceSalt
             \/ DeviceEndAuth \/ Finished \/ UNCHANGED vars
    <3>1. UNCHANGED <<clientPub, devGot>> /\ (pc' = "failed" \/ pc' = pc)
      BY <2>6 DEF vars, StartFails, AwaitLonger, AwaitTimeout, Cancelled, DeviceSalt,
                  DeviceEndAuth, Finished, SendUnchanged, DeviceUnchanged
    <3> QED BY <2>3, <3>1
  <2> QED BY <2>1, <2>2, <2>4, <2>5, <2>6 DEF Next
<1> QED BY <1>1, <1>2, TalkIsSound, PTL DEF Spec

\* What the device may have put in PASSSALT, its validator being the user's.
IsSaltOf(k) ==
  /\ k.salt \in Salts
  /\ \/ k.mode = "md5" /\ k.key = << >>
     \/ k.mode = "junk" /\ k.key \in JunkKeys
     \/ /\ k.mode = "ecsrp" /\ k.priv \in DevicePrivs
        /\ keygen(k.priv, mtweiID(cred.user, Password, k.salt)) # Panic
        /\ k.key = KeyBytes(keygen(k.priv, mtweiID(cred.user, Password, k.salt)))

LEMMA DeviceKeyKnown ==
  ASSUME TalkInv, Len(devGot) >= 1, NEW k \in DeviceKeys
  PROVE  IsSaltOf(k) /\ k # NoKey
<1>0. \A s : Validator(s) = mtweiID(cred.user, Password, s)
  BY FirstIsRead DEF Validator
<1>1. CASE k \in [mode : {"md5"}, priv : {0}, key : {<< >>}, salt : Salts]
  <2>1. k.mode = "md5" /\ k.key = << >> /\ k.salt \in Salts
    BY <1>1
  <2> QED BY <2>1 DEF IsSaltOf, NoKey
<1>2. CASE k \in [mode : {"junk"}, priv : {0}, key : JunkKeys, salt : Salts]
  <2>1. k.mode = "junk" /\ k.key \in JunkKeys /\ k.salt \in Salts
    BY <1>2
  <2> QED BY <2>1 DEF IsSaltOf, NoKey
<1>3. CASE \E q \in DevicePrivs \X Salts :
             /\ keygen(q[1], Validator(q[2])) # Panic
             /\ k = [mode |-> "ecsrp", priv |-> q[1], salt |-> q[2],
                     key |-> KeyBytes(keygen(q[1], Validator(q[2])))]
  <2>1. PICK q \in DevicePrivs \X Salts :
             /\ keygen(q[1], Validator(q[2])) # Panic
             /\ k = [mode |-> "ecsrp", priv |-> q[1], salt |-> q[2],
                     key |-> KeyBytes(keygen(q[1], Validator(q[2])))]
    BY <1>3
  <2>2. /\ k.mode = "ecsrp" /\ k.priv = q[1] /\ k.salt = q[2]
        /\ k.key = KeyBytes(keygen(q[1], Validator(q[2])))
    BY <2>1
  <2>3. q[1] \in DevicePrivs /\ q[2] \in Salts
    OBVIOUS
  <2>4. Validator(q[2]) = mtweiID(cred.user, Password, k.salt)
    BY <1>0, <2>2
  <2>5. k # NoKey
    BY <2>2 DEF NoKey
  <2> QED BY <2>1, <2>2, <2>3, <2>4, <2>5, Zenon DEF IsSaltOf
<1> QED BY <1>1, <1>2, <1>3 DEF DeviceKeys

\* Before the device answers there is no packet; after it, the packet carries
\* its salt, and so does every PASSSALT that waits in controlCh.
PassInv ==
  /\ devKey = NoKey => packet = NoPacket
  /\ devKey # NoKey =>
       /\ devGot # << >> /\ IsSaltOf(devKey)
       /\ packet.recs \in Around(Rec(cpTypePassSalt, SaltBody(devKey)))
  /\ \E X : /\ controlCh \in Seq(X)
            /\ \A r \in X : r.cpt = cpTypePassSalt => Received(r.body)

LEMMA NoneYet ==
  ASSUME PassInv, devKey = NoKey
  PROVE  \A body : ~Received(body)
<1>1. packet.recs = << >> /\ packet.cut = 0
  BY DEF PassInv, NoPacket
<1> QED BY <1>1, NothingArrives DEF Received

\* The records of a packet join the queue.
ReadOf(recs, cut) == {Decoded(recs, cut)[i] : i \in 1 .. Len(Decoded(recs, cut))}

LEMMA QueueGrows ==
  ASSUME NEW X, controlCh \in Seq(X), NEW recs, NEW cut, Sound(recs, cut),
         DeviceSends(recs, cut)
  PROVE  controlCh' \in Seq(X \cup ReadOf(recs, cut))
<1>0. PICK Y : Y = ReadOf(recs, cut)
  OBVIOUS
<1>1. PICK A : WellFormed(recs, A)
  BY DEF Sound
<1>2. PICK q, Z : q = Decoded(recs, cut) /\ q \in Seq(Z)
  BY <1>1, DecodedIs DEF Sound
<1>3. q \in Seq(Y)
  <2>1. \A i \in 1 .. Len(q) : q[i] \in Y
    BY <1>0, <1>2 DEF ReadOf
  <2> QED BY <1>2, <2>1
<1>4. Framed(q) \in Seq(Y)
  BY <1>3, FramedIs
<1>5. \A s \in Seq(Y), t \in Seq(X) : t \o s \in Seq(X \cup Y)
  <2> SUFFICES ASSUME NEW s \in Seq(Y), NEW t \in Seq(X) PROVE t \o s \in Seq(X \cup Y)
    OBVIOUS
  <2>1. s \in Seq(X \cup Y) /\ t \in Seq(X \cup Y)
    OBVIOUS
  <2> QED BY <2>1
<1> QED BY <1>0, <1>2, <1>4, <1>5, Zenon DEF DeviceSends

LEMMA PassSent ==
  ASSUME TalkInv, PassInv, DeviceSalt
  PROVE  PassInv'
<1>0. devKey = NoKey /\ Len(devGot) >= 1 /\ UNCHANGED <<cred, devGot>>
  BY DEF DeviceSalt, DeviceUnchanged
<1>1. PICK k \in DeviceKeys, cut \in Cuts :
        /\ devKey' = k
        /\ \E recs \in Around(Rec(cpTypePassSalt, SaltBody(k))) :
             DeviceSends(recs, cut) /\ packet' = [recs |-> recs, cut |-> cut]
  BY Zenon DEF DeviceSalt
<1>2. PICK recs \in Around(Rec(cpTypePassSalt, SaltBody(k))) :
        DeviceSends(recs, cut) /\ packet' = [recs |-> recs, cut |-> cut]
  BY <1>1
<1>3. packet'.recs = recs /\ packet'.cut = cut
  BY <1>2
<1>4. Sound(recs, cut)
  <2>1. PICK q, c : packet' = [recs |-> q, cut |-> c] /\ Sound(q, c)
    BY PacketSent, Zenon
  <2>2. q = recs /\ c = cut
    BY <1>3, <2>1
  <2> QED BY <2>1, <2>2
<1>5. k # NoKey /\ IsSaltOf(k)
  BY <1>0, DeviceKeyKnown
<1>6. IsSaltOf(devKey)' /\ devKey' # NoKey
  <2>1. devKey' = k /\ cred' = cred
    BY <1>0, <1>1
  <2> QED BY <1>5, <2>1 DEF IsSaltOf
<1>7. devGot' # << >>
  <2>1. devGot # << >>
    BY <1>0
  <2> QED BY <1>0, <2>1
<1>8. PICK X : /\ controlCh \in Seq(X)
               /\ \A r \in X : r.cpt = cpTypePassSalt => Received(r.body)
  BY DEF PassInv
<1>9. \A r \in X : r.cpt # cpTypePassSalt
  BY <1>0, <1>8, NoneYet
<1>10. PICK Y : Y = ReadOf(recs, cut)
  OBVIOUS
<1>11. controlCh' \in Seq(X \cup Y)
  BY <1>2, <1>4, <1>8, <1>10, QueueGrows
<1>12. \A r \in X \cup Y : r.cpt = cpTypePassSalt => Received(r.body)'
  <2> SUFFICES ASSUME NEW r \in Y, r.cpt = cpTypePassSalt PROVE Received(r.body)'
    BY <1>9
  <2>1. Arrived(recs, cut, r.body)
    BY <1>10 DEF Arrived, ReadOf
  <2> QED BY <1>3, <2>1 DEF Received
<1>13. packet'.recs \in Around(Rec(cpTypePassSalt, SaltBody(devKey')))
  BY <1>1, <1>2, <1>3
<1>14. (\E Z : controlCh \in Seq(Z) /\ \A r \in Z : r.cpt = cpTypePassSalt => Received(r.body))'
  BY <1>11, <1>12
<1>15. SaltBody(devKey)' = SaltBody(devKey') /\ (packet.recs)' = packet'.recs
  BY DEF SaltBody
<1> QED BY <1>6, <1>7, <1>13, <1>14, <1>15 DEF PassInv

LEMMA EndAuthIsSound == \E r : /\ r = Rec(cpTypeEndAuth, << >>) /\ r.cpt # cpTypePassSalt
                              /\ Sound(<<r>>, 0) /\ Decoded(<<r>>, 0) = <<r>>
<1>1. PICK r \in Record(Nat) : r = Rec(cpTypeEndAuth, << >>) /\ Framable(r)
  <2>1. PICK z \in Seq(Nat), c \in Nat : z = << >> /\ c = cpTypeEndAuth /\ c <= 127
    <3>1. << >> \in Seq(Nat) /\ cpTypeEndAuth \in Nat /\ cpTypeEndAuth <= 127
      BY DEF cpTypeEndAuth
    <3> QED BY <3>1
  <2>2. Rec(c, z) \in Record(Nat) /\ Framable(Rec(c, z))
    BY <2>1, FramableIs
  <2> QED BY <2>1, <2>2
<1>2. PICK recs : recs = <<r>>
  OBVIOUS
<1>3. WellFormed(recs, Nat)
  <2>1. recs \in Seq(Record(Nat)) /\ \A i \in 1 .. Len(recs) : recs[i] = r
    BY <1>2
  <2> QED BY <1>1, <2>1 DEF WellFormed
<1>4. encodeAll(recs) \in Seq(Nat)
  BY <1>3, Layout
<1>5. Sound(recs, 0)
  BY <1>3, <1>4 DEF Sound
<1>6. r.cpt # cpTypePassSalt
  BY <1>1 DEF Rec, cpTypeEndAuth, cpTypePassSalt
<1>7. Decoded(recs, 0) = recs
  BY <1>3, DecodedWhole
<1> QED BY <1>1, <1>2, <1>5, <1>6, <1>7

\* A step that leaves the device's answer alone, and brings no other.
LEMMA PassKept ==
  ASSUME PassInv, UNCHANGED <<cred, devKey, packet>>, devGot # << >> => devGot' # << >>,
         NEW Y, \A r \in Y : r.cpt # cpTypePassSalt,
         \A X : controlCh \in Seq(X) => controlCh' \in Seq(X \cup Y)
  PROVE  PassInv'
<1>1. PICK X : /\ controlCh \in Seq(X)
               /\ \A r \in X : r.cpt = cpTypePassSalt => Received(r.body)
  BY DEF PassInv
<1>2. controlCh' \in Seq(X \cup Y)
  BY <1>1
<1>3. \A body : Received(body)' <=> Received(body)
  BY DEF Received
<1>4. \A r \in X \cup Y : r.cpt = cpTypePassSalt => Received(r.body)'
  BY <1>1, <1>3
<1>5. (\E Z : controlCh \in Seq(Z) /\ \A r \in Z : r.cpt = cpTypePassSalt => Received(r.body))'
  BY <1>2, <1>4
<1>6. (IsSaltOf(devKey)' <=> IsSaltOf(devKey)) /\ SaltBody(devKey)' = SaltBody(devKey)
  BY DEF IsSaltOf, SaltBody
<1> QED BY <1>5, <1>6 DEF PassInv

LEMMA PassStep ==
  ASSUME TalkInv, PassInv, Next \/ UNCHANGED vars
  PROVE  PassInv'
<1>1. CASE DeviceSalt
  BY <1>1, PassSent
<1>2. CASE DeviceEndAuth
  <2>1. PICK r : /\ r = Rec(cpTypeEndAuth, << >>) /\ r.cpt # cpTypePassSalt
                 /\ Sound(<<r>>, 0) /\ Decoded(<<r>>, 0) = <<r>>
    BY EndAuthIsSound
  <2>2. DeviceSends(<<r>>, 0) /\ UNCHANGED <<cred, devKey, packet, devGot>>
    BY <1>2, <2>1, Zenon DEF DeviceEndAuth, DeviceUnchanged
  <2>3. PICK Y : Y = ReadOf(<<r>>, 0)
    OBVIOUS
  <2>4. \A u \in Y : u.cpt # cpTypePassSalt
    <3>1. \A i \in 1 .. Len(<<r>>) : <<r>>[i] = r
      OBVIOUS
    <3> QED BY <2>1, <2>3, <3>1 DEF ReadOf
  <2>5. \A X : controlCh \in Seq(X) => controlCh' \in Seq(X \cup Y)
    BY <2>1, <2>2, <2>3, QueueGrows
  <2> QED BY <2>2, <2>4, <2>5, PassKept
<1>3. CASE AwaitSalt \/ AwaitEndAuth
  <2>1. /\ controlCh # << >> /\ controlCh' = Tail(controlCh)
        /\ UNCHANGED <<cred, devKey, packet, devGot>>
    BY <1>3, Zenon DEF AwaitSalt, AwaitEndAuth
  <2>0. PICK Y : Y = {}
    OBVIOUS
  <2>2. ASSUME NEW X, controlCh \in Seq(X) PROVE controlCh' \in Seq(X \cup Y)
    <3>1. Tail(controlCh) \in Seq(X)
      BY <2>1, <2>2
    <3>2. X \cup Y = X
      BY <2>0
    <3> QED BY <2>1, <3>1, <3>2
  <2>3. \A r \in Y : r.cpt # cpTypePassSalt
    BY <2>0
  <2> QED BY <2>1, <2>2, <2>3, PassKept
<1>4. CASE UNCHANGED <<cred, devKey, packet, controlCh>> /\ (devGot # << >> => devGot' # << >>)
  <2>0. PICK Y : Y = {}
    OBVIOUS
  <2>1. \A X : X \cup Y = X
    BY <2>0
  <2>2. \A X : controlCh \in Seq(X) => controlCh' \in Seq(X \cup Y)
    BY <1>4, <2>1
  <2>3. \A r \in Y : r.cpt # cpTypePassSalt
    BY <2>0
  <2> QED BY <1>4, <2>2, <2>3, PassKept
<1>5. CASE Acked \/ NoAck
  <2>1. Sending /\ UNCHANGED <<cred, devKey, packet, controlCh>>
        /\ (DeviceGets \/ devGot' = devGot)
    BY <1>5 DEF Acked, NoAck, SendUnchanged
  <2>2. CASE DeviceGets
    <3>1. devGot' = <<First>> \/ \E q : devGot' = <<First, q>>
      BY <2>1, <2>2, Heard DEF Sending
    <3>2. \A x, y : <<x>> # << >> /\ <<x, y>> # << >>
      OBVIOUS
    <3>3. devGot' # << >>
      BY <3>1, <3>2
    <3> QED BY <1>4, <2>1, <3>3
  <2>3. CASE devGot' = devGot
    BY <1>4, <2>1, <2>3
  <2> QED BY <2>1, <2>2, <2>3
<1>6. CASE \/ Start \/ StartFails \/ AwaitLonger \/ AwaitTimeout \/ Cancelled
           \/ Finished \/ UNCHANGED vars
  <2>1. UNCHANGED <<cred, devKey, packet, controlCh, devGot>>
    BY <1>6 DEF vars, Start, StartFails, AwaitLonger, AwaitTimeout, Cancelled, Finished,
                SendUnchanged
  <2> QED BY <1>4, <2>1
<1> QED BY <1>1, <1>2, <1>3, <1>5, <1>6 DEF Next

LEMMA PassIsSound == Spec => []PassInv
<1>1. Init => PassInv
  <2> SUFFICES ASSUME Init PROVE PassInv
    OBVIOUS
  <2>1. controlCh \in Seq({}) /\ devKey = NoKey /\ packet = NoPacket
    BY DEF Init
  <2> QED BY <2>1 DEF PassInv
<1>2. TalkInv /\ PassInv /\ [Next]_vars => PassInv'
  BY PassStep
<1> QED BY <1>1, <1>2, TalkIsSound, PTL DEF Spec

----------------------------------------------------------------------------
(* The answer is the answer to a salt that arrived.                        *)

Crypto(body) ==
  docrypto(cred.priv, KeyOf(body), clientPub,
           mtweiID(cred.user, cred.pass, SubSeq(body, ecsrpPubkeyLen + 1, ecsrpSaltLen)))

Answers(body, resp) ==
  \/ Len(body) = md5SaltLen /\ resp = computeMD5Response(cred.pass, body)
  \/ /\ Len(body) # md5SaltLen /\ Len(body) = ecsrpSaltLen
     /\ Crypto(body) # Panic /\ resp = ResponseBytes(Crypto(body))

IsAnswer(q) ==
  \E body, resp : /\ Received(body) /\ Answers(body, resp)
                  /\ q = authFinish(resp, cred.user, defaultTermType, Cols, Rows)

PanicsOn(body) == Received(body) /\ Len(body) = ecsrpSaltLen /\ Crypto(body) = Panic

AnswerInv ==
  /\ pc = "ackFinish" => IsAnswer(meant)
  /\ Len(devGot) = 2 => IsAnswer(devGot[2])
  /\ pc = "panic" =>
       \/ keygen(cred.priv, NoValidator) = Panic
       \/ devGot # << >> /\ \E body : PanicsOn(body)

LEMMA HeardLast ==
  ASSUME TalkInv, pc = "ackFinish", DeviceGets
  PROVE  devGot' = IF Len(devGot) = 1 THEN Append(devGot, meant) ELSE devGot
<1>1. PICK resp : IsPair(resp) /\ meant = authFinish(resp, cred.user, defaultTermType, Cols, Rows)
  BY DEF IsFinish, TalkInv
<1>2. cred.user \in Seq(Nat)
  BY DEF TalkInv
<1>3. PICK A : WellFormed(meant, A)
  BY <1>1, <1>2, FinishIsFramed
<1>4. iterateControl(encodeAll(meant)) = meant
  BY <1>3, RoundTrip
<1> QED BY <1>4, Zenon DEF DeviceGets

LEMMA Lengths ==
  \A x, y : Len(<< >>) = 0 /\ Len(<<x>>) = 1 /\ Len(<<x, y>>) = 2 /\ <<x, y>>[2] = y
OBVIOUS

\* A step that leaves what was answered alone.
LEMMA AnswerKept ==
  ASSUME AnswerInv, UNCHANGED <<cred, clientPub, packet, devGot>>,
         UNCHANGED <<pc, meant>> \/ pc' \in {"ok", "failed"}
  PROVE  AnswerInv'
<1>1. \A body : /\ Received(body)' <=> Received(body)
                /\ Crypto(body)' = Crypto(body)
  BY DEF Received, Crypto
<1>2. \A body, resp : Answers(body, resp)' <=> Answers(body, resp)
  BY <1>1 DEF Answers
<1>3. \A q : IsAnswer(q)' <=> IsAnswer(q)
  BY <1>1, <1>2 DEF IsAnswer
<1>4. \A body : PanicsOn(body)' <=> PanicsOn(body)
  BY <1>1 DEF PanicsOn
<1>5. IsAnswer(devGot[2])' <=> IsAnswer(devGot[2])
  BY <1>3 DEF IsAnswer
<1>6. CASE UNCHANGED <<pc, meant>>
  <2>1. IsAnswer(meant)' <=> IsAnswer(meant)
    BY <1>3, <1>6 DEF IsAnswer
  <2> QED BY <1>4, <1>5, <1>6, <2>1 DEF AnswerInv
<1>7. CASE pc' \in {"ok", "failed"}
  BY <1>5, <1>7 DEF AnswerInv
<1> QED BY <1>6, <1>7

LEMMA AnswerSends ==
  ASSUME TalkInv, AnswerInv, Acked \/ NoAck
  PROVE  AnswerInv'
<1>1. /\ Sending /\ UNCHANGED <<cred, clientPub, packet, meant>>
      /\ (DeviceGets \/ devGot' = devGot)
  BY DEF Acked, NoAck, SendUnchanged
<1>2. /\ pc = "ackInit" => pc' \in {"ackInit", "salt", "failed"}
      /\ pc = "ackFinish" => pc' \in {"ackFinish", "endauth", "failed"}
  BY DEF Acked, NoAck
<1>3. \A q : IsAnswer(q)' <=> IsAnswer(q)
  <2>1. \A body : /\ Received(body)' <=> Received(body)
                  /\ Crypto(body)' = Crypto(body)
    BY <1>1 DEF Received, Crypto
  <2>2. \A body, resp : Answers(body, resp)' <=> Answers(body, resp)
    BY <1>1, <2>1 DEF Answers
  <2> QED BY <1>1, <2>1, <2>2 DEF IsAnswer
<1>4. CASE pc = "ackInit"
  <2>1. devGot = << >> \/ devGot = <<First>>
    BY <1>4 DEF TalkInv
  <2>2. DeviceGets => devGot' = <<First>>
    BY <1>1, <1>4, Heard
  <2>3. Len(devGot') # 2
    <3>1. Len(devGot') = 0 \/ Len(devGot') = 1
      BY <1>1, <2>1, <2>2, Lengths
    <3> QED BY <3>1
  <2> QED BY <1>2, <1>4, <2>3 DEF AnswerInv
<1>5. CASE pc = "ackFinish"
  <2>1. IsAnswer(meant)
    BY <1>5 DEF AnswerInv
  <2>2. devGot = <<First>> \/ \E q : devGot = <<First, q>>
    BY <1>5 DEF TalkInv, HeardBoth
  <2>3. Len(devGot') = 2 => IsAnswer(devGot'[2])
    <3>1. CASE devGot' = devGot
      BY <3>1 DEF AnswerInv
    <3>2. CASE DeviceGets /\ devGot = <<First>>
      <4>1. devGot' = <<First, meant>>
        BY <1>5, <3>2, HeardLast, AppendOne
      <4>2. devGot'[2] = meant
        BY <4>1, Lengths
      <4> QED BY <2>1, <4>2
    <3>3. CASE DeviceGets /\ \E q : devGot = <<First, q>>
      <4>1. Len(devGot) # 1
        BY <3>3, Lengths
      <4>2. devGot' = devGot
        BY <1>5, <3>3, <4>1, HeardLast
      <4> QED BY <3>1, <4>2
    <3> QED BY <1>1, <2>2, <3>1, <3>2, <3>3
  <2>4. (Len(devGot) = 2 => IsAnswer(devGot[2]))'
    BY <1>3, <2>3 DEF IsAnswer
  <2>5. IsAnswer(meant)'
    BY <1>1, <1>3, <2>1 DEF IsAnswer
  <2> QED BY <1>2, <1>5, <2>4, <2>5 DEF AnswerInv
<1> QED BY <1>1, <1>4, <1>5 DEF Sending

LEMMA AnswerGiven ==
  ASSUME TalkInv, PassInv, AnswerInv, AwaitSalt
  PROVE  AnswerInv'
<1>1. /\ pc = "salt" /\ controlCh # << >> /\ UNCHANGED <<cred, clientPub, packet, devGot>>
      /\ devGot = <<First>>
  BY DEF TalkInv, AwaitSalt
<1>2. CASE Head(controlCh).cpt # cpTypePassSalt
  <2>1. UNCHANGED <<pc, meant>>
    BY <1>2, Zenon DEF AwaitSalt
  <2> QED BY <1>1, <2>1, AnswerKept
<1>3. CASE Head(controlCh).cpt = cpTypePassSalt
  <2>1. PICK body : body = Head(controlCh).body
    OBVIOUS
  <2>2. Received(body)
    <3>1. PICK X : /\ controlCh \in Seq(X)
                   /\ \A r \in X : r.cpt = cpTypePassSalt => Received(r.body)
      BY DEF PassInv
    <3>2. Head(controlCh) \in X
      BY <1>1, <3>1
    <3> QED BY <1>3, <2>1, <3>1, <3>2
  <2>3. AnswerSalt(body)
    BY <1>3, <2>1, Zenon DEF AwaitSalt
  <2>4. \/ Stop("failed")
        \/ Len(body) = ecsrpSaltLen /\ Crypto(body) = Panic /\ Stop("panic")
        \/ \E resp : Answers(body, resp) /\ Finish(resp)
    BY <2>3, Zenon DEF AnswerSalt, Crypto, Answers
  <2>5. CASE Stop("failed")
    BY <1>1, <2>5, AnswerKept DEF Stop
  <2>6. CASE Len(body) = ecsrpSaltLen /\ Crypto(body) = Panic /\ Stop("panic")
    <3>1. PanicsOn(body)'
      BY <1>1, <2>2, <2>6 DEF PanicsOn, Received, Crypto
    <3>2. devGot' # << >> /\ Len(devGot') # 2
      BY <1>1, Lengths
    <3>3. pc' = "panic"
      BY <2>6 DEF Stop
    <3> QED BY <3>1, <3>2, <3>3 DEF AnswerInv
  <2>7. CASE \E resp : Answers(body, resp) /\ Finish(resp)
    <3>1. PICK resp : Answers(body, resp) /\ Finish(resp)
      BY <2>7
    <3>2. \/ pc' = "failed"
          \/ /\ pc' = "ackFinish"
             /\ meant' = authFinish(resp, cred.user, defaultTermType, Cols, Rows)
      BY <3>1, Zenon DEF Finish, SendPayload
    <3>3. CASE pc' = "failed"
      BY <1>1, <3>3, AnswerKept
    <3>4. CASE /\ pc' = "ackFinish"
               /\ meant' = authFinish(resp, cred.user, defaultTermType, Cols, Rows)
      <4>1. Received(body)' /\ Answers(body, resp)'
        BY <1>1, <2>2, <3>1 DEF Received, Answers, Crypto
      <4>2. IsAnswer(meant)'
        BY <1>1, <3>4, <4>1 DEF IsAnswer
      <4>3. Len(devGot') # 2
        BY <1>1, Lengths
      <4> QED BY <3>4, <4>2, <4>3 DEF AnswerInv
    <3> QED BY <3>2, <3>3, <3>4
  <2> QED BY <2>4, <2>5, <2>6, <2>7
<1> QED BY <1>2, <1>3

LEMMA AnswerStep ==
  ASSUME TalkInv, PassInv, AnswerInv, Next \/ UNCHANGED vars
  PROVE  AnswerInv'
<1>1. CASE Start
  <2>1. pc = "start" /\ devGot' = << >> /\ cred' = cred
    BY <1>1 DEF Start, TalkInv
  <2>2. Len(devGot') # 2
    BY <2>1, Lengths
  <2>3. PICK pub : pub = keygen(cred.priv, NoValidator)
    OBVIOUS
  <2>4. CASE pub = Panic
    <3>1. pc' = "panic"
      BY <1>1, <2>3, <2>4, Zenon DEF Start
    <3> QED BY <2>1, <2>2, <2>3, <2>4, <3>1 DEF AnswerInv
  <2>5. CASE pub # Panic
    <3>1. pc' = "ackInit" \/ pc' = "failed"
      BY <1>1, <2>3, <2>5, Zenon DEF Start, SendPayload
    <3> QED BY <2>2, <3>1 DEF AnswerInv
  <2> QED BY <2>4, <2>5
<1>2. CASE DeviceSalt
  <2>1. devKey = NoKey /\ UNCHANGED <<pc, devGot, cred>>
    BY <1>2 DEF DeviceSalt, DeviceUnchanged
  <2>2. \A body : ~Received(body)
    BY <2>1, NoneYet
  <2>3. pc # "ackFinish" /\ Len(devGot) # 2
    BY <2>2 DEF AnswerInv, IsAnswer
  <2>4. pc = "panic" => keygen(cred.priv, NoValidator) = Panic
    BY <2>2 DEF AnswerInv, PanicsOn
  <2> QED BY <2>1, <2>3, <2>4 DEF AnswerInv
<1>3. CASE \/ StartFails \/ AwaitLonger \/ AwaitTimeout \/ Cancelled
           \/ DeviceEndAuth \/ Finished \/ UNCHANGED vars
  <2>1. /\ UNCHANGED <<cred, clientPub, packet, devGot>>
        /\ UNCHANGED <<pc, meant>> \/ pc' = "failed"
    BY <1>3 DEF vars, StartFails, AwaitLonger, AwaitTimeout, Cancelled,
                DeviceEndAuth, Finished, SendUnchanged, DeviceUnchanged
  <2> QED BY <2>1, AnswerKept
<1>4. CASE AwaitEndAuth
  <2>1. (pc' = "ok" \/ pc' = pc) /\ UNCHANGED <<meant, cred, clientPub, packet, devGot>>
    BY <1>4, Zenon DEF AwaitEndAuth
  <2> QED BY <2>1, AnswerKept
<1> QED BY <1>1, <1>2, <1>3, <1>4, AnswerSends, AnswerGiven DEF Next

LEMMA AnswerIsSound == Spec => []AnswerInv
<1>1. Init => AnswerInv
  <2> SUFFICES ASSUME Init PROVE AnswerInv
    OBVIOUS
  <2>1. pc = "start" /\ Len(devGot) # 2
    BY Lengths DEF Init
  <2> QED BY <2>1 DEF AnswerInv
<1>2. TalkInv /\ PassInv /\ AnswerInv /\ [Next]_vars => AnswerInv'
  BY AnswerStep
<1> QED BY <1>1, <1>2, TalkIsSound, PassIsSound, PTL DEF Spec

----------------------------------------------------------------------------
(* The answer is the one the device computes.                              *)

LEMMA SameSeq ==
  ASSUME NEW A, NEW s \in Seq(A), NEW t \in Seq(A), Len(s) = Len(t),
         \A i \in 1 .. Len(t) : s[i] = t[i]
  PROVE  s = t
OBVIOUS

\* The body of PASSSALT, taken apart as AnswerSalt does.
LEMMA BodyIs ==
  ASSUME NEW salt \in Seq(Nat), Len(salt) = md5SaltLen, NEW x, NEW y
  PROVE  /\ \E A : Nat \subseteq A /\ <<x, y>> \o salt \in Seq(A)
         /\ Len(<<x, y>> \o salt) = ecsrpSaltLen /\ ecsrpSaltLen # md5SaltLen
         /\ SubSeq(<<x, y>> \o salt, ecsrpPubkeyLen + 1, ecsrpSaltLen) = salt
         /\ KeyOf(<<x, y>> \o salt) = [x |-> x, parity |-> y]
<1>0. PICK l \in Nat : l = md5SaltLen /\ ecsrpSaltLen = l + 2 /\ ecsrpPubkeyLen + 1 = 3
  <2>1. md5SaltLen \in Nat /\ ecsrpPubkeyLen = 2
    BY HandshakeAssumption
  <2> QED BY <2>1 DEF ecsrpSaltLen
<1>1. PICK A : A = Nat \cup {x, y}
  OBVIOUS
<1>2. PICK u \in Seq(A), v \in Seq(A) : u = <<x, y>> /\ v = salt
  <2>1. <<x, y>> \in Seq(A)
    BY <1>1
  <2>2. Nat \subseteq A
    BY <1>1
  <2>3. \A s \in Seq(Nat) : s \in Seq(A)
    BY <2>2
  <2> QED BY <2>1, <2>3
<1>3. Len(u) = 2 /\ u[1] = x /\ u[2] = y /\ Len(v) = l
  BY <1>0, <1>2
<1>4. PICK body \in Seq(A) :
        /\ body = <<x, y>> \o salt /\ Len(body) = l + 2
        /\ body[1] = x /\ body[2] = y
        /\ \A i \in 1 .. l : body[2 + i] = v[i]
  <2>1. /\ u \o v \in Seq(A) /\ Len(u \o v) = Len(u) + Len(v)
        /\ \A i \in 1 .. Len(u) : (u \o v)[i] = u[i]
        /\ \A i \in 1 .. Len(v) : (u \o v)[Len(u) + i] = v[i]
    BY ConcatIs
  <2>2. 1 \in 1 .. Len(u) /\ 2 \in 1 .. Len(u) /\ Len(u) + Len(v) = l + 2
    BY <1>3
  <2>3. (u \o v)[1] = x /\ (u \o v)[2] = y
    BY <1>3, <2>1, <2>2
  <2>4. \A i \in 1 .. l : (u \o v)[2 + i] = v[i]
    BY <1>3, <2>1
  <2> QED BY <1>2, <2>1, <2>2, <2>3, <2>4, Zenon
<1>5. SubSeq(body, 3, l + 2) = v
  <2>1. PICK t \in Seq(A) : /\ t = SubSeq(body, 3, l + 2) /\ Len(t) = l
                            /\ \A i \in 1 .. l : t[i] = body[2 + i]
    <3>1. /\ SubSeq(body, 3, l + 2) \in Seq(A) /\ Len(SubSeq(body, 3, l + 2)) = l
          /\ \A i \in 1 .. l : SubSeq(body, 3, l + 2)[i] = body[2 + i]
      BY <1>4
    <3> QED BY <3>1
  <2>2. Len(t) = Len(v) /\ \A i \in 1 .. Len(v) : t[i] = v[i]
    BY <1>3, <1>4, <2>1
  <2>3. t = v
    BY <2>2, SameSeq
  <2> QED BY <2>1, <2>3
<1>6. KeyOf(body) = [x |-> x, parity |-> y]
  BY <1>4 DEF KeyOf
<1>7. l + 2 # l
  OBVIOUS
<1>8. Nat \subseteq A
  BY <1>1
<1> QED BY <1>0, <1>2, <1>4, <1>5, <1>6, <1>7, <1>8, Zenon

\* The body the client answers, or that it panics on, is what the device sent.
LEMMA SaltIsTheDevices ==
  ASSUME PassInv, PacketInv, devKey # NoKey, devKey.mode # "junk"
  PROVE  /\ \A body : Received(body) /\ (SaltArrived \/ Len(body) = ecsrpSaltLen)
                        => body = SaltBody(devKey)
         /\ devKey.mode = "md5" => SaltBody(devKey) = devKey.salt
         /\ Len(SaltBody(devKey)) = IF devKey.mode = "md5" THEN md5SaltLen ELSE ecsrpSaltLen
         /\ ecsrpSaltLen # md5SaltLen
<1>0. /\ md5SaltLen \in Nat /\ ecsrpSaltLen = md5SaltLen + 2
      /\ devKey.salt \in Seq(Nat) /\ Len(devKey.salt) = md5SaltLen
  <2>1. /\ md5SaltLen \in Nat /\ ecsrpPubkeyLen = 2 /\ Salts \subseteq Seq(Nat)
        /\ \A s \in Salts : Len(s) = md5SaltLen
    BY HandshakeAssumption
  <2>2. ecsrpSaltLen = md5SaltLen + 2
    BY <2>1 DEF ecsrpSaltLen
  <2>3. devKey.salt \in Salts
    BY DEF PassInv, IsSaltOf
  <2> QED BY <2>1, <2>2, <2>3
<1>1. PICK d : d = SaltBody(devKey)
  OBVIOUS
<1>2. /\ \E A : Nat \subseteq A /\ d \in Seq(A)
      /\ devKey.mode = "md5" => d = devKey.salt
      /\ Len(d) = IF devKey.mode = "md5" THEN md5SaltLen ELSE ecsrpSaltLen
  <2>1. CASE devKey.mode = "md5"
    <3>1. devKey.key = << >>
      BY <2>1 DEF PassInv, IsSaltOf
    <3>2. << >> \o devKey.salt = devKey.salt
      BY <1>0
    <3>3. d = devKey.salt
      BY <1>1, <3>1, <3>2 DEF SaltBody
    <3> QED BY <1>0, <2>1, <3>3
  <2>2. CASE devKey.mode # "md5"
    <3>1. PICK key : devKey.key = KeyBytes(key)
      BY <2>2, Zenon DEF PassInv, IsSaltOf
    <3>2. PICK x, y : devKey.key = <<x, y>>
      BY <3>1, Zenon DEF KeyBytes
    <3>3. (\E A : Nat \subseteq A /\ d \in Seq(A)) /\ Len(d) = ecsrpSaltLen
      <4>1. d = <<x, y>> \o devKey.salt
        BY <1>1, <3>2 DEF SaltBody
      <4> QED BY <1>0, <4>1, BodyIs
    <3> QED BY <2>2, <3>3
  <2> QED BY <2>1, <2>2
<1>3. PICK A : Nat \subseteq A /\ d \in Seq(A)
  BY <1>2
<1>4. packet.recs \in Around(Rec(cpTypePassSalt, d)) /\ Sound(packet.recs, packet.cut)
  BY <1>1 DEF PassInv, PacketInv
<1>5. /\ \A body : Received(body) => body = d \/ Len(body) < Len(d)
      /\ Received(d) => \A body : Received(body) => body = d
  BY <1>3, <1>4, ArrivedIs DEF Received
<1>6. SaltArrived => Received(d)
  <2> SUFFICES ASSUME SaltArrived PROVE Received(d)
    OBVIOUS
  <2>1. PICK i \in 1 .. Len(Decoded(packet.recs, packet.cut)) :
          Decoded(packet.recs, packet.cut)[i] = Rec(cpTypePassSalt, d)
    BY <1>1 DEF SaltArrived
  <2>2. Rec(cpTypePassSalt, d).cpt = cpTypePassSalt /\ Rec(cpTypePassSalt, d).body = d
    BY DEF Rec
  <2> QED BY <2>1, <2>2 DEF Received, Arrived
<1>7. ~(ecsrpSaltLen < Len(d)) /\ ecsrpSaltLen # md5SaltLen
  BY <1>0, <1>2
<1> QED BY <1>1, <1>2, <1>5, <1>6, <1>7

LEMMA HeardSome ==
  ASSUME TalkInv, devGot # << >>
  PROVE  Len(devGot) >= 1
<1>1. Len(devGot) = 1 \/ Len(devGot) = 2
  BY Lengths, Zenon DEF TalkInv, HeardBoth
<1> QED BY <1>1

\* docrypto on what the device sent, and the answer the device expects.
LEMMA CryptoIs ==
  ASSUME FieldLaw, Digests, TangleEnds, NEW M, GroupLaw(M),
         TalkInv, HeldInv, PassInv, cred.pass = Password, devKey.mode = "ecsrp",
         NEW h, h = keyHash(clientPub, KeyOf(devKey.key)),
         NEW k, k = devKey.priv, NEW v, v = Validator(devKey.salt)
  PROVE  LET s == Scalar(v, h, cred.priv)
             c == Crypto(SaltBody(devKey))
         IN  /\ s = (v * h + cred.priv) % n
             /\ k % n = 0 => c = Panic
             /\ k % n # 0 => /\ c = Panic <=> s = 0
                             /\ s # 0 => Expected = ResponseBytes(c)
<1>0. /\ devKey # NoKey /\ Len(devGot) >= 1 /\ HasKey
      /\ devKey.salt \in Salts /\ k \in DevicePrivs
  <2>1. devKey # NoKey
    BY DEF NoKey
  <2>2. devGot # << >>
    BY <2>1 DEF PassInv
  <2>3. Len(devGot) >= 1
    BY <2>2, HeardSome
  <2> QED BY <2>1, <2>2, <2>3 DEF PassInv, IsSaltOf, HeldInv
<1>1. DeviceSees = clientPub /\ DeviceUser = cred.user
  BY <1>0, FirstIsRead
<1>2. /\ cred.user \in Seq(Nat) /\ cred.pass \in Seq(Nat) /\ cred.priv \in Nat
      /\ devKey.salt \in Seq(Nat) /\ Len(devKey.salt) = md5SaltLen /\ k \in Nat
  BY <1>0, HandshakeAssumption DEF HeldInv
<1>3. v \in Nat /\ v = mtweiID(cred.user, Password, devKey.salt)
  BY <1>1, <1>2, ValidatorIs DEF Validator
<1>4. PICK K : K = keygen(k, v) /\ K # Panic /\ devKey.key = KeyBytes(K)
  BY <1>0, <1>3 DEF PassInv, IsSaltOf
<1>5. IsKey(K)
  <2>1. PICK pt : K = compress(pt)
    BY <1>4, Zenon DEF keygen
  <2>2. K = [x |-> (pt.X + w2m) % p, parity |-> pt.Y % 2]
    BY <1>4, <2>1, Zenon DEF compress
  <2> QED BY <2>2, Zenon DEF IsKey
<1>6. PICK x, y : K = [x |-> x, parity |-> y] /\ devKey.key = <<x, y>>
  BY <1>4, <1>5 DEF IsKey, KeyBytes
<1>7. PICK body : body = SaltBody(devKey)
  OBVIOUS
<1>8. KeyOf(body) = K /\ SubSeq(body, ecsrpPubkeyLen + 1, ecsrpSaltLen) = devKey.salt
  <2>1. body = <<x, y>> \o devKey.salt
    BY <1>6, <1>7 DEF SaltBody
  <2> QED BY <1>2, <1>6, <2>1, BodyIs
<1>9. KeyOf(devKey.key) = K
  BY <1>6 DEF KeyOf
<1>10. Crypto(SaltBody(devKey)) = docrypto(cred.priv, K, clientPub, v)
  BY <1>3, <1>7, <1>8 DEF Crypto
<1>11. PICK i \in Nat : i = cred.priv /\ i % n # 0
  <2>1. cred.priv % n # 0
    BY <1>0, <1>2, ClientKeyIs DEF HasKey
  <2> QED BY <1>2, <2>1
<1>12. clientPub.x \in Nat /\ liftX((clientPub.x + m2w) % p, clientPub.parity) = Mul(M, i)
  BY <1>0, <1>11, ClientKeyIs DEF HasKey
<1>13. h = keyHash(clientPub, K)
  BY <1>9
<1>14. /\ h \in Nat
       /\ k % n = 0 => docrypto(i, K, clientPub, v) = Panic
       /\ k % n # 0 => docrypto(i, K, clientPub, v) = secret(h, Mul(M, Scalar(v, h, i) * k))
  BY <1>2, <1>3, <1>4, <1>11, <1>12, <1>13, DocryptoIs
<1>15. PICK s \in Nat : s = Scalar(v, h, i) /\ s < n /\ s = (v * h + i) % n
  <2>1. /\ Scalar(v, h, i) \in Nat /\ Scalar(v, h, i) < n
        /\ Scalar(v, h, i) = (v * h + i) % n
    BY <1>3, <1>11, <1>14, ScalarIs
  <2> QED BY <2>1, Zenon
<1>16. ASSUME k % n # 0
       PROVE  secret(h, Mul(M, s * k)) = Panic <=> s = 0
  BY <1>2, <1>15, <1>16, SecretIs
<1>17. ASSUME s # 0
       PROVE  Expected = ResponseBytes(secret(h, Mul(M, s * k)))
  <2>1. PICK A : A = liftX((DeviceSees.x + m2w) % p, DeviceSees.parity) /\ A = Mul(M, i)
    BY <1>1, <1>12
  <2>2. PICK hV : hV = scalarMult((h * v) % n, generator)
    OBVIOUS
  <2>3. scalarMult(k, IF hV = Infinity THEN A ELSE add(A, hV)) = Mul(M, s * k)
    <3>1. k \in Nat /\ v \in Nat /\ h \in Nat /\ Scalar(v, h, i) # 0 /\ A = Mul(M, i)
      BY <1>2, <1>3, <1>14, <1>15, <1>17, <2>1
    <3>2. scalarMult(k, IF hV = Infinity THEN A ELSE add(A, hV)) = Mul(M, Scalar(v, h, i) * k)
      BY <2>2, <3>1, DeviceMultiple
    <3> QED BY <1>15, <3>2
  <2>4. keyHash(DeviceSees, keygen(devKey.priv, Validator(devKey.salt))) = h
    BY <1>1, <1>4, <1>13
  <2>5. devKey.mode # "md5"
    OBVIOUS
  <2> QED BY <2>1, <2>2, <2>3, <2>4, <2>5, Zenon DEF Expected
<1> QED BY <1>10, <1>11, <1>14, <1>15, <1>16, <1>17

LEMMA AnswerIsExpected ==
  ASSUME FieldLaw, Digests, TangleEnds, NEW M, GroupLaw(M),
         TalkInv, HeldInv, PacketInv, PassInv, AnswerInv
  PROVE  RightPasswordAccepted
<1> SUFFICES ASSUME cred.pass = Password, devKey.mode # "junk"
             PROVE  /\ Len(devGot) = 2 /\ SaltArrived => Answer = Expected
                    /\ pc = "panic" =>
                         \/ cred.priv % n = 0
                         \/ /\ devKey.mode = "ecsrp"
                            /\ LET h == keyHash(clientPub, KeyOf(devKey.key))
                               IN  \/ devKey.priv % n = 0
                                   \/ (Validator(devKey.salt) * h + cred.priv) % n = 0
  BY DEF RightPasswordAccepted
<1>0. ASSUME NEW body, Received(body)
      PROVE  devKey # NoKey /\ (devKey.mode = "md5" \/ devKey.mode = "ecsrp")
  <2>1. devKey # NoKey
    BY <1>0, NoneYet
  <2> QED BY <2>1 DEF PassInv, IsSaltOf
<1>1. PICK h, k, v, s : /\ h = keyHash(clientPub, KeyOf(devKey.key)) /\ k = devKey.priv
                        /\ v = Validator(devKey.salt) /\ s = Scalar(v, h, cred.priv)
  OBVIOUS
<1>2. ASSUME devKey.mode = "ecsrp"
      PROVE  /\ s = (v * h + cred.priv) % n
             /\ k % n = 0 => Crypto(SaltBody(devKey)) = Panic
             /\ k % n # 0 => /\ Crypto(SaltBody(devKey)) = Panic <=> s = 0
                             /\ s # 0 => Expected = ResponseBytes(Crypto(SaltBody(devKey)))
  BY <1>1, <1>2, CryptoIs
<1>3. ASSUME Len(devGot) = 2, SaltArrived
      PROVE  Answer = Expected
  <2>1. PICK body, resp :
          /\ Received(body) /\ Answers(body, resp)
          /\ devGot[2] = authFinish(resp, cred.user, defaultTermType, Cols, Rows)
    BY <1>3 DEF AnswerInv, IsAnswer
  <2>2. Answer = resp
    <3>1. authFinish(resp, cred.user, defaultTermType, Cols, Rows)[1] = Rec(cpTypePassword, resp)
      BY DEF authFinish
    <3>2. Rec(cpTypePassword, resp).body = resp
      BY DEF Rec
    <3> QED BY <2>1, <3>1, <3>2, Zenon DEF Answer
  <2>3. devKey # NoKey /\ (devKey.mode = "md5" \/ devKey.mode = "ecsrp")
    BY <1>0, <2>1
  <2>4. /\ body = SaltBody(devKey) /\ ecsrpSaltLen # md5SaltLen
        /\ devKey.mode = "md5" => body = devKey.salt
        /\ Len(body) = IF devKey.mode = "md5" THEN md5SaltLen ELSE ecsrpSaltLen
    BY <1>3, <2>1, <2>3, SaltIsTheDevices
  <2>5. CASE devKey.mode = "md5"
    <3>1. resp = computeMD5Response(Password, devKey.salt)
      BY <2>1, <2>4, <2>5 DEF Answers
    <3> QED BY <2>2, <2>5, <3>1 DEF Expected
  <2>6. CASE devKey.mode = "ecsrp"
    <3>1. Crypto(body) # Panic /\ resp = ResponseBytes(Crypto(body))
      BY <2>1, <2>4, <2>6 DEF Answers
    <3>2. k % n # 0 /\ s # 0
      BY <1>2, <2>4, <2>6, <3>1
    <3> QED BY <1>2, <2>2, <2>4, <2>6, <3>1, <3>2
  <2> QED BY <2>3, <2>5, <2>6
<1>4. ASSUME pc = "panic", cred.priv % n # 0
      PROVE  devKey.mode = "ecsrp" /\ (k % n = 0 \/ (v * h + cred.priv) % n = 0)
  <2>1. keygen(cred.priv, NoValidator) # Panic
    <3>1. cred.priv \in Nat
      BY DEF HeldInv
    <3> QED BY <1>4, <3>1, ClientKeyIs
  <2>2. PICK body : Received(body) /\ Len(body) = ecsrpSaltLen /\ Crypto(body) = Panic
    BY <1>4, <2>1 DEF AnswerInv, PanicsOn
  <2>3. devKey # NoKey /\ (devKey.mode = "md5" \/ devKey.mode = "ecsrp")
    BY <1>0, <2>2
  <2>4. /\ body = SaltBody(devKey) /\ ecsrpSaltLen # md5SaltLen
        /\ Len(body) = IF devKey.mode = "md5" THEN md5SaltLen ELSE ecsrpSaltLen
    BY <2>2, <2>3, SaltIsTheDevices
  <2>5. devKey.mode = "ecsrp"
    BY <2>2, <2>3, <2>4
  <2> QED BY <1>2, <2>2, <2>4, <2>5
<1> QED BY <1>1, <1>3, <1>4

\* With the right password, what docrypto (mtwei.go) and computeMD5Response
\* (auth.go) answer is what the device computes from its own half of the exchange,
\* and a nil coordinate is met only where a scalar is a multiple of the order: for
\* every name, password, salt, scalar and cut packet, on every curve on which the
\* field and group laws hold, with any digest.
THEOREM RightAnswerIsGiven ==
  ASSUME FieldLaw, Digests, TangleEnds, NEW CONSTANT M, GroupLaw(M)
  PROVE  Spec => []RightPasswordAccepted
<1>1. TalkInv /\ HeldInv /\ PacketInv /\ PassInv /\ AnswerInv => RightPasswordAccepted
  BY AnswerIsExpected
<1> QED BY <1>1, TalkIsSound, HeldIsSound, PacketIsSound, PassIsSound, AnswerIsSound, PTL

=============================================================================

--------------------------- MODULE SequenceLemmas ---------------------------
(***************************************************************************)
(* Lemmas about FlattenSeq of SequencesExt, by which the texts of WgApi    *)
(* and the forwarders of Load are put together, for sequences of any       *)
(* length, and the induction that they rest on.                            *)
(***************************************************************************)
EXTENDS Integers, SequencesExt, WellFoundedInduction, TLAPS

\* A set that has 0, and with a number below m the next one, has all up to m.
LEMMA SetInduction ==
  ASSUME NEW m \in Nat, NEW S, 0 \in S, \A n \in 0..(m - 1) : n \in S => n + 1 \in S
  PROVE  \A n \in 0..m : n \in S
<1> DEFINE R == OpToRel(<, Nat)
           T == {n \in 0..m : n \notin S}
<1>1. IsWellFoundedOn(R, Nat)
  BY NatLessThanWellFounded, Zenon
<1>2. \A y, x \in Nat : y < x => <<y, x>> \in R
  BY Zenon DEF OpToRel
<1> HIDE DEF R
<1>3. T \subseteq Nat /\ 0 \notin T /\ \A n \in 0..(m - 1) : n + 1 \in T => n \in T
  OBVIOUS
<1>4. \A n \in T : n \in 0..m
  OBVIOUS
<1>5. ASSUME T # {} PROVE FALSE
  <2> HIDE DEF T
  <2>1. PICK x \in T : \A y \in T : ~(<<y, x>> \in R)
    BY <1>1, <1>3, <1>5, WFMin
  <2>2. \A y \in T : ~ (y < x)
    BY <1>3, <1>2, <2>1
  <2>3. x - 1 \in 0..(m - 1) /\ x = (x - 1) + 1 /\ x - 1 < x
    <3>1. x \in 0..m /\ x # 0
      BY <1>3, <1>4
    <3>2. QED
      BY <3>1
  <2>4. x - 1 \in T
    BY <1>3, <2>1, <2>3
  <2>5. QED
    BY <2>2, <2>3, <2>4
<1>6. QED
  BY <1>5

\* The function FlattenSeq is the last value of: it appends one sequence after the other.
Appends(f, q, n) ==
  \A i \in 1..n : f[i] = IF i = 1 THEN q[i] ELSE f[i - 1] \o q[i]

\* There is such a function, up to any length.
LEMMA AppendsUpTo ==
  ASSUME NEW X, NEW q \in Seq(Seq(X)), NEW n \in 0..Len(q)
  PROVE  \E f \in [1..n -> Seq(X)] : Appends(f, q, n)
<1> DEFINE S == {k \in 0..Len(q) : \E f \in [1..k -> Seq(X)] : Appends(f, q, k)}
<1>1. Len(q) \in Nat /\ \A i \in 1..Len(q) : q[i] \in Seq(X)
  OBVIOUS
<1>2. 0 \in S
  <2>1. [i \in 1..0 |-> <<>>] \in [1..0 -> Seq(X)]
    OBVIOUS
  <2>2. Appends([i \in 1..0 |-> <<>>], q, 0)
    BY DEF Appends
  <2>3. 0 \in 0..Len(q)
    BY <1>1
  <2>4. QED
    BY <2>1, <2>2, <2>3
<1>3. ASSUME NEW k \in 0..(Len(q) - 1), k \in S PROVE k + 1 \in S
  <2>1. PICK f \in [1..k -> Seq(X)] : Appends(f, q, k)
    BY <1>3
  <2> DEFINE last == IF k = 0 THEN q[1] ELSE f[k] \o q[k + 1]
             g == [i \in 1..(k + 1) |-> IF i = k + 1 THEN last ELSE f[i]]
  <2>2. last \in Seq(X)
    <3>1. q[k + 1] \in Seq(X)
      BY <1>1
    <3>2. k # 0 => f[k] \in Seq(X)
      BY <1>1
    <3>3. QED
      BY <3>1, <3>2
  <2> HIDE DEF last
  <2>3. g \in [1..(k + 1) -> Seq(X)]
    BY <2>2
  <2>4. g[k + 1] = last /\ \A i \in 1..k : g[i] = f[i]
    BY <1>1
  <2> HIDE DEF g
  <2>5. ASSUME NEW i \in 1..(k + 1) PROVE g[i] = IF i = 1 THEN q[i] ELSE g[i - 1] \o q[i]
    <3>1. CASE i = k + 1
      <4>1. k # 0 => g[k] = f[k] /\ i # 1 /\ i - 1 = k
        BY <1>1, <2>4, <3>1
      <4>2. QED
        BY <2>4, <3>1, <4>1 DEF last
    <3>2. CASE i # k + 1
      <4>1. i \in 1..k /\ g[i] = f[i] /\ (i # 1 => g[i - 1] = f[i - 1])
        BY <1>1, <2>4, <3>2
      <4>2. QED
        BY <2>1, <4>1 DEF Appends
    <3>3. QED
      BY <3>1, <3>2
  <2>6. Appends(g, q, k + 1)
    BY <2>5 DEF Appends
  <2>7. k + 1 \in 0..Len(q)
    BY <1>1
  <2>8. QED
    BY <2>3, <2>6, <2>7
<1> HIDE DEF S
<1>4. n \in S
  BY <1>1, <1>2, <1>3, SetInduction
<1>5. QED
  BY <1>4 DEF S

\* Two such functions are the same, hence FlattenSeq(q) is the last value of any.
LEMMA AppendsOnce ==
  ASSUME NEW X, NEW q \in Seq(Seq(X)), NEW f, NEW g, Appends(f, q, Len(q)), Appends(g, q, Len(q)),
         NEW n \in 1..Len(q)
  PROVE  f[n] = g[n]
<1> DEFINE S == {k \in 0..Len(q) : k # 0 => f[k] = g[k]}
<1>1. Len(q) \in Nat
  OBVIOUS
<1>2. 0 \in S
  BY <1>1
<1>3. ASSUME NEW k \in 0..(Len(q) - 1), k \in S PROVE k + 1 \in S
  <2>1. /\ k + 1 \in 1..Len(q) /\ k + 1 \in 0..Len(q) /\ (k + 1) - 1 = k
        /\ (k + 1 = 1) <=> (k = 0)
    BY <1>1
  <2>2. /\ f[k + 1] = IF k = 0 THEN q[k + 1] ELSE f[k] \o q[k + 1]
        /\ g[k + 1] = IF k = 0 THEN q[k + 1] ELSE g[k] \o q[k + 1]
    BY <2>1 DEF Appends
  <2>3. k # 0 => f[k] = g[k]
    BY <1>3
  <2>4. f[k + 1] = g[k + 1]
    BY <2>2, <2>3
  <2>5. QED
    BY <2>1, <2>4
<1> HIDE DEF S
<1>4. n \in 0..Len(q) /\ n # 0
  BY <1>1
<1>5. n \in S
  BY <1>1, <1>2, <1>3, <1>4, SetInduction
<1>6. QED
  BY <1>4, <1>5 DEF S

\* FlattenSeq(q) is its last value.
LEMMA FlattenIsLast ==
  ASSUME NEW X, NEW q \in Seq(Seq(X)), Len(q) > 0, NEW f, Appends(f, q, Len(q))
  PROVE  FlattenSeq(q) = f[Len(q)]
<1> DEFINE Fix(h) == h = [i \in 1..Len(q) |-> IF i = 1 THEN q[i] ELSE h[i - 1] \o q[i]]
           c == CHOOSE h : Fix(h)
<1>1. Len(q) \in Nat /\ Len(q) \in 0..Len(q) /\ Len(q) \in 1..Len(q)
  OBVIOUS
<1>2. PICK g \in [1..Len(q) -> Seq(X)] : Appends(g, q, Len(q))
  BY <1>1, AppendsUpTo
<1>3. Fix(g)
  BY <1>2 DEF Appends
<1>4. Fix(c)
  BY <1>3
<1>5. FlattenSeq(q) = c[Len(q)]
  BY <1>1 DEF FlattenSeq
<1>6. Appends(c, q, Len(q))
  <2> SUFFICES ASSUME NEW i \in 1..Len(q) PROVE c[i] = IF i = 1 THEN q[i] ELSE c[i - 1] \o q[i]
    BY DEF Appends
  <2> HIDE DEF c
  <2>1. QED
    BY <1>4
<1> HIDE DEF c
<1>7. c[Len(q)] = f[Len(q)]
  BY <1>1, <1>6, AppendsOnce
<1>8. QED
  BY <1>5, <1>7

\* Where the sequences of q begin in FlattenSeq(q), less one.
Offsets(off, q) ==
  /\ off \in [1..(Len(q) + 1) -> Nat] /\ off[1] = 0
  /\ \A i \in 1..Len(q) : off[i + 1] = off[i] + Len(q[i])

\* Sequences of any length are found one after the other in FlattenSeq.
LEMMA FlattenBlocks ==
  ASSUME NEW X, NEW q \in Seq(Seq(X))
  PROVE  /\ FlattenSeq(q) \in Seq(X)
         /\ \E off : /\ Offsets(off, q) /\ Len(FlattenSeq(q)) = off[Len(q) + 1]
                     /\ \A i \in 1..Len(q) : \A j \in 1..Len(q[i]) : FlattenSeq(q)[off[i] + j] = q[i][j]
                     /\ \A i, j \in 1..Len(q) : i < j => off[i] + Len(q[i]) <= off[j]
                     /\ \A i \in 1..Len(q) : off[i] + Len(q[i]) <= Len(FlattenSeq(q))
                     /\ \A k \in 1..Len(FlattenSeq(q)) : \E i \in 1..Len(q) :
                            k - off[i] \in 1..Len(q[i])
<1> DEFINE m == Len(q)
<1>1. m \in Nat /\ \A i \in 1..m : q[i] \in Seq(X) /\ Len(q[i]) \in Nat
  OBVIOUS
<1>2. CASE m = 0
  <2>1. q = <<>> /\ FlattenSeq(q) = q
    BY <1>2 DEF FlattenSeq
  <2> DEFINE off == [i \in 1..1 |-> 0]
  <2>2. Len(q) = 0 /\ 0 + 1 = 1 /\ 1..0 = {}
    BY <1>2
  <2>3. Offsets(off, q) /\ Len(FlattenSeq(q)) = off[Len(q) + 1]
    BY <2>1, <2>2 DEF Offsets
  <2>4. FlattenSeq(q) \in Seq(X)
    <3>1. <<>> \in Seq(X)
      OBVIOUS
    <3>2. QED
      BY <2>1, <3>1
  <2>5. Len(FlattenSeq(q)) = 0
    BY <2>1, <2>2
  <2> HIDE DEF off
  <2>6. QED
    BY <2>2, <2>3, <2>4, <2>5
<1>3. CASE m > 0
  <2>1. m \in 0..m /\ m \in 1..m
    BY <1>1, <1>3
  <2>2. PICK f \in [1..m -> Seq(X)] : Appends(f, q, m)
    BY <2>1, AppendsUpTo
  <2>3. FlattenSeq(q) = f[m] /\ f[m] \in Seq(X)
    BY <1>3, <2>1, <2>2, FlattenIsLast
  <2> DEFINE off == [i \in 1..(m + 1) |-> IF i = 1 THEN 0 ELSE Len(f[i - 1])]
  <2>4. off[1] = 0 /\ \A i \in 1..m : off[i + 1] = Len(f[i])
    <3>1. 1 \in 1..(m + 1)
      BY <1>1
    <3>2. \A i \in 1..m : i + 1 \in 1..(m + 1) /\ i + 1 # 1 /\ (i + 1) - 1 = i
      BY <1>1
    <3>3. QED
      BY <3>1, <3>2
  <2>5. off \in [1..(m + 1) -> Nat]
    <3>1. \A i \in 1..m : Len(f[i]) \in Nat
      BY <2>2
    <3>2. \A i \in 1..(m + 1) : i # 1 => i - 1 \in 1..m
      BY <1>1
    <3>3. QED
      BY <3>1, <3>2
  <2> HIDE DEF off
  <2>6. ASSUME NEW n \in 1..m
        PROVE  /\ f[n] \in Seq(X) /\ f[n] = IF n = 1 THEN q[n] ELSE f[n - 1] \o q[n]
               /\ n # 1 => n - 1 \in 1..m /\ f[n - 1] \in Seq(X) /\ off[n] = Len(f[n - 1])
               /\ off[n + 1] = off[n] + Len(q[n])
               /\ off[n] \in Nat
               /\ \A k \in 1..off[n] : n # 1 /\ f[n][k] = f[n - 1][k]
               /\ \A j \in 1..Len(q[n]) : f[n][off[n] + j] = q[n][j]
    <3>1. f[n] \in Seq(X) /\ off[n] \in Nat /\ f[n] = IF n = 1 THEN q[n] ELSE f[n - 1] \o q[n]
      <4>1. f[n] \in Seq(X) /\ n \in 1..(m + 1)
        BY <1>1, <2>2
      <4>2. f[n] = IF n = 1 THEN q[n] ELSE f[n - 1] \o q[n]
        BY <2>2 DEF Appends
      <4>3. QED
        BY <2>5, <4>1, <4>2
    <3>2. q[n] \in Seq(X)
      BY <1>1
    <3>3. off[n + 1] = Len(f[n])
      BY <2>4
    <3>4. CASE n = 1
      <4>1. f[n] = q[n] /\ off[n] = 0 /\ 1..0 = {} /\ Len(q[n]) \in Nat
        BY <1>1, <2>4, <3>1, <3>4
      <4>2. \A j \in 1..Len(q[n]) : off[n] + j = j
        BY <4>1
      <4>3. off[n + 1] = off[n] + Len(q[n])
        BY <3>3, <4>1
      <4>4. QED
        BY <3>1, <3>4, <4>1, <4>2, <4>3
    <3>5. CASE n # 1
      <4>1. n - 1 \in 1..m /\ (n - 1) + 1 = n
        BY <1>1, <3>5
      <4>2. f[n - 1] \in Seq(X) /\ off[n] = Len(f[n - 1])
        BY <2>2, <2>4, <4>1
      <4> DEFINE s == f[n - 1]
                 t == q[n]
                 u == f[n]
      <4>3. s \in Seq(X) /\ t \in Seq(X) /\ u = s \o t
        BY <3>1, <3>2, <3>5, <4>2
      <4> HIDE DEF s, t, u
      <4>4. Len(u) = Len(s) + Len(t) /\ (\A k \in 1..Len(s) : u[k] = s[k])
            /\ \A j \in 1..Len(t) : u[Len(s) + j] = t[j]
        BY <4>3
      <4>5. QED
        BY <3>1, <3>3, <3>5, <4>1, <4>2, <4>4 DEF s, t, u
    <3>6. QED
      BY <3>4, <3>5
  <2>7. Offsets(off, q)
    BY <2>4, <2>5, <2>6 DEF Offsets
  <2>8. Len(FlattenSeq(q)) = off[m + 1]
    BY <2>1, <2>3, <2>4
  <2> DEFINE Good(n) == /\ \A i \in 1..n : \A j \in 1..Len(q[i]) : f[n][off[i] + j] = q[i][j]
                        /\ \A i \in 1..n : off[i] + Len(q[i]) <= off[n + 1]
                        /\ \A k \in 1..off[n + 1] : \E i \in 1..n : k - off[i] \in 1..Len(q[i])
             S == {n \in 0..m : n # 0 => Good(n)}
  <2>9. 0 \in S
    BY <1>1
  <2>10. ASSUME NEW n \in 0..(m - 1), n \in S PROVE n + 1 \in S
    <3>1. /\ n + 1 \in 1..m /\ n + 1 \in 0..m /\ n \in Nat /\ (n + 1) - 1 = n
          /\ (n + 1 = 1) <=> (n = 0)
          /\ \A i \in 1..(n + 1) : i \in 1..m /\ (i # n + 1 => i \in 1..n)
      BY <1>1
    <3>2. /\ off[(n + 1) + 1] = off[n + 1] + Len(q[n + 1]) /\ off[n + 1] \in Nat
          /\ \A k \in 1..off[n + 1] : n # 0 /\ f[n + 1][k] = f[n][k]
          /\ \A j \in 1..Len(q[n + 1]) : f[n + 1][off[n + 1] + j] = q[n + 1][j]
      <4>1. PICK c \in 1..m : c = n + 1 /\ c - 1 = n /\ (c # 1 <=> n # 0)
        BY <3>1
      <4>2. /\ off[c + 1] = off[c] + Len(q[c]) /\ off[c] \in Nat
            /\ \A k \in 1..off[c] : c # 1 /\ f[c][k] = f[c - 1][k]
            /\ \A j \in 1..Len(q[c]) : f[c][off[c] + j] = q[c][j]
        BY <2>6
      <4>3. c - 1 = n /\ c = n + 1
        BY <4>1
      <4>4. \A k \in 1..off[n + 1] : n # 0 /\ f[n + 1][k] = f[n][k]
        <5> SUFFICES ASSUME NEW k \in 1..off[c] PROVE n # 0 /\ f[c][k] = f[n][k]
          BY <4>3
        <5>1. c # 1 /\ f[c][k] = f[c - 1][k]
          BY <4>2
        <5>2. QED
          BY <4>1, <5>1
      <4>5. QED
        BY <4>2, <4>3, <4>4
    <3>3. ASSUME NEW i \in 1..(n + 1), NEW j \in 1..Len(q[i])
          PROVE  f[n + 1][off[i] + j] = q[i][j]
      <4>1. CASE i = n + 1
        BY <3>2, <4>1
      <4>2. CASE i # n + 1
        <5>1. i \in 1..n /\ n # 0 /\ i \in 1..m
          BY <3>1, <4>2
        <5>2. f[n][off[i] + j] = q[i][j]
          BY <2>10, <5>1
        <5>3. off[i] + Len(q[i]) <= off[n + 1] /\ off[i] \in Nat /\ Len(q[i]) \in Nat
          <6>1. off[i] + Len(q[i]) <= off[n + 1]
            BY <2>10, <5>1
          <6>2. off[i] \in Nat
            BY <2>6, <5>1
          <6>3. QED
            BY <1>1, <5>1, <6>1, <6>2
        <5>4. off[i] + j \in 1..off[n + 1]
          <6>1. off[n + 1] \in Nat
            BY <3>2
          <6>2. QED
            BY <5>3, <6>1
        <5>5. QED
          BY <3>2, <5>2, <5>4
      <4>3. QED
        BY <4>1, <4>2
    <3>4. ASSUME NEW i \in 1..(n + 1) PROVE off[i] + Len(q[i]) <= off[(n + 1) + 1]
      <4>1. i \in 1..m /\ off[i] \in Nat /\ Len(q[i]) \in Nat /\ Len(q[n + 1]) \in Nat
        BY <1>1, <2>6, <3>1
      <4>2. CASE i = n + 1
        BY <3>2, <4>1, <4>2
      <4>3. CASE i # n + 1
        <5>1. i \in 1..n /\ n # 0
          BY <3>1, <4>3
        <5>2. off[i] + Len(q[i]) <= off[n + 1]
          BY <2>10, <5>1
        <5>3. QED
          BY <3>2, <4>1, <5>2
      <4>4. QED
        BY <4>2, <4>3
    <3>5. ASSUME NEW k \in 1..off[(n + 1) + 1] PROVE \E i \in 1..(n + 1) : k - off[i] \in 1..Len(q[i])
      <4>1. Len(q[n + 1]) \in Nat
        BY <1>1, <3>1
      <4>2. CASE k \in 1..off[n + 1]
        <5>1. n # 0 /\ 1..n \subseteq 1..(n + 1)
          BY <3>1, <3>2, <4>2
        <5>2. \E i \in 1..n : k - off[i] \in 1..Len(q[i])
          BY <2>10, <4>2, <5>1
        <5>3. QED
          BY <5>1, <5>2
      <4>3. CASE k \notin 1..off[n + 1]
        <5>1. k - off[n + 1] \in 1..Len(q[n + 1])
          BY <3>2, <4>1, <4>3
        <5>2. n + 1 \in 1..(n + 1)
          BY <3>1
        <5>3. QED
          BY <5>1, <5>2
      <4>4. QED
        BY <4>2, <4>3
    <3>6. Good(n + 1)
      BY <3>3, <3>4, <3>5
    <3>7. QED
      BY <3>1, <3>6
  <2> HIDE DEF S
  <2>11. \A n \in 0..m : n \in S
    BY <1>1, <2>9, <2>10, SetInduction
  <2>12. \A n \in 1..m : Good(n)
    <3>1. \A n \in 1..m : n \in 0..m /\ n # 0
      BY <1>1
    <3>2. QED
      BY <2>11, <3>1 DEF S
  <2>13. \A i, j \in 1..m : i < j => off[i] + Len(q[i]) <= off[j]
    <3> SUFFICES ASSUME NEW i \in 1..m, NEW j \in 1..m, i < j PROVE off[i] + Len(q[i]) <= off[j]
      OBVIOUS
    <3>1. j - 1 \in 1..m /\ i \in 1..(j - 1) /\ (j - 1) + 1 = j
      BY <1>1
    <3>2. off[i] + Len(q[i]) <= off[(j - 1) + 1]
      BY <2>12, <3>1
    <3>3. QED
      BY <3>1, <3>2
  <2>14. /\ \A i \in 1..m : \A j \in 1..Len(q[i]) : FlattenSeq(q)[off[i] + j] = q[i][j]
         /\ \A i \in 1..m : off[i] + Len(q[i]) <= off[m + 1]
         /\ \A k \in 1..off[m + 1] : \E i \in 1..m : k - off[i] \in 1..Len(q[i])
    BY <2>1, <2>3, <2>12
  <2> HIDE DEF Good
  <2>15. QED
    BY <2>3, <2>7, <2>8, <2>13, <2>14
<1>4. QED
  BY <1>1, <1>2, <1>3

\* Of sequences of three elements, the j-th of the i-th is found at 3i - 3 + j.
LEMMA FlattenThrees ==
  ASSUME NEW X, NEW q \in Seq(Seq(X)), \A i \in 1..Len(q) : Len(q[i]) = 3
  PROVE  /\ FlattenSeq(q) \in Seq(X)
         /\ Len(FlattenSeq(q)) = 3 * Len(q)
         /\ \A i \in 1..Len(q) : \A j \in 1..3 : FlattenSeq(q)[3 * i - 3 + j] = q[i][j]
<1> DEFINE m == Len(q)
<1>1. m \in Nat
  OBVIOUS
<1>2. /\ FlattenSeq(q) \in Seq(X)
      /\ \E off : /\ Offsets(off, q) /\ Len(FlattenSeq(q)) = off[m + 1]
                  /\ \A i \in 1..m : \A j \in 1..Len(q[i]) : FlattenSeq(q)[off[i] + j] = q[i][j]
  BY FlattenBlocks
<1>3. PICK off : /\ Offsets(off, q) /\ Len(FlattenSeq(q)) = off[m + 1]
                 /\ \A i \in 1..m : \A j \in 1..Len(q[i]) : FlattenSeq(q)[off[i] + j] = q[i][j]
  BY <1>2
<1>4. off[1] = 0 /\ \A i \in 1..m : off[i + 1] = off[i] + 3
  BY <1>3 DEF Offsets
<1> HIDE DEF m
<1> DEFINE S == {n \in 0..m : off[n + 1] = 3 * n}
<1>5. 0 \in S
  BY <1>1, <1>4
<1>6. ASSUME NEW n \in 0..(m - 1), n \in S PROVE n + 1 \in S
  <2>1. n + 1 \in 1..m /\ n + 1 \in 0..m /\ 3 * (n + 1) = 3 * n + 3
    BY <1>1
  <2>2. off[(n + 1) + 1] = off[n + 1] + 3 /\ off[n + 1] = 3 * n
    BY <1>4, <1>6, <2>1
  <2>3. QED
    BY <2>1, <2>2
<1> HIDE DEF S
<1>7. \A n \in 0..m : n \in S
  BY <1>1, <1>5, <1>6, SetInduction
<1>8. \A n \in 0..m : off[n + 1] = 3 * n
  BY <1>7 DEF S
<1>9. off[m + 1] = 3 * m
  BY <1>1, <1>8
<1>10. ASSUME NEW i \in 1..m PROVE off[i] = 3 * i - 3 /\ Len(q[i]) = 3
  <2>1. i - 1 \in 0..m /\ (i - 1) + 1 = i /\ 3 * (i - 1) = 3 * i - 3
    BY <1>1
  <2>2. off[(i - 1) + 1] = 3 * (i - 1)
    BY <1>8, <2>1
  <2>3. QED
    BY <2>1, <2>2 DEF m
<1>11. QED
  BY <1>2, <1>3, <1>9, <1>10 DEF m

\* The elements of a sequence are a type of it.
LEMMA OwnType == ASSUME NEW X, NEW s \in Seq(X) PROVE s \in Seq(ToSet(s))
<1>1. Len(s) \in Nat /\ DOMAIN s = 1..Len(s) /\ \A i \in 1..Len(s) : s[i] \in ToSet(s)
  BY DEF ToSet
<1>2. s = [i \in 1..Len(s) |-> s[i]]
  OBVIOUS
<1>3. QED
  BY <1>1, <1>2

\* A function on 1..n is a sequence, of any type its values have.
LEMMA FunctionSeq ==
  ASSUME NEW X, NEW n \in Nat, NEW f, f = [i \in 1..n |-> f[i]], \A i \in 1..n : f[i] \in X
  PROVE  f \in Seq(X) /\ Len(f) = n /\ DOMAIN f = 1..n
<1>1. f \in [1..n -> X]
  OBVIOUS
<1>2. QED
  BY <1>1

\* As many sequences, of the same lengths.
Alike(q, r) == Len(q) = Len(r) /\ \A i \in 1..Len(q) : Len(q[i]) = Len(r[i])

\* The k-th elements, when flattened, were at the same place.
SamePlaces(q, r) ==
    /\ Len(FlattenSeq(q)) = Len(FlattenSeq(r))
    /\ \A k \in 1..Len(FlattenSeq(q)) : \E i \in 1..Len(q) : \E j \in 1..Len(q[i]) :
           FlattenSeq(q)[k] = q[i][j] /\ FlattenSeq(r)[k] = r[i][j]

\* Sequences alike in number and lengths are alike when flattened.
LEMMA FlattenAlike ==
  ASSUME NEW X, NEW Y, NEW q \in Seq(Seq(X)), NEW r \in Seq(Seq(Y)), Alike(q, r)
  PROVE  SamePlaces(q, r)
<1> DEFINE m == Len(q)
<1>1. m \in Nat /\ m = Len(r) /\ \A i \in 1..m : Len(q[i]) = Len(r[i])
  BY DEF Alike
<1>2. PICK a : /\ Offsets(a, q) /\ Len(FlattenSeq(q)) = a[m + 1]
               /\ \A i \in 1..m : \A j \in 1..Len(q[i]) : FlattenSeq(q)[a[i] + j] = q[i][j]
               /\ \A k \in 1..Len(FlattenSeq(q)) : \E i \in 1..m : k - a[i] \in 1..Len(q[i])
  BY FlattenBlocks
<1>3. PICK b : /\ Offsets(b, r) /\ Len(FlattenSeq(r)) = b[m + 1]
               /\ \A i \in 1..m : \A j \in 1..Len(r[i]) : FlattenSeq(r)[b[i] + j] = r[i][j]
  <2>1. \E b : /\ Offsets(b, r) /\ Len(FlattenSeq(r)) = b[Len(r) + 1]
               /\ \A i \in 1..Len(r) : \A j \in 1..Len(r[i]) : FlattenSeq(r)[b[i] + j] = r[i][j]
    <3>1. r \in Seq(Seq(Y))
      OBVIOUS
    <3>2. QED
      BY ONLY <3>1, FlattenBlocks
  <2>2. QED
    BY <1>1, <2>1
<1>4. /\ a[1] = 0 /\ b[1] = 0 /\ \A i \in 1..m : a[i] \in Nat
      /\ \A i \in 1..m : a[i + 1] = a[i] + Len(q[i]) /\ b[i + 1] = b[i] + Len(q[i])
  <2>1. a[1] = 0 /\ a \in [1..(m + 1) -> Nat] /\ \A i \in 1..m : a[i + 1] = a[i] + Len(q[i])
    BY <1>2 DEF Offsets
  <2>2. b[1] = 0 /\ \A i \in 1..m : b[i + 1] = b[i] + Len(r[i])
    BY <1>1, <1>3 DEF Offsets
  <2>3. \A i \in 1..m : i \in 1..(m + 1)
    BY <1>1
  <2>4. QED
    BY <1>1, <2>1, <2>2, <2>3
<1> HIDE DEF m
<1> DEFINE S == {n \in 0..m : a[n + 1] = b[n + 1]}
<1>5. 0 \in S
  BY <1>1, <1>4
<1>6. ASSUME NEW n \in 0..(m - 1), n \in S PROVE n + 1 \in S
  <2>1. n + 1 \in 1..m /\ n + 1 \in 0..m
    BY <1>1
  <2>2. QED
    BY <1>4, <1>6, <2>1
<1> HIDE DEF S
<1>7. \A n \in 0..m : n \in S
  BY <1>1, <1>5, <1>6, SetInduction
<1>8. \A n \in 0..m : a[n + 1] = b[n + 1]
  BY <1>7 DEF S
<1>9. a[m + 1] = b[m + 1] /\ \A i \in 1..m : a[i] = b[i]
  <2>1. m \in 0..m /\ \A i \in 1..m : i - 1 \in 0..m /\ (i - 1) + 1 = i
    BY <1>1
  <2>2. QED
    BY <1>8, <2>1
<1>10. ASSUME NEW k \in 1..Len(FlattenSeq(q))
       PROVE  \E i \in 1..m : \E j \in 1..Len(q[i]) :
                  FlattenSeq(q)[k] = q[i][j] /\ FlattenSeq(r)[k] = r[i][j]
  <2>1. PICK i \in 1..m : k - a[i] \in 1..Len(q[i])
    BY <1>2
  <2>2. PICK j \in 1..Len(q[i]) : j = k - a[i]
    BY <2>1
  <2>3. k \in Int
    <3>1. FlattenSeq(q) \in Seq(X)
      BY FlattenBlocks
    <3>2. QED
      BY <3>1
  <2>4. k = a[i] + j
    <3>1. a[i] \in Nat
      BY <1>4
    <3>2. QED
      BY <2>2, <2>3, <3>1
  <2>5. FlattenSeq(q)[k] = q[i][j]
    BY <1>2, <2>4
  <2>6. FlattenSeq(r)[k] = r[i][j]
    BY <1>1, <1>3, <1>9, <2>4
  <2>7. QED
    BY <2>5, <2>6
<1>11. QED
  BY <1>2, <1>3, <1>9, <1>10 DEF m, SamePlaces
=============================================================================

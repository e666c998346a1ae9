--------------------------- MODULE CmmChainProofs ---------------------------
(***************************************************************************)
(* Proofs about CmmChain, for any profiles and bounds.                     *)
(*                                                                         *)
(* Begin makes two new chains of the one AddXform has built, each with     *)
(* some transforms inserted (Threaded).  ThreadIs says where the old ones  *)
(* and the new ones are in the result; all else about it follows from      *)
(* that: who owns which profile (Owned), which conversion stands between   *)
(* which profiles (Laid), and what stands next to what (Neighbours).       *)
(***************************************************************************)
EXTENDS CmmChainInv, FiniteSetTheorems, SequenceTheorems, WellFoundedInduction, TLAPS

\* A set of numbers has a least one.
LEMMA NatMinimum ==
  ASSUME NEW S, S \subseteq Nat, S # {}
  PROVE  \E m \in S : \A k \in S : m <= k
<1> DEFINE R == OpToRel(<, Nat)
<1>1. IsWellFoundedOn(R, Nat)
  BY NatLessThanWellFounded
<1> HIDE DEF R
<1>2. PICK m \in S : \A k \in S : ~ (<<k, m>> \in R)
  BY <1>1, WFMin
<1>3. \A a, b \in Nat : a < b => <<a, b>> \in R
  BY DEF R, OpToRel
<1>4. ASSUME NEW k \in S
      PROVE  m <= k
  <2>1. k \in Nat /\ m \in Nat
    OBVIOUS
  <2>2. ~ (<<k, m>> \in R)
    BY <1>2
  <2> QED
    BY <2>1, <2>2, <1>3
<1> QED
  BY <1>4
-----------------------------------------------------------------------------
(* Flattening *)

\* f is what FlattenSeq has made of the first k of s, up to each place.
Flattens(S, s, k, f) ==
  /\ f \in [1..k -> Seq(S)]
  /\ \A i \in 1..k : f[i] = IF i = 1 THEN s[i] ELSE f[i - 1] \o s[i]

LEMMA FlattensExist ==
  ASSUME NEW S, NEW s \in Seq(Seq(S)), NEW k \in 1..Len(s)
  PROVE  \E f : Flattens(S, s, k, f)
<1> DEFINE Bad == {j \in 1..Len(s) : ~ \E f : Flattens(S, s, j, f)}
<1>1. ASSUME NEW m \in Bad, \A j \in Bad : m <= j
      PROVE  FALSE
  <2>1. m \in 1..Len(s) /\ m \in Nat /\ s[m] \in Seq(S)
    BY ElementOfSeq
  <2>2. CASE m = 1
    <3> DEFINE g == [i \in 1..1 |-> s[i]]
    <3>1. \A i \in 1..1 : i = 1
      OBVIOUS
    <3>2. Flattens(S, s, 1, g)
      BY <2>1, <2>2, <3>1 DEF Flattens
    <3> QED
      BY <2>2, <3>2
  <2>3. CASE m # 1
    <3>1. m - 1 \in 1..Len(s) /\ ~(m <= m - 1)
      BY <2>1, <2>3
    <3>2. m - 1 \notin Bad
      <4> HIDE DEF Bad
      <4> QED
        BY <1>1, <3>1
    <3>3. PICK f : Flattens(S, s, m - 1, f)
      BY <3>1, <3>2
    <3> DEFINE g == [i \in 1..m |-> IF i = m THEN f[m - 1] \o s[m] ELSE f[i]]
    <3>4. /\ \A i \in 1..m : i # m => i \in 1..(m - 1)
          /\ \A i \in 1..m : i # 1 => i - 1 \in 1..(m - 1) /\ i - 1 \in 1..m /\ i - 1 # m
          /\ m - 1 \in 1..(m - 1)
      BY <2>1, <2>3
    <3>5. f[m - 1] \o s[m] \in Seq(S)
      BY <2>1, <3>3, <3>4, ConcatProperties DEF Flattens
    <3>6. g \in [1..m -> Seq(S)]
      BY <3>3, <3>4, <3>5 DEF Flattens
    <3>7. \A i \in 1..m : g[i] = IF i = m THEN f[m - 1] \o s[m] ELSE f[i]
      OBVIOUS
    <3> HIDE DEF g
    <3>8. ASSUME NEW i \in 1..m
          PROVE  g[i] = IF i = 1 THEN s[i] ELSE g[i - 1] \o s[i]
      <4>1. i # 1 => g[i - 1] = f[i - 1]
        BY <3>4, <3>7
      <4>2. CASE i = m
        BY <2>3, <3>7, <4>1, <4>2
      <4>3. CASE i # m
        <5>1. g[i] = f[i] /\ i \in 1..(m - 1)
          BY <3>4, <3>7, <4>3
        <5> QED
          BY <3>3, <4>1, <5>1 DEF Flattens
      <4> QED
        BY <4>2, <4>3
    <3>9. Flattens(S, s, m, g)
      BY <3>6, <3>8 DEF Flattens
    <3> QED
      BY <3>9
  <2> QED
    BY <2>2, <2>3
<1>2. Bad = {}
  <2>1. Bad \subseteq Nat
    OBVIOUS
  <2> HIDE DEF Bad
  <2> QED
    BY <1>1, <2>1, NatMinimum
<1> QED
  BY <1>2

\* FlattenSeq of the community modules joins what it has with the next sequence.
LEMMA FlattenIs ==
  ASSUME NEW S, NEW s \in Seq(Seq(S)), s # << >>
  PROVE  \E f : Flattens(S, s, Len(s), f) /\ FlattenSeq(s) = f[Len(s)]
<1>1. Len(s) \in Nat \ {0} /\ Len(s) \in 1..Len(s)
  BY EmptySeq
<1> DEFINE Is(f) == f = [i \in 1..Len(s) |-> IF i = 1 THEN s[i] ELSE f[i - 1] \o s[i]]
<1>2. FlattenSeq(s) = (CHOOSE f : Is(f))[Len(s)]
  BY <1>1 DEF FlattenSeq
<1>3. PICK g : Flattens(S, s, Len(s), g)
  BY <1>1, FlattensExist
<1>4. Is(g)
  BY <1>3 DEF Flattens
<1> DEFINE f == CHOOSE f : Is(f)
<1>5. Is(f)
  BY <1>4
<1>6. f = g
  <2> DEFINE Bad == {i \in 1..Len(s) : f[i] # g[i]}
  <2>1. ASSUME NEW m \in Bad, \A j \in Bad : m <= j
        PROVE  FALSE
    <3>1. m \in 1..Len(s) /\ m \in Nat /\ f[m] # g[m]
      OBVIOUS
    <3>2. m # 1 => m - 1 \in 1..Len(s) /\ ~(m <= m - 1)
      BY <3>1
    <3>3. m # 1 => f[m - 1] = g[m - 1]
      <4>1. m # 1 => m - 1 \notin Bad
        <5> HIDE DEF Bad
        <5> QED
          BY <2>1, <3>2
      <4> QED
        BY <3>2, <4>1
    <3>4. /\ f[m] = IF m = 1 THEN s[m] ELSE f[m - 1] \o s[m]
          /\ g[m] = IF m = 1 THEN s[m] ELSE g[m - 1] \o s[m]
      <4> HIDE DEF f
      <4> QED
        BY <1>4, <1>5, <3>1
    <3> HIDE DEF f
    <3> QED
      BY <3>1, <3>3, <3>4
  <2>2. Bad = {}
    <3> HIDE DEF f
    <3>1. Bad \subseteq Nat
      OBVIOUS
    <3> HIDE DEF Bad
    <3> QED
      BY <2>1, <3>1, NatMinimum
  <2>3. \A i \in 1..Len(s) : f[i] = g[i]
    BY <2>2
  <2>4. \A h : Is(h) => h = [i \in 1..Len(s) |-> h[i]]
    OBVIOUS
  <2>5. f = [i \in 1..Len(s) |-> f[i]] /\ g = [i \in 1..Len(s) |-> g[i]]
    <3> HIDE DEF Is, f
    <3> QED
      BY <1>4, <1>5, <2>4
  <2> HIDE DEF f
  <2> QED
    BY <2>3, <2>5
<1> QED
  BY <1>2, <1>3, <1>6

\* The sequences of s follow each other in t, that of place i from p[i].
Joins(S, s, t, p) ==
  /\ t \in Seq(S) /\ p \in [1..Len(s) -> Nat]
  /\ p[1] = 1 /\ Len(t) = p[Len(s)] + Len(s[Len(s)]) - 1
  /\ \A i \in 1..Len(s) : i + 1 \in 1..Len(s) => p[i + 1] = p[i] + Len(s[i])
  /\ \A i, j \in 1..Len(s) : i < j => p[i] + Len(s[i]) <= p[j]
  /\ \A i \in 1..Len(s) : \A k \in 1..Len(s[i]) :
       p[i] + k - 1 \in 1..Len(t) /\ t[p[i] + k - 1] = s[i][k]
  /\ \A j \in 1..Len(t) : \E i \in 1..Len(s) : \E k \in 1..Len(s[i]) : j = p[i] + k - 1

LEMMA FlattenJoins ==
  ASSUME NEW S, NEW s \in Seq(Seq(S)), s # << >>, \A i \in 1..Len(s) : s[i] # << >>
  PROVE  \E p : Joins(S, s, FlattenSeq(s), p)
<1> DEFINE n == Len(s)
<1>1. n \in Nat \ {0} /\ n \in 1..n /\ 1 \in 1..n
  BY EmptySeq
<1>2. \A i \in 1..n : s[i] \in Seq(S) /\ Len(s[i]) \in Nat \ {0}
  BY ElementOfSeq, EmptySeq
<1>3. PICK f : Flattens(S, s, n, f) /\ FlattenSeq(s) = f[n]
  BY <1>1, FlattenIs
<1> HIDE DEF n
<1>4. \A i \in 1..n : f[i] \in Seq(S) /\ Len(f[i]) \in Nat
  BY <1>3, LenProperties DEF Flattens
<1>5. \A i \in 1..n : i # 1 => i - 1 \in 1..n
  BY <1>1
<1> DEFINE z == [i \in 1..n |-> Len(s[i])]
           g == [i \in 1..n |-> Len(f[i])]
           p == [i \in 1..n |-> IF i = 1 THEN 1 ELSE g[i - 1] + 1]
<1>6. /\ z \in [1..n -> Nat \ {0}] /\ g \in [1..n -> Nat]
      /\ \A i \in 1..n : Len(s[i]) = z[i] /\ Len(f[i]) = g[i]
  BY <1>2, <1>4
<1> HIDE DEF z, g
<1>7. p \in [1..n -> Nat] /\ p[1] = 1 /\ \A i \in 1..n : i # 1 => p[i] = g[i - 1] + 1
  BY <1>1, <1>5, <1>6
<1> HIDE DEF p
<1>8. /\ f[1] = s[1]
      /\ \A m \in 1..n : m # 1 =>
           /\ g[m] = g[m - 1] + z[m]
           /\ \A j \in 1..(g[m - 1] + z[m]) :
                f[m][j] = IF j <= g[m - 1] THEN f[m - 1][j] ELSE s[m][j - g[m - 1]]
  <2>1. f[1] = s[1]
    BY <1>1, <1>3 DEF Flattens
  <2> SUFFICES ASSUME NEW m \in 1..n, m # 1
               PROVE  /\ g[m] = g[m - 1] + z[m]
                      /\ \A j \in 1..(g[m - 1] + z[m]) :
                           f[m][j] = IF j <= g[m - 1] THEN f[m - 1][j] ELSE s[m][j - g[m - 1]]
    BY <2>1
  <2>2. f[m] = f[m - 1] \o s[m] /\ m - 1 \in 1..n
    BY <1>3, <1>5 DEF Flattens
  <2>3. /\ f[m - 1] \in Seq(S) /\ s[m] \in Seq(S)
        /\ Len(f[m - 1]) = g[m - 1] /\ Len(s[m]) = z[m] /\ Len(f[m]) = g[m]
    BY <1>2, <1>4, <1>6, <2>2
  <2>4. \A u, v \in Seq(S) :
          /\ Len(u \o v) = Len(u) + Len(v)
          /\ \A j \in 1..(Len(u) + Len(v)) :
               (u \o v)[j] = IF j <= Len(u) THEN u[j] ELSE v[j - Len(u)]
    BY ConcatProperties
  <2>5. /\ Len(f[m]) = g[m - 1] + z[m]
        /\ \A j \in 1..(g[m - 1] + z[m]) :
             f[m][j] = IF j <= g[m - 1] THEN f[m - 1][j] ELSE s[m][j - g[m - 1]]
    <3> DEFINE u == f[m - 1]
               v == s[m]
    <3>1. f[m] = u \o v /\ u \in Seq(S) /\ v \in Seq(S) /\ Len(u) = g[m - 1] /\ Len(v) = z[m]
      BY <2>2, <2>3
    <3>2. \A j : u[j] = f[m - 1][j] /\ v[j] = s[m][j]
      OBVIOUS
    <3> HIDE DEF u, v
    <3>3. /\ Len(u \o v) = g[m - 1] + z[m]
          /\ \A j \in 1..(g[m - 1] + z[m]) :
               (u \o v)[j] = IF j <= g[m - 1] THEN u[j] ELSE v[j - g[m - 1]]
      BY <2>4, <3>1
    <3> QED
      BY <3>1, <3>2, <3>3
  <2> QED
    BY <2>3, <2>5
<1>9. \A i \in 1..n : g[i] = p[i] + z[i] - 1
  <2> SUFFICES ASSUME NEW i \in 1..n
               PROVE  g[i] = p[i] + z[i] - 1
    OBVIOUS
  <2>1. CASE i = 1
    <3>1. g[1] = z[1] /\ z[1] \in Nat
      BY <1>1, <1>6, <1>8
    <3> QED
      BY <1>7, <2>1, <3>1
  <2>2. CASE i # 1
    <3>1. g[i] = g[i - 1] + z[i] /\ p[i] = g[i - 1] + 1
      BY <1>7, <1>8, <2>2
    <3>2. g[i - 1] \in Nat /\ z[i] \in Nat
      BY <1>5, <1>6, <2>2
    <3> QED
      BY <3>1, <3>2
  <2> QED
    BY <2>1, <2>2
<1>10. \A i \in 1..n : i + 1 \in 1..n => p[i + 1] = p[i] + z[i]
  <2> SUFFICES ASSUME NEW i \in 1..n, i + 1 \in 1..n
               PROVE  p[i + 1] = p[i] + z[i]
    OBVIOUS
  <2>1. i + 1 # 1 /\ (i + 1) - 1 = i
    BY <1>1
  <2>2. p[i + 1] = g[i] + 1
    BY <1>7, <2>1
  <2>3. g[i] = p[i] + z[i] - 1 /\ z[i] \in Nat /\ p[i] \in Nat
    BY <1>6, <1>7, <1>9
  <2> QED
    BY <1>1, <2>2, <2>3
<1> DEFINE Good(m) ==
      /\ \A i \in 1..m : \A k \in 1..z[i] :
           p[i] + k - 1 \in 1..g[m] /\ f[m][p[i] + k - 1] = s[i][k]
      /\ \A j \in 1..g[m] : \E i \in 1..m : \E k \in 1..z[i] : j = p[i] + k - 1
<1>11. Good(1)
  <2>1. f[1] = s[1] /\ g[1] = z[1] /\ z[1] \in Nat
    BY <1>1, <1>6, <1>8
  <2>2. \A i \in 1..1 : i = 1
    OBVIOUS
  <2>3. \A k \in 1..z[1] : p[1] + k - 1 = k
    BY <1>7, <2>1
  <2>4. 1 \in 1..1
    OBVIOUS
  <2> QED
    BY <2>1, <2>2, <2>3, <2>4
<1>12. ASSUME NEW m \in 1..n, m # 1, Good(m - 1)
       PROVE  Good(m)
  <2>1. /\ m - 1 \in 1..n /\ p[m] = g[m - 1] + 1
        /\ g[m - 1] \in Nat /\ z[m] \in Nat /\ g[m] = g[m - 1] + z[m]
    BY <1>5, <1>6, <1>7, <1>8, <1>12
  <2>2. \A j \in 1..(g[m - 1] + z[m]) :
          f[m][j] = IF j <= g[m - 1] THEN f[m - 1][j] ELSE s[m][j - g[m - 1]]
    BY <1>8, <1>12
  <2>3. m \in 1..m /\ \A i \in 1..m : i # m => i \in 1..(m - 1)
    BY <1>1
  <2>4. ASSUME NEW i \in 1..m, NEW k \in 1..z[i]
        PROVE  p[i] + k - 1 \in 1..g[m] /\ f[m][p[i] + k - 1] = s[i][k]
    <3> DEFINE j == p[i] + k - 1
    <3>1. CASE i = m
      <4>1. j = g[m - 1] + k /\ k \in 1..z[m]
        BY <2>1, <3>1
      <4> HIDE DEF j
      <4>2. /\ j \in 1..(g[m - 1] + z[m]) /\ ~(j <= g[m - 1]) /\ j - g[m - 1] = k
        BY <2>1, <4>1
      <4>3. j \in 1..g[m] /\ f[m][j] = s[i][k]
        BY <2>1, <2>2, <3>1, <4>2
      <4> QED
        BY <4>3 DEF j
    <3>2. CASE i # m
      <4>1. i \in 1..(m - 1)
        BY <2>3, <3>2
      <4>2. j \in 1..g[m - 1] /\ f[m - 1][j] = s[i][k]
        BY <1>12, <4>1
      <4> HIDE DEF j
      <4>3. j \in 1..(g[m - 1] + z[m]) /\ j <= g[m - 1]
        BY <2>1, <4>2
      <4>4. j \in 1..g[m] /\ f[m][j] = s[i][k]
        BY <2>1, <2>2, <4>2, <4>3
      <4> QED
        BY <4>4 DEF j
    <3> QED
      BY <3>1, <3>2
  <2>5. ASSUME NEW j \in 1..g[m]
        PROVE  \E i \in 1..m : \E k \in 1..z[i] : j = p[i] + k - 1
    <3>1. CASE j <= g[m - 1]
      <4>1. j \in 1..g[m - 1]
        BY <2>1, <3>1
      <4>2. PICK i \in 1..(m - 1) : \E k \in 1..z[i] : j = p[i] + k - 1
        BY <1>12, <4>1
      <4>3. i \in 1..m
        OBVIOUS
      <4> QED
        BY <4>2, <4>3
    <3>2. CASE ~(j <= g[m - 1])
      <4> DEFINE a == g[m - 1]
      <4>2. a \in Nat /\ z[m] \in Nat /\ j \in 1..(a + z[m]) /\ ~(j <= a) /\ p[m] = a + 1
        BY <2>1, <3>2
      <4> HIDE DEF a
      <4>1. j - a \in 1..z[m] /\ j = p[m] + (j - a) - 1
        BY <4>2
      <4> QED
        BY <2>3, <4>1
    <3> QED
      BY <3>1, <3>2
  <2> QED
    BY <2>4, <2>5
<1>13. \A m \in 1..n : Good(m)
  <2> DEFINE Bad == {m \in 1..n : ~Good(m)}
  <2>1. ASSUME NEW m \in Bad, \A j \in Bad : m <= j
        PROVE  FALSE
    <3> HIDE DEF Good
    <3>1. m \in 1..n /\ m \in Nat /\ ~Good(m)
      BY <1>1
    <3>2. m # 1
      BY <1>11, <3>1
    <3>3. m - 1 \in 1..n /\ ~(m <= m - 1)
      BY <1>5, <3>1, <3>2
    <3>4. m - 1 \notin Bad
      <4> HIDE DEF Bad
      <4> QED
        BY <2>1, <3>3
    <3> QED
      BY <1>12, <3>1, <3>2, <3>3, <3>4
  <2>2. Bad \subseteq Nat
    BY <1>1
  <2>3. Bad = {}
    <3> HIDE DEF Bad
    <3> QED
      BY <2>1, <2>2, NatMinimum
  <2> HIDE DEF Good
  <2> QED
    BY <2>3
<1>14. ASSUME NEW i \in 1..n, NEW j \in 1..n, i < j
       PROVE  p[i] + z[i] <= p[j]
  <2>1. j # 1 /\ j - 1 \in 1..n /\ i \in 1..(j - 1) /\ z[i] \in 1..z[i]
    BY <1>1, <1>6, <1>14
  <2>2. p[i] + z[i] - 1 \in 1..g[j - 1]
    BY <1>13, <2>1
  <2>3. p[j] = g[j - 1] + 1 /\ p[i] \in Nat /\ z[i] \in Nat /\ g[j - 1] \in Nat
    BY <1>6, <1>7, <2>1
  <2> QED
    BY <2>2, <2>3
<1>15. Good(n)
  BY <1>1, <1>13
<1>16. f[n] \in Seq(S) /\ g[n] = p[n] + z[n] - 1
  BY <1>1, <1>4, <1>9
<1>17. \A i \in 1..n : Len(s[i]) = z[i]
  BY <1>6
<1>18. Len(f[n]) = g[n]
  BY <1>1, <1>6
<1>19. Joins(S, s, f[n], p)
  <2>1. \A i \in 1..n : \A k \in 1..Len(s[i]) :
          p[i] + k - 1 \in 1..Len(f[n]) /\ f[n][p[i] + k - 1] = s[i][k]
    BY <1>15, <1>17, <1>18
  <2>2. \A j \in 1..Len(f[n]) : \E i \in 1..n : \E k \in 1..Len(s[i]) : j = p[i] + k - 1
    <3> SUFFICES ASSUME NEW j \in 1..Len(f[n])
                 PROVE  \E i \in 1..n : \E k \in 1..Len(s[i]) : j = p[i] + k - 1
      OBVIOUS
    <3>1. PICK i \in 1..n : \E k \in 1..z[i] : j = p[i] + k - 1
      BY <1>15, <1>18
    <3> QED
      BY <1>17, <3>1
  <2>3. \A i \in 1..n : i + 1 \in 1..n => p[i + 1] = p[i] + Len(s[i])
    BY <1>10, <1>17
  <2>4. \A i, j \in 1..n : i < j => p[i] + Len(s[i]) <= p[j]
    BY <1>14, <1>17
  <2>5. Len(f[n]) = p[n] + Len(s[n]) - 1
    BY <1>1, <1>16, <1>17, <1>18
  <2> QED
    BY <1>7, <1>16, <2>1, <2>2, <2>3, <2>4, <2>5 DEF Joins, n
<1> QED
  BY <1>3, <1>19

\* t is r with e[i] inserted after each place i of X; p is where those of r are.
Threads(S, r, X, e, t, p) ==
  /\ t \in Seq(S) /\ p \in [1..Len(r) -> 1..Len(t)]
  /\ \A i \in 1..Len(r) : t[p[i]] = r[i]
  /\ \A i \in X : p[i] + 1 \in 1..Len(t) /\ t[p[i] + 1] = e[i]
  /\ \A i, j \in 1..Len(r) : i < j => p[i] < p[j] /\ (i \in X => p[i] + 1 < p[j])
  /\ \A j \in 1..Len(t) :
       (\E i \in 1..Len(r) : j = p[i]) \/ (\E i \in X : j = p[i] + 1)

Threading(r, X, e) ==
  FlattenSeq([i \in 1..Len(r) |-> <<r[i]>> \o (IF i \in X THEN <<e[i]>> ELSE << >>)])

LEMMA ThreadIs ==
  ASSUME NEW S, NEW r \in Seq(S), r # << >>,
         NEW X, X \subseteq 1..Len(r), NEW e, \A i \in X : e[i] \in S
  PROVE  \E p : Threads(S, r, X, e, Threading(r, X, e), p)
<1> DEFINE s == [i \in 1..Len(r) |-> <<r[i]>> \o (IF i \in X THEN <<e[i]>> ELSE << >>)]
           n == Len(r)
<1>1. n \in Nat \ {0} /\ 1 \in 1..n /\ \A i \in 1..n : r[i] \in S
  BY EmptySeq, ElementOfSeq
<1>2. ASSUME NEW i \in 1..n
      PROVE  /\ s[i] \in Seq(S) /\ Len(s[i]) = (IF i \in X THEN 2 ELSE 1)
             /\ s[i][1] = r[i] /\ (i \in X => s[i][2] = e[i])
  <2>1. r[i] \in S
    BY <1>1
  <2>2. CASE i \in X
    <3> DEFINE u == <<r[i]>>
               v == <<e[i]>>
    <3>1. s[i] = u \o v
      BY <2>2
    <3>2. u \in Seq(S) /\ v \in Seq(S) /\ Len(u) = 1 /\ Len(v) = 1 /\ u[1] = r[i] /\ v[1] = e[i]
      BY <2>1, <2>2
    <3> HIDE DEF s, u, v
    <3>3. /\ u \o v \in Seq(S) /\ Len(u \o v) = 1 + 1
          /\ \A k \in 1..(1 + 1) : (u \o v)[k] = IF k <= 1 THEN u[k] ELSE v[k - 1]
      <4>1. /\ u \o v \in Seq(S) /\ Len(u \o v) = Len(u) + Len(v)
            /\ \A k \in 1..(Len(u) + Len(v)) :
                 (u \o v)[k] = IF k <= Len(u) THEN u[k] ELSE v[k - Len(u)]
        BY <3>2, ConcatProperties
      <4> QED
        BY <3>2, <4>1
    <3>4. (u \o v)[1] = u[1] /\ (u \o v)[2] = v[1]
      <4>1. /\ 1 \in 1..(1 + 1) /\ 2 \in 1..(1 + 1)
            /\ 1 <= 1 /\ ~(2 <= 1) /\ 2 - 1 = 1
        OBVIOUS
      <4> QED
        BY <3>3, <4>1
    <3>5. s[i] \in Seq(S) /\ Len(s[i]) = 2 /\ s[i][1] = r[i] /\ s[i][2] = e[i]
      BY <3>1, <3>2, <3>3, <3>4
    <3> QED
      BY <2>2, <3>5
  <2>3. CASE i \notin X
    <3>1. s[i] = <<r[i]>>
      <4>1. <<r[i]>> \in Seq(S)
        BY <2>1
      <4>2. <<r[i]>> \o << >> = <<r[i]>>
        BY <4>1, ConcatEmptySeq
      <4> QED
        BY <2>3, <4>2
    <3> HIDE DEF s
    <3> QED
      BY <2>1, <2>3, <3>1
  <2> QED
    BY <2>2, <2>3
<1>3. s \in Seq(Seq(S)) /\ Len(s) = n
  BY <1>1, <1>2
<1>4. Threading(r, X, e) = FlattenSeq(s)
  BY DEF Threading
<1> HIDE DEF s
<1>5. s # << >> /\ \A i \in 1..Len(s) : s[i] # << >>
  <2>1. \A i \in 1..n : Len(s[i]) # 0
    BY <1>2
  <2> QED
    BY <1>1, <1>3, <2>1
<1>6. PICK p : Joins(S, s, FlattenSeq(s), p)
  BY <1>3, <1>5, FlattenJoins
<1> DEFINE t == FlattenSeq(s)
<1>7. /\ t \in Seq(S) /\ p \in [1..n -> Nat]
      /\ \A i, j \in 1..n : i < j => p[i] + Len(s[i]) <= p[j]
      /\ \A i \in 1..n : \A k \in 1..Len(s[i]) :
           p[i] + k - 1 \in 1..Len(t) /\ t[p[i] + k - 1] = s[i][k]
      /\ \A j \in 1..Len(t) : \E i \in 1..n : \E k \in 1..Len(s[i]) : j = p[i] + k - 1
  BY <1>3, <1>6 DEF Joins
<1> HIDE DEF t, n
<1>8. ASSUME NEW i \in 1..n
      PROVE  /\ p[i] \in 1..Len(t) /\ t[p[i]] = r[i] /\ p[i] \in Nat
             /\ i \in X => p[i] + 1 \in 1..Len(t) /\ t[p[i] + 1] = e[i]
  <2>1. p[i] \in Nat
    BY <1>7
  <2>2. p[i] + 1 - 1 = p[i] /\ p[i] + 2 - 1 = p[i] + 1
    BY <2>1
  <2>3. 1 \in 1..Len(s[i]) /\ (i \in X => 2 \in 1..Len(s[i]))
    BY <1>2
  <2>4. p[i] + 1 - 1 \in 1..Len(t) /\ t[p[i] + 1 - 1] = s[i][1]
    BY <1>7, <2>3
  <2>5. i \in X => p[i] + 2 - 1 \in 1..Len(t) /\ t[p[i] + 2 - 1] = s[i][2]
    BY <1>7, <2>3
  <2> QED
    BY <1>2, <2>1, <2>2, <2>4, <2>5
<1>9. ASSUME NEW i \in 1..n, NEW j \in 1..n, i < j
      PROVE  p[i] < p[j] /\ (i \in X => p[i] + 1 < p[j])
  <2>1. p[i] \in Nat /\ p[j] \in Nat /\ p[i] + Len(s[i]) <= p[j]
    BY <1>7, <1>9
  <2>2. CASE i \in X
    <3>1. p[i] + 2 <= p[j]
      BY <1>2, <2>1, <2>2
    <3> QED
      BY <2>1, <3>1
  <2>3. CASE i \notin X
    <3>1. p[i] + 1 <= p[j]
      BY <1>2, <2>1, <2>3
    <3> QED
      BY <2>1, <2>3, <3>1
  <2> QED
    BY <2>2, <2>3
<1>10. ASSUME NEW j \in 1..Len(t)
       PROVE  (\E i \in 1..n : j = p[i]) \/ (\E i \in X : j = p[i] + 1)
  <2>1. PICK i \in 1..n : \E k \in 1..Len(s[i]) : j = p[i] + k - 1
    BY <1>7
  <2>2. p[i] \in Nat
    BY <1>7
  <2>3. PICK k \in 1..Len(s[i]) : j = p[i] + k - 1
    BY <2>1
  <2>4. k \in Nat /\ (k = 1 \/ (k = 2 /\ i \in X))
    BY <1>2
  <2> QED
    BY <2>2, <2>3, <2>4
<1>11. p \in [1..n -> 1..Len(t)]
  BY <1>7, <1>8
<1>12. Threads(S, r, X, e, t, p)
  BY <1>7, <1>8, <1>9, <1>10, <1>11 DEF Threads, n
<1> QED
  BY <1>4, <1>12 DEF t
-----------------------------------------------------------------------------
(* Types and ownership *)

Objects == [kind : DOMAIN Profile, io : {"none", "own"}, loaded : SUBSET {"mcs", "hToS"}]
Luts3 == {"color", "gamut", "mcs"}

Types ==
  /\ src \in Spaces /\ dest \in Spaces /\ last \in Spaces
  /\ lastInput \in BOOLEAN /\ valid \in BOOLEAN /\ alive \in BOOLEAN
  /\ chain \in Seq(Xforms) /\ applied \in Seq(Xforms)
  /\ objs \in Seq(Objects) /\ Len(objs) <= MaxAdds
  /\ freed \in Seq({0, 1}) /\ Len(freed) = Len(objs)
  /\ begun \in 0..MaxBegins /\ lost \in Nat
  /\ applied # << >> => valid
  /\ ~alive => chain = << >>

\* In chain c, with d the deletions of each profile object: who uses an object ...
Uses(c, d) ==
  \A i \in DOMAIN c :
    IF c[i].kind = "pcs" THEN c[i].obj = 0
    ELSE c[i].obj \in DOMAIN d /\ d[c[i].obj] = 0
\* ... uses one that exists, and those that exist have one owner each.
OwnedBy(c, n) == {i \in DOMAIN c : c[i].obj = n /\ c[i].owns}
Owned(c, d) ==
  /\ Uses(c, d)
  /\ \A n \in DOMAIN d : d[n] = 0 => OwnedBy(c, n) # {}
  /\ \A n \in DOMAIN d : \A i, j \in OwnedBy(c, n) : i = j

\* Until Begin there are only profiles, each owned by its transform, ...
Fresh(c) == \A i \in DOMAIN c : c[i].kind = "profile" /\ c[i].owns
\* ... and the tags for the range conversion can be read.
Findable ==
  \A n \in DOMAIN objs :
    Profile[objs[n].kind].extended /\ Profile[objs[n].kind].hToS => TagFound(n, "hToS")
Unbegun == begun = 0 => ~valid /\ Fresh(chain) /\ Findable

IInv == Types /\ Owned(chain, freed) /\ Unbegun

LEMMA SpacesAre ==
  /\ Spaces = {"unknown", "none", "gamt", "RGB", "XYZ", "Lab", "CMYK", "MCS"}
  /\ Unknown \in Spaces /\ PcsSpaces \subseteq Spaces
BY DEF Spaces, Samples, Unknown, PcsSpaces

LEMMA HeaderIs ==
  ASSUME NEW k \in DOMAIN Profile
  PROVE  /\ Profile[k].class \in Classes /\ Profile[k].space \in Spaces
         /\ Profile[k].pcs \in Spaces
         /\ Profile[k].mcs \in BOOLEAN /\ Profile[k].extended \in BOOLEAN
         /\ Profile[k].hToS \in BOOLEAN
BY ProfileAssumption

LEMMA LutsAre ==
  ASSUME NEW k \in DOMAIN Profile
  PROVE  Luts(k) \subseteq Luts3
BY DEF Luts, Luts3

LEMMA CreatedIs ==
  ASSUME NEW n \in 1..MaxAdds, NEW k \in DOMAIN Profile, NEW lut \in Luts3, NEW input \in BOOLEAN
  PROVE  /\ Created(n, k, lut, input) \in Xforms
         /\ Created(n, k, lut, input).obj = n /\ Created(n, k, lut, input).owns
         /\ Created(n, k, lut, input).kind = "profile"
<1> DEFINE c == Created(n, k, lut, input)
           f == c.from
           t == c.to
           m == c.mcs
           in == c.input
           g == c.gamut
<1>1. c = [kind |-> "profile", obj |-> n, owns |-> TRUE, input |-> in, mcs |-> m,
           gamut |-> g, from |-> f, to |-> t]
  BY DEF Created
<1>2. m \in {"no", "to", "from"} /\ g \in BOOLEAN
  BY DEF Created
<1>3. in \in BOOLEAN
  BY DEF Created
<1>4. f \in Spaces
  BY HeaderIs, SpacesAre DEF Created
<1>5. t \in Spaces
  BY HeaderIs, SpacesAre DEF Created
<1>6. n \in 0..MaxAdds
  BY BoundsAssumption
<1> HIDE DEF c, f, t, m, in, g
<1> QED
  BY <1>1, <1>2, <1>3, <1>4, <1>5, <1>6 DEF Xforms, c

LEMMA LinksAre ==
  ASSUME Types, NEW k \in DOMAIN Profile, NEW lut \in Luts3
  PROVE  /\ LinkFrom(k, lut) \in Spaces /\ LinkTo(k, lut) \in Spaces
         /\ AsInput(k, lut) \in BOOLEAN
<1>1. LinkFrom(k, lut) \in Spaces
  BY HeaderIs, SpacesAre DEF LinkFrom, Luts3, Types
<1>2. LinkTo(k, lut) \in Spaces
  BY HeaderIs, SpacesAre DEF LinkTo, Luts3, Types
<1>3. AsInput(k, lut) \in BOOLEAN
  BY DEF AsInput
<1> QED
  BY <1>1, <1>2, <1>3

\* A refused profile was deleted: nobody owned it.
LEMMA RefusedOwned ==
  ASSUME NEW c, NEW d \in Seq({0, 1}), Owned(c, d)
  PROVE  Owned(c, Append(d, 1)) /\ Append(d, 1) \in Seq({0, 1})
<1> DEFINE m == Len(d)
           a == Append(d, 1)
<1>1. /\ m \in Nat /\ DOMAIN d = 1..m /\ DOMAIN a = 1..(m + 1) /\ a[m + 1] = 1
      /\ a \in Seq({0, 1}) /\ \A n \in 1..m : a[n] = d[n]
  OBVIOUS
<1>2. \A n \in 1..(m + 1) : n \in 1..m \/ n = m + 1
  BY <1>1
<1>3. \A n \in 1..m : n \in 1..(m + 1)
  BY <1>1
<1> HIDE DEF m, a
<1>4. Uses(c, a)
  BY <1>1, <1>3 DEF Owned, Uses
<1>5. OwnedBy(c, m + 1) = {}
  <2>1. m + 1 \notin 1..m /\ m + 1 # 0
    BY <1>1
  <2>2. \A i \in DOMAIN c : c[i].obj # m + 1
    BY <1>1, <2>1 DEF Owned, Uses
  <2> QED
    BY <2>2 DEF OwnedBy
<1>6. \A n \in DOMAIN a : a[n] = 0 => OwnedBy(c, n) # {}
  BY <1>1, <1>2 DEF Owned
<1>7. \A n \in DOMAIN a : \A i, j \in OwnedBy(c, n) : i = j
  BY <1>1, <1>2, <1>5 DEF Owned
<1> QED
  BY <1>1, <1>4, <1>6, <1>7 DEF Owned, a

\* The transform made of a new profile owns it.
LEMMA AddedOwned ==
  ASSUME NEW c \in Seq(Xforms), NEW d \in Seq({0, 1}), Owned(c, d),
         NEW x \in Xforms, x.kind = "profile", x.owns, x.obj = Len(d) + 1
  PROVE  Owned(Append(c, x), Append(d, 0)) /\ Append(d, 0) \in Seq({0, 1})
<1> DEFINE m == Len(d)
           a == Append(d, 0)
           l == Len(c)
           b == Append(c, x)
<1>1. /\ m \in Nat /\ DOMAIN d = 1..m /\ DOMAIN a = 1..(m + 1) /\ a[m + 1] = 0
      /\ a \in Seq({0, 1}) /\ \A n \in 1..m : a[n] = d[n]
  OBVIOUS
<1>2. /\ l \in Nat /\ DOMAIN c = 1..l /\ DOMAIN b = 1..(l + 1) /\ b[l + 1] = x
      /\ \A i \in 1..l : b[i] = c[i]
  OBVIOUS
<1>3. \A k \in Nat : /\ \A n \in 1..(k + 1) : n \in 1..k \/ n = k + 1
                     /\ \A n \in 1..k : n \in 1..(k + 1)
                     /\ k + 1 \in 1..(k + 1) /\ k + 1 \notin 1..k /\ k + 1 # 0
  OBVIOUS
<1>4. x.obj = m + 1
  OBVIOUS
<1> HIDE DEF m, a, l, b
<1>5. \A i \in 1..l : c[i].obj # m + 1
  BY <1>1, <1>2, <1>3 DEF Owned, Uses
<1>6. Uses(b, a)
  <2> SUFFICES ASSUME NEW i \in 1..(l + 1)
               PROVE  IF b[i].kind = "pcs" THEN b[i].obj = 0
                      ELSE b[i].obj \in DOMAIN a /\ a[b[i].obj] = 0
    BY <1>2 DEF Uses
  <2>1. CASE i = l + 1
    BY <1>1, <1>2, <1>3, <1>4, <2>1
  <2>2. CASE i \in 1..l
    <3>1. IF c[i].kind = "pcs" THEN c[i].obj = 0 ELSE c[i].obj \in 1..m /\ d[c[i].obj] = 0
      BY <1>1, <1>2, <2>2 DEF Owned, Uses
    <3> QED
      BY <1>1, <1>2, <1>3, <2>2, <3>1
  <2> QED
    BY <1>2, <1>3, <2>1, <2>2
<1>7. OwnedBy(b, m + 1) = {l + 1}
  <2>1. \A i \in 1..(l + 1) : b[i].obj = m + 1 /\ b[i].owns <=> i = l + 1
    BY <1>2, <1>3, <1>4, <1>5
  <2> QED
    BY <1>2, <1>3, <2>1 DEF OwnedBy
<1>8. ASSUME NEW n \in 1..m
      PROVE  OwnedBy(b, n) = OwnedBy(c, n)
  <2>1. n # m + 1
    BY <1>1, <1>3
  <2>2. \A i \in 1..(l + 1) : b[i].obj = n => i \in 1..l
    BY <1>2, <1>3, <1>4, <2>1
  <2> QED
    BY <1>2, <1>3, <2>2 DEF OwnedBy
<1>9. \A n \in DOMAIN a : a[n] = 0 => OwnedBy(b, n) # {}
  BY <1>1, <1>3, <1>7, <1>8 DEF Owned
<1>10. \A n \in DOMAIN a : \A i, j \in OwnedBy(b, n) : i = j
  BY <1>1, <1>3, <1>7, <1>8 DEF Owned
<1> QED
  BY <1>1, <1>6, <1>9, <1>10 DEF Owned, a, b

\* Conversions own no profile, but may use that of the transform before.
Ownerless(c, X, e) ==
  \A i \in X : \/ e[i].kind = "pcs" /\ e[i].obj = 0
               \/ /\ e[i].kind # "pcs" /\ ~e[i].owns
                  /\ c[i].kind # "pcs" /\ e[i].obj = c[i].obj
LEMMA ThreadOwned ==
  ASSUME NEW c \in Seq(Xforms), NEW d \in Seq({0, 1}), Owned(c, d),
         NEW X, NEW e, NEW t, NEW p, Threads(Xforms, c, X, e, t, p), X \subseteq 1..Len(c),
         Ownerless(c, X, e)
  PROVE  Owned(t, d)
<1>1. DOMAIN c = 1..Len(c) /\ DOMAIN t = 1..Len(t) /\ 0 \notin DOMAIN d
  BY DEF Threads
<1>2. \A j \in 1..Len(t) :
        (\E i \in 1..Len(c) : j = p[i]) \/ (\E i \in X : j = p[i] + 1)
  BY DEF Threads
<1>3. \A i \in 1..Len(c) : p[i] \in 1..Len(t) /\ t[p[i]] = c[i]
  BY DEF Threads
<1>4. \A i \in X : i \in 1..Len(c) /\ t[p[i] + 1] = e[i]
  BY DEF Threads
<1>5. Uses(t, d)
  <2> SUFFICES ASSUME NEW j \in 1..Len(t)
               PROVE  IF t[j].kind = "pcs" THEN t[j].obj = 0
                      ELSE t[j].obj \in DOMAIN d /\ d[t[j].obj] = 0
    BY <1>1 DEF Uses
  <2>1. \A i \in 1..Len(c) : IF c[i].kind = "pcs" THEN c[i].obj = 0
                             ELSE c[i].obj \in DOMAIN d /\ d[c[i].obj] = 0
    BY <1>1 DEF Owned, Uses
  <2>2. CASE \E i \in 1..Len(c) : j = p[i]
    BY <1>3, <2>1, <2>2
  <2>3. CASE \E i \in X : j = p[i] + 1
    <3>1. PICK i \in X : j = p[i] + 1
      BY <2>3
    <3>2. t[j] = e[i]
      BY <1>4, <3>1
    <3>3. \/ e[i].kind = "pcs" /\ e[i].obj = 0
          \/ e[i].kind # "pcs" /\ c[i].kind # "pcs" /\ e[i].obj = c[i].obj
      BY DEF Ownerless
    <3> QED
      BY <1>4, <2>1, <3>2, <3>3
  <2> QED
    BY <1>2, <2>2, <2>3
<1>6. ASSUME NEW n \in DOMAIN d
      PROVE  /\ \A i \in OwnedBy(c, n) : p[i] \in OwnedBy(t, n)
             /\ \A j \in OwnedBy(t, n) : \E i \in OwnedBy(c, n) : j = p[i]
  <2>1. \A i \in OwnedBy(c, n) : p[i] \in OwnedBy(t, n)
    BY <1>1, <1>3 DEF OwnedBy
  <2>2. ASSUME NEW j \in OwnedBy(t, n)
        PROVE  \E i \in OwnedBy(c, n) : j = p[i]
    <3>1. j \in 1..Len(t) /\ t[j].obj = n /\ t[j].owns /\ n # 0
      BY <1>1 DEF OwnedBy
    <3>2. ~\E i \in X : j = p[i] + 1
      <4> SUFFICES ASSUME NEW i \in X, j = p[i] + 1
                   PROVE  FALSE
        OBVIOUS
      <4>1. t[j] = e[i]
        BY <1>4
      <4>2. \/ e[i].obj = 0
            \/ ~e[i].owns
        BY DEF Ownerless
      <4> QED
        BY <3>1, <4>1, <4>2
    <3>3. PICK i \in 1..Len(c) : j = p[i]
      BY <1>2, <3>1, <3>2
    <3>4. i \in OwnedBy(c, n)
      BY <1>1, <1>3, <3>1, <3>3 DEF OwnedBy
    <3> QED
      BY <3>3, <3>4
  <2> QED
    BY <2>1, <2>2
<1>7. \A n \in DOMAIN d : d[n] = 0 => OwnedBy(t, n) # {}
  BY <1>6 DEF Owned
<1>8. \A n \in DOMAIN d : \A i, j \in OwnedBy(t, n) : i = j
  <2> SUFFICES ASSUME NEW n \in DOMAIN d, NEW i \in OwnedBy(t, n), NEW j \in OwnedBy(t, n)
               PROVE  i = j
    OBVIOUS
  <2>1. PICK u \in OwnedBy(c, n) : i = p[u]
    BY <1>6
  <2>2. PICK v \in OwnedBy(c, n) : j = p[v]
    BY <1>6
  <2> QED
    BY <2>1, <2>2 DEF Owned
<1> QED
  BY <1>5, <1>7, <1>8 DEF Owned

LEMMA PrefixIs ==
  ASSUME NEW S, NEW x \in S, NEW c \in Seq(S)
  PROVE  /\ <<x>> \o c \in Seq(S) /\ Len(<<x>> \o c) = Len(c) + 1 /\ (<<x>> \o c)[1] = x
         /\ \A i \in 1..Len(c) : (<<x>> \o c)[i + 1] = c[i]
         /\ \A j \in 1..(Len(c) + 1) : j = 1 \/ \E i \in 1..Len(c) : j = i + 1
<1> DEFINE u == <<x>>
<1>1. u \in Seq(S) /\ Len(u) = 1 /\ u[1] = x /\ Len(c) \in Nat
  OBVIOUS
<1> HIDE DEF u
<1>2. /\ u \o c \in Seq(S) /\ Len(u \o c) = Len(u) + Len(c)
      /\ \A i \in 1..(Len(u) + Len(c)) :
           (u \o c)[i] = IF i <= Len(u) THEN u[i] ELSE c[i - Len(u)]
  BY <1>1, ConcatProperties
<1>3. /\ Len(u \o c) = Len(c) + 1
      /\ \A i \in 1..(Len(c) + 1) : (u \o c)[i] = IF i <= 1 THEN u[i] ELSE c[i - 1]
  BY <1>1, <1>2
<1>4. (u \o c)[1] = x
  BY <1>1, <1>3
<1>5. ASSUME NEW i \in 1..Len(c)
      PROVE  (u \o c)[i + 1] = c[i]
  <2>1. i + 1 \in 1..(Len(c) + 1) /\ ~(i + 1 <= 1) /\ (i + 1) - 1 = i
    BY <1>1
  <2> QED
    BY <1>3, <2>1
<1>6. ASSUME NEW j \in 1..(Len(c) + 1)
      PROVE  j = 1 \/ \E i \in 1..Len(c) : j = i + 1
  <2>1. j # 1 => j - 1 \in 1..Len(c) /\ j = (j - 1) + 1
    BY <1>1
  <2> QED
    BY <2>1
<1> QED
  BY <1>2, <1>3, <1>4, <1>5, <1>6 DEF u

LEMMA PrefixOwned ==
  ASSUME NEW x \in Xforms, x.kind = "pcs", x.obj = 0,
         NEW c \in Seq(Xforms), NEW d \in Seq({0, 1}), Owned(c, d)
  PROVE  Owned(<<x>> \o c, d)
<1> DEFINE b == <<x>> \o c
           l == Len(c)
<1>1. /\ l \in Nat /\ DOMAIN c = 1..l /\ DOMAIN b = 1..(l + 1) /\ 0 \notin DOMAIN d
      /\ b[1] = x /\ \A i \in 1..l : b[i + 1] = c[i] /\ i + 1 \in 1..(l + 1)
  BY PrefixIs
<1>2. \A j \in 1..(l + 1) : j = 1 \/ \E i \in 1..l : j = i + 1
  BY PrefixIs
<1> HIDE DEF b, l
<1>3. Uses(b, d)
  <2> SUFFICES ASSUME NEW j \in 1..(l + 1)
               PROVE  IF b[j].kind = "pcs" THEN b[j].obj = 0
                      ELSE b[j].obj \in DOMAIN d /\ d[b[j].obj] = 0
    BY <1>1 DEF Uses
  <2>1. CASE j = 1
    BY <1>1, <2>1
  <2>2. ASSUME NEW i \in 1..l, j = i + 1
        PROVE  IF b[j].kind = "pcs" THEN b[j].obj = 0
               ELSE b[j].obj \in DOMAIN d /\ d[b[j].obj] = 0
    <3>1. b[j] = c[i]
      BY <1>1, <2>2
    <3>2. IF c[i].kind = "pcs" THEN c[i].obj = 0 ELSE c[i].obj \in DOMAIN d /\ d[c[i].obj] = 0
      BY <1>1 DEF Owned, Uses
    <3> QED
      BY <3>1, <3>2
  <2> QED
    BY <1>2, <2>1, <2>2
<1>4. ASSUME NEW n \in DOMAIN d
      PROVE  /\ \A i \in OwnedBy(c, n) : i + 1 \in OwnedBy(b, n)
             /\ \A j \in OwnedBy(b, n) : \E i \in OwnedBy(c, n) : j = i + 1
  <2>1. \A i \in OwnedBy(c, n) : i + 1 \in OwnedBy(b, n)
    BY <1>1 DEF OwnedBy
  <2>2. ASSUME NEW j \in OwnedBy(b, n)
        PROVE  \E i \in OwnedBy(c, n) : j = i + 1
    <3>1. j \in 1..(l + 1) /\ b[j].obj = n /\ b[j].owns /\ j # 1
      BY <1>1 DEF OwnedBy
    <3>2. PICK i \in 1..l : j = i + 1
      BY <1>2, <3>1
    <3> QED
      BY <1>1, <3>1, <3>2 DEF OwnedBy
  <2> QED
    BY <2>1, <2>2
<1>5. \A n \in DOMAIN d : d[n] = 0 => OwnedBy(b, n) # {}
  BY <1>4 DEF Owned
<1>6. \A n \in DOMAIN d : \A i, j \in OwnedBy(b, n) : i = j
  <2> SUFFICES ASSUME NEW n \in DOMAIN d, NEW i \in OwnedBy(b, n), NEW j \in OwnedBy(b, n)
               PROVE  i = j
    OBVIOUS
  <2>1. PICK u \in OwnedBy(c, n) : i = u + 1
    BY <1>4
  <2>2. PICK v \in OwnedBy(c, n) : j = v + 1
    BY <1>4
  <2> QED
    BY <2>1, <2>2 DEF Owned
<1> QED
  BY <1>3, <1>5, <1>6 DEF Owned, b

\* The last transform is created again from the same profile.
LEMMA JoinedIs ==
  ASSUME IInv, begun = 0, NEW k \in DOMAIN Profile, NEW lut \in Luts3
  PROVE  /\ Joined(k, lut) \in Seq(Xforms) /\ Owned(Joined(k, lut), freed)
         /\ Fresh(Joined(k, lut))
         /\ \A i \in DOMAIN Joined(k, lut) :
              /\ i \in DOMAIN chain
              /\ Joined(k, lut)[i] = chain[i] \/ Joined(k, lut)[i] = Converted(chain[i])
<1>1. /\ chain \in Seq(Xforms) /\ Owned(chain, freed) /\ Fresh(chain)
      /\ freed \in Seq({0, 1}) /\ objs \in Seq(Objects) /\ Len(freed) = Len(objs)
      /\ Len(objs) <= MaxAdds /\ Len(objs) \in Nat
  BY LenProperties DEF IInv, Types, Unbegun
<1>2. CASE ~JoinsByMcs(k, lut)
  BY <1>1, <1>2 DEF Joined
<1>3. CASE JoinsByMcs(k, lut)
  <2> DEFINE l == Len(chain)
             x == Last(chain)
             y == Converted(x)
             j == Joined(k, lut)
  <2>1. /\ l \in Nat \ {0} /\ l \in 1..l /\ x = chain[l] /\ x \in Xforms
        /\ DOMAIN chain = 1..l
    <3>1. chain # << >>
      BY <1>3 DEF JoinsByMcs
    <3>2. l \in Nat \ {0} /\ DOMAIN chain = 1..l
      BY <1>1, <3>1, EmptySeq, LenProperties
    <3>3. l \in 1..l /\ x = chain[l]
      BY <3>2 DEF Last
    <3> QED
      BY <1>1, <3>2, <3>3, ElementOfSeq
  <2> HIDE DEF x
  <2>2. x.kind = "profile" /\ x.owns /\ x.obj \in 1..Len(objs) /\ x.input \in BOOLEAN
    <3>1. x.kind = "profile" /\ x.owns
      BY <1>1, <2>1 DEF Fresh
    <3>2. x.obj \in DOMAIN freed
      BY <1>1, <2>1, <3>1 DEF Owned, Uses
    <3>3. DOMAIN freed = 1..Len(objs)
      BY <1>1, LenProperties
    <3> QED
      BY <2>1, <3>1, <3>2, <3>3 DEF Xforms
  <2>3. y \in Xforms /\ y.obj = x.obj /\ y.owns /\ y.kind = "profile"
    <3>1. x.obj \in 1..MaxAdds
      BY <1>1, <2>2, BoundsAssumption
    <3>2. objs[x.obj] \in Objects
      BY <1>1, <2>2, ElementOfSeq
    <3>3. objs[x.obj].kind \in DOMAIN Profile /\ "mcs" \in Luts3
      BY <3>2 DEF Objects, Luts3
    <3> QED
      BY <2>2, <3>1, <3>3, CreatedIs DEF Converted
  <2> HIDE DEF y
  <2> DEFINE front == Front(chain)
  <2>4. /\ front \in Seq(Xforms) /\ Len(front) = l - 1
        /\ \A i \in 1..(l - 1) : front[i] = chain[i]
    <3>1. /\ \A i \in 1..(l - 1) : chain[i] \in Xforms
          /\ 1 \in Int /\ l - 1 \in Int
      BY <1>1, <2>1, ElementOfSeq
    <3>2. /\ SubSeq(chain, 1, l - 1) \in Seq(Xforms)
          /\ Len(SubSeq(chain, 1, l - 1)) = IF 1 <= l - 1 THEN l - 1 - 1 + 1 ELSE 0
          /\ \A i \in 1..(l - 1 - 1 + 1) : SubSeq(chain, 1, l - 1)[i] = chain[1 + i - 1]
      BY <3>1, SubSeqProperties
    <3>3. /\ l - 1 - 1 + 1 = l - 1 /\ (~(1 <= l - 1) => l - 1 = 0)
          /\ \A i \in 1..(l - 1) : 1 + i - 1 = i
      BY <2>1
    <3> QED
      BY <3>2, <3>3 DEF Front
  <2> HIDE DEF front
  <2>5. j = front \o <<y>>
    BY <1>3 DEF Joined, y, x, front
  <2> HIDE DEF j
  <2>6. /\ j \in Seq(Xforms) /\ Len(j) = l /\ j[l] = y
        /\ \A i \in 1..l : i # l => j[i] = chain[i]
    <3> DEFINE u == <<y>>
    <3>1. u \in Seq(Xforms) /\ Len(u) = 1 /\ u[1] = y
      BY <2>3
    <3> HIDE DEF u, l
    <3>2. /\ front \o u \in Seq(Xforms) /\ Len(front \o u) = Len(front) + Len(u)
          /\ \A i \in 1..(Len(front) + Len(u)) :
               (front \o u)[i] = IF i <= Len(front) THEN front[i] ELSE u[i - Len(front)]
      BY <2>4, <3>1, ConcatProperties
    <3>3. /\ Len(front \o u) = l
          /\ \A i \in 1..l : (front \o u)[i] = IF i <= l - 1 THEN front[i] ELSE u[i - (l - 1)]
      BY <2>1, <2>4, <3>1, <3>2
    <3>4. /\ l \in 1..l /\ ~(l <= l - 1) /\ l - (l - 1) = 1
          /\ \A i \in 1..l : i # l => i <= l - 1 /\ i \in 1..(l - 1)
      BY <2>1
    <3>5. j = front \o u
      BY <2>5 DEF u
    <3>6. j \in Seq(Xforms) /\ Len(j) = l
      BY <3>2, <3>3, <3>5
    <3>7. j[l] = y
      BY <3>1, <3>3, <3>4, <3>5
    <3>8. \A i \in 1..l : i # l => j[i] = chain[i]
      BY <2>4, <3>3, <3>4, <3>5
    <3> QED
      BY <3>6, <3>7, <3>8
  <2>7. DOMAIN j = 1..l /\ DOMAIN chain = 1..l
    BY <2>1, <2>6, LenProperties
  <2> HIDE DEF l
  <2>8. Fresh(j)
    BY <1>1, <2>3, <2>6, <2>7 DEF Fresh
  <2>9. Uses(j, freed)
    <3> SUFFICES ASSUME NEW i \in 1..l
                 PROVE  j[i].kind # "pcs" /\ j[i].obj \in DOMAIN freed /\ freed[j[i].obj] = 0
      BY <2>7 DEF Uses
    <3>1. \A h \in 1..l : chain[h].kind # "pcs" /\ chain[h].obj \in DOMAIN freed /\ freed[chain[h].obj] = 0
      BY <1>1, <2>7 DEF Owned, Uses, Fresh
    <3> QED
      BY <2>1, <2>3, <2>6, <3>1
  <2>10. \A n : OwnedBy(j, n) = OwnedBy(chain, n)
    <3>1. \A i \in 1..l : j[i].obj = chain[i].obj /\ j[i].owns /\ chain[i].owns
      BY <1>1, <2>1, <2>2, <2>3, <2>6, <2>7 DEF Fresh
    <3> QED
      BY <2>7, <3>1 DEF OwnedBy
  <2>11. Owned(j, freed)
    BY <1>1, <2>9, <2>10 DEF Owned
  <2>12. \A i \in DOMAIN j : i \in DOMAIN chain /\ (j[i] = chain[i] \/ j[i] = Converted(chain[i]))
    BY <2>1, <2>6, <2>7 DEF y
  <2> QED
    <3>1. j \in Seq(Xforms) /\ Owned(j, freed) /\ Fresh(j)
      BY <2>6, <2>8, <2>11
    <3> QED
      BY <2>12, <3>1 DEF j
<1> QED
  BY <1>2, <1>3
-----------------------------------------------------------------------------
(* The steps *)

LEMMA InitIsGood == Init => IInv
<1> SUFFICES ASSUME Init
             PROVE  IInv
  OBVIOUS
<1>1. Types
  <2>1. src \in Spaces /\ dest \in Spaces /\ last \in Spaces
    BY BoundsAssumption DEF Init
  <2>2. begun \in 0..MaxBegins /\ lost \in Nat
    BY BoundsAssumption DEF Init
  <2>3. /\ << >> \in Seq(Xforms) /\ << >> \in Seq(Objects) /\ << >> \in Seq({0, 1})
        /\ Len(<< >>) = 0 /\ 0 <= MaxAdds
    BY BoundsAssumption
  <2> QED
    BY <2>1, <2>2, <2>3 DEF Init, Types
<1>2. DOMAIN chain = {} /\ DOMAIN freed = {} /\ DOMAIN objs = {}
  BY DEF Init
<1>3. Owned(chain, freed)
  BY <1>2 DEF Owned, Uses
<1>4. Unbegun
  BY <1>2 DEF Unbegun, Fresh, Findable, Init
<1> QED
  BY <1>1, <1>3, <1>4 DEF IInv

\* The object of a profile that is handed over.
LEMMA AddedIs ==
  ASSUME NEW k \in DOMAIN Profile, NEW way \in Ways, NEW lut \in Luts3
  PROVE  /\ Added(k, way, lut) \in Objects /\ Added(k, way, lut).kind = k
         /\ Profile[k].extended /\ Profile[k].hToS =>
              "hToS" \in Added(k, way, lut).loaded \/ Added(k, way, lut).io = "own"
<1>1. Tags(k) \subseteq {"mcs", "hToS"} /\ (Profile[k].hToS => "hToS" \in Tags(k))
  BY DEF Tags
<1>2. Loaded(k, way, lut) \subseteq {"mcs", "hToS"}
  BY <1>1 DEF Loaded
<1>3. CASE way = "opened"
  BY <1>2, <1>3 DEF Added, Objects
<1>4. CASE way = "read"
  <2>1. Profile[k].hToS => "hToS" \in Loaded(k, way, lut)
    BY <1>1, <1>4 DEF Loaded
  <2> QED
    BY <1>2, <1>4, <2>1 DEF Added, Objects
<1>5. CASE way = "borrowed"
  <2>1. Profile[k].extended /\ Profile[k].hToS => "hToS" \in Loaded(k, way, lut)
    BY <1>1, <1>5 DEF Loaded, Preloaded
  <2> QED
    BY <1>2, <1>5, <2>1 DEF Added, Objects
<1> QED
  BY <1>3, <1>4, <1>5 DEF Ways

LEMMA FindableKept ==
  ASSUME IInv, begun = 0, NEW k \in DOMAIN Profile, NEW way \in Ways, NEW lut \in Luts3,
         objs' = Append(objs, Added(k, way, lut)), MayAdd
  PROVE  /\ Findable' /\ objs' \in Seq(Objects) /\ Len(objs') = Len(objs) + 1
         /\ Len(objs') <= MaxAdds
<1> DEFINE m == Len(objs)
           new == Added(k, way, lut)
<1>1. m \in Nat /\ DOMAIN objs = 1..m /\ m < MaxAdds /\ objs \in Seq(Objects)
  BY LenProperties DEF IInv, Types, MayAdd
<1>2. /\ new \in Objects /\ new.kind = k
      /\ Profile[k].extended /\ Profile[k].hToS => "hToS" \in new.loaded \/ new.io = "own"
  BY AddedIs
<1> HIDE DEF new
<1>3. /\ objs' \in Seq(Objects) /\ Len(objs') = m + 1 /\ DOMAIN objs' = 1..(m + 1)
      /\ objs'[m + 1] = new /\ \A n \in 1..m : objs'[n] = objs[n]
  BY <1>1, <1>2 DEF new
<1> HIDE DEF m
<1>4. m + 1 <= MaxAdds /\ \A n \in 1..(m + 1) : n \in 1..m \/ n = m + 1
  BY <1>1, BoundsAssumption
<1>5. ASSUME NEW n \in 1..(m + 1), Profile[objs'[n].kind].extended, Profile[objs'[n].kind].hToS
      PROVE  "hToS" \in objs'[n].loaded \/ objs'[n].io = "own"
  <2>1. CASE n = m + 1
    BY <1>2, <1>3, <1>5, <2>1
  <2>2. CASE n \in 1..m
    <3>1. objs'[n] = objs[n]
      BY <1>3, <2>2
    <3>2. Findable
      BY DEF IInv, Unbegun
    <3> QED
      BY <1>1, <1>5, <2>2, <3>1, <3>2 DEF Findable, TagFound
  <2> QED
    BY <1>4, <2>1, <2>2
<1>6. Findable'
  BY <1>3, <1>5 DEF Findable, TagFound
<1> QED
  BY <1>3, <1>4, <1>6 DEF m

LEMMA AddStep ==
  ASSUME IInv, NEW k \in DOMAIN Profile, NEW way \in Ways, NEW lut \in Luts(k),
         AddXform(k, way, lut)
  PROVE  IInv'
<1>1. lut \in Luts3 /\ begun = 0 /\ MayAdd /\ alive /\ ~valid
  BY LutsAre DEF AddXform, MayAdd, IInv, Unbegun
<1>2. /\ Findable' /\ objs' \in Seq(Objects) /\ Len(objs') = Len(objs) + 1
      /\ Len(objs') <= MaxAdds
  BY <1>1, FindableKept DEF AddXform
<1>3. /\ Joined(k, lut) \in Seq(Xforms) /\ Owned(Joined(k, lut), freed)
      /\ Fresh(Joined(k, lut))
  BY <1>1, JoinedIs
<1> DEFINE j == Joined(k, lut)
           x == Created(Len(objs) + 1, k, lut, AsInput(k, lut))
<1>4. Len(objs) \in Nat /\ Len(objs) + 1 \in 1..MaxAdds /\ Len(freed) = Len(objs)
  BY <1>1, LenProperties, BoundsAssumption DEF IInv, Types, MayAdd
<1>5. IInv => Types
  BY DEF IInv
<1>6. /\ LinkFrom(k, lut) \in Spaces /\ LinkTo(k, lut) \in Spaces
      /\ AsInput(k, lut) \in BOOLEAN
  BY <1>1, <1>5, LinksAre
<1>7. x \in Xforms /\ x.kind = "profile" /\ x.owns /\ x.obj = Len(freed) + 1
  BY <1>1, <1>4, <1>6, CreatedIs
<1>8. chain' = Append(j, x)
  BY DEF AddXform
<1> HIDE DEF j, x
<1>9. freed \in Seq({0, 1}) /\ freed' = Append(freed, 0)
  BY DEF IInv, Types, AddXform
<1>10. /\ Owned(chain', freed') /\ freed' \in Seq({0, 1})
       /\ Len(freed') = Len(objs')
  <2>1. Owned(chain', freed') /\ freed' \in Seq({0, 1})
    BY <1>3, <1>7, <1>8, <1>9, AddedOwned DEF j
  <2>2. Len(freed') = Len(freed) + 1
    BY <1>9
  <2> QED
    BY <1>2, <1>4, <2>1, <2>2
<1>11. chain' \in Seq(Xforms) /\ Fresh(chain')
  <2>1. j \in Seq(Xforms) /\ Fresh(j)
    BY <1>3 DEF j
  <2> QED
    BY <1>7, <1>8, <2>1 DEF Fresh
<1>12. src' \in Spaces
  BY <1>6 DEF AddXform, FirstEnds, IInv, Types
<1>13. Types'
  BY <1>1, <1>2, <1>6, <1>10, <1>11, <1>12 DEF AddXform, IInv, Types
<1>14. Unbegun'
  BY <1>1, <1>2, <1>11 DEF AddXform, Unbegun
<1> QED
  BY <1>10, <1>13, <1>14 DEF IInv

LEMMA RefusedStep ==
  ASSUME IInv, NEW k \in DOMAIN Profile, NEW way \in Ways, NEW lut \in Luts(k),
         AddXformRefused(k, way, lut)
  PROVE  IInv'
<1>1. lut \in Luts3 /\ begun = 0 /\ MayAdd /\ alive /\ ~valid /\ Types
  BY LutsAre DEF AddXformRefused, MayAdd, IInv, Unbegun
<1>2. /\ Findable' /\ objs' \in Seq(Objects) /\ Len(objs') = Len(objs) + 1
      /\ Len(objs') <= MaxAdds
  BY <1>1, FindableKept DEF AddXformRefused
<1>3. /\ chain' \in Seq(Xforms) /\ Owned(chain', freed) /\ Fresh(chain')
  <2>1. chain' = chain \/ chain' = Joined(k, lut)
    BY DEF AddXformRefused, ChainRefused
  <2>2. /\ Joined(k, lut) \in Seq(Xforms) /\ Owned(Joined(k, lut), freed)
        /\ Fresh(Joined(k, lut))
    BY <1>1, JoinedIs
  <2>3. chain \in Seq(Xforms) /\ Owned(chain, freed) /\ Fresh(chain)
    BY <1>1 DEF IInv, Types, Unbegun
  <2> QED
    BY <2>1, <2>2, <2>3
<1>4. freed \in Seq({0, 1}) /\ freed' = Append(freed, 1) /\ Len(freed) = Len(objs)
  BY DEF IInv, Types, AddXformRefused
<1>5. /\ Owned(chain', freed') /\ freed' \in Seq({0, 1})
      /\ Len(freed') = Len(objs')
  <2>1. Owned(chain', freed') /\ freed' \in Seq({0, 1})
    BY <1>3, <1>4, RefusedOwned
  <2>2. Len(freed') = Len(freed) + 1
    BY <1>4
  <2> QED
    BY <1>2, <1>4, <2>1, <2>2
<1>6. src' \in Spaces /\ last' \in Spaces
  <2>1. LinkFrom(k, lut) \in Spaces
    BY <1>1, LinksAre
  <2>2. src \in Spaces /\ last \in Spaces
    BY <1>1 DEF Types
  <2> QED
    BY <2>1, <2>2 DEF AddXformRefused, FirstEnds
<1>7. Types'
  BY <1>1, <1>2, <1>3, <1>5, <1>6 DEF AddXformRefused, Types
<1>8. Unbegun'
  BY <1>1, <1>2, <1>3 DEF AddXformRefused, Unbegun
<1> QED
  BY <1>5, <1>7, <1>8 DEF IInv
-----------------------------------------------------------------------------
(* What Begin inserts *)

\* A transform of the chain that is no PCS transform uses a profile.
LEMMA UsedProfile ==
  ASSUME Types, NEW r \in Seq(Xforms), Owned(r, freed), NEW i \in 1..Len(r), r[i].kind # "pcs"
  PROVE  /\ r[i].obj \in DOMAIN objs /\ objs[r[i].obj] \in Objects
         /\ objs[r[i].obj].kind \in DOMAIN Profile
<1>1. DOMAIN freed = DOMAIN objs /\ DOMAIN r = 1..Len(r)
  BY LenProperties DEF Types
<1>2. r[i].obj \in DOMAIN objs
  BY <1>1 DEF Owned, Uses
<1>3. objs[r[i].obj] \in Objects
  BY <1>2, ElementOfSeq, LenProperties DEF Types
<1> QED
  BY <1>2, <1>3 DEF Objects

LEMMA XformFields ==
  ASSUME NEW x \in Xforms
  PROVE  /\ x.kind \in {"profile", "hToS", "pcs"} /\ x.obj \in 0..MaxAdds
         /\ x.owns \in BOOLEAN /\ x.input \in BOOLEAN /\ x.mcs \in {"no", "to", "from"}
         /\ x.gamut \in BOOLEAN /\ x.from \in Spaces /\ x.to \in Spaces
BY DEF Xforms

LEMMA HToSXformIs ==
  ASSUME NEW x \in Xforms, ProfileOf(x).pcs \in Spaces
  PROVE  /\ HToSXform(x) \in Xforms /\ HToSXform(x).kind = "hToS"
         /\ ~HToSXform(x).owns /\ HToSXform(x).obj = x.obj
BY DEF HToSXform, Xforms

LEMMA PcsXformIs ==
  ASSUME NEW a \in Spaces, NEW b \in Spaces
  PROVE  /\ PcsXform(a, b) \in Xforms /\ PcsXform(a, b).kind = "pcs"
         /\ PcsXform(a, b).obj = 0
<1>1. 0 \in 0..MaxAdds
  BY BoundsAssumption
<1> QED
  BY <1>1 DEF PcsXform, Xforms

\* Where the range is converted, and by what.
Ranges(r) == {i \in 1..Len(r) : ConvertsRange(r, i)}
RangeXforms(r) == [i \in 1..Len(r) |-> HToSXform(r[i])]

LEMMA RangeThreads ==
  ASSUME Types, NEW r \in Seq(Xforms), r # << >>, Owned(r, freed)
  PROVE  /\ WithRange(r) \in Seq(Xforms) /\ Owned(WithRange(r), freed)
         /\ \E p : Threads(Xforms, r, Ranges(r), RangeXforms(r), WithRange(r), p)
<1> DEFINE X == Ranges(r)
           e == RangeXforms(r)
<1>1. /\ X \subseteq 1..Len(r) /\ \A i \in X : ConvertsRange(r, i)
      /\ \A i \in 1..Len(r) : e[i] = HToSXform(r[i]) /\ (i \in X <=> ConvertsRange(r, i))
  BY DEF Ranges, RangeXforms
<1> HIDE DEF X, e
<1>2. WithRange(r) = Threading(r, X, e)
  <2>1. \A i \in 1..Len(r) :
          (IF ConvertsRange(r, i) THEN <<HToSXform(r[i])>> ELSE << >>)
            = (IF i \in X THEN <<e[i]>> ELSE << >>)
    BY <1>1
  <2>2. [i \in 1..Len(r) |-> <<r[i]>> \o (IF ConvertsRange(r, i) THEN <<HToSXform(r[i])>> ELSE << >>)]
          = [i \in 1..Len(r) |-> <<r[i]>> \o (IF i \in X THEN <<e[i]>> ELSE << >>)]
    BY <2>1
  <2> QED
    BY <2>2 DEF WithRange, Threaded, Threading
<1>3. ASSUME NEW i \in X
      PROVE  /\ e[i] \in Xforms /\ e[i].kind = "hToS" /\ ~e[i].owns
             /\ r[i].kind # "pcs" /\ e[i].obj = r[i].obj
  <2>1. i \in 1..Len(r) /\ e[i] = HToSXform(r[i]) /\ r[i] \in Xforms
    BY <1>1, ElementOfSeq
  <2>2. r[i].kind # "pcs"
    BY <1>1 DEF ConvertsRange, NeedsRange, IsExtendedPCS
  <2>3. ProfileOf(r[i]).pcs \in Spaces
    BY <2>1, <2>2, UsedProfile, HeaderIs DEF ProfileOf
  <2> QED
    BY <2>1, <2>2, <2>3, HToSXformIs
<1>4. PICK p : Threads(Xforms, r, X, e, WithRange(r), p)
  BY <1>1, <1>2, <1>3, ThreadIs
<1>5. WithRange(r) \in Seq(Xforms)
  BY <1>4 DEF Threads
<1>6. freed \in Seq({0, 1})
  BY DEF Types
<1>7. Owned(WithRange(r), freed)
  <2>1. Ownerless(r, X, e)
    BY <1>3 DEF Ownerless
  <2>2. X \subseteq 1..Len(r)
    BY <1>1
  <2> DEFINE t == WithRange(r)
  <2>3. Threads(Xforms, r, X, e, t, p) /\ Owned(r, freed) /\ r \in Seq(Xforms)
    BY <1>4
  <2> HIDE DEF t
  <2>4. Owned(t, freed)
    BY <1>6, <2>1, <2>2, <2>3, ThreadOwned
  <2> QED
    BY <2>4 DEF t
<1> QED
  BY <1>4, <1>5, <1>7 DEF X, e

LEMMA RangeTagsReadIs ==
  ASSUME Types
  PROVE  /\ RangeTagsRead \in Seq(Objects) /\ Len(RangeTagsRead) = Len(objs)
         /\ \A n \in DOMAIN objs : RangeTagsRead[n].kind = objs[n].kind
<1> DEFINE m == Len(objs)
           o == RangeTagsRead
<1>1. m \in Nat /\ DOMAIN objs = 1..m /\ \A n \in 1..m : objs[n] \in Objects
  BY ElementOfSeq, LenProperties DEF Types
<1>2. \A n \in 1..m : o[n] = objs[n] \/ o[n] = [objs[n] EXCEPT !.loaded = @ \cup {"hToS"}]
  BY <1>1 DEF RangeTagsRead
<1>3. o = [n \in 1..m |-> o[n]]
  <2>1. DOMAIN objs = 1..m
    BY <1>1
  <2> HIDE DEF m
  <2> QED
    BY <2>1 DEF RangeTagsRead
<1> HIDE DEF o, m
<1>4. \A n \in 1..m : o[n] \in Objects /\ o[n].kind = objs[n].kind
  <2>1. \A x \in Objects : /\ [x EXCEPT !.loaded = @ \cup {"hToS"}] \in Objects
                            /\ [x EXCEPT !.loaded = @ \cup {"hToS"}].kind = x.kind
    <3> SUFFICES ASSUME NEW x \in Objects
                 PROVE  /\ [x EXCEPT !.loaded = @ \cup {"hToS"}] \in Objects
                        /\ [x EXCEPT !.loaded = @ \cup {"hToS"}].kind = x.kind
      OBVIOUS
    <3>1. x.loaded \cup {"hToS"} \in SUBSET {"mcs", "hToS"}
      BY DEF Objects
    <3> QED
      BY <3>1 DEF Objects
  <2> QED
    BY <1>1, <1>2, <2>1
<1>5. o \in Seq(Objects) /\ Len(o) = m
  <2>1. o \in [1..m -> Objects]
    BY <1>3, <1>4
  <2> QED
    BY <1>1, <2>1
<1> QED
  BY <1>1, <1>4, <1>5 DEF o, m

\* The transform at an edge of r, and where one is put: at the places of Pcs,
\* and before the first, if that edge is one of them.
PcsXforms(r) == [i \in 1..Len(r) |-> PcsXform(Before(r, i), After(r, i))]
Pcs(r, edges) == edges \cap 1..Len(r)

LEMMA EdgeSpaces ==
  ASSUME Types, NEW r \in Seq(Xforms), r # << >>, Owned(r, freed), dest' \in Spaces,
         NEW i \in 0..Len(r)
  PROVE  Before(r, i) \in Spaces /\ After(r, i) \in Spaces
<1>1. Len(r) \in Nat \ {0} /\ \A j \in 1..Len(r) : r[j] \in Xforms
  BY EmptySeq, ElementOfSeq
<1>2. \A j \in 1..Len(r) : GetDstSpace(r[j]) \in Spaces
  BY <1>1, XformFields DEF GetDstSpace
<1>3. ASSUME NEW j \in 1..Len(r)
      PROVE  GetSrcSpace(r[j]) \in Spaces
  <2>1. r[j].from \in Spaces
    BY <1>1, XformFields
  <2>2. r[j].kind = "profile" => ProfileOf(r[j]).space \in Spaces /\ ProfileOf(r[j]).pcs \in Spaces
    BY UsedProfile, HeaderIs DEF ProfileOf
  <2> QED
    BY <2>1, <2>2 DEF GetSrcSpace
<1>4. /\ i # 0 => i \in 1..Len(r)
      /\ i # Len(r) => i + 1 \in 1..Len(r)
  BY <1>1
<1>5. "MCS" \in Spaces /\ src \in Spaces
  BY SpacesAre DEF Types
<1>6. Before(r, i) \in Spaces
  BY <1>2, <1>4, <1>5 DEF Before
<1>7. After(r, i) \in Spaces
  BY <1>3, <1>4, <1>5 DEF After
<1> QED
  BY <1>6, <1>7

\* The transforms of r follow each other in d, and the rest of d converts PCSs.
Connects(r, d, q) ==
  /\ d \in Seq(Xforms) /\ q \in [1..Len(r) -> 1..Len(d)]
  /\ \A i \in 1..Len(r) : d[q[i]] = r[i]
  /\ \A i, j \in 1..Len(r) : i < j => q[i] < q[j]
  /\ \A j \in 1..Len(d) : (\E i \in 1..Len(r) : j = q[i]) \/ d[j].kind = "pcs"

LEMMA PcsThreading ==
  ASSUME Types, NEW r \in Seq(Xforms), r # << >>, Owned(r, freed), dest' \in Spaces,
         NEW edges, edges \subseteq 0..Len(r)
  PROVE  /\ WithPcs(r, edges) =
              (IF 0 \in edges THEN <<PcsXform(Before(r, 0), After(r, 0))>> ELSE << >>)
                \o Threading(r, Pcs(r, edges), PcsXforms(r))
         /\ Pcs(r, edges) \subseteq 1..Len(r)
         /\ \A i \in Pcs(r, edges) :
              /\ i \in edges /\ PcsXforms(r)[i] = PcsXform(Before(r, i), After(r, i))
              /\ PcsXforms(r)[i] \in Xforms
              /\ PcsXforms(r)[i].kind = "pcs" /\ PcsXforms(r)[i].obj = 0
         /\ \E p : Threads(Xforms, r, Pcs(r, edges), PcsXforms(r),
                          Threading(r, Pcs(r, edges), PcsXforms(r)), p)
<1> DEFINE X == Pcs(r, edges)
           e == PcsXforms(r)
           t == Threading(r, X, e)
           first == PcsXform(Before(r, 0), After(r, 0))
           d == WithPcs(r, edges)
<1>1. /\ X \subseteq 1..Len(r) /\ Len(r) \in Nat
      /\ \A i \in 1..Len(r) : /\ i \in 0..Len(r)
                              /\ e[i] = PcsXform(Before(r, i), After(r, i))
                              /\ (i \in X <=> i \in edges)
  BY LenProperties DEF Pcs, PcsXforms
<1> HIDE DEF X, e
<1>2. t = Threaded(r, LAMBDA i : IF i \in edges THEN <<PcsXform(Before(r, i), After(r, i))>> ELSE << >>)
  <2>1. \A i \in 1..Len(r) :
          (IF i \in edges THEN <<PcsXform(Before(r, i), After(r, i))>> ELSE << >>)
            = (IF i \in X THEN <<e[i]>> ELSE << >>)
    BY <1>1
  <2>2. [i \in 1..Len(r) |-> <<r[i]>> \o (IF i \in edges THEN <<PcsXform(Before(r, i), After(r, i))>> ELSE << >>)]
          = [i \in 1..Len(r) |-> <<r[i]>> \o (IF i \in X THEN <<e[i]>> ELSE << >>)]
    BY <2>1
  <2> QED
    BY <2>2 DEF Threaded, Threading
<1>3. d = (IF 0 \in edges THEN <<first>> ELSE << >>) \o t
  BY <1>2 DEF WithPcs, Threaded
<1>4. ASSUME NEW i \in X
      PROVE  e[i] \in Xforms /\ e[i].kind = "pcs" /\ e[i].obj = 0
  <2>1. i \in 1..Len(r) /\ i \in 0..Len(r) /\ e[i] = PcsXform(Before(r, i), After(r, i))
    BY <1>1
  <2>2. Before(r, i) \in Spaces /\ After(r, i) \in Spaces
    BY <2>1, EdgeSpaces
  <2> QED
    BY <2>1, <2>2, PcsXformIs
<1>5. PICK p : Threads(Xforms, r, X, e, t, p)
  BY <1>1, <1>4, ThreadIs
<1>6. X \subseteq 1..Len(r) /\ \A i \in X : i \in edges /\ e[i] = PcsXform(Before(r, i), After(r, i))
  BY <1>1
<1> HIDE DEF t, d, first
<1>7. WithPcs(r, edges) =
        (IF 0 \in edges THEN <<PcsXform(Before(r, 0), After(r, 0))>> ELSE << >>)
          \o Threading(r, Pcs(r, edges), PcsXforms(r))
  BY <1>3 DEF X, e, t, d, first
<1>8. \A i \in Pcs(r, edges) :
        /\ i \in edges /\ PcsXforms(r)[i] = PcsXform(Before(r, i), After(r, i))
        /\ PcsXforms(r)[i] \in Xforms
        /\ PcsXforms(r)[i].kind = "pcs" /\ PcsXforms(r)[i].obj = 0
  BY <1>4, <1>6 DEF X, e
<1>9. \E q : Threads(Xforms, r, Pcs(r, edges), PcsXforms(r),
                    Threading(r, Pcs(r, edges), PcsXforms(r)), q)
  BY <1>5 DEF X, e, t
<1> QED
  BY <1>6, <1>7, <1>8, <1>9 DEF X

\* It keeps the order, and who owns what.
LEMMA PcsThreads ==
  ASSUME Types, NEW r \in Seq(Xforms), r # << >>, Owned(r, freed), dest' \in Spaces,
         NEW edges, edges \subseteq 0..Len(r)
  PROVE  /\ WithPcs(r, edges) \in Seq(Xforms) /\ Owned(WithPcs(r, edges), freed)
         /\ \E q : Connects(r, WithPcs(r, edges), q)
<1> DEFINE X == Pcs(r, edges)
           e == PcsXforms(r)
           t == Threading(r, X, e)
           first == PcsXform(Before(r, 0), After(r, 0))
           d == WithPcs(r, edges)
<1> HIDE DEF X, e, t, first, d
<1>1. d = (IF 0 \in edges THEN <<first>> ELSE << >>) \o t
  BY PcsThreading DEF X, e, t, first, d
<1>2. X \subseteq 1..Len(r) /\ Len(r) \in Nat
  BY PcsThreading, LenProperties DEF X
<1>3. \A i \in X : e[i] \in Xforms /\ e[i].kind = "pcs" /\ e[i].obj = 0
  <2>1. \A i \in Pcs(r, edges) :
          /\ i \in edges /\ PcsXforms(r)[i] = PcsXform(Before(r, i), After(r, i))
          /\ PcsXforms(r)[i] \in Xforms
          /\ PcsXforms(r)[i].kind = "pcs" /\ PcsXforms(r)[i].obj = 0
    BY PcsThreading
  <2> QED
    BY <2>1 DEF X, e
<1>4. PICK p : Threads(Xforms, r, X, e, t, p)
  BY PcsThreading DEF X, e, t
<1>5. freed \in Seq({0, 1})
  BY DEF Types
<1>6. Owned(t, freed) /\ t \in Seq(Xforms)
  <2>1. Ownerless(r, X, e)
    BY <1>3 DEF Ownerless
  <2>2. t \in Seq(Xforms)
    BY <1>4 DEF Threads
  <2> QED
    BY <1>2, <1>4, <1>5, <2>1, <2>2, ThreadOwned
<1>7. Connects(r, t, p)
  <2>1. \A i \in X : t[p[i] + 1].kind = "pcs"
    <3>1. \A i \in X : t[p[i] + 1] = e[i]
      BY <1>4 DEF Threads
    <3> QED
      BY <1>3, <3>1
  <2> QED
    BY <1>4, <2>1 DEF Threads, Connects
<1>8. CASE 0 \notin edges
  <2>1. d = t
    BY <1>1, <1>6, <1>8, ConcatEmptySeq
  <2> QED
    BY <1>6, <1>7, <2>1 DEF d
<1>9. CASE 0 \in edges
  <2>1. d = <<first>> \o t
    BY <1>1, <1>9
  <2>2. first \in Xforms /\ first.kind = "pcs" /\ first.obj = 0
    <3>1. 0 \in 0..Len(r)
      BY <1>2
    <3>2. Before(r, 0) \in Spaces /\ After(r, 0) \in Spaces
      BY <3>1, EdgeSpaces
    <3> QED
      BY <3>2, PcsXformIs DEF first
  <2>3. d \in Seq(Xforms) /\ Owned(d, freed)
    BY <1>5, <1>6, <2>1, <2>2, PrefixIs, PrefixOwned
  <2>4. /\ Len(d) = Len(t) + 1 /\ d[1] = first
        /\ \A i \in 1..Len(t) : d[i + 1] = t[i]
        /\ \A j \in 1..(Len(t) + 1) : j = 1 \/ \E i \in 1..Len(t) : j = i + 1
    BY <1>6, <2>1, <2>2, PrefixIs
  <2> DEFINE q == [i \in 1..Len(r) |-> p[i] + 1]
  <2>5. /\ Len(t) \in Nat /\ \A i \in 1..Len(r) : p[i] \in 1..Len(t)
        /\ \A i \in 1..Len(r) : q[i] = p[i] + 1
    BY <1>6, <1>7, LenProperties DEF Connects
  <2>6. \A i \in 1..Len(r) : p[i] + 1 \in 1..Len(d)
    BY <2>4, <2>5
  <2>7. q \in [1..Len(r) -> 1..Len(d)]
    BY <2>6
  <2> HIDE DEF q
  <2>8. \A i \in 1..Len(r) : d[q[i]] = r[i]
    BY <1>7, <2>4, <2>5 DEF Connects
  <2>9. \A i, j \in 1..Len(r) : i < j => q[i] < q[j]
    <3> SUFFICES ASSUME NEW i \in 1..Len(r), NEW j \in 1..Len(r), i < j
                 PROVE  q[i] < q[j]
      OBVIOUS
    <3>1. p[i] < p[j] /\ p[i] \in Nat /\ p[j] \in Nat
      BY <1>7, <2>5 DEF Connects
    <3> QED
      BY <2>5, <3>1
  <2>10. ASSUME NEW j \in 1..Len(d)
         PROVE  (\E i \in 1..Len(r) : j = q[i]) \/ d[j].kind = "pcs"
    <3>1. CASE j = 1
      BY <2>2, <2>4, <3>1
    <3>2. ASSUME NEW i \in 1..Len(t), j = i + 1
          PROVE  (\E h \in 1..Len(r) : j = q[h]) \/ d[j].kind = "pcs"
      <4>1. (\E h \in 1..Len(r) : i = p[h]) \/ t[i].kind = "pcs"
        BY <1>7 DEF Connects
      <4>2. d[j] = t[i]
        BY <2>4, <3>2
      <4> QED
        BY <2>5, <3>2, <4>1, <4>2
    <3>3. j = 1 \/ \E i \in 1..Len(t) : j = i + 1
      BY <2>4
    <3> QED
      BY <3>1, <3>2, <3>3
  <2>11. Connects(r, d, q)
    BY <2>3, <2>7, <2>8, <2>9, <2>10 DEF Connects
  <2> QED
    BY <2>3, <2>11 DEF d
<1> QED
  BY <1>8, <1>9
-----------------------------------------------------------------------------
(* The steps of Begin and after it *)

LEMMA OwnersAre ==
  ASSUME Types, Owned(chain, freed), NEW n \in DOMAIN objs
  PROVE  \/ freed[n] = 0 /\ \E i \in DOMAIN chain : Owners(n) = {i}
         \/ freed[n] = 1 /\ Owners(n) = {}
<1>1. Owners(n) = OwnedBy(chain, n)
  BY DEF Owners, OwnedBy
<1>2. DOMAIN freed = DOMAIN objs /\ n # 0 /\ n \in DOMAIN freed /\ freed[n] \in {0, 1}
  BY LenProperties, ElementOfSeq DEF Types
<1>3. CASE freed[n] = 0
  <2>1. PICK i \in OwnedBy(chain, n) : TRUE
    BY <1>2, <1>3 DEF Owned
  <2>2. OwnedBy(chain, n) = {i}
    BY <1>2, <2>1 DEF Owned
  <2>3. i \in DOMAIN chain
    BY DEF OwnedBy
  <2> QED
    BY <1>1, <1>3, <2>2, <2>3
<1>4. CASE freed[n] = 1
  <2>1. \A i \in DOMAIN chain : chain[i].obj # n
    BY <1>2, <1>4 DEF Owned, Uses
  <2> QED
    BY <1>1, <1>4, <2>1 DEF OwnedBy
<1> QED
  BY <1>2, <1>3, <1>4

LEMMA OwnersCount ==
  ASSUME Types, Owned(chain, freed), NEW n \in DOMAIN objs
  PROVE  Cardinality(Owners(n)) + freed[n] = 1
<1>1. CASE freed[n] = 0 /\ \E i \in DOMAIN chain : Owners(n) = {i}
  <2>1. PICK i : Owners(n) = {i}
    BY <1>1
  <2>2. Cardinality({i}) = 1
    BY FS_Singleton
  <2> QED
    BY <1>1, <2>1, <2>2
<1>2. CASE freed[n] = 1 /\ Owners(n) = {}
  BY <1>2, FS_EmptySet
<1> QED
  BY <1>1, <1>2, OwnersAre

\* What Begin keeps and makes in any of its outcomes but the refusal of the end.
LEMMA BeginEndsIs ==
  ASSUME IInv, BeginEnds
  PROVE  /\ alive /\ alive' = alive /\ applied = << >> /\ chain # << >>
         /\ src' \in Spaces /\ dest' \in Spaces /\ last' \in Spaces
         /\ lastInput' \in BOOLEAN
         /\ objs' \in Seq(Objects) /\ Len(objs') = Len(objs) /\ Len(objs') <= MaxAdds
         /\ freed' = freed /\ freed \in Seq({0, 1}) /\ Len(freed) = Len(objs)
         /\ begun' \in 0..MaxBegins /\ begun' # 0 /\ begun' = begun + 1
<1>1. Types /\ MayBegin
  BY DEF IInv, BeginEnds
<1>2. objs' \in Seq(Objects) /\ Len(objs') = Len(objs)
  BY <1>1, RangeTagsReadIs DEF BeginEnds
<1>3. begun' \in 0..MaxBegins /\ begun' # 0
  BY <1>1, BoundsAssumption DEF Types, MayBegin, BeginEnds
<1> QED
  BY <1>1, <1>2, <1>3 DEF Types, MayBegin, BeginEnds

LEMMA RangeIs ==
  ASSUME IInv, chain # << >>
  PROVE  /\ WithRange(chain) \in Seq(Xforms) /\ WithRange(chain) # << >>
         /\ Owned(WithRange(chain), freed)
<1>1. Types /\ chain \in Seq(Xforms) /\ Owned(chain, freed) /\ 1 \in 1..Len(chain)
  BY EmptySeq DEF IInv, Types
<1>2. PICK p : Threads(Xforms, chain, Ranges(chain), RangeXforms(chain), WithRange(chain), p)
  BY <1>1, RangeThreads
<1>3. p[1] \in 1..Len(WithRange(chain))
  BY <1>1, <1>2 DEF Threads
<1>4. WithRange(chain) # << >>
  BY <1>3
<1> QED
  BY <1>1, <1>4, RangeThreads

LEMMA BeginRefusedStep == IInv /\ BeginRefused => IInv'
<1> SUFFICES ASSUME IInv, BeginRefused
             PROVE  IInv'
  OBVIOUS
<1>1. begun' \in 0..MaxBegins /\ begun' # 0
  BY BoundsAssumption DEF IInv, Types, BeginRefused, MayBegin
<1>2. Types'
  BY <1>1 DEF IInv, Types, BeginRefused, endVars
<1>3. Owned(chain', freed')
  BY DEF IInv, BeginRefused
<1>4. Unbegun'
  BY <1>1 DEF Unbegun
<1> QED
  BY <1>2, <1>3, <1>4 DEF IInv

LEMMA BeginFailsStep == IInv /\ BeginFails => IInv'
<1> SUFFICES ASSUME IInv, BeginFails
             PROVE  IInv'
  OBVIOUS
<1>1. BeginEnds /\ chain' = WithRange(chain) /\ UNCHANGED <<valid, applied, lost>>
  BY DEF BeginFails
<1>2. chain' \in Seq(Xforms) /\ Owned(chain', freed')
  BY <1>1, BeginEndsIs, RangeIs
<1>3. Types'
  BY <1>1, <1>2, BeginEndsIs DEF IInv, Types
<1>4. Unbegun'
  BY <1>1, BeginEndsIs DEF Unbegun
<1> QED
  BY <1>2, <1>3, <1>4 DEF IInv

LEMMA ConnectFailsStep == IInv /\ ConnectFails => IInv'
<1> SUFFICES ASSUME IInv, ConnectFails
             PROVE  IInv'
  OBVIOUS
<1>1. BeginEnds /\ chain' = WithRange(chain) /\ UNCHANGED <<valid, applied>>
  BY DEF ConnectFails
<1>2. PICK k \in 0..Len(WithRange(chain)) :
        \E edges \in Connections(WithRange(chain), k) : lost' = lost + Cardinality(edges)
  BY DEF ConnectFails
<1>3. PICK edges \in Connections(WithRange(chain), k) : lost' = lost + Cardinality(edges)
  BY <1>2
<1>4. lost' \in Nat
  <2>1. edges \subseteq 0..(k - 1) /\ 0 \in Int /\ k - 1 \in Int
    BY <1>1, BeginEndsIs, RangeIs, LenProperties DEF Connections
  <2>2. Cardinality(edges) \in Nat
    BY <2>1, FS_Interval, FS_Subset, FS_CardinalityType
  <2>3. lost \in Nat
    BY DEF IInv, Types
  <2> QED
    BY <1>3, <2>2, <2>3
<1>5. chain' \in Seq(Xforms) /\ Owned(chain', freed')
  BY <1>1, BeginEndsIs, RangeIs
<1>6. Types'
  BY <1>1, <1>4, <1>5, BeginEndsIs DEF IInv, Types
<1>7. Unbegun'
  BY <1>1, BeginEndsIs DEF Unbegun
<1> QED
  BY <1>5, <1>6, <1>7 DEF IInv

\* A chain that Begin has connected is the one AddXform has made, with the range
\* conversions and then the PCS transforms inserted.
LEMMA ConnectIs ==
  ASSUME IInv, Connect
  PROVE  /\ chain' \in Seq(Xforms) /\ Owned(chain', freed') /\ chain' # << >>
         /\ \E q : Connects(WithRange(chain), chain', q)
<1> DEFINE r == WithRange(chain)
<1>1. BeginEnds
  BY DEF Connect
<1>2. /\ r \in Seq(Xforms) /\ r # << >> /\ Owned(r, freed) /\ dest' \in Spaces
      /\ freed' = freed /\ Types
  BY <1>1, BeginEndsIs, RangeIs DEF IInv
<1>3. PICK edges \in Connections(r, Len(r) + 1) : chain' = WithPcs(r, edges)
  BY DEF Connect
<1>4. edges \subseteq 0..Len(r)
  <2>1. Len(r) \in Nat
    BY <1>2, LenProperties
  <2>2. (Len(r) + 1) - 1 = Len(r)
    BY <2>1
  <2>3. edges \subseteq 0..((Len(r) + 1) - 1)
    BY <1>3 DEF Connections
  <2> QED
    BY <2>2, <2>3
<1> HIDE DEF r
<1>5. /\ chain' \in Seq(Xforms) /\ Owned(chain', freed)
      /\ \E q : Connects(r, chain', q)
  BY <1>2, <1>3, <1>4, PcsThreads
<1>6. chain' # << >>
  <2>1. PICK q : Connects(r, chain', q)
    BY <1>5
  <2>2. 1 \in 1..Len(r)
    BY <1>2, EmptySeq
  <2>3. q[1] \in 1..Len(chain')
    BY <2>1, <2>2 DEF Connects
  <2> QED
    BY <2>3
<1> QED
  BY <1>2, <1>5, <1>6 DEF r

LEMMA ConnectStep ==
  ASSUME IInv, Connect,
         \/ UNCHANGED <<valid, applied>>
         \/ valid' = TRUE /\ applied' \in {chain', << >>}
  PROVE  IInv'
<1>1. chain' \in Seq(Xforms) /\ Owned(chain', freed')
  BY ConnectIs
<1>2. BeginEnds /\ lost' = lost
  BY DEF Connect
<1>3. valid' \in BOOLEAN /\ applied' \in Seq(Xforms) /\ (applied' # << >> => valid')
  BY <1>1, <1>2, BeginEndsIs DEF IInv, Types
<1>4. Types'
  BY <1>1, <1>2, <1>3, BeginEndsIs DEF IInv, Types
<1>5. Unbegun'
  BY <1>2, BeginEndsIs DEF Unbegun
<1> QED
  BY <1>1, <1>4, <1>5 DEF IInv

LEMMA RemoveAllIOIs ==
  ASSUME Types, RemoveAllIO
  PROVE  /\ objs' \in Seq(Objects) /\ Len(objs') = Len(objs)
         /\ \A n \in DOMAIN objs : objs'[n].kind = objs[n].kind
<1> DEFINE m == Len(objs)
<1>1. m \in Nat /\ DOMAIN objs = 1..m /\ \A n \in 1..m : objs[n] \in Objects
  BY ElementOfSeq, LenProperties DEF Types
<1>2. objs' = [n \in 1..m |-> [objs[n] EXCEPT !.io = "none"]]
  BY <1>1 DEF RemoveAllIO
<1> HIDE DEF m
<1>3. \A x \in Objects : [x EXCEPT !.io = "none"] \in Objects /\ [x EXCEPT !.io = "none"].kind = x.kind
  BY DEF Objects
<1>4. objs' \in [1..m -> Objects] /\ \A n \in 1..m : objs'[n].kind = objs[n].kind
  BY <1>1, <1>2, <1>3
<1>5. objs' \in Seq(Objects) /\ Len(objs') = m
  BY <1>1, <1>4
<1> QED
  BY <1>1, <1>4, <1>5 DEF m

LEMMA RemoveAllIOStep == IInv /\ RemoveAllIO => IInv'
<1> SUFFICES ASSUME IInv, RemoveAllIO
             PROVE  IInv'
  OBVIOUS
<1>1. Types /\ valid /\ begun # 0
  BY DEF IInv, Unbegun, RemoveAllIO
<1>2. objs' \in Seq(Objects) /\ Len(objs') = Len(objs)
  BY <1>1, RemoveAllIOIs
<1>3. Types'
  BY <1>1, <1>2 DEF Types, RemoveAllIO, endVars
<1>4. Owned(chain', freed')
  BY DEF IInv, RemoveAllIO
<1>5. Unbegun'
  BY <1>1 DEF Unbegun, RemoveAllIO
<1> QED
  BY <1>3, <1>4, <1>5 DEF IInv

LEMMA DeleteStep == IInv /\ Delete => IInv'
<1> SUFFICES ASSUME IInv, Delete
             PROVE  IInv'
  OBVIOUS
<1>1. Types /\ Owned(chain, freed) /\ DOMAIN freed = DOMAIN objs
  BY LenProperties DEF IInv, Types
<1> DEFINE m == Len(freed)
<1>2. m \in Nat /\ DOMAIN freed = 1..m
  BY <1>1, LenProperties DEF Types
<1>3. \A n \in 1..m : freed[n] + Cardinality(Owners(n)) = 1
  <2> SUFFICES ASSUME NEW n \in 1..m
               PROVE  freed[n] + Cardinality(Owners(n)) = 1
    OBVIOUS
  <2>1. n \in DOMAIN objs
    BY <1>1, <1>2
  <2>2. Cardinality(Owners(n)) \in Nat /\ freed[n] \in Nat
    <3>1. freed[n] \in {0, 1}
      BY <1>1, ElementOfSeq DEF Types
    <3>2. Owners(n) = {} \/ \E i \in DOMAIN chain : Owners(n) = {i}
      BY <1>1, <2>1, OwnersAre
    <3>3. IsFiniteSet(Owners(n))
      BY <3>2, FS_EmptySet, FS_Singleton
    <3> QED
      BY <3>1, <3>3, FS_CardinalityType
  <2>3. Cardinality(Owners(n)) + freed[n] = 1
    BY <1>1, <2>1, OwnersCount
  <2> QED
    BY <2>2, <2>3
<1>4. freed' = [n \in 1..m |-> 1]
  BY <1>2, <1>3 DEF Delete
<1>5. freed' \in Seq({0, 1}) /\ Len(freed') = m /\ DOMAIN freed' = 1..m
  <2>1. freed' \in [1..m -> {0, 1}]
    BY <1>4
  <2> HIDE DEF m
  <2> QED
    BY <1>2, <2>1
<1>6. Types'
  <2>1. << >> \in Seq(Xforms)
    OBVIOUS
  <2>2. src' = src /\ dest' = dest /\ last' = last /\ lastInput' = lastInput
    BY DEF Delete, endVars
  <2>3. /\ chain' = << >> /\ applied' = << >> /\ ~alive' /\ alive' \in BOOLEAN
        /\ valid' = valid /\ objs' = objs /\ begun' = begun /\ lost' = lost
    BY DEF Delete
  <2> QED
    BY <1>1, <1>5, <2>1, <2>2, <2>3 DEF Types
<1>7. Owned(chain', freed')
  <2>1. DOMAIN chain' = {}
    BY DEF Delete
  <2> QED
    BY <1>4, <1>5, <2>1 DEF Owned, Uses, OwnedBy
<1>8. Unbegun'
  <2>1. Fresh(chain')
    BY DEF Delete, Fresh
  <2>2. objs' = objs /\ begun' = begun /\ valid' = valid
    BY DEF Delete
  <2> QED
    BY <2>1, <2>2 DEF IInv, Unbegun, Findable, TagFound
<1> QED
  BY <1>6, <1>7, <1>8 DEF IInv

LEMMA StutterStep == IInv /\ UNCHANGED vars => IInv'
<1> SUFFICES ASSUME IInv, UNCHANGED vars
             PROVE  IInv'
  OBVIOUS
<1>1. Types'
  BY DEF IInv, Types, vars, endVars
<1>2. Owned(chain', freed')
  BY DEF IInv, vars
<1>3. Unbegun'
  BY DEF IInv, Unbegun, Findable, TagFound, vars
<1> QED
  BY <1>1, <1>2, <1>3 DEF IInv

LEMMA IInvKept == IInv /\ [Next]_vars => IInv'
<1> SUFFICES ASSUME IInv, [Next]_vars
             PROVE  IInv'
  OBVIOUS
<1>1. ASSUME NEW k \in DOMAIN Profile, NEW way \in Ways, NEW lut \in Luts(k),
             AddXform(k, way, lut)
      PROVE  IInv'
  BY <1>1, AddStep
<1>2. ASSUME NEW k \in DOMAIN Profile, NEW way \in Ways, NEW lut \in Luts(k),
             AddXformRefused(k, way, lut)
      PROVE  IInv'
  BY <1>2, RefusedStep
<1>3. CASE ApplyFails
  BY <1>3, ConnectStep DEF ApplyFails
<1>4. ASSUME NEW allocApply \in BOOLEAN, Begin(allocApply)
      PROVE  IInv'
  BY <1>4, ConnectStep DEF Begin
<1> QED
  BY <1>1, <1>2, <1>3, <1>4, BeginRefusedStep, BeginFailsStep, ConnectFailsStep,
     RemoveAllIOStep, DeleteStep, StutterStep DEF Next

LEMMA IInvImplies == IInv => ProfilesOwnedOnce
<1> SUFFICES ASSUME IInv
             PROVE  ProfilesOwnedOnce
  OBVIOUS
<1>1. Types /\ Owned(chain, freed)
  BY DEF IInv
<1>2. TypeOK
  <2>1. \A c \in {chain, applied} : \A i \in DOMAIN c : c[i] \in Xforms
    BY <1>1, ElementOfSeq, LenProperties DEF Types
  <2>2. ASSUME NEW n \in DOMAIN objs
        PROVE  /\ objs[n].kind \in DOMAIN Profile /\ objs[n].io \in {"none", "own"}
               /\ objs[n].loaded \subseteq {"mcs", "hToS"}
    <3>1. objs[n] \in Objects
      BY <1>1, ElementOfSeq, LenProperties DEF Types
    <3> QED
      BY <3>1 DEF Objects
  <2>3. DOMAIN freed = DOMAIN objs
    BY <1>1, LenProperties DEF Types
  <2> QED
    BY <1>1, <2>1, <2>2, <2>3 DEF Types, TypeOK
<1>3. \A n \in DOMAIN objs : Cardinality(Owners(n)) + freed[n] = 1
  BY <1>1, OwnersCount
<1>4. \A i \in DOMAIN chain : chain[i].kind # "pcs" => freed[chain[i].obj] = 0
  BY <1>1 DEF Owned, Uses
<1> QED
  BY <1>2, <1>3, <1>4 DEF ProfilesOwnedOnce
-----------------------------------------------------------------------------
(* The range is converted once *)

\* NextProfiles, Conversions and OwesConversion, in a chain c of objects o.
NextsIn(c, i) == {j \in DOMAIN c : j > i /\ c[j].kind = "profile"}
ConversionsIn(c, i) ==
  {j \in DOMAIN c : j > i /\ c[j].kind = "hToS" /\ \A k \in NextsIn(c, i) : j < k}
OwesIn(c, o, i) ==
  /\ c[i].input /\ c[i].to \in PcsSpaces
  /\ Profile[o[c[i].obj].kind].extended /\ Profile[o[c[i].obj].kind].hToS
  /\ \E j \in NextsIn(c, i) : /\ \A k \in NextsIn(c, i) : j <= k
                              /\ ~Profile[o[c[j].obj].kind].extended
OnceIn(c, o) ==
  \A i \in DOMAIN c : c[i].kind = "profile" =>
    Cardinality(ConversionsIn(c, i)) = IF OwesIn(c, o, i) THEN 1 ELSE 0

LEMMA ConvertedOnceIs ==
  /\ ConvertedOnce <=> (valid /\ alive /\ begun = 1 => OnceIn(chain, objs))
  /\ ConvertedOnce' <=> (valid' /\ alive' /\ begun' = 1 => OnceIn(chain', objs'))
<1>1. \A i : NextProfiles(i) = NextsIn(chain, i) /\ NextProfiles(i)' = NextsIn(chain', i)
  BY DEF NextProfiles, NextsIn
<1>2. \A i : /\ Conversions(i) = ConversionsIn(chain, i)
             /\ Conversions(i)' = ConversionsIn(chain', i)
  BY <1>1 DEF Conversions, ConversionsIn
<1>3. \A i : /\ OwesConversion(i) <=> OwesIn(chain, objs, i)
             /\ OwesConversion(i)' <=> OwesIn(chain', objs', i)
  BY <1>1 DEF OwesConversion, OwesIn, ProfileOf
<1>4. ConvertedOnce <=> (valid /\ alive /\ begun = 1 => OnceIn(chain, objs))
  BY <1>2, <1>3 DEF ConvertedOnce, OnceIn
<1>5. ConvertedOnce' <=> (valid' /\ alive' /\ begun' = 1 => OnceIn(chain', objs'))
  BY <1>2, <1>3 DEF ConvertedOnce, OnceIn
<1> QED
  BY <1>4, <1>5

\* The n profiles of a chain are at u in d, in order, the conversions of those of
\* X at w, before the next profile, and there is nothing else but PCS transforms.
Laid(d, n, X, u, w) ==
  /\ \A i \in 1..n : u[i] \in 1..Len(d) /\ d[u[i]].kind = "profile"
  /\ \A i, j \in 1..n : i < j => u[i] < u[j]
  /\ \A i \in X : w[i] \in 1..Len(d) /\ d[w[i]].kind = "hToS" /\ u[i] < w[i]
  /\ \A i \in X : \A j \in 1..n : i < j => w[i] < u[j]
  /\ \A j \in 1..Len(d) :
       (\E i \in 1..n : j = u[i]) \/ (\E i \in X : j = w[i]) \/ d[j].kind = "pcs"

LEMMA LaidNexts ==
  ASSUME NEW n \in Nat, NEW X, X \subseteq 1..n, NEW d \in Seq(Xforms), NEW u, NEW w,
         Laid(d, n, X, u, w), NEW i \in 1..n
  PROVE  /\ \A j : j \in NextsIn(d, u[i]) <=> \E h \in 1..n : h > i /\ j = u[h]
         /\ i = n => NextsIn(d, u[i]) = {}
         /\ i # n => /\ u[i + 1] \in NextsIn(d, u[i])
                     /\ \A k \in NextsIn(d, u[i]) : u[i + 1] <= k
<1>1. DOMAIN d = 1..Len(d) /\ Len(d) \in Nat
  BY LenProperties
<1>2. /\ \A j \in 1..n : u[j] \in 1..Len(d) /\ u[j] \in Nat /\ d[u[j]].kind = "profile"
      /\ \A j \in X : w[j] \in 1..Len(d) /\ w[j] \in Nat /\ d[w[j]].kind = "hToS"
  BY DEF Laid
<1>3. \A j \in 1..Len(d) : d[j].kind = "profile" => \E h \in 1..n : j = u[h]
  BY <1>2 DEF Laid
<1>4. \A h \in 1..n : u[h] > u[i] <=> h > i
  <2> SUFFICES ASSUME NEW h \in 1..n
               PROVE  u[h] > u[i] <=> h > i
    OBVIOUS
  <2>1. (h < i => u[h] < u[i]) /\ (i < h => u[i] < u[h])
    BY DEF Laid
  <2>2. u[h] \in Nat /\ u[i] \in Nat /\ h \in Nat /\ i \in Nat
    BY <1>2
  <2>3. h < i \/ h = i \/ i < h
    BY <2>2
  <2> QED
    BY <2>1, <2>2, <2>3
<1>5. \A j : j \in NextsIn(d, u[i]) <=> \E h \in 1..n : h > i /\ j = u[h]
  <2>1. \A j \in NextsIn(d, u[i]) : \E h \in 1..n : h > i /\ j = u[h]
    BY <1>1, <1>3, <1>4 DEF NextsIn
  <2>2. \A h \in 1..n : h > i => u[h] \in NextsIn(d, u[i])
    BY <1>1, <1>2, <1>4 DEF NextsIn
  <2> QED
    BY <2>1, <2>2
<1>6. i = n => NextsIn(d, u[i]) = {}
  BY <1>5
<1>7. ASSUME i # n
      PROVE  /\ u[i + 1] \in NextsIn(d, u[i])
             /\ \A k \in NextsIn(d, u[i]) : u[i + 1] <= k
  <2>1. i + 1 \in 1..n /\ i + 1 > i
    BY <1>7
  <2>2. ASSUME NEW k \in NextsIn(d, u[i])
        PROVE  u[i + 1] <= k
    <3>1. PICK h \in 1..n : h > i /\ k = u[h]
      BY <1>5
    <3>2. h = i + 1 \/ i + 1 < h
      BY <3>1
    <3>3. i + 1 < h => u[i + 1] < u[h]
      BY <2>1 DEF Laid
    <3>4. u[h] \in Nat /\ u[i + 1] \in Nat
      BY <1>2, <2>1
    <3> QED
      BY <3>1, <3>2, <3>3, <3>4
  <2> QED
    BY <1>5, <2>1, <2>2
<1> QED
  BY <1>5, <1>6, <1>7

ConversionAt(d, X, u, w, i) ==
  ConversionsIn(d, u[i]) = IF i \in X THEN {w[i]} ELSE {}
LEMMA LaidConversions ==
  ASSUME NEW n \in Nat, NEW X, X \subseteq 1..n, NEW d \in Seq(Xforms), NEW u, NEW w,
         Laid(d, n, X, u, w), NEW i \in 1..n
  PROVE  ConversionAt(d, X, u, w, i)
<1>1. DOMAIN d = 1..Len(d) /\ Len(d) \in Nat
  BY LenProperties
<1>2. /\ \A j \in 1..n : u[j] \in 1..Len(d) /\ u[j] \in Nat /\ d[u[j]].kind = "profile"
      /\ \A j \in X : w[j] \in 1..Len(d) /\ w[j] \in Nat /\ d[w[j]].kind = "hToS"
  BY DEF Laid
<1>3. \A j \in 1..Len(d) : d[j].kind = "hToS" => \E h \in X : j = w[h]
  BY <1>2 DEF Laid
<1>4. \A j : j \in NextsIn(d, u[i]) <=> \E h \in 1..n : h > i /\ j = u[h]
  BY LaidNexts
<1>5. ASSUME i \in X
      PROVE  w[i] \in ConversionsIn(d, u[i])
  <2>1. \A h \in 1..n : h > i => w[i] < u[h]
    BY <1>5 DEF Laid
  <2>2. \A k \in NextsIn(d, u[i]) : w[i] < k
    BY <1>4, <2>1
  <2>3. w[i] \in DOMAIN d /\ d[w[i]].kind = "hToS" /\ u[i] < w[i] /\ w[i] \in Nat /\ u[i] \in Nat
    BY <1>1, <1>2, <1>5 DEF Laid
  <2>4. w[i] > u[i]
    BY <2>3
  <2> QED
    BY <2>2, <2>3, <2>4 DEF ConversionsIn
<1>6. ASSUME NEW j \in ConversionsIn(d, u[i])
      PROVE  i \in X /\ j = w[i]
  <2>1. j \in 1..Len(d) /\ d[j].kind = "hToS" /\ j > u[i]
    BY <1>1 DEF ConversionsIn
  <2>2. PICK h \in X : j = w[h]
    BY <1>3, <2>1
  <2>3. h \in 1..n /\ h \in Nat /\ i \in Nat
    OBVIOUS
  <2>4. ~(h < i)
    <3>1. h < i => w[h] < u[i]
      BY DEF Laid
    <3>2. w[h] \in Nat /\ u[i] \in Nat
      BY <1>2
    <3> QED
      BY <2>1, <2>2, <3>1, <3>2
  <2>5. ~(h > i)
    <3>1. h > i => u[h] \in NextsIn(d, u[i])
      BY <1>4, <2>3
    <3>2. h > i => j < u[h]
      BY <3>1 DEF ConversionsIn
    <3>3. u[h] < w[h] /\ w[h] \in Nat /\ u[h] \in Nat
      BY <1>2, <2>3 DEF Laid
    <3> QED
      BY <2>2, <3>2, <3>3
  <2>6. h = i
    BY <2>3, <2>4, <2>5
  <2> QED
    BY <2>2, <2>6
<1>7. ConversionAt(d, X, u, w, i)
  BY <1>5, <1>6 DEF ConversionAt
<1> QED
  BY <1>7

\* Threads and then Connects lay out the chain.
Inserts(c, X, e, r, p, d, q) ==
  /\ c \in Seq(Xforms) /\ Fresh(c)
  /\ X \subseteq 1..Len(c) /\ \A i \in X : e[i].kind = "hToS"
  /\ Threads(Xforms, c, X, e, r, p) /\ Connects(r, d, q)
LaysOut(c, X, d, u, w) == Laid(d, Len(c), X, u, w) /\ \A i \in 1..Len(c) : d[u[i]] = c[i]
LEMMA LaidOut ==
  ASSUME NEW c, NEW X, NEW e, NEW r, NEW p, NEW d, NEW q, Inserts(c, X, e, r, p, d, q)
  PROVE  \E u, w : LaysOut(c, X, d, u, w)
<1> USE DEF Inserts
<1> DEFINE n == Len(c)
           u == [i \in 1..n |-> q[p[i]]]
           w == [i \in X |-> q[p[i] + 1]]
<1>1. /\ \A i \in 1..n : p[i] \in 1..Len(r) /\ p[i] \in Nat /\ r[p[i]] = c[i]
      /\ \A i \in X : i \in 1..n /\ p[i] + 1 \in 1..Len(r) /\ r[p[i] + 1] = e[i]
  BY DEF Threads
<1>2. \A h \in 1..Len(r) : q[h] \in 1..Len(d) /\ d[q[h]] = r[h]
  BY DEF Connects
<1>3. \A g, h \in 1..Len(r) : g < h => q[g] < q[h]
  BY DEF Connects
<1>4. (\A i \in 1..n : u[i] = q[p[i]]) /\ (\A i \in X : w[i] = q[p[i] + 1])
  OBVIOUS
<1>5. \A i \in 1..n : c[i].kind = "profile"
  BY LenProperties DEF Fresh
<1> HIDE DEF n, u, w
<1>6. \A i \in 1..n : u[i] \in 1..Len(d) /\ d[u[i]] = c[i]
  BY <1>1, <1>2, <1>4
<1>7. \A i, j \in 1..n : i < j => u[i] < u[j]
  <2> SUFFICES ASSUME NEW i \in 1..n, NEW j \in 1..n, i < j
               PROVE  u[i] < u[j]
    OBVIOUS
  <2>1. p[i] < p[j]
    BY DEF Threads, n
  <2> QED
    BY <1>1, <1>3, <1>4, <2>1
<1>8. \A i \in X : w[i] \in 1..Len(d) /\ d[w[i]].kind = "hToS"
  BY <1>1, <1>2, <1>4
<1>9. \A i \in X : u[i] < w[i]
  <2> SUFFICES ASSUME NEW i \in X
               PROVE  u[i] < w[i]
    OBVIOUS
  <2>1. p[i] \in 1..Len(r) /\ p[i] + 1 \in 1..Len(r) /\ p[i] < p[i] + 1
    BY <1>1
  <2> QED
    BY <1>1, <1>3, <1>4, <2>1
<1>10. \A i \in X : \A j \in 1..n : i < j => w[i] < u[j]
  <2> SUFFICES ASSUME NEW i \in X, NEW j \in 1..n, i < j
               PROVE  w[i] < u[j]
    OBVIOUS
  <2>1. p[i] + 1 < p[j]
    BY <1>1 DEF Threads, n
  <2> QED
    BY <1>1, <1>3, <1>4, <2>1
<1>11. ASSUME NEW j \in 1..Len(d)
       PROVE  (\E i \in 1..n : j = u[i]) \/ (\E i \in X : j = w[i]) \/ d[j].kind = "pcs"
  <2>1. (\E h \in 1..Len(r) : j = q[h]) \/ d[j].kind = "pcs"
    BY DEF Connects
  <2>2. ASSUME NEW h \in 1..Len(r), j = q[h]
        PROVE  (\E i \in 1..n : j = u[i]) \/ (\E i \in X : j = w[i])
    <3>1. (\E i \in 1..n : h = p[i]) \/ (\E i \in X : h = p[i] + 1)
      BY DEF Threads, n
    <3> QED
      BY <1>4, <2>2, <3>1
  <2> QED
    BY <2>1, <2>2
<1>12. Laid(d, n, X, u, w)
  BY <1>5, <1>6, <1>7, <1>8, <1>9, <1>10, <1>11 DEF Laid
<1> QED
  BY <1>6, <1>12 DEF n, LaysOut

\* The kinds of the profiles are what is left of them for the range conversions.
LEMMA KindsKept ==
  ASSUME Types, NEW c \in Seq(Xforms), Owned(c, freed),
         NEW o, \A n \in DOMAIN objs : o[n].kind = objs[n].kind,
         NEW i \in 1..Len(c), c[i].kind # "pcs"
  PROVE  o[c[i].obj].kind = objs[c[i].obj].kind
BY UsedProfile

LEMMA BeginConverts ==
  ASSUME IInv, begun = 0, Connect
  PROVE  OnceIn(chain', objs')
<1> DEFINE n == Len(chain)
           X == Ranges(chain)
           e == RangeXforms(chain)
           r == WithRange(chain)
           d == chain'
           o == objs'
<1>1. /\ Types /\ chain \in Seq(Xforms) /\ chain # << >> /\ Owned(chain, freed)
      /\ Fresh(chain) /\ Findable /\ n \in Nat /\ DOMAIN chain = 1..n
  <2>1. BeginEnds
    BY DEF Connect
  <2> QED
    BY <2>1, BeginEndsIs, LenProperties DEF IInv, Unbegun, Types
<1>2. d \in Seq(Xforms) /\ DOMAIN d = 1..Len(d)
  BY ConnectIs, LenProperties
<1>3. PICK q : Connects(r, d, q)
  BY ConnectIs
<1>4. PICK p : Threads(Xforms, chain, X, e, r, p)
  BY <1>1, RangeThreads
<1>5. X \subseteq 1..n
  BY DEF Ranges
<1>6. \A i \in 1..n : i \in X <=> ConvertsRange(chain, i)
  BY DEF Ranges
<1>7. \A i \in X : e[i].kind = "hToS"
  <2> SUFFICES ASSUME NEW i \in X
               PROVE  e[i].kind = "hToS"
    OBVIOUS
  <2>1. i \in 1..n /\ chain[i] \in Xforms
    BY <1>1, <1>5, ElementOfSeq
  <2>2. e[i] = HToSXform(chain[i])
    BY <2>1 DEF RangeXforms
  <2> HIDE DEF e
  <2> QED
    BY <2>1, <2>2 DEF HToSXform, Xforms
<1>8. \A k \in DOMAIN objs : o[k].kind = objs[k].kind
  <2>1. objs' = RangeTagsRead
    BY DEF Connect, BeginEnds
  <2> QED
    BY <1>1, <2>1, RangeTagsReadIs
<1> HIDE DEF X, e, r, d, o
<1>9. PICK u, w : Laid(d, n, X, u, w) /\ \A i \in 1..n : d[u[i]] = chain[i]
  <2>1. Inserts(chain, X, e, r, p, d, q)
    BY <1>1, <1>3, <1>4, <1>5, <1>7 DEF Inserts
  <2>2. \E u, w : LaysOut(chain, X, d, u, w)
    BY <2>1, LaidOut
  <2> QED
    BY <2>2 DEF LaysOut
<1>10. Laid(d, n, X, u, w)
  BY <1>9
<1>11. \A i \in 1..n : d[u[i]] = chain[i]
  BY <1>9
<1>12. n \in Nat /\ d \in Seq(Xforms)
  BY <1>1, <1>2
<1> HIDE DEF n
<1>13. /\ \A i \in 1..n : chain[i].kind = "profile"
       /\ \A i \in 1..n : o[chain[i].obj].kind = objs[chain[i].obj].kind
  <2>1. \A i \in 1..n : chain[i].kind = "profile"
    BY <1>1 DEF Fresh
  <2> QED
    BY <1>1, <1>8, <2>1, KindsKept DEF n
<1>14. ASSUME NEW i \in 1..n
       PROVE  OwesIn(d, o, u[i]) <=> i \in X
  <2>1. i \in X <=> ConvertsRange(chain, i)
    BY <1>6
  <2>2. \A h \in 1..n : Profile[o[chain[h].obj].kind] = ProfileOf(chain[h])
    BY <1>13 DEF ProfileOf
  <2>3. d[u[i]] = chain[i]
    BY <1>11
  <2>4. CASE i = n
    <3>1. NextsIn(d, u[i]) = {}
      BY <1>5, <1>10, <1>12, <2>4, LaidNexts
    <3>2. ~OwesIn(d, o, u[i])
      BY <3>1 DEF OwesIn
    <3>3. ~ConvertsRange(chain, i)
      BY <1>1, <2>4 DEF ConvertsRange, NeedsRange, n
    <3> QED
      BY <2>1, <3>2, <3>3
  <2>5. CASE i # n
    <3> DEFINE j == i + 1
    <3>1. /\ u[j] \in NextsIn(d, u[i])
          /\ \A k \in NextsIn(d, u[i]) : u[j] <= k
      BY <1>5, <1>10, <1>12, <2>5, LaidNexts
    <3>2. j \in 1..n /\ i < n
      BY <1>1, <2>5
    <3>3. NextsIn(d, u[i]) \subseteq Nat
      BY <1>2 DEF NextsIn
    <3>4. \A k \in NextsIn(d, u[i]) : (\A h \in NextsIn(d, u[i]) : k <= h) => k = u[j]
      <4> SUFFICES ASSUME NEW k \in NextsIn(d, u[i]), \A h \in NextsIn(d, u[i]) : k <= h
                   PROVE  k = u[j]
        OBVIOUS
      <4>1. k <= u[j] /\ u[j] <= k /\ k \in Nat /\ u[j] \in Nat
        BY <3>1, <3>3
      <4> QED
        BY <4>1
    <3>5. d[u[j]] = chain[j]
      BY <1>11, <3>2
    <3>6. (\E k \in NextsIn(d, u[i]) : /\ \A h \in NextsIn(d, u[i]) : k <= h
                                       /\ ~Profile[o[d[k].obj].kind].extended)
            <=> ~Profile[o[chain[j].obj].kind].extended
      BY <3>1, <3>4, <3>5
    <3>7. OwesIn(d, o, u[i]) <=>
            /\ chain[i].input /\ chain[i].to \in PcsSpaces
            /\ ProfileOf(chain[i]).extended /\ ProfileOf(chain[i]).hToS
            /\ ~ProfileOf(chain[j]).extended
      BY <2>2, <2>3, <3>2, <3>6 DEF OwesIn
    <3>8. ProfileOf(chain[i]).extended /\ ProfileOf(chain[i]).hToS => TagFound(chain[i].obj, "hToS")
      <4>1. chain[i].obj \in DOMAIN objs
        BY <1>1, <1>13, UsedProfile DEF n
      <4> QED
        BY <1>1, <4>1 DEF Findable, ProfileOf
    <3>9. ConvertsRange(chain, i) <=>
            /\ chain[i].input /\ chain[i].to \in PcsSpaces
            /\ ProfileOf(chain[i]).extended /\ ProfileOf(chain[i]).hToS
            /\ ~ProfileOf(chain[j]).extended
      BY <1>13, <3>2, <3>8 DEF ConvertsRange, NeedsRange, IsExtendedPCS, GetDstSpace, n
    <3> QED
      BY <2>1, <3>7, <3>9
  <2> QED
    BY <2>4, <2>5
<1>15. ASSUME NEW k \in DOMAIN d, d[k].kind = "profile"
       PROVE  Cardinality(ConversionsIn(d, k)) = IF OwesIn(d, o, k) THEN 1 ELSE 0
  <2>1. PICK i \in 1..n : k = u[i]
    BY <1>2, <1>15, <1>10 DEF Laid
  <2>2. ConversionAt(d, X, u, w, i)
    BY <1>5, <1>10, <1>12, LaidConversions
  <2>3. ConversionsIn(d, u[i]) = IF i \in X THEN {w[i]} ELSE {}
    BY <2>2 DEF ConversionAt
  <2>4. Cardinality({w[i]}) = 1 /\ Cardinality({}) = 0
    BY FS_Singleton, FS_EmptySet
  <2> QED
    BY <1>14, <2>1, <2>3, <2>4
<1>16. OnceIn(d, o)
  BY <1>15 DEF OnceIn
<1> QED
  BY <1>16 DEF d, o

\* An IO that is let go leaves the chain and the profiles as they are.
LEMMA RemoveAllIOConverts ==
  ASSUME IInv, RemoveAllIO, OnceIn(chain, objs)
  PROVE  OnceIn(chain', objs')
<1>1. /\ Types /\ chain \in Seq(Xforms) /\ Owned(chain, freed)
      /\ DOMAIN chain = 1..Len(chain) /\ chain' = chain
  BY LenProperties DEF IInv, Types, RemoveAllIO
<1>2. \A i \in DOMAIN chain : chain[i].kind # "pcs" =>
        objs'[chain[i].obj].kind = objs[chain[i].obj].kind
  BY <1>1, RemoveAllIOIs, KindsKept
<1>3. \A i : \A j \in NextsIn(chain, i) : j \in DOMAIN chain /\ chain[j].kind = "profile"
  BY DEF NextsIn
<1>4. \A i \in DOMAIN chain : chain[i].kind = "profile" =>
        (OwesIn(chain, objs', i) <=> OwesIn(chain, objs, i))
  BY <1>2, <1>3 DEF OwesIn
<1>5. OnceIn(chain, objs')
  BY <1>4 DEF OnceIn
<1> QED
  BY <1>1, <1>5

\* A CMM that was never valid has not begun its first time: nothing to show.
LEMMA NotValidYet ==
  ASSUME IInv, valid' = valid,
         \/ begun = 0 /\ UNCHANGED begun
         \/ begun' = begun + 1
  PROVE  ConvertedOnce'
<1>1. begun \in Int /\ (begun' = 1 /\ begun' = begun + 1 => begun = 0)
  BY BoundsAssumption DEF IInv, Types
<1>2. begun = 0 => ~valid
  BY DEF IInv, Unbegun
<1> QED
  BY <1>1, <1>2, ConvertedOnceIs

LEMMA ConvertedKept == IInv /\ ConvertedOnce /\ [Next]_vars => ConvertedOnce'
<1> SUFFICES ASSUME IInv, ConvertedOnce, [Next]_vars
             PROVE  ConvertedOnce'
  OBVIOUS
<1>1. ASSUME NEW k \in DOMAIN Profile, NEW way \in Ways, NEW lut \in Luts(k),
             AddXform(k, way, lut) \/ AddXformRefused(k, way, lut)
      PROVE  ConvertedOnce'
  <2>1. begun = 0 /\ UNCHANGED <<begun, valid>>
    BY <1>1 DEF AddXform, AddXformRefused, MayAdd
  <2> QED
    BY <2>1, NotValidYet
<1>2. CASE BeginRefused
  BY <1>2, NotValidYet DEF BeginRefused
<1>3. CASE BeginFails
  BY <1>3, NotValidYet DEF BeginFails, BeginEnds
<1>4. CASE ConnectFails
  BY <1>4, NotValidYet DEF ConnectFails, BeginEnds
<1>5. CASE ApplyFails
  BY <1>5, NotValidYet DEF ApplyFails, Connect, BeginEnds
<1>6. ASSUME NEW allocApply \in BOOLEAN, Begin(allocApply)
      PROVE  ConvertedOnce'
  <2>1. Connect /\ begun' = begun + 1 /\ begun \in Int
    BY <1>6 DEF Begin, Connect, BeginEnds, IInv, Types
  <2>2. CASE begun = 0
    BY <2>1, <2>2, BeginConverts, ConvertedOnceIs
  <2>3. CASE begun # 0
    <3>1. begun' # 1
      BY <2>1, <2>3
    <3> QED
      BY <3>1, ConvertedOnceIs
  <2> QED
    BY <2>2, <2>3
<1>7. CASE RemoveAllIO
  <2>1. UNCHANGED <<valid, alive, begun>>
    BY <1>7 DEF RemoveAllIO
  <2> QED
    BY <1>7, <2>1, RemoveAllIOConverts, ConvertedOnceIs
<1>8. CASE Delete
  BY <1>8, ConvertedOnceIs DEF Delete
<1>9. CASE UNCHANGED vars
  <2>1. UNCHANGED <<valid, alive, begun, chain, objs>>
    BY <1>9 DEF vars
  <2> QED
    BY <2>1, ConvertedOnceIs
<1> QED
  BY <1>1, <1>2, <1>3, <1>4, <1>5, <1>6, <1>7, <1>8, <1>9 DEF Next
-----------------------------------------------------------------------------
(* The sides of neighbours *)

\* What stands next to what after a Threading.
Neighbours(r, X, e, x, y) ==
  \/ \E i \in X : x = r[i] /\ y = e[i]
  \/ \E i \in X : i + 1 \in 1..Len(r) /\ x = e[i] /\ y = r[i + 1]
  \/ \E i \in 1..Len(r) : i \notin X /\ i + 1 \in 1..Len(r) /\ x = r[i] /\ y = r[i + 1]

LEMMA ThreadNeighbours ==
  ASSUME NEW S, NEW r \in Seq(S), NEW X, X \subseteq 1..Len(r), NEW e, NEW t, NEW p,
         Threads(S, r, X, e, t, p), NEW j \in 1..(Len(t) - 1)
  PROVE  Neighbours(r, X, e, t[j], t[j + 1])
<1> DEFINE n == Len(r)
           m == Len(t)
<1>1. /\ n \in Nat /\ m \in Nat /\ X \subseteq 1..n
      /\ \A i \in 1..n : p[i] \in 1..m /\ t[p[i]] = r[i]
      /\ \A i \in X : t[p[i] + 1] = e[i]
      /\ \A g, h \in 1..n : g < h => p[g] < p[h] /\ (g \in X => p[g] + 1 < p[h])
      /\ \A k \in 1..m : (\E i \in 1..n : k = p[i]) \/ (\E i \in X : k = p[i] + 1)
  BY LenProperties DEF Threads
<1>2. j \in 1..m /\ j + 1 \in 1..m /\ j \in Nat
  BY <1>1
<1> HIDE DEF n, m
<1>3. \A g, h \in 1..n : /\ g \in Nat /\ h \in Nat /\ p[g] \in Nat /\ p[h] \in Nat
                         /\ g < h \/ g = h \/ h < g
  BY <1>1
\* The next of two places in order is the place of the next.
<1>4. ASSUME NEW i \in 1..n, NEW h \in 1..n, p[i] < p[h],
             p[h] = p[i] + 1 \/ (i \in X /\ p[h] = p[i] + 2)
      PROVE  h = i + 1
  <2>1. i < h
    BY <1>1, <1>3, <1>4
  <2>2. i + 1 \in 1..n /\ i < i + 1 /\ (i + 1 < h \/ h = i + 1)
    BY <1>1, <1>3, <2>1
  <2>3. p[i] < p[i + 1] /\ (i \in X => p[i] + 1 < p[i + 1]) /\ p[i + 1] \in Nat
    BY <1>1, <1>3, <2>2
  <2>4. i + 1 < h => p[i + 1] < p[h]
    BY <1>1, <2>2
  <2> QED
    BY <1>3, <1>4, <2>2, <2>3, <2>4
<1>5. ASSUME NEW i \in 1..n, j = p[i], i \in X
      PROVE  t[j] = r[i] /\ t[j + 1] = e[i]
  BY <1>1, <1>5
<1>6. ASSUME NEW i \in 1..n, j = p[i], i \notin X
      PROVE  i + 1 \in 1..n /\ t[j] = r[i] /\ t[j + 1] = r[i + 1]
  <2>1. ~ \E h \in X : j + 1 = p[h] + 1
    <3> SUFFICES ASSUME NEW h \in X, j + 1 = p[h] + 1
                 PROVE  FALSE
      OBVIOUS
    <3>1. h \in 1..n /\ p[h] = p[i]
      BY <1>1, <1>3, <1>6
    <3>2. ~(h < i) /\ ~(i < h)
      BY <1>1, <1>3, <3>1
    <3> QED
      BY <1>3, <1>6, <3>1, <3>2
  <2>2. PICK h \in 1..n : j + 1 = p[h]
    BY <1>1, <1>2, <2>1
  <2>3. h = i + 1
    BY <1>3, <1>4, <1>6, <2>2
  <2> QED
    BY <1>1, <1>6, <2>2, <2>3
<1>7. ASSUME NEW i \in X, j = p[i] + 1
      PROVE  i + 1 \in 1..n /\ t[j] = e[i] /\ t[j + 1] = r[i + 1]
  <2>1. i \in 1..n
    BY <1>1
  <2>2. ~ \E h \in X : j + 1 = p[h] + 1
    <3> SUFFICES ASSUME NEW h \in X, j + 1 = p[h] + 1
                 PROVE  FALSE
      OBVIOUS
    <3>1. h \in 1..n /\ p[h] = p[i] + 1
      BY <1>1, <1>3, <1>7, <2>1
    <3>2. i < h => p[i] + 1 < p[h]
      BY <1>1, <2>1, <3>1
    <3>3. h < i => p[h] < p[i]
      BY <1>1, <2>1, <3>1
    <3> QED
      BY <1>3, <2>1, <3>1, <3>2, <3>3
  <2>3. PICK h \in 1..n : j + 1 = p[h]
    BY <1>1, <1>2, <2>2
  <2>4. h = i + 1
    BY <1>3, <1>4, <1>7, <2>1, <2>3
  <2> QED
    BY <1>1, <1>7, <2>3, <2>4
<1>8. (\E i \in 1..n : j = p[i]) \/ (\E i \in X : j = p[i] + 1)
  BY <1>1, <1>2
<1>9. CASE \E i \in 1..n : j = p[i]
  BY <1>5, <1>6, <1>9 DEF n, Neighbours
<1>10. CASE \E i \in X : j = p[i] + 1
  BY <1>7, <1>10 DEF n, Neighbours
<1> QED
  BY <1>8, <1>9, <1>10

Starts(S, r, X, e, t, p) ==
  r \in Seq(S) /\ r # << >> /\ X \subseteq 1..Len(r) /\ Threads(S, r, X, e, t, p)
LEMMA ThreadFirst ==
  ASSUME NEW S, NEW r, NEW X, NEW e, NEW t, NEW p, Starts(S, r, X, e, t, p)
  PROVE  t[1] = r[1]
<1> DEFINE n == Len(r)
           m == Len(t)
<1>1. /\ n \in Nat \ {0} /\ m \in Nat /\ X \subseteq 1..n /\ t \in Seq(S)
      /\ \A i \in 1..n : p[i] \in 1..m /\ t[p[i]] = r[i]
      /\ \A g, h \in 1..n : g < h => p[g] < p[h]
      /\ \A k \in 1..m : (\E i \in 1..n : k = p[i]) \/ (\E i \in X : k = p[i] + 1)
  BY LenProperties, EmptySeq DEF Starts, Threads
<1> HIDE DEF n, m
<1>2. 1 \in 1..n /\ p[1] \in 1..m /\ 1 \in 1..m
  BY <1>1
<1>3. PICK i \in 1..n : 1 = p[i]
  <2>1. \A h \in X : p[h] \in 1..m
    BY <1>1
  <2>2. ~ \E h \in X : 1 = p[h] + 1
    BY <1>1, <2>1
  <2> QED
    BY <1>1, <1>2, <2>2
<1>4. i = 1
  <2>1. 1 < i => p[1] < p[i]
    BY <1>1, <1>2
  <2> QED
    BY <1>1, <1>2, <1>3, <2>1
<1> QED
  BY <1>1, <1>2, <1>3, <1>4 DEF m

\* What x reads, when the profiles are those of objects o, and whether what is
\* before y writes it, as PcsSidesMeet says.
ReadsIn(o, y) ==
  IF y.kind # "profile" THEN y.from
  ELSE IF y.input THEN Profile[o[y.obj].kind].space ELSE Profile[o[y.obj].kind].pcs
Meets(o, x, y) ==
  \/ Routed(x, y)
  \/ {x.to, ReadsIn(o, y)} \cap PcsSpaces = {}
  \/ x.to = ReadsIn(o, y)
Met(c, o) == \A i \in 1..(Len(c) - 1) : Meets(o, c[i], c[i + 1])

\* What is used as an input writes the PCS of its profile, if it writes one.
WritesPcs(o, x) ==
  x.kind # "pcs" /\ x.input /\ x.to \in PcsSpaces => x.to = Profile[o[x.obj].kind].pcs
WritePcs(c, o) == \A i \in 1..Len(c) : WritesPcs(o, c[i])

Meeting == WritePcs(chain, objs) /\ (valid => Met(chain, objs))

\* The kinds of the objects in use are all that matters of the objects.
SameKinds(c, o1, o2) ==
  \A i \in 1..Len(c) : c[i].kind # "pcs" => o1[c[i].obj].kind = o2[c[i].obj].kind

LEMMA MeetingKept ==
  ASSUME NEW c \in Seq(Xforms), NEW o1, NEW o2, SameKinds(c, o1, o2)
  PROVE  /\ WritePcs(c, o1) => WritePcs(c, o2)
         /\ Met(c, o1) => Met(c, o2)
<1>1. Len(c) \in Nat /\ \A i \in 1..(Len(c) - 1) : i + 1 \in 1..Len(c)
  BY LenProperties
<1>2. \A i \in 1..Len(c) : c[i].kind = "profile" => o1[c[i].obj].kind = o2[c[i].obj].kind
  BY DEF SameKinds
<1>3. WritePcs(c, o1) => WritePcs(c, o2)
  BY DEF SameKinds, WritePcs, WritesPcs
<1>4. \A i \in 1..Len(c) : ReadsIn(o1, c[i]) = ReadsIn(o2, c[i])
  BY <1>2 DEF ReadsIn
<1>5. \A i \in 1..(Len(c) - 1) : Meets(o1, c[i], c[i + 1]) => Meets(o2, c[i], c[i + 1])
  BY <1>1, <1>4 DEF Meets
<1>6. Met(c, o1) => Met(c, o2)
  BY <1>5 DEF Met
<1> QED
  BY <1>3, <1>6

\* A range conversion writes and routes as the transform it follows, which
\* writes what it reads.
LEMMA RangeKeepsMeeting ==
  ASSUME Types, NEW r \in Seq(Xforms), r # << >>, Owned(r, freed), WritePcs(r, objs)
  PROVE  /\ WritePcs(WithRange(r), objs)
         /\ Met(r, objs) => Met(WithRange(r), objs)
<1> DEFINE X == Ranges(r)
           e == RangeXforms(r)
           t == WithRange(r)
<1>1. PICK p : Threads(Xforms, r, X, e, t, p)
  BY RangeThreads
<1>2. X \subseteq 1..Len(r) /\ Len(r) \in Nat
  BY LenProperties DEF Ranges
<1>3. ASSUME NEW i \in X
      PROVE  /\ r[i] \in Xforms /\ r[i].kind # "pcs" /\ r[i].input /\ r[i].to \in PcsSpaces
             /\ e[i].kind = "hToS" /\ e[i].input = r[i].input /\ e[i].obj = r[i].obj
             /\ e[i].to = r[i].to
             /\ e[i].from = Profile[objs[r[i].obj].kind].pcs
  <2>1. i \in 1..Len(r) /\ r[i] \in Xforms
    BY <1>2, ElementOfSeq
  <2>2. e[i] = HToSXform(r[i]) /\ ConvertsRange(r, i)
    BY <2>1 DEF RangeXforms, Ranges
  <2>3. r[i].kind # "pcs" /\ r[i].input /\ r[i].to \in PcsSpaces
    BY <2>2 DEF ConvertsRange, NeedsRange, IsExtendedPCS, GetDstSpace
  <2>4. \A x \in Xforms : /\ HToSXform(x).kind = "hToS" /\ HToSXform(x).input = x.input
                           /\ HToSXform(x).obj = x.obj /\ HToSXform(x).to = x.to
                           /\ HToSXform(x).from = Profile[objs[x.obj].kind].pcs
    BY DEF HToSXform, Xforms, ProfileOf
  <2> HIDE DEF e
  <2> QED
    BY <2>1, <2>2, <2>3, <2>4
<1>4. \A i \in 1..Len(r) : WritesPcs(objs, r[i])
  BY DEF WritePcs
<1> HIDE DEF X, e, t
<1>5. \A i \in X : WritesPcs(objs, e[i])
  BY <1>2, <1>3, <1>4 DEF WritesPcs
<1>6. WritePcs(t, objs)
  <2> SUFFICES ASSUME NEW j \in 1..Len(t)
               PROVE  WritesPcs(objs, t[j])
    BY DEF WritePcs
  <2>1. (\E i \in 1..Len(r) : t[j] = r[i]) \/ (\E i \in X : t[j] = e[i])
    BY <1>1 DEF Threads
  <2> QED
    BY <1>4, <1>5, <2>1
<1>7. ASSUME NEW i \in X
      PROVE  Meets(objs, r[i], e[i])
  <2>1. r[i].to = Profile[objs[r[i].obj].kind].pcs
    BY <1>2, <1>3, <1>4 DEF WritesPcs
  <2>2. ReadsIn(objs, e[i]) = e[i].from
    BY <1>3 DEF ReadsIn
  <2> QED
    BY <1>3, <2>1, <2>2 DEF Meets
<1>8. ASSUME NEW i \in X, NEW y, Meets(objs, r[i], y)
      PROVE  Meets(objs, e[i], y)
  <2>1. Routed(r[i], y) => Routed(e[i], y)
    BY <1>3 DEF Routed, IsMCS
  <2>2. e[i].to = r[i].to
    BY <1>3
  <2> QED
    BY <1>8, <2>1, <2>2 DEF Meets
<1>9. ASSUME Met(r, objs), NEW j \in 1..(Len(t) - 1)
      PROVE  Meets(objs, t[j], t[j + 1])
  <2>1. \A i \in 1..Len(r) : i + 1 \in 1..Len(r) => Meets(objs, r[i], r[i + 1])
    <3> SUFFICES ASSUME NEW i \in 1..Len(r), i + 1 \in 1..Len(r)
                 PROVE  Meets(objs, r[i], r[i + 1])
      OBVIOUS
    <3>1. i \in 1..(Len(r) - 1)
      BY <1>2
    <3> QED
      BY <1>9, <3>1 DEF Met
  <2>2. \/ \E i \in X : t[j] = r[i] /\ t[j + 1] = e[i]
        \/ \E i \in X : i + 1 \in 1..Len(r) /\ t[j] = e[i] /\ t[j + 1] = r[i + 1]
        \/ \E i \in 1..Len(r) : /\ i \notin X /\ i + 1 \in 1..Len(r)
                                /\ t[j] = r[i] /\ t[j + 1] = r[i + 1]
    <3>1. X \subseteq 1..Len(r)
      BY <1>2
    <3>2. Neighbours(r, X, e, t[j], t[j + 1])
      BY <1>1, <3>1, ThreadNeighbours
    <3> QED
      BY <3>2 DEF Neighbours
  <2>3. CASE \E i \in X : t[j] = r[i] /\ t[j + 1] = e[i]
    BY <1>7, <2>3
  <2>4. CASE \E i \in X : i + 1 \in 1..Len(r) /\ t[j] = e[i] /\ t[j + 1] = r[i + 1]
    <3>1. PICK i \in X : i + 1 \in 1..Len(r) /\ t[j] = e[i] /\ t[j + 1] = r[i + 1]
      BY <2>4
    <3>2. Meets(objs, r[i], r[i + 1])
      BY <1>2, <2>1, <3>1
    <3> QED
      BY <1>8, <3>1, <3>2
  <2>5. CASE \E i \in 1..Len(r) : /\ i \notin X /\ i + 1 \in 1..Len(r)
                                  /\ t[j] = r[i] /\ t[j + 1] = r[i + 1]
    BY <2>1, <2>5
  <2> QED
    BY <2>2, <2>3, <2>4, <2>5
<1>10. Met(r, objs) => Met(t, objs)
  BY <1>9 DEF Met
<1> QED
  BY <1>6, <1>10 DEF t

LEMMA PcsXformSides ==
  ASSUME NEW a \in Spaces, NEW b \in Spaces
  PROVE  /\ PcsXform(a, b).from = a /\ PcsXform(a, b).to = b
         /\ PcsXform(a, b).kind = "pcs" /\ PcsXform(a, b).mcs = "no"
BY DEF PcsXform

LEMMA ReadsInIs == \A x : ReadsIn(objs, x) = GetSrcSpace(x)
BY DEF ReadsIn, GetSrcSpace, ProfileOf

\* An edge with a transform: it meets both sides.
LEMMA EdgeWith ==
  ASSUME Types, NEW r \in Seq(Xforms), r # << >>, Owned(r, freed), dest' \in Spaces,
         NEW i \in 0..Len(r), NEW x, x = PcsXform(Before(r, i), After(r, i))
  PROVE  /\ i # 0 => Meets(objs, r[i], x)
         /\ i # Len(r) => Meets(objs, x, r[i + 1])
<1>1. Before(r, i) \in Spaces /\ After(r, i) \in Spaces
  BY EdgeSpaces
<1>2. x.from = Before(r, i) /\ x.to = After(r, i) /\ x.kind = "pcs"
  BY <1>1, PcsXformSides
<1>3. Len(r) \in Nat \ {0}
  BY EmptySeq
<1>4. ASSUME i # 0
      PROVE  Meets(objs, r[i], x)
  <2>1. Before(r, i) = "MCS" \/ Before(r, i) = r[i].to
    BY <1>4 DEF Before, GetDstSpace
  <2>2. ReadsIn(objs, x) = x.from
    BY <1>2 DEF ReadsIn
  <2> QED
    BY <1>2, <2>1, <2>2 DEF Meets, Routed
<1>5. ASSUME i # Len(r)
      PROVE  Meets(objs, x, r[i + 1])
  <2>1. After(r, i) = "MCS" \/ After(r, i) = GetSrcSpace(r[i + 1])
    BY <1>5 DEF After
  <2> QED
    BY <1>2, <2>1, ReadsInIs DEF Meets, Routed
<1> QED
  BY <1>4, <1>5

\* An edge without one, where Begin has found nothing to refuse or convert.
LEMMA EdgeWithout ==
  ASSUME NEW r \in Seq(Xforms), NEW i \in 1..Len(r), i + 1 \in 1..Len(r),
         Looks(r, i) => ~EdgeRefused(r, i) /\ ~MustConvert(r, i)
  PROVE  Meets(objs, r[i], r[i + 1])
<1>1. i # 0 /\ i # Len(r) /\ i < Len(r) /\ i > 0 /\ i \in 1..(Len(r) - 1)
  BY LenProperties
<1>2. CASE IsMCS(r[i]) /\ IsMCS(r[i + 1])
  BY <1>2 DEF Meets, Routed
<1>3. CASE ~(IsMCS(r[i]) /\ IsMCS(r[i + 1]))
  <2>1. Before(r, i) = r[i].to /\ After(r, i) = ReadsIn(objs, r[i + 1])
    BY <1>1, <1>3, ReadsInIs DEF Before, After, GetDstSpace
  <2>2. CASE {r[i].to, ReadsIn(objs, r[i + 1])} \cap PcsSpaces = {}
    BY <2>2 DEF Meets
  <2>3. CASE {r[i].to, ReadsIn(objs, r[i + 1])} \cap PcsSpaces # {}
    <3>1. Looks(r, i)
      BY <1>1, <2>3, ReadsInIs DEF Looks, GetDstSpace
    <3>2. {Before(r, i), After(r, i)} \subseteq PcsSpaces
      BY <1>1, <1>3, <3>1 DEF EdgeRefused
    <3>3. Before(r, i) = After(r, i)
      BY <3>1, <3>2 DEF MustConvert
    <3> QED
      BY <2>1, <3>3 DEF Meets
  <2> QED
    BY <2>2, <2>3
<1> QED
  BY <1>2, <1>3

LEMMA PcsMeets ==
  ASSUME Types, NEW r \in Seq(Xforms), r # << >>, Owned(r, freed), dest' \in Spaces,
         WritePcs(r, objs), NEW edges \in Connections(r, Len(r) + 1)
  PROVE  WritePcs(WithPcs(r, edges), objs) /\ Met(WithPcs(r, edges), objs)
<1> DEFINE X == Pcs(r, edges)
           e == PcsXforms(r)
           t == Threading(r, X, e)
           first == PcsXform(Before(r, 0), After(r, 0))
           d == WithPcs(r, edges)
<1>1. Len(r) \in Nat \ {0} /\ (Len(r) + 1) - 1 = Len(r) /\ 1 \in 1..Len(r)
  BY EmptySeq
<1>2. /\ edges \subseteq 0..Len(r)
      /\ \A i \in 0..Len(r) : Looks(r, i) =>
           ~EdgeRefused(r, i) /\ (MustConvert(r, i) => i \in edges)
  BY <1>1 DEF Connections
<1>3. edges \subseteq 0..Len(r)
  BY <1>2
<1>4. \A i \in 1..Len(r) : i \in 0..Len(r) /\ i # 0 /\ (i \notin X => i \notin edges)
  BY <1>1 DEF Pcs
<1> HIDE DEF X, e, t, first, d
<1>5. d = (IF 0 \in edges THEN <<first>> ELSE << >>) \o t
  BY <1>3, PcsThreading DEF X, e, t, first, d
<1>6. X \subseteq 1..Len(r)
  BY <1>3, PcsThreading DEF X
<1>7. \A i \in X : e[i] = PcsXform(Before(r, i), After(r, i)) /\ e[i].kind = "pcs"
  BY <1>3, PcsThreading DEF X, e
<1>8. PICK p : Threads(Xforms, r, X, e, t, p)
  BY <1>3, PcsThreading DEF X, e, t
<1>9. ASSUME NEW j \in 1..(Len(t) - 1)
      PROVE  Meets(objs, t[j], t[j + 1])
  <2>1. Neighbours(r, X, e, t[j], t[j + 1])
    BY <1>6, <1>8, ThreadNeighbours
  <2>2. CASE \E i \in X : t[j] = r[i] /\ t[j + 1] = e[i]
    BY <1>4, <1>6, <1>7, <2>2, EdgeWith
  <2>3. CASE \E i \in X : i + 1 \in 1..Len(r) /\ t[j] = e[i] /\ t[j + 1] = r[i + 1]
    <3>1. PICK i \in X : i + 1 \in 1..Len(r) /\ t[j] = e[i] /\ t[j + 1] = r[i + 1]
      BY <2>3
    <3>2. i \in 0..Len(r) /\ i # Len(r)
      <4>1. i \in 1..Len(r) /\ i + 1 \in 1..Len(r)
        BY <1>6, <3>1
      <4>2. \A n \in Nat : \A h \in 1..n : h + 1 \in 1..n => h \in 0..n /\ h # n
        OBVIOUS
      <4>3. Len(r) \in Nat
        BY <1>1
      <4> QED
        BY <4>1, <4>2, <4>3
    <3>3. Meets(objs, e[i], r[i + 1])
      BY <1>7, <3>2, EdgeWith
    <3> QED
      BY <3>1, <3>3
  <2>4. CASE \E i \in 1..Len(r) : i \notin X /\ i + 1 \in 1..Len(r) /\ t[j] = r[i] /\ t[j + 1] = r[i + 1]
    <3>1. PICK i \in 1..Len(r) : i \notin X /\ i + 1 \in 1..Len(r) /\ t[j] = r[i] /\ t[j + 1] = r[i + 1]
      BY <2>4
    <3>2. Looks(r, i) => ~EdgeRefused(r, i) /\ ~MustConvert(r, i)
      BY <1>2, <1>4, <3>1
    <3>3. Meets(objs, r[i], r[i + 1])
      BY <3>1, <3>2, EdgeWithout
    <3> QED
      BY <3>1, <3>3
  <2> QED
    BY <2>1, <2>2, <2>3, <2>4 DEF Neighbours
<1>10. ASSUME NEW j \in 1..Len(t)
       PROVE  WritesPcs(objs, t[j])
  <2>1. (\E i \in 1..Len(r) : t[j] = r[i]) \/ (\E i \in X : t[j] = e[i])
    BY <1>8 DEF Threads
  <2>2. \A i \in 1..Len(r) : WritesPcs(objs, r[i])
    BY DEF WritePcs
  <2>3. \A i \in X : WritesPcs(objs, e[i])
    BY <1>7 DEF WritesPcs
  <2> QED
    BY <2>1, <2>2, <2>3
<1>11. t \in Seq(Xforms) /\ Len(t) \in Nat
  BY <1>8, LenProperties DEF Threads
<1>12. CASE 0 \notin edges
  <2>1. d = t
    BY <1>5, <1>11, <1>12, ConcatEmptySeq
  <2> QED
    BY <1>9, <1>10, <2>1 DEF Met, WritePcs, d
<1>13. CASE 0 \in edges
  <2>1. d = <<first>> \o t
    BY <1>5, <1>13
  <2>2. t[1] = r[1]
    <3>1. Starts(Xforms, r, X, e, t, p)
      BY <1>6, <1>8 DEF Starts
    <3> QED
      BY <3>1, ThreadFirst
  <2>3. 0 \in 0..Len(r) /\ 0 # Len(r) /\ 0 + 1 = 1
    BY <1>1
  <2>4. Before(r, 0) \in Spaces /\ After(r, 0) \in Spaces
    BY <2>3, EdgeSpaces
  <2>5. first \in Xforms /\ first.kind = "pcs"
    BY <2>4, PcsXformIs DEF first
  <2>6. Meets(objs, first, r[1])
    BY <2>3, EdgeWith DEF first
  <2>7. /\ Len(d) = Len(t) + 1 /\ d[1] = first
        /\ \A i \in 1..Len(t) : d[i + 1] = t[i]
        /\ \A j \in 1..(Len(t) + 1) : j = 1 \/ \E i \in 1..Len(t) : j = i + 1
    BY <1>11, <2>1, <2>5, PrefixIs
  <2>8. ASSUME NEW j \in 1..Len(d)
        PROVE  WritesPcs(objs, d[j])
    <3>1. WritesPcs(objs, first)
      BY <2>5 DEF WritesPcs
    <3> QED
      BY <1>10, <2>7, <3>1
  <2>9. ASSUME NEW j \in 1..(Len(d) - 1)
        PROVE  Meets(objs, d[j], d[j + 1])
    <3>1. j \in 1..Len(t) /\ d[j + 1] = t[j]
      BY <1>11, <2>7
    <3>2. CASE j = 1
      BY <2>2, <2>6, <2>7, <3>1, <3>2
    <3>3. ASSUME NEW i \in 1..Len(t), j = i + 1
          PROVE  Meets(objs, d[j], d[j + 1])
      <4>1. i \in 1..(Len(t) - 1) /\ d[j] = t[i] /\ d[j + 1] = t[i + 1]
        BY <1>11, <2>7, <3>1, <3>3
      <4> QED
        BY <1>9, <4>1
    <3>4. j = 1 \/ \E i \in 1..Len(t) : j = i + 1
      BY <1>11, <2>7, <3>1
    <3> QED
      BY <3>2, <3>3, <3>4
  <2> QED
    BY <2>8, <2>9 DEF Met, WritePcs, d
<1> QED
  BY <1>12, <1>13

\* SameKinds of objects that keep their kinds.
LEMMA UsedKinds ==
  ASSUME Types, NEW c \in Seq(Xforms), Owned(c, freed),
         NEW o, \A n \in DOMAIN objs : o[n].kind = objs[n].kind
  PROVE  SameKinds(c, objs, o)
BY KindsKept DEF SameKinds

LEMMA CreatedWrites ==
  ASSUME NEW n, NEW k, NEW lut, NEW input, NEW o, o[n].kind = k
  PROVE  WritesPcs(o, Created(n, k, lut, input))
<1> DEFINE c == Created(n, k, lut, input)
<1>1. /\ c.obj = n
      /\ c.to = CASE lut = "gamut" -> "gamt" [] c.mcs = "to" -> "MCS"
                  [] c.input -> Profile[k].pcs [] OTHER -> Profile[k].space
  BY DEF Created
<1> HIDE DEF c
<1>2. "gamt" \notin PcsSpaces /\ "MCS" \notin PcsSpaces
  BY DEF PcsSpaces
<1>3. c.input /\ c.to \in PcsSpaces => c.to = Profile[k].pcs
  BY <1>1, <1>2
<1>4. WritesPcs(o, c)
  BY <1>1, <1>3 DEF WritesPcs
<1> QED
  BY <1>4 DEF c

LEMMA JoinedWrites ==
  ASSUME IInv, Meeting, begun = 0, NEW k \in DOMAIN Profile, NEW lut \in Luts3
  PROVE  WritePcs(Joined(k, lut), objs)
<1> DEFINE j == Joined(k, lut)
<1>1. /\ j \in Seq(Xforms)
      /\ \A i \in DOMAIN j : i \in DOMAIN chain /\ (j[i] = chain[i] \/ j[i] = Converted(chain[i]))
  BY JoinedIs
<1> HIDE DEF j
<1>2. DOMAIN j = 1..Len(j) /\ DOMAIN chain = 1..Len(chain)
  BY <1>1, LenProperties DEF IInv, Types
<1>3. \A i \in 1..Len(chain) : WritesPcs(objs, chain[i]) /\ WritesPcs(objs, Converted(chain[i]))
  BY CreatedWrites DEF Meeting, WritePcs, Converted
<1>4. WritePcs(j, objs)
  BY <1>1, <1>2, <1>3 DEF WritePcs
<1> QED
  BY <1>4 DEF j

\* What AddXform does to the chain, whether it refuses the profile or not.
LEMMA AddMeets ==
  ASSUME IInv, Meeting, NEW k \in DOMAIN Profile, NEW way \in Ways, NEW lut \in Luts(k),
         AddXform(k, way, lut) \/ AddXformRefused(k, way, lut)
  PROVE  Meeting'
<1>1. /\ lut \in Luts3 /\ begun = 0 /\ ~valid /\ valid' = valid /\ Types
      /\ objs' = Append(objs, Added(k, way, lut))
  BY LutsAre DEF AddXform, AddXformRefused, MayAdd, IInv, Unbegun
<1> DEFINE j == Joined(k, lut)
           m == Len(objs)
           x == Created(m + 1, k, lut, AsInput(k, lut))
<1>2. /\ \A n \in DOMAIN objs : objs'[n].kind = objs[n].kind
      /\ objs'[m + 1].kind = k
  <2>1. /\ objs \in Seq(Objects) /\ m \in Nat /\ DOMAIN objs = 1..m
        /\ Added(k, way, lut) \in Objects /\ Added(k, way, lut).kind = k
    BY <1>1, AddedIs, LenProperties DEF Types
  <2> HIDE DEF m
  <2>2. objs'[m + 1] = Added(k, way, lut) /\ \A n \in 1..m : objs'[n] = objs[n]
    BY <1>1, <2>1 DEF m
  <2> QED
    BY <2>1, <2>2
<1>3. /\ chain \in Seq(Xforms) /\ Owned(chain, freed) /\ WritePcs(chain, objs)
      /\ j \in Seq(Xforms) /\ Owned(j, freed) /\ WritePcs(j, objs)
  BY <1>1, JoinedIs, JoinedWrites DEF IInv, Types, Meeting
<1>4. WritesPcs(objs', x)
  BY <1>2, CreatedWrites
<1> HIDE DEF j, x, m
<1>5. WritePcs(chain, objs') /\ WritePcs(j, objs')
  <2>1. SameKinds(chain, objs, objs') /\ SameKinds(j, objs, objs')
    BY <1>1, <1>2, <1>3, UsedKinds
  <2> QED
    BY <1>3, <2>1, MeetingKept
<1>6. chain' \in {chain, j, Append(j, x)}
  BY DEF AddXform, AddXformRefused, ChainRefused, j, x, m
<1>7. WritePcs(Append(j, x), objs')
  <2>1. /\ Len(j) \in Nat /\ Len(Append(j, x)) = Len(j) + 1
        /\ \A i \in 1..Len(j) : Append(j, x)[i] = j[i]
        /\ Append(j, x)[Len(j) + 1] = x
    BY <1>3, LenProperties
  <2>2. \A i \in 1..(Len(j) + 1) : i \in 1..Len(j) \/ i = Len(j) + 1
    BY <2>1
  <2> QED
    BY <1>4, <1>5, <2>1, <2>2 DEF WritePcs
<1> QED
  BY <1>1, <1>5, <1>6, <1>7 DEF Meeting

\* Begin leaves the kinds of the profiles as they are.
LEMMA BeginKinds ==
  ASSUME IInv, BeginEnds, NEW c \in Seq(Xforms), Owned(c, freed)
  PROVE  SameKinds(c, objs, objs')
<1>1. Types /\ objs' = RangeTagsRead
  BY DEF IInv, BeginEnds
<1>2. \A n \in DOMAIN objs : objs'[n].kind = objs[n].kind
  BY <1>1, RangeTagsReadIs
<1> QED
  BY <1>1, <1>2, UsedKinds

LEMMA BeginFailsMeets ==
  ASSUME IInv, Meeting, BeginFails \/ ConnectFails
  PROVE  Meeting'
<1> DEFINE r == WithRange(chain)
<1>1. BeginEnds /\ chain' = r /\ valid' = valid
  BY DEF BeginFails, ConnectFails
<1>2. /\ Types /\ chain # << >> /\ chain \in Seq(Xforms) /\ Owned(chain, freed)
      /\ r \in Seq(Xforms) /\ Owned(r, freed)
  BY <1>1, BeginEndsIs, RangeIs DEF IInv, Types
<1>3. WritePcs(r, objs) /\ (valid => Met(r, objs))
  BY <1>2, RangeKeepsMeeting DEF Meeting
<1> HIDE DEF r
<1>4. SameKinds(r, objs, objs')
  BY <1>1, <1>2, BeginKinds
<1> QED
  BY <1>1, <1>2, <1>3, <1>4, MeetingKept DEF Meeting

LEMMA ConnectMeets ==
  ASSUME IInv, Meeting, Connect
  PROVE  Meeting'
<1> DEFINE r == WithRange(chain)
<1>1. BeginEnds
  BY DEF Connect
<1>2. PICK edges \in Connections(r, Len(r) + 1) : chain' = WithPcs(r, edges)
  BY DEF Connect
<1>3. /\ Types /\ chain # << >> /\ chain \in Seq(Xforms) /\ Owned(chain, freed)
      /\ r \in Seq(Xforms) /\ r # << >> /\ Owned(r, freed) /\ dest' \in Spaces
      /\ chain' \in Seq(Xforms) /\ Owned(chain', freed)
  BY <1>1, BeginEndsIs, ConnectIs, RangeIs DEF IInv, Types
<1>4. WritePcs(r, objs)
  BY <1>3, RangeKeepsMeeting DEF Meeting
<1> HIDE DEF r
<1>5. WritePcs(chain', objs) /\ Met(chain', objs)
  BY <1>2, <1>3, <1>4, PcsMeets
<1>6. SameKinds(chain', objs, objs')
  BY <1>1, <1>3, BeginKinds
<1> QED
  BY <1>3, <1>5, <1>6, MeetingKept DEF Meeting

LEMMA RemoveAllIOMeets ==
  ASSUME IInv, Meeting, RemoveAllIO
  PROVE  Meeting'
<1>1. /\ Types /\ chain \in Seq(Xforms) /\ Owned(chain, freed)
      /\ chain' = chain /\ valid' = valid
  BY DEF IInv, Types, RemoveAllIO
<1>2. \A n \in DOMAIN objs : objs'[n].kind = objs[n].kind
  BY <1>1, RemoveAllIOIs
<1>3. SameKinds(chain, objs, objs')
  BY <1>1, <1>2, UsedKinds
<1> QED
  BY <1>1, <1>3, MeetingKept DEF Meeting

LEMMA MeetingInvariant == IInv /\ Meeting /\ [Next]_vars => Meeting'
<1> SUFFICES ASSUME IInv, Meeting, [Next]_vars
             PROVE  Meeting'
  OBVIOUS
<1>1. ASSUME NEW k \in DOMAIN Profile, NEW way \in Ways, NEW lut \in Luts(k),
             AddXform(k, way, lut) \/ AddXformRefused(k, way, lut)
      PROVE  Meeting'
  BY <1>1, AddMeets
<1>2. CASE BeginRefused
  BY <1>2 DEF BeginRefused, Meeting
<1>3. CASE BeginFails \/ ConnectFails
  BY <1>3, BeginFailsMeets
<1>4. CASE ApplyFails
  BY <1>4, ConnectMeets DEF ApplyFails
<1>5. ASSUME NEW allocApply \in BOOLEAN, Begin(allocApply)
      PROVE  Meeting'
  BY <1>5, ConnectMeets DEF Begin
<1>6. CASE RemoveAllIO
  BY <1>6, RemoveAllIOMeets
<1>7. CASE Delete
  <2>1. chain' = << >>
    BY <1>7 DEF Delete
  <2>2. Len(<< >>) = 0 /\ 1..0 = {} /\ 1..(0 - 1) = {}
    OBVIOUS
  <2> QED
    BY <2>1, <2>2 DEF Meeting, WritePcs, Met
<1>8. CASE UNCHANGED vars
  BY <1>8 DEF vars, Meeting
<1> QED
  BY <1>1, <1>2, <1>3, <1>4, <1>5, <1>6, <1>7, <1>8 DEF Next

LEMMA InitMeets == Init => Meeting
<1> SUFFICES ASSUME Init
             PROVE  Meeting
  OBVIOUS
<1>1. chain = << >> /\ ~valid
  BY DEF Init
<1>2. Len(<< >>) = 0 /\ 1..0 = {}
  OBVIOUS
<1> QED
  BY <1>1, <1>2 DEF Meeting, WritePcs

LEMMA MeetingImplies == Meeting => PcsSidesMeet
BY ReadsInIs DEF Meeting, Met, Meets, PcsSidesMeet
-----------------------------------------------------------------------------
(* The theorems *)

\* IInv is an invariant: the state of the CMM has its types, every profile in use
\* has one owner in the chain, and until Begin the chain is of owning profiles.
THEOREM ChainStaysOwned == Spec => []IInv
<1>1. Init => IInv
  BY InitIsGood
<1>2. IInv /\ [Next]_vars => IInv'
  BY IInvKept
<1> QED
  BY <1>1, <1>2, PTL DEF Spec

\* Whatever profiles are added and refused, and whatever Begin inserts or fails
\* to, each profile object has been deleted once or one transform of the chain
\* will: none leaks, none is deleted twice, none is used after it.
THEOREM EveryProfileOwnedOnce == Spec => []ProfilesOwnedOnce
<1>1. Spec => []IInv
  BY ChainStaysOwned
<1>2. IInv => ProfilesOwnedOnce
  BY IInvImplies
<1> QED
  BY <1>1, <1>2, PTL

\* After a Begin that succeeds, an extended-range PCS has one conversion after
\* it where one is owed, and none elsewhere, for chains of any length.
THEOREM RangeConvertedOnce == Spec => []ConvertedOnce
<1>1. Init => ConvertedOnce
  BY DEF Init, ConvertedOnce
<1>2. IInv /\ ConvertedOnce /\ [Next]_vars => ConvertedOnce'
  BY ConvertedKept
<1>3. Spec => []IInv
  BY ChainStaysOwned
<1> QED
  BY <1>1, <1>2, <1>3, PTL DEF Spec

\* Whatever the profiles say of themselves, where a transform of a valid CMM
\* writes a PCS or the next one reads one, the PCS is the same on both sides: what
\* a multiplex join or a range conversion does to the chain undoes it nowhere.
THEOREM PcsSidesAlwaysMeet == Spec => []PcsSidesMeet
<1>1. Init => Meeting
  BY InitMeets
<1>2. IInv /\ Meeting /\ [Next]_vars => Meeting'
  BY MeetingInvariant
<1>3. Meeting => PcsSidesMeet
  BY MeetingImplies
<1>4. Spec => []IInv
  BY ChainStaysOwned
<1> QED
  BY <1>1, <1>2, <1>3, <1>4, PTL DEF Spec
=============================================================================

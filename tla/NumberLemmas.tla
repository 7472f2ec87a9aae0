---------------------------- MODULE NumberLemmas ----------------------------
(***************************************************************************)
(* Induction over the natural numbers, as a fact about sets: the proofs    *)
(* about what a loop leaves behind rest on it.  What the recursive         *)
(* functions of Loops are, and what Min and RemoveAt of the community      *)
(* modules are.                                                            *)
(***************************************************************************)
EXTENDS Loops, SequencesExt, FiniteSetsExt, FiniteSetTheorems, WellFoundedInduction, TLAPS

\* A set of natural numbers that is not empty has a least element.
LEMMA LeastNumber ==
  ASSUME NEW T \in SUBSET Nat, T # {}
  PROVE  \E m \in T : \A n \in T : m <= n
<1>1. PICK k \in T : TRUE
  OBVIOUS
<1> DEFINE S == 0..k
           Initials == {0..n : n \in T \cap S}
<1>2. IsFiniteSet(S)
  BY <1>1, FS_Interval
<1>3. IsWellFoundedOn(StrictSubsetOrdering(S), SUBSET S)
  BY <1>2, FS_StrictSubsetOrderingWellFounded, FS_FiniteSubsetsOfFinite, Zenon
<1>4. Initials \subseteq SUBSET S /\ Initials # {}
  <2>1. 0..k \in Initials
    BY <1>1
  <2>2. \A n \in T \cap S : 0..n \subseteq S
    BY <1>1
  <2> QED BY <2>1, <2>2
<1>5. PICK I \in Initials : \A J \in Initials : ~(<<J, I>> \in StrictSubsetOrdering(S))
  <2> HIDE DEF Initials, S
  <2> QED BY <1>3, <1>4, WFMin, Zenon
<1>6. PICK m \in T \cap S : I = 0..m
  OBVIOUS
<1>7. ASSUME NEW n \in T, n < m PROVE FALSE
  <2>1. n \in S /\ 0..n \in Initials
    BY <1>1, <1>6, <1>7
  <2>2. 0..n \subseteq 0..m /\ m \in 0..m /\ m \notin 0..n
    BY <1>1, <1>6, <1>7
  <2>3. <<0..n, 0..m>> \in StrictSubsetOrdering(S)
    BY <1>4, <1>6, <2>1, <2>2 DEF StrictSubsetOrdering
  <2> QED BY <1>5, <1>6, <2>1, <2>3
<1> QED BY <1>6, <1>7

\* A set that holds 0 and the successor of each of its elements below n
\* holds all numbers up to n.
LEMMA UpTo ==
  ASSUME NEW n \in Nat, NEW T, 0 \in T,
         \A i \in 0..(n - 1) : i \in T => i + 1 \in T
  PROVE  \A i \in 0..n : i \in T
<1> DEFINE Missing == {i \in 0..n : i \notin T}
<1> SUFFICES ASSUME Missing # {} PROVE FALSE
  OBVIOUS
<1>0. Missing \in SUBSET Nat
  OBVIOUS
<1>1. PICK m \in Missing : \A i \in Missing : m <= i
  <2> HIDE DEF Missing
  <2> QED BY <1>0, LeastNumber
<1>2. m - 1 \in 0..(n - 1) /\ m - 1 \in T
  BY <1>1
<1> QED BY <1>1, <1>2

\* Min is the least element.
LEMMA MinIn ==
    ASSUME NEW S \in SUBSET Nat, S # {}
    PROVE  Min(S) \in S /\ \A n \in S : Min(S) <= n
<1>1. \E m \in S : \A n \in S : m <= n
  BY LeastNumber
<1> QED BY <1>1 DEF Min

\* Removing from a sequence closes the gap.
LEMMA RemoveAtIs ==
    ASSUME NEW S, NEW s \in Seq(S), NEW i \in DOMAIN s
    PROVE  /\ RemoveAt(s, i) \in Seq(S) /\ Len(RemoveAt(s, i)) = Len(s) - 1
           /\ \A j \in 1 .. Len(s) - 1 : RemoveAt(s, i)[j] = IF j < i THEN s[j] ELSE s[j + 1]
<1> DEFINE r == RemoveAt(s, i)
<1>1. /\ r \in Seq(S) /\ Len(r) = Len(s) - 1
      /\ \A j \in 1 .. Len(s) - 1 : r[j] = IF j < i THEN s[j] ELSE s[j + 1]
  <2> DEFINE front == SubSeq(s, 1, i - 1)
             back == SubSeq(s, i + 1, Len(s))
  <2>1. /\ front \in Seq(S) /\ Len(front) = i - 1
        /\ \A j \in 1 .. i - 1 : front[j] = s[j]
    OBVIOUS
  <2>2. /\ back \in Seq(S) /\ Len(back) = Len(s) - i
        /\ \A j \in 1 .. Len(s) - i : back[j] = s[i + j]
    OBVIOUS
  <2>3. r = front \o back
    BY DEF RemoveAt
  <2> HIDE DEF front, back, r
  <2>4. r \in Seq(S) /\ Len(r) = Len(s) - 1
    BY <2>1, <2>2, <2>3
  <2>5. \A j \in 1 .. Len(s) - 1 :
          r[j] = IF j <= Len(front) THEN front[j] ELSE back[j - Len(front)]
    BY <2>1, <2>2, <2>3, SMTT(30)
  <2>6. ASSUME NEW j \in 1 .. Len(s) - 1
        PROVE  r[j] = IF j < i THEN s[j] ELSE s[j + 1]
    <3>1. CASE j < i
      BY <2>1, <2>5, <3>1, SMTT(30)
    <3>2. CASE j >= i
      <4>1. j - (i - 1) \in 1 .. Len(s) - i /\ i + (j - (i - 1)) = j + 1
        BY <3>2
      <4> QED BY <2>1, <2>2, <2>5, <3>2, <4>1
    <3> QED BY <3>1, <3>2
  <2> QED BY <2>4, <2>6
<1> QED BY <1>1

-----------------------------------------------------------------------------
(* Loops and sums. *)

\* The recursive definition of Repeat has a solution: the states of the loop.
LEMMA RepeatIs ==
    ASSUME NEW Round, NEW first, NEW n \in Nat
    PROVE  \E x : /\ x[0] = first
                  /\ \A k \in 1 .. n : x[k] = Round[k][x[k - 1]]
                  /\ Repeat(Round, first, n) = x[n]
<1> DEFINE Solves(g, m) ==
             /\ g = [k \in 0 .. m |-> g[k]]
             /\ \A k \in 0 .. m : g[k] = IF k = 0 THEN first ELSE Round[k][g[k - 1]]
           Solved == {m \in 0 .. n : \E g : Solves(g, m)}
<1>1. 0 \in Solved
  <2> DEFINE h == [k \in 0 .. 0 |-> first]
  <2>1. h = [k \in 0 .. 0 |-> h[k]] /\ h[0] = first /\ \A k \in 0 .. 0 : k = 0
    OBVIOUS
  <2>2. Solves(h, 0)
    <3> HIDE DEF h
    <3> QED BY <2>1
  <2>3. 0 \in 0 .. n
    OBVIOUS
  <2> QED BY <2>2, <2>3
<1>2. ASSUME NEW m \in 0 .. (n - 1), m \in Solved PROVE m + 1 \in Solved
  <2>1. PICK g : Solves(g, m)
    BY <1>2
  <2> DEFINE h == [k \in 0 .. (m + 1) |-> IF k <= m THEN g[k] ELSE Round[k][g[m]]]
  <2>2. \A k \in 0 .. m : g[k] = IF k = 0 THEN first ELSE Round[k][g[k - 1]]
    BY <2>1
  <2>3. ASSUME NEW k \in 0 .. (m + 1)
        PROVE  h[k] = IF k = 0 THEN first ELSE Round[k][h[k - 1]]
    <3>1. CASE k <= m
      <4>1. h[k] = g[k] /\ (k # 0 => h[k - 1] = g[k - 1])
        BY <3>1
      <4> HIDE DEF h
      <4> QED BY <2>2, <3>1, <4>1
    <3>2. CASE k = m + 1
      <4>1. h[k] = Round[k][g[m]] /\ h[k - 1] = g[m] /\ k # 0
        BY <3>2
      <4> HIDE DEF h
      <4> QED BY <4>1
    <3> QED BY <3>1, <3>2
  <2>4. Solves(h, m + 1)
    <3> HIDE DEF h
    <3>1. h = [k \in 0 .. (m + 1) |-> h[k]]
      BY DEF h
    <3> QED BY <2>3, <3>1
  <2>5. m + 1 \in 0 .. n
    OBVIOUS
  <2> QED BY <2>4, <2>5
<1>3. n \in Solved
  <2>1. \A m \in 0 .. (n - 1) : m \in Solved => m + 1 \in Solved
    BY <1>2
  <2> HIDE DEF Solved
  <2>2. \A m \in 0 .. n : m \in Solved
    BY <1>1, <2>1, UpTo
  <2> QED BY <2>2
<1> DEFINE after ==
             CHOOSE g : g = [k \in 0 .. n |-> IF k = 0 THEN first ELSE Round[k][g[k - 1]]]
<1>4. after = [k \in 0 .. n |-> IF k = 0 THEN first ELSE Round[k][after[k - 1]]]
  <2>1. PICK g : g = [k \in 0 .. n |-> IF k = 0 THEN first ELSE Round[k][g[k - 1]]]
    BY <1>3
  <2> QED BY <2>1
<1>5. Repeat(Round, first, n) = after[n]
  BY DEF Repeat
<1>6. after[0] = first /\ \A k \in 1 .. n : after[k] = Round[k][after[k - 1]]
  <2> HIDE DEF after
  <2> QED BY <1>4
<1> QED BY <1>5, <1>6

\* A loop invariant: a set of states for every round, the state after it among
\* them.
LEMMA LoopInvariant ==
    ASSUME NEW n \in Nat, NEW Round, NEW first, NEW I, first \in I[0],
           \A k \in 1 .. n : \A s \in I[k - 1] : Round[k][s] \in I[k]
    PROVE  Repeat(Round, first, n) \in I[n]
<1>1. PICK x : /\ x[0] = first
               /\ \A k \in 1 .. n : x[k] = Round[k][x[k - 1]]
               /\ Repeat(Round, first, n) = x[n]
  BY RepeatIs
<1> DEFINE T == {k \in 0 .. n : x[k] \in I[k]}
<1>2. 0 \in T
  BY <1>1
<1>3. ASSUME NEW k \in 0 .. (n - 1), k \in T PROVE k + 1 \in T
  <2>1. k + 1 \in 1 .. n /\ (k + 1) - 1 = k /\ x[k] \in I[k]
    BY <1>3
  <2> QED BY <1>1, <2>1
<1>4. n \in T
  <2> HIDE DEF T
  <2>1. \A k \in 0 .. (n - 1) : k \in T => k + 1 \in T
    BY <1>3
  <2>2. \A k \in 0 .. n : k \in T
    BY <1>2, <2>1, UpTo
  <2> QED BY <2>2
<1> QED BY <1>1, <1>4

\* SumTo is a loop that adds f[k] in round k, so its definition has a solution
\* too: the partial sums.
LEMMA PartialSums ==
    ASSUME NEW f, NEW n \in Nat, \A k \in 1 .. n : f[k] \in Nat
    PROVE  \E s : /\ s[0] = 0 /\ \A k \in 0 .. n : s[k] \in Nat
                  /\ \A k \in 1 .. n : s[k] = s[k - 1] + f[k]
                  /\ SumTo(f, n) = s[n]
<1> DEFINE Round == [k \in 1 .. n |-> [s \in Nat |-> s + f[k]]]
<1>2. \A k \in 1 .. n, s \in Nat : Round[k][s] = s + f[k]
  OBVIOUS
<1> HIDE DEF Round
<1>1. PICK x : /\ x[0] = 0
               /\ \A k \in 1 .. n : x[k] = Round[k][x[k - 1]]
               /\ Repeat(Round, 0, n) = x[n]
  BY RepeatIs
<1> DEFINE T == {k \in 0 .. n : x[k] \in Nat}
<1>3. ASSUME NEW k \in 0 .. (n - 1), k \in T PROVE k + 1 \in T
  <2>1. k + 1 \in 1 .. n /\ (k + 1) - 1 = k /\ x[k] \in Nat /\ f[k + 1] \in Nat
    BY <1>3
  <2>2. x[k + 1] = x[k] + f[k + 1]
    <3> HIDE DEF Round
    <3> QED BY <1>1, <1>2, <2>1
  <2> QED BY <2>1, <2>2
<1>4. \A k \in 0 .. n : x[k] \in Nat
  <2>1. 0 \in T
    BY <1>1
  <2>2. \A k \in 0 .. (n - 1) : k \in T => k + 1 \in T
    BY <1>3
  <2> HIDE DEF T
  <2>3. \A k \in 0 .. n : k \in T
    BY <2>1, <2>2, UpTo
  <2> QED BY <2>3 DEF T
<1> DEFINE s == [k \in 0 .. n |-> x[k]]
<1>5. \A k \in 1 .. n : x[k] = x[k - 1] + f[k]
  <2> HIDE DEF Round
  <2> QED BY <1>1, <1>2, <1>4
<1>6. s = [k \in 0 .. n |-> IF k = 0 THEN 0 ELSE s[k - 1] + f[k]]
  <2>1. ASSUME NEW k \in 0 .. n PROVE s[k] = IF k = 0 THEN 0 ELSE s[k - 1] + f[k]
    <3>1. s[k] = x[k]
      OBVIOUS
    <3>2. CASE k = 0
      BY <1>1, <3>1, <3>2
    <3>3. CASE k # 0
      <4>1. k \in 1 .. n /\ k - 1 \in 0 .. n
        BY <3>3
      <4>2. s[k - 1] = x[k - 1]
        BY <4>1
      <4> HIDE DEF s
      <4> QED BY <1>5, <3>1, <3>3, <4>1, <4>2
    <3> QED BY <3>2, <3>3
  <2>2. s = [k \in 0 .. n |-> s[k]]
    OBVIOUS
  <2> HIDE DEF s
  <2> QED BY <2>1, <2>2
<1> DEFINE sum == CHOOSE g : g = [k \in 0 .. n |-> IF k = 0 THEN 0 ELSE g[k - 1] + f[k]]
<1>7. sum = [k \in 0 .. n |-> IF k = 0 THEN 0 ELSE sum[k - 1] + f[k]]
  <2> HIDE DEF s
  <2> QED BY <1>6
<1>8. SumTo(f, n) = sum[n]
  BY DEF SumTo
<1>9. sum[0] = 0 /\ \A k \in 1 .. n : sum[k] = sum[k - 1] + f[k]
  <2> HIDE DEF sum
  <2> QED BY <1>7
<1> HIDE DEF sum
<1> DEFINE U == {k \in 0 .. n : sum[k] \in Nat}
<1>10. ASSUME NEW k \in 0 .. (n - 1), k \in U PROVE k + 1 \in U
  <2>1. k + 1 \in 1 .. n /\ (k + 1) - 1 = k /\ sum[k] \in Nat /\ f[k + 1] \in Nat
    BY <1>10
  <2>2. sum[k + 1] = sum[k] + f[k + 1]
    BY <1>9, <2>1
  <2> QED BY <2>1, <2>2
<1>11. \A k \in 0 .. n : sum[k] \in Nat
  <2>1. 0 \in U
    BY <1>9
  <2>2. \A k \in 0 .. (n - 1) : k \in U => k + 1 \in U
    BY <1>10
  <2> HIDE DEF U
  <2>3. \A k \in 0 .. n : k \in U
    BY <2>1, <2>2, UpTo
  <2> QED BY <2>3 DEF U
<1> QED BY <1>8, <1>9, <1>11

\* A sum of natural numbers is one, and a sum of nothing is 0.
LEMMA SumIsNat ==
    ASSUME NEW f, NEW n \in Nat, \A k \in 1 .. n : f[k] \in Nat
    PROVE  SumTo(f, n) \in Nat /\ (n = 0 => SumTo(f, n) = 0)
<1>1. PICK s : /\ s[0] = 0 /\ \A k \in 0 .. n : s[k] \in Nat
               /\ SumTo(f, n) = s[n]
  BY PartialSums
<1> QED BY <1>1

\* The last term of a sum, and what is left of the sum without it.
LEMMA SumStep ==
    ASSUME NEW n \in Nat, NEW f, \A k \in 1 .. (n + 1) : f[k] \in Nat
    PROVE  SumTo(f, n + 1) = SumTo(f, n) + f[n + 1]
<1>1. PICK a : /\ a[0] = 0 /\ \A k \in 0 .. n : a[k] \in Nat
               /\ \A k \in 1 .. n : a[k] = a[k - 1] + f[k]
               /\ SumTo(f, n) = a[n]
  BY PartialSums
<1>2. PICK b : /\ b[0] = 0 /\ \A k \in 0 .. (n + 1) : b[k] \in Nat
               /\ \A k \in 1 .. (n + 1) : b[k] = b[k - 1] + f[k]
               /\ SumTo(f, n + 1) = b[n + 1]
  <2>1. n + 1 \in Nat
    OBVIOUS
  <2> QED BY <2>1, PartialSums
<1> DEFINE T == {k \in 0 .. n : b[k] = a[k]}
<1>3. 0 \in T
  BY <1>1, <1>2
<1>4. ASSUME NEW k \in 0 .. (n - 1), k \in T PROVE k + 1 \in T
  <2>1. k + 1 \in 1 .. n /\ k + 1 \in 1 .. (n + 1) /\ (k + 1) - 1 = k /\ b[k] = a[k]
    BY <1>4
  <2>2. a[k + 1] = a[k] + f[k + 1] /\ b[k + 1] = b[k] + f[k + 1]
    BY <1>1, <1>2, <2>1
  <2> QED BY <2>1, <2>2
<1>5. n \in T
  <2> HIDE DEF T
  <2>1. \A k \in 0 .. (n - 1) : k \in T => k + 1 \in T
    BY <1>4
  <2>2. \A k \in 0 .. n : k \in T
    BY <1>3, <2>1, UpTo
  <2> QED BY <2>2
<1>6. b[n + 1] = b[n] + f[n + 1]
  <2>1. n + 1 \in 1 .. (n + 1) /\ (n + 1) - 1 = n
    OBVIOUS
  <2> QED BY <1>2, <2>1
<1> QED BY <1>1, <1>2, <1>5, <1>6

\* The longer the sum, the larger.
LEMMA SumGrows ==
    ASSUME NEW n \in Nat, NEW f, \A k \in 1 .. n : f[k] \in Nat, NEW m \in 0 .. n
    PROVE  SumTo(f, m) <= SumTo(f, n)
<1> DEFINE T == {k \in 0 .. (n - m) : SumTo(f, m) <= SumTo(f, m + k)}
<1>1. \A k \in 0 .. n : SumTo(f, k) \in Nat
  <2> SUFFICES ASSUME NEW k \in 0 .. n PROVE SumTo(f, k) \in Nat
    OBVIOUS
  <2>1. k \in Nat /\ \A j \in 1 .. k : f[j] \in Nat
    OBVIOUS
  <2> QED BY <2>1, SumIsNat
<1>2. 0 \in T
  BY <1>1
<1>3. ASSUME NEW k \in 0 .. (n - m - 1), k \in T PROVE k + 1 \in T
  <2>1. m + k \in Nat /\ m + k + 1 \in 1 .. n /\ \A j \in 1 .. (m + k + 1) : f[j] \in Nat
    OBVIOUS
  <2>2. SumTo(f, m + k + 1) = SumTo(f, m + k) + f[m + k + 1]
    BY <2>1, SumStep
  <2>3. /\ SumTo(f, m + k) \in Nat /\ SumTo(f, m) \in Nat /\ SumTo(f, m) <= SumTo(f, m + k)
        /\ f[m + k + 1] \in Nat
    BY <1>1, <1>3, <2>1
  <2>4. m + (k + 1) = m + k + 1
    OBVIOUS
  <2> HIDE DEF T
  <2>5. SumTo(f, m) <= SumTo(f, m + (k + 1))
    BY <2>2, <2>3, <2>4
  <2> QED BY <2>5 DEF T
<1>4. n - m \in T
  <2>1. \A k \in 0 .. (n - m - 1) : k \in T => k + 1 \in T
    BY <1>3
  <2> HIDE DEF T
  <2>2. n - m \in Nat
    OBVIOUS
  <2>3. \A k \in 0 .. (n - m) : k \in T
    BY <1>2, <2>1, <2>2, UpTo
  <2> QED BY <2>2, <2>3
<1>5. m + (n - m) = n
  OBVIOUS
<1> QED BY <1>4, <1>5

\* Three sums whose terms add up add up; so do two, if the third has no terms
\* but 0.
LEMMA SumAdds ==
    ASSUME NEW n \in Nat, NEW f, NEW g, NEW h,
           \A k \in 1 .. n : f[k] \in Nat /\ g[k] \in Nat /\ h[k] \in Nat
                             /\ h[k] = f[k] + g[k]
    PROVE  SumTo(h, n) = SumTo(f, n) + SumTo(g, n)
<1>1. PICK a : /\ a[0] = 0 /\ \A k \in 0 .. n : a[k] \in Nat
               /\ \A k \in 1 .. n : a[k] = a[k - 1] + f[k]
               /\ SumTo(f, n) = a[n]
  BY PartialSums
<1>2. PICK b : /\ b[0] = 0 /\ \A k \in 0 .. n : b[k] \in Nat
               /\ \A k \in 1 .. n : b[k] = b[k - 1] + g[k]
               /\ SumTo(g, n) = b[n]
  BY PartialSums
<1>3. PICK c : /\ c[0] = 0 /\ \A k \in 0 .. n : c[k] \in Nat
               /\ \A k \in 1 .. n : c[k] = c[k - 1] + h[k]
               /\ SumTo(h, n) = c[n]
  BY PartialSums
<1> DEFINE T == {k \in 0 .. n : c[k] = a[k] + b[k]}
<1>4. 0 \in T
  BY <1>1, <1>2, <1>3
<1>5. ASSUME NEW k \in 0 .. (n - 1), k \in T PROVE k + 1 \in T
  <2>1. k + 1 \in 1 .. n /\ (k + 1) - 1 = k /\ k \in 0 .. n
    OBVIOUS
  <2>2. /\ a[k + 1] = a[k] + f[k + 1] /\ b[k + 1] = b[k] + g[k + 1]
        /\ c[k + 1] = c[k] + h[k + 1]
    BY <1>1, <1>2, <1>3, <2>1
  <2>3. /\ a[k] \in Nat /\ b[k] \in Nat /\ f[k + 1] \in Nat /\ g[k + 1] \in Nat
        /\ h[k + 1] = f[k + 1] + g[k + 1]
    BY <1>1, <1>2, <2>1
  <2>4. c[k] = a[k] + b[k]
    BY <1>5
  <2> QED BY <2>1, <2>2, <2>3, <2>4
<1>6. n \in T
  <2> HIDE DEF T
  <2>1. \A k \in 0 .. (n - 1) : k \in T => k + 1 \in T
    BY <1>5
  <2>2. \A k \in 0 .. n : k \in T
    BY <1>4, <2>1, UpTo
  <2> QED BY <2>2
<1> QED BY <1>1, <1>2, <1>3, <1>6

\* A sum of zeros.
LEMMA SumOfZeros ==
    ASSUME NEW n \in Nat, NEW f, \A k \in 1 .. n : f[k] = 0
    PROVE  SumTo(f, n) = 0
<1>1. \A k \in 1 .. n : f[k] \in Nat /\ f[k] = f[k] + f[k]
  OBVIOUS
<1>2. SumTo(f, n) = SumTo(f, n) + SumTo(f, n) /\ SumTo(f, n) \in Nat
  BY <1>1, SumAdds, SumIsNat
<1>3. \A x \in Nat : x = x + x => x = 0
  OBVIOUS
<1> QED BY <1>2, <1>3

\* Where two functions differ in one place, their sums differ as that does.
LEMMA SumChanges ==
    ASSUME NEW n \in Nat, NEW f, NEW g, NEW x \in 1 .. n,
           \A k \in 1 .. n : f[k] \in Nat /\ g[k] \in Nat /\ (k # x => g[k] = f[k])
    PROVE  SumTo(g, n) = SumTo(f, n) - f[x] + g[x]
<1>1. PICK a : /\ a[0] = 0 /\ \A k \in 0 .. n : a[k] \in Nat
               /\ \A k \in 1 .. n : a[k] = a[k - 1] + f[k]
               /\ SumTo(f, n) = a[n]
  BY PartialSums
<1>2. PICK b : /\ b[0] = 0 /\ \A k \in 0 .. n : b[k] \in Nat
               /\ \A k \in 1 .. n : b[k] = b[k - 1] + g[k]
               /\ SumTo(g, n) = b[n]
  BY PartialSums
<1> DEFINE T == {k \in 0 .. n : b[k] = IF k < x THEN a[k] ELSE a[k] - f[x] + g[x]}
<1>3. 0 \in T
  BY <1>1, <1>2
<1>4. ASSUME NEW k \in 0 .. (n - 1), k \in T PROVE k + 1 \in T
  <2>1. k + 1 \in 1 .. n /\ (k + 1) - 1 = k /\ k \in 0 .. n
    OBVIOUS
  <2>2. a[k + 1] = a[k] + f[k + 1] /\ b[k + 1] = b[k] + g[k + 1]
    BY <1>1, <1>2, <2>1
  <2>3. /\ a[k] \in Nat /\ b[k] \in Nat /\ f[k + 1] \in Nat /\ g[k + 1] \in Nat
        /\ f[x] \in Nat /\ g[x] \in Nat
    BY <1>1, <1>2, <2>1
  <2>4. b[k] = IF k < x THEN a[k] ELSE a[k] - f[x] + g[x]
    BY <1>4
  <2>5. k + 1 # x => g[k + 1] = f[k + 1]
    BY <2>1
  <2>6. CASE k + 1 = x
    BY <2>1, <2>2, <2>3, <2>4, <2>6
  <2>7. CASE k + 1 # x
    BY <2>1, <2>2, <2>3, <2>4, <2>5, <2>7
  <2> QED BY <2>6, <2>7
<1>5. n \in T
  <2> HIDE DEF T
  <2>1. \A k \in 0 .. (n - 1) : k \in T => k + 1 \in T
    BY <1>4
  <2>2. \A k \in 0 .. n : k \in T
    BY <1>3, <2>1, UpTo
  <2> QED BY <2>2
<1> QED BY <1>1, <1>2, <1>5

\* A sum of smaller numbers is smaller.
LEMMA SumOfSmaller ==
    ASSUME NEW n \in Nat, NEW f, NEW g,
           \A k \in 1 .. n : f[k] \in Nat /\ g[k] \in Nat /\ g[k] <= f[k]
    PROVE  SumTo(g, n) <= SumTo(f, n)
<1> DEFINE d == [k \in 1 .. n |-> f[k] - g[k]]
<1>1. \A k \in 1 .. n : g[k] \in Nat /\ d[k] \in Nat /\ f[k] \in Nat /\ f[k] = g[k] + d[k]
  OBVIOUS
<1> HIDE DEF d
<1>2. SumTo(f, n) = SumTo(g, n) + SumTo(d, n)
  BY <1>1, SumAdds
<1>3. SumTo(g, n) \in Nat /\ SumTo(d, n) \in Nat
  BY <1>1, SumIsNat
<1> QED BY <1>2, <1>3
=============================================================================

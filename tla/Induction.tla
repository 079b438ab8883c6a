------------------------------ MODULE Induction ------------------------------
(***************************************************************************)
(* Induction over the natural numbers, stated of sets: a set that holds 0  *)
(* and is closed under successors holds them all.  A property is proved by *)
(* taking the set of the numbers that have it.  And what a recursive       *)
(* function needs before it can be used: that some function satisfies its  *)
(* equations.  Then what the loops of module Loops and FlattenSeq compute: *)
(* what a filter keeps and in which order, sums, numbers in a base and     *)
(* their powers, pieces and joins of sequences.                            *)
(***************************************************************************)
EXTENDS Integers, Sequences, SequencesExt, Loops, TLAPS, WellFoundedInduction,
        SequenceTheorems

(***************************************************************************)
(* Every set of natural numbers that is not empty has a least one.         *)
(***************************************************************************)
LEMMA LeastNatural ==
    ASSUME NEW T \in SUBSET Nat, T # {}
    PROVE  \E n \in T : \A m \in T : n <= m
  <1> DEFINE R == OpToRel(<, Nat)
  <1>1. IsWellFoundedOn(R, Nat)
    BY NatLessThanWellFounded
  <1>2. \A x, y \in Nat : y < x => <<y, x>> \in R
    BY DEF OpToRel
  <1> HIDE DEF R
  <1>3. PICK n \in T : \A m \in T : ~ (<<m, n>> \in R)
    BY <1>1, WFMin
  <1>4. ASSUME NEW m \in T
        PROVE  n <= m
    <2>1. m \in Nat /\ n \in Nat
      OBVIOUS
    <2>2. ~(m < n)
      BY <2>1, <1>2, <1>3
    <2> QED
      BY <2>1, <2>2
  <1> QED
    BY <1>4

(***************************************************************************)
(* Induction over the natural numbers.                                     *)
(***************************************************************************)
LEMMA NatSetInduction ==
    ASSUME NEW T, 0 \in T, \A n \in Nat : n \in T => n + 1 \in T
    PROVE  \A n \in Nat : n \in T
  <1> SUFFICES ASSUME {n \in Nat : n \notin T} # {}
               PROVE  FALSE
    OBVIOUS
  <1>1. PICK n \in {k \in Nat : k \notin T} :
               \A m \in {k \in Nat : k \notin T} : n <= m
    BY LeastNatural
  <1>2. n - 1 \in Nat /\ n - 1 \in T
    BY <1>1
  <1> QED
    BY <1>1, <1>2

(***************************************************************************)
(* Induction up to a bound, as the loops over a sequence need it.          *)
(***************************************************************************)
LEMMA IntervalInduction ==
    ASSUME NEW n \in Nat, NEW T, 0 \in T,
           \A i \in 1..n : i - 1 \in T => i \in T
    PROVE  \A i \in 0..n : i \in T
  <1> DEFINE U == {i \in Nat : i <= n => i \in T}
  <1>1. 0 \in U
    OBVIOUS
  <1>2. \A i \in Nat : i \in U => i + 1 \in U
    OBVIOUS
  <1> HIDE DEF U
  <1>3. \A i \in Nat : i \in U
    BY <1>1, <1>2, NatSetInduction
  <1> QED
    BY <1>3 DEF U

(***************************************************************************)
(* f holds the values that step, with the number of the step, takes c to.  *)
(***************************************************************************)
Iterates(f, n, S, c, step) ==
    /\ f \in [0..n -> S]
    /\ f[0] = c
    /\ \A i \in 1..n : f[i] = step[i][f[i - 1]]

(***************************************************************************)
(* A loop of n steps from c, each within S, can be run to its end.         *)
(***************************************************************************)
LEMMA IterationExists ==
    ASSUME NEW n \in Nat, NEW S, NEW c \in S, NEW step \in [1..n -> [S -> S]]
    PROVE  \E f : Iterates(f, n, S, c, step)
  <1> DEFINE Runs(f, k) == /\ f[0] = c
                           /\ \A i \in 1..k : f[i] = step[i][f[i - 1]]
             T == {k \in 0..n : \E f \in [0..n -> S] : Runs(f, k)}
  <1>1. 0 \in T
    <2>1. [i \in 0..n |-> c] \in [0..n -> S] /\ Runs([i \in 0..n |-> c], 0)
      OBVIOUS
    <2>2. 0 \in 0..n
      OBVIOUS
    <2> HIDE DEF Runs
    <2> QED
      BY <2>1, <2>2
  <1>2. ASSUME NEW k \in 1..n, k - 1 \in T
        PROVE  k \in T
    <2>1. PICK f \in [0..n -> S] : Runs(f, k - 1)
      BY <1>2
    <2> DEFINE g == [f EXCEPT ![k] = step[k][f[k - 1]]]
    <2>2. step[k][f[k - 1]] \in S
      OBVIOUS
    <2>3. g \in [0..n -> S]
      BY <2>2
    <2>4. Runs(g, k)
      <3>1. g[0] = c
        BY <2>1
      <3>2. ASSUME NEW i \in 1..k
            PROVE  g[i] = step[i][g[i - 1]]
        BY <2>1
      <3> QED
        BY <3>1, <3>2
    <2>5. k \in 0..n
      OBVIOUS
    <2> HIDE DEF Runs, g
    <2> QED
      BY <2>3, <2>4, <2>5
  <1> HIDE DEF T
  <1>3. \A k \in 0..n : k \in T
    BY <1>1, <1>2, IntervalInduction
  <1>4. n \in T
    BY <1>3
  <1> QED
    BY <1>4 DEF T, Iterates

-----------------------------------------------------------------------------
(***************************************************************************)
(* Filter satisfies its equations: kept is what it has kept so far.        *)
(***************************************************************************)
Filters(kept, s, S, T) ==
    /\ kept \in [0..Len(s) -> Seq(S)]
    /\ kept[0] = <<>>
    /\ \A i \in 1..Len(s) :
          kept[i] = IF s[i] \in T THEN Append(kept[i - 1], s[i])
                    ELSE kept[i - 1]
    /\ Filter(s, T) = kept[Len(s)]

(***************************************************************************)
(* Some function satisfies the equations of Filter, and its value at the end*)
(* of the sequence is what Filter returns.                                  *)
(***************************************************************************)
LEMMA FilterUnfold ==
    ASSUME NEW S, NEW s \in Seq(S), NEW T
    PROVE  \E kept : Filters(kept, s, S, T)
  <1> DEFINE n == Len(s)
             step == [i \in 1..n |-> [k \in Seq(S) |->
                         IF s[i] \in T THEN Append(k, s[i]) ELSE k]]
  <1>1. n \in Nat /\ \A i \in 1..n : s[i] \in S
    OBVIOUS
  <1> HIDE DEF n
  <1>2. step \in [1..n -> [Seq(S) -> Seq(S)]]
    BY <1>1
  <1>3. \A i \in 1..n, k \in Seq(S) :
           step[i][k] = IF s[i] \in T THEN Append(k, s[i]) ELSE k
    OBVIOUS
  <1> HIDE DEF step
  <1>4. PICK f : Iterates(f, n, Seq(S), <<>>, step)
    <2>1. <<>> \in Seq(S)
      OBVIOUS
    <2> QED
      BY <1>1, <1>2, <2>1, IterationExists
  <1> DEFINE body(g) == [i \in 0..n |-> IF i = 0 THEN <<>>
                                        ELSE IF s[i] \in T
                                        THEN Append(g[i - 1], s[i])
                                        ELSE g[i - 1]]
             kept == CHOOSE g : g = body(g)
  <1>5. f = body(f)
    <2>1. ASSUME NEW i \in 1..n
          PROVE  f[i] = IF s[i] \in T THEN Append(f[i - 1], s[i]) ELSE f[i - 1]
      <3>1. f[i - 1] \in Seq(S)
        BY <1>1, <1>4 DEF Iterates
      <3> QED
        BY <1>3, <1>4, <3>1 DEF Iterates
    <2>2. f[0] = <<>> /\ f = [i \in 0..n |-> f[i]]
      BY <1>4 DEF Iterates
    <2>3. \A i \in 0..n : i # 0 => i \in 1..n
      BY <1>1
    <2>4. \A i \in 0..n : f[i] = IF i = 0 THEN <<>>
                                 ELSE IF s[i] \in T
                                 THEN Append(f[i - 1], s[i]) ELSE f[i - 1]
      BY <2>1, <2>2, <2>3
    <2> QED
      BY <2>2, <2>4, Zenon
  <1>6. kept = body(kept)
    BY <1>5
  <1>7. Filter(s, T) = kept[n]
    BY DEF Filter, n
  <1> HIDE DEF kept
  <1>8. /\ kept[0] = <<>>
        /\ \A i \in 1..n : kept[i] = IF s[i] \in T
                                     THEN Append(kept[i - 1], s[i])
                                     ELSE kept[i - 1]
    <2>1. 0 \in 0..n /\ \A i \in 1..n : i \in 0..n /\ i # 0
      BY <1>1
    <2> QED
      BY <1>6, <2>1
  <1>9. \A i \in 0..n : kept[i] \in Seq(S)
    <2> DEFINE U == {i \in 0..n : kept[i] \in Seq(S)}
    <2>1. 0 \in U
      <3>1. 0 \in 0..n /\ <<>> \in Seq(S)
        BY <1>1
      <3> QED
        BY <1>8, <3>1
    <2>2. ASSUME NEW i \in 1..n, i - 1 \in U
          PROVE  i \in U
      <3>1. i \in 0..n /\ s[i] \in S /\ kept[i - 1] \in Seq(S)
        BY <1>1, <2>2
      <3>2. Append(kept[i - 1], s[i]) \in Seq(S)
        BY <3>1
      <3> QED
        BY <1>8, <3>1, <3>2
    <2> HIDE DEF U
    <2>3. \A i \in 0..n : i \in U
      BY <1>1, <2>1, <2>2, IntervalInduction
    <2> QED
      BY <2>3 DEF U
  <1>10. kept \in [0..n -> Seq(S)]
    BY <1>6, <1>9
  <1>11. Filters(kept, s, S, T)
    BY <1>7, <1>8, <1>10 DEF n, Filters
  <1> QED
    BY <1>11

(***************************************************************************)
(* at names the places in s, up to the k-th, of the elements of u, which   *)
(* are those of T, in order.                                               *)
(***************************************************************************)
Picks(u, at, s, k, T) ==
    /\ at \in [1..Len(u) -> 1..k]
    /\ \A c \in 1..Len(u) : u[c] = s[at[c]] /\ s[at[c]] \in T
    /\ \A c, d \in 1..Len(u) : c < d => at[c] < at[d]
    /\ \A i \in 1..k : s[i] \in T => \E c \in 1..Len(u) : at[c] = i

(***************************************************************************)
(* Filter keeps the elements of the set, in order, and no others.          *)
(***************************************************************************)
LEMMA FilterPicks ==
    ASSUME NEW S, NEW s \in Seq(S), NEW T
    PROVE  /\ Filter(s, T) \in Seq(S)
           /\ \E at : Picks(Filter(s, T), at, s, Len(s), T)
  <1>0. PICK kept : Filters(kept, s, S, T)
    BY FilterUnfold
  <1> DEFINE n == Len(s)
  <1>1. /\ kept \in [0..n -> Seq(S)]
        /\ kept[0] = <<>>
        /\ \A i \in 1..n :
              kept[i] = IF s[i] \in T THEN Append(kept[i - 1], s[i])
                        ELSE kept[i - 1]
        /\ Filter(s, T) = kept[n]
    BY <1>0 DEF Filters
  <1>2. n \in Nat /\ \A i \in 1..n : s[i] \in S
    OBVIOUS
  <1> HIDE DEF n
  <1> DEFINE U == {k \in 0..n : \E at : Picks(kept[k], at, s, k, T)}
  <1>3. 0 \in U
    <2>1. Len(kept[0]) = 0
      BY <1>1
    <2>2. Picks(kept[0], <<>>, s, 0, T)
      BY <2>1 DEF Picks
    <2> QED
      BY <1>2, <2>2
  <1>4. ASSUME NEW k \in 1..n, k - 1 \in U
        PROVE  k \in U
    <2>1. PICK at : Picks(kept[k - 1], at, s, k - 1, T)
      BY <1>4
    <2>2. k \in Nat /\ k - 1 \in Nat /\ k \in 0..n /\ k - 1 \in 0..n
          /\ 1..k = 1..(k - 1) \cup {k} /\ k \notin 1..(k - 1)
      BY <1>2
    <2> DEFINE u == kept[k - 1]
               m == Len(kept[k - 1])
    <2>3. u \in Seq(S) /\ m \in Nat
      BY <1>1, <2>2
    <2>4. CASE s[k] \in T
      <3> DEFINE v == Append(u, s[k])
                 to == [c \in 1..(m + 1) |-> IF c = m + 1 THEN k ELSE at[c]]
      <3>1. /\ Len(v) = m + 1
            /\ \A c \in 1..m : v[c] = u[c]
            /\ v[m + 1] = s[k]
        BY <1>2, <2>3
      <3>2. /\ 1..(m + 1) = 1..m \cup {m + 1} /\ m + 1 \notin 1..m
            /\ m + 1 \in 1..(m + 1)
        BY <2>3
      <3>3. /\ at \in [1..m -> 1..(k - 1)]
            /\ \A c \in 1..m : u[c] = s[at[c]] /\ s[at[c]] \in T
            /\ \A c, d \in 1..m : c < d => at[c] < at[d]
            /\ \A i \in 1..(k - 1) : s[i] \in T => \E c \in 1..m : at[c] = i
        BY <2>1 DEF Picks
      <3>4. v = kept[k]
        BY <1>1, <2>4
      <3> HIDE DEF u, m, v
      <3>5. /\ to[m + 1] = k
            /\ \A c \in 1..m : to[c] = at[c]
            /\ to \in [1..(m + 1) -> 1..k]
        BY <2>2, <3>2, <3>3
      <3> HIDE DEF to
      <3>6. \A c \in 1..(m + 1) : v[c] = s[to[c]] /\ s[to[c]] \in T
        BY <2>4, <3>1, <3>2, <3>3, <3>5
      <3>7. ASSUME NEW c \in 1..(m + 1), NEW d \in 1..(m + 1), c < d
            PROVE  to[c] < to[d]
        <4>1. c \in 1..m
          BY <2>3, <3>7 DEF m
        <4>2. CASE d \in 1..m
          BY <3>3, <3>5, <3>7, <4>1, <4>2
        <4>3. CASE d = m + 1
          <5>1. at[c] \in 1..(k - 1)
            BY <3>3, <4>1
          <5> QED
            BY <2>2, <3>5, <4>1, <4>3, <5>1
        <4> QED
          BY <3>2, <4>2, <4>3
      <3>8. ASSUME NEW i \in 1..k, s[i] \in T
            PROVE  \E c \in 1..(m + 1) : to[c] = i
        <4>1. CASE i = k
          BY <3>2, <3>5, <4>1
        <4>2. CASE i \in 1..(k - 1)
          <5>1. PICK c \in 1..m : at[c] = i
            BY <3>3, <3>8, <4>2
          <5> QED
            BY <3>2, <3>5, <5>1
        <4> QED
          BY <2>2, <4>1, <4>2
      <3>9. Picks(v, to, s, k, T)
        BY <3>1, <3>5, <3>6, <3>7, <3>8 DEF Picks
      <3> QED
        BY <2>2, <3>4, <3>9
    <2>5. CASE s[k] \notin T
      <3>1. kept[k] = u
        BY <1>1, <2>5
      <3> HIDE DEF u, m
      <3>2. Picks(u, at, s, k, T)
        <4>1. \A j \in 1..(k - 1) : j \in 1..k
          BY <2>2
        <4>2. /\ at \in [1..Len(u) -> 1..(k - 1)]
              /\ \A c \in 1..Len(u) : u[c] = s[at[c]] /\ s[at[c]] \in T
              /\ \A c, d \in 1..Len(u) : c < d => at[c] < at[d]
              /\ \A i \in 1..(k - 1) :
                    s[i] \in T => \E c \in 1..Len(u) : at[c] = i
          BY <2>1 DEF Picks, u
        <4>3. at \in [1..Len(u) -> 1..k]
          BY <4>1, <4>2
        <4>4. \A i \in 1..k : s[i] \in T => \E c \in 1..Len(u) : at[c] = i
          BY <2>2, <2>5, <4>2
        <4> QED
          BY <4>2, <4>3, <4>4 DEF Picks
      <3> QED
        BY <2>2, <3>1, <3>2
    <2> QED
      BY <2>4, <2>5
  <1> HIDE DEF U
  <1>5. \A k \in 0..n : k \in U
    BY <1>2, <1>3, <1>4, IntervalInduction
  <1>6. n \in 0..n
    BY <1>2
  <1>7. kept[n] \in Seq(S)
    BY <1>1, <1>2
  <1> QED
    BY <1>1, <1>5, <1>6, <1>7 DEF U, n

-----------------------------------------------------------------------------
(***************************************************************************)
(* Total satisfies its equations: sum is what it has added up so far.      *)
(***************************************************************************)
Sums(sum, s) ==
    /\ sum \in [0..Len(s) -> Nat]
    /\ sum[0] = 0
    /\ \A i \in 1..Len(s) : sum[i] = sum[i - 1] + s[i]
    /\ Total(s) = sum[Len(s)]

(***************************************************************************)
(* The same of Total: there are the partial sums it adds up.                *)
(***************************************************************************)
LEMMA TotalUnfold ==
    ASSUME NEW s \in Seq(Nat)
    PROVE  \E sum : Sums(sum, s)
  <1> DEFINE n == Len(s)
             step == [i \in 1..n |-> [k \in Nat |-> k + s[i]]]
  <1>1. n \in Nat /\ \A i \in 1..n : s[i] \in Nat
    OBVIOUS
  <1> HIDE DEF n
  <1>2. step \in [1..n -> [Nat -> Nat]]
    BY <1>1
  <1>3. \A i \in 1..n, k \in Nat : step[i][k] = k + s[i]
    OBVIOUS
  <1> HIDE DEF step
  <1>4. PICK f : Iterates(f, n, Nat, 0, step)
    <2>1. 0 \in Nat
      OBVIOUS
    <2> QED
      BY <1>1, <1>2, <2>1, IterationExists
  <1> DEFINE body(g) == [i \in 0..n |-> IF i = 0 THEN 0 ELSE g[i - 1] + s[i]]
             sum == CHOOSE g : g = body(g)
  <1>5. f = body(f)
    <2>1. ASSUME NEW i \in 1..n
          PROVE  f[i] = f[i - 1] + s[i]
      <3>1. f[i - 1] \in Nat
        BY <1>1, <1>4 DEF Iterates
      <3> QED
        BY <1>3, <1>4, <3>1 DEF Iterates
    <2>2. f[0] = 0 /\ f = [i \in 0..n |-> f[i]]
      BY <1>4 DEF Iterates
    <2>3. \A i \in 0..n : i # 0 => i \in 1..n
      BY <1>1
    <2>4. \A i \in 0..n : f[i] = IF i = 0 THEN 0 ELSE f[i - 1] + s[i]
      BY <2>1, <2>2, <2>3
    <2> QED
      BY <2>2, <2>4, Zenon
  <1>6. sum = body(sum)
    BY <1>5
  <1>7. Total(s) = sum[n]
    BY DEF Total, n
  <1> HIDE DEF sum
  <1>8. /\ sum[0] = 0
        /\ \A i \in 1..n : sum[i] = sum[i - 1] + s[i]
    <2>1. 0 \in 0..n /\ \A i \in 1..n : i \in 0..n /\ i # 0
      BY <1>1
    <2> QED
      BY <1>6, <2>1
  <1>9. \A i \in 0..n : sum[i] \in Nat
    <2> DEFINE U == {i \in 0..n : sum[i] \in Nat}
    <2>1. 0 \in U
      BY <1>1, <1>8
    <2>2. ASSUME NEW i \in 1..n, i - 1 \in U
          PROVE  i \in U
      <3>1. i \in 0..n /\ s[i] \in Nat /\ sum[i - 1] \in Nat
        BY <1>1, <2>2
      <3> QED
        BY <1>8, <3>1
    <2> HIDE DEF U
    <2>3. \A i \in 0..n : i \in U
      BY <1>1, <2>1, <2>2, IntervalInduction
    <2> QED
      BY <2>3 DEF U
  <1>10. sum \in [0..n -> Nat]
    BY <1>6, <1>9
  <1>11. Sums(sum, s)
    BY <1>7, <1>8, <1>10 DEF n, Sums
  <1> QED
    BY <1>11

(***************************************************************************)
(* A sum of natural numbers is one.                                         *)
(***************************************************************************)
LEMMA TotalIsNat ==
    ASSUME NEW s \in Seq(Nat)
    PROVE  Total(s) \in Nat
  <1>1. PICK f : Sums(f, s)
    BY TotalUnfold
  <1>2. Len(s) \in 0..Len(s)
    OBVIOUS
  <1> QED
    BY <1>1, <1>2 DEF Sums

(***************************************************************************)
(* Two sequences that agree on a part have the same sums up to there.      *)
(***************************************************************************)
LEMMA SumsAgree ==
    ASSUME NEW s \in Seq(Nat), NEW t \in Seq(Nat), NEW f, NEW g,
           Sums(f, s), Sums(g, t), NEW m \in Nat, m <= Len(s), m <= Len(t),
           \A i \in 1..m : s[i] = t[i]
    PROVE  f[m] = g[m]
  <1> DEFINE U == {i \in 0..m : f[i] = g[i]}
  <1>1. /\ f[0] = 0 /\ \A i \in 1..m : f[i] = f[i - 1] + s[i]
        /\ g[0] = 0 /\ \A i \in 1..m : g[i] = g[i - 1] + t[i]
    <2>1. \A i \in 1..m : i \in 1..Len(s) /\ i \in 1..Len(t)
      OBVIOUS
    <2> QED
      BY <2>1 DEF Sums
  <1>2. 0 \in U
    BY <1>1
  <1>3. \A i \in 1..m : i - 1 \in U => i \in U
    BY <1>1
  <1> HIDE DEF U
  <1>4. \A i \in 0..m : i \in U
    BY <1>2, <1>3, IntervalInduction
  <1>5. m \in U
    BY <1>4
  <1> QED
    BY <1>5 DEF U

(***************************************************************************)
(* The sum of nothing, and what one more number adds to a sum.             *)
(***************************************************************************)
LEMMA TotalEmpty == Total(<<>>) = 0
  <1>1. <<>> \in Seq(Nat) /\ Len(<<>>) = 0
    OBVIOUS
  <1>2. PICK f : Sums(f, <<>>)
    BY <1>1, TotalUnfold
  <1> QED
    BY <1>1, <1>2 DEF Sums

(***************************************************************************)
(* One more number at the end adds itself to the sum.                       *)
(***************************************************************************)
LEMMA TotalGrows ==
    ASSUME NEW s \in Seq(Nat), NEW t \in Seq(Nat), Len(t) = Len(s) + 1,
           \A i \in 1..Len(s) : t[i] = s[i]
    PROVE  Total(t) = Total(s) + t[Len(t)]
  <1> DEFINE n == Len(s)
             m == Len(t)
  <1>1. /\ n \in Nat /\ m = n + 1
        /\ \A i \in 1..n : s[i] = t[i]
    OBVIOUS
  <1>2. PICK f : Sums(f, s)
    BY TotalUnfold
  <1>3. PICK g : Sums(g, t)
    BY TotalUnfold
  <1> HIDE DEF n, m
  <1>4. n <= n /\ n <= m /\ m \in 1..m /\ m - 1 = n
    BY <1>1
  <1>5. f[n] = g[n]
    <2>1. \A k \in Nat : /\ k <= Len(s) /\ k <= Len(t)
                         /\ \A i \in 1..k : s[i] = t[i]
                         => f[k] = g[k]
      BY <1>2, <1>3, SumsAgree
    <2>2. n <= Len(s) /\ n <= Len(t)
      BY <1>4 DEF n, m
    <2> QED
      BY <1>1, <2>1, <2>2, Zenon
  <1>6. g[m] = g[m - 1] + t[m]
    BY <1>3, <1>4 DEF Sums, m
  <1>7. Total(s) = f[n] /\ Total(t) = g[m]
    BY <1>2, <1>3 DEF Sums, n, m
  <1>8. Total(t) = Total(s) + t[m]
    BY <1>4, <1>5, <1>6, <1>7, Zenon
  <1> QED
    BY <1>8 DEF m

(***************************************************************************)
(* What changing one of the numbers does to their sum.                     *)
(***************************************************************************)
LEMMA TotalChanges ==
    ASSUME NEW s \in Seq(Nat), NEW t \in Seq(Nat), Len(t) = Len(s),
           NEW k \in 1..Len(s), NEW d \in Nat, t[k] = s[k] + d,
           \A i \in 1..Len(s) : i # k => t[i] = s[i]
    PROVE  Total(t) = Total(s) + d
  <1> DEFINE n == Len(s)
  <1>1. PICK f : Sums(f, s)
    BY TotalUnfold
  <1>2. PICK g : Sums(g, t)
    BY TotalUnfold
  <1>3. n \in Nat /\ \A i \in 1..n : s[i] \in Nat /\ t[i] \in Nat
    <2>1. \A i \in 1..Len(t) : t[i] \in Nat
      BY ElementOfSeq, Zenon
    <2>2. \A i \in 1..Len(s) : s[i] \in Nat
      OBVIOUS
    <2> QED
      BY <2>1, <2>2
  <1>4. /\ f \in [0..n -> Nat] /\ f[0] = 0
        /\ \A i \in 1..n : f[i] = f[i - 1] + s[i]
        /\ g \in [0..n -> Nat] /\ g[0] = 0
        /\ \A i \in 1..n : g[i] = g[i - 1] + t[i]
    BY <1>1, <1>2 DEF Sums
  <1> HIDE DEF n
  <1> DEFINE U == {i \in 0..n : g[i] = f[i] + (IF i < k THEN 0 ELSE d)}
  <1>5. k \in 1..n
    BY DEF n
  <1>6. 0 \in U
    BY <1>3, <1>4, <1>5
  <1>7. ASSUME NEW i \in 1..n, i - 1 \in U
        PROVE  i \in U
    <2>1. i \in 0..n /\ i - 1 \in 0..n /\ i \in Nat /\ k \in Nat
      BY <1>3, <1>5
    <2>2. /\ f[i] = f[i - 1] + s[i] /\ g[i] = g[i - 1] + t[i]
          /\ s[i] \in Nat /\ f[i - 1] \in Nat
      BY <1>3, <1>4, <2>1
    <2>3. g[i - 1] = f[i - 1] + (IF i - 1 < k THEN 0 ELSE d)
      BY <1>7
    <2>4. g[i] = f[i] + (IF i < k THEN 0 ELSE d)
      <3>1. CASE i = k
        <4>1. t[i] = s[i] + d
          BY <3>1
        <4>2. i - 1 < k /\ ~(i < k)
          BY <2>1, <3>1
        <4>3. g[i - 1] = f[i - 1]
          BY <2>2, <2>3, <4>2
        <4>4. g[i] = f[i] + d
          <5>1. \A a, b \in Nat : a + (b + d) = (a + b) + d
            OBVIOUS
          <5>2. g[i] = f[i - 1] + (s[i] + d)
            BY <2>2, <4>1, <4>3
          <5> QED
            BY <2>2, <5>1, <5>2
        <4> QED
          BY <4>2, <4>4
      <3>2. CASE i # k
        <4>1. t[i] = s[i]
          BY <3>2 DEF n
        <4>2. i - 1 < k <=> i < k
          BY <2>1, <3>2
        <4>3. CASE i < k
          <5>1. /\ g[i - 1] = f[i - 1] + 0
                /\ \A a \in Nat : a + 0 = a
            BY <2>3, <4>2, <4>3
          <5>2. g[i - 1] = f[i - 1]
            BY <2>2, <5>1
          <5>3. g[i] = f[i]
            BY <2>2, <4>1, <5>2
          <5>4. f[i] + 0 = f[i]
            <6>1. \A a, b \in Nat : (a + b) + 0 = a + b
              OBVIOUS
            <6> QED
              BY <2>2, <6>1, Zenon
          <5> QED
            BY <4>3, <5>3, <5>4
        <4>4. CASE ~(i < k)
          <5>1. \A a, b \in Nat : (a + d) + b = (a + b) + d
            OBVIOUS
          <5>2. g[i - 1] = f[i - 1] + d
            BY <2>3, <4>2, <4>4
          <5>3. g[i] = (f[i - 1] + d) + s[i]
            BY <2>2, <4>1, <5>2
          <5>4. g[i] = f[i] + d
            BY <2>2, <5>1, <5>3
          <5> QED
            BY <4>4, <5>4
        <4> QED
          BY <4>3, <4>4
      <3> QED
        BY <3>1, <3>2
    <2> QED
      BY <2>1, <2>4
  <1> HIDE DEF U
  <1>8. \A i \in 0..n : i \in U
    BY <1>3, <1>6, <1>7, IntervalInduction
  <1>9. n \in U /\ ~(n < k)
    BY <1>3, <1>5, <1>8
  <1>10. Total(s) = f[n] /\ Total(t) = g[n]
    BY <1>1, <1>2 DEF Sums, n
  <1> QED
    BY <1>9, <1>10 DEF U

(***************************************************************************)
(* Zeros add up to zero.                                                   *)
(***************************************************************************)
LEMMA TotalZero ==
    ASSUME NEW n \in Nat
    PROVE  Total([k \in 1..n |-> 0]) = 0
  <1> DEFINE s == [k \in 1..n |-> 0]
  <1>1. s \in Seq(Nat) /\ Len(s) = n /\ \A i \in 1..n : s[i] = 0
    OBVIOUS
  <1> HIDE DEF s
  <1>2. PICK f : Sums(f, s)
    BY <1>1, TotalUnfold
  <1> DEFINE U == {i \in 0..n : f[i] = 0}
  <1>3. 0 \in U
    BY <1>1, <1>2 DEF Sums
  <1>4. \A i \in 1..n : i - 1 \in U => i \in U
    BY <1>1, <1>2 DEF Sums
  <1> HIDE DEF U
  <1>5. \A i \in 0..n : i \in U
    BY <1>3, <1>4, IntervalInduction
  <1>6. n \in U
    BY <1>5
  <1>7. Total(s) = 0
    BY <1>1, <1>2, <1>6 DEF Sums, U
  <1> QED
    BY <1>7 DEF s

-----------------------------------------------------------------------------
(***************************************************************************)
(* A sequence as a function on an interval, and what Append does to it.    *)
(***************************************************************************)
LEMMA IntervalIsSeq ==
    ASSUME NEW n \in Nat, NEW S, NEW t \in [1..n -> S]
    PROVE  t \in Seq(S) /\ Len(t) = n /\ DOMAIN t = 1..n
  OBVIOUS

(***************************************************************************)
(* Append leaves what is there and puts one element after it.              *)
(***************************************************************************)
LEMMA AppendHolds ==
    ASSUME NEW S, NEW s \in Seq(S), NEW x \in S
    PROVE  /\ Append(s, x) \in Seq(S)
           /\ Len(Append(s, x)) = Len(s) + 1
           /\ \A i \in 1..Len(s) : Append(s, x)[i] = s[i]
           /\ Append(s, x)[Len(s) + 1] = x
  OBVIOUS

(***************************************************************************)
(* One element put before a sequence.                                      *)
(***************************************************************************)
LEMMA ConsHolds ==
    ASSUME NEW S, NEW s \in Seq(S), NEW x \in S
    PROVE  /\ <<x>> \o s \in Seq(S)
           /\ Len(<<x>> \o s) = Len(s) + 1
           /\ DOMAIN (<<x>> \o s) = 1..(Len(s) + 1)
           /\ (<<x>> \o s)[1] = x
           /\ \A i \in 1..Len(s) : (<<x>> \o s)[i + 1] = s[i]
  <1> DEFINE t == <<x>> \o s
             n == Len(s)
  <1>1. <<x>> \in Seq(S) /\ Len(<<x>>) = 1 /\ <<x>>[1] = x /\ n \in Nat
    OBVIOUS
  <1>2. /\ t \in Seq(S) /\ Len(t) = 1 + n
        /\ \A i \in 1..(1 + n) : t[i] = IF i <= 1 THEN <<x>>[i] ELSE s[i - 1]
    BY <1>1, ConcatProperties
  <1> HIDE DEF t, n
  <1>3. t[1] = x
    <2>1. 1 \in 1..(1 + n) /\ 1 <= 1
      BY <1>1
    <2>2. t[1] = <<x>>[1]
      BY <1>2, <2>1
    <2> QED
      BY <1>1, <2>2
  <1>4. \A i \in 1..n : t[i + 1] = s[i]
    <2>1. \A i \in 1..n : /\ i + 1 \in 1..(1 + n) /\ ~(i + 1 <= 1)
                          /\ (i + 1) - 1 = i
      BY <1>1
    <2> QED
      BY <1>2, <2>1
  <1>5. 1 + n = n + 1
    BY <1>1
  <1>6. Len(t) = n + 1 /\ DOMAIN t = 1..(n + 1)
    BY <1>2, <1>5
  <1> QED
    BY <1>2, <1>3, <1>4, <1>6 DEF t, n

-----------------------------------------------------------------------------
(***************************************************************************)
(* FlattenSeq satisfies its equations: f is what it has joined so far.     *)
(***************************************************************************)
Flattens(f, seqs, S) ==
    /\ f \in [0..Len(seqs) -> Seq(S)]
    /\ f[0] = <<>>
    /\ \A i \in 1..Len(seqs) : f[i] = f[i - 1] \o seqs[i]
    /\ FlattenSeq(seqs) = f[Len(seqs)]

(***************************************************************************)
(* Such a run of FlattenSeq exists for every sequence of sequences.        *)
(***************************************************************************)
LEMMA FlattenUnfold ==
    ASSUME NEW S, NEW seqs \in Seq(Seq(S))
    PROVE  \E f : Flattens(f, seqs, S)
  <1> DEFINE n == Len(seqs)
             step == [i \in 1..n |-> [k \in Seq(S) |-> k \o seqs[i]]]
  <1>1. n \in Nat /\ \A i \in 1..n : seqs[i] \in Seq(S)
    OBVIOUS
  <1> HIDE DEF n
  <1>2. step \in [1..n -> [Seq(S) -> Seq(S)]]
    BY <1>1
  <1>3. \A i \in 1..n, k \in Seq(S) : step[i][k] = k \o seqs[i]
    OBVIOUS
  <1> HIDE DEF step
  <1>4. PICK f : Iterates(f, n, Seq(S), <<>>, step)
    <2>1. <<>> \in Seq(S)
      OBVIOUS
    <2> QED
      BY <1>1, <1>2, <2>1, IterationExists
  <1>5. /\ f \in [0..n -> Seq(S)] /\ f[0] = <<>>
        /\ \A i \in 1..n : f[i] = f[i - 1] \o seqs[i]
    <2>1. \A i \in 1..n : f[i - 1] \in Seq(S)
      BY <1>1, <1>4 DEF Iterates
    <2> QED
      BY <1>3, <1>4, <2>1 DEF Iterates
  <1>6. FlattenSeq(seqs) = f[n]
    <2>1. CASE n = 0
      <3>1. seqs = <<>>
        BY <2>1 DEF n
      <3> QED
        BY <1>5, <2>1, <3>1 DEF FlattenSeq, n
    <2>2. CASE n # 0
      <3> DEFINE body(g) == [i \in 1..n |-> IF i = 1 THEN seqs[i]
                                            ELSE g[i - 1] \o seqs[i]]
                 flatten == CHOOSE g : g = body(g)
                 h == [i \in 1..n |-> f[i]]
      <3>1. h = body(h)
        <4>1. ASSUME NEW i \in 1..n
              PROVE  h[i] = IF i = 1 THEN seqs[i] ELSE h[i - 1] \o seqs[i]
          <5>1. CASE i = 1
            <6>1. 1 \in 1..n /\ 1 - 1 = 0
              BY <5>1
            <6>2. f[1] = f[1 - 1] \o seqs[1] /\ seqs[1] \in Seq(S)
              BY <1>1, <1>5, <6>1
            <6>3. f[1] = <<>> \o seqs[1]
              BY <1>5, <6>1, <6>2
            <6> QED
              BY <5>1, <6>1, <6>2, <6>3, ConcatEmptySeq
          <5>2. CASE i # 1
            <6>1. i - 1 \in 1..n
              BY <1>1, <5>2
            <6> QED
              BY <1>5, <5>2, <6>1
          <5> QED
            BY <5>1, <5>2
        <4>2. h = [i \in 1..n |-> h[i]]
          OBVIOUS
        <4> HIDE DEF h
        <4> QED
          BY <4>1, <4>2, Zenon
      <3>2. flatten = body(flatten)
        <4> HIDE DEF h
        <4> QED
          BY <3>1
      <3>3. FlattenSeq(seqs) = flatten[n]
        BY <2>2 DEF FlattenSeq, n
      <3> HIDE DEF flatten
      <3>4. \A i \in 1..n : flatten[i] = IF i = 1 THEN seqs[i]
                                         ELSE flatten[i - 1] \o seqs[i]
        BY <3>2
      <3> DEFINE U == {i \in 0..n : i # 0 => flatten[i] = f[i]}
      <3>5. 0 \in U
        BY <1>1
      <3>6. ASSUME NEW i \in 1..n, i - 1 \in U PROVE i \in U
        <4>1. CASE i = 1
          <5>1. 1 \in 1..n /\ 1 \in 0..n /\ 1 - 1 = 0
            BY <1>1, <4>1
          <5>2. f[1] = f[1 - 1] \o seqs[1] /\ seqs[1] \in Seq(S)
            BY <1>1, <1>5, <5>1
          <5>3. f[1] = seqs[1]
            BY <1>5, <5>1, <5>2, ConcatEmptySeq
          <5> QED
            BY <3>4, <4>1, <5>1, <5>3
        <4>2. CASE i # 1
          <5>1. flatten[i - 1] = f[i - 1] /\ i \in 0..n
            BY <1>1, <3>6, <4>2
          <5> QED
            BY <1>5, <3>4, <4>2, <5>1
        <4> QED
          BY <4>1, <4>2
      <3> HIDE DEF U
      <3>7. \A i \in 0..n : i \in U
        BY <1>1, <3>5, <3>6, IntervalInduction
      <3>8. n \in U
        BY <1>1, <3>7
      <3> QED
        BY <2>2, <3>3, <3>8 DEF U
    <2> QED
      BY <2>1, <2>2
  <1>7. Flattens(f, seqs, S)
    BY <1>5, <1>6 DEF Flattens, n
  <1> QED
    BY <1>7

(***************************************************************************)
(* Of three sequences joined, it does not matter which two come first.     *)
(***************************************************************************)
Associates(S) == \A x, v, w \in Seq(S) : (x \o v) \o w = x \o (v \o w)

(***************************************************************************)
(* It does not, whatever is in them.                                       *)
(***************************************************************************)
LEMMA JoinsAssociate ==
    ASSUME NEW S
    PROVE  Associates(S)
  <1>1. ASSUME NEW s \in Seq(S), NEW t \in Seq(S), NEW u \in Seq(S)
        PROVE  (s \o t) \o u = s \o (t \o u)
    <2> DEFINE a == Len(s)
               b == Len(t)
               c == Len(u)
               st == s \o t
               tu == t \o u
    <2>1. a \in Nat /\ b \in Nat /\ c \in Nat
      BY LenProperties, Zenon
    <2>2. /\ st \in Seq(S) /\ Len(st) = a + b
          /\ \A i \in 1..(a + b) : st[i] = IF i <= a THEN s[i] ELSE t[i - a]
      BY ConcatProperties, Zenon
    <2>3. /\ tu \in Seq(S) /\ Len(tu) = b + c
          /\ \A i \in 1..(b + c) : tu[i] = IF i <= b THEN t[i] ELSE u[i - b]
      BY ConcatProperties, Zenon
    <2> HIDE DEF st, tu
    <2> DEFINE left == st \o u
               right == s \o tu
    <2>4. /\ left \in Seq(S) /\ Len(left) = Len(st) + c
          /\ \A i \in 1..(Len(st) + c) :
                left[i] = IF i <= Len(st) THEN st[i] ELSE u[i - Len(st)]
      <3>1. st \in Seq(S)
        BY <2>2
      <3> QED
        BY <3>1, ConcatProperties, Zenon
    <2>5. /\ right \in Seq(S) /\ Len(right) = a + Len(tu)
          /\ \A i \in 1..(a + Len(tu)) :
                right[i] = IF i <= a THEN s[i] ELSE tu[i - a]
      <3>1. tu \in Seq(S)
        BY <2>3
      <3> QED
        BY <3>1, ConcatProperties, Zenon
    <2> HIDE DEF a, b, c, left, right
    <2>6. Len(left) = Len(right) /\ Len(left) = (a + b) + c
      BY <2>1, <2>2, <2>3, <2>4, <2>5
    <2>7. ASSUME NEW i \in 1..Len(left)
          PROVE  left[i] = right[i]
      <3>1. /\ i \in 1..((a + b) + c) /\ i \in 1..(Len(st) + c)
            /\ i \in 1..(a + Len(tu))
        BY <2>1, <2>2, <2>3, <2>6
      <3>2. CASE i <= a
        <4>1. i <= Len(st) /\ i \in 1..(a + b)
          BY <2>1, <2>2, <3>1, <3>2
        <4> QED
          BY <2>2, <2>4, <2>5, <3>1, <3>2, <4>1, Zenon
      <3>3. CASE ~(i <= a) /\ i <= a + b
        <4>1. i <= Len(st) /\ i \in 1..(a + b) /\ i - a \in 1..(b + c) /\ i - a <= b
          BY <2>1, <2>2, <3>1, <3>3
        <4> QED
          BY <2>2, <2>3, <2>4, <2>5, <3>1, <3>3, <4>1, Zenon
      <3>4. CASE ~(i <= a) /\ ~(i <= a + b)
        <4>1. /\ ~(i <= Len(st)) /\ i - a \in 1..(b + c) /\ ~(i - a <= b)
              /\ i - Len(st) = (i - a) - b
          BY <2>1, <2>2, <3>1, <3>4
        <4> QED
          BY <2>2, <2>3, <2>4, <2>5, <3>1, <3>4, <4>1, Zenon
      <3> QED
        BY <3>2, <3>3, <3>4
    <2>8. left = right
      BY <2>4, <2>5, <2>6, <2>7, SeqEqual, Zenon
    <2> QED
      BY <2>8, Zenon DEF left, right, st, tu
  <1> QED
    BY <1>1, Zenon DEF Associates

(***************************************************************************)
(* Joined sequences are a sequence, and the first of them comes first.     *)
(***************************************************************************)
LEMMA FlattenFirst ==
    ASSUME NEW S, NEW x \in Seq(S), NEW seqs \in Seq(Seq(S))
    PROVE  /\ FlattenSeq(seqs) \in Seq(S)
           /\ FlattenSeq(<<x>> \o seqs) = x \o FlattenSeq(seqs)
  <1> DEFINE n == Len(seqs)
             t == <<x>> \o seqs
  <1>0. Associates(S)
    BY JoinsAssociate, Zenon
  <1>1. /\ n \in Nat /\ \A i \in 1..n : seqs[i] \in Seq(S)
        /\ t \in Seq(Seq(S)) /\ Len(t) = n + 1 /\ t[1] = x
        /\ \A i \in 1..n : t[i + 1] = seqs[i]
    <2>1. n \in Nat /\ \A i \in 1..n : seqs[i] \in Seq(S)
      OBVIOUS
    <2> QED
      BY <2>1, ConsHolds
  <1>2. PICK f : Flattens(f, seqs, S)
    BY FlattenUnfold
  <1>3. PICK g : Flattens(g, t, S)
    <2> HIDE DEF t
    <2> QED
      BY <1>1, FlattenUnfold
  <1>4. /\ f \in [0..n -> Seq(S)] /\ f[0] = <<>>
        /\ \A i \in 1..n : f[i] = f[i - 1] \o seqs[i]
        /\ FlattenSeq(seqs) = f[n]
    BY <1>2 DEF Flattens
  <1> HIDE DEF t, n
  <1>5. /\ g \in [0..(n + 1) -> Seq(S)] /\ g[0] = <<>>
        /\ \A i \in 1..(n + 1) : g[i] = g[i - 1] \o t[i]
        /\ FlattenSeq(t) = g[n + 1]
    BY <1>1, <1>3 DEF Flattens
  <1> DEFINE U == {i \in 0..n : g[i + 1] = x \o f[i]}
  <1>6. 0 \in U
    <2>1. g[1] = <<>> \o x
      <3>1. 1 \in 1..(n + 1) /\ 1 - 1 = 0
        BY <1>1
      <3> QED
        BY <1>1, <1>5, <3>1
    <2>2. g[1] = x \o <<>>
      BY <2>1, ConcatEmptySeq
    <2>3. 0 \in 0..n /\ 0 + 1 = 1
      BY <1>1
    <2> QED
      BY <1>4, <2>2, <2>3
  <1>7. ASSUME NEW i \in 1..n, i - 1 \in U PROVE i \in U
    <2>1. /\ i + 1 \in 1..(n + 1) /\ (i + 1) - 1 = i /\ i \in 0..n
          /\ (i - 1) + 1 = i /\ i - 1 \in 0..n
      <3> HIDE DEF U
      <3>1. n \in Nat
        BY <1>1
      <3>2. i \in Int /\ 1 <= i /\ i <= n
        BY <3>1
      <3> QED
        BY <3>1, <3>2
    <2>2. g[i + 1] = g[i] \o seqs[i]
      BY <1>1, <1>5, <2>1
    <2>3. g[i] = x \o f[i - 1]
      BY <1>7, <2>1
    <2>4. f[i - 1] \in Seq(S) /\ seqs[i] \in Seq(S)
      BY <1>1, <1>4, <2>1
    <2>5. (x \o f[i - 1]) \o seqs[i] = x \o (f[i - 1] \o seqs[i])
      BY <2>4, <1>0, Zenon DEF Associates
    <2> QED
      BY <1>4, <2>1, <2>2, <2>3, <2>5
  <1> HIDE DEF U
  <1>8. \A i \in 0..n : i \in U
    BY <1>1, <1>6, <1>7, IntervalInduction
  <1>9. n \in U /\ f[n] \in Seq(S)
    BY <1>1, <1>4, <1>8
  <1> QED
    BY <1>4, <1>5, <1>9 DEF U, t

(***************************************************************************)
(* What RemoveAt keeps, and what two sequences have in them together.      *)
(***************************************************************************)
LEMMA RemoveAtKeeps ==
    ASSUME NEW S, NEW s \in Seq(S), NEW i \in 1..Len(s)
    PROVE  /\ RemoveAt(s, i) \in Seq(S)
           /\ \A j \in 1..Len(RemoveAt(s, i)) :
                 \E l \in 1..Len(s) : l # i /\ RemoveAt(s, i)[j] = s[l]
  <1> DEFINE n == Len(s)
             a == SubSeq(s, 1, i - 1)
             b == SubSeq(s, i + 1, n)
  <1>1. n \in Nat /\ i \in 1..n /\ \A l \in 1..n : s[l] \in S
    OBVIOUS
  <1>2. /\ a \in Seq(S) /\ Len(a) = i - 1
        /\ \A l \in 1..(i - 1) : a[l] = s[l]
    <2>1. 1 \in Int /\ i - 1 \in Int /\ \A l \in 1..(i - 1) : s[l] \in S
      BY <1>1
    <2>2. /\ a \in Seq(S)
          /\ Len(a) = IF 1 <= i - 1 THEN (i - 1) - 1 + 1 ELSE 0
          /\ \A l \in 1..((i - 1) - 1 + 1) : a[l] = s[1 + l - 1]
      BY <2>1, SubSeqProperties
    <2>3. /\ (i - 1) - 1 + 1 = i - 1 /\ (~(1 <= i - 1) => i - 1 = 0)
          /\ \A l \in 1..(i - 1) : 1 + l - 1 = l
      BY <1>1
    <2> HIDE DEF a, n
    <2> QED
      BY <2>2, <2>3
  <1>3. /\ b \in Seq(S) /\ Len(b) = n - i
        /\ \A l \in 1..(n - i) : b[l] = s[i + l]
    <2>1. i + 1 \in Int /\ n \in Int /\ \A l \in (i + 1)..n : s[l] \in S
      BY <1>1
    <2>2. /\ b \in Seq(S)
          /\ Len(b) = IF i + 1 <= n THEN n - (i + 1) + 1 ELSE 0
          /\ \A l \in 1..(n - (i + 1) + 1) : b[l] = s[i + 1 + l - 1]
      <3> HIDE DEF n
      <3> QED
        BY <2>1, SubSeqProperties
    <2> HIDE DEF b, n
    <2>3. /\ n - (i + 1) + 1 = n - i /\ (~(i + 1 <= n) => n - i = 0)
          /\ \A l \in 1..(n - i) : i + 1 + l - 1 = i + l
      BY <1>1
    <2> QED
      BY <2>2, <2>3
  <1>4. /\ RemoveAt(s, i) = a \o b
        /\ a \o b \in Seq(S) /\ Len(a \o b) = Len(a) + Len(b)
        /\ \A j \in 1..(Len(a) + Len(b)) :
              (a \o b)[j] = IF j <= Len(a) THEN a[j] ELSE b[j - Len(a)]
    <2>1. RemoveAt(s, i) = a \o b
      BY DEF RemoveAt
    <2> HIDE DEF a, b
    <2> QED
      BY <1>2, <1>3, <2>1, ConcatProperties
  <1> HIDE DEF a, b, n
  <1>5. ASSUME NEW j \in 1..((i - 1) + (n - i))
        PROVE  \E l \in 1..n : l # i /\ (a \o b)[j] = s[l]
    <2>1. CASE j <= i - 1
      <3>1. j \in 1..(i - 1) /\ j \in 1..n /\ j # i
        BY <1>1, <2>1
      <3>2. (a \o b)[j] = s[j]
        BY <1>2, <1>3, <1>4, <2>1, <3>1
      <3> QED
        BY <3>1, <3>2
    <2>2. CASE ~(j <= i - 1)
      <3> DEFINE l == j - (i - 1)
      <3>1. l \in 1..(n - i) /\ i + l \in 1..n /\ i + l # i
        BY <1>1, <2>2
      <3>2. (a \o b)[j] = b[l]
        BY <1>2, <1>3, <1>4, <2>2
      <3> HIDE DEF l
      <3>3. (a \o b)[j] = s[i + l]
        BY <1>3, <3>1, <3>2
      <3> QED
        BY <3>1, <3>3
    <2> QED
      BY <2>1, <2>2
  <1> QED
    BY <1>2, <1>3, <1>4, <1>5 DEF n

-----------------------------------------------------------------------------
(***************************************************************************)
(* Positional satisfies its equations: f is what it has read so far.       *)
(***************************************************************************)
ReadsDigits(f, s, base) ==
    /\ f \in [0..Len(s) -> Nat]
    /\ f[0] = 0
    /\ \A i \in 1..Len(s) : f[i] = f[i - 1] * base + s[i]
    /\ Positional(s, base) = f[Len(s)]

(***************************************************************************)
(* Some function satisfies the equations of Positional.                    *)
(***************************************************************************)
LEMMA PositionalUnfold ==
    ASSUME NEW s \in Seq(Nat), NEW base \in Nat
    PROVE  \E f : ReadsDigits(f, s, base)
  <1> DEFINE n == Len(s)
             step == [i \in 1..n |-> [k \in Nat |-> k * base + s[i]]]
  <1>1. n \in Nat /\ \A i \in 1..n : s[i] \in Nat
    OBVIOUS
  <1> HIDE DEF n
  <1>2. step \in [1..n -> [Nat -> Nat]]
    <2>1. \A k \in Nat : k * base \in Nat
      OBVIOUS
    <2>2. \A x, y \in Nat : x + y \in Nat
      OBVIOUS
    <2>3. \A i \in 1..n, k \in Nat : k * base + s[i] \in Nat
      BY <1>1, <2>1, <2>2, Zenon
    <2> QED
      BY <2>3
  <1>3. \A i \in 1..n, k \in Nat : step[i][k] = k * base + s[i]
    OBVIOUS
  <1> HIDE DEF step
  <1>4. PICK f : Iterates(f, n, Nat, 0, step)
    <2>1. 0 \in Nat
      OBVIOUS
    <2> QED
      BY <1>1, <1>2, <2>1, IterationExists
  <1> DEFINE body(g) == [i \in 0..n |->
                           IF i = 0 THEN 0 ELSE g[i - 1] * base + s[i]]
             result == CHOOSE g : g = body(g)
  <1>5. f = body(f)
    <2>1. ASSUME NEW i \in 1..n
          PROVE  f[i] = f[i - 1] * base + s[i]
      <3>1. f[i - 1] \in Nat
        BY <1>1, <1>4 DEF Iterates
      <3> QED
        BY <1>3, <1>4, <3>1 DEF Iterates
    <2>2. f[0] = 0 /\ f = [i \in 0..n |-> f[i]]
      BY <1>4 DEF Iterates
    <2>3. \A i \in 0..n : i # 0 => i \in 1..n
      BY <1>1
    <2>4. \A i \in 0..n : f[i] = IF i = 0 THEN 0 ELSE f[i - 1] * base + s[i]
      BY <2>1, <2>2, <2>3
    <2> QED
      BY <2>2, <2>4, Zenon
  <1>6. result = body(result)
    BY <1>5
  <1>7. Positional(s, base) = result[n]
    BY DEF Positional, n
  <1> HIDE DEF result
  <1>8. /\ result[0] = 0
        /\ \A i \in 1..n : result[i] = result[i - 1] * base + s[i]
    <2>1. 0 \in 0..n /\ \A i \in 1..n : i \in 0..n /\ i # 0
      BY <1>1
    <2> QED
      BY <1>6, <2>1
  <1>9. \A i \in 0..n : result[i] \in Nat
    <2> DEFINE U == {i \in 0..n : result[i] \in Nat}
    <2>1. 0 \in U
      BY <1>1, <1>8
    <2>2. ASSUME NEW i \in 1..n, i - 1 \in U
          PROVE  i \in U
      <3>1. i \in 0..n /\ s[i] \in Nat /\ result[i - 1] \in Nat
        BY <1>1, <2>2
      <3>2. result[i - 1] * base \in Nat
        BY <3>1
      <3>3. result[i - 1] * base + s[i] \in Nat
        <4>1. \A a, b \in Nat : a + b \in Nat
          OBVIOUS
        <4> QED
          BY <3>1, <3>2, <4>1, Zenon
      <3> QED
        BY <1>8, <3>1, <3>3
    <2> HIDE DEF U
    <2>3. \A i \in 0..n : i \in U
      BY <1>1, <2>1, <2>2, IntervalInduction
    <2> QED
      BY <2>3 DEF U
  <1>10. result \in [0..n -> Nat]
    BY <1>6, <1>9
  <1>11. ReadsDigits(result, s, base)
    BY <1>7, <1>8, <1>10 DEF n, ReadsDigits
  <1> QED
    BY <1>11

(***************************************************************************)
(* Power satisfies its equations: f holds the powers up to n.              *)
(***************************************************************************)
Powers(f, base, n) ==
    /\ f \in [0..n -> Nat]
    /\ f[0] = 1
    /\ \A i \in 1..n : f[i] = f[i - 1] * base
    /\ Power(base, n) = f[n]

(***************************************************************************)
(* Some function satisfies the equations of Power.                         *)
(***************************************************************************)
LEMMA PowerUnfold ==
    ASSUME NEW base \in Nat, NEW n \in Nat
    PROVE  \E f : Powers(f, base, n)
  <1> DEFINE step == [i \in 1..n |-> [k \in Nat |-> k * base]]
  <1>1. n \in Nat
    OBVIOUS
  <1>2. step \in [1..n -> [Nat -> Nat]]
    BY <1>1
  <1>3. \A i \in 1..n, k \in Nat : step[i][k] = k * base
    OBVIOUS
  <1> HIDE DEF step
  <1>4. PICK f : Iterates(f, n, Nat, 1, step)
    <2>1. 1 \in Nat
      OBVIOUS
    <2> QED
      BY <1>1, <1>2, <2>1, IterationExists
  <1> DEFINE body(g) == [i \in 0..n |->
                           IF i = 0 THEN 1 ELSE g[i - 1] * base]
             result == CHOOSE g : g = body(g)
  <1>5. f = body(f)
    <2>1. ASSUME NEW i \in 1..n
          PROVE  f[i] = f[i - 1] * base
      <3>1. f[i - 1] \in Nat
        BY <1>1, <1>4 DEF Iterates
      <3> QED
        BY <1>3, <1>4, <3>1 DEF Iterates
    <2>2. f[0] = 1 /\ f = [i \in 0..n |-> f[i]]
      BY <1>4 DEF Iterates
    <2>3. \A i \in 0..n : i # 0 => i \in 1..n
      BY <1>1
    <2>4. \A i \in 0..n : f[i] = IF i = 0 THEN 1 ELSE f[i - 1] * base
      BY <2>1, <2>2, <2>3
    <2> QED
      BY <2>2, <2>4, Zenon
  <1>6. result = body(result)
    BY <1>5
  <1>7. Power(base, n) = result[n]
    BY DEF Power
  <1> HIDE DEF result
  <1>8. /\ result[0] = 1
        /\ \A i \in 1..n : result[i] = result[i - 1] * base
    <2>1. 0 \in 0..n /\ \A i \in 1..n : i \in 0..n /\ i # 0
      BY <1>1
    <2> QED
      BY <1>6, <2>1
  <1>9. \A i \in 0..n : result[i] \in Nat
    <2> DEFINE U == {i \in 0..n : result[i] \in Nat}
    <2>1. 0 \in U
      BY <1>1, <1>8
    <2>2. ASSUME NEW i \in 1..n, i - 1 \in U
          PROVE  i \in U
      <3>1. i \in 0..n /\ result[i - 1] \in Nat
        BY <1>1, <2>2
      <3>2. result[i - 1] * base \in Nat
        BY <3>1
      <3> QED
        BY <1>8, <3>1, <3>2
    <2> HIDE DEF U
    <2>3. \A i \in 0..n : i \in U
      BY <1>1, <2>1, <2>2, IntervalInduction
    <2> QED
      BY <2>3 DEF U
  <1>10. result \in [0..n -> Nat]
    BY <1>6, <1>9
  <1>11. Powers(result, base, n)
    BY <1>7, <1>8, <1>10 DEF Powers
  <1> QED
    BY <1>11

(***************************************************************************)
(* Shorter satisfies its equations: f is what is left each time.           *)
(***************************************************************************)
Shortens(f, number, base, n) ==
    /\ f \in [0..n -> Nat]
    /\ f[0] = number
    /\ \A i \in 1..n : f[i] = f[i - 1] \div base
    /\ Shorter(number, base, n) = f[n]

(***************************************************************************)
(* Some function satisfies the equations of Shorter.                       *)
(***************************************************************************)
LEMMA ShorterUnfold ==
    ASSUME NEW number \in Nat, NEW base \in Nat \ {0}, NEW n \in Nat
    PROVE  \E f : Shortens(f, number, base, n)
  <1> DEFINE step == [i \in 1..n |-> [k \in Nat |-> k \div base]]
  <1>1. n \in Nat
    OBVIOUS
  <1>2. step \in [1..n -> [Nat -> Nat]]
    BY <1>1
  <1>3. \A i \in 1..n, k \in Nat : step[i][k] = k \div base
    OBVIOUS
  <1> HIDE DEF step
  <1>4. PICK f : Iterates(f, n, Nat, number, step)
    <2>1. number \in Nat
      OBVIOUS
    <2> QED
      BY <1>1, <1>2, <2>1, IterationExists
  <1> DEFINE body(g) == [i \in 0..n |->
                           IF i = 0 THEN number ELSE g[i - 1] \div base]
             result == CHOOSE g : g = body(g)
  <1>5. f = body(f)
    <2>1. ASSUME NEW i \in 1..n
          PROVE  f[i] = f[i - 1] \div base
      <3>1. f[i - 1] \in Nat
        BY <1>1, <1>4 DEF Iterates
      <3> QED
        BY <1>3, <1>4, <3>1 DEF Iterates
    <2>2. f[0] = number /\ f = [i \in 0..n |-> f[i]]
      BY <1>4 DEF Iterates
    <2>3. \A i \in 0..n : i # 0 => i \in 1..n
      BY <1>1
    <2>4. \A i \in 0..n : f[i] = IF i = 0 THEN number ELSE f[i - 1] \div base
      BY <2>1, <2>2, <2>3
    <2> QED
      BY <2>2, <2>4, Zenon
  <1>6. result = body(result)
    BY <1>5
  <1>7. Shorter(number, base, n) = result[n]
    BY DEF Shorter
  <1> HIDE DEF result
  <1>8. /\ result[0] = number
        /\ \A i \in 1..n : result[i] = result[i - 1] \div base
    <2>1. 0 \in 0..n /\ \A i \in 1..n : i \in 0..n /\ i # 0
      BY <1>1
    <2> QED
      BY <1>6, <2>1
  <1>9. \A i \in 0..n : result[i] \in Nat
    <2> DEFINE U == {i \in 0..n : result[i] \in Nat}
    <2>1. 0 \in U
      BY <1>1, <1>8
    <2>2. ASSUME NEW i \in 1..n, i - 1 \in U
          PROVE  i \in U
      <3>1. i \in 0..n /\ result[i - 1] \in Nat
        BY <1>1, <2>2
      <3>2. result[i - 1] \div base \in Nat
        BY <3>1
      <3> QED
        BY <1>8, <3>1, <3>2
    <2> HIDE DEF U
    <2>3. \A i \in 0..n : i \in U
      BY <1>1, <2>1, <2>2, IntervalInduction
    <2> QED
      BY <2>3 DEF U
  <1>10. result \in [0..n -> Nat]
    BY <1>6, <1>9
  <1>11. Shortens(result, number, base, n)
    BY <1>7, <1>8, <1>10 DEF Shortens
  <1> QED
    BY <1>11

(***************************************************************************)
(* The powers of a base: the first is one, and each is the one before it   *)
(* times the base.                                                         *)
(***************************************************************************)
LEMMA PowerNext ==
    ASSUME NEW base \in Nat
    PROVE  /\ Power(base, 0) = 1
           /\ \A n \in Nat : /\ Power(base, n) \in Nat
                             /\ Power(base, n + 1) = Power(base, n) * base
  <1>1. Power(base, 0) = 1
    <2>1. PICK f : Powers(f, base, 0)
      BY PowerUnfold
    <2> QED
      BY <2>1 DEF Powers
  <1>2. ASSUME NEW n \in Nat
        PROVE  /\ Power(base, n) \in Nat
               /\ Power(base, n + 1) = Power(base, n) * base
    <2>1. PICK f : Powers(f, base, n)
      BY PowerUnfold
    <2>2. n + 1 \in Nat
      OBVIOUS
    <2>3. PICK g : Powers(g, base, n + 1)
      BY <2>2, PowerUnfold
    <2> DEFINE U == {i \in 0..n : f[i] = g[i]}
    <2>4. 0 \in U
      BY <2>1, <2>3 DEF Powers
    <2>5. ASSUME NEW i \in 1..n, i - 1 \in U
          PROVE  i \in U
      <3>1. i \in 0..n /\ i \in 1..(n + 1) /\ f[i - 1] = g[i - 1]
        BY <2>5
      <3>2. f[i] = f[i - 1] * base /\ g[i] = g[i - 1] * base
        BY <2>1, <2>3, <3>1 DEF Powers
      <3> QED
        BY <3>1, <3>2
    <2> HIDE DEF U
    <2>6. n \in U
      <3>1. \A i \in 0..n : i \in U
        BY <2>4, <2>5, IntervalInduction
      <3> QED
        BY <3>1
    <2>7. n \in 0..n /\ n + 1 \in 1..(n + 1) /\ (n + 1) - 1 = n
      OBVIOUS
    <2>8. f[n] = g[n] /\ f[n] \in Nat
      BY <2>1, <2>6, <2>7 DEF U, Powers
    <2>9. g[n + 1] = g[n] * base
      BY <2>3, <2>7 DEF Powers
    <2> QED
      BY <2>1, <2>3, <2>8, <2>9 DEF Powers
  <1> QED
    BY <1>1, <1>2

(***************************************************************************)
(* The powers of a positive base are positive and grow.                    *)
(***************************************************************************)
LEMMA PowerGrows ==
    ASSUME NEW base \in Nat \ {0}
    PROVE  /\ \A n \in Nat : Power(base, n) >= 1
           /\ \A m, n \in Nat : m <= n => Power(base, m) <= Power(base, n)
  <1>1. base \in Nat /\ base >= 1
    OBVIOUS
  <1>2. \A n \in Nat : Power(base, n) \in Nat
    BY <1>1, PowerNext
  <1>3. \A n \in Nat : Power(base, n + 1) >= Power(base, n)
    <2>1. \A a \in Nat : a * base >= a
      BY <1>1
    <2> QED
      BY <1>1, <1>2, <2>1, PowerNext
  <1>4. \A n \in Nat : Power(base, n) >= 1
    <2> DEFINE U == {n \in Nat : Power(base, n) >= 1}
    <2>1. 0 \in U
      BY <1>1, PowerNext
    <2>2. \A n \in Nat : n \in U => n + 1 \in U
      BY <1>2, <1>3
    <2> HIDE DEF U
    <2>3. \A n \in Nat : n \in U
      BY <2>1, <2>2, NatSetInduction
    <2> QED
      BY <2>3 DEF U
  <1>5. ASSUME NEW m \in Nat, NEW n \in Nat, m <= n
        PROVE  Power(base, m) <= Power(base, n)
    <2> DEFINE U == {d \in Nat : Power(base, m) <= Power(base, m + d)}
    <2>1. 0 \in U
      BY <1>2
    <2>2. ASSUME NEW d \in Nat, d \in U
          PROVE  d + 1 \in U
      <3>1. m + d \in Nat /\ (m + d) + 1 = m + (d + 1) /\ d + 1 \in Nat
        OBVIOUS
      <3>2. Power(base, (m + d) + 1) >= Power(base, m + d)
        BY <1>3, <3>1
      <3>3. /\ Power(base, m) \in Nat /\ Power(base, m + d) \in Nat
            /\ Power(base, (m + d) + 1) \in Nat
        BY <1>2, <3>1
      <3>4. Power(base, m) <= Power(base, (m + d) + 1)
        BY <2>2, <3>2, <3>3
      <3> QED
        BY <3>1, <3>4
    <2> HIDE DEF U
    <2>3. n - m \in U
      <3>1. n - m \in Nat
        BY <1>5
      <3> QED
        BY <2>1, <2>2, <3>1, NatSetInduction
    <2>4. m + (n - m) = n
      OBVIOUS
    <2> QED
      BY <2>3, <2>4 DEF U
  <1> QED
    BY <1>4, <1>5

(***************************************************************************)
(* n bytes hold as many values as 8 * n bits.                              *)
(***************************************************************************)
LEMMA PowerOfBytes ==
    ASSUME NEW n \in Nat
    PROVE  Power(256, n) = Power(2, 8 * n)
  <1> DEFINE U == {k \in Nat : Power(256, k) = Power(2, 8 * k)}
  <1>1. 0 \in U
    <2>1. 8 * 0 = 0 /\ 256 \in Nat /\ 2 \in Nat
      OBVIOUS
    <2> QED
      BY <2>1, PowerNext
  <1>2. ASSUME NEW k \in Nat, k \in U
        PROVE  k + 1 \in U
    <2> DEFINE p(j) == Power(2, 8 * k + j)
    <2>1. \A j \in Nat : 8 * k + j \in Nat /\ 8 * k + (j + 1) = (8 * k + j) + 1
      OBVIOUS
    <2>2. \A j \in Nat : p(j) \in Nat /\ p(j + 1) = p(j) * 2
      BY <2>1, PowerNext
    <2>3. Power(256, k + 1) = Power(256, k) * 256 /\ Power(256, k) \in Nat
      BY PowerNext
    <2>4. p(0) = Power(256, k) /\ p(8) = Power(2, 8 * (k + 1))
      <3>1. 8 * k + 0 = 8 * k /\ 8 * k + 8 = 8 * (k + 1)
        OBVIOUS
      <3> QED
        BY <1>2, <3>1
    <2> HIDE DEF p
    <2>5. /\ p(1) = p(0) * 2 /\ p(2) = p(1) * 2 /\ p(3) = p(2) * 2
          /\ p(4) = p(3) * 2 /\ p(5) = p(4) * 2 /\ p(6) = p(5) * 2
          /\ p(7) = p(6) * 2 /\ p(8) = p(7) * 2
      <3>1. /\ 0 + 1 = 1 /\ 1 + 1 = 2 /\ 2 + 1 = 3 /\ 3 + 1 = 4
            /\ 4 + 1 = 5 /\ 5 + 1 = 6 /\ 6 + 1 = 7 /\ 7 + 1 = 8
            /\ {0, 1, 2, 3, 4, 5, 6, 7} \subseteq Nat
        OBVIOUS
      <3> QED
        BY <2>2, <3>1
    <2>6. p(8) = p(0) * 256
      BY <2>2, <2>5
    <2> QED
      BY <2>3, <2>4, <2>6
  <1> HIDE DEF U
  <1>3. n \in U
    BY <1>1, <1>2, NatSetInduction
  <1> QED
    BY <1>3 DEF U

(***************************************************************************)
(* What is left of a number: all of it at first, and each time the         *)
(* quotient of what was left; in the end nothing.                          *)
(***************************************************************************)
LEMMA ShorterNext ==
    ASSUME NEW number \in Nat, NEW base \in Nat \ {0}
    PROVE  /\ Shorter(number, base, 0) = number
           /\ \A n \in Nat :
                 /\ Shorter(number, base, n) \in Nat
                 /\ Shorter(number, base, n + 1) =
                        Shorter(number, base, n) \div base
  <1>1. Shorter(number, base, 0) = number
    <2>1. PICK f : Shortens(f, number, base, 0)
      BY ShorterUnfold
    <2> QED
      BY <2>1 DEF Shortens
  <1>2. ASSUME NEW n \in Nat
        PROVE  /\ Shorter(number, base, n) \in Nat
               /\ Shorter(number, base, n + 1) =
                        Shorter(number, base, n) \div base
    <2>1. PICK f : Shortens(f, number, base, n)
      BY ShorterUnfold
    <2>2. n + 1 \in Nat
      OBVIOUS
    <2>3. PICK g : Shortens(g, number, base, n + 1)
      BY <2>2, ShorterUnfold
    <2> DEFINE U == {i \in 0..n : f[i] = g[i]}
    <2>4. 0 \in U
      BY <2>1, <2>3 DEF Shortens
    <2>5. ASSUME NEW i \in 1..n, i - 1 \in U
          PROVE  i \in U
      <3>1. i \in 0..n /\ i \in 1..(n + 1) /\ f[i - 1] = g[i - 1]
        BY <2>5
      <3>2. f[i] = f[i - 1] \div base /\ g[i] = g[i - 1] \div base
        BY <2>1, <2>3, <3>1 DEF Shortens
      <3> QED
        BY <3>1, <3>2
    <2> HIDE DEF U
    <2>6. n \in U
      <3>1. \A i \in 0..n : i \in U
        BY <2>4, <2>5, IntervalInduction
      <3> QED
        BY <3>1
    <2>7. n \in 0..n /\ n + 1 \in 1..(n + 1) /\ (n + 1) - 1 = n
      OBVIOUS
    <2>8. f[n] = g[n] /\ f[n] \in Nat
      BY <2>1, <2>6, <2>7 DEF U, Shortens
    <2>9. g[n + 1] = g[n] \div base
      BY <2>3, <2>7 DEF Shortens
    <2> QED
      BY <2>1, <2>3, <2>8, <2>9 DEF Shortens
  <1> QED
    BY <1>1, <1>2

(***************************************************************************)
(* A number of decimal digits is used up after as many steps as it counts, *)
(* so there is a first step that leaves nothing.                           *)
(***************************************************************************)
LEMMA ShorterEnds ==
    ASSUME NEW number \in Nat
    PROVE  \E k \in 1..(number + 1) :
              /\ Shorter(number, 10, k) = 0
              /\ k > 1 => Shorter(number, 10, k - 1) # 0
  <1> DEFINE q(i) == Shorter(number, 10, i)
             U == {i \in Nat : q(i) + i <= number \/ q(i) = 0}
             Z == {i \in Nat : i >= 1 /\ q(i) = 0}
  <1>1. q(0) = number /\ \A n \in Nat : q(n) \in Nat /\ q(n + 1) = q(n) \div 10
    <2>1. 10 \in Nat \ {0}
      OBVIOUS
    <2> QED
      BY <2>1, ShorterNext
  <1> HIDE DEF q
  <1>2. 0 \in U
    BY <1>1
  <1>3. ASSUME NEW n \in Nat, n \in U
        PROVE  n + 1 \in U
    <2>1. q(n) \in Nat /\ q(n + 1) = q(n) \div 10 /\ n + 1 \in Nat
      BY <1>1
    <2>2. CASE q(n) = 0
      BY <2>1, <2>2
    <2>3. CASE q(n) # 0
      <3>1. q(n) \div 10 + 1 <= q(n)
        BY <2>1, <2>3
      <3> QED
        BY <1>3, <2>1, <2>3, <3>1
    <2> QED
      BY <2>2, <2>3
  <1>4. number + 1 \in Z
    <2> HIDE DEF U
    <2>1. number + 1 \in U
      BY <1>2, <1>3, NatSetInduction
    <2> QED
      BY <1>1, <2>1 DEF U
  <1>5. Z \in SUBSET Nat /\ Z # {}
    BY <1>4
  <1> HIDE DEF Z
  <1>6. PICK k \in Z : \A m \in Z : k <= m
    BY <1>5, LeastNatural
  <1>7. k \in Nat /\ k >= 1 /\ q(k) = 0 /\ k <= number + 1
    BY <1>4, <1>6 DEF Z
  <1>8. ASSUME k > 1
        PROVE  q(k - 1) # 0
    <2>1. k - 1 \in Nat /\ k - 1 >= 1 /\ ~(k <= k - 1)
      BY <1>7, <1>8
    <2> QED
      BY <1>6, <2>1 DEF Z
  <1> QED
    BY <1>7, <1>8 DEF q

(***************************************************************************)
(* No digits read as zero.                                                 *)
(***************************************************************************)
LEMMA PositionalEmpty ==
    ASSUME NEW base \in Nat
    PROVE  Positional(<<>>, base) = 0
  <1>1. <<>> \in Seq(Nat) /\ Len(<<>>) = 0
    OBVIOUS
  <1>2. PICK f : ReadsDigits(f, <<>>, base)
    BY <1>1, PositionalUnfold
  <1> QED
    BY <1>1, <1>2 DEF ReadsDigits

(***************************************************************************)
(* Digits read as a natural number.                                        *)
(***************************************************************************)
LEMMA PositionalIsNat ==
    ASSUME NEW s \in Seq(Nat), NEW base \in Nat
    PROVE  Positional(s, base) \in Nat
  <1>1. PICK f : ReadsDigits(f, s, base)
    BY PositionalUnfold
  <1>2. Len(s) \in 0..Len(s)
    OBVIOUS
  <1> QED
    BY <1>1, <1>2 DEF ReadsDigits

(***************************************************************************)
(* Two sequences that are the same behind z zeros read as the same number. *)
(***************************************************************************)
ReadAlike(f, s, g, t) ==
    \A z, m \in Nat : /\ m <= Len(s) /\ z + m <= Len(t)
                      /\ \A i \in 1..z : t[i] = 0
                      /\ \A i \in 1..m : t[z + i] = s[i]
                      => f[m] = g[z + m]

(***************************************************************************)
(* Whatever reads them: its values are the same from there on.             *)
(***************************************************************************)
LEMMA ReadsAgree ==
    ASSUME NEW base \in Nat, NEW s \in Seq(Nat), NEW t \in Seq(Nat),
           NEW f, NEW g, ReadsDigits(f, s, base), ReadsDigits(g, t, base)
    PROVE  ReadAlike(f, s, g, t)
  <1> SUFFICES ASSUME NEW z \in Nat, NEW m \in Nat,
                      m <= Len(s), z + m <= Len(t),
                      \A i \in 1..z : t[i] = 0,
                      \A i \in 1..m : t[z + i] = s[i]
               PROVE  f[m] = g[z + m]
    BY DEF ReadAlike
  <1>1. /\ f[0] = 0 /\ \A i \in 1..m : f[i] = f[i - 1] * base + s[i]
        /\ g[0] = 0 /\ \A i \in 1..(z + m) : g[i] = g[i - 1] * base + t[i]
    <2>1. /\ \A i \in 1..m : i \in 1..Len(s)
          /\ \A i \in 1..(z + m) : i \in 1..Len(t)
      OBVIOUS
    <2> QED
      BY <2>1 DEF ReadsDigits
  <1>2. g[z] = 0
    <2> DEFINE V == {i \in 0..z : g[i] = 0}
    <2>1. 0 \in V
      BY <1>1
    <2>2. ASSUME NEW i \in 1..z, i - 1 \in V
          PROVE  i \in V
      <3>1. i \in 1..(z + m) /\ i \in 0..z /\ g[i - 1] = 0 /\ t[i] = 0
        BY <2>2
      <3>2. g[i] = 0 * base + 0
        BY <1>1, <3>1
      <3> QED
        BY <3>1, <3>2
    <2> HIDE DEF V
    <2>3. z \in V
      <3>1. \A i \in 0..z : i \in V
        BY <2>1, <2>2, IntervalInduction
      <3> QED
        BY <3>1
    <2> QED
      BY <2>3 DEF V
  <1> DEFINE U == {i \in 0..m : f[i] = g[z + i]}
  <1>3. 0 \in U
    BY <1>1, <1>2
  <1>4. ASSUME NEW i \in 1..m, i - 1 \in U
        PROVE  i \in U
    <2>1. /\ z + i \in 1..(z + m) /\ i \in 0..m /\ (z + i) - 1 = z + (i - 1)
          /\ f[i - 1] = g[z + (i - 1)] /\ t[z + i] = s[i]
      BY <1>4
    <2>2. f[i] = f[i - 1] * base + s[i]
      BY <1>1
    <2>3. g[z + i] = g[(z + i) - 1] * base + t[z + i]
      BY <1>1, <2>1
    <2>4. f[i] = g[z + i]
      BY <2>1, <2>2, <2>3, Zenon
    <2> QED
      BY <2>1, <2>4
  <1> HIDE DEF U
  <1>5. m \in U
    <2>1. \A i \in 0..m : i \in U
      BY <1>3, <1>4, IntervalInduction
    <2> QED
      BY <2>1
  <1> QED
    BY <1>5 DEF U

(***************************************************************************)
(* Zeros in front of a number do not change it.                            *)
(***************************************************************************)
LEMMA PositionalPadded ==
    ASSUME NEW base \in Nat, NEW s \in Seq(Nat), NEW t \in Seq(Nat),
           NEW z \in Nat, Len(t) = z + Len(s),
           \A i \in 1..z : t[i] = 0,
           \A i \in 1..Len(s) : t[z + i] = s[i]
    PROVE  Positional(t, base) = Positional(s, base)
  <1>1. PICK f : ReadsDigits(f, s, base)
    BY PositionalUnfold
  <1>2. PICK g : ReadsDigits(g, t, base)
    BY PositionalUnfold
  <1>3. Len(s) \in Nat /\ Len(s) <= Len(s) /\ z + Len(s) <= Len(t)
    OBVIOUS
  <1>4. f[Len(s)] = g[z + Len(s)]
    <2>1. ReadAlike(f, s, g, t)
      BY <1>1, <1>2, ReadsAgree
    <2> QED
      BY <1>3, <2>1, Zenon DEF ReadAlike
  <1> QED
    BY <1>1, <1>2, <1>4 DEF ReadsDigits

(***************************************************************************)
(* One more digit at the end shifts the number and adds itself.            *)
(***************************************************************************)
LEMMA PositionalGrows ==
    ASSUME NEW base \in Nat, NEW s \in Seq(Nat), NEW t \in Seq(Nat),
           Len(t) = Len(s) + 1, \A i \in 1..Len(s) : t[i] = s[i]
    PROVE  Positional(t, base) = Positional(s, base) * base + t[Len(t)]
  <1>1. PICK f : ReadsDigits(f, s, base)
    BY PositionalUnfold
  <1>2. PICK g : ReadsDigits(g, t, base)
    BY PositionalUnfold
  <1> DEFINE n == Len(s)
  <1>3. /\ n \in Nat /\ n <= Len(s) /\ 0 + n <= Len(t) /\ 0 \in Nat /\ 0 + n = n
        /\ n + 1 \in 1..Len(t) /\ (n + 1) - 1 = n /\ Len(t) = n + 1
    OBVIOUS
  <1>4. /\ \A i \in 1..0 : t[i] = 0
        /\ \A i \in 1..n : t[0 + i] = s[i]
    OBVIOUS
  <1> HIDE DEF n
  <1>5. f[n] = g[0 + n]
    <2>1. ReadAlike(f, s, g, t)
      BY <1>1, <1>2, ReadsAgree
    <2> QED
      BY <1>3, <1>4, <2>1, Zenon DEF ReadAlike
  <1>6. g[n + 1] = g[(n + 1) - 1] * base + t[n + 1]
    BY <1>2, <1>3 DEF ReadsDigits
  <1>7. g[n + 1] = f[n] * base + t[n + 1]
    BY <1>3, <1>5, <1>6, Zenon
  <1>8. Positional(s, base) = f[n] /\ Positional(t, base) = g[n + 1]
    BY <1>1, <1>2, <1>3 DEF ReadsDigits, n
  <1> QED
    BY <1>3, <1>7, <1>8, Zenon

(***************************************************************************)
(* A digit is less than its base: what is below a bound stays below it,    *)
(* and what is at one stays at it, when both are shifted.                  *)
(***************************************************************************)
LEMMA ShiftKeepsOrder ==
    ASSUME NEW base \in Nat, NEW a \in Int, NEW p \in Int, NEW d \in 0..(base - 1)
    PROVE  /\ a * base + d \in Int
           /\ a < p => a * base + d < p * base
           /\ a >= p => a * base + d >= p * base
  <1>1. a * base \in Int /\ p * base \in Int
    OBVIOUS
  <1>2. ASSUME a < p
        PROVE  a * base + base <= p * base
    <2>1. (p - a) * base >= base
      BY <1>2
    <2>2. (p - a) * base = p * base - a * base
      OBVIOUS
    <2> QED
      BY <1>1, <2>1, <2>2
  <1>3. ASSUME a >= p
        PROVE  a * base >= p * base
    <2>1. (a - p) * base >= 0
      BY <1>3
    <2>2. (a - p) * base = a * base - p * base
      OBVIOUS
    <2> QED
      BY <1>1, <2>1, <2>2
  <1> DEFINE x == a * base
             y == p * base
  <1>4. x \in Int /\ y \in Int /\ (a < p => x + base <= y) /\ (a >= p => x >= y)
    BY <1>1, <1>2, <1>3
  <1> HIDE DEF x, y
  <1>5. /\ x + d \in Int
        /\ a < p => x + d < y
        /\ a >= p => x + d >= y
    BY <1>4
  <1> QED
    BY <1>5 DEF x, y

(***************************************************************************)
(* n digits read as less than the n-th power of their base.                *)
(***************************************************************************)
LEMMA PositionalBound ==
    ASSUME NEW base \in Nat \ {0}, NEW s \in Seq(0..(base - 1))
    PROVE  Positional(s, base) < Power(base, Len(s))
  <1>1. s \in Seq(Nat) /\ base \in Nat /\ Len(s) \in Nat
        /\ \A i \in 1..Len(s) : s[i] \in 0..(base - 1)
    OBVIOUS
  <1>2. PICK f : ReadsDigits(f, s, base)
    BY <1>1, PositionalUnfold
  <1> DEFINE n == Len(s)
             U == {i \in 0..n : f[i] < Power(base, i)}
  <1>3. 0 \in U
    BY <1>1, <1>2, PowerNext DEF ReadsDigits
  <1>4. ASSUME NEW i \in 1..n, i - 1 \in U
        PROVE  i \in U
    <2>1. i \in 0..n /\ i - 1 \in Nat /\ (i - 1) + 1 = i /\ i - 1 \in 0..n
      BY <1>1
    <2>2. f[i] = f[i - 1] * base + s[i] /\ f[i - 1] \in Nat
      BY <1>2, <2>1 DEF ReadsDigits
    <2>3. Power(base, i) = Power(base, i - 1) * base /\ Power(base, i - 1) \in Nat
      BY <1>1, <2>1, PowerNext
    <2>4. f[i - 1] < Power(base, i - 1)
      BY <1>4
    <2>5. s[i] \in 0..(base - 1)
      BY <1>1
    <2>6. f[i - 1] * base + s[i] < Power(base, i - 1) * base
      <3>1. f[i - 1] \in Int /\ Power(base, i - 1) \in Int
        BY <2>2, <2>3
      <3> QED
        BY <1>1, <2>4, <2>5, <3>1, ShiftKeepsOrder
    <2>7. f[i] < Power(base, i)
      BY <2>2, <2>3, <2>6, Zenon
    <2> QED
      BY <2>1, <2>7
  <1> HIDE DEF U
  <1>5. n \in U
    <2>1. n \in Nat
      BY <1>1
    <2> HIDE DEF n
    <2>2. \A i \in 0..n : i \in U
      BY <1>3, <1>4, <2>1, IntervalInduction
    <2> QED
      BY <2>1, <2>2
  <1> QED
    BY <1>2, <1>5 DEF U, ReadsDigits

(***************************************************************************)
(* The first digit says between which multiples of a power the number is.  *)
(***************************************************************************)
LEMMA PositionalLeading ==
    ASSUME NEW base \in Nat \ {0}, NEW s \in Seq(0..(base - 1)), s # <<>>
    PROVE  /\ s[1] * Power(base, Len(s) - 1) <= Positional(s, base)
           /\ Positional(s, base) < (s[1] + 1) * Power(base, Len(s) - 1)
  <1>1. s \in Seq(Nat) /\ base \in Nat /\ Len(s) \in Nat /\ Len(s) >= 1
        /\ \A i \in 1..Len(s) : s[i] \in 0..(base - 1)
    OBVIOUS
  <1>2. PICK f : ReadsDigits(f, s, base)
    BY <1>1, PositionalUnfold
  <1> DEFINE n == Len(s) - 1
             a == s[1]
             U == {i \in 0..n : /\ a * Power(base, i) <= f[i + 1]
                                /\ f[i + 1] < (a + 1) * Power(base, i)}
  <1>3. n \in Nat /\ n + 1 = Len(s) /\ a \in Nat
    BY <1>1
  <1>4. 0 \in U
    <2>1. 1 \in 1..Len(s) /\ 0 \in 0..n /\ 1 - 1 = 0 /\ 0 + 1 = 1
      BY <1>1
    <2>2. f[1] = f[1 - 1] * base + s[1] /\ f[0] = 0
      BY <1>2, <2>1 DEF ReadsDigits
    <2>3. f[1] = a
      BY <1>1, <2>1, <2>2
    <2>4. Power(base, 0) = 1
      BY <1>1, PowerNext
    <2> HIDE DEF a, n
    <2>5. a * 1 <= a /\ a < (a + 1) * 1
      BY <1>3
    <2> QED
      BY <2>1, <2>3, <2>4, <2>5
  <1>5. ASSUME NEW i \in 1..n, i - 1 \in U
        PROVE  i \in U
    <2>1. /\ i \in 0..n /\ i - 1 \in Nat /\ (i - 1) + 1 = i
          /\ i + 1 \in 1..Len(s) /\ (i + 1) - 1 = i /\ i \in 0..Len(s)
      BY <1>1
    <2> DEFINE q == Power(base, i - 1)
    <2>2. f[i + 1] = f[i] * base + s[i + 1] /\ f[i] \in Nat
      BY <1>2, <2>1 DEF ReadsDigits
    <2>3. Power(base, i) = q * base /\ q \in Nat
      BY <1>1, <2>1, PowerNext
    <2>4. a * q <= f[i] /\ f[i] < (a + 1) * q
      BY <1>5, <2>1
    <2>5. s[i + 1] \in 0..(base - 1)
      BY <1>1, <2>1
    <2> HIDE DEF q, a, n
    <2>6. /\ f[i] * base + s[i + 1] < ((a + 1) * q) * base
          /\ f[i] * base + s[i + 1] >= (a * q) * base
      <3>1. f[i] \in Int /\ (a + 1) * q \in Int /\ a * q \in Int
        BY <1>3, <2>2, <2>3
      <3>2. f[i] >= a * q
        BY <2>4, <3>1
      <3> QED
        BY <1>1, <2>4, <2>5, <3>1, <3>2, ShiftKeepsOrder
    <2>7. ((a + 1) * q) * base = (a + 1) * (q * base) /\ (a * q) * base = a * (q * base)
      BY <1>3, <2>3
    <2>8. /\ f[i + 1] < (a + 1) * Power(base, i)
          /\ f[i + 1] >= a * Power(base, i)
      BY <2>2, <2>3, <2>6, <2>7, Zenon
    <2>9. a * Power(base, i) <= f[i + 1]
      <3>1. a * Power(base, i) \in Int
        BY <1>3, <2>3
      <3>2. f[i + 1] \in Int
        <4>1. i + 1 \in 0..Len(s)
          BY <2>1
        <4> QED
          <5>1. f \in [0..Len(s) -> Nat]
            BY <1>2 DEF ReadsDigits
          <5> QED
            BY <4>1, <5>1
      <3> QED
        BY <2>8, <3>1, <3>2
    <2> QED
      BY <2>1, <2>8, <2>9
  <1> HIDE DEF U
  <1>6. n \in U
    <2> HIDE DEF n
    <2>1. \A i \in 0..n : i \in U
      BY <1>3, <1>4, <1>5, IntervalInduction
    <2> QED
      BY <1>3, <2>1
  <1>7. Positional(s, base) = f[n + 1]
    BY <1>2, <1>3 DEF ReadsDigits
  <1> QED
    BY <1>6, <1>7 DEF U

-----------------------------------------------------------------------------
(***************************************************************************)
(* The elements at both ends that are not kept do not matter to Filter.    *)
(***************************************************************************)
LEMMA FilterWithin ==
    ASSUME NEW S, NEW s \in Seq(S), NEW T,
           NEW a \in 1..Len(s), NEW b \in a..Len(s),
           \A i \in 1..Len(s) : i < a \/ i > b => s[i] \notin T
    PROVE  Filter(SubSeq(s, a, b), T) = Filter(s, T)
  <1> DEFINE n == Len(s)
             u == SubSeq(s, a, b)
             m == b - a + 1
             z == a - 1
  <1>1. /\ n \in Nat /\ m \in Nat /\ z \in Nat /\ b \in Nat
        /\ z + m = b /\ b <= n
        /\ n - b \in Nat /\ b + (n - b) = n
        /\ u \in Seq(S) /\ Len(u) = m
        /\ \A i \in 1..m : u[i] = s[z + i]
    OBVIOUS
  <1>2. /\ \A i \in 1..z : i \in 1..n /\ s[i] \notin T
        /\ \A i \in (b + 1)..n : i \in 1..n /\ s[i] \notin T
    OBVIOUS
  <1>3. PICK f : Filters(f, s, S, T)
    BY FilterUnfold
  <1> HIDE DEF u
  <1>4. PICK g : Filters(g, u, S, T)
    BY <1>1, FilterUnfold
  <1> HIDE DEF n, m, z
  <1>5. /\ f[0] = <<>> /\ g[0] = <<>>
        /\ \A i \in 1..n : f[i] = IF s[i] \in T THEN Append(f[i - 1], s[i])
                                  ELSE f[i - 1]
        /\ \A i \in 1..m : g[i] = IF u[i] \in T THEN Append(g[i - 1], u[i])
                                  ELSE g[i - 1]
        /\ Filter(s, T) = f[n] /\ Filter(u, T) = g[m]
    BY <1>1, <1>3, <1>4 DEF Filters, n
  <1>6. f[z] = <<>>
    <2> DEFINE U == {i \in 0..z : f[i] = <<>>}
    <2>1. 0 \in U
      BY <1>1, <1>5
    <2>2. ASSUME NEW i \in 1..z, i - 1 \in U
          PROVE  i \in U
      <3>1. i \in 1..n /\ s[i] \notin T /\ i \in 0..z /\ f[i - 1] = <<>>
        BY <1>1, <1>2, <2>2
      <3>2. f[i] = f[i - 1]
        BY <1>5, <3>1
      <3> QED
        BY <3>1, <3>2
    <2> HIDE DEF U
    <2>3. \A i \in 0..z : i \in U
      BY <1>1, <2>1, <2>2, IntervalInduction
    <2> QED
      BY <1>1, <2>3 DEF U
  <1>7. f[b] = g[m]
    <2> DEFINE U == {i \in 0..m : f[z + i] = g[i]}
    <2>1. 0 \in U
      <3>1. 0 \in 0..m /\ z + 0 = z
        BY <1>1
      <3> QED
        BY <1>5, <1>6, <3>1
    <2>2. ASSUME NEW i \in 1..m, i - 1 \in U
          PROVE  i \in U
      <3>1. /\ z + i \in 1..n /\ i \in 0..m /\ (z + i) - 1 = z + (i - 1)
            /\ u[i] = s[z + i] /\ f[z + (i - 1)] = g[i - 1]
        BY <1>1, <2>2
      <3>2. /\ f[z + i] = IF s[z + i] \in T
                          THEN Append(f[(z + i) - 1], s[z + i])
                          ELSE f[(z + i) - 1]
            /\ g[i] = IF u[i] \in T THEN Append(g[i - 1], u[i]) ELSE g[i - 1]
        BY <1>5, <3>1
      <3>3. CASE s[z + i] \in T
        <4>1. /\ f[z + i] = Append(f[(z + i) - 1], s[z + i])
              /\ g[i] = Append(g[i - 1], u[i])
          BY <3>1, <3>2, <3>3
        <4>2. f[z + i] = g[i]
          BY <3>1, <4>1, Zenon
        <4> QED
          BY <3>1, <4>2
      <3>4. CASE s[z + i] \notin T
        <4>1. f[z + i] = f[(z + i) - 1] /\ g[i] = g[i - 1]
          BY <3>1, <3>2, <3>4
        <4> QED
          BY <3>1, <4>1
      <3> QED
        BY <3>3, <3>4
    <2> HIDE DEF U
    <2>3. \A i \in 0..m : i \in U
      BY <1>1, <2>1, <2>2, IntervalInduction
    <2>4. m \in U
      BY <1>1, <2>3
    <2> QED
      BY <1>1, <2>4 DEF U
  <1>8. f[n] = f[b]
    <2> DEFINE U == {i \in 0..(n - b) : f[b + i] = f[b]}
    <2>1. 0 \in U
      <3>1. 0 \in 0..(n - b) /\ b + 0 = b
        BY <1>1
      <3> QED
        BY <3>1
    <2>2. ASSUME NEW i \in 1..(n - b), i - 1 \in U
          PROVE  i \in U
      <3>1. /\ b + i \in (b + 1)..n /\ b + i \in 1..n /\ i \in 0..(n - b)
            /\ (b + i) - 1 = b + (i - 1) /\ f[b + (i - 1)] = f[b]
        BY <1>1, <2>2
      <3>2. f[b + i] = f[(b + i) - 1]
        BY <1>2, <1>5, <3>1
      <3> QED
        BY <3>1, <3>2
    <2> HIDE DEF U
    <2>3. \A i \in 0..(n - b) : i \in U
      BY <1>1, <2>1, <2>2, IntervalInduction
    <2>4. n - b \in U
      BY <1>1, <2>3
    <2> QED
      BY <1>1, <2>4 DEF U
  <1> QED
    BY <1>5, <1>7, <1>8, Zenon DEF u

(***************************************************************************)
(* Nothing is kept of a sequence that has nothing to keep.                 *)
(***************************************************************************)
LEMMA FilterNone ==
    ASSUME NEW S, NEW s \in Seq(S), NEW T, \A i \in 1..Len(s) : s[i] \notin T
    PROVE  Filter(s, T) = <<>>
  <1>1. PICK f : Filters(f, s, S, T)
    BY FilterUnfold
  <1> DEFINE U == {i \in 0..Len(s) : f[i] = <<>>}
  <1>2. 0 \in U
    BY <1>1 DEF Filters
  <1>3. ASSUME NEW i \in 1..Len(s), i - 1 \in U
        PROVE  i \in U
    <2>1. i \in 0..Len(s) /\ f[i - 1] = <<>> /\ s[i] \notin T
      BY <1>3
    <2>2. f[i] = f[i - 1]
      BY <1>1, <2>1 DEF Filters
    <2> QED
      BY <2>1, <2>2
  <1> HIDE DEF U
  <1>4. Len(s) \in Nat
    OBVIOUS
  <1>5. Len(s) \in U
    <2>1. \A i \in 0..Len(s) : i \in U
      BY <1>2, <1>3, <1>4, IntervalInduction
    <2> QED
      BY <1>4, <2>1
  <1> QED
    BY <1>1, <1>5 DEF U, Filters

(***************************************************************************)
(* Everything is kept of a sequence of elements to keep.                   *)
(***************************************************************************)
LEMMA FilterEach ==
    ASSUME NEW S, NEW s \in Seq(S), NEW T, \A i \in 1..Len(s) : s[i] \in T
    PROVE  Filter(s, T) = s
  <1>1. PICK f : Filters(f, s, S, T)
    BY FilterUnfold
  <1> DEFINE n == Len(s)
             front(i) == SubSeq(s, 1, i)
             U == {i \in 0..n : f[i] = front(i)}
  <1>2. /\ n \in Nat
        /\ front(0) = <<>>
        /\ front(n) = s
        /\ \A i \in 1..n : front(i) = Append(front(i - 1), s[i])
    <2>1. ASSUME NEW i \in 1..n
          PROVE  front(i) = Append(front(i - 1), s[i])
      <3>1. front(i) \in Seq(S) /\ front(i - 1) \in Seq(S) /\ s[i] \in S
        OBVIOUS
      <3>2. /\ Len(front(i)) = i /\ Len(front(i - 1)) = i - 1
            /\ \A j \in 1..i : front(i)[j] = s[j]
            /\ \A j \in 1..(i - 1) : front(i - 1)[j] = s[j]
        OBVIOUS
      <3> HIDE DEF front
      <3>3. /\ Append(front(i - 1), s[i]) \in Seq(S)
            /\ Len(Append(front(i - 1), s[i])) = Len(front(i - 1)) + 1
            /\ \A j \in 1..Len(front(i - 1)) :
                  Append(front(i - 1), s[i])[j] = front(i - 1)[j]
            /\ Append(front(i - 1), s[i])[Len(front(i - 1)) + 1] = s[i]
        BY <3>1, AppendHolds
      <3> QED
        BY <3>1, <3>2, <3>3
    <2>2. front(n) = s
      OBVIOUS
    <2> QED
      BY <2>1, <2>2
  <1>3. 0 \in U
    BY <1>1, <1>2 DEF Filters
  <1>4. ASSUME NEW i \in 1..n, i - 1 \in U
        PROVE  i \in U
    <2> HIDE DEF front
    <2>1. i \in 0..n /\ f[i - 1] = front(i - 1) /\ s[i] \in T
      BY <1>2, <1>4
    <2>2. f[i] = Append(f[i - 1], s[i])
      BY <1>1, <2>1 DEF Filters
    <2> QED
      BY <1>2, <2>1, <2>2
  <1> HIDE DEF U, n
  <1>5. \A i \in 0..n : i \in U
    BY <1>2, <1>3, <1>4, IntervalInduction
  <1>6. n \in U
    BY <1>2, <1>5
  <1> HIDE DEF front
  <1>7. Filter(s, T) = f[n] /\ f[n] = front(n)
    BY <1>1, <1>6 DEF U, Filters, n
  <1> QED
    BY <1>2, <1>7

(***************************************************************************)
(* Every set of numbers of an interval that is not empty has a greatest.   *)
(***************************************************************************)
LEMMA GreatestOf ==
    ASSUME NEW n \in Nat, NEW T \in SUBSET (1..n), T # {}
    PROVE  \E x \in T : \A y \in T : y <= x
  <1> DEFINE R == {n - x : x \in T}
  <1>1. /\ R # {} /\ \A x \in T : x \in Nat /\ n - x \in Nat /\ n - x \in R
        /\ \A r \in R : \E x \in T : r = n - x
    <2>1. \A x \in T : x \in 1..n
      OBVIOUS
    <2>2. \A x \in 1..n : x \in Nat /\ n - x \in Nat
      OBVIOUS
    <2>3. R # {} /\ \A x \in T : n - x \in R
      OBVIOUS
    <2>4. \A r \in R : \E x \in T : r = n - x
      OBVIOUS
    <2> QED
      BY <2>1, <2>2, <2>3, <2>4
  <1> HIDE DEF R
  <1>2. R \in SUBSET Nat
    BY <1>1
  <1>3. PICK r \in R : \A q \in R : r <= q
    BY <1>1, <1>2, LeastNatural
  <1>4. PICK x \in T : r = n - x
    BY <1>1
  <1>5. ASSUME NEW y \in T
        PROVE  y <= x
    <2>1. n - x <= n - y
      BY <1>1, <1>3, <1>4
    <2>2. x \in Nat /\ y \in Nat
      BY <1>1
    <2> QED
      BY <2>1, <2>2
  <1> QED
    BY <1>5

(***************************************************************************)
(* The first element of a sequence, by itself.                             *)
(***************************************************************************)
LEMMA FirstAlone ==
    ASSUME NEW S, NEW s \in Seq(S), Len(s) >= 1
    PROVE  SubSeq(s, 1, 1) = <<s[1]>>
  <1>1. SubSeq(s, 1, 1) \in Seq(S)
    OBVIOUS
  <1>2. Len(SubSeq(s, 1, 1)) = 1
    OBVIOUS
  <1>3. SubSeq(s, 1, 1)[1] = s[1]
    OBVIOUS
  <1> DEFINE u == SubSeq(s, 1, 1)
             v == <<s[1]>>
  <1>4. v \in Seq(S) /\ Len(v) = 1 /\ v[1] = s[1]
    OBVIOUS
  <1>5. u \in Seq(S) /\ Len(u) = 1 /\ u[1] = s[1]
    BY <1>1, <1>2, <1>3
  <1> HIDE DEF u, v
  <1>6. Len(u) = Len(v) /\ \A i \in 1..Len(u) : u[i] = v[i]
    BY <1>4, <1>5
  <1>7. u = v
    BY <1>4, <1>5, <1>6, SeqEqual
  <1> QED
    BY <1>7 DEF u, v

(***************************************************************************)
(* The two parts of a sequence make it up again.                           *)
(***************************************************************************)
LEMMA SplitJoins ==
    ASSUME NEW S, NEW s \in Seq(S), NEW k \in 0..Len(s)
    PROVE  SubSeq(s, 1, k) \o SubSeq(s, k + 1, Len(s)) = s
  <1> DEFINE n == Len(s)
             u == SubSeq(s, 1, k)
             v == SubSeq(s, k + 1, n)
  <1>1. n \in Nat /\ k \in Nat /\ k <= n
    OBVIOUS
  <1>2. /\ u \in Seq(S) /\ Len(u) = k
        /\ \A i \in 1..k : u[i] = s[i]
    OBVIOUS
  <1>3. /\ v \in Seq(S) /\ Len(v) = n - k
        /\ \A i \in 1..(n - k) : v[i] = s[k + i]
    OBVIOUS
  <1> HIDE DEF u, v, n
  <1>4. /\ u \o v \in Seq(S) /\ Len(u \o v) = Len(u) + Len(v)
        /\ \A i \in 1..(Len(u) + Len(v)) :
              (u \o v)[i] = IF i <= Len(u) THEN u[i] ELSE v[i - Len(u)]
    <2>1. u \in Seq(S) /\ v \in Seq(S)
      BY <1>2, <1>3
    <2> QED
      BY <2>1, ConcatProperties, Zenon
  <1> DEFINE w == u \o v
  <1>5. w \in Seq(S) /\ Len(w) = n
    BY <1>1, <1>2, <1>3, <1>4
  <1>6. ASSUME NEW i \in 1..n
        PROVE  w[i] = s[i]
    <2>1. w[i] = IF i <= k THEN u[i] ELSE v[i - k]
      <3>1. Len(u) = k /\ Len(v) = n - k
        BY <1>2, <1>3
      <3>2. i \in 1..(Len(u) + Len(v))
        BY <1>1, <3>1
      <3>3. (u \o v)[i] = IF i <= Len(u) THEN u[i] ELSE v[i - Len(u)]
        BY <1>4, <3>2
      <3> QED
        BY <3>1, <3>3, Zenon
    <2> HIDE DEF w
    <2>2. CASE i <= k
      BY <1>1, <1>2, <2>1, <2>2
    <2>3. CASE i > k
      <3>1. i - k \in 1..(n - k) /\ k + (i - k) = i
        BY <1>1, <2>3
      <3> QED
        BY <1>1, <1>3, <2>1, <2>3, <3>1
    <2> QED
      BY <1>1, <2>2, <2>3
  <1> HIDE DEF w
  <1>7. s \in Seq(S) /\ Len(s) = n
    BY DEF n
  <1>8. w = s
    BY <1>5, <1>6, <1>7, SeqEqual
  <1> QED
    BY <1>8 DEF w, u, v, n

(***************************************************************************)
(* The first k elements of a sequence.                                     *)
(***************************************************************************)
LEMMA FrontIs ==
    ASSUME NEW S, NEW s \in Seq(S), NEW k \in 0..Len(s)
    PROVE  /\ SubSeq(s, 1, k) \in Seq(S) /\ Len(SubSeq(s, 1, k)) = k
           /\ \A i \in 1..k : SubSeq(s, 1, k)[i] = s[i]
  OBVIOUS

(***************************************************************************)
(* The same of a function on an interval.                                  *)
(***************************************************************************)
LEMMA PrefixIs ==
    ASSUME NEW n \in Nat, NEW S, NEW f \in [1..n -> S], NEW j \in 0..n
    PROVE  /\ [i \in 1..j |-> f[i]] \in Seq(S)
           /\ Len([i \in 1..j |-> f[i]]) = j
           /\ \A i \in 1..j : [k \in 1..j |-> f[k]][i] = f[i]
  <1> DEFINE u == [i \in 1..j |-> f[i]]
  <1>1. j \in Nat /\ \A i \in 1..j : i \in 1..n
    OBVIOUS
  <1>2. \A i \in 1..j : u[i] = f[i]
    OBVIOUS
  <1>3. u \in [1..j -> S]
    BY <1>1
  <1> HIDE DEF u
  <1>4. u \in Seq(S) /\ Len(u) = j
    BY <1>1, <1>3, IntervalIsSeq
  <1> QED
    BY <1>2, <1>4 DEF u

(***************************************************************************)
(* A sequence of elements of a set is one of any larger set.               *)
(***************************************************************************)
LEMMA SeqWidens ==
    ASSUME NEW S, NEW T, S \subseteq T, NEW s \in Seq(S)
    PROVE  s \in Seq(T)
  OBVIOUS

-----------------------------------------------------------------------------
(***************************************************************************)
(* The same number n more times adds n times as much.                      *)
(***************************************************************************)
LEMMA TotalRepeats ==
    ASSUME NEW s \in Seq(Nat), NEW t \in Seq(Nat), NEW n \in Nat, NEW c \in Nat,
           Len(t) = Len(s) + n,
           \A i \in 1..Len(s) : t[i] = s[i],
           \A i \in 1..n : t[Len(s) + i] = c
    PROVE  Total(t) = Total(s) + c * n
  <1> DEFINE m == Len(s)
  <1>1. m \in Nat /\ m <= Len(s) /\ m <= Len(t) /\ \A i \in 1..m : s[i] = t[i]
    OBVIOUS
  <1>2. PICK f : Sums(f, s)
    BY TotalUnfold
  <1>3. PICK g : Sums(g, t)
    BY TotalUnfold
  <1>4. /\ Total(s) = f[m] /\ f[m] \in Nat /\ Total(t) = g[m + n]
        /\ \A i \in 1..(m + n) : g[i] = g[i - 1] + t[i]
    BY <1>1, <1>2, <1>3 DEF Sums
  <1>5. \A i \in 1..n : t[m + i] = c
    OBVIOUS
  <1>6. f[m] = g[m]
    <2>1. s \in Seq(Nat) /\ t \in Seq(Nat) /\ Sums(f, s) /\ Sums(g, t)
      BY <1>2, <1>3
    <2>2. m \in Nat /\ m <= Len(s) /\ m <= Len(t) /\ \A i \in 1..m : s[i] = t[i]
      BY <1>1
    <2> HIDE DEF m
    <2> QED
      BY ONLY <2>1, <2>2, SumsAgree
  <1> HIDE DEF m
  <1> DEFINE U == {i \in 0..n : g[m + i] = f[m] + c * i}
  <1>7. 0 \in U
    BY <1>1, <1>4, <1>6
  <1>8. ASSUME NEW i \in 1..n, i - 1 \in U
        PROVE  i \in U
    <2>1. m + i \in 1..(m + n) /\ (m + i) - 1 = m + (i - 1) /\ i \in 0..n
      BY <1>1
    <2>2. g[m + i] = g[m + (i - 1)] + c
      BY <1>4, <1>5, <2>1
    <2>3. g[m + (i - 1)] = f[m] + c * (i - 1)
      BY <1>8
    <2>4. c * (i - 1) = c * i - c
      OBVIOUS
    <2>5. c * i \in Nat
      OBVIOUS
    <2> DEFINE p == c * i
    <2> HIDE DEF p
    <2>6. f[m] + (p - c) + c = f[m] + p
      BY <1>4, <2>5 DEF p
    <2> QED
      BY <2>1, <2>2, <2>3, <2>4, <2>6 DEF p
  <1> HIDE DEF U
  <1>9. \A i \in 0..n : i \in U
    BY <1>7, <1>8, IntervalInduction
  <1>10. n \in U
    BY <1>9
  <1> QED
    BY <1>4, <1>10 DEF U

-----------------------------------------------------------------------------
(***************************************************************************)
(* Filter goes through the elements one by one: two sequences that agree   *)
(* on a part keep the same of it.                                          *)
(***************************************************************************)
LEMMA KeptAgree ==
    ASSUME NEW S, NEW s \in Seq(S), NEW t \in Seq(S), NEW T, NEW f, NEW g,
           Filters(f, s, S, T), Filters(g, t, S, T),
           NEW m \in Nat, m <= Len(s), m <= Len(t),
           \A i \in 1..m : s[i] = t[i]
    PROVE  f[m] = g[m]
  <1> DEFINE U == {i \in 0..m : f[i] = g[i]}
  <1>1. /\ f[0] = <<>> /\ g[0] = <<>>
        /\ \A i \in 1..m : /\ f[i] = IF s[i] \in T THEN Append(f[i - 1], s[i])
                                     ELSE f[i - 1]
                           /\ g[i] = IF t[i] \in T THEN Append(g[i - 1], t[i])
                                     ELSE g[i - 1]
    <2>1. \A i \in 1..m : i \in 1..Len(s) /\ i \in 1..Len(t)
      OBVIOUS
    <2> QED
      BY <2>1 DEF Filters
  <1>2. 0 \in U
    BY <1>1
  <1>3. ASSUME NEW i \in 1..m, i - 1 \in U
        PROVE  i \in U
    <2>1. f[i - 1] = g[i - 1] /\ s[i] = t[i] /\ i \in 0..m
      BY <1>3
    <2>2. f[i] = g[i]
      BY <1>1, <2>1
    <2> QED
      BY <2>1, <2>2
  <1> HIDE DEF U
  <1>4. \A i \in 0..m : i \in U
    BY <1>2, <1>3, IntervalInduction
  <1>5. m \in U
    BY <1>4
  <1> QED
    BY <1>5 DEF U

(***************************************************************************)
(* One more element is kept when it is in the set.                         *)
(***************************************************************************)
LEMMA FilterGrows ==
    ASSUME NEW S, NEW s \in Seq(S), NEW x \in S, NEW T
    PROVE  Filter(Append(s, x), T) = IF x \in T THEN Append(Filter(s, T), x)
                                     ELSE Filter(s, T)
  <1> DEFINE n == Len(s)
             t == Append(s, x)
  <1>1. /\ n \in Nat /\ t \in Seq(S) /\ Len(t) = n + 1 /\ t[n + 1] = x
        /\ \A i \in 1..n : s[i] = t[i]
    BY AppendHolds
  <1> HIDE DEF t
  <1>2. PICK f : Filters(f, s, S, T)
    BY FilterUnfold
  <1>3. PICK g : Filters(g, t, S, T)
    BY <1>1, FilterUnfold
  <1>4. f[n] = g[n]
    <2>1. \A k \in Nat : /\ k <= Len(s) /\ k <= Len(t)
                         /\ \A i \in 1..k : s[i] = t[i]
                         => f[k] = g[k]
      BY <1>1, <1>2, <1>3, KeptAgree
    <2>2. n <= Len(s) /\ n <= Len(t)
      BY <1>1
    <2> HIDE DEF n
    <2> QED
      BY <1>1, <2>1, <2>2, Zenon
  <1>5. n + 1 \in 1..Len(t) /\ (n + 1) - 1 = n
    BY <1>1
  <1>6. g[n + 1] = IF x \in T THEN Append(g[n], x) ELSE g[n]
    BY <1>1, <1>3, <1>5 DEF Filters
  <1>7. Filter(s, T) = f[n] /\ Filter(t, T) = g[n + 1]
    BY <1>1, <1>2, <1>3 DEF Filters
  <1> QED
    BY <1>4, <1>6, <1>7 DEF t

(***************************************************************************)
(* Filtering twice is filtering by both.                                   *)
(***************************************************************************)
LEMMA FilterTwice ==
    ASSUME NEW S, NEW s \in Seq(S), NEW T, NEW U
    PROVE  Filter(Filter(s, T), U) = Filter(s, T \cap U)
  <1> DEFINE n == Len(s)
  <1>1. n \in Nat /\ \A i \in 1..n : s[i] \in S
    OBVIOUS
  <1>2. PICK f : Filters(f, s, S, T)
    BY FilterUnfold
  <1>3. PICK g : Filters(g, s, S, T \cap U)
    BY FilterUnfold
  <1>4. /\ f \in [0..n -> Seq(S)] /\ f[0] = <<>> /\ g[0] = <<>>
        /\ f[n] = Filter(s, T) /\ g[n] = Filter(s, T \cap U)
        /\ \A i \in 1..n :
              /\ f[i] = IF s[i] \in T THEN Append(f[i - 1], s[i]) ELSE f[i - 1]
              /\ g[i] = IF s[i] \in T \cap U THEN Append(g[i - 1], s[i])
                        ELSE g[i - 1]
    BY <1>2, <1>3 DEF Filters
  <1> HIDE DEF n
  <1> DEFINE W == {i \in 0..n : Filter(f[i], U) = g[i]}
  <1>5. 0 \in W
    <2>1. <<>> \in Seq(S) /\ Len(<<>>) = 0
      OBVIOUS
    <2>2. PICK h : Filters(h, <<>>, S, U)
      BY <2>1, FilterUnfold
    <2>3. Filter(<<>>, U) = <<>>
      BY <2>1, <2>2 DEF Filters
    <2> QED
      BY <1>1, <1>4, <2>3
  <1>6. ASSUME NEW i \in 1..n, i - 1 \in W
        PROVE  i \in W
    <2>1. i \in 0..n /\ i - 1 \in 0..n /\ s[i] \in S /\ f[i - 1] \in Seq(S)
      BY <1>1, <1>4
    <2>2. Filter(f[i - 1], U) = g[i - 1]
      BY <1>6
    <2> DEFINE u == f[i - 1]
               x == s[i]
    <2>3. /\ u \in Seq(S) /\ x \in S
          /\ f[i] = IF x \in T THEN Append(u, x) ELSE u
          /\ g[i] = IF x \in T \cap U THEN Append(Filter(u, U), x)
                    ELSE Filter(u, U)
      BY <1>4, <2>1, <2>2
    <2> HIDE DEF u, x
    <2>4. Filter(Append(u, x), U) = IF x \in U THEN Append(Filter(u, U), x)
                                    ELSE Filter(u, U)
      BY <2>3, FilterGrows
    <2>5. Filter(f[i], U) = g[i]
      BY <2>3, <2>4
    <2> QED
      BY <2>1, <2>5
  <1> HIDE DEF W
  <1>7. \A i \in 0..n : i \in W
    BY <1>1, <1>5, <1>6, IntervalInduction
  <1>8. n \in W
    BY <1>1, <1>7
  <1> QED
    BY <1>4, <1>8 DEF W

(***************************************************************************)
(* What a function makes of the elements of a sequence.                    *)
(***************************************************************************)
Images(f, u) == [k \in 1..Len(u) |-> f[u[k]]]

(***************************************************************************)
(* The images of one more element.                                         *)
(***************************************************************************)
LEMMA ImagesGrow ==
    ASSUME NEW S, NEW R, NEW u \in Seq(S), NEW x \in S, NEW f \in [S -> R]
    PROVE  /\ Images(f, u) \in Seq(R) /\ Len(Images(f, u)) = Len(u)
           /\ Images(f, Append(u, x)) = Append(Images(f, u), f[x])
  <1>1. /\ Append(u, x) \in Seq(S) /\ Len(Append(u, x)) = Len(u) + 1
        /\ \A k \in 1..Len(u) : Append(u, x)[k] = u[k]
        /\ Append(u, x)[Len(u) + 1] = x
    BY AppendHolds
  <1>2. Images(f, u) \in Seq(R) /\ Len(Images(f, u)) = Len(u) /\ f[x] \in R
    <2>1. /\ Images(f, u) \in [1..Len(u) -> R] /\ Len(u) \in Nat
          /\ f[x] \in R
      BY DEF Images
    <2> QED
      BY <2>1, IntervalIsSeq
  <1>3. /\ Append(Images(f, u), f[x]) \in Seq(R)
        /\ Len(Append(Images(f, u), f[x])) = Len(u) + 1
        /\ \A k \in 1..Len(u) : Append(Images(f, u), f[x])[k]
                                    = Images(f, u)[k]
        /\ Append(Images(f, u), f[x])[Len(u) + 1] = f[x]
    BY <1>2, AppendHolds
  <1>4. /\ Images(f, Append(u, x)) = [k \in 1..(Len(u) + 1) |->
                                         f[Append(u, x)[k]]]
        /\ \A k \in 1..Len(u) : Images(f, u)[k] = f[u[k]]
    BY <1>1 DEF Images
  <1> DEFINE v == Append(Images(f, u), f[x])
  <1> HIDE DEF v
  <1>5. v = [k \in 1..(Len(u) + 1) |-> v[k]]
    BY <1>3 DEF v
  <1>6. \A k \in 1..(Len(u) + 1) : v[k] = f[Append(u, x)[k]]
    <2>1. \A k \in 1..(Len(u) + 1) : k \in 1..Len(u) \/ k = Len(u) + 1
      OBVIOUS
    <2> QED
      BY <1>1, <1>3, <1>4, <2>1 DEF v
  <1>7. v = [k \in 1..(Len(u) + 1) |-> f[Append(u, x)[k]]]
    BY <1>5, <1>6
  <1> QED
    BY <1>2, <1>4, <1>7, Zenon DEF v

(***************************************************************************)
(* Filtering a sequence of images is taking the images of what is filtered.*)
(***************************************************************************)
LEMMA FilterOfImages ==
    ASSUME NEW S, NEW R, NEW s \in Seq(S), NEW t \in Seq(R), NEW f \in [S -> R],
           NEW T, NEW U, Len(t) = Len(s),
           \A i \in 1..Len(s) : t[i] = f[s[i]] /\ (t[i] \in U <=> s[i] \in T)
    PROVE  Filter(t, U) = Images(f, Filter(s, T))
  <1> DEFINE n == Len(s)
  <1>1. n \in Nat /\ \A i \in 1..n : s[i] \in S /\ t[i] \in R
    OBVIOUS
  <1>2. PICK a : Filters(a, s, S, T)
    BY FilterUnfold
  <1>3. PICK b : Filters(b, t, R, U)
    BY FilterUnfold
  <1>4. /\ a \in [0..n -> Seq(S)] /\ b \in [0..n -> Seq(R)]
        /\ a[0] = <<>> /\ b[0] = <<>>
        /\ a[n] = Filter(s, T) /\ b[n] = Filter(t, U)
        /\ \A i \in 1..n :
              /\ a[i] = IF s[i] \in T THEN Append(a[i - 1], s[i]) ELSE a[i - 1]
              /\ b[i] = IF t[i] \in U THEN Append(b[i - 1], t[i]) ELSE b[i - 1]
    BY <1>2, <1>3 DEF Filters
  <1>5. \A i \in 1..n : t[i] = f[s[i]] /\ (t[i] \in U <=> s[i] \in T)
    OBVIOUS
  <1> HIDE DEF n
  <1> DEFINE W == {i \in 0..n : b[i] = Images(f, a[i])}
  <1>6. 0 \in W
    BY <1>1, <1>4 DEF Images
  <1>7. ASSUME NEW i \in 1..n, i - 1 \in W
        PROVE  i \in W
    <2>1. /\ i \in 0..n /\ i - 1 \in 0..n /\ s[i] \in S
          /\ a[i - 1] \in Seq(S)
      BY <1>1, <1>4
    <2> DEFINE u == a[i - 1]
               x == s[i]
    <2>2. /\ u \in Seq(S) /\ x \in S /\ b[i - 1] = Images(f, u)
          /\ a[i] = IF x \in T THEN Append(u, x) ELSE u
          /\ b[i] = IF x \in T THEN Append(Images(f, u), f[x]) ELSE Images(f, u)
      BY <1>4, <1>5, <1>7, <2>1
    <2> HIDE DEF u, x
    <2>3. Images(f, Append(u, x)) = Append(Images(f, u), f[x])
      BY <2>2, ImagesGrow
    <2>4. b[i] = Images(f, a[i])
      BY <2>2, <2>3
    <2> QED
      BY <2>1, <2>4
  <1> HIDE DEF W
  <1>8. \A i \in 0..n : i \in W
    BY <1>1, <1>6, <1>7, IntervalInduction
  <1>9. n \in W
    BY <1>1, <1>8
  <1> QED
    BY <1>4, <1>9 DEF W

(***************************************************************************)
(* Of the numbers 1 to n, the ones in a set and a number above them.       *)
(***************************************************************************)
LEMMA FilterLast ==
    ASSUME NEW n \in Nat, NEW a \in 1..n, NEW T \in SUBSET (1..(a - 1))
    PROVE  Filter([j \in 1..n |-> j], T \cup {a})
               = Append(Filter([j \in 1..n |-> j], T), a)
  <1> DEFINE s == [j \in 1..n |-> j]
             V == T \cup {a}
  <1>1. s \in Seq(Nat) /\ Len(s) = n /\ \A i \in 1..n : s[i] = i
    OBVIOUS
  <1> HIDE DEF s, V
  <1>2. PICK f : Filters(f, s, Nat, T)
    BY <1>1, FilterUnfold
  <1>3. PICK g : Filters(g, s, Nat, V)
    BY <1>1, FilterUnfold
  <1>4. /\ f[0] = <<>> /\ g[0] = <<>>
        /\ f[n] = Filter(s, T) /\ g[n] = Filter(s, V)
        /\ \A i \in 1..n :
              /\ f[i] = IF i \in T THEN Append(f[i - 1], i) ELSE f[i - 1]
              /\ g[i] = IF i \in V THEN Append(g[i - 1], i) ELSE g[i - 1]
    BY <1>1, <1>2, <1>3 DEF Filters
  <1> DEFINE W == {i \in 0..n : g[i] = IF i < a THEN f[i] ELSE Append(f[i], a)}
  <1>5. 0 \in W
    BY <1>4
  <1>6. ASSUME NEW i \in 1..n, i - 1 \in W
        PROVE  i \in W
    <2>1. g[i - 1] = IF i - 1 < a THEN f[i - 1] ELSE Append(f[i - 1], a)
      BY <1>6
    <2>2. CASE i < a
      <3>1. i \in V <=> i \in T
        BY <2>2 DEF V
      <3> QED
        BY <1>4, <2>1, <2>2, <3>1
    <2>3. CASE i = a
      <3>1. i \in V /\ i \notin T
        BY <2>3 DEF V
      <3> QED
        BY <1>4, <2>1, <2>3, <3>1
    <2>4. CASE i > a
      <3>1. i \notin V /\ i \notin T
        BY <2>4 DEF V
      <3> QED
        BY <1>4, <2>1, <2>4, <3>1
    <2> QED
      BY <2>2, <2>3, <2>4
  <1> HIDE DEF W
  <1>7. \A i \in 0..n : i \in W
    BY <1>5, <1>6, IntervalInduction
  <1>8. n \in W
    BY <1>7
  <1>9. g[n] = Append(f[n], a)
    <2>1. g[n] = IF n < a THEN f[n] ELSE Append(f[n], a)
      BY <1>8 DEF W
    <2>2. ~(n < a)
      OBVIOUS
    <2> QED
      BY <2>1, <2>2, Zenon
  <1> QED
    BY <1>4, <1>9 DEF s, V

-----------------------------------------------------------------------------
(***************************************************************************)
(* What is joined so far depends on what was joined so far.                *)
(***************************************************************************)
LEMMA FlattensAgree ==
    ASSUME NEW S, NEW s \in Seq(Seq(S)), NEW t \in Seq(Seq(S)), NEW f, NEW g,
           Flattens(f, s, S), Flattens(g, t, S),
           NEW m \in Nat, m <= Len(s), m <= Len(t),
           \A i \in 1..m : s[i] = t[i]
    PROVE  f[m] = g[m]
  <1> DEFINE U == {i \in 0..m : f[i] = g[i]}
  <1>1. /\ f[0] = <<>> /\ g[0] = <<>>
        /\ \A i \in 1..m : f[i] = f[i - 1] \o s[i] /\ g[i] = g[i - 1] \o t[i]
    <2>1. \A i \in 1..m : i \in 1..Len(s) /\ i \in 1..Len(t)
      OBVIOUS
    <2> QED
      BY <2>1 DEF Flattens
  <1>2. 0 \in U
    BY <1>1
  <1>3. ASSUME NEW i \in 1..m, i - 1 \in U
        PROVE  i \in U
    <2>1. f[i - 1] = g[i - 1] /\ s[i] = t[i] /\ i \in 0..m
      BY <1>3
    <2>2. f[i] = g[i]
      BY <1>1, <2>1
    <2> QED
      BY <2>1, <2>2
  <1> HIDE DEF U
  <1>4. \A i \in 0..m : i \in U
    BY <1>2, <1>3, IntervalInduction
  <1>5. m \in U
    BY <1>4
  <1> QED
    BY <1>5 DEF U

(***************************************************************************)
(* One more sequence is joined at the end.                                 *)
(***************************************************************************)
LEMMA FlattenGrows ==
    ASSUME NEW S, NEW seqs \in Seq(Seq(S)), NEW x \in Seq(S)
    PROVE  /\ FlattenSeq(seqs) \in Seq(S)
           /\ FlattenSeq(Append(seqs, x)) = FlattenSeq(seqs) \o x
  <1> DEFINE n == Len(seqs)
             t == Append(seqs, x)
  <1>1. /\ n \in Nat /\ t \in Seq(Seq(S)) /\ Len(t) = n + 1 /\ t[n + 1] = x
        /\ \A i \in 1..n : seqs[i] = t[i]
    BY AppendHolds
  <1> HIDE DEF t
  <1>2. PICK f : Flattens(f, seqs, S)
    BY FlattenUnfold
  <1>3. PICK g : Flattens(g, t, S)
    BY <1>1, FlattenUnfold
  <1>4. f[n] = g[n]
    <2>1. \A k \in Nat : /\ k <= Len(seqs) /\ k <= Len(t)
                         /\ \A i \in 1..k : seqs[i] = t[i]
                         => f[k] = g[k]
      BY <1>1, <1>2, <1>3, FlattensAgree
    <2>2. n <= Len(seqs) /\ n <= Len(t)
      BY <1>1
    <2> HIDE DEF n
    <2> QED
      BY <1>1, <2>1, <2>2, Zenon
  <1>5. n + 1 \in 1..Len(t) /\ (n + 1) - 1 = n /\ n \in 0..n
    BY <1>1
  <1>6. g[n + 1] = g[n] \o x
    BY <1>1, <1>3, <1>5 DEF Flattens
  <1>7. /\ FlattenSeq(seqs) = f[n] /\ FlattenSeq(t) = g[n + 1]
        /\ f[n] \in Seq(S)
    BY <1>1, <1>2, <1>3, <1>5 DEF Flattens
  <1> QED
    BY <1>4, <1>6, <1>7 DEF t

(***************************************************************************)
(* Nothing joined is empty.                                                *)
(***************************************************************************)
LEMMA FlattenEmpty == FlattenSeq(<<>>) = <<>>
  <1>1. <<>> \in Seq(Seq({})) /\ Len(<<>>) = 0
    OBVIOUS
  <1>2. PICK f : Flattens(f, <<>>, {})
    BY <1>1, FlattenUnfold
  <1> QED
    BY <1>1, <1>2 DEF Flattens

(***************************************************************************)
(* The elements of a join of two.                                          *)
(***************************************************************************)
LEMMA JoinHolds ==
    ASSUME NEW S, NEW s \in Seq(S), NEW t \in Seq(S)
    PROVE  /\ s \o t \in Seq(S) /\ Len(s) \in Nat /\ Len(t) \in Nat
           /\ Len(s \o t) = Len(s) + Len(t)
           /\ \A d \in 1..Len(s) : (s \o t)[d] = s[d]
           /\ \A j \in 1..Len(t) : (s \o t)[Len(s) + j] = t[j]
  <1>1. /\ s \o t \in Seq(S) /\ Len(s) \in Nat /\ Len(t) \in Nat
        /\ Len(s \o t) = Len(s) + Len(t)
        /\ \A i \in 1..(Len(s) + Len(t)) :
              (s \o t)[i] = IF i <= Len(s) THEN s[i] ELSE t[i - Len(s)]
    BY ConcatProperties
  <1> DEFINE a == Len(s)
             b == Len(t)
             u == s \o t
  <1> HIDE DEF a, b, u
  <1>2. /\ a \in Nat /\ b \in Nat
        /\ \A i \in 1..(a + b) : u[i] = IF i <= a THEN s[i] ELSE t[i - a]
    BY <1>1, Zenon DEF a, b, u
  <1>3. \A d \in 1..a : u[d] = s[d]
    BY <1>2
  <1>4. ASSUME NEW j \in 1..b
        PROVE  u[a + j] = t[j]
    <2>1. a + j \in 1..(a + b) /\ ~(a + j <= a) /\ (a + j) - a = j
      BY <1>2
    <2> QED
      BY <1>2, <2>1
  <1> QED
    BY <1>1, <1>3, <1>4 DEF a, b, u

(***************************************************************************)
(* Where the elements of each sequence are in the join.                    *)
(***************************************************************************)
PiecesLie(f, seqs) ==
    /\ f[0] = <<>> /\ Len(f[Len(seqs)]) = Len(FlattenSeq(seqs))
    /\ \A c \in 1..Len(seqs) :
          /\ Len(f[c - 1]) \in Nat /\ Len(f[c]) \in Nat
          /\ Len(f[c]) = Len(f[c - 1]) + Len(seqs[c])
          /\ Len(f[c]) <= Len(FlattenSeq(seqs))
          /\ \A j \in 1..Len(seqs[c]) :
                FlattenSeq(seqs)[Len(f[c - 1]) + j] = seqs[c][j]

(***************************************************************************)
(* They are where the joined ones before it end.                           *)
(***************************************************************************)
LEMMA FlattenPlaces ==
    ASSUME NEW S, NEW seqs \in Seq(Seq(S)), NEW f, Flattens(f, seqs, S)
    PROVE  PiecesLie(f, seqs)
  <1> DEFINE n == Len(seqs)
             L == [i \in 0..n |-> Len(f[i])]
             whole == FlattenSeq(seqs)
  <1>1. /\ n \in Nat /\ f \in [0..n -> Seq(S)] /\ f[0] = <<>>
        /\ \A i \in 1..n : f[i] = f[i - 1] \o seqs[i] /\ seqs[i] \in Seq(S)
        /\ whole = f[n]
    <2>1. n \in Nat /\ \A i \in 1..n : seqs[i] \in Seq(S)
      OBVIOUS
    <2> QED
      BY <2>1, Zenon DEF Flattens
  <1> HIDE DEF n, whole
  <1>2. /\ \A i \in 0..n : f[i] \in Seq(S) /\ L[i] = Len(f[i]) /\ L[i] \in Nat
        /\ n \in 0..n
        /\ \A i \in 1..n : i \in 0..n /\ i - 1 \in 0..n
    BY <1>1
  <1> HIDE DEF L
  <1>3. ASSUME NEW i \in 1..n
        PROVE  /\ L[i] = L[i - 1] + Len(seqs[i]) /\ Len(seqs[i]) \in Nat
               /\ \A d \in 1..L[i - 1] : f[i][d] = f[i - 1][d]
               /\ \A j \in 1..Len(seqs[i]) : f[i][L[i - 1] + j] = seqs[i][j]
    <2> DEFINE s == f[i - 1]
               t == seqs[i]
    <2>1. /\ s \in Seq(S) /\ t \in Seq(S) /\ f[i] = s \o t
          /\ L[i] = Len(f[i]) /\ L[i - 1] = Len(s)
      BY <1>1, <1>2
    <2> HIDE DEF s, t
    <2>2. /\ Len(t) \in Nat /\ Len(s \o t) = Len(s) + Len(t)
          /\ \A d \in 1..Len(s) : (s \o t)[d] = s[d]
          /\ \A j \in 1..Len(t) : (s \o t)[Len(s) + j] = t[j]
      BY <2>1, JoinHolds
    <2> QED
      BY <2>1, <2>2 DEF s, t
  <1> DEFINE U == {k \in 0..n : /\ L[n - k] <= L[n]
                                /\ \A d \in 1..L[n - k] : f[n][d] = f[n - k][d]}
  <1>4. 0 \in U
    <2>1. n - 0 = n /\ 0 \in 0..n
      BY <1>1
    <2> QED
      BY <1>2, <2>1
  <1>5. ASSUME NEW k \in 1..n, k - 1 \in U
        PROVE  k \in U
    <2> DEFINE i == n - (k - 1)
    <2>1. i \in 1..n /\ i - 1 = n - k /\ k \in 0..n
      BY <1>1
    <2>2. /\ L[i] <= L[n]
          /\ \A d \in 1..L[i] : f[n][d] = f[i][d]
      BY <1>5
    <2> HIDE DEF i
    <2>3. /\ L[i] = L[i - 1] + Len(seqs[i]) /\ Len(seqs[i]) \in Nat
          /\ \A d \in 1..L[i - 1] : f[i][d] = f[i - 1][d]
          /\ L[i] \in Nat /\ L[i - 1] \in Nat /\ L[n] \in Nat
      BY <1>2, <1>3, <2>1
    <2>4. L[i - 1] <= L[n] /\ \A d \in 1..L[i - 1] : d \in 1..L[i]
      BY <2>2, <2>3
    <2>5. \A d \in 1..L[i - 1] : f[n][d] = f[i - 1][d]
      BY <2>2, <2>3, <2>4
    <2> QED
      BY <2>1, <2>4, <2>5
  <1> HIDE DEF U
  <1>6. \A k \in 0..n : k \in U
    BY <1>1, <1>4, <1>5, IntervalInduction
  <1>7. ASSUME NEW c \in 1..n
        PROVE  /\ L[c - 1] \in Nat /\ L[c] \in Nat
               /\ L[c] = L[c - 1] + Len(seqs[c]) /\ L[c] <= L[n]
               /\ \A j \in 1..Len(seqs[c]) : f[n][L[c - 1] + j] = seqs[c][j]
    <2>1. n - c \in 0..n /\ n - (n - c) = c
      BY <1>1
    <2>2. L[c] <= L[n] /\ \A d \in 1..L[c] : f[n][d] = f[c][d]
      <3>1. n - c \in U
        BY <1>6, <2>1
      <3> QED
        BY <2>1, <3>1 DEF U
    <2>3. /\ L[c] = L[c - 1] + Len(seqs[c]) /\ Len(seqs[c]) \in Nat
          /\ \A j \in 1..Len(seqs[c]) : f[c][L[c - 1] + j] = seqs[c][j]
          /\ L[c] \in Nat /\ L[c - 1] \in Nat
      BY <1>2, <1>3
    <2>4. \A j \in 1..Len(seqs[c]) : L[c - 1] + j \in 1..L[c]
      BY <2>3
    <2> QED
      BY <2>2, <2>3, <2>4
  <1>8. /\ L[n] = Len(f[n])
        /\ \A c \in 1..n : L[c - 1] = Len(f[c - 1]) /\ L[c] = Len(f[c])
    BY <1>2
  <1> QED
    BY <1>1, <1>7, <1>8 DEF n, whole, PiecesLie

(***************************************************************************)
(* One element after a join is one element after the last of the two.      *)
(***************************************************************************)
AppendsInside(s, t, x) == Append(s \o t, x) = s \o Append(t, x)

(***************************************************************************)
(* It is, whatever the sequences hold.                                     *)
(***************************************************************************)
LEMMA AppendJoins ==
    ASSUME NEW S, NEW s \in Seq(S), NEW t \in Seq(S), NEW x \in S
    PROVE  AppendsInside(s, t, x)
  <1> DEFINE e == <<x>>
  <1>1. e \in Seq(S)
    OBVIOUS
  <1>2. /\ s \o t \in Seq(S) /\ Append(t, x) = t \o e
        /\ \A u \in Seq(S) : Append(u, x) = u \o e
    <2>1. s \o t \in Seq(S)
      BY ConcatProperties
    <2>2. \A u \in Seq(S) : Append(u, x) = u \o e
      OBVIOUS
    <2> QED
      BY <2>1, <2>2
  <1> HIDE DEF e
  <1>3. (s \o t) \o e = s \o (t \o e)
    <2>1. Associates(S)
      BY JoinsAssociate, Zenon
    <2> QED
      BY <1>1, <2>1, Zenon DEF Associates
  <1> QED
    BY <1>2, <1>3 DEF AppendsInside

(***************************************************************************)
(* A join with one element.                                                *)
(***************************************************************************)
LEMMA JoinOne ==
    ASSUME NEW S, NEW s \in Seq(S), NEW x \in S
    PROVE  /\ s \o <<x>> \in Seq(S) /\ Len(s) \in Nat
           /\ Len(s \o <<x>>) = Len(s) + 1
           /\ \A i \in 1..Len(s) : (s \o <<x>>)[i] = s[i]
           /\ (s \o <<x>>)[Len(s) + 1] = x
  <1>1. Append(s, x) = s \o <<x>>
    OBVIOUS
  <1> DEFINE t == s \o <<x>>
  <1>2. t = Append(s, x)
    BY <1>1
  <1> HIDE DEF t
  <1>3. /\ t \in Seq(S) /\ Len(t) = Len(s) + 1 /\ Len(s) \in Nat
        /\ \A i \in 1..Len(s) : t[i] = s[i]
        /\ t[Len(s) + 1] = x
    BY <1>2, AppendHolds
  <1> QED
    BY <1>3 DEF t
=============================================================================

------------------------------ MODULE Induction -------------------------------
(***************************************************************************)
(* Induction over the naturals for a set, and over what a fold goes        *)
(* through.  A theorem of the library that takes the proposition or the    *)
(* step as an operator cannot be applied by the provers; here the          *)
(* proposition is a set, and the step of a fold is a function.             *)
(***************************************************************************)
EXTENDS Integers, Sequences, FiniteSetsExt, WellFoundedInduction, TLAPS

(* A set with 0 and with the successor of every natural it has, has all.   *)
LEMMA NatSetInduction ==
    ASSUME NEW S, 0 \in S, \A n \in Nat : n \in S => n + 1 \in S
    PROVE  Nat \subseteq S
<1> SUFFICES ASSUME Nat \ S # {}
             PROVE  FALSE
  OBVIOUS
<1> DEFINE R == {ss \in Nat \X Nat : ss[1] < ss[2]}
<1>1. IsWellFoundedOn(R, Nat)
  BY NatLessThanWellFounded DEF OpToRel
<1>2. \A x, y \in Nat : y < x => <<y, x>> \in R
  OBVIOUS
<1> HIDE DEF R
<1>3. PICK x \in Nat \ S : \A y \in Nat \ S : ~ (<<y, x>> \in R)
  <2>1. Nat \ S \subseteq Nat
    OBVIOUS
  <2>2. QED
    BY <1>1, <2>1, WFMin, Zenon
<1>4. x # 0 /\ x - 1 \in Nat /\ x - 1 < x
  BY <1>3
<1>5. x - 1 \in S
  BY <1>2, <1>3, <1>4
<1>6. QED
  BY <1>3, <1>4, <1>5

(* The same up to a bound.                                                 *)
LEMMA RangeInduction ==
    ASSUME NEW n \in Nat, NEW S, 0 \in S,
           \A i \in 0 .. n - 1 : i \in S => i + 1 \in S
    PROVE  0 .. n \subseteq S
<1> DEFINE T == {i \in Nat : i =< n => i \in S}
<1>1. 0 \in T
  OBVIOUS
<1>2. \A i \in Nat : i \in T => i + 1 \in T
  OBVIOUS
<1> HIDE DEF T
<1>3. Nat \subseteq T
  BY <1>1, <1>2, NatSetInduction
<1>4. QED
  BY <1>3 DEF T

(* What a range ends with.                                                 *)
LEMMA MaxOfRange ==
    ASSUME NEW k \in Nat, NEW s, s \subseteq 1 .. k + 1, k + 1 \in s
    PROVE  Max(s) = k + 1
<1>1. \E x \in s : \A y \in s : x >= y
  BY k + 1 \in s
<1>2. Max(s) \in s /\ \A y \in s : Max(s) >= y
  BY <1>1 DEF Max
<1>3. PICK m \in s : m = Max(s) /\ \A y \in s : m >= y
  BY <1>2
<1>4. QED
  BY <1>3

(* A set of some numbers up to n has its maximum in it.                    *)
LEMMA MaxInRange ==
    ASSUME NEW n \in Nat, NEW s \in SUBSET (1 .. n), s # {}
    PROVE  Max(s) \in s /\ \A y \in s : Max(s) >= y
<1> DEFINE S == {k \in Nat : \A t \in SUBSET (1 .. k) : t # {} => \E x \in t : \A y \in t : x >= y}
<1>1. 0 \in S
  <2>1. 1 .. 0 = {}
    OBVIOUS
  <2>2. QED
    BY <2>1
<1>2. ASSUME NEW k \in Nat, k \in S
      PROVE  k + 1 \in S
  <2> SUFFICES ASSUME NEW t \in SUBSET (1 .. k + 1), t # {}
               PROVE  \E x \in t : \A y \in t : x >= y
    OBVIOUS
  <2>1. CASE k + 1 \in t
    BY <2>1
  <2>2. CASE k + 1 \notin t
    <3>1. t \in SUBSET (1 .. k)
      BY <2>2
    <3>2. QED
      BY <1>2, <3>1
  <2>3. QED
    BY <2>1, <2>2
<1> HIDE DEF S
<1>3. n \in S
  BY <1>1, <1>2, NatSetInduction
<1>4. \E x \in s : \A y \in s : x >= y
  BY <1>3 DEF S
<1>5. QED
  BY <1>4 DEF Max

(* What the step F makes of the numbers in a subset of 1 .. n, from the    *)
(* smallest to the greatest, beginning with base.                          *)
Folds(g, A, base, n, F) ==
    /\ g \in [SUBSET (1 .. n) -> A]
    /\ \A s \in SUBSET (1 .. n) :
          g[s] = IF s = {} THEN base ELSE F[<<g[s \ {Max(s)}], Max(s)>>]

(* This recursion has a solution.                                          *)
LEMMA FoldIterates ==
    ASSUME NEW A, NEW base \in A, NEW n \in Nat, NEW F \in [A \X (1 .. n) -> A]
    PROVE  \E g : Folds(g, A, base, n, F)
<1> USE DEF Folds
<1> DEFINE FoldsTo(g, k) == Folds(g, A, base, k, F)
           S == {k \in Nat : \E g : FoldsTo(g, k)}
<1>1. 0 \in S
  <2> DEFINE g == [s \in SUBSET (1 .. 0) |-> base]
  <2>1. FoldsTo(g, 0)
    OBVIOUS
  <2>2. QED
    BY <2>1
<1>2. ASSUME NEW k \in 0 .. n - 1, k \in S
      PROVE  k + 1 \in S
  <2>1. PICK g : FoldsTo(g, k)
    BY <1>2
  <2> DEFINE h == [s \in SUBSET (1 .. k + 1) |->
                      IF k + 1 \in s THEN F[<<g[s \ {k + 1}], k + 1>>] ELSE g[s]]
  <2>2. ASSUME NEW s \in SUBSET (1 .. k + 1), k + 1 \in s
        PROVE  /\ s \ {k + 1} \in SUBSET (1 .. k)
               /\ g[s \ {k + 1}] \in A
               /\ F[<<g[s \ {k + 1}], k + 1>>] \in A
               /\ h[s] = F[<<g[s \ {k + 1}], k + 1>>]
               /\ h[s \ {k + 1}] = g[s \ {k + 1}]
               /\ Max(s) = k + 1
    <3>1. s \ {k + 1} \in SUBSET (1 .. k)
      OBVIOUS
    <3>2. g[s \ {k + 1}] \in A
      BY <2>1, <3>1
    <3>3. k + 1 \in 1 .. n
      OBVIOUS
    <3>4. Max(s) = k + 1
      <4>1. k \in Nat /\ s \subseteq 1 .. k + 1
        OBVIOUS
      <4>2. QED
        BY <2>2, <4>1, MaxOfRange
    <3>5. h[s \ {k + 1}] = g[s \ {k + 1}]
      <4>1. s \ {k + 1} \in SUBSET (1 .. k + 1) /\ k + 1 \notin s \ {k + 1}
        OBVIOUS
      <4>2. QED
        BY <4>1
    <3>6. QED
      BY <2>2, <3>1, <3>2, <3>3, <3>4, <3>5
  <2>3. ASSUME NEW s \in SUBSET (1 .. k + 1), k + 1 \notin s
        PROVE  /\ s \in SUBSET (1 .. k)
               /\ h[s] = g[s]
    <3>1. s \in SUBSET (1 .. k)
      BY <2>3
    <3>2. QED
      BY <2>3, <3>1
  <2>4. ASSUME NEW s \in SUBSET (1 .. k + 1)
        PROVE  /\ h[s] \in A
               /\ h[s] = IF s = {} THEN base ELSE F[<<h[s \ {Max(s)}], Max(s)>>]
    <3>1. CASE k + 1 \in s
      <4> HIDE DEF h
      <4>1. QED
        BY <2>2, <3>1
    <3>2. CASE k + 1 \notin s
      <4>1. s \in SUBSET (1 .. k) /\ h[s] = g[s]
        BY <2>3, <3>2
      <4>2. \A t \in SUBSET s : h[t] = g[t]
        BY <2>3, <3>2
      <4>3. s \ {Max(s)} \in SUBSET s
        OBVIOUS
      <4> HIDE DEF h
      <4>4. QED
        BY <2>1, <4>1, <4>2, <4>3
    <3>3. QED
      BY <3>1, <3>2
  <2>5. FoldsTo(h, k + 1)
    <3>1. h \in [SUBSET (1 .. k + 1) -> A]
      BY <2>4
    <3> HIDE DEF h
    <3>2. QED
      BY <2>4, <3>1
  <2> HIDE DEF FoldsTo, Folds
  <2>6. QED
    BY <2>5
<1> HIDE DEF S
<1>3. 0 .. n \subseteq S
  BY <1>1, <1>2, RangeInduction
<1>4. n \in S
  BY <1>3
<1>5. PICK g : FoldsTo(g, n)
  BY <1>4 DEF S
<1>6. QED
  BY <1>5

(* f is base, and then what F makes of the value before.                   *)
Iterates(f, A, base, n, F) ==
    /\ f \in [0 .. n -> A]
    /\ f[0] = base
    /\ \A k \in 1 .. n : f[k] = F[<<f[k - 1], k>>]

(* There is one, for every step and number of steps.                       *)
LEMMA Iteration ==
    ASSUME NEW A, NEW base \in A, NEW n \in Nat, NEW F \in [A \X (1 .. n) -> A]
    PROVE  \E f : Iterates(f, A, base, n, F)
<1>1. PICK g : Folds(g, A, base, n, F)
  BY FoldIterates
<1> DEFINE f == [k \in 0 .. n |-> g[1 .. k]]
<1>2. \A k \in 0 .. n : 1 .. k \in SUBSET (1 .. n)
  OBVIOUS
<1>3. f \in [0 .. n -> A]
  BY <1>1, <1>2 DEF Folds
<1>4. f[0] = base
  <2>1. 1 .. 0 = {} /\ 0 \in 0 .. n
    OBVIOUS
  <2>2. QED
    BY <1>1, <1>2, <2>1 DEF Folds
<1>5. ASSUME NEW k \in 1 .. n
      PROVE  f[k] = F[<<f[k - 1], k>>]
  <2>1. /\ k - 1 \in Nat /\ (k - 1) + 1 = k /\ k \in 1 .. k /\ 1 .. k \subseteq 1 .. (k - 1) + 1
        /\ (1 .. k) \ {k} = 1 .. k - 1 /\ k \in 0 .. n /\ k - 1 \in 0 .. n
    OBVIOUS
  <2>2. Max(1 .. k) = k
    <3> DEFINE m == k - 1
    <3>1. m \in Nat /\ m + 1 = k /\ 1 .. k \subseteq 1 .. m + 1 /\ m + 1 \in 1 .. k
      BY <2>1
    <3> HIDE DEF m
    <3>2. Max(1 .. k) = m + 1
      BY <3>1, MaxOfRange
    <3>3. QED
      BY <3>1, <3>2
  <2>3. 1 .. k # {}
    BY <2>1
  <2>4. g[1 .. k] = F[<<g[1 .. k - 1], k>>]
    BY <1>1, <1>2, <2>1, <2>2, <2>3 DEF Folds
  <2>5. f[k] = g[1 .. k] /\ f[k - 1] = g[1 .. k - 1]
    BY <2>1
  <2>6. QED
    BY <2>4, <2>5
<1>6. Iterates(f, A, base, n, F)
  BY <1>3, <1>4, <1>5 DEF Iterates
<1>7. QED
  BY <1>6

(* The numbers up to k are those up to k - 1, and k.                       *)
LEMMA RangeFacts ==
    ASSUME NEW n \in Nat, NEW k \in 1 .. n
    PROVE  /\ 1 .. k \in SUBSET (1 .. n) /\ 1 .. k # {}
           /\ Max(1 .. k) = k /\ (1 .. k) \ {Max(1 .. k)} = 1 .. k - 1
<1> DEFINE m == k - 1
<1>1. /\ m \in Nat /\ m + 1 = k /\ 1 .. k \subseteq 1 .. m + 1 /\ m + 1 \in 1 .. k
      /\ 1 .. k \in SUBSET (1 .. n) /\ 1 .. k # {} /\ (1 .. k) \ {k} = 1 .. k - 1
  OBVIOUS
<1> HIDE DEF m
<1>2. Max(1 .. k) = m + 1
  BY <1>1, MaxOfRange
<1>3. QED
  BY <1>1, <1>2

(* What FoldLeft evaluates, as far as its step keeps to A.                 *)
Recurs(iter, A, base, n, F) ==
    /\ iter[{}] = base
    /\ \A t \in SUBSET (1 .. n) : t # {} /\ iter[t \ {Max(t)}] \in A =>
           iter[t] = F[<<iter[t \ {Max(t)}], Max(t)>>]

(* An iteration that ends with the value of the fold.                      *)
IsRun(r, iter, A, base, n, F) == Iterates(r, A, base, n, F) /\ r[n] = iter[1 .. n]

(* Its values for 1 .. 0, 1 .. 1 and so on are one.                        *)
LEMMA FoldRuns ==
    ASSUME NEW A, NEW base \in A, NEW n \in Nat, NEW F \in [A \X (1 .. n) -> A], NEW iter,
           Recurs(iter, A, base, n, F)
    PROVE  \E r : IsRun(r, iter, A, base, n, F)
<1> DEFINE S == {k \in 0 .. n : iter[1 .. k] \in A}
           r == [k \in 0 .. n |-> iter[1 .. k]]
<1>1. 0 \in S /\ iter[1 .. 0] = base
  <2>1. 1 .. 0 = {}
    OBVIOUS
  <2>2. QED
    BY <2>1 DEF Recurs
<1>2. ASSUME NEW k \in 1 .. n, iter[1 .. k - 1] \in A
      PROVE  iter[1 .. k] = F[<<iter[1 .. k - 1], k>>]
  <2> DEFINE t == 1 .. k
  <2>1. t \in SUBSET (1 .. n) /\ t # {} /\ Max(t) = k /\ t \ {Max(t)} = 1 .. k - 1
    BY RangeFacts
  <2> HIDE DEF t
  <2>2. iter[t] = F[<<iter[t \ {Max(t)}], Max(t)>>]
    BY <1>2, <2>1 DEF Recurs
  <2>3. QED
    BY <2>1, <2>2 DEF t
<1>3. ASSUME NEW k \in 0 .. n - 1, k \in S
      PROVE  k + 1 \in S
  <2> DEFINE j == k + 1
  <2>1. j \in 1 .. n /\ j - 1 = k /\ j \in 0 .. n
    OBVIOUS
  <2> HIDE DEF j
  <2>2. iter[1 .. j] = F[<<iter[1 .. j - 1], j>>] /\ iter[1 .. j - 1] \in A
    BY <1>2, <1>3, <2>1
  <2>3. iter[1 .. j] \in A
    BY <2>1, <2>2
  <2>4. QED
    BY <2>1, <2>3 DEF j
<1>4. \A k \in 0 .. n : iter[1 .. k] \in A
  <2> HIDE DEF S
  <2>1. 0 .. n \subseteq S
    BY <1>1, <1>3, RangeInduction
  <2>2. QED
    BY <2>1 DEF S
<1>5. r \in [0 .. n -> A] /\ r[0] = base /\ r[n] = iter[1 .. n]
  BY <1>1, <1>4
<1>6. \A k \in 1 .. n : r[k] = F[<<r[k - 1], k>>]
  <2>1. \A k \in 1 .. n : k \in 0 .. n /\ k - 1 \in 0 .. n
    OBVIOUS
  <2>2. QED
    BY <1>2, <1>4, <2>1
<1>7. Iterates(r, A, base, n, F)
  BY <1>5, <1>6 DEF Iterates
<1> HIDE DEF r
<1>8. IsRun(r, iter, A, base, n, F)
  BY <1>5, <1>7 DEF IsRun
<1>9. QED
  BY <1>8
===============================================================================

--------------------------- MODULE Folding_proofs ---------------------------
(***************************************************************************)
(* What the proofs need of induction, of folds and of recursive functions. *)
(*                                                                         *)
(* A fold of the community modules takes an operator, which no theorem     *)
(* here can have as a parameter.  A step is therefore a function F: F[x]   *)
(* maps the value so far to the next one.  Whoever folds an operator shows *)
(* that F agrees with it on a set V that the steps do not leave, and gets  *)
(* from here the values one after another: a run.                          *)
(***************************************************************************)
EXTENDS Integers, Selecting, SequencesExt, SequenceTheorems, FiniteSetTheorems, WellFoundedInduction, TLAPS

-----------------------------------------------------------------------------
(* Induction over the natural numbers, said of a set.                      *)
LEMMA NatSetInduction ==
  ASSUME NEW S, 0 \in S, \A n \in Nat : n \in S => n + 1 \in S
  PROVE  Nat \subseteq S
<1> DEFINE R == OpToRel(<, Nat)
<1> DEFINE T == Nat \ S
<1>1. SUFFICES ASSUME T # {} PROVE FALSE
  OBVIOUS
<1>2. \E x \in T : \A y \in T : ~(<<y, x>> \in R)
  <2> HIDE DEF R
  <2>1. IsWellFoundedOn(R, Nat)
    BY NatLessThanWellFounded DEF R
  <2> QED BY <1>1, <2>1, WFMin
<1>3. PICK x \in T : \A y \in T : ~(y < x)
  BY <1>2 DEF OpToRel
<1>4. x # 0 /\ x - 1 \in Nat /\ x - 1 < x
  BY <1>3
<1>5. x - 1 \in S
  BY <1>3, <1>4
<1> QED
  BY <1>3, <1>4, <1>5

(* The same up to n.                                                       *)
LEMMA UpTo ==
  ASSUME NEW n \in Nat, NEW S, 0 \in S, \A k \in 0 .. n - 1 : k \in S => k + 1 \in S
  PROVE  \A k \in 0 .. n : k \in S
<1> DEFINE T == {k \in Nat : k <= n => k \in S}
<1>1. 0 \in T
  OBVIOUS
<1>2. ASSUME NEW k \in Nat, k \in T PROVE k + 1 \in T
  BY <1>2
<1> HIDE DEF T
<1>3. Nat \subseteq T
  BY <1>1, <1>2, NatSetInduction
<1> QED
  BY <1>3 DEF T

(* The same downwards.                                                     *)
LEMMA DownFrom ==
  ASSUME NEW n \in Nat, NEW S, n \in S, \A k \in 1 .. n : k \in S => k - 1 \in S
  PROVE  \A k \in 0 .. n : k \in S
<1> DEFINE T == {k \in Nat : n - k \in S}
<1>1. 0 \in T
  OBVIOUS
<1>2. ASSUME NEW k \in 0 .. n - 1, k \in T PROVE k + 1 \in T
  <2>1. n - k \in 1 .. n /\ n - k \in S /\ (n - k) - 1 = n - (k + 1)
    BY <1>2
  <2> QED BY <2>1
<1>3. \A k \in 0 .. n : k \in T
  <2> HIDE DEF T
  <2> QED BY <1>1, <1>2, UpTo
<1>4. ASSUME NEW k \in 0 .. n PROVE k \in S
  <2>1. n - k \in 0 .. n /\ n - (n - k) = k
    OBVIOUS
  <2> QED BY <1>3, <2>1
<1> QED BY <1>4

-----------------------------------------------------------------------------
(* The largest and the smallest of 1 .. n.                                 *)
LEMMA LargestOf ==
  ASSUME NEW n \in Nat, NEW s \in SUBSET (1 .. n), s # {}
  PROVE  Max(s) \in s /\ \A y \in s : y <= Max(s)
<1> DEFINE T == {i \in Nat : \E x \in s : n - i = x}
<1>1. T \subseteq Nat /\ T # {}
  <2>1. PICK x \in s : x \in 1 .. n
    OBVIOUS
  <2>2. n - x \in T
    BY <2>1
  <2> QED BY <2>2
<1>2. PICK i \in T : \A j \in T : ~(<<j, i>> \in OpToRel(<, Nat))
  BY <1>1, NatLessThanWellFounded, WFMin
<1>3. \A j \in T : i <= j
  <2>1. i \in Nat /\ \A j \in T : j \in Nat
    BY <1>1
  <2> HIDE DEF T
  <2>2. ASSUME NEW j \in T PROVE i <= j
    <3>1. ~(<<j, i>> \in OpToRel(<, Nat))
      BY <1>2
    <3>2. j \in Nat
      BY <2>1
    <3> QED BY <2>1, <3>1, <3>2 DEF OpToRel
  <2> QED BY <2>2
<1>4. PICK x \in s : n - i = x
  OBVIOUS
<1>5. ASSUME NEW y \in s PROVE x >= y
  <2>1. n - y \in T
    OBVIOUS
  <2> QED BY <1>3, <1>4, <2>1
<1>6. Max(s) \in s /\ \A y \in s : Max(s) >= y
  BY <1>5 DEF Max
<1> QED BY <1>6

(* A set of natural numbers has a smallest element.                        *)
LEMMA SmallestOf ==
  ASSUME NEW s \in SUBSET Nat, s # {}
  PROVE  Min(s) \in s /\ \A y \in s : Min(s) <= y
<1>1. PICK i \in s : \A j \in s : ~(<<j, i>> \in OpToRel(<, Nat))
  BY NatLessThanWellFounded, WFMin
<1>2. ASSUME NEW j \in s PROVE i <= j
  <2>1. ~(<<j, i>> \in OpToRel(<, Nat))
    BY <1>1
  <2>2. i \in Nat /\ j \in Nat
    OBVIOUS
  <2> QED BY <2>1, <2>2 DEF OpToRel
<1>3. Min(s) \in s /\ \A y \in s : Min(s) =< y
  BY <1>2 DEF Min
<1> QED BY <1>3

(* The largest number up to k is k, without which the numbers are those up *)
(* to k - 1.                                                               *)
LEMMA LargestOfInterval ==
  ASSUME NEW n \in Nat, NEW k \in 1 .. n
  PROVE  /\ 1 .. k \in SUBSET (1 .. n) /\ 1 .. k # {}
         /\ Max(1 .. k) = k /\ (1 .. k) \ {k} = 1 .. k - 1
<1>1. k \in Nat /\ 1 .. k # {} /\ k \in 1 .. k /\ 1 .. k \in SUBSET (1 .. k)
  OBVIOUS
<1>2. Max(1 .. k) \in 1 .. k /\ k <= Max(1 .. k)
  BY <1>1, LargestOf
<1> QED BY <1>1, <1>2

(* The smallest number from k on is k.                                     *)
LEMMA SmallestOfInterval ==
  ASSUME NEW n \in Nat, NEW k \in 1 .. n
  PROVE  /\ k .. n \in SUBSET (1 .. n) /\ k .. n # {}
         /\ Min(k .. n) = k /\ (k .. n) \ {k} = k + 1 .. n
<1>1. k .. n # {} /\ k \in k .. n /\ k .. n \in SUBSET Nat
  OBVIOUS
<1>2. Min(k .. n) \in k .. n /\ Min(k .. n) <= k
  BY <1>1, SmallestOf
<1> QED BY <1>1, <1>2

-----------------------------------------------------------------------------
(* A step for each x of S does not leave V.                                *)
Steps(F, V, S) == \A x \in S : \A v \in V : F[x][v] \in V

(* MapThenFoldSet's iteration over the subsets of S, of which choose says  *)
(* what to take out first.                                                 *)
Chooses(choose, S) == \A s \in SUBSET S : s # {} => choose[s] \in s

Iteration(it, S, V, base, F, choose) ==
  /\ it \in [SUBSET S -> V]
  /\ it[{}] = base
  /\ \A s \in SUBSET S : s # {} => it[s] = F[choose[s]][it[s \ {choose[s]}]]

LEMMA IterationExists ==
  ASSUME NEW S, IsFiniteSet(S), NEW V, NEW base \in V, NEW choose, Chooses(choose, S),
         NEW F, Steps(F, V, S)
  PROVE  \E it : Iteration(it, S, V, base, F, choose)
<1> USE DEF Chooses, Steps
<1> DEFINE D(k) == {s \in SUBSET S : Cardinality(s) <= k}
<1> DEFINE Next(it) ==
      [s \in SUBSET S |-> IF s = {} THEN base ELSE F[choose[s]][it[s \ {choose[s]}]]]
<1> DEFINE Good(it, k) == \A s \in D(k) : it[s] = Next(it)[s]
<1> DEFINE K == {k \in Nat : \E it \in [SUBSET S -> V] : Good(it, k)}
<1>1. \A s \in SUBSET S : IsFiniteSet(s) /\ Cardinality(s) \in Nat
  BY FS_Subset, FS_CardinalityType
<1>2. 0 \in K
  <2>1. \A s \in D(0) : s = {}
    BY <1>1, FS_EmptySet
  <2>2. [s \in SUBSET S |-> base] \in [SUBSET S -> V]
    OBVIOUS
  <2>3. Good([s \in SUBSET S |-> base], 0)
    BY <2>1
  <2> QED BY <2>2, <2>3
<1>3. ASSUME NEW k \in Nat, k \in K PROVE k + 1 \in K
  <2>1. PICK it \in [SUBSET S -> V] : Good(it, k)
    BY <1>3
  <2>2. Next(it) \in [SUBSET S -> V]
    <3>1. ASSUME NEW s \in SUBSET S, s # {} PROVE F[choose[s]][it[s \ {choose[s]}]] \in V
      <4>1. choose[s] \in S /\ s \ {choose[s]} \in SUBSET S
        BY <3>1
      <4> QED BY <4>1
    <3> QED BY <3>1
  <2>3. ASSUME NEW s \in D(k) PROVE Next(it)[s] = it[s]
    BY <2>1
  <2>4. ASSUME NEW s \in D(k + 1), s # {} PROVE s \ {choose[s]} \in D(k)
    <3>1. choose[s] \in s /\ s \in SUBSET S /\ Cardinality(s) <= k + 1
      BY <2>4
    <3>2. IsFiniteSet(s)
      BY <1>1, <3>1
    <3> HIDE DEF D, Next, Good, K
    <3>3. \A x \in s : Cardinality(s \ {x}) = Cardinality(s) - 1
      BY <3>2, FS_RemoveElement
    <3> QED BY <1>1, <3>1, <3>3 DEF D
  <2>5. Good(Next(it), k + 1)
    BY <2>3, <2>4
  <2> HIDE DEF Next, Good
  <2> QED BY <2>2, <2>5
<1>4. Nat \subseteq K
  <2> HIDE DEF K
  <2> QED BY <1>2, <1>3, NatSetInduction
<1>5. PICK it \in [SUBSET S -> V] : Good(it, Cardinality(S))
  BY <1>1, <1>4, ZenonT(60)
<1>6. D(Cardinality(S)) = SUBSET S
  BY FS_Subset, <1>1
<1> QED BY <1>5, <1>6, ZenonT(60) DEF Iteration

-----------------------------------------------------------------------------
(***************************************************************************)
(* FoldLeft.  LeftIteration is a function that satisfies the equation      *)
(* FoldLeft iterates with; LeftFold is all that is known of the one which  *)
(* FoldLeft has chosen; and a LeftRun is what comes out, prefix by prefix. *)
(***************************************************************************)
LeftIteration(it, n, V, base, F) ==
  /\ it \in [SUBSET (1 .. n) -> V]
  /\ it[{}] = base
  /\ \A s \in SUBSET (1 .. n) :
       s # {} => Max(s) \in 1 .. n /\ it[s \ {Max(s)}] \in V /\ it[s] = F[Max(s)][it[s \ {Max(s)}]]

LeftFold(it, n, V, base, F) ==
  /\ it[{}] = base
  /\ \A s \in SUBSET (1 .. n) :
       s # {} /\ it[s \ {Max(s)}] \in V => it[s] = F[Max(s)][it[s \ {Max(s)}]]

LeftRun(g, n, V, base, F) ==
  /\ g \in [0 .. n -> V]
  /\ g[0] = base
  /\ \A k \in 1 .. n : g[k] = F[k][g[k - 1]]

LEMMA LeftIterationExists ==
  ASSUME NEW n \in Nat, NEW V, NEW base \in V, NEW F, Steps(F, V, 1 .. n)
  PROVE  \E it : LeftIteration(it, n, V, base, F)
<1> DEFINE choose == [s \in SUBSET (1 .. n) |-> Max(s)]
<1>1. IsFiniteSet(1 .. n)
  BY FS_Interval
<1>2. Chooses(choose, 1 .. n)
  BY LargestOf DEF Chooses
<1>3. \A s \in SUBSET (1 .. n) : choose[s] = Max(s)
  OBVIOUS
<1> HIDE DEF choose
<1>4. PICK it : Iteration(it, 1 .. n, V, base, F, choose)
  BY <1>1, <1>2, IterationExists
<1>5. it \in [SUBSET (1 .. n) -> V] /\ it[{}] = base
  BY <1>4 DEF Iteration
<1>6. ASSUME NEW s \in SUBSET (1 .. n), s # {}
      PROVE  Max(s) \in 1 .. n /\ it[s \ {Max(s)}] \in V /\ it[s] = F[Max(s)][it[s \ {Max(s)}]]
  <2>1. it[s] = F[Max(s)][it[s \ {Max(s)}]]
    BY <1>3, <1>4, <1>6 DEF Iteration
  <2>2. Max(s) \in 1 .. n /\ s \ {Max(s)} \in SUBSET (1 .. n)
    BY <1>6, LargestOf
  <2> QED BY <1>5, <2>1, <2>2
<1> QED BY <1>5, <1>6 DEF LeftIteration

(* A fold over the numbers up to n is a run that starts with the base.     *)
LEMMA LeftRuns ==
  ASSUME NEW n \in Nat, NEW V, NEW base \in V, NEW F, Steps(F, V, 1 .. n),
         NEW it, LeftFold(it, n, V, base, F)
  PROVE  \E g : LeftRun(g, n, V, base, F) /\ g[n] = it[1 .. n]
<1> DEFINE T == {k \in Nat : it[1 .. k] \in V}
<1>1. 1 .. 0 = {} /\ it[1 .. 0] = base
  BY DEF LeftFold
<1>2. ASSUME NEW k \in 1 .. n, it[1 .. k - 1] \in V PROVE it[1 .. k] = F[k][it[1 .. k - 1]]
  BY <1>2, LargestOfInterval DEF LeftFold
<1>3. 0 \in T
  BY <1>1
<1>4. ASSUME NEW k \in 0 .. n - 1, k \in T PROVE k + 1 \in T
  <2>1. k + 1 \in 1 .. n /\ (k + 1) - 1 = k /\ k + 1 \in Nat
    OBVIOUS
  <2>2. it[1 .. k + 1] = F[k + 1][it[1 .. k]]
    BY <1>2, <1>4, <2>1
  <2> QED BY <1>4, <2>1, <2>2 DEF Steps
<1>5. \A k \in 0 .. n : k \in T
  <2> HIDE DEF T
  <2> QED BY <1>3, <1>4, UpTo
<1> DEFINE g == [k \in 0 .. n |-> it[1 .. k]]
<1>6. g \in [0 .. n -> V] /\ g[0] = base /\ g[n] = it[1 .. n]
  BY <1>1, <1>5
<1>7. ASSUME NEW k \in 1 .. n PROVE g[k] = F[k][g[k - 1]]
  <2>1. k - 1 \in 0 .. n /\ k \in 0 .. n
    OBVIOUS
  <2> QED BY <1>2, <1>5, <2>1
<1> HIDE DEF g
<1> QED BY <1>6, <1>7 DEF LeftRun

-----------------------------------------------------------------------------
(* FoldRight, in the same way: the values from behind.                     *)
RightIteration(it, n, V, base, F) ==
  /\ it \in [SUBSET (1 .. n) -> V]
  /\ it[{}] = base
  /\ \A s \in SUBSET (1 .. n) :
       s # {} => Min(s) \in 1 .. n /\ it[s \ {Min(s)}] \in V /\ it[s] = F[Min(s)][it[s \ {Min(s)}]]

RightFold(it, n, V, base, F) ==
  /\ it[{}] = base
  /\ \A s \in SUBSET (1 .. n) :
       s # {} /\ it[s \ {Min(s)}] \in V => it[s] = F[Min(s)][it[s \ {Min(s)}]]

RightRun(h, n, V, base, F) ==
  /\ h \in [0 .. n -> V]
  /\ h[n] = base
  /\ \A k \in 1 .. n : h[k - 1] = F[k][h[k]]

LEMMA RightIterationExists ==
  ASSUME NEW n \in Nat, NEW V, NEW base \in V, NEW F, Steps(F, V, 1 .. n)
  PROVE  \E it : RightIteration(it, n, V, base, F)
<1> DEFINE choose == [s \in SUBSET (1 .. n) |-> Min(s)]
<1>0. \A s \in SUBSET (1 .. n) : s # {} => Min(s) \in s
  BY SmallestOf
<1>1. IsFiniteSet(1 .. n)
  BY FS_Interval
<1>2. Chooses(choose, 1 .. n)
  BY <1>0 DEF Chooses
<1>3. \A s \in SUBSET (1 .. n) : choose[s] = Min(s)
  OBVIOUS
<1> HIDE DEF choose
<1>4. PICK it : Iteration(it, 1 .. n, V, base, F, choose)
  BY <1>1, <1>2, IterationExists
<1>5. it \in [SUBSET (1 .. n) -> V] /\ it[{}] = base
  BY <1>4 DEF Iteration
<1>6. ASSUME NEW s \in SUBSET (1 .. n), s # {}
      PROVE  Min(s) \in 1 .. n /\ it[s \ {Min(s)}] \in V /\ it[s] = F[Min(s)][it[s \ {Min(s)}]]
  <2>1. it[s] = F[Min(s)][it[s \ {Min(s)}]]
    BY <1>3, <1>4, <1>6 DEF Iteration
  <2>2. Min(s) \in 1 .. n /\ s \ {Min(s)} \in SUBSET (1 .. n)
    BY <1>0, <1>6
  <2> QED BY <1>5, <2>1, <2>2
<1> QED BY <1>5, <1>6 DEF RightIteration

(* A fold from the right is a run that ends with the base.                 *)
LEMMA RightRuns ==
  ASSUME NEW n \in Nat, NEW V, NEW base \in V, NEW F, Steps(F, V, 1 .. n),
         NEW it, RightFold(it, n, V, base, F)
  PROVE  \E h : RightRun(h, n, V, base, F) /\ h[0] = it[1 .. n]
<1> DEFINE T == {k \in 0 .. n : it[k + 1 .. n] \in V}
<1>1. n + 1 .. n = {} /\ it[n + 1 .. n] = base
  BY DEF RightFold
<1>2. ASSUME NEW k \in 1 .. n, it[k + 1 .. n] \in V PROVE it[k .. n] = F[k][it[k + 1 .. n]]
  BY <1>2, SmallestOfInterval DEF RightFold
<1>3. n \in T
  BY <1>1
<1>4. ASSUME NEW k \in 1 .. n, k \in T PROVE k - 1 \in T
  <2>1. k - 1 \in 0 .. n /\ (k - 1) + 1 = k
    OBVIOUS
  <2>2. it[k .. n] = F[k][it[k + 1 .. n]]
    BY <1>2, <1>4
  <2> QED BY <1>4, <2>1, <2>2 DEF Steps
<1>5. \A k \in 0 .. n : k \in T
  <2> HIDE DEF T
  <2> QED BY <1>3, <1>4, DownFrom
<1> DEFINE h == [k \in 0 .. n |-> it[k + 1 .. n]]
<1>6. h \in [0 .. n -> V] /\ h[n] = base /\ h[0] = it[1 .. n]
  <2>1. 0 + 1 = 1
    OBVIOUS
  <2> QED BY <1>1, <1>5, <2>1
<1>7. ASSUME NEW k \in 1 .. n PROVE h[k - 1] = F[k][h[k]]
  <2>1. k - 1 \in 0 .. n /\ k \in 0 .. n /\ (k - 1) + 1 = k
    OBVIOUS
  <2> QED BY <1>2, <1>5, <2>1
<1> HIDE DEF h
<1> QED BY <1>6, <1>7 DEF RightRun

-----------------------------------------------------------------------------
(* A recursive function on the places 1 .. n + 1 of a sequence that is     *)
(* called again at a later place.                                          *)
JumpRun(f, n, V, base, F, jump) ==
  /\ f \in [1 .. n + 1 -> V]
  /\ f[n + 1] = base
  /\ \A p \in 1 .. n : f[p] = F[p][f[jump[p]]]

LEMMA JumpRunExists ==
  ASSUME NEW n \in Nat, NEW V, NEW base \in V, NEW F, Steps(F, V, 1 .. n),
         NEW jump \in [1 .. n -> Nat], \A p \in 1 .. n : p < jump[p] /\ jump[p] <= n + 1
  PROVE  \E f : JumpRun(f, n, V, base, F, jump)
<1> DEFINE Good(f, k) == \A p \in k + 1 .. n : f[p] = F[p][f[jump[p]]]
<1> DEFINE S == {k \in Nat : \E f \in [1 .. n + 1 -> V] : f[n + 1] = base /\ Good(f, k)}
<1>1. n \in S
  <2> DEFINE f == [p \in 1 .. n + 1 |-> base]
  <2>1. f \in [1 .. n + 1 -> V] /\ f[n + 1] = base /\ Good(f, n)
    OBVIOUS
  <2> QED BY <2>1
<1>2. ASSUME NEW k \in 1 .. n, k \in S PROVE k - 1 \in S
  <2>1. PICK f \in [1 .. n + 1 -> V] : f[n + 1] = base /\ Good(f, k)
    BY <1>2
  <2>2. jump[k] \in 1 .. n + 1 /\ jump[k] # k
    OBVIOUS
  <2> DEFINE v == F[k][f[jump[k]]]
  <2>3. v \in V
    BY <2>2 DEF Steps
  <2> HIDE DEF v
  <2> DEFINE g == [f EXCEPT ![k] = v]
  <2>4. g \in [1 .. n + 1 -> V] /\ g[n + 1] = base
    BY <2>1, <2>3
  <2>5. ASSUME NEW p \in k .. n PROVE g[p] = F[p][g[jump[p]]]
    <3>1. p \in 1 .. n /\ jump[p] \in 1 .. n + 1 /\ jump[p] # k
      OBVIOUS
    <3>2. g[jump[p]] = f[jump[p]]
      BY <3>1
    <3>3. CASE p = k
      BY <3>2, <3>3 DEF v
    <3>4. CASE p # k
      <4>1. p \in k + 1 .. n /\ g[p] = f[p]
        BY <3>4, <3>1
      <4> QED BY <4>1, <3>2, <2>1
    <3> QED BY <3>3, <3>4
  <2>6. Good(g, k - 1)
    BY <2>5
  <2>7. k - 1 \in Nat
    OBVIOUS
  <2> HIDE DEF g, Good
  <2> QED BY <2>4, <2>6, <2>7
<1> HIDE DEF S
<1>3. 0 \in S
  BY <1>1, <1>2, DownFrom
<1>4. PICK f \in [1 .. n + 1 -> V] : f[n + 1] = base /\ Good(f, 0)
  BY <1>3 DEF S
<1> QED BY <1>4 DEF JumpRun

(* What holds behind the end, and at a place if it holds at all the later  *)
(* ones, holds at the first.                                               *)
LEMMA FromTheEnd ==
  ASSUME NEW n \in Nat, NEW S, n + 1 \in S,
         \A p \in 1 .. n : (\A q \in p + 1 .. n + 1 : q \in S) => p \in S
  PROVE  1 \in S
<1> DEFINE T == {k \in Nat : k <= n => \A q \in n + 1 - k .. n + 1 : q \in S}
<1>1. 0 \in T
  OBVIOUS
<1>2. ASSUME NEW k \in Nat, k \in T PROVE k + 1 \in T
  <2> SUFFICES ASSUME k + 1 <= n, NEW q \in n + 1 - (k + 1) .. n + 1 PROVE q \in S
    OBVIOUS
  <2>1. \A r \in n + 1 - k .. n + 1 : r \in S
    BY <1>2
  <2>2. CASE q \in n + 1 - k .. n + 1
    BY <2>1, <2>2
  <2>3. CASE q \notin n + 1 - k .. n + 1
    <3>1. q \in 1 .. n /\ q + 1 = n + 1 - k
      BY <2>3
    <3> QED BY <2>1, <3>1
  <2> QED BY <2>2, <2>3
<1> HIDE DEF T
<1>3. n \in T
  BY <1>1, <1>2, NatSetInduction
<1>4. 1 \in n + 1 - n .. n + 1
  OBVIOUS
<1> QED BY <1>3, <1>4 DEF T

-----------------------------------------------------------------------------
(* A sequence of sequences, one after another.                             *)
FlatRun(g, U, seqs) ==
  /\ g \in [0 .. Len(seqs) -> Seq(U)] /\ g[0] = <<>>
  /\ \A k \in 1 .. Len(seqs) : g[k] = g[k - 1] \o seqs[k]
  /\ g[Len(seqs)] = FlattenSeq(seqs)

LEMMA FlattenRuns ==
  ASSUME NEW U, NEW seqs \in Seq(Seq(U))
  PROVE  \E g : FlatRun(g, U, seqs)
<1> DEFINE n == Len(seqs)
<1> DEFINE V == Seq(U)
<1> DEFINE op(v, k) == IF k = 1 THEN seqs[k] ELSE v \o seqs[k]
<1> DEFINE F == [k \in 1 .. n |-> [v \in V |-> op(v, k)]]
<1>0. n \in Nat
  BY LenProperties
<1>1. <<>> \in V /\ \A k \in 1 .. n : seqs[k] \in V
  BY ElementOfSeq
<1>2. \A k \in 1 .. n : \A v \in V : F[k][v] = op(v, k)
  OBVIOUS
<1>3. ASSUME NEW k \in 1 .. n, NEW v \in V PROVE op(v, k) \in V
  BY <1>1, ConcatProperties
<1> HIDE DEF F
<1>4. Steps(F, V, 1 .. n)
  <2> HIDE DEF V, op
  <2> QED BY <1>2, <1>3 DEF Steps
<1>5. PICK it : LeftIteration(it, n, V, <<>>, F)
  <2> HIDE DEF n, V
  <2> QED BY <1>0, <1>1, <1>4, LeftIterationExists
<1>6. LeftFold(it, n, V, <<>>, F)
  BY <1>5 DEF LeftIteration, LeftFold
<1>7. PICK g : LeftRun(g, n, V, <<>>, F) /\ g[n] = it[1 .. n]
  <2> HIDE DEF n, V
  <2> QED BY <1>0, <1>1, <1>4, <1>6, LeftRuns
<1>8. g \in [0 .. n -> V] /\ g[0] = <<>>
  BY <1>7 DEF LeftRun
<1>9. ASSUME NEW k \in 1 .. n PROVE g[k] = op(g[k - 1], k)
  <2>1. k - 1 \in 0 .. n
    BY <1>0
  <2>2. g[k - 1] \in V /\ g[k] = F[k][g[k - 1]]
    BY <1>7, <1>8, <2>1 DEF LeftRun
  <2> HIDE DEF V, op
  <2> QED BY <1>2, <2>2
<1>10. ASSUME NEW k \in 1 .. n PROVE g[k] = g[k - 1] \o seqs[k]
  <2>1. CASE k = 1
    <3>1. g[k - 1] = <<>> /\ seqs[k] \in Seq(U)
      BY <1>1, <1>8, <2>1
    <3>2. <<>> \o seqs[k] = seqs[k]
      BY <3>1, ConcatEmptySeq
    <3> QED BY <1>9, <2>1, <3>1, <3>2
  <2>2. CASE k # 1
    BY <1>9, <2>2
  <2> QED BY <2>1, <2>2
<1>11. g[n] = FlattenSeq(seqs)
  <2>1. CASE n = 0
    <3>1. seqs = <<>>
      BY <2>1, EmptySeq
    <3> QED BY <1>8, <2>1, <3>1 DEF FlattenSeq
  <2>2. CASE n # 0
    <3> DEFINE rec(f) == [k \in 1 .. n |-> IF k = 1 THEN seqs[k] ELSE f[k - 1] \o seqs[k]]
    <3>1. \E f : f = rec(f)
      <4> DEFINE f == [k \in 1 .. n |-> g[k]]
      <4>1. ASSUME NEW k \in 1 .. n PROVE f[k] = rec(f)[k]
        <5>1. CASE k = 1
          BY <1>9, <5>1
        <5>2. CASE k # 1
          <6>1. k - 1 \in 1 .. n
            BY <1>0, <5>2
          <6> QED BY <1>10, <5>2, <6>1
        <5> QED BY <5>1, <5>2
      <4>2. f = [k \in 1 .. n |-> f[k]] /\ rec(f) = [k \in 1 .. n |-> rec(f)[k]]
        OBVIOUS
      <4> HIDE DEF f, rec
      <4>3. f = rec(f)
        BY <4>1, <4>2
      <4> QED BY <4>3
    <3>2. PICK f : f = rec(f) /\ FlattenSeq(seqs) = f[n]
      BY <2>2, <3>1 DEF FlattenSeq
    <3> DEFINE S == {k \in Nat : k \in 1 .. n => f[k] = g[k]}
    <3>3. 0 \in S
      OBVIOUS
    <3>4. ASSUME NEW k \in 0 .. n - 1, k \in S PROVE k + 1 \in S
      <4>1. CASE k = 0
        <5>1. 1 \in 1 .. n /\ f[1] = seqs[1] /\ g[1] = seqs[1]
          BY <1>0, <1>9, <2>2, <3>2
        <5> QED BY <4>1, <5>1
      <4>2. CASE k # 0
        <5>1. k + 1 \in 1 .. n /\ (k + 1) - 1 = k /\ k \in 1 .. n /\ k + 1 # 1
          BY <1>0, <4>2
        <5>2. f[k + 1] = f[k] \o seqs[k + 1] /\ f[k] = g[k]
          BY <3>2, <3>4, <5>1
        <5>3. g[k + 1] = g[k] \o seqs[k + 1]
          BY <1>10, <5>1
        <5>4. f[k + 1] = g[k + 1] /\ k + 1 \in Nat
          BY <5>2, <5>3
        <5> QED BY <5>4
      <4> QED BY <4>1, <4>2
    <3>5. \A k \in 0 .. n : k \in S
      <4> HIDE DEF S, n
      <4> QED BY <1>0, <3>3, <3>4, UpTo
    <3>6. n \in 0 .. n /\ n \in 1 .. n
      BY <1>0, <2>2
    <3> QED BY <3>2, <3>5, <3>6
  <2> QED BY <2>1, <2>2
<1>12. FlatRun(g, U, seqs)
  BY <1>8, <1>10, <1>11 DEF FlatRun
<1> QED BY <1>12

(* Of no sequence, of one, and of two lists of them.                       *)
LEMMA FlattenType ==
  ASSUME NEW U, NEW seqs \in Seq(Seq(U))
  PROVE  FlattenSeq(seqs) \in Seq(U)
<1>1. PICK g : FlatRun(g, U, seqs)
  BY FlattenRuns
<1>2. Len(seqs) \in 0 .. Len(seqs)
  BY LenProperties
<1> QED BY <1>1, <1>2 DEF FlatRun

(* No sequences put together.                                              *)
LEMMA FlattenNone == FlattenSeq(<<>>) = <<>>
  BY DEF FlattenSeq

(* Two lists of sequences put together.                                    *)
LEMMA FlattenConcat ==
  ASSUME NEW U, NEW a \in Seq(Seq(U)), NEW b \in Seq(Seq(U))
  PROVE  FlattenSeq(a \o b) = FlattenSeq(a) \o FlattenSeq(b)
<1> DEFINE m == Len(a)
<1> DEFINE n == Len(b)
<1>1. m \in Nat /\ n \in Nat /\ a \o b \in Seq(Seq(U)) /\ Len(a \o b) = m + n
  BY ConcatProperties, LenProperties
<1>2. PICK f : FlatRun(f, U, a)
  BY FlattenRuns
<1>3. PICK g : FlatRun(g, U, b)
  BY FlattenRuns
<1>4. PICK h : FlatRun(h, U, a \o b)
  BY <1>1, FlattenRuns
<1>5. /\ \A k \in 1 .. m : (a \o b)[k] = a[k]
      /\ \A k \in 1 .. n : (a \o b)[m + k] = b[k]
  OBVIOUS
<1>6. \A k \in 1 .. n : b[k] \in Seq(U)
  BY ElementOfSeq
<1> HIDE DEF m, n
<1>7. \A k \in 0 .. m : h[k] = f[k]
  <2> DEFINE S == {k \in Nat : k \in 0 .. m => h[k] = f[k]}
  <2>1. 0 \in S
    BY <1>2, <1>4 DEF FlatRun
  <2>2. ASSUME NEW k \in 0 .. m - 1, k \in S PROVE k + 1 \in S
    <3>1. k + 1 \in 1 .. m /\ k + 1 \in 1 .. m + n /\ (k + 1) - 1 = k /\ k \in 0 .. m /\ k + 1 \in Nat
      BY <1>1
    <3>2. h[k + 1] = h[k] \o (a \o b)[k + 1] /\ f[k + 1] = f[k] \o a[k + 1]
      BY <1>1, <1>2, <1>4, <3>1 DEF FlatRun, m
    <3>3. h[k] = f[k] /\ (a \o b)[k + 1] = a[k + 1]
      BY <1>5, <2>2, <3>1
    <3>4. h[k + 1] = f[k + 1]
      BY <3>2, <3>3
    <3> QED BY <3>1, <3>4
  <2> HIDE DEF S
  <2>3. \A k \in 0 .. m : k \in S
    BY <1>1, <2>1, <2>2, UpTo
  <2> QED BY <2>3 DEF S
<1>8. f[m] \in Seq(U) /\ \A k \in 0 .. n : g[k] \in Seq(U)
  <2>1. m \in 0 .. m /\ f \in [0 .. m -> Seq(U)] /\ g \in [0 .. n -> Seq(U)]
    BY <1>1, <1>2, <1>3 DEF FlatRun, m, n
  <2> QED BY <2>1
<1>9. \A k \in 0 .. n : h[m + k] = f[m] \o g[k]
  <2> DEFINE S == {k \in Nat : k \in 0 .. n => h[m + k] = f[m] \o g[k]}
  <2>1. 0 \in S
    <3>1. m + 0 = m /\ m \in 0 .. m /\ g[0] = <<>>
      BY <1>1, <1>3 DEF FlatRun
    <3>2. f[m] \o <<>> = f[m]
      BY <1>8, ConcatEmptySeq
    <3> QED BY <1>7, <3>1, <3>2
  <2>2. ASSUME NEW k \in 0 .. n - 1, k \in S PROVE k + 1 \in S
    <3>1. /\ m + (k + 1) \in 1 .. m + n /\ (m + (k + 1)) - 1 = m + k /\ k + 1 \in Nat
          /\ k + 1 \in 1 .. n /\ (k + 1) - 1 = k /\ k \in 0 .. n
      BY <1>1
    <3>2. h[m + (k + 1)] = h[m + k] \o (a \o b)[m + (k + 1)] /\ g[k + 1] = g[k] \o b[k + 1]
      BY <1>1, <1>3, <1>4, <3>1 DEF FlatRun, n
    <3>3. h[m + k] = f[m] \o g[k] /\ (a \o b)[m + (k + 1)] = b[k + 1]
      BY <1>5, <2>2, <3>1
    <3>4. (f[m] \o g[k]) \o b[k + 1] = f[m] \o (g[k] \o b[k + 1])
      <4>1. f[m] \in Seq(U) /\ g[k] \in Seq(U) /\ b[k + 1] \in Seq(U)
        BY <1>6, <1>8, <3>1
      <4>2. \A x \in Seq(U), y \in Seq(U), z \in Seq(U) : (x \o y) \o z = x \o (y \o z)
        BY ConcatAssociative, SMTT(30)
      <4> QED BY <4>1, <4>2
    <3>5. h[m + (k + 1)] = f[m] \o g[k + 1]
      BY <3>2, <3>3, <3>4
    <3> QED BY <3>1, <3>5
  <2> HIDE DEF S
  <2>3. \A k \in 0 .. n : k \in S
    BY <1>1, <2>1, <2>2, UpTo
  <2> QED BY <2>3 DEF S
<1>10. h[m + n] = f[m] \o g[n] /\ n \in 0 .. n
  <2>1. n \in 0 .. n
    BY <1>1
  <2> QED BY <1>9, <2>1
<1> QED BY <1>1, <1>2, <1>3, <1>4, <1>10 DEF FlatRun, m, n

(* One sequence put together.                                              *)
LEMMA FlattenOne ==
  ASSUME NEW U, NEW x \in Seq(U)
  PROVE  FlattenSeq(<<x>>) = x
<1>1. <<x>> \in Seq(Seq(U)) /\ Len(<<x>>) = 1 /\ <<x>>[1] = x
  OBVIOUS
<1>2. PICK g : FlatRun(g, U, <<x>>)
  BY <1>1, FlattenRuns
<1>3. g[0] = <<>> /\ g[1] = g[0] \o x /\ g[1] = FlattenSeq(<<x>>)
  <2>1. 1 \in 1 .. 1 /\ 1 - 1 = 0
    OBVIOUS
  <2> QED BY <1>1, <1>2, <2>1 DEF FlatRun
<1> QED BY <1>3, ConcatEmptySeq

(* Of a list of lists, each of which may be flattened first.               *)
LEMMA FlattenTwice ==
  ASSUME NEW U, NEW lists \in Seq(Seq(Seq(U)))
  PROVE  FlattenSeq(FlattenSeq(lists)) = FlattenSeq([k \in 1 .. Len(lists) |-> FlattenSeq(lists[k])])
<1> DEFINE n == Len(lists)
<1> DEFINE flat == [k \in 1 .. n |-> FlattenSeq(lists[k])]
<1>1. n \in Nat /\ \A k \in 1 .. n : lists[k] \in Seq(Seq(U))
  BY ElementOfSeq, LenProperties
<1>2. \A k \in 1 .. n : flat[k] = FlattenSeq(lists[k]) /\ flat[k] \in Seq(U)
  BY <1>1, FlattenType
<1>3. flat \in Seq(Seq(U)) /\ Len(flat) = n
  BY <1>1, <1>2
<1> HIDE DEF flat
<1>4. PICK g : FlatRun(g, Seq(U), lists)
  BY FlattenRuns
<1>5. PICK h : FlatRun(h, U, flat)
  BY <1>3, FlattenRuns
<1> HIDE DEF n
<1>6. \A k \in 0 .. n : FlattenSeq(g[k]) = h[k]
  <2> DEFINE S == {k \in Nat : k \in 0 .. n => FlattenSeq(g[k]) = h[k]}
  <2>1. 0 \in S
    BY <1>4, <1>5, FlattenNone DEF FlatRun
  <2>2. ASSUME NEW k \in 0 .. n - 1, k \in S PROVE k + 1 \in S
    <3>1. k + 1 \in 1 .. n /\ (k + 1) - 1 = k /\ k \in 0 .. n /\ k + 1 \in Nat
      BY <1>1
    <3>2. g[k + 1] = g[k] \o lists[k + 1] /\ h[k + 1] = h[k] \o flat[k + 1]
      BY <1>3, <1>4, <1>5, <3>1 DEF FlatRun, n
    <3>3. g[k] \in Seq(Seq(U))
      BY <1>4, <3>1 DEF FlatRun, n
    <3>4. FlattenSeq(g[k] \o lists[k + 1]) = FlattenSeq(g[k]) \o FlattenSeq(lists[k + 1])
      BY <1>1, <3>1, <3>3, FlattenConcat
    <3>5. FlattenSeq(g[k]) = h[k] /\ flat[k + 1] = FlattenSeq(lists[k + 1])
      BY <1>2, <2>2, <3>1
    <3>6. FlattenSeq(g[k + 1]) = h[k + 1]
      BY <3>2, <3>4, <3>5
    <3> QED BY <3>1, <3>6
  <2> HIDE DEF S
  <2>3. \A k \in 0 .. n : k \in S
    BY <1>1, <2>1, <2>2, UpTo
  <2> QED BY <2>3 DEF S
<1>7. n \in 0 .. n
  BY <1>1
<1> QED BY <1>3, <1>4, <1>5, <1>6, <1>7 DEF FlatRun, n, flat

-----------------------------------------------------------------------------
(* Each element of s replaced by what a function has for it, and these     *)
(* flattened: of two sequences, of one element, and of a list of them.     *)
Mapped(h, s) == [k \in DOMAIN s |-> h[s[k]]]
Replaced(h, s) == FlattenSeq(Mapped(h, s))

LEMMA MappedType ==
  ASSUME NEW A, NEW B, NEW h \in [A -> B], NEW s \in Seq(A)
  PROVE  Mapped(h, s) \in Seq(B)
<1>1. \A k \in 1 .. Len(s) : h[s[k]] \in B
  OBVIOUS
<1>2. DOMAIN s = 1 .. Len(s) /\ Len(s) \in Nat
  OBVIOUS
<1> QED BY <1>1, <1>2 DEF Mapped

(* Replacing the elements of two sequences.                                *)
LEMMA ReplacedConcat ==
  ASSUME NEW A, NEW U, NEW h \in [A -> Seq(U)], NEW v \in Seq(A), NEW w \in Seq(A)
  PROVE  Replaced(h, v \o w) = Replaced(h, v) \o Replaced(h, w)
<1> DEFINE a == Mapped(h, v)
<1> DEFINE b == Mapped(h, w)
<1> DEFINE c == Mapped(h, v \o w)
<1> DEFINE T == Seq(U)
<1>1. v \o w \in Seq(A) /\ Len(v \o w) = Len(v) + Len(w) /\ Len(v) \in Nat /\ Len(w) \in Nat
  OBVIOUS
<1>0. h \in [A -> T]
  OBVIOUS
<1> HIDE DEF T
<1>4. /\ a \in Seq(T) /\ Len(a) = Len(v) /\ b \in Seq(T) /\ Len(b) = Len(w)
      /\ c \in Seq(T) /\ Len(c) = Len(v) + Len(w)
  <2>1. a \in Seq(T)
    BY <1>0, MappedType
  <2>2. b \in Seq(T)
    BY <1>0, MappedType
  <2>3. c \in Seq(T)
    BY <1>0, <1>1, MappedType
  <2>4. DOMAIN a = 1 .. Len(v) /\ DOMAIN b = 1 .. Len(w) /\ DOMAIN c = 1 .. Len(v) + Len(w)
    BY <1>1 DEF Mapped
  <2> HIDE DEF a, b, c
  <2>5. Len(a) = Len(v) /\ Len(b) = Len(w)
    BY <1>1, <2>1, <2>2, <2>4
  <2>6. Len(c) = Len(v) + Len(w)
    BY <1>1, <2>3, <2>4
  <2> QED BY <2>1, <2>2, <2>3, <2>5, <2>6
<1>2. /\ \A k \in 1 .. Len(v) : c[k] = a[k]
      /\ \A k \in Len(v) + 1 .. Len(v) + Len(w) : c[k] = b[k - Len(v)]
  <2>1. ASSUME NEW k \in 1 .. Len(v) PROVE c[k] = a[k]
    BY <1>1 DEF Mapped
  <2>2. ASSUME NEW k \in Len(v) + 1 .. Len(v) + Len(w) PROVE c[k] = b[k - Len(v)]
    <3>1. k - Len(v) \in 1 .. Len(w) /\ k \in 1 .. Len(v \o w) /\ (v \o w)[k] = w[k - Len(v)]
      BY <1>1
    <3> QED BY <3>1 DEF Mapped
  <2> QED BY <2>1, <2>2
<1>3. Replaced(h, v \o w) = FlattenSeq(c) /\ Replaced(h, v) = FlattenSeq(a) /\ Replaced(h, w) = FlattenSeq(b)
  BY DEF Replaced
<1> HIDE DEF a, b, c, T
<1>5. c = a \o b
  <2>1. a \o b \in Seq(T) /\ Len(a \o b) = Len(v) + Len(w)
    <3>1. a \o b \in Seq(T) /\ Len(a \o b) = Len(a) + Len(b)
      BY <1>4, ConcatProperties
    <3> QED BY <1>4, <3>1
  <2>2. ASSUME NEW k \in 1 .. Len(v) + Len(w) PROVE c[k] = (a \o b)[k]
    <3>1. CASE k <= Len(v)
      BY <1>2, <1>4, <3>1
    <3>2. CASE k > Len(v)
      <4>1. c[k] = b[k - Len(v)]
        BY <1>1, <1>2, <3>2
      <4>2. (a \o b)[k] = b[k - Len(a)]
        BY <1>1, <1>4, <3>2
      <4> QED BY <1>4, <4>1, <4>2
    <3>3. Len(v) \in Nat /\ Len(w) \in Nat /\ (k <= Len(v) \/ k > Len(v))
      BY <1>1
    <3> QED BY <3>1, <3>2, <3>3
  <2> DEFINE d == a \o b
  <2>3. c \in Seq(T) /\ d \in Seq(T) /\ Len(c) = Len(d) /\ \A k \in 1 .. Len(c) : c[k] = d[k]
    BY <1>4, <2>1, <2>2
  <2> HIDE DEF d
  <2>4. c = d
    BY <2>3, SeqEqual
  <2> QED BY <2>4 DEF d
<1>6. FlattenSeq(a \o b) = FlattenSeq(a) \o FlattenSeq(b)
  BY <1>4, FlattenConcat DEF T
<1> QED BY <1>3, <1>5, <1>6

(* Replacing the elements of none.                                         *)
LEMMA ReplacedNone ==
  ASSUME NEW h
  PROVE  Replaced(h, <<>>) = <<>>
<1>1. Mapped(h, <<>>) = <<>>
  BY DEF Mapped
<1> QED BY <1>1, FlattenNone DEF Replaced

(* Replacing one element.                                                  *)
LEMMA ReplacedOne ==
  ASSUME NEW A, NEW U, NEW h \in [A -> Seq(U)], NEW x \in A
  PROVE  Replaced(h, <<x>>) = h[x]
<1>1. Mapped(h, <<x>>) = <<h[x]>> /\ h[x] \in Seq(U)
  BY DEF Mapped
<1> QED BY <1>1, FlattenOne DEF Replaced

(* Replacing the elements of sequences put together.                       *)
LEMMA ReplacedFlatten ==
  ASSUME NEW A, NEW U, NEW h \in [A -> Seq(U)], NEW lists \in Seq(Seq(A))
  PROVE  Replaced(h, FlattenSeq(lists)) = FlattenSeq([k \in 1 .. Len(lists) |-> Replaced(h, lists[k])])
<1> DEFINE n == Len(lists)
<1>0. \A v, w \in Seq(A) : Replaced(h, v \o w) = Replaced(h, v) \o Replaced(h, w)
  <2> TAKE v, w \in Seq(A)
  <2> QED BY ReplacedConcat, SMTT(30)
<1> DEFINE flat == [k \in 1 .. n |-> Replaced(h, lists[k])]
<1>1. n \in Nat /\ \A k \in 1 .. n : lists[k] \in Seq(A)
  BY ElementOfSeq, LenProperties
<1>2. ASSUME NEW k \in 1 .. n PROVE flat[k] = Replaced(h, lists[k]) /\ flat[k] \in Seq(U)
  <2> DEFINE T == Seq(U)
  <2>1. h \in [A -> T] /\ lists[k] \in Seq(A)
    BY <1>1
  <2> HIDE DEF T
  <2>2. Mapped(h, lists[k]) \in Seq(T)
    BY <2>1, MappedType
  <2>3. FlattenSeq(Mapped(h, lists[k])) \in Seq(U)
    BY <2>2, FlattenType DEF T
  <2> QED BY <2>3 DEF Replaced
<1>3. flat \in Seq(Seq(U)) /\ Len(flat) = n
  BY <1>1, <1>2
<1> HIDE DEF flat
<1>4. PICK g : FlatRun(g, A, lists)
  BY FlattenRuns
<1>5. PICK f : FlatRun(f, U, flat)
  BY <1>3, FlattenRuns
<1> HIDE DEF n
<1>6. \A k \in 0 .. n : Replaced(h, g[k]) = f[k]
  <2> DEFINE S == {k \in Nat : k \in 0 .. n => Replaced(h, g[k]) = f[k]}
  <2>1. 0 \in S
    BY <1>4, <1>5, ReplacedNone DEF FlatRun
  <2>2. ASSUME NEW k \in 0 .. n - 1, k \in S PROVE k + 1 \in S
    <3>1. k + 1 \in 1 .. n /\ (k + 1) - 1 = k /\ k \in 0 .. n /\ k + 1 \in Nat
      BY <1>1
    <3>2. g[k + 1] = g[k] \o lists[k + 1] /\ f[k + 1] = f[k] \o flat[k + 1]
      BY <1>3, <1>4, <1>5, <3>1 DEF FlatRun, n
    <3>3. g[k] \in Seq(A)
      BY <1>4, <3>1 DEF FlatRun, n
    <3>4. Replaced(h, g[k] \o lists[k + 1]) = Replaced(h, g[k]) \o Replaced(h, lists[k + 1])
      BY <1>0, <1>1, <3>1, <3>3
    <3>5. Replaced(h, g[k]) = f[k] /\ flat[k + 1] = Replaced(h, lists[k + 1])
      BY <1>2, <2>2, <3>1
    <3>6. Replaced(h, g[k + 1]) = f[k + 1]
      BY <3>2, <3>4, <3>5
    <3> QED BY <3>1, <3>6
  <2> HIDE DEF S
  <2>3. \A k \in 0 .. n : k \in S
    BY <1>1, <2>1, <2>2, UpTo
  <2> QED BY <2>3 DEF S
<1>7. n \in 0 .. n
  BY <1>1
<1> QED BY <1>3, <1>4, <1>5, <1>6, <1>7 DEF FlatRun, n, flat

(* A sequence, one element after the other.                                *)
LEMMA FlattenSingles ==
  ASSUME NEW U, NEW s \in Seq(U)
  PROVE  FlattenSeq([k \in 1 .. Len(s) |-> <<s[k]>>]) = s
<1> DEFINE n == Len(s)
<1> DEFINE ones == [k \in 1 .. n |-> <<s[k]>>]
<1>1. n \in Nat /\ \A k \in 1 .. n : ones[k] = <<s[k]>> /\ s[k] \in U
  OBVIOUS
<1>2. ones \in Seq(Seq(U)) /\ Len(ones) = n
  BY <1>1
<1> HIDE DEF ones
<1>3. PICK g : FlatRun(g, U, ones)
  BY <1>2, FlattenRuns
<1>4. g[0] = <<>> /\ (\A k \in 1 .. n : g[k] = g[k - 1] \o <<s[k]>>) /\ g[n] = FlattenSeq(ones)
  BY <1>1, <1>2, <1>3 DEF FlatRun
<1> DEFINE S == {k \in Nat : k \in 0 .. n => g[k] = SubSeq(s, 1, k)}
<1>5. 0 \in S
  <2>1. 0 < 1 /\ 0 \in Int /\ 1 \in Int
    OBVIOUS
  <2>2. SubSeq(s, 1, 0) = <<>>
    BY <2>1, SubSeqEmpty
  <2> QED BY <1>4, <2>2
<1>6. ASSUME NEW k \in 0 .. n - 1, k \in S PROVE k + 1 \in S
  <2>1. k + 1 \in 1 .. n /\ (k + 1) - 1 = k /\ k \in 0 .. n /\ k + 1 \in Nat
    BY <1>1
  <2>2. g[k + 1] = SubSeq(s, 1, k) \o <<s[k + 1]>>
    BY <1>4, <1>6, <2>1
  <2> DEFINE q == SubSeq(s, 1, k + 1)
  <2> DEFINE r == SubSeq(s, 1, k)
  <2>3. /\ q \in Seq(U) /\ Len(q) = k + 1 /\ \A j \in 1 .. k + 1 : q[j] = s[j]
        /\ r \in Seq(U) /\ Len(r) = k /\ \A j \in 1 .. k : r[j] = s[j]
    BY <1>1, <2>1
  <2> HIDE DEF q, r
  <2>4. q = r \o <<s[k + 1]>>
    <3>1. s[k + 1] \in U
      BY <1>1, <2>1
    <3>2. r \o <<s[k + 1]>> \in Seq(U) /\ Len(r \o <<s[k + 1]>>) = k + 1
      BY <2>3, <3>1
    <3>3. ASSUME NEW j \in 1 .. k + 1 PROVE q[j] = (r \o <<s[k + 1]>>)[j]
      BY <2>1, <2>3
    <3> QED BY <2>3, <3>2, <3>3
  <2> QED BY <2>1, <2>2, <2>4 DEF q, r
<1>7. n \in S /\ n \in 0 .. n
  <2>1. n \in 0 .. n
    BY <1>1
  <2> HIDE DEF S, n
  <2> QED BY <1>1, <1>5, <1>6, <2>1, UpTo
<1>8. SubSeq(s, 1, n) = s
  BY SubSeqFull
<1> QED BY <1>4, <1>7, <1>8 DEF ones

-----------------------------------------------------------------------------
(* Kept, prefix by prefix.                                                 *)
KeptRun(g, s, T, S) ==
  /\ g \in [0 .. Len(s) -> Seq(T \cap S)] /\ g[0] = <<>>
  /\ \A k \in 1 .. Len(s) : g[k] = IF s[k] \in S THEN Append(g[k - 1], s[k]) ELSE g[k - 1]
  /\ Kept(s, S) = g[Len(s)]

LEMMA KeptRuns ==
  ASSUME NEW T, NEW s \in Seq(T), NEW S
  PROVE  \E g : KeptRun(g, s, T, S)
<1> DEFINE n == Len(s)
<1> DEFINE op(r, x) == IF x \in S THEN Append(r, x) ELSE r
<1> DEFINE seq == [k \in 1 .. n |-> s[k]]
<1> DEFINE base == <<>>
<1> DEFINE V == Seq(T \cap S)
<1> DEFINE F == [k \in 1 .. n |-> [v \in V |-> op(v, seq[k])]]
<1>0. n \in Nat /\ DOMAIN s = 1 .. n
  BY LenProperties
<1>1. base \in V
  OBVIOUS
<1>2. \A k \in 1 .. n : \A v \in V : F[k][v] = op(v, seq[k])
  OBVIOUS
<1>3. \A k \in 1 .. n : seq[k] = s[k]
  OBVIOUS
<1>a. DOMAIN seq = 1 .. n
  OBVIOUS
<1>b. Kept(s, S) = FoldLeft(op, base, seq)
  <2>1. s = seq
    BY <1>0
  <2> QED BY <2>1 DEF Kept
<1> HIDE DEF F, seq
<1>4. ASSUME NEW k \in 1 .. n, NEW v \in V PROVE op(v, seq[k]) \in V
  <2>1. seq[k] \in T
    BY <1>0, <1>3, ElementOfSeq
  <2> QED BY <2>1
<1>5. Steps(F, V, 1 .. n)
  <2> HIDE DEF op, V
  <2> QED BY <1>2, <1>4 DEF Steps
<1>6. \E it : it = [z \in SUBSET (1 .. n) |->
                     IF z = {} THEN base ELSE op(it[z \ {Max(z)}], seq[Max(z)])]
  <2>1. PICK it : LeftIteration(it, n, V, base, F)
    BY <1>0, <1>1, <1>5, LeftIterationExists
  <2>2. ASSUME NEW z \in SUBSET (1 .. n), z # {}
        PROVE  it[z] = op(it[z \ {Max(z)}], seq[Max(z)])
    <3>1. Max(z) \in 1 .. n /\ it[z \ {Max(z)}] \in V /\ it[z] = F[Max(z)][it[z \ {Max(z)}]]
      BY <2>1, <2>2 DEF LeftIteration
    <3> HIDE DEF V, op
    <3> QED BY <1>2, <3>1
  <2>3. it \in [SUBSET (1 .. n) -> V] /\ it[{}] = base
    BY <2>1 DEF LeftIteration
  <2> HIDE DEF V, op, base
  <2>4. it = [z \in SUBSET (1 .. n) |->
               IF z = {} THEN base ELSE op(it[z \ {Max(z)}], seq[Max(z)])]
    BY <2>2, <2>3
  <2> QED BY <2>4
<1>7. PICK it :
        /\ it = [z \in SUBSET (1 .. n) |->
                   IF z = {} THEN base ELSE op(it[z \ {Max(z)}], seq[Max(z)])]
        /\ Kept(s, S) = it[1 .. n]
  BY <1>6, <1>a, <1>b DEF FoldLeft, MapThenFoldSet
<1>8. LeftFold(it, n, V, base, F)
  <2>1. it[{}] = base
    BY <1>7
  <2>2. ASSUME NEW z \in SUBSET (1 .. n), z # {}, it[z \ {Max(z)}] \in V
        PROVE  it[z] = F[Max(z)][it[z \ {Max(z)}]]
    <3>1. it[z] = op(it[z \ {Max(z)}], seq[Max(z)])
      BY <1>7, <2>2
    <3>2. Max(z) \in 1 .. n
      BY <1>0, <2>2, LargestOf
    <3> HIDE DEF V, op
    <3> QED BY <1>2, <2>2, <3>1, <3>2
  <2> HIDE DEF V, base
  <2> QED BY <2>1, <2>2 DEF LeftFold
<1>9. PICK g : LeftRun(g, n, V, base, F) /\ g[n] = it[1 .. n]
  <2> HIDE DEF n, op, V, base
  <2> QED BY <1>0, <1>1, <1>5, <1>8, LeftRuns
<1>10. ASSUME NEW k \in 1 .. n PROVE g[k] = op(g[k - 1], seq[k])
  <2>1. g[k] = F[k][g[k - 1]] /\ k - 1 \in 0 .. n /\ g \in [0 .. n -> V]
    BY <1>0, <1>9 DEF LeftRun
  <2> HIDE DEF n, V, op
  <2> QED BY <1>2, <2>1
<1>11. g \in [0 .. n -> V] /\ g[0] = base
  BY <1>9 DEF LeftRun
<1> QED BY <1>3, <1>7, <1>9, <1>10, <1>11 DEF KeptRun

(* What is kept of a sequence is a sequence of what is to be kept.         *)
LEMMA KeptType ==
  ASSUME NEW T, NEW s \in Seq(T), NEW S
  PROVE  Kept(s, S) \in Seq(T \cap S)
<1>1. PICK g : g \in [0 .. Len(s) -> Seq(T \cap S)] /\ Kept(s, S) = g[Len(s)]
  BY KeptRuns DEF KeptRun
<1>2. Len(s) \in 0 .. Len(s)
  BY LenProperties
<1> QED BY <1>1, <1>2

(* Of the numbers up to n, those that are in S, each of them once.         *)
EachOnce(s, S, n) ==
  /\ s \in Seq(S \cap 1 .. n)
  /\ \A j, k \in 1 .. Len(s) : s[j] = s[k] => j = k
  /\ \A i \in S \cap 1 .. n : \E k \in 1 .. Len(s) : s[k] = i

LEMMA NumbersKept ==
  ASSUME NEW n \in Nat, NEW S
  PROVE  EachOnce(Kept([k \in 1 .. n |-> k], S), S, n)
<1> DEFINE s == [k \in 1 .. n |-> k]
<1>1. s \in Seq(1 .. n) /\ Len(s) = n /\ \A k \in 1 .. n : s[k] = k
  OBVIOUS
<1>2. PICK g : /\ g \in [0 .. n -> Seq(1 .. n \cap S)] /\ g[0] = <<>>
               /\ \A k \in 1 .. n : g[k] = IF s[k] \in S THEN Append(g[k - 1], s[k]) ELSE g[k - 1]
               /\ Kept(s, S) = g[n]
  <2> DEFINE T == 1 .. n
  <2>1. s \in Seq(T)
    BY <1>1
  <2> HIDE DEF s, T
  <2>2. \E g : KeptRun(g, s, T, S)
    BY <2>1, KeptRuns
  <2> QED BY <1>1, <2>2 DEF T, KeptRun
<1> DEFINE I == {k \in 0 .. n : EachOnce(g[k], S, k)}
<1>3. 0 \in I
  <2>1. EachOnce(<<>>, S, 0)
    BY DEF EachOnce
  <2> QED BY <1>2, <2>1
<1>4. ASSUME NEW k \in 0 .. n - 1, k \in I PROVE k + 1 \in I
  <2>1. k + 1 \in 1 .. n /\ (k + 1) - 1 = k /\ EachOnce(g[k], S, k)
    BY <1>4
  <2>2. g[k + 1] = IF k + 1 \in S THEN Append(g[k], k + 1) ELSE g[k]
    BY <1>1, <1>2, <2>1
  <2> DEFINE t == g[k]
  <2> DEFINE m == Len(t)
  <2>3. /\ t \in Seq(S \cap 1 .. k) /\ m \in Nat /\ \A i \in 1 .. m : t[i] \in S \cap 1 .. k
        /\ \A i, j \in 1 .. m : t[i] = t[j] => i = j
        /\ \A i \in S \cap 1 .. k : \E j \in 1 .. m : t[j] = i
    BY <2>1, LenProperties, ElementOfSeq DEF EachOnce
  <2> HIDE DEF t
  <2>0. k \in Nat
    OBVIOUS
  <2>4. t \in Seq(S \cap 1 .. k + 1)
    BY <2>3
  <2>5. CASE k + 1 \notin S
    <3>1. \A i \in S \cap 1 .. k + 1 : i \in S \cap 1 .. k
      BY <2>5
    <3>2. EachOnce(t, S, k + 1)
      BY <2>3, <2>4, <3>1 DEF EachOnce
    <3> QED BY <2>1, <2>2, <2>5, <3>2 DEF t
  <2>6. CASE k + 1 \in S
    <3> DEFINE r == Append(t, k + 1)
    <3>1. /\ r \in Seq(S \cap 1 .. k + 1) /\ Len(r) = m + 1 /\ r[m + 1] = k + 1
          /\ \A i \in 1 .. m : r[i] = t[i]
      BY <2>3, <2>4, <2>6, AppendProperties
    <3> HIDE DEF r, m
    <3>2. \A i \in 1 .. m + 1 : i \in 1 .. m \/ i = m + 1
      BY <2>3
    <3>3. \A i \in 1 .. m : r[i] # k + 1
      <4>1. \A i \in 1 .. m : t[i] \in 1 .. k
        BY <2>3
      <4>2. k + 1 \notin 1 .. k
        BY <2>0
      <4> QED BY <3>1, <4>1, <4>2
    <3>4. \A i, j \in 1 .. m + 1 : r[i] = r[j] => i = j
      BY <2>3, <3>1, <3>2, <3>3
    <3>5. ASSUME NEW i \in S \cap 1 .. k + 1 PROVE \E j \in 1 .. m + 1 : r[j] = i
      <4>1. CASE i = k + 1
        <5>1. m + 1 \in 1 .. m + 1
          BY <2>3
        <5> QED BY <3>1, <4>1, <5>1
      <4>2. CASE i # k + 1
        <5>1. PICK j \in 1 .. m : t[j] = i
          BY <2>3, <4>2
        <5>2. j \in 1 .. m + 1
          BY <2>3
        <5> QED BY <3>1, <5>1, <5>2
      <4> QED BY <4>1, <4>2
    <3>6. EachOnce(r, S, k + 1)
      BY <3>1, <3>4, <3>5 DEF EachOnce
    <3>7. g[k + 1] = r
      BY <2>2, <2>6 DEF r, t
    <3> HIDE DEF t
    <3> QED BY <2>1, <3>6, <3>7
  <2> QED BY <2>5, <2>6
<1>5. \A k \in 0 .. n : k \in I
  <2> HIDE DEF I
  <2> QED BY <1>3, <1>4, UpTo
<1> QED BY <1>2, <1>5

-----------------------------------------------------------------------------
(* Sorting a finite set by a strict order of all its elements.             *)
SortsAll(S, before) ==
  /\ \A x \in S : <<x, x>> \notin before
  /\ \A x, y, z \in S : <<x, y>> \in before /\ <<y, z>> \in before => <<x, z>> \in before
  /\ \A x, y \in S : x # y => <<x, y>> \in before \/ <<y, x>> \in before

LEMMA SortedIs ==
  ASSUME NEW S, IsFiniteSet(S), NEW before, SortsAll(S, before)
  PROVE  /\ Cardinality(S) \in Nat
         /\ InOrderOf(S, before) \in Seq(S) /\ Len(InOrderOf(S, before)) = Cardinality(S)
         /\ \A j, k \in 1 .. Cardinality(S) : InOrderOf(S, before)[j] = InOrderOf(S, before)[k] => j = k
         /\ \A x \in S : \E k \in 1 .. Cardinality(S) : InOrderOf(S, before)[k] = x
<1> DEFINE n == Cardinality(S)
<1> DEFINE Less(x) == {y \in S : <<y, x>> \in before}
<1> DEFINE rank == [x \in S |-> Cardinality(Less(x))]
<1>1. n \in Nat /\ \A x : IsFiniteSet(Less(x)) /\ Cardinality(Less(x)) \in Nat
  BY FS_CardinalityType, FS_Subset
<1>2. ASSUME NEW x \in S PROVE Cardinality(Less(x)) \in 0 .. n - 1
  <2>1. Less(x) \in SUBSET (S \ {x})
    BY DEF SortsAll
  <2>2. IsFiniteSet(S \ {x}) /\ Cardinality(S \ {x}) = n - 1
    BY FS_RemoveElement
  <2> HIDE DEF Less, n
  <2>3. Cardinality(Less(x)) <= n - 1
    BY <2>1, <2>2, FS_Subset
  <2> QED BY <1>1, <2>3
<1>3. ASSUME NEW x \in S, NEW z \in S, <<x, z>> \in before
      PROVE  Cardinality(Less(x)) < Cardinality(Less(z))
  <2>1. x \notin Less(x) /\ Less(x) \cup {x} \in SUBSET Less(z)
    BY <1>3 DEF SortsAll
  <2> HIDE DEF Less
  <2>2. Cardinality(Less(x) \cup {x}) = Cardinality(Less(x)) + 1
    BY <1>1, <2>1, FS_AddElement
  <2>3. Cardinality(Less(x) \cup {x}) <= Cardinality(Less(z))
    BY <1>1, <2>1, FS_Subset
  <2> QED BY <1>1, <2>2, <2>3
<1>4. rank \in [S -> 0 .. n - 1] /\ \A x, y \in S : rank[x] = rank[y] => x = y
  <2>1. \A x \in S : rank[x] = Cardinality(Less(x))
    OBVIOUS
  <2> HIDE DEF Less, n
  <2>2. rank \in [S -> 0 .. n - 1]
    BY <1>2
  <2> HIDE DEF rank
  <2>3. ASSUME NEW x \in S, NEW y \in S, x # y PROVE rank[x] # rank[y]
    <3>1. Cardinality(Less(x)) < Cardinality(Less(y)) \/ Cardinality(Less(y)) < Cardinality(Less(x))
      BY <1>3, <2>3 DEF SortsAll
    <3> QED BY <1>1, <2>1, <3>1
  <2> QED BY <2>2, <2>3
<1>5. rank \in Injection(S, 0 .. n - 1)
  BY <1>4 DEF Injection, IsInjective
<1>6. IsFiniteSet(0 .. n - 1) /\ Cardinality(0 .. n - 1) = n
  <2> HIDE DEF n
  <2> QED BY <1>1, FS_Interval
<1>7. \A i \in 0 .. n - 1 : \E x \in S : rank[x] = i
  <2>1. rank \in Surjection(S, 0 .. n - 1)
    <3> HIDE DEF rank
    <3> QED BY <1>5, <1>6, FS_Injection
  <2> HIDE DEF rank, n
  <2> QED BY <2>1 DEF Surjection
<1> DEFINE s == InOrderOf(S, before)
<1>8. \A k \in 1 .. n : s[k] = CHOOSE x \in S : Cardinality(Less(x)) = k - 1
  BY DEF InOrderOf
<1>a. s = [k \in 1 .. n |-> s[k]]
  <2> DEFINE c(k) == CHOOSE x \in S : Cardinality({y \in S : <<y, x>> \in before}) = k - 1
  <2>1. s = [k \in 1 .. n |-> c(k)]
    BY Zenon DEF InOrderOf
  <2> HIDE DEF s, c, n
  <2> QED BY <2>1
<1>b. \A x \in S : rank[x] = Cardinality(Less(x))
  OBVIOUS
<1> HIDE DEF s, rank, Less
<1>9. \A k \in 1 .. n : s[k] \in S /\ rank[s[k]] = k - 1
  <2>1. ASSUME NEW k \in 1 .. n PROVE \E x \in S : Cardinality(Less(x)) = k - 1
    <3> HIDE DEF n
    <3>1. k - 1 \in 0 .. n - 1
      BY <1>1
    <3> QED BY <1>7, <1>b, <3>1
  <2>2. ASSUME NEW k \in 1 .. n PROVE s[k] \in S /\ Cardinality(Less(s[k])) = k - 1
    BY <1>8, <2>1
  <2> QED BY <1>b, <2>2
<1> HIDE DEF n
<1>10. s \in Seq(S) /\ Len(s) = n
  <2>1. s \in [1 .. n -> S]
    BY <1>9, <1>a
  <2> QED BY <1>1, <2>1
<1>11. \A j, k \in 1 .. n : s[j] = s[k] => j = k
  <2>1. \A j, k \in 1 .. n : s[j] = s[k] => j - 1 = k - 1
    BY <1>9
  <2> QED BY <1>1, <2>1
<1>12. ASSUME NEW x \in S PROVE \E k \in 1 .. n : s[k] = x
  <2>1. rank[x] \in 0 .. n - 1
    BY <1>4
  <2>2. rank[x] + 1 \in 1 .. n /\ (rank[x] + 1) - 1 = rank[x]
    BY <1>1, <2>1
  <2>3. s[rank[x] + 1] = x
    BY <1>4, <1>9, <2>2
  <2> QED BY <2>2, <2>3
<1> QED BY <1>1, <1>10, <1>11, <1>12 DEF n, s
=============================================================================

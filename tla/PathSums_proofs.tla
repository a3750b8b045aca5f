-------------------------- MODULE PathSums_proofs --------------------------
(***************************************************************************)
(* Proofs about the sums of a linear-chain CRF: what Forward and Backward  *)
(* return are the sums over the paths, those which the sparse CRF makes    *)
(* are the same, and a step of l1sgd does not fail.                        *)
(***************************************************************************)
EXTENDS Learners_proofs

-----------------------------------------------------------------------------
(* Induction over the subsets of a finite set.                             *)
LEMMA SubsetInduction ==
  ASSUME NEW S, IsFiniteSet(S), NEW P, {} \in P,
         \A s \in SUBSET S : \A x \in S \ s : s \in P => s \cup {x} \in P
  PROVE  S \in P
<1> DEFINE K == {k \in Nat : \A s \in SUBSET S : Cardinality(s) = k => s \in P}
<1>0. \A s \in SUBSET S : IsFiniteSet(s) /\ Cardinality(s) \in Nat
  BY FS_Subset, FS_CardinalityType
<1>1. 0 \in K
  <2>1. ASSUME NEW s \in SUBSET S, Cardinality(s) = 0 PROVE s = {}
    BY <1>0, <2>1, FS_EmptySet
  <2> QED BY <2>1
<1>2. ASSUME NEW k \in Nat, k \in K PROVE k + 1 \in K
  <2>1. ASSUME NEW s \in SUBSET S, Cardinality(s) = k + 1 PROVE s \in P
    <3>1. s # {}
      <4>1. Cardinality({}) = 0
        BY FS_EmptySet
      <4> QED BY <2>1, <4>1
    <3>2. PICK x \in s : TRUE
      BY <3>1
    <3> DEFINE r == s \ {x}
    <3>3. Cardinality(r) = k
      <4>1. Cardinality(s \ {x}) = Cardinality(s) - 1
        BY <1>0, FS_RemoveElement
      <4> QED BY <2>1, <4>1
    <3>4. r \in SUBSET S /\ x \in S \ r /\ s = r \cup {x}
      OBVIOUS
    <3> HIDE DEF r
    <3>5. r \in P
      BY <1>2, <3>3, <3>4
    <3> QED BY <3>4, <3>5
  <2> QED BY <2>1
<1>3. Nat \subseteq K
  <2> HIDE DEF K
  <2> QED BY <1>1, <1>2, NatSetInduction
<1>4. Cardinality(S) \in K
  BY <1>0, <1>3
<1> QED BY <1>4

-----------------------------------------------------------------------------
(* Sums of whole numbers over a set, of which v may say more.              *)
Total(v, S) == VectorSum([x \in S |-> v[x]])

IsSums(it, v, S) ==
  /\ it \in [SUBSET S -> Int] /\ it[{}] = 0
  /\ \A s \in SUBSET S : \A x \in s : it[s] = v[x] + it[s \ {x}]
  /\ Total(v, S) = it[S]

AreInts(v, S) == \A x \in S : v[x] \in Int

LEMMA SumsAre ==
  ASSUME NEW S, IsFiniteSet(S), NEW v, AreInts(v, S)
  PROVE  \E it : IsSums(it, v, S)
<1> DEFINE w == [x \in S |-> v[x]]
<1>1. /\ DOMAIN w = S /\ \A x \in S : w[x] = v[x] /\ v[x] \in Int
      /\ 0 \in Int /\ \A x \in S : \A y \in Int : w[x] + y \in Int
  BY DEF AreInts
<1>2. Total(v, S) = VectorSum(w)
  BY DEF Total
<1> HIDE DEF w
<1>3. PICK it : SumIteration(it, w, S, Int)
  BY <1>1, SumIterates
<1>4. it \in [SUBSET S -> Int] /\ it[{}] = 0 /\ VectorSum(w) = it[S]
  BY <1>3 DEF SumIteration
<1> DEFINE Free(s) == \A x \in s : it[s] = v[x] + it[s \ {x}]
<1> DEFINE K == {k \in Nat : \A s \in SUBSET S : Cardinality(s) <= k => Free(s)}
<1>5. \A s \in SUBSET S : IsFiniteSet(s) /\ Cardinality(s) \in Nat
  BY FS_Subset, FS_CardinalityType
<1>6. 0 \in K
  <2>1. ASSUME NEW s \in SUBSET S, Cardinality(s) <= 0 PROVE s = {}
    BY <1>5, <2>1, FS_EmptySet
  <2> QED BY <2>1
<1>7. ASSUME NEW k \in Nat, k \in K PROVE k + 1 \in K
  <2>1. ASSUME NEW s \in SUBSET S, Cardinality(s) <= k + 1, NEW x \in s
        PROVE  it[s] = v[x] + it[s \ {x}]
    <3>1. PICK c \in s : it[s] = v[c] + it[s \ {c}]
      BY <1>1, <1>3 DEF SumIteration
    <3>2. CASE c = x
      BY <3>1, <3>2
    <3>3. CASE c # x
      <4>1. Cardinality(s \ {c}) = Cardinality(s) - 1 /\ Cardinality(s \ {x}) = Cardinality(s) - 1
        BY <1>5, FS_RemoveElement
      <4>2. Cardinality(s \ {c}) <= k /\ Cardinality(s \ {x}) <= k
        BY <1>5, <2>1, <4>1
      <4>3. s \ {c} \in SUBSET S /\ s \ {x} \in SUBSET S /\ x \in s \ {c} /\ c \in s \ {x}
        BY <3>3
      <4>4. it[s \ {c}] = v[x] + it[(s \ {c}) \ {x}] /\ it[s \ {x}] = v[c] + it[(s \ {x}) \ {c}]
        BY <1>7, <4>2, <4>3
      <4>5. (s \ {c}) \ {x} = (s \ {x}) \ {c}
        OBVIOUS
      <4> DEFINE y == it[(s \ {x}) \ {c}]
      <4>6. y \in Int /\ v[x] \in Int /\ v[c] \in Int
        <5>1. (s \ {x}) \ {c} \in SUBSET S
          OBVIOUS
        <5> QED BY <1>1, <1>4, <5>1
      <4>7. it[s] = v[c] + (v[x] + y) /\ it[s \ {x}] = v[c] + y
        BY <3>1, <4>4, <4>5
      <4> HIDE DEF y
      <4> QED BY <4>6, <4>7
    <3> QED BY <3>2, <3>3
  <2> QED BY <2>1
<1>8. Nat \subseteq K
  <2> HIDE DEF K
  <2> QED BY <1>6, <1>7, NatSetInduction
<1>9. ASSUME NEW s \in SUBSET S PROVE Free(s)
  <2>1. Cardinality(s) \in K
    BY <1>5, <1>8
  <2> QED BY <1>5, <2>1
<1>10. IsSums(it, v, S)
  BY <1>2, <1>4, <1>9 DEF IsSums
<1> QED BY <1>10

(* The sum of nothing.                                                     *)
LEMMA TotalNone ==
  ASSUME NEW v
  PROVE  Total(v, {}) = 0
<1>1. IsFiniteSet({}) /\ AreInts(v, {})
  BY FS_EmptySet DEF AreInts
<1>2. PICK it : IsSums(it, v, {})
  BY <1>1, SumsAre
<1> QED BY <1>2 DEF IsSums

(* A sum of whole numbers is one.                                          *)
LEMMA TotalIsInt ==
  ASSUME NEW S, IsFiniteSet(S), NEW v, AreInts(v, S)
  PROVE  Total(v, S) \in Int
<1>1. PICK it : IsSums(it, v, S)
  BY SumsAre
<1>2. S \in SUBSET S
  OBVIOUS
<1> QED BY <1>1, <1>2 DEF IsSums

(* One more element adds its value.                                        *)
LEMMA TotalAdds ==
  ASSUME NEW S, IsFiniteSet(S), NEW y, y \notin S, NEW v, AreInts(v, S \cup {y})
  PROVE  Total(v, S \cup {y}) = v[y] + Total(v, S)
<1> DEFINE U == S \cup {y}
<1>0. IsFiniteSet(U) /\ AreInts(v, S)
  BY FS_AddElement DEF AreInts
<1>1. PICK it : IsSums(it, v, U)
  BY <1>0, SumsAre
<1>2. PICK h : IsSums(h, v, S)
  BY <1>0, SumsAre
<1> DEFINE P == {s \in SUBSET S : it[s] = h[s]}
<1>3. {} \in P
  BY <1>1, <1>2 DEF IsSums
<1>4. ASSUME NEW s \in SUBSET S, NEW x \in S \ s, s \in P PROVE s \cup {x} \in P
  <2> DEFINE r == s \cup {x}
  <2>1. r \in SUBSET S /\ r \in SUBSET U /\ x \in r /\ r \ {x} = s
    OBVIOUS
  <2> HIDE DEF r, U
  <2>2. it[r] = v[x] + it[s] /\ h[r] = v[x] + h[s]
    BY <1>1, <1>2, <2>1 DEF IsSums
  <2>3. it[s] = h[s]
    BY <1>4
  <2> QED BY <2>1, <2>2, <2>3 DEF r
<1>5. S \in P
  <2> HIDE DEF P
  <2> QED BY <1>3, <1>4, SubsetInduction
<1>6. it[U] = v[y] + it[S]
  <2>1. U \in SUBSET U /\ y \in U /\ U \ {y} = S
    OBVIOUS
  <2> HIDE DEF U
  <2> QED BY <1>1, <2>1 DEF IsSums
<1>7. Total(v, U) = it[U] /\ Total(v, S) = h[S]
  BY <1>1, <1>2 DEF IsSums
<1> QED BY <1>5, <1>6, <1>7

(* The same values, the same sum.                                          *)
LEMMA TotalSame ==
  ASSUME NEW S, NEW a, NEW b, \A x \in S : a[x] = b[x]
  PROVE  Total(a, S) = Total(b, S)
<1>1. [x \in S |-> a[x]] = [x \in S |-> b[x]]
  OBVIOUS
<1> QED BY <1>1, Zenon DEF Total

(* A sum of sums is the sum of the two.                                    *)
LEMMA TotalPlus ==
  ASSUME NEW S, IsFiniteSet(S), NEW a, AreInts(a, S), NEW b, AreInts(b, S),
         NEW c, \A x \in S : c[x] = a[x] + b[x]
  PROVE  Total(c, S) = Total(a, S) + Total(b, S)
<1> DEFINE P == {s \in SUBSET S : Total(c, s) = Total(a, s) + Total(b, s)}
<1>1. {} \in P
  <2>1. Total(a, {}) = 0 /\ Total(b, {}) = 0 /\ Total(c, {}) = 0
    BY TotalNone
  <2> QED BY <2>1
<1>2. ASSUME NEW s \in SUBSET S, NEW x \in S \ s, s \in P PROVE s \cup {x} \in P
  <2> DEFINE r == s \cup {x}
  <2>1. IsFiniteSet(s) /\ r \in SUBSET S
    BY FS_Subset
  <2>2. AreInts(a, r) /\ AreInts(b, r) /\ AreInts(c, r) /\ AreInts(a, s) /\ AreInts(b, s)
    BY <2>1 DEF AreInts
  <2>3. Total(a, r) = a[x] + Total(a, s) /\ Total(b, r) = b[x] + Total(b, s) /\ Total(c, r) = c[x] + Total(c, s)
    BY <2>1, <2>2, TotalAdds
  <2>4. Total(a, s) \in Int /\ Total(b, s) \in Int
    BY <2>1, <2>2, TotalIsInt
  <2>5. a[x] \in Int /\ b[x] \in Int /\ c[x] = a[x] + b[x]
    BY DEF AreInts
  <2>6. Total(c, s) = Total(a, s) + Total(b, s)
    BY <1>2
  <2> HIDE DEF r
  <2>7. Total(c, r) = Total(a, r) + Total(b, r)
    BY <2>3, <2>4, <2>5, <2>6
  <2> QED BY <2>1, <2>7 DEF r
<1>3. S \in P
  <2> HIDE DEF P
  <2> QED BY <1>1, <1>2, SubsetInduction
<1> QED BY <1>3

(* A sum of multiples is a multiple of the sum.                            *)
LEMMA TotalTimes ==
  ASSUME NEW S, IsFiniteSet(S), NEW a, AreInts(a, S), NEW z \in Int,
         NEW c, \A x \in S : c[x] = z * a[x]
  PROVE  Total(c, S) = z * Total(a, S)
<1> DEFINE P == {s \in SUBSET S : Total(c, s) = z * Total(a, s)}
<1>1. {} \in P
  <2>1. Total(a, {}) = 0 /\ Total(c, {}) = 0
    BY TotalNone
  <2> QED BY <2>1
<1>2. ASSUME NEW s \in SUBSET S, NEW x \in S \ s, s \in P PROVE s \cup {x} \in P
  <2> DEFINE r == s \cup {x}
  <2>1. IsFiniteSet(s) /\ r \in SUBSET S
    BY FS_Subset
  <2>2. AreInts(a, r) /\ AreInts(c, r) /\ AreInts(a, s)
    BY <2>1 DEF AreInts
  <2>3. Total(a, r) = a[x] + Total(a, s) /\ Total(c, r) = c[x] + Total(c, s)
    BY <2>1, <2>2, TotalAdds
  <2>4. Total(a, s) \in Int
    BY <2>1, <2>2, TotalIsInt
  <2>5. a[x] \in Int /\ c[x] = z * a[x]
    BY DEF AreInts
  <2>6. Total(c, s) = z * Total(a, s)
    BY <1>2
  <2> HIDE DEF r
  <2>7. Total(c, r) = z * Total(a, r)
    BY <2>3, <2>4, <2>5, <2>6
  <2> QED BY <2>1, <2>7 DEF r
<1>3. S \in P
  <2> HIDE DEF P
  <2> QED BY <1>1, <1>2, SubsetInduction
<1> QED BY <1>3

(* A sum of zeros is zero.                                                 *)
LEMMA TotalZero ==
  ASSUME NEW S, IsFiniteSet(S), NEW a, \A x \in S : a[x] = 0
  PROVE  Total(a, S) = 0
<1> DEFINE P == {s \in SUBSET S : Total(a, s) = 0}
<1>1. {} \in P
  BY TotalNone
<1>2. ASSUME NEW s \in SUBSET S, NEW x \in S \ s, s \in P PROVE s \cup {x} \in P
  <2>1. IsFiniteSet(s) /\ AreInts(a, s \cup {x})
    BY FS_Subset DEF AreInts
  <2>2. Total(a, s \cup {x}) = a[x] + Total(a, s)
    BY <2>1, TotalAdds
  <2> QED BY <1>2, <2>2
<1>3. S \in P
  <2> HIDE DEF P
  <2> QED BY <1>1, <1>2, SubsetInduction
<1> QED BY <1>3

(* Two sets that share nothing.                                            *)
LEMMA TotalUnion ==
  ASSUME NEW S, IsFiniteSet(S), NEW U, IsFiniteSet(U), S \cap U = {}, NEW a, AreInts(a, S \cup U)
  PROVE  Total(a, S \cup U) = Total(a, S) + Total(a, U)
<1> DEFINE P == {s \in SUBSET U : Total(a, S \cup s) = Total(a, S) + Total(a, s)}
<1>0. Total(a, S) \in Int
  <2>1. AreInts(a, S)
    BY DEF AreInts
  <2> QED BY <2>1, TotalIsInt
<1>1. {} \in P
  <2>1. S \cup {} = S /\ Total(a, {}) = 0
    BY TotalNone
  <2> QED BY <1>0, <2>1
<1>2. ASSUME NEW s \in SUBSET U, NEW x \in U \ s, s \in P PROVE s \cup {x} \in P
  <2> DEFINE r == s \cup {x}
  <2> DEFINE q == S \cup s
  <2>1. IsFiniteSet(s) /\ IsFiniteSet(q) /\ r \in SUBSET U
    BY FS_Subset, FS_Union
  <2>2. S \cup r = q \cup {x} /\ x \notin q /\ x \notin s
    OBVIOUS
  <2>3. AreInts(a, q \cup {x}) /\ AreInts(a, s \cup {x}) /\ AreInts(a, s) /\ a[x] \in Int
    BY DEF AreInts
  <2>4. Total(a, s) \in Int
    BY <2>1, <2>3, TotalIsInt
  <2>5. Total(a, q) = Total(a, S) + Total(a, s)
    BY <1>2
  <2> HIDE DEF q
  <2>6. Total(a, q \cup {x}) = a[x] + Total(a, q) /\ Total(a, s \cup {x}) = a[x] + Total(a, s)
    BY <2>1, <2>2, <2>3, TotalAdds
  <2>7. Total(a, S \cup r) = Total(a, S) + Total(a, r)
    <3>1. Total(a, S \cup r) = a[x] + (Total(a, S) + Total(a, s))
      BY <2>2, <2>5, <2>6, Zenon
    <3>2. Total(a, r) = a[x] + Total(a, s)
      BY <2>6
    <3> DEFINE A == Total(a, S)
    <3> DEFINE B == Total(a, s)
    <3> DEFINE y == a[x]
    <3>3. A \in Int /\ B \in Int /\ y \in Int
      BY <1>0, <2>3, <2>4
    <3> HIDE DEF A, B, y
    <3>4. y + (A + B) = A + (y + B)
      BY <3>3
    <3> QED BY <3>1, <3>2, <3>4 DEF A, B, y
  <2> QED BY <2>1, <2>7
<1>3. U \in P
  <2> HIDE DEF P
  <2> QED BY <1>1, <1>2, SubsetInduction
<1> QED BY <1>3

(***************************************************************************)
(* A sum part by part: f says of each element of S which part of U it      *)
(* belongs to, and b what each part adds up to.                            *)
(***************************************************************************)
PartOf(S, f, j) == {x \in S : f[x] = j}

LEMMA TotalByPart ==
  ASSUME NEW S, IsFiniteSet(S), NEW a, AreInts(a, S),
         NEW U, IsFiniteSet(U), NEW f, \A x \in S : f[x] \in U,
         NEW b, \A j \in U : b[j] = Total(a, PartOf(S, f, j))
  PROVE  Total(a, S) = Total(b, U)
<1> DEFINE Of(s) == {x \in S : f[x] \in s}
<1> DEFINE P == {s \in SUBSET U : Total(a, Of(s)) = Total(b, s)}
<1>1. {} \in P
  <2>1. Of({}) = {}
    OBVIOUS
  <2> QED BY <2>1, TotalNone
<1>a. \A j \in U : IsFiniteSet(PartOf(S, f, j)) /\ AreInts(a, PartOf(S, f, j))
  <2>1. \A j \in U : PartOf(S, f, j) \in SUBSET S
    BY DEF PartOf
  <2> QED BY <2>1, FS_Subset DEF AreInts
<1>b. AreInts(b, U)
  BY <1>a, TotalIsInt DEF AreInts
<1>2. ASSUME NEW s \in SUBSET U, NEW j \in U \ s, s \in P PROVE s \cup {j} \in P
  <2> DEFINE q == PartOf(S, f, j)
  <2> DEFINE r == Of(s)
  <2>1. Of(s \cup {j}) = r \cup q /\ r \cap q = {} /\ r \cup q \in SUBSET S /\ r \in SUBSET S /\ q \in SUBSET S
    BY DEF PartOf
  <2>2. Total(a, r) = Total(b, s)
    BY <1>2
  <2>3. b[j] = Total(a, q)
    OBVIOUS
  <2> HIDE DEF q, r
  <2>4. IsFiniteSet(r) /\ IsFiniteSet(q) /\ AreInts(a, r \cup q) /\ AreInts(a, r) /\ AreInts(a, q)
    BY <2>1, FS_Subset DEF AreInts
  <2>5. Total(a, r \cup q) = Total(a, r) + Total(a, q)
    BY <2>1, <2>4, TotalUnion
  <2>6. IsFiniteSet(s) /\ AreInts(b, s \cup {j})
    BY <1>b, FS_Subset DEF AreInts
  <2>7. Total(b, s \cup {j}) = b[j] + Total(b, s)
    BY <2>6, TotalAdds
  <2>8. Total(a, r) \in Int /\ Total(a, q) \in Int
    BY <2>4, TotalIsInt
  <2>9. Total(a, r \cup q) = Total(b, s \cup {j})
    BY <2>2, <2>3, <2>5, <2>7, <2>8
  <2>10. Total(a, Of(s \cup {j})) = Total(b, s \cup {j}) /\ s \cup {j} \in SUBSET U
    BY <2>1, <2>9
  <2> QED BY <2>10
<1>3. U \in P
  <2> HIDE DEF P
  <2> QED BY <1>1, <1>2, SubsetInduction
<1>4. Of(U) = S
  OBVIOUS
<1> QED BY <1>3, <1>4

(* The same values at other places.                                        *)
LEMMA TotalMoved ==
  ASSUME NEW S, IsFiniteSet(S), NEW a, AreInts(a, S), NEW f, NEW b,
         \A x \in S : a[x] = b[f[x]],
         \A x, y \in S : f[x] = f[y] => x = y
  PROVE  Total(a, S) = Total(b, {f[x] : x \in S})
<1> DEFINE Of(s) == {f[x] : x \in s}
<1> DEFINE P == {s \in SUBSET S : IsFiniteSet(Of(s)) /\ Total(a, s) = Total(b, Of(s))}
<1>1. {} \in P
  <2>1. Of({}) = {}
    OBVIOUS
  <2> QED BY <2>1, TotalNone, FS_EmptySet
<1>2. ASSUME NEW s \in SUBSET S, NEW x \in S \ s, s \in P PROVE s \cup {x} \in P
  <2> DEFINE q == Of(s)
  <2>1. Of(s \cup {x}) = q \cup {f[x]} /\ f[x] \notin q /\ s \cup {x} \in SUBSET S
    OBVIOUS
  <2>2. IsFiniteSet(q) /\ Total(a, s) = Total(b, q)
    BY <1>2
  <2>3. AreInts(b, q \cup {f[x]}) /\ a[x] = b[f[x]]
    BY DEF AreInts
  <2>4. IsFiniteSet(s) /\ AreInts(a, s \cup {x})
    BY FS_Subset DEF AreInts
  <2> HIDE DEF q
  <2>5. Total(b, q \cup {f[x]}) = b[f[x]] + Total(b, q) /\ IsFiniteSet(q \cup {f[x]})
    BY <2>1, <2>2, <2>3, TotalAdds, FS_AddElement
  <2>6. Total(a, s \cup {x}) = a[x] + Total(a, s)
    BY <2>4, TotalAdds
  <2>7. Total(a, s \cup {x}) = Total(b, Of(s \cup {x})) /\ IsFiniteSet(Of(s \cup {x}))
    BY <2>1, <2>2, <2>3, <2>5, <2>6
  <2> QED BY <2>1, <2>7
<1>3. S \in P
  <2> HIDE DEF P
  <2> QED BY <1>1, <1>2, SubsetInduction
<1> QED BY <1>3

-----------------------------------------------------------------------------
(* Columns that are made one from another: C[t][c] is column t behind c.   *)
Maps(C, T, a, b) == \A t \in a .. b : \A c \in [T -> Int] : C[t][c] \in [T -> Int]

Following(cols, n, C, c0, T) ==
  /\ cols \in Cols(T) /\ Len(cols) = n /\ cols[1] = c0
  /\ \A t \in 2 .. n : cols[t] = C[t][cols[t - 1]]

LEMMA ColumnBehind ==
  ASSUME NEW T, NEW n \in Nat \ {0}, NEW C, NEW c0, NEW cols, Following(cols, n, C, c0, T),
         Maps(C, T, 2, n + 1)
  PROVE  Following(Append(cols, C[n + 1][Last(cols)]), n + 1, C, c0, T)
<1> DEFINE c == C[n + 1][Last(cols)]
<1> DEFINE X == [T -> Int]
<1> DEFINE z == Append(cols, c)
<1>0. cols \in Seq(X) /\ cols # <<>> /\ Len(cols) = n /\ cols[1] = c0
  BY DEF Following, Cols
<1>1. Last(cols) = cols[n] /\ Last(cols) \in X
  <2>1. n \in 1 .. n
    OBVIOUS
  <2> HIDE DEF X
  <2> QED BY <1>0, <2>1, ElementOfSeq DEF Last
<1>2. c \in X
  BY <1>1 DEF Maps
<1>a. c = C[n + 1][cols[n]]
  BY <1>1
<1> HIDE DEF c, X
<1>3. z \in Seq(X) /\ Len(z) = n + 1 /\ z[n + 1] = c /\ \A t \in 1 .. n : z[t] = cols[t]
  BY <1>0, <1>2, AppendProperties
<1> HIDE DEF z
<1>4. z \in Cols(T)
  <2>1. z # <<>>
    <3>1. Len(<<>>) = 0
      OBVIOUS
    <3> QED BY <1>3, <3>1
  <2> QED BY <1>3, <2>1 DEF Cols, X
<1>5. z[1] = c0
  BY <1>0, <1>3
<1>6. ASSUME NEW t \in 2 .. n + 1 PROVE z[t] = C[t][z[t - 1]]
  <2>1. t - 1 \in 1 .. n /\ z[t - 1] = cols[t - 1]
    BY <1>3
  <2>2. CASE t = n + 1
    <3>1. t - 1 = n
      BY <2>2
    <3> QED BY <1>3, <1>a, <2>1, <2>2, <3>1
  <2>3. CASE t # n + 1
    <3>1. t \in 2 .. n /\ t \in 1 .. n
      BY <2>3
    <3>2. cols[t] = C[t][cols[t - 1]]
      BY <3>1 DEF Following
    <3> QED BY <1>3, <2>1, <3>1, <3>2
  <2> QED BY <2>2, <2>3
<1>7. Following(z, n + 1, C, c0, T)
  BY <1>3, <1>4, <1>5, <1>6 DEF Following
<1> QED BY <1>7 DEF z, c

(* A recursion that appends a column at every step is the sequence of      *)
(* columns in which each follows from the one before.                      *)
LEMMA FollowingColumns ==
  ASSUME NEW T, NEW n \in Nat, NEW C, Maps(C, T, 2, n + 1), NEW c0 \in [T -> Int],
         NEW g, g[0] = <<c0>>, \A k \in 1 .. n : g[k] = Append(g[k - 1], C[k + 1][Last(g[k - 1])])
  PROVE  Following(g[n], n + 1, C, c0, T)
<1> DEFINE S == {k \in 0 .. n : Following(g[k], k + 1, C, c0, T)}
<1>1. 0 \in S
  <2>1. <<c0>> \in Cols(T) /\ Len(<<c0>>) = 1 /\ <<c0>>[1] = c0
    BY DEF Cols
  <2>2. Following(<<c0>>, 1, C, c0, T)
    BY <2>1 DEF Following
  <2>3. 0 + 1 = 1 /\ 0 \in 0 .. n
    OBVIOUS
  <2>4. Following(g[0], 0 + 1, C, c0, T)
    BY <2>2, <2>3, Zenon
  <2> QED BY <2>3, <2>4, Zenon
<1>2. ASSUME NEW k \in 0 .. n - 1, k \in S PROVE k + 1 \in S
  <2>1. k + 1 \in 1 .. n /\ (k + 1) - 1 = k /\ k + 1 \in Nat \ {0} /\ k + 1 \in 0 .. n
    OBVIOUS
  <2>2. Following(g[k], k + 1, C, c0, T)
    BY <1>2
  <2> DEFINE j == k + 1
  <2>3. g[j] = Append(g[k], C[j + 1][Last(g[k])]) /\ j \in Nat \ {0} /\ j <= n
    BY <2>1
  <2> HIDE DEF j
  <2>4. Maps(C, T, 2, j + 1)
    <3>1. \A t \in 2 .. j + 1 : t \in 2 .. n + 1
      BY <2>3
    <3> QED BY <3>1, Zenon DEF Maps
  <2>5. Following(g[j], j + 1, C, c0, T)
    BY <2>2, <2>3, <2>4, ColumnBehind DEF j
  <2> QED BY <2>1, <2>5 DEF j
<1>3. \A k \in 0 .. n : k \in S
  <2> HIDE DEF S
  <2> QED BY <1>1, <1>2, UpTo
<1>4. n \in 0 .. n
  OBVIOUS
<1> QED BY <1>3, <1>4

(* Two lists of columns that are made in the same way are the same.        *)
LEMMA SameColumns ==
  ASSUME NEW T, NEW n \in Nat \ {0}, NEW C, NEW c0,
         NEW a, Following(a, n, C, c0, T), NEW b, Following(b, n, C, c0, T)
  PROVE  a = b
<1> DEFINE X == [T -> Int]
<1>1. a \in Seq(X) /\ b \in Seq(X) /\ Len(a) = n /\ Len(b) = n
  BY DEF Following, Cols
<1> HIDE DEF X
<1> DEFINE S == {k \in 0 .. n : k # 0 => a[k] = b[k]}
<1>2. 0 \in S
  OBVIOUS
<1>3. ASSUME NEW k \in 0 .. n - 1, k \in S PROVE k + 1 \in S
  <2>1. CASE k = 0
    BY <2>1 DEF Following
  <2>2. CASE k # 0
    <3>1. k + 1 \in 2 .. n /\ (k + 1) - 1 = k
      BY <2>2
    <3>2. a[k + 1] = C[k + 1][a[k]] /\ b[k + 1] = C[k + 1][b[k]]
      BY <3>1 DEF Following
    <3> QED BY <1>3, <2>2, <3>1, <3>2
  <2> QED BY <2>1, <2>2
<1>4. \A k \in 0 .. n : k \in S
  <2> HIDE DEF S
  <2> QED BY <1>2, <1>3, UpTo
<1>5. \A k \in 1 .. n : a[k] = b[k]
  BY <1>4
<1> QED BY <1>1, <1>5, SeqEqual

(* And from behind: C[t][c] is column t in front of c, of l in all.        *)
Preceding(cols, n, C, c0, T, l) ==
  /\ cols \in Cols(T) /\ Len(cols) = n /\ cols[n] = c0
  /\ \A t \in 1 .. n - 1 : cols[t] = C[(l - n) + t][cols[t + 1]]

LEMMA ColumnInFront ==
  ASSUME NEW T, NEW l \in Nat, NEW n \in 1 .. l - 1, NEW C, NEW c0,
         NEW cols, Preceding(cols, n, C, c0, T, l), Maps(C, T, 1, l - 1)
  PROVE  Preceding(<<C[l - n][Head(cols)]>> \o cols, n + 1, C, c0, T, l)
<1> DEFINE c == C[l - n][Head(cols)]
<1> DEFINE X == [T -> Int]
<1> DEFINE z == <<c>> \o cols
<1>0. cols \in Seq(X) /\ cols # <<>> /\ Len(cols) = n /\ cols[n] = c0
  BY DEF Preceding, Cols
<1>1. Head(cols) = cols[1] /\ Head(cols) \in X
  <2>1. 1 \in 1 .. n
    OBVIOUS
  <2> HIDE DEF X
  <2> QED BY <1>0, <2>1, ElementOfSeq
<1>2. c \in X
  <2>1. l - n \in 1 .. l - 1
    OBVIOUS
  <2> QED BY <1>1, <2>1 DEF Maps
<1>a. c = C[l - n][cols[1]]
  BY <1>1
<1> HIDE DEF c, X
<1>b. <<c>> \in Seq(X) /\ Len(<<c>>) = 1 /\ <<c>>[1] = c
  BY <1>2
<1>3. z \in Seq(X) /\ Len(z) = n + 1 /\ z[1] = c /\ \A t \in 2 .. n + 1 : z[t] = cols[t - 1]
  BY <1>0, <1>b, ConcatProperties
<1> HIDE DEF z
<1>4. z \in Cols(T)
  <2>1. z # <<>>
    <3>1. Len(<<>>) = 0
      OBVIOUS
    <3> QED BY <1>3, <3>1
  <2> QED BY <1>3, <2>1 DEF Cols, X
<1>5. z[n + 1] = c0
  <2>1. n + 1 \in 2 .. n + 1 /\ (n + 1) - 1 = n
    OBVIOUS
  <2> QED BY <1>0, <1>3, <2>1
<1>6. ASSUME NEW t \in 1 .. n PROVE z[t] = C[(l - (n + 1)) + t][z[t + 1]]
  <2>1. t + 1 \in 2 .. n + 1 /\ (t + 1) - 1 = t
    OBVIOUS
  <2>a. z[t + 1] = cols[t]
    BY <1>3, <2>1
  <2>2. CASE t = 1
    <3>1. (l - (n + 1)) + t = l - n
      BY <2>2
    <3> QED BY <1>3, <1>a, <2>a, <2>2, <3>1
  <2>3. CASE t # 1
    <3> DEFINE u == t - 1
    <3>1. t \in 2 .. n + 1 /\ u \in 1 .. n - 1 /\ u + 1 = t /\ (l - n) + u = (l - (n + 1)) + t
      BY <2>3
    <3> HIDE DEF u
    <3>2. cols[u] = C[(l - n) + u][cols[u + 1]]
      BY <3>1 DEF Preceding
    <3>3. z[t] = cols[u]
      BY <1>3, <3>1 DEF u
    <3> QED BY <2>a, <3>1, <3>2, <3>3
  <2> QED BY <2>2, <2>3
<1>7. Preceding(z, n + 1, C, c0, T, l)
  <2>1. (n + 1) - 1 = n
    OBVIOUS
  <2> QED BY <1>3, <1>4, <1>5, <1>6, <2>1 DEF Preceding
<1> QED BY <1>7 DEF z, c

(* A recursion that puts a column before the others at every step is the   *)
(* sequence in which each follows from the one after.                      *)
LEMMA PrecedingColumns ==
  ASSUME NEW T, NEW l \in Nat \ {0}, NEW C, Maps(C, T, 1, l - 1), NEW c0 \in [T -> Int],
         NEW g, g[0] = <<c0>>, \A k \in 1 .. l - 1 : g[k] = <<C[l - k][Head(g[k - 1])]>> \o g[k - 1]
  PROVE  Preceding(g[l - 1], l, C, c0, T, l)
<1> DEFINE n == l - 1
<1> DEFINE S == {k \in 0 .. n : Preceding(g[k], k + 1, C, c0, T, l)}
<1>1. 0 \in S
  <2>1. <<c0>> \in Cols(T) /\ Len(<<c0>>) = 1 /\ <<c0>>[1] = c0
    BY DEF Cols
  <2>2. Preceding(<<c0>>, 1, C, c0, T, l)
    BY <2>1 DEF Preceding
  <2> QED BY <2>2
<1>2. ASSUME NEW k \in 0 .. n - 1, k \in S PROVE k + 1 \in S
  <2>1. k + 1 \in 1 .. l - 1 /\ (k + 1) - 1 = k /\ k + 1 \in 0 .. n
    OBVIOUS
  <2>2. Preceding(g[k], k + 1, C, c0, T, l)
    BY <1>2
  <2> DEFINE j == k + 1
  <2>3. g[j] = <<C[l - j][Head(g[k])]>> \o g[k] /\ j \in 1 .. l - 1
    BY <2>1
  <2> HIDE DEF j
  <2>5. Preceding(g[j], j + 1, C, c0, T, l)
    <3>1. Preceding(g[k], j, C, c0, T, l)
      BY <2>2 DEF j
    <3>2. l \in Nat
      OBVIOUS
    <3>3. Preceding(<<C[l - j][Head(g[k])]>> \o g[k], j + 1, C, c0, T, l)
      BY <2>3, <3>1, <3>2, ColumnInFront
    <3> QED BY <2>3, <3>3
  <2> QED BY <2>1, <2>5 DEF j
<1>0. n \in Nat
  OBVIOUS
<1>3. \A k \in 0 .. n : k \in S
  <2> HIDE DEF S, n
  <2> QED BY <1>0, <1>1, <1>2, UpTo
<1>4. n \in 0 .. n /\ n + 1 = l
  BY <1>0
<1>5. Preceding(g[n], n + 1, C, c0, T, l)
  BY <1>3, <1>4
<1> QED BY <1>4, <1>5

(* There is only one such sequence.                                        *)
LEMMA SamePreceding ==
  ASSUME NEW T, NEW n \in Nat \ {0}, NEW C, NEW c0,
         NEW a, Preceding(a, n, C, c0, T, n), NEW b, Preceding(b, n, C, c0, T, n)
  PROVE  a = b
<1> DEFINE X == [T -> Int]
<1>1. a \in Seq(X) /\ b \in Seq(X) /\ Len(a) = n /\ Len(b) = n
  BY DEF Preceding, Cols
<1> HIDE DEF X
<1> DEFINE S == {k \in 0 .. n : k # 0 => a[k] = b[k]}
<1>2. n \in S
  BY DEF Preceding
<1>3. ASSUME NEW k \in 1 .. n, k \in S PROVE k - 1 \in S
  <2>1. CASE k = 1
    BY <2>1
  <2>2. CASE k # 1
    <3> DEFINE u == k - 1
    <3>1. u \in 1 .. n - 1 /\ u + 1 = k /\ (n - n) + u = u /\ u \in 0 .. n
      BY <2>2
    <3> HIDE DEF u
    <3>2. a[u] = C[u][a[k]] /\ b[u] = C[u][b[k]]
      BY <3>1 DEF Preceding
    <3>3. a[k] = b[k]
      BY <1>3
    <3> QED BY <3>1, <3>2, <3>3 DEF u
  <2> QED BY <2>1, <2>2
<1>4. \A k \in 0 .. n : k \in S
  <2> HIDE DEF S
  <2> QED BY <1>2, <1>3, DownFrom
<1>5. \A k \in 1 .. n : a[k] = b[k]
  BY <1>4
<1> QED BY <1>1, <1>5, SeqEqual

-----------------------------------------------------------------------------
(* The weight of a path of n words, word by word.                          *)
PathWeightRun(g, node, edge, path, n) ==
  /\ g \in [0 .. n -> Int] /\ g[0] = 1
  /\ \A t \in 1 .. n : g[t] = g[t - 1] * node[t][path[t]]
                                * (IF t = 1 THEN 1 ELSE edge[<<path[t - 1], path[t]>>])
  /\ PathWeight(node, edge, path) = g[n]

LEMMA PathWeightRuns ==
  ASSUME NEW node, NEW edge, NEW T, Net(node, edge, T),
         NEW n \in 0 .. Len(node), NEW path \in Paths(n, T)
  PROVE  \E g : PathWeightRun(g, node, edge, path, n)
<1>net. NetFacts(node, edge, T)
  BY NetHas
<1> DEFINE op(r, x) == r * node[x][path[x]] * (IF x = 1 THEN 1 ELSE edge[<<path[x - 1], path[x]>>])
<1> DEFINE seq == [k \in DOMAIN path |-> k]
<1> DEFINE base == 1
<1> DEFINE V == Int
<1> DEFINE F == [k \in 1 .. n |-> [v \in V |-> op(v, seq[k])]]
<1>0. n \in Nat /\ DOMAIN path = 1 .. n /\ \A k \in 1 .. n : path[k] \in T
  BY <1>net DEF NetFacts, Paths
<1>1. base \in V
  OBVIOUS
<1>2. \A k \in 1 .. n : \A v \in V : F[k][v] = op(v, seq[k])
  OBVIOUS
<1>3. DOMAIN seq = 1 .. n /\ \A k \in 1 .. n : seq[k] = k
  BY <1>0
<1>4. PathWeight(node, edge, path) = FoldLeft(op, base, seq)
  BY Zenon DEF PathWeight, FoldLeftDomain
<1> HIDE DEF F, seq
<1>5. ASSUME NEW k \in 1 .. n, NEW v \in V PROVE op(v, seq[k]) \in V
  <2>1. seq[k] = k /\ k \in 1 .. Len(node) /\ path[k] \in T
    BY <1>0, <1>3, <1>net DEF NetFacts
  <2> DEFINE y == node[k][path[k]]
  <2> DEFINE z == IF k = 1 THEN 1 ELSE edge[<<path[k - 1], path[k]>>]
  <2>2. y \in Int
    BY <2>1, <1>net DEF NetFacts
  <2>3. z \in Int
    <3>1. CASE k = 1
      BY <3>1
    <3>2. CASE k # 1
      <4>1. k - 1 \in 1 .. n
        BY <1>0, <3>2
      <4>2. path[k - 1] \in T
        BY <1>0, <4>1
      <4> QED BY <2>1, <3>2, <4>2, <1>net DEF NetFacts
    <3> QED BY <3>1, <3>2
  <2>4. op(v, seq[k]) = v * y * z
    BY <2>1
  <2> HIDE DEF y, z, op
  <2> QED BY <2>2, <2>3, <2>4
<1>6. Steps(F, V, 1 .. n)
  <2> HIDE DEF op, V
  <2> QED BY <1>2, <1>5 DEF Steps
<1>7. \E it : it = [z \in SUBSET (1 .. n) |->
                     IF z = {} THEN base ELSE op(it[z \ {Max(z)}], seq[Max(z)])]
  <2>1. PICK it : LeftIteration(it, n, V, base, F)
    BY <1>0, <1>1, <1>6, LeftIterationExists
  <2>2. ASSUME NEW z \in SUBSET (1 .. n), z # {}
        PROVE  it[z] = op(it[z \ {Max(z)}], seq[Max(z)])
    <3>1. Max(z) \in 1 .. n /\ it[z \ {Max(z)}] \in V /\ it[z] = F[Max(z)][it[z \ {Max(z)}]]
      BY <2>1, <2>2 DEF LeftIteration
    <3> HIDE DEF V, op
    <3> QED BY <1>2, <3>1
  <2>3. it \in [SUBSET (1 .. n) -> V] /\ it[{}] = base
    BY <2>1 DEF LeftIteration
  <2> HIDE DEF V, op, base
  <2> QED BY <2>2, <2>3
<1>8. PICK it :
        /\ it = [z \in SUBSET (1 .. n) |->
                   IF z = {} THEN base ELSE op(it[z \ {Max(z)}], seq[Max(z)])]
        /\ PathWeight(node, edge, path) = it[1 .. n]
  <2> HIDE DEF op, base
  <2> QED BY <1>3, <1>4, <1>7 DEF FoldLeft, MapThenFoldSet
<1>9. LeftFold(it, n, V, base, F)
  <2>1. it[{}] = base
    BY <1>8
  <2>2. ASSUME NEW z \in SUBSET (1 .. n), z # {}, it[z \ {Max(z)}] \in V
        PROVE  it[z] = F[Max(z)][it[z \ {Max(z)}]]
    <3>1. it[z] = op(it[z \ {Max(z)}], seq[Max(z)]) /\ Max(z) \in 1 .. n
      BY <1>0, <1>8, <2>2, LargestOf
    <3> HIDE DEF V, op
    <3> QED BY <1>2, <2>2, <3>1
  <2> HIDE DEF V, base
  <2> QED BY <2>1, <2>2 DEF LeftFold
<1>10. PICK g : LeftRun(g, n, V, base, F) /\ g[n] = it[1 .. n]
  <2> HIDE DEF op, V, base
  <2> QED BY <1>0, <1>1, <1>6, <1>9, LeftRuns
<1>11. ASSUME NEW k \in 1 .. n PROVE g[k] = op(g[k - 1], k)
  <2>1. g[k] = F[k][g[k - 1]] /\ k - 1 \in 0 .. n /\ g \in [0 .. n -> V] /\ seq[k] = k
    BY <1>0, <1>3, <1>10 DEF LeftRun
  <2> HIDE DEF V, op
  <2> QED BY <1>2, <2>1
<1>12. g \in [0 .. n -> V] /\ g[0] = base
  BY <1>10 DEF LeftRun
<1> QED BY <1>8, <1>10, <1>11, <1>12 DEF PathWeightRun

(* A path, and one more word.                                              *)
Longer(q, t, j) == [k \in 1 .. t + 1 |-> IF k = t + 1 THEN j ELSE q[k]]

LEMMA PathWeighs ==
  ASSUME NEW node, NEW edge, NEW T, Net(node, edge, T),
         NEW n \in 0 .. Len(node), NEW path \in Paths(n, T)
  PROVE  /\ PathWeight(node, edge, path) \in Int
         /\ n = 1 => PathWeight(node, edge, path) = node[1][path[1]]
<1>net. NetFacts(node, edge, T)
  BY NetHas
<1>1. PICK g : PathWeightRun(g, node, edge, path, n)
  BY PathWeightRuns
<1>2. n \in Nat /\ n \in 0 .. n
  BY <1>net DEF NetFacts
<1>3. g[n] \in Int
  BY <1>1, <1>2 DEF PathWeightRun
<1>4. ASSUME n = 1 PROVE g[n] = node[1][path[1]]
  <2>1. g[1] = g[0] * node[1][path[1]] * 1 /\ g[0] = 1
    BY <1>1, <1>4 DEF PathWeightRun
  <2>2. node[1][path[1]] \in Int
    <3>1. path[1] \in T
      BY <1>4 DEF Paths
    <3> QED BY <3>1, <1>net, <1>4 DEF NetFacts
  <2> DEFINE y == node[1][path[1]]
  <2>3. y \in Int /\ g[1] = 1 * y * 1
    BY <2>1, <2>2
  <2> HIDE DEF y
  <2>4. g[1] = y
    BY <2>3
  <2> QED BY <1>4, <2>4 DEF y
<1> QED BY <1>1, <1>3, <1>4 DEF PathWeightRun

(* A path that is longer by a word weighs as much more as the word and the *)
(* transition to it.                                                       *)
LEMMA LongerWeighs ==
  ASSUME NEW node, NEW edge, NEW T, Net(node, edge, T),
         NEW t \in 1 .. Len(node) - 1, NEW q \in Paths(t, T), NEW j \in T
  PROVE  /\ Longer(q, t, j) \in Paths(t + 1, T)
         /\ PathWeight(node, edge, Longer(q, t, j))
              = PathWeight(node, edge, q) * node[t + 1][j] * edge[<<q[t], j>>]
<1>net. NetFacts(node, edge, T)
  BY NetHas
<1> DEFINE n == t + 1
<1> DEFINE p == Longer(q, t, j)
<1>0. Len(node) \in Nat /\ t \in 0 .. Len(node) /\ n \in 0 .. Len(node) /\ t \in Nat
  BY <1>net DEF NetFacts
<1>1. q \in [1 .. t -> T]
  BY DEF Paths
<1>2. p \in Paths(n, T) /\ p[n] = j /\ \A k \in 1 .. t : p[k] = q[k]
  BY <1>0, <1>1 DEF Longer, Paths
<1> HIDE DEF p
<1>3. PICK g : PathWeightRun(g, node, edge, q, t)
  BY <1>0, PathWeightRuns
<1>4. PICK h : PathWeightRun(h, node, edge, p, n)
  <2> HIDE DEF n
  <2> QED BY <1>0, <1>2, PathWeightRuns
<1> DEFINE S == {k \in 0 .. t : g[k] = h[k]}
<1>5. 0 \in S
  BY <1>0, <1>3, <1>4 DEF PathWeightRun
<1>6. ASSUME NEW k \in 0 .. t - 1, k \in S PROVE k + 1 \in S
  <2> DEFINE u == k + 1
  <2>1. u \in 1 .. t /\ u - 1 = k /\ u \in 1 .. n /\ u \in 0 .. t /\ (u # 1 => u - 1 \in 1 .. t)
    BY <1>0
  <2> HIDE DEF u, n
  <2>2. g[u] = g[u - 1] * node[u][q[u]] * (IF u = 1 THEN 1 ELSE edge[<<q[u - 1], q[u]>>])
    BY <1>3, <2>1 DEF PathWeightRun
  <2>3. h[u] = h[u - 1] * node[u][p[u]] * (IF u = 1 THEN 1 ELSE edge[<<p[u - 1], p[u]>>])
    BY <1>4, <2>1 DEF PathWeightRun
  <2>4. p[u] = q[u] /\ (u # 1 => p[u - 1] = q[u - 1]) /\ g[u - 1] = h[u - 1]
    BY <1>2, <1>6, <2>1
  <2>5. g[u] = h[u]
    BY <2>2, <2>3, <2>4
  <2> QED BY <2>1, <2>5 DEF u
<1>7. \A k \in 0 .. t : k \in S
  <2> HIDE DEF S
  <2> QED BY <1>0, <1>5, <1>6, UpTo
<1>8. g[t] = h[t]
  BY <1>0, <1>7
<1>9. h[n] = h[t] * node[n][j] * edge[<<q[t], j>>]
  <2>1. n \in 1 .. n /\ n - 1 = t /\ n # 1 /\ t \in 1 .. t
    BY <1>0
  <2> HIDE DEF n
  <2>2. h[n] = h[n - 1] * node[n][p[n]] * edge[<<p[n - 1], p[n]>>]
    BY <1>4, <2>1 DEF PathWeightRun
  <2> QED BY <1>2, <2>1, <2>2
<1> QED BY <1>2, <1>3, <1>4, <1>8, <1>9 DEF PathWeightRun, p

-----------------------------------------------------------------------------
(* There are finitely many paths.                                          *)
LEMMA PathsAreFinite ==
  ASSUME NEW T, IsFiniteSet(T), NEW n \in Nat
  PROVE  IsFiniteSet(Paths(n, T))
<1> DEFINE S == {k \in Nat : IsFiniteSet(Paths(k, T))}
<1>1. 0 \in S
  <2> DEFINE e == [x \in 1 .. 0 |-> x]
  <2>1. Paths(0, T) = {e}
    <3>1. 1 .. 0 = {}
      OBVIOUS
    <3>2. ASSUME NEW p \in Paths(0, T) PROVE p = e
      <4>1. p = [x \in {} |-> p[x]]
        BY <3>1 DEF Paths
      <4>2. e = [x \in {} |-> p[x]]
        BY <3>1
      <4> QED BY <4>1, <4>2, Zenon
    <3>3. e \in Paths(0, T)
      BY <3>1 DEF Paths
    <3> HIDE DEF e
    <3> QED BY <3>2, <3>3
  <2> HIDE DEF e
  <2> QED BY <2>1, FS_Singleton
<1>2. ASSUME NEW k \in Nat, k \in S PROVE k + 1 \in S
  <2> DEFINE A == Paths(k + 1, T)
  <2> DEFINE B == Paths(k, T) \X T
  <2> DEFINE f == [p \in A |-> <<[i \in 1 .. k |-> p[i]], p[k + 1]>>]
  <2>1. f \in [A -> B]
    <3>1. ASSUME NEW p \in A PROVE f[p] \in B
      BY DEF Paths
    <3> QED BY <3>1
  <2>2. ASSUME NEW p \in A, NEW q \in A, f[p] = f[q] PROVE p = q
    <3> DEFINE a == [i \in 1 .. k |-> p[i]]
    <3> DEFINE b == [i \in 1 .. k |-> q[i]]
    <3>1. a = b /\ p[k + 1] = q[k + 1]
      BY <2>2
    <3>2. \A i \in 1 .. k : a[i] = p[i] /\ b[i] = q[i]
      OBVIOUS
    <3>3. \A i \in 1 .. k : p[i] = q[i]
      <4> HIDE DEF a, b
      <4> QED BY <3>1, <3>2
    <3>4. \A i \in 1 .. k + 1 : p[i] = q[i]
      BY <3>1, <3>3
    <3>5. p \in [1 .. k + 1 -> T] /\ q \in [1 .. k + 1 -> T]
      BY DEF Paths
    <3> QED BY <3>4, <3>5
  <2> HIDE DEF f
  <2>3. f \in Injection(A, B)
    BY <2>1, <2>2 DEF Injection, IsInjective
  <2>4. IsFiniteSet(B)
    BY <1>2, FS_Product
  <2> HIDE DEF A, B
  <2>5. IsFiniteSet(A)
    BY <2>3, <2>4, FS_Injection
  <2> QED BY <2>5 DEF A
<1>3. Nat \subseteq S
  <2> HIDE DEF S
  <2> QED BY <1>1, <1>2, NatSetInduction
<1> QED BY <1>3

(* The sum of one value.                                                   *)
LEMMA TotalOne ==
  ASSUME NEW v, NEW x, v[x] \in Int
  PROVE  Total(v, {x}) = v[x]
<1>1. IsFiniteSet({}) /\ x \notin {} /\ {x} = {} \cup {x}
  BY FS_EmptySet
<1>2. AreInts(v, {} \cup {x})
  BY DEF AreInts
<1>3. Total(v, {} \cup {x}) = v[x] + Total(v, {})
  BY <1>1, <1>2, TotalAdds
<1> QED BY <1>1, <1>3, TotalNone

(* The sum of a column.                                                    *)
LEMMA SumIsTotal ==
  ASSUME NEW S, NEW v \in [S -> Int]
  PROVE  VectorSum(v) = Total(v, S)
<1>1. v = [x \in S |-> v[x]]
  OBVIOUS
<1> QED BY <1>1 DEF Total

-----------------------------------------------------------------------------
(* The columns of Forward and Backward, made one from another.             *)
ForwardMap(node, edge, T) ==
  [t \in 2 .. Len(node) |-> [c \in [T -> Int] |-> ForwardColumn(c, node, edge, t)]]

BackwardMap(node, edge, T) ==
  [t \in 1 .. Len(node) - 1 |-> [c \in [T -> Int] |-> BackwardColumn(c, node, edge, t)]]

Ones(T) == [i \in T |-> 1]

LEMMA ForwardFollows ==
  ASSUME NEW node, NEW edge, NEW T, Net(node, edge, T)
  PROVE  Following(Forward(node, edge), Len(node), ForwardMap(node, edge, T), node[1], T)
<1>net. NetFacts(node, edge, T)
  BY NetHas
<1> DEFINE C == ForwardMap(node, edge, T)
<1> DEFINE n == Len(node) - 1
<1>0. n \in Nat /\ Len(node) = n + 1 /\ node[1] \in [T -> Int]
  BY <1>net DEF NetFacts
<1>1. \A t \in 2 .. Len(node) : \A c \in [T -> Int] :
        C[t][c] = ForwardColumn(c, node, edge, t) /\ C[t][c] \in [T -> Int]
  BY ForwardColumnIs DEF ForwardMap
<1> HIDE DEF C
<1>2. Maps(C, T, 2, n + 1)
  BY <1>0, <1>1 DEF Maps
<1>3. PICK g : ForwardRun(g, T, node, edge)
  BY ForwardRuns
<1>4. g \in [0 .. n -> Cols(T)] /\ g[0] = <<node[1]>> /\ Forward(node, edge) = g[n]
  BY <1>3 DEF ForwardRun
<1>5. ASSUME NEW k \in 1 .. n PROVE g[k] = Append(g[k - 1], C[k + 1][Last(g[k - 1])])
  <2>1. k - 1 \in 0 .. n /\ g[k - 1] \in Cols(T) /\ k + 1 \in 2 .. Len(node)
    BY <1>0, <1>4
  <2>2. Last(g[k - 1]) \in [T -> Int]
    BY <1>0, <2>1, ColumnJoins
  <2>3. g[k] = Append(g[k - 1], ForwardColumn(Last(g[k - 1]), node, edge, k + 1))
    BY <1>3 DEF ForwardRun
  <2> QED BY <1>1, <2>1, <2>2, <2>3
<1> HIDE DEF n
<1>6. Following(g[n], n + 1, C, node[1], T)
  BY <1>0, <1>2, <1>4, <1>5, FollowingColumns
<1> QED BY <1>0, <1>4, <1>6 DEF C

(* The backward sums are computed from the last word to the first          *)
(* (VanillaCRF: Backward).                                                 *)
LEMMA BackwardPrecedes ==
  ASSUME NEW node, NEW edge, NEW T, Net(node, edge, T)
  PROVE  Preceding(Backward(node, edge), Len(node), BackwardMap(node, edge, T), Ones(T), T, Len(node))
<1>net. NetFacts(node, edge, T)
  BY NetHas
<1> DEFINE C == BackwardMap(node, edge, T)
<1> DEFINE l == Len(node)
<1>0. l \in Nat \ {0} /\ DOMAIN node[1] = T /\ l - 1 \in Nat
  BY <1>net DEF NetFacts
<1>1. \A t \in 1 .. l - 1 : \A c \in [T -> Int] :
        C[t][c] = BackwardColumn(c, node, edge, t) /\ C[t][c] \in [T -> Int]
  BY BackwardColumnIs DEF BackwardMap
<1> HIDE DEF C
<1>2. Maps(C, T, 1, l - 1)
  BY <1>1 DEF Maps
<1>3. PICK g : BackwardRun(g, T, node, edge)
  BY BackwardRuns
<1>4. g \in [0 .. l - 1 -> Cols(T)] /\ g[0] = <<Ones(T)>> /\ Backward(node, edge) = g[l - 1]
  BY <1>0, <1>3 DEF BackwardRun, Ones
<1>a. Ones(T) \in [T -> Int]
  BY DEF Ones
<1>5. ASSUME NEW k \in 1 .. l - 1 PROVE g[k] = <<C[l - k][Head(g[k - 1])]>> \o g[k - 1]
  <2>1. k - 1 \in 0 .. l - 1 /\ g[k - 1] \in Cols(T) /\ l - k \in 1 .. l - 1
    BY <1>0, <1>4
  <2>2. Head(g[k - 1]) \in [T -> Int]
    BY <1>a, <2>1, ColumnJoins
  <2>3. g[k] = <<BackwardColumn(Head(g[k - 1]), node, edge, l - k)>> \o g[k - 1]
    BY <1>3 DEF BackwardRun
  <2> QED BY <1>1, <2>1, <2>2, <2>3
<1> HIDE DEF l
<1>6. Preceding(g[l - 1], l, C, Ones(T), T, l)
  BY <1>0, <1>a, <1>2, <1>4, <1>5, PrecedingColumns
<1> QED BY <1>4, <1>6 DEF C, l

-----------------------------------------------------------------------------
(***************************************************************************)
(* What the paths through the first t words weigh; those which end in i;   *)
(* and those through n words that begin with q.                            *)
(***************************************************************************)
Weighing(node, edge, t, T) == [q \in Paths(t, T) |-> PathWeight(node, edge, q)]
EndingIn(t, T, i) == {q \in Paths(t, T) : q[t] = i}
Extending(q, t, n, T) == {p \in Paths(n, T) : \A k \in 1 .. t : p[k] = q[k]}

LEMMA WeighingIs ==
  ASSUME NEW node, NEW edge, NEW T, Net(node, edge, T), NEW t \in 0 .. Len(node)
  PROVE  /\ IsFiniteSet(Paths(t, T)) /\ AreInts(Weighing(node, edge, t, T), Paths(t, T))
         /\ \A P \in SUBSET Paths(t, T) : IsFiniteSet(P) /\ AreInts(Weighing(node, edge, t, T), P)
<1>1. Len(node) \in Nat /\ t \in Nat
  BY NetHas DEF NetFacts
<1>2. IsFiniteSet(Paths(t, T))
  BY <1>1, PathsAreFinite DEF Net
<1>3. \A q \in Paths(t, T) : PathWeight(node, edge, q) \in Int
  BY PathWeighs
<1>4. \A q \in Paths(t, T) : Weighing(node, edge, t, T)[q] \in Int
  BY <1>3 DEF Weighing
<1> QED BY <1>2, <1>4, FS_Subset DEF AreInts

(* The paths of P with label j at word t.                                  *)
Through(P, t, j) == {p \in P : p[t] = j}

Lengthened(P, t, i) == {Longer(q, t, i) : q \in P}

(* All paths of one word more that end in i are made of paths that end in  *)
(* any j.                                                                  *)
LEMMA LongerEnd ==
  ASSUME NEW T, NEW t \in Nat \ {0}, NEW i \in T, NEW j \in T
  PROVE  Through(EndingIn(t + 1, T, i), t, j) = Lengthened(EndingIn(t, T, j), t, i)
<1> DEFINE A == {p \in EndingIn(t + 1, T, i) : p[t] = j}
<1> DEFINE B == {Longer(q, t, i) : q \in EndingIn(t, T, j)}
<1>1. ASSUME NEW p \in A PROVE p \in B
  <2> DEFINE q == [k \in 1 .. t |-> p[k]]
  <2>1. p \in [1 .. t + 1 -> T] /\ p[t + 1] = i /\ p[t] = j
    BY DEF EndingIn, Paths
  <2>2. q \in EndingIn(t, T, j)
    BY <2>1 DEF EndingIn, Paths
  <2>3. Longer(q, t, i) = [k \in 1 .. t + 1 |-> p[k]]
    BY <2>1 DEF Longer
  <2>4. p = Longer(q, t, i)
    BY <2>1, <2>3
  <2> HIDE DEF q
  <2> QED BY <2>2, <2>4
<1>2. ASSUME NEW p \in B PROVE p \in A
  <2>1. PICK q \in EndingIn(t, T, j) : p = Longer(q, t, i)
    OBVIOUS
  <2>2. q \in [1 .. t -> T] /\ q[t] = j
    BY DEF EndingIn, Paths
  <2>3. p \in [1 .. t + 1 -> T] /\ p[t + 1] = i /\ p[t] = j
    BY <2>1, <2>2 DEF Longer
  <2> QED BY <2>3 DEF EndingIn, Paths
<1>3. A = B
  <2> HIDE DEF A, B
  <2> QED BY <1>1, <1>2
<1> QED BY <1>3 DEF Through, Lengthened

(* Different paths stay different when a word is added.                    *)
LEMMA LongerDiffer ==
  ASSUME NEW T, NEW t \in Nat, NEW i, NEW p \in Paths(t, T), NEW q \in Paths(t, T),
         Longer(p, t, i) = Longer(q, t, i)
  PROVE  p = q
<1>1. p \in [1 .. t -> T] /\ q \in [1 .. t -> T]
  BY DEF Paths
<1>2. ASSUME NEW k \in 1 .. t PROVE p[k] = q[k]
  <2>1. Longer(p, t, i)[k] = p[k] /\ Longer(q, t, i)[k] = q[k]
    BY DEF Longer
  <2> QED BY <2>1
<1> QED BY <1>1, <1>2

(* One word forwards.                                                      *)
LEMMA ForwardSumsOn ==
  ASSUME NEW node, NEW edge, NEW T, Net(node, edge, T), NEW t \in 1 .. Len(node) - 1,
         NEW prev \in [T -> Int],
         \A j \in T : Total(Weighing(node, edge, t, T), EndingIn(t, T, j)) = prev[j],
         NEW i \in T
  PROVE  Total(Weighing(node, edge, t + 1, T), EndingIn(t + 1, T, i))
           = ForwardColumn(prev, node, edge, t + 1)[i]
<1>net. NetFacts(node, edge, T)
  BY NetHas
<1> DEFINE n == t + 1
<1> DEFINE w == Weighing(node, edge, t, T)
<1> DEFINE v == Weighing(node, edge, n, T)
<1> DEFINE S == EndingIn(n, T, i)
<1> DEFINE f == [p \in S |-> p[t]]
<1> DEFINE x == node[n][i]
<1> DEFINE c == [j \in T |-> edge[<<j, i>>] * prev[j]]
<1> DEFINE b == [j \in T |-> x * c[j]]
<1>0. /\ Len(node) \in Nat /\ t \in Nat \ {0} /\ t \in 0 .. Len(node) /\ n \in 0 .. Len(node)
      /\ n \in 1 .. Len(node) /\ t \in 1 .. n /\ DOMAIN node[1] = T
  BY <1>net DEF NetFacts
<1>1. x \in Int /\ \A j \in T : edge[<<j, i>>] \in Int /\ prev[j] \in Int
  BY <1>0, <1>net DEF NetFacts
<1>2. IsFiniteSet(T) /\ IsFiniteSet(S) /\ AreInts(v, S)
  <2>1. S \in SUBSET Paths(n, T)
    BY DEF EndingIn
  <2> HIDE DEF S, n
  <2> QED BY <1>0, <2>1, WeighingIs DEF Net
<1>3. \A p \in S : f[p] \in T
  BY <1>0 DEF EndingIn, Paths
<1>4. ASSUME NEW j \in T PROVE b[j] = Total(v, PartOf(S, f, j))
  <2> DEFINE Q == EndingIn(t, T, j)
  <2> DEFINE L == [q \in Paths(t, T) |-> Longer(q, t, i)]
  <2> DEFINE a == [q \in Q |-> v[L[q]]]
  <2> DEFINE e == edge[<<j, i>>]
  <2>1. Q \in SUBSET Paths(t, T) /\ \A q \in Q : q[t] = j
    BY DEF EndingIn
  <2>2. IsFiniteSet(Q) /\ AreInts(w, Q)
    <3> HIDE DEF Q
    <3> QED BY <1>0, <2>1, WeighingIs
  <2>3. PartOf(S, f, j) = {L[q] : q \in Q}
    <3>1. PartOf(S, f, j) = Through(EndingIn(t + 1, T, i), t, j)
      BY DEF PartOf, Through
    <3>2. Through(EndingIn(t + 1, T, i), t, j) = Lengthened(Q, t, i)
      <4>1. t \in Nat \ {0}
        BY <1>0
      <4> QED BY <4>1, LongerEnd, Zenon
    <3>3. Lengthened(Q, t, i) = {L[q] : q \in Q}
      BY <2>1 DEF Lengthened
    <3> QED BY <3>1, <3>2, <3>3
  <2>4. ASSUME NEW q \in Q PROVE a[q] = (x * e) * w[q]
    <3>1. q \in Paths(t, T) /\ q[t] = j
      BY <2>1
    <3>2. Longer(q, t, i) \in Paths(t + 1, T)
      BY <3>1, LongerWeighs
    <3>3. PathWeight(node, edge, Longer(q, t, i)) = PathWeight(node, edge, q) * node[t + 1][i] * edge[<<q[t], i>>]
      BY <3>1, LongerWeighs
    <3>4. a[q] = PathWeight(node, edge, Longer(q, t, i)) /\ w[q] = PathWeight(node, edge, q)
      BY <3>1, <3>2 DEF Weighing
    <3>5. PathWeight(node, edge, q) \in Int
      BY <1>0, <3>1, PathWeighs
    <3> DEFINE y == PathWeight(node, edge, q)
    <3>6. a[q] = y * x * e /\ w[q] = y /\ y \in Int /\ e \in Int
      BY <1>1, <3>1, <3>3, <3>4, <3>5
    <3> HIDE DEF y, a, x, e, w
    <3> QED BY <1>1, <3>6 DEF x
  <2>5. \A p, q \in Q : L[p] = L[q] => p = q
    <3>1. ASSUME NEW p \in Q, NEW q \in Q, L[p] = L[q] PROVE p = q
      <4>1. p \in Paths(t, T) /\ q \in Paths(t, T)
        BY <2>1
      <4>2. Longer(p, t, i) = Longer(q, t, i)
        BY <3>1, <4>1
      <4> QED BY <1>0, <4>1, <4>2, LongerDiffer
    <3> QED BY <3>1
  <2>6. \A q \in Q : a[q] = v[L[q]]
    OBVIOUS
  <2>7. e \in Int /\ x * e \in Int
    BY <1>1
  <2>8. AreInts(a, Q)
    <3> HIDE DEF a, w, x, e, Q
    <3>1. \A q \in Q : w[q] \in Int
      BY <2>2 DEF AreInts
    <3> QED BY <1>1, <2>4, <2>7, <3>1 DEF AreInts
  <2>9. Total(a, Q) = Total(v, {L[q] : q \in Q})
    <3> HIDE DEF a, v, L, Q
    <3> QED BY <2>2, <2>5, <2>6, <2>8, TotalMoved
  <2>10. Total(a, Q) = (x * e) * Total(w, Q)
    <3> DEFINE z == x * e
    <3>1. z \in Int /\ \A q \in Q : a[q] = z * w[q]
      BY <2>4, <2>7
    <3> HIDE DEF a, w, Q, z
    <3>2. Total(a, Q) = z * Total(w, Q)
      BY <2>2, <3>1, TotalTimes
    <3> QED BY <3>2 DEF z
  <2>11. Total(w, Q) = prev[j]
    OBVIOUS
  <2>12. b[j] = x * (e * prev[j])
    OBVIOUS
  <2>13. (x * e) * prev[j] = x * (e * prev[j])
    <3> DEFINE y == prev[j]
    <3>1. y \in Int
      OBVIOUS
    <3> HIDE DEF x, e, y
    <3>2. (x * e) * y = x * (e * y)
      BY <1>1, <2>7, <3>1
    <3> QED BY <3>2 DEF y
  <2> HIDE DEF a, v, w, L, Q, b, x, e
  <2> QED BY <2>3, <2>9, <2>10, <2>11, <2>12, <2>13
<1>5. Total(v, S) = Total(b, T)
  <2> HIDE DEF v, S, f, b
  <2> QED BY <1>2, <1>3, <1>4, TotalByPart
<1>6. c \in [T -> Int] /\ AreInts(c, T) /\ \A j \in T : b[j] = x * c[j]
  <2>1. \A j \in T : edge[<<j, i>>] * prev[j] \in Int
    BY <1>1
  <2> QED BY <2>1 DEF AreInts
<1>7. Total(b, T) = x * Total(c, T)
  <2> HIDE DEF b, c, x
  <2> QED BY <1>1, <1>2, <1>6, TotalTimes
<1>8. VectorSum(c) = Total(c, T)
  BY <1>6, SumIsTotal
<1>9. ForwardColumn(prev, node, edge, n)[i] = x * VectorSum(c)
  BY <1>0 DEF ForwardColumn
<1> QED BY <1>5, <1>7, <1>8, <1>9

(***************************************************************************)
(* Forward adds up the paths that end in a label.                          *)
(***************************************************************************)
LEMMA ForwardSums ==
  ASSUME NEW node, NEW edge, NEW T, Net(node, edge, T), NEW t \in 1 .. Len(node), NEW i \in T
  PROVE  Total(Weighing(node, edge, t, T), EndingIn(t, T, i)) = Forward(node, edge)[t][i]
<1>net. NetFacts(node, edge, T)
  BY NetHas
<1> DEFINE n == Len(node)
<1> DEFINE alpha == Forward(node, edge)
<1> DEFINE Good(u) == \A j \in T : Total(Weighing(node, edge, u, T), EndingIn(u, T, j)) = alpha[u][j]
<1> DEFINE S == {u \in 0 .. n : u # 0 => Good(u)}
<1>0. n \in Nat \ {0} /\ 1 \in 0 .. n /\ 1 \in 1 .. n
  BY <1>net DEF NetFacts
<1>1. Following(alpha, n, ForwardMap(node, edge, T), node[1], T)
  BY ForwardFollows
<1>2. \A u \in 1 .. n : alpha[u] \in [T -> Int]
  <2>1. alpha \in Cols(T) /\ Len(alpha) = n
    BY <1>1 DEF Following
  <2>2. node[1] \in [T -> Int]
    BY <1>net DEF NetFacts
  <2> HIDE DEF alpha
  <2> QED BY <2>1, <2>2, ColumnJoins
<1>3. Good(1)
  <2>1. ASSUME NEW j \in T PROVE Total(Weighing(node, edge, 1, T), EndingIn(1, T, j)) = alpha[1][j]
    <3> DEFINE e == [k \in 1 .. 1 |-> j]
    <3> DEFINE w == Weighing(node, edge, 1, T)
    <3>1. e \in Paths(1, T) /\ e[1] = j
      BY DEF Paths
    <3>2. EndingIn(1, T, j) = {e}
      <4>1. ASSUME NEW p \in EndingIn(1, T, j) PROVE p = e
        BY DEF EndingIn, Paths
      <4>2. e \in EndingIn(1, T, j)
        BY <3>1 DEF EndingIn
      <4> HIDE DEF e
      <4> QED BY <4>1, <4>2
    <3> HIDE DEF e
    <3>3. w[e] = PathWeight(node, edge, e)
      BY <3>1 DEF Weighing
    <3>4. PathWeight(node, edge, e) \in Int /\ PathWeight(node, edge, e) = node[1][j]
      <4> DEFINE m == 1
      <4>1. m \in 0 .. Len(node) /\ e \in Paths(m, T) /\ m = 1
        BY <1>0, <3>1
      <4> HIDE DEF m
      <4>2. PathWeight(node, edge, e) \in Int /\ (m = 1 => PathWeight(node, edge, e) = node[1][e[1]])
        BY <4>1, PathWeighs
      <4> QED BY <3>1, <4>1, <4>2
    <3>5. Total(w, {e}) = w[e]
      BY <3>3, <3>4, TotalOne
    <3>6. alpha[1] = node[1]
      BY <1>1 DEF Following
    <3> QED BY <3>2, <3>3, <3>4, <3>5, <3>6
  <2> QED BY <2>1
<1>4. ASSUME NEW u \in 0 .. n - 1, u \in S PROVE u + 1 \in S
  <2>1. CASE u = 0
    BY <1>0, <1>3, <2>1
  <2>2. CASE u # 0
    <3>1. u \in 1 .. Len(node) - 1 /\ u \in 1 .. n /\ u + 1 \in 2 .. n /\ (u + 1) - 1 = u /\ u + 1 \in 0 .. n
      BY <1>0, <2>2
    <3> DEFINE prev == alpha[u]
    <3>2. prev \in [T -> Int] /\ \A j \in T : Total(Weighing(node, edge, u, T), EndingIn(u, T, j)) = prev[j]
      BY <1>2, <1>4, <2>2, <3>1
    <3>3. alpha[u + 1] = ForwardColumn(prev, node, edge, u + 1)
      <4>1. alpha[u + 1] = ForwardMap(node, edge, T)[u + 1][alpha[u]]
        BY <1>1, <3>1 DEF Following
      <4> QED BY <3>1, <3>2, <4>1 DEF ForwardMap
    <3> HIDE DEF prev, alpha, n
    <3>4. \A j \in T : Total(Weighing(node, edge, u + 1, T), EndingIn(u + 1, T, j)) = ForwardColumn(prev, node, edge, u + 1)[j]
      BY <3>1, <3>2, ForwardSumsOn
    <3>5. Good(u + 1)
      BY <3>3, <3>4
    <3> QED BY <3>1, <3>5
  <2> QED BY <2>1, <2>2
<1>5. \A u \in 0 .. n : u \in S
  <2>1. 0 \in S /\ n \in Nat
    BY <1>0
  <2> HIDE DEF S, n
  <2> QED BY <1>4, <2>1, UpTo
<1>6. Good(t)
  <2>1. t \in 0 .. n /\ t # 0
    BY <1>0
  <2> HIDE DEF Good
  <2> QED BY <1>5, <2>1
<1> QED BY <1>6

(* The forward sums have a column of whole numbers for every word.         *)
LEMMA ForwardHas ==
  ASSUME NEW node, NEW edge, NEW T, Net(node, edge, T)
  PROVE  /\ Forward(node, edge) \in Cols(T) /\ Len(Forward(node, edge)) = Len(node)
         /\ DOMAIN Forward(node, edge) = 1 .. Len(node)
         /\ \A t \in 1 .. Len(node) : Forward(node, edge)[t] \in [T -> Int]
<1>1. Forward(node, edge) \in Cols(T) /\ Len(Forward(node, edge)) = Len(node)
  BY ForwardFollows DEF Following
<1>2. node[1] \in [T -> Int]
  BY NetHas DEF NetFacts
<1> DEFINE cols == Forward(node, edge)
<1> HIDE DEF cols
<1>3. cols \in Cols(T) /\ Len(cols) = Len(node)
  BY <1>1 DEF cols
<1>4. \A t \in 1 .. Len(node) : cols[t] \in [T -> Int]
  BY <1>2, <1>3, ColumnJoins
<1>5. DOMAIN cols = 1 .. Len(node)
  BY <1>3 DEF Cols
<1> QED BY <1>3, <1>4, <1>5 DEF cols

(* So have the backward sums.                                              *)
LEMMA BackwardHas ==
  ASSUME NEW node, NEW edge, NEW T, Net(node, edge, T)
  PROVE  /\ Backward(node, edge) \in Cols(T) /\ Len(Backward(node, edge)) = Len(node)
         /\ \A t \in 1 .. Len(node) : Backward(node, edge)[t] \in [T -> Int]
<1>1. Backward(node, edge) \in Cols(T) /\ Len(Backward(node, edge)) = Len(node)
  BY BackwardPrecedes DEF Preceding
<1>2. node[1] \in [T -> Int]
  BY NetHas DEF NetFacts
<1> DEFINE cols == Backward(node, edge)
<1> HIDE DEF cols
<1>3. cols \in Cols(T) /\ Len(cols) = Len(node)
  BY <1>1 DEF cols
<1>4. \A t \in 1 .. Len(node) : cols[t] \in [T -> Int]
  BY <1>2, <1>3, ColumnJoins
<1> QED BY <1>3, <1>4 DEF cols

(* The paths that begin with q, by the label that follows.                 *)
LEMMA ExtendingOn ==
  ASSUME NEW T, NEW n \in Nat, NEW t \in 1 .. n - 1, NEW q \in Paths(t, T), NEW j \in T
  PROVE  Through(Extending(q, t, n, T), t + 1, j) = Extending(Longer(q, t, j), t + 1, n, T)
<1> DEFINE m == Longer(q, t, j)
<1>1. t + 1 \in 1 .. n /\ t \in 1 .. t
  OBVIOUS
<1>2. m[t + 1] = j /\ \A k \in 1 .. t : m[k] = q[k]
  BY DEF Longer
<1> HIDE DEF m
<1>3. ASSUME NEW p, p \in Through(Extending(q, t, n, T), t + 1, j)
      PROVE  p \in Extending(m, t + 1, n, T)
  <2>1. p \in Paths(n, T) /\ p[t + 1] = j /\ \A k \in 1 .. t : p[k] = q[k]
    BY <1>3 DEF Through, Extending
  <2>2. \A k \in 1 .. t + 1 : k = t + 1 \/ k \in 1 .. t
    OBVIOUS
  <2>3. \A k \in 1 .. t + 1 : p[k] = m[k]
    BY <1>2, <2>1, <2>2
  <2> QED BY <2>1, <2>3 DEF Extending
<1>4. ASSUME NEW p, p \in Extending(m, t + 1, n, T)
      PROVE  p \in Through(Extending(q, t, n, T), t + 1, j)
  <2>1. p \in Paths(n, T) /\ \A k \in 1 .. t + 1 : p[k] = m[k]
    BY <1>4 DEF Extending
  <2>2. t + 1 \in 1 .. t + 1 /\ \A k \in 1 .. t : k \in 1 .. t + 1
    OBVIOUS
  <2>3. p[t + 1] = j /\ \A k \in 1 .. t : p[k] = q[k]
    BY <1>2, <2>1, <2>2
  <2> QED BY <2>1, <2>3 DEF Through, Extending
<1> QED BY <1>3, <1>4 DEF m

(* One word backwards.                                                     *)
LEMMA BackwardSumsOn ==
  ASSUME NEW node, NEW edge, NEW T, Net(node, edge, T), NEW t \in 1 .. Len(node) - 1,
         NEW q \in Paths(t, T), NEW next \in [T -> Int],
         \A j \in T : Total(Weighing(node, edge, Len(node), T),
                            Extending(Longer(q, t, j), t + 1, Len(node), T))
                        = PathWeight(node, edge, Longer(q, t, j)) * next[j]
  PROVE  Total(Weighing(node, edge, Len(node), T), Extending(q, t, Len(node), T))
           = PathWeight(node, edge, q) * BackwardColumn(next, node, edge, t)[q[t]]
<1>net. NetFacts(node, edge, T)
  BY NetHas
<1> DEFINE n == Len(node)
<1> DEFINE v == Weighing(node, edge, n, T)
<1> DEFINE S == Extending(q, t, n, T)
<1> DEFINE f == [p \in S |-> p[t + 1]]
<1> DEFINE W == PathWeight(node, edge, q)
<1> DEFINE i == q[t]
<1> DEFINE c == [j \in T |-> edge[<<i, j>>] * node[t + 1][j] * next[j]]
<1> DEFINE b == [j \in T |-> W * c[j]]
<1>0. /\ n \in Nat /\ n \in 0 .. Len(node) /\ t \in 0 .. Len(node) /\ t + 1 \in 1 .. n
      /\ DOMAIN node[1] = T /\ i \in T
  <2>1. t \in 1 .. t /\ Len(node) \in Nat
    BY <1>net DEF NetFacts
  <2>2. q[t] \in T
    BY <2>1 DEF Paths
  <2> QED BY <2>1, <2>2, <1>net DEF NetFacts
<1>1. W \in Int
  BY <1>0, PathWeighs
<1>2. \A j \in T : edge[<<i, j>>] \in Int /\ node[t + 1][j] \in Int /\ next[j] \in Int
  BY <1>0, <1>net DEF NetFacts
<1>3. IsFiniteSet(T) /\ IsFiniteSet(S) /\ AreInts(v, S)
  <2>1. S \in SUBSET Paths(n, T)
    BY DEF Extending
  <2> HIDE DEF S, n
  <2> QED BY <1>0, <2>1, WeighingIs DEF Net
<1>4. \A p \in S : f[p] \in T
  <2>1. ASSUME NEW p \in S PROVE p[t + 1] \in T
    <3>1. p \in [1 .. n -> T]
      BY DEF Extending, Paths
    <3> QED BY <1>0, <3>1
  <2> QED BY <2>1
<1>5. ASSUME NEW j \in T PROVE b[j] = Total(v, PartOf(S, f, j))
  <2> DEFINE e == edge[<<i, j>>]
  <2> DEFINE y == node[t + 1][j]
  <2>1. PartOf(S, f, j) = Extending(Longer(q, t, j), t + 1, n, T)
    <3>1. PartOf(S, f, j) = Through(S, t + 1, j)
      BY DEF PartOf, Through
    <3>2. t \in 1 .. n - 1
      OBVIOUS
    <3> HIDE DEF n
    <3>3. Through(Extending(q, t, n, T), t + 1, j) = Extending(Longer(q, t, j), t + 1, n, T)
      BY <1>0, <3>2, ExtendingOn
    <3> QED BY <3>1, <3>3
  <2>2. PathWeight(node, edge, Longer(q, t, j)) = W * y * e
    BY LongerWeighs
  <2>3. Total(v, PartOf(S, f, j)) = (W * y * e) * next[j]
    BY <2>1, <2>2
  <2>4. b[j] = W * (e * y * next[j])
    OBVIOUS
  <2> DEFINE x == next[j]
  <2>5. x \in Int /\ e \in Int /\ y \in Int
    BY <1>2
  <2> HIDE DEF x, e, y, W
  <2>6. (W * y * e) * x = W * (e * y * x)
    BY <1>1, <2>5
  <2> HIDE DEF b, v, S, f
  <2> QED BY <2>3, <2>4, <2>6 DEF x
<1>6. Total(v, S) = Total(b, T)
  <2> HIDE DEF v, S, f, b
  <2> QED BY <1>3, <1>4, <1>5, TotalByPart
<1>7. c \in [T -> Int] /\ AreInts(c, T) /\ \A j \in T : b[j] = W * c[j]
  <2>1. ASSUME NEW j \in T PROVE edge[<<i, j>>] * node[t + 1][j] * next[j] \in Int
    <3>1. edge[<<i, j>>] * node[t + 1][j] \in Int
      BY <1>2, ProductIsInt
    <3> QED BY <1>2, <3>1, ProductIsInt
  <2> QED BY <2>1 DEF AreInts
<1>8. Total(b, T) = W * Total(c, T)
  <2> HIDE DEF b, c, W
  <2> QED BY <1>1, <1>3, <1>7, TotalTimes
<1>9. VectorSum(c) = Total(c, T)
  BY <1>7, SumIsTotal
<1>10. BackwardColumn(next, node, edge, t)[i] = VectorSum(c)
  BY <1>0 DEF BackwardColumn
<1> HIDE DEF b, c, v, S
<1>11. Total(v, S) = W * BackwardColumn(next, node, edge, t)[i]
  BY <1>6, <1>8, <1>9, <1>10
<1> QED BY <1>11 DEF v, S

(***************************************************************************)
(* Backward adds up how paths go on from a label.                          *)
(***************************************************************************)
LEMMA BackwardSums ==
  ASSUME NEW node, NEW edge, NEW T, Net(node, edge, T), NEW t \in 1 .. Len(node),
         NEW q \in Paths(t, T)
  PROVE  Total(Weighing(node, edge, Len(node), T), Extending(q, t, Len(node), T))
           = PathWeight(node, edge, q) * Backward(node, edge)[t][q[t]]
<1>net. NetFacts(node, edge, T)
  BY NetHas
<1> DEFINE n == Len(node)
<1> DEFINE beta == Backward(node, edge)
<1> DEFINE v == Weighing(node, edge, n, T)
<1> DEFINE Good(u) == \A p \in Paths(u, T) :
                        Total(v, Extending(p, u, n, T)) = PathWeight(node, edge, p) * beta[u][p[u]]
<1> DEFINE S == {u \in 0 .. n : u # 0 => Good(u)}
<1>0. n \in Nat \ {0} /\ n \in 1 .. n /\ n \in 0 .. n
  BY <1>net DEF NetFacts
<1>1. Preceding(beta, n, BackwardMap(node, edge, T), Ones(T), T, n)
  BY BackwardPrecedes
<1>2. \A u \in 1 .. n : beta[u] \in [T -> Int]
  BY BackwardHas
<1>3. Good(n)
  <2>1. ASSUME NEW p \in Paths(n, T)
        PROVE  Total(v, Extending(p, n, n, T)) = PathWeight(node, edge, p) * beta[n][p[n]]
    <3>1. Extending(p, n, n, T) = {p}
      <4>1. ASSUME NEW o \in Extending(p, n, n, T) PROVE o = p
        BY DEF Extending, Paths
      <4>2. p \in Extending(p, n, n, T)
        BY DEF Extending
      <4> QED BY <4>1, <4>2
    <3>2. v[p] = PathWeight(node, edge, p)
      BY DEF Weighing
    <3>3. PathWeight(node, edge, p) \in Int
      BY <1>0, PathWeighs
    <3>4. Total(v, {p}) = v[p]
      BY <3>2, <3>3, TotalOne
    <3>5. beta[n] = Ones(T)
      BY <1>1 DEF Preceding
    <3>6. p[n] \in T
      BY <1>0 DEF Paths
    <3>7. beta[n][p[n]] = 1
      BY <3>5, <3>6 DEF Ones
    <3> DEFINE W == PathWeight(node, edge, p)
    <3>8. W \in Int
      BY <3>3
    <3>9. W * 1 = W
      <4> HIDE DEF W
      <4> QED BY <3>8
    <3> HIDE DEF v, beta, n
    <3> QED BY <3>1, <3>2, <3>4, <3>7, <3>9
  <2> QED BY <2>1
<1>4. ASSUME NEW u \in 1 .. n, u \in S PROVE u - 1 \in S
  <2>1. CASE u = 1
    <3>1. u - 1 = 0 /\ 0 \in 0 .. n
      BY <1>0, <2>1
    <3> HIDE DEF Good
    <3> QED BY <3>1
  <2>2. CASE u # 1
    <3> DEFINE w == u - 1
    <3> DEFINE next == beta[u]
    <3>1. w \in 1 .. n - 1 /\ w + 1 = u /\ w \in 0 .. n /\ w # 0 /\ (n - n) + w = w
      BY <1>0, <2>2
    <3> HIDE DEF w
    <3>2. next \in [T -> Int]
      BY <1>2
    <3>3. beta[w] = BackwardColumn(next, node, edge, w)
      <4>1. beta[w] = BackwardMap(node, edge, T)[w][beta[w + 1]]
        BY <1>1, <3>1 DEF Preceding
      <4> QED BY <3>1, <3>2, <4>1 DEF BackwardMap
    <3>4. ASSUME NEW p \in Paths(w, T)
          PROVE  Total(v, Extending(p, w, n, T)) = PathWeight(node, edge, p) * beta[w][p[w]]
      <4>1. ASSUME NEW j \in T
            PROVE  Total(v, Extending(Longer(p, w, j), w + 1, n, T))
                     = PathWeight(node, edge, Longer(p, w, j)) * next[j]
        <5> DEFINE o == Longer(p, w, j)
        <5>1. o \in Paths(w + 1, T)
          BY <3>1, LongerWeighs
        <5>2. o[w + 1] = j
          BY <3>1 DEF Longer
        <5> HIDE DEF o
        <5>3. Total(v, Extending(o, u, n, T)) = PathWeight(node, edge, o) * beta[u][o[u]]
          BY <1>4, <3>1, <5>1
        <5> HIDE DEF v, n
        <5> QED BY <3>1, <5>2, <5>3 DEF o
      <4> HIDE DEF next, beta
      <4>2. Total(Weighing(node, edge, Len(node), T), Extending(p, w, Len(node), T))
              = PathWeight(node, edge, p) * BackwardColumn(next, node, edge, w)[p[w]]
        BY <3>1, <3>2, <4>1, BackwardSumsOn
      <4> QED BY <3>3, <4>2
    <3> HIDE DEF v, n, beta
    <3> QED BY <3>1, <3>4 DEF w
  <2> QED BY <2>1, <2>2
<1>5. \A u \in 0 .. n : u \in S
  <2>1. n \in S /\ n \in Nat
    BY <1>0, <1>3
  <2> HIDE DEF S, n
  <2> QED BY <1>4, <2>1, DownFrom
<1>6. Good(t)
  <2>1. t \in 0 .. n /\ t # 0
    BY <1>0
  <2> HIDE DEF Good
  <2> QED BY <1>5, <2>1
<1> QED BY <1>6

(* The sum over some paths through the whole chain.                        *)
LEMMA SumOverIs ==
  ASSUME NEW node, NEW edge, NEW T, NEW n, NEW P \in SUBSET Paths(n, T)
  PROVE  SumOver(P, node, edge) = Total(Weighing(node, edge, n, T), P)
<1>1. [p \in P |-> PathWeight(node, edge, p)] = [p \in P |-> Weighing(node, edge, n, T)[p]]
  BY DEF Weighing
<1> QED BY <1>1, Zenon DEF SumOver, Total

(***************************************************************************)
(* The paths through a label, part by part: each part has one beginning.   *)
(***************************************************************************)
LEMMA NodeSums ==
  ASSUME NEW node, NEW edge, NEW T, Net(node, edge, T), NEW t \in 1 .. Len(node), NEW i \in T
  PROVE  SumOver(Through(Paths(Len(node), T), t, i), node, edge)
           = Forward(node, edge)[t][i] * Backward(node, edge)[t][i]
<1>net. NetFacts(node, edge, T)
  BY NetHas
<1> DEFINE n == Len(node)
<1> DEFINE v == Weighing(node, edge, n, T)
<1> DEFINE w == Weighing(node, edge, t, T)
<1> DEFINE S == Through(Paths(n, T), t, i)
<1> DEFINE U == EndingIn(t, T, i)
<1> DEFINE f == [p \in S |-> [k \in 1 .. t |-> p[k]]]
<1> DEFINE z == Backward(node, edge)[t][i]
<1> DEFINE b == [q \in U |-> z * w[q]]
<1>0. n \in Nat /\ n \in 0 .. Len(node) /\ t \in 0 .. Len(node) /\ t \in 1 .. t
  BY <1>net DEF NetFacts
<1>1. S \in SUBSET Paths(n, T) /\ U \in SUBSET Paths(t, T)
  BY DEF Through, EndingIn
<1>2. IsFiniteSet(S) /\ AreInts(v, S) /\ IsFiniteSet(U) /\ AreInts(w, U)
  <2> HIDE DEF S, U, n
  <2> QED BY <1>0, <1>1, WeighingIs
<1>3. z \in Int
  BY BackwardHas
<1>4. \A p \in S : f[p] \in U
  <2>1. ASSUME NEW p \in S PROVE [k \in 1 .. t |-> p[k]] \in U
    <3>1. p \in [1 .. n -> T] /\ p[t] = i
      BY DEF Through, Paths
    <3> QED BY <1>0, <3>1 DEF EndingIn, Paths
  <2> QED BY <2>1
<1>5. ASSUME NEW q \in U PROVE b[q] = Total(v, PartOf(S, f, q))
  <2>1. q \in [1 .. t -> T] /\ q[t] = i /\ q \in Paths(t, T)
    BY DEF EndingIn, Paths
  <2>2. PartOf(S, f, q) = Extending(q, t, n, T)
    <3>1. ASSUME NEW p, p \in PartOf(S, f, q) PROVE p \in Extending(q, t, n, T)
      <4>1. p \in Paths(n, T) /\ [k \in 1 .. t |-> p[k]] = q
        BY <3>1 DEF PartOf, Through
      <4> QED BY <4>1 DEF Extending
    <3>2. ASSUME NEW p, p \in Extending(q, t, n, T) PROVE p \in PartOf(S, f, q)
      <4>1. p \in Paths(n, T) /\ \A k \in 1 .. t : p[k] = q[k]
        BY <3>2 DEF Extending
      <4>2. p \in S
        BY <1>0, <2>1, <4>1 DEF Through
      <4>3. f[p] = q
        <5>1. [k \in 1 .. t |-> p[k]] = q
          BY <2>1, <4>1
        <5> QED BY <4>2, <5>1
      <4> HIDE DEF S, f
      <4> QED BY <4>2, <4>3 DEF PartOf
    <3> HIDE DEF S, f
    <3> QED BY <3>1, <3>2
  <2>3. Total(v, Extending(q, t, n, T)) = PathWeight(node, edge, q) * Backward(node, edge)[t][q[t]]
    BY <2>1, BackwardSums
  <2>4. w[q] = PathWeight(node, edge, q) /\ w[q] \in Int
    BY <1>2, <2>1 DEF Weighing, AreInts
  <2> DEFINE y == w[q]
  <2>5. y * z = z * y
    <3>1. y \in Int
      BY <2>4
    <3> HIDE DEF y, z
    <3> QED BY <1>3, <3>1
  <2>6. b[q] = z * y
    OBVIOUS
  <2>7. Total(v, PartOf(S, f, q)) = y * z
    BY <2>1, <2>2, <2>3, <2>4
  <2> HIDE DEF v, S, f, b, y, z
  <2> QED BY <2>5, <2>6, <2>7
<1>6. Total(v, S) = Total(b, U)
  <2> HIDE DEF v, S, f, b, U
  <2> QED BY <1>2, <1>4, <1>5, TotalByPart
<1>7. Total(b, U) = z * Total(w, U)
  <2>1. \A q \in U : b[q] = z * w[q]
    OBVIOUS
  <2> HIDE DEF z, w, b, U
  <2> QED BY <1>2, <1>3, <2>1, TotalTimes
<1>8. Total(w, U) = Forward(node, edge)[t][i]
  BY ForwardSums
<1>9. Forward(node, edge)[t][i] \in Int
  BY ForwardHas
<1>10. SumOver(S, node, edge) = Total(v, S)
  <2> HIDE DEF S
  <2> QED BY <1>1, SumOverIs
<1> DEFINE a == Forward(node, edge)[t][i]
<1>11. z * a = a * z
  <2>1. a \in Int
    BY <1>9
  <2> HIDE DEF a, z
  <2> QED BY <1>3, <2>1
<1>12. SumOver(S, node, edge) = a * z
  <2> HIDE DEF S, v, b, U, w, z
  <2> QED BY <1>6, <1>7, <1>8, <1>10, <1>11
<1> QED BY <1>12

(* The paths of P with the labels of e at word t and the next.             *)
Crossing(P, t, e) == {p \in P : <<p[t], p[t + 1]>> = e}

LEMMA EdgeSums ==
  ASSUME NEW node, NEW edge, NEW T, Net(node, edge, T), NEW t \in 1 .. Len(node) - 1,
         NEW e \in T \X T
  PROVE  SumOver(Crossing(Paths(Len(node), T), t, e), node, edge)
           = Forward(node, edge)[t][e[1]] * edge[e] * node[t + 1][e[2]]
               * Backward(node, edge)[t + 1][e[2]]
<1>net. NetFacts(node, edge, T)
  BY NetHas
<1> DEFINE n == Len(node)
<1> DEFINE i == e[1]
<1> DEFINE j == e[2]
<1> DEFINE v == Weighing(node, edge, n, T)
<1> DEFINE w == Weighing(node, edge, t, T)
<1> DEFINE S == Crossing(Paths(n, T), t, e)
<1> DEFINE U == EndingIn(t, T, i)
<1> DEFINE f == [p \in S |-> [k \in 1 .. t |-> p[k]]]
<1> DEFINE b1 == Backward(node, edge)[t + 1][j]
<1> DEFINE y1 == node[t + 1][j]
<1> DEFINE e1 == edge[e]
<1> DEFINE z == e1 * y1 * b1
<1> DEFINE b == [q \in U |-> z * w[q]]
<1>0. /\ n \in Nat /\ n \in 0 .. Len(node) /\ t \in 0 .. Len(node) /\ t \in 1 .. t
      /\ t + 1 \in 1 .. n /\ t \in 1 .. n /\ i \in T /\ j \in T /\ e = <<i, j>>
  BY <1>net DEF NetFacts
<1>1. S \in SUBSET Paths(n, T) /\ U \in SUBSET Paths(t, T)
  BY DEF Crossing, EndingIn
<1>2. IsFiniteSet(S) /\ AreInts(v, S) /\ IsFiniteSet(U) /\ AreInts(w, U)
  <2> HIDE DEF S, U, n
  <2> QED BY <1>0, <1>1, WeighingIs
<1>3. b1 \in Int /\ y1 \in Int /\ e1 \in Int /\ z \in Int
  <2>1. b1 \in Int /\ y1 \in Int
    BY <1>0, <1>net, BackwardHas DEF NetFacts
  <2>2. e1 \in Int
    BY DEF Net
  <2> HIDE DEF b1, y1, e1
  <2>3. e1 * y1 \in Int
    BY <2>1, <2>2, ProductIsInt
  <2> QED BY <2>1, <2>2, <2>3, ProductIsInt
<1>4. \A p \in S : f[p] \in U
  <2>1. ASSUME NEW p \in S PROVE [k \in 1 .. t |-> p[k]] \in U
    <3>1. p \in [1 .. n -> T] /\ p[t] = i
      BY <1>0 DEF Crossing, Paths
    <3> QED BY <1>0, <3>1 DEF EndingIn, Paths
  <2> QED BY <2>1
<1>5. ASSUME NEW q \in U PROVE b[q] = Total(v, PartOf(S, f, q))
  <2> DEFINE m == Longer(q, t, j)
  <2>1. q \in [1 .. t -> T] /\ q[t] = i /\ q \in Paths(t, T)
    BY DEF EndingIn, Paths
  <2>m. m \in Paths(t + 1, T) /\ m[t + 1] = j /\ \A k \in 1 .. t : m[k] = q[k]
    <3>1. m \in Paths(t + 1, T)
      BY <1>0, <2>1, LongerWeighs
    <3>2. m[t + 1] = j /\ \A k \in 1 .. t : m[k] = q[k]
      BY <1>0 DEF Longer
    <3> QED BY <3>1, <3>2
  <2>w. PathWeight(node, edge, m) = PathWeight(node, edge, q) * y1 * e1
    <3>1. PathWeight(node, edge, m) = PathWeight(node, edge, q) * node[t + 1][j] * edge[<<q[t], j>>]
      BY <1>0, <2>1, LongerWeighs
    <3> QED BY <1>0, <2>1, <3>1
  <2> HIDE DEF m
  <2>2. PartOf(S, f, q) = Extending(m, t + 1, n, T)
    <3>1. ASSUME NEW p, p \in PartOf(S, f, q) PROVE p \in Extending(m, t + 1, n, T)
      <4>1. p \in Paths(n, T) /\ [k \in 1 .. t |-> p[k]] = q /\ <<p[t], p[t + 1]>> = e
        BY <3>1 DEF PartOf, Crossing
      <4>2. \A k \in 1 .. t : p[k] = m[k]
        BY <2>m, <4>1
      <4>3. p[t + 1] = m[t + 1]
        BY <1>0, <2>m, <4>1
      <4>4. \A k \in 1 .. t + 1 : k = t + 1 \/ k \in 1 .. t
        OBVIOUS
      <4>5. \A k \in 1 .. t + 1 : p[k] = m[k]
        BY <4>2, <4>3, <4>4
      <4> QED BY <4>1, <4>5 DEF Extending
    <3>2. ASSUME NEW p, p \in Extending(m, t + 1, n, T) PROVE p \in PartOf(S, f, q)
      <4>1. p \in Paths(n, T) /\ \A k \in 1 .. t + 1 : p[k] = m[k]
        BY <3>2 DEF Extending
      <4>a. t + 1 \in 1 .. t + 1 /\ \A k \in 1 .. t : k \in 1 .. t + 1
        BY <1>0
      <4>b. p[t + 1] = j /\ \A k \in 1 .. t : p[k] = q[k]
        BY <2>m, <4>1, <4>a
      <4>2. p \in S
        BY <1>0, <2>1, <4>1, <4>b DEF Crossing
      <4>3. f[p] = q
        <5>1. [k \in 1 .. t |-> p[k]] = q
          BY <2>1, <4>b
        <5> QED BY <4>2, <5>1
      <4> HIDE DEF S, f
      <4> QED BY <4>2, <4>3 DEF PartOf
    <3> HIDE DEF S, f
    <3> QED BY <3>1, <3>2
  <2>3. Total(v, Extending(m, t + 1, n, T)) = PathWeight(node, edge, m) * b1
    <3> DEFINE u == t + 1
    <3>1. u \in 1 .. Len(node) /\ m \in Paths(u, T) /\ m[u] = j
      BY <1>0, <2>m
    <3> HIDE DEF u
    <3>2. Total(v, Extending(m, u, n, T)) = PathWeight(node, edge, m) * Backward(node, edge)[u][m[u]]
      BY <3>1, BackwardSums
    <3> QED BY <3>1, <3>2 DEF u
  <2>4. w[q] = PathWeight(node, edge, q) /\ w[q] \in Int
    BY <1>2, <2>1 DEF Weighing, AreInts
  <2> DEFINE y == w[q]
  <2>5. (y * y1 * e1) * b1 = z * y
    <3>1. y \in Int
      BY <2>4
    <3> HIDE DEF y, b1, y1, e1
    <3> QED BY <1>3, <3>1
  <2>6. b[q] = z * y
    OBVIOUS
  <2>7. Total(v, PartOf(S, f, q)) = (y * y1 * e1) * b1
    <3> HIDE DEF v, S, f, b1, y1, e1, w
    <3> QED BY <2>2, <2>3, <2>4, <2>w
  <2> HIDE DEF v, S, f, b, y, z
  <2> QED BY <2>5, <2>6, <2>7
<1>6. Total(v, S) = Total(b, U)
  <2> HIDE DEF v, S, f, b, U
  <2> QED BY <1>2, <1>4, <1>5, TotalByPart
<1>7. Total(b, U) = z * Total(w, U)
  <2>1. \A q \in U : b[q] = z * w[q]
    OBVIOUS
  <2> HIDE DEF z, w, b, U
  <2> QED BY <1>2, <1>3, <2>1, TotalTimes
<1>8. Total(w, U) = Forward(node, edge)[t][i]
  <2> HIDE DEF i
  <2> QED BY <1>0, ForwardSums
<1> DEFINE a == Forward(node, edge)[t][i]
<1>9. a \in Int
  BY <1>0, ForwardHas
<1>10. SumOver(S, node, edge) = Total(v, S)
  <2> HIDE DEF S
  <2> QED BY <1>1, SumOverIs
<1>11. z * a = a * e1 * y1 * b1
  <2> HIDE DEF a, e1, y1, b1
  <2> QED BY <1>3, <1>9
<1>12. SumOver(S, node, edge) = a * e1 * y1 * b1
  <2> HIDE DEF S, v, b, U, w, z, e1, y1, b1
  <2> QED BY <1>6, <1>7, <1>8, <1>10, <1>11
<1> QED BY <1>12 DEF S

(***************************************************************************)
(* ProbNode and ProbEdge are sums over all paths through a word, and over  *)
(* all places where an edge may be.                                        *)
(***************************************************************************)
LEMMA ProbNodeIs ==
  ASSUME NEW node, NEW edge, NEW T, Net(node, edge, T)
  PROVE  ProbNode(Forward(node, edge), Backward(node, edge))
           = [t \in 1 .. Len(node) |-> [i \in T |->
                SumOver({p \in Paths(Len(node), T) : p[t] = i}, node, edge)]]
<1> DEFINE alpha == Forward(node, edge)
<1> DEFINE beta == Backward(node, edge)
<1>1. DOMAIN alpha = 1 .. Len(node) /\ \A t \in 1 .. Len(node) : DOMAIN alpha[t] = T
  BY ForwardHas
<1>2. ASSUME NEW t \in 1 .. Len(node), NEW i \in T
      PROVE  alpha[t][i] * beta[t][i] = SumOver({p \in Paths(Len(node), T) : p[t] = i}, node, edge)
  BY NodeSums DEF Through
<1> HIDE DEF alpha, beta
<1>3. ProbNode(alpha, beta) = [t \in 1 .. Len(node) |-> [i \in T |-> alpha[t][i] * beta[t][i]]]
  BY <1>1 DEF ProbNode
<1>4. ProbNode(alpha, beta)
        = [t \in 1 .. Len(node) |-> [i \in T |->
             SumOver({p \in Paths(Len(node), T) : p[t] = i}, node, edge)]]
  BY <1>2, <1>3
<1> QED BY <1>4 DEF alpha, beta

(* The forward sums, the transition and the backward sums make the sum     *)
(* over the paths that take the transition, added up over the words        *)
(* (VanillaCRF: Infer).                                                    *)
LEMMA ProbEdgeIs ==
  ASSUME NEW node, NEW edge, NEW T, Net(node, edge, T), NEW known \in SUBSET (T \X T)
  PROVE  ProbEdge(node, edge, Forward(node, edge), Backward(node, edge), known)
           = [e \in known |-> VectorSum([t \in 1 .. Len(node) - 1 |->
                SumOver({p \in Paths(Len(node), T) : <<p[t], p[t + 1]>> = e}, node, edge)])]
<1> DEFINE alpha == Forward(node, edge)
<1> DEFINE beta == Backward(node, edge)
<1> DEFINE A(e) == [t \in 1 .. Len(node) - 1 |->
                     alpha[t][e[1]] * edge[e] * node[t + 1][e[2]] * beta[t + 1][e[2]]]
<1> DEFINE B(e) == [t \in 1 .. Len(node) - 1 |->
                     SumOver({p \in Paths(Len(node), T) : <<p[t], p[t + 1]>> = e}, node, edge)]
<1>1. ASSUME NEW e \in known PROVE VectorSum(A(e)) = VectorSum(B(e))
  <2>1. e \in T \X T
    OBVIOUS
  <2>2. \A t \in 1 .. Len(node) - 1 :
          SumOver({p \in Paths(Len(node), T) : <<p[t], p[t + 1]>> = e}, node, edge)
            = alpha[t][e[1]] * edge[e] * node[t + 1][e[2]] * beta[t + 1][e[2]]
    BY <2>1, EdgeSums DEF Crossing
  <2>3. A(e) = B(e)
    BY <2>2
  <2> QED BY <2>3, Zenon
<1>2. ProbEdge(node, edge, alpha, beta, known) = [e \in known |-> VectorSum(A(e))]
  BY DEF ProbEdge
<1> HIDE DEF A, B, alpha, beta
<1>3. ProbEdge(node, edge, alpha, beta, known) = [e \in known |-> VectorSum(B(e))]
  BY <1>1, <1>2
<1> QED BY <1>3 DEF alpha, beta, B

(* Where a is 1, the sum of b stands for the products.                     *)
Multiplies(T, a, b, J, c) ==
  /\ IsFiniteSet(T) /\ J \in SUBSET T
  /\ a \in [T -> Int] /\ b \in [T -> Int] /\ c \in [T -> Int]
  /\ \A j \in T \ J : a[j] = One
  /\ \A j \in T : c[j] = a[j] * b[j]

LEMMA SparseProduct ==
  ASSUME NEW T, NEW a, NEW b, NEW J, NEW c, Multiplies(T, a, b, J, c)
  PROVE  SparseVectorDotProduct(a, b, J, One) + One * VectorSum(b) = VectorSum(c)
<1>m. /\ IsFiniteSet(T) /\ J \in SUBSET T
      /\ a \in [T -> Int] /\ b \in [T -> Int] /\ c \in [T -> Int]
      /\ \A j \in T \ J : a[j] = One
      /\ \A j \in T : c[j] = a[j] * b[j]
  BY DEF Multiplies
<1> DEFINE d == [j \in T |-> (a[j] - One) * b[j]]
<1> DEFINE o == [j \in T |-> One * b[j]]
<1> DEFINE U == T \ J
<1>0. One \in Int /\ IsFiniteSet(J) /\ IsFiniteSet(U) /\ J \cap U = {} /\ J \cup U = T
  <2>1. J \in SUBSET T /\ U \in SUBSET T
    BY <1>m
  <2>2. IsFiniteSet(J) /\ IsFiniteSet(U)
    BY <1>m, <2>1, FS_Subset, Zenon
  <2> QED BY <1>m, <2>2, OneIsInt
<1>1. \A j \in T : a[j] \in Int /\ b[j] \in Int /\ c[j] \in Int
  BY <1>m
<1>2. ASSUME NEW j \in T
      PROVE  d[j] \in Int /\ o[j] \in Int /\ c[j] = d[j] + o[j] /\ (a[j] = One => d[j] = 0)
  <2> DEFINE x == a[j]
  <2> DEFINE y == b[j]
  <2>1. d[j] = (x - One) * y /\ o[j] = One * y /\ c[j] = x * y /\ x \in Int /\ y \in Int
    BY <1>1, <1>m
  <2> HIDE DEF x, y, d, o
  <2>2. (x - One) * y \in Int /\ One * y \in Int
    <3>1. x - One \in Int
      BY <1>0, <2>1
    <3> QED BY <1>0, <2>1, <3>1, ProductIsInt
  <2>3. x * y = (x - One) * y + One * y
    BY <1>0, <2>1
  <2>4. x = One => (x - One) * y = 0
    BY <1>0, <2>1
  <2> QED BY <2>1, <2>2, <2>3, <2>4 DEF x
<1>3. AreInts(d, T) /\ AreInts(o, T) /\ AreInts(b, T) /\ AreInts(d, J) /\ AreInts(d, U)
  <2> HIDE DEF d, o
  <2> QED BY <1>1, <1>2, <1>m DEF AreInts
<1>4. \A j \in U : d[j] = 0
  <2> HIDE DEF d
  <2> QED BY <1>2, <1>m
<1>5. SparseVectorDotProduct(a, b, J, One) = Total(d, J)
  <2>1. [j \in J |-> (a[j] - One) * b[j]] = [j \in J |-> d[j]]
    BY <1>m
  <2> QED BY <2>1, Zenon DEF SparseVectorDotProduct, Total
<1>6. \A j \in T : o[j] = One * b[j]
  OBVIOUS
<1> HIDE DEF d, o, U
<1>7. Total(d, U) = 0
  BY <1>0, <1>4, TotalZero
<1>8. Total(d, T) = Total(d, J) + Total(d, U)
  BY <1>0, <1>3, TotalUnion
<1>9. Total(o, T) = One * Total(b, T)
  BY <1>0, <1>3, <1>6, <1>m, TotalTimes
<1>10. Total(c, T) = Total(d, T) + Total(o, T)
  BY <1>2, <1>3, <1>m, TotalPlus
<1>11. VectorSum(c) = Total(c, T) /\ VectorSum(b) = Total(b, T)
  BY <1>m, SumIsTotal
<1>12. Total(d, J) \in Int /\ Total(b, T) \in Int
  BY <1>0, <1>3, <1>m, TotalIsInt
<1>13. Total(d, T) = Total(d, J)
  BY <1>7, <1>8, <1>12
<1> QED BY <1>5, <1>9, <1>10, <1>11, <1>13

(* The transitions that are not visited have the potential 1.              *)
OneOutside(edge, sparse, T) == \A e \in (T \X T) \ sparse : edge[e] = One

LEMMA SparseForwardOn ==
  ASSUME NEW node, NEW edge, NEW T, Net(node, edge, T), NEW sparse, OneOutside(edge, sparse, T),
         NEW prev \in [T -> Int], NEW t \in 2 .. Len(node)
  PROVE  SparseForwardColumn(prev, node, edge, sparse, t) = ForwardColumn(prev, node, edge, t)
<1>net. NetFacts(node, edge, T)
  BY NetHas
<1>0. DOMAIN node[1] = T /\ IsFiniteSet(T)
  BY <1>net DEF NetFacts, Net
<1> DEFINE a(i) == [j \in T |-> edge[<<j, i>>]]
<1> DEFINE J(i) == {j \in T : <<j, i>> \in sparse}
<1> DEFINE c(i) == [j \in T |-> edge[<<j, i>>] * prev[j]]
<1>1. ASSUME NEW i \in T
      PROVE  One * VectorSum(prev) + SparseVectorDotProduct(a(i), prev, J(i), One) = VectorSum(c(i))
  <2> DEFINE ai == a(i)
  <2> DEFINE ci == c(i)
  <2> DEFINE Ji == J(i)
  <2>1. ai \in [T -> Int] /\ Ji \in SUBSET T
    BY <1>net DEF NetFacts
  <2>2. \A j \in T \ Ji : ai[j] = One
    BY DEF OneOutside
  <2>3. ci \in [T -> Int]
    <3>1. \A j \in T : edge[<<j, i>>] * prev[j] \in Int
      BY <1>net, ProductIsInt DEF NetFacts
    <3> QED BY <3>1
  <2>4. \A j \in T : ci[j] = ai[j] * prev[j]
    OBVIOUS
  <2> HIDE DEF ai, ci, Ji
  <2>5. SparseVectorDotProduct(ai, prev, Ji, One) + One * VectorSum(prev) = VectorSum(ci)
    <3>1. Multiplies(T, ai, prev, Ji, ci)
      BY <1>0, <2>1, <2>2, <2>3, <2>4 DEF Multiplies
    <3> QED BY <3>1, SparseProduct
  <2>6. SparseVectorDotProduct(ai, prev, Ji, One) \in Int /\ One * VectorSum(prev) \in Int
    <3>1. VectorSum(prev) \in Int
      BY <1>0, SumIsInt
    <3>2. \A j \in Ji : ai[j] \in Int /\ prev[j] \in Int
      BY <2>1
    <3>3. IsFiniteSet(Ji)
      BY <1>0, <2>1, FS_Subset
    <3> DEFINE d == [j \in Ji |-> (ai[j] - One) * prev[j]]
    <3>4. d \in [Ji -> Int]
      <4>1. ASSUME NEW j \in Ji PROVE (ai[j] - One) * prev[j] \in Int
        <5>1. ai[j] - One \in Int
          BY <3>2, OneIsInt
        <5> QED BY <3>2, <5>1, ProductIsInt
      <4> QED BY <4>1
    <3>5. SparseVectorDotProduct(ai, prev, Ji, One) = VectorSum(d)
      BY DEF SparseVectorDotProduct
    <3> HIDE DEF d
    <3>6. VectorSum(d) \in Int
      BY <3>3, <3>4, SumIsInt
    <3>7. One * VectorSum(prev) \in Int
      BY <3>1, OneIsInt, ProductIsInt
    <3> QED BY <3>5, <3>6, <3>7
  <2> DEFINE u == SparseVectorDotProduct(ai, prev, Ji, One)
  <2> DEFINE w == One * VectorSum(prev)
  <2>7. w + u = VectorSum(ci)
    <3>1. u \in Int /\ w \in Int /\ u + w = VectorSum(ci)
      BY <2>5, <2>6
    <3> HIDE DEF u, w
    <3>2. w + u = u + w
      BY <3>1
    <3> QED BY <3>1, <3>2
  <2> HIDE DEF u, w
  <2> QED BY <2>7 DEF u, w, ai, ci, Ji
<1>2. SparseForwardColumn(prev, node, edge, sparse, t)
        = [i \in T |-> node[t][i] * (One * VectorSum(prev) + SparseVectorDotProduct(a(i), prev, J(i), One))]
  BY <1>0 DEF SparseForwardColumn
<1>3. ForwardColumn(prev, node, edge, t) = [i \in T |-> node[t][i] * VectorSum(c(i))]
  BY <1>0 DEF ForwardColumn
<1> HIDE DEF a, J, c
<1> QED BY <1>1, <1>2, <1>3

(* A backward column that visits only the transitions with a parameter is  *)
(* the same as one that visits all (FrenchVanillaCRF: Backward).           *)
LEMMA SparseBackwardOn ==
  ASSUME NEW node, NEW edge, NEW T, Net(node, edge, T), NEW sparse, OneOutside(edge, sparse, T),
         NEW prev \in [T -> Int], NEW t \in 1 .. Len(node) - 1
  PROVE  SparseBackwardColumn(prev, node, edge, sparse, t) = BackwardColumn(prev, node, edge, t)
<1>net. NetFacts(node, edge, T)
  BY NetHas
<1>0. DOMAIN node[1] = T /\ IsFiniteSet(T) /\ t + 1 \in 1 .. Len(node)
  BY <1>net DEF NetFacts, Net
<1> DEFINE b == [j \in T |-> node[t + 1][j] * prev[j]]
<1> DEFINE a(i) == [j \in T |-> edge[<<i, j>>]]
<1> DEFINE J(i) == {j \in T : <<i, j>> \in sparse}
<1> DEFINE c(i) == [j \in T |-> edge[<<i, j>>] * node[t + 1][j] * prev[j]]
<1>b. b \in [T -> Int]
  <2>1. \A j \in T : node[t + 1][j] * prev[j] \in Int
    BY <1>0, <1>net, ProductIsInt DEF NetFacts
  <2> QED BY <2>1
<1>1. ASSUME NEW i \in T
      PROVE  SparseVectorDotProduct(a(i), b, J(i), One) + One * VectorSum(b) = VectorSum(c(i))
  <2> DEFINE ai == a(i)
  <2> DEFINE ci == c(i)
  <2> DEFINE Ji == J(i)
  <2>1. ai \in [T -> Int] /\ Ji \in SUBSET T
    BY <1>net DEF NetFacts
  <2>2. \A j \in T \ Ji : ai[j] = One
    BY DEF OneOutside
  <2>3. ASSUME NEW j \in T PROVE ci[j] \in Int /\ ci[j] = ai[j] * b[j]
    <3> DEFINE x == edge[<<i, j>>]
    <3> DEFINE y == node[t + 1][j]
    <3> DEFINE z == prev[j]
    <3>1. x \in Int /\ y \in Int /\ z \in Int
      BY <1>0, <1>net DEF NetFacts
    <3>2. ci[j] = x * y * z /\ ai[j] = x /\ b[j] = y * z
      OBVIOUS
    <3> HIDE DEF x, y, z, ai, b, ci
    <3>3. x * y \in Int
      BY <3>1, ProductIsInt
    <3>4. x * y * z \in Int
      BY <3>1, <3>3, ProductIsInt
    <3>5. x * y * z = x * (y * z)
      BY <3>1
    <3> QED BY <3>2, <3>4, <3>5
  <2>4. ci \in [T -> Int]
    BY <2>3
  <2> HIDE DEF ai, ci, Ji, b
  <2>5. SparseVectorDotProduct(ai, b, Ji, One) + One * VectorSum(b) = VectorSum(ci)
    <3>1. Multiplies(T, ai, b, Ji, ci)
      BY <1>0, <1>b, <2>1, <2>2, <2>3, <2>4 DEF Multiplies
    <3> QED BY <3>1, SparseProduct
  <2> QED BY <2>5 DEF ai, ci, Ji
<1>2. SparseBackwardColumn(prev, node, edge, sparse, t)
        = [i \in T |-> SparseVectorDotProduct(a(i), b, J(i), One) + One * VectorSum(b)]
  BY <1>0 DEF SparseBackwardColumn
<1>3. BackwardColumn(prev, node, edge, t) = [i \in T |-> VectorSum(c(i))]
  BY <1>0 DEF BackwardColumn
<1> HIDE DEF a, J, c, b
<1> QED BY <1>1, <1>2, <1>3

SparseForwardMap(node, edge, sparse, T) ==
  [t \in 2 .. Len(node) |-> [c \in [T -> Int] |-> SparseForwardColumn(c, node, edge, sparse, t)]]

(* The sparse forward sums are computed from the first word to the last    *)
(* (FrenchVanillaCRF: Forward).                                            *)
LEMMA SparseForwardFollows ==
  ASSUME NEW node, NEW edge, NEW T, Net(node, edge, T), NEW sparse
  PROVE  Following(SparseForward(node, edge, sparse), Len(node),
                   SparseForwardMap(node, edge, sparse, T), node[1], T)
<1>net. NetFacts(node, edge, T)
  BY NetHas
<1> DEFINE C == SparseForwardMap(node, edge, sparse, T)
<1> DEFINE n == Len(node) - 1
<1>0. n \in Nat /\ Len(node) = n + 1 /\ node[1] \in [T -> Int]
  BY <1>net DEF NetFacts
<1>1. \A t \in 2 .. Len(node) : \A c \in [T -> Int] :
        C[t][c] = SparseForwardColumn(c, node, edge, sparse, t) /\ C[t][c] \in [T -> Int]
  BY SparseForwardColumnIs DEF SparseForwardMap
<1> HIDE DEF C
<1>2. Maps(C, T, 2, n + 1)
  BY <1>0, <1>1 DEF Maps
<1>3. PICK g : SparseForwardRun(g, T, node, edge, sparse)
  BY SparseForwardRuns
<1>4. g \in [0 .. n -> Cols(T)] /\ g[0] = <<node[1]>> /\ SparseForward(node, edge, sparse) = g[n]
  BY <1>3 DEF SparseForwardRun
<1>5. ASSUME NEW k \in 1 .. n PROVE g[k] = Append(g[k - 1], C[k + 1][Last(g[k - 1])])
  <2>1. k - 1 \in 0 .. n /\ g[k - 1] \in Cols(T) /\ k + 1 \in 2 .. Len(node)
    BY <1>0, <1>4
  <2>2. Last(g[k - 1]) \in [T -> Int]
    BY <1>0, <2>1, ColumnJoins
  <2>3. g[k] = Append(g[k - 1], SparseForwardColumn(Last(g[k - 1]), node, edge, sparse, k + 1))
    BY <1>3 DEF SparseForwardRun
  <2> QED BY <1>1, <2>1, <2>2, <2>3
<1> HIDE DEF n
<1>6. Following(g[n], n + 1, C, node[1], T)
  BY <1>0, <1>2, <1>4, <1>5, FollowingColumns
<1> QED BY <1>0, <1>4, <1>6 DEF C

(***************************************************************************)
(* The sparse sums are the sums.                                           *)
(***************************************************************************)
LEMMA SparseForwardIsForward ==
  ASSUME NEW node, NEW edge, NEW T, Net(node, edge, T), NEW sparse, OneOutside(edge, sparse, T)
  PROVE  SparseForward(node, edge, sparse) = Forward(node, edge)
<1> DEFINE C == ForwardMap(node, edge, T)
<1> DEFINE a == SparseForward(node, edge, sparse)
<1> DEFINE b == Forward(node, edge)
<1> DEFINE l == Len(node)
<1>1. SparseForwardMap(node, edge, sparse, T) = C
  <2>1. \A t \in 2 .. Len(node) : \A c \in [T -> Int] :
          SparseForwardColumn(c, node, edge, sparse, t) = ForwardColumn(c, node, edge, t)
    BY SparseForwardOn
  <2> QED BY <2>1 DEF SparseForwardMap, ForwardMap
<1>2. Following(a, l, C, node[1], T)
  BY <1>1, SparseForwardFollows
<1>3. Following(b, l, C, node[1], T) /\ l \in Nat \ {0}
  BY ForwardFollows, NetHas DEF NetFacts
<1> HIDE DEF a, b, C, l
<1>4. a = b
  BY <1>2, <1>3, SameColumns
<1> QED BY <1>4 DEF a, b

(* The sparse backward sums are the plain ones (FrenchVanillaCRF:          *)
(* Backward).                                                              *)
LEMMA SparseBackwardIsBackward ==
  ASSUME NEW node, NEW edge, NEW T, Net(node, edge, T), NEW sparse, OneOutside(edge, sparse, T)
  PROVE  SparseBackward(node, edge, sparse) = Backward(node, edge)
<1>net. NetFacts(node, edge, T)
  BY NetHas
<1> DEFINE C == BackwardMap(node, edge, T)
<1> DEFINE l == Len(node)
<1>0. l \in Nat \ {0} /\ DOMAIN node[1] = T /\ l - 1 \in Nat
  BY <1>net DEF NetFacts
<1>1. \A t \in 1 .. l - 1 : \A c \in [T -> Int] :
        C[t][c] = BackwardColumn(c, node, edge, t) /\ C[t][c] \in [T -> Int]
  BY BackwardColumnIs DEF BackwardMap
<1>f. Preceding(Backward(node, edge), l, C, Ones(T), T, l)
  BY BackwardPrecedes
<1> HIDE DEF C
<1>2. Maps(C, T, 1, l - 1)
  BY <1>1 DEF Maps
<1>3. PICK g : SparseBackwardRun(g, T, node, edge, sparse)
  BY SparseBackwardRuns
<1>4. g \in [0 .. l - 1 -> Cols(T)] /\ g[0] = <<Ones(T)>> /\ SparseBackward(node, edge, sparse) = g[l - 1]
  BY <1>0, <1>3 DEF SparseBackwardRun, Ones
<1>a. Ones(T) \in [T -> Int]
  BY DEF Ones
<1>5. ASSUME NEW k \in 1 .. l - 1 PROVE g[k] = <<C[l - k][Head(g[k - 1])]>> \o g[k - 1]
  <2>1. k - 1 \in 0 .. l - 1 /\ g[k - 1] \in Cols(T) /\ l - k \in 1 .. l - 1
    BY <1>0, <1>4
  <2>2. Head(g[k - 1]) \in [T -> Int]
    BY <1>a, <2>1, ColumnJoins
  <2>3. g[k] = <<SparseBackwardColumn(Head(g[k - 1]), node, edge, sparse, l - k)>> \o g[k - 1]
    BY <1>3 DEF SparseBackwardRun
  <2>4. SparseBackwardColumn(Head(g[k - 1]), node, edge, sparse, l - k)
          = BackwardColumn(Head(g[k - 1]), node, edge, l - k)
    <3> DEFINE t == l - k
    <3> DEFINE prev == Head(g[k - 1])
    <3> HIDE DEF t, prev
    <3>1. t \in 1 .. Len(node) - 1 /\ prev \in [T -> Int]
      BY <2>1, <2>2 DEF t, prev
    <3>2. SparseBackwardColumn(prev, node, edge, sparse, t) = BackwardColumn(prev, node, edge, t)
      BY <3>1, SparseBackwardOn
    <3> QED BY <3>2 DEF t, prev
  <2> QED BY <1>1, <2>1, <2>2, <2>3, <2>4
<1> HIDE DEF l
<1>6. Preceding(g[l - 1], l, C, Ones(T), T, l)
  BY <1>0, <1>a, <1>2, <1>4, <1>5, PrecedingColumns
<1> DEFINE a == SparseBackward(node, edge, sparse)
<1> DEFINE b == Backward(node, edge)
<1> DEFINE o == Ones(T)
<1>7. Preceding(a, l, C, o, T, l) /\ Preceding(b, l, C, o, T, l) /\ l \in Nat \ {0}
  BY <1>0, <1>4, <1>6, <1>f
<1> HIDE DEF a, b, o
<1>8. a = b
  BY <1>7, SamePreceding
<1> QED BY <1>8 DEF a, b

(***************************************************************************)
(* Columns that begin with natural numbers and are made of such.           *)
(***************************************************************************)
KeepNat(C, T, n) == \A t \in 2 .. n : \A c \in [T -> Nat] : C[t][c] \in [T -> Nat]

LEMMA NatFollows ==
  ASSUME NEW T, NEW n \in Nat, NEW C, NEW c0 \in [T -> Nat], NEW cols, Following(cols, n, C, c0, T),
         KeepNat(C, T, n)
  PROVE  \A t \in 1 .. n : cols[t] \in [T -> Nat]
<1> DEFINE N == [T -> Nat]
<1> DEFINE S == {k \in 0 .. n : k # 0 => cols[k] \in N}
<1>1. 0 \in S
  OBVIOUS
<1>2. ASSUME NEW k \in 0 .. n - 1, k \in S PROVE k + 1 \in S
  <2>1. CASE k = 0
    BY <2>1 DEF Following
  <2>2. CASE k # 0
    <3>1. k + 1 \in 2 .. n /\ (k + 1) - 1 = k
      BY <2>2
    <3>2. cols[k + 1] = C[k + 1][cols[k]]
      BY <3>1 DEF Following
    <3>3. cols[k] \in N
      BY <1>2, <2>2
    <3> QED BY <3>1, <3>2, <3>3 DEF KeepNat
  <2> QED BY <2>1, <2>2
<1>3. \A k \in 0 .. n : k \in S
  <2> HIDE DEF S
  <2> QED BY <1>1, <1>2, UpTo
<1> QED BY <1>3

(* A sum of natural numbers is one.                                        *)
LEMMA SumIsNat ==
  ASSUME NEW T, IsFiniteSet(T), NEW v \in [T -> Nat]
  PROVE  VectorSum(v) \in Nat
<1> DEFINE V == Nat
<1>1. DOMAIN v = T /\ 0 \in V /\ \A x \in T : \A y \in V : v[x] + y \in V
  OBVIOUS
<1>2. VectorSum(v) \in V
  <2> HIDE DEF V
  <2> QED BY <1>1, SumIsIn
<1> QED BY <1>2

(* A product of natural numbers is one.                                    *)
LEMMA NatTimes ==
  ASSUME NEW a \in Nat, NEW b \in Nat
  PROVE  a * b \in Nat
OBVIOUS

(* A net of potentials that are not negative.                              *)
NatNet(node, edge, T) ==
  /\ Net(node, edge, T) /\ edge \in [T \X T -> Nat]
  /\ \A t \in 1 .. Len(node) : node[t] \in [T -> Nat]

NatNetFacts(node, edge, T) ==
  /\ DOMAIN node[1] = T /\ IsFiniteSet(T) /\ Len(node) \in Nat
  /\ \A i, j \in T : edge[<<j, i>>] \in Nat
  /\ \A t \in 1 .. Len(node) : \A i \in T : node[t][i] \in Nat

LEMMA NatNetHas ==
  ASSUME NEW node, NEW edge, NEW T, NatNet(node, edge, T)
  PROVE  NatNetFacts(node, edge, T)
<1>1. Net(node, edge, T)
  BY DEF NatNet
<1>2. DOMAIN node[1] = T /\ IsFiniteSet(T) /\ Len(node) \in Nat
  BY <1>1, NetHas DEF NetFacts, Net
<1>3. \A i, j \in T : edge[<<j, i>>] \in Nat
  <2>1. edge \in [T \X T -> Nat]
    BY DEF NatNet
  <2> QED BY <2>1
<1>4. \A t \in 1 .. Len(node) : \A i \in T : node[t][i] \in Nat
  <2>1. \A t \in 1 .. Len(node) : node[t] \in [T -> Nat]
    BY DEF NatNet
  <2> QED BY <2>1
<1> QED BY <1>2, <1>3, <1>4 DEF NatNetFacts

(* A forward column of natural numbers follows from another.               *)
LEMMA ForwardKeepsNat ==
  ASSUME NEW node, NEW edge, NEW T, NatNet(node, edge, T)
  PROVE  KeepNat(ForwardMap(node, edge, T), T, Len(node))
<1>0. /\ DOMAIN node[1] = T /\ IsFiniteSet(T) /\ Len(node) \in Nat
      /\ \A i, j \in T : edge[<<j, i>>] \in Nat
      /\ \A t \in 1 .. Len(node) : \A i \in T : node[t][i] \in Nat
  BY NatNetHas DEF NatNetFacts
<1>1. ASSUME NEW t \in 2 .. Len(node), NEW c \in [T -> Nat]
      PROVE  ForwardMap(node, edge, T)[t][c] \in [T -> Nat]
  <2>1. ForwardMap(node, edge, T)[t][c] = ForwardColumn(c, node, edge, t)
    <3>1. c \in [T -> Int]
      OBVIOUS
    <3> QED BY <3>1 DEF ForwardMap
  <2>2. ASSUME NEW i \in T
        PROVE  node[t][i] * VectorSum([j \in T |-> edge[<<j, i>>] * c[j]]) \in Nat
    <3> DEFINE v == [j \in T |-> edge[<<j, i>>] * c[j]]
    <3>1. v \in [T -> Nat]
      <4>1. \A j \in T : edge[<<j, i>>] * c[j] \in Nat
        BY <1>0, NatTimes
      <4> QED BY <4>1
    <3> HIDE DEF v
    <3>2. VectorSum(v) \in Nat
      BY <1>0, <3>1, SumIsNat
    <3>3. node[t][i] \in Nat
      <4>1. t \in 1 .. Len(node)
        BY <1>0
      <4> QED BY <1>0, <4>1
    <3>4. node[t][i] * VectorSum(v) \in Nat
      BY <3>2, <3>3, NatTimes
    <3> QED BY <3>4 DEF v
  <2>3. ForwardColumn(c, node, edge, t)
          = [i \in T |-> node[t][i] * VectorSum([j \in T |-> edge[<<j, i>>] * c[j]])]
    BY <1>0 DEF ForwardColumn
  <2> QED BY <2>1, <2>2, <2>3
<1> QED BY <1>1 DEF KeepNat

(* So it does in the sparse sums.                                          *)
LEMMA SparseForwardKeepsNat ==
  ASSUME NEW node, NEW edge, NEW T, NatNet(node, edge, T), NEW sparse
  PROVE  KeepNat(SparseForwardMap(node, edge, sparse, T), T, Len(node))
<1>0. /\ DOMAIN node[1] = T /\ IsFiniteSet(T) /\ Len(node) \in Nat
      /\ \A i, j \in T : edge[<<j, i>>] \in Nat
      /\ \A t \in 1 .. Len(node) : \A i \in T : node[t][i] \in Nat
  BY NatNetHas DEF NatNetFacts
<1>1. ASSUME NEW t \in 2 .. Len(node), NEW c \in [T -> Nat]
      PROVE  SparseForwardMap(node, edge, sparse, T)[t][c] \in [T -> Nat]
  <2> DEFINE a(i) == [j \in T |-> edge[<<j, i>>]]
  <2> DEFINE J(i) == {j \in T : <<j, i>> \in sparse}
  <2>0. c \in [T -> Int]
    OBVIOUS
  <2>1. SparseForwardMap(node, edge, sparse, T)[t][c] = SparseForwardColumn(c, node, edge, sparse, t)
    BY <2>0 DEF SparseForwardMap
  <2>2. ASSUME NEW i \in T
        PROVE  node[t][i] * (One * VectorSum(c) + SparseVectorDotProduct(a(i), c, J(i), One)) \in Nat
    <3> DEFINE ai == a(i)
    <3> DEFINE Ji == J(i)
    <3> DEFINE b == [j \in T |-> IF j \in Ji THEN ai[j] ELSE One]
    <3> DEFINE d == [j \in T |-> b[j] * c[j]]
    <3>1. Ji \in SUBSET T /\ \A j \in T : ai[j] \in Nat
      BY <1>0
    <3> HIDE DEF ai, Ji
    <3>2. b \in [T -> Nat] /\ (\A j \in T \ Ji : b[j] = One) /\ (\A j \in Ji : b[j] = ai[j])
      BY <3>1, OneIsInt
    <3> HIDE DEF b
    <3>3. d \in [T -> Nat] /\ \A j \in T : d[j] = b[j] * c[j]
      <4>1. \A j \in T : b[j] * c[j] \in Nat
        BY <3>2, NatTimes
      <4> QED BY <4>1
    <3> HIDE DEF d
    <3>4. b \in [T -> Int] /\ d \in [T -> Int]
      BY <3>2, <3>3
    <3>5. Multiplies(T, b, c, Ji, d)
      BY <1>0, <2>0, <3>1, <3>2, <3>3, <3>4 DEF Multiplies
    <3>6. SparseVectorDotProduct(b, c, Ji, One) + One * VectorSum(c) = VectorSum(d)
      BY <3>5, SparseProduct
    <3>7. SparseVectorDotProduct(b, c, Ji, One) = SparseVectorDotProduct(ai, c, Ji, One)
      <4>1. [j \in Ji |-> (b[j] - One) * c[j]] = [j \in Ji |-> (ai[j] - One) * c[j]]
        BY <3>2
      <4> QED BY <4>1, Zenon DEF SparseVectorDotProduct
    <3> DEFINE u == SparseVectorDotProduct(ai, c, Ji, One)
    <3> DEFINE w == One * VectorSum(c)
    <3>8. VectorSum(d) \in Nat
      BY <1>0, <3>3, SumIsNat
    <3>9. w \in Int /\ u \in Int
      <4>1. VectorSum(c) \in Int
        BY <1>0, <2>0, SumIsInt
      <4>2. w \in Int
        BY <4>1, OneIsInt, ProductIsInt
      <4> DEFINE z == [j \in Ji |-> (ai[j] - One) * c[j]]
      <4>3. z \in [Ji -> Int]
        <5>1. ASSUME NEW j \in Ji PROVE (ai[j] - One) * c[j] \in Int
          <6>1. ai[j] - One \in Int /\ c[j] \in Int
            BY <3>1, OneIsInt
          <6> QED BY <6>1, ProductIsInt
        <5> QED BY <5>1
      <4>4. IsFiniteSet(Ji)
        BY <1>0, <3>1, FS_Subset
      <4>5. u = VectorSum(z)
        BY DEF SparseVectorDotProduct
      <4> HIDE DEF z, u, w
      <4>6. VectorSum(z) \in Int
        BY <4>3, <4>4, SumIsInt
      <4> QED BY <4>2, <4>5, <4>6
    <3>10. u + w = VectorSum(d)
      BY <3>6, <3>7
    <3> HIDE DEF u, w
    <3>11. w + u \in Nat
      <4>1. w + u = u + w
        BY <3>9
      <4> QED BY <3>8, <3>10, <4>1
    <3>12. node[t][i] \in Nat
      <4>1. t \in 1 .. Len(node)
        BY <1>0
      <4> QED BY <1>0, <4>1
    <3>13. node[t][i] * (w + u) \in Nat
      BY <3>11, <3>12, NatTimes
    <3> QED BY <3>13 DEF w, u, ai, Ji
  <2>3. SparseForwardColumn(c, node, edge, sparse, t)
          = [i \in T |-> node[t][i] * (One * VectorSum(c) + SparseVectorDotProduct(a(i), c, J(i), One))]
    BY <1>0 DEF SparseForwardColumn
  <2> HIDE DEF a, J
  <2> QED BY <2>1, <2>2, <2>3
<1> QED BY <1>1 DEF KeepNat

(* So the columns add up to natural numbers.                               *)
LEMMA SumsAreNat ==
  ASSUME NEW node, NEW edge, NEW T, NatNet(node, edge, T), NEW C, KeepNat(C, T, Len(node)),
         NEW cols, Following(cols, Len(node), C, node[1], T), NEW t \in DOMAIN cols
  PROVE  VectorSum(cols[t]) \in Nat
<1>1. Len(node) \in Nat /\ Len(node) > 0 /\ node[1] \in [T -> Nat] /\ IsFiniteSet(T)
  <2>1. Len(node) \in Nat \ {0}
    BY NetHas DEF NatNet, NetFacts
  <2> QED BY <2>1 DEF NatNet, Net
<1>2. DOMAIN cols = 1 .. Len(node)
  BY DEF Following, Cols
<1> DEFINE n == Len(node)
<1> DEFINE c0 == node[1]
<1>3. n \in Nat /\ c0 \in [T -> Nat] /\ Following(cols, n, C, c0, T) /\ KeepNat(C, T, n)
  BY <1>1
<1> HIDE DEF n, c0
<1>4. \A u \in 1 .. n : cols[u] \in [T -> Nat]
  BY <1>3, NatFollows
<1>5. cols[t] \in [T -> Nat]
  BY <1>2, <1>4 DEF n
<1> QED BY <1>1, <1>5, SumIsNat

(***************************************************************************)
(* Only the sums that are confined to allowed tags are ever below zero.    *)
(***************************************************************************)
LEMMA InferenceSucceeds ==
  ASSUME NEW K, NEW m, IsModel(m, K), m.max > 0,
         NEW s \in IndexedSentences(Len(m.features), m.max),
         NEW crf \in {"vanilla", "sparse"}
  PROVE  InferBy(crf, m, s).nan = FALSE
<1> DEFINE T == LabelsOf(m)
<1> DEFINE node == Potentials(m, s)
<1> DEFINE edge == ExpEdge(m.trans)
<1>1. /\ Net(node, edge, T) /\ Len(node) = Len(s.words)
      /\ \A t \in 1 .. Len(s.words) : \A i \in T : node[t][i] \in Nat \ {0}
  BY PotentialsAre
<1>2. m.trans \in [T \X T -> Int]
  BY DEF IsModel
<1>3. NatNet(node, edge, T)
  <2>1. edge \in [T \X T -> Nat]
    <3>1. \A e \in T \X T : Exp(m.trans[e]) \in Nat
      BY <1>2, ExpIsPositive
    <3> QED BY <1>2, <3>1 DEF ExpEdge
  <2> HIDE DEF T, node, edge
  <2>2. \A t \in 1 .. Len(node) : node[t] \in [T -> Int]
    BY <1>1, NetHas DEF NetFacts
  <2>3. \A t \in 1 .. Len(node) : node[t] \in [T -> Nat]
    BY <1>1, <2>2
  <2> QED BY <1>1, <2>1, <2>3 DEF NatNet
<1>4. CASE crf = "vanilla"
  <2> DEFINE cols == Forward(node, edge)
  <2>1. InferBy(crf, m, s).nan = \E t \in DOMAIN cols : VectorSum(cols[t]) < 0
    BY <1>4 DEF InferBy, VanillaInfer, VanillaSums, Inferred, Potentials
  <2> HIDE DEF node, edge, T
  <2>2. Following(cols, Len(node), ForwardMap(node, edge, T), node[1], T)
    BY <1>1, ForwardFollows
  <2>3. KeepNat(ForwardMap(node, edge, T), T, Len(node))
    BY <1>3, ForwardKeepsNat
  <2> HIDE DEF cols
  <2>4. \A t \in DOMAIN cols : VectorSum(cols[t]) \in Nat
    BY <1>3, <2>2, <2>3, SumsAreNat
  <2> QED BY <2>1, <2>4
<1>5. CASE crf = "sparse"
  <2> DEFINE sparse == SparseTransition(m)
  <2> DEFINE cols == SparseForward(node, edge, sparse)
  <2>1. InferBy(crf, m, s).nan = \E t \in DOMAIN cols : VectorSum(cols[t]) < 0
    BY <1>5 DEF InferBy, SparseInfer, SparseSums, Inferred, Potentials
  <2> HIDE DEF node, edge, T, sparse
  <2>2. Following(cols, Len(node), SparseForwardMap(node, edge, sparse, T), node[1], T)
    BY <1>1, SparseForwardFollows
  <2>3. KeepNat(SparseForwardMap(node, edge, sparse, T), T, Len(node))
    BY <1>3, SparseForwardKeepsNat
  <2> HIDE DEF cols
  <2>4. \A t \in DOMAIN cols : VectorSum(cols[t]) \in Nat
    BY <1>3, <2>2, <2>3, SumsAreNat
  <2> QED BY <2>1, <2>4
<1> QED BY <1>4, <1>5

-----------------------------------------------------------------------------
(***************************************************************************)
(* A transition without a parameter has the weight 0, and the potential 1. *)
(***************************************************************************)
LEMMA ExpOfNothing == Exp(0) = One
<1> DEFINE y == One + 0
<1> DEFINE set == {1, y}
<1>1. y = One /\ y \in Int /\ y >= 1
  BY OneIsInt
<1> HIDE DEF y
<1>2. set \in SUBSET (1 .. y) /\ set # {} /\ 1 \in Int
  BY <1>1
<1> HIDE DEF set
<1>3. Max(set) \in set /\ \A x \in set : x <= Max(set)
  BY <1>1, <1>2, LargestOfInts
<1>4. Max(set) = y
  BY <1>1, <1>3 DEF set
<1>5. Exp(0) = Max({1, One + 0})
  BY Zenon DEF Exp
<1> QED BY <1>1, <1>4, <1>5 DEF set, y

(* So a transition that the sparse sums do not visit has the potential 1.  *)
LEMMA OthersAreOne ==
  ASSUME NEW K, NEW m, IsModel(m, K), Fresh(m)
  PROVE  OneOutside(ExpEdge(m.trans), SparseTransition(m), LabelsOf(m))
<1> DEFINE E == LabelsOf(m) \X LabelsOf(m)
<1>1. m.trans = [e \in E |-> Weigh(m, EdgeSet, e[1], e[2])]
  BY CacheWeighs DEF Fresh
<1>2. ASSUME NEW e \in E, e \notin SparseTransition(m) PROVE ExpEdge(m.trans)[e] = One
  <2>1. <<FindFeature(m, EdgeSet, e[1]), e[2]>> \notin DOMAIN m.weight
    BY <1>2 DEF SparseTransition
  <2>2. Weigh(m, EdgeSet, e[1], e[2]) = 0
    BY <2>1 DEF Weigh, WeightOf
  <2>3. m.trans[e] = 0 /\ e \in DOMAIN m.trans
    BY <1>1, <2>2
  <2>4. ExpEdge(m.trans)[e] = Exp(m.trans[e])
    BY <2>3 DEF ExpEdge
  <2> QED BY <2>3, <2>4, ExpOfNothing
<1> QED BY <1>2 DEF OneOutside

(***************************************************************************)
(* For every model whose transitions are those its parameters give, and    *)
(* every sentence: forward and backward sums are the sums over all the     *)
(* paths, and the sparse sums are the same (VanillaCRF, FrenchVanillaCRF:  *)
(* Infer).                                                                 *)
(***************************************************************************)
SumsAgree(m, s) ==
  LET n == Len(s.words)
      node == ExpNode(LinearFunction(m, s, LabelsOf(m)))
      edge == ExpEdge(m.trans)
      known == SparseTransition(m)
      alpha == Forward(node, edge)
      beta == Backward(node, edge)
      paths == Paths(n, LabelsOf(m))
  IN  /\ ProbNode(alpha, beta) = [t \in 1 .. n |-> [i \in LabelsOf(m) |->
           SumOver({p \in paths : p[t] = i}, node, edge)]]
      /\ ProbEdge(node, edge, alpha, beta, known) = [e \in known |->
           VectorSum([t \in 1 .. n - 1 |->
             SumOver({p \in paths : <<p[t], p[t + 1]>> = e}, node, edge)])]
      /\ alpha = SparseForward(node, edge, known)
      /\ beta = SparseBackward(node, edge, known)

(* The sums of every such model over every sentence agree with the sums    *)
(* over the paths.                                                         *)
THEOREM SumsOverPaths ==
  ASSUME NEW K, NEW m, IsModel(m, K), Fresh(m), m.max > 0,
         NEW s \in IndexedSentences(Len(m.features), m.max)
  PROVE  SumsAgree(m, s)
<1> DEFINE T == LabelsOf(m)
<1> DEFINE n == Len(s.words)
<1> DEFINE node == Potentials(m, s)
<1> DEFINE edge == ExpEdge(m.trans)
<1> DEFINE known == SparseTransition(m)
<1>1. Net(node, edge, T) /\ Len(node) = n
  BY PotentialsAre
<1>2. OneOutside(edge, known, T)
  BY OthersAreOne
<1>3. known \in SUBSET (T \X T)
  BY DEF SparseTransition
<1>4. node = ExpNode(LinearFunction(m, s, T))
  BY DEF Potentials, CreateLinearFunctionCache
<1> HIDE DEF T, n, node, edge, known
<1>5. ProbNode(Forward(node, edge), Backward(node, edge))
        = [t \in 1 .. n |-> [i \in T |-> SumOver({p \in Paths(n, T) : p[t] = i}, node, edge)]]
  BY <1>1, ProbNodeIs
<1>6. ProbEdge(node, edge, Forward(node, edge), Backward(node, edge), known)
        = [e \in known |-> VectorSum([t \in 1 .. n - 1 |->
             SumOver({p \in Paths(n, T) : <<p[t], p[t + 1]>> = e}, node, edge)])]
  BY <1>1, <1>3, ProbEdgeIs
<1>7. Forward(node, edge) = SparseForward(node, edge, known)
  BY <1>1, <1>2, SparseForwardIsForward
<1>8. Backward(node, edge) = SparseBackward(node, edge, known)
  BY <1>1, <1>2, SparseBackwardIsBackward
<1> DEFINE Agree(o) ==
      /\ ProbNode(Forward(o, edge), Backward(o, edge))
           = [t \in 1 .. n |-> [i \in T |-> SumOver({p \in Paths(n, T) : p[t] = i}, o, edge)]]
      /\ ProbEdge(o, edge, Forward(o, edge), Backward(o, edge), known)
           = [e \in known |-> VectorSum([t \in 1 .. n - 1 |->
                SumOver({p \in Paths(n, T) : <<p[t], p[t + 1]>> = e}, o, edge)])]
      /\ Forward(o, edge) = SparseForward(o, edge, known)
      /\ Backward(o, edge) = SparseBackward(o, edge, known)
<1>9. Agree(node)
  BY <1>5, <1>6, <1>7, <1>8
<1> HIDE DEF Agree
<1>10. Agree(ExpNode(LinearFunction(m, s, T)))
  BY <1>4, <1>9
<1> QED BY <1>10, Zenon DEF Agree, SumsAgree, T, n, edge, known

-----------------------------------------------------------------------------
(* A step of l1sgd fails only where the sums do.                           *)
IsRun(r) ==
  r = [model |-> r.model, loss |-> r.loss, paid |-> r.paid, failed |-> r.failed]

HasSums(seen) == ~seen.nan

EndsAlike(y, r) == y.failed = r.failed

LEMMA L1StepSucceeds ==
  ASSUME NEW r, IsRun(r), NEW s, NEW rate, NEW seen, HasSums(seen)
  PROVE  EndsAlike(L1Step(rate, r, s, seen), r)
<1> DEFINE weight == [p \in DOMAIN r.model.weight |-> L1Weight(r, s, seen.node, rate, p)]
<1> DEFINE trans == [e \in DOMAIN r.model.trans |-> L1Transition(r, s, seen.edge, rate, e)]
<1> DEFINE a == [p \in DOMAIN weight |-> weight[p].weight]
<1> DEFINE b == [e \in DOMAIN trans |-> trans[e].weight]
<1> DEFINE c == [p \in DOMAIN weight |-> weight[p].paid]
<1> DEFINE d == [e \in DOMAIN trans |-> trans[e].paid]
<1> DEFINE z == (LossUnit * (Precision - seen.likely)) \div Precision
<1>1. L1Step(rate, r, s, seen)
        = [r EXCEPT !.model.weight = a, !.model.trans = b, !.paid.weight = c, !.paid.trans = d,
                    !.loss = @ + z]
  BY Zenon DEF L1Step, HasSums
<1>2. r = [model |-> r.model, loss |-> r.loss, paid |-> r.paid, failed |-> r.failed]
  BY DEF IsRun
<1> HIDE DEF a, b, c, d, z
<1> DEFINE y == [r EXCEPT !.model.weight = a, !.model.trans = b, !.paid.weight = c, !.paid.trans = d,
                          !.loss = @ + z]
<1>3. y.failed = r.failed
  BY <1>2
<1> QED BY <1>1, <1>3 DEF EndsAlike

(* A training step with the plain or the sparse sums does not fail.        *)
LEMMA TrainingSucceeds ==
  ASSUME NEW K, NEW m, NEW r, IsTrained(r, m, K), m.max > 0,
         NEW s \in IndexedSentences(Len(m.features), m.max),
         NEW crf \in {"vanilla", "sparse"}, NEW rate \in Int, NEW alg, r.failed = FALSE
  PROVE  TrainOn(alg, crf, rate, r, s).failed = FALSE
<1>1. CASE alg = "l1sgd"
  <2>1. TrainOn(alg, crf, rate, r, s) = L1Step(rate, r, s, InferBy(crf, r.model, s))
    BY <1>1 DEF TrainOn, L1On
  <2>2. IsRun(r)
    BY DEF IsTrained, IsRun
  <2>3. /\ IsModel(r.model, K) /\ r.model.max > 0
        /\ s \in IndexedSentences(Len(r.model.features), r.model.max)
    BY DEF IsTrained, SameShape
  <2>4. ~InferBy(crf, r.model, s).nan
    BY <2>3, InferenceSucceeds
  <2> DEFINE seen == InferBy(crf, r.model, s)
  <2> HIDE DEF seen
  <2>5. HasSums(seen)
    BY <2>4 DEF seen, HasSums
  <2>6. EndsAlike(L1Step(rate, r, s, seen), r)
    BY <2>2, <2>5, L1StepSucceeds, Zenon
  <2> QED BY <2>1, <2>6 DEF seen, EndsAlike
<1>2. CASE alg # "l1sgd"
  <2>1. TrainOn(alg, crf, rate, r, s) = PerceptronOn(crf, rate, r, s)
    BY <1>2 DEF TrainOn
  <2>2. crf \in {"vanilla", "sparse", "constrained"}
    OBVIOUS
  <2>3. PerceptronOn(crf, rate, r, s).failed = r.failed
    BY <2>2, PerceptronTrains
  <2> QED BY <2>1, <2>3
<1> QED BY <1>1, <1>2

(* A training with the plain or the sparse sums goes on to the end of the  *)
(* chunk.                                                                  *)
GoesOn(r) == r.failed = FALSE

LEMMA ChunkSucceeds ==
  ASSUME NEW K, NEW m, NEW r, IsTrained(r, m, K), m.max > 0,
         NEW chunk \in Seq(IndexedSentences(Len(m.features), m.max)),
         NEW crf \in {"vanilla", "sparse"}, NEW rate \in Int, NEW alg, GoesOn(r)
  PROVE  GoesOn(AfterChunk(alg, crf, rate, r, chunk))
<1> DEFINE X == IndexedSentences(Len(m.features), m.max)
<1> DEFINE n == Len(chunk)
<1> DEFINE y == AfterChunk(alg, crf, rate, r, chunk)
<1>0. chunk \in Seq(X) /\ crf \in {"vanilla", "sparse", "constrained"}
  OBVIOUS
<1>1. PICK g : TrainRun(g, alg, crf, rate, r, chunk)
  <2> HIDE DEF X
  <2> QED BY <1>0, TrainRuns
<1>2. n \in Nat /\ \A k \in 1 .. n : chunk[k] \in X
  <2> HIDE DEF X
  <2> QED BY <1>0, LenProperties, ElementOfSeq
<1>3. /\ g[0] = r /\ y = g[n]
      /\ \A k \in 1 .. n : g[k] = TrainOn(alg, crf, rate, g[k - 1], chunk[k])
  BY <1>1 DEF TrainRun, AfterChunk
<1> HIDE DEF X, n, y
<1> DEFINE S == {k \in 0 .. n : IsTrained(g[k], m, K) /\ g[k].failed = FALSE}
<1>4. 0 \in S
  BY <1>2, <1>3 DEF GoesOn
<1>5. ASSUME NEW k \in 0 .. n - 1, k \in S PROVE k + 1 \in S
  <2> DEFINE u == k + 1
  <2> DEFINE x == g[k]
  <2> DEFINE s == chunk[u]
  <2>1. u \in 1 .. n /\ u - 1 = k /\ u \in 0 .. n
    BY <1>2
  <2>2. g[u] = TrainOn(alg, crf, rate, x, s) /\ s \in X
    <3> HIDE DEF u
    <3>1. g[u] = TrainOn(alg, crf, rate, g[u - 1], chunk[u]) /\ chunk[u] \in X
      BY <1>2, <1>3, <2>1
    <3> QED BY <2>1, <3>1
  <2>3. IsTrained(x, m, K) /\ x.failed = FALSE
    BY <1>5
  <2> HIDE DEF x, s, u
  <2>4. IsTrained(TrainOn(alg, crf, rate, x, s), m, K)
    BY <1>0, <2>2, <2>3, TrainedOn, Zenon DEF X
  <2>5. TrainOn(alg, crf, rate, x, s).failed = FALSE
    BY <2>2, <2>3, TrainingSucceeds DEF X
  <2>6. u \in S
    BY <2>1, <2>2, <2>4, <2>5
  <2> QED BY <2>6 DEF u
<1>6. n \in S
  <2> HIDE DEF S
  <2>1. \A k \in 0 .. n : k \in S
    BY <1>2, <1>4, <1>5, UpTo
  <2> QED BY <1>2, <2>1
<1> QED BY <1>3, <1>6 DEF y, GoesOn
=============================================================================

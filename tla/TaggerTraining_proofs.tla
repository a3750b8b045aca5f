------------------------ MODULE TaggerTraining_proofs ------------------------
(***************************************************************************)
(* Proofs about the training of a tagger: what streams through it, what    *)
(* the featurizers write, and the models that come of it.                  *)
(***************************************************************************)
EXTENDS TaggerTraining, PathSums_proofs

-----------------------------------------------------------------------------
(* How often something stands in a sequence.                               *)
Places(x, s) == {k \in DOMAIN s : s[k] = x}

LEMMA CountsAdd ==
  ASSUME NEW A, NEW B, IsFiniteSet(A), IsFiniteSet(B), A \cap B = {}
  PROVE  IsFiniteSet(A \cup B) /\ Cardinality(A \cup B) = Cardinality(A) + Cardinality(B)
<1>1. Cardinality(A) \in Nat /\ Cardinality(B) \in Nat
  BY FS_CardinalityType
<1>2. Cardinality(A \cap B) = 0
  BY FS_EmptySet
<1>3. /\ IsFiniteSet(A \cup B)
      /\ Cardinality(A \cup B) = Cardinality(A) + Cardinality(B) - Cardinality(A \cap B)
  BY FS_Union
<1> QED BY <1>1, <1>2, <1>3

(* How often something is in a sequence is the number of its places.       *)
LEMMA CountType ==
  ASSUME NEW U, NEW s \in Seq(U), NEW x
  PROVE  /\ IsFiniteSet(Places(x, s)) /\ Count(x, s) = Cardinality(Places(x, s))
         /\ Count(x, s) \in Nat
<1>1. Len(s) \in Nat /\ DOMAIN s = 1 .. Len(s)
  BY LenProperties
<1>2. IsFiniteSet(1 .. Len(s)) /\ Places(x, s) \in SUBSET (1 .. Len(s))
  BY <1>1, FS_Interval DEF Places
<1>3. IsFiniteSet(Places(x, s))
  BY <1>2, FS_Subset
<1>4. Count(x, s) = Cardinality(Places(x, s))
  BY DEF Count, Places
<1> QED BY <1>3, <1>4, FS_CardinalityType

(* Nothing is in the empty sequence.                                       *)
LEMMA CountEmpty ==
  ASSUME NEW x
  PROVE  Count(x, <<>>) = 0
<1>1. {k \in DOMAIN <<>> : <<>>[k] = x} = {}
  OBVIOUS
<1> QED BY <1>1, FS_EmptySet DEF Count

(* Sequences that are put together add their counts up.                    *)
LEMMA CountConcat ==
  ASSUME NEW U, NEW s \in Seq(U), NEW t \in Seq(U), NEW x
  PROVE  Count(x, s \o t) = Count(x, s) + Count(x, t)
<1> DEFINE A == Places(x, s)
<1> DEFINE B == Places(x, t)
<1> DEFINE C == Places(x, s \o t)
<1> DEFINE m == Len(s)
<1> DEFINE D == {k \in m + 1 .. m + Len(t) : t[k - m] = x}
<1>1. /\ m \in Nat /\ DOMAIN s = 1 .. m /\ Len(t) \in Nat /\ DOMAIN t = 1 .. Len(t)
  BY LenProperties
<1>2. /\ s \o t \in Seq(U) /\ Len(s \o t) = m + Len(t) /\ DOMAIN (s \o t) = 1 .. m + Len(t)
      /\ \A i \in 1 .. m + Len(t) : (s \o t)[i] = IF i <= m THEN s[i] ELSE t[i - m]
  BY ConcatProperties, LenProperties
<1>3. C = A \cup D /\ A \cap D = {}
  BY <1>1, <1>2 DEF Places
<1>4. IsFiniteSet(A) /\ IsFiniteSet(B)
  BY CountType
<1>5. ExistsBijection(B, D)
  <2> DEFINE f == [k \in B |-> m + k]
  <2>1. f \in [B -> D]
    BY <1>1 DEF Places
  <2>2. \A j, k \in B : f[j] = f[k] => j = k
    BY <1>1 DEF Places
  <2>3. ASSUME NEW d \in D PROVE \E k \in B : f[k] = d
    <3>1. d - m \in B /\ m + (d - m) = d
      BY <1>1 DEF Places
    <3> QED BY <3>1
  <2> HIDE DEF f, B, D
  <2>4. f \in Bijection(B, D)
    BY <2>1, <2>2, <2>3 DEF Bijection, Injection, Surjection, IsInjective
  <2> QED BY <2>4 DEF ExistsBijection
<1> HIDE DEF A, B, C, D, m
<1>6. IsFiniteSet(D) /\ Cardinality(D) = Cardinality(B)
  BY <1>4, <1>5, FS_Bijection
<1>7. Cardinality(C) = Cardinality(A) + Cardinality(D)
  BY <1>3, <1>4, <1>6, CountsAdd
<1>8. /\ Count(x, s) = Cardinality(A) /\ Count(x, t) = Cardinality(B)
      /\ Count(x, s \o t) = Cardinality(C)
  BY <1>2, CountType DEF A, B, C
<1> QED BY <1>6, <1>7, <1>8

(* A permutation changes no count.                                         *)
LEMMA CountPermuted ==
  ASSUME NEW U, NEW s \in Seq(U), NEW p \in Bijection(1 .. Len(s), 1 .. Len(s)), NEW x
  PROVE  /\ [k \in DOMAIN s |-> s[p[k]]] \in Seq(U)
         /\ Len([k \in DOMAIN s |-> s[p[k]]]) = Len(s)
         /\ Count(x, [k \in DOMAIN s |-> s[p[k]]]) = Count(x, s)
<1> DEFINE n == Len(s)
<1> DEFINE t == [k \in 1 .. n |-> s[p[k]]]
<1> DEFINE A == Places(x, s)
<1> DEFINE B == Places(x, t)
<1>1. n \in Nat /\ DOMAIN s = 1 .. n /\ \A k \in 1 .. n : s[k] \in U
  BY LenProperties, ElementOfSeq
<1>2. /\ p \in [1 .. n -> 1 .. n] /\ \A j, k \in 1 .. n : p[j] = p[k] => j = k
      /\ \A k \in 1 .. n : \E j \in 1 .. n : p[j] = k
  BY DEF Bijection, Injection, Surjection, IsInjective
<1>3. t \in Seq(U) /\ Len(t) = n
  <2>1. \A k \in 1 .. n : t[k] \in U
    BY <1>1, <1>2
  <2> HIDE DEF n
  <2>2. t \in Seq(U)
    BY <1>1, <2>1, IsASeq
  <2> QED BY <1>1, <2>2, LenProperties
<1>4. IsFiniteSet(B)
  BY <1>3, CountType
<1>5. ExistsBijection(B, A)
  <2> DEFINE f == [k \in B |-> p[k]]
  <2>1. f \in [B -> A]
    BY <1>1, <1>2 DEF Places
  <2>2. \A j, k \in B : f[j] = f[k] => j = k
    BY <1>2 DEF Places
  <2>3. ASSUME NEW a \in A PROVE \E k \in B : f[k] = a
    <3>1. a \in 1 .. n /\ s[a] = x
      BY <1>1 DEF Places
    <3>2. PICK j \in 1 .. n : p[j] = a
      BY <1>2, <3>1
    <3>3. j \in B
      BY <3>1, <3>2 DEF Places
    <3> QED BY <3>2, <3>3
  <2> HIDE DEF f, A, B
  <2>4. f \in Bijection(B, A)
    BY <2>1, <2>2, <2>3 DEF Bijection, Injection, Surjection, IsInjective
  <2> QED BY <2>4 DEF ExistsBijection
<1>6. Cardinality(A) = Cardinality(B)
  BY <1>4, <1>5, FS_Bijection
<1>7. Count(x, t) = Cardinality(B) /\ Count(x, s) = Cardinality(A)
  BY <1>3, CountType
<1> QED BY <1>1, <1>3, <1>6, <1>7

-----------------------------------------------------------------------------
(* Where something stands in sequences, of which those up to m count.      *)
Sites(x, seqs, m) ==
  {q \in (1 .. m) \X Nat : q[2] \in DOMAIN seqs[q[1]] /\ seqs[q[1]][q[2]] = x}

LEMMA SitesGrow ==
  ASSUME NEW U, NEW seqs \in Seq(Seq(U)), NEW x,
         NEW k \in 0 .. Len(seqs) - 1, IsFiniteSet(Sites(x, seqs, k))
  PROVE  /\ IsFiniteSet(Sites(x, seqs, k + 1))
         /\ Cardinality(Sites(x, seqs, k + 1))
              = Cardinality(Sites(x, seqs, k)) + Count(x, seqs[k + 1])
<1> DEFINE A == Sites(x, seqs, k)
<1> DEFINE B == {q \in {k + 1} \X Nat : q[2] \in Places(x, seqs[k + 1])}
<1>1. k \in Nat /\ k + 1 \in 1 .. Len(seqs) /\ seqs[k + 1] \in Seq(U)
  <2>1. Len(seqs) \in Nat
    BY LenProperties
  <2>2. k \in Nat /\ k + 1 \in 1 .. Len(seqs)
    BY <2>1
  <2> QED BY <2>2, ElementOfSeq
<1>2. /\ IsFiniteSet(Places(x, seqs[k + 1]))
      /\ Count(x, seqs[k + 1]) = Cardinality(Places(x, seqs[k + 1]))
  BY <1>1, CountType
<1>3. ExistsBijection(Places(x, seqs[k + 1]), B)
  <2> DEFINE P == Places(x, seqs[k + 1])
  <2> DEFINE f == [i \in P |-> <<k + 1, i>>]
  <2>1. P \subseteq Nat
    BY <1>1, LenProperties DEF Places
  <2>2. \A i \in P : f[i] \in B
    BY <2>1
  <2>3. \A i, j \in P : f[i] = f[j] => i = j
    OBVIOUS
  <2>4. ASSUME NEW b \in B PROVE \E i \in P : f[i] = b
    <3>1. b[2] \in P /\ b = <<k + 1, b[2]>>
      OBVIOUS
    <3> QED BY <3>1
  <2>5. f = [i \in P |-> f[i]]
    OBVIOUS
  <2> HIDE DEF f, P, B
  <2>6. f \in Bijection(P, B)
    BY <2>2, <2>3, <2>4, <2>5 DEF Bijection, Injection, Surjection, IsInjective
  <2> QED BY <2>6 DEF ExistsBijection, P
<1>4. IsFiniteSet(B) /\ Cardinality(B) = Count(x, seqs[k + 1])
  <2> HIDE DEF B
  <2> QED BY <1>2, <1>3, FS_Bijection
<1>5. Sites(x, seqs, k + 1) = A \cup B
  <2>1. (1 .. k + 1) = (1 .. k) \cup {k + 1}
    BY <1>1
  <2> QED BY <2>1 DEF Sites, Places
<1>6. A \cap B = {}
  <2>1. k + 1 \notin 1 .. k
    BY <1>1
  <2> QED BY <2>1 DEF Sites
<1> HIDE DEF A, B
<1>7. IsFiniteSet(A \cup B) /\ Cardinality(A \cup B) = Cardinality(A) + Cardinality(B)
  <2>1. IsFiniteSet(A)
    BY DEF A
  <2> QED BY <1>4, <1>6, <2>1, CountsAdd
<1> QED BY <1>4, <1>5, <1>7 DEF A

(* What is in sequences put together is in one of them.                    *)
LEMMA CountFlat ==
  ASSUME NEW U, NEW seqs \in Seq(Seq(U)), NEW x
  PROVE  /\ FlattenSeq(seqs) \in Seq(U)
         /\ IsFiniteSet(Sites(x, seqs, Len(seqs)))
         /\ Count(x, FlattenSeq(seqs)) = Cardinality(Sites(x, seqs, Len(seqs)))
<1> DEFINE n == Len(seqs)
<1>0. n \in Nat /\ \A k \in 1 .. n : seqs[k] \in Seq(U)
  BY LenProperties, ElementOfSeq
<1>1. PICK g : /\ g \in [0 .. n -> Seq(U)] /\ g[0] = <<>>
               /\ \A k \in 1 .. n : g[k] = g[k - 1] \o seqs[k]
               /\ g[n] = FlattenSeq(seqs)
  <2>1. PICK g : FlatRun(g, U, seqs)
    BY FlattenRuns
  <2> QED BY <2>1 DEF FlatRun
<1> DEFINE S == {k \in Nat : /\ IsFiniteSet(Sites(x, seqs, k))
                            /\ Count(x, g[k]) = Cardinality(Sites(x, seqs, k))}
<1>2. 0 \in S
  <2>1. Sites(x, seqs, 0) = {}
    BY DEF Sites
  <2> QED BY <1>1, <2>1, CountEmpty, FS_EmptySet
<1>3. ASSUME NEW k \in 0 .. n - 1, k \in S PROVE k + 1 \in S
  <2>1. k \in Nat /\ k + 1 \in 1 .. n /\ (k + 1) - 1 = k /\ k \in 0 .. n /\ k + 1 \in Nat
    BY <1>0
  <2>2. IsFiniteSet(Sites(x, seqs, k)) /\ Count(x, g[k]) = Cardinality(Sites(x, seqs, k))
    BY <1>3
  <2>3. /\ IsFiniteSet(Sites(x, seqs, k + 1))
        /\ Cardinality(Sites(x, seqs, k + 1))
             = Cardinality(Sites(x, seqs, k)) + Count(x, seqs[k + 1])
    BY <2>2, SitesGrow
  <2>4. Count(x, g[k + 1]) = Count(x, g[k]) + Count(x, seqs[k + 1])
    <3>1. g[k + 1] = g[k] \o seqs[k + 1] /\ g[k] \in Seq(U) /\ seqs[k + 1] \in Seq(U)
      BY <1>0, <1>1, <2>1
    <3> QED BY <3>1, CountConcat
  <2> QED BY <2>1, <2>2, <2>3, <2>4
<1>4. n \in S
  <2> HIDE DEF S, n
  <2>1. \A k \in 0 .. n : k \in S
    BY <1>0, <1>2, <1>3, UpTo
  <2> QED BY <1>0, <2>1
<1>5. g[n] \in Seq(U)
  BY <1>0, <1>1
<1> QED BY <1>1, <1>4, <1>5

(* It makes no difference in which order the sequences come.               *)
LEMMA CountFlatPermuted ==
  ASSUME NEW U, NEW seqs \in Seq(Seq(U)), NEW p \in Bijection(1 .. Len(seqs), 1 .. Len(seqs)),
         NEW x
  PROVE  /\ [k \in 1 .. Len(seqs) |-> seqs[p[k]]] \in Seq(Seq(U))
         /\ Count(x, FlattenSeq([k \in 1 .. Len(seqs) |-> seqs[p[k]]])) = Count(x, FlattenSeq(seqs))
<1> DEFINE n == Len(seqs)
<1> DEFINE t == [k \in 1 .. n |-> seqs[p[k]]]
<1> DEFINE A == Sites(x, seqs, n)
<1> DEFINE B == Sites(x, t, n)
<1>0. DOMAIN seqs = 1 .. n
  BY LenProperties
<1>1. t \in Seq(Seq(U)) /\ Len(t) = n
  <2> DEFINE V == Seq(U)
  <2> HIDE DEF V
  <2>1. seqs \in Seq(V)
    BY DEF V
  <2>2. [k \in DOMAIN seqs |-> seqs[p[k]]] = t
    BY <1>0
  <2>3. t \in Seq(V) /\ Len(t) = n
    <3> HIDE DEF t
    <3> QED BY <2>1, <2>2, CountPermuted
  <2> QED BY <2>3 DEF V
<1>2. /\ p \in [1 .. n -> 1 .. n] /\ \A j, k \in 1 .. n : p[j] = p[k] => j = k
      /\ \A k \in 1 .. n : \E j \in 1 .. n : p[j] = k
  BY DEF Bijection, Injection, Surjection, IsInjective
<1>3. \A k \in 1 .. n : t[k] = seqs[p[k]]
  OBVIOUS
<1> HIDE DEF t
<1>4. ExistsBijection(B, A)
  <2> DEFINE f == [q \in B |-> <<p[q[1]], q[2]>>]
  <2>1. \A q \in B : f[q] \in A
    BY <1>2, <1>3 DEF Sites
  <2>2. ASSUME NEW q \in B, NEW r \in B, f[q] = f[r] PROVE q = r
    <3>1. q = <<q[1], q[2]>> /\ r = <<r[1], r[2]>> /\ q[1] \in 1 .. n /\ r[1] \in 1 .. n
      BY DEF Sites
    <3>2. p[q[1]] = p[r[1]] /\ q[2] = r[2]
      BY <2>2
    <3> QED BY <1>2, <3>1, <3>2
  <2>3. ASSUME NEW a \in A PROVE \E q \in B : f[q] = a
    <3>1. a = <<a[1], a[2]>> /\ a[1] \in 1 .. n /\ a[2] \in Nat
      BY DEF Sites
    <3>2. PICK j \in 1 .. n : p[j] = a[1]
      BY <1>2, <3>1
    <3>3. <<j, a[2]>> \in B
      BY <1>3, <3>1, <3>2 DEF Sites
    <3>4. f[<<j, a[2]>>] = a
      BY <3>1, <3>2, <3>3
    <3> QED BY <3>3, <3>4
  <2>4. f = [q \in B |-> f[q]]
    OBVIOUS
  <2> HIDE DEF f, A, B
  <2>5. f \in Bijection(B, A)
    BY <2>1, <2>2, <2>3, <2>4 DEF Bijection, Injection, Surjection, IsInjective
  <2> QED BY <2>5 DEF ExistsBijection
<1>5. IsFiniteSet(B) /\ Count(x, FlattenSeq(t)) = Cardinality(B)
  BY <1>1, CountFlat
<1>6. Count(x, FlattenSeq(seqs)) = Cardinality(A)
  BY CountFlat
<1>7. Cardinality(A) = Cardinality(B)
  <2> HIDE DEF A, B
  <2> QED BY <1>4, <1>5, FS_Bijection
<1> QED BY <1>1, <1>5, <1>6, <1>7 DEF t

-----------------------------------------------------------------------------
(* std::shuffle permutes.                                                  *)
IsOrder(order) == \A n \in DOMAIN order : n \in Nat /\ order[n] \in Bijection(1 .. n, 1 .. n)

LEMMA PermutedCounts ==
  ASSUME NEW order, IsOrder(order), NEW U, NEW s \in Seq(U)
  PROVE  /\ Permuted(s, order) \in Seq(U) /\ Len(Permuted(s, order)) = Len(s)
         /\ \A x : Count(x, Permuted(s, order)) = Count(x, s)
<1>1. CASE Len(s) \in DOMAIN order
  <2>1. order[Len(s)] \in Bijection(1 .. Len(s), 1 .. Len(s))
    BY <1>1 DEF IsOrder
  <2> DEFINE p == order[Len(s)]
  <2>2. Permuted(s, order) = [k \in DOMAIN s |-> s[p[k]]]
    BY <1>1 DEF Permuted
  <2>3. p \in Bijection(1 .. Len(s), 1 .. Len(s))
    BY <2>1
  <2> HIDE DEF p
  <2>4. ASSUME NEW x
        PROVE  /\ [k \in DOMAIN s |-> s[p[k]]] \in Seq(U)
               /\ Len([k \in DOMAIN s |-> s[p[k]]]) = Len(s)
               /\ Count(x, [k \in DOMAIN s |-> s[p[k]]]) = Count(x, s)
    BY <2>3, CountPermuted
  <2> QED BY <2>2, <2>4
<1>2. CASE Len(s) \notin DOMAIN order
  BY <1>2 DEF Permuted
<1> QED BY <1>1, <1>2

(* Two permutations, one after the other, are a permutation.               *)
LEMMA Composed ==
  ASSUME NEW S, NEW f \in Bijection(S, S), NEW p \in Bijection(S, S)
  PROVE  [k \in S |-> f[p[k]]] \in Bijection(S, S)
<1> USE DEF Bijection, Injection, Surjection, IsInjective
<1>1. f \in [S -> S] /\ p \in [S -> S] /\ DOMAIN f = S /\ DOMAIN p = S
  OBVIOUS
<1>2. ASSUME NEW j \in S, NEW k \in S, f[p[j]] = f[p[k]] PROVE j = k
  <2>1. p[j] \in S /\ p[k] \in S
    BY <1>1
  <2>2. p[j] = p[k]
    BY <1>1, <1>2, <2>1
  <2> QED BY <1>1, <2>2
<1>3. \A k \in S : \E j \in S : f[p[j]] = k
  BY <1>1
<1> QED BY <1>1, <1>2, <1>3

(* A shuffled permutation is one (StreamDataManager: Next).                *)
LEMMA PermutedNames ==
  ASSUME NEW order, IsOrder(order), NEW n \in Nat,
         NEW s \in Seq(Nat), Len(s) = n, s \in Bijection(1 .. n, 1 .. n)
  PROVE  Permuted(s, order) \in Bijection(1 .. n, 1 .. n)
<1>1. CASE n \in DOMAIN order
  <2> DEFINE p == order[n]
  <2>1. p \in Bijection(1 .. n, 1 .. n)
    BY <1>1 DEF IsOrder
  <2>2. Permuted(s, order) = [k \in 1 .. n |-> s[p[k]]]
    BY <1>1, LenProperties DEF Permuted
  <2> HIDE DEF p
  <2>3. [k \in 1 .. n |-> s[p[k]]] \in Bijection(1 .. n, 1 .. n)
    BY <2>1, Composed
  <2> QED BY <2>2, <2>3
<1>2. CASE n \notin DOMAIN order
  BY <1>2 DEF Permuted
<1> QED BY <1>1, <1>2

(* Two indexes that are one and two.                                       *)
OneEach(a, b) ==
  \/ a = 1 /\ b = 2
  \/ a = 2 /\ b = 1

LEMMA PermutedPair ==
  ASSUME NEW order, IsOrder(order)
  PROVE  OneEach(Permuted(<<1, 2>>, order)[1], Permuted(<<1, 2>>, order)[2])
<1> DEFINE r == Permuted(<<1, 2>>, order)
<1>1. /\ <<1, 2>> \in Seq(Nat) /\ Len(<<1, 2>>) = 2 /\ 1 .. 2 = {1, 2}
      /\ <<1, 2>> \in [1 .. 2 -> 1 .. 2] /\ <<1, 2>>[1] = 1 /\ <<1, 2>>[2] = 2
  OBVIOUS
<1>2. <<1, 2>> \in Bijection(1 .. 2, 1 .. 2)
  BY <1>1 DEF Bijection, Injection, Surjection, IsInjective
<1>3. r \in Bijection(1 .. 2, 1 .. 2)
  BY <1>1, <1>2, PermutedNames
<1>4. r[1] \in {1, 2} /\ r[2] \in {1, 2} /\ r[1] # r[2]
  BY <1>1, <1>3 DEF Bijection, Injection, IsInjective
<1> QED BY <1>4 DEF OneEach

-----------------------------------------------------------------------------
(***************************************************************************)
(* What StreamDataManager keeps, of sentences from a set U: chunk files,   *)
(* listed once each; the same sentences in memory when there are one or    *)
(* two chunks; and in the middle of a pass, that what was handed out are   *)
(* the first chunks of the list, and that the next one is at hand.         *)
(***************************************************************************)
Stored(d, U) ==
  /\ DOMAIN d = {"disk", "names", "mem", "cur", "next", "queue"}
  /\ d.disk \in Seq(Seq(U))
  /\ d.names \in Seq(Nat) /\ Len(d.names) = Len(d.disk)
  /\ d.names \in Bijection(1 .. Len(d.disk), 1 .. Len(d.disk))
  /\ DOMAIN d.mem = {1, 2}

InMemory(d, U) ==
  /\ Len(d.disk) > 0 => d.mem[1] \in Seq(U) /\ d.mem[2] \in Seq(U)
  /\ Len(d.disk) = 1 => \A x : Count(x, d.mem[1]) = Count(x, FlattenSeq(d.disk))
  /\ Len(d.disk) = 2 => \A x : Count(x, d.mem[1]) + Count(x, d.mem[2]) = Count(x, FlattenSeq(d.disk))

InOrder(d) == [k \in 1 .. Len(d.disk) |-> Chunk(d, k)]

(* How many chunks were handed out.                                        *)
Gone(d) == Len(d.disk) - Len(d.queue)

HandedOut(d, x, n) ==
  CASE n = 1 -> IF Gone(d) = 0 THEN 0 ELSE Count(x, d.mem[1])
    [] n = 2 -> IF Gone(d) = 0 THEN 0
                ELSE IF Gone(d) = 1 THEN Count(x, d.mem[d.cur])
                ELSE Count(x, d.mem[1]) + Count(x, d.mem[2])
    [] OTHER -> Cardinality(Sites(x, InOrder(d), Gone(d)))

Midway(d, U, seen) ==
  /\ Len(d.queue) \in 0 .. Len(d.disk)
  /\ d.queue = [k \in 1 .. Len(d.queue) |-> Gone(d) + k]
  /\ Len(d.disk) = 1 => d.cur = 1 /\ d.next = 1
  /\ Len(d.disk) > 1 => OneEach(d.cur, d.next)
  /\ Len(d.disk) > 2 /\ d.queue # <<>> => d.mem[d.next] = Chunk(d, Gone(d) + 1)
  /\ seen \in Seq(U)
  /\ \A x : Count(x, seen) = HandedOut(d, x, Len(d.disk))

LEMMA InOrderCounts ==
  ASSUME NEW U, NEW d, Stored(d, U)
  PROVE  /\ InOrder(d) \in Seq(Seq(U)) /\ Len(InOrder(d)) = Len(d.disk)
         /\ \A k \in 1 .. Len(d.disk) : InOrder(d)[k] = Chunk(d, k) /\ Chunk(d, k) \in Seq(U)
         /\ \A x : \A m \in 0 .. Len(d.disk) : IsFiniteSet(Sites(x, InOrder(d), m))
         /\ \A x : Cardinality(Sites(x, InOrder(d), Len(d.disk))) = Count(x, FlattenSeq(d.disk))
<1> DEFINE n == Len(d.disk)
<1> DEFINE t == InOrder(d)
<1>1. d.disk \in Seq(Seq(U)) /\ d.names \in Bijection(1 .. n, 1 .. n) /\ n \in Nat
  BY LenProperties DEF Stored
<1>2. t = [k \in 1 .. n |-> d.disk[d.names[k]]]
  BY DEF InOrder, Chunk
<1>3. t \in Seq(Seq(U)) /\ \A x : Count(x, FlattenSeq(t)) = Count(x, FlattenSeq(d.disk))
  BY <1>1, <1>2, CountFlatPermuted, ZenonT(60)
<1>4. Len(t) = n
  BY <1>1, <1>2, <1>3, LenProperties
<1> HIDE DEF t
<1>5. \A x : /\ IsFiniteSet(Sites(x, t, n))
             /\ Count(x, FlattenSeq(t)) = Cardinality(Sites(x, t, n))
  BY <1>3, <1>4, CountFlat
<1>6. ASSUME NEW x, NEW m \in 0 .. n PROVE IsFiniteSet(Sites(x, t, m))
  <2>1. Sites(x, t, m) \in SUBSET Sites(x, t, n)
    BY <1>1 DEF Sites
  <2> QED BY <1>5, <2>1, FS_Subset
<1>7. \A k \in 1 .. n : t[k] = Chunk(d, k)
  BY <1>2 DEF Chunk
<1>8. \A k \in 1 .. n : t[k] \in Seq(U)
  BY <1>3, <1>4, ElementOfSeq
<1> QED BY <1>3, <1>4, <1>5, <1>6, <1>7, <1>8 DEF t

-----------------------------------------------------------------------------
(* Flush: all the chunks are to be handed out again.                       *)
Flushed(f, d, U) ==
  /\ Stored(f, U) /\ f.disk = d.disk
  /\ f.queue = [k \in 1 .. Len(d.disk) |-> k]
  /\ Len(d.disk) = 1 => f.cur = 1 /\ f.next = 1
  /\ Len(d.disk) = 2 => OneEach(f.cur, f.next)
  /\ Len(d.disk) \in {1, 2} => f.mem = d.mem
  /\ Len(d.disk) \notin {1, 2} =>
       f.next = 1 /\ f.cur = 2 /\ f.mem = [d.mem EXCEPT ![1] = Chunk(f, 1)]

LEMMA FlushKeeps ==
  ASSUME NEW order, IsOrder(order), NEW U, NEW d, Stored(d, U)
  PROVE  Flushed(Flush(d, order), d, U)
<1> DEFINE n == Len(d.disk)
<1> DEFINE names == Permuted(d.names, order)
<1> DEFINE r == Permuted(<<1, 2>>, order)
<1> DEFINE queue == [k \in 1 .. n |-> k]
<1> DEFINE e == [d EXCEPT !.names = names, !.queue = queue]
<1> DEFINE f == Flush(d, order)
<1>0. n \in Nat /\ Len(d.names) = n /\ DOMAIN d = {"disk", "names", "mem", "cur", "next", "queue"}
  BY LenProperties DEF Stored
<1>1. names \in Seq(Nat) /\ Len(names) = n /\ names \in Bijection(1 .. n, 1 .. n)
  BY <1>0, PermutedCounts, PermutedNames DEF Stored
<1>2. OneEach(r[1], r[2])
  BY PermutedPair
<1>3. f = CASE n = 1 -> [e EXCEPT !.cur = 1, !.next = 1]
            [] n = 2 -> [e EXCEPT !.next = r[1], !.cur = r[2]]
            [] OTHER -> [e EXCEPT !.next = 1, !.cur = 2, !.mem[1] = Chunk(e, 1)]
  BY <1>0 DEF Flush, ChunkSize
<1> HIDE DEF f, names, r, queue
<1>4. /\ DOMAIN e = {"disk", "names", "mem", "cur", "next", "queue"}
      /\ e.disk = d.disk /\ e.names = names /\ e.mem = d.mem /\ e.queue = queue
  BY <1>0
<1> HIDE DEF e
<1>5. CASE n = 1
  <2>1. f = [e EXCEPT !.cur = 1, !.next = 1]
    BY <1>3, <1>5
  <2>2. /\ DOMAIN f = DOMAIN e /\ f.disk = d.disk /\ f.names = names /\ f.mem = d.mem
        /\ f.queue = queue /\ f.cur = 1 /\ f.next = 1
    BY <1>4, <2>1
  <2>3. Stored(f, U)
    BY <1>1, <1>4, <2>2 DEF Stored
  <2>9. Flushed(f, d, U)
    BY <1>5, <2>2, <2>3 DEF queue, Flushed
  <2> QED BY <2>9 DEF f
<1>6. CASE n = 2
  <2>1. f = [e EXCEPT !.next = r[1], !.cur = r[2]]
    BY <1>3, <1>6
  <2>2. /\ DOMAIN f = DOMAIN e /\ f.disk = d.disk /\ f.names = names /\ f.mem = d.mem
        /\ f.queue = queue /\ f.next = r[1] /\ f.cur = r[2]
    BY <1>4, <2>1
  <2>3. Stored(f, U)
    BY <1>1, <1>4, <2>2 DEF Stored
  <2>9. Flushed(f, d, U)
    BY <1>2, <1>6, <2>2, <2>3 DEF queue, Flushed, OneEach
  <2> QED BY <2>9 DEF f
<1>7. CASE n \notin {1, 2}
  <2>1. f = [e EXCEPT !.next = 1, !.cur = 2, !.mem[1] = Chunk(e, 1)]
    BY <1>3, <1>7
  <2>2. /\ DOMAIN f = DOMAIN e /\ f.disk = d.disk /\ f.names = names
        /\ f.mem = [d.mem EXCEPT ![1] = Chunk(e, 1)]
        /\ f.queue = queue /\ f.next = 1 /\ f.cur = 2
    BY <1>4, <2>1
  <2>3. DOMAIN f.mem = {1, 2}
    BY <2>2 DEF Stored
  <2>4. Stored(f, U)
    BY <1>1, <1>4, <2>2, <2>3 DEF Stored
  <2>5. Chunk(f, 1) = Chunk(e, 1)
    BY <1>4, <2>2 DEF Chunk
  <2>9. Flushed(f, d, U)
    BY <1>7, <2>2, <2>4, <2>5 DEF queue, Flushed
  <2> QED BY <2>9 DEF f
<1> QED BY <1>5, <1>6, <1>7

(* The end of the constructor.                                             *)
LEMMA LoadAllKeeps ==
  ASSUME NEW order, IsOrder(order), NEW U, NEW d, Stored(d, U), d.mem[2] \in Seq(U)
  PROVE  /\ Stored(LoadAll(Flush(d, order)), U) /\ InMemory(LoadAll(Flush(d, order)), U)
         /\ LoadAll(Flush(d, order)).disk = d.disk
<1> DEFINE n == Len(d.disk)
<1> DEFINE f == Flush(d, order)
<1> DEFINE e == LoadAll(f)
<1>0. n \in Nat /\ Stored(f, U) /\ f.disk = d.disk /\ Len(f.names) = n
  <2>1. Flushed(f, d, U)
    BY FlushKeeps
  <2>2. n \in Nat
    BY LenProperties DEF Stored
  <2> HIDE DEF f
  <2> QED BY <2>1, <2>2 DEF Flushed, Stored
<1>1. /\ \A k \in 1 .. n : InOrder(f)[k] = Chunk(f, k) /\ Chunk(f, k) \in Seq(U)
      /\ \A x : Cardinality(Sites(x, InOrder(f), n)) = Count(x, FlattenSeq(d.disk))
      /\ InOrder(f) \in Seq(Seq(U)) /\ Len(InOrder(f)) = n
      /\ \A x : \A m \in 0 .. n : IsFiniteSet(Sites(x, InOrder(f), m))
  <2> HIDE DEF f
  <2> QED BY <1>0, InOrderCounts
<1>2. CASE n > 2
  <2>1. e = f
    <3> HIDE DEF f
    <3> QED BY <1>0, <1>2 DEF LoadAll, ChunkSize
  <2>2. f.mem = [d.mem EXCEPT ![1] = Chunk(f, 1)] /\ DOMAIN d.mem = {1, 2}
    <3>1. Flushed(f, d, U) /\ DOMAIN d.mem = {1, 2}
      BY FlushKeeps DEF Stored
    <3> HIDE DEF f
    <3>2. n # 1 /\ n # 2
      <4> HIDE DEF n
      <4> QED BY <1>0, <1>2
    <3> QED BY <3>1, <3>2 DEF Flushed
  <2> HIDE DEF e, f
  <2>3. f.mem[1] \in Seq(U) /\ f.mem[2] \in Seq(U)
    BY <1>0, <1>1, <1>2, <2>2
  <2>4. InMemory(f, U)
    <3>1. Len(f.disk) = n
      BY <1>0
    <3> HIDE DEF n
    <3>2. n # 1 /\ n # 2
      BY <1>0, <1>2
    <3> QED BY <2>3, <3>1, <3>2 DEF InMemory
  <2>5. InMemory(e, U) /\ Stored(e, U) /\ e.disk = d.disk
    BY <1>0, <2>1, <2>4
  <2> QED BY <2>5 DEF e, f
<1>3. CASE n <= 2
  <2> DEFINE mem == [i \in 1 .. 2 |-> IF i <= n THEN Chunk(f, i) ELSE <<>>]
  <2>1. e = [f EXCEPT !.mem = mem]
    <3> HIDE DEF f
    <3> QED BY <1>0, <1>3 DEF LoadAll, ChunkSize
  <2> HIDE DEF e, f
  <2>2. /\ DOMAIN e = DOMAIN f /\ e.mem = mem /\ e.disk = f.disk /\ e.names = f.names
    BY <1>0, <2>1 DEF Stored
  <2>3. Stored(e, U)
    BY <1>0, <2>2 DEF Stored
  <2>4. mem[1] \in Seq(U) /\ mem[2] \in Seq(U)
    BY <1>0, <1>1
  <2>5. ASSUME n = 1, NEW x PROVE Count(x, mem[1]) = Count(x, FlattenSeq(d.disk))
    <3>1. mem[1] = Chunk(f, 1) /\ mem[1] = InOrder(f)[1] /\ Count(x, mem[1]) \in Nat
      BY <1>1, <2>4, <2>5, CountType
    <3>2. Cardinality(Sites(x, InOrder(f), 0)) = 0
      <4>1. Sites(x, InOrder(f), 0) = {}
        BY DEF Sites
      <4> QED BY <4>1, FS_EmptySet
    <3>3. Cardinality(Sites(x, InOrder(f), 1)) = Cardinality(Sites(x, InOrder(f), 0)) + Count(x, InOrder(f)[1])
      <4>1. 0 \in 0 .. Len(InOrder(f)) - 1 /\ IsFiniteSet(Sites(x, InOrder(f), 0)) /\ 0 + 1 = 1
        BY <1>1, <2>5
      <4> QED BY <1>1, <4>1, SitesGrow
    <3>4. Cardinality(Sites(x, InOrder(f), 1)) = Count(x, FlattenSeq(d.disk))
      BY <1>1, <2>5
    <3> QED BY <3>1, <3>2, <3>3, <3>4
  <2>6. ASSUME n = 2, NEW x
        PROVE  Count(x, mem[1]) + Count(x, mem[2]) = Count(x, FlattenSeq(d.disk))
    <3>1. /\ mem[1] = InOrder(f)[1] /\ mem[2] = InOrder(f)[2]
          /\ Count(x, mem[1]) \in Nat /\ Count(x, mem[2]) \in Nat
      BY <1>1, <2>4, <2>6, CountType
    <3>2. Cardinality(Sites(x, InOrder(f), 0)) = 0
      <4>1. Sites(x, InOrder(f), 0) = {}
        BY DEF Sites
      <4> QED BY <4>1, FS_EmptySet
    <3>3. Cardinality(Sites(x, InOrder(f), 1)) = Cardinality(Sites(x, InOrder(f), 0)) + Count(x, InOrder(f)[1])
      <4>1. 0 \in 0 .. Len(InOrder(f)) - 1 /\ IsFiniteSet(Sites(x, InOrder(f), 0)) /\ 0 + 1 = 1
        BY <1>1, <2>6
      <4> QED BY <1>1, <4>1, SitesGrow
    <3>4. Cardinality(Sites(x, InOrder(f), 2)) = Cardinality(Sites(x, InOrder(f), 1)) + Count(x, InOrder(f)[2])
      <4>1. 1 \in 0 .. Len(InOrder(f)) - 1 /\ IsFiniteSet(Sites(x, InOrder(f), 1)) /\ 1 + 1 = 2
        BY <1>1, <2>6
      <4> QED BY <1>1, <4>1, SitesGrow
    <3>5. Cardinality(Sites(x, InOrder(f), 2)) = Count(x, FlattenSeq(d.disk))
      BY <1>1, <2>6
    <3> QED BY <3>1, <3>2, <3>3, <3>4, <3>5
  <2> HIDE DEF mem
  <2>7. InMemory(e, U) /\ Stored(e, U) /\ e.disk = d.disk
    BY <1>0, <2>2, <2>3, <2>4, <2>5, <2>6 DEF InMemory
  <2> QED BY <2>7 DEF e, f
<1> QED BY <1>0, <1>2, <1>3

(* The beginning of a pass.                                                *)
LEMMA PassBegins ==
  ASSUME NEW order, IsOrder(order), NEW U, NEW d, Stored(d, U), InMemory(d, U)
  PROVE  /\ Stored(Flush(d, order), U) /\ InMemory(Flush(d, order), U)
         /\ Midway(Flush(d, order), U, <<>>)
         /\ Flush(d, order).disk = d.disk
<1> DEFINE n == Len(d.disk)
<1> DEFINE f == Flush(d, order)
<1>0. /\ n \in Nat /\ Stored(f, U) /\ f.disk = d.disk /\ f.queue = [k \in 1 .. n |-> k]
      /\ n = 1 => f.cur = 1 /\ f.next = 1
      /\ n = 2 => OneEach(f.cur, f.next)
      /\ n \in {1, 2} => f.mem = d.mem
      /\ n \notin {1, 2} => /\ f.next = 1 /\ f.cur = 2
                           /\ f.mem = [d.mem EXCEPT ![1] = Chunk(f, 1)]
  <2>1. n \in Nat
    BY LenProperties DEF Stored
  <2>2. Flushed(f, d, U)
    BY FlushKeeps
  <2> HIDE DEF f
  <2> QED BY <2>1, <2>2 DEF Flushed
<1> HIDE DEF f
<1>1. /\ \A k \in 1 .. n : InOrder(f)[k] = Chunk(f, k) /\ Chunk(f, k) \in Seq(U)
  BY <1>0, InOrderCounts
<1>2. InMemory(f, U)
  <2>1. CASE n \in {1, 2}
    BY <1>0, <2>1 DEF InMemory
  <2>2. CASE n \notin {1, 2}
    <3>1. n > 0 => f.mem[1] \in Seq(U) /\ f.mem[2] \in Seq(U)
      <4>1. DOMAIN d.mem = {1, 2}
        BY DEF Stored
      <4> QED BY <1>0, <1>1, <2>2, <4>1 DEF InMemory
    <3> QED BY <1>0, <2>2, <3>1 DEF InMemory
  <2> QED BY <2>1, <2>2
<1>3. Len(f.queue) = n /\ Gone(f) = 0
  <2>1. Len(f.queue) = n
    BY <1>0
  <2> QED BY <1>0, <2>1 DEF Gone
<1>4. \A x : Count(x, <<>>) = HandedOut(f, x, n)
  <2>1. ASSUME NEW x PROVE Count(x, <<>>) = HandedOut(f, x, n)
    <3>1. Sites(x, InOrder(f), 0) = {}
      BY DEF Sites
    <3>2. Count(x, <<>>) = 0 /\ Cardinality(Sites(x, InOrder(f), 0)) = 0
      BY <3>1, CountEmpty, FS_EmptySet
    <3> QED BY <1>3, <3>2 DEF HandedOut
  <2> QED BY <2>1
<1>a. n > 2 => n \notin {1, 2}
  <2> HIDE DEF n
  <2> QED BY <1>0
<1>5. n > 1 => OneEach(f.cur, f.next)
  <2>1. n > 1 => n = 2 \/ n > 2
    <3> HIDE DEF n
    <3> QED BY <1>0
  <2> QED BY <1>0, <1>a, <2>1 DEF OneEach
<1>6. n > 2 => f.mem[f.next] = Chunk(f, 0 + 1)
  <2>1. DOMAIN d.mem = {1, 2} /\ 0 + 1 = 1
    BY DEF Stored
  <2> QED BY <1>0, <1>a, <2>1
<1>7. f.queue = [k \in 1 .. Len(f.queue) |-> Gone(f) + k]
  BY <1>0, <1>3
<1>8. Midway(f, U, <<>>)
  <2>1. <<>> \in Seq(U)
    OBVIOUS
  <2>2. Len(f.disk) = n /\ Len(f.queue) \in 0 .. n
    BY <1>0, <1>3
  <2> HIDE DEF n
  <2> QED BY <1>0, <1>3, <1>4, <1>5, <1>6, <1>7, <2>1, <2>2 DEF Midway
<1> QED BY <1>0, <1>2, <1>8 DEF f

(* Next, with the shuffle of what it hands out.                            *)
HandedNext(s, d, U) ==
  /\ Stored(s, U) /\ s.disk = d.disk /\ s.names = d.names
  /\ s.queue = [k \in 1 .. Len(d.queue) - 1 |-> Gone(d) + 1 + k]
  /\ s.cur = d.next /\ s.next = d.cur
  /\ s.mem[s.cur] \in Seq(U)
  /\ \A x : Count(x, s.mem[s.cur]) = Count(x, d.mem[d.next])
  /\ Len(d.disk) \in {1, 2} => \A i \in {1, 2} \ {s.cur} : s.mem[i] = d.mem[i]
  /\ Len(d.disk) > 2 /\ s.queue # <<>> => s.mem[s.next] = Chunk(s, Gone(d) + 2)
  /\ Len(d.disk) > 2 /\ s.queue = <<>> => s.mem[s.next] = d.mem[s.next]

Popped(q, m, h) ==
  /\ Tail(q) = [k \in 1 .. m - 1 |-> h + 1 + k]
  /\ Tail(q) # <<>> <=> m > 1
  /\ m > 1 => Head(Tail(q)) = h + 2

LEMMA TailOfQueue ==
  ASSUME NEW m \in Nat, m > 0, NEW h \in Nat, NEW q, q = [k \in 1 .. m |-> h + k]
  PROVE  Popped(q, m, h)
<1>1. q \in Seq(Nat) /\ Len(q) = m
  OBVIOUS
<1>2. q # <<>>
  BY <1>1
<1>3. /\ Tail(q) \in Seq(Nat) /\ Len(Tail(q)) = m - 1
      /\ \A k \in 1 .. m - 1 : Tail(q)[k] = q[k + 1]
  BY <1>1, <1>2, HeadTailProperties
<1>4. \A k \in 1 .. m - 1 : Tail(q)[k] = h + 1 + k
  BY <1>3
<1>5. DOMAIN Tail(q) = 1 .. m - 1
  BY <1>3, LenProperties
<1>6. Tail(q) = [k \in 1 .. m - 1 |-> h + 1 + k]
  BY <1>3, <1>4, <1>5
<1>7. m > 1 => Tail(q) # <<>> /\ Head(Tail(q)) = h + 2
  <2>1. m > 1 => 1 \in 1 .. m - 1 /\ h + 1 + 1 = h + 2
    OBVIOUS
  <2>2. m > 1 => Tail(q) # <<>>
    BY <1>3
  <2>3. m > 1 => Head(Tail(q)) = Tail(q)[1]
    BY <1>3, <2>2, HeadTailProperties
  <2> QED BY <1>4, <2>1, <2>2, <2>3
<1>8. ~(m > 1) => Tail(q) = <<>>
  BY <1>3, EmptySeq
<1> QED BY <1>6, <1>7, <1>8 DEF Popped

(* The next chunk that is handed out is one that was stored, shuffled      *)
(* (StreamDataManager: Next).                                              *)
LEMMA SwapHands ==
  ASSUME NEW order, IsOrder(order), NEW U, NEW d, NEW seen,
         Stored(d, U), InMemory(d, U), Midway(d, U, seen), d.queue # <<>>
  PROVE  HandedNext(Shuffled(Swap(d), order), d, U)
<1> DEFINE n == Len(d.disk)
<1> DEFINE m == Len(d.queue)
<1> DEFINE h == Gone(d)
<1> DEFINE e == [d EXCEPT !.queue = Tail(@), !.cur = d.next, !.next = d.cur]
<1> DEFINE w == Swap(d)
<1> DEFINE s == Shuffled(w, order)
<1>1. /\ n \in Nat /\ m \in Nat /\ m <= n /\ m > 0 /\ h = n - m /\ h \in Nat /\ n > 0
      /\ Len(d.names) = n
  <2>1. n \in Nat /\ m \in 0 .. n /\ h = n - m
    BY LenProperties DEF Stored, Midway, Gone
  <2>2. m # 0
    <3>1. d.queue = [k \in 1 .. m |-> h + k]
      BY DEF Midway
    <3>2. 1 .. 0 = {}
      OBVIOUS
    <3> HIDE DEF m, h
    <3>3. m = 0 => d.queue = <<>>
      BY <3>1, <3>2
    <3> QED BY <3>3
  <2> HIDE DEF n, m, h
  <2>3. m > 0 /\ m <= n /\ n > 0 /\ n - m \in Nat /\ m \in Nat
    BY <2>1, <2>2
  <2> QED BY <2>1, <2>3 DEF Stored, n
<1>2. /\ Tail(d.queue) = [k \in 1 .. m - 1 |-> h + 1 + k]
      /\ Tail(d.queue) # <<>> <=> m > 1
      /\ m > 1 => Head(Tail(d.queue)) = h + 2
  <2>1. d.queue = [k \in 1 .. m |-> h + k]
    BY DEF Midway
  <2> HIDE DEF m, h
  <2>2. Popped(d.queue, m, h)
    BY <1>1, <2>1, TailOfQueue
  <2> QED BY <2>2 DEF Popped
<1>3. /\ DOMAIN e = {"disk", "names", "mem", "cur", "next", "queue"}
      /\ e.disk = d.disk /\ e.names = d.names /\ e.mem = d.mem
      /\ e.cur = d.next /\ e.next = d.cur /\ e.queue = Tail(d.queue)
  BY DEF Stored
<1>4. w = IF n > 2 /\ e.queue # <<>> THEN [e EXCEPT !.mem[e.next] = Chunk(e, Head(e.queue))] ELSE e
  <2>1. ChunkSize(d) = n
    BY <1>1 DEF ChunkSize
  <2>2. w = IF ChunkSize(d) > 2 /\ ~IsEmpty(e)
            THEN [e EXCEPT !.mem[e.next] = Chunk(e, Head(e.queue))] ELSE e
    BY DEF Swap
  <2> HIDE DEF e, w, n
  <2> QED BY <2>1, <2>2 DEF IsEmpty
<1> HIDE DEF e, w, n, m, h
<1>5. d.cur \in {1, 2} /\ d.next \in {1, 2} /\ (n > 1 => d.cur # d.next) /\ (n = 1 => d.cur = 1 /\ d.next = 1)
  <2>1. CASE n = 1
    BY <2>1 DEF Midway, n
  <2>2. CASE n > 1
    <3>1. OneEach(d.cur, d.next)
      BY <2>2 DEF Midway, n
    <3>2. n # 1
      BY <1>1, <2>2
    <3> QED BY <3>1, <3>2 DEF OneEach
  <2> QED BY <1>1, <2>1, <2>2
<1>6. DOMAIN d.mem = {1, 2} /\ d.mem[1] \in Seq(U) /\ d.mem[2] \in Seq(U)
  BY <1>1 DEF Stored, InMemory, n
<1>7. /\ DOMAIN w = {"disk", "names", "mem", "cur", "next", "queue"}
      /\ w.disk = d.disk /\ w.names = d.names /\ DOMAIN w.mem = {1, 2}
      /\ w.cur = d.next /\ w.next = d.cur /\ w.queue = Tail(d.queue)
      /\ w.mem[w.cur] = d.mem[d.next]
      /\ n \in {1, 2} => w.mem = d.mem
      /\ n > 2 /\ w.queue # <<>> => w.mem[w.next] = Chunk(w, h + 2)
      /\ n > 2 /\ w.queue = <<>> => w.mem[w.next] = d.mem[w.next]
  <2>1. CASE n > 2 /\ e.queue # <<>>
    <3>1. w = [e EXCEPT !.mem[e.next] = Chunk(e, Head(e.queue))]
      BY <1>4, <2>1
    <3>2. Head(e.queue) = h + 2
      BY <1>2, <1>3, <2>1
    <3>3. /\ DOMAIN w = DOMAIN e /\ w.disk = e.disk /\ w.names = e.names
          /\ w.mem = [e.mem EXCEPT ![e.next] = Chunk(e, h + 2)]
          /\ w.cur = e.cur /\ w.next = e.next /\ w.queue = e.queue
      BY <1>3, <3>1, <3>2
    <3>4. Chunk(w, h + 2) = Chunk(e, h + 2)
      BY <3>3 DEF Chunk
    <3>5. n > 1 /\ n \notin {1, 2}
      BY <1>1, <2>1
    <3> QED BY <1>3, <1>5, <1>6, <2>1, <3>3, <3>4, <3>5
  <2>2. CASE ~(n > 2 /\ e.queue # <<>>)
    <3>1. w = e
      BY <1>4, <2>2
    <3> QED BY <1>3, <1>6, <2>2, <3>1
  <2> QED BY <2>1, <2>2
<1>8. w.mem[w.cur] \in Seq(U) /\ w.cur \in {1, 2} /\ w.next \in {1, 2}
  BY <1>5, <1>6, <1>7
<1>9. /\ DOMAIN s = DOMAIN w /\ s.disk = w.disk /\ s.names = w.names
      /\ s.mem = [w.mem EXCEPT ![w.cur] = Permuted(w.mem[w.cur], order)]
      /\ s.cur = w.cur /\ s.next = w.next /\ s.queue = w.queue
  BY <1>7 DEF Shuffled
<1> HIDE DEF s
<1>10. /\ s.mem[s.cur] \in Seq(U) /\ \A x : Count(x, s.mem[s.cur]) = Count(x, d.mem[d.next])
       /\ DOMAIN s.mem = {1, 2}
       /\ \A i \in {1, 2} \ {s.cur} : s.mem[i] = w.mem[i]
  <2>1. s.mem[s.cur] = Permuted(w.mem[w.cur], order)
    BY <1>7, <1>8, <1>9
  <2>2. /\ Permuted(w.mem[w.cur], order) \in Seq(U)
        /\ \A x : Count(x, Permuted(w.mem[w.cur], order)) = Count(x, w.mem[w.cur])
    BY <1>8, PermutedCounts
  <2> QED BY <1>7, <1>9, <2>1, <2>2
<1>11. Stored(s, U)
  BY <1>7, <1>9, <1>10 DEF Stored
<1>12. n > 2 => s.mem[s.next] = w.mem[w.next] /\ Chunk(s, h + 2) = Chunk(w, h + 2)
  <2>1. n > 2 => n > 1
    BY <1>1
  <2> QED BY <1>5, <1>7, <1>8, <1>9, <1>10, <2>1 DEF Chunk
<1>13. HandedNext(s, d, U)
  <2>1. n \in {1, 2} => \A i \in {1, 2} \ {s.cur} : s.mem[i] = d.mem[i]
    BY <1>7, <1>10
  <2>2. s.queue = [k \in 1 .. m - 1 |-> h + 1 + k]
    BY <1>2, <1>7, <1>9
  <2>3. /\ n > 2 /\ s.queue # <<>> => s.mem[s.next] = Chunk(s, h + 2)
        /\ n > 2 /\ s.queue = <<>> => s.mem[s.next] = d.mem[s.next]
    BY <1>7, <1>9, <1>12
  <2> QED BY <1>7, <1>9, <1>10, <1>11, <2>1, <2>2, <2>3 DEF HandedNext, n, m, h
<1> QED BY <1>13 DEF s, w

(* A chunk more was handed out.                                            *)
LEMMA ChunkHandedOut ==
  ASSUME NEW U, NEW d, NEW s, NEW seen,
         Stored(d, U), InMemory(d, U), Midway(d, U, seen), d.queue # <<>>, HandedNext(s, d, U)
  PROVE  /\ Stored(s, U) /\ InMemory(s, U) /\ Midway(s, U, seen \o Handed(s))
         /\ s.disk = d.disk
<1> DEFINE n == Len(d.disk)
<1> DEFINE m == Len(d.queue)
<1> DEFINE h == Gone(d)
<1>1. /\ n \in Nat /\ m \in Nat /\ m <= n /\ m > 0 /\ h = n - m /\ h \in Nat /\ n > 0
  <2>1. n \in Nat /\ m \in 0 .. n /\ h = n - m
    BY LenProperties DEF Stored, Midway, Gone
  <2>2. m # 0
    <3>1. d.queue = [k \in 1 .. m |-> h + k]
      BY DEF Midway
    <3>2. 1 .. 0 = {}
      OBVIOUS
    <3> HIDE DEF m, h
    <3>3. m = 0 => d.queue = <<>>
      BY <3>1, <3>2
    <3> QED BY <3>3
  <2> HIDE DEF n, m, h
  <2> QED BY <2>1, <2>2
<1>2. /\ Stored(s, U) /\ s.disk = d.disk /\ s.names = d.names
      /\ s.queue = [k \in 1 .. m - 1 |-> h + 1 + k]
      /\ s.cur = d.next /\ s.next = d.cur
      /\ s.mem[s.cur] \in Seq(U)
      /\ \A x : Count(x, s.mem[s.cur]) = Count(x, d.mem[d.next])
      /\ n \in {1, 2} => \A i \in {1, 2} \ {s.cur} : s.mem[i] = d.mem[i]
      /\ n > 2 /\ s.queue # <<>> => s.mem[s.next] = Chunk(s, h + 2)
      /\ n > 2 /\ s.queue = <<>> => s.mem[s.next] = d.mem[s.next]
  BY DEF HandedNext
<1>3. /\ n = 1 => d.cur = 1 /\ d.next = 1
      /\ n > 1 => OneEach(d.cur, d.next)
      /\ n > 2 => d.mem[d.next] = Chunk(d, h + 1)
      /\ seen \in Seq(U)
      /\ \A x : Count(x, seen) = HandedOut(d, x, n)
  BY DEF Midway
<1>4. /\ d.mem[1] \in Seq(U) /\ d.mem[2] \in Seq(U)
      /\ n = 1 => \A x : Count(x, d.mem[1]) = Count(x, FlattenSeq(d.disk))
      /\ n = 2 => \A x : Count(x, d.mem[1]) + Count(x, d.mem[2]) = Count(x, FlattenSeq(d.disk))
  BY <1>1 DEF InMemory
<1>5. Len(s.disk) = n
  BY <1>2
<1> HIDE DEF n, m, h
<1>6. Len(s.queue) = m - 1 /\ Gone(s) = h + 1 /\ Len(s.queue) \in 0 .. n
  <2>1. Len(s.queue) = m - 1
    BY <1>1, <1>2
  <2> QED BY <1>1, <1>5, <2>1 DEF Gone
<1>7. n > 2 => InOrder(s) = InOrder(d) /\ \A k : Chunk(s, k) = Chunk(d, k)
  BY <1>2 DEF InOrder, Chunk
<1>8. s.queue # <<>> => h + 2 \in 1 .. n
  <2>1. m = 1 => s.queue = <<>>
    BY <1>2
  <2> QED BY <1>1, <2>1
<1>9. s.mem[1] \in Seq(U) /\ s.mem[2] \in Seq(U)
  <2>1. CASE n = 1
    BY <1>2, <1>3, <1>4, <2>1
  <2>2. CASE n = 2
    BY <1>2, <1>3, <1>4, <2>2
  <2>3. CASE n > 2
    <3>0. OneEach(d.cur, d.next)
      BY <1>1, <1>3, <2>3
    <3>1. OneEach(s.cur, s.next)
      BY <1>2, <3>0 DEF OneEach
    <3>2. s.mem[s.next] \in Seq(U)
      <4>1. CASE s.queue = <<>>
        BY <1>2, <1>4, <2>3, <3>1, <4>1 DEF OneEach
      <4>2. CASE s.queue # <<>>
        <5>1. h + 2 \in 1 .. Len(s.disk)
          BY <1>5, <1>8, <4>2
        <5>2. Chunk(s, h + 2) \in Seq(U)
          BY <1>2, <5>1, InOrderCounts
        <5> QED BY <1>2, <2>3, <4>2, <5>2
      <4> QED BY <4>1, <4>2
    <3> QED BY <1>2, <3>1, <3>2 DEF OneEach
  <2> QED BY <1>1, <2>1, <2>2, <2>3
<1>10. ASSUME n = 1, NEW x PROVE Count(x, s.mem[1]) = Count(x, d.mem[1])
  <2>1. s.cur = 1 /\ d.next = 1
    BY <1>2, <1>3, <1>10
  <2> QED BY <1>2, <2>1
<1>11. ASSUME n = 2, NEW x
       PROVE  Count(x, s.mem[1]) + Count(x, s.mem[2]) = Count(x, d.mem[1]) + Count(x, d.mem[2])
  <2>1. \/ s.cur = 1 /\ d.next = 1 /\ s.next = 2
        \/ s.cur = 2 /\ d.next = 2 /\ s.next = 1
    <3>1. OneEach(d.cur, d.next)
      BY <1>1, <1>3, <1>11
    <3> QED BY <1>2, <3>1 DEF OneEach
  <2>2. Count(x, s.mem[s.cur]) = Count(x, d.mem[d.next]) /\ s.mem[s.next] = d.mem[s.next]
    BY <1>2, <1>11, <2>1
  <2>3. CASE s.cur = 1 /\ d.next = 1 /\ s.next = 2
    BY <2>2, <2>3
  <2>4. CASE s.cur = 2 /\ d.next = 2 /\ s.next = 1
    BY <2>2, <2>4
  <2> QED BY <2>1, <2>3, <2>4
<1>12. InMemory(s, U)
  BY <1>2, <1>4, <1>5, <1>9, <1>10, <1>11 DEF InMemory
<1>13. ASSUME NEW x PROVE Count(x, seen \o Handed(s)) = HandedOut(s, x, n)
  <2>1. /\ Handed(s) = s.mem[s.cur] /\ Handed(s) \in Seq(U)
        /\ Count(x, seen \o Handed(s)) = Count(x, seen) + Count(x, d.mem[d.next])
    BY <1>2, <1>3, CountConcat DEF Handed
  <2>2. Count(x, d.mem[d.next]) \in Nat
    <3>1. d.next \in {1, 2}
      <4>1. n = 1 \/ n > 1
        BY <1>1
      <4> QED BY <1>3, <4>1 DEF OneEach
    <3> QED BY <1>4, <3>1, CountType
  <2>3. CASE n = 1
    <3>1. h = 0 /\ Gone(s) = 1
      BY <1>1, <1>6, <2>3
    <3>2. Count(x, seen) = 0
      BY <1>3, <2>3, <3>1 DEF HandedOut, h
    <3>3. HandedOut(s, x, n) = Count(x, s.mem[1])
      BY <2>3, <3>1 DEF HandedOut
    <3>4. Count(x, s.mem[1]) = Count(x, d.mem[d.next])
      BY <1>3, <1>10, <2>3
    <3> QED BY <2>1, <2>2, <3>2, <3>3, <3>4
  <2>4. CASE n = 2 /\ h = 0
    <3>1. Gone(s) = 1
      BY <1>6, <2>4
    <3>2. Count(x, seen) = 0
      BY <1>3, <2>4 DEF HandedOut, h
    <3>3. HandedOut(s, x, n) = Count(x, s.mem[s.cur])
      BY <2>4, <3>1 DEF HandedOut
    <3> QED BY <1>2, <2>1, <2>2, <3>2, <3>3
  <2>5. CASE n = 2 /\ h = 1
    <3>1. Gone(s) = 2
      BY <1>6, <2>5
    <3>2. Count(x, seen) = Count(x, d.mem[d.cur])
      BY <1>3, <2>5 DEF HandedOut, h
    <3>3. HandedOut(s, x, n) = Count(x, s.mem[1]) + Count(x, s.mem[2])
      BY <2>5, <3>1 DEF HandedOut
    <3>4. Count(x, d.mem[1]) \in Nat /\ Count(x, d.mem[2]) \in Nat
      BY <1>4, CountType
    <3>5. \/ d.cur = 1 /\ d.next = 2
          \/ d.cur = 2 /\ d.next = 1
      <4>1. OneEach(d.cur, d.next)
        BY <1>3, <2>5
      <4> QED BY <4>1 DEF OneEach
    <3>6. HandedOut(s, x, n) = Count(x, d.mem[1]) + Count(x, d.mem[2])
      BY <1>11, <2>5, <3>3
    <3> QED BY <2>1, <3>2, <3>4, <3>5, <3>6
  <2>6. CASE n > 2
    <3>1. n # 1 /\ n # 2
      BY <1>1, <2>6
    <3>2. Count(x, seen) = Cardinality(Sites(x, InOrder(d), h))
      BY <1>3, <3>1 DEF HandedOut, h
    <3>3. HandedOut(s, x, n) = Cardinality(Sites(x, InOrder(d), h + 1))
      BY <1>6, <1>7, <2>6, <3>1 DEF HandedOut
    <3>4. /\ InOrder(d) \in Seq(Seq(U)) /\ Len(InOrder(d)) = n
          /\ h \in 0 .. n - 1 /\ h \in 0 .. n /\ h + 1 \in 1 .. n
          /\ InOrder(d)[h + 1] = d.mem[d.next]
          /\ IsFiniteSet(Sites(x, InOrder(d), h))
      <4>1. h \in 0 .. n - 1 /\ h \in 0 .. n /\ h + 1 \in 1 .. n
        BY <1>1
      <4>2. InOrder(d) \in Seq(Seq(U)) /\ Len(InOrder(d)) = n
        BY InOrderCounts DEF n
      <4>3. IsFiniteSet(Sites(x, InOrder(d), h))
        BY <4>1, InOrderCounts DEF n
      <4>4. InOrder(d)[h + 1] = Chunk(d, h + 1)
        BY <4>1, InOrderCounts DEF n
      <4> QED BY <1>3, <2>6, <4>1, <4>2, <4>3, <4>4
    <3>5. Cardinality(Sites(x, InOrder(d), h + 1))
            = Cardinality(Sites(x, InOrder(d), h)) + Count(x, InOrder(d)[h + 1])
      BY <3>4, SitesGrow
    <3> QED BY <2>1, <3>2, <3>3, <3>4, <3>5
  <2> QED BY <1>1, <2>3, <2>4, <2>5, <2>6
<1>14. seen \o Handed(s) \in Seq(U)
  BY <1>2, <1>3, ConcatProperties DEF Handed
<1>15. s.queue = [k \in 1 .. Len(s.queue) |-> Gone(s) + k]
  BY <1>2, <1>6
<1>16. n > 1 => OneEach(s.cur, s.next)
  BY <1>2, <1>3 DEF OneEach
<1>17. n > 2 /\ s.queue # <<>> => s.mem[s.next] = Chunk(s, Gone(s) + 1)
  <2>1. Gone(s) + 1 = h + 2
    BY <1>1, <1>6
  <2> QED BY <1>2, <2>1
<1>18. n = 1 => s.cur = 1 /\ s.next = 1
  BY <1>2, <1>3
<1>19. Midway(s, U, seen \o Handed(s))
  BY <1>5, <1>6, <1>13, <1>14, <1>15, <1>16, <1>17, <1>18 DEF Midway
<1> QED BY <1>2, <1>12, <1>19

(* After the last chunk every sentence was handed out as often as it is    *)
(* in the files.                                                           *)
LEMMA AllHandedOut ==
  ASSUME NEW U, NEW d, NEW seen,
         Stored(d, U), InMemory(d, U), Midway(d, U, seen), d.queue = <<>>
  PROVE  \A x : Count(x, FlattenSeq(d.disk)) = Count(x, seen)
<1> DEFINE n == Len(d.disk)
<1>1. n \in Nat /\ Gone(d) = n
  <2>1. n \in Nat /\ Len(d.queue) = 0
    BY LenProperties DEF Stored
  <2> HIDE DEF n
  <2> QED BY <2>1 DEF Gone, n
<1>2. ASSUME NEW x PROVE HandedOut(d, x, n) = Count(x, FlattenSeq(d.disk))
  <2>1. CASE n = 1
    BY <1>1, <2>1 DEF HandedOut, InMemory
  <2>2. CASE n = 2
    BY <1>1, <2>2 DEF HandedOut, InMemory
  <2>3. CASE n # 1 /\ n # 2
    <3>1. HandedOut(d, x, n) = Cardinality(Sites(x, InOrder(d), Gone(d)))
      BY <2>3 DEF HandedOut
    <3> QED BY <1>1, <3>1, InOrderCounts
  <2> QED BY <2>1, <2>2, <2>3
<1> QED BY <1>2 DEF Midway

-----------------------------------------------------------------------------
(* What is read from lines in L are sentences of their words, each with    *)
(* the tags it lists.                                                      *)
SentencesOf(L) ==
  [words : Seq([label : {l.label : l \in L}, features : {l.features : l \in L}]),
   tags : Seq(Nat)]
Reading(L) ==
  [data : Seq(SentencesOf(L)), open : SentencesOf(L), at : Int]

(* Reading goes on from line at, and not beyond line n.                    *)
ReadingOn(L, at, n) ==
  {r \in Reading(L) : /\ r.at >= at /\ (r.at = at => r.data = <<>>)
                      /\ (at <= n + 1 => r.at <= n + 1)}

AreLines(lines, L) ==
  /\ lines \in Seq(L)
  /\ \A l \in L : l.kind = "tags" => l.tags \in Seq(Nat)

LEMMA LineIsRead ==
  ASSUME NEW L, NEW l \in L, l.kind = "tags" => l.tags \in Seq(Nat), NEW r \in Reading(L)
  PROVE  ReadLine(r, l) \in Reading(L)
<1> DEFINE W == [label : {x.label : x \in L}, features : {x.features : x \in L}]
<1> DEFINE X == [words : Seq(W), tags : Seq(Nat)]
<1>0. /\ DOMAIN r = {"data", "open", "at"} /\ r = [data |-> r.data, open |-> r.open, at |-> r.at]
      /\ r.data \in Seq(X) /\ r.open \in X /\ r.at \in Int
      /\ r.open.words \in Seq(W) /\ r.open.tags \in Seq(Nat)
      /\ r.open = [words |-> r.open.words, tags |-> r.open.tags]
      /\ X = SentencesOf(L)
  BY DEF Reading, SentencesOf
<1> HIDE DEF W
<1>1. NoSentence \in X
  BY DEF NoSentence
<1>2. CASE l.kind = "comment"
  BY <1>2 DEF ReadLine
<1>3. CASE l.kind = "tags"
  <2>1. ReadLine(r, l) = [r EXCEPT !.open.tags = @ \o l.tags]
    BY <1>3 DEF ReadLine
  <2>2. r.open.tags \o l.tags \in Seq(Nat)
    BY <1>0, <1>3
  <2>3. [r.open EXCEPT !.tags = @ \o l.tags] \in X
    BY <1>0, <2>2
  <2> HIDE DEF X
  <2>4. ReadLine(r, l) = [data |-> r.data, open |-> [r.open EXCEPT !.tags = @ \o l.tags], at |-> r.at]
    BY <1>0, <2>1
  <2> QED BY <1>0, <2>3, <2>4 DEF Reading
<1>4. CASE l.kind = "word"
  <2> DEFINE w == [label |-> l.label, features |-> l.features]
  <2>1. ReadLine(r, l) = [r EXCEPT !.open.words = Append(@, w)]
    BY <1>4 DEF ReadLine
  <2>2. w \in W
    BY DEF W
  <2> HIDE DEF w
  <2>3. Append(r.open.words, w) \in Seq(W)
    BY <1>0, <2>2
  <2>4. [r.open EXCEPT !.words = Append(@, w)] \in X
    BY <1>0, <2>3
  <2> HIDE DEF X
  <2>5. ReadLine(r, l) = [data |-> r.data, open |-> [r.open EXCEPT !.words = Append(@, w)], at |-> r.at]
    BY <1>0, <2>1
  <2> QED BY <1>0, <2>4, <2>5 DEF Reading
<1>5. CASE l.kind \notin {"comment", "tags", "word"}
  <2>1. \/ ReadLine(r, l) = r
        \/ ReadLine(r, l) = [r EXCEPT !.data = Append(@, r.open), !.open = NoSentence]
    BY <1>5 DEF ReadLine
  <2> HIDE DEF X
  <2>2. Append(r.data, r.open) \in Seq(X)
    BY <1>0
  <2> DEFINE more == Append(r.data, r.open)
  <2> HIDE DEF more
  <2>3. [r EXCEPT !.data = more, !.open = NoSentence] \in [data : Seq(X), open : X, at : Int]
    BY <1>0, <1>1, <2>2 DEF more
  <2> QED BY <1>0, <2>1, <2>3 DEF Reading, more
<1> QED BY <1>2, <1>3, <1>4, <1>5

(* A reader reads sentences of the lines, and ends at a line behind the    *)
(* one it began with unless there was nothing to read (DataFormatter:      *)
(* Read).                                                                  *)
LEMMA SentencesAreRead ==
  ASSUME NEW L, NEW lines, AreLines(lines, L), NEW at \in Int, NEW size
  PROVE  /\ Read(lines, at, size).data \in Seq(SentencesOf(L))
         /\ Read(lines, at, size).at \in Int /\ Read(lines, at, size).at >= at
         /\ Read(lines, at, size).at = at => Read(lines, at, size).data = <<>>
         /\ at <= Len(lines) + 1 => Read(lines, at, size).at <= Len(lines) + 1
<1> DEFINE n == Len(lines)
<1> DEFINE op(r, k) == ReadFrom(lines, size, r, k)
<1> DEFINE seq == [k \in DOMAIN lines |-> k]
<1> DEFINE base == [data |-> <<>>, open |-> NoSentence, at |-> at]
<1> DEFINE V == ReadingOn(L, at, n)
<1> DEFINE F == [k \in 1 .. n |-> [v \in V |-> op(v, seq[k])]]
<1>0. n \in Nat /\ DOMAIN lines = 1 .. n /\ \A k \in 1 .. n : lines[k] \in L
  BY LenProperties, ElementOfSeq DEF AreLines
<1>1. base \in V
  BY <1>0 DEF ReadingOn, Reading, SentencesOf, NoSentence
<1>2. \A k \in 1 .. n : \A v \in V : F[k][v] = op(v, seq[k])
  OBVIOUS
<1>3. \A k \in 1 .. n : seq[k] = k
  BY <1>0
<1>a. DOMAIN seq = 1 .. n
  BY <1>0
<1>4. ASSUME NEW k \in 1 .. n, NEW v \in V PROVE op(v, k) \in V
  <2>1. ReadLine(v, lines[k]) \in Reading(L)
    BY <1>0, LineIsRead DEF AreLines, ReadingOn
  <2>2. k + 1 \in Int /\ k \in Int /\ k <= n
    BY <1>0
  <2>3. ASSUME k = v.at PROVE [ReadLine(v, lines[k]) EXCEPT !.at = k + 1] \in V
    <3> DEFINE w == [ReadLine(v, lines[k]) EXCEPT !.at = k + 1]
    <3>1. w \in Reading(L) /\ w.at = k + 1
      BY <2>1, <2>2 DEF Reading
    <3>2. k >= at
      BY <2>3 DEF ReadingOn
    <3> HIDE DEF w, n
    <3>3. w.at >= at /\ w.at # at /\ (at <= n + 1 => w.at <= n + 1)
      BY <1>0, <2>2, <3>1, <3>2
    <3>4. w \in ReadingOn(L, at, n)
      BY <3>1, <3>3 DEF ReadingOn
    <3> QED BY <3>4 DEF w
  <2> QED BY <2>3 DEF ReadFrom
<1> HIDE DEF F, seq
<1>5. Steps(F, V, 1 .. n)
  <2> HIDE DEF op, V
  <2> QED BY <1>2, <1>3, <1>4 DEF Steps
<1>6. \E it : it = [s \in SUBSET (1 .. n) |->
                     IF s = {} THEN base ELSE op(it[s \ {Max(s)}], seq[Max(s)])]
  <2>1. PICK it : LeftIteration(it, n, V, base, F)
    BY <1>0, <1>1, <1>5, LeftIterationExists
  <2>2. ASSUME NEW s \in SUBSET (1 .. n), s # {}
        PROVE  it[s] = op(it[s \ {Max(s)}], seq[Max(s)])
    <3>1. Max(s) \in 1 .. n /\ it[s \ {Max(s)}] \in V /\ it[s] = F[Max(s)][it[s \ {Max(s)}]]
      BY <2>1, <2>2 DEF LeftIteration
    <3> HIDE DEF V, op
    <3> QED BY <1>2, <3>1
  <2>3. it \in [SUBSET (1 .. n) -> V] /\ it[{}] = base
    BY <2>1 DEF LeftIteration
  <2> HIDE DEF V, op, base
  <2>4. it = [s \in SUBSET (1 .. n) |->
               IF s = {} THEN base ELSE op(it[s \ {Max(s)}], seq[Max(s)])]
    BY <2>2, <2>3
  <2> QED BY <2>4
<1>7. PICK it :
        /\ it = [s \in SUBSET (1 .. n) |->
                   IF s = {} THEN base ELSE op(it[s \ {Max(s)}], seq[Max(s)])]
        /\ Read(lines, at, size) = it[1 .. n]
  <2>1. Read(lines, at, size) = FoldLeft(op, base, seq)
    BY DEF Read, FoldLeftDomain, seq
  <2> QED BY <1>6, <1>a, <2>1 DEF FoldLeft, MapThenFoldSet
<1>8. LeftFold(it, n, V, base, F)
  <2>1. it[{}] = base
    BY <1>7
  <2>2. ASSUME NEW s \in SUBSET (1 .. n), s # {}, it[s \ {Max(s)}] \in V
        PROVE  it[s] = F[Max(s)][it[s \ {Max(s)}]]
    <3>1. it[s] = op(it[s \ {Max(s)}], seq[Max(s)])
      BY <1>7, <2>2
    <3>2. Max(s) \in 1 .. n
      BY <1>0, <2>2, LargestOf
    <3> HIDE DEF V, op
    <3> QED BY <1>2, <2>2, <3>1, <3>2
  <2> HIDE DEF V, base
  <2> QED BY <2>1, <2>2 DEF LeftFold
<1>9. PICK g : LeftRun(g, n, V, base, F) /\ g[n] = it[1 .. n]
  <2> HIDE DEF n, op, V, base
  <2> QED BY <1>0, <1>1, <1>5, <1>8, LeftRuns
<1>10. Read(lines, at, size) \in V
  <2>1. n \in 0 .. n /\ g \in [0 .. n -> V]
    BY <1>0, <1>9 DEF LeftRun
  <2> HIDE DEF n, V
  <2> QED BY <1>7, <1>9, <2>1
<1> QED BY <1>10 DEF ReadingOn, Reading

(* Two files put together are a file.                                      *)
LEMMA LinesJoin ==
  ASSUME NEW L, NEW f, AreLines(f, L), NEW M, NEW g, AreLines(g, M)
  PROVE  AreLines(f \o g, L \cup M)
<1>1. f \in Seq(L \cup M) /\ g \in Seq(L \cup M)
  BY WiderSeq DEF AreLines
<1>2. f \o g \in Seq(L \cup M)
  BY <1>1, ConcatProperties
<1> QED BY <1>2 DEF AreLines

(* What the featurizers write for a text are lines of some file.           *)
LEMMA LccrfLines ==
  ASSUME NEW labels \in Seq(Nat), NEW features
  PROVE  \E L : AreLines(AsLccrf(features, labels), L)
<1> DEFINE words == [t \in DOMAIN labels |-> WordLine(labels[t], features, t - 1)]
<1> DEFINE blank == [kind |-> "blank"]
<1> DEFINE L == {words[t] : t \in DOMAIN labels} \cup {blank}
<1>1. DOMAIN labels = 1 .. Len(labels) /\ Len(labels) \in Nat
  BY LenProperties
<1>2. \A l \in L : l.kind # "tags"
  <2>1. ASSUME NEW label, NEW t PROVE WordLine(label, features, t).kind = "word"
    BY DEF WordLine
  <2> QED BY <2>1
<1>3. words \in Seq(L)
  <2> HIDE DEF blank
  <2>1. \A t \in 1 .. Len(labels) : words[t] \in L
    BY <1>1
  <2>2. words = [t \in 1 .. Len(labels) |-> words[t]]
    BY <1>1
  <2> HIDE DEF words, L
  <2> QED BY <1>1, <2>1, <2>2
<1>4. blank \in L
  OBVIOUS
<1> HIDE DEF words, L, blank
<1>5. Append(words, blank) \in Seq(L)
  BY <1>3, <1>4
<1> QED BY <1>2, <1>5 DEF AsLccrf, AreLines, words, blank

(***************************************************************************)
(* SaveChunk: there is one chunk more.                                     *)
(***************************************************************************)
LEMMA IndexedSeq ==
  ASSUME NEW m, NEW X, NEW s \in Seq(X)
  PROVE  \E U : IndexData(m, s) \in Seq(U)
<1> DEFINE t == IndexData(m, s)
<1>1. Len(s) \in Nat /\ DOMAIN s = 1 .. Len(s)
  BY LenProperties
<1>2. DOMAIN t = 1 .. Len(s) /\ t = [k \in 1 .. Len(s) |-> t[k]]
  BY <1>1 DEF IndexData
<1> HIDE DEF t
<1>3. t \in Seq({t[k] : k \in 1 .. Len(s)})
  BY <1>1, <1>2
<1> QED BY <1>3 DEF t

(* A chunk that is saved is stored, and nothing in memory changes          *)
(* (StreamDataManager: Save).                                              *)
LEMMA SaveChunkKeeps ==
  ASSUME NEW U, NEW d, Stored(d, U), NEW W, NEW chunk \in Seq(W)
  PROVE  Stored(SaveChunk(d, chunk), U \cup W) /\ SaveChunk(d, chunk).mem = d.mem
<1> DEFINE n == Len(d.disk)
<1> DEFINE e == SaveChunk(d, chunk)
<1>1. n \in Nat /\ DOMAIN d = {"disk", "names", "mem", "cur", "next", "queue"}
  BY LenProperties DEF Stored
<1>2. /\ DOMAIN e = DOMAIN d /\ e.disk = Append(d.disk, chunk)
      /\ e.names = Append(d.names, n + 1) /\ e.mem = d.mem
  BY <1>1 DEF SaveChunk
<1> HIDE DEF e
<1>3. e.disk \in Seq(Seq(U \cup W)) /\ Len(e.disk) = n + 1
  <2>1. Seq(U) \subseteq Seq(U \cup W) /\ chunk \in Seq(U \cup W)
    BY WiderSeq
  <2>2. d.disk \in Seq(Seq(U \cup W))
    BY <2>1, WiderSeq DEF Stored
  <2> QED BY <1>2, <2>1, <2>2, AppendProperties
<1>4. /\ d.names \in Seq(Nat) /\ Len(d.names) = n
      /\ d.names \in Bijection(1 .. n, 1 .. n)
  BY DEF Stored
<1> HIDE DEF n
<1>5. /\ e.names \in Seq(Nat) /\ Len(e.names) = n + 1 /\ e.names[n + 1] = n + 1
      /\ \A k \in 1 .. n : e.names[k] = d.names[k]
  <2>1. n + 1 \in Nat
    BY <1>1
  <2> QED BY <1>1, <1>2, <1>4, <2>1, AppendProperties
<1>6. /\ \A k \in 1 .. n : d.names[k] \in 1 .. n
      /\ \A j, k \in 1 .. n : d.names[j] = d.names[k] => j = k
      /\ \A i \in 1 .. n : \E k \in 1 .. n : d.names[k] = i
  BY <1>4 DEF Bijection, Injection, Surjection, IsInjective
<1>7. e.names \in [1 .. n + 1 -> 1 .. n + 1]
  <2>1. DOMAIN e.names = 1 .. n + 1 /\ e.names = [k \in 1 .. n + 1 |-> e.names[k]]
    BY <1>1, <1>5, LenProperties
  <2>2. ASSUME NEW k \in 1 .. n + 1 PROVE e.names[k] \in 1 .. n + 1
    <3>1. CASE k = n + 1
      BY <1>1, <1>5, <3>1
    <3>2. CASE k # n + 1
      <4>1. k \in 1 .. n
        BY <1>1, <3>2
      <4>2. e.names[k] \in 1 .. n
        BY <1>5, <1>6, <4>1
      <4> QED BY <1>1, <4>2
    <3> QED BY <3>1, <3>2
  <2> QED BY <2>1, <2>2
<1>8. ASSUME NEW j \in 1 .. n + 1, NEW k \in 1 .. n + 1, e.names[j] = e.names[k] PROVE j = k
  <2>1. \A i \in 1 .. n + 1 : i \in 1 .. n \/ i = n + 1
    BY <1>1
  <2>2. \A i \in 1 .. n : e.names[i] \in 1 .. n
    BY <1>5, <1>6
  <2>3. n + 1 \notin 1 .. n
    BY <1>1
  <2>4. CASE j = n + 1
    BY <1>5, <1>8, <2>1, <2>2, <2>3, <2>4
  <2>5. CASE k = n + 1
    BY <1>5, <1>8, <2>1, <2>2, <2>3, <2>5
  <2>6. CASE j \in 1 .. n /\ k \in 1 .. n
    BY <1>5, <1>6, <1>8, <2>6
  <2> QED BY <2>1, <2>4, <2>5, <2>6
<1>9. ASSUME NEW i \in 1 .. n + 1 PROVE \E k \in 1 .. n + 1 : e.names[k] = i
  <2>1. CASE i = n + 1
    BY <1>5, <2>1
  <2>2. CASE i # n + 1
    <3>1. i \in 1 .. n
      BY <1>1, <2>2
    <3>2. PICK k \in 1 .. n : d.names[k] = i
      BY <1>6, <3>1
    <3>3. k \in 1 .. n + 1
      BY <1>1
    <3> QED BY <1>5, <3>2, <3>3
  <2> QED BY <2>1, <2>2
<1>10. e.names \in Bijection(1 .. n + 1, 1 .. n + 1)
  BY <1>7, <1>8, <1>9 DEF Bijection, Injection, Surjection, IsInjective
<1>11. Stored(e, U \cup W)
  BY <1>1, <1>2, <1>3, <1>5, <1>10 DEF Stored
<1> QED BY <1>2, <1>11 DEF e

-----------------------------------------------------------------------------
(***************************************************************************)
(* What holds of the training data in every state: job is one of Jobs but  *)
(* for again, the lines of the file can be read, and the data are stored,  *)
(* in memory and handed out as far as the stage says.                      *)
(***************************************************************************)
JobKept == \E j \in Jobs : job \in {j, [j EXCEPT !.again = FALSE]}

StreamKept ==
  /\ stage \in {"fit", "concat", "write"} => data = NewData /\ done \in 0 .. Len(job.corpus) - 1
  /\ stage = "read" => \E U : Stored(data, U) /\ data.mem = <<<<>>, <<>>>>
  /\ stage = "pass" => \E U : Stored(data, U) /\ InMemory(data, U)
  /\ stage = "train" => \E U : Stored(data, U) /\ InMemory(data, U) /\ Midway(data, U, learner.seen)

StreamInv ==
  /\ JobKept /\ (\E L : AreLines(file, L)) /\ done \in Int
  /\ "seen" \in DOMAIN learner
  /\ StreamKept

Corpora == Seq([tokens : Seq(DOMAIN Letters), labels : Seq(Nat)])

LEMMA JobIs ==
  ASSUME JobKept
  PROVE  /\ job.corpus \in Corpora /\ job.file \in Seq(FileLine) /\ IsOrder(job.order)
         /\ \E j \in Jobs : [job EXCEPT !.again = FALSE] \in {j, [j EXCEPT !.again = FALSE]}
<1>1. PICK j \in Jobs : job \in {j, [j EXCEPT !.again = FALSE]}
  BY DEF JobKept
<1>2. /\ DOMAIN j = {"corpus", "file", "size", "order", "alg", "crf", "again", "reset", "expand"}
      /\ j.corpus \in Corpora /\ j.file \in Seq(FileLine) /\ IsOrder(j.order)
  BY TaggerAssumption DEF Corpora, IsOrder
<1>3. /\ DOMAIN job = DOMAIN j /\ job.corpus = j.corpus /\ job.file = j.file /\ job.order = j.order
      /\ [job EXCEPT !.again = FALSE] = [j EXCEPT !.again = FALSE]
  BY <1>1, <1>2
<1> QED BY <1>2, <1>3

(* New data store nothing.                                                 *)
LEMMA NewDataStored ==
  \A U : Stored(NewData, U) /\ NewData.mem = <<<<>>, <<>>>>
<1>1. ASSUME NEW U PROVE Stored(NewData, U)
  <2>1. <<>> \in Seq(Seq(U)) /\ <<>> \in Seq(Nat) /\ Len(<<>>) = 0 /\ 1 .. 0 = {}
    OBVIOUS
  <2>2. DOMAIN <<<<>>, <<>>>> = {1, 2}
    OBVIOUS
  <2>3. <<>> \in Bijection(1 .. 0, 1 .. 0)
    BY <2>1 DEF Bijection, Injection, Surjection, IsInjective
  <2> QED BY <2>1, <2>2, <2>3 DEF Stored, NewData
<1> QED BY <1>1 DEF NewData

(* The stream's invariant holds at the start.                              *)
LEMMA StreamInit == Init => StreamInv
<1> SUFFICES ASSUME Init PROVE StreamInv
  OBVIOUS
<1>1. JobKept
  BY DEF Init, JobKept
<1>2. AreLines(file, FileLine)
  <2>1. file \in Seq(FileLine)
    BY <1>1, JobIs DEF Init
  <2>2. \A l \in FileLine : l.kind = "tags" => l.tags \in Seq(Nat)
    BY DEF FileLine
  <2> QED BY <2>1, <2>2 DEF AreLines
<1>3. stage = "fit" => done \in 0 .. Len(job.corpus) - 1
  <2>1. job.corpus \in Corpora
    BY <1>1, JobIs
  <2>2. job.corpus # <<>> => Len(job.corpus) \in Nat /\ Len(job.corpus) > 0
    BY <2>1, LenProperties, EmptySeq DEF Corpora
  <2> QED BY <2>2 DEF Init
<1>4. StreamKept
  <2>1. stage \in {"fit", "read"} /\ data = NewData
    BY DEF Init
  <2> QED BY <1>3, <2>1, NewDataStored DEF StreamKept
<1>5. "seen" \in DOMAIN learner
  BY DEF Init, NewLearner
<1> QED BY <1>1, <1>2, <1>4, <1>5 DEF StreamInv, Init

(* Preparing the data.                                                     *)
LEMMA AdvanceKeeps ==
  ASSUME StreamInv, NEW next \in {"concat", "write", "read"},
         stage \in {"fit", "concat", "write"}, Advance(next), UNCHANGED <<job, data>>
  PROVE  JobKept' /\ done' \in Int /\ StreamKept'
<1>1. job.corpus \in Corpora
  BY JobIs DEF StreamInv
<1>2. Len(job.corpus) \in Nat /\ done \in 0 .. Len(job.corpus) - 1 /\ data = NewData
  BY <1>1, LenProperties DEF StreamInv, StreamKept, Corpora
<1>3. /\ done' \in 0 .. Len(job.corpus) - 1
      /\ stage' \in {"fit", "concat", "write", "read"}
  BY <1>2 DEF Advance
<1>4. JobKept'
  BY DEF StreamInv, JobKept
<1>5. StreamKept'
  BY <1>2, <1>3, NewDataStored DEF StreamKept
<1> QED BY <1>3, <1>4, <1>5

(* Writing the file of a corpus keeps the stream's invariant.              *)
LEMMA PrepareKeeps ==
  ASSUME StreamInv, Prepare
  PROVE  StreamInv'
<1>1. CASE FitNGrams
  <2>1. JobKept' /\ done' \in Int /\ StreamKept'
    BY <1>1, AdvanceKeeps DEF FitNGrams, training
  <2> QED BY <1>1, <2>1 DEF FitNGrams, StreamInv, training
<1>2. CASE FitConcat
  <2>1. JobKept' /\ done' \in Int /\ StreamKept'
    BY <1>2, AdvanceKeeps DEF FitConcat, training
  <2> QED BY <1>2, <2>1 DEF FitConcat, StreamInv, training
<1>3. CASE WriteData
  <2>1. JobKept' /\ done' \in Int /\ StreamKept'
    BY <1>3, AdvanceKeeps DEF WriteData, training
  <2>2. Sentence.labels \in Seq(Nat)
    <3>1. job.corpus \in Corpora
      BY JobIs DEF StreamInv
    <3>2. done + 1 \in 1 .. Len(job.corpus)
      BY <1>3, <3>1, LenProperties DEF WriteData, StreamInv, StreamKept, Corpora
    <3>3. Sentence \in [tokens : Seq(DOMAIN Letters), labels : Seq(Nat)]
      BY <3>1, <3>2, ElementOfSeq DEF Sentence, Corpora
    <3> QED BY <3>3
  <2>3. PICK L : AreLines(file, L)
    BY DEF StreamInv
  <2>4. PICK M : AreLines(AsLccrf(Features(Sentence.tokens), Sentence.labels), M)
    BY <2>2, LccrfLines
  <2>5. AreLines(file', L \cup M)
    BY <1>3, <2>3, <2>4, LinesJoin DEF WriteData
  <2> QED BY <1>3, <2>1, <2>5 DEF StreamInv, WriteData, training
<1> QED BY <1>1, <1>2, <1>3 DEF Prepare

(* Reading and learning.                                                   *)
LEMMA ReadChunkKeeps ==
  ASSUME StreamInv, ReadChunk
  PROVE  StreamInv'
<1> DEFINE r == Read(file, done + 1, job.size)
<1>1. PICK L : AreLines(file, L)
  BY DEF StreamInv
<1>2. r.data \in Seq(SentencesOf(L)) /\ r.at \in Int
  <2>1. done + 1 \in Int
    BY DEF StreamInv
  <2> QED BY <1>1, <2>1, SentencesAreRead
<1>3. PICK known : data' = SaveChunk(data, IndexData(known, r.data))
  BY DEF ReadChunk
<1>4. UNCHANGED <<job, stage, file, learner>> /\ done' = r.at - 1 /\ stage \in {"read", "input"}
  BY DEF ReadChunk
<1> HIDE DEF r
<1>5. PICK W : IndexData(known, r.data) \in Seq(W)
  BY <1>2, IndexedSeq
<1>6. ASSUME stage = "read" PROVE \E U : Stored(data', U) /\ data'.mem = <<<<>>, <<>>>>
  <2>1. PICK U : Stored(data, U) /\ data.mem = <<<<>>, <<>>>>
    BY <1>6 DEF StreamInv, StreamKept
  <2>2. Stored(data', U \cup W) /\ data'.mem = data.mem
    BY <1>3, <1>5, <2>1, SaveChunkKeeps
  <2> QED BY <2>1, <2>2
<1>7. StreamKept'
  BY <1>4, <1>6 DEF StreamKept
<1>8. JobKept' /\ AreLines(file', L) /\ done' \in Int
  BY <1>1, <1>2, <1>4 DEF JobKept, StreamInv
<1> QED BY <1>4, <1>7, <1>8 DEF StreamInv

(* The end of the data keeps the stream's invariant.                       *)
LEMMA EndOfDataKeeps ==
  ASSUME StreamInv, EndOfData
  PROVE  StreamInv'
<1>1. /\ data' = LoadAll(Flush(data, job.order)) /\ stage' = "pass" /\ stage = "read"
      /\ UNCHANGED <<job, file, done>> /\ "seen" \in DOMAIN learner'
  BY DEF EndOfData, inputs, NewLearner
<1>2. PICK U : Stored(data, U) /\ data.mem = <<<<>>, <<>>>>
  BY <1>1 DEF StreamInv, StreamKept
<1>3. Stored(data', U) /\ InMemory(data', U)
  <2>1. data.mem[2] \in Seq(U)
    BY <1>2
  <2>2. IsOrder(job.order)
    BY JobIs DEF StreamInv
  <2> QED BY <1>1, <1>2, <2>1, <2>2, LoadAllKeeps
<1>4. StreamKept'
  BY <1>1, <1>3 DEF StreamKept
<1> QED BY <1>1, <1>4 DEF StreamInv, JobKept

(* The start of a pass keeps the stream's invariant.                       *)
LEMMA StartPassKeeps ==
  ASSUME StreamInv, StartPass
  PROVE  StreamInv'
<1>1. /\ data' = Flush(data, job.order) /\ stage' = "train" /\ stage = "pass"
      /\ UNCHANGED <<job, file, done>> /\ learner'.seen = <<>> /\ "seen" \in DOMAIN learner'
  BY DEF StartPass, inputs, StreamInv
<1>2. PICK U : Stored(data, U) /\ InMemory(data, U)
  BY <1>1 DEF StreamInv, StreamKept
<1>3. Stored(data', U) /\ InMemory(data', U) /\ Midway(data', U, learner'.seen)
  <2>1. IsOrder(job.order)
    BY JobIs DEF StreamInv
  <2> QED BY <1>1, <1>2, <2>1, PassBegins
<1>4. StreamKept'
  BY <1>1, <1>3 DEF StreamKept
<1> QED BY <1>1, <1>4 DEF StreamInv, JobKept

(* Training on a chunk keeps the stream's invariant.                       *)
LEMMA TrainChunkKeeps ==
  ASSUME StreamInv, TrainChunk
  PROVE  StreamInv'
<1> DEFINE s == Shuffled(Swap(data), job.order)
<1>1. /\ data' = s /\ stage' \in {"train", "failed"} /\ stage = "train"
      /\ UNCHANGED <<job, file, done>> /\ learner'.seen = learner.seen \o Handed(s)
      /\ data.queue # <<>> /\ "seen" \in DOMAIN learner'
  <2>1. PICK r : learner' = [learner EXCEPT !.loss = r.loss, !.paid = r.paid, !.seen = @ \o Handed(s)]
    BY DEF TrainChunk
  <2>2. /\ data' = s /\ stage = "train" /\ data.queue # <<>>
        /\ UNCHANGED <<job, file, done>>
    BY DEF TrainChunk, inputs, IsEmpty
  <2>3. stage' \in {"train", "failed"}
    BY DEF TrainChunk
  <2> HIDE DEF s
  <2> QED BY <2>1, <2>2, <2>3 DEF StreamInv
<1> HIDE DEF s
<1>2. PICK U : Stored(data, U) /\ InMemory(data, U) /\ Midway(data, U, learner.seen)
  BY <1>1 DEF StreamInv, StreamKept
<1>3. Stored(data', U) /\ InMemory(data', U) /\ Midway(data', U, learner'.seen)
  <2>1. IsOrder(job.order)
    BY JobIs DEF StreamInv
  <2>2. HandedNext(s, data, U)
    BY <1>1, <1>2, <2>1, SwapHands DEF s
  <2> QED BY <1>1, <1>2, <2>2, ChunkHandedOut
<1>4. StreamKept'
  BY <1>1, <1>3 DEF StreamKept
<1> QED BY <1>1, <1>4 DEF StreamInv, JobKept

(* Everything else: the data are as they were, or not used for training.   *)
LEMMA OthersKeep ==
  ASSUME StreamInv,
         EndPass \/ FinishLearning \/ Load \/ SaveModel \/ LoadTagger \/ LearnAgain
           \/ DecodeCommand \/ UNCHANGED vars
  PROVE  StreamInv'
<1>1. CASE EndPass \/ FinishLearning
  <2>1. /\ UNCHANGED <<job, file, done, data>>
        /\ stage' \in {"pass", "saved"} /\ stage \in {"train", "pass"}
        /\ "seen" \in DOMAIN learner'
    BY <1>1 DEF EndPass, FinishLearning, inputs, StreamInv
  <2>2. \E U : Stored(data, U) /\ InMemory(data, U)
    BY <2>1 DEF StreamInv, StreamKept
  <2>3. StreamKept'
    BY <2>1, <2>2 DEF StreamKept
  <2> QED BY <2>1, <2>3 DEF StreamInv, JobKept
<1>2. CASE Load \/ SaveModel \/ LoadTagger \/ OpenInput \/ EndOfInput \/ DecodeChunk \/ EndOfDecoding
  <2>1. /\ UNCHANGED <<job, file, learner>> /\ done' \in {0, done}
        /\ stage' \in {"loaded", "input", "decode"}
    BY <1>2 DEF Load, SaveModel, LoadTagger, OpenInput, EndOfInput, DecodeChunk, EndOfDecoding, inputs
  <2>2. StreamKept'
    BY <2>1 DEF StreamKept
  <2> QED BY <2>1, <2>2 DEF StreamInv, JobKept
<1>3. CASE LearnAgain
  <2>1. /\ job' = [job EXCEPT !.again = FALSE] /\ UNCHANGED <<file, learner>> /\ done' = 0
        /\ stage' = "read" /\ data' = NewData
    BY <1>3 DEF LearnAgain
  <2>2. JobKept'
    BY <2>1, JobIs DEF StreamInv, JobKept
  <2>3. StreamKept'
    BY <2>1, NewDataStored DEF StreamKept
  <2> QED BY <2>1, <2>2, <2>3 DEF StreamInv
<1>4. CASE UNCHANGED vars
  BY <1>4 DEF vars, StreamInv, StreamKept, JobKept
<1> QED BY <1>1, <1>2, <1>3, <1>4 DEF DecodeCommand

(* Every step keeps the stream's invariant.                                *)
LEMMA StreamNext == StreamInv /\ [Next]_vars => StreamInv'
<1> SUFFICES ASSUME StreamInv, [Next]_vars PROVE StreamInv'
  OBVIOUS
<1>1. CASE Prepare
  BY <1>1, PrepareKeeps
<1>2. CASE ReadChunk
  BY <1>2, ReadChunkKeeps
<1>3. CASE EndOfData
  BY <1>3, EndOfDataKeeps
<1>4. CASE StartPass
  BY <1>4, StartPassKeeps
<1>5. CASE TrainChunk
  BY <1>5, TrainChunkKeeps
<1>6. CASE EndPass \/ FinishLearning \/ Load \/ SaveModel \/ LoadTagger \/ LearnAgain
             \/ DecodeCommand \/ UNCHANGED vars
  BY <1>6, OthersKeep
<1> QED BY <1>1, <1>2, <1>3, <1>4, <1>5, <1>6 DEF Next, Learn, LoadMissing

(***************************************************************************)
(* Every pass trains on every sentence of the chunk files as often as it   *)
(* is there, whatever the files, the size of the chunks and the shuffles   *)
(* are (StreamDataManager: Flush, Next; BaseSupervisedLearner:             *)
(* SinglePassTraining).                                                    *)
(***************************************************************************)
THEOREM PassesAreComplete == Spec => []EachSentenceOnce
<1>1. ASSUME StreamInv PROVE EachSentenceOnce
  <2>1. ASSUME stage = "train", IsEmpty(data)
        PROVE  \A x : Count(x, FlattenSeq(data.disk)) = Count(x, learner.seen)
    <3>1. PICK U : Stored(data, U) /\ InMemory(data, U) /\ Midway(data, U, learner.seen)
      BY <1>1, <2>1 DEF StreamInv, StreamKept
    <3> QED BY <2>1, <3>1, AllHandedOut DEF IsEmpty
  <2> QED BY <2>1 DEF EachSentenceOnce
<1> QED BY <1>1, StreamInit, StreamNext, PTL DEF Spec
-----------------------------------------------------------------------------
(***************************************************************************)
(* How far a training is: what is left to read, which chunks are queued    *)
(* and which iterations are behind it.                                     *)
(***************************************************************************)
Passes == \E T : past \in Seq(T)

ProgressKept ==
  /\ stage \in {"fit", "concat", "write", "read"} => past = <<>>
  /\ stage \in {"read", "input"} => done \in 0 .. Len(file)
  /\ stage = "input" => \E U : Stored(data, U) /\ data.mem = <<<<>>, <<>>>>
  /\ stage = "decode" =>
       "queue" \in DOMAIN data /\ "cur" \in DOMAIN data /\ "next" \in DOMAIN data
         /\ data.queue \in Seq(Nat)
  /\ stage \in {"pass", "train"} => Passes /\ Len(past) <= MaxIter
  /\ stage = "train" => Len(past) # MaxIter

LEMMA LinesCounted ==
  ASSUME StreamInv
  PROVE  Len(file) \in Nat
<1>1. PICK L : AreLines(file, L)
  BY DEF StreamInv
<1>2. file \in Seq(L)
  BY <1>1 DEF AreLines
<1> QED BY <1>2, LenProperties

(* The bounds of the progress hold at the start.                           *)
LEMMA ProgressInit == Init => ProgressKept
<1> SUFFICES ASSUME Init PROVE ProgressKept
  OBVIOUS
<1>1. StreamInv /\ stage \in {"fit", "read"} /\ past = <<>> /\ done = 0
  BY StreamInit DEF Init
<1>2. Len(file) \in Nat
  BY <1>1, LinesCounted
<1> QED BY <1>1, <1>2 DEF ProgressKept

(* Writing the file of a corpus keeps the progress within its bounds.      *)
LEMMA ProgressPrepare ==
  ASSUME StreamInv, StreamInv', ProgressKept, Prepare
  PROVE  ProgressKept'
<1>1. /\ stage \in {"fit", "concat", "write"} /\ past' = past
      /\ stage' \in {"fit", "concat", "write", "read"}
      /\ stage' = "read" => done' = 0
  <2>1. CASE FitNGrams
    BY <2>1 DEF FitNGrams, training, Advance
  <2>2. CASE FitConcat
    BY <2>2 DEF FitConcat, training, Advance
  <2>3. CASE WriteData
    BY <2>3 DEF WriteData, training, Advance
  <2> QED BY <2>1, <2>2, <2>3 DEF Prepare
<1>2. past' = <<>>
  BY <1>1 DEF ProgressKept
<1>3. Len(file') \in Nat
  <2>1. (Len(file) \in Nat)'
    <3>1. \E L : AreLines(file', L)
      BY DEF StreamInv
    <3> QED BY <3>1, LenProperties DEF AreLines
  <2> QED BY <2>1
<1>4. stage' \notin {"input", "decode", "pass", "train"}
  BY <1>1
<1> QED BY <1>1, <1>2, <1>3, <1>4 DEF ProgressKept

(* A chunk that is read moves on, and not beyond the end.                  *)
LEMMA ChunkMovesOn ==
  ASSUME StreamInv, ProgressKept, ReadChunk
  PROVE  done' > done /\ done' \in 0 .. Len(file)
<1> DEFINE r == Read(file, done + 1, job.size)
<1>1. PICK L : AreLines(file, L)
  BY DEF StreamInv
<1>2. Len(file) \in Nat /\ done \in 0 .. Len(file)
  BY LinesCounted DEF ProgressKept, ReadChunk
<1>3. r.data # <<>> /\ done' = r.at - 1
  BY DEF ReadChunk
<1>4. /\ r.at \in Int /\ r.at >= done + 1
      /\ r.at = done + 1 => r.data = <<>>
      /\ done + 1 <= Len(file) + 1 => r.at <= Len(file) + 1
  <2>1. done + 1 \in Int
    BY <1>2
  <2> QED BY <1>1, <2>1, SentencesAreRead
<1> HIDE DEF r
<1> QED BY <1>2, <1>3, <1>4

(* So does reading a chunk.                                                *)
LEMMA ProgressRead ==
  ASSUME StreamInv, ProgressKept, ReadChunk
  PROVE  ProgressKept'
<1>1. UNCHANGED <<stage, file, past>> /\ stage \in {"read", "input"}
  BY DEF ReadChunk
<1>2. done' \in 0 .. Len(file)
  BY ChunkMovesOn
<1>3. ASSUME stage = "input" PROVE \E U : Stored(data', U) /\ data'.mem = <<<<>>, <<>>>>
  <2> DEFINE r == Read(file, done + 1, job.size)
  <2>1. PICK U : Stored(data, U) /\ data.mem = <<<<>>, <<>>>>
    BY <1>3 DEF ProgressKept
  <2>2. PICK L : AreLines(file, L)
    BY DEF StreamInv
  <2>3. r.data \in Seq(SentencesOf(L))
    <3>1. done + 1 \in Int
      BY DEF StreamInv
    <3> QED BY <2>2, <3>1, SentencesAreRead
  <2>4. PICK known : data' = SaveChunk(data, IndexData(known, r.data))
    BY DEF ReadChunk
  <2> HIDE DEF r
  <2>5. PICK W : IndexData(known, r.data) \in Seq(W)
    BY <2>3, IndexedSeq
  <2>6. Stored(data', U \cup W) /\ data'.mem = data.mem
    BY <2>1, <2>4, <2>5, SaveChunkKeeps
  <2> QED BY <2>1, <2>6
<1> QED BY <1>1, <1>2, <1>3 DEF ProgressKept

(* So do the steps of learning.                                            *)
LEMMA ProgressLearn ==
  ASSUME StreamInv, ProgressKept, EndOfData \/ StartPass \/ TrainChunk \/ EndPass \/ FinishLearning
  PROVE  ProgressKept'
<1>0. MaxIter \in Nat
  BY TaggerAssumption
<1>1. CASE EndOfData
  <2>1. stage = "read" /\ stage' = "pass" /\ past' = past
    BY <1>1 DEF EndOfData
  <2>2. past' = <<>> /\ <<>> \in Seq({}) /\ Len(<<>>) = 0
    BY <2>1 DEF ProgressKept
  <2> QED BY <1>0, <2>1, <2>2 DEF ProgressKept, Passes
<1>2. CASE StartPass
  <2>1. stage = "pass" /\ stage' = "train" /\ past' = past /\ Len(past) # MaxIter
    BY <1>2 DEF StartPass, Converged
  <2> QED BY <2>1 DEF ProgressKept, Passes
<1>3. CASE TrainChunk
  <2>1. stage = "train" /\ stage' \in {"train", "failed"} /\ past' = past
    BY <1>3 DEF TrainChunk
  <2> QED BY <2>1 DEF ProgressKept, Passes
<1>4. CASE EndPass
  <2>1. /\ stage = "train" /\ stage' = "pass"
        /\ \E x : past' = Append(past, x)
    BY <1>4 DEF EndPass
  <2>2. PICK T : past \in Seq(T)
    BY <2>1 DEF ProgressKept, Passes
  <2>3. PICK x : past' = Append(past, x)
    BY <2>1
  <2>4. past \in Seq(T \cup {x}) /\ Len(past) \in Nat
    BY <2>2, WiderSeq, LenProperties
  <2>5. past' \in Seq(T \cup {x}) /\ Len(past') = Len(past) + 1
    BY <2>3, <2>4, AppendProperties
  <2>6. Len(past) <= MaxIter /\ Len(past) # MaxIter
    BY <2>1 DEF ProgressKept
  <2>7. Len(past') <= MaxIter
    BY <1>0, <2>4, <2>5, <2>6
  <2>8. Passes'
    BY <2>5 DEF Passes
  <2> QED BY <2>1, <2>7, <2>8 DEF ProgressKept
<1>5. CASE FinishLearning
  <2>1. stage' = "saved"
    BY <1>5 DEF FinishLearning
  <2> QED BY <2>1 DEF ProgressKept
<1> QED BY <1>1, <1>2, <1>3, <1>4, <1>5

(* Leaving a chunk as it is counts as an order.                            *)
LEMMA UnshuffledIsOrder == IsOrder(Unshuffled)
BY DEF IsOrder, Unshuffled

(* One chunk more is handed out to the decoder.                            *)
LEMMA QueueShortens ==
  ASSUME NEW d, "queue" \in DOMAIN d, "cur" \in DOMAIN d, "next" \in DOMAIN d,
         d.queue \in Seq(Nat), d.queue # <<>>
  PROVE  /\ DOMAIN Swap(d) = DOMAIN d /\ Swap(d).queue = Tail(d.queue)
         /\ Tail(d.queue) \in Seq(Nat)
         /\ Len(Tail(d.queue)) \in 0 .. Len(d.queue) - 1
<1> DEFINE e == [d EXCEPT !.queue = Tail(@), !.cur = d.next, !.next = d.cur]
<1> DEFINE h == Chunk(e, Head(e.queue))
<1>1. Swap(d) = e \/ Swap(d) = [e EXCEPT !.mem[e.next] = h]
  BY DEF Swap
<1>2. DOMAIN e = DOMAIN d /\ e.queue = Tail(d.queue)
  OBVIOUS
<1> HIDE DEF e, h
<1>3. DOMAIN Swap(d) = DOMAIN d /\ Swap(d).queue = Tail(d.queue)
  BY <1>1, <1>2
<1>4. Tail(d.queue) \in Seq(Nat) /\ Len(Tail(d.queue)) = Len(d.queue) - 1 /\ Len(d.queue) \in Nat /\ Len(d.queue) # 0
  BY HeadTailProperties, EmptySeq, LenProperties
<1> QED BY <1>3, <1>4

(* So do loading, saving and decoding.                                     *)
LEMMA ProgressOther ==
  ASSUME StreamInv, ProgressKept,
         Load \/ SaveModel \/ LoadTagger \/ LearnAgain \/ DecodeCommand \/ UNCHANGED vars
  PROVE  ProgressKept'
<1>1. CASE Load \/ SaveModel \/ LoadTagger \/ EndOfDecoding
  <2>1. stage' = "loaded"
    BY <1>1 DEF Load, SaveModel, LoadTagger, EndOfDecoding
  <2> QED BY <2>1 DEF ProgressKept
<1>2. CASE LearnAgain
  <2>1. stage' = "read" /\ past' = <<>> /\ done' = 0 /\ file' = file
    BY <1>2 DEF LearnAgain
  <2> QED BY <2>1, LinesCounted DEF ProgressKept
<1>3. CASE OpenInput
  <2>1. stage' = "input" /\ done' = 0 /\ file' = file /\ data' = NewData
    BY <1>3 DEF OpenInput
  <2>2. Stored(data', {}) /\ data'.mem = <<<<>>, <<>>>>
    BY <2>1, NewDataStored
  <2>3. done' \in 0 .. Len(file')
    BY <2>1, LinesCounted
  <2> QED BY <2>1, <2>2, <2>3 DEF ProgressKept
<1>4. CASE EndOfInput
  <2> DEFINE e == LoadAll(Flush(data, Unshuffled))
  <2>1. stage = "input" /\ stage' = "decode" /\ data' = Flush(e, Unshuffled)
    BY <1>4 DEF EndOfInput
  <2>2. PICK U : Stored(data, U) /\ data.mem = <<<<>>, <<>>>>
    BY <2>1 DEF ProgressKept
  <2>3. Stored(e, U)
    <3>1. data.mem[2] \in Seq(U)
      BY <2>2
    <3> QED BY <2>2, <3>1, LoadAllKeeps, UnshuffledIsOrder
  <2> HIDE DEF e
  <2>4. Flushed(data', e, U)
    BY <2>1, <2>3, FlushKeeps, UnshuffledIsOrder
  <2>5. /\ DOMAIN data' = {"disk", "names", "mem", "cur", "next", "queue"}
        /\ data'.queue = [k \in 1 .. Len(e.disk) |-> k] /\ Len(e.disk) \in Nat
    BY <2>3, <2>4, LenProperties DEF Flushed, Stored
  <2>6. data'.queue \in Seq(Nat)
    BY <2>5
  <2> QED BY <2>1, <2>5, <2>6 DEF ProgressKept
<1>5. CASE DecodeChunk
  <2>1. stage = "decode" /\ stage' = "decode" /\ data' = Swap(data) /\ data.queue # <<>>
    BY <1>5 DEF DecodeChunk, IsEmpty
  <2>2. /\ "queue" \in DOMAIN data /\ "cur" \in DOMAIN data /\ "next" \in DOMAIN data
        /\ data.queue \in Seq(Nat)
    BY <2>1 DEF ProgressKept
  <2>3. DOMAIN Swap(data) = DOMAIN data /\ Swap(data).queue \in Seq(Nat)
    BY <2>1, <2>2, QueueShortens
  <2> QED BY <2>1, <2>2, <2>3 DEF ProgressKept
<1>6. CASE UNCHANGED vars
  BY <1>6 DEF vars, ProgressKept, Passes
<1> QED BY <1>1, <1>2, <1>3, <1>4, <1>5, <1>6 DEF DecodeCommand

(* Every step keeps the progress within its bounds.                        *)
LEMMA ProgressNext ==
  ASSUME StreamInv, StreamInv', ProgressKept, [Next]_vars
  PROVE  ProgressKept'
<1>1. CASE Prepare
  BY <1>1, ProgressPrepare
<1>2. CASE ReadChunk
  BY <1>2, ProgressRead
<1>3. CASE EndOfData \/ StartPass \/ TrainChunk \/ EndPass \/ FinishLearning
  BY <1>3, ProgressLearn
<1>4. CASE Load \/ SaveModel \/ LoadTagger \/ LearnAgain \/ DecodeCommand \/ UNCHANGED vars
  BY <1>4, ProgressOther
<1> QED BY <1>1, <1>2, <1>3, <1>4 DEF Next, Learn, LoadMissing

-----------------------------------------------------------------------------
(* What lies ahead, stage by stage.                                        *)
Left == CASE stage = "fit" -> <<4, Len(job.corpus) - done, 0>>
          [] stage = "concat" -> <<3, Len(job.corpus) - done, 0>>
          [] stage = "write" -> <<2, Len(job.corpus) - done, 0>>
          [] stage = "read" -> <<1, Len(file) - done, 0>>
          [] stage = "input" -> <<1, Len(file) - done, 0>>
          [] stage = "decode" -> <<0, 1, Len(data.queue)>>
          [] stage = "pass" -> <<0, 2 * (MaxIter - Len(past)) + 1, 0>>
          [] stage = "train" -> <<0, 2 * (MaxIter - Len(past)), Len(data.queue)>>
          [] OTHER -> <<0, 0, 0>>

LEMMA AheadIsLeft == Ahead = Left
<1> DEFINE before == [fit |-> 4, concat |-> 3, write |-> 2, read |-> 1, input |-> 1]
<1>1. /\ DOMAIN before = {"fit", "concat", "write", "read", "input"}
      /\ before["fit"] = 4 /\ before["concat"] = 3 /\ before["write"] = 2 /\ before["read"] = 1
      /\ before["input"] = 1
  OBVIOUS
<1>2. CASE stage \in {"fit", "concat", "write", "read", "input"}
  BY <1>1, <1>2 DEF Ahead, Left
<1>3. CASE stage \notin {"fit", "concat", "write", "read", "input"}
  BY <1>1, <1>3 DEF Ahead, Left
<1> QED BY <1>2, <1>3

(* A triple is below another where its first part that differs is smaller. *)
LEMMA BelowIs ==
  ASSUME NEW a1 \in Int, NEW a2 \in Int, NEW a3 \in Int, NEW b1 \in Int, NEW b2 \in Int, NEW b3 \in Int,
         \/ a1 \in 0 .. b1 - 1
         \/ a1 = b1 /\ a2 \in 0 .. b2 - 1
         \/ a1 = b1 /\ a2 = b2 /\ a3 \in 0 .. b3 - 1
  PROVE  Below(<<a1, a2, a3>>, <<b1, b2, b3>>)
<1> DEFINE a == <<a1, a2, a3>>
<1> DEFINE b == <<b1, b2, b3>>
<1>1. /\ DOMAIN a = 1 .. 3 /\ a[1] = a1 /\ a[2] = a2 /\ a[3] = a3
      /\ b[1] = b1 /\ b[2] = b2 /\ b[3] = b3
  OBVIOUS
<1>2. 1 .. 1 - 1 = {} /\ 1 .. 2 - 1 = {1} /\ 1 .. 3 - 1 = {1, 2} /\ 1 .. 3 = {1, 2, 3}
  OBVIOUS
<1> HIDE DEF a, b
<1>3. CASE a1 \in 0 .. b1 - 1
  <2>1. 1 \in DOMAIN a /\ a[1] \in 0 .. b[1] - 1 /\ \A i \in 1 .. 1 - 1 : a[i] = b[i]
    BY <1>1, <1>2, <1>3
  <2> QED BY <2>1 DEF Below, a, b
<1>4. CASE a1 = b1 /\ a2 \in 0 .. b2 - 1
  <2>1. 2 \in DOMAIN a /\ a[2] \in 0 .. b[2] - 1 /\ \A i \in 1 .. 2 - 1 : a[i] = b[i]
    BY <1>1, <1>2, <1>4
  <2> QED BY <2>1 DEF Below, a, b
<1>5. CASE a1 = b1 /\ a2 = b2 /\ a3 \in 0 .. b3 - 1
  <2>1. 3 \in DOMAIN a /\ a[3] \in 0 .. b[3] - 1 /\ \A i \in 1 .. 3 - 1 : a[i] = b[i]
    BY <1>1, <1>2, <1>5
  <2> QED BY <2>1 DEF Below, a, b
<1> QED BY <1>3, <1>4, <1>5

(* Every step of writing the file leaves less to do.                       *)
LEMMA PrepareShrinks ==
  ASSUME StreamInv, StreamInv', Prepare
  PROVE  Below(Left', Left)
<1> DEFINE n == Len(job.corpus)
<1>0. n \in Nat /\ n' = n /\ (Len(file))' \in Nat
  <2>1. job.corpus \in Corpora
    BY JobIs DEF StreamInv
  <2>2. \E L : AreLines(file', L)
    BY DEF StreamInv
  <2>3. job' = job
    BY DEF Prepare, FitNGrams, FitConcat, WriteData
  <2> QED BY <2>1, <2>2, <2>3, LenProperties DEF AreLines, Corpora
<1>1. done \in 0 .. n - 1
  <2>1. stage \in {"fit", "concat", "write"}
    BY DEF Prepare, FitNGrams, FitConcat, WriteData
  <2> QED BY <2>1 DEF StreamInv, StreamKept
<1>2. CASE FitNGrams
  <2>1. \/ stage = "fit" /\ stage' = "fit" /\ done' = done + 1 /\ done + 1 # n
        \/ stage = "fit" /\ stage' = "concat" /\ done' = 0
    BY <1>2 DEF FitNGrams, Advance
  <2>2. CASE stage = "fit" /\ stage' = "fit" /\ done' = done + 1 /\ done + 1 # n
    <3>1. Left = <<4, n - done, 0>> /\ Left' = <<4, n - (done + 1), 0>>
      BY <1>0, <2>2 DEF Left
    <3> HIDE DEF n
    <3> QED BY <1>0, <1>1, <3>1, BelowIs
  <2>3. CASE stage = "fit" /\ stage' = "concat" /\ done' = 0
    <3>1. Left = <<4, n - done, 0>> /\ Left' = <<3, n - 0, 0>>
      BY <1>0, <2>3 DEF Left
    <3> HIDE DEF n
    <3> QED BY <1>0, <1>1, <3>1, BelowIs
  <2> QED BY <2>1, <2>2, <2>3
<1>3. CASE FitConcat
  <2>1. \/ stage = "concat" /\ stage' = "concat" /\ done' = done + 1 /\ done + 1 # n
        \/ stage = "concat" /\ stage' = "write" /\ done' = 0
    BY <1>3 DEF FitConcat, Advance
  <2>2. CASE stage = "concat" /\ stage' = "concat" /\ done' = done + 1 /\ done + 1 # n
    <3>1. Left = <<3, n - done, 0>> /\ Left' = <<3, n - (done + 1), 0>>
      BY <1>0, <2>2 DEF Left
    <3> HIDE DEF n
    <3> QED BY <1>0, <1>1, <3>1, BelowIs
  <2>3. CASE stage = "concat" /\ stage' = "write" /\ done' = 0
    <3>1. Left = <<3, n - done, 0>> /\ Left' = <<2, n - 0, 0>>
      BY <1>0, <2>3 DEF Left
    <3> HIDE DEF n
    <3> QED BY <1>0, <1>1, <3>1, BelowIs
  <2> QED BY <2>1, <2>2, <2>3
<1>4. CASE WriteData
  <2>1. \/ stage = "write" /\ stage' = "write" /\ done' = done + 1 /\ done + 1 # n
        \/ stage = "write" /\ stage' = "read" /\ done' = 0
    BY <1>4 DEF WriteData, Advance
  <2>2. CASE stage = "write" /\ stage' = "write" /\ done' = done + 1 /\ done + 1 # n
    <3>1. Left = <<2, n - done, 0>> /\ Left' = <<2, n - (done + 1), 0>>
      BY <1>0, <2>2 DEF Left
    <3> HIDE DEF n
    <3> QED BY <1>0, <1>1, <3>1, BelowIs
  <2>3. CASE stage = "write" /\ stage' = "read" /\ done' = 0
    <3>1. Left = <<2, n - done, 0>> /\ Left' = <<1, Len(file') - 0, 0>>
      BY <1>0, <2>3 DEF Left
    <3> HIDE DEF n
    <3>2. Len(file') \in Nat
      BY <1>0
    <3> QED BY <1>0, <1>1, <3>1, <3>2, BelowIs
  <2> QED BY <2>1, <2>2, <2>3
<1> QED BY <1>2, <1>3, <1>4 DEF Prepare

(* Every step of learning leaves less to do.                               *)
LEMMA LearnShrinks ==
  ASSUME StreamInv, StreamInv', ProgressKept, ProgressKept', Learn
  PROVE  Below(Left', Left)
<1> DEFINE f == Len(file)
<1> DEFINE p == Len(past)
<1>0. MaxIter \in Nat /\ f \in Nat
  BY TaggerAssumption, LinesCounted
<1>1. CASE ReadChunk
  <2>1. stage \in {"read", "input"} /\ stage' = stage /\ file' = file
    BY <1>1 DEF ReadChunk
  <2>2. Left = <<1, f - done, 0>> /\ Left' = <<1, f - done', 0>>
    BY <2>1 DEF Left
  <2>3. done' > done /\ done' \in 0 .. f /\ done \in 0 .. f
    BY <1>1, <2>1, ChunkMovesOn DEF ProgressKept
  <2> HIDE DEF f
  <2> QED BY <1>0, <2>2, <2>3, BelowIs
<1>2. CASE EndOfData
  <2>1. stage = "read" /\ stage' = "pass" /\ past' = past
    BY <1>2 DEF EndOfData
  <2>2. Left = <<1, f - done, 0>> /\ Left' = <<0, 2 * (MaxIter - p) + 1, 0>> /\ done \in 0 .. f
    BY <2>1 DEF Left, ProgressKept
  <2>3. p \in Nat
    <3>1. past = <<>>
      BY <2>1 DEF ProgressKept
    <3> QED BY <3>1
  <2> HIDE DEF f, p
  <2> QED BY <1>0, <2>2, <2>3, BelowIs
<1>3. ASSUME stage \in {"pass", "train"} PROVE p \in Nat /\ p <= MaxIter
  BY <1>3, LenProperties DEF ProgressKept, Passes
<1>4. ASSUME stage = "train" \/ stage' = "train"
      PROVE  /\ stage = "train" => Len(data.queue) \in Nat
             /\ stage' = "train" => Len(data'.queue) \in Nat
  BY DEF StreamInv, StreamKept, Midway
<1>5. CASE StartPass
  <2>1. stage = "pass" /\ stage' = "train" /\ past' = past
    BY <1>5 DEF StartPass
  <2>2. /\ Left = <<0, 2 * (MaxIter - p) + 1, 0>>
        /\ Left' = <<0, 2 * (MaxIter - p), Len(data'.queue)>>
    BY <2>1 DEF Left
  <2>3. p \in Nat /\ p <= MaxIter /\ Len(data'.queue) \in Nat
    BY <1>3, <1>4, <2>1
  <2> HIDE DEF p
  <2>4. 2 * (MaxIter - p) \in 0 .. (2 * (MaxIter - p) + 1) - 1
    BY <1>0, <2>3
  <2>5. 2 * (MaxIter - p) \in Int /\ 2 * (MaxIter - p) + 1 \in Int /\ 0 \in Int
    BY <2>4
  <2> QED BY <2>2, <2>3, <2>4, <2>5, BelowIs
<1>6. CASE TrainChunk
  <2>1. stage = "train" /\ stage' \in {"train", "failed"} /\ past' = past
    BY <1>6 DEF TrainChunk
  <2>2. Left = <<0, 2 * (MaxIter - p), Len(data.queue)>>
    BY <2>1 DEF Left
  <2>3. p \in Nat /\ p <= MaxIter /\ p # MaxIter /\ Len(data.queue) \in Nat
    BY <1>3, <1>4, <2>1 DEF ProgressKept
  <2>4. CASE stage' = "failed"
    <3>1. Left' = <<0, 0, 0>>
      BY <2>4 DEF Left
    <3> HIDE DEF p
    <3>2. 0 \in 0 .. 2 * (MaxIter - p) - 1 /\ 2 * (MaxIter - p) \in Int /\ 0 \in Int
      BY <1>0, <2>3
    <3> QED BY <2>2, <2>3, <3>1, <3>2, BelowIs
  <2>5. CASE stage' = "train"
    <3>1. Left' = <<0, 2 * (MaxIter - p), Len(data'.queue)>>
      BY <2>1, <2>5 DEF Left
    <3>2. Len(data'.queue) \in 0 .. Len(data.queue) - 1
      <4>1. PICK U : Stored(data, U) /\ Midway(data, U, learner.seen)
        BY <2>1 DEF StreamInv, StreamKept
      <4>2. data' = Shuffled(Swap(data), job.order) /\ data.queue # <<>>
        BY <1>6 DEF TrainChunk, IsEmpty
      <4>3. Shuffled(Swap(data), job.order).queue = Swap(data).queue
        BY DEF Shuffled
      <4>4. data.queue \in Seq(Nat)
        <5>1. data.queue = [k \in 1 .. Len(data.queue) |-> Gone(data) + k]
          BY <4>1 DEF Midway
        <5>2. Gone(data) \in Nat
          <6>1. Len(data.disk) \in Nat /\ Len(data.queue) \in 0 .. Len(data.disk)
            BY <4>1, LenProperties DEF Stored, Midway
          <6> QED BY <6>1 DEF Gone
        <5> DEFINE q == data.queue
        <5> DEFINE g == Gone(data)
        <5> DEFINE m == Len(q)
        <5>3. m \in Nat /\ q = [k \in 1 .. m |-> g + k] /\ g \in Nat
          BY <2>3, <5>1, <5>2
        <5> HIDE DEF q, g, m
        <5>4. q \in Seq(Nat)
          BY <5>3
        <5> QED BY <5>4 DEF q
      <4>5. "queue" \in DOMAIN data /\ "cur" \in DOMAIN data /\ "next" \in DOMAIN data
        BY <4>1 DEF Stored
      <4>6. Swap(data).queue = Tail(data.queue) /\ Len(Tail(data.queue)) \in 0 .. Len(data.queue) - 1
        BY <4>2, <4>4, <4>5, QueueShortens
      <4> QED BY <4>2, <4>3, <4>6
    <3> DEFINE q == Len(data.queue)
    <3> DEFINE r == Len(data'.queue)
    <3> DEFINE i == 2 * (MaxIter - p)
    <3>3. i \in Int /\ q \in Int /\ r \in Int /\ r \in 0 .. q - 1 /\ 0 \in Int
      BY <1>0, <2>3, <3>2
    <3>4. Left = <<0, i, q>> /\ Left' = <<0, i, r>>
      BY <2>2, <3>1
    <3> HIDE DEF p, q, r, i
    <3> QED BY <3>3, <3>4, BelowIs
  <2> QED BY <2>1, <2>4, <2>5
<1>7. CASE EndPass
  <2>1. stage = "train" /\ stage' = "pass" /\ \E x : past' = Append(past, x)
    BY <1>7 DEF EndPass
  <2>2. p' = p + 1
    BY <2>1, AppendProperties DEF ProgressKept, Passes
  <2>3. Left = <<0, 2 * (MaxIter - p), Len(data.queue)>>
    BY <2>1 DEF Left
  <2>4. Left' = <<0, 2 * (MaxIter - (p + 1)) + 1, 0>>
    BY <2>1, <2>2 DEF Left
  <2>5. p \in Nat /\ p <= MaxIter /\ p # MaxIter /\ Len(data.queue) \in Nat
    BY <1>3, <1>4, <2>1 DEF ProgressKept
  <2> HIDE DEF p
  <2>6. 2 * (MaxIter - (p + 1)) + 1 \in 0 .. 2 * (MaxIter - p) - 1 /\ 2 * (MaxIter - p) \in Int /\ 0 \in Int
    BY <1>0, <2>5
  <2> QED BY <2>3, <2>4, <2>5, <2>6, BelowIs
<1>8. CASE FinishLearning
  <2>1. stage = "pass" /\ stage' = "saved"
    BY <1>8 DEF FinishLearning
  <2>2. Left = <<0, 2 * (MaxIter - p) + 1, 0>> /\ Left' = <<0, 0, 0>>
    BY <2>1 DEF Left
  <2>3. p \in Nat /\ p <= MaxIter
    BY <1>3, <2>1
  <2> HIDE DEF p
  <2>4. 0 \in 0 .. (2 * (MaxIter - p) + 1) - 1 /\ 2 * (MaxIter - p) + 1 \in Int /\ 0 \in Int
    BY <1>0, <2>3
  <2> QED BY <2>2, <2>4, BelowIs
<1> QED BY <1>1, <1>2, <1>5, <1>6, <1>7, <1>8 DEF Learn

(* Every step of decoding leaves less to do.                               *)
LEMMA DecodeShrinks ==
  ASSUME StreamInv, ProgressKept, ProgressKept', EndOfInput \/ DecodeChunk \/ EndOfDecoding
  PROVE  Below(Left', Left)
<1>1. CASE EndOfInput
  <2>1. stage = "input" /\ stage' = "decode"
    BY <1>1 DEF EndOfInput
  <2>2. Left = <<1, Len(file) - done, 0>> /\ Left' = <<0, 1, Len(data'.queue)>>
    BY <2>1 DEF Left
  <2>3. Len(file) \in Nat /\ done \in 0 .. Len(file) /\ Len(data'.queue) \in Nat
    BY <2>1, LinesCounted, LenProperties DEF ProgressKept
  <2>4. Len(file) - done \in Int /\ 0 \in 0 .. 1 - 1 /\ 0 \in Int /\ 1 \in Int
    BY <2>3
  <2> QED BY <2>2, <2>3, <2>4, BelowIs
<1>2. CASE DecodeChunk
  <2>1. stage = "decode" /\ stage' = "decode" /\ data' = Swap(data) /\ data.queue # <<>>
    BY <1>2 DEF DecodeChunk, IsEmpty
  <2>2. Left = <<0, 1, Len(data.queue)>> /\ Left' = <<0, 1, Len(data'.queue)>>
    BY <2>1 DEF Left
  <2>3. Len(data'.queue) \in 0 .. Len(data.queue) - 1 /\ Len(data.queue) \in Nat
    BY <2>1, QueueShortens, LenProperties DEF ProgressKept
  <2>4. 0 \in Int /\ 1 \in Int /\ Len(data'.queue) \in Int /\ Len(data.queue) \in Int
    BY <2>3
  <2> QED BY <2>2, <2>3, <2>4, BelowIs
<1>3. CASE EndOfDecoding
  <2>1. stage = "decode" /\ stage' = "loaded"
    BY <1>3 DEF EndOfDecoding
  <2>2. Left = <<0, 1, Len(data.queue)>> /\ Left' = <<0, 0, 0>>
    BY <2>1 DEF Left
  <2>3. Len(data.queue) \in Nat
    BY <2>1, LenProperties DEF ProgressKept
  <2>4. 0 \in 0 .. 1 - 1 /\ 0 \in Int /\ 1 \in Int /\ Len(data.queue) \in Int
    BY <2>3
  <2> QED BY <2>2, <2>4, BelowIs
<1> QED BY <1>1, <1>2, <1>3

(***************************************************************************)
(* Every training ends, and every decode command, whatever the corpus, the *)
(* size of the chunks and the number of iterations are: no step leaves as  *)
(* much to do as there was (Learn, Decode, StreamDataManager: Next).       *)
(***************************************************************************)
THEOREM TrainingsEnd == Spec => EveryTrainingEnds
<1>1. Init => StreamInv /\ ProgressKept
  BY StreamInit, ProgressInit
<1>2. StreamInv /\ ProgressKept /\ [Next]_vars => (StreamInv /\ ProgressKept)'
  BY StreamNext, ProgressNext
<1>3. ASSUME StreamInv, ProgressKept, StreamInv', ProgressKept', [Next]_vars,
             Ahead = Left, (Ahead = Left)'
      PROVE  [stage \notin {"saved", "loaded"} => Below(Ahead', Ahead)]_vars
  <2>1. ASSUME Next, stage \notin {"saved", "loaded"}, ~UNCHANGED vars
        PROVE  Below(Left', Left)
    <3>1. Prepare \/ Learn \/ EndOfInput \/ DecodeChunk \/ EndOfDecoding
      BY <2>1 DEF Next, LearnAgain, LoadMissing, Load, SaveModel, LoadTagger, DecodeCommand, OpenInput
    <3> QED BY <1>3, <2>1, <3>1, PrepareShrinks, LearnShrinks, DecodeShrinks
  <2> QED BY <1>3, <2>1
<1> QED BY <1>1, <1>2, <1>3, AheadIsLeft, PTL DEF Spec, EveryTrainingEnds

-----------------------------------------------------------------------------
(***************************************************************************)
(* The n-grams Fit adds, and what it leaves as it is.                      *)
(***************************************************************************)
GramsOf(f, tokens) ==
  LET text == Marked(tokens)
      n == Len(text)
      inner == [j \in 1 .. n - f.order - 1 |-> SubSeq(text, j + 1, j + f.order)]
  IN  IF f.boundaries
      THEN <<SubSeq(text, 1, f.order + 1)>> \o inner \o <<SubSeq(text, n - f.order, n)>>
      ELSE inner

(* A featurizer of n-grams, that fits and finds the boundaries as well.    *)
IsNGrams(f, order) ==
  /\ f = [order |-> f.order, boundaries |-> f.boundaries, trie |-> f.trie, next |-> f.next]
  /\ f.order = order /\ f.boundaries = TRUE /\ order \in Nat

LEMMA MarkedLength ==
  ASSUME NEW X, NEW tokens \in Seq(X)
  PROVE  Len(Marked(tokens)) = Len(tokens) + 2
<1> DEFINE Y == X \cup {BOS_MARK, EOS_MARK}
<1> DEFINE a == <<BOS_MARK>>
<1> DEFINE b == <<EOS_MARK>>
<1>1. a \in Seq(Y) /\ b \in Seq(Y) /\ Len(a) = 1 /\ Len(b) = 1
  OBVIOUS
<1>2. tokens \in Seq(Y) /\ Len(tokens) \in Nat
  <2>1. X \subseteq Y
    OBVIOUS
  <2> HIDE DEF Y
  <2> QED BY <2>1, WiderSeq, LenProperties
<1> HIDE DEF Y, a, b
<1>3. a \o tokens \in Seq(Y) /\ Len(a \o tokens) = 1 + Len(tokens)
  BY <1>1, <1>2, ConcatProperties
<1>4. Len((a \o tokens) \o b) = Len(a \o tokens) + 1
  BY <1>1, <1>3, ConcatProperties
<1> QED BY <1>2, <1>3, <1>4 DEF Marked, a, b

(* A list of as many things as n says.                                     *)
LEMMA ListOf ==
  ASSUME NEW n \in Int, NEW f, f = [k \in 1 .. n |-> f[k]]
  PROVE  f \in Seq({f[k] : k \in 1 .. n})
<1>1. CASE n \in Nat
  BY <1>1
<1>2. CASE n \notin Nat
  <2>1. 1 .. n = {} /\ 1 .. 0 = {}
    BY <1>2
  <2>2. f = [k \in 1 .. 0 |-> f[k]]
    BY <2>1
  <2> QED BY <2>2
<1> QED BY <1>1, <1>2

(* Three sequences put together.                                           *)
LEMMA ThreeJoin ==
  ASSUME NEW A, NEW a \in Seq(A), NEW B, NEW b \in Seq(B), NEW C, NEW c \in Seq(C)
  PROVE  a \o b \o c \in Seq(A \cup B \cup C)
<1> DEFINE X == A \cup B \cup C
<1>1. A \subseteq X /\ B \subseteq X /\ C \subseteq X
  OBVIOUS
<1> HIDE DEF X
<1>2. a \in Seq(X) /\ b \in Seq(X) /\ c \in Seq(X)
  BY <1>1, WiderSeq
<1>3. a \o b \in Seq(X)
  BY <1>2, ConcatProperties
<1>4. (a \o b) \o c \in Seq(X)
  BY <1>2, <1>3, ConcatProperties
<1> QED BY <1>4 DEF X

(* The n-grams of tokens are a sequence (NGramFeaturizer).                 *)
LEMMA GramsAre ==
  ASSUME NEW f, NEW order, IsNGrams(f, order), NEW X, NEW tokens \in Seq(X)
  PROVE  \E Y : GramsOf(f, tokens) \in Seq(Y)
<1> DEFINE text == Marked(tokens)
<1> DEFINE n == Len(text)
<1> DEFINE inner == [j \in 1 .. n - f.order - 1 |-> SubSeq(text, j + 1, j + f.order)]
<1> DEFINE first == <<SubSeq(text, 1, f.order + 1)>>
<1> DEFINE last == <<SubSeq(text, n - f.order, n)>>
<1>1. f.order = order /\ f.boundaries = TRUE /\ order \in Nat
  BY DEF IsNGrams
<1>2. n \in Int
  BY MarkedLength, LenProperties
<1> DEFINE I == {inner[k] : k \in 1 .. n - f.order - 1}
<1>3. inner \in Seq(I)
  <2>1. n - f.order - 1 \in Int
    BY <1>1, <1>2
  <2>2. inner = [k \in 1 .. n - f.order - 1 |-> inner[k]]
    OBVIOUS
  <2> HIDE DEF inner, n
  <2> QED BY <2>1, <2>2, ListOf
<1>4. first \in Seq({first[1]}) /\ last \in Seq({last[1]})
  OBVIOUS
<1>5. GramsOf(f, tokens) = first \o inner \o last
  BY <1>1 DEF GramsOf
<1> HIDE DEF inner, first, last, I
<1>6. first \o inner \o last \in Seq({first[1]} \cup I \cup {last[1]})
  BY <1>3, <1>4, ThreeJoin
<1> QED BY <1>5, <1>6

(* Fit, n-gram by n-gram.                                                  *)
FitRun(g, f, tokens) ==
  /\ g[0] = f
  /\ \A k \in 1 .. Len(GramsOf(f, tokens)) : g[k] = AddNGram(g[k - 1], GramsOf(f, tokens)[k])
  /\ Fit(f, tokens) = g[Len(GramsOf(f, tokens))]

LEMMA FitRuns ==
  ASSUME NEW f, NEW tokens, NEW Y, GramsOf(f, tokens) \in Seq(Y)
  PROVE  \E g : FitRun(g, f, tokens)
<1> DEFINE n == Len(GramsOf(f, tokens))
<1> DEFINE op(r, x) == AddNGram(r, x)
<1> DEFINE seq == [k \in 1 .. n |-> GramsOf(f, tokens)[k]]
<1> DEFINE base == f
<1> DEFINE after(it, s) == IF s = {} THEN base ELSE op(it[s \ {Max(s)}], seq[Max(s)])
<1>0. n \in Nat /\ GramsOf(f, tokens) = seq
  BY LenProperties
<1>1. DOMAIN seq = 1 .. n /\ \A k \in 1 .. n : seq[k] = GramsOf(f, tokens)[k]
  OBVIOUS
<1>2. Fit(f, tokens) = FoldLeft(op, base, seq)
  <2>1. Fit(f, tokens) = FoldLeft(AddNGram, f, GramsOf(f, tokens))
    BY DEF Fit, GramsOf
  <2>2. FoldLeft(AddNGram, f, seq) = FoldLeft(op, base, seq)
    BY DEF FoldLeft, MapThenFoldSet
  <2> QED BY <1>0, <2>1, <2>2
<1> HIDE DEF n, op, seq, base
<1> DEFINE Good(it, k) == \A s \in SUBSET (1 .. n) : Cardinality(s) <= k => it[s] = after(it, s)
<1> DEFINE K == {k \in 0 .. n : \E it : Good(it, k)}
<1>3. 0 \in K
  <2> DEFINE it == [s \in SUBSET (1 .. n) |-> base]
  <2>1. \A s \in SUBSET (1 .. n) : Cardinality(s) <= 0 => s = {}
    BY <1>0, SmallSubsets
  <2>2. Good(it, 0)
    BY <2>1
  <2>3. 0 \in 0 .. n
    BY <1>0
  <2> HIDE DEF Good
  <2> QED BY <2>2, <2>3
<1>4. ASSUME NEW k \in 0 .. n - 1, k \in K PROVE k + 1 \in K
  <2>1. PICK it : Good(it, k)
    BY <1>4
  <2> DEFINE jt == [s \in SUBSET (1 .. n) |-> after(it, s)]
  <2>2. \A s \in SUBSET (1 .. n) : Cardinality(s) <= k => jt[s] = it[s]
    BY <2>1
  <2>3. ASSUME NEW s \in SUBSET (1 .. n), Cardinality(s) <= k + 1 PROVE jt[s] = after(jt, s)
    <3>1. CASE s = {}
      BY <3>1
    <3>2. CASE s # {}
      <4>a. k \in Int
        OBVIOUS
      <4>1. s \ {Max(s)} \in SUBSET (1 .. n) /\ Cardinality(s \ {Max(s)}) <= k
        <5> HIDE DEF K, Good, after, jt
        <5> QED BY <1>0, <2>3, <3>2, <4>a, SmallSubsets
      <4>2. jt[s \ {Max(s)}] = it[s \ {Max(s)}]
        BY <2>2, <4>1
      <4>3. jt[s] = after(it, s)
        OBVIOUS
      <4> HIDE DEF jt
      <4> QED BY <4>2, <4>3
    <3> QED BY <3>1, <3>2
  <2> HIDE DEF jt
  <2>4. Good(jt, k + 1)
    BY <2>3
  <2>5. k + 1 \in 0 .. n
    BY <1>0
  <2> HIDE DEF Good
  <2> QED BY <2>4, <2>5
<1>5. \E it : it = [s \in SUBSET (1 .. n) |-> after(it, s)]
  <2>1. n \in K
    <3> HIDE DEF K
    <3>1. \A k \in 0 .. n : k \in K
      BY <1>0, <1>3, <1>4, UpTo
    <3> QED BY <1>0, <3>1
  <2>2. PICK it : Good(it, n)
    BY <2>1
  <2> DEFINE jt == [s \in SUBSET (1 .. n) |-> it[s]]
  <2>3. ASSUME NEW s \in SUBSET (1 .. n) PROVE it[s] = after(jt, s)
    <3>1. it[s] = after(it, s)
      BY <1>0, <2>2, SmallSubsets
    <3>2. CASE s # {}
      <4>1. s \ {Max(s)} \in SUBSET (1 .. n)
        BY <1>0, <3>2, SmallSubsets
      <4>2. jt[s \ {Max(s)}] = it[s \ {Max(s)}]
        BY <4>1
      <4> HIDE DEF jt
      <4> QED BY <3>1, <4>2
    <3> QED BY <3>1, <3>2
  <2>4. jt = [s \in SUBSET (1 .. n) |-> after(jt, s)]
    BY <2>3
  <2> HIDE DEF jt, after
  <2> QED BY <2>4
<1>6. PICK it : /\ it = [s \in SUBSET (1 .. n) |-> after(it, s)]
               /\ Fit(f, tokens) = it[1 .. n]
  BY <1>1, <1>2, <1>5 DEF FoldLeft, MapThenFoldSet
<1> DEFINE g == [k \in 0 .. n |-> it[1 .. k]]
<1>7. g[0] = base
  <2>1. 1 .. 0 = {} /\ 0 \in 0 .. n /\ {} \in SUBSET (1 .. n)
    BY <1>0
  <2>2. it[{}] = base
    BY <1>6, <2>1
  <2> QED BY <2>1, <2>2
<1>8. ASSUME NEW k \in 1 .. n PROVE g[k] = op(g[k - 1], seq[k])
  <2>1. /\ 1 .. k \in SUBSET (1 .. n) /\ 1 .. k # {} /\ Max(1 .. k) = k
        /\ (1 .. k) \ {k} = 1 .. k - 1
    BY <1>0, LargestOfInterval
  <2>2. it[1 .. k] = op(it[1 .. k - 1], seq[k])
    <3>1. it[1 .. k] = after(it, 1 .. k)
      BY <1>6, <2>1
    <3>2. after(it, 1 .. k) = op(it[(1 .. k) \ {k}], seq[k])
      BY <2>1
    <3> QED BY <2>1, <3>1, <3>2
  <2>3. k \in 0 .. n /\ k - 1 \in 0 .. n
    BY <1>0
  <2> QED BY <2>2, <2>3
<1>9. Fit(f, tokens) = g[n]
  <2>1. n \in 0 .. n
    BY <1>0
  <2> QED BY <1>6, <2>1
<1> HIDE DEF g
<1> QED BY <1>1, <1>7, <1>8, <1>9 DEF FitRun, op, base, n

(* Fitting an n-gram featurizer keeps its size (NGramFeaturizer: fit).     *)
LEMMA FitKeeps ==
  ASSUME NEW f, NEW order, IsNGrams(f, order), NEW X, NEW tokens \in Seq(X)
  PROVE  IsNGrams(Fit(f, tokens), order)
<1> DEFINE n == Len(GramsOf(f, tokens))
<1>1. PICK Y : GramsOf(f, tokens) \in Seq(Y)
  BY GramsAre
<1>2. PICK g : FitRun(g, f, tokens)
  BY <1>1, FitRuns
<1>3. n \in Nat
  BY <1>1, LenProperties
<1>4. g[0] = f /\ Fit(f, tokens) = g[n] /\ \A k \in 1 .. n : \E x : g[k] = AddNGram(g[k - 1], x)
  BY <1>2 DEF FitRun
<1> HIDE DEF n
<1> DEFINE S == {k \in 0 .. n : IsNGrams(g[k], order)}
<1>5. 0 \in S
  BY <1>3, <1>4
<1>6. ASSUME NEW k \in 0 .. n - 1, k \in S PROVE k + 1 \in S
  <2>1. k + 1 \in 1 .. n /\ (k + 1) - 1 = k /\ k + 1 \in 0 .. n
    BY <1>3
  <2>2. PICK x : g[k + 1] = AddNGram(g[k], x)
    BY <1>4, <2>1
  <2>3. IsNGrams(g[k], order)
    BY <1>6
  <2> DEFINE h == g[k]
  <2> DEFINE z == AddNGram(h, x)
  <2>4. /\ h = [order |-> h.order, boundaries |-> h.boundaries, trie |-> h.trie, next |-> h.next]
        /\ h.order = order /\ h.boundaries = TRUE /\ order \in Nat
    BY <2>3 DEF IsNGrams
  <2> HIDE DEF h
  <2> DEFINE w == Inserted(h.trie, x, h.next)
  <2> DEFINE v == h.next + 1
  <2>5. z = h \/ z = [h EXCEPT !.trie = w, !.next = v]
    BY DEF AddNGram
  <2> HIDE DEF z, w, v
  <2>6. z = h \/ z = [order |-> h.order, boundaries |-> h.boundaries, trie |-> w, next |-> v]
    BY <2>4, <2>5
  <2>7. IsNGrams(z, order)
    BY <2>4, <2>6 DEF IsNGrams
  <2> QED BY <2>1, <2>2, <2>7 DEF z, h
<1>7. n \in S
  <2> HIDE DEF S
  <2>1. \A k \in 0 .. n : k \in S
    BY <1>3, <1>5, <1>6, UpTo
  <2> QED BY <1>3, <2>1
<1> QED BY <1>4, <1>7

(***************************************************************************)
(* Text features, all of the value 1.                                      *)
(***************************************************************************)
TextFeatures(A, B, C) == [id : A, value : {1}, from : B, to : C]
AreFeatures(fs) == \E A, B, C : fs \in Seq(TextFeatures(A, B, C))

LEMMA FeaturesListed ==
  ASSUME NEW n \in Nat, NEW fs,
         fs = [k \in 1 .. n |-> fs[k]],
         \A k \in 1 .. n : fs[k] = [id |-> fs[k].id, value |-> 1, from |-> fs[k].from, to |-> fs[k].to]
  PROVE  AreFeatures(fs)
<1> DEFINE A == {fs[k].id : k \in 1 .. n}
<1> DEFINE B == {fs[k].from : k \in 1 .. n}
<1> DEFINE C == {fs[k].to : k \in 1 .. n}
<1>1. \A k \in 1 .. n : fs[k] \in TextFeatures(A, B, C)
  BY DEF TextFeatures
<1> DEFINE X == TextFeatures(A, B, C)
<1> HIDE DEF X, A, B, C
<1>2. fs \in Seq(X)
  BY <1>1 DEF X
<1> QED BY <1>2 DEF AreFeatures, X

(* A fitted n-gram featurizer gives features of the text (NGramFeaturizer: *)
(* transform).                                                             *)
LEMMA TransformIs ==
  ASSUME NEW f, NEW order, IsNGrams(f, order), NEW X, NEW tokens \in Seq(X)
  PROVE  AreFeatures(Transform(f, tokens))
<1> DEFINE text == Marked(tokens)
<1> DEFINE n == Len(tokens)
<1> DEFINE window(a, b, c, d) == [gram |-> SubSeq(text, a + 1, b + 1), from |-> c, to |-> d]
<1> DEFINE bos == <<window(0, f.order, 0, f.order - 1)>>
<1> DEFINE inner == [k \in 1 .. n - f.order + 1 |-> window(k, k + f.order - 1, k - 1, k + f.order - 2)]
<1> DEFINE eos == <<window(n - f.order + 1, n + 1, n - f.order, n - 1)>>
<1> DEFINE windows == bos \o inner \o eos
<1> DEFINE found == Kept(windows, {w \in ToSet(windows) : w.gram \in DOMAIN f.trie})
<1> DEFINE fs == [k \in DOMAIN found |-> [id |-> f.trie[found[k].gram], value |-> 1,
                                        from |-> found[k].from, to |-> found[k].to]]
<1>0. f.order = order /\ f.boundaries = TRUE /\ order \in Nat /\ n \in Nat
  BY LenProperties DEF IsNGrams
<1>1. CASE n < f.order
  <2>1. Transform(f, tokens) = <<>>
    BY <1>1 DEF Transform
  <2>2. <<>> \in Seq(TextFeatures({}, {}, {}))
    OBVIOUS
  <2> QED BY <2>1, <2>2 DEF AreFeatures
<1>2. CASE ~(n < f.order)
  <2>1. Transform(f, tokens) = fs
    BY <1>0, <1>2 DEF Transform
  <2>2. \E Y : windows \in Seq(Y)
    <3>1. n - f.order + 1 \in Int
      BY <1>0
    <3>2. inner = [k \in 1 .. n - f.order + 1 |-> inner[k]]
      OBVIOUS
    <3> DEFINE I == {inner[k] : k \in 1 .. n - f.order + 1}
    <3>3. bos \in Seq({bos[1]}) /\ eos \in Seq({eos[1]})
      OBVIOUS
    <3> HIDE DEF inner, bos, eos
    <3>4. inner \in Seq(I)
      <4> HIDE DEF n
      <4> QED BY <3>1, <3>2, ListOf
    <3> HIDE DEF I
    <3>5. bos \o inner \o eos \in Seq({bos[1]} \cup I \cup {eos[1]})
      BY <3>3, <3>4, ThreeJoin
    <3> QED BY <3>5
  <2>3. PICK Y : windows \in Seq(Y)
    BY <2>2
  <2> DEFINE W == {w \in ToSet(windows) : w.gram \in DOMAIN f.trie}
  <2>4. found \in Seq(Y \cap W)
    <3> HIDE DEF W, windows
    <3> QED BY <2>3, KeptType DEF W
  <2> HIDE DEF found
  <2> DEFINE l == Len(found)
  <2>5. l \in Nat /\ DOMAIN found = 1 .. l
    <3> DEFINE Z == Y \cap W
    <3> HIDE DEF Z
    <3>1. found \in Seq(Z)
      BY <2>4 DEF Z
    <3> QED BY <3>1, LenProperties
  <2> HIDE DEF l
  <2>6. /\ fs = [k \in 1 .. l |-> fs[k]]
        /\ \A k \in 1 .. l : fs[k] = [id |-> fs[k].id, value |-> 1, from |-> fs[k].from, to |-> fs[k].to]
    BY <2>5
  <2> HIDE DEF fs
  <2>7. AreFeatures(fs)
    BY <2>5, <2>6, FeaturesListed
  <2> QED BY <2>1, <2>7
<1> QED BY <1>1, <1>2

-----------------------------------------------------------------------------
(* The characters of a text, and tokens that are written one after the     *)
(* other.                                                                  *)
Characters == STRING \cup {" "}

JoinedRun(g, tokens) ==
  /\ g \in [0 .. Len(tokens) -> Seq(Characters)] /\ g[0] = <<>>
  /\ \A k \in 1 .. Len(tokens) : g[k] = (IF k = 1 THEN <<>> ELSE Append(g[k - 1], " ")) \o Letters[tokens[k]]
  /\ Joined(tokens) = g[Len(tokens)]

LEMMA JoinedRuns ==
  ASSUME NEW tokens \in Seq(DOMAIN Letters)
  PROVE  \E g : JoinedRun(g, tokens)
<1> DEFINE n == Len(tokens)
<1> DEFINE op(r, x) == (IF x = 1 THEN <<>> ELSE Append(r, " ")) \o Letters[tokens[x]]
<1> DEFINE seq == [k \in 1 .. n |-> k]
<1> DEFINE base == <<>>
<1> DEFINE V == Seq(Characters)
<1> DEFINE F == [k \in 1 .. n |-> [v \in V |-> op(v, seq[k])]]
<1>0. n \in Nat /\ DOMAIN tokens = 1 .. n /\ \A k \in 1 .. n : Letters[tokens[k]] \in Seq(Characters)
  <2>1. ASSUME NEW k \in 1 .. n PROVE Letters[tokens[k]] \in Seq(Characters)
    <3>1. Letters[tokens[k]] \in Seq(STRING)
      BY LettersAssumption, ElementOfSeq
    <3>2. STRING \subseteq Characters
      BY DEF Characters
    <3> QED BY <3>1, <3>2, WiderSeq
  <2> QED BY <2>1, LenProperties
<1>1. base \in V
  OBVIOUS
<1>2. \A k \in 1 .. n : \A v \in V : F[k][v] = op(v, seq[k])
  OBVIOUS
<1>3. DOMAIN seq = 1 .. n /\ \A k \in 1 .. n : seq[k] = k
  OBVIOUS
<1>4. Joined(tokens) = FoldLeft(op, base, seq)
  BY <1>0, Zenon DEF Joined, FoldLeftDomain
<1> HIDE DEF F, seq
<1>5. ASSUME NEW k \in 1 .. n, NEW v \in V PROVE op(v, seq[k]) \in V
  <2>1. seq[k] = k /\ Letters[tokens[k]] \in Seq(Characters)
    BY <1>0, <1>3
  <2> DEFINE a == IF k = 1 THEN <<>> ELSE Append(v, " ")
  <2> DEFINE blank == " "
  <2>a. blank \in Characters /\ v \in Seq(Characters)
    BY DEF Characters
  <2>b. Append(v, blank) \in Seq(Characters) /\ <<>> \in Seq(Characters)
    <3> HIDE DEF blank
    <3> QED BY <2>a, AppendProperties
  <2>c. a = <<>> \/ a = Append(v, blank)
    OBVIOUS
  <2>3. op(v, k) = a \o Letters[tokens[k]]
    OBVIOUS
  <2> HIDE DEF a, op, blank
  <2>2. a \in Seq(Characters)
    BY <2>b, <2>c
  <2>4. a \o Letters[tokens[k]] \in Seq(Characters)
    BY <2>1, <2>2, ConcatProperties
  <2> QED BY <2>1, <2>3, <2>4
<1>6. Steps(F, V, 1 .. n)
  <2> HIDE DEF op, V
  <2> QED BY <1>2, <1>5 DEF Steps
<1>7. \E it : it = [s \in SUBSET (1 .. n) |->
                     IF s = {} THEN base ELSE op(it[s \ {Max(s)}], seq[Max(s)])]
  <2>1. PICK it : LeftIteration(it, n, V, base, F)
    BY <1>0, <1>1, <1>6, LeftIterationExists
  <2>2. ASSUME NEW s \in SUBSET (1 .. n), s # {}
        PROVE  it[s] = op(it[s \ {Max(s)}], seq[Max(s)])
    <3>1. Max(s) \in 1 .. n /\ it[s \ {Max(s)}] \in V /\ it[s] = F[Max(s)][it[s \ {Max(s)}]]
      BY <2>1, <2>2 DEF LeftIteration
    <3> HIDE DEF V, op
    <3> QED BY <1>2, <3>1
  <2>3. it \in [SUBSET (1 .. n) -> V] /\ it[{}] = base
    BY <2>1 DEF LeftIteration
  <2> HIDE DEF V, op, base
  <2> QED BY <2>2, <2>3
<1>8. PICK it :
        /\ it = [s \in SUBSET (1 .. n) |->
                   IF s = {} THEN base ELSE op(it[s \ {Max(s)}], seq[Max(s)])]
        /\ Joined(tokens) = it[1 .. n]
  BY <1>3, <1>4, <1>7 DEF FoldLeft, MapThenFoldSet
<1>9. LeftFold(it, n, V, base, F)
  <2>1. it[{}] = base
    BY <1>8
  <2>2. ASSUME NEW s \in SUBSET (1 .. n), s # {}, it[s \ {Max(s)}] \in V
        PROVE  it[s] = F[Max(s)][it[s \ {Max(s)}]]
    <3>1. it[s] = op(it[s \ {Max(s)}], seq[Max(s)]) /\ Max(s) \in 1 .. n
      BY <1>0, <1>8, <2>2, LargestOf
    <3> HIDE DEF V, op
    <3> QED BY <1>2, <2>2, <3>1
  <2> HIDE DEF V, base
  <2> QED BY <2>1, <2>2 DEF LeftFold
<1>10. PICK g : LeftRun(g, n, V, base, F) /\ g[n] = it[1 .. n]
  <2> HIDE DEF n, op, V, base
  <2> QED BY <1>0, <1>1, <1>6, <1>9, LeftRuns
<1>11. ASSUME NEW k \in 1 .. n PROVE g[k] = op(g[k - 1], seq[k])
  <2>1. g[k] = F[k][g[k - 1]] /\ k - 1 \in 0 .. n /\ g \in [0 .. n -> V]
    BY <1>0, <1>10 DEF LeftRun
  <2> HIDE DEF n, V, op
  <2> QED BY <1>2, <2>1
<1>12. g \in [0 .. n -> V] /\ g[0] = base
  BY <1>10 DEF LeftRun
<1> QED BY <1>3, <1>8, <1>10, <1>11, <1>12 DEF JoinedRun

(* Tokens joined by blanks are characters of a text.                       *)
LEMMA JoinedIs ==
  ASSUME NEW tokens \in Seq(DOMAIN Letters)
  PROVE  Joined(tokens) \in Seq(Characters)
<1>1. PICK g : JoinedRun(g, tokens)
  BY JoinedRuns
<1>2. Len(tokens) \in 0 .. Len(tokens)
  BY LenProperties
<1> QED BY <1>1, <1>2 DEF JoinedRun

(* Where a match begins.                                                   *)
MatchedAt(regex, text, x, k) ==
  LET n == Len(regex)
      at == k + n - 1 <= Len(text) /\ SubSeq(text, k, k + n - 1) = regex
  IN  IF at /\ (x = <<>> \/ Last(x) + n <= k) THEN Append(x, k) ELSE x

MatchesRun(g, regex, text) ==
  /\ g \in [0 .. Len(text) -> Seq(Int)] /\ g[0] = <<>>
  /\ \A k \in 1 .. Len(text) : g[k] = MatchedAt(regex, text, g[k - 1], k)
  /\ MatchesOf(regex, text) = g[Len(text)]

LEMMA MatchesRuns ==
  ASSUME NEW regex, NEW X, NEW text \in Seq(X)
  PROVE  \E g : MatchesRun(g, regex, text)
<1> DEFINE n == Len(text)
<1> DEFINE op(r, x) == MatchedAt(regex, text, r, x)
<1> DEFINE seq == [k \in 1 .. n |-> k]
<1> DEFINE base == <<>>
<1> DEFINE V == Seq(Int)
<1> DEFINE F == [k \in 1 .. n |-> [v \in V |-> op(v, seq[k])]]
<1>0. n \in Nat /\ DOMAIN text = 1 .. n
  BY LenProperties
<1>1. base \in V
  OBVIOUS
<1>2. \A k \in 1 .. n : \A v \in V : F[k][v] = op(v, seq[k])
  OBVIOUS
<1>3. DOMAIN seq = 1 .. n /\ \A k \in 1 .. n : seq[k] = k
  OBVIOUS
<1>4. MatchesOf(regex, text) = FoldLeft(op, base, seq)
  BY <1>0, Zenon DEF MatchesOf, MatchedAt, FoldLeftDomain
<1> HIDE DEF F, seq
<1>5. ASSUME NEW k \in 1 .. n, NEW v \in V PROVE op(v, seq[k]) \in V
  <2>1. seq[k] = k /\ k \in Int
    BY <1>3
  <2>2. op(v, k) = Append(v, k) \/ op(v, k) = v
    BY DEF MatchedAt
  <2>3. v \in Seq(Int)
    OBVIOUS
  <2>4. Append(v, k) \in Seq(Int)
    BY <2>1, <2>3, AppendProperties
  <2> HIDE DEF op
  <2>5. op(v, k) \in Seq(Int)
    BY <2>2, <2>3, <2>4
  <2> QED BY <2>1, <2>5
<1>6. Steps(F, V, 1 .. n)
  <2> HIDE DEF op, V
  <2> QED BY <1>2, <1>5 DEF Steps
<1>7. \E it : it = [s \in SUBSET (1 .. n) |->
                     IF s = {} THEN base ELSE op(it[s \ {Max(s)}], seq[Max(s)])]
  <2>1. PICK it : LeftIteration(it, n, V, base, F)
    BY <1>0, <1>1, <1>6, LeftIterationExists
  <2>2. ASSUME NEW s \in SUBSET (1 .. n), s # {}
        PROVE  it[s] = op(it[s \ {Max(s)}], seq[Max(s)])
    <3>1. Max(s) \in 1 .. n /\ it[s \ {Max(s)}] \in V /\ it[s] = F[Max(s)][it[s \ {Max(s)}]]
      BY <2>1, <2>2 DEF LeftIteration
    <3> HIDE DEF V, op
    <3> QED BY <1>2, <3>1
  <2>3. it \in [SUBSET (1 .. n) -> V] /\ it[{}] = base
    BY <2>1 DEF LeftIteration
  <2> HIDE DEF V, op, base
  <2> QED BY <2>2, <2>3
<1>8. PICK it :
        /\ it = [s \in SUBSET (1 .. n) |->
                   IF s = {} THEN base ELSE op(it[s \ {Max(s)}], seq[Max(s)])]
        /\ MatchesOf(regex, text) = it[1 .. n]
  BY <1>3, <1>4, <1>7 DEF FoldLeft, MapThenFoldSet
<1>9. LeftFold(it, n, V, base, F)
  <2>1. it[{}] = base
    BY <1>8
  <2>2. ASSUME NEW s \in SUBSET (1 .. n), s # {}, it[s \ {Max(s)}] \in V
        PROVE  it[s] = F[Max(s)][it[s \ {Max(s)}]]
    <3>1. it[s] = op(it[s \ {Max(s)}], seq[Max(s)]) /\ Max(s) \in 1 .. n
      BY <1>0, <1>8, <2>2, LargestOf
    <3> HIDE DEF V, op
    <3> QED BY <1>2, <2>2, <3>1
  <2> HIDE DEF V, base
  <2> QED BY <2>1, <2>2 DEF LeftFold
<1>10. PICK g : LeftRun(g, n, V, base, F) /\ g[n] = it[1 .. n]
  <2> HIDE DEF n, op, V, base
  <2> QED BY <1>0, <1>1, <1>6, <1>9, LeftRuns
<1>11. ASSUME NEW k \in 1 .. n PROVE g[k] = op(g[k - 1], seq[k])
  <2>1. g[k] = F[k][g[k - 1]] /\ k - 1 \in 0 .. n /\ g \in [0 .. n -> V]
    BY <1>0, <1>10 DEF LeftRun
  <2> HIDE DEF n, V, op
  <2> QED BY <1>2, <2>1
<1>12. g \in [0 .. n -> V] /\ g[0] = base
  BY <1>10 DEF LeftRun
<1> QED BY <1>3, <1>8, <1>10, <1>11, <1>12 DEF MatchesRun

(* What a regular expression matches are places of the text                *)
(* (RegexFeaturizer).                                                      *)
LEMMA MatchesAre ==
  ASSUME NEW regex, NEW X, NEW text \in Seq(X)
  PROVE  MatchesOf(regex, text) \in Seq(Int)
<1>1. PICK g : MatchesRun(g, regex, text)
  BY MatchesRuns
<1>2. Len(text) \in 0 .. Len(text)
  BY LenProperties
<1> QED BY <1>1, <1>2 DEF MatchesRun

(***************************************************************************)
(* A text feature, and lists of them, and of such lists.                   *)
(***************************************************************************)
IsTextFeature(f) == f = [id |-> f.id, value |-> 1, from |-> f.from, to |-> f.to]

LEMMA FeaturesAre ==
  ASSUME NEW fs, AreFeatures(fs)
  PROVE  /\ Len(fs) \in Nat /\ DOMAIN fs = 1 .. Len(fs) /\ fs = [k \in 1 .. Len(fs) |-> fs[k]]
         /\ \A k \in 1 .. Len(fs) : IsTextFeature(fs[k])
<1>1. PICK A, B, C : fs \in Seq(TextFeatures(A, B, C))
  BY DEF AreFeatures
<1> DEFINE X == TextFeatures(A, B, C)
<1>2. \A x \in X : IsTextFeature(x)
  BY DEF TextFeatures, IsTextFeature
<1> HIDE DEF X
<1>3. fs \in Seq(X)
  BY <1>1 DEF X
<1> QED BY <1>2, <1>3, LenProperties, ElementOfSeq

AreGroups(groups) == \E X : groups \in Seq(Seq(X)) /\ \A x \in X : IsTextFeature(x)

(* A list of groups of features.                                           *)
LEMMA GroupsListed ==
  ASSUME NEW n \in Nat, NEW groups, groups = [g \in 1 .. n |-> groups[g]],
         \A g \in 1 .. n : AreFeatures(groups[g])
  PROVE  AreGroups(groups)
<1> DEFINE X == {groups[q[1]][q[2]] : q \in {z \in (1 .. n) \X Nat : z[2] \in 1 .. Len(groups[z[1]])}}
<1>1. ASSUME NEW x \in X PROVE IsTextFeature(x)
  <2>1. PICK q \in (1 .. n) \X Nat : q[2] \in 1 .. Len(groups[q[1]]) /\ x = groups[q[1]][q[2]]
    OBVIOUS
  <2>2. AreFeatures(groups[q[1]])
    OBVIOUS
  <2> QED BY <2>1, <2>2, FeaturesAre
<1>2. ASSUME NEW g \in 1 .. n PROVE groups[g] \in Seq(X)
  <2> DEFINE fs == groups[g]
  <2>1. Len(fs) \in Nat /\ fs = [k \in 1 .. Len(fs) |-> fs[k]]
    BY FeaturesAre
  <2>2. \A k \in 1 .. Len(fs) : fs[k] \in X
    <3>1. ASSUME NEW k \in 1 .. Len(fs) PROVE fs[k] \in X
      <4> DEFINE z == <<g, k>>
      <4>1. z \in (1 .. n) \X Nat /\ z[1] = g /\ z[2] = k
        BY <2>1
      <4>2. z[2] \in 1 .. Len(groups[z[1]]) /\ fs[k] = groups[z[1]][z[2]]
        BY <4>1
      <4> HIDE DEF z, fs
      <4> QED BY <4>1, <4>2
    <3> QED BY <3>1
  <2> HIDE DEF fs, X
  <2>3. fs \in Seq(X)
    BY <2>1, <2>2, IsASeq
  <2> QED BY <2>3 DEF fs
<1> HIDE DEF X
<1> DEFINE T == Seq(X)
<1>3. \A g \in 1 .. n : groups[g] \in T
  BY <1>2
<1> HIDE DEF T
<1>4. groups \in Seq(T)
  BY <1>3, IsASeq
<1>5. groups \in Seq(Seq(X))
  BY <1>4 DEF T
<1> QED BY <1>1, <1>5 DEF AreGroups

(* Groups put together are features.                                       *)
LEMMA FlatFeatures ==
  ASSUME NEW groups, AreGroups(groups)
  PROVE  AreFeatures(FlattenSeq(groups))
<1>1. PICK X : groups \in Seq(Seq(X)) /\ \A x \in X : IsTextFeature(x)
  BY DEF AreGroups
<1> DEFINE fs == FlattenSeq(groups)
<1>2. fs \in Seq(X)
  BY <1>1, FlattenType
<1> HIDE DEF fs
<1>3. Len(fs) \in Nat /\ fs = [k \in 1 .. Len(fs) |-> fs[k]] /\ \A k \in 1 .. Len(fs) : fs[k] \in X
  BY <1>2, LenProperties, ElementOfSeq
<1>4. \A k \in 1 .. Len(fs) : IsTextFeature(fs[k])
  BY <1>1, <1>3
<1>5. AreFeatures(fs)
  <2> DEFINE l == Len(fs)
  <2> HIDE DEF l
  <2>1. l \in Nat /\ fs = [k \in 1 .. l |-> fs[k]]
        /\ \A k \in 1 .. l : fs[k] = [id |-> fs[k].id, value |-> 1, from |-> fs[k].from, to |-> fs[k].to]
    BY <1>3, <1>4 DEF l, IsTextFeature
  <2> QED BY <2>1, FeaturesListed
<1> QED BY <1>5 DEF fs

(* The features of regular expressions.                                    *)
LEMMA RegexFeatures ==
  ASSUME NEW r, NEW X, r.regexes \in Seq(X), NEW tokens \in Seq(DOMAIN Letters)
  PROVE  AreFeatures(RegexTransform(r, tokens))
<1> DEFINE text == Joined(tokens)
<1> DEFINE beginning(t) == Len(Joined(SubSeq(tokens, 1, t - 1))) + (IF t = 1 THEN 1 ELSE 2)
<1> DEFINE from == [t \in DOMAIN tokens |-> beginning(t)]
<1> DEFINE to == [t \in DOMAIN tokens |-> beginning(t) + Len(Letters[tokens[t]]) - 1]
<1> DEFINE W(i) == {k \in Range(from) : k + Len(r.regexes[i]) - 1 \in Range(to)}
<1> DEFINE whole(i) == Kept(MatchesOf(r.regexes[i], text), W(i))
<1> DEFINE feature(i, k) ==
      [id |-> i - 1, value |-> 1,
       from |-> (CHOOSE t \in DOMAIN from : from[t] = k) - 1,
       to |-> (CHOOSE t \in DOMAIN to : to[t] = k + Len(r.regexes[i]) - 1) - 1]
<1> DEFINE n == Len(r.regexes)
<1> DEFINE groups == [i \in DOMAIN r.regexes |-> [j \in DOMAIN whole(i) |-> feature(i, whole(i)[j])]]
<1>0. n \in Nat /\ DOMAIN r.regexes = 1 .. n
  BY LenProperties
<1>1. RegexTransform(r, tokens) = FlattenSeq(groups)
  BY DEF RegexTransform
<1>2. ASSUME NEW i \in 1 .. n PROVE AreFeatures(groups[i])
  <2> DEFINE w == whole(i)
  <2>1. w \in Seq(Int \cap W(i))
    <3>1. MatchesOf(r.regexes[i], text) \in Seq(Int)
      <4>1. text \in Seq(Characters)
        BY JoinedIs
      <4> HIDE DEF text
      <4> QED BY <4>1, MatchesAre
    <3> DEFINE V == W(i)
    <3> DEFINE z == MatchesOf(r.regexes[i], text)
    <3> HIDE DEF V, z
    <3>2. Kept(z, V) \in Seq(Int \cap V)
      BY <3>1, KeptType DEF z
    <3> QED BY <3>2 DEF V, z
  <2> DEFINE l == Len(w)
  <2> DEFINE fs == [j \in DOMAIN w |-> feature(i, w[j])]
  <2>2. l \in Nat /\ DOMAIN w = 1 .. l
    <3> DEFINE V == Int \cap W(i)
    <3> HIDE DEF V, w
    <3>1. w \in Seq(V)
      BY <2>1 DEF V, w
    <3> QED BY <3>1, LenProperties
  <2>3. groups[i] = fs
    BY <1>0
  <2> HIDE DEF w, l, groups
  <2>4. /\ fs = [k \in 1 .. l |-> fs[k]]
        /\ \A k \in 1 .. l : fs[k] = [id |-> fs[k].id, value |-> 1, from |-> fs[k].from, to |-> fs[k].to]
    BY <2>2
  <2> HIDE DEF fs
  <2> QED BY <2>2, <2>3, <2>4, FeaturesListed
<1>3. groups = [i \in 1 .. n |-> groups[i]]
  BY <1>0
<1> HIDE DEF groups, n
<1>4. AreGroups(groups)
  BY <1>0, <1>2, <1>3, GroupsListed
<1> QED BY <1>1, <1>4, FlatFeatures

-----------------------------------------------------------------------------
(* The keys of lists of features, list by list.                            *)
KeyLists(groups) ==
  [g \in DOMAIN groups |-> [k \in DOMAIN groups[g] |-> <<g - 1, groups[g][k].id>>]]

LEMMA KeyListsAre ==
  ASSUME NEW X, NEW groups \in Seq(Seq(X))
  PROVE  /\ KeyLists(groups) \in Seq(Seq(Int \X {x.id : x \in X}))
         /\ Len(KeyLists(groups)) = Len(groups)
         /\ \A g \in 1 .. Len(groups) : Len(KeyLists(groups)[g]) = Len(groups[g])
<1> DEFINE Y == Int \X {x.id : x \in X}
<1> DEFINE ks == KeyLists(groups)
<1> DEFINE n == Len(groups)
<1>1. n \in Nat /\ DOMAIN groups = 1 .. n /\ \A g \in 1 .. n : groups[g] \in Seq(X)
  BY LenProperties, ElementOfSeq
<1>2. ASSUME NEW g \in 1 .. n
      PROVE  ks[g] \in Seq(Y) /\ Len(ks[g]) = Len(groups[g])
  <2> DEFINE fs == groups[g]
  <2> DEFINE l == Len(fs)
  <2>1. fs \in Seq(X)
    BY <1>1
  <2>2. l \in Nat /\ DOMAIN fs = 1 .. l /\ \A k \in 1 .. l : fs[k] \in X
    BY <2>1, LenProperties, ElementOfSeq
  <2>3. ks[g] = [k \in 1 .. l |-> <<g - 1, fs[k].id>>]
    BY <1>1, <2>2 DEF KeyLists
  <2>4. \A k \in 1 .. l : <<g - 1, fs[k].id>> \in Y
    BY <2>2
  <2> DEFINE z == ks[g]
  <2> HIDE DEF Y, fs, l, z
  <2>5. z = [k \in 1 .. l |-> z[k]] /\ \A k \in 1 .. l : z[k] \in Y
    BY <2>3, <2>4 DEF z
  <2>a. l \in Nat
    BY <2>2
  <2>6. z \in Seq(Y)
    BY <2>a, <2>5, SequenceIs
  <2>7. Len(z) = l
    BY <2>a, <2>5, SequenceIs
  <2> QED BY <2>6, <2>7 DEF z, l, fs
<1>3. DOMAIN ks = 1 .. n
  BY <1>1 DEF KeyLists
<1>4. ks = [g \in 1 .. n |-> ks[g]]
  BY <1>1 DEF KeyLists
<1> DEFINE T == Seq(Y)
<1>5. \A g \in 1 .. n : ks[g] \in T
  BY <1>2
<1> HIDE DEF T, ks, Y, n
<1>a. n \in Nat
  BY <1>1
<1>6. ks \in Seq(T)
  BY <1>a, <1>4, <1>5
<1>7. Len(ks) = n
  BY <1>1, <1>3, <1>6, LenProperties
<1> QED BY <1>2, <1>6, <1>7 DEF T, ks, Y, n

(* Every feature of every group has a key (ConcatFeaturizer).              *)
LEMMA KeysAre ==
  ASSUME NEW X, NEW groups \in Seq(Seq(X))
  PROVE  /\ ConcatKeys(groups) \in Seq(Int \X {x.id : x \in X})
         /\ Len(ConcatKeys(groups)) = Len(FlattenSeq(groups))
<1> DEFINE Y == Int \X {x.id : x \in X}
<1> DEFINE ks == KeyLists(groups)
<1> DEFINE n == Len(groups)
<1>1. /\ ks \in Seq(Seq(Y)) /\ Len(ks) = n /\ n \in Nat
      /\ \A g \in 1 .. n : Len(ks[g]) = Len(groups[g])
  BY KeyListsAre, LenProperties
<1>2. ConcatKeys(groups) = FlattenSeq(ks)
  BY DEF ConcatKeys, KeyLists
<1> HIDE DEF ks, Y
<1>3. PICK f : FlatRun(f, X, groups)
  BY FlattenRuns
<1>4. PICK h : FlatRun(h, Y, ks)
  BY <1>1, FlattenRuns
<1>5. \A k \in 1 .. n : groups[k] \in Seq(X) /\ ks[k] \in Seq(Y)
  BY <1>1, ElementOfSeq
<1> HIDE DEF n
<1>6. /\ \A k \in 0 .. n : f[k] \in Seq(X) /\ h[k] \in Seq(Y)
      /\ f[0] = <<>> /\ h[0] = <<>>
      /\ \A k \in 1 .. n : f[k] = f[k - 1] \o groups[k] /\ h[k] = h[k - 1] \o ks[k]
      /\ f[n] = FlattenSeq(groups) /\ h[n] = FlattenSeq(ks)
  BY <1>1, <1>3, <1>4 DEF FlatRun, n
<1> DEFINE S == {k \in 0 .. n : Len(f[k]) = Len(h[k])}
<1>7. 0 \in S
  BY <1>1, <1>6
<1>8. ASSUME NEW k \in 0 .. n - 1, k \in S PROVE k + 1 \in S
  <2>1. k + 1 \in 1 .. n /\ (k + 1) - 1 = k /\ k \in 0 .. n /\ k + 1 \in 0 .. n
    BY <1>1
  <2>2. f[k + 1] = f[k] \o groups[k + 1] /\ h[k + 1] = h[k] \o ks[k + 1]
    BY <1>6, <2>1
  <2>3. Len(f[k] \o groups[k + 1]) = Len(f[k]) + Len(groups[k + 1])
    BY <1>5, <1>6, <2>1, ConcatProperties
  <2>4. Len(h[k] \o ks[k + 1]) = Len(h[k]) + Len(ks[k + 1])
    BY <1>5, <1>6, <2>1, ConcatProperties
  <2>5. Len(ks[k + 1]) = Len(groups[k + 1]) /\ Len(f[k]) = Len(h[k])
    BY <1>1, <1>8, <2>1
  <2> QED BY <2>1, <2>2, <2>3, <2>4, <2>5
<1>9. n \in S
  <2> HIDE DEF S
  <2>1. \A k \in 0 .. n : k \in S
    BY <1>1, <1>7, <1>8, UpTo
  <2> QED BY <1>1, <2>1
<1>10. n \in 0 .. n
  BY <1>1
<1> QED BY <1>2, <1>6, <1>9, <1>10 DEF Y

-----------------------------------------------------------------------------
(* TextFeatureConcat: the ids are numbers, and so is the next one.         *)
IsConcat(c) ==
  /\ c = [mapping |-> c.mapping, next |-> c.next]
  /\ c.mapping \in [DOMAIN c.mapping -> Nat] /\ c.next \in Nat

AddKey(c, key) ==
  IF key \in DOMAIN c.mapping THEN c
  ELSE [c EXCEPT !.mapping = Inserted(@, key, c.next), !.next = @ + 1]

LEMMA KeyAdded ==
  ASSUME NEW c, IsConcat(c), NEW key
  PROVE  IsConcat(AddKey(c, key))
<1> DEFINE w == Inserted(c.mapping, key, c.next)
<1> DEFINE v == c.next + 1
<1>1. /\ c = [mapping |-> c.mapping, next |-> c.next]
      /\ c.mapping \in [DOMAIN c.mapping -> Nat] /\ c.next \in Nat
  BY DEF IsConcat
<1>2. w \in [DOMAIN w -> Nat] /\ v \in Nat
  BY <1>1 DEF Inserted
<1>3. AddKey(c, key) = c \/ AddKey(c, key) = [c EXCEPT !.mapping = w, !.next = v]
  BY DEF AddKey
<1> HIDE DEF w, v
<1>a. c = [mapping |-> c.mapping, next |-> c.next]
  BY <1>1
<1>4. [c EXCEPT !.mapping = w, !.next = v] = [mapping |-> w, next |-> v]
  <2> DEFINE a == c.mapping
  <2> DEFINE b == c.next
  <2> DEFINE z == [c EXCEPT !.mapping = w, !.next = v]
  <2>1. c = [mapping |-> a, next |-> b]
    BY <1>a
  <2> HIDE DEF a, b
  <2>2. ASSUME NEW y, y = z PROVE y = [mapping |-> w, next |-> v]
    BY <2>1, <2>2
  <2>3. z = [mapping |-> w, next |-> v]
    <3> HIDE DEF z
    <3> QED BY <2>2
  <2> QED BY <2>3
<1> DEFINE z == AddKey(c, key)
<1> HIDE DEF z
<1>5. z = c \/ z = [mapping |-> w, next |-> v]
  BY <1>3, <1>4 DEF z
<1>6. IsConcat(z)
  BY <1>2, <1>5 DEF IsConcat
<1> QED BY <1>6 DEF z

FittingRun(g, c, groups) ==
  /\ g[0] = c
  /\ \A k \in 1 .. Len(ConcatKeys(groups)) : g[k] = AddKey(g[k - 1], ConcatKeys(groups)[k])
  /\ ConcatFit(c, groups) = g[Len(ConcatKeys(groups))]

(* Fitting goes through the keys one after the other.                      *)
LEMMA FittingRuns ==
  ASSUME NEW c, NEW groups, NEW Y, ConcatKeys(groups) \in Seq(Y)
  PROVE  \E g : FittingRun(g, c, groups)
<1> DEFINE n == Len(ConcatKeys(groups))
<1> DEFINE op(r, x) == AddKey(r, x)
<1> DEFINE seq == [k \in 1 .. n |-> ConcatKeys(groups)[k]]
<1> DEFINE base == c
<1> DEFINE after(it, s) == IF s = {} THEN base ELSE op(it[s \ {Max(s)}], seq[Max(s)])
<1>0. n \in Nat /\ ConcatKeys(groups) = seq
  BY LenProperties
<1>1. DOMAIN seq = 1 .. n /\ \A k \in 1 .. n : seq[k] = ConcatKeys(groups)[k]
  OBVIOUS
<1>2. ConcatFit(c, groups) = FoldLeft(op, base, seq)
  <2>1. ConcatFit(c, groups) = FoldLeft(AddKey, c, ConcatKeys(groups))
    BY DEF ConcatFit, AddKey, FoldLeft, MapThenFoldSet
  <2>2. FoldLeft(AddKey, c, seq) = FoldLeft(op, base, seq)
    BY DEF FoldLeft, MapThenFoldSet
  <2> QED BY <1>0, <2>1, <2>2
<1> HIDE DEF n, op, seq, base
<1> DEFINE Good(it, k) == \A s \in SUBSET (1 .. n) : Cardinality(s) <= k => it[s] = after(it, s)
<1> DEFINE K == {k \in 0 .. n : \E it : Good(it, k)}
<1>3. 0 \in K
  <2> DEFINE it == [s \in SUBSET (1 .. n) |-> base]
  <2>1. \A s \in SUBSET (1 .. n) : Cardinality(s) <= 0 => s = {}
    BY <1>0, SmallSubsets
  <2>2. Good(it, 0)
    BY <2>1
  <2>3. 0 \in 0 .. n
    BY <1>0
  <2> HIDE DEF Good
  <2> QED BY <2>2, <2>3
<1>4. ASSUME NEW k \in 0 .. n - 1, k \in K PROVE k + 1 \in K
  <2>1. PICK it : Good(it, k)
    BY <1>4
  <2> DEFINE jt == [s \in SUBSET (1 .. n) |-> after(it, s)]
  <2>2. \A s \in SUBSET (1 .. n) : Cardinality(s) <= k => jt[s] = it[s]
    BY <2>1
  <2>3. ASSUME NEW s \in SUBSET (1 .. n), Cardinality(s) <= k + 1 PROVE jt[s] = after(jt, s)
    <3>1. CASE s = {}
      BY <3>1
    <3>2. CASE s # {}
      <4>a. k \in Int
        OBVIOUS
      <4>1. s \ {Max(s)} \in SUBSET (1 .. n) /\ Cardinality(s \ {Max(s)}) <= k
        <5> HIDE DEF K, Good, after, jt
        <5> QED BY <1>0, <2>3, <3>2, <4>a, SmallSubsets
      <4>2. jt[s \ {Max(s)}] = it[s \ {Max(s)}]
        BY <2>2, <4>1
      <4>3. jt[s] = after(it, s)
        OBVIOUS
      <4> HIDE DEF jt
      <4> QED BY <4>2, <4>3
    <3> QED BY <3>1, <3>2
  <2> HIDE DEF jt
  <2>4. Good(jt, k + 1)
    BY <2>3
  <2>5. k + 1 \in 0 .. n
    BY <1>0
  <2> HIDE DEF Good
  <2> QED BY <2>4, <2>5
<1>5. \E it : it = [s \in SUBSET (1 .. n) |-> after(it, s)]
  <2>1. n \in K
    <3> HIDE DEF K
    <3>1. \A k \in 0 .. n : k \in K
      BY <1>0, <1>3, <1>4, UpTo
    <3> QED BY <1>0, <3>1
  <2>2. PICK it : Good(it, n)
    BY <2>1
  <2> DEFINE jt == [s \in SUBSET (1 .. n) |-> it[s]]
  <2>3. ASSUME NEW s \in SUBSET (1 .. n) PROVE it[s] = after(jt, s)
    <3>1. it[s] = after(it, s)
      BY <1>0, <2>2, SmallSubsets
    <3>2. CASE s # {}
      <4>1. s \ {Max(s)} \in SUBSET (1 .. n)
        BY <1>0, <3>2, SmallSubsets
      <4>2. jt[s \ {Max(s)}] = it[s \ {Max(s)}]
        BY <4>1
      <4> HIDE DEF jt
      <4> QED BY <3>1, <4>2
    <3> QED BY <3>1, <3>2
  <2>4. jt = [s \in SUBSET (1 .. n) |-> after(jt, s)]
    BY <2>3
  <2> HIDE DEF jt, after
  <2> QED BY <2>4
<1>6. PICK it : /\ it = [s \in SUBSET (1 .. n) |-> after(it, s)]
               /\ ConcatFit(c, groups) = it[1 .. n]
  BY <1>1, <1>2, <1>5 DEF FoldLeft, MapThenFoldSet
<1> DEFINE g == [k \in 0 .. n |-> it[1 .. k]]
<1>7. g[0] = base
  <2>1. 1 .. 0 = {} /\ 0 \in 0 .. n /\ {} \in SUBSET (1 .. n)
    BY <1>0
  <2>2. it[{}] = base
    BY <1>6, <2>1
  <2> QED BY <2>1, <2>2
<1>8. ASSUME NEW k \in 1 .. n PROVE g[k] = op(g[k - 1], seq[k])
  <2>1. /\ 1 .. k \in SUBSET (1 .. n) /\ 1 .. k # {} /\ Max(1 .. k) = k
        /\ (1 .. k) \ {k} = 1 .. k - 1
    BY <1>0, LargestOfInterval
  <2>2. it[1 .. k] = op(it[1 .. k - 1], seq[k])
    <3>1. it[1 .. k] = after(it, 1 .. k)
      BY <1>6, <2>1
    <3>2. after(it, 1 .. k) = op(it[(1 .. k) \ {k}], seq[k])
      BY <2>1
    <3> QED BY <2>1, <3>1, <3>2
  <2>3. k \in 0 .. n /\ k - 1 \in 0 .. n
    BY <1>0
  <2> QED BY <2>2, <2>3
<1>9. ConcatFit(c, groups) = g[n]
  <2>1. n \in 0 .. n
    BY <1>0
  <2> QED BY <1>6, <2>1
<1> HIDE DEF g
<1> QED BY <1>1, <1>7, <1>8, <1>9 DEF FittingRun, op, base, n

(* Fitting keeps the numbers of a ConcatFeaturizer distinct                *)
(* (ConcatFeaturizer: fit).                                                *)
LEMMA ConcatFitIs ==
  ASSUME NEW c, IsConcat(c), NEW groups, AreGroups(groups)
  PROVE  IsConcat(ConcatFit(c, groups))
<1>1. PICK X : groups \in Seq(Seq(X))
  BY DEF AreGroups
<1> DEFINE Y == Int \X {x.id : x \in X}
<1> DEFINE n == Len(ConcatKeys(groups))
<1>2. ConcatKeys(groups) \in Seq(Y)
  BY <1>1, KeysAre
<1> HIDE DEF Y
<1>3. PICK g : FittingRun(g, c, groups)
  BY <1>2, FittingRuns
<1>4. n \in Nat
  BY <1>2, LenProperties
<1>5. g[0] = c /\ ConcatFit(c, groups) = g[n] /\ \A k \in 1 .. n : \E x : g[k] = AddKey(g[k - 1], x)
  BY <1>3 DEF FittingRun
<1> HIDE DEF n
<1> DEFINE S == {k \in 0 .. n : IsConcat(g[k])}
<1>6. 0 \in S
  BY <1>4, <1>5
<1>7. ASSUME NEW k \in 0 .. n - 1, k \in S PROVE k + 1 \in S
  <2>1. k + 1 \in 1 .. n /\ (k + 1) - 1 = k /\ k + 1 \in 0 .. n
    BY <1>4
  <2>2. PICK x : g[k + 1] = AddKey(g[k], x)
    BY <1>5, <2>1
  <2>3. IsConcat(g[k])
    BY <1>7
  <2>4. IsConcat(AddKey(g[k], x))
    BY <2>3, KeyAdded
  <2> QED BY <2>1, <2>2, <2>4
<1>8. n \in S
  <2> HIDE DEF S
  <2>1. \A k \in 0 .. n : k \in S
    BY <1>4, <1>6, <1>7, UpTo
  <2> QED BY <1>4, <2>1
<1> QED BY <1>5, <1>8

(* The features of the concatenation are numbered.                         *)
AreNumbered(fs) == \E B, C : fs \in Seq(TextFeatures(Nat, B, C))

LEMMA NumberedListed ==
  ASSUME NEW n \in Nat, NEW fs, fs = [k \in 1 .. n |-> fs[k]],
         \A k \in 1 .. n : IsTextFeature(fs[k]) /\ fs[k].id \in Nat
  PROVE  AreNumbered(fs)
<1> DEFINE B == {fs[k].from : k \in 1 .. n}
<1> DEFINE C == {fs[k].to : k \in 1 .. n}
<1>1. \A k \in 1 .. n : fs[k] \in TextFeatures(Nat, B, C)
  BY DEF TextFeatures, IsTextFeature
<1> DEFINE X == TextFeatures(Nat, B, C)
<1> HIDE DEF X, B, C
<1>2. fs \in Seq(X)
  BY <1>1 DEF X
<1> QED BY <1>2 DEF AreNumbered, X

(* What it gives are numbered features (ConcatFeaturizer: transform).      *)
LEMMA ConcatTransformIs ==
  ASSUME NEW c, IsConcat(c), NEW groups, AreGroups(groups)
  PROVE  AreNumbered(ConcatTransform(c, groups))
<1> DEFINE keys == ConcatKeys(groups)
<1> DEFINE features == FlattenSeq(groups)
<1> DEFINE W == {k \in DOMAIN keys : keys[k] \in DOMAIN c.mapping}
<1> DEFINE places == [k \in DOMAIN keys |-> k]
<1> DEFINE known == Kept(places, W)
<1> DEFINE fs == [k \in DOMAIN known |-> [features[known[k]] EXCEPT !.id = c.mapping[keys[known[k]]]]]
<1> DEFINE n == Len(keys)
<1>1. ConcatTransform(c, groups) = fs
  BY DEF ConcatTransform
<1>2. PICK X : groups \in Seq(Seq(X))
  BY DEF AreGroups
<1>3. n \in Nat /\ DOMAIN keys = 1 .. n /\ Len(features) = n
  <2> DEFINE Y == Int \X {x.id : x \in X}
  <2>1. keys \in Seq(Y) /\ n = Len(features)
    BY <1>2, KeysAre
  <2> HIDE DEF Y
  <2> QED BY <2>1, LenProperties
<1>4. \A k \in 1 .. n : IsTextFeature(features[k])
  <2>1. AreFeatures(features)
    BY FlatFeatures
  <2> HIDE DEF features, n
  <2> QED BY <1>3, <2>1, FeaturesAre
<1>5. known \in Seq((1 .. n) \cap W)
  <2>1. places \in Seq(1 .. n)
    BY <1>3
  <2> HIDE DEF places, W
  <2> QED BY <2>1, KeptType
<1> DEFINE l == Len(known)
<1>6. l \in Nat /\ DOMAIN known = 1 .. l /\ \A k \in 1 .. l : known[k] \in 1 .. n /\ known[k] \in W
  <2> DEFINE Z == (1 .. n) \cap W
  <2>1. \A z \in Z : z \in 1 .. n /\ z \in W
    OBVIOUS
  <2> HIDE DEF Z, known, n, W
  <2>2. known \in Seq(Z)
    BY <1>5 DEF Z
  <2>3. l \in Nat /\ DOMAIN known = 1 .. l /\ \A k \in 1 .. l : known[k] \in Z
    BY <2>2, LenProperties, ElementOfSeq
  <2> QED BY <2>1, <2>3
<1>7. ASSUME NEW k \in 1 .. l PROVE IsTextFeature(fs[k]) /\ fs[k].id \in Nat
  <2> DEFINE f == features[known[k]]
  <2> DEFINE id == c.mapping[keys[known[k]]]
  <2>1. known[k] \in 1 .. n /\ keys[known[k]] \in DOMAIN c.mapping
    BY <1>6
  <2>2. id \in Nat
    BY <2>1 DEF IsConcat
  <2>3. f = [id |-> f.id, value |-> 1, from |-> f.from, to |-> f.to]
    BY <1>4, <2>1 DEF IsTextFeature
  <2>4. fs[k] = [f EXCEPT !.id = id]
    BY <1>6
  <2> HIDE DEF f, id, fs
  <2> DEFINE one == 1
  <2> HIDE DEF one
  <2>5. f = [id |-> f.id, value |-> one, from |-> f.from, to |-> f.to]
    BY <2>3 DEF one
  <2>6. [f EXCEPT !.id = id] = [id |-> id, value |-> one, from |-> f.from, to |-> f.to]
    BY <2>5
  <2> QED BY <2>2, <2>4, <2>6 DEF IsTextFeature, one
<1>8. fs = [k \in 1 .. l |-> fs[k]]
  BY <1>6
<1> HIDE DEF fs, l
<1> QED BY <1>1, <1>6, <1>7, <1>8, NumberedListed

-----------------------------------------------------------------------------
(* Features of set 1, which text_features_to_lccrf writes, are in K.       *)
HasTextFeatures(K) == K \in SUBSET (Nat \X Nat) /\ \A id \in Nat : <<1, id>> \in K

LEMMA AscendingIs ==
  ASSUME NEW S \in SUBSET Nat, IsFiniteSet(S)
  PROVE  Ascending(S) \in Seq(S)
<1> DEFINE before == {p \in S \X S : p[1] < p[2]}
<1>1. SortsAll(S, before)
  <2>1. \A x \in S : <<x, x>> \notin before
    OBVIOUS
  <2>2. ASSUME NEW x \in S, NEW y \in S, NEW z \in S, <<x, y>> \in before, <<y, z>> \in before
        PROVE  <<x, z>> \in before
    <3>1. x < y /\ y < z /\ x \in Nat /\ y \in Nat /\ z \in Nat
      BY <2>2
    <3>2. x < z
      BY <3>1
    <3> QED BY <3>2
  <2>3. ASSUME NEW x \in S, NEW y \in S, x # y PROVE <<x, y>> \in before \/ <<y, x>> \in before
    <3>1. x \in Nat /\ y \in Nat
      OBVIOUS
    <3>2. x < y \/ y < x
      BY <2>3, <3>1
    <3> QED BY <3>2
  <2> QED BY <2>1, <2>2, <2>3 DEF SortsAll
<1> HIDE DEF before
<1>2. InOrderOf(S, before) \in Seq(S)
  BY <1>1, SortedIs
<1> QED BY <1>2 DEF Ascending, before

LastWith(s, id) == SelectLastInSeq(s, LAMBDA f : f.id = id)

(* Where something has an id, there is a last one that has it.             *)
LEMMA LastOfSome ==
  ASSUME NEW X, NEW s \in Seq(X), NEW id, NEW j \in 1 .. Len(s), s[j].id = id
  PROVE  LastWith(s, id) \in 1 .. Len(s)
<1> DEFINE I == {i \in 1 .. Len(s) : s[i].id = id}
<1>1. Len(s) \in Nat /\ j \in I /\ I \in SUBSET (1 .. Len(s))
  BY LenProperties
<1>2. Max(I) \in I
  <2> HIDE DEF I
  <2>1. I # {}
    BY <1>1
  <2> QED BY <1>1, <2>1, LargestOf
<1>3. LastWith(s, id) = Max(I)
  BY <1>1 DEF SelectLastInSeq, LastWith
<1> QED BY <1>2, <1>3

(* A label and its features are a line of a file.                          *)
LEMMA WordLineIs ==
  ASSUME NEW K, HasTextFeatures(K), NEW label \in Nat, NEW features, AreNumbered(features), NEW t
  PROVE  WordLine(label, features, t) \in WordLines(K)
<1> DEFINE W == {f \in ToSet(features) : f.from = t}
<1> DEFINE here == Kept(features, W)
<1> DEFINE S == {here[k].id : k \in DOMAIN here}
<1> DEFINE ids == Ascending(S)
<1> DEFINE value(id) == here[SelectLastInSeq(here, LAMBDA f : f.id = id)].value
<1> DEFINE fs == [k \in DOMAIN ids |-> <<1, ids[k], value(ids[k])>>]
<1>1. WordLine(label, features, t) = [kind |-> "word", label |-> label, features |-> fs]
  BY DEF WordLine
<1>2. PICK B, C : features \in Seq(TextFeatures(Nat, B, C))
  BY DEF AreNumbered
<1> DEFINE X == TextFeatures(Nat, B, C)
<1> DEFINE Z == X \cap W
<1>3. \A z \in Z : z.id \in Nat /\ z.value = 1
  BY DEF TextFeatures
<1>4. here \in Seq(Z)
  <2> HIDE DEF X, W
  <2> QED BY <1>2, KeptType DEF X
<1> DEFINE n == Len(here)
<1> HIDE DEF Z, here
<1>5. n \in Nat /\ DOMAIN here = 1 .. n /\ \A k \in 1 .. n : here[k].id \in Nat /\ here[k].value = 1
  <2>1. n \in Nat /\ DOMAIN here = 1 .. n /\ \A k \in 1 .. n : here[k] \in Z
    BY <1>4, LenProperties, ElementOfSeq
  <2> QED BY <1>3, <2>1
<1>6. S \in SUBSET Nat /\ IsFiniteSet(S)
  <2> DEFINE F == [k \in 1 .. n |-> here[k].id]
  <2>1. IsFiniteSet(1 .. n)
    BY <1>5, FS_Interval
  <2>2. S = {here[k].id : k \in 1 .. n}
    BY <1>5
  <2> DEFINE R == {F[k] : k \in 1 .. n}
  <2>3. F \in Surjection(1 .. n, R)
    <3>1. F \in [1 .. n -> R]
      OBVIOUS
    <3>2. \A z \in R : \E k \in 1 .. n : F[k] = z
      OBVIOUS
    <3> HIDE DEF F, R
    <3> QED BY <3>1, <3>2 DEF Surjection
  <2> HIDE DEF F, R
  <2>4. IsFiniteSet(R)
    BY <2>1, <2>3, FS_Surjection
  <2>5. R = S
    BY <2>2 DEF F, R
  <2>6. S \in SUBSET Nat
    BY <1>5
  <2> QED BY <2>4, <2>5, <2>6
<1>7. ids \in Seq(S)
  <2> HIDE DEF S
  <2> QED BY <1>6, AscendingIs
<1> DEFINE l == Len(ids)
<1> HIDE DEF ids, n
<1>8. l \in Nat /\ DOMAIN ids = 1 .. l /\ \A k \in 1 .. l : ids[k] \in S
  <2> HIDE DEF S
  <2> QED BY <1>7, LenProperties, ElementOfSeq
<1>9. ASSUME NEW k \in 1 .. l PROVE fs[k] \in FeatureLines(K)
  <2> DEFINE id == ids[k]
  <2>1. PICK j \in 1 .. n : here[j].id = id
    BY <1>5, <1>8
  <2>2. id \in Nat /\ j \in 1 .. Len(here)
    BY <1>5, <1>6, <1>8, <2>1 DEF n
  <2>3. LastWith(here, id) \in 1 .. n
    <3> HIDE DEF id
    <3>1. here[j].id = id
      BY <2>1
    <3>2. j \in 1 .. Len(here)
      BY <2>2
    <3>3. LastWith(here, id) \in 1 .. Len(here)
      BY <1>4, <3>1, <3>2, LastOfSome
    <3> QED BY <3>3 DEF n
  <2>4. value(id) = 1
    <3> DEFINE q == LastWith(here, id)
    <3>1. q \in 1 .. n
      BY <2>3
    <3>2. value(id) = here[q].value
      BY DEF LastWith
    <3> HIDE DEF q, value
    <3>3. here[q].value = 1
      BY <1>5, <3>1
    <3> QED BY <3>2, <3>3
  <2>5. fs[k] = <<1, id, 1>>
    BY <1>8, <2>4
  <2> HIDE DEF fs, id
  <2>6. <<1, id>> \in K
    BY <2>2 DEF HasTextFeatures
  <2> QED BY <2>2, <2>5, <2>6 DEF FeatureLines, FeatureOf
<1>10. fs \in Seq(FeatureLines(K))
  <2>1. fs = [k \in 1 .. l |-> fs[k]]
    BY <1>8
  <2> HIDE DEF fs, l
  <2> QED BY <1>8, <1>9, <2>1, IsASeq
<1> HIDE DEF fs
<1> QED BY <1>1, <1>10 DEF WordLines

(* The labels and features of a text are lines of a file.                  *)
LEMMA AsLccrfIs ==
  ASSUME NEW K, HasTextFeatures(K), NEW labels \in Seq(Nat), NEW features, AreNumbered(features)
  PROVE  AsLccrf(features, labels) \in Seq(Lines(K))
<1> DEFINE words == [t \in DOMAIN labels |-> WordLine(labels[t], features, t - 1)]
<1> DEFINE n == Len(labels)
<1> DEFINE X == Lines(K)
<1> DEFINE blank == [kind |-> "blank"]
<1>1. n \in Nat /\ DOMAIN labels = 1 .. n /\ \A k \in 1 .. n : labels[k] \in Nat
  BY LenProperties, ElementOfSeq
<1>2. ASSUME NEW k \in 1 .. n PROVE words[k] \in X
  <2>1. words[k] \in WordLines(K)
    BY <1>1, WordLineIs
  <2> QED BY <2>1 DEF Lines
<1>3. blank \in X
  BY DEF Lines
<1>4. words = [k \in 1 .. n |-> words[k]]
  BY <1>1
<1>5. AsLccrf(features, labels) = Append(words, blank)
  BY DEF AsLccrf
<1> HIDE DEF words, X, blank, n
<1>a. n \in Nat
  BY <1>1
<1>6. words \in Seq(X)
  BY <1>a, <1>2, <1>4, IsASeq
<1>7. Append(words, blank) \in Seq(X)
  BY <1>3, <1>6, AppendProperties
<1> QED BY <1>5, <1>7 DEF X

-----------------------------------------------------------------------------
(* The regular expressions, added one by one.                              *)
CompiledRun(g, T) ==
  /\ g \in [0 .. Len(Patterns) -> [patterns : Seq(T), regexes : Seq(T)]] /\ g[0] = NewRegexes(<<>>)
  /\ \A k \in 1 .. Len(Patterns) : g[k] = AddRegex(g[k - 1], Patterns[k])
  /\ FoldLeft(AddRegex, NewRegexes(<<>>), Patterns) = g[Len(Patterns)]

LEMMA CompiledRuns ==
  ASSUME NEW T, Patterns \in Seq(T)
  PROVE  \E g : CompiledRun(g, T)
<1> DEFINE n == Len(Patterns)
<1> DEFINE op(r, x) == AddRegex(r, x)
<1> DEFINE seq == [k \in 1 .. n |-> Patterns[k]]
<1> DEFINE base == NewRegexes(<<>>)
<1> DEFINE V == [patterns : Seq(T), regexes : Seq(T)]
<1> DEFINE F == [k \in 1 .. n |-> [v \in V |-> op(v, seq[k])]]
<1>0. n \in Nat /\ Patterns = seq /\ \A k \in 1 .. n : Patterns[k] \in T
  BY LenProperties, ElementOfSeq
<1>1. base \in V
  BY DEF NewRegexes
<1>2. \A k \in 1 .. n : \A v \in V : F[k][v] = op(v, seq[k])
  OBVIOUS
<1>3. DOMAIN seq = 1 .. n /\ \A k \in 1 .. n : seq[k] = Patterns[k]
  OBVIOUS
<1>4. FoldLeft(AddRegex, NewRegexes(<<>>), Patterns) = FoldLeft(op, base, seq)
  <2>1. FoldLeft(AddRegex, base, seq) = FoldLeft(op, base, seq)
    BY DEF FoldLeft, MapThenFoldSet
  <2> QED BY <1>0, <2>1
<1> HIDE DEF F, seq
<1>5. ASSUME NEW k \in 1 .. n, NEW v \in V PROVE op(v, seq[k]) \in V
  <2> DEFINE a == Append(v.patterns, seq[k])
  <2> DEFINE b == Append(v.regexes, seq[k])
  <2> DEFINE z == AddRegex(v, seq[k])
  <2> DEFINE v1 == v.patterns
  <2> DEFINE v2 == v.regexes
  <2>1. v1 \in Seq(T) /\ v2 \in Seq(T) /\ seq[k] \in T /\ v = [patterns |-> v1, regexes |-> v2]
    BY <1>0, <1>3
  <2>2. a \in Seq(T) /\ b \in Seq(T)
    BY <2>1, AppendProperties
  <2>3. z = [v EXCEPT !.patterns = a, !.regexes = b]
    BY DEF AddRegex
  <2> HIDE DEF a, b, z, v1, v2
  <2>4. z = [patterns |-> a, regexes |-> b]
    BY <2>1, <2>3
  <2>5. z \in V
    BY <2>2, <2>4
  <2> QED BY <2>5 DEF z
<1>6. Steps(F, V, 1 .. n)
  <2> HIDE DEF op, V
  <2> QED BY <1>2, <1>5 DEF Steps
<1>7. \E it : it = [s \in SUBSET (1 .. n) |->
                     IF s = {} THEN base ELSE op(it[s \ {Max(s)}], seq[Max(s)])]
  <2>1. PICK it : LeftIteration(it, n, V, base, F)
    BY <1>0, <1>1, <1>6, LeftIterationExists
  <2>2. ASSUME NEW s \in SUBSET (1 .. n), s # {}
        PROVE  it[s] = op(it[s \ {Max(s)}], seq[Max(s)])
    <3>1. Max(s) \in 1 .. n /\ it[s \ {Max(s)}] \in V /\ it[s] = F[Max(s)][it[s \ {Max(s)}]]
      BY <2>1, <2>2 DEF LeftIteration
    <3> HIDE DEF V, op
    <3> QED BY <1>2, <3>1
  <2>3. it \in [SUBSET (1 .. n) -> V] /\ it[{}] = base
    BY <2>1 DEF LeftIteration
  <2> HIDE DEF V, op, base
  <2> QED BY <2>2, <2>3
<1>8. PICK it :
        /\ it = [s \in SUBSET (1 .. n) |->
                   IF s = {} THEN base ELSE op(it[s \ {Max(s)}], seq[Max(s)])]
        /\ FoldLeft(AddRegex, NewRegexes(<<>>), Patterns) = it[1 .. n]
  BY <1>3, <1>4, <1>7 DEF FoldLeft, MapThenFoldSet
<1>9. LeftFold(it, n, V, base, F)
  <2>1. it[{}] = base
    BY <1>8
  <2>2. ASSUME NEW s \in SUBSET (1 .. n), s # {}, it[s \ {Max(s)}] \in V
        PROVE  it[s] = F[Max(s)][it[s \ {Max(s)}]]
    <3>1. it[s] = op(it[s \ {Max(s)}], seq[Max(s)]) /\ Max(s) \in 1 .. n
      BY <1>0, <1>8, <2>2, LargestOf
    <3> HIDE DEF V, op
    <3> QED BY <1>2, <2>2, <3>1
  <2> HIDE DEF V, base
  <2> QED BY <2>1, <2>2 DEF LeftFold
<1>10. PICK g : LeftRun(g, n, V, base, F) /\ g[n] = it[1 .. n]
  <2> HIDE DEF n, op, V, base
  <2> QED BY <1>0, <1>1, <1>6, <1>9, LeftRuns
<1>11. ASSUME NEW k \in 1 .. n PROVE g[k] = op(g[k - 1], seq[k])
  <2>1. g[k] = F[k][g[k - 1]] /\ k - 1 \in 0 .. n /\ g \in [0 .. n -> V]
    BY <1>0, <1>10 DEF LeftRun
  <2> HIDE DEF n, V, op
  <2> QED BY <1>2, <2>1
<1>12. g \in [0 .. n -> V] /\ g[0] = base
  BY <1>10 DEF LeftRun
<1> QED BY <1>3, <1>8, <1>10, <1>11, <1>12 DEF CompiledRun

-----------------------------------------------------------------------------
(***************************************************************************)
(* What the featurizers are as long as data are prepared with them, and    *)
(* what lines the training file has, of features in K.                     *)
(***************************************************************************)
Allowed(K) == HasTextFeatures(K) /\ \A j \in Jobs : j.file \in Seq(Lines(K))

Featurizers ==
  /\ ngrams = [g \in 1 .. Len(Orders) |-> ngrams[g]]
  /\ \A g \in 1 .. Len(Orders) : IsNGrams(ngrams[g], Orders[g])
  /\ \E X : regexes.regexes \in Seq(X)
  /\ IsConcat(concat)

TextKept(K) ==
  /\ file \in Seq(Lines(K))
  /\ stage \in {"fit", "concat", "write"} => Featurizers

LEMMA OrdersAre ==
  Len(Orders) \in Nat /\ DOMAIN Orders = 1 .. Len(Orders)
    /\ \A g \in 1 .. Len(Orders) : Orders[g] \in Nat
<1>1. Orders \in Seq(1 .. 8)
  BY TaggerAssumption
<1> QED BY <1>1, LenProperties, ElementOfSeq

(* The file's invariant holds at the start.                                *)
LEMMA TextInit ==
  ASSUME NEW K, Allowed(K), Init
  PROVE  TextKept(K)
<1>1. file \in Seq(Lines(K))
  BY DEF Init, Allowed
<1>2. ASSUME NEW g \in 1 .. Len(Orders) PROVE IsNGrams(NewNGrams(Orders[g], TRUE), Orders[g])
  BY OrdersAre DEF IsNGrams, NewNGrams
<1>3. /\ ngrams = [g \in 1 .. Len(Orders) |-> ngrams[g]]
      /\ \A g \in 1 .. Len(Orders) : IsNGrams(ngrams[g], Orders[g])
  BY <1>2, OrdersAre DEF Init
<1>4. \E X : regexes.regexes \in Seq(X)
  <2> DEFINE T == Seq(STRING)
  <2>1. Patterns \in Seq(T)
    BY TaggerAssumption
  <2> HIDE DEF T
  <2>2. PICK g : CompiledRun(g, T)
    BY <2>1, CompiledRuns
  <2>3. Len(Patterns) \in 0 .. Len(Patterns)
    BY <2>1, LenProperties
  <2>4. regexes \in [patterns : Seq(T), regexes : Seq(T)]
    BY <2>2, <2>3 DEF CompiledRun, Init
  <2> QED BY <2>4
<1>5. IsConcat(concat)
  <2> DEFINE one == 1
  <2> DEFINE none == <<>>
  <2>0. one \in Nat /\ none \in [DOMAIN none -> Nat]
    OBVIOUS
  <2>1. concat = [mapping |-> none, next |-> one]
    BY DEF Init, NewConcat
  <2> HIDE DEF one, none
  <2> QED BY <2>0, <2>1 DEF IsConcat
<1> QED BY <1>1, <1>3, <1>4, <1>5 DEF TextKept, Featurizers

(* The featurizers of the pipeline give groups of features.                *)
LEMMA GroupsAreGiven ==
  ASSUME Featurizers, NEW tokens \in Seq(DOMAIN Letters)
  PROVE  AreGroups(Groups(tokens))
<1> DEFINE n == Len(Orders)
<1> DEFINE parts == [g \in DOMAIN ngrams |-> Transform(ngrams[g], tokens)]
<1> DEFINE more == RegexTransform(regexes, tokens)
<1> DEFINE groups == Append(parts, more)
<1>1. n \in Nat /\ DOMAIN ngrams = 1 .. n
  BY OrdersAre DEF Featurizers
<1>2. ASSUME NEW g \in 1 .. n PROVE AreFeatures(parts[g])
  <2>1. IsNGrams(ngrams[g], Orders[g])
    BY DEF Featurizers
  <2>2. AreFeatures(Transform(ngrams[g], tokens))
    BY <2>1, TransformIs
  <2> QED BY <1>1, <2>2
<1>3. AreFeatures(more)
  <2>1. PICK X : regexes.regexes \in Seq(X)
    BY DEF Featurizers
  <2> QED BY <2>1, RegexFeatures
<1>4. parts = [g \in 1 .. n |-> parts[g]]
  BY <1>1
<1> DEFINE T == {parts[g] : g \in 1 .. n} \cup {more}
<1>5. (\A g \in 1 .. n : parts[g] \in T) /\ more \in T
  OBVIOUS
<1> HIDE DEF parts, more, n, T
<1>6. parts \in Seq(T) /\ Len(parts) = n
  BY <1>1, <1>4, <1>5, SequenceIs
<1>7. /\ groups \in Seq(T) /\ Len(groups) = n + 1
      /\ \A g \in 1 .. n : groups[g] = parts[g]
      /\ groups[n + 1] = more
  <2>1. groups \in Seq(T) /\ Len(groups) = n + 1
    BY <1>5, <1>6, AppendProperties
  <2>2. \A g \in 1 .. n : groups[g] = parts[g]
    BY <1>5, <1>6, AppendProperties
  <2> QED BY <1>5, <1>6, <2>1, <2>2, AppendProperties
<1>8. ASSUME NEW g \in 1 .. n + 1 PROVE AreFeatures(groups[g])
  <2>1. g \in 1 .. n \/ g = n + 1
    BY <1>1
  <2> HIDE DEF groups
  <2> QED BY <1>2, <1>3, <1>7, <2>1
<1>9. groups = [g \in 1 .. n + 1 |-> groups[g]] /\ n + 1 \in Nat
  <2> HIDE DEF groups
  <2> QED BY <1>1, <1>7, LenProperties
<1>10. AreGroups(groups)
  <2> DEFINE l == n + 1
  <2> HIDE DEF groups, l
  <2>1. groups = [g \in 1 .. l |-> groups[g]] /\ l \in Nat
    BY <1>9 DEF l
  <2>2. \A g \in 1 .. l : AreFeatures(groups[g])
    BY <1>8 DEF l
  <2> QED BY <2>1, <2>2, GroupsListed
<1>11. Groups(tokens) = groups
  BY DEF Groups, parts, more
<1> QED BY <1>10, <1>11

(* The sentence that is next.                                              *)
LEMMA SentenceIs ==
  ASSUME StreamInv, stage \in {"fit", "concat", "write"}
  PROVE  Sentence.tokens \in Seq(DOMAIN Letters) /\ Sentence.labels \in Seq(Nat)
<1>1. job.corpus \in Corpora
  BY JobIs DEF StreamInv
<1>2. done + 1 \in 1 .. Len(job.corpus)
  BY <1>1, LenProperties DEF StreamInv, StreamKept, Corpora
<1>3. Sentence \in [tokens : Seq(DOMAIN Letters), labels : Seq(Nat)]
  BY <1>1, <1>2, ElementOfSeq DEF Sentence, Corpora
<1> QED BY <1>3

(* Writing the file of a corpus keeps the file's invariant.                *)
LEMMA TextPrepared ==
  ASSUME NEW K, Allowed(K), StreamInv, TextKept(K), Prepare
  PROVE  TextKept(K)'
<1>1. CASE FitNGrams
  <2>1. /\ stage = "fit" /\ file' = file /\ regexes' = regexes /\ concat' = concat
        /\ ngrams' = [g \in DOMAIN ngrams |-> Fit(ngrams[g], Sentence.tokens)]
    BY <1>1 DEF FitNGrams
  <2>2. Featurizers /\ file \in Seq(Lines(K))
    BY <2>1 DEF TextKept
  <2>3. Sentence.tokens \in Seq(DOMAIN Letters)
    BY <2>1, SentenceIs
  <2> DEFINE n == Len(Orders)
  <2>4. DOMAIN ngrams = 1 .. n
    BY <2>2 DEF Featurizers
  <2>5. ngrams' = [g \in 1 .. n |-> ngrams'[g]] /\ \A g \in 1 .. n : ngrams'[g] = Fit(ngrams[g], Sentence.tokens)
    BY <2>1, <2>4
  <2>6. ASSUME NEW g \in 1 .. n PROVE IsNGrams(ngrams'[g], Orders[g])
    <3>1. IsNGrams(ngrams[g], Orders[g])
      BY <2>2 DEF Featurizers
    <3>2. IsNGrams(Fit(ngrams[g], Sentence.tokens), Orders[g])
      BY <2>3, <3>1, FitKeeps
    <3> QED BY <2>5, <3>2
  <2>7. Featurizers'
    BY <2>1, <2>2, <2>5, <2>6 DEF Featurizers
  <2> QED BY <2>1, <2>2, <2>7 DEF TextKept
<1>2. CASE FitConcat
  <2>1. /\ stage = "concat" /\ file' = file /\ regexes' = regexes /\ ngrams' = ngrams
        /\ concat' = ConcatFit(concat, Groups(Sentence.tokens))
    BY <1>2 DEF FitConcat
  <2>2. Featurizers /\ file \in Seq(Lines(K))
    BY <2>1 DEF TextKept
  <2>3. AreGroups(Groups(Sentence.tokens))
    BY <2>1, <2>2, SentenceIs, GroupsAreGiven
  <2>4. IsConcat(concat')
    BY <2>1, <2>2, <2>3, ConcatFitIs DEF Featurizers
  <2>5. Featurizers'
    BY <2>1, <2>2, <2>4 DEF Featurizers
  <2> QED BY <2>1, <2>2, <2>5 DEF TextKept
<1>3. CASE WriteData
  <2>1. /\ stage = "write" /\ UNCHANGED <<ngrams, regexes, concat>>
        /\ file' = file \o AsLccrf(Features(Sentence.tokens), Sentence.labels)
    BY <1>3 DEF WriteData
  <2>2. Featurizers /\ file \in Seq(Lines(K))
    BY <2>1 DEF TextKept
  <2>3. AreGroups(Groups(Sentence.tokens)) /\ Sentence.labels \in Seq(Nat)
    BY <2>1, <2>2, SentenceIs, GroupsAreGiven
  <2>4. AreNumbered(Features(Sentence.tokens))
    BY <2>2, <2>3, ConcatTransformIs DEF Featurizers, Features
  <2>5. AsLccrf(Features(Sentence.tokens), Sentence.labels) \in Seq(Lines(K))
    BY <2>3, <2>4, AsLccrfIs DEF Allowed
  <2>6. file' \in Seq(Lines(K))
    BY <2>1, <2>2, <2>5, ConcatProperties
  <2>7. Featurizers'
    BY <2>1, <2>2 DEF Featurizers
  <2> QED BY <2>6, <2>7 DEF TextKept
<1> QED BY <1>1, <1>2, <1>3 DEF Prepare

(* Every step keeps the file's invariant.                                  *)
LEMMA TextNext ==
  ASSUME NEW K, Allowed(K), StreamInv, TextKept(K), [Next]_vars
  PROVE  TextKept(K)'
<1>1. CASE Prepare
  BY <1>1, TextPrepared
<1>2. CASE Learn \/ LearnAgain \/ Load \/ SaveModel \/ LoadTagger \/ DecodeCommand
  <2>1. file' = file /\ stage' \notin {"fit", "concat", "write"}
    <3>1. CASE Learn
      BY <3>1 DEF Learn, ReadChunk, EndOfData, StartPass, TrainChunk, EndPass, FinishLearning, inputs
    <3>2. CASE LearnAgain \/ Load \/ SaveModel \/ LoadTagger
      BY <3>2 DEF LearnAgain, Load, SaveModel, LoadTagger, inputs
    <3>3. CASE DecodeCommand
      BY <3>3 DEF DecodeCommand, OpenInput, EndOfInput, DecodeChunk, EndOfDecoding, inputs
    <3> QED BY <1>2, <3>1, <3>2, <3>3
  <2> QED BY <2>1 DEF TextKept
<1>3. CASE UNCHANGED vars
  BY <1>3 DEF TextKept, Featurizers, vars
<1> QED BY <1>1, <1>2, <1>3 DEF Next, LoadMissing

-----------------------------------------------------------------------------
(***************************************************************************)
(* What holds of the models in every state, with features in K: they are   *)
(* models, and so is the model file; what is in memory and in the chunk    *)
(* files are sentences of the model that is learned; what training keeps   *)
(* beside it, the losses and weights of every pass and the penalties, are  *)
(* of its shape.  There are labels as soon as there is a sentence.         *)
(***************************************************************************)
HasData == Read(file, 1, job.size).data # <<>>
HasLabels(m) == m.max > 0 <=> HasData

Preparing == stage \in {"fit", "concat", "write"}
Learning == stage \in {"read", "pass", "train"}
InUse == stage \in {"saved", "loaded", "input", "decode"}

Usable(m) == IndexedSentences(Len(m.features), m.max)

ModelsKept(K) ==
  /\ IsModel(model, K) /\ model.max \in Nat
  /\ IsModel(crf, K) /\ NoZeros(crf)
  /\ InUse => bin # NoFile
  /\ bin # NoFile => IsFile(bin, K) /\ bin.max \in Nat

LabelsKept ==
  /\ Preparing => bin = NoFile /\ model.max = 0
  /\ stage = "read" => CASE done # 0 -> HasData /\ model.max > 0
                         [] done = 0 /\ bin = NoFile -> model.max = 0
                         [] OTHER -> HasLabels(model)
  /\ stage \in {"pass", "train"} => HasLabels(model)
  /\ bin # NoFile => HasLabels(bin)
  /\ stage \in {"loaded", "input", "decode"} => crf.max = bin.max

SentencesKept ==
  /\ stage = "read" => Stored(data, Usable(model)) /\ data.mem = <<<<>>, <<>>>>
  /\ stage = "pass" => Stored(data, Usable(model)) /\ InMemory(data, Usable(model))
  /\ stage = "train" => /\ Stored(data, Usable(model)) /\ InMemory(data, Usable(model))
                        /\ Midway(data, Usable(model), learner.seen)
  /\ Learning /\ data.disk # <<>> => HasData

LearnerFields == {"loss", "prev", "converged", "highest", "seen", "paid"}

LearnerKept ==
  /\ DOMAIN learner = LearnerFields
  /\ learner.converged \in 0 .. 3
  /\ stage = "train" => learner.converged \in 0 .. 2
  /\ stage \in {"pass", "train"} =>
       /\ learner.highest \in 0 .. Len(past)
       /\ IsPaid(learner.paid, model)
       /\ \A k \in 1 .. Len(past) : past[k].weight \in [DOMAIN model.weight -> Int]

ModelInv(K) == ModelsKept(K) /\ LabelsKept /\ SentencesKept /\ LearnerKept

(* The stages there are, and how far each of them has come.                *)
StagesKept ==
  /\ stage \in {"fit", "concat", "write", "read", "pass", "train", "saved", "loaded",
                "input", "decode", "failed"}
  /\ ~Preparing => done \in 0 .. Len(file)

(* Which chunks are in memory, and which are to come.                      *)
IsAtHand(d) ==
  /\ DOMAIN d = {"disk", "names", "mem", "cur", "next", "queue"}
  /\ d.names \in Seq(Nat) /\ d.queue \in Seq(Nat) /\ Len(d.queue) <= Len(d.names)
  /\ d.cur \in {1, 2} /\ d.next \in {1, 2}

(* What a job is, and the rate of an iteration.                            *)
LEMMA JobHas ==
  ASSUME JobKept
  PROVE  /\ DOMAIN job = {"corpus", "file", "size", "order", "alg", "crf", "again", "reset", "expand"}
         /\ job.size \in Nat \ {0} /\ job.crf \in {"vanilla", "sparse", "constrained"}
         /\ \A k \in 1 .. MaxIter : Rates[job.alg][k] \in Nat
<1>1. PICK j \in Jobs : job \in {j, [j EXCEPT !.again = FALSE]}
  BY DEF JobKept
<1>2. /\ DOMAIN j = {"corpus", "file", "size", "order", "alg", "crf", "again", "reset", "expand"}
      /\ j.size \in Nat \ {0} /\ j.crf \in {"vanilla", "sparse", "constrained"}
  BY TaggerAssumption
<1>3. \A k \in 1 .. MaxIter : Rates[j.alg][k] \in Nat
  BY TaggerAssumption
<1>4. DOMAIN job = DOMAIN j /\ job.size = j.size /\ job.crf = j.crf /\ job.alg = j.alg
  BY <1>1, <1>2
<1> QED BY <1>2, <1>3, <1>4

(* A model that was written is a file.                                     *)
LEMMA FileIsThere ==
  ASSUME NEW m
  PROVE  Serialize(m) # NoFile
<1>1. "max" \in DOMAIN Serialize(m)
  BY DEF Serialize
<1>2. "max" \notin DOMAIN NoFile
  BY DEF NoFile
<1> QED BY <1>1, <1>2

(* A new model has neither labels nor features.                            *)
LEMMA NewModelIs ==
  ASSUME NEW K
  PROVE  /\ IsModel(EmptyModel, K) /\ EmptyModel.max = 0
         /\ IsModel(NoModel, K) /\ NoZeros(NoModel)
<1> DEFINE z == <<>>
<1>1. /\ NoModel = [features |-> z, weight |-> z, max |-> -1, trans |-> z]
      /\ EmptyModel = [features |-> z, weight |-> z, max |-> 0, trans |-> z]
  BY DEF NoModel, EmptyModel
<1>2. \A X : z \in Seq(X)
  OBVIOUS
<1>3. Distinct(z) /\ DOMAIN z = {} /\ z \in [DOMAIN z -> Int]
  BY DEF Distinct
<1>4. 0 .. 0 - 1 = {} /\ 0 .. -1 - 1 = {}
  OBVIOUS
<1>5. z \in [{} -> Int]
  OBVIOUS
<1> HIDE DEF z
<1>6. LabelsOf(EmptyModel) \X LabelsOf(EmptyModel) = {} /\ LabelsOf(NoModel) \X LabelsOf(NoModel) = {}
  BY <1>1, <1>4 DEF LabelsOf
<1>7. IsModel(EmptyModel, K) /\ EmptyModel.max = 0
  BY <1>1, <1>2, <1>3, <1>5, <1>6 DEF IsModel
<1>8. IsModel(NoModel, K) /\ NoZeros(NoModel)
  BY <1>1, <1>2, <1>3, <1>5, <1>6 DEF IsModel, NoZeros
<1> QED BY <1>7, <1>8

(* Nothing was paid for a model that was not trained.                      *)
LEMMA NothingPaidIs ==
  ASSUME NEW K, NEW m, IsModel(m, K)
  PROVE  IsPaid(NothingPaid(m), m)
<1> DEFINE w == [p \in DOMAIN m.weight |-> 0]
<1> DEFINE t == [e \in DOMAIN m.trans |-> 0]
<1> DEFINE none == 0
<1>1. NothingPaid(m) = [owed |-> none, weight |-> w, trans |-> t]
  BY DEF NothingPaid
<1>2. DOMAIN m.trans = LabelsOf(m) \X LabelsOf(m)
  BY DEF IsModel
<1>3. 0 \in -0 .. 0 /\ 0 \in Nat
  OBVIOUS
<1>4. w \in [DOMAIN m.weight -> -none .. none] /\ t \in [LabelsOf(m) \X LabelsOf(m) -> -none .. none]
  BY <1>2, <1>3
<1>5. none \in Nat
  OBVIOUS
<1> HIDE DEF w, t, none
<1> QED BY <1>1, <1>4, <1>5 DEF IsPaid

(* A pass adds to what is owed (CumulativeL1SGDLearner:                    *)
(* SinglePassTraining).                                                    *)
LEMMA OweIs ==
  ASSUME NEW paid, NEW m, IsPaid(paid, m), NEW rate \in Nat
  PROVE  IsPaid(Owe(paid, rate), m)
<1> DEFINE more == (rate * Sparsity) \div Precision
<1> DEFINE owed == paid.owed + more
<1> DEFINE w == paid.weight
<1> DEFINE t == paid.trans
<1>1. more \in Nat
  <2> DEFINE all == rate * Sparsity
  <2>1. all \in Nat
    BY SparsityAssumption
  <2>2. Precision \in Nat \ {0}
    BY InferenceAssumption
  <2> HIDE DEF all
  <2>3. all \div Precision \in Nat
    BY <2>1, <2>2
  <2> QED BY <2>3 DEF all
<1> HIDE DEF more
<1>2. paid.owed \in Nat /\ owed \in Nat /\ -paid.owed .. paid.owed \subseteq -owed .. owed
  BY <1>1 DEF IsPaid
<1>3. Owe(paid, rate) = [paid EXCEPT !.owed = owed]
  BY DEF Owe, more
<1> HIDE DEF owed
<1>4. paid = [owed |-> paid.owed, weight |-> w, trans |-> t]
  BY DEF IsPaid
<1>5. /\ w \in [DOMAIN m.weight -> -owed .. owed]
      /\ t \in [LabelsOf(m) \X LabelsOf(m) -> -owed .. owed]
  BY <1>2 DEF IsPaid
<1> HIDE DEF w, t
<1>6. Owe(paid, rate) = [owed |-> owed, weight |-> w, trans |-> t]
  BY <1>3, <1>4
<1> QED BY <1>2, <1>5, <1>6 DEF IsPaid

(* What was paid is for any model of the same shape.                       *)
LEMMA PaidForShape ==
  ASSUME NEW paid, NEW m, NEW y, SameShape(y, m)
  PROVE  /\ IsPaid(paid, m) => IsPaid(paid, y)
         /\ Usable(y) = Usable(m)
BY DEF SameShape, IsPaid, LabelsOf, Usable

-----------------------------------------------------------------------------
(* The model's invariant holds at the start.                               *)
LEMMA ModelInit ==
  ASSUME NEW K, Init
  PROVE  ModelInv(K)
<1>1. /\ stage \in {"fit", "read"} /\ done = 0 /\ model = EmptyModel /\ data = NewData
      /\ learner = NewLearner /\ past = <<>> /\ bin = NoFile /\ crf = NoModel
  BY DEF Init
<1>2. ModelsKept(K)
  BY <1>1, NewModelIs DEF ModelsKept, InUse
<1>3. LabelsKept
  BY <1>1, NewModelIs DEF LabelsKept, Preparing
<1>4. SentencesKept
  <2>1. Stored(data, Usable(model)) /\ data.mem = <<<<>>, <<>>>>
    BY <1>1, NewDataStored
  <2>2. data.disk = <<>>
    BY <1>1 DEF NewData
  <2> QED BY <1>1, <2>1, <2>2 DEF SentencesKept
<1>5. LearnerKept
  BY <1>1 DEF LearnerKept, NewLearner, LearnerFields
<1> QED BY <1>2, <1>3, <1>4, <1>5 DEF ModelInv

(* Preparing the data.                                                     *)
LEMMA PrepareModel ==
  ASSUME NEW K, StreamInv, ModelInv(K), Prepare
  PROVE  ModelInv(K)'
<1>1. /\ Preparing /\ UNCHANGED <<model, data, learner, past, bin, crf>>
      /\ stage' \in {"fit", "concat", "write", "read"}
      /\ stage' = "read" => done' = 0
  <2>1. CASE FitNGrams
    BY <2>1 DEF FitNGrams, training, Advance, Preparing
  <2>2. CASE FitConcat
    BY <2>2 DEF FitConcat, training, Advance, Preparing
  <2>3. CASE WriteData
    BY <2>3 DEF WriteData, training, Advance, Preparing
  <2> QED BY <2>1, <2>2, <2>3 DEF Prepare
<1>2. bin = NoFile /\ model.max = 0 /\ data = NewData
  BY <1>1 DEF ModelInv, LabelsKept, Preparing, StreamInv, StreamKept
<1>3. ModelsKept(K)'
  BY <1>1 DEF ModelInv, ModelsKept, InUse
<1>4. LabelsKept'
  BY <1>1, <1>2 DEF LabelsKept, Preparing
<1>5. SentencesKept'
  <2>1. Stored(data', Usable(model')) /\ data'.mem = <<<<>>, <<>>>>
    BY <1>1, <1>2, NewDataStored
  <2>2. data'.disk = <<>>
    BY <1>1, <1>2 DEF NewData
  <2> QED BY <1>1, <2>1, <2>2 DEF SentencesKept
<1>6. LearnerKept'
  BY <1>1 DEF ModelInv, LearnerKept
<1> QED BY <1>3, <1>4, <1>5, <1>6 DEF ModelInv

-----------------------------------------------------------------------------
(* The model that has grown with a chunk, and the chunk.                   *)
Grows(y, chunk, K) ==
  /\ IsModel(y, K) /\ y.max \in Nat /\ y.max > 0
  /\ Usable(model) \subseteq Usable(y)
  /\ IndexData(y, chunk) \in Seq(Usable(y))

LEMMA ChunkGrows ==
  ASSUME NEW K \in SUBSET (Nat \X Nat), IsModel(model, K), model.max \in Nat,
         NEW b \in Nat, NEW chunk \in Seq(Sentences(K, b)), SomeWords(chunk),
         NEW y, y = Expand(model, chunk) \/ (y = model /\ model.max > 0)
  PROVE  Grows(y, chunk, K)
<1>1. CASE y = Expand(model, chunk)
  <2>1. IsExpanded(y, model, K, chunk)
    BY <1>1, Expanded
  <2>2. IsModel(y, K) /\ y.max \in Nat /\ y.max > model.max /\ Extends(y, model)
    BY <2>1 DEF IsExpanded
  <2>3. y.max > 0
    BY <2>2
  <2>4. Len(model.features) \in Nat /\ Len(y.features) \in Nat
    BY <2>2, UidsOf
  <2>5. Usable(model) \subseteq Usable(y)
    <3>1. Len(model.features) <= Len(y.features) /\ model.max <= y.max
      BY <2>2 DEF Extends
    <3> QED BY <2>2, <2>4, <3>1, IndexedSentencesGrow DEF Usable
  <2>6. IndexData(y, chunk) \in Seq(Usable(y))
    BY <2>2, <2>3, IndexDataIs DEF Usable
  <2> QED BY <2>2, <2>3, <2>5, <2>6 DEF Grows
<1>2. CASE y = model /\ model.max > 0
  <2>1. IndexData(y, chunk) \in Seq(Usable(y))
    BY <1>2, IndexDataIs DEF Usable
  <2> QED BY <1>2, <2>1 DEF Grows
<1> QED BY <1>1, <1>2

(* The chunk that is read next, and the model that learns from it.         *)
ThisChunk == Read(file, done + 1, job.size)
GrowsNow == bin = NoFile \/ job.expand

LEMMA ReadChunkGrows ==
  ASSUME NEW K \in SUBSET (Nat \X Nat), StreamInv, TextKept(K), ProgressKept, ModelInv(K),
         ReadChunk, stage = "read"
  PROVE  /\ HasData /\ done' # 0
         /\ \E b \in Nat : ThisChunk.data \in Seq(Sentences(K, b)) /\ SomeWords(ThisChunk.data)
         /\ model' = IF GrowsNow THEN Expand(model, ThisChunk.data) ELSE model
         /\ Grows(model', ThisChunk.data, K)
         /\ data' = SaveChunk(data, IndexData(model', ThisChunk.data))
<1> DEFINE chunk == ThisChunk.data
<1> DEFINE grown == IF GrowsNow THEN Expand(model, chunk) ELSE model
<1>1. /\ chunk # <<>> /\ done' = ThisChunk.at - 1
      /\ model' = grown /\ data' = SaveChunk(data, IndexData(model', chunk))
  BY DEF ReadChunk, ThisChunk, GrowsNow
<1>2. done \in Int /\ done + 1 \in Int /\ file \in Seq(Lines(K)) /\ done \in Nat
  BY DEF StreamInv, TextKept, ProgressKept
<1>3. PICK b \in Nat : chunk \in Seq(Sentences(K, b)) /\ SomeWords(chunk)
  BY <1>2, SentencesOfLines DEF ThisChunk
<1>4. done' # 0
  <2>1. ThisChunk.at \in Int /\ ThisChunk.at >= done + 1 /\ ThisChunk.at # done + 1
    <3>1. PICK L : AreLines(file, L)
      BY DEF StreamInv
    <3> QED BY <1>1, <1>2, <3>1, SentencesAreRead DEF ThisChunk
  <2> QED BY <1>1, <1>2, <2>1
<1>5. HasData
  <2>1. done = 0 => done + 1 = 1
    OBVIOUS
  <2>2. done # 0 => HasData
    BY DEF ModelInv, LabelsKept
  <2>3. done = 0 => ThisChunk = Read(file, 1, job.size)
    BY <2>1 DEF ThisChunk
  <2> QED BY <1>1, <2>2, <2>3 DEF HasData
<1>6. bin # NoFile \/ done # 0 => model.max > 0
  BY <1>5 DEF ModelInv, LabelsKept, HasLabels
<1>7. model' = Expand(model, chunk) \/ (model' = model /\ model.max > 0)
  BY <1>1, <1>6 DEF GrowsNow
<1>8. IsModel(model, K) /\ model.max \in Nat
  BY DEF ModelInv, ModelsKept
<1> HIDE DEF chunk
<1>9. Grows(model', chunk, K)
  BY <1>3, <1>7, <1>8, ChunkGrows
<1> QED BY <1>1, <1>3, <1>4, <1>5, <1>9 DEF chunk

(* Reading a chunk keeps the model's invariant.                            *)
LEMMA ReadChunkModel ==
  ASSUME NEW K \in SUBSET (Nat \X Nat), StreamInv, TextKept(K), ProgressKept, ModelInv(K), ReadChunk
  PROVE  ModelInv(K)'
<1>1. /\ UNCHANGED <<job, stage, file, learner, past, bin, crf>>
      /\ stage \in {"read", "input"}
      /\ stage = "input" => model' = model
  BY DEF ReadChunk
<1>4. LearnerKept'
  BY <1>1 DEF ModelInv, LearnerKept
<1>5. CASE stage = "input"
  <2>1. ModelsKept(K)' /\ LabelsKept'
    BY <1>1, <1>5 DEF ModelInv, ModelsKept, LabelsKept, InUse, Preparing, HasLabels, HasData
  <2>2. SentencesKept'
    BY <1>1, <1>5 DEF SentencesKept, Learning
  <2> QED BY <1>4, <2>1, <2>2 DEF ModelInv
<1>6. CASE stage = "read"
  <2> DEFINE more == IndexData(model', ThisChunk.data)
  <2>1. /\ HasData /\ done' # 0 /\ Grows(model', ThisChunk.data, K) /\ data' = SaveChunk(data, more)
    BY <1>6, ReadChunkGrows
  <2>2. ModelsKept(K)'
    BY <1>1, <1>6, <2>1 DEF ModelInv, ModelsKept, Grows, InUse
  <2>3. HasData' = HasData
    BY <1>1 DEF HasData
  <2>4. LabelsKept'
    BY <1>1, <1>6, <2>1, <2>3 DEF ModelInv, LabelsKept, Grows, Preparing, HasLabels
  <2>5. SentencesKept'
    <3> DEFINE U == Usable(model)
    <3> DEFINE W == Usable(model')
    <3>1. Stored(data, U) /\ data.mem = <<<<>>, <<>>>>
      BY <1>6 DEF ModelInv, SentencesKept
    <3>2. U \cup W = W /\ more \in Seq(W)
      BY <2>1 DEF Grows
    <3> HIDE DEF U, W, more
    <3>3. Stored(data', U \cup W) /\ data'.mem = data.mem
      BY <2>1, <3>1, <3>2, SaveChunkKeeps
    <3>4. Stored(data', W) /\ data'.mem = data.mem
      BY <3>2, <3>3
    <3> QED BY <1>1, <1>6, <2>1, <2>3, <3>1, <3>4 DEF SentencesKept, W
  <2> QED BY <1>4, <2>2, <2>4, <2>5 DEF ModelInv
<1> QED BY <1>1, <1>5, <1>6

(* The end of the data keeps the model's invariant.                        *)
LEMMA EndOfDataModel ==
  ASSUME NEW K \in SUBSET (Nat \X Nat), StreamInv, ProgressKept, ModelInv(K), EndOfData
  PROVE  ModelInv(K)'
<1>1. /\ UNCHANGED <<job, file, done, model, past, bin, crf>>
      /\ stage = "read" /\ stage' = "pass"
      /\ Read(file, done + 1, job.size).data = <<>>
      /\ data' = LoadAll(Flush(data, job.order))
      /\ learner' = [NewLearner EXCEPT !.paid = NothingPaid(model)]
  BY DEF EndOfData, inputs
<1>2. ModelsKept(K)'
  BY <1>1 DEF ModelInv, ModelsKept, InUse
<1>3. HasData' = HasData
  BY <1>1 DEF HasData
<1>4. HasLabels(model)
  <2>1. done = 0 => done + 1 = 1
    OBVIOUS
  <2>2. done = 0 => ~HasData
    BY <1>1, <2>1 DEF HasData
  <2>3. model.max \in Nat
    BY DEF ModelInv, ModelsKept
  <2>4. CASE done # 0
    BY <1>1, <2>4 DEF ModelInv, LabelsKept, HasLabels
  <2>5. CASE done = 0 /\ bin = NoFile
    <3>1. model.max = 0
      BY <1>1, <2>5 DEF ModelInv, LabelsKept
    <3> QED BY <2>2, <2>5, <3>1 DEF HasLabels
  <2>6. CASE done = 0 /\ bin # NoFile
    BY <1>1, <2>6 DEF ModelInv, LabelsKept
  <2> QED BY <2>4, <2>5, <2>6
<1>5. LabelsKept'
  <2>1. bin # NoFile => HasLabels(bin)
    BY DEF ModelInv, LabelsKept
  <2> QED BY <1>1, <1>3, <1>4, <2>1 DEF LabelsKept, Preparing, HasLabels
<1>6. SentencesKept'
  <2> DEFINE U == Usable(model)
  <2>1. Stored(data, U) /\ data.mem = <<<<>>, <<>>>>
    BY <1>1 DEF ModelInv, SentencesKept
  <2>2. data.mem[2] \in Seq(U)
    BY <2>1
  <2>3. IsOrder(job.order)
    BY JobIs DEF StreamInv
  <2> HIDE DEF U
  <2>4. Stored(data', U) /\ InMemory(data', U) /\ data'.disk = data.disk
    BY <1>1, <2>1, <2>2, <2>3, LoadAllKeeps
  <2>5. data.disk # <<>> => HasData
    BY <1>1 DEF ModelInv, SentencesKept, Learning
  <2> QED BY <1>1, <1>3, <2>4, <2>5 DEF SentencesKept, U
<1>7. LearnerKept'
  <2>1. IsPaid(NothingPaid(model), model)
    BY NothingPaidIs DEF ModelInv, ModelsKept
  <2>2. past = <<>>
    BY <1>1 DEF ProgressKept
  <2>3. /\ DOMAIN learner' = LearnerFields /\ learner'.converged = 0 /\ learner'.highest = 0
        /\ learner'.paid = NothingPaid(model)
    BY <1>1 DEF NewLearner, LearnerFields
  <2>4. Len(past') = 0
    BY <1>1, <2>2
  <2> QED BY <1>1, <2>1, <2>3, <2>4 DEF LearnerKept
<1> QED BY <1>2, <1>5, <1>6, <1>7 DEF ModelInv

-----------------------------------------------------------------------------
(* The start of a pass keeps the model's invariant.                        *)
LEMMA StartPassModel ==
  ASSUME NEW K \in SUBSET (Nat \X Nat), StreamInv, ProgressKept, ModelInv(K), StartPass
  PROVE  ModelInv(K)' /\ Rate \in Nat
<1>1. /\ UNCHANGED <<job, file, done, model, past, bin, crf>>
      /\ stage = "pass" /\ stage' = "train" /\ ~Converged
      /\ data' = Flush(data, job.order)
      /\ learner' = [learner EXCEPT !.loss = 0, !.seen = <<>>, !.paid = Owe(@, Rate)]
  BY DEF StartPass, inputs
<1>2. ModelsKept(K)'
  BY <1>1 DEF ModelInv, ModelsKept, InUse
<1>3. HasData' = HasData
  BY <1>1 DEF HasData
<1>4. LabelsKept'
  BY <1>1, <1>3 DEF ModelInv, LabelsKept, Preparing, HasLabels
<1>a. IsOrder(job.order)
  BY JobIs DEF StreamInv
<1>5. SentencesKept'
  <2> DEFINE U == Usable(model)
  <2>1. Stored(data, U) /\ InMemory(data, U)
    BY <1>1 DEF ModelInv, SentencesKept
  <2> HIDE DEF U
  <2>2. Stored(data', U) /\ InMemory(data', U) /\ Midway(data', U, <<>>) /\ data'.disk = data.disk
    BY <1>1, <1>a, <2>1, PassBegins
  <2>3. data.disk # <<>> => HasData
    BY <1>1 DEF ModelInv, SentencesKept, Learning
  <2>4. learner'.seen = <<>>
    BY <1>1 DEF ModelInv, LearnerKept, LearnerFields
  <2> QED BY <1>1, <1>3, <2>2, <2>3, <2>4 DEF SentencesKept, U
<1>6. Rate \in Nat
  <2>1. Len(past) \in Nat /\ Len(past) <= MaxIter /\ Len(past) # MaxIter
    BY <1>1, LenProperties DEF ProgressKept, Passes, Converged
  <2>2. MaxIter \in Nat
    BY TaggerAssumption
  <2>3. Len(past) + 1 \in 1 .. MaxIter
    BY <2>1, <2>2
  <2> QED BY <2>3, JobHas DEF StreamInv, Rate
<1>7. LearnerKept'
  <2>1. /\ DOMAIN learner = LearnerFields /\ learner.converged \in 0 .. 3
        /\ learner.highest \in 0 .. Len(past)
        /\ IsPaid(learner.paid, model)
        /\ \A k \in 1 .. Len(past) : past[k].weight \in [DOMAIN model.weight -> Int]
    BY <1>1 DEF ModelInv, LearnerKept
  <2>2. ~(learner.converged > 2)
    BY <1>1 DEF Converged
  <2>3. learner.converged \in 0 .. 2
    BY <2>1, <2>2
  <2>4. IsPaid(Owe(learner.paid, Rate), model)
    BY <1>6, <2>1, OweIs
  <2>5. /\ DOMAIN learner' = LearnerFields /\ learner'.converged = learner.converged
        /\ learner'.highest = learner.highest /\ learner'.paid = Owe(learner.paid, Rate)
    BY <1>1, <2>1 DEF LearnerFields
  <2> QED BY <1>1, <2>1, <2>3, <2>4, <2>5 DEF LearnerKept
<1> QED BY <1>2, <1>4, <1>5, <1>6, <1>7 DEF ModelInv

(* What a chunk makes of the model and of what was paid.                   *)
ChunkRun ==
  [model |-> model, loss |-> learner.loss, paid |-> learner.paid, failed |-> FALSE]

LEMMA ChunkIsTrained ==
  ASSUME NEW K \in SUBSET (Nat \X Nat), StreamInv, ProgressKept, ModelInv(K), TrainChunk
  PROVE  LET handed == Shuffled(Swap(data), job.order)
             y == AfterChunk(job.alg, job.crf, Rate, ChunkRun, Handed(handed))
         IN  /\ IsTrained(y, model, K) /\ y.paid.owed = learner.paid.owed
             /\ job.alg = "l1sgd" => ChunkPays(y, ChunkRun, Handed(handed))
             /\ job.crf # "constrained" => y.failed = FALSE
             /\ Handed(handed) \in Seq(Usable(model))
             /\ HandedNext(handed, data, Usable(model))
<1> DEFINE handed == Shuffled(Swap(data), job.order)
<1> DEFINE chunk == Handed(handed)
<1> DEFINE U == Usable(model)
<1>1. stage = "train" /\ data.queue # <<>>
  BY DEF TrainChunk, IsEmpty
<1>2. Stored(data, U) /\ InMemory(data, U) /\ Midway(data, U, learner.seen)
  BY <1>1 DEF ModelInv, SentencesKept
<1>3. IsOrder(job.order)
  BY JobIs DEF StreamInv
<1>4. HandedNext(handed, data, U)
  <2> HIDE DEF U
  <2> QED BY <1>1, <1>2, <1>3, SwapHands
<1>5. chunk \in Seq(U)
  BY <1>4 DEF HandedNext, Handed
<1>6. model.max > 0
  <2>1. data.disk # <<>>
    <3>1. Len(data.queue) \in 0 .. Len(data.disk) /\ data.queue = [k \in 1 .. Len(data.queue) |-> Gone(data) + k]
      BY <1>2 DEF Midway
    <3>2. data.disk = <<>> => Len(data.disk) = 0
      OBVIOUS
    <3>3. data.disk = <<>> => Len(data.queue) = 0
      BY <3>1, <3>2
    <3> DEFINE l == Len(data.queue)
    <3> DEFINE h == Gone(data)
    <3>4. data.queue = [k \in 1 .. l |-> h + k]
      BY <3>1
    <3> HIDE DEF l, h
    <3>5. l = 0 => data.queue = <<>>
      BY <3>4
    <3> QED BY <1>1, <3>3, <3>5 DEF l
  <2> QED BY <1>1, <2>1 DEF ModelInv, SentencesKept, LabelsKept, Learning, HasLabels
<1>7. Rate \in Int
  <2>1. Len(past) \in Nat /\ Len(past) <= MaxIter /\ Len(past) # MaxIter
    BY <1>1, LenProperties DEF ProgressKept, Passes
  <2>2. MaxIter \in Nat
    BY TaggerAssumption
  <2>3. Len(past) + 1 \in 1 .. MaxIter
    BY <2>1, <2>2
  <2> QED BY <2>3, JobHas DEF StreamInv, Rate
<1>8. job.crf \in {"vanilla", "sparse", "constrained"}
  BY JobHas DEF StreamInv
<1>9. IsTrained(ChunkRun, model, K)
  <2> DEFINE no == FALSE
  <2> DEFINE loss == learner.loss
  <2> DEFINE paid == learner.paid
  <2>1. IsModel(model, K) /\ SameShape(model, model) /\ IsPaid(paid, model) /\ no \in BOOLEAN
    BY <1>1 DEF ModelInv, ModelsKept, LearnerKept, SameShape
  <2>2. ChunkRun = [model |-> model, loss |-> loss, paid |-> paid, failed |-> no]
    BY DEF ChunkRun
  <2> HIDE DEF no, loss, paid
  <2> QED BY <2>1, <2>2 DEF IsTrained
<1> HIDE DEF handed, chunk
<1>10. chunk \in Seq(IndexedSentences(Len(model.features), model.max))
  BY <1>5 DEF U, Usable
<1> DEFINE y == AfterChunk(job.alg, job.crf, Rate, ChunkRun, chunk)
<1>11. /\ IsTrained(y, model, K) /\ OwesTheSame(y, ChunkRun)
       /\ job.alg = "l1sgd" => ChunkPays(y, ChunkRun, chunk)
       /\ job.crf # "constrained" => y.failed = FALSE
  <2> DEFINE alg == job.alg
  <2> DEFINE kind == job.crf
  <2> DEFINE rate == Rate
  <2> DEFINE run == ChunkRun
  <2>1. rate \in Int /\ kind \in {"vanilla", "sparse", "constrained"} /\ IsTrained(run, model, K)
    BY <1>7, <1>8, <1>9
  <2>a. run.failed = FALSE
    BY DEF ChunkRun
  <2> HIDE DEF alg, kind, rate, run
  <2> DEFINE z == AfterChunk(alg, kind, rate, run, chunk)
  <2>2. IsTrained(z, model, K)
    BY <1>6, <1>10, <2>1, ChunkTrained, Zenon
  <2>3. OwesTheSame(z, run)
    BY <1>6, <1>10, <2>1, ChunkTrained, Zenon
  <2>4. alg = "l1sgd" => ChunkPays(z, run, chunk)
    BY <1>6, <1>10, <2>1, ChunkTrained, Zenon
  <2>5. ASSUME kind # "constrained" PROVE z.failed = FALSE
    <3>1. kind \in {"vanilla", "sparse"}
      BY <2>1, <2>5
    <3> HIDE DEF z
    <3>2. rate \in Int /\ IsTrained(run, model, K) /\ GoesOn(run)
      BY <2>1, <2>a DEF GoesOn
    <3>3. GoesOn(AfterChunk(alg, kind, rate, run, chunk))
      BY <1>6, <1>10, <3>1, <3>2, ChunkSucceeds, Zenon
    <3> QED BY <3>3 DEF z, GoesOn
  <2> QED BY <2>2, <2>3, <2>4, <2>5 DEF alg, kind, rate, run
<1>12. ChunkRun.paid = learner.paid
  BY DEF ChunkRun
<1> QED BY <1>4, <1>5, <1>11, <1>12 DEF handed, chunk, OwesTheSame

(* Training on a chunk keeps the model's invariant.                        *)
LEMMA TrainChunkModel ==
  ASSUME NEW K \in SUBSET (Nat \X Nat), StreamInv, ProgressKept, ModelInv(K), TrainChunk
  PROVE  ModelInv(K)'
<1> DEFINE handed == Shuffled(Swap(data), job.order)
<1> DEFINE chunk == Handed(handed)
<1> DEFINE y == AfterChunk(job.alg, job.crf, Rate, ChunkRun, chunk)
<1>1. /\ UNCHANGED <<job, file, done, past, bin, crf>>
      /\ stage = "train" /\ stage' \in {"train", "failed"} /\ data.queue # <<>>
      /\ data' = handed /\ model' = y.model
      /\ learner' = [learner EXCEPT !.loss = y.loss, !.paid = y.paid, !.seen = @ \o chunk]
  BY DEF TrainChunk, inputs, IsEmpty, ChunkRun, AfterChunk
<1>2. IsTrained(y, model, K) /\ HandedNext(handed, data, Usable(model)) /\ chunk \in Seq(Usable(model))
  BY ChunkIsTrained
<1> HIDE DEF handed, y
<1>3. IsModel(y.model, K) /\ SameShape(y.model, model) /\ IsPaid(y.paid, model)
  BY <1>2 DEF IsTrained
<1>4. ModelsKept(K)'
  BY <1>1, <1>3 DEF ModelInv, ModelsKept, InUse, SameShape
<1>5. HasData' = HasData
  BY <1>1 DEF HasData
<1>6. LabelsKept'
  BY <1>1, <1>3, <1>5 DEF ModelInv, LabelsKept, Preparing, HasLabels, SameShape
<1>7. Usable(model') = Usable(model)
  BY <1>1, <1>3, PaidForShape
<1>8. SentencesKept'
  <2> DEFINE U == Usable(model)
  <2>1. Stored(data, U) /\ InMemory(data, U) /\ Midway(data, U, learner.seen)
    BY <1>1 DEF ModelInv, SentencesKept
  <2>2. HandedNext(handed, data, U)
    BY <1>2
  <2> HIDE DEF U
  <2>3. Stored(handed, U) /\ InMemory(handed, U) /\ Midway(handed, U, learner.seen \o chunk) /\ handed.disk = data.disk
    BY <1>1, <2>1, <2>2, ChunkHandedOut
  <2>4. data.disk # <<>> => HasData
    BY <1>1 DEF ModelInv, SentencesKept, Learning
  <2>5. learner'.seen = learner.seen \o chunk
    BY <1>1 DEF ModelInv, LearnerKept, LearnerFields
  <2> QED BY <1>1, <1>5, <1>7, <2>3, <2>4, <2>5 DEF SentencesKept, U
<1>9. LearnerKept'
  <2>1. /\ DOMAIN learner = LearnerFields /\ learner.converged \in 0 .. 2
        /\ learner.highest \in 0 .. Len(past)
        /\ \A k \in 1 .. Len(past) : past[k].weight \in [DOMAIN model.weight -> Int]
    BY <1>1 DEF ModelInv, LearnerKept
  <2>2. /\ DOMAIN learner' = LearnerFields /\ learner'.converged = learner.converged
        /\ learner'.highest = learner.highest /\ learner'.paid = y.paid
    BY <1>1, <2>1 DEF LearnerFields
  <2>3. IsPaid(y.paid, model') /\ DOMAIN model'.weight = DOMAIN model.weight
    BY <1>1, <1>3, PaidForShape DEF SameShape
  <2>4. learner'.converged \in 0 .. 3
    BY <2>1, <2>2
  <2> QED BY <1>1, <2>1, <2>2, <2>3, <2>4 DEF LearnerKept
<1> QED BY <1>4, <1>6, <1>8, <1>9 DEF ModelInv

(* The end of a pass keeps the model's invariant, and leaves the cache to  *)
(* agree with the parameters.                                              *)
LEMMA EndPassModel ==
  ASSUME NEW K \in SUBSET (Nat \X Nat), StreamInv, ProgressKept, ModelInv(K), EndPass
  PROVE  ModelInv(K)' /\ Cached(model')
<1> DEFINE back == BackPropagate(model)
<1> DEFINE loss == PassLoss(job.alg, learner.loss, back)
<1> DEFINE stalled == Len(past) >= WarmIter[job.alg] /\ Stalled(learner.prev, loss)
<1>1. /\ UNCHANGED <<job, file, done, data, bin, crf>>
      /\ stage = "train" /\ stage' = "pass"
      /\ model' = back
      /\ past' = Append(past, [loss |-> loss, weight |-> back.weight])
      /\ learner' = [learner EXCEPT
           !.prev = loss,
           !.converged = IF stalled THEN @ + 1 ELSE 0,
           !.highest = IF stalled THEN @ ELSE Len(past) + 1]
  BY DEF EndPass, inputs
<1>2. IsModel(model, K)
  BY DEF ModelInv, ModelsKept
<1>3. IsModel(back, K) /\ Cached(back) /\ SameShape(back, model)
  BY <1>2, BackPropagated
<1> HIDE DEF back, loss, stalled
<1>4. ModelsKept(K)'
  BY <1>1, <1>3 DEF ModelInv, ModelsKept, InUse, SameShape
<1>5. HasData' = HasData
  BY <1>1 DEF HasData
<1>6. LabelsKept'
  BY <1>1, <1>3, <1>5 DEF ModelInv, LabelsKept, Preparing, HasLabels, SameShape
<1>7. Usable(model') = Usable(model) /\ (IsPaid(learner.paid, model) => IsPaid(learner.paid, model'))
  BY <1>1, <1>3, PaidForShape
<1>8. SentencesKept'
  BY <1>1, <1>5, <1>7 DEF ModelInv, SentencesKept, Learning
<1>9. LearnerKept'
  <2>1. /\ DOMAIN learner = LearnerFields /\ learner.converged \in 0 .. 2
        /\ learner.highest \in 0 .. Len(past)
        /\ IsPaid(learner.paid, model)
        /\ \A k \in 1 .. Len(past) : past[k].weight \in [DOMAIN model.weight -> Int]
    BY <1>1 DEF ModelInv, LearnerKept
  <2>2. /\ DOMAIN learner' = LearnerFields /\ learner'.paid = learner.paid
        /\ learner'.converged = (IF stalled THEN learner.converged + 1 ELSE 0)
        /\ learner'.highest = (IF stalled THEN learner.highest ELSE Len(past) + 1)
    BY <1>1, <2>1 DEF LearnerFields
  <2>3. DOMAIN model'.weight = DOMAIN model.weight /\ back.weight \in [DOMAIN model.weight -> Int]
    BY <1>1, <1>3 DEF SameShape, IsModel
  <2>4. PICK T : past \in Seq(T)
    BY <1>1 DEF ProgressKept, Passes
  <2> DEFINE one == [loss |-> loss, weight |-> back.weight]
  <2> DEFINE X == T \cup {one}
  <2>5. past \in Seq(X) /\ one \in X
    BY <2>4, WiderSeq
  <2>a. one.weight = back.weight
    OBVIOUS
  <2> HIDE DEF X, one
  <2>6. /\ Len(past') = Len(past) + 1 /\ past'[Len(past) + 1] = one /\ Len(past) \in Nat
        /\ \A k \in 1 .. Len(past) : past'[k] = past[k]
    <3>1. past' = Append(past, one)
      BY <1>1 DEF one
    <3> QED BY <2>5, <3>1, AppendProperties, LenProperties
  <2>7. ASSUME NEW k \in 1 .. Len(past') PROVE past'[k].weight \in [DOMAIN model'.weight -> Int]
    <3>1. k \in 1 .. Len(past) \/ k = Len(past) + 1
      BY <2>6
    <3> QED BY <2>1, <2>3, <2>6, <2>a, <3>1
  <2>8. learner'.converged \in 0 .. 3 /\ learner'.highest \in 0 .. Len(past')
    BY <2>1, <2>2, <2>6
  <2> QED BY <1>1, <1>7, <2>1, <2>2, <2>7, <2>8 DEF LearnerKept
<1> QED BY <1>1, <1>3, <1>4, <1>6, <1>8, <1>9 DEF ModelInv

(* The end of learning keeps the model's invariant.                        *)
LEMMA FinishModel ==
  ASSUME NEW K \in SUBSET (Nat \X Nat), StreamInv, ProgressKept, ModelInv(K), FinishLearning
  PROVE  ModelInv(K)'
<1>1. /\ UNCHANGED <<job, file, done, data, learner, past, crf>>
      /\ stage = "pass" /\ stage' = "saved"
      /\ model' = RolledBack /\ bin' = Serialize(Shrink(model'))
  BY DEF FinishLearning, inputs
<1>2. IsModel(model, K) /\ model.max \in Nat
  BY DEF ModelInv, ModelsKept
<1> DEFINE w == IF learner.highest = 0 THEN [p \in DOMAIN model.weight |-> 0]
                ELSE past[learner.highest].weight
<1>3. w \in [DOMAIN model.weight -> Int]
  <2>1. /\ learner.highest \in 0 .. Len(past)
        /\ \A k \in 1 .. Len(past) : past[k].weight \in [DOMAIN model.weight -> Int]
    BY <1>1 DEF ModelInv, LearnerKept
  <2>2. Len(past) \in Nat
    BY <1>1, LenProperties DEF ProgressKept, Passes
  <2>3. learner.highest # 0 => learner.highest \in 1 .. Len(past)
    BY <2>1, <2>2
  <2> QED BY <2>1, <2>3
<1>4. model' = Reset(model, w)
  BY <1>1 DEF RolledBack
<1> HIDE DEF w
<1>5. IsModel(model', K) /\ SameShape(model', model)
  BY <1>2, <1>3, <1>4, ResetIs
<1> DEFINE shrunk == Shrink(model')
<1>6. IsModel(shrunk, K) /\ NoZeros(shrunk) /\ shrunk.max = model'.max
  BY <1>5, ShrunkIs DEF IsShrunk
<1>7. IsFile(bin', K) /\ bin'.max = model.max /\ bin' # NoFile
  <2> HIDE DEF shrunk
  <2>1. bin' = Serialize(shrunk)
    BY <1>1 DEF shrunk
  <2>2. IsWritten(bin', shrunk, K)
    BY <1>6, <2>1, SerializedIs
  <2> QED BY <1>5, <1>6, <2>1, <2>2, FileIsThere DEF IsWritten, SameShape
<1>8. ModelsKept(K)'
  BY <1>1, <1>2, <1>5, <1>7 DEF ModelInv, ModelsKept, SameShape
<1>9. HasData' = HasData
  BY <1>1 DEF HasData
<1>10. LabelsKept'
  BY <1>1, <1>7, <1>9 DEF ModelInv, LabelsKept, Preparing, HasLabels
<1>11. SentencesKept' /\ LearnerKept'
  BY <1>1 DEF ModelInv, SentencesKept, LearnerKept, Learning
<1> QED BY <1>8, <1>10, <1>11 DEF ModelInv

-----------------------------------------------------------------------------
(* The model file, and who uses it.                                        *)
LEMMA BinIsLoaded ==
  ASSUME NEW K \in SUBSET (Nat \X Nat), ModelInv(K), InUse
  PROVE  LET y == Deserialize(bin)
         IN  /\ IsModel(y, K) /\ Cached(y) /\ NoZeros(y) /\ y.max = bin.max /\ y.max \in Nat
             /\ HasLabels(y) /\ bin # NoFile
<1>1. IsFile(bin, K) /\ bin.max \in Nat /\ HasLabels(bin) /\ bin # NoFile
  BY DEF ModelInv, ModelsKept, LabelsKept
<1>2. IsLoaded(Deserialize(bin), bin, K)
  BY <1>1, DeserializedIs
<1> QED BY <1>1, <1>2 DEF IsLoaded, HasLabels

(* Learning from a saved model keeps the model's invariant.                *)
LEMMA LearnAgainModel ==
  ASSUME NEW K \in SUBSET (Nat \X Nat), StreamInv, ModelInv(K), LearnAgain
  PROVE  ModelInv(K)'
<1> DEFINE y == Deserialize(bin)
<1>1. /\ stage = "loaded" /\ stage' = "read" /\ done' = 0 /\ data' = NewData /\ past' = <<>>
      /\ UNCHANGED <<file, learner, bin, crf>> /\ job' = [job EXCEPT !.again = FALSE]
      /\ model' = IF job.reset THEN [y EXCEPT !.weight = [p \in DOMAIN @ |-> 0]] ELSE y
  BY DEF LearnAgain
<1>2. IsModel(y, K) /\ y.max \in Nat /\ HasLabels(y) /\ bin # NoFile
  BY <1>1, BinIsLoaded DEF InUse
<1> HIDE DEF y
<1>3. IsModel(model', K) /\ model'.max = y.max
  <2> DEFINE z == [y EXCEPT !.weight = [p \in DOMAIN @ |-> 0]]
  <2>1. IsModel(z, K)
    BY <1>2, ZeroedIs
  <2>2. z.max = y.max
    BY <1>2 DEF IsModel
  <2> QED BY <1>1, <1>2, <2>1, <2>2
<1>4. ModelsKept(K)'
  BY <1>1, <1>2, <1>3 DEF ModelInv, ModelsKept, InUse
<1>5. HasData' = HasData
  <2>1. job'.size = job.size
    BY <1>1, JobHas DEF StreamInv
  <2> QED BY <1>1, <2>1 DEF HasData
<1>6. LabelsKept'
  <2>1. HasLabels(bin)
    BY <1>2 DEF ModelInv, LabelsKept
  <2> QED BY <1>1, <1>2, <1>3, <1>5, <2>1 DEF LabelsKept, Preparing, HasLabels
<1>7. SentencesKept'
  <2>1. Stored(data', Usable(model')) /\ data'.mem = <<<<>>, <<>>>>
    BY <1>1, NewDataStored
  <2>2. data'.disk = <<>>
    BY <1>1 DEF NewData
  <2> QED BY <1>1, <2>1, <2>2 DEF SentencesKept
<1>8. LearnerKept'
  BY <1>1 DEF ModelInv, LearnerKept
<1> QED BY <1>4, <1>6, <1>7, <1>8 DEF ModelInv

(* Loading, saving and decoding keep the model's invariant.                *)
LEMMA UseModel ==
  ASSUME NEW K \in SUBSET (Nat \X Nat), StreamInv, ModelInv(K),
         Load \/ SaveModel \/ LoadTagger \/ DecodeCommand
  PROVE  ModelInv(K)'
<1>1. /\ InUse /\ stage' \in {"loaded", "input", "decode"}
      /\ UNCHANGED <<job, file, model, learner, past>>
  <2>1. CASE Load \/ SaveModel \/ LoadTagger
    BY <2>1 DEF Load, SaveModel, LoadTagger, inputs, InUse
  <2>2. CASE DecodeCommand
    BY <2>2 DEF DecodeCommand, OpenInput, EndOfInput, DecodeChunk, EndOfDecoding, inputs, InUse
  <2> QED BY <2>1, <2>2
<1>2. \/ crf' = Deserialize(bin) /\ bin' = bin
      \/ crf' = crf /\ bin' = Serialize(crf) /\ stage = "loaded"
      \/ crf' = crf /\ bin' = bin /\ stage \in {"loaded", "input", "decode"}
  <2>1. CASE Load \/ SaveModel \/ LoadTagger
    BY <2>1 DEF Load, SaveModel, LoadTagger, inputs
  <2>2. CASE DecodeCommand
    BY <2>2 DEF DecodeCommand, OpenInput, EndOfInput, DecodeChunk, EndOfDecoding, inputs
  <2> QED BY <2>1, <2>2
<1>3. HasData' = HasData
  BY <1>1 DEF HasData
<1>4. /\ IsFile(bin, K) /\ bin.max \in Nat /\ HasLabels(bin) /\ bin # NoFile
      /\ IsModel(crf, K) /\ NoZeros(crf)
  BY <1>1, BinIsLoaded DEF ModelInv, ModelsKept, LabelsKept
<1>5. /\ IsModel(crf', K) /\ NoZeros(crf') /\ IsFile(bin', K) /\ bin' # NoFile
      /\ bin'.max = bin.max /\ crf'.max = bin.max
  <2>1. CASE crf' = Deserialize(bin) /\ bin' = bin
    BY <1>1, <1>4, <2>1, BinIsLoaded
  <2>2. CASE crf' = crf /\ bin' = Serialize(crf) /\ stage = "loaded"
    <3>1. IsWritten(bin', crf, K) /\ bin' # NoFile
      BY <1>4, <2>2, SerializedIs, FileIsThere
    <3>2. crf.max = bin.max
      BY <2>2 DEF ModelInv, LabelsKept
    <3> QED BY <1>4, <2>2, <3>1, <3>2 DEF IsWritten
  <2>3. CASE crf' = crf /\ bin' = bin /\ stage \in {"loaded", "input", "decode"}
    BY <1>4, <2>3 DEF ModelInv, LabelsKept
  <2> QED BY <1>2, <2>1, <2>2, <2>3
<1>6. ModelsKept(K)'
  BY <1>1, <1>4, <1>5 DEF ModelInv, ModelsKept
<1>7. LabelsKept'
  BY <1>1, <1>3, <1>4, <1>5 DEF LabelsKept, Preparing, HasLabels
<1>8. SentencesKept' /\ LearnerKept'
  BY <1>1 DEF ModelInv, SentencesKept, LearnerKept, Learning
<1> QED BY <1>6, <1>7, <1>8 DEF ModelInv

(* Every step keeps the model's invariant.                                 *)
LEMMA ModelNext ==
  ASSUME NEW K \in SUBSET (Nat \X Nat), StreamInv, TextKept(K), ProgressKept, ModelInv(K), [Next]_vars
  PROVE  ModelInv(K)'
<1>1. CASE Prepare
  BY <1>1, PrepareModel
<1>2. CASE ReadChunk
  BY <1>2, ReadChunkModel
<1>3. CASE EndOfData
  BY <1>3, EndOfDataModel
<1>4. CASE StartPass
  BY <1>4, StartPassModel
<1>5. CASE TrainChunk
  BY <1>5, TrainChunkModel
<1>6. CASE EndPass
  BY <1>6, EndPassModel
<1>7. CASE FinishLearning
  BY <1>7, FinishModel
<1>8. CASE LearnAgain
  BY <1>8, LearnAgainModel
<1>9. CASE Load \/ SaveModel \/ LoadTagger \/ DecodeCommand
  BY <1>9, UseModel
<1>10. CASE UNCHANGED vars
  BY <1>10 DEF vars, ModelInv, ModelsKept, LabelsKept, SentencesKept, LearnerKept,
               HasData, HasLabels, Preparing, Learning, InUse
<1> QED BY <1>1, <1>2, <1>3, <1>4, <1>5, <1>6, <1>7, <1>8, <1>9, <1>10 DEF Next, Learn, LoadMissing

-----------------------------------------------------------------------------
(* Which chunks are in memory, and which are to come: what the operations  *)
(* of StreamDataManager make of it.                                        *)
LEMMA FlushedAtHand ==
  ASSUME NEW order, IsOrder(order), NEW U, NEW d, Stored(d, U)
  PROVE  IsAtHand(Flush(d, order)) /\ IsAtHand(LoadAll(Flush(d, order)))
<1> DEFINE f == Flush(d, order)
<1> DEFINE n == Len(d.disk)
<1>1. Flushed(f, d, U)
  BY FlushKeeps
<1> HIDE DEF f
<1>2. n \in Nat
  BY LenProperties DEF Stored
<1>3. /\ DOMAIN f = {"disk", "names", "mem", "cur", "next", "queue"}
      /\ f.names \in Seq(Nat) /\ Len(f.names) = n
  BY <1>1 DEF Flushed, Stored
<1>4. f.queue = [k \in 1 .. n |-> k]
  BY <1>1 DEF Flushed
<1>5. f.cur \in {1, 2} /\ f.next \in {1, 2}
  <2>1. n = 1 \/ n = 2 \/ n \notin {1, 2}
    OBVIOUS
  <2> QED BY <1>1, <2>1 DEF Flushed, OneEach
<1> HIDE DEF n
<1>6. f.queue \in Seq(Nat) /\ Len(f.queue) = n
  BY <1>2, <1>4
<1>7. Len(f.queue) <= Len(f.names)
  BY <1>2, <1>3, <1>6
<1>8. IsAtHand(f)
  BY <1>3, <1>5, <1>6, <1>7 DEF IsAtHand
<1>9. IsAtHand(LoadAll(f))
  BY <1>8 DEF IsAtHand, LoadAll
<1> QED BY <1>8, <1>9 DEF f

(* Saving a chunk leaves the others at hand (StreamDataManager: Save).     *)
LEMMA SavedAtHand ==
  ASSUME NEW d, IsAtHand(d), NEW X, d.disk \in Seq(X), NEW chunk
  PROVE  IsAtHand(SaveChunk(d, chunk))
<1> DEFINE names == Append(d.names, Len(d.disk) + 1)
<1> DEFINE e == SaveChunk(d, chunk)
<1>1. Len(d.disk) + 1 \in Nat
  BY LenProperties
<1>2. d.names \in Seq(Nat) /\ Len(d.names) \in Nat /\ Len(d.queue) \in Nat /\ Len(d.queue) <= Len(d.names)
  BY LenProperties DEF IsAtHand
<1>3. names \in Seq(Nat) /\ Len(names) = Len(d.names) + 1
  BY <1>1, <1>2, AppendProperties
<1>4. /\ DOMAIN e = DOMAIN d /\ e.names = names /\ e.queue = d.queue
      /\ e.cur = d.cur /\ e.next = d.next
  BY DEF SaveChunk, IsAtHand
<1> HIDE DEF e, names
<1>5. Len(e.queue) <= Len(e.names)
  BY <1>2, <1>3, <1>4
<1> QED BY <1>3, <1>4, <1>5 DEF IsAtHand, e

(* So does the next chunk, shuffled or not (StreamDataManager: Next).      *)
LEMMA SwappedAtHand ==
  ASSUME NEW d, IsAtHand(d), d.queue # <<>>, NEW order
  PROVE  IsAtHand(Swap(d)) /\ IsAtHand(Shuffled(Swap(d), order))
<1> DEFINE e == [d EXCEPT !.queue = Tail(@), !.cur = d.next, !.next = d.cur]
<1> DEFINE q == Tail(d.queue)
<1>1. d.queue \in Seq(Nat) /\ Len(d.queue) \in Nat /\ d.names \in Seq(Nat) /\ Len(d.names) \in Nat
  BY LenProperties DEF IsAtHand
<1>2. q \in Seq(Nat) /\ Len(q) = Len(d.queue) - 1
  BY <1>1, HeadTailProperties
<1>3. Len(q) <= Len(d.names)
  BY <1>1, <1>2 DEF IsAtHand
<1>4. /\ DOMAIN e = DOMAIN d /\ e.names = d.names /\ e.queue = q
      /\ e.cur = d.next /\ e.next = d.cur
  BY DEF IsAtHand
<1> HIDE DEF q
<1>5. IsAtHand(e)
  <2> HIDE DEF e
  <2> QED BY <1>2, <1>3, <1>4 DEF IsAtHand
<1>6. IsAtHand(Swap(d))
  <2>1. Swap(d) = e \/ Swap(d) = [e EXCEPT !.mem[e.next] = Chunk(e, Head(e.queue))]
    BY DEF Swap
  <2> HIDE DEF e
  <2> QED BY <1>5, <2>1 DEF IsAtHand
<1> DEFINE w == Swap(d)
<1> HIDE DEF w
<1>7. IsAtHand(Shuffled(w, order))
  BY <1>6 DEF Shuffled, IsAtHand, w
<1> QED BY <1>6, <1>7 DEF w

(* New data have no chunk to be at hand.                                   *)
LEMMA NewAtHand == IsAtHand(NewData)
BY DEF NewData, IsAtHand

-----------------------------------------------------------------------------
ShapeKept == StagesKept /\ IsAtHand(data)

(* The file has some number of lines.                                      *)
LEMMA FileHasLines ==
  ASSUME StreamInv
  PROVE  Len(file) \in Nat
BY LinesCounted

(* The shapes of the data hold at the start.                               *)
LEMMA ShapeInit ==
  ASSUME Init
  PROVE  ShapeKept
<1>1. stage \in {"fit", "read"} /\ done = 0 /\ data = NewData
  BY DEF Init
<1>2. Len(file) \in Nat
  BY StreamInit, FileHasLines
<1> QED BY <1>1, <1>2, NewAtHand DEF ShapeKept, StagesKept

(* Every step keeps the shapes of the data.                                *)
LEMMA ShapeNext ==
  ASSUME StreamInv, StreamInv', ProgressKept, ShapeKept, [Next]_vars
  PROVE  ShapeKept'
<1>a. Len(file') \in Nat
  <2>1. (Len(file) \in Nat)'
    <3>1. \E L : AreLines(file', L)
      BY DEF StreamInv
    <3> QED BY <3>1, LenProperties DEF AreLines
  <2> QED BY <2>1
<1>b. IsOrder(job.order)
  BY JobIs DEF StreamInv
<1>1. CASE Prepare
  <2>1. /\ data' = data
        /\ stage' \in {"fit", "concat", "write", "read"}
        /\ stage' = "read" => done' = 0
    <3>1. CASE FitNGrams
      BY <3>1 DEF FitNGrams, training, Advance
    <3>2. CASE FitConcat
      BY <3>2 DEF FitConcat, training, Advance
    <3>3. CASE WriteData
      BY <3>3 DEF WriteData, training, Advance
    <3> QED BY <1>1, <3>1, <3>2, <3>3 DEF Prepare
  <2>2. StagesKept'
    BY <1>a, <2>1 DEF StagesKept, Preparing
  <2> QED BY <2>1, <2>2 DEF ShapeKept
<1>2. CASE ReadChunk
  <2> DEFINE r == Read(file, done + 1, job.size)
  <2>1. /\ stage \in {"read", "input"} /\ stage' = stage /\ file' = file /\ done' = r.at - 1
        /\ \E known : data' = SaveChunk(data, IndexData(known, r.data))
    BY <1>2 DEF ReadChunk
  <2>2. done \in 0 .. Len(file) /\ Len(file) \in Nat
    BY <2>1, FileHasLines DEF ProgressKept
  <2>3. r.at \in Int /\ r.at >= done + 1 /\ r.at <= Len(file) + 1
    <3>1. PICK L : AreLines(file, L)
      BY DEF StreamInv
    <3>2. done + 1 \in Int /\ done + 1 <= Len(file) + 1
      BY <2>2
    <3> QED BY <3>1, <3>2, SentencesAreRead
  <2>4. done' \in 0 .. Len(file')
    BY <2>1, <2>2, <2>3
  <2>5. StagesKept'
    BY <2>1, <2>4 DEF StagesKept
  <2>6. PICK U : Stored(data, U)
    BY <2>1 DEF StreamInv, StreamKept, ProgressKept
  <2>7. data.disk \in Seq(Seq(U))
    BY <2>6 DEF Stored
  <2>8. IsAtHand(data)'
    BY <2>1, <2>7, SavedAtHand DEF ShapeKept
  <2> QED BY <2>5, <2>8 DEF ShapeKept
<1>3. CASE EndOfData \/ StartPass
  <2>1. /\ stage \in {"read", "pass"} /\ stage' \in {"pass", "train"} /\ UNCHANGED <<file, done>>
        /\ \/ data' = LoadAll(Flush(data, job.order))
           \/ data' = Flush(data, job.order)
    BY <1>3 DEF EndOfData, StartPass, inputs
  <2>2. PICK U : Stored(data, U)
    BY <2>1 DEF StreamInv, StreamKept
  <2>3. IsAtHand(data)'
    BY <1>b, <2>1, <2>2, FlushedAtHand
  <2>4. StagesKept'
    BY <2>1 DEF ShapeKept, StagesKept, Preparing
  <2> QED BY <2>3, <2>4 DEF ShapeKept
<1>4. CASE TrainChunk
  <2>1. /\ stage = "train" /\ stage' \in {"train", "failed"} /\ UNCHANGED <<file, done>>
        /\ data.queue # <<>> /\ data' = Shuffled(Swap(data), job.order)
    BY <1>4 DEF TrainChunk, inputs, IsEmpty
  <2>2. IsAtHand(data)'
    BY <2>1, SwappedAtHand DEF ShapeKept
  <2>3. StagesKept'
    BY <2>1 DEF ShapeKept, StagesKept, Preparing
  <2> QED BY <2>2, <2>3 DEF ShapeKept
<1>5. CASE EndPass \/ FinishLearning \/ Load \/ SaveModel \/ LoadTagger
  <2>1. /\ stage \in {"train", "pass", "saved", "loaded"} /\ stage' \in {"pass", "saved", "loaded"}
        /\ UNCHANGED <<file, done, data>>
    BY <1>5 DEF EndPass, FinishLearning, Load, SaveModel, LoadTagger, inputs
  <2> QED BY <2>1 DEF ShapeKept, StagesKept, Preparing
<1>6. CASE LearnAgain \/ OpenInput
  <2>1. /\ stage' \in {"read", "input"} /\ file' = file /\ done' = 0 /\ data' = NewData
    BY <1>6 DEF LearnAgain, OpenInput
  <2> QED BY <1>a, <2>1, NewAtHand DEF ShapeKept, StagesKept
<1>7. CASE EndOfInput
  <2>1. /\ stage = "input" /\ stage' = "decode" /\ UNCHANGED <<file, done>>
        /\ data' = Flush(LoadAll(Flush(data, Unshuffled)), Unshuffled)
    BY <1>7 DEF EndOfInput, inputs
  <2>2. PICK U : Stored(data, U) /\ data.mem = <<<<>>, <<>>>>
    BY <2>1 DEF ProgressKept
  <2>3. data.mem[2] \in Seq(U)
    BY <2>2
  <2>4. Stored(LoadAll(Flush(data, Unshuffled)), U)
    BY <2>2, <2>3, LoadAllKeeps, UnshuffledIsOrder
  <2>5. IsAtHand(data)'
    BY <2>1, <2>4, FlushedAtHand, UnshuffledIsOrder
  <2>6. StagesKept'
    BY <2>1 DEF ShapeKept, StagesKept, Preparing
  <2> QED BY <2>5, <2>6 DEF ShapeKept
<1>8. CASE DecodeChunk
  <2>1. /\ stage = "decode" /\ UNCHANGED <<stage, file, done>>
        /\ data.queue # <<>> /\ data' = Swap(data)
    BY <1>8 DEF DecodeChunk, inputs, IsEmpty
  <2>2. IsAtHand(data)'
    BY <2>1, SwappedAtHand DEF ShapeKept
  <2> QED BY <2>1, <2>2 DEF ShapeKept, StagesKept, Preparing
<1>9. CASE EndOfDecoding
  <2>1. stage = "decode" /\ stage' = "loaded" /\ UNCHANGED <<file, done, data>>
    BY <1>9 DEF EndOfDecoding, inputs
  <2> QED BY <2>1 DEF ShapeKept, StagesKept, Preparing
<1>10. CASE UNCHANGED vars
  BY <1>10 DEF vars, ShapeKept, StagesKept, Preparing
<1> QED BY <1>1, <1>2, <1>3, <1>4, <1>5, <1>6, <1>7, <1>8, <1>9, <1>10
    DEF Next, Learn, LoadMissing, DecodeCommand

-----------------------------------------------------------------------------
(* All of it, with features in K.                                          *)
TaggerInv(K) == StreamInv /\ ProgressKept /\ TextKept(K) /\ ModelInv(K) /\ ShapeKept

LEMMA TaggerInit ==
  ASSUME NEW K, Allowed(K), Init
  PROVE  TaggerInv(K)
BY StreamInit, ProgressInit, TextInit, ModelInit, ShapeInit DEF TaggerInv

(* Every step keeps the invariant of the training.                         *)
LEMMA TaggerNext ==
  ASSUME NEW K, Allowed(K), TaggerInv(K), [Next]_vars
  PROVE  TaggerInv(K)'
<1>1. K \in SUBSET (Nat \X Nat)
  BY DEF Allowed, HasTextFeatures
<1>2. StreamInv'
  BY StreamNext DEF TaggerInv
<1>3. ProgressKept'
  BY <1>2, ProgressNext DEF TaggerInv
<1>4. TextKept(K)'
  BY TextNext DEF TaggerInv
<1>5. ModelInv(K)'
  BY <1>1, ModelNext DEF TaggerInv
<1>6. ShapeKept'
  BY <1>2, ShapeNext DEF TaggerInv
<1> QED BY <1>2, <1>3, <1>4, <1>5, <1>6 DEF TaggerInv

(* Any feature is one of these.                                            *)
AnyFeature == Nat \X Nat

LEMMA AnyFile == Allowed(AnyFeature)
<1>1. FileLine \subseteq Lines(AnyFeature)
  <2> DEFINE A == Nat \X Nat \X Int
  <2> DEFINE B == FeatureLines(AnyFeature)
  <2>1. A \subseteq B
    BY DEF FeatureLines, FeatureOf, AnyFeature
  <2> HIDE DEF A, B
  <2>2. \A s \in Seq(A) : s \in Seq(B)
    BY <2>1, WiderSeq
  <2> QED BY <2>2 DEF FileLine, Lines, WordLines, A, B
<1>2. \A j \in Jobs : j.file \in Seq(FileLine)
  BY TaggerAssumption
<1> DEFINE L == Lines(AnyFeature)
<1> DEFINE M == FileLine
<1>3. \A j \in Jobs : j.file \in Seq(L)
  <2> HIDE DEF L, M
  <2>1. M \subseteq L
    BY <1>1 DEF L, M
  <2>2. \A j \in Jobs : j.file \in Seq(M)
    BY <1>2 DEF M
  <2> QED BY <2>1, <2>2, WiderSeq
<1>4. HasTextFeatures(AnyFeature)
  BY DEF HasTextFeatures, AnyFeature
<1> QED BY <1>3, <1>4 DEF Allowed

(***************************************************************************)
(* What can occur in a training, for any jobs: the parameters of the model *)
(* that is learned, and of the one that is loaded, are of features and     *)
(* labels they have, whatever was read, learned, rolled back, shrunk,      *)
(* written and read again, and chunks are handed out only while there are  *)
(* any (SparseModel; StreamDataManager; BaseSupervisedLearner::Learn).     *)
(***************************************************************************)
THEOREM TrainingTypes == Spec => []TypeOK
<1>1. ASSUME TaggerInv(AnyFeature) PROVE TypeOK
  <2>1. \E j \in Jobs : job \in {j, [j EXCEPT !.again = FALSE]}
    BY <1>1 DEF TaggerInv, StreamInv, JobKept
  <2>2. done \in 0 .. Max({Len(job.corpus), Len(file)})
    <3> DEFINE a == Len(job.corpus)
    <3> DEFINE b == Len(file)
    <3>1. a \in Nat /\ b \in Nat
      BY <1>1, JobIs, LenProperties, FileHasLines DEF TaggerInv, StreamInv, Corpora
    <3>2. done \in 0 .. a \/ done \in 0 .. b
      <4>1. CASE Preparing
        <5>1. done \in 0 .. a - 1
          BY <1>1, <4>1 DEF TaggerInv, StreamInv, StreamKept, Preparing
        <5> QED BY <3>1, <5>1
      <4>2. CASE ~Preparing
        BY <1>1, <4>2 DEF TaggerInv, ShapeKept, StagesKept
      <4> QED BY <4>1, <4>2
    <3> HIDE DEF a, b
    <3> DEFINE s == {a, b}
    <3>3. s \in SUBSET (0 .. a + b) /\ s # {} /\ a + b \in Int /\ 0 \in Int
      BY <3>1
    <3>4. a \in s /\ b \in s
      OBVIOUS
    <3> HIDE DEF s
    <3>5. Max(s) \in s /\ \A y \in s : y <= Max(s)
      BY <3>3, LargestOfInts
    <3> DEFINE top == Max(s)
    <3>6. a <= top /\ b <= top /\ top \in 0 .. a + b
      BY <3>3, <3>4, <3>5
    <3> HIDE DEF top
    <3>7. top \in Int
      BY <3>1, <3>6
    <3>8. done \in 0 .. top
      BY <3>1, <3>2, <3>6, <3>7
    <3> QED BY <3>8 DEF top, s, a, b
  <2>3. ASSUME NEW m, IsModel(m, AnyFeature)
        PROVE  /\ DOMAIN m.weight \subseteq (DOMAIN m.features) \X LabelsOf(m)
               /\ m.max > 0 => DOMAIN m.trans = LabelsOf(m) \X LabelsOf(m)
    <3>1. DOMAIN m.features = 1 .. Len(m.features)
      BY <2>3, LenProperties DEF IsModel
    <3> QED BY <2>3, <3>1 DEF IsModel, Params, LabelsOf
  <2>4. IsModel(model, AnyFeature) /\ IsModel(crf, AnyFeature)
    BY <1>1 DEF TaggerInv, ModelInv, ModelsKept
  <2>5. {data.cur, data.next} \subseteq {1, 2} /\ Len(data.queue) <= ChunkSize(data)
    BY <1>1 DEF TaggerInv, ShapeKept, IsAtHand, ChunkSize
  <2>6. learner.converged \in 0 .. 3 /\ (stage \in {"pass", "train"} => learner.highest \in 0 .. Len(past))
    BY <1>1 DEF TaggerInv, ModelInv, LearnerKept
  <2>7. stage \in {"fit", "concat", "write", "read", "pass", "train", "saved", "loaded",
                   "input", "decode", "failed"}
    BY <1>1 DEF TaggerInv, ShapeKept, StagesKept
  <2> QED BY <2>1, <2>2, <2>3, <2>4, <2>5, <2>6, <2>7 DEF TypeOK
<1>2. Init => TaggerInv(AnyFeature)
  BY AnyFile, TaggerInit
<1>3. TaggerInv(AnyFeature) /\ [Next]_vars => TaggerInv(AnyFeature)'
  BY AnyFile, TaggerNext
<1> QED BY <1>1, <1>2, <1>3, PTL DEF Spec

-----------------------------------------------------------------------------
(***************************************************************************)
(* A model that is learned has a cache that agrees, between two passes and *)
(* while data are read, unless Reset has just left the one of the premodel *)
(* with other weights.                                                     *)
(***************************************************************************)
CacheKept ==
  /\ Preparing \/ stage = "pass" => Cached(model)
  /\ stage = "read" => Cached(model) \/ (done = 0 /\ job.reset /\ bin # NoFile)

ResetsExpand == \A j \in Jobs : j.reset => j.expand

LEMMA ResetJobExpands ==
  ASSUME ResetsExpand, JobKept, job.reset
  PROVE  job.expand
<1>1. PICK j \in Jobs : job \in {j, [j EXCEPT !.again = FALSE]}
  BY DEF JobKept
<1>2. DOMAIN j = {"corpus", "file", "size", "order", "alg", "crf", "again", "reset", "expand"}
  BY TaggerAssumption
<1>3. job.reset = j.reset /\ job.expand = j.expand
  BY <1>1, <1>2
<1> QED BY <1>3 DEF ResetsExpand

(* The cache of a model without labels agrees with its parameters.         *)
LEMMA NoLabelsCached ==
  ASSUME NEW K, NEW m, IsModel(m, K), m.max = 0
  PROVE  Cached(m)
<1>1. LabelsOf(m) = {}
  BY DEF LabelsOf
<1> QED BY <1>1 DEF Cached

(* The caches agree at the start.                                          *)
LEMMA CacheInit ==
  ASSUME Init
  PROVE  CacheKept
<1> DEFINE K == AnyFeature
<1>1. model = EmptyModel /\ stage \in {"fit", "read"}
  BY DEF Init
<1>2. Cached(model)
  BY <1>1, NewModelIs, NoLabelsCached
<1> QED BY <1>1, <1>2 DEF CacheKept

(* Every step keeps the caches agreeing.                                   *)
LEMMA CacheNext ==
  ASSUME NEW K, Allowed(K), ResetsExpand, TaggerInv(K), CacheKept, [Next]_vars
  PROVE  CacheKept'
<1>a. K \in SUBSET (Nat \X Nat)
  BY DEF Allowed, HasTextFeatures
<1>b. StreamInv /\ ProgressKept /\ TextKept(K) /\ ModelInv(K) /\ IsModel(model, K)
  BY DEF TaggerInv, ModelInv, ModelsKept
<1>1. CASE Prepare
  <2>1. Preparing /\ model' = model /\ stage' \in {"fit", "concat", "write", "read"}
    BY <1>1 DEF Prepare, FitNGrams, FitConcat, WriteData, training, Advance, Preparing
  <2> QED BY <2>1 DEF CacheKept
<1>2. CASE ReadChunk
  <2> DEFINE r == Read(file, done + 1, job.size)
  <2>1. /\ UNCHANGED <<job, stage, bin>> /\ stage \in {"read", "input"}
        /\ stage = "read" =>
             model' = IF bin = NoFile \/ job.expand THEN Expand(model, r.data) ELSE model
    BY <1>2 DEF ReadChunk
  <2>2. CASE stage = "input"
    BY <2>1, <2>2 DEF CacheKept, Preparing
  <2>3. CASE stage = "read" /\ (bin = NoFile \/ job.expand)
    <3>1. done + 1 \in Int /\ file \in Seq(Lines(K))
      BY <1>b DEF StreamInv, TextKept
    <3>2. PICK b \in Nat : r.data \in Seq(Sentences(K, b))
      BY <3>1, SentencesOfLines
    <3> HIDE DEF r
    <3>3. IsExpanded(Expand(model, r.data), model, K, r.data)
      BY <1>a, <1>b, <3>2, Expanded
    <3>4. Cached(model')
      BY <2>1, <2>3, <3>3 DEF IsExpanded
    <3> QED BY <2>1, <2>3, <3>4 DEF CacheKept, Preparing
  <2>4. CASE stage = "read" /\ ~(bin = NoFile \/ job.expand)
    <3>1. ~job.reset
      BY <1>b, <2>4, ResetJobExpands DEF StreamInv
    <3>2. Cached(model) /\ model' = model
      BY <2>1, <2>4, <3>1 DEF CacheKept
    <3> QED BY <2>1, <2>4, <3>2 DEF CacheKept, Preparing
  <2> QED BY <2>1, <2>2, <2>3, <2>4
<1>3. CASE EndOfData
  <2>1. /\ stage = "read" /\ stage' = "pass" /\ model' = model
        /\ Read(file, done + 1, job.size).data = <<>>
    BY <1>3 DEF EndOfData
  <2>2. CASE done = 0 /\ bin # NoFile
    <3>1. done + 1 = 1
      BY <2>2
    <3>2. ~HasData
      BY <2>1, <3>1 DEF HasData
    <3>3. HasLabels(model) /\ model.max \in Nat
      BY <1>b, <2>1, <2>2 DEF ModelInv, LabelsKept, ModelsKept
    <3>4. model.max = 0
      BY <3>2, <3>3 DEF HasLabels
    <3> QED BY <1>b, <2>1, <3>4, NoLabelsCached DEF CacheKept, Preparing
  <2>3. CASE ~(done = 0 /\ bin # NoFile)
    BY <2>1, <2>3 DEF CacheKept, Preparing
  <2> QED BY <2>2, <2>3
<1>4. CASE EndPass
  <2>1. Cached(model') /\ stage' = "pass"
    <3>1. Cached(model')
      BY <1>a, <1>b, <1>4, EndPassModel
    <3> QED BY <1>4, <3>1 DEF EndPass
  <2> QED BY <2>1 DEF CacheKept, Preparing
<1>5. CASE LearnAgain
  <2>1. /\ stage = "loaded" /\ stage' = "read" /\ done' = 0 /\ bin' = bin
        /\ job' = [job EXCEPT !.again = FALSE]
        /\ ~job.reset => model' = Deserialize(bin)
    BY <1>5 DEF LearnAgain
  <2>2. Cached(Deserialize(bin)) /\ bin # NoFile
    <3>1. InUse
      BY <2>1 DEF InUse
    <3> QED BY <1>a, <1>b, <3>1, BinIsLoaded
  <2>3. job'.reset = job.reset
    BY <1>b, <2>1, JobHas DEF StreamInv
  <2> QED BY <2>1, <2>2, <2>3 DEF CacheKept, Preparing
<1>6. CASE StartPass \/ TrainChunk \/ FinishLearning \/ Load \/ SaveModel \/ LoadTagger
  <2>1. stage' \in {"train", "failed", "saved", "loaded"}
    BY <1>6 DEF StartPass, TrainChunk, FinishLearning, Load, SaveModel, LoadTagger
  <2> QED BY <2>1 DEF CacheKept, Preparing
<1>7. CASE DecodeCommand
  <2>1. stage' \in {"input", "decode", "loaded"}
    BY <1>7 DEF DecodeCommand, OpenInput, EndOfInput, DecodeChunk, EndOfDecoding
  <2> QED BY <2>1 DEF CacheKept, Preparing
<1>8. CASE UNCHANGED vars
  BY <1>8 DEF vars, CacheKept, Preparing
<1> QED BY <1>1, <1>2, <1>3, <1>4, <1>5, <1>6, <1>7, <1>8 DEF Next, Learn, LoadMissing

(* Features of all sets but the one of the transitions.                    *)
WordFeature == (Nat \ {EdgeSet}) \X Nat

(***************************************************************************)
(* For jobs with features of sets other than that of the transitions, and  *)
(* that expand a premodel if they reset it: the transitions that decoding  *)
(* looks up between two passes are the weights of their parameters         *)
(* (SparseLinearModel: RefreshCache, BackPropagateTransitionWeight).       *)
(* Without the second hypothesis the first pass would begin with the       *)
(* transitions of the premodel.                                            *)
(***************************************************************************)
THEOREM CachesAgree ==
  ASSUME Allowed(WordFeature), ResetsExpand
  PROVE  Spec => []CacheAgrees
<1>1. ASSUME TaggerInv(WordFeature), CacheKept PROVE CacheAgrees
  <2>1. ASSUME stage = "pass", NEW p \in DOMAIN model.weight, model.features[p[1]][1] = EdgeSet
        PROVE  model.trans[<<model.features[p[1]][2], p[2]>>] = model.weight[p]
    <3> DEFINE f == model.features[p[1]]
    <3>1. IsModel(model, WordFeature) /\ Cached(model)
      BY <1>1, <2>1 DEF TaggerInv, ModelInv, ModelsKept, CacheKept
    <3>2. f \in FeaturesOf(WordFeature, model.max)
      BY <3>1, PartsOfModel
    <3>3. f[1] = EdgeSet
      BY <2>1
    <3> HIDE DEF f
    <3>4. f[2] \in LabelsOf(model)
      BY <3>2, <3>3 DEF FeaturesOf, WordFeature, LabelsOf
    <3> QED BY <3>1, <3>3, <3>4 DEF Cached, f
  <2> QED BY <2>1 DEF CacheAgrees
<1>2. Init => TaggerInv(WordFeature) /\ CacheKept
  BY TaggerInit, CacheInit
<1>3. TaggerInv(WordFeature) /\ CacheKept /\ [Next]_vars => (TaggerInv(WordFeature) /\ CacheKept)'
  BY TaggerNext, CacheNext
<1> QED BY <1>1, <1>2, <1>3, PTL DEF Spec

-----------------------------------------------------------------------------
(* The sentences of the file, of which there are none without a chunk.     *)
LEMMA AllAreUsable ==
  ASSUME NEW K, Allowed(K), TaggerInv(K), stage \in {"pass", "train"}, NEW s \in ToSet(IndexData(model, AllSentences))
  PROVE  IsModel(model, K) /\ model.max > 0 /\ s \in Usable(model)
<1> DEFINE all == AllSentences
<1> DEFINE n == Len(file)
<1>1. IsModel(model, K) /\ HasLabels(model) /\ file \in Seq(Lines(K)) /\ JobKept
  BY DEF TaggerInv, ModelInv, ModelsKept, LabelsKept, TextKept, StreamInv
<1>2. n \in Nat /\ 1 \in Int
  BY <1>1, LenProperties
<1>3. PICK b \in Nat : all \in Seq(Sentences(K, b)) /\ SomeWords(all)
  BY <1>1, <1>2, SentencesOfLines DEF AllSentences
<1>4. DOMAIN IndexData(model, all) = DOMAIN all
  BY DEF IndexData
<1>5. all # <<>>
  <2>1. PICK k \in DOMAIN IndexData(model, all) : TRUE
    BY DEF ToSet
  <2> HIDE DEF all
  <2> QED BY <1>4, <2>1
<1>6. n # 0
  <2>1. ASSUME n = 0 PROVE all = <<>>
    <3>1. PICK g : ReadRun(g, file, 1, n, K)
      BY <1>1, <1>2, ReadRuns, Zenon
    <3>2. g[0] = [data |-> <<>>, open |-> NoSentence, at |-> 1] /\ Read(file, 1, n) = g[n]
      BY <3>1 DEF ReadRun
    <3>3. g[n].data = <<>>
      BY <2>1, <3>2
    <3> QED BY <3>2, <3>3 DEF AllSentences
  <2> QED BY <1>5, <2>1
<1>7. HasData
  <2>1. job.size \in Nat \ {0} /\ n \in Nat \ {0}
    BY <1>1, <1>2, <1>6, JobHas
  <2>2. Read(file, 1, job.size).data = <<>> => all = <<>>
    BY <1>1, <2>1, FirstChunk DEF AllSentences
  <2> QED BY <1>5, <2>2 DEF HasData
<1>8. model.max > 0
  BY <1>1, <1>7 DEF HasLabels
<1> HIDE DEF all
<1>9. IndexData(model, all) \in Seq(Usable(model))
  BY <1>1, <1>3, <1>8, IndexDataIs DEF Usable
<1>10. s \in Usable(model)
  <2> DEFINE t == IndexData(model, all)
  <2>1. PICK k \in DOMAIN t : s = t[k]
    BY DEF all, ToSet
  <2>2. t \in Seq(Usable(model))
    BY <1>9
  <2> HIDE DEF t
  <2>3. DOMAIN t = 1 .. Len(t)
    BY <2>2, LenProperties
  <2> QED BY <2>1, <2>2, <2>3, ElementOfSeq
<1> QED BY <1>1, <1>8, <1>10

(***************************************************************************)
(* Between two passes, Viterbi's search finds a path of the sentence that  *)
(* no other path is better than, for every sentence of the file and all    *)
(* the weights training can arrive at; and so does the one that is         *)
(* confined to the tags of the sentence (VanillaCRF::Decode,               *)
(* TagConstrainedCRF::Decode).                                             *)
(***************************************************************************)
THEOREM DecodingIsBest == Spec => []DecodesBest
<1>1. ASSUME TaggerInv(AnyFeature) PROVE DecodesBest
  <2>1. ASSUME stage = "pass", NEW s \in ToSet(IndexData(model, AllSentences))
        PROVE  /\ IsBest(Decode(model, s), LinearFunction(model, s, LabelsOf(model)),
                         model.trans, LabelsOf(model))
               /\ IsBest(ConstrainedDecode(model, s), LinearFunction(model, s, s.tags),
                         model.trans, s.tags)
    <3>1. IsModel(model, AnyFeature) /\ model.max > 0 /\ s \in Usable(model)
      BY <1>1, <2>1, AnyFile, AllAreUsable
    <3>2. s \in IndexedSentences(Len(model.features), model.max)
      BY <3>1 DEF Usable
    <3> QED BY <3>1, <3>2, DecodedIs
  <2> QED BY <2>1 DEF DecodesBest
<1>2. Init => TaggerInv(AnyFeature)
  BY AnyFile, TaggerInit
<1>3. TaggerInv(AnyFeature) /\ [Next]_vars => TaggerInv(AnyFeature)'
  BY AnyFile, TaggerNext
<1> QED BY <1>1, <1>2, <1>3, PTL DEF Spec

-----------------------------------------------------------------------------
(***************************************************************************)
(* While the data are read, what is on disk spells what a reading of the   *)
(* whole file has by then; afterwards, the sentences of the file.          *)
(***************************************************************************)
SpellsSoFar(h, lines, at, all, m, grows) ==
  /\ at < Len(lines) => h[at].open = NoSentence
  /\ Spells(all, h[at].data, m, grows)

Written == FlattenSeq(data.disk)

IndexKept(K) ==
  /\ stage = "read" =>
       \E h : /\ ReadRun(h, file, 1, Len(file), K)
              /\ SpellsSoFar(h, file, done, Written, model, GrowsNow)
  /\ stage \in {"pass", "train"} => Spells(Written, AllSentences, model, GrowsNow)

LEMMA NothingWritten ==
  ASSUME NEW K, NEW lines \in Seq(Lines(K)), NEW m, NEW grows
  PROVE  \E h : ReadRun(h, lines, 1, Len(lines), K) /\ SpellsSoFar(h, lines, 0, FlattenSeq(<<>>), m, grows)
<1>1. 1 \in Int
  OBVIOUS
<1>2. PICK h : ReadRun(h, lines, 1, Len(lines), K)
  BY <1>1, ReadRuns, Zenon
<1>3. h[0] = [data |-> <<>>, open |-> NoSentence, at |-> 1]
  BY <1>2 DEF ReadRun
<1>4. Spells(<<>>, <<>>, m, grows)
  BY DEF Spells
<1>5. SpellsSoFar(h, lines, 0, FlattenSeq(<<>>), m, grows)
  BY <1>3, <1>4, FlattenNone DEF SpellsSoFar
<1> QED BY <1>2, <1>5

(* A chunk, in the uids of a model that has grown with it or does not.     *)
LEMMA ChunkSpelled ==
  ASSUME NEW K \in SUBSET (Nat \X Nat), NEW m, IsModel(m, K), NEW b \in Nat,
         NEW chunk \in Seq(Sentences(K, b)), NEW grows \in BOOLEAN,
         NEW y, y = IF grows THEN Expand(m, chunk) ELSE m
  PROVE  Spells(IndexData(y, chunk), chunk, y, grows)
<1>1. CASE grows = TRUE
  <2>1. IsExpanded(y, m, K, chunk)
    BY <1>1, Expanded
  <2>2. IsModel(y, K) /\ chunk \in Seq(Sentences(K, y.max)) /\ \A k \in 1 .. Len(chunk) : ListsWords(y, chunk[k])
    BY <2>1 DEF IsExpanded
  <2>3. Spells(IndexData(y, chunk), chunk, y, FALSE)
    BY <2>2, DataSpelled, Zenon
  <2>4. ASSUME NEW k \in 1 .. Len(chunk) PROVE KnownSentence(y, FALSE, chunk[k]) = KnownSentence(y, TRUE, chunk[k])
    <3>1. chunk[k] \in Sentences(K, y.max)
      BY <2>2, ElementOfSeq
    <3> QED BY <2>2, <3>1, ListedIsKnown
  <2> DEFINE all == IndexData(y, chunk)
  <2> HIDE DEF all
  <2>5. Spells(all, chunk, y, TRUE)
    BY <2>3, <2>4 DEF Spells, all
  <2> QED BY <1>1, <2>5 DEF all
<1>2. CASE grows = FALSE
  <2>1. y = m
    BY <1>2
  <2>2. Spells(IndexData(m, chunk), chunk, m, FALSE)
    BY DataSpelled, Zenon
  <2> QED BY <1>2, <2>1, <2>2
<1> QED BY <1>1, <1>2

(* The data on disk spell the file at the start, when there are none.      *)
LEMMA IndexInit ==
  ASSUME NEW K, Allowed(K), Init
  PROVE  IndexKept(K)
<1>1. /\ stage \in {"fit", "read"} /\ done = 0 /\ data = NewData
  BY DEF Init
<1>2. file \in Seq(Lines(K))
  BY TextInit DEF TextKept
<1>3. Written = FlattenSeq(<<>>)
  BY <1>1 DEF NewData, Written
<1>4. \E h : ReadRun(h, file, 1, Len(file), K) /\ SpellsSoFar(h, file, 0, FlattenSeq(<<>>), model, GrowsNow)
  BY <1>2, NothingWritten
<1> QED BY <1>1, <1>3, <1>4 DEF IndexKept

(* They do when reading begins.                                            *)
LEMMA ReadingBegins ==
  ASSUME NEW K, TextKept(K)', stage' = "read", done' = 0, data' = NewData
  PROVE  IndexKept(K)'
<1>2. file' \in Seq(Lines(K))
  BY DEF TextKept
<1>3. Written' = FlattenSeq(<<>>)
  BY DEF NewData, Written
<1> DEFINE lines == file'
<1> DEFINE m == model'
<1> DEFINE grows == GrowsNow'
<1>4. \E h : ReadRun(h, lines, 1, Len(lines), K) /\ SpellsSoFar(h, lines, 0, FlattenSeq(<<>>), m, grows)
  <2>1. lines \in Seq(Lines(K))
    BY <1>2
  <2> HIDE DEF lines, m, grows
  <2> QED BY <2>1, NothingWritten
<1> QED BY <1>3, <1>4 DEF IndexKept

(* They do when a chunk was read, indexed and saved.                       *)
LEMMA ReadChunkIndex ==
  ASSUME NEW K \in SUBSET (Nat \X Nat), StreamInv, TextKept(K), ProgressKept, ModelInv(K),
         IndexKept(K), ReadChunk, stage = "read"
  PROVE  IndexKept(K)'
<1> DEFINE chunk == ThisChunk.data
<1> DEFINE more == IndexData(model', chunk)
<1> DEFINE grows == GrowsNow
<1>1. /\ UNCHANGED <<job, stage, file, bin>> /\ done' = ThisChunk.at - 1
  BY DEF ReadChunk, ThisChunk
<1>2. /\ \E b \in Nat : chunk \in Seq(Sentences(K, b))
      /\ model' = IF grows THEN Expand(model, chunk) ELSE model
      /\ Grows(model', chunk, K)
      /\ data' = SaveChunk(data, more)
  BY ReadChunkGrows
<1>3. PICK b \in Nat : chunk \in Seq(Sentences(K, b))
  BY <1>2
<1>4. grows \in BOOLEAN /\ GrowsNow' = grows
  BY <1>1 DEF GrowsNow
<1>5. IsModel(model, K) /\ file \in Seq(Lines(K)) /\ done \in 0 .. Len(file) /\ job.size \in Nat \ {0}
  BY JobHas DEF ModelInv, ModelsKept, TextKept, ProgressKept, StreamInv
<1>6. PICK h : ReadRun(h, file, 1, Len(file), K) /\ SpellsSoFar(h, file, done, Written, model, grows)
  BY DEF IndexKept
<1>7. PICK m \in done .. Len(file) : ChunkEnds(h, file, done, m, ThisChunk)
  <2>1. done < Len(file) => h[done].open = NoSentence
    BY <1>6 DEF SpellsSoFar
  <2>2. \E m \in done .. Len(file) : ChunkEnds(h, file, done, m, Read(file, done + 1, job.size))
    BY <1>5, <1>6, <2>1, ChunkReads, Zenon
  <2> QED BY <2>2 DEF ThisChunk
<1> HIDE DEF chunk, grows
<1>8. Spells(more, chunk, model', grows)
  BY <1>2, <1>3, <1>4, <1>5, ChunkSpelled
<1>9. /\ Usable(model) \subseteq Usable(model') /\ more \in Seq(Usable(model'))
  BY <1>2 DEF Grows, chunk
<1> HIDE DEF more
<1> DEFINE U == Usable(model')
<1>10. data.disk \in Seq(Seq(Usable(model))) /\ DOMAIN data = {"disk", "names", "mem", "cur", "next", "queue"}
  BY DEF ModelInv, SentencesKept, Stored
<1>11. data.disk \in Seq(Seq(U))
  <2> DEFINE W == Usable(model)
  <2>1. W \subseteq U
    BY <1>9
  <2> HIDE DEF W, U
  <2>2. \A s \in Seq(W) : s \in Seq(U)
    BY <2>1, WiderSeq
  <2> DEFINE A == Seq(W)
  <2> DEFINE B == Seq(U)
  <2>3. A \subseteq B /\ data.disk \in Seq(A)
    BY <1>10, <2>2 DEF W
  <2> HIDE DEF A, B
  <2>4. data.disk \in Seq(B)
    BY <2>3, WiderSeq
  <2> QED BY <2>4 DEF B
<1>12. Written' = Written \o more /\ Written \in Seq(U)
  <2> DEFINE disk == data.disk
  <2>1. data'.disk = Append(disk, more)
    BY <1>2, <1>10 DEF SaveChunk
  <2>2. disk \in Seq(Seq(U)) /\ more \in Seq(U) /\ <<more>> \in Seq(Seq(U))
    BY <1>9, <1>11
  <2> HIDE DEF U, disk
  <2>3. Append(disk, more) = disk \o <<more>>
    BY <2>2, AppendIsConcat
  <2>4. FlattenSeq(disk \o <<more>>) = FlattenSeq(disk) \o FlattenSeq(<<more>>)
    BY <2>2, FlattenConcat
  <2>5. FlattenSeq(<<more>>) = more
    BY <2>2, FlattenOne
  <2>6. FlattenSeq(disk) \in Seq(U)
    BY <2>2, FlattenType
  <2> QED BY <2>1, <2>3, <2>4, <2>5, <2>6 DEF Written, disk
<1>13. Spells(Written, h[done].data, model', grows)
  <2>1. Written \in Seq(IndexedSentences(Len(model.features), model.max))
    BY <1>10, FlattenType DEF Written, Usable
  <2>2. Len(model.features) \in Nat
    BY <1>5, UidsOf
  <2>3. \A u \in 1 .. Len(model.features) : model'.features[u] = model.features[u]
    <3>1. CASE grows
      <4>1. IsExpanded(model', model, K, chunk)
        BY <1>2, <1>3, <1>5, <3>1, Expanded
      <4> QED BY <4>1 DEF IsExpanded, Extends
    <3>2. CASE ~grows
      BY <1>2, <3>2
    <3> QED BY <3>1, <3>2
  <2>4. KnowAlike(model', model, grows)
    BY <1>2 DEF KnowAlike
  <2>5. Spells(Written, h[done].data, model, grows)
    BY <1>6 DEF SpellsSoFar
  <2> DEFINE x == model
  <2> DEFINE y == model'
  <2> DEFINE all == Written
  <2> DEFINE texts == h[done].data
  <2> DEFINE c == model.max
  <2>6. /\ all \in Seq(IndexedSentences(Len(x.features), c)) /\ Len(x.features) \in Nat
        /\ \A u \in 1 .. Len(x.features) : y.features[u] = x.features[u]
        /\ KnowAlike(y, x, grows) /\ Spells(all, texts, x, grows)
    BY <2>1, <2>2, <2>3, <2>4, <2>5
  <2> HIDE DEF x, y, all, texts, c
  <2>7. Spells(all, texts, y, grows)
    BY <2>6, SpellsAlike, Zenon
  <2> QED BY <2>7 DEF y, all, texts
<1>14. SpellsSoFar(h, file, m, Written', model', grows)
  <2>1. /\ h[m].data = h[done].data \o chunk
        /\ m < Len(file) => h[m].open = NoSentence
    BY <1>7 DEF ChunkEnds, chunk
  <2>2. h[done].data \in Seq(AnySentence(K)) /\ chunk \in Seq(AnySentence(K))
    <3>1. h[done] \in ReadSome(K)
      BY <1>5, <1>6 DEF ReadRun
    <3>2. h[done].data \in Seq(AnySentence(K))
      BY <3>1, ReadIs, Zenon
    <3>3. Sentences(K, b) \subseteq AnySentence(K)
      BY DEF AnySentence
    <3>4. chunk \in Seq(AnySentence(K))
      BY <1>3, <3>3, WiderSeq
    <3> QED BY <3>2, <3>4
  <2> DEFINE y == model'
  <2> DEFINE a == Written
  <2> DEFINE s == h[done].data
  <2>3. /\ a \in Seq(U) /\ more \in Seq(U) /\ s \in Seq(AnySentence(K)) /\ chunk \in Seq(AnySentence(K))
        /\ Spells(a, s, y, grows) /\ Spells(more, chunk, y, grows)
    BY <1>8, <1>9, <1>12, <1>13, <2>2
  <2> HIDE DEF y, a, s, U
  <2>4. Spells(a \o more, s \o chunk, y, grows)
    BY <2>3, SpellsMore, Zenon
  <2>5. Spells(Written', h[m].data, y, grows)
    BY <1>12, <2>1, <2>4 DEF a, s
  <2> QED BY <2>1, <2>5 DEF SpellsSoFar, y
<1>15. done' = m
  <2>1. ThisChunk.at = m + 1
    BY <1>7 DEF ChunkEnds
  <2>2. m \in Int
    BY <1>5, <1>7
  <2> QED BY <1>1, <2>1, <2>2
<1>16. /\ ReadRun(h, file', 1, Len(file'), K)
       /\ SpellsSoFar(h, file', done', Written', model', GrowsNow')
  BY <1>1, <1>4, <1>6, <1>14, <1>15
<1>17. stage' = "read"
  BY <1>1
<1> QED BY <1>16, <1>17 DEF IndexKept

-----------------------------------------------------------------------------
(* After the last chunk, nothing but the weights changes.                  *)
LEMMA SpelledOn ==
  ASSUME NEW m, NEW y, y.features = m.features, NEW all, NEW texts, NEW grows
  PROVE  Spells(all, texts, m, grows) <=> Spells(all, texts, y, grows)
<1>1. KnowTheSame(y, m, grows)
  BY KnownAlike DEF KnowAlike
<1>2. \A s : SpelledSentence(y, s) = SpelledSentence(m, s)
  BY DEF SpelledSentence, SpelledFeatures, SpelledFeature
<1> QED BY <1>1, <1>2 DEF Spells, KnowTheSame

(* Learning changes neither the features nor what is on disk.              *)
LEMMA SameDataLearned ==
  ASSUME NEW K \in SUBSET (Nat \X Nat), StreamInv, ProgressKept, ModelInv(K),
         EndOfData \/ StartPass \/ TrainChunk \/ EndPass
  PROVE  /\ model'.features = model.features /\ data'.disk = data.disk
         /\ UNCHANGED <<job, file, bin>>
<1> DEFINE U == Usable(model)
<1>1. IsOrder(job.order) /\ IsModel(model, K)
  BY JobIs DEF StreamInv, ModelInv, ModelsKept
<1>2. CASE EndOfData
  <2>1. /\ stage = "read" /\ UNCHANGED <<job, file, bin, model>>
        /\ data' = LoadAll(Flush(data, job.order))
    BY <1>2 DEF EndOfData, inputs
  <2>2. Stored(data, U) /\ data.mem = <<<<>>, <<>>>>
    BY <2>1 DEF ModelInv, SentencesKept
  <2>3. data.mem[2] \in Seq(U)
    BY <2>2
  <2> HIDE DEF U
  <2>4. data'.disk = data.disk
    BY <1>1, <2>1, <2>2, <2>3, LoadAllKeeps
  <2> QED BY <2>1, <2>4
<1>3. CASE StartPass
  <2>1. /\ stage = "pass" /\ UNCHANGED <<job, file, bin, model>>
        /\ data' = Flush(data, job.order)
    BY <1>3 DEF StartPass, inputs
  <2>2. Stored(data, U) /\ InMemory(data, U)
    BY <2>1 DEF ModelInv, SentencesKept
  <2> HIDE DEF U
  <2>3. data'.disk = data.disk
    BY <1>1, <2>1, <2>2, PassBegins
  <2> QED BY <2>1, <2>3
<1>4. CASE TrainChunk
  <2> DEFINE handed == Shuffled(Swap(data), job.order)
  <2> DEFINE y == AfterChunk(job.alg, job.crf, Rate, ChunkRun, Handed(handed))
  <2>1. UNCHANGED <<job, file, bin>> /\ data' = handed /\ model' = y.model
    BY <1>4 DEF TrainChunk, inputs, ChunkRun, AfterChunk
  <2>2. IsTrained(y, model, K) /\ HandedNext(handed, data, U)
    BY <1>4, ChunkIsTrained
  <2> HIDE DEF handed, y, U
  <2> QED BY <2>1, <2>2 DEF IsTrained, SameShape, HandedNext
<1>5. CASE EndPass
  <2>1. UNCHANGED <<job, file, bin, data>> /\ model' = BackPropagate(model)
    BY <1>5 DEF EndPass, inputs
  <2>2. SameShape(BackPropagate(model), model)
    BY <1>1, BackPropagated
  <2> QED BY <2>1, <2>2 DEF SameShape
<1> QED BY <1>2, <1>3, <1>4, <1>5

(* All chunks are read: these are the sentences of the file.               *)
LEMMA AllIsWritten ==
  ASSUME NEW K \in SUBSET (Nat \X Nat), StreamInv, TextKept(K), ProgressKept, IndexKept(K), EndOfData
  PROVE  Spells(Written, AllSentences, model, GrowsNow)
<1>1. stage = "read" /\ ThisChunk.data = <<>>
  BY DEF EndOfData, ThisChunk
<1>2. file \in Seq(Lines(K)) /\ done \in 0 .. Len(file) /\ job.size \in Nat \ {0}
  BY <1>1, JobHas DEF TextKept, ProgressKept, StreamInv
<1>3. PICK h : ReadRun(h, file, 1, Len(file), K) /\ SpellsSoFar(h, file, done, Written, model, GrowsNow)
  BY <1>1 DEF IndexKept
<1>4. PICK m \in done .. Len(file) : ChunkEnds(h, file, done, m, ThisChunk)
  <2>1. done < Len(file) => h[done].open = NoSentence
    BY <1>3 DEF SpellsSoFar
  <2>2. \E m \in done .. Len(file) : ChunkEnds(h, file, done, m, Read(file, done + 1, job.size))
    BY <1>2, <1>3, <2>1, ChunkReads, Zenon
  <2> QED BY <2>2 DEF ThisChunk
<1>5. h[Len(file)].data = h[done].data \o <<>>
  BY <1>1, <1>4 DEF ChunkEnds
<1>6. h[done].data \in Seq(AnySentence(K))
  <2>1. h[done] \in ReadSome(K)
    BY <1>2, <1>3 DEF ReadRun
  <2> QED BY <2>1, ReadIs, Zenon
<1>7. h[done].data \o <<>> = h[done].data
  BY <1>6, ConcatEmptySeq
<1>8. AllSentences = h[Len(file)].data
  BY <1>3 DEF ReadRun, AllSentences
<1> QED BY <1>3, <1>5, <1>7, <1>8 DEF SpellsSoFar

(* Every step keeps the data on disk spelling the file.                    *)
LEMMA IndexNext ==
  ASSUME NEW K, Allowed(K), TaggerInv(K), IndexKept(K), [Next]_vars
  PROVE  IndexKept(K)'
<1>a. K \in SUBSET (Nat \X Nat)
  BY DEF Allowed, HasTextFeatures
<1>b. StreamInv /\ ProgressKept /\ TextKept(K) /\ ModelInv(K)
  BY DEF TaggerInv
<1>c. TextKept(K)'
  BY TaggerNext DEF TaggerInv
<1>1. CASE Prepare
  <2>1. data = NewData
    BY <1>1, <1>b DEF Prepare, FitNGrams, FitConcat, WriteData, StreamInv, StreamKept
  <2>2. /\ data' = data /\ stage' \in {"fit", "concat", "write", "read"}
        /\ stage' = "read" => done' = 0
    BY <1>1 DEF Prepare, FitNGrams, FitConcat, WriteData, training, Advance
  <2>3. CASE stage' = "read"
    BY <1>c, <2>1, <2>2, <2>3, ReadingBegins
  <2>4. CASE stage' # "read"
    BY <2>2, <2>4 DEF IndexKept
  <2> QED BY <2>3, <2>4
<1>2. CASE ReadChunk
  <2>1. CASE stage = "read"
    BY <1>2, <1>a, <1>b, <2>1, ReadChunkIndex
  <2>2. CASE stage # "read"
    <3>1. stage' = "input"
      BY <1>2, <2>2 DEF ReadChunk
    <3> QED BY <3>1 DEF IndexKept
  <2> QED BY <2>1, <2>2
<1>3. CASE EndOfData \/ StartPass \/ TrainChunk \/ EndPass
  <2>1. /\ model'.features = model.features /\ data'.disk = data.disk
        /\ UNCHANGED <<job, file, bin>>
    BY <1>3, <1>a, <1>b, SameDataLearned
  <2>2. Spells(Written, AllSentences, model, GrowsNow)
    <3>1. CASE EndOfData
      BY <1>a, <1>b, <3>1, AllIsWritten
    <3>2. CASE StartPass \/ TrainChunk \/ EndPass
      BY <3>2 DEF StartPass, TrainChunk, EndPass, IndexKept
    <3> QED BY <1>3, <3>1, <3>2
  <2>3. Written' = Written /\ AllSentences' = AllSentences /\ GrowsNow' = GrowsNow
    BY <2>1 DEF Written, AllSentences, GrowsNow
  <2>4. Spells(Written', AllSentences', model', GrowsNow')
    <3> DEFINE m == model
    <3> DEFINE y == model'
    <3> DEFINE all == Written
    <3> DEFINE texts == AllSentences
    <3> DEFINE grows == GrowsNow
    <3>1. y.features = m.features /\ Spells(all, texts, m, grows)
      BY <2>1, <2>2
    <3> HIDE DEF m, y, all, texts, grows
    <3>2. Spells(all, texts, y, grows)
      BY <3>1, SpelledOn
    <3> QED BY <2>3, <3>2 DEF y, all, texts, grows
  <2>5. stage' # "read"
    BY <1>3 DEF EndOfData, StartPass, TrainChunk, EndPass
  <2> QED BY <2>4, <2>5 DEF IndexKept
<1>4. CASE LearnAgain
  <2>1. stage' = "read" /\ done' = 0 /\ data' = NewData
    BY <1>4 DEF LearnAgain
  <2> QED BY <1>c, <2>1, ReadingBegins
<1>5. CASE FinishLearning \/ Load \/ SaveModel \/ LoadTagger \/ DecodeCommand
  <2>1. stage' \in {"saved", "loaded", "input", "decode"}
    BY <1>5 DEF FinishLearning, Load, SaveModel, LoadTagger, DecodeCommand, OpenInput, EndOfInput,
                DecodeChunk, EndOfDecoding
  <2> QED BY <2>1 DEF IndexKept
<1>6. CASE UNCHANGED vars
  BY <1>6 DEF vars, IndexKept, Written, AllSentences, GrowsNow
<1> QED BY <1>1, <1>2, <1>3, <1>4, <1>5, <1>6 DEF Next, Learn, LoadMissing

(***************************************************************************)
(* For any jobs and files: the chunks on disk hold the sentences of the    *)
(* file, in their order.  The uids that stand for features there were      *)
(* given while the model grew chunk by chunk, and are those of the same    *)
(* features in the end; a model that does not grow leaves out what it does *)
(* not have (StreamDataManager's constructor, SparseLinearModel: Expand,   *)
(* FindFeature).                                                           *)
(***************************************************************************)
THEOREM IndexesAreKept == Spec => []IndexesHold
<1>1. ASSUME TaggerInv(AnyFeature), IndexKept(AnyFeature) PROVE IndexesHold
  <2> DEFINE K == AnyFeature
  <2>1. SUFFICES ASSUME stage \in {"pass", "train"} PROVE IndexesHold
    BY DEF IndexesHold
  <2>2. Spells(Written, AllSentences, model, GrowsNow)
    BY <1>1, <2>1 DEF IndexKept
  <2> DEFINE all == Written
  <2> DEFINE texts == AllSentences
  <2>3. DOMAIN all = 1 .. Len(all)
    <3>1. data.disk \in Seq(Seq(Usable(model)))
      BY <1>1, <2>1 DEF TaggerInv, ModelInv, SentencesKept, Stored
    <3>2. all \in Seq(Usable(model))
      BY <3>1, FlattenType DEF Written
    <3> HIDE DEF all
    <3> QED BY <3>2, LenProperties
  <2>4. DOMAIN texts = 1 .. Len(texts)
    <3>1. file \in Seq(Lines(K)) /\ Len(file) \in Nat /\ 1 \in Int
      BY <1>1, LenProperties DEF TaggerInv, TextKept
    <3>2. PICK b \in Nat : texts \in Seq(Sentences(K, b))
      BY <3>1, SentencesOfLines DEF AllSentences
    <3> HIDE DEF texts
    <3> QED BY <3>2, LenProperties
  <2> HIDE DEF all, texts
  <2>5. [k \in DOMAIN all |-> SpelledSentence(model, all[k])]
        = [k \in DOMAIN texts |-> KnownSentence(model, GrowsNow, texts[k])]
    BY <2>2, <2>3, <2>4 DEF Spells, all, texts
  <2> QED BY <2>5 DEF IndexesHold, SpelledSentence, SpelledFeatures, SpelledFeature,
                      KnownSentence, KnownFeatures, IsKnown, GrowsNow, all, texts, Written
<1>2. Init => TaggerInv(AnyFeature) /\ IndexKept(AnyFeature)
  BY AnyFile, TaggerInit, IndexInit
<1>3. TaggerInv(AnyFeature) /\ IndexKept(AnyFeature) /\ [Next]_vars
        => (TaggerInv(AnyFeature) /\ IndexKept(AnyFeature))'
  BY AnyFile, TaggerNext, IndexNext
<1> QED BY <1>1, <1>2, <1>3, PTL DEF Spec

-----------------------------------------------------------------------------
(***************************************************************************)
(* Features come from the sentences of the file only: those of the model   *)
(* that is learned, of the model file, and of the model that is loaded.    *)
(***************************************************************************)
HasFeature(s, f) ==
  \E t \in 1 .. Len(s.words) : \E i \in 1 .. Len(s.words[t].features) :
    FeatureOf(s.words[t].features[i]) = f
FeaturesIn(texts) == {f \in AnyFeature : \E k \in 1 .. Len(texts) : HasFeature(texts[k], f)}

OnlyHas(s, K) == \A f \in AnyFeature : HasFeature(s, f) => f \in K

LEMMA SentenceOfFeatures ==
  ASSUME NEW b, NEW K, NEW s \in Sentences(AnyFeature, b), OnlyHas(s, K)
  PROVE  s \in Sentences(K, b)
<1>1. /\ s = [words |-> s.words, tags |-> s.tags] /\ s.words \in Seq(Words(AnyFeature, b))
      /\ s.tags \in Seq(Nat)
  BY DEF Sentences
<1> DEFINE n == Len(s.words)
<1>2. n \in Nat /\ s.words = [t \in 1 .. n |-> s.words[t]] /\ \A t \in 1 .. n : s.words[t] \in Words(AnyFeature, b)
  BY <1>1, LenProperties, ElementOfSeq
<1>3. ASSUME NEW t \in 1 .. n PROVE s.words[t] \in Words(K, b)
  <2> DEFINE w == s.words[t]
  <2> DEFINE fs == w.features
  <2>1. /\ w = [label |-> w.label, features |-> w.features] /\ w.label \in 0 .. b - 1
        /\ fs \in Seq(FeatureLines(AnyFeature))
    BY <1>2 DEF Words
  <2>2. Len(fs) \in Nat /\ fs = [i \in 1 .. Len(fs) |-> fs[i]]
        /\ \A i \in 1 .. Len(fs) : fs[i] \in FeatureLines(AnyFeature)
    BY <2>1, LenProperties, ElementOfSeq
  <2>3. ASSUME NEW i \in 1 .. Len(fs) PROVE fs[i] \in FeatureLines(K)
    <3>1. HasFeature(s, FeatureOf(fs[i]))
      BY DEF HasFeature
    <3>2. fs[i] \in Nat \X Nat \X Int /\ FeatureOf(fs[i]) \in AnyFeature
      BY <2>2 DEF FeatureLines
    <3> QED BY <3>1, <3>2 DEF FeatureLines, OnlyHas
  <2> DEFINE X == FeatureLines(K)
  <2> HIDE DEF fs, X
  <2>4. fs \in Seq(X)
    BY <2>2, <2>3, SequenceIs DEF X
  <2> QED BY <2>1, <2>4 DEF Words, X, fs
<1> DEFINE W == Words(K, b)
<1> HIDE DEF W, n
<1>4. s.words \in Seq(W)
  BY <1>2, <1>3, SequenceIs DEF W
<1> QED BY <1>1, <1>4 DEF Sentences, W

(* What has been read of a file stays.                                     *)
Begins(a, b) == Len(a) <= Len(b) /\ \A k \in 1 .. Len(a) : b[k] = a[k]

LEMMA LineKeeps ==
  ASSUME NEW K, NEW v \in ReadSome(K), NEW l \in Lines(K), NEW j
  PROVE  Begins(v.data, [ReadLine(v, l) EXCEPT !.at = j].data)
<1> DEFINE S == AnySentence(K)
<1> DEFINE z == ReadLine(v, l)
<1>1. v = [data |-> v.data, open |-> v.open, at |-> v.at] /\ v.data \in Seq(S) /\ v.open \in S
  BY ReadIs
<1>2. z \in ReadSome(K)
  BY OneLineRead
<1>3. z = [data |-> z.data, open |-> z.open, at |-> z.at]
  <2> HIDE DEF z
  <2> QED BY <1>2, ReadIs
<1>4. z.data = v.data \/ z.data = Append(v.data, v.open)
  BY <1>1 DEF ReadLine
<1>5. Begins(v.data, z.data)
  <2> DEFINE a == v.data
  <2> DEFINE x == v.open
  <2>1. a \in Seq(S) /\ x \in S
    BY <1>1
  <2> HIDE DEF a, x, S
  <2>2. Len(a) \in Nat /\ Len(Append(a, x)) = Len(a) + 1 /\ \A k \in 1 .. Len(a) : Append(a, x)[k] = a[k]
    BY <2>1, AppendProperties, LenProperties
  <2>3. Begins(a, a) /\ Begins(a, Append(a, x))
    BY <2>2 DEF Begins
  <2> QED BY <1>4, <2>3 DEF a, x
<1> HIDE DEF z
<1>6. [z EXCEPT !.at = j].data = z.data
  BY <1>3
<1> QED BY <1>5, <1>6 DEF z

(* What begins a beginning begins the whole.                               *)
LEMMA BeginsMore ==
  ASSUME NEW a, NEW b, NEW c, Len(a) \in Nat, Len(b) \in Nat, Len(c) \in Nat, Begins(a, b), Begins(b, c)
  PROVE  Begins(a, c)
BY DEF Begins

(* What was read first begins what is read in the end.                     *)
LEMMA RunGrows ==
  ASSUME NEW K, NEW lines \in Seq(Lines(K)), NEW h, ReadRun(h, lines, 1, Len(lines), K),
         NEW m \in 0 .. Len(lines)
  PROVE  Begins(h[m].data, h[Len(lines)].data)
<1> DEFINE n == Len(lines)
<1>0. n \in Nat
  BY LenProperties
<1>1. \A k \in 0 .. n : h[k] \in ReadSome(K) /\ Len(h[k].data) \in Nat
  <2>1. ASSUME NEW k \in 0 .. n PROVE h[k] \in ReadSome(K) /\ Len(h[k].data) \in Nat
    <3>1. h[k] \in ReadSome(K)
      BY DEF ReadRun
    <3>2. h[k].data \in Seq(AnySentence(K))
      BY <3>1, ReadIs, Zenon
    <3> QED BY <3>1, <3>2, LenProperties
  <2> QED BY <2>1
<1>2. \A k \in 1 .. n : h[k] = [ReadLine(h[k - 1], lines[k]) EXCEPT !.at = k + 1]
  <2>1. LineByLine(h, lines)
    BY WholeRun, Zenon
  <2> QED BY <2>1 DEF LineByLine
<1> DEFINE T == {k \in 0 .. n : Begins(h[k].data, h[n].data)}
<1>3. n \in T
  BY <1>0 DEF Begins
<1>4. ASSUME NEW k \in 1 .. n, k \in T PROVE k - 1 \in T
  <2>1. k - 1 \in 0 .. n /\ k \in 0 .. n /\ n \in 0 .. n
    BY <1>0
  <2>2. h[k - 1] \in ReadSome(K) /\ lines[k] \in Lines(K)
    BY <1>1, <2>1, ElementOfSeq
  <2>3. Begins(h[k - 1].data, [ReadLine(h[k - 1], lines[k]) EXCEPT !.at = k + 1].data)
    BY <2>2, LineKeeps
  <2>4. Begins(h[k - 1].data, h[k].data)
    BY <1>2, <2>3
  <2>5. Begins(h[k].data, h[n].data)
    BY <1>4
  <2>6. Begins(h[k - 1].data, h[n].data)
    BY <1>1, <2>1, <2>4, <2>5, BeginsMore
  <2> QED BY <2>1, <2>6
<1>5. \A k \in 0 .. n : k \in T
  <2> HIDE DEF T
  <2> QED BY <1>0, <1>3, <1>4, DownFrom
<1> QED BY <1>5

FileFeatures == FeaturesIn(AllSentences)

(* A chunk has features of the file only.                                  *)
LEMMA ChunkOfFile ==
  ASSUME TextKept(AnyFeature), StreamInv, ProgressKept, IndexKept(AnyFeature), stage = "read"
  PROVE  \E b \in Nat : ThisChunk.data \in Seq(Sentences(FileFeatures, b))
<1> DEFINE K == AnyFeature
<1> DEFINE chunk == ThisChunk.data
<1> DEFINE n == Len(file)
<1>1. /\ file \in Seq(Lines(K)) /\ done \in 0 .. n /\ done \in Int /\ done + 1 \in Int
      /\ job.size \in Nat \ {0}
  BY JobHas DEF TextKept, ProgressKept, StreamInv
<1>2. PICK h : ReadRun(h, file, 1, n, K) /\ SpellsSoFar(h, file, done, Written, model, GrowsNow)
  BY DEF IndexKept
<1>3. PICK m \in done .. n : ChunkEnds(h, file, done, m, ThisChunk)
  <2>1. done < n => h[done].open = NoSentence
    BY <1>2 DEF SpellsSoFar
  <2>2. \E m \in done .. n : ChunkEnds(h, file, done, m, Read(file, done + 1, job.size))
    BY <1>1, <1>2, <2>1, ChunkReads, Zenon
  <2> QED BY <2>2 DEF ThisChunk
<1>4. PICK b \in Nat : chunk \in Seq(Sentences(K, b))
  BY <1>1, SentencesOfLines DEF ThisChunk
<1>5. h[m].data = h[done].data \o chunk /\ m \in 0 .. n
  BY <1>1, <1>3 DEF ChunkEnds
<1>6. Begins(h[m].data, h[n].data)
  BY <1>1, <1>2, <1>5, RunGrows
<1>7. AllSentences = h[n].data
  BY <1>2 DEF ReadRun, AllSentences
<1> DEFINE d == h[done].data
<1>8. d \in Seq(AnySentence(K)) /\ chunk \in Seq(AnySentence(K))
  <2>1. h[done] \in ReadSome(K)
    BY <1>1, <1>2 DEF ReadRun
  <2>2. d \in Seq(AnySentence(K))
    BY <2>1, ReadIs, Zenon
  <2>3. Sentences(K, b) \subseteq AnySentence(K)
    BY DEF AnySentence
  <2>4. chunk \in Seq(AnySentence(K))
    BY <1>4, <2>3, WiderSeq
  <2> QED BY <2>2, <2>4
<1> DEFINE all == AllSentences
<1> HIDE DEF d, chunk, K, all
<1>9. /\ Len(chunk) \in Nat /\ Len(d) \in Nat /\ Len(d \o chunk) = Len(d) + Len(chunk)
      /\ \A k \in 1 .. Len(d) + Len(chunk) : (d \o chunk)[k] = IF k <= Len(d) THEN d[k] ELSE chunk[k - Len(d)]
  BY <1>8, ConcatProperties, LenProperties
<1>10. ASSUME NEW k \in 1 .. Len(chunk) PROVE chunk[k] \in Sentences(FileFeatures, b)
  <2>1. /\ Len(d) + k \in 1 .. Len(d) + Len(chunk) /\ ~(Len(d) + k <= Len(d)) /\ (Len(d) + k) - Len(d) = k
        /\ (d \o chunk)[Len(d) + k] = chunk[k]
    <3>1. Len(d) + k \in 1 .. Len(d) + Len(chunk) /\ ~(Len(d) + k <= Len(d)) /\ (Len(d) + k) - Len(d) = k
      BY <1>9
    <3> QED BY <1>9, <3>1
  <2>2. Begins(d \o chunk, all)
    BY <1>5, <1>6, <1>7 DEF d, all
  <2>3. all[Len(d) + k] = chunk[k]
    BY <1>9, <2>1, <2>2 DEF Begins
  <2>4. Len(d) + k \in 1 .. Len(all)
    <3>1. Len(all) \in Nat
      <4>1. h[n] \in ReadSome(K)
        BY <1>1, <1>2, LenProperties DEF ReadRun
      <4>2. h[n].data \in Seq(AnySentence(K))
        BY <4>1, ReadIs, Zenon
      <4> QED BY <1>7, <4>2, LenProperties DEF all
    <3> QED BY <1>9, <2>1, <2>2, <3>1 DEF Begins
  <2>5. chunk[k] \in Sentences(K, b)
    BY <1>4, ElementOfSeq
  <2>6. OnlyHas(chunk[k], FileFeatures)
    BY <2>3, <2>4 DEF OnlyHas, FileFeatures, FeaturesIn, all
  <2> QED BY <2>5, <2>6, SentenceOfFeatures DEF K
<1>11. chunk = [k \in 1 .. Len(chunk) |-> chunk[k]]
  BY <1>4, LenProperties
<1> DEFINE X == Sentences(FileFeatures, b)
<1> HIDE DEF X
<1>12. chunk \in Seq(X)
  BY <1>9, <1>10, <1>11, SequenceIs DEF X
<1> QED BY <1>12 DEF X, chunk

-----------------------------------------------------------------------------
OfFile ==
  IF Preparing THEN model = EmptyModel /\ crf = NoModel /\ bin = NoFile
  ELSE ModelsKept(FileFeatures)

(* The empty models have no feature that is not of the file.               *)
LEMMA EmptyOfFile ==
  ASSUME model = EmptyModel, crf = NoModel, bin = NoFile, ~InUse
  PROVE  OfFile
<1> DEFINE K == FileFeatures
<1> HIDE DEF K
<1>1. IsModel(EmptyModel, K) /\ EmptyModel.max = 0 /\ IsModel(NoModel, K) /\ NoZeros(NoModel)
  BY NewModelIs
<1>2. ModelsKept(K)
  BY <1>1 DEF ModelsKept
<1> QED BY <1>2 DEF OfFile, K

(* That holds at the start.                                                *)
LEMMA OfFileInit ==
  ASSUME Init
  PROVE  OfFile
<1>1. model = EmptyModel /\ crf = NoModel /\ bin = NoFile /\ ~InUse
  BY DEF Init, InUse
<1> QED BY <1>1, EmptyOfFile

(* Every step keeps the features of the model those of the file.           *)
LEMMA OfFileNext ==
  ASSUME TaggerInv(AnyFeature), IndexKept(AnyFeature), OfFile, [Next]_vars
  PROVE  OfFile'
<1>a. StreamInv /\ ProgressKept /\ TextKept(AnyFeature) /\ ModelInv(AnyFeature)
  BY DEF TaggerInv
<1>1. CASE Prepare
  <2>1. Preparing /\ UNCHANGED <<model, bin, crf>> /\ stage' \in {"fit", "concat", "write", "read"}
    BY <1>1 DEF Prepare, FitNGrams, FitConcat, WriteData, training, Advance, Preparing
  <2>2. model' = EmptyModel /\ crf' = NoModel /\ bin' = NoFile
    BY <2>1 DEF OfFile
  <2> DEFINE K == FileFeatures'
  <2> HIDE DEF K
  <2>3. IsModel(EmptyModel, K) /\ EmptyModel.max = 0 /\ IsModel(NoModel, K) /\ NoZeros(NoModel)
    BY NewModelIs
  <2>4. ~InUse'
    BY <2>1 DEF InUse
  <2>5. ModelsKept(FileFeatures)'
    BY <2>2, <2>3, <2>4 DEF ModelsKept, K
  <2> QED BY <2>2, <2>5 DEF OfFile
<1>3. CASE UNCHANGED vars
  BY <1>3 DEF vars, OfFile, Preparing, ModelsKept, InUse, FileFeatures, AllSentences
<1>2. CASE Next /\ ~Prepare
  <2>1. PICK K : K = FileFeatures
    OBVIOUS
  <2>2. K \in SUBSET (Nat \X Nat)
    BY <2>1 DEF FileFeatures, FeaturesIn, AnyFeature
  <2>3. ~Preparing /\ ~Preparing' /\ file' = file
    <3>1. CASE ReadChunk \/ EndOfData \/ StartPass \/ TrainChunk \/ EndPass \/ FinishLearning
      BY <3>1 DEF ReadChunk, EndOfData, StartPass, TrainChunk, EndPass, FinishLearning, inputs, Preparing
    <3>2. CASE LearnAgain \/ LoadMissing \/ Load \/ SaveModel \/ LoadTagger
      BY <3>2 DEF LearnAgain, LoadMissing, Load, SaveModel, LoadTagger, inputs, vars, Preparing
    <3>3. CASE DecodeCommand
      BY <3>3 DEF DecodeCommand, OpenInput, EndOfInput, DecodeChunk, EndOfDecoding, inputs, Preparing
    <3> QED BY <1>2, <3>1, <3>2, <3>3 DEF Next, Learn
  <2>4. FileFeatures' = K
    BY <2>1, <2>3 DEF FileFeatures, AllSentences
  <2>5. ModelsKept(K)
    BY <2>1, <2>3 DEF OfFile
  <2>6. ModelInv(K)
    BY <1>a, <2>5 DEF ModelInv
  <2>7. ModelsKept(K)'
    <3>1. CASE ReadChunk
      <4>1. UNCHANGED <<stage, bin, crf>>
        BY <3>1 DEF ReadChunk
      <4>2. CASE stage = "read"
        <5>1. /\ ThisChunk.data # <<>> /\ model' = IF GrowsNow THEN Expand(model, ThisChunk.data) ELSE model
          BY <3>1, <4>2 DEF ReadChunk, ThisChunk, GrowsNow
        <5>2. PICK b \in Nat : ThisChunk.data \in Seq(Sentences(K, b))
          BY <1>a, <2>1, <4>2, ChunkOfFile
        <5>3. IsModel(model', K) /\ model'.max \in Nat
          <6>1. IsModel(model, K) /\ model.max \in Nat
            BY <2>5 DEF ModelsKept
          <6>2. CASE GrowsNow
            <7>1. IsExpanded(model', model, K, ThisChunk.data)
              BY <2>2, <5>1, <5>2, <6>1, <6>2, Expanded
            <7> QED BY <7>1 DEF IsExpanded
          <6> QED BY <5>1, <6>1, <6>2
        <5> QED BY <2>5, <4>1, <5>3 DEF ModelsKept, InUse
      <4>3. CASE stage # "read"
        <5>1. model' = model
          BY <3>1, <4>3 DEF ReadChunk
        <5> QED BY <2>5, <4>1, <5>1 DEF ModelsKept, InUse
      <4> QED BY <4>2, <4>3
    <3>2. CASE EndOfData
      BY <1>a, <2>2, <2>6, <3>2, EndOfDataModel DEF ModelInv
    <3>3. CASE StartPass
      BY <1>a, <2>2, <2>6, <3>3, StartPassModel DEF ModelInv
    <3>4. CASE TrainChunk
      BY <1>a, <2>2, <2>6, <3>4, TrainChunkModel DEF ModelInv
    <3>5. CASE EndPass
      BY <1>a, <2>2, <2>6, <3>5, EndPassModel DEF ModelInv
    <3>6. CASE FinishLearning
      BY <1>a, <2>2, <2>6, <3>6, FinishModel DEF ModelInv
    <3>7. CASE LearnAgain
      BY <1>a, <2>2, <2>6, <3>7, LearnAgainModel DEF ModelInv
    <3>8. CASE Load \/ SaveModel \/ LoadTagger \/ DecodeCommand
      BY <1>a, <2>2, <2>6, <3>8, UseModel DEF ModelInv
    <3>9. CASE UNCHANGED vars
      BY <2>5, <3>9 DEF vars, ModelsKept, InUse
    <3> QED BY <1>2, <3>1, <3>2, <3>3, <3>4, <3>5, <3>6, <3>7, <3>8, <3>9 DEF Next, Learn, LoadMissing
  <2> QED BY <2>3, <2>4, <2>7 DEF OfFile, ModelsKept, InUse
<1> QED BY <1>1, <1>2, <1>3

-----------------------------------------------------------------------------
(* What is to be kept is kept.                                             *)
LEMMA KeptHas ==
  ASSUME NEW T, NEW s \in Seq(T), NEW S, NEW i \in 1 .. Len(s), s[i] \in S
  PROVE  \E j \in 1 .. Len(Kept(s, S)) : Kept(s, S)[j] = s[i]
<1> DEFINE n == Len(s)
<1>0. n \in Nat /\ i \in Int
  BY LenProperties
<1>1. PICK g : KeptRun(g, s, T, S)
  BY KeptRuns
<1>2. /\ g \in [0 .. n -> Seq(T \cap S)] /\ Kept(s, S) = g[n]
      /\ \A k \in 1 .. n : g[k] = IF s[k] \in S THEN Append(g[k - 1], s[k]) ELSE g[k - 1]
  BY <1>1 DEF KeptRun
<1> DEFINE Has(k) == \E j \in 1 .. Len(g[k]) : g[k][j] = s[i]
<1> DEFINE I == {k \in 0 .. n : k >= i => Has(k)}
<1>3. 0 \in I
  BY <1>0
<1>4. ASSUME NEW k \in 0 .. n - 1, k \in I PROVE k + 1 \in I
  <2>1. k + 1 \in 1 .. n /\ k \in 0 .. n /\ k + 1 \in 0 .. n /\ (k + 1) - 1 = k
    BY <1>0
  <2>2. g[k + 1] = IF s[k + 1] \in S THEN Append(g[k], s[k + 1]) ELSE g[k]
    BY <1>2, <2>1
  <2> DEFINE a == g[k]
  <2> DEFINE x == s[k + 1]
  <2>3. a \in Seq(T \cap S) /\ x \in T
    BY <1>2, <2>1, ElementOfSeq
  <2> HIDE DEF a, x
  <2>4. x \in S => /\ Len(Append(a, x)) = Len(a) + 1 /\ Append(a, x)[Len(a) + 1] = x
                   /\ \A j \in 1 .. Len(a) : Append(a, x)[j] = a[j]
    BY <2>3, AppendProperties
  <2>5. Len(a) \in Nat
    BY <2>3, LenProperties
  <2>6. CASE k + 1 = i
    <3>1. x \in S /\ x = s[i]
      BY <2>6 DEF x
    <3>2. g[k + 1] = Append(a, x)
      BY <2>2, <3>1 DEF a, x
    <3>3. Len(a) + 1 \in 1 .. Len(g[k + 1])
      BY <2>4, <2>5, <3>1, <3>2
    <3>4. Has(k + 1)
      BY <2>4, <3>1, <3>2, <3>3
    <3> QED BY <2>1, <3>4
  <2>7. CASE k + 1 # i
    <3>1. ASSUME k + 1 >= i PROVE Has(k + 1)
      <4>1. k >= i
        BY <1>0, <2>1, <2>7, <3>1
      <4>2. PICK j \in 1 .. Len(a) : a[j] = s[i]
        BY <1>4, <4>1 DEF a
      <4>3. j \in 1 .. Len(g[k + 1]) /\ g[k + 1][j] = a[j]
        <5>1. CASE x \in S
          <6>1. g[k + 1] = Append(a, x)
            BY <2>2, <5>1 DEF a, x
          <6> QED BY <2>4, <2>5, <4>2, <5>1, <6>1
        <5>2. CASE x \notin S
          BY <2>2, <5>2 DEF a, x
        <5> QED BY <5>1, <5>2
      <4> QED BY <4>2, <4>3
    <3> HIDE DEF Has
    <3> QED BY <2>1, <3>1
  <2> QED BY <2>6, <2>7
<1>5. \A k \in 0 .. n : k \in I
  <2> HIDE DEF I
  <2> QED BY <1>0, <1>3, <1>4, UpTo
<1>6. Has(n)
  BY <1>0, <1>5
<1> QED BY <1>2, <1>6

(* A feature of a text that the model has is named where it is spelled.    *)
LEMMA SpelledIsNamed ==
  ASSUME NEW K \in SUBSET (Nat \X Nat), NEW m, IsModel(m, K), m.max \in Nat, NEW grows,
         NEW b, NEW text \in Sentences(AnyFeature, b),
         NEW s \in IndexedSentences(Len(m.features), m.max),
         SpelledSentence(m, s) = KnownSentence(m, grows, text),
         NEW u \in 1 .. Len(m.features), m.features[u] \in K, HasFeature(text, m.features[u])
  PROVE  Names(s, u)
<1> DEFINE f == m.features[u]
<1> DEFINE X == FeaturesOf(K, m.max)
<1>0. m.features \in Seq(X) /\ Distinct(m.features) /\ Len(m.features) \in Nat
  BY UidsOf DEF IsModel
<1>1. \A v \in 1 .. Len(m.features) : m.features[v] = f => v = u
  BY DEF IsModel, Distinct
<1>2. \A v \in 1 .. Len(m.features) : m.features[v] \in Nat \X Nat
  <2>1. \A v \in 1 .. Len(m.features) : m.features[v] \in X
    <3> HIDE DEF X
    <3> QED BY <1>0, ElementOfSeq
  <2>2. X \subseteq Nat \X Nat
    BY DEF FeaturesOf, EdgeSet
  <2> QED BY <2>1, <2>2
<1> HIDE DEF X
<1>3. PICK t \in 1 .. Len(text.words) : \E i \in 1 .. Len(text.words[t].features) :
        FeatureOf(text.words[t].features[i]) = f
  BY DEF HasFeature
<1> DEFINE fs == text.words[t].features
<1>4. PICK i \in 1 .. Len(fs) : FeatureOf(fs[i]) = f
  BY <1>3
<1>5. text.words \in Seq(Words(AnyFeature, b)) /\ s.words \in Seq(IndexedWords(Len(m.features)))
  BY DEF Sentences, IndexedSentences
<1>6. fs \in Seq(FeatureLines(AnyFeature)) /\ t \in DOMAIN text.words
  <2>1. text.words[t] \in Words(AnyFeature, b)
    BY <1>5, ElementOfSeq
  <2> QED BY <1>5, <2>1, LenProperties DEF Words
<1>7. /\ DOMAIN s.words = DOMAIN text.words
      /\ SpelledFeatures(m, s.words[t].features) = KnownFeatures(m, grows, fs)
  <2>1. DOMAIN SpelledSentence(m, s) = DOMAIN s.words /\ DOMAIN KnownSentence(m, grows, text) = DOMAIN text.words
    BY DEF SpelledSentence, KnownSentence
  <2>2. t \in DOMAIN s.words
    BY <1>6, <2>1
  <2>3. /\ SpelledSentence(m, s)[t].features = SpelledFeatures(m, s.words[t].features)
        /\ KnownSentence(m, grows, text)[t].features = KnownFeatures(m, grows, fs)
    BY <1>6, <2>2 DEF SpelledSentence, KnownSentence
  <2> QED BY <2>1, <2>3
<1> DEFINE ps == s.words[t].features
<1>8. t \in 1 .. Len(s.words) /\ ps \in Seq((1 .. Len(m.features)) \X Int)
  <2>1. t \in 1 .. Len(s.words)
    BY <1>5, <1>6, <1>7, LenProperties
  <2>2. s.words[t] \in IndexedWords(Len(m.features))
    BY <1>5, <2>1, ElementOfSeq
  <2> QED BY <2>1, <2>2 DEF IndexedWords
<1> DEFINE S == {x \in ToSet(fs) : IsKnown(m, grows, x)}
<1>9. fs[i] \in S
  <2>1. IsFound(FindFeature(m, fs[i][1], fs[i][2]), m.features, <<fs[i][1], fs[i][2]>>)
    BY <1>0, FoundFeature
  <2>2. <<fs[i][1], fs[i][2]>> = m.features[u]
    BY <1>4 DEF FeatureOf
  <2>3. FindFeature(m, fs[i][1], fs[i][2]) # 0
    BY <2>1, <2>2 DEF IsFound
  <2>4. DOMAIN fs = 1 .. Len(fs)
    BY <1>6, LenProperties
  <2> QED BY <1>4, <2>3, <2>4 DEF ToSet, IsKnown
<1> HIDE DEF S, fs, ps
<1>10. PICK j \in 1 .. Len(Kept(fs, S)) : Kept(fs, S)[j] = fs[i]
  <2> DEFINE T == FeatureLines(AnyFeature)
  <2>1. fs \in Seq(T) /\ i \in 1 .. Len(fs) /\ fs[i] \in S
    BY <1>4, <1>6, <1>9
  <2> HIDE DEF T
  <2> QED BY <2>1, KeptHas
<1> DEFINE kept == Kept(fs, S)
<1>11. SpelledFeatures(m, ps) = kept
  BY <1>7 DEF KnownFeatures, S, fs, ps
<1>12. DOMAIN kept = 1 .. Len(kept)
  <2>1. kept \in Seq(FeatureLines(AnyFeature) \cap S)
    BY <1>6, KeptType
  <2> HIDE DEF kept
  <2> QED BY <2>1, LenProperties
<1>13. j \in DOMAIN ps /\ m.features[ps[j][1]] \o <<ps[j][2]>> = fs[i]
  <2>1. j \in DOMAIN kept /\ kept[j] = fs[i]
    BY <1>10, <1>12
  <2>2. DOMAIN SpelledFeatures(m, ps) = DOMAIN ps
    BY DEF SpelledFeatures
  <2>3. j \in DOMAIN ps
    BY <1>11, <2>1, <2>2
  <2>4. SpelledFeatures(m, ps)[j] = m.features[ps[j][1]] \o <<ps[j][2]>>
    BY <2>3 DEF SpelledFeatures, SpelledFeature
  <2> QED BY <1>11, <2>1, <2>3, <2>4
<1>14. j \in 1 .. Len(ps) /\ ps[j][1] \in 1 .. Len(m.features)
  BY <1>8, <1>13, LenProperties, ElementOfSeq, SMTT(30)
<1>15. ps[j][1] = u
  <2> DEFINE v == ps[j][1]
  <2> DEFINE c == ps[j][2]
  <2> DEFINE a1 == m.features[v][1]
  <2> DEFINE a2 == m.features[v][2]
  <2>1. v \in 1 .. Len(m.features) /\ m.features[v] = <<a1, a2>>
    <3>1. v \in 1 .. Len(m.features)
      BY <1>14
    <3> HIDE DEF v
    <3>2. m.features[v] \in Nat \X Nat
      BY <1>2, <3>1
    <3> QED BY <3>1, <3>2, SMTT(30)
  <2>2. <<a1, a2>> \o <<c>> = fs[i]
    BY <1>13, <2>1
  <2> HIDE DEF v, c, a1, a2
  <2>3. <<a1, a2, c>> = fs[i]
    BY <2>2, ThreeOf
  <2>4. fs[i][1] = a1 /\ fs[i][2] = a2
    <3> DEFINE z == fs[i]
    <3>1. z = <<a1, a2, c>>
      BY <2>3
    <3> HIDE DEF z
    <3>2. z[1] = a1 /\ z[2] = a2
      BY <3>1
    <3> QED BY <3>2 DEF z
  <2>5. m.features[v] = f
    BY <1>4, <2>1, <2>4 DEF FeatureOf, fs
  <2>6. v = u
    BY <1>1, <2>1, <2>5
  <2> QED BY <2>6 DEF v
<1> QED BY <1>8, <1>14, <1>15 DEF Names, ps

-----------------------------------------------------------------------------
(* Every parameter of a feature of the file is named by a sentence on disk.*)
LEMMA NamedOnDisk ==
  ASSUME TaggerInv(AnyFeature), IndexKept(AnyFeature), OfFile, stage \in {"pass", "train"},
         NEW p \in DOMAIN model.weight, model.features[p[1]][1] # EdgeSet
  PROVE  \E k \in 1 .. Len(Written) : Names(Written[k], p[1])
<1> DEFINE f == model.features[p[1]]
<1> DEFINE texts == AllSentences
<1> DEFINE K == FileFeatures
<1>1. K \in SUBSET (Nat \X Nat) /\ IsModel(model, K) /\ model.max \in Nat
  BY DEF OfFile, Preparing, ModelsKept, FileFeatures, FeaturesIn, AnyFeature
<1> HIDE DEF K
<1>2. p[1] \in 1 .. Len(model.features) /\ f \in FeaturesOf(K, model.max)
  BY <1>1, PartsOfModel
<1>3. f \in K
  BY <1>2 DEF FeaturesOf
<1>4. PICK k \in 1 .. Len(texts) : HasFeature(texts[k], f)
  BY <1>3 DEF K, FileFeatures, FeaturesIn
<1>5. Spells(Written, texts, model, GrowsNow)
  BY DEF IndexKept
<1>6. k \in 1 .. Len(Written) /\ SpelledSentence(model, Written[k]) = KnownSentence(model, GrowsNow, texts[k])
  BY <1>5 DEF Spells
<1>7. Written[k] \in IndexedSentences(Len(model.features), model.max)
  <2>1. data.disk \in Seq(Seq(Usable(model)))
    BY DEF TaggerInv, ModelInv, SentencesKept, Stored
  <2>2. Written \in Seq(Usable(model))
    BY <2>1, FlattenType DEF Written
  <2> QED BY <1>6, <2>2, ElementOfSeq DEF Usable
<1>8. \E b : texts[k] \in Sentences(AnyFeature, b)
  <2>1. file \in Seq(Lines(AnyFeature)) /\ Len(file) \in Nat /\ 1 \in Int
    BY LenProperties DEF TaggerInv, TextKept
  <2>2. PICK b \in Nat : texts \in Seq(Sentences(AnyFeature, b))
    BY <2>1, SentencesOfLines DEF AllSentences
  <2> HIDE DEF texts
  <2> QED BY <1>4, <2>2, ElementOfSeq
<1>9. PICK b : texts[k] \in Sentences(AnyFeature, b)
  BY <1>8
<1> DEFINE text == texts[k]
<1> DEFINE s == Written[k]
<1> DEFINE u == p[1]
<1>10. /\ text \in Sentences(AnyFeature, b) /\ s \in IndexedSentences(Len(model.features), model.max)
       /\ SpelledSentence(model, s) = KnownSentence(model, GrowsNow, text)
       /\ u \in 1 .. Len(model.features) /\ model.features[u] \in K /\ HasFeature(text, model.features[u])
  BY <1>2, <1>3, <1>4, <1>6, <1>7, <1>9
<1> HIDE DEF text, s, u
<1>11. Names(s, u)
  BY <1>1, <1>10, SpelledIsNamed, Zenon
<1> QED BY <1>6, <1>11 DEF s, u

(* There are sentences on disk if the model has labels.                    *)
LEMMA LabelsAreSeen ==
  ASSUME TaggerInv(AnyFeature), IndexKept(AnyFeature), stage \in {"pass", "train"}, model.max > 0
  PROVE  Len(Written) > 0
<1> DEFINE all == AllSentences
<1> DEFINE n == Len(file)
<1> DEFINE K == AnyFeature
<1>1. HasData /\ file \in Seq(Lines(K)) /\ JobKept
  BY DEF TaggerInv, ModelInv, LabelsKept, HasLabels, TextKept, StreamInv
<1>2. n \in Nat /\ 1 \in Int /\ job.size \in Nat \ {0}
  BY <1>1, LenProperties, JobHas
<1>3. n # 0
  <2>1. ASSUME n = 0 PROVE Read(file, 1, job.size).data = <<>>
    <3>1. PICK g : ReadRun(g, file, 1, job.size, K)
      BY <1>1, <1>2, ReadRuns, Zenon
    <3>2. g[0] = [data |-> <<>>, open |-> NoSentence, at |-> 1] /\ Read(file, 1, job.size) = g[n]
      BY <3>1 DEF ReadRun
    <3>3. g[n].data = <<>>
      BY <2>1, <3>2
    <3> QED BY <3>2, <3>3
  <2> QED BY <1>1, <2>1 DEF HasData
<1>4. all # <<>>
  <2>1. n \in Nat \ {0}
    BY <1>2, <1>3
  <2>2. all = <<>> => Read(file, 1, job.size).data = <<>>
    BY <1>1, <1>2, <2>1, FirstChunk DEF AllSentences
  <2> QED BY <1>1, <2>2 DEF HasData
<1>5. \E b \in Nat : all \in Seq(Sentences(K, b))
  BY <1>1, <1>2, SentencesOfLines DEF AllSentences
<1>6. Len(Written) = Len(all)
  BY DEF IndexKept, Spells
<1> HIDE DEF all
<1>7. Len(all) \in Nat /\ Len(all) # 0
  BY <1>4, <1>5, LenProperties
<1> QED BY <1>6, <1>7

(* What is on disk was handed out by the end of a pass.                    *)
LEMMA DiskIsSeen ==
  ASSUME TaggerInv(AnyFeature), stage = "train", IsEmpty(data), NEW k \in 1 .. Len(Written)
  PROVE  \E j \in 1 .. Len(learner.seen) : learner.seen[j] = Written[k]
<1> DEFINE U == Usable(model)
<1> DEFINE seen == learner.seen
<1> DEFINE all == Written
<1> DEFINE x == Written[k]
<1>1. Stored(data, U) /\ InMemory(data, U) /\ Midway(data, U, seen)
  BY DEF TaggerInv, ModelInv, SentencesKept
<1>2. all \in Seq(U) /\ seen \in Seq(U)
  <2>1. data.disk \in Seq(Seq(U)) /\ seen \in Seq(U)
    BY <1>1 DEF Stored, Midway
  <2> HIDE DEF U
  <2> QED BY <2>1, FlattenType DEF Written
<1> HIDE DEF U, seen
<1>3. Count(x, all) = Count(x, seen)
  BY <1>1, AllHandedOut DEF IsEmpty, Written
<1>4. k \in DOMAIN all /\ DOMAIN seen = 1 .. Len(seen)
  BY <1>2, LenProperties
<1> HIDE DEF all
<1>5. /\ IsFiniteSet(Places(x, all)) /\ Count(x, all) = Cardinality(Places(x, all))
      /\ IsFiniteSet(Places(x, seen)) /\ Count(x, seen) = Cardinality(Places(x, seen))
  <2> HIDE DEF x
  <2> QED BY <1>2, CountType
<1>6. k \in Places(x, all)
  BY <1>4 DEF Places, all
<1>7. Cardinality(Places(x, all)) # 0
  <2>1. Places(x, all) # {}
    BY <1>6
  <2> HIDE DEF x
  <2> QED BY <1>5, <2>1, FS_EmptySet
<1>8. Places(x, seen) # {}
  <2> HIDE DEF x
  <2>1. Cardinality(Places(x, seen)) # 0
    BY <1>3, <1>5, <1>7
  <2> QED BY <1>5, <2>1, FS_EmptySet
<1>9. PICK j : j \in Places(x, seen)
  BY <1>8
<1>10. j \in 1 .. Len(seen) /\ seen[j] = x
  BY <1>4, <1>9 DEF Places
<1> QED BY <1>10 DEF seen, x

-----------------------------------------------------------------------------
(***************************************************************************)
(* During a pass of l1sgd, the transitions have paid what they owe as soon *)
(* as a sentence was seen, and every other weight as soon as a sentence    *)
(* was that names its feature.                                             *)
(***************************************************************************)
SeenNames(seen, u) == \E k \in 1 .. Len(seen) : Names(seen[k], u)

PaidKept ==
  stage = "train" /\ job.alg = "l1sgd" =>
    /\ Len(learner.seen) > 0 => EdgesPaid(ChunkRun)
    /\ \A p \in DOMAIN model.weight : SeenNames(learner.seen, p[1]) => ParamPaid(ChunkRun, p)

LEMMA SeenMore ==
  ASSUME NEW U, NEW a \in Seq(U), NEW b \in Seq(U), NEW u, SeenNames(a \o b, u)
  PROVE  SeenNames(a, u) \/ SeenNames(b, u)
<1>1. /\ Len(a) \in Nat /\ Len(b) \in Nat /\ Len(a \o b) = Len(a) + Len(b)
      /\ \A k \in 1 .. Len(a) + Len(b) : (a \o b)[k] = IF k <= Len(a) THEN a[k] ELSE b[k - Len(a)]
  BY ConcatProperties, LenProperties
<1>2. PICK k \in 1 .. Len(a) + Len(b) : Names((a \o b)[k], u)
  BY <1>1 DEF SeenNames
<1>3. CASE k <= Len(a)
  <2>1. k \in 1 .. Len(a) /\ (a \o b)[k] = a[k]
    BY <1>1, <1>3
  <2> QED BY <1>2, <2>1 DEF SeenNames
<1>4. CASE ~(k <= Len(a))
  <2>1. k - Len(a) \in 1 .. Len(b) /\ (a \o b)[k] = b[k - Len(a)]
    BY <1>1, <1>4
  <2> QED BY <1>2, <2>1 DEF SeenNames
<1> QED BY <1>3, <1>4

(* Training on a chunk pays for its sentences.                             *)
LEMMA TrainChunkPays ==
  ASSUME TaggerInv(AnyFeature), PaidKept, TrainChunk
  PROVE  PaidKept'
<1> DEFINE K == AnyFeature
<1> DEFINE handed == Shuffled(Swap(data), job.order)
<1> DEFINE chunk == Handed(handed)
<1> DEFINE y == AfterChunk(job.alg, job.crf, Rate, ChunkRun, chunk)
<1> DEFINE U == Usable(model)
<1> DEFINE seen == learner.seen
<1>1. /\ job' = job /\ stage = "train" /\ stage' = (IF y.failed THEN "failed" ELSE stage)
      /\ model' = y.model
      /\ learner' = [learner EXCEPT !.loss = y.loss, !.paid = y.paid, !.seen = @ \o chunk]
  BY DEF TrainChunk, inputs, ChunkRun, AfterChunk
<1>2. StreamInv /\ ProgressKept /\ ModelInv(K) /\ K \in SUBSET (Nat \X Nat)
  BY DEF TaggerInv, AnyFeature
<1>3. /\ IsTrained(y, model, K) /\ chunk \in Seq(U)
      /\ job.alg = "l1sgd" => ChunkPays(y, ChunkRun, chunk)
  BY <1>2, ChunkIsTrained
<1>4. seen \in Seq(U)
  BY <1>1, <1>2 DEF ModelInv, SentencesKept, Midway
<1>5. learner'.seen = seen \o chunk /\ learner'.paid = y.paid
  BY <1>1, <1>2 DEF ModelInv, LearnerKept, LearnerFields
<1>6. /\ ChunkRun'.model = y.model /\ ChunkRun'.paid = y.paid
  BY <1>1, <1>5 DEF ChunkRun
<1>7. DOMAIN y.model.weight = DOMAIN model.weight /\ y.failed \in BOOLEAN
  BY <1>3 DEF IsTrained, SameShape
<1> HIDE DEF y, chunk, seen, U, K
<1>8. SUFFICES ASSUME y.failed = FALSE, job.alg = "l1sgd"
               PROVE  /\ Len(seen \o chunk) > 0 => EdgesPaid(y)
                      /\ \A p \in DOMAIN y.model.weight : SeenNames(seen \o chunk, p[1]) => ParamPaid(y, p)
  BY <1>1, <1>5, <1>6, <1>7 DEF PaidKept, EdgesPaid, ParamPaid
<1>9. /\ EdgesPaid(ChunkRun) \/ Len(chunk) > 0 => EdgesPaid(y)
      /\ \A p \in DOMAIN y.model.weight :
           ParamPaid(ChunkRun, p) \/ SeenNames(chunk, p[1]) => ParamPaid(y, p)
  BY <1>3, <1>8 DEF ChunkPays, SeenNames
<1>10. /\ Len(seen) > 0 => EdgesPaid(ChunkRun)
       /\ \A p \in DOMAIN model.weight : SeenNames(seen, p[1]) => ParamPaid(ChunkRun, p)
  BY <1>1, <1>8 DEF PaidKept, seen
<1>11. Len(seen \o chunk) = Len(seen) + Len(chunk) /\ Len(seen) \in Nat /\ Len(chunk) \in Nat
  BY <1>3, <1>4, ConcatProperties, LenProperties
<1>12. Len(seen \o chunk) > 0 => EdgesPaid(y)
  BY <1>9, <1>10, <1>11
<1>13. ASSUME NEW p \in DOMAIN y.model.weight, SeenNames(seen \o chunk, p[1]) PROVE ParamPaid(y, p)
  <2>1. SeenNames(seen, p[1]) \/ SeenNames(chunk, p[1])
    BY <1>3, <1>4, <1>13, SeenMore
  <2> QED BY <1>7, <1>9, <1>10, <2>1
<1> QED BY <1>12, <1>13

(* At the end of a pass every weight has paid.                             *)
LEMMA EndPassPays ==
  ASSUME TaggerInv(AnyFeature), IndexKept(AnyFeature), OfFile, PaidKept, EndPass, job.alg = "l1sgd"
  PROVE  PenaltiesPaid'
<1> DEFINE y == BackPropagate(model)
<1>1. /\ stage = "train" /\ stage' = "pass" /\ IsEmpty(data) /\ model' = y
      /\ learner'.paid = learner.paid
  BY DEF EndPass, TaggerInv, ModelInv, LearnerKept, LearnerFields
<1>2. IsModel(model, AnyFeature) /\ AnyFeature \in SUBSET (Nat \X Nat)
  BY DEF TaggerInv, ModelInv, ModelsKept, AnyFeature
<1>3. SameShape(y, model) /\ y.trans = model.trans
  BY <1>2, BackPropagated
<1>4. ASSUME NEW p \in DOMAIN model.weight, model.features[p[1]][1] # EdgeSet
      PROVE  PaidUp(y.weight[p], learner.paid.weight[p], learner.paid.owed)
  <2>1. PICK k \in 1 .. Len(Written) : Names(Written[k], p[1])
    BY <1>1, <1>4, NamedOnDisk
  <2>2. PICK j \in 1 .. Len(learner.seen) : learner.seen[j] = Written[k]
    BY <1>1, DiskIsSeen
  <2>3. SeenNames(learner.seen, p[1])
    BY <2>1, <2>2 DEF SeenNames
  <2>4. ParamPaid(ChunkRun, p)
    BY <1>1, <2>3 DEF PaidKept
  <2>5. y.weight[p] = model.weight[p]
    BY <1>2, <1>4 DEF BackPropagate, IsModel
  <2> QED BY <2>4, <2>5 DEF ParamPaid, ChunkRun
<1>5. ASSUME NEW e \in DOMAIN model.trans
      PROVE  PaidUp(model.trans[e], learner.paid.trans[e], learner.paid.owed)
  <2>1. model.max > 0
    <3>1. e \in LabelsOf(model) \X LabelsOf(model) /\ model.max \in Nat \cup {-1}
      BY <1>2 DEF IsModel
    <3>2. e[1] \in 0 .. model.max - 1
      BY <3>1 DEF LabelsOf
    <3> QED BY <3>1, <3>2
  <2>2. Len(Written) > 0
    BY <1>1, <2>1, LabelsAreSeen
  <2>3. 1 \in 1 .. Len(Written)
    <3>1. Len(Written) \in Nat
      <4>1. data.disk \in Seq(Seq(Usable(model)))
        BY <1>1 DEF TaggerInv, ModelInv, SentencesKept, Stored
      <4>2. Written \in Seq(Usable(model))
        BY <4>1, FlattenType DEF Written
      <4> QED BY <4>2, LenProperties
    <3> QED BY <2>2, <3>1
  <2>4. PICK j \in 1 .. Len(learner.seen) : learner.seen[j] = Written[1]
    BY <1>1, <2>3, DiskIsSeen
  <2>5. Len(learner.seen) > 0
    <3>1. learner.seen \in Seq(Usable(model))
      BY <1>1 DEF TaggerInv, ModelInv, SentencesKept, Midway
    <3>2. Len(learner.seen) \in Nat
      BY <3>1, LenProperties
    <3> QED BY <2>4, <3>2
  <2>6. EdgesPaid(ChunkRun)
    BY <1>1, <2>5 DEF PaidKept
  <2> QED BY <2>6 DEF EdgesPaid, ChunkRun
<1> HIDE DEF y
<1> QED BY <1>1, <1>3, <1>4, <1>5 DEF PenaltiesPaid, SameShape

(* Every step keeps what was paid in step.                                 *)
LEMMA PaidNext ==
  ASSUME TaggerInv(AnyFeature), IndexKept(AnyFeature), OfFile, PaidKept, PenaltiesPaid, [Next]_vars
  PROVE  PaidKept' /\ PenaltiesPaid'
<1>1. CASE StartPass
  <2>1. /\ stage' = "train" /\ learner' = [learner EXCEPT !.loss = 0, !.seen = <<>>, !.paid = Owe(@, Rate)]
    BY <1>1 DEF StartPass
  <2>2. learner'.seen = <<>>
    BY <2>1 DEF TaggerInv, ModelInv, LearnerKept, LearnerFields
  <2> QED BY <2>1, <2>2 DEF PaidKept, PenaltiesPaid, SeenNames
<1>2. CASE TrainChunk
  <2>1. stage' # "pass"
    BY <1>2 DEF TrainChunk
  <2> QED BY <1>2, <2>1, TrainChunkPays DEF PenaltiesPaid
<1>3. CASE EndPass
  <2>1. stage' = "pass" /\ job' = job
    BY <1>3 DEF EndPass, inputs
  <2>2. CASE job.alg = "l1sgd"
    BY <1>3, <2>1, <2>2, EndPassPays DEF PaidKept
  <2>3. CASE job.alg # "l1sgd"
    BY <2>1, <2>3 DEF PaidKept, PenaltiesPaid
  <2> QED BY <2>2, <2>3
<1>4. CASE EndOfData
  <2>1. stage = "read" /\ stage' = "pass" /\ past' = past
    BY <1>4 DEF EndOfData
  <2>2. past' = <<>>
    BY <2>1 DEF TaggerInv, ProgressKept
  <2> QED BY <2>1, <2>2 DEF PaidKept, PenaltiesPaid
<1>5. CASE Prepare \/ ReadChunk
  <2>1. stage' \in {"fit", "concat", "write", "read", "input"}
    BY <1>5 DEF Prepare, FitNGrams, FitConcat, WriteData, Advance, ReadChunk
  <2> QED BY <2>1 DEF PaidKept, PenaltiesPaid
<1>6. CASE FinishLearning \/ LearnAgain \/ Load \/ SaveModel \/ LoadTagger \/ DecodeCommand
  <2>1. stage' \in {"saved", "read", "loaded", "input", "decode"}
    BY <1>6 DEF FinishLearning, LearnAgain, Load, SaveModel, LoadTagger, DecodeCommand, OpenInput,
                EndOfInput, DecodeChunk, EndOfDecoding
  <2> QED BY <2>1 DEF PaidKept, PenaltiesPaid
<1>7. CASE UNCHANGED vars
  BY <1>7 DEF vars, PaidKept, PenaltiesPaid, ChunkRun, EdgesPaid, ParamPaid
<1> QED BY <1>1, <1>2, <1>3, <1>4, <1>5, <1>6, <1>7 DEF Next, Learn, LoadMissing

(***************************************************************************)
(* For any jobs: after every pass of l1sgd, every transition and every     *)
(* weight of a feature of the file has paid what it owes, or as much of it *)
(* as takes it to zero, and no more (CumulativeL1SGDLearner: ApplyPenalty, *)
(* UpdateNodeWeight, UpdateEdgeWeightOverSentence).  A pass names every    *)
(* feature of the model, since all come from its sentences, also those of  *)
(* a premodel.                                                             *)
(***************************************************************************)
THEOREM AllPenaltiesPaid == Spec => []PenaltiesPaid
<1> DEFINE Inv == TaggerInv(AnyFeature) /\ IndexKept(AnyFeature) /\ OfFile /\ PaidKept /\ PenaltiesPaid
<1>1. Init => Inv
  <2>1. Init => PaidKept /\ PenaltiesPaid
    BY DEF Init, PaidKept, PenaltiesPaid
  <2> QED BY <2>1, AnyFile, TaggerInit, IndexInit, OfFileInit
<1>2. Inv /\ [Next]_vars => Inv'
  BY AnyFile, TaggerNext, IndexNext, OfFileNext, PaidNext
<1> QED BY <1>1, <1>2, PTL DEF Spec

-----------------------------------------------------------------------------
(* The scores that a model gives the words of a sentence, by their         *)
(* features.                                                               *)
WordScores(m, labels, words) ==
  [t \in DOMAIN words |-> [i \in labels |-> FeatureScore(m, i, words[t].features)]]

LEMMA ScoresByFeature ==
  ASSUME NEW m, NEW allData, NEW k \in DOMAIN allData
  PROVE  LinearFunction(m, IndexData(m, allData)[k], LabelsOf(m)) = WordScores(m, LabelsOf(m), allData[k].words)
<1> DEFINE s == IndexData(m, allData)[k]
<1> DEFINE words == allData[k].words
<1>1. s.words = [t \in DOMAIN words |->
                   [label |-> words[t].label, features |-> Indexed(m, words[t].features)]]
  BY DEF IndexData
<1> HIDE DEF s, words
<1>2. DOMAIN s.words = DOMAIN words /\ \A t \in DOMAIN words : s.words[t].features = Indexed(m, words[t].features)
  BY <1>1
<1> DEFINE L == LabelsOf(m)
<1>3. LinearFunction(m, s, L)
        = [t \in DOMAIN s.words |-> [i \in L |->
             FoldLeft(LAMBDA x, f : x + WeightOf(m, f[1], i) * f[2], 0, s.words[t].features)]]
  BY Zenon DEF LinearFunction, L
<1>4. WordScores(m, L, words)
        = [t \in DOMAIN words |-> [i \in L |->
             FoldLeft(LAMBDA x, f : x + WeightOf(m, f[1], i) * f[2], 0, Indexed(m, words[t].features))]]
  BY Zenon DEF WordScores, FeatureScore
<1> HIDE DEF L
<1>5. LinearFunction(m, s, L) = WordScores(m, L, words)
  BY <1>2, <1>3, <1>4, Zenon
<1> QED BY <1>5 DEF s, words, L

(* Two models that give their parameters the same weights score words      *)
(* alike.                                                                  *)
LEMMA AlikeScoresWords ==
  ASSUME NEW K, NEW c, NEW m, IsModel(c, K), IsModel(m, K), SaysAlike(c, m),
         NEW b, NEW words \in Seq(Words(K, b))
  PROVE  WordScores(c, LabelsOf(c), words) = WordScores(m, LabelsOf(m), words)
<1> DEFINE L == LabelsOf(m)
<1>1. LabelsOf(c) = L
  BY DEF SaysAlike, LabelsOf
<1>2. \A t \in DOMAIN words : words[t].features \in Seq(FeatureLines(K))
  <2> DEFINE Y == Words(K, b)
  <2>1. \A w \in Y : w.features \in Seq(FeatureLines(K))
    BY DEF Words
  <2> HIDE DEF Y
  <2> QED BY <2>1, LenProperties, ElementOfSeq DEF Y
<1> HIDE DEF L
<1>3. ASSUME NEW t \in DOMAIN words, NEW i
      PROVE  FeatureScore(c, i, words[t].features) = FeatureScore(m, i, words[t].features)
  <2> DEFINE fs == words[t].features
  <2>1. fs \in Seq(FeatureLines(K))
    BY <1>2
  <2> HIDE DEF fs
  <2>2. FeatureScore(c, i, fs) = FeatureScore(m, i, fs)
    BY <2>1, AlikeScores
  <2> QED BY <2>2 DEF fs
<1>4. WordScores(c, L, words) = WordScores(m, L, words)
  BY <1>3 DEF WordScores
<1> QED BY <1>1, <1>4 DEF L

-----------------------------------------------------------------------------
(***************************************************************************)
(* The model file says what the model that was learned says, but for       *)
(* weights of zero, and the model that is loaded says what the file says;  *)
(* both have a cache made of their weights.                                *)
(***************************************************************************)
SavedSays(saved, m) ==
  saved.max = m.max /\ \A f, l, v : FileSays(saved, f, l, v) <=> Says(m, f, l, v) /\ v # 0

LoadedSays(m, saved) ==
  Fresh(m) /\ m.max = saved.max /\ \A f, l, v : Says(m, f, l, v) <=> FileSays(saved, f, l, v)

SavedKept ==
  InUse => /\ Fresh(model) /\ SavedSays(bin, model)
           /\ stage # "saved" => LoadedSays(crf, bin)

LEMMA LoadedSaysAlike ==
  ASSUME NEW c, NEW saved, NEW m, SavedSays(saved, m), LoadedSays(c, saved)
  PROVE  SaysAlike(c, m)
BY DEF SavedSays, LoadedSays, SaysAlike

(* FinishLearning: rolled back, shrunk and written.                        *)
LEMMA FinishSaves ==
  ASSUME TaggerInv(AnyFeature), FinishLearning
  PROVE  SavedKept'
<1> DEFINE K == AnyFeature
<1>1. stage = "pass" /\ stage' = "saved" /\ model' = RolledBack /\ bin' = Serialize(Shrink(model'))
  BY DEF FinishLearning
<1>2. IsModel(model, K) /\ K \in SUBSET (Nat \X Nat)
  BY DEF TaggerInv, ModelInv, ModelsKept, AnyFeature
<1> DEFINE w == IF learner.highest = 0 THEN [p \in DOMAIN model.weight |-> 0]
                ELSE past[learner.highest].weight
<1>3. w \in [DOMAIN model.weight -> Int]
  <2>1. /\ learner.highest \in 0 .. Len(past)
        /\ \A k \in 1 .. Len(past) : past[k].weight \in [DOMAIN model.weight -> Int]
    BY <1>1 DEF TaggerInv, ModelInv, LearnerKept
  <2>2. Len(past) \in Nat
    BY <1>1, LenProperties DEF TaggerInv, ProgressKept, Passes
  <2>3. learner.highest # 0 => learner.highest \in 1 .. Len(past)
    BY <2>1, <2>2
  <2> QED BY <2>1, <2>3
<1>4. model' = Reset(model, w)
  BY <1>1 DEF RolledBack
<1> HIDE DEF w, K
<1>5. IsModel(model', K) /\ Fresh(model')
  BY <1>2, <1>3, <1>4, ResetIs
<1> DEFINE shrunk == Shrink(model')
<1>6. /\ IsModel(shrunk, K) /\ NoZeros(shrunk) /\ shrunk.max = model'.max
      /\ \A f, l, v : Says(shrunk, f, l, v) <=> Says(model', f, l, v) /\ v # 0
  BY <1>2, <1>5, ShrunkIs DEF IsShrunk
<1> HIDE DEF shrunk
<1>7. bin' = Serialize(shrunk)
  BY <1>1 DEF shrunk
<1>8. /\ bin'.max = shrunk.max
      /\ \A f, l, v : FileSays(bin', f, l, v) <=> Says(shrunk, f, l, v)
  BY <1>2, <1>6, <1>7, SerializedIs DEF IsWritten
<1>9. SavedSays(bin', model')
  BY <1>6, <1>8 DEF SavedSays
<1> QED BY <1>1, <1>5, <1>9 DEF SavedKept

(* Loading, saving and decoding.                                           *)
LEMMA UseKeepsSaved ==
  ASSUME TaggerInv(AnyFeature), SavedKept, Load \/ SaveModel \/ LoadTagger \/ DecodeCommand
  PROVE  SavedKept'
<1> DEFINE K == AnyFeature
<1>1. InUse /\ model' = model /\ stage' # "saved"
  <2>1. CASE Load \/ SaveModel \/ LoadTagger
    BY <2>1 DEF Load, SaveModel, LoadTagger, inputs, InUse
  <2>2. CASE DecodeCommand
    BY <2>2 DEF DecodeCommand, OpenInput, EndOfInput, DecodeChunk, EndOfDecoding, inputs, InUse
  <2> QED BY <2>1, <2>2
<1>2. \/ crf' = Deserialize(bin) /\ bin' = bin
      \/ crf' = crf /\ bin' = Serialize(crf) /\ stage = "loaded"
      \/ crf' = crf /\ bin' = bin /\ stage # "saved"
  <2>1. CASE Load \/ SaveModel \/ LoadTagger
    BY <2>1 DEF Load, SaveModel, LoadTagger, inputs
  <2>2. CASE DecodeCommand
    BY <2>2 DEF DecodeCommand, OpenInput, EndOfInput, DecodeChunk, EndOfDecoding, inputs
  <2> QED BY <2>1, <2>2
<1>3. /\ IsFile(bin, K) /\ IsModel(crf, K) /\ NoZeros(crf) /\ K \in SUBSET (Nat \X Nat)
  BY <1>1, BinIsLoaded DEF TaggerInv, ModelInv, ModelsKept, AnyFeature
<1> HIDE DEF K
<1>4. /\ Fresh(model) /\ SavedSays(bin, model)
      /\ stage # "saved" => LoadedSays(crf, bin)
  BY <1>1 DEF SavedKept
<1>5. SavedSays(bin', model) /\ LoadedSays(crf', bin')
  <2>1. CASE crf' = Deserialize(bin) /\ bin' = bin
    <3>1. LoadedSays(Deserialize(bin), bin)
      BY <1>3, DeserializedIs DEF IsLoaded, LoadedSays
    <3> QED BY <1>4, <2>1, <3>1
  <2>2. CASE crf' = crf /\ bin' = Serialize(crf) /\ stage = "loaded"
    <3>1. IsWritten(bin', crf, K)
      BY <1>3, <2>2, SerializedIs
    <3>2. LoadedSays(crf, bin)
      BY <1>4, <2>2
    <3>3. LoadedSays(crf, bin')
      BY <3>1, <3>2 DEF IsWritten, LoadedSays
    <3>4. SavedSays(bin', model)
      BY <1>4, <3>1, <3>2 DEF IsWritten, LoadedSays, SavedSays
    <3> QED BY <2>2, <3>3, <3>4
  <2>3. CASE crf' = crf /\ bin' = bin /\ stage # "saved"
    BY <1>4, <2>3
  <2> QED BY <1>2, <2>1, <2>2, <2>3
<1> QED BY <1>1, <1>4, <1>5 DEF SavedKept

(* Every step keeps what was saved saying what was learned.                *)
LEMMA SavedNext ==
  ASSUME TaggerInv(AnyFeature), SavedKept, [Next]_vars
  PROVE  SavedKept'
<1>1. CASE FinishLearning
  BY <1>1, FinishSaves
<1>2. CASE Load \/ SaveModel \/ LoadTagger \/ DecodeCommand
  BY <1>2, UseKeepsSaved
<1>3. CASE Prepare \/ EndOfData \/ StartPass \/ TrainChunk \/ EndPass \/ LearnAgain
  <2>1. stage' \in {"fit", "concat", "write", "read", "pass", "train", "failed"}
    BY <1>3 DEF Prepare, FitNGrams, FitConcat, WriteData, Advance, EndOfData, StartPass, TrainChunk,
                EndPass, LearnAgain
  <2> QED BY <2>1 DEF SavedKept, InUse
<1>4. CASE ReadChunk
  <2>1. /\ stage' = stage /\ bin' = bin /\ crf' = crf
        /\ stage = "input" => model' = model
        /\ stage \in {"read", "input"}
    BY <1>4 DEF ReadChunk
  <2> QED BY <2>1 DEF SavedKept, InUse
<1>5. CASE UNCHANGED vars
  BY <1>5 DEF vars, SavedKept, InUse
<1> QED BY <1>1, <1>2, <1>3, <1>4, <1>5 DEF Next, Learn, LoadMissing

(***************************************************************************)
(* For any jobs, whatever is learned, saved, loaded and saved again: the   *)
(* model that is loaded has the labels and transitions of the one that was *)
(* learned, and gives every label of every word of the file the same       *)
(* score, although parameters of weight zero were dropped, and the others  *)
(* renumbered, sorted and written (SparseLinearModel: Shrink, Serialize,   *)
(* Deserialize, RefreshCache).                                             *)
(***************************************************************************)
THEOREM WhatIsLearnedIsSaved == Spec => []SavedAsLearned
<1> DEFINE Inv == TaggerInv(AnyFeature) /\ SavedKept
<1>1. ASSUME Inv PROVE SavedAsLearned
  <2>1. SUFFICES ASSUME stage = "loaded"
                 PROVE  crf.max = model.max /\ crf.trans = model.trans /\ Scores(crf) = Scores(model)
    BY DEF SavedAsLearned
  <2> DEFINE K == AnyFeature
  <2> DEFINE all == AllSentences
  <2>2. /\ IsModel(model, K) /\ IsModel(crf, K) /\ file \in Seq(Lines(K)) /\ 1 \in Int
        /\ Fresh(model) /\ SavedSays(bin, model) /\ LoadedSays(crf, bin)
    BY <1>1, <2>1 DEF TaggerInv, ModelInv, ModelsKept, TextKept, SavedKept, InUse
  <2>3. SaysAlike(crf, model) /\ Fresh(crf)
    BY <2>2, LoadedSaysAlike DEF LoadedSays
  <2>4. PICK b \in Nat : all \in Seq(Sentences(K, b))
    BY <2>2, LenProperties, SentencesOfLines DEF AllSentences
  <2>5. ASSUME NEW k \in DOMAIN all
        PROVE  LinearFunction(crf, IndexData(crf, all)[k], LabelsOf(crf))
                 = LinearFunction(model, IndexData(model, all)[k], LabelsOf(model))
    <3> DEFINE words == all[k].words
    <3> HIDE DEF all, K
    <3>1. words \in Seq(Words(K, b))
      <4> DEFINE Y == Sentences(K, b)
      <4>1. \A x \in Y : x.words \in Seq(Words(K, b))
        BY DEF Sentences
      <4> HIDE DEF Y
      <4> QED BY <2>4, <4>1, LenProperties, ElementOfSeq DEF Y
    <3> HIDE DEF words
    <3>2. WordScores(crf, LabelsOf(crf), words) = WordScores(model, LabelsOf(model), words)
      BY <2>2, <2>3, <3>1, AlikeScoresWords
    <3> QED BY <3>2, ScoresByFeature DEF words
  <2>6. Scores(crf) = Scores(model)
    BY <2>5, Zenon DEF Scores, all
  <2>7. crf.trans = model.trans
    BY <2>2, <2>3, AlikeDecides
  <2> QED BY <2>3, <2>6, <2>7 DEF SaysAlike
<1>2. Init => Inv
  <2>1. Init => SavedKept
    BY DEF Init, SavedKept, InUse
  <2> QED BY <2>1, AnyFile, TaggerInit
<1>3. Inv /\ [Next]_vars => Inv'
  BY AnyFile, TaggerNext, SavedNext
<1> QED BY <1>1, <1>2, <1>3, PTL DEF Spec
-----------------------------------------------------------------------------
(* Only the sums that are confined to allowed tags make a training fail.   *)
FailedKept == stage = "failed" => job.crf = "constrained"

LEMMA FailedNext ==
  ASSUME TaggerInv(AnyFeature), FailedKept, [Next]_vars
  PROVE  FailedKept'
<1>1. CASE TrainChunk
  <2> DEFINE K == AnyFeature
  <2> DEFINE chunk == Handed(Shuffled(Swap(data), job.order))
  <2> DEFINE y == AfterChunk(job.alg, job.crf, Rate, ChunkRun, chunk)
  <2>1. job' = job /\ stage = "train" /\ stage' = IF y.failed THEN "failed" ELSE stage
    BY <1>1 DEF TrainChunk, inputs, ChunkRun, AfterChunk
  <2>2. StreamInv /\ ProgressKept /\ ModelInv(K) /\ K \in SUBSET (Nat \X Nat)
    BY DEF TaggerInv, AnyFeature
  <2> HIDE DEF K
  <2>3. job.crf # "constrained" => y.failed = FALSE
    BY <1>1, <2>2, ChunkIsTrained
  <2> HIDE DEF y
  <2> QED BY <2>1, <2>3 DEF FailedKept
<1>2. CASE Prepare \/ EndOfData \/ StartPass \/ EndPass \/ FinishLearning \/ LearnAgain
  <2>1. stage' \in {"fit", "concat", "write", "read", "pass", "train", "saved"}
    BY <1>2 DEF Prepare, FitNGrams, FitConcat, WriteData, Advance, EndOfData, StartPass,
                EndPass, FinishLearning, LearnAgain
  <2> QED BY <2>1 DEF FailedKept
<1>3. CASE Load \/ SaveModel \/ LoadTagger \/ DecodeCommand
  <2>1. stage' \in {"saved", "loaded", "input", "decode"}
    BY <1>3 DEF Load, SaveModel, LoadTagger, DecodeCommand, OpenInput, EndOfInput, DecodeChunk,
                EndOfDecoding
  <2> QED BY <2>1 DEF FailedKept
<1>4. CASE ReadChunk
  <2>1. stage' = stage /\ stage \in {"read", "input"}
    BY <1>4 DEF ReadChunk
  <2> QED BY <2>1 DEF FailedKept
<1>5. CASE UNCHANGED vars
  BY <1>5 DEF vars, inputs, FailedKept
<1> QED BY <1>1, <1>2, <1>3, <1>4, <1>5 DEF Next, Learn, LoadMissing

(***************************************************************************)
(* For any jobs and all the weights training can arrive at: forward and    *)
(* backward sums, plain or sparse, are the sums over all the paths of every*)
(* sentence of the file, so an inference that visits all of a word's labels*)
(* never divides by zero, and only a training that is confined to allowed  *)
(* tags can fail (VanillaCRF, FrenchVanillaCRF, TagConstrainedCRF: Infer). *)
(***************************************************************************)
THEOREM MarginalsAreSums == Spec => []MarginalsAgree
<1> DEFINE Inv == TaggerInv(AnyFeature) /\ FailedKept
<1>1. ASSUME Inv PROVE MarginalsAgree
  <2>1. ASSUME stage = "pass", NEW s \in ToSet(IndexData(model, AllSentences))
        PROVE  SumsAgree(RefreshCache(model), s)
    <3> DEFINE K == AnyFeature
    <3> DEFINE m == RefreshCache(model)
    <3>1. IsModel(model, K) /\ model.max > 0 /\ s \in Usable(model)
      BY <1>1, <2>1, AnyFile, AllAreUsable
    <3>2. IsLoose(model, K) /\ K \in SUBSET (Nat \X Nat)
      BY <3>1 DEF IsModel, IsLoose, AnyFeature
    <3> HIDE DEF K
    <3>3. IsModel(m, K) /\ m.max = model.max /\ m.features = model.features
      BY <3>2, CacheRefreshed
    <3>4. Fresh(m)
      BY <3>2, RefreshedIsFresh
    <3> HIDE DEF m
    <3>5. m.max > 0 /\ s \in IndexedSentences(Len(m.features), m.max)
      BY <3>1, <3>3 DEF Usable
    <3>6. SumsAgree(m, s)
      BY <3>3, <3>4, <3>5, SumsOverPaths
    <3> QED BY <3>6 DEF m
  <2>2. stage = "failed" => job.crf = "constrained"
    BY <1>1 DEF FailedKept
  <2> QED BY <2>1, <2>2, Zenon DEF MarginalsAgree, SumsAgree
<1>2. Init => Inv
  <2>1. Init => FailedKept
    BY DEF Init, FailedKept
  <2> QED BY <2>1, AnyFile, TaggerInit
<1>3. Inv /\ [Next]_vars => Inv'
  BY AnyFile, TaggerNext, FailedNext
<1> QED BY <1>1, <1>2, <1>3, PTL DEF Spec
=============================================================================

-------------------------- MODULE Learners_proofs --------------------------
(***************************************************************************)
(* Proofs about the parts of the linear-chain CRF: its models, their       *)
(* files and its sentences are what they seem to be whatever is done to    *)
(* them, what Viterbi returns is a best path, and what the learner of      *)
(* l1sgd makes of a weight has paid what it owes.                          *)
(***************************************************************************)
EXTENDS Learners, Folding_proofs

-----------------------------------------------------------------------------
(***************************************************************************)
(* Best finds where a score is largest, among finitely many labels.        *)
(***************************************************************************)
LEMMA BestIsLargest ==
  ASSUME NEW m \in Nat, NEW tags \in SUBSET (0 .. m - 1), tags # {},
         NEW score \in [tags -> Int]
  PROVE  Best(score) \in tags /\ \A j \in tags : score[j] <= score[Best(score)]
<1> DEFINE Wins(i, j) == score[j] < score[i] \/ (score[j] = score[i] /\ i <= j)
<1> DEFINE T == {k \in Nat : (\E x \in tags : x < k) =>
                   \E i \in tags : i < k /\ \A j \in tags : j < k => Wins(i, j)}
<1>1. 0 \in T
  OBVIOUS
<1>2. ASSUME NEW k \in Nat, k \in T PROVE k + 1 \in T
  <2>1. CASE k \notin tags
    <3>1. \A j \in tags : j < k + 1 <=> j < k
      BY <2>1
    <3> QED BY <1>2, <3>1
  <2>2. CASE k \in tags /\ ~\E x \in tags : x < k
    <3>1. \A j \in tags : j < k + 1 => j = k
      BY <2>2
    <3>2. \A j \in tags : j < k + 1 => Wins(k, j)
      BY <2>2, <3>1
    <3> QED BY <2>2, <3>2
  <2>3. CASE k \in tags /\ \E x \in tags : x < k
    <3>1. PICK i \in tags : i < k /\ \A j \in tags : j < k => Wins(i, j)
      BY <1>2, <2>3
    <3>2. \A j \in tags : j < k + 1 => j < k \/ j = k
      OBVIOUS
    <3>3. CASE score[k] > score[i]
      <4>1. \A j \in tags : j < k + 1 => Wins(k, j)
        BY <2>3, <3>1, <3>2, <3>3
      <4> QED BY <2>3, <4>1
    <3>4. CASE ~(score[k] > score[i])
      <4>1. \A j \in tags : j < k + 1 => Wins(i, j)
        BY <2>3, <3>1, <3>2, <3>4
      <4> QED BY <3>1, <4>1
    <3> QED BY <3>3, <3>4
  <2> QED BY <2>1, <2>2, <2>3
<1>3. m \in T
  <2> HIDE DEF T
  <2> QED BY <1>1, <1>2, NatSetInduction
<1>4. \E i \in tags : \A j \in tags : Wins(i, j)
  <2>1. \A j \in tags : j < m
    OBVIOUS
  <2>2. \E x \in tags : x < m
    BY <2>1
  <2>3. PICK i \in tags : \A j \in tags : j < m => Wins(i, j)
    BY <1>3, <2>2
  <2> QED BY <2>1, <2>3
<1>5. Best(score) \in tags /\ \A j \in tags : Wins(Best(score), j)
  BY <1>4 DEF Best
<1>6. ASSUME NEW j \in tags PROVE score[j] <= score[Best(score)]
  <2>1. Wins(Best(score), j) /\ score[j] \in Int /\ score[Best(score)] \in Int
    BY <1>5
  <2> QED BY <2>1
<1> QED BY <1>5, <1>6

-----------------------------------------------------------------------------
(* The parts of Viterbi: a column from the one before it, all of them, and *)
(* the path back.                                                          *)
Into(prev, trans, tags, i) == [j \in tags |-> prev[j] + trans[<<j, i>>]]

FirstColumn(node, tags) == [score |-> [i \in tags |-> node[1][i]], from |-> <<>>]

NextColumn(prev, node, trans, tags, t) ==
  LET from == [i \in tags |-> Best(Into(prev, trans, tags, i))]
  IN  [score |-> [i \in tags |-> Into(prev, trans, tags, i)[from[i]] + node[t][i]],
       from |-> from]

Columns(node, trans, tags) ==
  FoldLeft(LAMBDA cols, t : Append(cols, NextColumn(Last(cols).score, node, trans, tags, t)),
           <<FirstColumn(node, tags)>>, [t \in 1 .. Len(node) - 1 |-> t + 1])

PathBack(cols) ==
  FoldRight(LAMBDA col, path : <<col.from[Head(path)]>> \o path, Tail(cols),
            <<Best(Last(cols).score)>>)

LEMMA ViterbiParts ==
  ASSUME NEW node, NEW trans, NEW tags
  PROVE  Viterbi(node, trans, tags) = PathBack(Columns(node, trans, tags))
BY DEF Viterbi, PathBack, Columns, NextColumn, FirstColumn, Into

-----------------------------------------------------------------------------
(* What is decoded: the scores of the labels of at least one word, and     *)
(* those of transitions, for the labels of a finite set.                   *)
Chain(node, trans, tags) ==
  /\ tags # {}
  /\ \E m \in Nat : tags \subseteq 0 .. m - 1
  /\ Len(node) \in Nat \ {0} /\ DOMAIN node = 1 .. Len(node)
  /\ \A t \in 1 .. Len(node) : \A i \in tags : node[t][i] \in Int
  /\ \A i, j \in tags : trans[<<i, j>>] \in Int

Column(tags) == [score : [tags -> Int], from : [tags -> tags] \cup {<<>>}]

(* A column says of every label which label before it is best, and what    *)
(* the two of them have reached.                                           *)
Follows(col, prev, node, trans, tags, t) ==
  /\ col.from \in [tags -> tags]
  /\ \A i \in tags :
       /\ col.score[i] = prev[col.from[i]] + trans[<<col.from[i], i>>] + node[t][i]
       /\ \A j \in tags : prev[j] + trans[<<j, i>>] + node[t][i] <= col.score[i]

LEMMA BestOfChain ==
  ASSUME NEW node, NEW trans, NEW tags, Chain(node, trans, tags), NEW score \in [tags -> Int]
  PROVE  Best(score) \in tags /\ \A j \in tags : score[j] <= score[Best(score)]
<1>1. PICK m \in Nat : tags \in SUBSET (0 .. m - 1)
  BY DEF Chain
<1>2. tags # {}
  BY DEF Chain
<1> QED BY <1>1, <1>2, BestIsLargest

(* A column of Viterbi's search follows the one before it (VanillaCRF:     *)
(* Decode).                                                                *)
LEMMA NextColumnFollows ==
  ASSUME NEW node, NEW trans, NEW tags, Chain(node, trans, tags),
         NEW prev \in [tags -> Int], NEW t \in 1 .. Len(node)
  PROVE  /\ NextColumn(prev, node, trans, tags, t) \in Column(tags)
         /\ Follows(NextColumn(prev, node, trans, tags, t), prev, node, trans, tags, t)
<1> DEFINE into(i) == Into(prev, trans, tags, i)
<1> DEFINE from == [i \in tags |-> Best(into(i))]
<1> DEFINE score == [i \in tags |-> into(i)[from[i]] + node[t][i]]
<1>1. NextColumn(prev, node, trans, tags, t) = [score |-> score, from |-> from]
  BY DEF NextColumn
<1>2. ASSUME NEW i \in tags
      PROVE  into(i) \in [tags -> Int] /\ \A j \in tags : into(i)[j] = prev[j] + trans[<<j, i>>]
  BY DEF Into, Chain
<1>3. ASSUME NEW i \in tags
      PROVE  from[i] \in tags /\ \A j \in tags : into(i)[j] <= into(i)[from[i]]
  BY <1>2, BestOfChain
<1>4. \A i \in tags : node[t][i] \in Int
  BY DEF Chain
<1>5. ASSUME NEW i \in tags
      PROVE  /\ score[i] \in Int
             /\ score[i] = prev[from[i]] + trans[<<from[i], i>>] + node[t][i]
             /\ \A j \in tags : prev[j] + trans[<<j, i>>] + node[t][i] <= score[i]
  <2>1. into(i)[from[i]] \in Int /\ into(i)[from[i]] = prev[from[i]] + trans[<<from[i], i>>]
    BY <1>2, <1>3
  <2>2. score[i] = into(i)[from[i]] + node[t][i]
    OBVIOUS
  <2>3. ASSUME NEW j \in tags PROVE prev[j] + trans[<<j, i>>] + node[t][i] <= score[i]
    <3>1. into(i)[j] = prev[j] + trans[<<j, i>>] /\ into(i)[j] \in Int /\ into(i)[j] <= into(i)[from[i]]
      BY <1>2, <1>3
    <3> HIDE DEF into, from, score
    <3> QED BY <1>4, <2>1, <2>2, <3>1
  <2>4. score[i] \in Int
    <3> HIDE DEF into, from, score
    <3> QED BY <1>4, <2>1, <2>2
  <2>5. score[i] = prev[from[i]] + trans[<<from[i], i>>] + node[t][i]
    BY <2>1, <2>2
  <2> QED BY <2>3, <2>4, <2>5
<1>6. from \in [tags -> tags] /\ score \in [tags -> Int]
  <2>1. from = [i \in tags |-> from[i]] /\ score = [i \in tags |-> score[i]]
    OBVIOUS
  <2> HIDE DEF into, from, score
  <2> QED BY <1>3, <1>5, <2>1
<1> HIDE DEF into, from, score
<1> QED BY <1>1, <1>5, <1>6 DEF Follows, Column

(* The columns of the first n words.                                       *)
AreColumns(cols, n, node, trans, tags) ==
  /\ cols \in Seq(Column(tags)) /\ Len(cols) = n
  /\ \A i \in tags : cols[1].score[i] = node[1][i]
  /\ \A t \in 2 .. n : Follows(cols[t], cols[t - 1].score, node, trans, tags, t)

LEMMA FirstColumnIs ==
  ASSUME NEW node, NEW trans, NEW tags, Chain(node, trans, tags)
  PROVE  AreColumns(<<FirstColumn(node, tags)>>, 1, node, trans, tags)
<1>1. 1 \in 1 .. Len(node)
  BY DEF Chain
<1>2. FirstColumn(node, tags) \in Column(tags)
  BY <1>1 DEF Chain, FirstColumn, Column
<1>3. \A i \in tags : FirstColumn(node, tags).score[i] = node[1][i]
  BY DEF FirstColumn
<1> QED BY <1>2, <1>3 DEF AreColumns

(* One more word, one more column.                                         *)
LEMMA OneMoreColumn ==
  ASSUME NEW node, NEW trans, NEW tags, Chain(node, trans, tags),
         NEW k \in 1 .. Len(node) - 1, NEW cols, AreColumns(cols, k, node, trans, tags)
  PROVE  AreColumns(Append(cols, NextColumn(Last(cols).score, node, trans, tags, k + 1)),
                    k + 1, node, trans, tags)
<1> DEFINE new == NextColumn(Last(cols).score, node, trans, tags, k + 1)
<1>0. Len(node) \in Nat /\ k \in Nat /\ k + 1 \in 1 .. Len(node)
  BY DEF Chain
<1>1. cols \in Seq(Column(tags)) /\ Len(cols) = k
  BY DEF AreColumns
<1>2. Last(cols) = cols[k] /\ cols[k] \in Column(tags)
  BY <1>0, <1>1, ElementOfSeq DEF Last
<1>3. Last(cols).score \in [tags -> Int]
  BY <1>2 DEF Column
<1>4. new \in Column(tags) /\ Follows(new, cols[k].score, node, trans, tags, k + 1)
  BY <1>0, <1>2, <1>3, NextColumnFollows
<1> HIDE DEF new
<1>5. /\ Append(cols, new) \in Seq(Column(tags)) /\ Len(Append(cols, new)) = k + 1
      /\ \A t \in 1 .. k : Append(cols, new)[t] = cols[t]
      /\ Append(cols, new)[k + 1] = new
  BY <1>0, <1>1, <1>4, AppendProperties
<1>6. ASSUME NEW t \in 2 .. k + 1
      PROVE  Follows(Append(cols, new)[t], Append(cols, new)[t - 1].score, node, trans, tags, t)
  <2>1. CASE t = k + 1
    <3>1. t - 1 = k /\ k \in 1 .. k
      BY <1>0, <2>1
    <3> QED BY <1>4, <1>5, <2>1, <3>1
  <2>2. CASE t # k + 1
    <3>1. t \in 2 .. k /\ t \in 1 .. k /\ t - 1 \in 1 .. k
      BY <1>0, <2>2
    <3> QED BY <1>5, <3>1 DEF AreColumns
  <2> QED BY <2>1, <2>2
<1>7. \A i \in tags : Append(cols, new)[1].score[i] = node[1][i]
  BY <1>0, <1>5 DEF AreColumns
<1>8. AreColumns(Append(cols, new), k + 1, node, trans, tags)
  BY <1>5, <1>6, <1>7 DEF AreColumns
<1> QED BY <1>8 DEF new

(* Some columns, and one more.                                             *)
Some(tags) == Seq(Column(tags)) \ {<<>>}

LEMMA SomeAndOneMore ==
  ASSUME NEW node, NEW trans, NEW tags, Chain(node, trans, tags),
         NEW cols \in Some(tags), NEW t \in 1 .. Len(node)
  PROVE  Append(cols, NextColumn(Last(cols).score, node, trans, tags, t)) \in Some(tags)
<1>1. cols \in Seq(Column(tags)) /\ Len(cols) \in Nat /\ Len(cols) > 0
  BY EmptySeq, LenProperties DEF Some
<1>2. Last(cols) \in Column(tags)
  BY <1>1, ElementOfSeq DEF Last
<1>3. Last(cols).score \in [tags -> Int]
  BY <1>2 DEF Column
<1>4. NextColumn(Last(cols).score, node, trans, tags, t) \in Column(tags)
  BY <1>3, NextColumnFollows
<1> QED BY <1>1, <1>4, AppendProperties DEF Some

(* The search has a column for every word, each following the one before.  *)
LEMMA ColumnsAre ==
  ASSUME NEW node, NEW trans, NEW tags, Chain(node, trans, tags)
  PROVE  AreColumns(Columns(node, trans, tags), Len(node), node, trans, tags)
<1> DEFINE n == Len(node) - 1
<1> DEFINE op(cols, t) == Append(cols, NextColumn(Last(cols).score, node, trans, tags, t))
<1> DEFINE seq == [t \in 1 .. n |-> t + 1]
<1> DEFINE base == <<FirstColumn(node, tags)>>
<1> DEFINE V == Some(tags)
<1> DEFINE F == [k \in 1 .. n |-> [v \in V |-> op(v, seq[k])]]
<1>0. n \in Nat /\ Len(node) \in Nat /\ Len(node) = n + 1
  BY DEF Chain
<1>1. base \in V
  BY FirstColumnIs DEF AreColumns, Some
<1>2. \A k \in 1 .. n : \A v \in V : F[k][v] = op(v, seq[k])
  OBVIOUS
<1>3. \A k \in 1 .. n : seq[k] = k + 1 /\ seq[k] \in 1 .. Len(node)
  BY <1>0
<1>4. \A k \in 1 .. n : \A v \in V : op(v, seq[k]) \in V
  BY <1>3, SomeAndOneMore
<1> HIDE DEF F
<1>5. Steps(F, V, 1 .. n)
  BY <1>2, <1>4 DEF Steps
<1>6. \E it : it = [s \in SUBSET (1 .. n) |->
                     IF s = {} THEN base ELSE op(it[s \ {Max(s)}], seq[Max(s)])]
  <2>1. PICK it : LeftIteration(it, n, V, base, F)
    BY <1>0, <1>1, <1>5, LeftIterationExists
  <2>2. ASSUME NEW s \in SUBSET (1 .. n), s # {}
        PROVE  it[s] = op(it[s \ {Max(s)}], seq[Max(s)])
    <3>1. Max(s) \in 1 .. n /\ it[s \ {Max(s)}] \in V /\ it[s] = F[Max(s)][it[s \ {Max(s)}]]
      BY <2>1, <2>2 DEF LeftIteration
    <3> HIDE DEF V, op, seq
    <3> QED BY <1>2, <3>1
  <2>3. it \in [SUBSET (1 .. n) -> V] /\ it[{}] = base
    BY <2>1 DEF LeftIteration
  <2> HIDE DEF V, op, seq, base
  <2>4. it = [s \in SUBSET (1 .. n) |->
               IF s = {} THEN base ELSE op(it[s \ {Max(s)}], seq[Max(s)])]
    BY <2>2, <2>3
  <2> QED BY <2>4
<1>7. PICK it :
        /\ it = [s \in SUBSET (1 .. n) |->
                   IF s = {} THEN base ELSE op(it[s \ {Max(s)}], seq[Max(s)])]
        /\ Columns(node, trans, tags) = it[1 .. n]
  BY <1>6 DEF Columns, FoldLeft, MapThenFoldSet
<1>8. LeftFold(it, n, V, base, F)
  <2>1. it[{}] = base
    BY <1>7
  <2>2. ASSUME NEW s \in SUBSET (1 .. n), s # {}, it[s \ {Max(s)}] \in V
        PROVE  it[s] = F[Max(s)][it[s \ {Max(s)}]]
    <3>1. it[s] = op(it[s \ {Max(s)}], seq[Max(s)])
      BY <1>7, <2>2
    <3>2. Max(s) \in 1 .. n
      BY <1>0, <2>2, LargestOf
    <3> HIDE DEF V, op, seq
    <3> QED BY <1>2, <2>2, <3>1, <3>2
  <2> HIDE DEF V, base
  <2> QED BY <2>1, <2>2 DEF LeftFold
<1>9. PICK g : LeftRun(g, n, V, base, F) /\ g[n] = it[1 .. n]
  BY <1>0, <1>1, <1>5, <1>8, LeftRuns
<1>10. \A k \in 1 .. n : g[k - 1] \in V /\ g[k] = op(g[k - 1], k + 1)
  <2>1. ASSUME NEW k \in 1 .. n PROVE g[k - 1] \in V /\ g[k] = op(g[k - 1], k + 1)
    <3>1. k - 1 \in 0 .. n
      BY <1>0
    <3>2. g[k - 1] \in V /\ g[k] = F[k][g[k - 1]]
      BY <1>9, <3>1 DEF LeftRun
    <3> HIDE DEF V, op
    <3> QED BY <1>2, <1>3, <3>2
  <2> QED BY <2>1
<1> DEFINE S == {k \in Nat : AreColumns(g[k], k + 1, node, trans, tags)}
<1>11. 0 \in S
  <2>1. g[0] = base
    BY <1>9 DEF LeftRun
  <2> QED BY <2>1, FirstColumnIs
<1>12. ASSUME NEW k \in 0 .. n - 1, k \in S PROVE k + 1 \in S
  <2>1. k + 1 \in 1 .. n /\ (k + 1) - 1 = k /\ k + 1 \in 1 .. Len(node) - 1
    BY <1>0
  <2>2. g[k + 1] = op(g[k], (k + 1) + 1)
    BY <1>10, <2>1
  <2>3. AreColumns(g[k], k + 1, node, trans, tags)
    BY <1>12
  <2>4. AreColumns(op(g[k], (k + 1) + 1), (k + 1) + 1, node, trans, tags)
    BY <2>1, <2>3, OneMoreColumn
  <2> HIDE DEF op
  <2> QED BY <2>2, <2>4
<1>13. n \in S
  <2> HIDE DEF S, n
  <2>1. \A k \in 0 .. n : k \in S
    BY <1>0, <1>11, <1>12, UpTo
  <2> QED BY <1>0, <2>1
<1> QED BY <1>0, <1>7, <1>9, <1>13

-----------------------------------------------------------------------------
(* The path back through columns: each label is the one that was best      *)
(* before the next.  Of it, the part from word k + 1 on.                   *)
IsBack(path, k, cols, tags) ==
  /\ path \in Seq(tags) /\ Len(path) = Len(cols) - k
  /\ path[Len(cols) - k] = Best(Last(cols).score)
  /\ \A t \in k + 2 .. Len(cols) : path[t - k - 1] = cols[t].from[path[t - k]]

Linked(cols, tags) ==
  /\ cols \in Seq(Column(tags)) /\ Len(cols) >= 1
  /\ Best(Last(cols).score) \in tags
  /\ \A t \in 2 .. Len(cols) : cols[t].from \in [tags -> tags]

LEMMA OneWordBack ==
  ASSUME NEW tags, NEW cols, Linked(cols, tags), NEW k \in 1 .. Len(cols) - 1,
         NEW path, IsBack(path, k, cols, tags)
  PROVE  IsBack(<<cols[k + 1].from[Head(path)]>> \o path, k - 1, cols, tags)
<1> DEFINE n == Len(cols)
<1> DEFINE x == cols[k + 1].from[Head(path)]
<1> DEFINE new == <<x>> \o path
<1>0. n \in Nat /\ n >= 1 /\ k \in Nat /\ k >= 1 /\ k < n
  BY LenProperties DEF Linked
<1>1. path \in Seq(tags) /\ Len(path) = n - k /\ Head(path) = path[1] /\ path[1] \in tags
  BY <1>0, ElementOfSeq, HeadTailProperties, EmptySeq DEF IsBack
<1>2. x \in tags
  BY <1>0, <1>1 DEF Linked
<1> HIDE DEF x
<1>3. /\ new \in Seq(tags) /\ Len(new) = n - k + 1 /\ new[1] = x
      /\ \A i \in 1 .. n - k : new[i + 1] = path[i]
  <2>1. <<x>> \in Seq(tags) /\ Len(<<x>>) = 1
    BY <1>2
  <2>2. /\ new \in Seq(tags) /\ Len(new) = 1 + Len(path)
        /\ \A i \in 1 .. 1 + Len(path) : new[i] = IF i <= 1 THEN <<x>>[i] ELSE path[i - 1]
    BY <1>1, <2>1, ConcatProperties
  <2> HIDE DEF new, n
  <2>3. Len(new) = n - k + 1 /\ 1 \in 1 .. 1 + Len(path)
    BY <1>0, <1>1, <2>2
  <2>4. new[1] = x
    BY <2>2, <2>3
  <2>5. ASSUME NEW i \in 1 .. n - k PROVE new[i + 1] = path[i]
    <3>1. i + 1 \in 1 .. 1 + Len(path) /\ ~(i + 1 <= 1) /\ (i + 1) - 1 = i
      BY <1>0, <1>1
    <3> QED BY <2>2, <3>1
  <2> QED BY <2>2, <2>3, <2>4, <2>5
<1> HIDE DEF new
<1>4. new[n - (k - 1)] = Best(Last(cols).score)
  <2>1. n - k \in 1 .. n - k /\ n - (k - 1) = (n - k) + 1
    BY <1>0
  <2>2. path[n - k] = Best(Last(cols).score)
    BY DEF IsBack
  <2> QED BY <1>3, <2>1, <2>2
<1>5. ASSUME NEW t \in (k - 1) + 2 .. n
      PROVE  new[t - (k - 1) - 1] = cols[t].from[new[t - (k - 1)]]
  <2>1. CASE t = k + 1
    <3>1. t - (k - 1) - 1 = 1 /\ t - (k - 1) = 1 + 1 /\ 1 \in 1 .. n - k
      BY <1>0, <2>1
    <3>2. new[2] = path[1]
      BY <1>3, <3>1
    <3> QED BY <1>1, <1>3, <2>1, <3>1, <3>2 DEF x
  <2>2. CASE t # k + 1
    <3>1. /\ t \in k + 2 .. n
          /\ t - (k - 1) - 1 = (t - k - 1) + 1 /\ t - k - 1 \in 1 .. n - k
          /\ t - (k - 1) = (t - k) + 1 /\ t - k \in 1 .. n - k
      BY <1>0, <2>2
    <3>2. new[t - (k - 1) - 1] = path[t - k - 1] /\ new[t - (k - 1)] = path[t - k]
      BY <1>3, <3>1
    <3>3. path[t - k - 1] = cols[t].from[path[t - k]]
      BY <3>1 DEF IsBack
    <3> QED BY <3>2, <3>3
  <2> QED BY <2>1, <2>2
<1>6. Len(new) = n - (k - 1)
  BY <1>0, <1>3
<1>7. IsBack(new, k - 1, cols, tags)
  BY <1>3, <1>4, <1>5, <1>6 DEF IsBack
<1> QED BY <1>7 DEF new, x

(* Reading the columns from the last to the first gives a path back.       *)
LEMMA PathBackIs ==
  ASSUME NEW tags, NEW cols, Linked(cols, tags)
  PROVE  IsBack(PathBack(cols), 0, cols, tags)
<1> DEFINE n == Len(cols) - 1
<1> DEFINE op(col, path) == <<col.from[Head(path)]>> \o path
<1> DEFINE seq == Tail(cols)
<1> DEFINE base == <<Best(Last(cols).score)>>
<1> DEFINE V == Seq(tags) \ {<<>>}
<1> DEFINE F == [k \in 1 .. n |-> [v \in V |-> op(seq[k], v)]]
<1>0. n \in Nat /\ Len(cols) \in Nat /\ Len(cols) = n + 1 /\ cols # <<>>
  BY LenProperties, EmptySeq DEF Linked
<1>a. DOMAIN seq = 1 .. n /\ \A k \in 1 .. n : seq[k] = cols[k + 1]
  <2>1. Len(seq) = Len(cols) - 1 /\ seq \in Seq(Column(tags))
    BY <1>0, HeadTailProperties DEF Linked
  <2>2. \A k \in 1 .. n : seq[k] = cols[k + 1]
    BY <1>0, HeadTailProperties DEF Linked
  <2>3. DOMAIN seq = 1 .. n
    BY <1>0, <2>1, LenProperties
  <2> QED BY <2>2, <2>3
<1>1. base \in V
  BY DEF Linked
<1>2. \A k \in 1 .. n : \A v \in V : F[k][v] = op(seq[k], v)
  OBVIOUS
<1> HIDE DEF seq
<1>4. ASSUME NEW k \in 1 .. n, NEW v \in V PROVE op(seq[k], v) \in V
  <2>1. v \in Seq(tags) /\ Head(v) \in tags
    BY HeadTailProperties
  <2>2. seq[k].from \in [tags -> tags]
    BY <1>0, <1>a DEF Linked
  <2>3. seq[k].from[Head(v)] \in tags
    BY <2>1, <2>2
  <2> QED BY <2>1, <2>3, ConcatProperties
<1> HIDE DEF F
<1>5. Steps(F, V, 1 .. n)
  <2> HIDE DEF op, V
  <2> QED BY <1>2, <1>4 DEF Steps
<1>6. \E it : it = [s \in SUBSET (1 .. n) |->
                     IF s = {} THEN base ELSE op(seq[Min(s)], it[s \ {Min(s)}])]
  <2>1. PICK it : RightIteration(it, n, V, base, F)
    BY <1>0, <1>1, <1>5, RightIterationExists
  <2>2. ASSUME NEW s \in SUBSET (1 .. n), s # {}
        PROVE  it[s] = op(seq[Min(s)], it[s \ {Min(s)}])
    <3>1. Min(s) \in 1 .. n /\ it[s \ {Min(s)}] \in V /\ it[s] = F[Min(s)][it[s \ {Min(s)}]]
      BY <2>1, <2>2 DEF RightIteration
    <3> HIDE DEF V, op
    <3> QED BY <1>2, <3>1
  <2>3. it \in [SUBSET (1 .. n) -> V] /\ it[{}] = base
    BY <2>1 DEF RightIteration
  <2> HIDE DEF V, op, base
  <2>4. it = [s \in SUBSET (1 .. n) |->
               IF s = {} THEN base ELSE op(seq[Min(s)], it[s \ {Min(s)}])]
    BY <2>2, <2>3
  <2> QED BY <2>4
<1>7. PICK it :
        /\ it = [s \in SUBSET (1 .. n) |->
                   IF s = {} THEN base ELSE op(seq[Min(s)], it[s \ {Min(s)}])]
        /\ PathBack(cols) = it[1 .. n]
  <2>1. PathBack(cols) = FoldRight(op, seq, base)
    BY DEF PathBack, seq
  <2> QED BY <1>6, <1>a, <2>1 DEF FoldRight, MapThenFoldSet
<1>8. RightFold(it, n, V, base, F)
  <2>1. it[{}] = base
    BY <1>7
  <2>2. ASSUME NEW s \in SUBSET (1 .. n), s # {}, it[s \ {Min(s)}] \in V
        PROVE  it[s] = F[Min(s)][it[s \ {Min(s)}]]
    <3>1. it[s] = op(seq[Min(s)], it[s \ {Min(s)}])
      BY <1>7, <2>2
    <3>2. Min(s) \in 1 .. n
      BY <1>0, <2>2, SmallestOf
    <3> HIDE DEF V, op
    <3> QED BY <1>2, <2>2, <3>1, <3>2
  <2> HIDE DEF V, base
  <2> QED BY <2>1, <2>2 DEF RightFold
<1>9. PICK h : RightRun(h, n, V, base, F) /\ h[0] = it[1 .. n]
  BY <1>0, <1>1, <1>5, <1>8, RightRuns, ZenonT(60)
<1>10. ASSUME NEW k \in 1 .. n PROVE h[k - 1] = op(cols[k + 1], h[k])
  <2>1. h[k] \in V /\ h[k - 1] = F[k][h[k]]
    <3>1. k \in 0 .. n
      BY <1>0
    <3> HIDE DEF V, base, n
    <3> QED BY <1>9, <3>1 DEF RightRun
  <2> HIDE DEF V, op
  <2> QED BY <1>2, <1>a, <2>1
<1> DEFINE S == {k \in Nat : IsBack(h[k], k, cols, tags)}
<1>11. n \in S
  <2>1. h[n] = base
    BY <1>9 DEF RightRun
  <2>2. base \in Seq(tags) /\ Len(base) = 1 /\ base[1] = Best(Last(cols).score)
    BY DEF Linked
  <2>3. IsBack(base, n, cols, tags)
    BY <1>0, <2>2 DEF IsBack
  <2> QED BY <1>0, <2>1, <2>3
<1>12. ASSUME NEW k \in 1 .. n, k \in S PROVE k - 1 \in S
  <2>1. IsBack(h[k], k, cols, tags) /\ k \in 1 .. Len(cols) - 1 /\ k - 1 \in Nat
    BY <1>0, <1>12
  <2>2. IsBack(op(cols[k + 1], h[k]), k - 1, cols, tags)
    BY <2>1, OneWordBack
  <2> HIDE DEF op
  <2> QED BY <1>10, <2>1, <2>2
<1>13. 0 \in S
  <2> HIDE DEF S, n
  <2>1. \A k \in 0 .. n : k \in S
    BY <1>0, <1>11, <1>12, DownFrom
  <2> QED BY <1>0, <2>1
<1> QED BY <1>7, <1>9, <1>13

-----------------------------------------------------------------------------
(* What a path scores, word by word.                                       *)
StepScore(node, trans, path, t) ==
  node[t][path[t]] + (IF t = 1 THEN 0 ELSE trans[<<path[t - 1], path[t]>>])

ScoreRun(g, node, trans, path) ==
  /\ g \in [0 .. Len(node) -> Int] /\ g[0] = 0
  /\ \A t \in 1 .. Len(node) : g[t] = g[t - 1] + StepScore(node, trans, path, t)
  /\ g[Len(node)] = PathScore(node, trans, path)

LEMMA PathScoreRuns ==
  ASSUME NEW node, NEW trans, NEW tags, Chain(node, trans, tags),
         NEW path \in Paths(Len(node), tags)
  PROVE  \E g : ScoreRun(g, node, trans, path)
<1> DEFINE n == Len(node)
<1> DEFINE op(x, t) == x + node[t][path[t]]
                         + (IF t = 1 THEN 0 ELSE trans[<<path[t - 1], path[t]>>])
<1> DEFINE seq == [t \in DOMAIN path |-> t]
<1> DEFINE F == [k \in 1 .. n |-> [v \in Int |-> op(v, seq[k])]]
<1>0. n \in Nat /\ DOMAIN path = 1 .. n
  BY DEF Chain, Paths
<1>b. 0 \in Int
  OBVIOUS
<1>1. \A k \in 1 .. n : seq[k] = k
  BY <1>0
<1>2. \A k \in 1 .. n : \A v \in Int : F[k][v] = op(v, seq[k])
  OBVIOUS
<1>3. ASSUME NEW k \in 1 .. n, NEW v \in Int
      PROVE  op(v, seq[k]) \in Int /\ op(v, seq[k]) = v + StepScore(node, trans, path, k)
  <2>1. path[k] \in tags /\ (k # 1 => path[k - 1] \in tags)
    BY <1>0 DEF Paths
  <2>2. node[k][path[k]] \in Int /\ (k # 1 => trans[<<path[k - 1], path[k]>>] \in Int)
    BY <2>1 DEF Chain
  <2>3. op(v, seq[k]) = op(v, k)
    BY <1>1
  <2> QED BY <2>2, <2>3 DEF StepScore
<1>a. DOMAIN seq = 1 .. n
  BY <1>0
<1> HIDE DEF F, seq
<1>5. Steps(F, Int, 1 .. n)
  <2> HIDE DEF op
  <2> QED BY <1>2, <1>3 DEF Steps
<1>6. \E it : it = [s \in SUBSET (1 .. n) |->
                     IF s = {} THEN 0 ELSE op(it[s \ {Max(s)}], seq[Max(s)])]
  <2>1. PICK it : LeftIteration(it, n, Int, 0, F)
    BY <1>0, <1>b, <1>5, LeftIterationExists
  <2>2. ASSUME NEW s \in SUBSET (1 .. n), s # {}
        PROVE  it[s] = op(it[s \ {Max(s)}], seq[Max(s)])
    <3>1. Max(s) \in 1 .. n /\ it[s \ {Max(s)}] \in Int /\ it[s] = F[Max(s)][it[s \ {Max(s)}]]
      BY <2>1, <2>2 DEF LeftIteration
    <3> HIDE DEF op
    <3> QED BY <1>2, <3>1
  <2>3. it \in [SUBSET (1 .. n) -> Int] /\ it[{}] = 0
    BY <2>1 DEF LeftIteration
  <2> HIDE DEF op
  <2>4. it = [s \in SUBSET (1 .. n) |->
               IF s = {} THEN 0 ELSE op(it[s \ {Max(s)}], seq[Max(s)])]
    BY <2>2, <2>3
  <2> QED BY <2>4
<1>7. PICK it :
        /\ it = [s \in SUBSET (1 .. n) |->
                   IF s = {} THEN 0 ELSE op(it[s \ {Max(s)}], seq[Max(s)])]
        /\ PathScore(node, trans, path) = it[1 .. n]
  <2>1. PathScore(node, trans, path) = FoldLeft(op, 0, seq)
    BY DEF PathScore, FoldLeftDomain, seq
  <2> QED BY <1>6, <1>a, <2>1, ZenonT(60) DEF FoldLeft, MapThenFoldSet
<1>8. LeftFold(it, n, Int, 0, F)
  <2>1. it[{}] = 0
    BY <1>7
  <2>2. ASSUME NEW s \in SUBSET (1 .. n), s # {}, it[s \ {Max(s)}] \in Int
        PROVE  it[s] = F[Max(s)][it[s \ {Max(s)}]]
    <3>1. it[s] = op(it[s \ {Max(s)}], seq[Max(s)])
      BY <1>7, <2>2
    <3>2. Max(s) \in 1 .. n
      BY <1>0, <2>2, LargestOf
    <3> HIDE DEF op
    <3> QED BY <1>2, <2>2, <3>1, <3>2
  <2> QED BY <2>1, <2>2 DEF LeftFold
<1>9. PICK g : LeftRun(g, n, Int, 0, F) /\ g[n] = it[1 .. n]
  <2> DEFINE V == Int
  <2> DEFINE zero == 0
  <2>1. zero \in V /\ Steps(F, V, 1 .. n) /\ LeftFold(it, n, V, zero, F)
    BY <1>b, <1>5, <1>8
  <2> HIDE DEF n, op, V, zero
  <2>2. \E g : LeftRun(g, n, V, zero, F) /\ g[n] = it[1 .. n]
    BY <1>0, <2>1, LeftRuns
  <2> QED BY <2>2 DEF V, zero
<1>10. ASSUME NEW k \in 1 .. n PROVE g[k] = g[k - 1] + StepScore(node, trans, path, k)
  <2>1. k - 1 \in 0 .. n
    BY <1>0
  <2>2. g[k - 1] \in Int /\ g[k] = F[k][g[k - 1]]
    BY <1>9, <2>1 DEF LeftRun
  <2> HIDE DEF op
  <2> QED BY <1>2, <1>3, <2>2
<1>11. ScoreRun(g, node, trans, path)
  <2>1. g \in [0 .. n -> Int] /\ g[0] = 0 /\ g[n] = PathScore(node, trans, path)
    BY <1>7, <1>9 DEF LeftRun
  <2> QED BY <1>10, <2>1 DEF ScoreRun
<1> QED BY <1>11

-----------------------------------------------------------------------------
(* Every column has a whole score for every tag.                           *)
LEMMA ScoresAre ==
  ASSUME NEW node, NEW trans, NEW tags,
         NEW cols, AreColumns(cols, Len(node), node, trans, tags)
  PROVE  \A t \in 1 .. Len(node) : cols[t].score \in [tags -> Int]
<1>1. cols \in Seq(Column(tags)) /\ Len(cols) = Len(node)
  BY DEF AreColumns
<1>2. \A t \in 1 .. Len(node) : cols[t] \in Column(tags)
  BY <1>1, ElementOfSeq
<1>3. \A c \in Column(tags) : c.score \in [tags -> Int]
  BY DEF Column
<1> QED BY <1>2, <1>3

(* No path is better than what its columns say.                            *)
LEMMA NoPathIsBetter ==
  ASSUME NEW node, NEW trans, NEW tags, Chain(node, trans, tags),
         NEW cols, AreColumns(cols, Len(node), node, trans, tags),
         NEW path \in Paths(Len(node), tags)
  PROVE  PathScore(node, trans, path) <= cols[Len(node)].score[path[Len(node)]]
<1> DEFINE n == Len(node)
<1>0. n \in Nat /\ n >= 1
  BY DEF Chain
<1>1. PICK g : /\ g \in [0 .. n -> Int] /\ g[0] = 0
               /\ \A t \in 1 .. n : g[t] = g[t - 1] + StepScore(node, trans, path, t)
               /\ g[n] = PathScore(node, trans, path)
  <2>1. PICK g : ScoreRun(g, node, trans, path)
    BY PathScoreRuns
  <2> QED BY <2>1 DEF ScoreRun
<1>2. \A t \in 1 .. n : path[t] \in tags /\ cols[t].score \in [tags -> Int]
  BY ScoresAre DEF Paths
<1> DEFINE S == {k \in Nat : k + 1 <= n => g[k + 1] <= cols[k + 1].score[path[k + 1]]}
<1>3. 0 \in S
  <2>1. 1 \in 1 .. n /\ 1 - 1 = 0
    BY <1>0
  <2>2. g[1] = 0 + StepScore(node, trans, path, 1) /\ path[1] \in tags
    BY <1>1, <1>2, <2>1
  <2>3. node[1][path[1]] \in Int
    BY <2>1, <2>2 DEF Chain
  <2>4. g[1] = node[1][path[1]]
    BY <2>2, <2>3 DEF StepScore
  <2>5. cols[1].score[path[1]] = node[1][path[1]]
    BY <2>2 DEF AreColumns
  <2> QED BY <2>3, <2>4, <2>5
<1>4. ASSUME NEW k \in 0 .. n - 2, k \in S PROVE k + 1 \in S
  <2> DEFINE t == k + 2
  <2>1. t \in 2 .. n /\ t \in 1 .. n /\ t - 1 = k + 1 /\ k + 1 \in 1 .. n /\ (k + 1) + 1 = t
        /\ k + 1 \in 0 .. n /\ t # 1 /\ k + 1 <= n
    BY <1>0
  <2> HIDE DEF t
  <2>2. g[t] = g[k + 1] + StepScore(node, trans, path, t)
    BY <1>1, <2>1
  <2>3. g[k + 1] \in Int /\ g[k + 1] <= cols[k + 1].score[path[k + 1]]
    BY <1>1, <1>4, <2>1
  <2>4. path[t] \in tags /\ path[k + 1] \in tags /\ cols[k + 1].score[path[k + 1]] \in Int
        /\ cols[t].score[path[t]] \in Int
    BY <1>2, <2>1
  <2>5. node[t][path[t]] \in Int /\ trans[<<path[k + 1], path[t]>>] \in Int
    BY <2>1, <2>4 DEF Chain
  <2>6. StepScore(node, trans, path, t) = node[t][path[t]] + trans[<<path[k + 1], path[t]>>]
    BY <2>1 DEF StepScore
  <2>7. Follows(cols[t], cols[k + 1].score, node, trans, tags, t)
    BY <2>1 DEF AreColumns
  <2>8. cols[k + 1].score[path[k + 1]] + trans[<<path[k + 1], path[t]>>] + node[t][path[t]]
          <= cols[t].score[path[t]]
    BY <2>4, <2>7 DEF Follows
  <2>9. g[t] <= cols[t].score[path[t]]
    BY <2>2, <2>3, <2>4, <2>5, <2>6, <2>8, SMTT(30)
  <2> QED BY <2>1, <2>9
<1>5. n - 1 \in S
  <2> HIDE DEF S, n
  <2>1. \A k \in 0 .. n - 1 : k \in S
    <3>1. n - 1 \in Nat /\ (n - 1) - 1 = n - 2
      BY <1>0
    <3> QED BY <1>3, <1>4, <3>1, UpTo
  <2> QED BY <1>0, <2>1
<1> QED BY <1>0, <1>1, <1>5

(* The path back scores just that.                                         *)
LEMMA PathBackReaches ==
  ASSUME NEW node, NEW trans, NEW tags, Chain(node, trans, tags),
         NEW cols, AreColumns(cols, Len(node), node, trans, tags),
         NEW path \in Paths(Len(node), tags),
         \A t \in 2 .. Len(node) : path[t - 1] = cols[t].from[path[t]]
  PROVE  PathScore(node, trans, path) = cols[Len(node)].score[path[Len(node)]]
<1> DEFINE n == Len(node)
<1>0. n \in Nat /\ n >= 1
  BY DEF Chain
<1>1. PICK g : /\ g \in [0 .. n -> Int] /\ g[0] = 0
               /\ \A t \in 1 .. n : g[t] = g[t - 1] + StepScore(node, trans, path, t)
               /\ g[n] = PathScore(node, trans, path)
  <2>1. PICK g : ScoreRun(g, node, trans, path)
    BY PathScoreRuns
  <2> QED BY <2>1 DEF ScoreRun
<1>2. \A t \in 1 .. n : path[t] \in tags /\ cols[t].score \in [tags -> Int]
  BY ScoresAre DEF Paths
<1> DEFINE S == {k \in Nat : k + 1 <= n => g[k + 1] = cols[k + 1].score[path[k + 1]]}
<1>3. 0 \in S
  <2>1. 1 \in 1 .. n /\ 1 - 1 = 0
    BY <1>0
  <2>2. g[1] = 0 + StepScore(node, trans, path, 1) /\ path[1] \in tags
    BY <1>1, <1>2, <2>1
  <2>3. node[1][path[1]] \in Int
    BY <2>1, <2>2 DEF Chain
  <2>4. g[1] = node[1][path[1]]
    BY <2>2, <2>3 DEF StepScore
  <2>5. cols[1].score[path[1]] = node[1][path[1]]
    BY <2>2 DEF AreColumns
  <2> QED BY <2>3, <2>4, <2>5
<1>4. ASSUME NEW k \in 0 .. n - 2, k \in S PROVE k + 1 \in S
  <2> DEFINE t == k + 2
  <2>1. t \in 2 .. n /\ t \in 1 .. n /\ t - 1 = k + 1 /\ k + 1 \in 1 .. n /\ (k + 1) + 1 = t
        /\ k + 1 \in 0 .. n /\ t # 1 /\ k + 1 <= n
    BY <1>0
  <2> HIDE DEF t
  <2>2. g[t] = g[k + 1] + StepScore(node, trans, path, t)
    BY <1>1, <2>1
  <2>3. g[k + 1] \in Int /\ g[k + 1] = cols[k + 1].score[path[k + 1]]
    BY <1>1, <1>4, <2>1
  <2>4. path[t] \in tags /\ path[k + 1] \in tags
    BY <1>2, <2>1
  <2>5. node[t][path[t]] \in Int /\ trans[<<path[k + 1], path[t]>>] \in Int
    BY <2>1, <2>4 DEF Chain
  <2>6. StepScore(node, trans, path, t) = node[t][path[t]] + trans[<<path[k + 1], path[t]>>]
    BY <2>1 DEF StepScore
  <2>7. Follows(cols[t], cols[k + 1].score, node, trans, tags, t)
    BY <2>1 DEF AreColumns
  <2>8. cols[t].score[path[t]]
          = cols[k + 1].score[path[k + 1]] + trans[<<path[k + 1], path[t]>>] + node[t][path[t]]
    <3>1. path[k + 1] = cols[t].from[path[t]]
      BY <2>1
    <3> QED BY <2>4, <2>7, <3>1 DEF Follows
  <2>9. g[t] = cols[t].score[path[t]]
    BY <2>2, <2>3, <2>5, <2>6, <2>8
  <2> QED BY <2>1, <2>9
<1>5. n - 1 \in S
  <2> HIDE DEF S, n
  <2>1. \A k \in 0 .. n - 1 : k \in S
    <3>1. n - 1 \in Nat /\ (n - 1) - 1 = n - 2
      BY <1>0
    <3> QED BY <1>3, <1>4, <3>1, UpTo
  <2> QED BY <1>0, <2>1
<1> QED BY <1>0, <1>1, <1>5

(***************************************************************************)
(* Viterbi's algorithm finds a path than which none is better: whatever    *)
(* the weights, for any number of words and of labels, also when only some *)
(* labels are allowed (Viterbi1Best, ConstrainedViterbi1Best).             *)
(***************************************************************************)
THEOREM ViterbiIsBest ==
  ASSUME NEW node, NEW trans, NEW tags, Chain(node, trans, tags)
  PROVE  IsBest(Viterbi(node, trans, tags), node, trans, tags)
<1> DEFINE n == Len(node)
<1> DEFINE cols == Columns(node, trans, tags)
<1> DEFINE path == PathBack(cols)
<1>0. n \in Nat /\ n >= 1
  BY DEF Chain
<1>1. AreColumns(cols, n, node, trans, tags)
  BY ColumnsAre
<1>2. Viterbi(node, trans, tags) = path
  BY ViterbiParts
<1> HIDE DEF cols
<1>3. /\ cols \in Seq(Column(tags)) /\ Len(cols) = n
      /\ Last(cols) = cols[n] /\ cols[n].score \in [tags -> Int]
  <2>1. cols \in Seq(Column(tags)) /\ Len(cols) = n
    BY <1>1 DEF AreColumns
  <2>2. n \in 1 .. n /\ cols[n].score \in [tags -> Int]
    BY <1>0, <1>1, ScoresAre
  <2> QED BY <2>1, <2>2 DEF Last
<1>4. Best(cols[n].score) \in tags /\ \A j \in tags : cols[n].score[j] <= cols[n].score[Best(cols[n].score)]
  BY <1>3, BestOfChain
<1>5. Linked(cols, tags)
  BY <1>0, <1>1, <1>3, <1>4 DEF AreColumns, Linked, Follows
<1>6. IsBack(path, 0, cols, tags)
  BY <1>5, PathBackIs
<1> HIDE DEF path
<1>7. path \in Paths(n, tags)
  BY <1>0, <1>3, <1>6, LenProperties DEF IsBack, Paths
<1>8. path[n] = Best(cols[n].score) /\ \A t \in 2 .. n : path[t - 1] = cols[t].from[path[t]]
  BY <1>0, <1>3, <1>6 DEF IsBack
<1>9. PathScore(node, trans, path) = cols[n].score[path[n]]
  BY <1>1, <1>7, <1>8, PathBackReaches
<1>10. ASSUME NEW q \in Paths(n, tags)
       PROVE  PathScore(node, trans, q) <= PathScore(node, trans, path)
  <2>1. PathScore(node, trans, q) <= cols[n].score[q[n]] /\ q[n] \in tags
    BY <1>0, <1>1, NoPathIsBetter DEF Paths
  <2>2. cols[n].score[q[n]] <= cols[n].score[path[n]] /\ path[n] \in tags
    BY <1>4, <1>8, <2>1
  <2>3. PathScore(node, trans, q) \in Int
    <3>1. PICK g : ScoreRun(g, node, trans, q)
      BY PathScoreRuns
    <3> QED BY <1>0, <3>1 DEF ScoreRun
  <2> QED BY <1>3, <1>9, <2>1, <2>2, <2>3
<1> QED BY <1>2, <1>7, <1>10 DEF IsBest

-----------------------------------------------------------------------------
(***************************************************************************)
(* Whatever an update made of a weight, it has paid up afterwards, as long *)
(* as it had not paid more than it owes; and paying never turns the sign   *)
(* of a weight (CumulativeL1SGDLearner.cpp:22, called after each update of *)
(* a parameter and written out for the transitions in line 62).            *)
(***************************************************************************)
THEOREM PenaltyIsPaid ==
  ASSUME NEW weight \in Int, NEW paid \in Int, NEW owed \in Nat,
         paid \in -owed .. owed
  PROVE  LET r == ApplyPenalty(weight, paid, owed)
         IN  /\ r.weight \in Int
             /\ PaidUp(r.weight, r.paid, owed)
             /\ r.weight \in Smaller(0, weight) .. Larger(0, weight)
<1> DEFINE r == ApplyPenalty(weight, paid, owed)
<1>1. CASE weight > 0
  <2>1. r.weight = Larger(0, weight - (owed + paid)) /\ r.paid = paid + (r.weight - weight)
    BY <1>1 DEF ApplyPenalty
  <2>2. CASE weight > owed + paid
    BY <1>1, <2>1, <2>2 DEF Larger, Smaller, PaidUp
  <2>3. CASE ~(weight > owed + paid)
    BY <1>1, <2>1, <2>3 DEF Larger, Smaller, PaidUp
  <2> QED BY <2>2, <2>3
<1>2. CASE ~(weight > 0)
  <2>1. r.weight = Smaller(0, weight + (owed - paid)) /\ r.paid = paid + (r.weight - weight)
    BY <1>2 DEF ApplyPenalty
  <2>2. CASE weight + (owed - paid) < 0
    BY <1>2, <2>1, <2>2 DEF Larger, Smaller, PaidUp
  <2>3. CASE ~(weight + (owed - paid) < 0)
    BY <1>2, <2>1, <2>3 DEF Larger, Smaller, PaidUp
  <2> QED BY <2>2, <2>3
<1> QED BY <1>1, <1>2

-----------------------------------------------------------------------------
(***************************************************************************)
(* A model: features, each once; weights of parameters of these features   *)
(* and of labels there are; and a cache of all the transitions.            *)
(***************************************************************************)
Distinct(s) == \A j, k \in 1 .. Len(s) : s[j] = s[k] => j = k

Params(n, labels) == (1 .. n) \X (0 .. labels - 1)

(* Features of a file, in K, and transitions from one of b labels.          *)
FeaturesOf(K, b) == K \cup ({EdgeSet} \X (0 .. b - 1))

IsModel(m, K) ==
  /\ m = [features |-> m.features, weight |-> m.weight, max |-> m.max, trans |-> m.trans]
  /\ m.features \in Seq(FeaturesOf(K, m.max)) /\ Distinct(m.features)
  /\ m.max \in Nat \cup {-1}
  /\ m.weight \in [DOMAIN m.weight -> Int]
  /\ DOMAIN m.weight \subseteq Params(Len(m.features), m.max)
  /\ m.trans \in [LabelsOf(m) \X LabelsOf(m) -> Int]

(* Where f stands in s, or 0.                                              *)
IsFound(u, s, f) ==
  /\ u \in 0 .. Len(s)
  /\ u # 0 => s[u] = f
  /\ u = 0 => \A k \in 1 .. Len(s) : s[k] # f
  /\ Distinct(s) => \A k \in 1 .. Len(s) : s[k] = f => u = k

LEMMA FoundFeature ==
  ASSUME NEW m, NEW X, m.features \in Seq(X), NEW set, NEW id
  PROVE  IsFound(FindFeature(m, set, id), m.features, <<set, id>>)
<1> DEFINE n == Len(m.features)
<1> DEFINE I == {i \in 1 .. n : m.features[i] = <<set, id>>}
<1> DEFINE u == FindFeature(m, set, id)
<1>1. u = IF I # {} THEN Min(I) ELSE 0
  BY DEF FindFeature, SelectInSeq
<1>2. n \in Nat
  BY LenProperties
<1>a. I \in SUBSET (1 .. n) /\ I \in SUBSET Nat
  OBVIOUS
<1>3. I # {} => Min(I) \in I
  <2> HIDE DEF I
  <2> QED BY <1>a, SmallestOf
<1>4. u \in 0 .. n /\ (u # 0 => u \in I) /\ (u = 0 => I = {})
  <2> HIDE DEF n, u, I
  <2>1. CASE I = {}
    BY <1>1, <1>2, <2>1
  <2>2. CASE I # {}
    <3>1. u \in I
      BY <1>1, <1>3, <2>2
    <3>2. u \in 1 .. n
      BY <1>a, <3>1
    <3> QED BY <1>2, <2>2, <3>1, <3>2
  <2> QED BY <2>1, <2>2
<1> HIDE DEF u
<1>5. ASSUME Distinct(m.features), NEW k \in 1 .. n, m.features[k] = <<set, id>>
      PROVE  u = k
  <2>1. u \in I
    BY <1>4, <1>5
  <2> QED BY <1>5, <2>1 DEF Distinct
<1> QED BY <1>4, <1>5 DEF u, IsFound

(***************************************************************************)
(* A model that grows: labels of parameters are below b, which is not yet  *)
(* the number of labels.                                                   *)
(***************************************************************************)
Weights == UNION {[P -> Int] : P \in SUBSET (Nat \X Nat)}

Growing(K, max, trans, b) ==
  {x \in [features : Seq(FeaturesOf(K, b)), weight : Weights, max : {max}, trans : {trans}] :
     Distinct(x.features) /\ DOMAIN x.weight \subseteq Params(Len(x.features), b)}

(* x has what m had, where m had it, and feature f as well.                *)
Extends(x, m) ==
  /\ Len(m.features) <= Len(x.features)
  /\ \A k \in 1 .. Len(m.features) : x.features[k] = m.features[k]
  /\ \A p \in DOMAIN m.weight : p \in DOMAIN x.weight /\ x.weight[p] = m.weight[p]

Lists(m, f) == \E k \in 1 .. Len(m.features) : m.features[k] = f

LEMMA ExtendsMore ==
  ASSUME NEW X, NEW x, NEW y, NEW z, x.features \in Seq(X), y.features \in Seq(X), z.features \in Seq(X),
         Extends(y, x), Extends(z, y)
  PROVE  Extends(z, x) /\ \A f : Lists(y, f) => Lists(z, f)
<1>1. Len(x.features) \in Nat /\ Len(y.features) \in Nat /\ Len(z.features) \in Nat
  BY LenProperties
<1> QED BY <1>1 DEF Extends, Lists

(* Inserting a parameter adds it with the others as they were              *)
(* (SparseLinearModel: InsertParameter).                                   *)
LEMMA WeightsGrow ==
  ASSUME NEW w \in Weights, NEW p \in Nat \X Nat
  PROVE  /\ Inserted(w, p, 0) \in Weights
         /\ DOMAIN Inserted(w, p, 0) = DOMAIN w \cup {p}
         /\ \A q \in DOMAIN w : Inserted(w, p, 0)[q] = w[q]
<1>1. PICK P \in SUBSET (Nat \X Nat) : w \in [P -> Int]
  BY DEF Weights
<1> DEFINE v == Inserted(w, p, 0)
<1>2. v = [y \in P \cup {p} |-> IF y \in P THEN w[y] ELSE 0]
  BY <1>1 DEF Inserted
<1> HIDE DEF v
<1>3. P \cup {p} \in SUBSET (Nat \X Nat)
  BY <1>1
<1>4. v \in [P \cup {p} -> Int]
  BY <1>1, <1>2
<1>5. v \in Weights
  BY <1>3, <1>4 DEF Weights
<1> QED BY <1>1, <1>2, <1>5 DEF v

(* Appending something new keeps the elements of a sequence distinct.      *)
LEMMA AppendedDistinct ==
  ASSUME NEW X, NEW s \in Seq(X), Distinct(s), NEW f \in X, \A k \in 1 .. Len(s) : s[k] # f
  PROVE  /\ Append(s, f) \in Seq(X) /\ Distinct(Append(s, f))
         /\ Len(Append(s, f)) = Len(s) + 1 /\ Append(s, f)[Len(s) + 1] = f
         /\ \A k \in 1 .. Len(s) : Append(s, f)[k] = s[k]
<1> DEFINE t == Append(s, f)
<1> DEFINE n == Len(s)
<1>1. /\ n \in Nat /\ t \in Seq(X) /\ Len(t) = n + 1 /\ t[n + 1] = f
      /\ \A k \in 1 .. n : t[k] = s[k]
  BY LenProperties, AppendProperties
<1> HIDE DEF t, n
<1>2. \A k \in 1 .. n + 1 : k \in 1 .. n \/ k = n + 1
  BY <1>1
<1>3. \A j, k \in 1 .. n + 1 : t[j] = t[k] => j = k
  BY <1>1, <1>2 DEF Distinct, n
<1> QED BY <1>1, <1>3 DEF Distinct, t, n

(* Inserting a parameter lists its feature and keeps what the model has    *)
(* (SparseLinearModel: InsertParameter).                                   *)
LEMMA ParameterInserted ==
  ASSUME NEW K, NEW max, NEW trans, NEW b \in Nat, NEW x \in Growing(K, max, trans, b),
         NEW set, NEW id, <<set, id>> \in FeaturesOf(K, b), NEW label \in 0 .. b - 1
  PROVE  LET y == InsertParameter(x, set, id, label)
         IN  y \in Growing(K, max, trans, b) /\ Extends(y, x) /\ Lists(y, <<set, id>>)
<1> DEFINE y == InsertParameter(x, set, id, label)
<1> DEFINE u == FindFeature(x, set, id)
<1> DEFINE n == Len(x.features)
<1> DEFINE fs == IF u = 0 THEN Append(x.features, <<set, id>>) ELSE x.features
<1> DEFINE k == IF u = 0 THEN n + 1 ELSE u
<1> DEFINE w == Inserted(x.weight, <<k, label>>, 0)
<1>1. /\ DOMAIN x = {"features", "weight", "max", "trans"} /\ x.features \in Seq(FeaturesOf(K, b))
      /\ x.weight \in Weights /\ x.max = max /\ x.trans = trans
      /\ Distinct(x.features) /\ DOMAIN x.weight \subseteq Params(n, b)
      /\ x = [features |-> x.features, weight |-> x.weight, max |-> max, trans |-> trans]
  BY DEF Growing
<1>2. /\ n \in Nat /\ u \in 0 .. n /\ (u # 0 => x.features[u] = <<set, id>>)
      /\ u = 0 => \A i \in 1 .. n : x.features[i] # <<set, id>>
  <2> DEFINE X == FeaturesOf(K, b)
  <2>1. x.features \in Seq(X)
    BY <1>1
  <2> HIDE DEF X, u
  <2>2. IsFound(u, x.features, <<set, id>>) /\ n \in Nat
    BY <2>1, FoundFeature, LenProperties DEF u
  <2> QED BY <2>2 DEF IsFound
<1>3. <<set, id>> \in FeaturesOf(K, b)
  OBVIOUS
<1>4. Len(Append(x.features, <<set, id>>)) = n + 1
  BY <1>1, <1>3, AppendProperties
<1>5. y = [x EXCEPT !.features = fs, !.weight = w]
  <2>1. k = IF u = 0 THEN Len(fs) ELSE u
    BY <1>4
  <2> QED BY <2>1, Zenon DEF InsertParameter
<1> HIDE DEF y, u, n
<1>6. /\ fs \in Seq(FeaturesOf(K, b)) /\ Distinct(fs) /\ k \in 1 .. Len(fs) /\ fs[k] = <<set, id>>
      /\ n <= Len(fs) /\ \A i \in 1 .. n : fs[i] = x.features[i]
  <2>1. CASE u = 0
    <3>1. /\ Append(x.features, <<set, id>>) \in Seq(FeaturesOf(K, b)) /\ Distinct(Append(x.features, <<set, id>>))
          /\ Len(Append(x.features, <<set, id>>)) = n + 1 /\ Append(x.features, <<set, id>>)[n + 1] = <<set, id>>
          /\ \A i \in 1 .. n : Append(x.features, <<set, id>>)[i] = x.features[i]
      <4> DEFINE X == FeaturesOf(K, b)
      <4> DEFINE s == x.features
      <4> DEFINE f == <<set, id>>
      <4>1. s \in Seq(X) /\ Distinct(s) /\ f \in X /\ \A i \in 1 .. Len(s) : s[i] # f
        BY <1>1, <1>2, <1>3, <2>1 DEF n
      <4> HIDE DEF X, s, f
      <4>2. /\ Append(s, f) \in Seq(X) /\ Distinct(Append(s, f))
            /\ Len(Append(s, f)) = Len(s) + 1 /\ Append(s, f)[Len(s) + 1] = f
            /\ \A i \in 1 .. Len(s) : Append(s, f)[i] = s[i]
        BY <4>1, AppendedDistinct
      <4> QED BY <4>2 DEF X, s, f, n
    <3> QED BY <1>2, <2>1, <3>1
  <2>2. CASE u # 0
    BY <1>1, <1>2, <2>2 DEF n
  <2> QED BY <2>1, <2>2
<1>7. k \in Nat /\ label \in Nat /\ <<k, label>> \in Nat \X Nat /\ Len(fs) \in Nat
  BY <1>2, <1>6, LenProperties
<1>8. w \in Weights /\ DOMAIN w = DOMAIN x.weight \cup {<<k, label>>} /\ \A q \in DOMAIN x.weight : w[q] = x.weight[q]
  BY <1>1, <1>7, WeightsGrow
<1> HIDE DEF fs, k, w
<1>9. DOMAIN w \subseteq Params(Len(fs), b)
  <2>1. <<k, label>> \in Params(Len(fs), b)
    BY <1>6 DEF Params
  <2>2. Params(n, b) \subseteq Params(Len(fs), b)
    BY <1>2, <1>6, <1>7 DEF Params
  <2> QED BY <1>1, <1>8, <2>1, <2>2
<1>10. /\ y = [features |-> fs, weight |-> w, max |-> max, trans |-> trans]
       /\ y.features = fs /\ y.weight = w
  BY <1>1, <1>5
<1>11. y \in Growing(K, max, trans, b)
  BY <1>6, <1>8, <1>9, <1>10 DEF Growing
<1>12. Extends(y, x) /\ Lists(y, <<set, id>>)
  BY <1>6, <1>8, <1>10 DEF Extends, Lists, n
<1> QED BY <1>11, <1>12 DEF y

-----------------------------------------------------------------------------
(***************************************************************************)
(* What is read from a file: sentences of at least one word, with features *)
(* of sets and ids.                                                        *)
(***************************************************************************)
FeatureOf(f) == <<f[1], f[2]>>

FeatureLines(K) == {f \in Nat \X Nat \X Int : FeatureOf(f) \in K}
Words(K, b) == [label : 0 .. b - 1, features : Seq(FeatureLines(K))]
Sentences(K, b) == [words : Seq(Words(K, b)), tags : Seq(Nat)]

(* InsertWord, feature by feature.                                         *)
WordRun(g, K, max, trans, b, m, w) ==
  /\ g \in [0 .. Len(w.features) -> Growing(K, max, trans, b)] /\ g[0] = m
  /\ \A k \in 1 .. Len(w.features) : g[k] = InsertParameter(g[k - 1], w.features[k][1], w.features[k][2], w.label)
  /\ InsertWord(m, w) = g[Len(w.features)]

LEMMA WordRuns ==
  ASSUME NEW K, NEW max, NEW trans, NEW b \in Nat, NEW m \in Growing(K, max, trans, b), NEW w \in Words(K, b)
  PROVE  \E g : WordRun(g, K, max, trans, b, m, w)
<1> DEFINE n == Len(w.features)
<1> DEFINE op(r, x) == InsertParameter(r, x[1], x[2], w.label)
<1> DEFINE seq == [k \in 1 .. n |-> w.features[k]]
<1> DEFINE base == m
<1> DEFINE V == Growing(K, max, trans, b)
<1> DEFINE F == [k \in 1 .. n |-> [v \in V |-> op(v, seq[k])]]
<1>0. n \in Nat /\ DOMAIN w.features = 1 .. n /\ w.features = seq
  <2>1. w.features \in Seq(FeatureLines(K))
    BY DEF Words
  <2> QED BY <2>1, LenProperties
<1>1. base \in V
  OBVIOUS
<1>2. \A k \in 1 .. n : \A v \in V : F[k][v] = op(v, seq[k])
  OBVIOUS
<1>3. DOMAIN seq = 1 .. n /\ \A k \in 1 .. n : seq[k] = w.features[k]
  OBVIOUS
<1>4. InsertWord(m, w) = FoldLeft(op, base, seq)
  BY <1>0 DEF InsertWord
<1> HIDE DEF F, seq
<1>5. ASSUME NEW k \in 1 .. n, NEW v \in V PROVE op(v, seq[k]) \in V
  <2>1. seq[k] \in FeatureLines(K)
    BY <1>3, ElementOfSeq DEF Words
  <2>2. <<seq[k][1], seq[k][2]>> \in FeaturesOf(K, b) /\ w.label \in 0 .. b - 1
    BY <2>1 DEF FeatureLines, FeatureOf, FeaturesOf, Words
  <2> QED BY <2>2, ParameterInserted
<1>6. Steps(F, V, 1 .. n)
  <2> HIDE DEF op, V
  <2> QED BY <1>2, <1>5 DEF Steps
<1>7. \E it : it = [s \in SUBSET (1 .. n) |->
                     IF s = {} THEN base ELSE op(it[s \ {Max(s)}], seq[Max(s)])]
  <2>1. PICK it : LeftIteration(it, n, V, base, F)
    BY <1>0, <1>1, <1>6, LeftIterationExists
  <2>2. ASSUME NEW s \in SUBSET (1 .. n), s # {}
        PROVE  it[s] = op(it[s \ {Max(s)}], seq[Max(s)])
    <3>1. Max(s) \in 1 .. n /\ it[s \ {Max(s)}] \in V /\ it[s] = F[Max(s)][it[s \ {Max(s)}]]
      BY <2>1, <2>2 DEF LeftIteration
    <3> HIDE DEF V, op
    <3> QED BY <1>2, <3>1
  <2>3. it \in [SUBSET (1 .. n) -> V] /\ it[{}] = base
    BY <2>1 DEF LeftIteration
  <2> HIDE DEF V, op, base
  <2> QED BY <2>2, <2>3
<1>8. PICK it :
        /\ it = [s \in SUBSET (1 .. n) |->
                   IF s = {} THEN base ELSE op(it[s \ {Max(s)}], seq[Max(s)])]
        /\ InsertWord(m, w) = it[1 .. n]
  BY <1>3, <1>4, <1>7 DEF FoldLeft, MapThenFoldSet
<1>9. LeftFold(it, n, V, base, F)
  <2>1. it[{}] = base
    BY <1>8
  <2>2. ASSUME NEW s \in SUBSET (1 .. n), s # {}, it[s \ {Max(s)}] \in V
        PROVE  it[s] = F[Max(s)][it[s \ {Max(s)}]]
    <3>1. it[s] = op(it[s \ {Max(s)}], seq[Max(s)]) /\ Max(s) \in 1 .. n
      BY <1>0, <1>8, <2>2, LargestOf
    <3> HIDE DEF V, op
    <3> QED BY <1>2, <2>2, <3>1
  <2> HIDE DEF V, base
  <2> QED BY <2>1, <2>2 DEF LeftFold
<1>10. PICK g : LeftRun(g, n, V, base, F) /\ g[n] = it[1 .. n]
  <2> HIDE DEF n, op, V, base
  <2> QED BY <1>0, <1>1, <1>6, <1>9, LeftRuns
<1>11. ASSUME NEW k \in 1 .. n PROVE g[k] = op(g[k - 1], seq[k])
  <2>1. g[k] = F[k][g[k - 1]] /\ k - 1 \in 0 .. n /\ g \in [0 .. n -> V]
    BY <1>0, <1>10 DEF LeftRun
  <2> HIDE DEF n, V, op
  <2> QED BY <1>2, <2>1
<1>12. g \in [0 .. n -> V] /\ g[0] = base
  BY <1>10 DEF LeftRun
<1> QED BY <1>3, <1>8, <1>10, <1>11, <1>12 DEF WordRun

(* Every feature of the word is in the model then, and none was lost.      *)
ListsAll(m, features) == \A k \in 1 .. Len(features) : Lists(m, FeatureOf(features[k]))

Grown(y, x, K, max, trans, b) == y \in Growing(K, max, trans, b) /\ Extends(y, x)

LEMMA ExtendsItself ==
  ASSUME NEW x, NEW X, x.features \in Seq(X)
  PROVE  Extends(x, x)
<1>1. Len(x.features) \in Nat
  BY LenProperties
<1> QED BY <1>1 DEF Extends

(* What has grown twice has grown.                                         *)
LEMMA GrownMore ==
  ASSUME NEW K, NEW max, NEW trans, NEW b, NEW x \in Growing(K, max, trans, b), NEW y, NEW z,
         Grown(y, x, K, max, trans, b), Grown(z, y, K, max, trans, b)
  PROVE  /\ Grown(z, x, K, max, trans, b) /\ Grown(x, x, K, max, trans, b)
         /\ \A f : Lists(y, f) => Lists(z, f)
<1> DEFINE X == FeaturesOf(K, b)
<1>1. x.features \in Seq(X) /\ y.features \in Seq(X) /\ z.features \in Seq(X)
  BY DEF Grown, Growing
<1> HIDE DEF X
<1> QED BY <1>1, ExtendsItself, ExtendsMore DEF Grown

(* Inserting a word lists all of its features.                             *)
LEMMA WordInserted ==
  ASSUME NEW K, NEW max, NEW trans, NEW b \in Nat, NEW m \in Growing(K, max, trans, b), NEW w \in Words(K, b)
  PROVE  /\ Grown(InsertWord(m, w), m, K, max, trans, b)
         /\ ListsAll(InsertWord(m, w), w.features)
<1> DEFINE n == Len(w.features)
<1>0. n \in Nat /\ \A k \in 1 .. n : w.features[k] \in FeatureLines(K)
  BY LenProperties, ElementOfSeq DEF Words
<1>1. PICK g : WordRun(g, K, max, trans, b, m, w)
  BY WordRuns
<1>2. /\ g \in [0 .. n -> Growing(K, max, trans, b)] /\ g[0] = m /\ InsertWord(m, w) = g[n]
      /\ \A k \in 1 .. n : g[k] = InsertParameter(g[k - 1], w.features[k][1], w.features[k][2], w.label)
  BY <1>1 DEF WordRun
<1> DEFINE S == {k \in 0 .. n : /\ Grown(g[k], m, K, max, trans, b)
                               /\ \A i \in 1 .. k : Lists(g[k], FeatureOf(w.features[i]))}
<1>3. 0 \in S
  <2>1. Grown(g[0], m, K, max, trans, b)
    <3> DEFINE X == FeaturesOf(K, b)
    <3>1. m.features \in Seq(X)
      BY DEF Growing
    <3> HIDE DEF X
    <3> QED BY <1>2, <3>1, ExtendsItself DEF Grown
  <2> QED BY <1>0, <2>1
<1>4. ASSUME NEW k \in 0 .. n - 1, k \in S PROVE k + 1 \in S
  <2>1. k + 1 \in 1 .. n /\ (k + 1) - 1 = k /\ k \in 0 .. n /\ k + 1 \in 0 .. n
    BY <1>0
  <2> DEFINE f == w.features[k + 1]
  <2>2. <<f[1], f[2]>> \in FeaturesOf(K, b) /\ w.label \in 0 .. b - 1 /\ g[k] \in Growing(K, max, trans, b)
    BY <1>0, <1>2, <2>1 DEF FeatureLines, FeatureOf, FeaturesOf, Words
  <2>3. g[k + 1] = InsertParameter(g[k], f[1], f[2], w.label)
    BY <1>2, <2>1
  <2> HIDE DEF f
  <2>4. Grown(g[k + 1], g[k], K, max, trans, b) /\ Lists(g[k + 1], FeatureOf(f))
    BY <2>2, <2>3, ParameterInserted DEF Grown, FeatureOf
  <2>5. /\ Grown(g[k], m, K, max, trans, b)
        /\ \A i \in 1 .. k : Lists(g[k], FeatureOf(w.features[i]))
    BY <1>4
  <2>6. Grown(g[k + 1], m, K, max, trans, b) /\ \A h : Lists(g[k], h) => Lists(g[k + 1], h)
    BY <2>4, <2>5, GrownMore
  <2>7. ASSUME NEW i \in 1 .. k + 1 PROVE Lists(g[k + 1], FeatureOf(w.features[i]))
    <3>1. i \in 1 .. k \/ i = k + 1
      BY <2>1
    <3> QED BY <2>4, <2>5, <2>6, <3>1 DEF f
  <2> QED BY <2>1, <2>6, <2>7
<1>5. n \in S
  <2> HIDE DEF S, n
  <2>1. \A k \in 0 .. n : k \in S
    BY <1>0, <1>3, <1>4, UpTo
  <2> QED BY <1>0, <2>1
<1> QED BY <1>2, <1>5 DEF ListsAll

(* A word of a sentence and the transition to it.                          *)
InsertWordAt(x, s, t) ==
  IF t = 1 THEN InsertWord(x, s.words[t])
  ELSE InsertParameter(InsertWord(x, s.words[t]), EdgeSet, s.words[t - 1].label, s.words[t].label)

LEMMA WordAtInserted ==
  ASSUME NEW K, NEW max, NEW trans, NEW b \in Nat, NEW m \in Growing(K, max, trans, b),
         NEW s \in Sentences(K, b), NEW t \in 1 .. Len(s.words)
  PROVE  /\ Grown(InsertWordAt(m, s, t), m, K, max, trans, b)
         /\ ListsAll(InsertWordAt(m, s, t), s.words[t].features)
<1> DEFINE n == Len(s.words)
<1>0. n \in Nat /\ \A k \in 1 .. n : s.words[k] \in Words(K, b)
  BY LenProperties, ElementOfSeq DEF Sentences
<1> DEFINE x == InsertWord(m, s.words[t])
<1> DEFINE y == InsertWordAt(m, s, t)
<1>1. Grown(x, m, K, max, trans, b) /\ ListsAll(x, s.words[t].features)
  BY <1>0, WordInserted
<1>2. CASE t = 1
  BY <1>1, <1>2 DEF InsertWordAt
<1>3. CASE t # 1
  <2>1. t - 1 \in 1 .. n
    BY <1>0, <1>3
  <2>2. s.words[t].label \in 0 .. b - 1 /\ <<EdgeSet, s.words[t - 1].label>> \in FeaturesOf(K, b)
    BY <1>0, <2>1 DEF Words, FeaturesOf
  <2>3. y = InsertParameter(x, EdgeSet, s.words[t - 1].label, s.words[t].label)
    BY <1>3 DEF InsertWordAt
  <2> HIDE DEF x, y
  <2>4. Grown(y, x, K, max, trans, b)
    BY <1>1, <2>2, <2>3, ParameterInserted DEF Grown
  <2>5. Grown(y, m, K, max, trans, b) /\ \A f : Lists(x, f) => Lists(y, f)
    BY <1>1, <2>4, GrownMore
  <2> QED BY <1>1, <2>5 DEF ListsAll, y
<1> QED BY <1>2, <1>3

(* InsertSentence, word by word.                                           *)
SentenceRun(g, K, max, trans, b, m, s) ==
  /\ g \in [0 .. Len(s.words) -> Growing(K, max, trans, b)] /\ g[0] = m
  /\ \A k \in 1 .. Len(s.words) : g[k] = InsertWordAt(g[k - 1], s, k)
  /\ InsertSentence(m, s) = g[Len(s.words)]

LEMMA SentenceRuns ==
  ASSUME NEW K, NEW max, NEW trans, NEW b \in Nat, NEW m \in Growing(K, max, trans, b), NEW s \in Sentences(K, b)
  PROVE  \E g : SentenceRun(g, K, max, trans, b, m, s)
<1> DEFINE n == Len(s.words)
<1> DEFINE op(r, x) == InsertWordAt(r, s, x)
<1> DEFINE seq == [k \in 1 .. n |-> k]
<1> DEFINE base == m
<1> DEFINE V == Growing(K, max, trans, b)
<1> DEFINE F == [k \in 1 .. n |-> [v \in V |-> op(v, seq[k])]]
<1>0. n \in Nat /\ DOMAIN s.words = 1 .. n
  BY LenProperties DEF Sentences
<1>1. base \in V
  OBVIOUS
<1>2. \A k \in 1 .. n : \A v \in V : F[k][v] = op(v, seq[k])
  OBVIOUS
<1>3. DOMAIN seq = 1 .. n /\ \A k \in 1 .. n : seq[k] = k
  OBVIOUS
<1>4. InsertSentence(m, s) = FoldLeft(op, base, seq)
  BY <1>0, Zenon DEF InsertSentence, FoldLeftDomain, InsertWordAt
<1> HIDE DEF F, seq
<1>5. ASSUME NEW k \in 1 .. n, NEW v \in V PROVE op(v, seq[k]) \in V
  <2>1. k \in 1 .. n
    OBVIOUS
  <2> QED BY <1>3, <2>1, WordAtInserted DEF Grown
<1>6. Steps(F, V, 1 .. n)
  <2> HIDE DEF op, V
  <2> QED BY <1>2, <1>5 DEF Steps
<1>7. \E it : it = [z \in SUBSET (1 .. n) |->
                     IF z = {} THEN base ELSE op(it[z \ {Max(z)}], seq[Max(z)])]
  <2>1. PICK it : LeftIteration(it, n, V, base, F)
    BY <1>0, <1>1, <1>6, LeftIterationExists
  <2>2. ASSUME NEW z \in SUBSET (1 .. n), z # {}
        PROVE  it[z] = op(it[z \ {Max(z)}], seq[Max(z)])
    <3>1. Max(z) \in 1 .. n /\ it[z \ {Max(z)}] \in V /\ it[z] = F[Max(z)][it[z \ {Max(z)}]]
      BY <2>1, <2>2 DEF LeftIteration
    <3> HIDE DEF V, op
    <3> QED BY <1>2, <3>1
  <2>3. it \in [SUBSET (1 .. n) -> V] /\ it[{}] = base
    BY <2>1 DEF LeftIteration
  <2> HIDE DEF V, op, base
  <2> QED BY <2>2, <2>3
<1>8. PICK it :
        /\ it = [z \in SUBSET (1 .. n) |->
                   IF z = {} THEN base ELSE op(it[z \ {Max(z)}], seq[Max(z)])]
        /\ InsertSentence(m, s) = it[1 .. n]
  BY <1>3, <1>4, <1>7 DEF FoldLeft, MapThenFoldSet
<1>9. LeftFold(it, n, V, base, F)
  <2>1. it[{}] = base
    BY <1>8
  <2>2. ASSUME NEW z \in SUBSET (1 .. n), z # {}, it[z \ {Max(z)}] \in V
        PROVE  it[z] = F[Max(z)][it[z \ {Max(z)}]]
    <3>1. it[z] = op(it[z \ {Max(z)}], seq[Max(z)]) /\ Max(z) \in 1 .. n
      BY <1>0, <1>8, <2>2, LargestOf
    <3> HIDE DEF V, op
    <3> QED BY <1>2, <2>2, <3>1
  <2> HIDE DEF V, base
  <2> QED BY <2>1, <2>2 DEF LeftFold
<1>10. PICK g : LeftRun(g, n, V, base, F) /\ g[n] = it[1 .. n]
  <2> HIDE DEF n, op, V, base
  <2> QED BY <1>0, <1>1, <1>6, <1>9, LeftRuns
<1>11. ASSUME NEW k \in 1 .. n PROVE g[k] = op(g[k - 1], seq[k])
  <2>1. g[k] = F[k][g[k - 1]] /\ k - 1 \in 0 .. n /\ g \in [0 .. n -> V]
    BY <1>0, <1>10 DEF LeftRun
  <2> HIDE DEF n, V, op
  <2> QED BY <1>2, <2>1
<1>12. g \in [0 .. n -> V] /\ g[0] = base
  BY <1>10 DEF LeftRun
<1> QED BY <1>3, <1>8, <1>10, <1>11, <1>12 DEF SentenceRun

(* Every feature of every word of the sentence is in the model then.       *)
ListsWords(m, s) == \A t \in 1 .. Len(s.words) : ListsAll(m, s.words[t].features)

LEMMA SentenceInserted ==
  ASSUME NEW K, NEW max, NEW trans, NEW b \in Nat, NEW m \in Growing(K, max, trans, b), NEW s \in Sentences(K, b)
  PROVE  /\ Grown(InsertSentence(m, s), m, K, max, trans, b)
         /\ ListsWords(InsertSentence(m, s), s)
<1> DEFINE n == Len(s.words)
<1>0. n \in Nat
  BY LenProperties DEF Sentences
<1>1. PICK g : SentenceRun(g, K, max, trans, b, m, s)
  BY SentenceRuns
<1>2. /\ g \in [0 .. n -> Growing(K, max, trans, b)] /\ g[0] = m /\ InsertSentence(m, s) = g[n]
      /\ \A k \in 1 .. n : g[k] = InsertWordAt(g[k - 1], s, k)
  BY <1>1 DEF SentenceRun
<1> DEFINE S == {k \in 0 .. n : /\ Grown(g[k], m, K, max, trans, b)
                               /\ \A t \in 1 .. k : ListsAll(g[k], s.words[t].features)}
<1>3. 0 \in S
  <2>1. Grown(g[0], m, K, max, trans, b)
    <3> DEFINE X == FeaturesOf(K, b)
    <3>1. m.features \in Seq(X)
      BY DEF Growing
    <3> HIDE DEF X
    <3> QED BY <1>2, <3>1, ExtendsItself DEF Grown
  <2> QED BY <1>0, <2>1
<1>4. ASSUME NEW k \in 0 .. n - 1, k \in S PROVE k + 1 \in S
  <2>1. k + 1 \in 1 .. n /\ (k + 1) - 1 = k /\ k \in 0 .. n /\ k + 1 \in 0 .. n
    BY <1>0
  <2>2. g[k] \in Growing(K, max, trans, b) /\ g[k + 1] = InsertWordAt(g[k], s, k + 1)
    BY <1>2, <2>1
  <2>4. Grown(g[k + 1], g[k], K, max, trans, b) /\ ListsAll(g[k + 1], s.words[k + 1].features)
    BY <2>1, <2>2, WordAtInserted
  <2>5. /\ Grown(g[k], m, K, max, trans, b)
        /\ \A t \in 1 .. k : ListsAll(g[k], s.words[t].features)
    BY <1>4
  <2>6. Grown(g[k + 1], m, K, max, trans, b) /\ \A h : Lists(g[k], h) => Lists(g[k + 1], h)
    BY <2>4, <2>5, GrownMore
  <2>7. ASSUME NEW t \in 1 .. k + 1 PROVE ListsAll(g[k + 1], s.words[t].features)
    <3>1. t \in 1 .. k \/ t = k + 1
      BY <2>1
    <3> QED BY <2>4, <2>5, <2>6, <3>1 DEF ListsAll
  <2> QED BY <2>1, <2>6, <2>7
<1>5. n \in S
  <2> HIDE DEF S, n
  <2>1. \A k \in 0 .. n : k \in S
    BY <1>0, <1>3, <1>4, UpTo
  <2> QED BY <1>0, <2>1
<1> QED BY <1>2, <1>5 DEF ListsWords

(* The sentences of a chunk.                                               *)
DataRun(g, K, max, trans, b, m, data) ==
  /\ g \in [0 .. Len(data) -> Growing(K, max, trans, b)] /\ g[0] = m
  /\ \A k \in 1 .. Len(data) : g[k] = InsertSentence(g[k - 1], data[k])
  /\ FoldLeft(InsertSentence, m, data) = g[Len(data)]

LEMMA DataRuns ==
  ASSUME NEW K, NEW max, NEW trans, NEW b \in Nat, NEW m \in Growing(K, max, trans, b), NEW data \in Seq(Sentences(K, b))
  PROVE  \E g : DataRun(g, K, max, trans, b, m, data)
<1> DEFINE n == Len(data)
<1> DEFINE op(r, x) == InsertSentence(r, x)
<1> DEFINE seq == [k \in 1 .. n |-> data[k]]
<1> DEFINE base == m
<1> DEFINE V == Growing(K, max, trans, b)
<1> DEFINE F == [k \in 1 .. n |-> [v \in V |-> op(v, seq[k])]]
<1>0. n \in Nat /\ DOMAIN data = 1 .. n /\ data = seq
  BY LenProperties
<1>1. base \in V
  OBVIOUS
<1>2. \A k \in 1 .. n : \A v \in V : F[k][v] = op(v, seq[k])
  OBVIOUS
<1>3. DOMAIN seq = 1 .. n /\ \A k \in 1 .. n : seq[k] = data[k]
  OBVIOUS
<1>4. FoldLeft(InsertSentence, m, data) = FoldLeft(op, base, seq)
  <2>1. FoldLeft(InsertSentence, m, seq) = FoldLeft(op, base, seq)
    BY DEF FoldLeft, MapThenFoldSet
  <2> QED BY <1>0, <2>1
<1> HIDE DEF F, seq
<1>5. ASSUME NEW k \in 1 .. n, NEW v \in V PROVE op(v, seq[k]) \in V
  <2>1. seq[k] \in Sentences(K, b)
    BY <1>3, ElementOfSeq
  <2> QED BY <2>1, SentenceInserted DEF Grown
<1>6. Steps(F, V, 1 .. n)
  <2> HIDE DEF op, V
  <2> QED BY <1>2, <1>5 DEF Steps
<1>7. \E it : it = [s \in SUBSET (1 .. n) |->
                     IF s = {} THEN base ELSE op(it[s \ {Max(s)}], seq[Max(s)])]
  <2>1. PICK it : LeftIteration(it, n, V, base, F)
    BY <1>0, <1>1, <1>6, LeftIterationExists
  <2>2. ASSUME NEW s \in SUBSET (1 .. n), s # {}
        PROVE  it[s] = op(it[s \ {Max(s)}], seq[Max(s)])
    <3>1. Max(s) \in 1 .. n /\ it[s \ {Max(s)}] \in V /\ it[s] = F[Max(s)][it[s \ {Max(s)}]]
      BY <2>1, <2>2 DEF LeftIteration
    <3> HIDE DEF V, op
    <3> QED BY <1>2, <3>1
  <2>3. it \in [SUBSET (1 .. n) -> V] /\ it[{}] = base
    BY <2>1 DEF LeftIteration
  <2> HIDE DEF V, op, base
  <2> QED BY <2>2, <2>3
<1>8. PICK it :
        /\ it = [s \in SUBSET (1 .. n) |->
                   IF s = {} THEN base ELSE op(it[s \ {Max(s)}], seq[Max(s)])]
        /\ FoldLeft(InsertSentence, m, data) = it[1 .. n]
  BY <1>3, <1>4, <1>7 DEF FoldLeft, MapThenFoldSet
<1>9. LeftFold(it, n, V, base, F)
  <2>1. it[{}] = base
    BY <1>8
  <2>2. ASSUME NEW s \in SUBSET (1 .. n), s # {}, it[s \ {Max(s)}] \in V
        PROVE  it[s] = F[Max(s)][it[s \ {Max(s)}]]
    <3>1. it[s] = op(it[s \ {Max(s)}], seq[Max(s)]) /\ Max(s) \in 1 .. n
      BY <1>0, <1>8, <2>2, LargestOf
    <3> HIDE DEF V, op
    <3> QED BY <1>2, <2>2, <3>1
  <2> HIDE DEF V, base
  <2> QED BY <2>1, <2>2 DEF LeftFold
<1>10. PICK g : LeftRun(g, n, V, base, F) /\ g[n] = it[1 .. n]
  <2> HIDE DEF n, op, V, base
  <2> QED BY <1>0, <1>1, <1>6, <1>9, LeftRuns
<1>11. ASSUME NEW k \in 1 .. n PROVE g[k] = op(g[k - 1], seq[k])
  <2>1. g[k] = F[k][g[k - 1]] /\ k - 1 \in 0 .. n /\ g \in [0 .. n -> V]
    BY <1>0, <1>10 DEF LeftRun
  <2> HIDE DEF n, V, op
  <2> QED BY <1>2, <2>1
<1>12. g \in [0 .. n -> V] /\ g[0] = base
  BY <1>10 DEF LeftRun
<1> QED BY <1>3, <1>8, <1>10, <1>11, <1>12 DEF DataRun

(* Inserting data lists the features of all its words (SparseLinearModel:  *)
(* Expand).                                                                *)
LEMMA DataInserted ==
  ASSUME NEW K, NEW max, NEW trans, NEW b \in Nat, NEW m \in Growing(K, max, trans, b),
         NEW data \in Seq(Sentences(K, b))
  PROVE  /\ Grown(FoldLeft(InsertSentence, m, data), m, K, max, trans, b)
         /\ \A k \in 1 .. Len(data) : ListsWords(FoldLeft(InsertSentence, m, data), data[k])
<1> DEFINE n == Len(data)
<1>0. n \in Nat /\ \A k \in 1 .. n : data[k] \in Sentences(K, b)
  BY LenProperties, ElementOfSeq
<1>1. PICK g : DataRun(g, K, max, trans, b, m, data)
  BY DataRuns
<1>2. /\ g \in [0 .. n -> Growing(K, max, trans, b)] /\ g[0] = m
      /\ FoldLeft(InsertSentence, m, data) = g[n]
      /\ \A k \in 1 .. n : g[k] = InsertSentence(g[k - 1], data[k])
  BY <1>1 DEF DataRun
<1> DEFINE S == {k \in 0 .. n : /\ Grown(g[k], m, K, max, trans, b)
                               /\ \A t \in 1 .. k : ListsWords(g[k], data[t])}
<1>3. 0 \in S
  <2>1. Grown(g[0], m, K, max, trans, b)
    <3> DEFINE X == FeaturesOf(K, b)
    <3>1. m.features \in Seq(X)
      BY DEF Growing
    <3> HIDE DEF X
    <3> QED BY <1>2, <3>1, ExtendsItself DEF Grown
  <2> QED BY <1>0, <2>1
<1>4. ASSUME NEW k \in 0 .. n - 1, k \in S PROVE k + 1 \in S
  <2>1. k + 1 \in 1 .. n /\ (k + 1) - 1 = k /\ k \in 0 .. n /\ k + 1 \in 0 .. n
    BY <1>0
  <2>2. g[k] \in Growing(K, max, trans, b) /\ g[k + 1] = InsertSentence(g[k], data[k + 1])
    BY <1>2, <2>1
  <2>4. Grown(g[k + 1], g[k], K, max, trans, b) /\ ListsWords(g[k + 1], data[k + 1])
    BY <1>0, <2>1, <2>2, SentenceInserted
  <2>5. /\ Grown(g[k], m, K, max, trans, b)
        /\ \A t \in 1 .. k : ListsWords(g[k], data[t])
    BY <1>4
  <2>6. Grown(g[k + 1], m, K, max, trans, b) /\ \A h : Lists(g[k], h) => Lists(g[k + 1], h)
    BY <2>4, <2>5, GrownMore
  <2>7. ASSUME NEW t \in 1 .. k + 1 PROVE ListsWords(g[k + 1], data[t])
    <3>1. t \in 1 .. k \/ t = k + 1
      BY <2>1
    <3> QED BY <2>4, <2>5, <2>6, <3>1 DEF ListsWords, ListsAll
  <2> QED BY <2>1, <2>6, <2>7
<1>5. n \in S
  <2> HIDE DEF S, n
  <2>1. \A k \in 0 .. n : k \in S
    BY <1>0, <1>3, <1>4, UpTo
  <2> QED BY <1>0, <2>1
<1> QED BY <1>2, <1>5

-----------------------------------------------------------------------------
(* A set of whole numbers between two bounds has a largest element.        *)
LEMMA LargestOfInts ==
  ASSUME NEW a \in Int, NEW b \in Int, NEW s \in SUBSET (a .. b), s # {}
  PROVE  Max(s) \in s /\ \A y \in s : y <= Max(s)
<1> DEFINE T == {b - x : x \in s}
<1>1. T \in SUBSET Nat /\ T # {}
  <2>1. PICK x : x \in s
    OBVIOUS
  <2>2. b - x \in T
    BY <2>1
  <2>3. \A y \in s : b - y \in Nat
    OBVIOUS
  <2> QED BY <2>2, <2>3
<1> HIDE DEF T
<1>2. Min(T) \in T /\ \A y \in T : Min(T) <= y
  BY <1>1, SmallestOf
<1>3. PICK x \in s : Min(T) = b - x
  BY <1>2 DEF T
<1>4. \A y \in s : y <= x
  <2>1. ASSUME NEW y \in s PROVE y <= x
    <3>1. b - y \in T
      BY DEF T
    <3>2. b - x <= b - y /\ x \in Int /\ y \in Int
      BY <1>2, <1>3, <3>1
    <3> QED BY <3>2
  <2> QED BY <2>1
<1>5. \A y \in s : x >= y
  BY <1>4
<1>6. Max(s) \in s /\ \A y \in s : Max(s) >= y
  BY <1>5 DEF Max
<1>7. \A y \in s : y <= Max(s)
  <2> DEFINE M == Max(s)
  <2>0. \A y \in s : y \in Int
    OBVIOUS
  <2>a. M \in s /\ \A y \in s : M >= y
    BY <1>6
  <2> HIDE DEF M
  <2>1. M \in Int /\ \A y \in s : y \in Int /\ M >= y
    BY <2>0, <2>a
  <2> QED BY <2>1 DEF M
<1> QED BY <1>6, <1>7

(* One more than the largest label.                                        *)
LEMMA LabelsCounted ==
  ASSUME NEW K, NEW B \in Nat, NEW data \in Seq(Sentences(K, B)), NEW top \in Nat \cup {-1}
  PROVE  /\ Max({top} \cup LabelsIn(data)) + 1 \in Nat
         /\ Max({top} \cup LabelsIn(data)) + 1 > top
         /\ data \in Seq(Sentences(K, Max({top} \cup LabelsIn(data)) + 1))
<1> DEFINE s == {top} \cup LabelsIn(data)
<1> DEFINE b == Max(s) + 1
<1> DEFINE n == Len(data)
<1>0. n \in Nat /\ DOMAIN data = 1 .. n /\ \A k \in 1 .. n : data[k] \in Sentences(K, B)
  BY LenProperties, ElementOfSeq
<1>1. \A k \in 1 .. n : \A t \in 1 .. Len(data[k].words) :
        data[k].words[t].label \in LabelsIn(data)
  <2>1. ASSUME NEW k \in 1 .. n, NEW t \in 1 .. Len(data[k].words)
        PROVE  data[k].words[t].label \in LabelsIn(data)
    <3>1. data[k].words \in Seq(Words(K, B))
      BY <1>0 DEF Sentences
    <3>2. data[k].words[t] \in ToSet(data[k].words) /\ data[k] \in ToSet(data)
      BY <1>0, <3>1, LenProperties DEF ToSet
    <3> QED BY <3>2 DEF LabelsIn
  <2> QED BY <2>1
<1>2. LabelsIn(data) \subseteq 0 .. B - 1
  <2>1. ASSUME NEW x \in ToSet(data), NEW w \in ToSet(x.words) PROVE w.label \in 0 .. B - 1
    <3>1. x \in Sentences(K, B)
      BY <1>0 DEF ToSet
    <3>2. x.words \in Seq(Words(K, B))
      BY <3>1 DEF Sentences
    <3>3. w \in Words(K, B)
      BY <3>2, ElementOfSeq, LenProperties DEF ToSet
    <3> QED BY <3>3 DEF Words
  <2> QED BY <2>1 DEF LabelsIn
<1>3. s \in SUBSET (-1 .. B + top) /\ s # {} /\ top \in s
  BY <1>2
<1> HIDE DEF s
<1>4. Max(s) \in s /\ \A y \in s : y <= Max(s)
  <2>1. -1 \in Int /\ B + top \in Int
    OBVIOUS
  <2> QED BY <1>3, <2>1, LargestOfInts
<1>5. b \in Nat /\ b > top /\ \A y \in LabelsIn(data) : y \in 0 .. b - 1
  <2> DEFINE M == Max(s)
  <2>1. M \in Int /\ M >= top /\ top \in Int
    <3>1. \A y \in s : y \in Int
      BY <1>3
    <3> QED BY <1>3, <1>4, <3>1
  <2>a. \A y \in LabelsIn(data) : y \in Nat
    BY <1>2
  <2>b. \A y \in LabelsIn(data) : y <= M
    BY <1>4 DEF s
  <2>2. \A y \in LabelsIn(data) : y \in Nat /\ y <= M
    BY <2>a, <2>b
  <2> HIDE DEF M
  <2>3. M + 1 \in Nat /\ M + 1 > top /\ \A y \in LabelsIn(data) : y \in 0 .. (M + 1) - 1
    BY <2>1, <2>2
  <2> QED BY <2>3 DEF M
<1> HIDE DEF b
<1>6. ASSUME NEW k \in 1 .. n PROVE data[k] \in Sentences(K, b)
  <2> DEFINE x == data[k]
  <2>1. /\ x \in [words : Seq(Words(K, B)), tags : Seq(Nat)] /\ x.words \in Seq(Words(K, B))
    BY <1>0 DEF Sentences
  <2>2. ASSUME NEW t \in 1 .. Len(x.words) PROVE x.words[t] \in Words(K, b)
    <3>1. x.words[t] \in Words(K, B)
      BY <2>1, ElementOfSeq
    <3>2. x.words[t].label \in 0 .. b - 1
      BY <1>1, <1>5
    <3> HIDE DEF x
    <3> QED BY <3>1, <3>2 DEF Words
  <2>3. Len(x.words) \in Nat /\ x.words = [t \in 1 .. Len(x.words) |-> x.words[t]]
    BY <2>1, LenProperties
  <2> HIDE DEF x
  <2>4. x.words \in Seq(Words(K, b))
    BY <2>2, <2>3, IsASeq
  <2>5. x \in Sentences(K, b)
    BY <2>1, <2>4 DEF Sentences
  <2> QED BY <2>5 DEF x
<1>7. data \in Seq(Sentences(K, b))
  <2>1. data = [k \in 1 .. n |-> data[k]]
    BY <1>0
  <2> HIDE DEF n
  <2> QED BY <1>0, <1>6, <2>1, IsASeq
<1> QED BY <1>5, <1>7 DEF b, s

-----------------------------------------------------------------------------
(***************************************************************************)
(* RefreshCache: every parameter of a transition, of labels there are, is  *)
(* what the cache says.                                                    *)
(***************************************************************************)
Cached(m) ==
  \A p \in DOMAIN m.weight :
    m.features[p[1]][1] = EdgeSet /\ m.features[p[1]][2] \in LabelsOf(m) =>
      m.trans[<<m.features[p[1]][2], p[2]>>] = m.weight[p]

(* What a model is without its cache.                                      *)
IsLoose(m, K) ==
  /\ m = [features |-> m.features, weight |-> m.weight, max |-> m.max, trans |-> m.trans]
  /\ m.features \in Seq(FeaturesOf(K, m.max)) /\ Distinct(m.features)
  /\ m.max \in Nat \cup {-1}
  /\ m.weight \in [DOMAIN m.weight -> Int]
  /\ DOMAIN m.weight \subseteq Params(Len(m.features), m.max)

LEMMA WeightIsInt ==
  ASSUME NEW m, m.weight \in [DOMAIN m.weight -> Int], NEW u, NEW l
  PROVE  WeightOf(m, u, l) \in Int
BY DEF WeightOf

(* Refreshing the cache gives the transitions of the parameters, and       *)
(* changes nothing else (SparseLinearModel: RefreshCache).                 *)
LEMMA CacheRefreshed ==
  ASSUME NEW K \in SUBSET (Nat \X Nat), NEW m, IsLoose(m, K)
  PROVE  LET y == RefreshCache(m)
         IN  /\ IsModel(y, K) /\ Cached(y) /\ y.max = m.max
             /\ y.features = m.features /\ y.weight = m.weight
<1> DEFINE y == RefreshCache(m)
<1> DEFINE E == LabelsOf(m) \X LabelsOf(m)
<1> DEFINE c == [e \in E |-> LET u == FindFeature(m, EdgeSet, e[1])
                             IN  IF u = 0 THEN 0 ELSE WeightOf(m, u, e[2])]
<1>1. c \in [E -> Int]
  <2>1. \A u, l : WeightOf(m, u, l) \in Int
    BY WeightIsInt DEF IsLoose
  <2> HIDE DEF E
  <2> QED BY <2>1
<1>2. y = [m EXCEPT !.trans = c]
  BY DEF RefreshCache
<1>3. ASSUME NEW p \in DOMAIN m.weight, m.features[p[1]][1] = EdgeSet,
             m.features[p[1]][2] \in LabelsOf(m)
      PROVE  c[<<m.features[p[1]][2], p[2]>>] = m.weight[p]
  <2> DEFINE X == FeaturesOf(K, m.max)
  <2> DEFINE id == m.features[p[1]][2]
  <2>1. /\ p[1] \in 1 .. Len(m.features) /\ p[2] \in LabelsOf(m) /\ p = <<p[1], p[2]>>
        /\ m.features \in Seq(X) /\ Distinct(m.features)
    BY DEF IsLoose, Params, LabelsOf
  <2>2. m.features[p[1]] = <<EdgeSet, id>>
    <3>1. m.features[p[1]] \in X
      BY <2>1, ElementOfSeq
    <3>2. \A f \in X : f[1] = EdgeSet => f = <<f[1], f[2]>>
      BY DEF FeaturesOf
    <3> QED BY <1>3, <3>1, <3>2
  <2> HIDE DEF X, id
  <2>3. FindFeature(m, EdgeSet, id) = p[1]
    BY <2>1, <2>2, FoundFeature DEF IsFound
  <2>4. p[1] # 0
    <3>1. Len(m.features) \in Nat
      BY <2>1, LenProperties
    <3> QED BY <2>1, <3>1
  <2>5. <<id, p[2]>> \in E
    BY <1>3, <2>1 DEF id
  <2>6. c[<<id, p[2]>>] = WeightOf(m, p[1], p[2])
    BY <2>3, <2>4, <2>5
  <2>7. WeightOf(m, p[1], p[2]) = m.weight[p]
    BY <2>1 DEF WeightOf
  <2> QED BY <2>6, <2>7 DEF id
<1> HIDE DEF c
<1>4. /\ y = [features |-> m.features, weight |-> m.weight, max |-> m.max, trans |-> c]
      /\ y.max = m.max /\ y.features = m.features /\ y.weight = m.weight
      /\ y.trans = c /\ LabelsOf(y) = LabelsOf(m)
  BY <1>2 DEF IsLoose, LabelsOf
<1> HIDE DEF y
<1>5. IsModel(y, K)
  BY <1>1, <1>4 DEF IsModel, IsLoose
<1>6. Cached(y)
  BY <1>3, <1>4 DEF Cached
<1> QED BY <1>4, <1>5, <1>6 DEF y

(* The cache is what RefreshCache makes of the weights.                    *)
Fresh(m) == m.trans = RefreshCache(m).trans

LEMMA RefreshedIsFresh ==
  ASSUME NEW K \in SUBSET (Nat \X Nat), NEW m, IsLoose(m, K)
  PROVE  Fresh(RefreshCache(m))
<1> DEFINE y == RefreshCache(m)
<1>1. IsModel(y, K) /\ y.max = m.max /\ y.features = m.features /\ y.weight = m.weight
  BY CacheRefreshed
<1> DEFINE c == [e \in LabelsOf(m) \X LabelsOf(m) |->
                  LET uid == FindFeature(m, EdgeSet, e[1])
                  IN  IF uid = 0 THEN 0 ELSE WeightOf(m, uid, e[2])]
<1> DEFINE d == [e \in LabelsOf(y) \X LabelsOf(y) |->
                  LET uid == FindFeature(y, EdgeSet, e[1])
                  IN  IF uid = 0 THEN 0 ELSE WeightOf(y, uid, e[2])]
<1>2. y = [m EXCEPT !.trans = c] /\ RefreshCache(y) = [y EXCEPT !.trans = d]
  BY DEF RefreshCache
<1> HIDE DEF y
<1>3. c = d
  BY <1>1 DEF FindFeature, WeightOf, LabelsOf
<1> HIDE DEF c, d
<1>4. y.trans = c
  BY <1>2 DEF IsLoose
<1>5. [y EXCEPT !.trans = d].trans = d
  BY <1>1 DEF IsModel
<1>6. Fresh(y)
  BY <1>2, <1>3, <1>4, <1>5 DEF Fresh
<1> QED BY <1>6 DEF y

-----------------------------------------------------------------------------
(* A model is one that may grow up to a larger number of labels.           *)
LEMMA ModelGrows ==
  ASSUME NEW K, NEW m, IsModel(m, K), NEW b \in Nat, b >= m.max
  PROVE  m \in Growing(K, m.max, m.trans, b)
<1>1. /\ m.features \in Seq(FeaturesOf(K, m.max)) /\ Distinct(m.features)
      /\ m.max \in Nat \cup {-1}
      /\ m.weight \in [DOMAIN m.weight -> Int]
      /\ DOMAIN m.weight \subseteq Params(Len(m.features), m.max)
  BY DEF IsModel
<1>2. FeaturesOf(K, m.max) \subseteq FeaturesOf(K, b)
  BY <1>1 DEF FeaturesOf
<1>3. m.features \in Seq(FeaturesOf(K, b))
  <2> DEFINE X == FeaturesOf(K, m.max)
  <2> DEFINE Y == FeaturesOf(K, b)
  <2>1. X \subseteq Y /\ m.features \in Seq(X)
    BY <1>1, <1>2
  <2> HIDE DEF X, Y
  <2>2. m.features \in Seq(Y)
    BY <2>1
  <2> QED BY <2>2 DEF Y
<1>4. Len(m.features) \in Nat
  <2> DEFINE X == FeaturesOf(K, m.max)
  <2>1. m.features \in Seq(X)
    BY <1>1
  <2> HIDE DEF X
  <2> QED BY <2>1, LenProperties
<1>5. DOMAIN m.weight \subseteq Params(Len(m.features), b)
  <2> DEFINE n == Len(m.features)
  <2> HIDE DEF n
  <2>1. Params(n, m.max) \subseteq Params(n, b)
    BY <1>1 DEF Params
  <2> QED BY <1>1, <2>1 DEF n
<1>6. m.weight \in Weights
  <2>1. DOMAIN m.weight \in SUBSET (Nat \X Nat)
    <3> DEFINE n == Len(m.features)
    <3> HIDE DEF n
    <3>1. Params(n, b) \subseteq Nat \X Nat
      BY DEF Params
    <3> QED BY <1>5, <3>1 DEF n
  <2> QED BY <1>1, <2>1 DEF Weights
<1>7. m = [features |-> m.features, weight |-> m.weight, max |-> m.max, trans |-> m.trans]
  BY DEF IsModel
<1> QED BY <1>1, <1>3, <1>5, <1>6, <1>7 DEF Growing

(* What Expand makes: y of m.                                              *)
IsExpanded(y, m, K, data) ==
  /\ IsModel(y, K) /\ Cached(y)
  /\ y.max \in Nat /\ y.max > m.max
  /\ data \in Seq(Sentences(K, y.max))
  /\ Extends(y, m)
  /\ \A k \in 1 .. Len(data) : ListsWords(y, data[k])

LEMMA ListsIsOfFeatures ==
  ASSUME NEW x, NEW y, x.features = y.features
  PROVE  /\ \A s : ListsWords(x, s) => ListsWords(y, s)
         /\ \A m : x.weight = y.weight /\ Extends(x, m) => Extends(y, m)
BY DEF ListsWords, ListsAll, Lists, Extends

(***************************************************************************)
(* Whatever sentences it is given, Expand makes of a model a model: uids   *)
(* and weights stay, each feature and each transition of the sentences has *)
(* its parameter, labels are counted and the cache agrees (InsertParameter *)
(* and RefreshCache of SparseLinearModel).                                 *)
(***************************************************************************)
THEOREM Expanded ==
  ASSUME NEW K \in SUBSET (Nat \X Nat), NEW m, IsModel(m, K), NEW B \in Nat,
         NEW data \in Seq(Sentences(K, B))
  PROVE  IsExpanded(Expand(m, data), m, K, data)
<1> DEFINE b == Max({m.max} \cup LabelsIn(data)) + 1
<1> DEFINE x == FoldLeft(InsertSentence, m, data)
<1> DEFINE z == [x EXCEPT !.max = b]
<1> DEFINE y == Expand(m, data)
<1>0. m.max \in Nat \cup {-1}
  BY DEF IsModel
<1>1. b \in Nat /\ b > m.max /\ data \in Seq(Sentences(K, b))
  BY <1>0, LabelsCounted
<1> HIDE DEF b
<1>2. m \in Growing(K, m.max, m.trans, b)
  <2>1. b >= m.max
    BY <1>0, <1>1
  <2> QED BY <1>1, <2>1, ModelGrows
<1>3. Grown(x, m, K, m.max, m.trans, b) /\ \A k \in 1 .. Len(data) : ListsWords(x, data[k])
  BY <1>1, <1>2, DataInserted
<1> HIDE DEF x
<1>4. /\ x = [features |-> x.features, weight |-> x.weight, max |-> x.max, trans |-> x.trans]
      /\ x.features \in Seq(FeaturesOf(K, b))
      /\ x.weight \in Weights /\ x.max = m.max
      /\ Distinct(x.features) /\ DOMAIN x.weight \subseteq Params(Len(x.features), b)
      /\ Extends(x, m)
  BY <1>3 DEF Grown, Growing
<1>5. y = RefreshCache(z)
  BY <1>4 DEF Expand, x, b
<1>6. /\ z = [features |-> x.features, weight |-> x.weight, max |-> b, trans |-> x.trans]
      /\ z.features = x.features /\ z.weight = x.weight /\ z.max = b
  BY <1>4
<1> HIDE DEF z
<1>7. IsLoose(z, K)
  <2>1. x.weight \in [DOMAIN x.weight -> Int]
    BY <1>4 DEF Weights
  <2> QED BY <1>1, <1>4, <1>6, <2>1 DEF IsLoose
<1>8. IsModel(y, K) /\ Cached(y) /\ y.max = z.max /\ y.features = z.features /\ y.weight = z.weight
  BY <1>5, <1>7, CacheRefreshed
<1> HIDE DEF y
<1>9. Extends(y, m) /\ \A k \in 1 .. Len(data) : ListsWords(y, data[k])
  BY <1>3, <1>4, <1>6, <1>8, ListsIsOfFeatures
<1> QED BY <1>1, <1>6, <1>8, <1>9 DEF IsExpanded, y

-----------------------------------------------------------------------------
(* The weights may change: what a model has room for is the same.          *)
SameShape(y, m) ==
  /\ y.features = m.features /\ y.max = m.max /\ DOMAIN y.weight = DOMAIN m.weight

LEMMA PartsOfModel ==
  ASSUME NEW K, NEW m, IsModel(m, K), NEW p \in DOMAIN m.weight
  PROVE  /\ p = <<p[1], p[2]>> /\ p[1] \in 1 .. Len(m.features) /\ p[2] \in LabelsOf(m)
         /\ m.features[p[1]] \in FeaturesOf(K, m.max)
<1>1. p \in Params(Len(m.features), m.max)
  BY DEF IsModel
<1>2. p = <<p[1], p[2]>> /\ p[1] \in 1 .. Len(m.features) /\ p[2] \in LabelsOf(m)
  BY <1>1 DEF Params, LabelsOf
<1> DEFINE X == FeaturesOf(K, m.max)
<1>3. m.features \in Seq(X)
  BY DEF IsModel
<1> HIDE DEF X
<1>4. m.features[p[1]] \in X
  BY <1>2, <1>3, ElementOfSeq
<1> QED BY <1>2, <1>4 DEF X

(* Propagating the transitions back leaves a model whose cache agrees with *)
(* its parameters (SparseLinearModel: BackPropagateTransitionWeight).      *)
LEMMA BackPropagated ==
  ASSUME NEW K \in SUBSET (Nat \X Nat), NEW m, IsModel(m, K)
  PROVE  LET y == BackPropagate(m)
         IN  IsModel(y, K) /\ Cached(y) /\ SameShape(y, m) /\ y.trans = m.trans
<1> DEFINE y == BackPropagate(m)
<1> DEFINE w == [p \in DOMAIN m.weight |->
                   LET f == m.features[p[1]]
                   IN  IF f[1] = EdgeSet /\ f[2] < m.max THEN m.trans[<<f[2], p[2]>>]
                       ELSE m.weight[p]]
<1>0. /\ m = [features |-> m.features, weight |-> m.weight, max |-> m.max, trans |-> m.trans]
      /\ m.max \in Nat \cup {-1}
      /\ m.weight \in [DOMAIN m.weight -> Int]
      /\ m.trans \in [LabelsOf(m) \X LabelsOf(m) -> Int]
  BY DEF IsModel
<1>1. y = [m EXCEPT !.weight = w]
  BY DEF BackPropagate
<1>2. y = [features |-> m.features, weight |-> w, max |-> m.max, trans |-> m.trans]
  BY <1>0, <1>1
<1>3. ASSUME NEW p \in DOMAIN m.weight PROVE w[p] \in Int
  <2> DEFINE f == m.features[p[1]]
  <2>1. p[2] \in LabelsOf(m) /\ f \in FeaturesOf(K, m.max)
    BY PartsOfModel
  <2>2. CASE f[1] = EdgeSet /\ f[2] < m.max
    <3>1. f[2] \in Nat
      BY <1>0, <2>1 DEF FeaturesOf
    <3>2. f[2] \in LabelsOf(m)
      BY <1>0, <2>2, <3>1 DEF LabelsOf
    <3> QED BY <1>0, <2>1, <2>2, <3>2
  <2> QED BY <1>0, <2>2
<1>4. ASSUME NEW p \in DOMAIN m.weight, m.features[p[1]][1] = EdgeSet,
             m.features[p[1]][2] \in LabelsOf(m)
      PROVE  m.trans[<<m.features[p[1]][2], p[2]>>] = w[p]
  <2>1. m.features[p[1]][2] < m.max
    BY <1>0, <1>4 DEF LabelsOf
  <2> QED BY <1>4, <2>1
<1>5. w \in [DOMAIN m.weight -> Int] /\ DOMAIN w = DOMAIN m.weight
  BY <1>3
<1> HIDE DEF w, y
<1>6. /\ y = [features |-> y.features, weight |-> y.weight, max |-> y.max, trans |-> y.trans]
      /\ y.features = m.features /\ y.weight = w /\ y.max = m.max /\ y.trans = m.trans
      /\ LabelsOf(y) = LabelsOf(m)
  BY <1>2 DEF LabelsOf
<1>7. IsModel(y, K)
  BY <1>5, <1>6 DEF IsModel
<1>8. Cached(y)
  BY <1>4, <1>5, <1>6 DEF Cached
<1>9. SameShape(y, m)
  BY <1>5, <1>6 DEF SameShape
<1> QED BY <1>6, <1>7, <1>8, <1>9 DEF y

(* Reset: other weights of the same parameters.                            *)
LEMMA ResetIs ==
  ASSUME NEW K \in SUBSET (Nat \X Nat), NEW m, IsModel(m, K), NEW w \in [DOMAIN m.weight -> Int]
  PROVE  LET y == Reset(m, w)
         IN  IsModel(y, K) /\ Cached(y) /\ Fresh(y) /\ SameShape(y, m) /\ y.weight = w
<1> DEFINE z == [m EXCEPT !.weight = w]
<1>0. /\ m = [features |-> m.features, weight |-> m.weight, max |-> m.max, trans |-> m.trans]
  BY DEF IsModel
<1>1. /\ z = [features |-> m.features, weight |-> w, max |-> m.max, trans |-> m.trans]
      /\ z.features = m.features /\ z.max = m.max /\ z.weight = w
  BY <1>0
<1>2. Reset(m, w) = RefreshCache(z)
  BY DEF Reset
<1> HIDE DEF z
<1>3. IsLoose(z, K)
  BY <1>1 DEF IsModel, IsLoose
<1> QED BY <1>1, <1>2, <1>3, CacheRefreshed, RefreshedIsFresh DEF SameShape

(* Weights that are all zero, with the transitions left as they were.      *)
LEMMA ZeroedIs ==
  ASSUME NEW K, NEW m, IsModel(m, K)
  PROVE  IsModel([m EXCEPT !.weight = [p \in DOMAIN @ |-> 0]], K)
<1> DEFINE w == [p \in DOMAIN m.weight |-> 0]
<1> DEFINE z == [m EXCEPT !.weight = [p \in DOMAIN @ |-> 0]]
<1>0. /\ m = [features |-> m.features, weight |-> m.weight, max |-> m.max, trans |-> m.trans]
  BY DEF IsModel
<1>1. /\ z = [features |-> m.features, weight |-> w, max |-> m.max, trans |-> m.trans]
      /\ z.features = m.features /\ z.max = m.max /\ z.weight = w /\ z.trans = m.trans
  BY <1>0
<1>2. w \in [DOMAIN m.weight -> Int] /\ DOMAIN w = DOMAIN m.weight
  OBVIOUS
<1> HIDE DEF z, w
<1>3. IsModel(z, K)
  BY <1>1, <1>2 DEF IsModel, LabelsOf
<1> QED BY <1>3 DEF z

-----------------------------------------------------------------------------
(* The model gives label l of feature f the weight v.                      *)
Says(m, f, l, v) ==
  \E p \in DOMAIN m.weight : m.features[p[1]] = f /\ p[2] = l /\ m.weight[p] = v

NoZeros(m) == \A p \in DOMAIN m.weight : m.weight[p] # 0

(***************************************************************************)
(* Shrink: no weight is zero any more, and the others are what they were.  *)
(***************************************************************************)
IsShrunk(y, m, K) ==
  /\ IsModel(y, K) /\ NoZeros(y) /\ y.max = m.max /\ y.trans = m.trans
  /\ \A f, l, v : Says(y, f, l, v) <=> Says(m, f, l, v) /\ v # 0

LEMMA ShrunkIs ==
  ASSUME NEW K \in SUBSET (Nat \X Nat), NEW m, IsModel(m, K)
  PROVE  IsShrunk(Shrink(m), m, K)
<1> DEFINE n == Len(m.features)
<1> DEFINE live == {p \in DOMAIN m.weight : m.weight[p] # 0}
<1> DEFINE S == {p[1] : p \in live}
<1> DEFINE uids == Kept([u \in 1 .. n |-> u], S)
<1> DEFINE P == {q \in (DOMAIN uids) \X LabelsOf(m) : <<uids[q[1]], q[2]>> \in live}
<1> DEFINE fs == [k \in 1 .. Len(uids) |-> m.features[uids[k]]]
<1> DEFINE w == [p \in P |-> m.weight[<<uids[p[1]], p[2]>>]]
<1> DEFINE X == FeaturesOf(K, m.max)
<1> DEFINE y == Shrink(m)
<1>0. /\ m = [features |-> m.features, weight |-> m.weight, max |-> m.max, trans |-> m.trans]
      /\ m.max \in Nat \cup {-1} /\ m.features \in Seq(X) /\ Distinct(m.features)
      /\ m.weight \in [DOMAIN m.weight -> Int]
      /\ m.trans \in [LabelsOf(m) \X LabelsOf(m) -> Int]
  BY DEF IsModel
<1>1. y = [features |-> fs, weight |-> w, max |-> m.max, trans |-> m.trans]
  <2>1. y = [m EXCEPT !.features = fs, !.weight = w]
    BY DEF Shrink
  <2> HIDE DEF y, fs, w
  <2> QED BY <1>0, <2>1
<1>2. n \in Nat
  <2> HIDE DEF X
  <2> QED BY <1>0, LenProperties
<1>3. \A p \in live : p = <<p[1], p[2]>> /\ p[1] \in 1 .. n /\ p[2] \in LabelsOf(m)
  BY PartsOfModel
<1> HIDE DEF live
<1>4. EachOnce(uids, S, n)
  <2> HIDE DEF S, n
  <2> QED BY <1>2, NumbersKept
<1>5. /\ uids \in Seq(1 .. n) /\ Len(uids) \in Nat /\ DOMAIN uids = 1 .. Len(uids)
      /\ \A k \in 1 .. Len(uids) : uids[k] \in 1 .. n
      /\ \A j, k \in 1 .. Len(uids) : uids[j] = uids[k] => j = k
      /\ \A p \in live : \E k \in 1 .. Len(uids) : uids[k] = p[1]
  <2>1. uids \in Seq(S \cap 1 .. n)
    BY <1>4 DEF EachOnce
  <2> HIDE DEF uids, n
  <2> DEFINE A == S \cap 1 .. n
  <2> DEFINE B == 1 .. n
  <2>a. A \subseteq B /\ uids \in Seq(A)
    BY <2>1
  <2> HIDE DEF A, B
  <2>b. uids \in Seq(B)
    BY <2>a
  <2>2. uids \in Seq(1 .. n)
    BY <2>b DEF B
  <2>3. Len(uids) \in Nat /\ DOMAIN uids = 1 .. Len(uids) /\ \A k \in 1 .. Len(uids) : uids[k] \in 1 .. n
    BY <2>2, LenProperties, ElementOfSeq
  <2>4. \A p \in live : p[1] \in S \cap 1 .. n
    BY <1>3
  <2> HIDE DEF S
  <2> QED BY <1>4, <2>2, <2>3, <2>4 DEF EachOnce
<1> DEFINE N == Len(uids)
<1> HIDE DEF uids, S
<1>6. fs \in Seq(X) /\ Len(fs) = N /\ \A k \in 1 .. N : fs[k] = m.features[uids[k]]
  <2>1. \A k \in 1 .. N : m.features[uids[k]] \in X
    <3> HIDE DEF X
    <3> QED BY <1>0, <1>5, ElementOfSeq
  <2> HIDE DEF X, N
  <2>2. N \in Nat
    BY <1>5 DEF N
  <2> QED BY <2>1, <2>2, IsASeq DEF N
<1>7. Distinct(fs)
  <2>1. \A j, k \in 1 .. N : fs[j] = fs[k] => j = k
    BY <1>0, <1>5, <1>6 DEF Distinct
  <2> QED BY <1>6, <2>1 DEF Distinct
<1> HIDE DEF fs
<1>8. P \subseteq Params(N, m.max)
  BY <1>5 DEF Params, LabelsOf
<1>9. \A q \in P : q = <<q[1], q[2]>> /\ q[1] \in 1 .. N /\ <<uids[q[1]], q[2]>> \in live
  BY <1>5
<1>10. w \in [P -> Int] /\ DOMAIN w = P /\ \A q \in P : w[q] = m.weight[<<uids[q[1]], q[2]>>]
  <2>1. \A q \in live : m.weight[q] \in Int
    BY <1>0 DEF live
  <2> HIDE DEF P
  <2> QED BY <1>9, <2>1
<1>11. \A p \in live : \E k \in 1 .. N : <<k, p[2]>> \in P /\ uids[k] = p[1]
  <2>1. ASSUME NEW p \in live PROVE \E k \in 1 .. N : <<k, p[2]>> \in P /\ uids[k] = p[1]
    <3>1. PICK k \in 1 .. N : uids[k] = p[1]
      BY <1>5
    <3>2. p = <<uids[k], p[2]>> /\ p[2] \in LabelsOf(m)
      BY <1>3, <3>1
    <3>3. <<k, p[2]>> \in P
      BY <1>5, <3>2
    <3> QED BY <3>1, <3>3
  <2> QED BY <2>1
<1> HIDE DEF w, P, N, y
<1>12. /\ y = [features |-> y.features, weight |-> y.weight, max |-> y.max, trans |-> y.trans]
       /\ y.features = fs /\ y.weight = w /\ y.max = m.max /\ y.trans = m.trans
       /\ LabelsOf(y) = LabelsOf(m)
  BY <1>1 DEF LabelsOf
<1>13. IsModel(y, K)
  BY <1>0, <1>6, <1>7, <1>8, <1>10, <1>12 DEF IsModel
<1>14. NoZeros(y)
  BY <1>9, <1>10, <1>12, ZenonT(60) DEF NoZeros, live
<1>15. ASSUME NEW f, NEW l, NEW v, Says(y, f, l, v) PROVE Says(m, f, l, v) /\ v # 0
  <2>1. PICK q \in P : fs[q[1]] = f /\ q[2] = l /\ w[q] = v
    BY <1>10, <1>12, <1>15 DEF Says
  <2> DEFINE p == <<uids[q[1]], q[2]>>
  <2>2. p \in live /\ m.features[p[1]] = f /\ p[2] = l /\ m.weight[p] = v
    BY <1>6, <1>9, <1>10, <2>1
  <2> HIDE DEF p
  <2> QED BY <2>2 DEF Says, live
<1>16. ASSUME NEW f, NEW l, NEW v, Says(m, f, l, v), v # 0 PROVE Says(y, f, l, v)
  <2>1. PICK p \in live : m.features[p[1]] = f /\ p[2] = l /\ m.weight[p] = v
    BY <1>16 DEF Says, live
  <2>2. PICK k \in 1 .. N : <<k, p[2]>> \in P /\ uids[k] = p[1]
    BY <1>11
  <2> DEFINE q == <<k, p[2]>>
  <2>3. fs[q[1]] = f /\ q[2] = l /\ w[q] = v
    BY <1>3, <1>6, <1>10, <2>1, <2>2
  <2>4. q \in DOMAIN y.weight
    BY <1>10, <1>12, <2>2
  <2> HIDE DEF q
  <2> QED BY <1>12, <2>3, <2>4 DEF Says
<1> QED BY <1>12, <1>13, <1>14, <1>15, <1>16 DEF IsShrunk, y

-----------------------------------------------------------------------------
(* The uids by feature: each of them once.                                 *)
AllUids(s, n) ==
  /\ s \in Seq(1 .. n) /\ Len(s) = n
  /\ \A j, k \in 1 .. n : s[j] = s[k] => j = k
  /\ \A u \in 1 .. n : \E k \in 1 .. n : s[k] = u

FeatureBefore(f, g) == f[1] < g[1] \/ (f[1] = g[1] /\ f[2] < g[2])

LEMMA ByFeatureIs ==
  ASSUME NEW K \in SUBSET (Nat \X Nat), NEW m, IsModel(m, K)
  PROVE  AllUids(ByFeature(m), Len(m.features))
<1> DEFINE X == FeaturesOf(K, m.max)
<1> DEFINE n == Len(m.features)
<1> DEFINE S == DOMAIN m.features
<1> DEFINE before == {p \in S \X S : FeatureBefore(m.features[p[1]], m.features[p[2]])}
<1>0. m.max \in Nat \cup {-1} /\ m.features \in Seq(X) /\ Distinct(m.features)
  BY DEF IsModel
<1>1. X \subseteq Nat \X Nat
  BY <1>0 DEF FeaturesOf, EdgeSet
<1> HIDE DEF X
<1>2. n \in Nat /\ S = 1 .. n /\ \A u \in S : m.features[u] \in Nat \X Nat
  BY <1>0, <1>1, LenProperties, ElementOfSeq
<1>3. ByFeature(m) = InOrderOf(S, before)
  BY DEF ByFeature, FeatureBefore
<1>4. \A u, v \in S : u # v => m.features[u] # m.features[v]
  BY <1>0, <1>2 DEF Distinct
<1>5. \A u, v \in S : <<u, v>> \in before <=> FeatureBefore(m.features[u], m.features[v])
  OBVIOUS
<1> HIDE DEF before, n
<1>6. SortsAll(S, before)
  <2>1. \A f \in Nat \X Nat : ~FeatureBefore(f, f)
    BY DEF FeatureBefore
  <2>2. \A f, g, h \in Nat \X Nat :
          FeatureBefore(f, g) /\ FeatureBefore(g, h) => FeatureBefore(f, h)
    BY DEF FeatureBefore
  <2>3. \A f, g \in Nat \X Nat : f # g => FeatureBefore(f, g) \/ FeatureBefore(g, f)
    <3>1. ASSUME NEW f \in Nat \X Nat, NEW g \in Nat \X Nat, ~FeatureBefore(f, g), ~FeatureBefore(g, f)
          PROVE  f = g
      <4>1. f = <<f[1], f[2]>> /\ g = <<g[1], g[2]>> /\ f[1] \in Nat /\ f[2] \in Nat /\ g[1] \in Nat /\ g[2] \in Nat
        OBVIOUS
      <4>2. f[1] = g[1] /\ f[2] = g[2]
        BY <3>1, <4>1 DEF FeatureBefore
      <4> QED BY <4>1, <4>2
    <3> QED BY <3>1
  <2>a. \A u \in S : <<u, u>> \notin before
    BY <1>2, <1>5, <2>1
  <2>b. \A u, v \in S : u # v => <<u, v>> \in before \/ <<v, u>> \in before
    BY <1>2, <1>4, <1>5, <2>3
  <2>c. ASSUME NEW u \in S, NEW v \in S, NEW w \in S, <<u, v>> \in before, <<v, w>> \in before
        PROVE  <<u, w>> \in before
    <3>1. /\ FeatureBefore(m.features[u], m.features[v]) /\ FeatureBefore(m.features[v], m.features[w])
          /\ m.features[u] \in Nat \X Nat /\ m.features[v] \in Nat \X Nat /\ m.features[w] \in Nat \X Nat
      BY <1>2, <1>5, <2>c
    <3>2. FeatureBefore(m.features[u], m.features[w])
      BY <2>2, <3>1
    <3> QED BY <1>5, <3>2
  <2> HIDE DEF S
  <2> QED BY <2>a, <2>b, <2>c DEF SortsAll
<1>7. IsFiniteSet(S) /\ Cardinality(S) = n
  BY <1>2, FS_Interval
<1> HIDE DEF S
<1> DEFINE s == InOrderOf(S, before)
<1>8. /\ s \in Seq(S) /\ Len(s) = n
      /\ \A j, k \in 1 .. n : s[j] = s[k] => j = k
      /\ \A x \in S : \E k \in 1 .. n : s[k] = x
  BY <1>6, <1>7, SortedIs
<1> HIDE DEF s
<1>9. AllUids(s, n)
  BY <1>2, <1>8 DEF AllUids
<1> QED BY <1>3, <1>9 DEF s, n

-----------------------------------------------------------------------------
(* A model file: features, each once, with labels and weights.             *)
ListsOf(K, b) == [feature : FeaturesOf(K, b), weights : UNION {[L -> Int] : L \in SUBSET (0 .. b - 1)}]

IsFile(file, K) ==
  /\ file.max \in Nat \cup {-1}
  /\ file.lists \in Seq(ListsOf(K, file.max))
  /\ \A j, k \in 1 .. Len(file.lists) : file.lists[j].feature = file.lists[k].feature => j = k
  /\ \A k \in 1 .. Len(file.lists) : \A l \in DOMAIN file.lists[k].weights :
       file.lists[k].weights[l] # 0

FileSays(file, f, l, v) ==
  \E k \in 1 .. Len(file.lists) :
    /\ file.lists[k].feature = f /\ l \in DOMAIN file.lists[k].weights
    /\ file.lists[k].weights[l] = v

(* Serialize: the file says what the model says.                           *)
IsWritten(file, m, K) ==
  /\ IsFile(file, K) /\ file.max = m.max
  /\ \A f, l, v : FileSays(file, f, l, v) <=> Says(m, f, l, v)

LEMMA SerializedIs ==
  ASSUME NEW K \in SUBSET (Nat \X Nat), NEW m, IsModel(m, K), NoZeros(m)
  PROVE  IsWritten(Serialize(m), m, K)
<1> DEFINE X == FeaturesOf(K, m.max)
<1> DEFINE n == Len(m.features)
<1> DEFINE s == ByFeature(m)
<1> DEFINE labels(u) == {p[2] : p \in {q \in DOMAIN m.weight : q[1] = u}}
<1> DEFINE w(u) == [l \in labels(u) |-> m.weight[<<u, l>>]]
<1> DEFINE list(u) == [feature |-> m.features[u], weights |-> w(u)]
<1> DEFINE lists == [k \in 1 .. Len(s) |-> list(s[k])]
<1> DEFINE file == Serialize(m)
<1>0. /\ m.max \in Nat \cup {-1} /\ m.features \in Seq(X) /\ Distinct(m.features)
      /\ m.weight \in [DOMAIN m.weight -> Int]
  BY DEF IsModel
<1>1. file.max = m.max /\ file.lists = lists
  BY DEF Serialize
<1>2. AllUids(s, n)
  BY ByFeatureIs
<1>3. n \in Nat
  <2> HIDE DEF X
  <2> QED BY <1>0, LenProperties
<1> HIDE DEF s, n
<1>4. Len(s) = n /\ \A k \in 1 .. n : s[k] \in 1 .. n
  BY <1>2, <1>3, ElementOfSeq DEF AllUids
<1>5. \A p \in DOMAIN m.weight : p = <<p[1], p[2]>> /\ p[1] \in 1 .. n /\ p[2] \in LabelsOf(m)
  BY PartsOfModel DEF n
<1>6. ASSUME NEW u \in 1 .. n
      PROVE  /\ list(u) \in ListsOf(K, m.max)
             /\ \A l : l \in labels(u) <=> <<u, l>> \in DOMAIN m.weight
             /\ \A l \in labels(u) : w(u)[l] = m.weight[<<u, l>>] /\ w(u)[l] # 0
  <2>1. \A l : l \in labels(u) <=> <<u, l>> \in DOMAIN m.weight
    BY <1>5
  <2>2. labels(u) \in SUBSET (0 .. m.max - 1)
    BY <1>5 DEF LabelsOf
  <2>3. \A l \in labels(u) : w(u)[l] = m.weight[<<u, l>>] /\ w(u)[l] # 0 /\ w(u)[l] \in Int
    BY <1>0, <2>1 DEF NoZeros
  <2> HIDE DEF labels
  <2>4. w(u) \in [labels(u) -> Int]
    BY <2>3
  <2>5. w(u) \in UNION {[L -> Int] : L \in SUBSET (0 .. m.max - 1)}
    BY <2>2, <2>4
  <2>6. m.features[u] \in X
    <3> HIDE DEF X
    <3> QED BY <1>0, ElementOfSeq DEF n
  <2> HIDE DEF w
  <2>7. list(u) \in ListsOf(K, m.max)
    BY <2>5, <2>6 DEF ListsOf
  <2> QED BY <2>1, <2>3, <2>7
<1> HIDE DEF labels
<1>7. lists \in Seq(ListsOf(K, m.max)) /\ Len(lists) = n /\ \A k \in 1 .. n : lists[k] = list(s[k])
  <2> DEFINE Y == ListsOf(K, m.max)
  <2>1. \A k \in 1 .. n : list(s[k]) \in Y
    BY <1>4, <1>6
  <2> HIDE DEF Y, list
  <2>2. lists = [k \in 1 .. n |-> list(s[k])]
    BY <1>4
  <2> QED BY <1>3, <2>1, <2>2, IsASeq DEF Y
<1> HIDE DEF lists, file
<1>8. ASSUME NEW k \in 1 .. n
      PROVE  /\ lists[k].feature = m.features[s[k]]
             /\ \A l : l \in DOMAIN lists[k].weights <=> <<s[k], l>> \in DOMAIN m.weight
             /\ \A l \in DOMAIN lists[k].weights :
                  lists[k].weights[l] = m.weight[<<s[k], l>>] /\ lists[k].weights[l] # 0
  <2>1. s[k] \in 1 .. n
    BY <1>4
  <2>a. lists[k] = list(s[k])
    BY <1>7
  <2>b. DOMAIN w(s[k]) = labels(s[k])
    OBVIOUS
  <2> HIDE DEF w
  <2>2. lists[k].feature = m.features[s[k]] /\ lists[k].weights = w(s[k]) /\ DOMAIN w(s[k]) = labels(s[k])
    BY <2>a, <2>b
  <2> QED BY <1>6, <2>1, <2>2
<1>9. \A j, k \in 1 .. n : lists[j].feature = lists[k].feature => j = k
  <2>1. ASSUME NEW j \in 1 .. n, NEW k \in 1 .. n, lists[j].feature = lists[k].feature PROVE j = k
    <3>1. m.features[s[j]] = m.features[s[k]]
      BY <1>8, <2>1
    <3>2. s[j] = s[k]
      BY <1>0, <1>4, <3>1 DEF Distinct, n
    <3> QED BY <1>2, <3>2 DEF AllUids
  <2> QED BY <2>1
<1>10. IsFile(file, K)
  BY <1>0, <1>1, <1>7, <1>8, <1>9 DEF IsFile
<1>11. ASSUME NEW f, NEW l, NEW v, FileSays(file, f, l, v) PROVE Says(m, f, l, v)
  <2>1. PICK k \in 1 .. n : lists[k].feature = f /\ l \in DOMAIN lists[k].weights /\ lists[k].weights[l] = v
    BY <1>1, <1>7, <1>11 DEF FileSays
  <2> DEFINE p == <<s[k], l>>
  <2>2. p \in DOMAIN m.weight /\ m.features[p[1]] = f /\ p[2] = l /\ m.weight[p] = v
    BY <1>8, <2>1
  <2> HIDE DEF p
  <2> QED BY <2>2 DEF Says
<1>12. ASSUME NEW f, NEW l, NEW v, Says(m, f, l, v) PROVE FileSays(file, f, l, v)
  <2>1. PICK p \in DOMAIN m.weight : m.features[p[1]] = f /\ p[2] = l /\ m.weight[p] = v
    BY <1>12 DEF Says
  <2>2. PICK k \in 1 .. n : s[k] = p[1]
    BY <1>2, <1>5 DEF AllUids
  <2>3. <<s[k], l>> = p
    BY <1>5, <2>1, <2>2
  <2>4. lists[k].feature = f /\ l \in DOMAIN lists[k].weights /\ lists[k].weights[l] = v
    BY <1>8, <2>1, <2>2, <2>3
  <2> QED BY <1>1, <1>7, <2>4 DEF FileSays
<1> QED BY <1>1, <1>10, <1>11, <1>12 DEF IsWritten, file

-----------------------------------------------------------------------------
(* Deserialize: the model says what the file says.                         *)
IsLoaded(m, file, K) ==
  /\ IsModel(m, K) /\ Cached(m) /\ Fresh(m) /\ NoZeros(m) /\ m.max = file.max
  /\ \A f, l, v : Says(m, f, l, v) <=> FileSays(file, f, l, v)

LEMMA DeserializedIs ==
  ASSUME NEW K \in SUBSET (Nat \X Nat), NEW file, IsFile(file, K)
  PROVE  IsLoaded(Deserialize(file), file, K)
<1> DEFINE n == Len(file.lists)
<1> DEFINE X == FeaturesOf(K, file.max)
<1> DEFINE P == UNION {{k} \X DOMAIN file.lists[k].weights : k \in 1 .. n}
<1> DEFINE w == [p \in P |-> file.lists[p[1]].weights[p[2]]]
<1> DEFINE fs == [k \in 1 .. n |-> file.lists[k].feature]
<1> DEFINE z == [features |-> fs, weight |-> w, max |-> file.max, trans |-> <<>>]
<1> DEFINE m == Deserialize(file)
<1>0. /\ file.max \in Nat \cup {-1} /\ file.lists \in Seq(ListsOf(K, file.max))
      /\ \A j, k \in 1 .. n : file.lists[j].feature = file.lists[k].feature => j = k
      /\ \A k \in 1 .. n : \A l \in DOMAIN file.lists[k].weights : file.lists[k].weights[l] # 0
  BY DEF IsFile
<1>1. n \in Nat /\ \A k \in 1 .. n : file.lists[k] \in ListsOf(K, file.max)
  <2> DEFINE Y == ListsOf(K, file.max)
  <2>1. file.lists \in Seq(Y)
    BY <1>0
  <2> HIDE DEF Y
  <2> QED BY <2>1, LenProperties, ElementOfSeq DEF Y
<1> HIDE DEF n
<1>2. \A k \in 1 .. n :
        /\ file.lists[k].feature \in X
        /\ \A l \in DOMAIN file.lists[k].weights :
             l \in 0 .. file.max - 1 /\ file.lists[k].weights[l] \in Int
  BY <1>1 DEF ListsOf
<1>3. /\ \A p \in P : /\ p = <<p[1], p[2]>> /\ p[1] \in 1 .. n
                      /\ p[2] \in DOMAIN file.lists[p[1]].weights
      /\ \A k \in 1 .. n : \A l \in DOMAIN file.lists[k].weights : <<k, l>> \in P
  OBVIOUS
<1> HIDE DEF P
<1>4. w \in [P -> Int] /\ DOMAIN w = P /\ \A p \in P : w[p] = file.lists[p[1]].weights[p[2]] /\ w[p] # 0
  BY <1>0, <1>2, <1>3
<1>5. P \subseteq Params(n, file.max)
  BY <1>2, <1>3 DEF Params
<1>6. fs \in Seq(X) /\ Len(fs) = n /\ \A k \in 1 .. n : fs[k] = file.lists[k].feature
  <2>1. \A k \in 1 .. n : file.lists[k].feature \in X
    BY <1>2
  <2> HIDE DEF X
  <2> QED BY <1>1, <2>1, IsASeq
<1> HIDE DEF fs, w
<1>7. Distinct(fs)
  BY <1>0, <1>6 DEF Distinct
<1>8. z.features = fs /\ z.weight = w /\ z.max = file.max
  OBVIOUS
<1>9. z = [features |-> z.features, weight |-> z.weight, max |-> z.max, trans |-> z.trans]
  OBVIOUS
<1>10. m = RefreshCache(z)
  <2>1. ~ \E p \in P : w[p] = 0
    BY <1>4
  <2> QED BY <2>1 DEF Deserialize, n, P, w, fs
<1> HIDE DEF z, m
<1>11. IsLoose(z, K)
  BY <1>0, <1>4, <1>5, <1>6, <1>7, <1>8, <1>9 DEF IsLoose
<1>12. /\ IsModel(m, K) /\ Cached(m) /\ Fresh(m) /\ m.max = file.max /\ m.features = fs /\ m.weight = w
  BY <1>8, <1>10, <1>11, CacheRefreshed, RefreshedIsFresh
<1>13. NoZeros(m)
  BY <1>4, <1>12 DEF NoZeros
<1>14. ASSUME NEW f, NEW l, NEW v, Says(m, f, l, v) PROVE FileSays(file, f, l, v)
  <2>1. PICK p \in P : fs[p[1]] = f /\ p[2] = l /\ w[p] = v
    BY <1>4, <1>12, <1>14 DEF Says
  <2>2. /\ p[1] \in 1 .. n /\ file.lists[p[1]].feature = f /\ l \in DOMAIN file.lists[p[1]].weights
        /\ file.lists[p[1]].weights[l] = v
    BY <1>3, <1>4, <1>6, <2>1
  <2> QED BY <2>2 DEF FileSays, n
<1>15. ASSUME NEW f, NEW l, NEW v, FileSays(file, f, l, v) PROVE Says(m, f, l, v)
  <2>1. PICK k \in 1 .. n : /\ file.lists[k].feature = f /\ l \in DOMAIN file.lists[k].weights
                            /\ file.lists[k].weights[l] = v
    BY <1>15 DEF FileSays, n
  <2> DEFINE p == <<k, l>>
  <2>2. p \in P /\ p[1] = k /\ p[2] = l
    BY <1>3, <2>1
  <2> HIDE DEF p
  <2>3. p \in DOMAIN m.weight /\ m.features[p[1]] = f /\ p[2] = l /\ m.weight[p] = v
    BY <1>4, <1>6, <1>12, <2>1, <2>2
  <2> QED BY <2>3 DEF Says
<1> QED BY <1>12, <1>13, <1>14, <1>15 DEF IsLoaded, m

-----------------------------------------------------------------------------
(***************************************************************************)
(* Sentences of at least one word, with uids up to n for features and some *)
(* of b labels for tags.                                                   *)
(***************************************************************************)
IndexedWords(n) == [label : Nat, features : Seq((1 .. n) \X Int)]
IndexedSentences(n, b) ==
  {s \in [words : Seq(IndexedWords(n)), tags : SUBSET (0 .. b - 1)] :
     s.words # <<>> /\ s.tags # {}}

LEMMA IndexedSentencesGrow ==
  ASSUME NEW n \in Nat, NEW a \in Nat, n <= a, NEW b \in Int, NEW c \in Int, b <= c
  PROVE  IndexedSentences(n, b) \subseteq IndexedSentences(a, c)
<1> DEFINE X == (1 .. n) \X Int
<1> DEFINE Y == (1 .. a) \X Int
<1>1. X \subseteq Y /\ SUBSET (0 .. b - 1) \subseteq SUBSET (0 .. c - 1)
  OBVIOUS
<1> HIDE DEF X, Y
<1>2. Seq(X) \subseteq Seq(Y)
  BY <1>1
<1> DEFINE V == [label : Nat, features : Seq(X)]
<1> DEFINE W == [label : Nat, features : Seq(Y)]
<1>3. V \subseteq W
  BY <1>2
<1> HIDE DEF V, W
<1>4. Seq(V) \subseteq Seq(W)
  BY <1>3
<1>5. IndexedWords(n) = V /\ IndexedWords(a) = W
  BY DEF IndexedWords, V, W, X, Y
<1> QED BY <1>1, <1>4, <1>5 DEF IndexedSentences

(* The features of a word are indexed by the numbers of a model's          *)
(* features.                                                               *)
LEMMA IndexedIs ==
  ASSUME NEW K, NEW m, IsModel(m, K), NEW fs \in Seq(FeatureLines(K))
  PROVE  Indexed(m, fs) \in Seq((1 .. Len(m.features)) \X Int)
<1> DEFINE X == FeaturesOf(K, m.max)
<1> DEFINE n == Len(m.features)
<1> DEFINE found == [k \in DOMAIN fs |-> <<FindFeature(m, fs[k][1], fs[k][2]), fs[k][3]>>]
<1> DEFINE S == {p \in ToSet(found) : p[1] # 0}
<1> DEFINE T == (0 .. n) \X Int
<1>0. m.features \in Seq(X)
  BY DEF IsModel
<1> HIDE DEF X
<1>1. \A set, id : FindFeature(m, set, id) \in 0 .. n
  BY <1>0, FoundFeature DEF IsFound
<1>2. Len(fs) \in Nat /\ DOMAIN fs = 1 .. Len(fs) /\ \A k \in 1 .. Len(fs) : fs[k][3] \in Int
  <2>1. \A f \in FeatureLines(K) : f[3] \in Int
    BY DEF FeatureLines
  <2> QED BY <2>1, LenProperties, ElementOfSeq
<1> HIDE DEF n
<1>3. found \in Seq(T)
  <2>1. found = [k \in 1 .. Len(fs) |-> found[k]] /\ \A k \in 1 .. Len(fs) : found[k] \in T
    BY <1>1, <1>2
  <2> HIDE DEF found, T
  <2> QED BY <1>2, <2>1, IsASeq
<1>4. Indexed(m, fs) = Kept(found, S)
  BY DEF Indexed
<1> DEFINE Y == (1 .. n) \X Int
<1>5. T \cap S \subseteq Y
  OBVIOUS
<1> HIDE DEF found, S, T, Y
<1>6. Kept(found, S) \in Seq(T \cap S)
  BY <1>3, KeptType
<1> DEFINE Z == T \cap S
<1>7. Z \subseteq Y /\ Indexed(m, fs) \in Seq(Z)
  BY <1>4, <1>5, <1>6
<1> HIDE DEF Z
<1>8. Indexed(m, fs) \in Seq(Y)
  BY <1>7
<1> QED BY <1>8 DEF Y, n

(* Sentences of at least one word.                                         *)
SomeWords(data) == \A k \in 1 .. Len(data) : data[k].words # <<>>

LEMMA IndexDataIs ==
  ASSUME NEW K, NEW m, IsModel(m, K), m.max > 0, NEW B, NEW data \in Seq(Sentences(K, B)),
         SomeWords(data)
  PROVE  IndexData(m, data) \in Seq(IndexedSentences(Len(m.features), m.max))
<1> DEFINE n == Len(data)
<1> DEFINE U == IndexedSentences(Len(m.features), m.max)
<1> DEFINE valid(s) == ToSet(s.tags) \cap LabelsOf(m)
<1> DEFINE word(w) == [label |-> w.label, features |-> Indexed(m, w.features)]
<1> DEFINE words(s) == [t \in DOMAIN s.words |-> word(s.words[t])]
<1> DEFINE sentence(s) == [words |-> words(s),
                           tags |-> IF valid(s) = {} THEN LabelsOf(m) ELSE valid(s)]
<1>0. n \in Nat /\ DOMAIN data = 1 .. n /\ \A k \in 1 .. n : data[k] \in Sentences(K, B)
  BY LenProperties, ElementOfSeq
<1>1. IndexData(m, data) = [k \in 1 .. n |-> sentence(data[k])]
  BY <1>0 DEF IndexData
<1>2. ASSUME NEW s \in Sentences(K, B), s.words # <<>> PROVE sentence(s) \in U
  <2>1. s.words \in Seq(Words(K, B))
    BY DEF Sentences
  <2>2. Len(s.words) \in Nat /\ DOMAIN s.words = 1 .. Len(s.words)
        /\ \A t \in 1 .. Len(s.words) : s.words[t] \in Words(K, B)
    BY <2>1, LenProperties, ElementOfSeq
  <2>3. \A w \in Words(K, B) : word(w) \in IndexedWords(Len(m.features))
    <3>1. ASSUME NEW w \in Words(K, B) PROVE word(w) \in IndexedWords(Len(m.features))
      <4>1. w.label \in Nat /\ w.features \in Seq(FeatureLines(K))
        BY DEF Words
      <4>2. Indexed(m, w.features) \in Seq((1 .. Len(m.features)) \X Int)
        BY <4>1, IndexedIs
      <4> QED BY <4>1, <4>2 DEF IndexedWords
    <3> QED BY <3>1
  <2>4. words(s) \in Seq(IndexedWords(Len(m.features))) /\ words(s) # <<>>
    <3> DEFINE W == IndexedWords(Len(m.features))
    <3> DEFINE x == [t \in 1 .. Len(s.words) |-> word(s.words[t])]
    <3>1. \A t \in 1 .. Len(s.words) : word(s.words[t]) \in W
      BY <2>2, <2>3
    <3> HIDE DEF W, word
    <3>2. x \in Seq(W) /\ Len(x) = Len(s.words)
      BY <2>2, <3>1, IsASeq
    <3>3. Len(s.words) # 0
      BY <1>2, <2>1, EmptySeq
    <3>4. words(s) = x
      BY <2>2
    <3> HIDE DEF x
    <3>5. x # <<>>
      BY <3>2, <3>3
    <3> QED BY <3>2, <3>4, <3>5 DEF W
  <2>5. LabelsOf(m) # {} /\ LabelsOf(m) = 0 .. m.max - 1 /\ valid(s) \subseteq LabelsOf(m)
    <3>1. m.max \in Nat
      BY DEF IsModel
    <3>2. 0 \in 0 .. m.max - 1
      BY <3>1
    <3> QED BY <3>2 DEF LabelsOf
  <2> HIDE DEF words, valid
  <2> QED BY <2>4, <2>5 DEF IndexedSentences
<1>3. \A k \in 1 .. n : sentence(data[k]) \in U
  BY <1>0, <1>2 DEF SomeWords
<1> HIDE DEF sentence, U, n
<1>4. [k \in 1 .. n |-> sentence(data[k])] \in Seq(U)
  BY <1>0, <1>3, IsASeq
<1> QED BY <1>1, <1>4 DEF U

-----------------------------------------------------------------------------
(* The subsets of 1 .. n, and what is left of them without the largest.    *)
LEMMA SmallSubsets ==
  ASSUME NEW n \in Nat, NEW s \in SUBSET (1 .. n)
  PROVE  /\ Cardinality(s) \in Nat /\ Cardinality(s) <= n /\ (Cardinality(s) <= 0 => s = {})
         /\ s # {} => /\ Max(s) \in 1 .. n /\ s \ {Max(s)} \in SUBSET (1 .. n)
                      /\ \A k \in Int : Cardinality(s) <= k + 1 => Cardinality(s \ {Max(s)}) <= k
<1>1. IsFiniteSet(1 .. n) /\ Cardinality(1 .. n) = n
  BY FS_Interval
<1>2. IsFiniteSet(s) /\ Cardinality(s) <= n /\ Cardinality(s) \in Nat
  BY <1>1, FS_Subset, FS_CardinalityType
<1>3. Cardinality(s) <= 0 => s = {}
  BY <1>2, FS_EmptySet
<1>4. ASSUME s # {} PROVE Max(s) \in s /\ Cardinality(s \ {Max(s)}) = Cardinality(s) - 1
  <2>1. Max(s) \in s
    BY <1>4, LargestOf
  <2> QED BY <1>2, <2>1, FS_RemoveElement
<1>5. ASSUME s # {}, NEW k \in Int, Cardinality(s) <= k + 1 PROVE Cardinality(s \ {Max(s)}) <= k
  BY <1>2, <1>4, <1>5
<1> QED BY <1>2, <1>3, <1>4, <1>5

(* Training on one sentence after another.                                 *)
TrainRun(g, alg, crf, rate, r, chunk) ==
  /\ g[0] = r
  /\ \A k \in 1 .. Len(chunk) : g[k] = TrainOn(alg, crf, rate, g[k - 1], chunk[k])
  /\ FoldLeft(LAMBDA x, s : TrainOn(alg, crf, rate, x, s), r, chunk) = g[Len(chunk)]

LEMMA TrainRuns ==
  ASSUME NEW alg, NEW crf, NEW rate, NEW r, NEW X, NEW chunk \in Seq(X)
  PROVE  \E g : TrainRun(g, alg, crf, rate, r, chunk)
<1> DEFINE n == Len(chunk)
<1> DEFINE op(y, x) == TrainOn(alg, crf, rate, y, x)
<1> DEFINE seq == [k \in 1 .. n |-> chunk[k]]
<1> DEFINE base == r
<1> DEFINE after(it, s) == IF s = {} THEN base ELSE op(it[s \ {Max(s)}], seq[Max(s)])
<1>0. n \in Nat /\ chunk = seq
  BY LenProperties
<1>1. DOMAIN seq = 1 .. n /\ \A k \in 1 .. n : seq[k] = chunk[k]
  OBVIOUS
<1>2. FoldLeft(LAMBDA x, s : TrainOn(alg, crf, rate, x, s), r, chunk) = FoldLeft(op, base, seq)
  BY <1>0
<1> HIDE DEF n, op, seq, base
<1> DEFINE Good(it, k) == \A s \in SUBSET (1 .. n) : Cardinality(s) <= k => it[s] = after(it, s)
<1> DEFINE K == {k \in 0 .. n : \E it : Good(it, k)}
<1>3. 0 \in K
  <2> DEFINE it == [s \in SUBSET (1 .. n) |-> base]
  <2>1. \A s \in SUBSET (1 .. n) : Cardinality(s) <= 0 => s = {}
    BY <1>0, SmallSubsets
  <2>2. Good(it, 0)
    BY <2>1
  <2>3. 0 \in 0 .. n
    BY <1>0
  <2> HIDE DEF Good
  <2> QED BY <2>2, <2>3
<1>4. ASSUME NEW k \in 0 .. n - 1, k \in K PROVE k + 1 \in K
  <2>1. PICK it : Good(it, k)
    BY <1>4
  <2> DEFINE jt == [s \in SUBSET (1 .. n) |-> after(it, s)]
  <2>2. \A s \in SUBSET (1 .. n) : Cardinality(s) <= k => jt[s] = it[s]
    BY <2>1
  <2>3. ASSUME NEW s \in SUBSET (1 .. n), Cardinality(s) <= k + 1 PROVE jt[s] = after(jt, s)
    <3>1. CASE s = {}
      BY <3>1
    <3>2. CASE s # {}
      <4>a. k \in Int
        OBVIOUS
      <4>1. s \ {Max(s)} \in SUBSET (1 .. n) /\ Cardinality(s \ {Max(s)}) <= k
        <5> HIDE DEF K, Good, after, jt
        <5> QED BY <1>0, <2>3, <3>2, <4>a, SmallSubsets
      <4>2. jt[s \ {Max(s)}] = it[s \ {Max(s)}]
        BY <2>2, <4>1
      <4>3. jt[s] = after(it, s)
        OBVIOUS
      <4> HIDE DEF jt
      <4> QED BY <4>2, <4>3
    <3> QED BY <3>1, <3>2
  <2> HIDE DEF jt
  <2>4. Good(jt, k + 1)
    BY <2>3
  <2>5. k + 1 \in 0 .. n
    BY <1>0
  <2> HIDE DEF Good
  <2> QED BY <2>4, <2>5
<1>5. \E it : it = [s \in SUBSET (1 .. n) |-> after(it, s)]
  <2>1. n \in K
    <3> HIDE DEF K
    <3>1. \A k \in 0 .. n : k \in K
      BY <1>0, <1>3, <1>4, UpTo
    <3> QED BY <1>0, <3>1
  <2>2. PICK it : Good(it, n)
    BY <2>1
  <2> DEFINE jt == [s \in SUBSET (1 .. n) |-> it[s]]
  <2>3. ASSUME NEW s \in SUBSET (1 .. n) PROVE it[s] = after(jt, s)
    <3>1. it[s] = after(it, s)
      BY <1>0, <2>2, SmallSubsets
    <3>2. CASE s # {}
      <4>1. s \ {Max(s)} \in SUBSET (1 .. n)
        BY <1>0, <3>2, SmallSubsets
      <4>2. jt[s \ {Max(s)}] = it[s \ {Max(s)}]
        BY <4>1
      <4> HIDE DEF jt
      <4> QED BY <3>1, <4>2
    <3> QED BY <3>1, <3>2
  <2>4. jt = [s \in SUBSET (1 .. n) |-> after(jt, s)]
    BY <2>3
  <2> HIDE DEF jt, after
  <2> QED BY <2>4
<1>6. PICK it : /\ it = [s \in SUBSET (1 .. n) |-> after(it, s)]
               /\ FoldLeft(LAMBDA x, s : TrainOn(alg, crf, rate, x, s), r, chunk) = it[1 .. n]
  BY <1>1, <1>2, <1>5 DEF FoldLeft, MapThenFoldSet
<1> DEFINE g == [k \in 0 .. n |-> it[1 .. k]]
<1>7. g[0] = base
  <2>1. 1 .. 0 = {} /\ 0 \in 0 .. n /\ {} \in SUBSET (1 .. n)
    BY <1>0
  <2>2. it[{}] = base
    BY <1>6, <2>1
  <2> QED BY <2>1, <2>2
<1>8. ASSUME NEW k \in 1 .. n PROVE g[k] = op(g[k - 1], seq[k])
  <2>1. /\ 1 .. k \in SUBSET (1 .. n) /\ 1 .. k # {} /\ Max(1 .. k) = k
        /\ (1 .. k) \ {k} = 1 .. k - 1
    BY <1>0, LargestOfInterval
  <2>2. it[1 .. k] = op(it[1 .. k - 1], seq[k])
    <3>1. it[1 .. k] = after(it, 1 .. k)
      BY <1>6, <2>1
    <3>2. after(it, 1 .. k) = op(it[(1 .. k) \ {k}], seq[k])
      BY <2>1
    <3> QED BY <2>1, <3>1, <3>2
  <2>3. k \in 0 .. n /\ k - 1 \in 0 .. n
    BY <1>0
  <2> QED BY <2>2, <2>3
<1>9. FoldLeft(LAMBDA x, s : TrainOn(alg, crf, rate, x, s), r, chunk) = g[n]
  <2>1. n \in 0 .. n
    BY <1>0
  <2> QED BY <1>6, <2>1
<1> HIDE DEF g
<1> QED BY <1>1, <1>7, <1>8, <1>9 DEF TrainRun, op, base, n

-----------------------------------------------------------------------------
(***************************************************************************)
(* The sums of the values of v over the subsets of S.  One element or      *)
(* another can be taken out first.                                         *)
(***************************************************************************)
SumIteration(it, v, S, V) ==
  /\ it \in [SUBSET S -> V] /\ it[{}] = 0
  /\ \A s \in SUBSET S : s # {} => \E x \in s : it[s] = v[x] + it[s \ {x}]
  /\ VectorSum(v) = it[S]

LEMMA SumIterates ==
  ASSUME NEW S, IsFiniteSet(S), NEW v, DOMAIN v = S,
         NEW V, 0 \in V, \A x \in S : \A y \in V : v[x] + y \in V
  PROVE  \E it : SumIteration(it, v, S, V)
<1> DEFINE choose == [s \in SUBSET S |-> CHOOSE x \in s : TRUE]
<1> DEFINE F == [x \in S |-> [y \in V |-> v[x] + y]]
<1>1. Chooses(choose, S) /\ \A s \in SUBSET S : choose[s] = CHOOSE x \in s : TRUE
  BY DEF Chooses
<1>2. Steps(F, V, S) /\ \A x \in S : \A y \in V : F[x][y] = v[x] + y
  BY DEF Steps
<1> HIDE DEF F, choose
<1>3. PICK it : Iteration(it, S, V, 0, F, choose)
  BY <1>1, <1>2, IterationExists
<1>4. ASSUME NEW s \in SUBSET S, s # {}
      PROVE  /\ (CHOOSE x \in s : TRUE) \in s /\ it[s \ {CHOOSE x \in s : TRUE}] \in V
             /\ it[s] = v[CHOOSE x \in s : TRUE] + it[s \ {CHOOSE x \in s : TRUE}]
  <2> DEFINE c == choose[s]
  <2>1. c \in s /\ c \in S /\ c = CHOOSE x \in s : TRUE
    BY <1>1, <1>4 DEF Chooses
  <2> HIDE DEF c
  <2>2. it[s] = F[c][it[s \ {c}]] /\ it[s \ {c}] \in V
    BY <1>3, <1>4 DEF Iteration, c
  <2>3. it[s] = v[c] + it[s \ {c}]
    BY <1>2, <2>1, <2>2
  <2> QED BY <2>1, <2>2, <2>3
<1>5. it[{}] = 0 /\ it \in [SUBSET S -> V]
  BY <1>3 DEF Iteration
<1>6. it = [s \in SUBSET S |-> IF s = {} THEN 0
                               ELSE v[CHOOSE x \in s : TRUE] + it[s \ {CHOOSE x \in s : TRUE}]]
  BY <1>4, <1>5, Zenon
<1>7. \E i : i = [s \in SUBSET S |-> IF s = {} THEN 0
                               ELSE v[CHOOSE x \in s : TRUE] + i[s \ {CHOOSE x \in s : TRUE}]]
  BY <1>6
<1>8. PICK i : /\ i = [s \in SUBSET S |-> IF s = {} THEN 0
                               ELSE v[CHOOSE x \in s : TRUE] + i[s \ {CHOOSE x \in s : TRUE}]]
               /\ VectorSum(v) = i[S]
  <2> DEFINE add(x, y) == x + y
  <2> DEFINE val(x) == v[x]
  <2> DEFINE pick(s) == CHOOSE x \in s : TRUE
  <2>1. VectorSum(v) = MapThenFoldSet(add, 0, val, pick, S)
    BY DEF VectorSum, FoldFunction, FoldFunctionOnSet
  <2>2. \E i : i = [s \in SUBSET S |-> IF s = {} THEN 0 ELSE add(val(pick(s)), i[s \ {pick(s)}])]
    BY <1>7
  <2> HIDE DEF add, val, pick
  <2>3. PICK i : /\ i = [s \in SUBSET S |-> IF s = {} THEN 0 ELSE add(val(pick(s)), i[s \ {pick(s)}])]
                 /\ VectorSum(v) = i[S]
    BY <2>1, <2>2 DEF MapThenFoldSet
  <2> QED BY <2>3 DEF add, val, pick
<1> DEFINE P == {s \in SUBSET S : i[s] \in V}
<1>9. ASSUME NEW s \in SUBSET S PROVE s \in P
  <2> DEFINE T == {k \in Nat : \A r \in SUBSET S : Cardinality(r) <= k => r \in P}
  <2>0. \A r \in SUBSET S : IsFiniteSet(r) /\ Cardinality(r) \in Nat
    BY FS_Subset, FS_CardinalityType
  <2>1. 0 \in T
    <3>1. ASSUME NEW r \in SUBSET S, Cardinality(r) <= 0 PROVE r \in P
      <4>1. r = {}
        BY <2>0, <3>1, FS_EmptySet
      <4> QED BY <1>8, <4>1
    <3> QED BY <3>1
  <2>2. ASSUME NEW k \in Nat, k \in T PROVE k + 1 \in T
    <3>1. ASSUME NEW r \in SUBSET S, Cardinality(r) <= k + 1 PROVE r \in P
      <4>1. CASE r = {}
        BY <1>8, <4>1
      <4>2. CASE r # {}
        <5> DEFINE x == CHOOSE x \in r : TRUE
        <5>1. x \in r
          BY <4>2
        <5>2. i[r] = v[x] + i[r \ {x}]
          BY <1>8, <4>2
        <5> HIDE DEF x
        <5>3. Cardinality(r \ {x}) = Cardinality(r) - 1
          BY <2>0, <5>1, FS_RemoveElement
        <5>4. r \ {x} \in SUBSET S /\ Cardinality(r \ {x}) <= k
          BY <2>0, <3>1, <5>3
        <5>5. i[r \ {x}] \in V
          BY <2>2, <5>4
        <5> QED BY <5>1, <5>2, <5>5
      <4> QED BY <4>1, <4>2
    <3> QED BY <3>1
  <2>3. Nat \subseteq T
    <3> HIDE DEF T
    <3> QED BY <2>1, <2>2, NatSetInduction
  <2>4. Cardinality(s) \in T
    BY <2>0, <2>3
  <2> QED BY <2>0, <2>4
<1>10. i \in [SUBSET S -> V] /\ i[{}] = 0
  <2>1. \A s \in SUBSET S : i[s] \in V
    BY <1>9
  <2>2. i = [s \in SUBSET S |-> i[s]]
    BY <1>8
  <2> QED BY <1>8, <2>1, <2>2
<1>11. ASSUME NEW s \in SUBSET S, s # {} PROVE \E x \in s : i[s] = v[x] + i[s \ {x}]
  <2> DEFINE x == CHOOSE x \in s : TRUE
  <2>1. x \in s
    BY <1>11
  <2>2. i[s] = v[x] + i[s \ {x}]
    BY <1>8, <1>11
  <2> QED BY <2>1, <2>2
<1>12. SumIteration(i, v, S, V)
  BY <1>8, <1>10, <1>11 DEF SumIteration
<1> QED BY <1>12

(* A sum is where its steps stay, and one of them is its last.             *)
LEMMA SumIsIn ==
  ASSUME NEW S, IsFiniteSet(S), NEW v, DOMAIN v = S,
         NEW V, 0 \in V, \A x \in S : \A y \in V : v[x] + y \in V
  PROVE  /\ VectorSum(v) \in V
         /\ S # {} => \E x \in S : \E y \in V : VectorSum(v) = v[x] + y
<1>1. PICK it : SumIteration(it, v, S, V)
  BY SumIterates
<1>2. it \in [SUBSET S -> V] /\ VectorSum(v) = it[S] /\ S \in SUBSET S
  BY <1>1 DEF SumIteration
<1>3. S # {} => \E x \in S : VectorSum(v) = v[x] + it[S \ {x}] /\ it[S \ {x}] \in V
  BY <1>1, <1>2 DEF SumIteration
<1> QED BY <1>2, <1>3

-----------------------------------------------------------------------------
(* The score of a label of a word, feature by feature.                     *)
WeighRun(g, m, i, fs) ==
  /\ g \in [0 .. Len(fs) -> Int] /\ g[0] = 0
  /\ \A k \in 1 .. Len(fs) : g[k] = g[k - 1] + WeightOf(m, fs[k][1], i) * fs[k][2]
  /\ FoldLeft(LAMBDA x, f : x + WeightOf(m, f[1], i) * f[2], 0, fs) = g[Len(fs)]

LEMMA WeighRuns ==
  ASSUME NEW m, m.weight \in [DOMAIN m.weight -> Int], NEW i, NEW n0 \in Nat, NEW fs \in Seq((1 .. n0) \X Int)
  PROVE  \E g : WeighRun(g, m, i, fs)
<1> DEFINE n == Len(fs)
<1> DEFINE op(r, x) == r + WeightOf(m, x[1], i) * x[2]
<1> DEFINE seq == [k \in 1 .. n |-> fs[k]]
<1> DEFINE base == 0
<1> DEFINE V == Int
<1> DEFINE F == [k \in 1 .. n |-> [v \in V |-> op(v, seq[k])]]
<1>0. n \in Nat /\ fs = seq
  BY LenProperties
<1>1. base \in V
  OBVIOUS
<1>2. \A k \in 1 .. n : \A v \in V : F[k][v] = op(v, seq[k])
  OBVIOUS
<1>3. DOMAIN seq = 1 .. n /\ \A k \in 1 .. n : seq[k] = fs[k]
  OBVIOUS
<1>4. FoldLeft(LAMBDA x, f : x + WeightOf(m, f[1], i) * f[2], 0, fs) = FoldLeft(op, base, seq)
  BY <1>0
<1> HIDE DEF F, seq
<1>5. ASSUME NEW k \in 1 .. n, NEW v \in V PROVE op(v, seq[k]) \in V
  <2> DEFINE X == (1 .. n0) \X Int
  <2>0. fs \in Seq(X)
    OBVIOUS
  <2> HIDE DEF X
  <2>1. seq[k] \in X
    BY <1>3, <2>0, ElementOfSeq
  <2>2. seq[k][2] \in Int /\ WeightOf(m, seq[k][1], i) \in Int
    BY <2>1, WeightIsInt DEF X
  <2> QED BY <2>2
<1>6. Steps(F, V, 1 .. n)
  <2> HIDE DEF op, V
  <2> QED BY <1>2, <1>5 DEF Steps
<1>7. \E it : it = [s \in SUBSET (1 .. n) |->
                     IF s = {} THEN base ELSE op(it[s \ {Max(s)}], seq[Max(s)])]
  <2>1. PICK it : LeftIteration(it, n, V, base, F)
    BY <1>0, <1>1, <1>6, LeftIterationExists
  <2>2. ASSUME NEW s \in SUBSET (1 .. n), s # {}
        PROVE  it[s] = op(it[s \ {Max(s)}], seq[Max(s)])
    <3>1. Max(s) \in 1 .. n /\ it[s \ {Max(s)}] \in V /\ it[s] = F[Max(s)][it[s \ {Max(s)}]]
      BY <2>1, <2>2 DEF LeftIteration
    <3> HIDE DEF V, op
    <3> QED BY <1>2, <3>1
  <2>3. it \in [SUBSET (1 .. n) -> V] /\ it[{}] = base
    BY <2>1 DEF LeftIteration
  <2> HIDE DEF V, op, base
  <2> QED BY <2>2, <2>3
<1>8. PICK it :
        /\ it = [s \in SUBSET (1 .. n) |->
                   IF s = {} THEN base ELSE op(it[s \ {Max(s)}], seq[Max(s)])]
        /\ FoldLeft(LAMBDA x, f : x + WeightOf(m, f[1], i) * f[2], 0, fs) = it[1 .. n]
  BY <1>3, <1>4, <1>7 DEF FoldLeft, MapThenFoldSet
<1>9. LeftFold(it, n, V, base, F)
  <2>1. it[{}] = base
    BY <1>8
  <2>2. ASSUME NEW s \in SUBSET (1 .. n), s # {}, it[s \ {Max(s)}] \in V
        PROVE  it[s] = F[Max(s)][it[s \ {Max(s)}]]
    <3>1. it[s] = op(it[s \ {Max(s)}], seq[Max(s)]) /\ Max(s) \in 1 .. n
      BY <1>0, <1>8, <2>2, LargestOf
    <3> HIDE DEF V, op
    <3> QED BY <1>2, <2>2, <3>1
  <2> HIDE DEF V, base
  <2> QED BY <2>1, <2>2 DEF LeftFold
<1>10. PICK g : LeftRun(g, n, V, base, F) /\ g[n] = it[1 .. n]
  <2> HIDE DEF n, op, V, base
  <2> QED BY <1>0, <1>1, <1>6, <1>9, LeftRuns
<1>11. ASSUME NEW k \in 1 .. n PROVE g[k] = op(g[k - 1], seq[k])
  <2>1. g[k] = F[k][g[k - 1]] /\ k - 1 \in 0 .. n /\ g \in [0 .. n -> V]
    BY <1>0, <1>10 DEF LeftRun
  <2> HIDE DEF n, V, op
  <2> QED BY <1>2, <2>1
<1>12. g \in [0 .. n -> V] /\ g[0] = base
  BY <1>10 DEF LeftRun
<1> QED BY <1>3, <1>8, <1>10, <1>11, <1>12 DEF WeighRun

-----------------------------------------------------------------------------
(* Columns of whole numbers, one for each label in T: at least one.        *)
Cols(T) == Seq([T -> Int]) \ {<<>>}

LEMMA ColumnJoins ==
  ASSUME NEW T, NEW cols \in Cols(T), NEW c \in [T -> Int]
  PROVE  /\ Last(cols) \in [T -> Int] /\ Head(cols) \in [T -> Int]
         /\ Append(cols, c) \in Cols(T) /\ Len(Append(cols, c)) = Len(cols) + 1
         /\ <<c>> \o cols \in Cols(T) /\ Len(<<c>> \o cols) = Len(cols) + 1
         /\ Len(cols) \in Nat \ {0} /\ DOMAIN cols = 1 .. Len(cols)
         /\ \A t \in 1 .. Len(cols) : cols[t] \in [T -> Int]
<1> DEFINE C == [T -> Int]
<1>0. cols \in Seq(C) /\ cols # <<>> /\ c \in C /\ Cols(T) = Seq(C) \ {<<>>}
  BY DEF Cols
<1> HIDE DEF C
<1>1. Len(cols) \in Nat \ {0} /\ DOMAIN cols = 1 .. Len(cols) /\ \A t \in 1 .. Len(cols) : cols[t] \in C
  BY <1>0, LenProperties, ElementOfSeq, EmptySeq
<1>2. Append(cols, c) \in Seq(C) /\ Len(Append(cols, c)) = Len(cols) + 1
  BY <1>0, AppendProperties
<1>3. <<c>> \in Seq(C) /\ Len(<<c>>) = 1
  BY <1>0
<1>4. <<c>> \o cols \in Seq(C) /\ Len(<<c>> \o cols) = 1 + Len(cols)
  BY <1>0, <1>3, ConcatProperties
<1>5. Append(cols, c) # <<>> /\ <<c>> \o cols # <<>>
  <2>1. Len(<<>>) = 0
    OBVIOUS
  <2> QED BY <1>1, <1>2, <1>4, <2>1
<1>6. Last(cols) = cols[Len(cols)] /\ Head(cols) = cols[1]
  BY <1>0 DEF Last
<1>7. Last(cols) \in C /\ Head(cols) \in C
  BY <1>1, <1>6
<1> QED BY <1>0, <1>1, <1>2, <1>4, <1>5, <1>7 DEF C

(* A recursion that adds a column at every step ends with a column per     *)
(* step and the first.                                                     *)
LEMMA LengthsGrow ==
  ASSUME NEW n \in Nat, NEW T, NEW g \in [0 .. n -> Cols(T)], Len(g[0]) = 1,
         \A k \in 1 .. n : Len(g[k]) = Len(g[k - 1]) + 1
  PROVE  g[n] \in Cols(T) /\ Len(g[n]) = n + 1
<1> DEFINE S == {k \in 0 .. n : Len(g[k]) = k + 1}
<1>1. 0 \in S
  OBVIOUS
<1>2. ASSUME NEW k \in 0 .. n - 1, k \in S PROVE k + 1 \in S
  <2>1. k + 1 \in 1 .. n /\ (k + 1) - 1 = k
    OBVIOUS
  <2> QED BY <1>2, <2>1
<1>3. \A k \in 0 .. n : k \in S
  <2> HIDE DEF S
  <2> QED BY <1>1, <1>2, UpTo
<1>4. n \in 0 .. n
  OBVIOUS
<1> QED BY <1>3, <1>4

(***************************************************************************)
(* What inference is given: potentials of the labels of at least one word, *)
(* and of transitions.                                                     *)
(***************************************************************************)
Net(node, edge, T) ==
  /\ IsFiniteSet(T) /\ T # {}
  /\ node \in Cols(T) /\ edge \in [T \X T -> Int]

NetFacts(node, edge, T) ==
  /\ Len(node) \in Nat \ {0} /\ DOMAIN node = 1 .. Len(node) /\ Len(node) - 1 \in Nat
  /\ \A t \in 1 .. Len(node) : node[t] \in [T -> Int] /\ DOMAIN node[t] = T
  /\ \A t \in 1 .. Len(node) : \A i \in T : node[t][i] \in Int
  /\ \A i, j \in T : edge[<<i, j>>] \in Int
  /\ node[1] \in [T -> Int] /\ DOMAIN node[1] = T
  /\ <<node[1]>> \in Cols(T) /\ Len(<<node[1]>>) = 1
  /\ \A c \in [T -> Int] : <<c>> \in Cols(T) /\ Len(<<c>>) = 1

LEMMA NetHas ==
  ASSUME NEW node, NEW edge, NEW T, Net(node, edge, T)
  PROVE  NetFacts(node, edge, T)
<1>1. PICK i : i \in T
  BY DEF Net
<1>2. PICK c : c \in [T -> Int]
  <2>1. [x \in T |-> 0] \in [T -> Int]
    OBVIOUS
  <2> QED BY <2>1
<1>3. /\ Len(node) \in Nat \ {0} /\ DOMAIN node = 1 .. Len(node)
      /\ \A t \in 1 .. Len(node) : node[t] \in [T -> Int]
  BY <1>2, ColumnJoins DEF Net
<1>4. \A x \in [T -> Int] : <<x>> \in Cols(T) /\ Len(<<x>>) = 1
  BY DEF Cols
<1>5. 1 \in 1 .. Len(node) /\ Len(node) - 1 \in Nat
  BY <1>3
<1>6. \A j, k \in T : edge[<<j, k>>] \in Int
  BY DEF Net
<1> QED BY <1>3, <1>4, <1>5, <1>6 DEF NetFacts

(* A sum of whole numbers is one.                                          *)
LEMMA SumIsInt ==
  ASSUME NEW S, IsFiniteSet(S), NEW v \in [S -> Int]
  PROVE  VectorSum(v) \in Int
<1>1. DOMAIN v = S /\ 0 \in Int /\ \A x \in S : \A y \in Int : v[x] + y \in Int
  OBVIOUS
<1> QED BY <1>1, SumIsIn

(* A scaled product of two columns is a whole number.                      *)
LEMMA DotIsInt ==
  ASSUME NEW S, IsFiniteSet(S), NEW one \in Int, NEW a, NEW b,
         \A i \in S : a[i] \in Int /\ b[i] \in Int
  PROVE  SparseVectorDotProduct(a, b, S, one) \in Int
<1> DEFINE v == [i \in S |-> (a[i] - one) * b[i]]
<1>1. v \in [S -> Int]
  OBVIOUS
<1> HIDE DEF v
<1>2. VectorSum(v) \in Int
  BY <1>1, SumIsInt
<1> QED BY <1>2 DEF SparseVectorDotProduct, v

(* The unit and the precision of the sums are positive.                    *)
LEMMA OneIsInt == One \in Nat /\ One > 0 /\ Precision \in Nat /\ Precision > 0
BY InferenceAssumption

(* A product of whole numbers is one.                                      *)
LEMMA ProductIsInt ==
  ASSUME NEW a \in Int, NEW b \in Int
  PROVE  a * b \in Int
OBVIOUS

(* A quotient of whole numbers is one, by zero as well.                    *)
LEMMA QuotientIsInt ==
  ASSUME NEW a \in Int, NEW b \in Int
  PROVE  Quotient(a, b) \in Int
<1>1. CASE b > 0
  BY <1>1 DEF Quotient
<1>2. CASE b < 0
  <2>1. -b > 0 /\ -a \in Int /\ -b \in Int
    BY <1>2
  <2>2. (-a) \div (-b) \in Int
    BY <2>1
  <2> QED BY <1>2, <2>2 DEF Quotient
<1>3. CASE b = 0
  <2>1. Quotient(a, b) = CHOOSE n \in Int : TRUE
    BY <1>3 DEF Quotient
  <2> QED BY <2>1
<1> QED BY <1>1, <1>2, <1>3

Scaled(x, t, norms) ==
  IF t = 1 THEN Quotient(One * x, norms[1]) ELSE Quotient(One * One * x * norms[t - 1], norms[t])

(* A value that is divided by the norms of the words is a whole number.    *)
LEMMA ScaledIsInt ==
  ASSUME NEW x \in Int, NEW norms \in Seq(Int), NEW t \in 1 .. Len(norms)
  PROVE  Scaled(x, t, norms) \in Int
<1>1. Len(norms) \in Nat /\ \A k \in 1 .. Len(norms) : norms[k] \in Int
  BY LenProperties, ElementOfSeq
<1>2. CASE t = 1
  <2>1. 1 \in 1 .. Len(norms) /\ One * x \in Int
    BY <1>1, OneIsInt
  <2> QED BY <1>1, <1>2, <2>1, QuotientIsInt DEF Scaled
<1>3. CASE t # 1
  <2>1. t - 1 \in 1 .. Len(norms)
    BY <1>1, <1>3
  <2> DEFINE y == norms[t - 1]
  <2>2. y \in Int /\ norms[t] \in Int
    BY <1>1, <2>1
  <2> HIDE DEF y
  <2>3. One * One * x * y \in Int
    BY <2>2, OneIsInt
  <2> QED BY <1>3, <2>2, <2>3, QuotientIsInt DEF Scaled, y
<1> QED BY <1>2, <1>3

-----------------------------------------------------------------------------
(* A column of Forward.                                                    *)
ForwardColumn(prev, node, edge, t) ==
  [i \in DOMAIN node[1] |->
    node[t][i] * VectorSum([j \in DOMAIN node[1] |-> edge[<<j, i>>] * prev[j]])]

LEMMA ForwardColumnIs ==
  ASSUME NEW node, NEW edge, NEW T, Net(node, edge, T),
         NEW prev \in [T -> Int], NEW t \in 2 .. Len(node)
  PROVE  ForwardColumn(prev, node, edge, t) \in [T -> Int]
<1>net. NetFacts(node, edge, T)
  BY NetHas
<1>1. ASSUME NEW i \in T PROVE ForwardColumn(prev, node, edge, t)[i] \in Int
  <2>1. [j \in T |-> edge[<<j, i>>] * prev[j]] \in [T -> Int]
    BY <1>net DEF NetFacts
  <2>2. VectorSum([j \in T |-> edge[<<j, i>>] * prev[j]]) \in Int
    BY <2>1, SumIsInt DEF Net
  <2>3. t \in 1 .. Len(node) /\ node[t][i] \in Int /\ DOMAIN node[1] = T
    BY <1>net DEF NetFacts
  <2> QED BY <2>2, <2>3 DEF ForwardColumn
<1>2. DOMAIN node[1] = T
  BY <1>net DEF NetFacts
<1>3. ForwardColumn(prev, node, edge, t) = [i \in T |-> ForwardColumn(prev, node, edge, t)[i]]
  BY <1>2 DEF ForwardColumn
<1> HIDE DEF ForwardColumn
<1> QED BY <1>1, <1>3

(* Forward, word by word.                                                  *)
ForwardRun(g, T, node, edge) ==
  /\ g \in [0 .. Len(node) - 1 -> Cols(T)] /\ g[0] = <<node[1]>>
  /\ \A k \in 1 .. Len(node) - 1 : g[k] = Append(g[k - 1], ForwardColumn(Last(g[k - 1]), node, edge, k + 1))
  /\ Forward(node, edge) = g[Len(node) - 1]

LEMMA ForwardRuns ==
  ASSUME NEW node, NEW edge, NEW T, Net(node, edge, T)
  PROVE  \E g : ForwardRun(g, T, node, edge)
<1>net. NetFacts(node, edge, T)
  BY NetHas
<1> DEFINE n == Len(node) - 1
<1> DEFINE op(r, x) == Append(r, ForwardColumn(Last(r), node, edge, x))
<1> DEFINE seq == [k \in 1 .. n |-> k + 1]
<1> DEFINE base == <<node[1]>>
<1> DEFINE V == Cols(T)
<1> DEFINE F == [k \in 1 .. n |-> [v \in V |-> op(v, seq[k])]]
<1>0. n \in Nat /\ Len(node) \in Nat
  BY <1>net DEF NetFacts
<1>1. base \in V /\ Len(base) = 1
  BY <1>net DEF NetFacts
<1>2. \A k \in 1 .. n : \A v \in V : F[k][v] = op(v, seq[k])
  OBVIOUS
<1>3. DOMAIN seq = 1 .. n /\ \A k \in 1 .. n : seq[k] = k + 1
  OBVIOUS
<1>4. Forward(node, edge) = FoldLeft(op, base, seq)
  BY <1>0 DEF Forward, ForwardColumn
<1> HIDE DEF F, seq
<1>5. ASSUME NEW k \in 1 .. n, NEW v \in V PROVE op(v, seq[k]) \in V
  <2>1. seq[k] \in 2 .. Len(node)
    BY <1>0, <1>3
  <2> DEFINE t == seq[k]
  <2> HIDE DEF t
  <2>2. Last(v) \in [T -> Int]
    <3>1. PICK c : c \in [T -> Int]
      BY <1>net DEF NetFacts
    <3> QED BY <3>1, ColumnJoins
  <2>3. ForwardColumn(Last(v), node, edge, t) \in [T -> Int]
    BY <2>1, <2>2, ForwardColumnIs DEF t
  <2> QED BY <2>3, ColumnJoins DEF t
<1>6. Steps(F, V, 1 .. n)
  <2> HIDE DEF op, V
  <2> QED BY <1>2, <1>5 DEF Steps
<1>7. \E it : it = [s \in SUBSET (1 .. n) |->
                     IF s = {} THEN base ELSE op(it[s \ {Max(s)}], seq[Max(s)])]
  <2>1. PICK it : LeftIteration(it, n, V, base, F)
    BY <1>0, <1>1, <1>6, LeftIterationExists
  <2>2. ASSUME NEW s \in SUBSET (1 .. n), s # {}
        PROVE  it[s] = op(it[s \ {Max(s)}], seq[Max(s)])
    <3>1. Max(s) \in 1 .. n /\ it[s \ {Max(s)}] \in V /\ it[s] = F[Max(s)][it[s \ {Max(s)}]]
      BY <2>1, <2>2 DEF LeftIteration
    <3> HIDE DEF V, op
    <3> QED BY <1>2, <3>1
  <2>3. it \in [SUBSET (1 .. n) -> V] /\ it[{}] = base
    BY <2>1 DEF LeftIteration
  <2> HIDE DEF V, op, base
  <2> QED BY <2>2, <2>3
<1>8. PICK it :
        /\ it = [s \in SUBSET (1 .. n) |->
                   IF s = {} THEN base ELSE op(it[s \ {Max(s)}], seq[Max(s)])]
        /\ Forward(node, edge) = it[1 .. n]
  BY <1>3, <1>4, <1>7 DEF FoldLeft, MapThenFoldSet
<1>9. LeftFold(it, n, V, base, F)
  <2>1. it[{}] = base
    BY <1>8
  <2>2. ASSUME NEW s \in SUBSET (1 .. n), s # {}, it[s \ {Max(s)}] \in V
        PROVE  it[s] = F[Max(s)][it[s \ {Max(s)}]]
    <3>1. it[s] = op(it[s \ {Max(s)}], seq[Max(s)]) /\ Max(s) \in 1 .. n
      BY <1>0, <1>8, <2>2, LargestOf
    <3> HIDE DEF V, op
    <3> QED BY <1>2, <2>2, <3>1
  <2> HIDE DEF V, base
  <2> QED BY <2>1, <2>2 DEF LeftFold
<1>10. PICK g : LeftRun(g, n, V, base, F) /\ g[n] = it[1 .. n]
  <2> HIDE DEF n, op, V, base
  <2> QED BY <1>0, <1>1, <1>6, <1>9, LeftRuns
<1>11. ASSUME NEW k \in 1 .. n PROVE g[k] = op(g[k - 1], seq[k])
  <2>1. g[k] = F[k][g[k - 1]] /\ k - 1 \in 0 .. n /\ g \in [0 .. n -> V]
    BY <1>0, <1>10 DEF LeftRun
  <2> HIDE DEF n, V, op
  <2> QED BY <1>2, <2>1
<1>12. g \in [0 .. n -> V] /\ g[0] = base
  BY <1>10 DEF LeftRun
<1> QED BY <1>3, <1>8, <1>10, <1>11, <1>12 DEF ForwardRun

(* The forward sums have a column for every word (VanillaCRF: Forward).    *)
LEMMA ForwardIs ==
  ASSUME NEW node, NEW edge, NEW T, Net(node, edge, T)
  PROVE  Forward(node, edge) \in Cols(T) /\ Len(Forward(node, edge)) = Len(node)
<1>net. NetFacts(node, edge, T)
  BY NetHas
<1> DEFINE n == Len(node) - 1
<1>0. n \in Nat /\ Len(node) = n + 1
  BY <1>net DEF NetFacts
<1>1. PICK g : ForwardRun(g, T, node, edge)
  BY ForwardRuns
<1>2. g \in [0 .. n -> Cols(T)] /\ Forward(node, edge) = g[n]
  BY <1>1 DEF ForwardRun
<1>3. Len(g[0]) = 1
  BY <1>1, <1>net DEF ForwardRun, NetFacts
<1>4. ASSUME NEW k \in 1 .. n PROVE Len(g[k]) = Len(g[k - 1]) + 1
  <2>1. k - 1 \in 0 .. n /\ g[k - 1] \in Cols(T)
    BY <1>0, <1>2
  <2> DEFINE t == k + 1
  <2> DEFINE c == ForwardColumn(Last(g[k - 1]), node, edge, t)
  <2>2. t \in 2 .. Len(node)
    BY <1>0
  <2>3. Last(g[k - 1]) \in [T -> Int]
    <3>1. PICK d : d \in [T -> Int]
      BY <1>net DEF NetFacts
    <3> QED BY <2>1, <3>1, ColumnJoins
  <2>4. c \in [T -> Int]
    BY <2>2, <2>3, ForwardColumnIs
  <2>5. g[k] = Append(g[k - 1], c)
    BY <1>1 DEF ForwardRun
  <2> HIDE DEF c
  <2> QED BY <2>1, <2>4, <2>5, ColumnJoins
<1> HIDE DEF n
<1>5. g[n] \in Cols(T) /\ Len(g[n]) = n + 1
  BY <1>0, <1>2, <1>3, <1>4, LengthsGrow
<1> QED BY <1>0, <1>2, <1>5

-----------------------------------------------------------------------------
(* A column of SparseForward.                                              *)
SparseForwardColumn(prev, node, edge, sparse, t) ==
  [i \in DOMAIN node[1] |->
    node[t][i] * (One * VectorSum(prev)
      + SparseVectorDotProduct([j \in DOMAIN node[1] |-> edge[<<j, i>>]], prev,
                               {j \in DOMAIN node[1] : <<j, i>> \in sparse}, One))]

LEMMA SparseForwardColumnIs ==
  ASSUME NEW node, NEW edge, NEW T, Net(node, edge, T), NEW sparse,
         NEW prev \in [T -> Int], NEW t \in 2 .. Len(node)
  PROVE  SparseForwardColumn(prev, node, edge, sparse, t) \in [T -> Int]
<1>net. NetFacts(node, edge, T)
  BY NetHas
<1>1. ASSUME NEW i \in T PROVE SparseForwardColumn(prev, node, edge, sparse, t)[i] \in Int
  <2> DEFINE a == [j \in T |-> edge[<<j, i>>]]
  <2> DEFINE S == {j \in T : <<j, i>> \in sparse}
  <2>0. t \in 1 .. Len(node) /\ DOMAIN node[1] = T /\ node[t][i] \in Int
    BY <1>net DEF NetFacts
  <2>1. IsFiniteSet(T) /\ IsFiniteSet(S) /\ \A j \in S : a[j] \in Int /\ prev[j] \in Int
    BY <1>net, FS_Subset DEF Net, NetFacts
  <2> DEFINE dot == SparseVectorDotProduct(a, prev, S, One)
  <2> DEFINE sum == VectorSum(prev)
  <2> DEFINE x == node[t][i]
  <2>a. SparseForwardColumn(prev, node, edge, sparse, t)[i] = x * (One * sum + dot)
    BY <2>0 DEF SparseForwardColumn
  <2> HIDE DEF a, S
  <2>2. dot \in Int /\ sum \in Int /\ One \in Int /\ x \in Int
    BY <2>0, <2>1, OneIsInt, DotIsInt, SumIsInt
  <2> HIDE DEF dot, sum, x
  <2>3. x * (One * sum + dot) \in Int
    BY <2>2
  <2> QED BY <2>a, <2>3
<1>2. DOMAIN node[1] = T
  BY <1>net DEF NetFacts
<1>3. SparseForwardColumn(prev, node, edge, sparse, t) = [i \in T |-> SparseForwardColumn(prev, node, edge, sparse, t)[i]]
  BY <1>2 DEF SparseForwardColumn
<1> HIDE DEF SparseForwardColumn
<1> QED BY <1>1, <1>3

(* SparseForward, word by word.                                            *)
SparseForwardRun(g, T, node, edge, sparse) ==
  /\ g \in [0 .. Len(node) - 1 -> Cols(T)] /\ g[0] = <<node[1]>>
  /\ \A k \in 1 .. Len(node) - 1 : g[k] = Append(g[k - 1], SparseForwardColumn(Last(g[k - 1]), node, edge, sparse, k + 1))
  /\ SparseForward(node, edge, sparse) = g[Len(node) - 1]

LEMMA SparseForwardRuns ==
  ASSUME NEW node, NEW edge, NEW T, Net(node, edge, T), NEW sparse
  PROVE  \E g : SparseForwardRun(g, T, node, edge, sparse)
<1>net. NetFacts(node, edge, T)
  BY NetHas
<1> DEFINE n == Len(node) - 1
<1> DEFINE op(r, x) == Append(r, SparseForwardColumn(Last(r), node, edge, sparse, x))
<1> DEFINE seq == [k \in 1 .. n |-> k + 1]
<1> DEFINE base == <<node[1]>>
<1> DEFINE V == Cols(T)
<1> DEFINE F == [k \in 1 .. n |-> [v \in V |-> op(v, seq[k])]]
<1>0. n \in Nat /\ Len(node) \in Nat
  BY <1>net DEF NetFacts
<1>1. base \in V /\ Len(base) = 1
  BY <1>net DEF NetFacts
<1>2. \A k \in 1 .. n : \A v \in V : F[k][v] = op(v, seq[k])
  OBVIOUS
<1>3. DOMAIN seq = 1 .. n /\ \A k \in 1 .. n : seq[k] = k + 1
  OBVIOUS
<1>4. SparseForward(node, edge, sparse) = FoldLeft(op, base, seq)
  BY <1>0 DEF SparseForward, SparseForwardColumn
<1> HIDE DEF F, seq
<1>5. ASSUME NEW k \in 1 .. n, NEW v \in V PROVE op(v, seq[k]) \in V
  <2>1. seq[k] \in 2 .. Len(node)
    BY <1>0, <1>3
  <2> DEFINE t == seq[k]
  <2> HIDE DEF t
  <2>2. Last(v) \in [T -> Int]
    <3>1. PICK c : c \in [T -> Int]
      BY <1>net DEF NetFacts
    <3> QED BY <3>1, ColumnJoins
  <2>3. SparseForwardColumn(Last(v), node, edge, sparse, t) \in [T -> Int]
    BY <2>1, <2>2, SparseForwardColumnIs DEF t
  <2> QED BY <2>3, ColumnJoins DEF t
<1>6. Steps(F, V, 1 .. n)
  <2> HIDE DEF op, V
  <2> QED BY <1>2, <1>5 DEF Steps
<1>7. \E it : it = [s \in SUBSET (1 .. n) |->
                     IF s = {} THEN base ELSE op(it[s \ {Max(s)}], seq[Max(s)])]
  <2>1. PICK it : LeftIteration(it, n, V, base, F)
    BY <1>0, <1>1, <1>6, LeftIterationExists
  <2>2. ASSUME NEW s \in SUBSET (1 .. n), s # {}
        PROVE  it[s] = op(it[s \ {Max(s)}], seq[Max(s)])
    <3>1. Max(s) \in 1 .. n /\ it[s \ {Max(s)}] \in V /\ it[s] = F[Max(s)][it[s \ {Max(s)}]]
      BY <2>1, <2>2 DEF LeftIteration
    <3> HIDE DEF V, op
    <3> QED BY <1>2, <3>1
  <2>3. it \in [SUBSET (1 .. n) -> V] /\ it[{}] = base
    BY <2>1 DEF LeftIteration
  <2> HIDE DEF V, op, base
  <2> QED BY <2>2, <2>3
<1>8. PICK it :
        /\ it = [s \in SUBSET (1 .. n) |->
                   IF s = {} THEN base ELSE op(it[s \ {Max(s)}], seq[Max(s)])]
        /\ SparseForward(node, edge, sparse) = it[1 .. n]
  BY <1>3, <1>4, <1>7 DEF FoldLeft, MapThenFoldSet
<1>9. LeftFold(it, n, V, base, F)
  <2>1. it[{}] = base
    BY <1>8
  <2>2. ASSUME NEW s \in SUBSET (1 .. n), s # {}, it[s \ {Max(s)}] \in V
        PROVE  it[s] = F[Max(s)][it[s \ {Max(s)}]]
    <3>1. it[s] = op(it[s \ {Max(s)}], seq[Max(s)]) /\ Max(s) \in 1 .. n
      BY <1>0, <1>8, <2>2, LargestOf
    <3> HIDE DEF V, op
    <3> QED BY <1>2, <2>2, <3>1
  <2> HIDE DEF V, base
  <2> QED BY <2>1, <2>2 DEF LeftFold
<1>10. PICK g : LeftRun(g, n, V, base, F) /\ g[n] = it[1 .. n]
  <2> HIDE DEF n, op, V, base
  <2> QED BY <1>0, <1>1, <1>6, <1>9, LeftRuns
<1>11. ASSUME NEW k \in 1 .. n PROVE g[k] = op(g[k - 1], seq[k])
  <2>1. g[k] = F[k][g[k - 1]] /\ k - 1 \in 0 .. n /\ g \in [0 .. n -> V]
    BY <1>0, <1>10 DEF LeftRun
  <2> HIDE DEF n, V, op
  <2> QED BY <1>2, <2>1
<1>12. g \in [0 .. n -> V] /\ g[0] = base
  BY <1>10 DEF LeftRun
<1> QED BY <1>3, <1>8, <1>10, <1>11, <1>12 DEF SparseForwardRun

(* So have the sparse ones (FrenchVanillaCRF: Forward).                    *)
LEMMA SparseForwardIs ==
  ASSUME NEW node, NEW edge, NEW T, Net(node, edge, T), NEW sparse
  PROVE  SparseForward(node, edge, sparse) \in Cols(T) /\ Len(SparseForward(node, edge, sparse)) = Len(node)
<1>net. NetFacts(node, edge, T)
  BY NetHas
<1> DEFINE n == Len(node) - 1
<1>0. n \in Nat /\ Len(node) = n + 1
  BY <1>net DEF NetFacts
<1>1. PICK g : SparseForwardRun(g, T, node, edge, sparse)
  BY SparseForwardRuns
<1>2. g \in [0 .. n -> Cols(T)] /\ SparseForward(node, edge, sparse) = g[n]
  BY <1>1 DEF SparseForwardRun
<1>3. Len(g[0]) = 1
  BY <1>1, <1>net DEF SparseForwardRun, NetFacts
<1>4. ASSUME NEW k \in 1 .. n PROVE Len(g[k]) = Len(g[k - 1]) + 1
  <2>1. k - 1 \in 0 .. n /\ g[k - 1] \in Cols(T)
    BY <1>0, <1>2
  <2> DEFINE t == k + 1
  <2> DEFINE c == SparseForwardColumn(Last(g[k - 1]), node, edge, sparse, t)
  <2>2. t \in 2 .. Len(node)
    BY <1>0
  <2>3. Last(g[k - 1]) \in [T -> Int]
    <3>1. PICK d : d \in [T -> Int]
      BY <1>net DEF NetFacts
    <3> QED BY <2>1, <3>1, ColumnJoins
  <2>4. c \in [T -> Int]
    BY <2>2, <2>3, SparseForwardColumnIs
  <2>5. g[k] = Append(g[k - 1], c)
    BY <1>1 DEF SparseForwardRun
  <2> HIDE DEF c
  <2> QED BY <2>1, <2>4, <2>5, ColumnJoins
<1> HIDE DEF n
<1>5. g[n] \in Cols(T) /\ Len(g[n]) = n + 1
  BY <1>0, <1>2, <1>3, <1>4, LengthsGrow
<1> QED BY <1>0, <1>2, <1>5

-----------------------------------------------------------------------------
(* A column of ConstrainedForward.                                         *)
ConstrainedForwardColumn(prev, node, edge, tags, t) ==
  [i \in DOMAIN node[1] |->
    IF i \notin tags THEN 0
    ELSE node[t][i] * SparseVectorDotProduct([j \in tags |-> edge[<<j, i>>]], prev, tags, One)]

LEMMA ConstrainedForwardColumnIs ==
  ASSUME NEW node, NEW edge, NEW T, Net(node, edge, T), NEW tags \in SUBSET T,
         NEW prev \in [T -> Int], NEW t \in 2 .. Len(node)
  PROVE  ConstrainedForwardColumn(prev, node, edge, tags, t) \in [T -> Int]
<1>net. NetFacts(node, edge, T)
  BY NetHas
<1>1. ASSUME NEW i \in T PROVE ConstrainedForwardColumn(prev, node, edge, tags, t)[i] \in Int
  <2> DEFINE a == [j \in tags |-> edge[<<j, i>>]]
  <2>0. t \in 1 .. Len(node) /\ DOMAIN node[1] = T /\ node[t][i] \in Int
    BY <1>net DEF NetFacts
  <2>1. IsFiniteSet(tags) /\ \A j \in tags : a[j] \in Int /\ prev[j] \in Int
    BY <1>net, FS_Subset DEF Net, NetFacts
  <2> HIDE DEF a
  <2>2. SparseVectorDotProduct(a, prev, tags, One) \in Int
    BY <2>1, OneIsInt, DotIsInt
  <2> QED BY <2>0, <2>2 DEF a, ConstrainedForwardColumn
<1>2. DOMAIN node[1] = T
  BY <1>net DEF NetFacts
<1>3. ConstrainedForwardColumn(prev, node, edge, tags, t) = [i \in T |-> ConstrainedForwardColumn(prev, node, edge, tags, t)[i]]
  BY <1>2 DEF ConstrainedForwardColumn
<1> HIDE DEF ConstrainedForwardColumn
<1> QED BY <1>1, <1>3

(* ConstrainedForward, word by word.                                       *)
ConstrainedForwardRun(g, T, node, edge, tags) ==
  /\ g \in [0 .. Len(node) - 1 -> Cols(T)] /\ g[0] = <<node[1]>>
  /\ \A k \in 1 .. Len(node) - 1 : g[k] = Append(g[k - 1], ConstrainedForwardColumn(Last(g[k - 1]), node, edge, tags, k + 1))
  /\ ConstrainedForward(node, edge, tags) = g[Len(node) - 1]

LEMMA ConstrainedForwardRuns ==
  ASSUME NEW node, NEW edge, NEW T, Net(node, edge, T), NEW tags \in SUBSET T
  PROVE  \E g : ConstrainedForwardRun(g, T, node, edge, tags)
<1>net. NetFacts(node, edge, T)
  BY NetHas
<1> DEFINE n == Len(node) - 1
<1> DEFINE op(r, x) == Append(r, ConstrainedForwardColumn(Last(r), node, edge, tags, x))
<1> DEFINE seq == [k \in 1 .. n |-> k + 1]
<1> DEFINE base == <<node[1]>>
<1> DEFINE V == Cols(T)
<1> DEFINE F == [k \in 1 .. n |-> [v \in V |-> op(v, seq[k])]]
<1>0. n \in Nat /\ Len(node) \in Nat
  BY <1>net DEF NetFacts
<1>1. base \in V /\ Len(base) = 1
  BY <1>net DEF NetFacts
<1>2. \A k \in 1 .. n : \A v \in V : F[k][v] = op(v, seq[k])
  OBVIOUS
<1>3. DOMAIN seq = 1 .. n /\ \A k \in 1 .. n : seq[k] = k + 1
  OBVIOUS
<1>4. ConstrainedForward(node, edge, tags) = FoldLeft(op, base, seq)
  BY <1>0 DEF ConstrainedForward, ConstrainedForwardColumn
<1> HIDE DEF F, seq
<1>5. ASSUME NEW k \in 1 .. n, NEW v \in V PROVE op(v, seq[k]) \in V
  <2>1. seq[k] \in 2 .. Len(node)
    BY <1>0, <1>3
  <2> DEFINE t == seq[k]
  <2> HIDE DEF t
  <2>2. Last(v) \in [T -> Int]
    <3>1. PICK c : c \in [T -> Int]
      BY <1>net DEF NetFacts
    <3> QED BY <3>1, ColumnJoins
  <2>3. ConstrainedForwardColumn(Last(v), node, edge, tags, t) \in [T -> Int]
    BY <2>1, <2>2, ConstrainedForwardColumnIs DEF t
  <2> QED BY <2>3, ColumnJoins DEF t
<1>6. Steps(F, V, 1 .. n)
  <2> HIDE DEF op, V
  <2> QED BY <1>2, <1>5 DEF Steps
<1>7. \E it : it = [s \in SUBSET (1 .. n) |->
                     IF s = {} THEN base ELSE op(it[s \ {Max(s)}], seq[Max(s)])]
  <2>1. PICK it : LeftIteration(it, n, V, base, F)
    BY <1>0, <1>1, <1>6, LeftIterationExists
  <2>2. ASSUME NEW s \in SUBSET (1 .. n), s # {}
        PROVE  it[s] = op(it[s \ {Max(s)}], seq[Max(s)])
    <3>1. Max(s) \in 1 .. n /\ it[s \ {Max(s)}] \in V /\ it[s] = F[Max(s)][it[s \ {Max(s)}]]
      BY <2>1, <2>2 DEF LeftIteration
    <3> HIDE DEF V, op
    <3> QED BY <1>2, <3>1
  <2>3. it \in [SUBSET (1 .. n) -> V] /\ it[{}] = base
    BY <2>1 DEF LeftIteration
  <2> HIDE DEF V, op, base
  <2> QED BY <2>2, <2>3
<1>8. PICK it :
        /\ it = [s \in SUBSET (1 .. n) |->
                   IF s = {} THEN base ELSE op(it[s \ {Max(s)}], seq[Max(s)])]
        /\ ConstrainedForward(node, edge, tags) = it[1 .. n]
  BY <1>3, <1>4, <1>7 DEF FoldLeft, MapThenFoldSet
<1>9. LeftFold(it, n, V, base, F)
  <2>1. it[{}] = base
    BY <1>8
  <2>2. ASSUME NEW s \in SUBSET (1 .. n), s # {}, it[s \ {Max(s)}] \in V
        PROVE  it[s] = F[Max(s)][it[s \ {Max(s)}]]
    <3>1. it[s] = op(it[s \ {Max(s)}], seq[Max(s)]) /\ Max(s) \in 1 .. n
      BY <1>0, <1>8, <2>2, LargestOf
    <3> HIDE DEF V, op
    <3> QED BY <1>2, <2>2, <3>1
  <2> HIDE DEF V, base
  <2> QED BY <2>1, <2>2 DEF LeftFold
<1>10. PICK g : LeftRun(g, n, V, base, F) /\ g[n] = it[1 .. n]
  <2> HIDE DEF n, op, V, base
  <2> QED BY <1>0, <1>1, <1>6, <1>9, LeftRuns
<1>11. ASSUME NEW k \in 1 .. n PROVE g[k] = op(g[k - 1], seq[k])
  <2>1. g[k] = F[k][g[k - 1]] /\ k - 1 \in 0 .. n /\ g \in [0 .. n -> V]
    BY <1>0, <1>10 DEF LeftRun
  <2> HIDE DEF n, V, op
  <2> QED BY <1>2, <2>1
<1>12. g \in [0 .. n -> V] /\ g[0] = base
  BY <1>10 DEF LeftRun
<1> QED BY <1>3, <1>8, <1>10, <1>11, <1>12 DEF ConstrainedForwardRun

(* So have the ones that are confined to tags (TagConstrainedCRF:          *)
(* ConstrainedForward).                                                    *)
LEMMA ConstrainedForwardIs ==
  ASSUME NEW node, NEW edge, NEW T, Net(node, edge, T), NEW tags \in SUBSET T
  PROVE  ConstrainedForward(node, edge, tags) \in Cols(T) /\ Len(ConstrainedForward(node, edge, tags)) = Len(node)
<1>net. NetFacts(node, edge, T)
  BY NetHas
<1> DEFINE n == Len(node) - 1
<1>0. n \in Nat /\ Len(node) = n + 1
  BY <1>net DEF NetFacts
<1>1. PICK g : ConstrainedForwardRun(g, T, node, edge, tags)
  BY ConstrainedForwardRuns
<1>2. g \in [0 .. n -> Cols(T)] /\ ConstrainedForward(node, edge, tags) = g[n]
  BY <1>1 DEF ConstrainedForwardRun
<1>3. Len(g[0]) = 1
  BY <1>1, <1>net DEF ConstrainedForwardRun, NetFacts
<1>4. ASSUME NEW k \in 1 .. n PROVE Len(g[k]) = Len(g[k - 1]) + 1
  <2>1. k - 1 \in 0 .. n /\ g[k - 1] \in Cols(T)
    BY <1>0, <1>2
  <2> DEFINE t == k + 1
  <2> DEFINE c == ConstrainedForwardColumn(Last(g[k - 1]), node, edge, tags, t)
  <2>2. t \in 2 .. Len(node)
    BY <1>0
  <2>3. Last(g[k - 1]) \in [T -> Int]
    <3>1. PICK d : d \in [T -> Int]
      BY <1>net DEF NetFacts
    <3> QED BY <2>1, <3>1, ColumnJoins
  <2>4. c \in [T -> Int]
    BY <2>2, <2>3, ConstrainedForwardColumnIs
  <2>5. g[k] = Append(g[k - 1], c)
    BY <1>1 DEF ConstrainedForwardRun
  <2> HIDE DEF c
  <2> QED BY <2>1, <2>4, <2>5, ColumnJoins
<1> HIDE DEF n
<1>5. g[n] \in Cols(T) /\ Len(g[n]) = n + 1
  BY <1>0, <1>2, <1>3, <1>4, LengthsGrow
<1> QED BY <1>0, <1>2, <1>5

-----------------------------------------------------------------------------
(* A column of Backward.                                                   *)
BackwardColumn(prev, node, edge, t) ==
  [i \in DOMAIN node[1] |->
    VectorSum([j \in DOMAIN node[1] |-> edge[<<i, j>>] * node[t + 1][j] * prev[j]])]

LEMMA BackwardColumnIs ==
  ASSUME NEW node, NEW edge, NEW T, Net(node, edge, T),
         NEW prev \in [T -> Int], NEW t \in 1 .. Len(node) - 1
  PROVE  BackwardColumn(prev, node, edge, t) \in [T -> Int]
<1>net. NetFacts(node, edge, T)
  BY NetHas
<1>1. ASSUME NEW i \in T PROVE BackwardColumn(prev, node, edge, t)[i] \in Int
  <2>0. DOMAIN node[1] = T /\ t + 1 \in 1 .. Len(node)
    BY <1>net DEF NetFacts
  <2>1. [j \in T |-> edge[<<i, j>>] * node[t + 1][j] * prev[j]] \in [T -> Int]
    BY <2>0, <1>net DEF NetFacts
  <2>2. VectorSum([j \in T |-> edge[<<i, j>>] * node[t + 1][j] * prev[j]]) \in Int
    BY <2>1, SumIsInt DEF Net
  <2> QED BY <2>0, <2>2 DEF BackwardColumn
<1>2. DOMAIN node[1] = T
  BY <1>net DEF NetFacts
<1>3. BackwardColumn(prev, node, edge, t) = [i \in T |-> BackwardColumn(prev, node, edge, t)[i]]
  BY <1>2 DEF BackwardColumn
<1> HIDE DEF BackwardColumn
<1> QED BY <1>1, <1>3

(* Backward, word by word.                                                 *)
BackwardRun(g, T, node, edge) ==
  /\ g \in [0 .. Len(node) - 1 -> Cols(T)] /\ g[0] = <<[i \in DOMAIN node[1] |-> 1]>>
  /\ \A k \in 1 .. Len(node) - 1 : g[k] = <<BackwardColumn(Head(g[k - 1]), node, edge, Len(node) - k)>> \o g[k - 1]
  /\ Backward(node, edge) = g[Len(node) - 1]

LEMMA BackwardRuns ==
  ASSUME NEW node, NEW edge, NEW T, Net(node, edge, T)
  PROVE  \E g : BackwardRun(g, T, node, edge)
<1>net. NetFacts(node, edge, T)
  BY NetHas
<1> DEFINE n == Len(node) - 1
<1> DEFINE op(r, x) == <<BackwardColumn(Head(r), node, edge, x)>> \o r
<1> DEFINE seq == [k \in 1 .. n |-> Len(node) - k]
<1> DEFINE base == <<[i \in DOMAIN node[1] |-> 1]>>
<1> DEFINE V == Cols(T)
<1> DEFINE F == [k \in 1 .. n |-> [v \in V |-> op(v, seq[k])]]
<1>0. n \in Nat /\ Len(node) \in Nat
  BY <1>net DEF NetFacts
<1>1. base \in V /\ Len(base) = 1
  <2>1. DOMAIN node[1] = T
    BY <1>net DEF NetFacts
  <2>2. [i \in DOMAIN node[1] |-> 1] \in [T -> Int]
    BY <2>1
  <2> QED BY <2>2, <1>net DEF NetFacts
<1>2. \A k \in 1 .. n : \A v \in V : F[k][v] = op(v, seq[k])
  OBVIOUS
<1>3. DOMAIN seq = 1 .. n /\ \A k \in 1 .. n : seq[k] = Len(node) - k
  OBVIOUS
<1>4. Backward(node, edge) = FoldLeft(op, base, seq)
  BY <1>0 DEF Backward, BackwardColumn
<1> HIDE DEF F, seq
<1>5. ASSUME NEW k \in 1 .. n, NEW v \in V PROVE op(v, seq[k]) \in V
  <2>1. seq[k] \in 1 .. Len(node) - 1
    BY <1>0, <1>3
  <2> DEFINE t == seq[k]
  <2> HIDE DEF t
  <2>2. Head(v) \in [T -> Int]
    <3>1. PICK c : c \in [T -> Int]
      BY <1>net DEF NetFacts
    <3> QED BY <3>1, ColumnJoins
  <2>3. BackwardColumn(Head(v), node, edge, t) \in [T -> Int]
    BY <2>1, <2>2, BackwardColumnIs DEF t
  <2> QED BY <2>3, ColumnJoins DEF t
<1>6. Steps(F, V, 1 .. n)
  <2> HIDE DEF op, V
  <2> QED BY <1>2, <1>5 DEF Steps
<1>7. \E it : it = [s \in SUBSET (1 .. n) |->
                     IF s = {} THEN base ELSE op(it[s \ {Max(s)}], seq[Max(s)])]
  <2>1. PICK it : LeftIteration(it, n, V, base, F)
    BY <1>0, <1>1, <1>6, LeftIterationExists
  <2>2. ASSUME NEW s \in SUBSET (1 .. n), s # {}
        PROVE  it[s] = op(it[s \ {Max(s)}], seq[Max(s)])
    <3>1. Max(s) \in 1 .. n /\ it[s \ {Max(s)}] \in V /\ it[s] = F[Max(s)][it[s \ {Max(s)}]]
      BY <2>1, <2>2 DEF LeftIteration
    <3> HIDE DEF V, op
    <3> QED BY <1>2, <3>1
  <2>3. it \in [SUBSET (1 .. n) -> V] /\ it[{}] = base
    BY <2>1 DEF LeftIteration
  <2> HIDE DEF V, op, base
  <2> QED BY <2>2, <2>3
<1>8. PICK it :
        /\ it = [s \in SUBSET (1 .. n) |->
                   IF s = {} THEN base ELSE op(it[s \ {Max(s)}], seq[Max(s)])]
        /\ Backward(node, edge) = it[1 .. n]
  BY <1>3, <1>4, <1>7 DEF FoldLeft, MapThenFoldSet
<1>9. LeftFold(it, n, V, base, F)
  <2>1. it[{}] = base
    BY <1>8
  <2>2. ASSUME NEW s \in SUBSET (1 .. n), s # {}, it[s \ {Max(s)}] \in V
        PROVE  it[s] = F[Max(s)][it[s \ {Max(s)}]]
    <3>1. it[s] = op(it[s \ {Max(s)}], seq[Max(s)]) /\ Max(s) \in 1 .. n
      BY <1>0, <1>8, <2>2, LargestOf
    <3> HIDE DEF V, op
    <3> QED BY <1>2, <2>2, <3>1
  <2> HIDE DEF V, base
  <2> QED BY <2>1, <2>2 DEF LeftFold
<1>10. PICK g : LeftRun(g, n, V, base, F) /\ g[n] = it[1 .. n]
  <2> HIDE DEF n, op, V, base
  <2> QED BY <1>0, <1>1, <1>6, <1>9, LeftRuns
<1>11. ASSUME NEW k \in 1 .. n PROVE g[k] = op(g[k - 1], seq[k])
  <2>1. g[k] = F[k][g[k - 1]] /\ k - 1 \in 0 .. n /\ g \in [0 .. n -> V]
    BY <1>0, <1>10 DEF LeftRun
  <2> HIDE DEF n, V, op
  <2> QED BY <1>2, <2>1
<1>12. g \in [0 .. n -> V] /\ g[0] = base
  BY <1>10 DEF LeftRun
<1> QED BY <1>3, <1>8, <1>10, <1>11, <1>12 DEF BackwardRun

(* The backward sums have a column for every word (VanillaCRF: Backward).  *)
LEMMA BackwardIs ==
  ASSUME NEW node, NEW edge, NEW T, Net(node, edge, T)
  PROVE  Backward(node, edge) \in Cols(T) /\ Len(Backward(node, edge)) = Len(node)
<1>net. NetFacts(node, edge, T)
  BY NetHas
<1> DEFINE n == Len(node) - 1
<1>0. n \in Nat /\ Len(node) = n + 1
  BY <1>net DEF NetFacts
<1>1. PICK g : BackwardRun(g, T, node, edge)
  BY BackwardRuns
<1>2. g \in [0 .. n -> Cols(T)] /\ Backward(node, edge) = g[n]
  BY <1>1 DEF BackwardRun
<1>3. Len(g[0]) = 1
  BY <1>1, <1>net DEF BackwardRun, NetFacts
<1>4. ASSUME NEW k \in 1 .. n PROVE Len(g[k]) = Len(g[k - 1]) + 1
  <2>1. k - 1 \in 0 .. n /\ g[k - 1] \in Cols(T)
    BY <1>0, <1>2
  <2> DEFINE t == Len(node) - k
  <2> DEFINE c == BackwardColumn(Head(g[k - 1]), node, edge, t)
  <2>2. t \in 1 .. Len(node) - 1
    BY <1>0
  <2>3. Head(g[k - 1]) \in [T -> Int]
    <3>1. PICK d : d \in [T -> Int]
      BY <1>net DEF NetFacts
    <3> QED BY <2>1, <3>1, ColumnJoins
  <2>4. c \in [T -> Int]
    BY <2>2, <2>3, BackwardColumnIs
  <2>5. g[k] = <<c>> \o g[k - 1]
    BY <1>1 DEF BackwardRun
  <2> HIDE DEF c
  <2> QED BY <2>1, <2>4, <2>5, ColumnJoins
<1> HIDE DEF n
<1>5. g[n] \in Cols(T) /\ Len(g[n]) = n + 1
  BY <1>0, <1>2, <1>3, <1>4, LengthsGrow
<1> QED BY <1>0, <1>2, <1>5

-----------------------------------------------------------------------------
(* A column of SparseBackward.                                             *)
SparseBackwardColumn(prev, node, edge, sparse, t) ==
  [i \in DOMAIN node[1] |->
    SparseVectorDotProduct([j \in DOMAIN node[1] |-> edge[<<i, j>>]],
        [j \in DOMAIN node[1] |-> node[t + 1][j] * prev[j]],
        {j \in DOMAIN node[1] : <<i, j>> \in sparse}, One)
      + One * VectorSum([j \in DOMAIN node[1] |-> node[t + 1][j] * prev[j]])]

LEMMA SparseBackwardColumnIs ==
  ASSUME NEW node, NEW edge, NEW T, Net(node, edge, T), NEW sparse,
         NEW prev \in [T -> Int], NEW t \in 1 .. Len(node) - 1
  PROVE  SparseBackwardColumn(prev, node, edge, sparse, t) \in [T -> Int]
<1>net. NetFacts(node, edge, T)
  BY NetHas
<1>1. ASSUME NEW i \in T PROVE SparseBackwardColumn(prev, node, edge, sparse, t)[i] \in Int
  <2> DEFINE a == [j \in T |-> edge[<<i, j>>]]
  <2> DEFINE c == [j \in T |-> node[t + 1][j] * prev[j]]
  <2> DEFINE S == {j \in T : <<i, j>> \in sparse}
  <2>0. DOMAIN node[1] = T /\ t + 1 \in 1 .. Len(node)
    BY <1>net DEF NetFacts
  <2>1. IsFiniteSet(T) /\ IsFiniteSet(S) /\ c \in [T -> Int]
    <3>1. IsFiniteSet(T) /\ IsFiniteSet(S)
      <4>1. S \subseteq T
        OBVIOUS
      <4> QED BY <4>1, FS_Subset DEF Net
    <3>2. \A j \in T : node[t + 1][j] \in Int
      BY <2>0, <1>net DEF NetFacts
    <3> QED BY <3>1, <3>2
  <2>2. \A j \in S : a[j] \in Int /\ c[j] \in Int
    BY <2>1, <1>net DEF NetFacts
  <2> DEFINE dot == SparseVectorDotProduct(a, c, S, One)
  <2> DEFINE sum == VectorSum(c)
  <2>a. SparseBackwardColumn(prev, node, edge, sparse, t)[i] = dot + One * sum
    BY <2>0 DEF SparseBackwardColumn
  <2> HIDE DEF a, c, S
  <2>3. dot \in Int /\ sum \in Int /\ One \in Int
    BY <2>1, <2>2, OneIsInt, DotIsInt, SumIsInt
  <2> HIDE DEF dot, sum
  <2>4. dot + One * sum \in Int
    BY <2>3
  <2> QED BY <2>a, <2>4
<1>2. DOMAIN node[1] = T
  BY <1>net DEF NetFacts
<1>3. SparseBackwardColumn(prev, node, edge, sparse, t) = [i \in T |-> SparseBackwardColumn(prev, node, edge, sparse, t)[i]]
  BY <1>2 DEF SparseBackwardColumn
<1> HIDE DEF SparseBackwardColumn
<1> QED BY <1>1, <1>3

(* SparseBackward, word by word.                                           *)
SparseBackwardRun(g, T, node, edge, sparse) ==
  /\ g \in [0 .. Len(node) - 1 -> Cols(T)] /\ g[0] = <<[i \in DOMAIN node[1] |-> 1]>>
  /\ \A k \in 1 .. Len(node) - 1 : g[k] = <<SparseBackwardColumn(Head(g[k - 1]), node, edge, sparse, Len(node) - k)>> \o g[k - 1]
  /\ SparseBackward(node, edge, sparse) = g[Len(node) - 1]

LEMMA SparseBackwardRuns ==
  ASSUME NEW node, NEW edge, NEW T, Net(node, edge, T), NEW sparse
  PROVE  \E g : SparseBackwardRun(g, T, node, edge, sparse)
<1>net. NetFacts(node, edge, T)
  BY NetHas
<1> DEFINE n == Len(node) - 1
<1> DEFINE op(r, x) == <<SparseBackwardColumn(Head(r), node, edge, sparse, x)>> \o r
<1> DEFINE seq == [k \in 1 .. n |-> Len(node) - k]
<1> DEFINE base == <<[i \in DOMAIN node[1] |-> 1]>>
<1> DEFINE V == Cols(T)
<1> DEFINE F == [k \in 1 .. n |-> [v \in V |-> op(v, seq[k])]]
<1>0. n \in Nat /\ Len(node) \in Nat
  BY <1>net DEF NetFacts
<1>1. base \in V /\ Len(base) = 1
  <2>1. DOMAIN node[1] = T
    BY <1>net DEF NetFacts
  <2>2. [i \in DOMAIN node[1] |-> 1] \in [T -> Int]
    BY <2>1
  <2> QED BY <2>2, <1>net DEF NetFacts
<1>2. \A k \in 1 .. n : \A v \in V : F[k][v] = op(v, seq[k])
  OBVIOUS
<1>3. DOMAIN seq = 1 .. n /\ \A k \in 1 .. n : seq[k] = Len(node) - k
  OBVIOUS
<1>4. SparseBackward(node, edge, sparse) = FoldLeft(op, base, seq)
  BY <1>0 DEF SparseBackward, SparseBackwardColumn
<1> HIDE DEF F, seq
<1>5. ASSUME NEW k \in 1 .. n, NEW v \in V PROVE op(v, seq[k]) \in V
  <2>1. seq[k] \in 1 .. Len(node) - 1
    BY <1>0, <1>3
  <2> DEFINE t == seq[k]
  <2> HIDE DEF t
  <2>2. Head(v) \in [T -> Int]
    <3>1. PICK c : c \in [T -> Int]
      BY <1>net DEF NetFacts
    <3> QED BY <3>1, ColumnJoins
  <2>3. SparseBackwardColumn(Head(v), node, edge, sparse, t) \in [T -> Int]
    BY <2>1, <2>2, SparseBackwardColumnIs DEF t
  <2> QED BY <2>3, ColumnJoins DEF t
<1>6. Steps(F, V, 1 .. n)
  <2> HIDE DEF op, V
  <2> QED BY <1>2, <1>5 DEF Steps
<1>7. \E it : it = [s \in SUBSET (1 .. n) |->
                     IF s = {} THEN base ELSE op(it[s \ {Max(s)}], seq[Max(s)])]
  <2>1. PICK it : LeftIteration(it, n, V, base, F)
    BY <1>0, <1>1, <1>6, LeftIterationExists
  <2>2. ASSUME NEW s \in SUBSET (1 .. n), s # {}
        PROVE  it[s] = op(it[s \ {Max(s)}], seq[Max(s)])
    <3>1. Max(s) \in 1 .. n /\ it[s \ {Max(s)}] \in V /\ it[s] = F[Max(s)][it[s \ {Max(s)}]]
      BY <2>1, <2>2 DEF LeftIteration
    <3> HIDE DEF V, op
    <3> QED BY <1>2, <3>1
  <2>3. it \in [SUBSET (1 .. n) -> V] /\ it[{}] = base
    BY <2>1 DEF LeftIteration
  <2> HIDE DEF V, op, base
  <2> QED BY <2>2, <2>3
<1>8. PICK it :
        /\ it = [s \in SUBSET (1 .. n) |->
                   IF s = {} THEN base ELSE op(it[s \ {Max(s)}], seq[Max(s)])]
        /\ SparseBackward(node, edge, sparse) = it[1 .. n]
  BY <1>3, <1>4, <1>7 DEF FoldLeft, MapThenFoldSet
<1>9. LeftFold(it, n, V, base, F)
  <2>1. it[{}] = base
    BY <1>8
  <2>2. ASSUME NEW s \in SUBSET (1 .. n), s # {}, it[s \ {Max(s)}] \in V
        PROVE  it[s] = F[Max(s)][it[s \ {Max(s)}]]
    <3>1. it[s] = op(it[s \ {Max(s)}], seq[Max(s)]) /\ Max(s) \in 1 .. n
      BY <1>0, <1>8, <2>2, LargestOf
    <3> HIDE DEF V, op
    <3> QED BY <1>2, <2>2, <3>1
  <2> HIDE DEF V, base
  <2> QED BY <2>1, <2>2 DEF LeftFold
<1>10. PICK g : LeftRun(g, n, V, base, F) /\ g[n] = it[1 .. n]
  <2> HIDE DEF n, op, V, base
  <2> QED BY <1>0, <1>1, <1>6, <1>9, LeftRuns
<1>11. ASSUME NEW k \in 1 .. n PROVE g[k] = op(g[k - 1], seq[k])
  <2>1. g[k] = F[k][g[k - 1]] /\ k - 1 \in 0 .. n /\ g \in [0 .. n -> V]
    BY <1>0, <1>10 DEF LeftRun
  <2> HIDE DEF n, V, op
  <2> QED BY <1>2, <2>1
<1>12. g \in [0 .. n -> V] /\ g[0] = base
  BY <1>10 DEF LeftRun
<1> QED BY <1>3, <1>8, <1>10, <1>11, <1>12 DEF SparseBackwardRun

(* So have the sparse ones (FrenchVanillaCRF: Backward).                   *)
LEMMA SparseBackwardIs ==
  ASSUME NEW node, NEW edge, NEW T, Net(node, edge, T), NEW sparse
  PROVE  SparseBackward(node, edge, sparse) \in Cols(T) /\ Len(SparseBackward(node, edge, sparse)) = Len(node)
<1>net. NetFacts(node, edge, T)
  BY NetHas
<1> DEFINE n == Len(node) - 1
<1>0. n \in Nat /\ Len(node) = n + 1
  BY <1>net DEF NetFacts
<1>1. PICK g : SparseBackwardRun(g, T, node, edge, sparse)
  BY SparseBackwardRuns
<1>2. g \in [0 .. n -> Cols(T)] /\ SparseBackward(node, edge, sparse) = g[n]
  BY <1>1 DEF SparseBackwardRun
<1>3. Len(g[0]) = 1
  BY <1>1, <1>net DEF SparseBackwardRun, NetFacts
<1>4. ASSUME NEW k \in 1 .. n PROVE Len(g[k]) = Len(g[k - 1]) + 1
  <2>1. k - 1 \in 0 .. n /\ g[k - 1] \in Cols(T)
    BY <1>0, <1>2
  <2> DEFINE t == Len(node) - k
  <2> DEFINE c == SparseBackwardColumn(Head(g[k - 1]), node, edge, sparse, t)
  <2>2. t \in 1 .. Len(node) - 1
    BY <1>0
  <2>3. Head(g[k - 1]) \in [T -> Int]
    <3>1. PICK d : d \in [T -> Int]
      BY <1>net DEF NetFacts
    <3> QED BY <2>1, <3>1, ColumnJoins
  <2>4. c \in [T -> Int]
    BY <2>2, <2>3, SparseBackwardColumnIs
  <2>5. g[k] = <<c>> \o g[k - 1]
    BY <1>1 DEF SparseBackwardRun
  <2> HIDE DEF c
  <2> QED BY <2>1, <2>4, <2>5, ColumnJoins
<1> HIDE DEF n
<1>5. g[n] \in Cols(T) /\ Len(g[n]) = n + 1
  BY <1>0, <1>2, <1>3, <1>4, LengthsGrow
<1> QED BY <1>0, <1>2, <1>5

-----------------------------------------------------------------------------
(* A column of ConstrainedBackward.                                        *)
ConstrainedBackwardColumn(prev, node, edge, tags, norms, t) ==
  [i \in DOMAIN node[1] |->
    IF i \in tags
    THEN Scaled(SparseVectorDotProduct([j \in DOMAIN node[1] |-> (prev[j] * node[t + 1][j]) \div One],
                                       [j \in tags |-> edge[<<i, j>>]], tags, Precision) \div One,
                t, norms)
    ELSE 0]

LEMMA ConstrainedBackwardColumnIs ==
  ASSUME NEW node, NEW edge, NEW T, Net(node, edge, T), NEW tags \in SUBSET T, NEW norms \in Seq(Int), Len(norms) = Len(node),
         NEW prev \in [T -> Int], NEW t \in 1 .. Len(node) - 1
  PROVE  ConstrainedBackwardColumn(prev, node, edge, tags, norms, t) \in [T -> Int]
<1>net. NetFacts(node, edge, T)
  BY NetHas
<1>1. ASSUME NEW i \in T PROVE ConstrainedBackwardColumn(prev, node, edge, tags, norms, t)[i] \in Int
  <2> DEFINE c == [j \in T |-> (prev[j] * node[t + 1][j]) \div One]
  <2> DEFINE a == [j \in tags |-> edge[<<i, j>>]]
  <2>0. DOMAIN node[1] = T /\ t + 1 \in 1 .. Len(node)
    BY <1>net DEF NetFacts
  <2>1. IsFiniteSet(tags) /\ c \in [T -> Int]
    <3>1. IsFiniteSet(tags)
      BY FS_Subset DEF Net
    <3>2. \A j \in T : node[t + 1][j] \in Int
      BY <2>0, <1>net DEF NetFacts
    <3>3. ASSUME NEW j \in T PROVE (prev[j] * node[t + 1][j]) \div One \in Int
      <4> DEFINE x == prev[j] * node[t + 1][j]
      <4>1. x \in Int
        BY <3>2
      <4> HIDE DEF x
      <4>2. x \div One \in Int
        BY <4>1, OneIsInt
      <4> QED BY <4>2 DEF x
    <3> QED BY <3>1, <3>3
  <2>2. \A j \in tags : c[j] \in Int /\ a[j] \in Int
    BY <2>1, <1>net DEF NetFacts
  <2> DEFINE dot == SparseVectorDotProduct(c, a, tags, Precision)
  <2> DEFINE z == Scaled(dot \div One, t, norms)
  <2>a. ConstrainedBackwardColumn(prev, node, edge, tags, norms, t)[i] = IF i \in tags THEN z ELSE 0
    BY <2>0 DEF ConstrainedBackwardColumn, z, dot, c, a
  <2> HIDE DEF a, c
  <2>3. dot \in Int
    BY <2>1, <2>2, OneIsInt, DotIsInt
  <2> HIDE DEF dot
  <2>4. dot \div One \in Int
    BY <2>3, OneIsInt
  <2>5. z \in Int
    <3> DEFINE y == dot \div One
    <3>1. y \in Int /\ t \in 1 .. Len(norms)
      BY <2>4, <1>net DEF NetFacts
    <3> HIDE DEF y
    <3>2. Scaled(y, t, norms) \in Int
      BY <3>1, ScaledIsInt
    <3> QED BY <3>2 DEF y
  <2> HIDE DEF z
  <2> QED BY <2>a, <2>5
<1>2. DOMAIN node[1] = T
  BY <1>net DEF NetFacts
<1>3. ConstrainedBackwardColumn(prev, node, edge, tags, norms, t) = [i \in T |-> ConstrainedBackwardColumn(prev, node, edge, tags, norms, t)[i]]
  BY <1>2 DEF ConstrainedBackwardColumn
<1> HIDE DEF ConstrainedBackwardColumn
<1> QED BY <1>1, <1>3

(* ConstrainedBackward, word by word.                                      *)
ConstrainedBackwardRun(g, T, node, edge, tags, norms) ==
  /\ g \in [0 .. Len(node) - 1 -> Cols(T)] /\ g[0] = <<[i \in DOMAIN node[1] |-> Scaled(Precision, Len(node), norms)]>>
  /\ \A k \in 1 .. Len(node) - 1 : g[k] = <<ConstrainedBackwardColumn(Head(g[k - 1]), node, edge, tags, norms, Len(node) - k)>> \o g[k - 1]
  /\ ConstrainedBackward(node, edge, tags, norms) = g[Len(node) - 1]

LEMMA ConstrainedBackwardRuns ==
  ASSUME NEW node, NEW edge, NEW T, Net(node, edge, T), NEW tags \in SUBSET T, NEW norms \in Seq(Int), Len(norms) = Len(node)
  PROVE  \E g : ConstrainedBackwardRun(g, T, node, edge, tags, norms)
<1>net. NetFacts(node, edge, T)
  BY NetHas
<1> DEFINE n == Len(node) - 1
<1> DEFINE op(r, x) == <<ConstrainedBackwardColumn(Head(r), node, edge, tags, norms, x)>> \o r
<1> DEFINE seq == [k \in 1 .. n |-> Len(node) - k]
<1> DEFINE base == <<[i \in DOMAIN node[1] |-> Scaled(Precision, Len(node), norms)]>>
<1> DEFINE V == Cols(T)
<1> DEFINE F == [k \in 1 .. n |-> [v \in V |-> op(v, seq[k])]]
<1>0. n \in Nat /\ Len(node) \in Nat
  BY <1>net DEF NetFacts
<1>1. base \in V /\ Len(base) = 1
  <2> DEFINE z == Scaled(Precision, Len(node), norms)
  <2>1. DOMAIN node[1] = T
    BY <1>net DEF NetFacts
  <2>2. z \in Int
    <3>1. Len(node) \in 1 .. Len(norms) /\ Precision \in Int
      BY <1>net, OneIsInt DEF NetFacts
    <3> QED BY <3>1, ScaledIsInt
  <2> HIDE DEF z
  <2>3. [i \in DOMAIN node[1] |-> z] \in [T -> Int]
    BY <2>1, <2>2
  <2> QED BY <2>3, <1>net DEF z, NetFacts
<1>2. \A k \in 1 .. n : \A v \in V : F[k][v] = op(v, seq[k])
  OBVIOUS
<1>3. DOMAIN seq = 1 .. n /\ \A k \in 1 .. n : seq[k] = Len(node) - k
  OBVIOUS
<1>4. ConstrainedBackward(node, edge, tags, norms) = FoldLeft(op, base, seq)
  BY <1>0 DEF ConstrainedBackward, ConstrainedBackwardColumn, Scaled
<1> HIDE DEF F, seq
<1>5. ASSUME NEW k \in 1 .. n, NEW v \in V PROVE op(v, seq[k]) \in V
  <2>1. seq[k] \in 1 .. Len(node) - 1
    BY <1>0, <1>3
  <2> DEFINE t == seq[k]
  <2> HIDE DEF t
  <2>2. Head(v) \in [T -> Int]
    <3>1. PICK c : c \in [T -> Int]
      BY <1>net DEF NetFacts
    <3> QED BY <3>1, ColumnJoins
  <2>3. ConstrainedBackwardColumn(Head(v), node, edge, tags, norms, t) \in [T -> Int]
    BY <2>1, <2>2, ConstrainedBackwardColumnIs DEF t
  <2> QED BY <2>3, ColumnJoins DEF t
<1>6. Steps(F, V, 1 .. n)
  <2> HIDE DEF op, V
  <2> QED BY <1>2, <1>5 DEF Steps
<1>7. \E it : it = [s \in SUBSET (1 .. n) |->
                     IF s = {} THEN base ELSE op(it[s \ {Max(s)}], seq[Max(s)])]
  <2>1. PICK it : LeftIteration(it, n, V, base, F)
    BY <1>0, <1>1, <1>6, LeftIterationExists
  <2>2. ASSUME NEW s \in SUBSET (1 .. n), s # {}
        PROVE  it[s] = op(it[s \ {Max(s)}], seq[Max(s)])
    <3>1. Max(s) \in 1 .. n /\ it[s \ {Max(s)}] \in V /\ it[s] = F[Max(s)][it[s \ {Max(s)}]]
      BY <2>1, <2>2 DEF LeftIteration
    <3> HIDE DEF V, op
    <3> QED BY <1>2, <3>1
  <2>3. it \in [SUBSET (1 .. n) -> V] /\ it[{}] = base
    BY <2>1 DEF LeftIteration
  <2> HIDE DEF V, op, base
  <2> QED BY <2>2, <2>3
<1>8. PICK it :
        /\ it = [s \in SUBSET (1 .. n) |->
                   IF s = {} THEN base ELSE op(it[s \ {Max(s)}], seq[Max(s)])]
        /\ ConstrainedBackward(node, edge, tags, norms) = it[1 .. n]
  BY <1>3, <1>4, <1>7 DEF FoldLeft, MapThenFoldSet
<1>9. LeftFold(it, n, V, base, F)
  <2>1. it[{}] = base
    BY <1>8
  <2>2. ASSUME NEW s \in SUBSET (1 .. n), s # {}, it[s \ {Max(s)}] \in V
        PROVE  it[s] = F[Max(s)][it[s \ {Max(s)}]]
    <3>1. it[s] = op(it[s \ {Max(s)}], seq[Max(s)]) /\ Max(s) \in 1 .. n
      BY <1>0, <1>8, <2>2, LargestOf
    <3> HIDE DEF V, op
    <3> QED BY <1>2, <2>2, <3>1
  <2> HIDE DEF V, base
  <2> QED BY <2>1, <2>2 DEF LeftFold
<1>10. PICK g : LeftRun(g, n, V, base, F) /\ g[n] = it[1 .. n]
  <2> HIDE DEF n, op, V, base
  <2> QED BY <1>0, <1>1, <1>6, <1>9, LeftRuns
<1>11. ASSUME NEW k \in 1 .. n PROVE g[k] = op(g[k - 1], seq[k])
  <2>1. g[k] = F[k][g[k - 1]] /\ k - 1 \in 0 .. n /\ g \in [0 .. n -> V]
    BY <1>0, <1>10 DEF LeftRun
  <2> HIDE DEF n, V, op
  <2> QED BY <1>2, <2>1
<1>12. g \in [0 .. n -> V] /\ g[0] = base
  BY <1>10 DEF LeftRun
<1> QED BY <1>3, <1>8, <1>10, <1>11, <1>12 DEF ConstrainedBackwardRun

(* So have the ones that are confined to tags (TagConstrainedCRF:          *)
(* ConstrainedBackward).                                                   *)
LEMMA ConstrainedBackwardIs ==
  ASSUME NEW node, NEW edge, NEW T, Net(node, edge, T), NEW tags \in SUBSET T, NEW norms \in Seq(Int), Len(norms) = Len(node)
  PROVE  ConstrainedBackward(node, edge, tags, norms) \in Cols(T) /\ Len(ConstrainedBackward(node, edge, tags, norms)) = Len(node)
<1>net. NetFacts(node, edge, T)
  BY NetHas
<1> DEFINE n == Len(node) - 1
<1>0. n \in Nat /\ Len(node) = n + 1
  BY <1>net DEF NetFacts
<1>1. PICK g : ConstrainedBackwardRun(g, T, node, edge, tags, norms)
  BY ConstrainedBackwardRuns
<1>2. g \in [0 .. n -> Cols(T)] /\ ConstrainedBackward(node, edge, tags, norms) = g[n]
  BY <1>1 DEF ConstrainedBackwardRun
<1>3. Len(g[0]) = 1
  BY <1>1, <1>net DEF ConstrainedBackwardRun, NetFacts
<1>4. ASSUME NEW k \in 1 .. n PROVE Len(g[k]) = Len(g[k - 1]) + 1
  <2>1. k - 1 \in 0 .. n /\ g[k - 1] \in Cols(T)
    BY <1>0, <1>2
  <2> DEFINE t == Len(node) - k
  <2> DEFINE c == ConstrainedBackwardColumn(Head(g[k - 1]), node, edge, tags, norms, t)
  <2>2. t \in 1 .. Len(node) - 1
    BY <1>0
  <2>3. Head(g[k - 1]) \in [T -> Int]
    <3>1. PICK d : d \in [T -> Int]
      BY <1>net DEF NetFacts
    <3> QED BY <2>1, <3>1, ColumnJoins
  <2>4. c \in [T -> Int]
    BY <2>2, <2>3, ConstrainedBackwardColumnIs
  <2>5. g[k] = <<c>> \o g[k - 1]
    BY <1>1 DEF ConstrainedBackwardRun
  <2> HIDE DEF c
  <2> QED BY <2>1, <2>4, <2>5, ColumnJoins
<1> HIDE DEF n
<1>5. g[n] \in Cols(T) /\ Len(g[n]) = n + 1
  BY <1>0, <1>2, <1>3, <1>4, LengthsGrow
<1> QED BY <1>0, <1>2, <1>5

-----------------------------------------------------------------------------
(* No potential is zero.                                                   *)
LEMMA ExpIsPositive ==
  ASSUME NEW x \in Int
  PROVE  Exp(x) \in Nat /\ Exp(x) > 0
<1> DEFINE y == One + x
<1>1. y \in Int
  BY OneIsInt
<1> HIDE DEF y
<1> DEFINE a == IF y < 1 THEN y ELSE 1
<1> DEFINE b == IF y < 1 THEN 1 ELSE y
<1> DEFINE s == {1, y}
<1>2. a \in Int /\ b \in Int /\ s \in SUBSET (a .. b) /\ s # {} /\ 1 \in s /\ s \subseteq Int
  BY <1>1
<1> DEFINE m == Max(s)
<1>3. Exp(x) = m
  BY DEF Exp, y
<1> HIDE DEF a, b, s
<1>4. m \in s /\ 1 <= m
  BY <1>2, LargestOfInts
<1> HIDE DEF m
<1>5. m \in Int
  BY <1>2, <1>4
<1> QED BY <1>3, <1>4, <1>5

(* A model with labels has finitely many, and the label 0.                 *)
LEMMA LabelsAreFinite ==
  ASSUME NEW K, NEW m, IsModel(m, K), m.max > 0
  PROVE  IsFiniteSet(LabelsOf(m)) /\ LabelsOf(m) # {} /\ 0 \in LabelsOf(m)
<1>1. m.max \in Nat
  BY DEF IsModel
<1>2. IsFiniteSet(0 .. m.max - 1)
  BY <1>1, FS_Interval
<1> QED BY <1>1, <1>2 DEF LabelsOf

(***************************************************************************)
(* The words and tags of a sentence whose features have been indexed.      *)
(***************************************************************************)
LEMMA IndexedHas ==
  ASSUME NEW n0 \in Nat, NEW b \in Int, NEW s \in IndexedSentences(n0, b)
  PROVE  /\ Len(s.words) \in Nat \ {0} /\ DOMAIN s.words = 1 .. Len(s.words)
         /\ \A t \in 1 .. Len(s.words) : /\ s.words[t].label \in Nat
                                         /\ s.words[t].features \in Seq((1 .. n0) \X Int)
         /\ s.tags \in SUBSET (0 .. b - 1) /\ s.tags # {}
<1> DEFINE X == IndexedWords(n0)
<1>1. s.words \in Seq(X) /\ s.words # <<>> /\ s.tags \in SUBSET (0 .. b - 1) /\ s.tags # {}
  BY DEF IndexedSentences
<1>2. \A w \in X : w.label \in Nat /\ w.features \in Seq((1 .. n0) \X Int)
  BY DEF IndexedWords
<1> HIDE DEF X
<1>3. \A t \in 1 .. Len(s.words) : s.words[t] \in X
  BY <1>1, ElementOfSeq
<1>4. Len(s.words) \in Nat \ {0} /\ DOMAIN s.words = 1 .. Len(s.words)
  BY <1>1, LenProperties, EmptySeq
<1> QED BY <1>1, <1>2, <1>3, <1>4

(***************************************************************************)
(* LinearFunction: a score, a whole number, for every word and label.      *)
(***************************************************************************)
LEMMA LinearFunctionIs ==
  ASSUME NEW K, NEW m, IsModel(m, K), NEW s \in IndexedSentences(Len(m.features), m.max), NEW tags
  PROVE  /\ LinearFunction(m, s, tags) \in Cols(LabelsOf(m))
         /\ Len(LinearFunction(m, s, tags)) = Len(s.words)
<1> DEFINE T == LabelsOf(m)
<1> DEFINE n == Len(s.words)
<1> DEFINE score(t, i) ==
      IF i \notin tags THEN 0
      ELSE FoldLeft(LAMBDA x, f : x + WeightOf(m, f[1], i) * f[2], 0, s.words[t].features)
<1> DEFINE c == [t \in 1 .. n |-> [i \in T |-> score(t, i)]]
<1>1. m.weight \in [DOMAIN m.weight -> Int] /\ m.max \in Int
  BY DEF IsModel
<1>2. Len(m.features) \in Nat
  <2> DEFINE X == FeaturesOf(K, m.max)
  <2>1. m.features \in Seq(X)
    BY DEF IsModel
  <2> HIDE DEF X
  <2> QED BY <2>1, LenProperties
<1>3. /\ n \in Nat \ {0} /\ DOMAIN s.words = 1 .. n
      /\ \A t \in 1 .. n : s.words[t].features \in Seq((1 .. Len(m.features)) \X Int)
  BY <1>1, <1>2, IndexedHas
<1>4. LinearFunction(m, s, tags) = c
  BY <1>3 DEF LinearFunction
<1>5. ASSUME NEW t \in 1 .. n, NEW i \in T PROVE score(t, i) \in Int
  <2> DEFINE fs == s.words[t].features
  <2>1. fs \in Seq((1 .. Len(m.features)) \X Int)
    BY <1>3
  <2>2. Len(fs) \in Nat
    <3> DEFINE Y == (1 .. Len(m.features)) \X Int
    <3>1. fs \in Seq(Y)
      BY <2>1
    <3> HIDE DEF Y, fs
    <3> QED BY <3>1, LenProperties
  <2>3. PICK g : WeighRun(g, m, i, fs)
    <3> HIDE DEF fs
    <3> QED BY <1>1, <1>2, <2>1, WeighRuns
  <2>4. g \in [0 .. Len(fs) -> Int] /\ FoldLeft(LAMBDA x, f : x + WeightOf(m, f[1], i) * f[2], 0, fs) = g[Len(fs)]
    BY <2>3 DEF WeighRun
  <2> DEFINE y == FoldLeft(LAMBDA x, f : x + WeightOf(m, f[1], i) * f[2], 0, fs)
  <2>5. score(t, i) = IF i \notin tags THEN 0 ELSE y
    OBVIOUS
  <2>6. y = g[Len(fs)]
    BY <2>4
  <2> HIDE DEF y, score, fs
  <2>7. g[Len(fs)] \in Int
    <3>1. g \in [0 .. Len(fs) -> Int]
      BY <2>4
    <3>2. Len(fs) \in 0 .. Len(fs)
      BY <2>2
    <3> QED BY <3>1, <3>2
  <2> QED BY <2>5, <2>6, <2>7
<1>6. \A t \in 1 .. n : c[t] \in [T -> Int]
  BY <1>5
<1>7. c = [t \in 1 .. n |-> c[t]]
  OBVIOUS
<1> HIDE DEF c, n, T
<1> DEFINE C == [T -> Int]
<1>8. \A t \in 1 .. n : c[t] \in C
  BY <1>6
<1> HIDE DEF C
<1>9. c \in Seq(C) /\ Len(c) = n
  BY <1>3, <1>7, <1>8, IsASeq
<1>10. c # <<>>
  BY <1>3, <1>9, EmptySeq
<1> QED BY <1>4, <1>9, <1>10 DEF Cols, C, T, n

(***************************************************************************)
(* The potentials of a sentence: they are positive.                        *)
(***************************************************************************)
Potentials(m, s) == ExpNode(CreateLinearFunctionCache(m, s))

LEMMA PotentialsAre ==
  ASSUME NEW K, NEW m, IsModel(m, K), m.max > 0,
         NEW s \in IndexedSentences(Len(m.features), m.max)
  PROVE  /\ Net(Potentials(m, s), ExpEdge(m.trans), LabelsOf(m))
         /\ Len(Potentials(m, s)) = Len(s.words)
         /\ \A t \in 1 .. Len(s.words) : \A i \in LabelsOf(m) : Potentials(m, s)[t][i] \in Nat \ {0}
<1> DEFINE T == LabelsOf(m)
<1> DEFINE c == LinearFunction(m, s, LabelsOf(m))
<1> DEFINE node == Potentials(m, s)
<1>1. c \in Cols(T) /\ Len(c) = Len(s.words)
  BY LinearFunctionIs
<1> HIDE DEF c
<1>2. node = [t \in DOMAIN c |-> [i \in DOMAIN c[t] |-> Exp(c[t][i])]]
  BY DEF Potentials, ExpNode, CreateLinearFunctionCache, c
<1>3. PICK z : z \in [T -> Int]
  <2>1. [i \in T |-> 0] \in [T -> Int]
    OBVIOUS
  <2> QED BY <2>1
<1>4. /\ Len(c) \in Nat \ {0} /\ DOMAIN c = 1 .. Len(c)
      /\ \A t \in 1 .. Len(c) : c[t] \in [T -> Int]
  <2> HIDE DEF T
  <2> QED BY <1>1, <1>3, ColumnJoins
<1>5. \A t \in 1 .. Len(c) : \A i \in T : Exp(c[t][i]) \in Nat \ {0}
  <2>1. ASSUME NEW t \in 1 .. Len(c), NEW i \in T PROVE Exp(c[t][i]) \in Nat \ {0}
    <3>1. c[t][i] \in Int
      BY <1>4
    <3>2. Exp(c[t][i]) \in Nat /\ Exp(c[t][i]) > 0
      BY <3>1, ExpIsPositive
    <3> QED BY <3>2
  <2> QED BY <2>1
<1> HIDE DEF T, node
<1>6. node = [t \in 1 .. Len(c) |-> [i \in T |-> Exp(c[t][i])]]
  BY <1>2, <1>4
<1>7. /\ \A t \in 1 .. Len(c) : node[t] \in [T -> Int] /\ \A i \in T : node[t][i] \in Nat \ {0}
      /\ node = [t \in 1 .. Len(c) |-> node[t]]
  BY <1>5, <1>6
<1> DEFINE C == [T -> Int]
<1>8. \A t \in 1 .. Len(c) : node[t] \in C
  BY <1>7
<1> HIDE DEF C
<1>9. node \in Seq(C) /\ Len(node) = Len(c)
  BY <1>4, <1>7, <1>8, IsASeq
<1>10. node # <<>>
  BY <1>4, <1>9, EmptySeq
<1>11. node \in Cols(T)
  BY <1>9, <1>10 DEF Cols, C
<1>12. ExpEdge(m.trans) \in [T \X T -> Int]
  <2>1. m.trans \in [T \X T -> Int]
    BY DEF IsModel, T
  <2>2. \A e \in T \X T : Exp(m.trans[e]) \in Int
    BY <2>1, ExpIsPositive
  <2> QED BY <2>1, <2>2 DEF ExpEdge
<1>13. IsFiniteSet(T) /\ T # {}
  BY LabelsAreFinite DEF T
<1>14. Net(node, ExpEdge(m.trans), T)
  BY <1>11, <1>12, <1>13 DEF Net
<1> QED BY <1>1, <1>7, <1>9, <1>14 DEF T, node

-----------------------------------------------------------------------------
(***************************************************************************)
(* What Infer returns are whole numbers, for every word and label and for  *)
(* every transition.                                                       *)
(***************************************************************************)
IsInferred(seen, n, T) ==
  /\ \A t \in 1 .. n : \A i \in T : seen.node[t][i] \in Int
  /\ \A e \in T \X T : seen.edge[e] \in Int

LEMMA InferredIs ==
  ASSUME NEW s, NEW node, NEW edge, NEW T, Net(node, edge, T),
         NEW alpha \in Cols(T), NEW beta \in Cols(T), Len(alpha) = Len(node), Len(beta) = Len(node),
         NEW known \in SUBSET (T \X T)
  PROVE  IsInferred(Inferred(s, node, edge, alpha, beta, known), Len(node), T)
<1> DEFINE n == Len(node)
<1> DEFINE all == VectorSum(Last(alpha))
<1> DEFINE part(x) == Quotient(Precision * x, all)
<1> DEFINE of(column) == [i \in DOMAIN column |-> part(column[i])]
<1> DEFINE nodes == ProbNode(alpha, beta)
<1> DEFINE es == ProbEdge(node, edge, alpha, beta, known)
<1> DEFINE seen == Inferred(s, node, edge, alpha, beta, known)
<1>net. NetFacts(node, edge, T)
  BY NetHas
<1>0. PICK z : z \in [T -> Int]
  BY <1>net DEF NetFacts
<1>1. /\ n \in Nat \ {0} /\ DOMAIN alpha = 1 .. n
      /\ \A t \in 1 .. n : alpha[t] \in [T -> Int] /\ beta[t] \in [T -> Int]
      /\ Last(alpha) \in [T -> Int]
  <2>1. /\ Len(alpha) \in Nat \ {0} /\ DOMAIN alpha = 1 .. Len(alpha) /\ Last(alpha) \in [T -> Int]
        /\ \A t \in 1 .. Len(alpha) : alpha[t] \in [T -> Int]
    BY <1>0, ColumnJoins
  <2>2. \A t \in 1 .. Len(beta) : beta[t] \in [T -> Int]
    BY <1>0, ColumnJoins
  <2> QED BY <2>1, <2>2
<1>2. all \in Int
  BY <1>1, SumIsInt DEF Net
<1> HIDE DEF all
<1>3. ASSUME NEW x \in Int PROVE part(x) \in Int
  <2> DEFINE y == Precision * x
  <2>1. y \in Int
    BY OneIsInt
  <2> HIDE DEF y
  <2>2. Quotient(y, all) \in Int
    BY <1>2, <2>1, QuotientIsInt
  <2> QED BY <2>2 DEF y
<1>4. /\ seen.node = [t \in DOMAIN nodes |-> of(nodes[t])]
      /\ seen.edge = [e \in DOMAIN edge |-> IF e \in known THEN of(es)[e] ELSE 0]
  BY DEF Inferred, all
<1> HIDE DEF seen
<1>5. ASSUME NEW t \in 1 .. n, NEW i \in T PROVE seen.node[t][i] \in Int
  <2>1. alpha[t][i] * beta[t][i] \in Int
    <3>1. alpha[t][i] \in Int /\ beta[t][i] \in Int
      BY <1>1
    <3> QED BY <3>1
  <2>2. /\ DOMAIN nodes = 1 .. n /\ DOMAIN nodes[t] = T /\ nodes[t][i] = alpha[t][i] * beta[t][i]
    BY <1>1 DEF ProbNode
  <2> HIDE DEF nodes, part
  <2>3. seen.node[t][i] = part(nodes[t][i])
    BY <1>4, <2>2
  <2> QED BY <1>3, <2>1, <2>2, <2>3
<1>6. ASSUME NEW e \in T \X T PROVE seen.edge[e] \in Int
  <2>1. DOMAIN edge = T \X T
    BY DEF Net
  <2>2. CASE e \notin known
    BY <1>4, <2>1, <2>2
  <2>3. CASE e \in known
    <3> DEFINE v == [t \in 1 .. n - 1 |->
          alpha[t][e[1]] * edge[e] * node[t + 1][e[2]] * beta[t + 1][e[2]]]
    <3>1. DOMAIN es = known /\ es[e] = VectorSum(v)
      BY <2>3 DEF ProbEdge
    <3>2. v \in [1 .. n - 1 -> Int]
      <4>1. ASSUME NEW t \in 1 .. n - 1
            PROVE  alpha[t][e[1]] * edge[e] * node[t + 1][e[2]] * beta[t + 1][e[2]] \in Int
        <5>1. t \in 1 .. n /\ t + 1 \in 1 .. n
          BY <1>1
        <5>2. /\ alpha[t][e[1]] \in Int /\ edge[e] \in Int /\ node[t + 1][e[2]] \in Int
              /\ beta[t + 1][e[2]] \in Int
          <6>1. e[1] \in T /\ e[2] \in T /\ edge \in [T \X T -> Int]
            BY DEF Net
          <6> QED BY <1>1, <1>net, <5>1, <6>1 DEF NetFacts
        <5> QED BY <5>2
      <4> QED BY <4>1
    <3>3. IsFiniteSet(1 .. n - 1)
      BY <1>1, FS_Interval
    <3> HIDE DEF v, n
    <3>4. VectorSum(v) \in Int
      BY <3>2, <3>3, SumIsInt
    <3> HIDE DEF part, es
    <3>5. seen.edge[e] = part(es[e])
      BY <1>4, <2>1, <2>3, <3>1
    <3> QED BY <1>3, <3>1, <3>4, <3>5
  <2> QED BY <2>2, <2>3
<1> QED BY <1>5, <1>6 DEF IsInferred, seen

-----------------------------------------------------------------------------

(***************************************************************************)
(* The norms, one for every word.  The first column is of potentials,      *)
(* which do not add up to zero; a column that does takes over the norm of  *)
(* the one before.                                                         *)
(***************************************************************************)
OneMoreNorm(x, alpha, t) ==
  Append(x, IF VectorSum(alpha[t]) # 0 THEN VectorSum(alpha[t]) ELSE One * One * Last(x))

NormRun(g, alpha) ==
  /\ g[0] = <<>>
  /\ \A k \in 1 .. Len(alpha) : g[k] = OneMoreNorm(g[k - 1], alpha, k)
  /\ Norms(alpha) = g[Len(alpha)]

LEMMA NormRuns ==
  ASSUME NEW alpha, Len(alpha) \in Nat, DOMAIN alpha = 1 .. Len(alpha)
  PROVE  \E g : NormRun(g, alpha)
<1> DEFINE n == Len(alpha)
<1> DEFINE op(r, x) == OneMoreNorm(r, alpha, x)
<1> DEFINE seq == [k \in 1 .. n |-> k]
<1> DEFINE base == <<>>
<1> DEFINE after(it, s) == IF s = {} THEN base ELSE op(it[s \ {Max(s)}], seq[Max(s)])
<1>0. n \in Nat
  OBVIOUS
<1>1. DOMAIN seq = 1 .. n /\ \A k \in 1 .. n : seq[k] = k
  OBVIOUS
<1>2. Norms(alpha) = FoldLeft(op, base, seq)
  BY Zenon DEF Norms, FoldLeftDomain, OneMoreNorm
<1> HIDE DEF n, op, seq, base
<1> DEFINE Good(it, k) == \A s \in SUBSET (1 .. n) : Cardinality(s) <= k => it[s] = after(it, s)
<1> DEFINE K == {k \in 0 .. n : \E it : Good(it, k)}
<1>3. 0 \in K
  <2> DEFINE it == [s \in SUBSET (1 .. n) |-> base]
  <2>1. \A s \in SUBSET (1 .. n) : Cardinality(s) <= 0 => s = {}
    BY <1>0, SmallSubsets
  <2>2. Good(it, 0)
    BY <2>1
  <2>3. 0 \in 0 .. n
    BY <1>0
  <2> HIDE DEF Good
  <2> QED BY <2>2, <2>3
<1>4. ASSUME NEW k \in 0 .. n - 1, k \in K PROVE k + 1 \in K
  <2>1. PICK it : Good(it, k)
    BY <1>4
  <2> DEFINE jt == [s \in SUBSET (1 .. n) |-> after(it, s)]
  <2>2. \A s \in SUBSET (1 .. n) : Cardinality(s) <= k => jt[s] = it[s]
    BY <2>1
  <2>3. ASSUME NEW s \in SUBSET (1 .. n), Cardinality(s) <= k + 1 PROVE jt[s] = after(jt, s)
    <3>1. CASE s = {}
      BY <3>1
    <3>2. CASE s # {}
      <4>a. k \in Int
        OBVIOUS
      <4>1. s \ {Max(s)} \in SUBSET (1 .. n) /\ Cardinality(s \ {Max(s)}) <= k
        <5> HIDE DEF K, Good, after, jt
        <5> QED BY <1>0, <2>3, <3>2, <4>a, SmallSubsets
      <4>2. jt[s \ {Max(s)}] = it[s \ {Max(s)}]
        BY <2>2, <4>1
      <4>3. jt[s] = after(it, s)
        OBVIOUS
      <4> HIDE DEF jt
      <4> QED BY <4>2, <4>3
    <3> QED BY <3>1, <3>2
  <2> HIDE DEF jt
  <2>4. Good(jt, k + 1)
    BY <2>3
  <2>5. k + 1 \in 0 .. n
    BY <1>0
  <2> HIDE DEF Good
  <2> QED BY <2>4, <2>5
<1>5. \E it : it = [s \in SUBSET (1 .. n) |-> after(it, s)]
  <2>1. n \in K
    <3> HIDE DEF K
    <3>1. \A k \in 0 .. n : k \in K
      BY <1>0, <1>3, <1>4, UpTo
    <3> QED BY <1>0, <3>1
  <2>2. PICK it : Good(it, n)
    BY <2>1
  <2> DEFINE jt == [s \in SUBSET (1 .. n) |-> it[s]]
  <2>3. ASSUME NEW s \in SUBSET (1 .. n) PROVE it[s] = after(jt, s)
    <3>1. it[s] = after(it, s)
      BY <1>0, <2>2, SmallSubsets
    <3>2. CASE s # {}
      <4>1. s \ {Max(s)} \in SUBSET (1 .. n)
        BY <1>0, <3>2, SmallSubsets
      <4>2. jt[s \ {Max(s)}] = it[s \ {Max(s)}]
        BY <4>1
      <4> HIDE DEF jt
      <4> QED BY <3>1, <4>2
    <3> QED BY <3>1, <3>2
  <2>4. jt = [s \in SUBSET (1 .. n) |-> after(jt, s)]
    BY <2>3
  <2> HIDE DEF jt, after
  <2> QED BY <2>4
<1>6. PICK it : /\ it = [s \in SUBSET (1 .. n) |-> after(it, s)]
               /\ Norms(alpha) = it[1 .. n]
  BY <1>1, <1>2, <1>5 DEF FoldLeft, MapThenFoldSet
<1> DEFINE g == [k \in 0 .. n |-> it[1 .. k]]
<1>7. g[0] = base
  <2>1. 1 .. 0 = {} /\ 0 \in 0 .. n /\ {} \in SUBSET (1 .. n)
    BY <1>0
  <2>2. it[{}] = base
    BY <1>6, <2>1
  <2> QED BY <2>1, <2>2
<1>8. ASSUME NEW k \in 1 .. n PROVE g[k] = op(g[k - 1], seq[k])
  <2>1. /\ 1 .. k \in SUBSET (1 .. n) /\ 1 .. k # {} /\ Max(1 .. k) = k
        /\ (1 .. k) \ {k} = 1 .. k - 1
    BY <1>0, LargestOfInterval
  <2>2. it[1 .. k] = op(it[1 .. k - 1], seq[k])
    <3>1. it[1 .. k] = after(it, 1 .. k)
      BY <1>6, <2>1
    <3>2. after(it, 1 .. k) = op(it[(1 .. k) \ {k}], seq[k])
      BY <2>1
    <3> QED BY <2>1, <3>1, <3>2
  <2>3. k \in 0 .. n /\ k - 1 \in 0 .. n
    BY <1>0
  <2> QED BY <2>2, <2>3
<1>9. Norms(alpha) = g[n]
  <2>1. n \in 0 .. n
    BY <1>0
  <2> QED BY <1>6, <2>1
<1> HIDE DEF g
<1> QED BY <1>1, <1>7, <1>8, <1>9 DEF NormRun, op, base, n

(* Every word has a norm.                                                  *)
LEMMA NormsAre ==
  ASSUME NEW T, IsFiniteSet(T), T # {}, NEW alpha \in Cols(T), \A i \in T : alpha[1][i] \in Nat \ {0}
  PROVE  Norms(alpha) \in Seq(Int) /\ Len(Norms(alpha)) = Len(alpha)
<1> DEFINE n == Len(alpha)
<1>0. PICK z : z \in [T -> Int]
  <2>1. [i \in T |-> 0] \in [T -> Int]
    OBVIOUS
  <2> QED BY <2>1
<1>1. n \in Nat \ {0} /\ DOMAIN alpha = 1 .. n /\ \A t \in 1 .. n : alpha[t] \in [T -> Int]
  BY <1>0, ColumnJoins
<1>2. \A t \in 1 .. n : VectorSum(alpha[t]) \in Int
  BY <1>1, SumIsInt
<1>3. VectorSum(alpha[1]) # 0
  <2> DEFINE v == alpha[1]
  <2>1. DOMAIN v = T
    BY <1>1
  <2>2. 0 \in Nat /\ \A x \in T : \A y \in Nat : v[x] + y \in Nat
    OBVIOUS
  <2>3. \A x \in T : v[x] \in Nat \ {0}
    OBVIOUS
  <2> HIDE DEF v
  <2>4. PICK x \in T, y \in Nat : VectorSum(v) = v[x] + y
    BY <2>1, <2>2, SumIsIn
  <2>5. VectorSum(v) # 0
    BY <2>3, <2>4
  <2> QED BY <2>5 DEF v
<1>4. PICK g : NormRun(g, alpha)
  BY <1>1, NormRuns
<1> DEFINE S == {k \in 0 .. n : g[k] \in Seq(Int) /\ Len(g[k]) = k}
<1>5. 0 \in S
  <2>1. g[0] = <<>> /\ 0 \in 0 .. n
    BY <1>1, <1>4 DEF NormRun
  <2>2. <<>> \in Seq(Int) /\ Len(<<>>) = 0
    OBVIOUS
  <2> QED BY <2>1, <2>2
<1>6. ASSUME NEW k \in 0 .. n - 1, k \in S PROVE k + 1 \in S
  <2> DEFINE t == k + 1
  <2> DEFINE x == g[k]
  <2> DEFINE y == IF VectorSum(alpha[t]) # 0 THEN VectorSum(alpha[t]) ELSE One * One * Last(x)
  <2>1. t \in 1 .. n /\ t - 1 = k /\ t \in 0 .. n
    BY <1>1
  <2>2. g[t] = OneMoreNorm(x, alpha, t)
    BY <1>4, <2>1 DEF NormRun
  <2>3. x \in Seq(Int) /\ Len(x) = k
    BY <1>6
  <2> HIDE DEF x, t
  <2>4. g[t] = Append(x, y)
    BY <2>2 DEF OneMoreNorm
  <2>5. y \in Int
    <3>1. CASE VectorSum(alpha[t]) # 0
      BY <1>2, <2>1, <3>1
    <3>2. CASE VectorSum(alpha[t]) = 0
      <4>1. k # 0
        BY <1>3, <2>1, <3>2 DEF t
      <4>2. Last(x) \in Int
        <5>1. k \in 1 .. Len(x)
          BY <2>3, <4>1
        <5>2. x[k] \in Int
          BY <2>3, <5>1, ElementOfSeq
        <5> QED BY <2>3, <5>2 DEF Last
      <4> QED BY <3>2, <4>2, OneIsInt
    <3> QED BY <3>1, <3>2
  <2> HIDE DEF y
  <2>6. g[t] \in Seq(Int) /\ Len(g[t]) = k + 1
    BY <2>3, <2>4, <2>5
  <2> QED BY <2>1, <2>6 DEF t
<1>7. \A k \in 0 .. n : k \in S
  <2> HIDE DEF S, n
  <2> QED BY <1>1, <1>5, <1>6, UpTo
<1>8. n \in S
  BY <1>1, <1>7
<1> QED BY <1>4, <1>8 DEF NormRun

(* The first column of the constrained sums are the potentials.            *)
LEMMA ConstrainedBegins ==
  ASSUME NEW node, NEW edge, NEW T, Net(node, edge, T), NEW tags \in SUBSET T
  PROVE  ConstrainedForward(node, edge, tags)[1] = node[1]
<1> DEFINE n == Len(node) - 1
<1>net. NetFacts(node, edge, T)
  BY NetHas
<1>0. n \in Nat
  BY <1>net DEF NetFacts
<1>1. PICK g : ConstrainedForwardRun(g, T, node, edge, tags)
  BY ConstrainedForwardRuns
<1>2. /\ g \in [0 .. n -> Cols(T)] /\ ConstrainedForward(node, edge, tags) = g[n]
      /\ g[0] = <<node[1]>>
      /\ \A k \in 1 .. n : g[k] = Append(g[k - 1], ConstrainedForwardColumn(Last(g[k - 1]), node, edge, tags, k + 1))
  BY <1>1 DEF ConstrainedForwardRun
<1> HIDE DEF n
<1> DEFINE S == {k \in 0 .. n : g[k][1] = node[1]}
<1>3. 0 \in S
  BY <1>0, <1>2
<1>4. ASSUME NEW k \in 0 .. n - 1, k \in S PROVE k + 1 \in S
  <2>1. k + 1 \in 1 .. n /\ (k + 1) - 1 = k /\ k \in 0 .. n /\ k + 1 \in 0 .. n
    BY <1>0
  <2> DEFINE c == ConstrainedForwardColumn(Last(g[k]), node, edge, tags, (k + 1) + 1)
  <2> DEFINE C == [T -> Int]
  <2>2. g[k + 1] = Append(g[k], c)
    BY <1>2, <2>1
  <2>3. g[k] \in Seq(C) /\ g[k] # <<>>
    <3>1. g[k] \in Cols(T)
      BY <1>2, <2>1
    <3> QED BY <3>1 DEF Cols
  <2> HIDE DEF c, C
  <2>4. 1 \in 1 .. Len(g[k])
    <3>1. Len(g[k]) \in Nat /\ Len(g[k]) # 0
      BY <2>3, LenProperties, EmptySeq
    <3> QED BY <3>1
  <2>5. Append(g[k], c)[1] = g[k][1]
    BY <2>3, <2>4
  <2> QED BY <1>4, <2>1, <2>2, <2>5
<1>5. \A k \in 0 .. n : k \in S
  <2> HIDE DEF S
  <2> QED BY <1>0, <1>3, <1>4, UpTo
<1>6. n \in S
  BY <1>0, <1>5
<1> QED BY <1>2, <1>6

(* What the confined sums infer has a probability for every label and      *)
(* every transition (TagConstrainedCRF: Infer).                            *)
LEMMA ConstrainedInferredIs ==
  ASSUME NEW s, NEW node, NEW edge, NEW T, Net(node, edge, T),
         NEW alpha \in Cols(T), NEW beta \in Cols(T), Len(alpha) = Len(node), Len(beta) = Len(node),
         NEW norms \in Seq(Int), Len(norms) = Len(node)
  PROVE  IsInferred(ConstrainedSums(s, node, edge, alpha, norms, beta), Len(node), T)
<1> DEFINE n == Len(node)
<1> DEFINE before(t) == IF t = 1 THEN One ELSE One * One * norms[t - 1]
<1> DEFINE seen == ConstrainedSums(s, node, edge, alpha, norms, beta)
<1>net. NetFacts(node, edge, T)
  BY NetHas
<1>0. PICK z : z \in [T -> Int]
  BY <1>net DEF NetFacts
<1>1. /\ n \in Nat \ {0}
      /\ \A t \in 1 .. n : alpha[t] \in [T -> Int] /\ beta[t] \in [T -> Int]
      /\ \A t \in 1 .. n : norms[t] \in Int
  BY <1>0, ColumnJoins, ElementOfSeq
<1>2. ASSUME NEW t \in 1 .. n PROVE before(t) \in Int
  <2>1. CASE t = 1
    BY <2>1, OneIsInt
  <2>2. CASE t # 1
    <3>1. t - 1 \in 1 .. n
      BY <1>1, <2>2
    <3>2. norms[t - 1] \in Int
      BY <1>1, <3>1
    <3> QED BY <2>2, <3>2, OneIsInt
  <2> QED BY <2>1, <2>2
<1>3. /\ seen.node = [t \in 1 .. n |-> [i \in DOMAIN node[t] |->
                        Quotient(alpha[t][i] * beta[t][i], before(t))]]
      /\ seen.edge = [e \in DOMAIN edge |-> VectorSum([t \in 1 .. n - 1 |->
                   Quotient(alpha[t][e[1]] * edge[e]
                              * ((beta[t + 1][e[2]] * node[t + 1][e[2]]) \div One),
                            One * norms[t])])]
  BY DEF ConstrainedSums
<1> HIDE DEF seen, before
<1>4. ASSUME NEW t \in 1 .. n, NEW i \in T PROVE seen.node[t][i] \in Int
  <2> DEFINE x == alpha[t][i] * beta[t][i]
  <2>1. x \in Int
    <3>1. alpha[t][i] \in Int /\ beta[t][i] \in Int
      BY <1>1
    <3> QED BY <3>1, ProductIsInt
  <2>2. DOMAIN node[t] = T
    BY <1>net DEF NetFacts
  <2>3. seen.node[t][i] = Quotient(x, before(t))
    BY <1>3, <2>2
  <2> HIDE DEF x
  <2> QED BY <1>2, <2>1, <2>3, QuotientIsInt
<1>5. ASSUME NEW e \in T \X T PROVE seen.edge[e] \in Int
  <2> DEFINE x(t) == alpha[t][e[1]] * edge[e] * ((beta[t + 1][e[2]] * node[t + 1][e[2]]) \div One)
  <2> DEFINE v == [t \in 1 .. n - 1 |-> Quotient(x(t), One * norms[t])]
  <2>1. DOMAIN edge = T \X T
    BY DEF Net
  <2>2. seen.edge[e] = VectorSum(v)
    BY <1>3, <2>1
  <2>3. ASSUME NEW t \in 1 .. n - 1 PROVE Quotient(x(t), One * norms[t]) \in Int
    <3>1. t \in 1 .. n /\ t + 1 \in 1 .. n
      BY <1>1
    <3>2. /\ alpha[t][e[1]] \in Int /\ edge[e] \in Int /\ node[t + 1][e[2]] \in Int
          /\ beta[t + 1][e[2]] \in Int
      <4>1. e[1] \in T /\ e[2] \in T /\ edge \in [T \X T -> Int]
        BY DEF Net
      <4> QED BY <1>1, <1>net, <3>1, <4>1 DEF NetFacts
    <3> DEFINE y == beta[t + 1][e[2]] * node[t + 1][e[2]]
    <3> DEFINE z1 == y \div One
    <3>3. y \in Int
      BY <3>2, ProductIsInt
    <3> HIDE DEF y
    <3>4. z1 \in Int
      BY <3>3, OneIsInt
    <3> HIDE DEF z1
    <3> DEFINE u == alpha[t][e[1]] * edge[e] * z1
    <3>5. u \in Int
      <4>1. alpha[t][e[1]] * edge[e] \in Int
        BY <3>2, ProductIsInt
      <4> QED BY <3>4, <4>1, ProductIsInt
    <3>6. x(t) = u
      BY DEF y, z1
    <3> DEFINE w == One * norms[t]
    <3>7. w \in Int
      BY <1>1, <3>1, OneIsInt
    <3> HIDE DEF u, w, x
    <3>8. Quotient(u, w) \in Int
      BY <3>5, <3>7, QuotientIsInt
    <3> QED BY <3>6, <3>8 DEF w
  <2>4. v \in [1 .. n - 1 -> Int]
    BY <2>3
  <2>5. IsFiniteSet(1 .. n - 1)
    BY <1>1, FS_Interval
  <2> HIDE DEF v, n
  <2>6. VectorSum(v) \in Int
    BY <2>4, <2>5, SumIsInt
  <2> QED BY <2>2, <2>6
<1> QED BY <1>4, <1>5 DEF IsInferred, seen

(* So has what any of the three inferences gives (VanillaCRF,              *)
(* FrenchVanillaCRF, TagConstrainedCRF: Infer).                            *)
LEMMA InferIs ==
  ASSUME NEW K, NEW m, IsModel(m, K), m.max > 0,
         NEW s \in IndexedSentences(Len(m.features), m.max),
         NEW crf \in {"vanilla", "sparse", "constrained"}
  PROVE  IsInferred(InferBy(crf, m, s), Len(s.words), LabelsOf(m))
<1> DEFINE T == LabelsOf(m)
<1> DEFINE node == Potentials(m, s)
<1> DEFINE edge == ExpEdge(m.trans)
<1>1. /\ Net(node, edge, T) /\ Len(node) = Len(s.words)
      /\ \A t \in 1 .. Len(s.words) : \A i \in T : node[t][i] \in Nat \ {0}
  BY PotentialsAre
<1>2. DOMAIN edge = T \X T /\ SparseTransition(m) \in SUBSET (T \X T)
  <2>1. m.trans \in [T \X T -> Int]
    BY DEF IsModel
  <2> QED BY <2>1 DEF ExpEdge, SparseTransition
<1>3. CASE crf = "vanilla"
  <2>1. InferBy(crf, m, s) = Inferred(s, node, edge, Forward(node, edge), Backward(node, edge), DOMAIN edge)
    BY <1>3 DEF InferBy, VanillaInfer, VanillaSums, Potentials
  <2> HIDE DEF node, edge, T
  <2>2. /\ Forward(node, edge) \in Cols(T) /\ Len(Forward(node, edge)) = Len(node)
        /\ Backward(node, edge) \in Cols(T) /\ Len(Backward(node, edge)) = Len(node)
    BY <1>1, ForwardIs, BackwardIs
  <2>3. DOMAIN edge \in SUBSET (T \X T)
    BY <1>2
  <2>4. IsInferred(Inferred(s, node, edge, Forward(node, edge), Backward(node, edge), DOMAIN edge), Len(node), T)
    BY <1>1, <2>2, <2>3, InferredIs
  <2> QED BY <1>1, <2>1, <2>4 DEF T
<1>4. CASE crf = "sparse"
  <2> DEFINE sparse == SparseTransition(m)
  <2>1. InferBy(crf, m, s) = Inferred(s, node, edge, SparseForward(node, edge, sparse),
                                      SparseBackward(node, edge, sparse), sparse)
    BY <1>4 DEF InferBy, SparseInfer, SparseSums, Potentials
  <2>a. sparse \in SUBSET (T \X T)
    BY <1>2
  <2> HIDE DEF node, edge, T, sparse
  <2>2. /\ SparseForward(node, edge, sparse) \in Cols(T) /\ Len(SparseForward(node, edge, sparse)) = Len(node)
        /\ SparseBackward(node, edge, sparse) \in Cols(T) /\ Len(SparseBackward(node, edge, sparse)) = Len(node)
    BY <1>1, SparseForwardIs, SparseBackwardIs
  <2>4. IsInferred(Inferred(s, node, edge, SparseForward(node, edge, sparse),
                            SparseBackward(node, edge, sparse), sparse), Len(node), T)
    BY <1>1, <2>a, <2>2, InferredIs
  <2> QED BY <1>1, <2>1, <2>4 DEF T
<1>5. CASE crf = "constrained"
  <2> DEFINE tags == s.tags
  <2> DEFINE alpha == ConstrainedForward(node, edge, tags)
  <2> DEFINE norms == Norms(alpha)
  <2> DEFINE beta == ConstrainedBackward(node, edge, tags, norms)
  <2>1. InferBy(crf, m, s) = ConstrainedSums(s, node, edge, alpha, norms, beta)
    BY <1>5 DEF InferBy, ConstrainedInfer, ConstrainedOf, Potentials
  <2>2. tags \in SUBSET T
    <3>1. m.max \in Int
      BY DEF IsModel
    <3>2. Len(m.features) \in Nat
      <4> DEFINE X == FeaturesOf(K, m.max)
      <4>1. m.features \in Seq(X)
        BY DEF IsModel
      <4> HIDE DEF X
      <4> QED BY <4>1, LenProperties
    <3> QED BY <3>1, <3>2, IndexedHas DEF LabelsOf
  <2>b. Len(s.words) >= 1 /\ 1 \in 1 .. Len(s.words)
    <3>1. NetFacts(node, edge, T)
      BY <1>1, NetHas
    <3>2. Len(node) \in Nat \ {0}
      BY <3>1 DEF NetFacts
    <3> QED BY <1>1, <3>2
  <2> HIDE DEF node, edge, T, tags
  <2>3. alpha \in Cols(T) /\ Len(alpha) = Len(node)
    BY <1>1, <2>2, ConstrainedForwardIs
  <2>4. alpha[1] = node[1]
    BY <1>1, <2>2, ConstrainedBegins
  <2>5. \A i \in T : alpha[1][i] \in Nat \ {0}
    BY <1>1, <2>4, <2>b
  <2> HIDE DEF alpha
  <2>6. norms \in Seq(Int) /\ Len(norms) = Len(node)
    BY <1>1, <2>3, <2>5, NormsAre DEF Net
  <2> HIDE DEF norms
  <2>7. beta \in Cols(T) /\ Len(beta) = Len(node)
    BY <1>1, <2>2, <2>6, ConstrainedBackwardIs
  <2> HIDE DEF beta
  <2>8. IsInferred(ConstrainedSums(s, node, edge, alpha, norms, beta), Len(node), T)
    BY <1>1, <2>3, <2>6, <2>7, ConstrainedInferredIs
  <2> QED BY <1>1, <2>1, <2>8 DEF T
<1> QED BY <1>3, <1>4, <1>5

-----------------------------------------------------------------------------
(* What a word has of a feature, entry by entry.                           *)
SeenRun(g, s, t, uid) ==
  /\ g \in [0 .. Len(s.words[t].features) -> Int] /\ g[0] = 0
  /\ \A k \in 1 .. Len(s.words[t].features) : g[k] = IF s.words[t].features[k][1] = uid THEN g[k - 1] + s.words[t].features[k][2] ELSE g[k - 1]
  /\ Seen(s, t, uid) = g[Len(s.words[t].features)]

LEMMA SeenRuns ==
  ASSUME NEW s, NEW t, NEW uid, NEW n0 \in Nat, s.words[t].features \in Seq((1 .. n0) \X Int)
  PROVE  \E g : SeenRun(g, s, t, uid)
<1> DEFINE n == Len(s.words[t].features)
<1> DEFINE op(r, x) == IF x[1] = uid THEN r + x[2] ELSE r
<1> DEFINE seq == [k \in 1 .. n |-> s.words[t].features[k]]
<1> DEFINE base == 0
<1> DEFINE V == Int
<1> DEFINE F == [k \in 1 .. n |-> [v \in V |-> op(v, seq[k])]]
<1> DEFINE X == (1 .. n0) \X Int
<1> DEFINE fs == s.words[t].features
<1>0. n \in Nat /\ fs = seq /\ \A k \in 1 .. n : fs[k] \in X
  <2>1. fs \in Seq(X)
    OBVIOUS
  <2> HIDE DEF X, fs
  <2>2. Len(fs) \in Nat /\ fs = [k \in 1 .. Len(fs) |-> fs[k]] /\ \A k \in 1 .. Len(fs) : fs[k] \in X
    BY <2>1, LenProperties, ElementOfSeq
  <2> QED BY <2>2 DEF fs
<1>1. base \in V
  OBVIOUS
<1>2. \A k \in 1 .. n : \A v \in V : F[k][v] = op(v, seq[k])
  OBVIOUS
<1>3. DOMAIN seq = 1 .. n /\ \A k \in 1 .. n : seq[k] = s.words[t].features[k]
  OBVIOUS
<1>4. Seen(s, t, uid) = FoldLeft(op, base, seq)
  BY <1>0 DEF Seen
<1> HIDE DEF F, seq
<1>5. ASSUME NEW k \in 1 .. n, NEW v \in V PROVE op(v, seq[k]) \in V
  <2> HIDE DEF X
  <2>1. seq[k] \in X
    BY <1>0, <1>3
  <2>2. seq[k][2] \in Int
    BY <2>1 DEF X
  <2> QED BY <2>2
<1>6. Steps(F, V, 1 .. n)
  <2> HIDE DEF op, V
  <2> QED BY <1>2, <1>5 DEF Steps
<1>7. \E it : it = [z \in SUBSET (1 .. n) |->
                     IF z = {} THEN base ELSE op(it[z \ {Max(z)}], seq[Max(z)])]
  <2>1. PICK it : LeftIteration(it, n, V, base, F)
    BY <1>0, <1>1, <1>6, LeftIterationExists
  <2>2. ASSUME NEW z \in SUBSET (1 .. n), z # {}
        PROVE  it[z] = op(it[z \ {Max(z)}], seq[Max(z)])
    <3>1. Max(z) \in 1 .. n /\ it[z \ {Max(z)}] \in V /\ it[z] = F[Max(z)][it[z \ {Max(z)}]]
      BY <2>1, <2>2 DEF LeftIteration
    <3> HIDE DEF V, op
    <3> QED BY <1>2, <3>1
  <2>3. it \in [SUBSET (1 .. n) -> V] /\ it[{}] = base
    BY <2>1 DEF LeftIteration
  <2> HIDE DEF V, op, base
  <2> QED BY <2>2, <2>3
<1>8. PICK it :
        /\ it = [z \in SUBSET (1 .. n) |->
                   IF z = {} THEN base ELSE op(it[z \ {Max(z)}], seq[Max(z)])]
        /\ Seen(s, t, uid) = it[1 .. n]
  BY <1>3, <1>4, <1>7, ZenonT(60) DEF FoldLeft, MapThenFoldSet
<1>9. LeftFold(it, n, V, base, F)
  <2>1. it[{}] = base
    BY <1>8
  <2>2. ASSUME NEW z \in SUBSET (1 .. n), z # {}, it[z \ {Max(z)}] \in V
        PROVE  it[z] = F[Max(z)][it[z \ {Max(z)}]]
    <3>1. it[z] = op(it[z \ {Max(z)}], seq[Max(z)]) /\ Max(z) \in 1 .. n
      BY <1>0, <1>8, <2>2, LargestOf
    <3> HIDE DEF V, op
    <3> QED BY <1>2, <2>2, <3>1
  <2> HIDE DEF V, base
  <2> QED BY <2>1, <2>2 DEF LeftFold
<1>10. PICK g : LeftRun(g, n, V, base, F) /\ g[n] = it[1 .. n]
  <2> HIDE DEF n, op, V, base
  <2> QED BY <1>0, <1>1, <1>6, <1>9, LeftRuns
<1>11. ASSUME NEW k \in 1 .. n PROVE g[k] = op(g[k - 1], seq[k])
  <2>1. g[k] = F[k][g[k - 1]] /\ k - 1 \in 0 .. n /\ g \in [0 .. n -> V]
    BY <1>0, <1>10 DEF LeftRun
  <2> HIDE DEF n, V, op
  <2> QED BY <1>2, <2>1
<1>12. g \in [0 .. n -> V] /\ g[0] = base
  BY <1>10 DEF LeftRun
<1> QED BY <1>3, <1>8, <1>10, <1>11, <1>12 DEF SeenRun

(* And the words of a path that takes a label.                             *)
NodeCountRun(g, s, path, p) ==
  /\ g \in [0 .. Len(s.words) -> Int] /\ g[0] = 0
  /\ \A k \in 1 .. Len(s.words) : g[k] = IF path[k] = p[2] THEN g[k - 1] + Seen(s, k, p[1]) ELSE g[k - 1]
  /\ NodeCount(s, path, p) = g[Len(s.words)]

LEMMA NodeCountRuns ==
  ASSUME NEW n0 \in Nat, NEW b \in Int, NEW s \in IndexedSentences(n0, b), NEW p,
         NEW path, DOMAIN path = 1 .. Len(s.words)
  PROVE  \E g : NodeCountRun(g, s, path, p)
<1> DEFINE n == Len(s.words)
<1> DEFINE op(r, x) == IF path[x] = p[2] THEN r + Seen(s, x, p[1]) ELSE r
<1> DEFINE seq == [k \in 1 .. n |-> k]
<1> DEFINE base == 0
<1> DEFINE V == Int
<1> DEFINE F == [k \in 1 .. n |-> [v \in V |-> op(v, seq[k])]]
<1>0. n \in Nat /\ \A k \in 1 .. n : Seen(s, k, p[1]) \in Int
  <2>1. n \in Nat /\ \A t \in 1 .. n : s.words[t].features \in Seq((1 .. n0) \X Int)
    BY IndexedHas
  <2>2. ASSUME NEW k \in 1 .. n PROVE Seen(s, k, p[1]) \in Int
    <3> DEFINE fs == s.words[k].features
    <3>1. fs \in Seq((1 .. n0) \X Int)
      BY <2>1
    <3>2. Len(fs) \in Nat
      <4> DEFINE X == (1 .. n0) \X Int
      <4>1. fs \in Seq(X)
        BY <3>1
      <4> HIDE DEF X, fs
      <4> QED BY <4>1, LenProperties
    <3>3. PICK g : SeenRun(g, s, k, p[1])
      BY <3>1, SeenRuns
    <3>4. g \in [0 .. Len(fs) -> Int] /\ Seen(s, k, p[1]) = g[Len(fs)]
      BY <3>3 DEF SeenRun
    <3> HIDE DEF fs
    <3>5. Len(fs) \in 0 .. Len(fs)
      BY <3>2
    <3> QED BY <3>4, <3>5
  <2> QED BY <2>1, <2>2
<1>1. base \in V
  OBVIOUS
<1>2. \A k \in 1 .. n : \A v \in V : F[k][v] = op(v, seq[k])
  OBVIOUS
<1>3. DOMAIN seq = 1 .. n /\ \A k \in 1 .. n : seq[k] = k
  OBVIOUS
<1>4. NodeCount(s, path, p) = FoldLeft(op, base, seq)
  BY Zenon DEF NodeCount, FoldLeftDomain
<1> HIDE DEF F, seq
<1>5. ASSUME NEW k \in 1 .. n, NEW v \in V PROVE op(v, seq[k]) \in V
  <2>1. seq[k] = k /\ Seen(s, k, p[1]) \in Int
    BY <1>0, <1>3
  <2> QED BY <2>1
<1>6. Steps(F, V, 1 .. n)
  <2> HIDE DEF op, V
  <2> QED BY <1>2, <1>5 DEF Steps
<1>7. \E it : it = [z \in SUBSET (1 .. n) |->
                     IF z = {} THEN base ELSE op(it[z \ {Max(z)}], seq[Max(z)])]
  <2>1. PICK it : LeftIteration(it, n, V, base, F)
    BY <1>0, <1>1, <1>6, LeftIterationExists
  <2>2. ASSUME NEW z \in SUBSET (1 .. n), z # {}
        PROVE  it[z] = op(it[z \ {Max(z)}], seq[Max(z)])
    <3>1. Max(z) \in 1 .. n /\ it[z \ {Max(z)}] \in V /\ it[z] = F[Max(z)][it[z \ {Max(z)}]]
      BY <2>1, <2>2 DEF LeftIteration
    <3> HIDE DEF V, op
    <3> QED BY <1>2, <3>1
  <2>3. it \in [SUBSET (1 .. n) -> V] /\ it[{}] = base
    BY <2>1 DEF LeftIteration
  <2> HIDE DEF V, op, base
  <2> QED BY <2>2, <2>3
<1>8. PICK it :
        /\ it = [z \in SUBSET (1 .. n) |->
                   IF z = {} THEN base ELSE op(it[z \ {Max(z)}], seq[Max(z)])]
        /\ NodeCount(s, path, p) = it[1 .. n]
  <2> HIDE DEF op, base
  <2> QED BY <1>3, <1>4, <1>7 DEF FoldLeft, MapThenFoldSet
<1>9. LeftFold(it, n, V, base, F)
  <2>1. it[{}] = base
    BY <1>8
  <2>2. ASSUME NEW z \in SUBSET (1 .. n), z # {}, it[z \ {Max(z)}] \in V
        PROVE  it[z] = F[Max(z)][it[z \ {Max(z)}]]
    <3>1. it[z] = op(it[z \ {Max(z)}], seq[Max(z)]) /\ Max(z) \in 1 .. n
      BY <1>0, <1>8, <2>2, LargestOf
    <3> HIDE DEF V, op
    <3> QED BY <1>2, <2>2, <3>1
  <2> HIDE DEF V, base
  <2> QED BY <2>1, <2>2 DEF LeftFold
<1>10. PICK g : LeftRun(g, n, V, base, F) /\ g[n] = it[1 .. n]
  <2> HIDE DEF n, op, V, base
  <2> QED BY <1>0, <1>1, <1>6, <1>9, LeftRuns
<1>11. ASSUME NEW k \in 1 .. n PROVE g[k] = op(g[k - 1], seq[k])
  <2>1. g[k] = F[k][g[k - 1]] /\ k - 1 \in 0 .. n /\ g \in [0 .. n -> V]
    BY <1>0, <1>10 DEF LeftRun
  <2> HIDE DEF n, V, op
  <2> QED BY <1>2, <2>1
<1>12. g \in [0 .. n -> V] /\ g[0] = base
  BY <1>10 DEF LeftRun
<1> QED BY <1>3, <1>8, <1>10, <1>11, <1>12, ZenonT(60) DEF NodeCountRun

(* What a path counts for a parameter is a whole number                    *)
(* (PerceptronLearner: SinglePassTraining).                                *)
LEMMA NodeCountIsInt ==
  ASSUME NEW n0 \in Nat, NEW b \in Int, NEW s \in IndexedSentences(n0, b), NEW p,
         NEW path, DOMAIN path = 1 .. Len(s.words)
  PROVE  NodeCount(s, path, p) \in Int
<1> DEFINE n == Len(s.words)
<1>1. n \in Nat
  BY IndexedHas
<1>2. PICK g : NodeCountRun(g, s, path, p)
  BY NodeCountRuns
<1>3. g \in [0 .. n -> Int] /\ NodeCount(s, path, p) = g[n]
  BY <1>2 DEF NodeCountRun
<1> HIDE DEF n
<1>4. n \in 0 .. n
  BY <1>1
<1> QED BY <1>3, <1>4

(* A path takes a transition some number of times.                         *)
LEMMA EdgeCountIsNat ==
  ASSUME NEW path, Len(path) \in Nat, NEW e
  PROVE  EdgeCount(path, e) \in Nat
<1> DEFINE S == {t \in 2 .. Len(path) : <<path[t - 1], path[t]>> = e}
<1>1. IsFiniteSet(2 .. Len(path))
  BY FS_Interval
<1>2. S \subseteq 2 .. Len(path)
  OBVIOUS
<1> HIDE DEF S
<1>3. IsFiniteSet(S)
  BY <1>1, <1>2, FS_Subset
<1>4. Cardinality(S) \in Nat
  BY <1>3, FS_CardinalityType
<1> QED BY <1>4 DEF EdgeCount, S

(* The labels of a sentence are a path through it.                         *)
LEMMA LabelPathIs ==
  ASSUME NEW n0 \in Nat, NEW b \in Int, NEW s \in IndexedSentences(n0, b)
  PROVE  DOMAIN LabelPath(s) = 1 .. Len(s.words) /\ Len(LabelPath(s)) \in Nat
<1> DEFINE n == Len(s.words)
<1>1. n \in Nat /\ DOMAIN s.words = 1 .. n
  BY IndexedHas
<1>2. LabelPath(s) = [t \in 1 .. n |-> s.words[t].label]
  BY <1>1 DEF LabelPath
<1> HIDE DEF n
<1>3. Len(LabelPath(s)) = n
  BY <1>1, <1>2
<1> QED BY <1>1, <1>2, <1>3 DEF n

(***************************************************************************)
(* Decoding a sentence: one of the labels there are for each of its words. *)
(***************************************************************************)
LEMMA ChainOfModel ==
  ASSUME NEW K, NEW m, IsModel(m, K), NEW s \in IndexedSentences(Len(m.features), m.max),
         NEW tags \in SUBSET LabelsOf(m), tags # {}, NEW known
  PROVE  /\ Chain(LinearFunction(m, s, known), m.trans, tags)
         /\ Len(LinearFunction(m, s, known)) = Len(s.words)
<1> DEFINE T == LabelsOf(m)
<1> DEFINE node == LinearFunction(m, s, known)
<1>0. PICK z : z \in [T -> Int]
  <2>1. [i \in T |-> 0] \in [T -> Int]
    OBVIOUS
  <2> QED BY <2>1
<1>1. node \in Cols(T) /\ Len(node) = Len(s.words)
  BY LinearFunctionIs
<1>a. m.max \in Nat \cup {-1} /\ m.trans \in [T \X T -> Int]
  BY DEF IsModel
<1>2. \E b \in Nat : tags \subseteq 0 .. b - 1
  <2>1. m.max \in Nat
    <3>1. ASSUME m.max = -1 PROVE FALSE
      <4>1. LabelsOf(m) = 0 .. -2
        BY <3>1 DEF LabelsOf
      <4>2. 0 .. -2 = {}
        OBVIOUS
      <4> QED BY <4>1, <4>2
    <3> QED BY <1>a, <3>1
  <2> QED BY <2>1 DEF LabelsOf
<1> HIDE DEF node
<1>3. /\ Len(node) \in Nat \ {0} /\ DOMAIN node = 1 .. Len(node)
      /\ \A t \in 1 .. Len(node) : node[t] \in [T -> Int]
  <2> HIDE DEF T
  <2> QED BY <1>0, <1>1, ColumnJoins
<1>4. \A t \in 1 .. Len(node) : \A i \in tags : node[t][i] \in Int
  BY <1>3
<1>5. \A i, j \in tags : m.trans[<<i, j>>] \in Int
  BY <1>a
<1> QED BY <1>1, <1>2, <1>3, <1>4, <1>5 DEF Chain, node

(* A model has some number of features.                                    *)
LEMMA UidsOf ==
  ASSUME NEW K, NEW m, IsModel(m, K)
  PROVE  Len(m.features) \in Nat
<1> DEFINE X == FeaturesOf(K, m.max)
<1>1. m.features \in Seq(X)
  BY DEF IsModel
<1> HIDE DEF X
<1> QED BY <1>1, LenProperties

(***************************************************************************)
(* With any model of some labels and any indexed sentence, the decoders of *)
(* the CRFs find a best path, those that are confined to the tags of the   *)
(* sentence a best path through these (VanillaCRF, TagConstrainedCRF).     *)
(***************************************************************************)
THEOREM DecodedIs ==
  ASSUME NEW K, NEW m, IsModel(m, K), m.max > 0,
         NEW s \in IndexedSentences(Len(m.features), m.max), NEW crf
  PROVE  /\ DecodeBy(crf, m, s) \in Paths(Len(s.words), LabelsOf(m))
         /\ IsBest(Decode(m, s), LinearFunction(m, s, LabelsOf(m)), m.trans, LabelsOf(m))
         /\ IsBest(ConstrainedDecode(m, s), LinearFunction(m, s, s.tags), m.trans, s.tags)
<1> DEFINE T == LabelsOf(m)
<1> DEFINE tags == IF Cardinality(s.tags) \in 1 .. m.max - 1 THEN s.tags ELSE T
<1>1. m.max \in Nat /\ T = 0 .. m.max - 1
  BY DEF IsModel, LabelsOf
<1>2. s.tags \in SUBSET T /\ s.tags # {}
  <2>1. Len(m.features) \in Nat /\ m.max \in Int
    BY <1>1, UidsOf
  <2>2. s.tags \in SUBSET (0 .. m.max - 1) /\ s.tags # {}
    BY <2>1, IndexedHas
  <2> HIDE DEF T
  <2> QED BY <1>1, <2>2
<1>3. T # {} /\ IsFiniteSet(T)
  BY LabelsAreFinite
<1>4. tags = s.tags
  <2>1. CASE Cardinality(s.tags) \in 1 .. m.max - 1
    BY <2>1
  <2>2. CASE Cardinality(s.tags) \notin 1 .. m.max - 1
    <3>1. Cardinality(T) = m.max
      <4>1. Cardinality(0 .. m.max - 1) = (m.max - 1) - 0 + 1
        BY <1>1, FS_Interval
      <4> QED BY <1>1, <4>1
    <3>2. Cardinality(s.tags) \in Nat /\ Cardinality(s.tags) # 0 /\ Cardinality(s.tags) <= Cardinality(T)
      <4>1. IsFiniteSet(s.tags) /\ Cardinality(s.tags) <= Cardinality(T)
        BY <1>2, <1>3, FS_Subset
      <4> QED BY <1>2, <4>1, FS_CardinalityType, FS_EmptySet
    <3>3. Cardinality(s.tags) = Cardinality(T)
      BY <1>1, <2>2, <3>1, <3>2
    <3>4. s.tags = T
      BY <1>2, <1>3, <3>3, FS_Subset
    <3> QED BY <3>4
  <2> QED BY <2>1, <2>2
<1>5. /\ Chain(LinearFunction(m, s, T), m.trans, T)
      /\ Len(LinearFunction(m, s, T)) = Len(s.words)
  BY <1>3, ChainOfModel
<1>6. /\ Chain(LinearFunction(m, s, s.tags), m.trans, s.tags)
      /\ Len(LinearFunction(m, s, s.tags)) = Len(s.words)
  BY <1>2, ChainOfModel
<1>7. IsBest(Decode(m, s), LinearFunction(m, s, T), m.trans, T)
  BY <1>5, ViterbiIsBest DEF Decode, CreateLinearFunctionCache
<1>8. IsBest(ConstrainedDecode(m, s), LinearFunction(m, s, s.tags), m.trans, s.tags)
  <2>1. ConstrainedDecode(m, s) = Viterbi(LinearFunction(m, s, s.tags), m.trans, tags)
    BY DEF ConstrainedDecode
  <2> HIDE DEF tags
  <2> QED BY <1>4, <1>6, <2>1, ViterbiIsBest
<1>9. DecodeBy(crf, m, s) \in Paths(Len(s.words), T)
  <2>1. Decode(m, s) \in Paths(Len(s.words), T)
    BY <1>5, <1>7 DEF IsBest
  <2>2. ConstrainedDecode(m, s) \in Paths(Len(s.words), T)
    BY <1>2, <1>6, <1>8 DEF IsBest, Paths
  <2> QED BY <2>1, <2>2 DEF DecodeBy
<1> QED BY <1>7, <1>8, <1>9

(***************************************************************************)
(* Update: other weights of the same parameters.                           *)
(***************************************************************************)
LEMMA UpdateIs ==
  ASSUME NEW K, NEW m, IsModel(m, K), m.max > 0,
         NEW s \in IndexedSentences(Len(m.features), m.max),
         NEW tags \in Paths(Len(s.words), LabelsOf(m)), NEW rate \in Int
  PROVE  IsModel(Update(m, s, tags, rate), K) /\ SameShape(Update(m, s, tags, rate), m)
<1> DEFINE n == Len(s.words)
<1> DEFINE labels == LabelPath(s)
<1> DEFINE w == [p \in DOMAIN m.weight |->
      m.weight[p] + rate * (NodeCount(s, labels, p) - NodeCount(s, tags, p))]
<1> DEFINE E == LabelsOf(m) \X LabelsOf(m)
<1> DEFINE c == [e \in E |-> m.trans[e] + rate * (EdgeCount(labels, e) - EdgeCount(tags, e))]
<1> DEFINE y == Update(m, s, tags, rate)
<1>1. /\ m = [features |-> m.features, weight |-> m.weight, max |-> m.max, trans |-> m.trans]
      /\ m.weight \in [DOMAIN m.weight -> Int] /\ m.trans \in [E -> Int] /\ m.max \in Int
  BY DEF IsModel
<1>2. y = [m EXCEPT !.weight = w, !.trans = c]
  BY <1>1 DEF Update
<1>3. DOMAIN labels = 1 .. n /\ Len(labels) \in Nat /\ n \in Nat
  BY <1>1, UidsOf, LabelPathIs, IndexedHas
<1>4. DOMAIN tags = 1 .. n /\ Len(tags) \in Nat
  <2>1. tags \in [1 .. n -> LabelsOf(m)]
    BY DEF Paths
  <2>2. tags = [t \in 1 .. n |-> tags[t]]
    BY <2>1
  <2> HIDE DEF n
  <2>3. Len(tags) = n
    BY <1>3, <2>2
  <2> QED BY <1>3, <2>1, <2>3
<1> HIDE DEF n, labels
<1>5. ASSUME NEW p \in DOMAIN m.weight PROVE w[p] \in Int
  <2>1. NodeCount(s, labels, p) \in Int /\ NodeCount(s, tags, p) \in Int
    BY <1>1, <1>3, <1>4, UidsOf, NodeCountIsInt DEF n
  <2> QED BY <1>1, <2>1
<1>6. ASSUME NEW e \in E PROVE c[e] \in Int
  <2>1. EdgeCount(labels, e) \in Nat /\ EdgeCount(tags, e) \in Nat
    BY <1>3, <1>4, EdgeCountIsNat
  <2>2. m.trans[e] \in Int
    BY <1>1
  <2> QED BY <2>1, <2>2
<1>7. w \in [DOMAIN m.weight -> Int] /\ c \in [E -> Int] /\ DOMAIN w = DOMAIN m.weight
  BY <1>5, <1>6
<1> HIDE DEF w, c, y
<1>8. /\ y = [features |-> m.features, weight |-> w, max |-> m.max, trans |-> c]
      /\ y.features = m.features /\ y.weight = w /\ y.max = m.max /\ y.trans = c
      /\ LabelsOf(y) = LabelsOf(m)
  BY <1>1, <1>2 DEF LabelsOf
<1>9. IsModel(y, K)
  BY <1>7, <1>8 DEF IsModel
<1> QED BY <1>7, <1>8, <1>9 DEF SameShape, y

-----------------------------------------------------------------------------
(* A weight and what it has paid, when so much is owed.                    *)
Owing(owed) == [weight : Int, paid : -owed .. owed]

(* tr is a run of training, with numbers that can be used.                 *)
CanPay(tr, s, prob, p) ==
  /\ tr.paid.owed \in Nat
  /\ \A t \in 1 .. Len(s.words) : prob[t][p[2]] \in Int

LEMMA Penalized ==
  ASSUME NEW weight \in Int, NEW owed \in Nat, NEW paid \in -owed .. owed
  PROVE  /\ ApplyPenalty(weight, paid, owed) \in Owing(owed)
         /\ PaidUp(ApplyPenalty(weight, paid, owed).weight, ApplyPenalty(weight, paid, owed).paid, owed)
<1> DEFINE a == ApplyPenalty(weight, paid, owed)
<1>1. paid \in Int
  OBVIOUS
<1>2. a.weight \in Int /\ PaidUp(a.weight, a.paid, owed)
  BY <1>1, PenaltyIsPaid
<1>3. a = [weight |-> a.weight, paid |-> a.paid]
  BY DEF ApplyPenalty
<1> HIDE DEF a
<1>4. a.paid \in -owed .. owed
  BY <1>2 DEF PaidUp
<1>5. a \in Owing(owed)
  BY <1>2, <1>3, <1>4 DEF Owing
<1> QED BY <1>2, <1>5 DEF a

(* What one feature of a word does to a weight.                            *)
FeaturePaid(tr, s, prob, rate, p, t, y, f) ==
  IF f[1] # p[1] THEN y
  ELSE LET delta == (IF s.words[t].label = p[2] THEN Precision ELSE 0) - prob[t][p[2]]
       IN  ApplyPenalty(y.weight + (rate * delta * f[2]) \div Precision, y.paid, tr.paid.owed)

LEMMA FeaturePays ==
  ASSUME NEW tr, NEW s, NEW prob, NEW rate \in Int, NEW p, CanPay(tr, s, prob, p),
         NEW t \in 1 .. Len(s.words), NEW y \in Owing(tr.paid.owed), NEW f, f[2] \in Int
  PROVE  LET a == FeaturePaid(tr, s, prob, rate, p, t, y, f)
             owed == tr.paid.owed
         IN  /\ a \in Owing(owed)
             /\ PaidUp(y.weight, y.paid, owed) \/ f[1] = p[1] => PaidUp(a.weight, a.paid, owed)
<1> DEFINE owed == tr.paid.owed
<1> DEFINE a == FeaturePaid(tr, s, prob, rate, p, t, y, f)
<1>1. CASE f[1] # p[1]
  <2>1. a = y
    BY <1>1 DEF FeaturePaid
  <2> QED BY <1>1, <2>1
<1>2. CASE f[1] = p[1]
  <2> DEFINE delta == (IF s.words[t].label = p[2] THEN Precision ELSE 0) - prob[t][p[2]]
  <2> DEFINE w == y.weight + (rate * delta * f[2]) \div Precision
  <2>1. a = ApplyPenalty(w, y.paid, owed)
    BY <1>2 DEF FeaturePaid
  <2>2. w \in Int
    <3>1. delta \in Int
      BY InferenceAssumption DEF CanPay
    <3>2. y.weight \in Int
      BY DEF Owing
    <3> HIDE DEF delta
    <3>3. rate * delta * f[2] \in Int
      BY <3>1
    <3> DEFINE z == rate * delta * f[2]
    <3> HIDE DEF z
    <3>4. z \div Precision \in Int
      BY <3>3, InferenceAssumption DEF z
    <3> QED BY <3>2, <3>4 DEF z
  <2>3. owed \in Nat /\ y.paid \in -owed .. owed
    BY DEF CanPay, Owing
  <2> HIDE DEF w, a, owed
  <2>4. a \in Owing(owed) /\ PaidUp(a.weight, a.paid, owed)
    BY <2>1, <2>2, <2>3, Penalized
  <2> QED BY <2>4 DEF a, owed
<1> QED BY <1>1, <1>2

(* What the features of a word do to it, one after the other.              *)
WordPaid(tr, s, prob, rate, p, t, v0) ==
  FoldLeft(LAMBDA y, f :
    IF f[1] # p[1] THEN y
    ELSE LET delta == (IF s.words[t].label = p[2] THEN Precision ELSE 0) - prob[t][p[2]]
         IN  ApplyPenalty(y.weight + (rate * delta * f[2]) \div Precision, y.paid,
                          tr.paid.owed),
    v0, s.words[t].features)

WordPaidRun(g, tr, s, prob, rate, p, t, v0, n0) ==
  /\ g \in [0 .. Len(s.words[t].features) -> Owing(tr.paid.owed)] /\ g[0] = v0
  /\ \A k \in 1 .. Len(s.words[t].features) : g[k] = FeaturePaid(tr, s, prob, rate, p, t, g[k - 1], s.words[t].features[k])
  /\ WordPaid(tr, s, prob, rate, p, t, v0) = g[Len(s.words[t].features)]

LEMMA WordPaidRuns ==
  ASSUME NEW tr, NEW s, NEW prob, NEW rate \in Int, NEW p, CanPay(tr, s, prob, p),
         NEW n0 \in Nat, NEW t \in 1 .. Len(s.words), s.words[t].features \in Seq((1 .. n0) \X Int),
         NEW v0 \in Owing(tr.paid.owed)
  PROVE  \E g : WordPaidRun(g, tr, s, prob, rate, p, t, v0, n0)
<1> DEFINE n == Len(s.words[t].features)
<1> DEFINE op(r, x) == FeaturePaid(tr, s, prob, rate, p, t, r, x)
<1> DEFINE seq == [k \in 1 .. n |-> s.words[t].features[k]]
<1> DEFINE base == v0
<1> DEFINE V == Owing(tr.paid.owed)
<1> DEFINE F == [k \in 1 .. n |-> [v \in V |-> op(v, seq[k])]]
<1> DEFINE X == (1 .. n0) \X Int
<1> DEFINE fs == s.words[t].features
<1>0. n \in Nat /\ fs = seq /\ \A k \in 1 .. n : fs[k] \in X
  <2>1. fs \in Seq(X)
    OBVIOUS
  <2> HIDE DEF X, fs
  <2>2. Len(fs) \in Nat /\ fs = [k \in 1 .. Len(fs) |-> fs[k]] /\ \A k \in 1 .. Len(fs) : fs[k] \in X
    BY <2>1, LenProperties, ElementOfSeq
  <2> QED BY <2>2 DEF fs
<1>1. base \in V
  OBVIOUS
<1>2. \A k \in 1 .. n : \A v \in V : F[k][v] = op(v, seq[k])
  OBVIOUS
<1>3. DOMAIN seq = 1 .. n /\ \A k \in 1 .. n : seq[k] = s.words[t].features[k]
  OBVIOUS
<1>4. WordPaid(tr, s, prob, rate, p, t, v0) = FoldLeft(op, base, seq)
  BY <1>0 DEF WordPaid, FeaturePaid
<1> HIDE DEF F, seq
<1>5. ASSUME NEW k \in 1 .. n, NEW v \in V PROVE op(v, seq[k]) \in V
  <2> HIDE DEF X
  <2>1. seq[k] \in X
    BY <1>0, <1>3
  <2>2. seq[k][2] \in Int
    BY <2>1 DEF X
  <2> QED BY <2>2, FeaturePays
<1>6. Steps(F, V, 1 .. n)
  <2> HIDE DEF op, V
  <2> QED BY <1>2, <1>5 DEF Steps
<1>7. \E it : it = [z \in SUBSET (1 .. n) |->
                     IF z = {} THEN base ELSE op(it[z \ {Max(z)}], seq[Max(z)])]
  <2>1. PICK it : LeftIteration(it, n, V, base, F)
    BY <1>0, <1>1, <1>6, LeftIterationExists
  <2>2. ASSUME NEW z \in SUBSET (1 .. n), z # {}
        PROVE  it[z] = op(it[z \ {Max(z)}], seq[Max(z)])
    <3>1. Max(z) \in 1 .. n /\ it[z \ {Max(z)}] \in V /\ it[z] = F[Max(z)][it[z \ {Max(z)}]]
      BY <2>1, <2>2 DEF LeftIteration
    <3> HIDE DEF V, op
    <3> QED BY <1>2, <3>1
  <2>3. it \in [SUBSET (1 .. n) -> V] /\ it[{}] = base
    BY <2>1 DEF LeftIteration
  <2> HIDE DEF V, op, base
  <2> QED BY <2>2, <2>3
<1>8. PICK it :
        /\ it = [z \in SUBSET (1 .. n) |->
                   IF z = {} THEN base ELSE op(it[z \ {Max(z)}], seq[Max(z)])]
        /\ WordPaid(tr, s, prob, rate, p, t, v0) = it[1 .. n]
  BY <1>3, <1>4, <1>7 DEF FoldLeft, MapThenFoldSet
<1>9. LeftFold(it, n, V, base, F)
  <2>1. it[{}] = base
    BY <1>8
  <2>2. ASSUME NEW z \in SUBSET (1 .. n), z # {}, it[z \ {Max(z)}] \in V
        PROVE  it[z] = F[Max(z)][it[z \ {Max(z)}]]
    <3>1. it[z] = op(it[z \ {Max(z)}], seq[Max(z)]) /\ Max(z) \in 1 .. n
      BY <1>0, <1>8, <2>2, LargestOf
    <3> HIDE DEF V, op
    <3> QED BY <1>2, <2>2, <3>1
  <2> HIDE DEF V, base
  <2> QED BY <2>1, <2>2 DEF LeftFold
<1>10. PICK g : LeftRun(g, n, V, base, F) /\ g[n] = it[1 .. n]
  <2> HIDE DEF n, op, V, base
  <2> QED BY <1>0, <1>1, <1>6, <1>9, LeftRuns, SMTT(30)
<1>11. ASSUME NEW k \in 1 .. n PROVE g[k] = op(g[k - 1], seq[k])
  <2>1. g[k] = F[k][g[k - 1]] /\ k - 1 \in 0 .. n /\ g \in [0 .. n -> V]
    BY <1>0, <1>10 DEF LeftRun
  <2> HIDE DEF n, V, op
  <2> QED BY <1>2, <2>1
<1>12. g \in [0 .. n -> V] /\ g[0] = base
  BY <1>10 DEF LeftRun
<1> QED BY <1>3, <1>8, <1>10, <1>11, <1>12 DEF WordPaidRun

(* A word pays what the weights of its features owe                        *)
(* (CumulativeL1SGDLearner: SinglePassTraining).                           *)
LEMMA WordPays ==
  ASSUME NEW tr, NEW s, NEW prob, NEW rate \in Int, NEW p, CanPay(tr, s, prob, p),
         NEW n0 \in Nat, NEW t \in 1 .. Len(s.words), s.words[t].features \in Seq((1 .. n0) \X Int),
         NEW v0 \in Owing(tr.paid.owed)
  PROVE  LET a == WordPaid(tr, s, prob, rate, p, t, v0)
             owed == tr.paid.owed
         IN  /\ a \in Owing(owed)
             /\ \/ PaidUp(v0.weight, v0.paid, owed)
                \/ \E k \in 1 .. Len(s.words[t].features) : s.words[t].features[k][1] = p[1]
                => PaidUp(a.weight, a.paid, owed)
<1> DEFINE a == WordPaid(tr, s, prob, rate, p, t, v0)
<1> DEFINE owed == tr.paid.owed
<1> DEFINE fs == s.words[t].features
<1> DEFINE n == Len(fs)
<1>1. PICK g : WordPaidRun(g, tr, s, prob, rate, p, t, v0, n0)
  BY WordPaidRuns
<1>2. n \in Nat /\ \A k \in 1 .. n : fs[k][2] \in Int
  <2> DEFINE X == (1 .. n0) \X Int
  <2>1. fs \in Seq(X)
    OBVIOUS
  <2>2. \A f \in X : f[2] \in Int
    OBVIOUS
  <2> HIDE DEF X, fs
  <2>3. n \in Nat /\ \A k \in 1 .. n : fs[k] \in X
    BY <2>1, LenProperties, ElementOfSeq
  <2> QED BY <2>2, <2>3
<1>3. /\ g \in [0 .. n -> Owing(owed)] /\ g[0] = v0 /\ a = g[n]
      /\ \A k \in 1 .. n : g[k] = FeaturePaid(tr, s, prob, rate, p, t, g[k - 1], fs[k])
  BY <1>1 DEF WordPaidRun
<1> DEFINE Up(k) == PaidUp(g[k].weight, g[k].paid, owed)
<1> HIDE DEF a, n
<1>4. ASSUME NEW k \in 1 .. n PROVE Up(k - 1) \/ fs[k][1] = p[1] => Up(k)
  <2>1. k - 1 \in 0 .. n
    BY <1>2
  <2>2. g[k - 1] \in Owing(owed) /\ fs[k][2] \in Int /\ g[k] = FeaturePaid(tr, s, prob, rate, p, t, g[k - 1], fs[k])
    BY <1>2, <1>3, <2>1
  <2> DEFINE b == FeaturePaid(tr, s, prob, rate, p, t, g[k - 1], fs[k])
  <2> HIDE DEF fs
  <2>3. PaidUp(g[k - 1].weight, g[k - 1].paid, owed) \/ fs[k][1] = p[1] => PaidUp(b.weight, b.paid, owed)
    BY <2>2, FeaturePays
  <2> HIDE DEF b
  <2> QED BY <2>2, <2>3 DEF b
<1> DEFINE Due(k) == Up(0) \/ \E i \in 1 .. k : fs[i][1] = p[1]
<1> DEFINE S == {k \in 0 .. n : Due(k) => Up(k)}
<1>5. 0 \in S
  <2> HIDE DEF Up
  <2> QED BY <1>2
<1>6. ASSUME NEW k \in 0 .. n - 1, k \in S PROVE k + 1 \in S
  <2>a. k \in Nat /\ k + 1 \in 1 .. n /\ (k + 1) - 1 = k
    BY <1>2
  <2>1. Up(k) \/ fs[k + 1][1] = p[1] => Up(k + 1)
    <3> HIDE DEF Up, fs
    <3>1. Up((k + 1) - 1) \/ fs[k + 1][1] = p[1] => Up(k + 1)
      BY <1>4, <2>a
    <3> QED BY <2>a, <3>1
  <2>2. Due(k + 1) => Due(k) \/ fs[k + 1][1] = p[1]
    <3>1. \A i \in 1 .. k + 1 : i \in 1 .. k \/ i = k + 1
      BY <2>a
    <3> HIDE DEF Up
    <3> QED BY <3>1
  <2> HIDE DEF Up, Due, fs
  <2> QED BY <1>6, <2>a, <2>1, <2>2
<1>7. n \in S
  <2> HIDE DEF S
  <2>1. \A k \in 0 .. n : k \in S
    BY <1>2, <1>5, <1>6, UpTo
  <2> QED BY <1>2, <2>1
<1>8. Due(n) => PaidUp(a.weight, a.paid, owed)
  BY <1>3, <1>7
<1>9. a \in Owing(owed)
  BY <1>2, <1>3
<1> QED BY <1>3, <1>8, <1>9 DEF a, n

(* And what the words of a sentence do to it.                              *)
WeightRun(g, tr, s, prob, rate, p, n0) ==
  /\ g \in [0 .. Len(s.words) -> Owing(tr.paid.owed)] /\ g[0] = [weight |-> tr.model.weight[p], paid |-> tr.paid.weight[p]]
  /\ \A k \in 1 .. Len(s.words) : g[k] = WordPaid(tr, s, prob, rate, p, k, g[k - 1])
  /\ L1Weight(tr, s, prob, rate, p) = g[Len(s.words)]

LEMMA WeightRuns ==
  ASSUME NEW tr, NEW rate \in Int, NEW n0 \in Nat, NEW b \in Int, NEW s \in IndexedSentences(n0, b),
         NEW p, NEW prob, CanPay(tr, s, prob, p),
         [weight |-> tr.model.weight[p], paid |-> tr.paid.weight[p]] \in Owing(tr.paid.owed)
  PROVE  \E g : WeightRun(g, tr, s, prob, rate, p, n0)
<1> DEFINE n == Len(s.words)
<1> DEFINE op(r, x) == WordPaid(tr, s, prob, rate, p, x, r)
<1> DEFINE seq == [k \in 1 .. n |-> k]
<1> DEFINE base == [weight |-> tr.model.weight[p], paid |-> tr.paid.weight[p]]
<1> DEFINE V == Owing(tr.paid.owed)
<1> DEFINE F == [k \in 1 .. n |-> [v \in V |-> op(v, seq[k])]]
<1>0. n \in Nat /\ \A k \in 1 .. n : s.words[k].features \in Seq((1 .. n0) \X Int)
  BY IndexedHas
<1>1. base \in V
  OBVIOUS
<1>d. DOMAIN s.words = 1 .. n
  BY IndexedHas
<1>2. \A k \in 1 .. n : \A v \in V : F[k][v] = op(v, seq[k])
  OBVIOUS
<1>3. DOMAIN seq = 1 .. n /\ \A k \in 1 .. n : seq[k] = k
  OBVIOUS
<1>4. L1Weight(tr, s, prob, rate, p) = FoldLeft(op, base, seq)
  BY <1>d, Zenon DEF L1Weight, FoldLeftDomain, WordPaid
<1> HIDE DEF F, seq
<1>5. ASSUME NEW k \in 1 .. n, NEW v \in V PROVE op(v, seq[k]) \in V
  <2>1. seq[k] = k /\ s.words[k].features \in Seq((1 .. n0) \X Int)
    BY <1>0, <1>3
  <2> QED BY <2>1, WordPays
<1>6. Steps(F, V, 1 .. n)
  <2> HIDE DEF op, V
  <2> QED BY <1>2, <1>5 DEF Steps
<1>7. \E it : it = [z \in SUBSET (1 .. n) |->
                     IF z = {} THEN base ELSE op(it[z \ {Max(z)}], seq[Max(z)])]
  <2>1. PICK it : LeftIteration(it, n, V, base, F)
    BY <1>0, <1>1, <1>6, LeftIterationExists
  <2>2. ASSUME NEW z \in SUBSET (1 .. n), z # {}
        PROVE  it[z] = op(it[z \ {Max(z)}], seq[Max(z)])
    <3>1. Max(z) \in 1 .. n /\ it[z \ {Max(z)}] \in V /\ it[z] = F[Max(z)][it[z \ {Max(z)}]]
      BY <2>1, <2>2 DEF LeftIteration
    <3> HIDE DEF V, op
    <3> QED BY <1>2, <3>1
  <2>3. it \in [SUBSET (1 .. n) -> V] /\ it[{}] = base
    BY <2>1 DEF LeftIteration
  <2> HIDE DEF V, op, base
  <2> QED BY <2>2, <2>3
<1>8. PICK it :
        /\ it = [z \in SUBSET (1 .. n) |->
                   IF z = {} THEN base ELSE op(it[z \ {Max(z)}], seq[Max(z)])]
        /\ L1Weight(tr, s, prob, rate, p) = it[1 .. n]
  BY <1>3, <1>4, <1>7, ZenonT(60) DEF FoldLeft, MapThenFoldSet
<1>9. LeftFold(it, n, V, base, F)
  <2>1. it[{}] = base
    BY <1>8
  <2>2. ASSUME NEW z \in SUBSET (1 .. n), z # {}, it[z \ {Max(z)}] \in V
        PROVE  it[z] = F[Max(z)][it[z \ {Max(z)}]]
    <3>1. it[z] = op(it[z \ {Max(z)}], seq[Max(z)]) /\ Max(z) \in 1 .. n
      BY <1>0, <1>8, <2>2, LargestOf
    <3> HIDE DEF V, op
    <3> QED BY <1>2, <2>2, <3>1
  <2> HIDE DEF V, base
  <2> QED BY <2>1, <2>2 DEF LeftFold
<1>10. PICK g : LeftRun(g, n, V, base, F) /\ g[n] = it[1 .. n]
  <2> HIDE DEF n, op, V, base
  <2> QED BY <1>0, <1>1, <1>6, <1>9, LeftRuns
<1>11. ASSUME NEW k \in 1 .. n PROVE g[k] = op(g[k - 1], seq[k])
  <2>1. g[k] = F[k][g[k - 1]] /\ k - 1 \in 0 .. n /\ g \in [0 .. n -> V]
    BY <1>0, <1>10 DEF LeftRun
  <2> HIDE DEF n, V, op
  <2> QED BY <1>2, <2>1
<1>12. g \in [0 .. n -> V] /\ g[0] = base
  BY <1>10 DEF LeftRun
<1> QED BY <1>3, <1>8, <1>10, <1>11, <1>12 DEF WeightRun

(* A weight of a feature of the sentence pays what it owes, any other      *)
(* stays as it was (CumulativeL1SGDLearner: SinglePassTraining).           *)
LEMMA WeightPays ==
  ASSUME NEW tr, NEW rate \in Int, NEW n0 \in Nat, NEW b \in Int, NEW s \in IndexedSentences(n0, b),
         NEW p, NEW prob, CanPay(tr, s, prob, p),
         [weight |-> tr.model.weight[p], paid |-> tr.paid.weight[p]] \in Owing(tr.paid.owed)
  PROVE  LET a == L1Weight(tr, s, prob, rate, p)
             owed == tr.paid.owed
         IN  /\ a \in Owing(owed)
             /\ \/ PaidUp(tr.model.weight[p], tr.paid.weight[p], owed)
                \/ \E t \in 1 .. Len(s.words) :
                     \E k \in 1 .. Len(s.words[t].features) : s.words[t].features[k][1] = p[1]
                => PaidUp(a.weight, a.paid, owed)
<1> DEFINE a == L1Weight(tr, s, prob, rate, p)
<1> DEFINE owed == tr.paid.owed
<1> DEFINE n == Len(s.words)
<1> DEFINE v0 == [weight |-> tr.model.weight[p], paid |-> tr.paid.weight[p]]
<1> DEFINE Sees(t) == \E k \in 1 .. Len(s.words[t].features) : s.words[t].features[k][1] = p[1]
<1>1. PICK g : WeightRun(g, tr, s, prob, rate, p, n0)
  BY WeightRuns
<1>2. n \in Nat /\ \A t \in 1 .. n : s.words[t].features \in Seq((1 .. n0) \X Int)
  BY IndexedHas
<1>3. /\ g \in [0 .. n -> Owing(owed)] /\ g[0] = v0 /\ a = g[n]
      /\ \A k \in 1 .. n : g[k] = WordPaid(tr, s, prob, rate, p, k, g[k - 1])
  BY <1>1 DEF WeightRun
<1> DEFINE Up(k) == PaidUp(g[k].weight, g[k].paid, owed)
<1> HIDE DEF a, n
<1>4. ASSUME NEW k \in 1 .. n PROVE Up(k - 1) \/ Sees(k) => Up(k)
  <2>1. k - 1 \in 0 .. n
    BY <1>2
  <2>2. /\ g[k - 1] \in Owing(owed) /\ s.words[k].features \in Seq((1 .. n0) \X Int)
        /\ g[k] = WordPaid(tr, s, prob, rate, p, k, g[k - 1])
    BY <1>2, <1>3, <2>1
  <2> DEFINE c == WordPaid(tr, s, prob, rate, p, k, g[k - 1])
  <2>a. k \in 1 .. Len(s.words)
    BY DEF n
  <2>3. PaidUp(g[k - 1].weight, g[k - 1].paid, owed) \/ Sees(k) => PaidUp(c.weight, c.paid, owed)
    BY <2>2, <2>a, WordPays
  <2> HIDE DEF c, Sees
  <2> QED BY <2>2, <2>3 DEF c
<1> DEFINE Due(k) == Up(0) \/ \E i \in 1 .. k : Sees(i)
<1> DEFINE S == {k \in 0 .. n : Due(k) => Up(k)}
<1>5. 0 \in S
  <2> HIDE DEF Up, Sees
  <2> QED BY <1>2
<1>6. ASSUME NEW k \in 0 .. n - 1, k \in S PROVE k + 1 \in S
  <2>a. k \in Nat /\ k + 1 \in 1 .. n /\ (k + 1) - 1 = k
    BY <1>2
  <2> HIDE DEF Up, Sees
  <2>1. Up(k) \/ Sees(k + 1) => Up(k + 1)
    <3>1. Up((k + 1) - 1) \/ Sees(k + 1) => Up(k + 1)
      BY <1>4, <2>a
    <3> QED BY <2>a, <3>1
  <2>2. Due(k + 1) => Due(k) \/ Sees(k + 1)
    <3>1. \A i \in 1 .. k + 1 : i \in 1 .. k \/ i = k + 1
      BY <2>a
    <3> QED BY <3>1
  <2> HIDE DEF Due
  <2> QED BY <1>6, <2>a, <2>1, <2>2
<1>7. n \in S
  <2> HIDE DEF S
  <2>1. \A k \in 0 .. n : k \in S
    BY <1>2, <1>5, <1>6, UpTo
  <2> QED BY <1>2, <2>1
<1>8. Due(n) => PaidUp(a.weight, a.paid, owed)
  BY <1>3, <1>7
<1>9. a \in Owing(owed)
  BY <1>2, <1>3
<1>10. g[0].weight = tr.model.weight[p] /\ g[0].paid = tr.paid.weight[p]
  BY <1>3
<1> QED BY <1>8, <1>9, <1>10 DEF a, n

-----------------------------------------------------------------------------
(***************************************************************************)
(* A run of training on m: only weights and transitions change, and no     *)
(* weight has paid more than is owed.                                      *)
(***************************************************************************)
IsPaid(paid, m) ==
  /\ paid = [owed |-> paid.owed, weight |-> paid.weight, trans |-> paid.trans]
  /\ paid.owed \in Nat
  /\ paid.weight \in [DOMAIN m.weight -> -paid.owed .. paid.owed]
  /\ paid.trans \in [LabelsOf(m) \X LabelsOf(m) -> -paid.owed .. paid.owed]

IsTrained(r, m, K) ==
  /\ r = [model |-> r.model, loss |-> r.loss, paid |-> r.paid, failed |-> r.failed]
  /\ IsModel(r.model, K) /\ SameShape(r.model, m) /\ IsPaid(r.paid, m) /\ r.failed \in BOOLEAN

Names(s, uid) ==
  \E t \in 1 .. Len(s.words) :
    \E k \in 1 .. Len(s.words[t].features) : s.words[t].features[k][1] = uid

(* What l1sgd has made of r with sentence s, unless it failed.             *)
Pays(y, r, s) ==
  /\ y.paid.owed = r.paid.owed
  /\ y.failed = FALSE =>
       /\ r.failed = FALSE
       /\ \A e \in DOMAIN y.model.trans : PaidUp(y.model.trans[e], y.paid.trans[e], y.paid.owed)
       /\ \A p \in DOMAIN y.model.weight :
            PaidUp(r.model.weight[p], r.paid.weight[p], r.paid.owed) \/ Names(s, p[1])
              => PaidUp(y.model.weight[p], y.paid.weight[p], y.paid.owed)

OwesTheSame(y, r) == y.paid.owed = r.paid.owed

LEMMA ShapeIsKept ==
  ASSUME NEW x, NEW y, NEW z, SameShape(y, x), SameShape(z, y)
  PROVE  SameShape(z, x) /\ LabelsOf(z) = LabelsOf(x)
BY DEF SameShape, LabelsOf

(* A step of the perceptron keeps the shape of the model, and neither      *)
(* fails nor pays (PerceptronLearner: SinglePassTraining).                 *)
LEMMA PerceptronTrains ==
  ASSUME NEW K, NEW m, NEW r, IsTrained(r, m, K), m.max > 0,
         NEW s \in IndexedSentences(Len(m.features), m.max),
         NEW crf, NEW rate \in Int
  PROVE  /\ IsTrained(PerceptronOn(crf, rate, r, s), m, K)
         /\ PerceptronOn(crf, rate, r, s).failed = r.failed
         /\ PerceptronOn(crf, rate, r, s).paid = r.paid
<1> DEFINE tags == DecodeBy(crf, r.model, s)
<1> DEFINE y == PerceptronOn(crf, rate, r, s)
<1> DEFINE x == Update(r.model, s, tags, rate)
<1>1. /\ IsModel(r.model, K) /\ SameShape(r.model, m) /\ r.model.max > 0
      /\ s \in IndexedSentences(Len(r.model.features), r.model.max)
  BY DEF IsTrained, SameShape
<1>2. tags \in Paths(Len(s.words), LabelsOf(r.model))
  BY <1>1, DecodedIs
<1>3. IsModel(x, K) /\ SameShape(x, r.model)
  <2> HIDE DEF tags
  <2> QED BY <1>1, <1>2, UpdateIs
<1>4. CASE Diff(s, tags) = 0
  BY <1>4 DEF PerceptronOn
<1>5. CASE Diff(s, tags) # 0
  <2> DEFINE l == r.loss + (LossUnit * Diff(s, tags)) \div Len(s.words)
  <2>0. r = [model |-> r.model, loss |-> r.loss, paid |-> r.paid, failed |-> r.failed]
    BY DEF IsTrained
  <2>1. y = [r EXCEPT !.model = x, !.loss = l]
    BY <1>5, <2>0 DEF PerceptronOn
  <2> HIDE DEF x, l, y, tags
  <2>2. /\ y = [model |-> x, loss |-> l, paid |-> r.paid, failed |-> r.failed]
        /\ y.model = x /\ y.loss = l /\ y.paid = r.paid /\ y.failed = r.failed
    BY <2>0, <2>1
  <2>3. SameShape(x, m)
    BY <1>1, <1>3, ShapeIsKept
  <2>4. IsTrained(y, m, K)
    BY <1>3, <2>2, <2>3 DEF IsTrained
  <2> QED BY <2>2, <2>4 DEF y
<1> QED BY <1>4, <1>5

(* Every transition pays what it owes at every sentence                    *)
(* (CumulativeL1SGDLearner: SinglePassTraining).                           *)
LEMMA TransitionPays ==
  ASSUME NEW K, NEW m, NEW r, IsTrained(r, m, K),
         NEW n0 \in Nat, NEW b \in Int, NEW s \in IndexedSentences(n0, b),
         NEW prob, NEW rate \in Int,
         NEW e \in LabelsOf(m) \X LabelsOf(m), prob[e] \in Int
  PROVE  LET a == L1Transition(r, s, prob, rate, e)
         IN  /\ a \in Owing(r.paid.owed)
             /\ PaidUp(a.weight, a.paid, r.paid.owed)
<1> DEFINE a == L1Transition(r, s, prob, rate, e)
<1> DEFINE owed == r.paid.owed
<1> DEFINE count == EdgeCount(LabelPath(s), e)
<1> DEFINE delta == Precision * count - prob[e]
<1> DEFINE w == r.model.trans[e] + (rate * delta) \div Precision
<1>1. count \in Nat
  BY LabelPathIs, EdgeCountIsNat
<1>2. Precision \in Nat \ {0}
  BY InferenceAssumption
<1>3. a = ApplyPenalty(w, r.paid.trans[e], owed)
  BY DEF L1Transition
<1>4. r.model.trans[e] \in Int /\ owed \in Nat /\ r.paid.trans[e] \in -owed .. owed
  <2>1. r.model.trans \in [LabelsOf(r.model) \X LabelsOf(r.model) -> Int] /\ LabelsOf(r.model) = LabelsOf(m)
    BY DEF IsTrained, IsModel, SameShape, LabelsOf
  <2>2. owed \in Nat /\ r.paid.trans \in [LabelsOf(m) \X LabelsOf(m) -> -owed .. owed]
    BY DEF IsTrained, IsPaid
  <2> HIDE DEF owed
  <2> QED BY <2>1, <2>2
<1> HIDE DEF count
<1>5. delta \in Int
  <2> DEFINE z == Precision * count
  <2>1. z \in Int
    BY <1>1, <1>2
  <2> HIDE DEF z
  <2>2. z - prob[e] \in Int
    BY <2>1
  <2> QED BY <2>2 DEF z
<1> HIDE DEF delta
<1>6. w \in Int
  <2> DEFINE z == rate * delta
  <2>1. z \in Int
    BY <1>5
  <2> HIDE DEF z
  <2>2. z \div Precision \in Int
    BY <1>2, <2>1
  <2> QED BY <1>4, <2>2 DEF z
<1> HIDE DEF w, a, owed
<1>7. a \in Owing(owed) /\ PaidUp(a.weight, a.paid, owed)
  BY <1>3, <1>4, <1>6, Penalized
<1> QED BY <1>7 DEF a, owed

(* A step of l1sgd keeps the shape of the model and pays for the sentence  *)
(* (CumulativeL1SGDLearner: SinglePassTraining).                           *)
LEMMA L1StepTrains ==
  ASSUME NEW K, NEW m, NEW r, IsTrained(r, m, K), m.max > 0,
         NEW s \in IndexedSentences(Len(m.features), m.max),
         NEW seen, IsInferred(seen, Len(s.words), LabelsOf(m)), NEW rate \in Int
  PROVE  /\ IsTrained(L1Step(rate, r, s, seen), m, K)
         /\ r.failed = FALSE => Pays(L1Step(rate, r, s, seen), r, s)
<1> DEFINE y == L1Step(rate, r, s, seen)
<1> DEFINE owed == r.paid.owed
<1> DEFINE E == LabelsOf(m) \X LabelsOf(m)
<1>0. /\ r = [model |-> r.model, loss |-> r.loss, paid |-> r.paid, failed |-> r.failed]
      /\ r.model = [features |-> r.model.features, weight |-> r.model.weight,
                    max |-> r.model.max, trans |-> r.model.trans]
      /\ r.paid = [owed |-> owed, weight |-> r.paid.weight, trans |-> r.paid.trans]
      /\ IsModel(r.model, K) /\ SameShape(r.model, m) /\ IsPaid(r.paid, m) /\ r.failed \in BOOLEAN
  BY DEF IsTrained, IsModel, IsPaid
<1>1. CASE seen.nan
  <2>1. y = [r EXCEPT !.failed = TRUE]
    BY <1>1 DEF L1Step
  <2>2. y = [model |-> r.model, loss |-> r.loss, paid |-> r.paid, failed |-> TRUE]
    BY <1>0, <2>1
  <2> HIDE DEF y
  <2>3. y.model = r.model /\ y.paid = r.paid /\ y.failed = TRUE /\ y.loss = r.loss
    BY <2>2
  <2>4. IsTrained(y, m, K)
    BY <1>0, <2>2, <2>3 DEF IsTrained
  <2>5. Pays(y, r, s)
    BY <2>3 DEF Pays
  <2> QED BY <2>4, <2>5 DEF y
<1>2. CASE ~seen.nan
  <2> DEFINE D == DOMAIN r.model.weight
  <2> DEFINE weight == [p \in D |-> L1Weight(r, s, seen.node, rate, p)]
  <2> DEFINE trans == [e \in DOMAIN r.model.trans |-> L1Transition(r, s, seen.edge, rate, e)]
  <2> DEFINE w == [p \in D |-> weight[p].weight]
  <2> DEFINE c == [e \in E |-> trans[e].weight]
  <2> DEFINE wp == [p \in D |-> weight[p].paid]
  <2> DEFINE cp == [e \in E |-> trans[e].paid]
  <2> DEFINE l == r.loss + (LossUnit * (Precision - seen.likely)) \div Precision
  <2>a. /\ owed \in Nat /\ r.model.weight \in [D -> Int] /\ D = DOMAIN m.weight
        /\ DOMAIN r.model.trans = E /\ LabelsOf(r.model) = LabelsOf(m)
        /\ r.paid.weight \in [D -> -owed .. owed]
        /\ D \subseteq Params(Len(r.model.features), r.model.max)
    BY <1>0 DEF IsModel, SameShape, IsPaid, LabelsOf
  <2>1. y = [r EXCEPT !.model.weight = w, !.model.trans = c, !.paid.weight = wp,
                      !.paid.trans = cp, !.loss = l]
    BY <1>2, <2>a DEF L1Step
  <2>2. ASSUME NEW p \in D
        PROVE  /\ weight[p] \in Owing(owed)
               /\ PaidUp(r.model.weight[p], r.paid.weight[p], owed) \/ Names(s, p[1])
                    => PaidUp(weight[p].weight, weight[p].paid, owed)
    <3>1. p[2] \in LabelsOf(m)
      BY <1>0, <2>a DEF Params, LabelsOf, SameShape
    <3>2. CanPay(r, s, seen.node, p)
      BY <2>a, <3>1 DEF CanPay, IsInferred
    <3>3. [weight |-> r.model.weight[p], paid |-> r.paid.weight[p]] \in Owing(owed)
      BY <2>a DEF Owing
    <3>4. Len(m.features) \in Nat /\ m.max \in Int
      <4>1. Len(r.model.features) \in Nat
        BY <1>0, UidsOf
      <4> QED BY <1>0, <4>1 DEF SameShape, IsModel
    <3> DEFINE a == L1Weight(r, s, seen.node, rate, p)
    <3>5. /\ a \in Owing(owed)
          /\ PaidUp(r.model.weight[p], r.paid.weight[p], owed) \/ Names(s, p[1])
               => PaidUp(a.weight, a.paid, owed)
      BY <3>2, <3>3, <3>4, WeightPays DEF Names
    <3> HIDE DEF a
    <3>6. weight[p] = a
      BY DEF a
    <3> HIDE DEF weight
    <3> QED BY <3>5, <3>6
  <2>3. ASSUME NEW e \in E PROVE trans[e] \in Owing(owed) /\ PaidUp(trans[e].weight, trans[e].paid, owed)
    <3>1. seen.edge[e] \in Int
      BY DEF IsInferred
    <3>2. Len(m.features) \in Nat /\ m.max \in Int
      <4>1. Len(r.model.features) \in Nat
        BY <1>0, UidsOf
      <4> QED BY <1>0, <4>1 DEF SameShape, IsModel
    <3> DEFINE a == L1Transition(r, s, seen.edge, rate, e)
    <3>3. a \in Owing(owed) /\ PaidUp(a.weight, a.paid, owed)
      BY <3>1, <3>2, TransitionPays
    <3> HIDE DEF a
    <3>4. trans[e] = a
      BY <2>a DEF a
    <3> HIDE DEF trans
    <3> QED BY <3>3, <3>4
  <2> HIDE DEF weight, trans
  <2>4. /\ w \in [D -> Int] /\ c \in [E -> Int] /\ wp \in [D -> -owed .. owed]
        /\ cp \in [E -> -owed .. owed]
    BY <2>2, <2>3 DEF Owing
  <2>5. /\ \A p \in D : PaidUp(r.model.weight[p], r.paid.weight[p], owed) \/ Names(s, p[1])
                          => PaidUp(w[p], wp[p], owed)
        /\ \A e \in E : PaidUp(c[e], cp[e], owed)
    BY <2>2, <2>3
  <2> DEFINE x == [features |-> r.model.features, weight |-> w, max |-> r.model.max, trans |-> c]
  <2> DEFINE q == [owed |-> owed, weight |-> wp, trans |-> cp]
  <2> HIDE DEF w, c, wp, cp, l, y
  <2>6. y = [model |-> x, loss |-> l, paid |-> q, failed |-> r.failed]
    BY <1>0, <2>1
  <2>7. y.model = x /\ y.loss = l /\ y.paid = q /\ y.failed = r.failed
    BY <2>6
  <2>8. IsModel(x, K) /\ SameShape(x, m)
    <3>1. DOMAIN w = D /\ LabelsOf(x) = LabelsOf(m) /\ LabelsOf(r.model) = LabelsOf(m)
      BY <2>4, <2>a DEF LabelsOf
    <3>2. IsModel(x, K)
      BY <1>0, <2>4, <3>1 DEF IsModel
    <3>3. SameShape(x, m)
      BY <1>0, <2>a, <3>1 DEF SameShape
    <3> QED BY <3>2, <3>3
  <2>9. IsPaid(q, m)
    BY <2>4, <2>a DEF IsPaid
  <2>10. IsTrained(y, m, K)
    BY <2>6, <2>7, <2>8, <2>9 DEF IsTrained
  <2>11. r.failed = FALSE => Pays(y, r, s)
    <3>1. y.model.trans = c /\ y.model.weight = w /\ y.paid.trans = cp /\ y.paid.weight = wp /\ y.paid.owed = owed
          /\ DOMAIN c = E /\ DOMAIN w = D
      BY <2>4, <2>7
    <3> HIDE DEF q, x
    <3> QED BY <2>5, <2>7, <3>1 DEF Pays
  <2> QED BY <2>10, <2>11 DEF y
<1> QED BY <1>1, <1>2

(* So does a step of either learner, and what is owed stays.               *)
LEMMA TrainedOn ==
  ASSUME NEW K, NEW m, NEW r, IsTrained(r, m, K), m.max > 0,
         NEW s \in IndexedSentences(Len(m.features), m.max),
         NEW crf \in {"vanilla", "sparse", "constrained"}, NEW rate \in Int, NEW alg
  PROVE  /\ IsTrained(TrainOn(alg, crf, rate, r, s), m, K)
         /\ alg = "l1sgd" => Pays(TrainOn(alg, crf, rate, r, s), r, s)
         /\ OwesTheSame(TrainOn(alg, crf, rate, r, s), r)
<1> DEFINE y == TrainOn(alg, crf, rate, r, s)
<1>1. CASE alg = "l1sgd"
  <2>1. y = L1On(crf, rate, r, s)
    BY <1>1 DEF TrainOn
  <2>2. ASSUME r.failed PROVE IsTrained(y, m, K) /\ Pays(y, r, s)
    <3>1. y = r
      BY <2>1, <2>2 DEF L1On
    <3>2. r.failed # FALSE
      BY <2>2
    <3> HIDE DEF y
    <3>3. Pays(y, r, s)
      BY <3>1, <3>2 DEF Pays
    <3> QED BY <3>1, <3>3 DEF y
  <2>3. ASSUME ~r.failed PROVE IsTrained(y, m, K) /\ Pays(y, r, s)
    <3>a. r.failed = FALSE
      BY <2>3 DEF IsTrained
    <3>1. y = L1Step(rate, r, s, InferBy(crf, r.model, s))
      BY <2>1, <2>3 DEF L1On
    <3>2. /\ IsModel(r.model, K) /\ r.model.max > 0 /\ LabelsOf(r.model) = LabelsOf(m)
          /\ s \in IndexedSentences(Len(r.model.features), r.model.max)
      BY DEF IsTrained, SameShape, LabelsOf
    <3>3. IsInferred(InferBy(crf, r.model, s), Len(s.words), LabelsOf(m))
      BY <3>2, InferIs
    <3> DEFINE seen == InferBy(crf, r.model, s)
    <3> HIDE DEF seen, y
    <3>4. IsTrained(y, m, K) /\ (r.failed = FALSE => Pays(y, r, s))
      BY <3>1, <3>3, L1StepTrains DEF seen
    <3>5. Pays(y, r, s)
      BY <3>a, <3>4
    <3> QED BY <3>4, <3>5 DEF y
  <2>4. IsTrained(y, m, K) /\ Pays(y, r, s)
    BY <2>2, <2>3
  <2> HIDE DEF y
  <2>5. OwesTheSame(y, r)
    BY <2>4 DEF Pays, OwesTheSame
  <2> QED BY <2>4, <2>5 DEF y
<1>2. CASE alg # "l1sgd"
  <2>1. y = PerceptronOn(crf, rate, r, s)
    BY <1>2 DEF TrainOn
  <2> QED BY <1>2, <2>1, PerceptronTrains DEF OwesTheSame
<1> QED BY <1>1, <1>2

-----------------------------------------------------------------------------
(* What l1sgd has made of r with the sentences of a chunk, unless it       *)
(* failed: transitions have paid, and so has what the chunk names.         *)
EdgesPaid(r) ==
  \A e \in DOMAIN r.model.trans : PaidUp(r.model.trans[e], r.paid.trans[e], r.paid.owed)

ParamPaid(r, p) == PaidUp(r.model.weight[p], r.paid.weight[p], r.paid.owed)

ChunkPays(y, r, chunk) ==
  y.failed = FALSE =>
    /\ r.failed = FALSE
    /\ EdgesPaid(r) \/ Len(chunk) > 0 => EdgesPaid(y)
    /\ \A p \in DOMAIN y.model.weight :
         ParamPaid(r, p) \/ (\E k \in 1 .. Len(chunk) : Names(chunk[k], p[1])) => ParamPaid(y, p)

AfterChunk(alg, crf, rate, r, chunk) ==
  FoldLeft(LAMBDA x, s : TrainOn(alg, crf, rate, x, s), r, chunk)

(***************************************************************************)
(* Training on a chunk of any sentences leaves a model and payments of its *)
(* shape, and the debts as they were; after l1sgd every transition and     *)
(* every weight the chunk names has paid what it owes, and what had paid   *)
(* before still has (BaseSGDLearner, CumulativeL1SGDLearner).              *)
(***************************************************************************)
THEOREM ChunkTrained ==
  ASSUME NEW K, NEW m, NEW r, IsTrained(r, m, K), m.max > 0,
         NEW chunk \in Seq(IndexedSentences(Len(m.features), m.max)),
         NEW crf \in {"vanilla", "sparse", "constrained"}, NEW rate \in Int, NEW alg
  PROVE  /\ IsTrained(AfterChunk(alg, crf, rate, r, chunk), m, K)
         /\ OwesTheSame(AfterChunk(alg, crf, rate, r, chunk), r)
         /\ alg = "l1sgd" => ChunkPays(AfterChunk(alg, crf, rate, r, chunk), r, chunk)
<1> DEFINE X == IndexedSentences(Len(m.features), m.max)
<1> DEFINE n == Len(chunk)
<1> DEFINE y == AfterChunk(alg, crf, rate, r, chunk)
<1>0. chunk \in Seq(X)
  OBVIOUS
<1>1. PICK g : TrainRun(g, alg, crf, rate, r, chunk)
  <2> HIDE DEF X
  <2> QED BY <1>0, TrainRuns
<1>2. n \in Nat /\ \A k \in 1 .. n : chunk[k] \in X
  <2> HIDE DEF X
  <2> QED BY <1>0, LenProperties, ElementOfSeq
<1>3. /\ g[0] = r /\ y = g[n]
      /\ \A k \in 1 .. n : g[k] = TrainOn(alg, crf, rate, g[k - 1], chunk[k])
  BY <1>1 DEF TrainRun, AfterChunk
<1> HIDE DEF X, n, y
<1> DEFINE Named(k, p) == \E i \in 1 .. k : Names(chunk[i], p[1])
<1> DEFINE Done(k) ==
      g[k].failed = FALSE =>
        /\ r.failed = FALSE
        /\ EdgesPaid(r) \/ k > 0 => EdgesPaid(g[k])
        /\ \A p \in DOMAIN g[k].model.weight :
             ParamPaid(r, p) \/ Named(k, p) => ParamPaid(g[k], p)
<1> DEFINE S == {k \in 0 .. n : /\ IsTrained(g[k], m, K) /\ g[k].paid.owed = r.paid.owed
                                /\ alg = "l1sgd" => Done(k)}
<1>4. 0 \in S
  <2>1. \A p : Named(0, p) = FALSE
    OBVIOUS
  <2> HIDE DEF Named
  <2>2. Done(0)
    BY <1>3, <2>1
  <2> HIDE DEF Done
  <2> QED BY <1>2, <1>3, <2>2
<1>5. ASSUME NEW k \in 0 .. n - 1, k \in S PROVE k + 1 \in S
  <2>0. k \in Nat /\ k + 1 \in 1 .. n /\ k + 1 \in 0 .. n /\ (k + 1) - 1 = k
    BY <1>2
  <2> DEFINE x == g[k]
  <2> DEFINE s == chunk[k + 1]
  <2> DEFINE z == g[k + 1]
  <2>1. /\ IsTrained(x, m, K) /\ x.paid.owed = r.paid.owed /\ s \in X
        /\ z = TrainOn(alg, crf, rate, x, s)
    BY <1>2, <1>3, <1>5, <2>0
  <2>2. IsTrained(z, m, K) /\ (alg = "l1sgd" => Pays(z, x, s)) /\ z.paid.owed = x.paid.owed
    <3>1. s \in IndexedSentences(Len(m.features), m.max)
      BY <2>1 DEF X
    <3> HIDE DEF x, s, z
    <3> DEFINE y1 == TrainOn(alg, crf, rate, x, s)
    <3>2. IsTrained(x, m, K)
      BY <2>1
    <3>3. IsTrained(y1, m, K) /\ (alg = "l1sgd" => Pays(y1, x, s)) /\ y1.paid.owed = x.paid.owed
      <4> HIDE DEF S, Done
      <4>1. IsTrained(y1, m, K)
        BY <3>1, <3>2, TrainedOn, Zenon
      <4>2. alg = "l1sgd" => Pays(y1, x, s)
        BY <3>1, <3>2, TrainedOn, Zenon
      <4>3. OwesTheSame(y1, x)
        BY <3>1, <3>2, TrainedOn, Zenon
      <4> QED BY <4>1, <4>2, <4>3 DEF OwesTheSame
    <3> HIDE DEF y1
    <3> QED BY <2>1, <3>3 DEF y1
  <2>3. ASSUME alg = "l1sgd" PROVE Done(k + 1)
    <3>1. ASSUME z.failed = FALSE PROVE x.failed = FALSE /\ EdgesPaid(z)
      <4> HIDE DEF x, s, z
      <4> QED BY <2>2, <2>3, <3>1 DEF Pays, EdgesPaid
    <3>2. ASSUME z.failed = FALSE, NEW p \in DOMAIN z.model.weight, ParamPaid(x, p) \/ Names(s, p[1])
          PROVE  ParamPaid(z, p)
      <4> HIDE DEF x, s, z
      <4> QED BY <2>2, <2>3, <3>2 DEF Pays, ParamPaid
    <3>3. Done(k)
      BY <1>5, <2>3
    <3>4. \A p : Named(k + 1, p) => Named(k, p) \/ Names(s, p[1])
      <4>1. \A i \in 1 .. k + 1 : i \in 1 .. k \/ i = k + 1
        BY <2>0
      <4> QED BY <4>1
    <3>5. DOMAIN z.model.weight = DOMAIN x.model.weight
      <4> HIDE DEF x, z
      <4> QED BY <2>1, <2>2 DEF IsTrained, SameShape
    <3> HIDE DEF Named
    <3>6. ASSUME z.failed = FALSE PROVE r.failed = FALSE
      BY <3>1, <3>3, <3>6
    <3>7. ASSUME z.failed = FALSE, NEW p \in DOMAIN z.model.weight, ParamPaid(r, p) \/ Named(k + 1, p)
          PROVE  ParamPaid(z, p)
      <4>1. p \in DOMAIN x.model.weight /\ x.failed = FALSE
        BY <3>1, <3>5, <3>7
      <4>2. ParamPaid(x, p) \/ Names(s, p[1])
        <5>1. ParamPaid(r, p) \/ Named(k, p) \/ Names(s, p[1])
          BY <3>4, <3>7
        <5>2. ParamPaid(r, p) \/ Named(k, p) => ParamPaid(x, p)
          BY <3>3, <4>1
        <5> HIDE DEF x, s
        <5> QED BY <5>1, <5>2
      <4> HIDE DEF x, s, z
      <4> QED BY <3>2, <3>7, <4>2
    <3> QED BY <3>1, <3>6, <3>7
  <2> HIDE DEF Done
  <2>4. IsTrained(g[k + 1], m, K) /\ g[k + 1].paid.owed = r.paid.owed
    BY <2>1, <2>2
  <2> QED BY <2>0, <2>3, <2>4
<1>6. n \in S
  <2> HIDE DEF S
  <2>1. \A k \in 0 .. n : k \in S
    BY <1>2, <1>4, <1>5, UpTo
  <2> QED BY <1>2, <2>1
<1>7. IsTrained(y, m, K) /\ y.paid.owed = r.paid.owed
  BY <1>3, <1>6
<1>8. ASSUME alg = "l1sgd" PROVE ChunkPays(y, r, chunk)
  <2>1. Done(n)
    BY <1>6, <1>8
  <2>2. y.failed = FALSE =>
          /\ r.failed = FALSE
          /\ EdgesPaid(r) \/ n > 0 => EdgesPaid(y)
          /\ \A p \in DOMAIN y.model.weight :
               ParamPaid(r, p) \/ (\E k \in 1 .. n : Names(chunk[k], p[1])) => ParamPaid(y, p)
    BY <1>3, <2>1
  <2> QED BY <2>2 DEF ChunkPays, n
<1> QED BY <1>7, <1>8 DEF y, OwesTheSame

-----------------------------------------------------------------------------
(***************************************************************************)
(* The weight that the model gives label l of feature f, which is zero     *)
(* where it has no parameter: all that decoding sees of its parameters.    *)
(***************************************************************************)
Weigh(m, set, id, l) ==
  IF FindFeature(m, set, id) = 0 THEN 0 ELSE WeightOf(m, FindFeature(m, set, id), l)

LEMMA WeighIsSaid ==
  ASSUME NEW K, NEW m, IsModel(m, K), NEW set, NEW id, NEW l
  PROVE  /\ Weigh(m, set, id, l) \in Int
         /\ Weigh(m, set, id, l) # 0 => Says(m, <<set, id>>, l, Weigh(m, set, id, l))
         /\ \A v : Says(m, <<set, id>>, l, v) => Weigh(m, set, id, l) = v
<1> DEFINE f == <<set, id>>
<1> DEFINE u == FindFeature(m, set, id)
<1> DEFINE X == FeaturesOf(K, m.max)
<1>1. m.features \in Seq(X) /\ Distinct(m.features) /\ m.weight \in [DOMAIN m.weight -> Int]
  BY DEF IsModel
<1> HIDE DEF X
<1>2. IsFound(u, m.features, f)
  BY <1>1, FoundFeature
<1>3. \A p \in DOMAIN m.weight : p = <<p[1], p[2]>> /\ p[1] \in 1 .. Len(m.features)
  BY PartsOfModel
<1>4. WeightOf(m, u, l) \in Int
  BY <1>1, WeightIsInt
<1>5. Weigh(m, set, id, l) = IF u = 0 THEN 0 ELSE WeightOf(m, u, l)
  BY DEF Weigh
<1> HIDE DEF u
<1>6. ASSUME u # 0, WeightOf(m, u, l) # 0 PROVE Says(m, f, l, WeightOf(m, u, l))
  <2>1. <<u, l>> \in DOMAIN m.weight /\ WeightOf(m, u, l) = m.weight[<<u, l>>]
    BY <1>6 DEF WeightOf
  <2>2. m.features[u] = f
    BY <1>2, <1>6 DEF IsFound
  <2> QED BY <2>1, <2>2 DEF Says
<1>7. ASSUME NEW v, Says(m, f, l, v) PROVE u # 0 /\ WeightOf(m, u, l) = v
  <2>1. PICK p \in DOMAIN m.weight : m.features[p[1]] = f /\ p[2] = l /\ m.weight[p] = v
    BY <1>7 DEF Says
  <2>2. p = <<p[1], l>> /\ p[1] \in 1 .. Len(m.features)
    BY <1>3, <2>1
  <2>3. u = p[1]
    BY <1>1, <1>2, <2>1, <2>2 DEF IsFound
  <2>4. u # 0
    <3>1. Len(m.features) \in Nat
      BY <1>1, LenProperties
    <3> QED BY <2>2, <2>3, <3>1
  <2> QED BY <2>1, <2>2, <2>3, <2>4 DEF WeightOf
<1> QED BY <1>4, <1>5, <1>6, <1>7

(***************************************************************************)
(* One model is another one of which only weights of zero were dropped: as *)
(* many labels, and the same weights.                                      *)
(***************************************************************************)
SaysAlike(c, m) ==
  c.max = m.max /\ \A f, l, v : Says(c, f, l, v) <=> Says(m, f, l, v) /\ v # 0

LEMMA AlikeWeighs ==
  ASSUME NEW K, NEW c, NEW m, IsModel(c, K), IsModel(m, K), SaysAlike(c, m), NEW set, NEW id, NEW l
  PROVE  Weigh(c, set, id, l) = Weigh(m, set, id, l)
<1> DEFINE f == <<set, id>>
<1> DEFINE a == Weigh(c, set, id, l)
<1> DEFINE b == Weigh(m, set, id, l)
<1>1. /\ a # 0 => Says(c, f, l, a)
      /\ \A v : Says(c, f, l, v) => a = v
  BY WeighIsSaid
<1>2. /\ b # 0 => Says(m, f, l, b)
      /\ \A v : Says(m, f, l, v) => b = v
  BY WeighIsSaid
<1> HIDE DEF a, b
<1>3. CASE b # 0
  <2>1. Says(c, f, l, b)
    BY <1>2, <1>3 DEF SaysAlike
  <2> QED BY <1>1, <2>1 DEF a, b
<1>4. CASE b = 0 /\ a # 0
  <2>1. Says(m, f, l, a)
    BY <1>1, <1>4 DEF SaysAlike
  <2> QED BY <1>2, <2>1 DEF a, b
<1> QED BY <1>3, <1>4 DEF a, b

-----------------------------------------------------------------------------
(* The cache holds the weights of the transitions' parameters.             *)
LEMMA CacheWeighs ==
  ASSUME NEW K, NEW m, IsModel(m, K)
  PROVE  RefreshCache(m).trans = [e \in LabelsOf(m) \X LabelsOf(m) |-> Weigh(m, EdgeSet, e[1], e[2])]
<1>1. \A e \in LabelsOf(m) \X LabelsOf(m) : Weigh(m, EdgeSet, e[1], e[2]) =
        LET uid == FindFeature(m, EdgeSet, e[1]) IN IF uid = 0 THEN 0 ELSE WeightOf(m, uid, e[2])
  BY DEF Weigh
<1> DEFINE c == [e \in LabelsOf(m) \X LabelsOf(m) |-> Weigh(m, EdgeSet, e[1], e[2])]
<1>2. RefreshCache(m) = [m EXCEPT !.trans = c]
  BY <1>1 DEF RefreshCache
<1> HIDE DEF c
<1>3. [m EXCEPT !.trans = c].trans = c
  BY DEF IsModel
<1> QED BY <1>2, <1>3 DEF c

(* Two models that give their parameters the same weights have the same    *)
(* transitions.                                                            *)
LEMMA AlikeDecides ==
  ASSUME NEW K, NEW c, NEW m, IsModel(c, K), IsModel(m, K), SaysAlike(c, m), Fresh(c), Fresh(m)
  PROVE  c.trans = m.trans
<1> DEFINE E == LabelsOf(m) \X LabelsOf(m)
<1>1. LabelsOf(c) = LabelsOf(m)
  BY DEF SaysAlike, LabelsOf
<1>2. c.trans = [e \in E |-> Weigh(c, EdgeSet, e[1], e[2])]
  BY <1>1, CacheWeighs DEF Fresh
<1>3. m.trans = [e \in E |-> Weigh(m, EdgeSet, e[1], e[2])]
  BY CacheWeighs DEF Fresh
<1> HIDE DEF E
<1>4. \A e \in E : Weigh(c, EdgeSet, e[1], e[2]) = Weigh(m, EdgeSet, e[1], e[2])
  BY AlikeWeighs
<1> QED BY <1>2, <1>3, <1>4

-----------------------------------------------------------------------------
(***************************************************************************)
(* The score of a word's label, by the features of the file: those that    *)
(* the model does not have, which IndexData left out, weigh nothing.       *)
(***************************************************************************)
FeatureRun(z, m, i, fs) ==
  /\ z \in [0 .. Len(fs) -> Int] /\ z[0] = 0
  /\ \A k \in 1 .. Len(fs) : z[k] = z[k - 1] + Weigh(m, fs[k][1], fs[k][2], i) * fs[k][3]
  /\ FoldLeft(LAMBDA x, f : x + WeightOf(m, f[1], i) * f[2], 0, Indexed(m, fs)) = z[Len(fs)]

(* What is kept so far is how what is kept in the end begins.              *)
LEMMA KeptBegins ==
  ASSUME NEW T, NEW s \in Seq(T), NEW S, NEW g, KeptRun(g, s, T, S), NEW k \in 0 .. Len(s)
  PROVE  /\ Len(g[k]) \in Nat /\ Len(g[k]) <= Len(Kept(s, S))
         /\ \A p \in 1 .. Len(g[k]) : Kept(s, S)[p] = g[k][p]
<1> DEFINE n == Len(s)
<1> DEFINE V == T \cap S
<1> DEFINE ks == Kept(s, S)
<1> DEFINE B == {j \in 0 .. n : /\ Len(g[j]) <= Len(ks)
                                /\ \A p \in 1 .. Len(g[j]) : ks[p] = g[j][p]}
<1>1. /\ g \in [0 .. n -> Seq(V)] /\ ks = g[n]
      /\ \A j \in 1 .. n : g[j] = IF s[j] \in S THEN Append(g[j - 1], s[j]) ELSE g[j - 1]
  BY DEF KeptRun
<1>2. n \in Nat /\ \A j \in 1 .. n : s[j] \in T
  BY LenProperties, ElementOfSeq
<1> HIDE DEF n, ks
<1>3. \A j \in 0 .. n : g[j] \in Seq(V) /\ Len(g[j]) \in Nat
  <2> HIDE DEF V
  <2> QED BY <1>1, LenProperties
<1>4. n \in B
  <2>1. n \in 0 .. n
    BY <1>2
  <2>2. Len(ks) \in Nat
    BY <1>1, <1>3, <2>1
  <2> QED BY <1>1, <2>1, <2>2
<1>5. ASSUME NEW j \in 1 .. n, j \in B PROVE j - 1 \in B
  <2>1. j - 1 \in 0 .. n /\ j \in 0 .. n
    BY <1>2
  <2>2. Len(g[j - 1]) <= Len(g[j]) /\ \A p \in 1 .. Len(g[j - 1]) : g[j][p] = g[j - 1][p]
    <3>1. CASE s[j] \in S
      <4> DEFINE a == g[j - 1]
      <4> DEFINE b == s[j]
      <4>1. a \in Seq(V) /\ b \in V /\ g[j] = Append(a, b) /\ Len(a) \in Nat
        BY <1>1, <1>2, <1>3, <2>1, <3>1
      <4> HIDE DEF a, b, V
      <4>2. Len(Append(a, b)) = Len(a) + 1 /\ \A p \in 1 .. Len(a) : Append(a, b)[p] = a[p]
        BY <4>1, AppendProperties
      <4>3. Len(a) <= Len(g[j]) /\ \A p \in 1 .. Len(a) : g[j][p] = a[p]
        BY <4>1, <4>2
      <4> QED BY <4>3 DEF a
    <3>2. CASE s[j] \notin S
      BY <1>1, <1>3, <2>1, <3>2
    <3> QED BY <3>1, <3>2
  <2>3. Len(g[j]) <= Len(ks) /\ \A p \in 1 .. Len(g[j]) : ks[p] = g[j][p]
    BY <1>5
  <2>4. Len(g[j - 1]) \in Nat /\ Len(g[j]) \in Nat
    BY <1>3, <2>1
  <2>5. Len(ks) \in Nat
    <3>1. n \in 0 .. n
      BY <1>2
    <3> QED BY <1>1, <1>3, <3>1
  <2>6. Len(g[j - 1]) <= Len(ks)
    BY <2>2, <2>3, <2>4, <2>5
  <2>7. \A p \in 1 .. Len(g[j - 1]) : p \in 1 .. Len(g[j])
    BY <2>2, <2>4
  <2> QED BY <2>1, <2>2, <2>3, <2>6, <2>7
<1>6. \A j \in 0 .. n : j \in B
  <2> HIDE DEF B
  <2> QED BY <1>2, <1>4, <1>5, DownFrom
<1> QED BY <1>3, <1>6 DEF n, ks

(* The score of a label is the sum over the features of the word.          *)
LEMMA FeatureRuns ==
  ASSUME NEW K, NEW m, IsModel(m, K), NEW fs \in Seq(FeatureLines(K)), NEW i
  PROVE  \E z : FeatureRun(z, m, i, fs)
<1> DEFINE X == FeaturesOf(K, m.max)
<1> DEFINE n == Len(m.features)
<1> DEFINE l == Len(fs)
<1> DEFINE u(k) == FindFeature(m, fs[k][1], fs[k][2])
<1> DEFINE found == [k \in DOMAIN fs |-> <<FindFeature(m, fs[k][1], fs[k][2]), fs[k][3]>>]
<1> DEFINE S == {p \in ToSet(found) : p[1] # 0}
<1> DEFINE T == (0 .. n) \X Int
<1> DEFINE ks == Indexed(m, fs)
<1>0. m.features \in Seq(X) /\ m.weight \in [DOMAIN m.weight -> Int]
  BY DEF IsModel
<1> HIDE DEF X
<1>1. n \in Nat /\ \A set, id : FindFeature(m, set, id) \in 0 .. n
  BY <1>0, FoundFeature, LenProperties DEF IsFound
<1>2. l \in Nat /\ DOMAIN fs = 1 .. l /\ \A k \in 1 .. l : fs[k][3] \in Int
  <2>1. \A f \in FeatureLines(K) : f[3] \in Int
    BY DEF FeatureLines
  <2> QED BY <2>1, LenProperties, ElementOfSeq
<1> HIDE DEF n, l
<1>3. found \in Seq(T) /\ Len(found) = l /\ DOMAIN found = 1 .. l
  <2>1. found = [k \in 1 .. l |-> found[k]] /\ \A k \in 1 .. l : found[k] \in T
    BY <1>1, <1>2
  <2> HIDE DEF found, T
  <2>2. found \in Seq(T)
    BY <1>2, <2>1, IsASeq
  <2>3. DOMAIN found = 1 .. l
    BY <2>1
  <2> QED BY <1>2, <2>2, <2>3, LenProperties
<1>4. \A k \in 1 .. l : found[k] = <<u(k), fs[k][3]>> /\ (found[k] \in S <=> u(k) # 0)
  <2>1. \A k \in 1 .. l : found[k] = <<u(k), fs[k][3]>>
    BY <1>2
  <2>2. \A k \in 1 .. l : found[k] \in ToSet(found)
    BY <1>3 DEF ToSet
  <2> HIDE DEF found
  <2> QED BY <2>1, <2>2
<1>5. ks = Kept(found, S) /\ ks \in Seq((1 .. n) \X Int)
  BY IndexedIs DEF Indexed, n
<1> HIDE DEF found, S, ks
<1>6. PICK g : KeptRun(g, found, T, S)
  BY <1>3, KeptRuns
<1>7. PICK h : WeighRun(h, m, i, ks)
  BY <1>0, <1>1, <1>5, WeighRuns
<1> DEFINE z == [k \in 0 .. l |-> h[Len(g[k])]]
<1>8. \A k \in 0 .. l : /\ Len(g[k]) \in 0 .. Len(ks)
                        /\ \A p \in 1 .. Len(g[k]) : ks[p] = g[k][p]
  <2> HIDE DEF T
  <2>1. ASSUME NEW k \in 0 .. l
        PROVE  /\ Len(g[k]) \in Nat /\ Len(g[k]) <= Len(ks)
               /\ \A p \in 1 .. Len(g[k]) : ks[p] = g[k][p]
    BY <1>3, <1>5, <1>6, KeptBegins, SMTT(30)
  <2>2. Len(ks) \in Nat
    <3> DEFINE Y == (1 .. n) \X Int
    <3>1. ks \in Seq(Y)
      BY <1>5
    <3> HIDE DEF Y
    <3> QED BY <3>1, LenProperties
  <2> QED BY <2>1, <2>2
<1>9. /\ h \in [0 .. Len(ks) -> Int] /\ h[0] = 0
      /\ \A k \in 1 .. Len(ks) : h[k] = h[k - 1] + WeightOf(m, ks[k][1], i) * ks[k][2]
      /\ FoldLeft(LAMBDA x, f : x + WeightOf(m, f[1], i) * f[2], 0, ks) = h[Len(ks)]
  BY <1>7 DEF WeighRun
<1>10. /\ g[0] = <<>> /\ ks = g[l]
       /\ \A k \in 1 .. l : g[k] = IF found[k] \in S THEN Append(g[k - 1], found[k]) ELSE g[k - 1]
       /\ g \in [0 .. l -> Seq(T \cap S)]
  BY <1>3, <1>5, <1>6 DEF KeptRun
<1>11. z \in [0 .. l -> Int]
  BY <1>8, <1>9
<1>12. z[0] = 0 /\ z[l] = h[Len(ks)]
  <2>1. 0 \in 0 .. l /\ l \in 0 .. l
    BY <1>2
  <2>2. Len(g[0]) = 0
    BY <1>10
  <2> QED BY <1>9, <1>10, <2>1, <2>2
<1>13. ASSUME NEW k \in 1 .. l
       PROVE  z[k] = z[k - 1] + Weigh(m, fs[k][1], fs[k][2], i) * fs[k][3]
  <2>1. k \in 0 .. l /\ k - 1 \in 0 .. l
    BY <1>2
  <2>2. z[k] = h[Len(g[k])] /\ z[k - 1] = h[Len(g[k - 1])]
    BY <2>1
  <2>3. CASE u(k) = 0
    <3>1. Weigh(m, fs[k][1], fs[k][2], i) = 0
      BY <2>3 DEF Weigh
    <3>2. g[k] = g[k - 1]
      BY <1>4, <1>10, <2>3
    <3>3. z[k - 1] \in Int /\ fs[k][3] \in Int
      BY <1>2, <1>11, <2>1
    <3> HIDE DEF z
    <3> QED BY <2>2, <3>1, <3>2, <3>3
  <2>4. CASE u(k) # 0
    <3> DEFINE a == g[k - 1]
    <3> DEFINE b == found[k]
    <3> DEFINE Y == T \cap S
    <3>1. b \in Y
      <4>1. b \in T
        <5> HIDE DEF T
        <5> QED BY <1>3, ElementOfSeq
      <4> QED BY <1>4, <2>4, <4>1
    <3>2. a \in Seq(Y) /\ g[k] = Append(a, b)
      BY <1>4, <1>10, <2>1, <2>4
    <3>3. b = <<u(k), fs[k][3]>>
      BY <1>4
    <3> HIDE DEF a, b, Y
    <3>4. Len(g[k]) = Len(a) + 1 /\ g[k][Len(a) + 1] = b /\ Len(a) \in Nat
      BY <3>1, <3>2, AppendProperties, LenProperties
    <3>5. Len(g[k]) \in 1 .. Len(ks) /\ ks[Len(g[k])] = b /\ Len(g[k]) - 1 = Len(a)
      BY <1>8, <2>1, <3>4
    <3>6. h[Len(g[k])] = h[Len(a)] + WeightOf(m, b[1], i) * b[2]
      BY <1>9, <3>5
    <3>7. Weigh(m, fs[k][1], fs[k][2], i) = WeightOf(m, u(k), i)
      BY <2>4 DEF Weigh
    <3>8. b[1] = u(k) /\ b[2] = fs[k][3]
      BY <3>3
    <3> HIDE DEF z, u
    <3> QED BY <2>2, <3>6, <3>7, <3>8 DEF a
  <2> QED BY <2>3, <2>4
<1>14. FoldLeft(LAMBDA x, f : x + WeightOf(m, f[1], i) * f[2], 0, Indexed(m, fs)) = z[l]
  BY <1>9, <1>12 DEF ks
<1> HIDE DEF z
<1>15. FeatureRun(z, m, i, fs)
  BY <1>11, <1>12, <1>13, <1>14 DEF FeatureRun, l
<1> QED BY <1>15

FeatureScore(m, i, fs) == FoldLeft(LAMBDA x, f : x + WeightOf(m, f[1], i) * f[2], 0, Indexed(m, fs))

(* So models that say alike score alike.                                   *)
LEMMA AlikeScores ==
  ASSUME NEW K, NEW c, NEW m, IsModel(c, K), IsModel(m, K), SaysAlike(c, m),
         NEW fs \in Seq(FeatureLines(K)), NEW i
  PROVE  FeatureScore(c, i, fs) = FeatureScore(m, i, fs)
<1> DEFINE n == Len(fs)
<1>1. PICK a : FeatureRun(a, c, i, fs)
  BY FeatureRuns
<1>2. PICK b : FeatureRun(b, m, i, fs)
  BY FeatureRuns
<1>3. n \in Nat
  BY LenProperties
<1> DEFINE S == {k \in 0 .. n : a[k] = b[k]}
<1>4. 0 \in S
  <2>1. a[0] = 0 /\ b[0] = 0
    BY <1>1, <1>2 DEF FeatureRun
  <2>2. 0 \in 0 .. n
    BY <1>3
  <2> QED BY <2>1, <2>2
<1>5. ASSUME NEW k \in 0 .. n - 1, k \in S PROVE k + 1 \in S
  <2>1. k + 1 \in 1 .. n /\ (k + 1) - 1 = k /\ k + 1 \in 0 .. n
    BY <1>3
  <2>2. Weigh(c, fs[k + 1][1], fs[k + 1][2], i) = Weigh(m, fs[k + 1][1], fs[k + 1][2], i)
    BY AlikeWeighs
  <2>3. a[k + 1] = a[k] + Weigh(c, fs[k + 1][1], fs[k + 1][2], i) * fs[k + 1][3]
    BY <1>1, <2>1 DEF FeatureRun
  <2>4. b[k + 1] = b[k] + Weigh(m, fs[k + 1][1], fs[k + 1][2], i) * fs[k + 1][3]
    BY <1>2, <2>1 DEF FeatureRun
  <2>5. a[k] = b[k]
    BY <1>5
  <2>6. a[k + 1] = b[k + 1]
    BY <2>2, <2>3, <2>4, <2>5
  <2> QED BY <2>1, <2>6
<1>6. n \in S
  <2> HIDE DEF S
  <2>1. \A k \in 0 .. n : k \in S
    BY <1>3, <1>4, <1>5, UpTo
  <2> QED BY <1>3, <2>1
<1>7. a[n] = b[n]
  BY <1>6
<1> HIDE DEF S
<1>8. FeatureScore(c, i, fs) = a[n]
  BY <1>1, Zenon DEF FeatureRun, FeatureScore
<1>9. FeatureScore(m, i, fs) = b[n]
  BY <1>2, Zenon DEF FeatureRun, FeatureScore
<1> QED BY <1>7, <1>8, <1>9

(***************************************************************************)
(* Any model that is shrunk, written, and read again has the labels and    *)
(* the weights it had, and scores every word as it did; its transitions    *)
(* are made of its weights (Shrink, Serialize and Deserialize of           *)
(* SparseLinearModel).                                                     *)
(***************************************************************************)
THEOREM ModelComesBack ==
  ASSUME NEW K \in SUBSET (Nat \X Nat), NEW m, IsModel(m, K)
  PROVE  LET c == Deserialize(Serialize(Shrink(m)))
         IN  /\ IsModel(c, K) /\ Fresh(c) /\ SaysAlike(c, m)
             /\ \A fs \in Seq(FeatureLines(K)) : \A i : FeatureScore(c, i, fs) = FeatureScore(m, i, fs)
<1> DEFINE small == Shrink(m)
<1> DEFINE saved == Serialize(small)
<1> DEFINE c == Deserialize(saved)
<1>1. IsShrunk(small, m, K)
  BY ShrunkIs
<1> HIDE DEF small
<1>2. IsWritten(saved, small, K)
  BY <1>1, SerializedIs DEF IsShrunk
<1> HIDE DEF saved
<1>3. IsLoaded(c, saved, K)
  BY <1>2, DeserializedIs DEF IsWritten
<1> HIDE DEF c
<1>4. IsModel(c, K) /\ Fresh(c) /\ SaysAlike(c, m)
  BY <1>1, <1>2, <1>3 DEF IsShrunk, IsWritten, IsLoaded, SaysAlike
<1>5. \A fs \in Seq(FeatureLines(K)) : \A i : FeatureScore(c, i, fs) = FeatureScore(m, i, fs)
  BY <1>4, AlikeScores
<1> QED BY <1>4, <1>5 DEF c, saved, small

-----------------------------------------------------------------------------
(* The lines of a training file, of features in K.                         *)
WordLines(K) == [kind : {"word"}, label : Nat, features : Seq(FeatureLines(K))]
Lines(K) ==
  [kind : {"comment", "blank"}] \cup [kind : {"tags"}, tags : Seq(Nat)] \cup WordLines(K)

(* More sentences, or lines, than these.                                   *)
LEMMA WiderSeq ==
  ASSUME NEW A, NEW B, A \subseteq B, NEW s \in Seq(A)
  PROVE  s \in Seq(B)
OBVIOUS

(* A function over 1 .. n is a sequence of that length.                    *)
LEMMA SequenceIs ==
  ASSUME NEW n \in Nat, NEW s, s = [k \in 1 .. n |-> s[k]], NEW Y, \A k \in 1 .. n : s[k] \in Y
  PROVE  s \in Seq(Y) /\ Len(s) = n
<1>1. s \in Seq(Y)
  OBVIOUS
<1>2. DOMAIN s = 1 .. n
  OBVIOUS
<1> QED BY <1>1, <1>2, LenProperties

-----------------------------------------------------------------------------
(***************************************************************************)
(* What is read of a training file: sentences of some labels, with one     *)
(* word at least; an open one may have none yet.                           *)
(***************************************************************************)
Closed(K, b) == {s \in Sentences(K, b) : s.words # <<>>}

ReadOf(K, b) == [data : Seq(Closed(K, b)), open : Sentences(K, b), at : Int]
ReadSome(K) == UNION {ReadOf(K, b) : b \in Nat}

LEMMA MoreLabels ==
  ASSUME NEW K, NEW b \in Nat, NEW c \in Nat, b <= c
  PROVE  Words(K, b) \subseteq Words(K, c) /\ Sentences(K, b) \subseteq Sentences(K, c)
           /\ ReadOf(K, b) \subseteq ReadOf(K, c)
<1> DEFINE W == Words(K, b)
<1> DEFINE X == Words(K, c)
<1> DEFINE S == Closed(K, b)
<1> DEFINE T == Closed(K, c)
<1>1. W \subseteq X
  BY DEF Words
<1>2. Sentences(K, b) \subseteq Sentences(K, c)
  <2> HIDE DEF W, X
  <2>1. \A s \in Seq(W) : s \in Seq(X)
    BY <1>1, WiderSeq
  <2> QED BY <2>1 DEF Sentences, W, X
<1>3. S \subseteq T
  BY <1>2 DEF Closed
<1>4. ReadOf(K, b) \subseteq ReadOf(K, c)
  <2> HIDE DEF S, T
  <2>1. \A s \in Seq(S) : s \in Seq(T)
    BY <1>3, WiderSeq
  <2> QED BY <1>2, <2>1 DEF ReadOf, S, T
<1> QED BY <1>1, <1>2, <1>4

(* A line more.                                                            *)
LEMMA OneLineRead ==
  ASSUME NEW K, NEW v \in ReadSome(K), NEW l \in Lines(K)
  PROVE  ReadLine(v, l) \in ReadSome(K)
<1>1. PICK b \in Nat : v \in ReadOf(K, b)
  BY DEF ReadSome
<1> DEFINE S == Closed(K, b)
<1> DEFINE X == Sentences(K, b)
<1>2. /\ v = [data |-> v.data, open |-> v.open, at |-> v.at]
      /\ v.data \in Seq(S) /\ v.open \in X /\ v.at \in Int
  BY <1>1 DEF ReadOf
<1>3. /\ v.open = [words |-> v.open.words, tags |-> v.open.tags]
      /\ v.open.words \in Seq(Words(K, b)) /\ v.open.tags \in Seq(Nat)
  BY <1>2 DEF Sentences
<1>4. /\ l.kind \in {"comment", "blank", "tags", "word"}
      /\ l.kind = "tags" => l.tags \in Seq(Nat)
      /\ l.kind = "word" => l.label \in Nat /\ l.features \in Seq(FeatureLines(K))
  BY DEF Lines, WordLines
<1> DEFINE old == v.data
<1> DEFINE open == v.open
<1> DEFINE at == v.at
<1>5. CASE l.kind = "comment"
  BY <1>5 DEF ReadLine
<1>6. CASE l.kind = "tags"
  <2> DEFINE tags == v.open.tags \o l.tags
  <2> DEFINE words == v.open.words
  <2>1. ReadLine(v, l) = [v EXCEPT !.open.tags = tags]
    BY <1>6 DEF ReadLine
  <2>2. tags \in Seq(Nat) /\ words \in Seq(Words(K, b))
    BY <1>3, <1>4, <1>6, ConcatProperties
  <2> HIDE DEF tags
  <2>3. ReadLine(v, l) = [data |-> old, open |-> [words |-> words, tags |-> tags], at |-> at]
    BY <1>2, <1>3, <2>1
  <2>4. [words |-> words, tags |-> tags] \in X
    BY <2>2 DEF Sentences
  <2>5. ReadLine(v, l) \in ReadOf(K, b)
    BY <1>2, <2>3, <2>4 DEF ReadOf
  <2> QED BY <2>5 DEF ReadSome
<1>7. CASE l.kind = "word"
  <2> DEFINE c == b + l.label + 1
  <2> DEFINE w == [label |-> l.label, features |-> l.features]
  <2> DEFINE words == Append(v.open.words, w)
  <2> DEFINE tags == v.open.tags
  <2>0. c \in Nat /\ b <= c /\ l.label \in 0 .. c - 1
    BY <1>4, <1>7
  <2>1. ReadLine(v, l) = [v EXCEPT !.open.words = words]
    BY <1>7 DEF ReadLine
  <2>2. w \in Words(K, c)
    BY <1>4, <1>7, <2>0 DEF Words
  <2>3. v.open.words \in Seq(Words(K, c)) /\ tags \in Seq(Nat)
    BY <1>1, <1>3, <2>0, MoreLabels, WiderSeq
  <2> HIDE DEF c, w
  <2>4. words \in Seq(Words(K, c))
    BY <2>2, <2>3, AppendProperties
  <2>5. v.data \in Seq(Closed(K, c)) /\ v.at \in Int
    BY <1>1, <2>0, MoreLabels DEF ReadOf
  <2> HIDE DEF words
  <2>6. ReadLine(v, l) = [data |-> old, open |-> [words |-> words, tags |-> tags], at |-> at]
    BY <1>2, <1>3, <2>1
  <2>7. [words |-> words, tags |-> tags] \in Sentences(K, c)
    BY <2>3, <2>4 DEF Sentences
  <2>8. ReadLine(v, l) \in ReadOf(K, c)
    BY <2>5, <2>6, <2>7 DEF ReadOf
  <2> QED BY <2>0, <2>8 DEF ReadSome
<1>8. CASE l.kind = "blank"
  <2>1. CASE v.open.words = <<>>
    BY <1>8, <2>1 DEF ReadLine
  <2>2. CASE v.open.words # <<>>
    <3> DEFINE more == Append(v.data, v.open)
    <3> DEFINE none == NoSentence
    <3>1. ReadLine(v, l) = [v EXCEPT !.data = more, !.open = none]
      BY <1>8, <2>2 DEF ReadLine
    <3>2. v.open \in S
      BY <1>2, <2>2 DEF Closed
    <3>3. more \in Seq(S)
      BY <1>2, <3>2, AppendProperties
    <3>4. none \in X
      BY DEF NoSentence, Sentences
    <3> HIDE DEF more, none
    <3>5. ReadLine(v, l) = [data |-> more, open |-> none, at |-> at]
      BY <1>2, <3>1
    <3>6. ReadLine(v, l) \in ReadOf(K, b)
      BY <1>2, <3>3, <3>4, <3>5 DEF ReadOf
    <3> QED BY <3>6 DEF ReadSome
  <2> QED BY <2>1, <2>2
<1> QED BY <1>4, <1>5, <1>6, <1>7, <1>8

(* Read, line by line.                                                     *)
ReadRun(g, lines, at, size, K) ==
  /\ g \in [0 .. Len(lines) -> ReadSome(K)] /\ g[0] = [data |-> <<>>, open |-> NoSentence, at |-> at]
  /\ \A k \in 1 .. Len(lines) : g[k] = ReadFrom(lines, size, g[k - 1], k)
  /\ Read(lines, at, size) = g[Len(lines)]

LEMMA ReadRuns ==
  ASSUME NEW K, NEW lines \in Seq(Lines(K)), NEW at \in Int, NEW size
  PROVE  \E g : ReadRun(g, lines, at, size, K)
<1> DEFINE n == Len(lines)
<1> DEFINE op(r, x) == ReadFrom(lines, size, r, x)
<1> DEFINE seq == [k \in 1 .. n |-> k]
<1> DEFINE base == [data |-> <<>>, open |-> NoSentence, at |-> at]
<1> DEFINE V == ReadSome(K)
<1> DEFINE F == [k \in 1 .. n |-> [v \in V |-> op(v, seq[k])]]
<1>0. n \in Nat /\ DOMAIN lines = 1 .. n /\ \A k \in 1 .. n : lines[k] \in Lines(K)
  BY LenProperties, ElementOfSeq
<1>1. base \in V
  <2>1. base \in ReadOf(K, 0)
    BY DEF ReadOf, Sentences, NoSentence
  <2> QED BY <2>1 DEF ReadSome
<1>2. \A k \in 1 .. n : \A v \in V : F[k][v] = op(v, seq[k])
  OBVIOUS
<1>3. DOMAIN seq = 1 .. n /\ \A k \in 1 .. n : seq[k] = k
  OBVIOUS
<1>4. Read(lines, at, size) = FoldLeft(op, base, seq)
  <2>1. seq = [k \in DOMAIN lines |-> k]
    BY <1>0
  <2>2. Read(lines, at, size) = FoldLeft(op, base, [k \in DOMAIN lines |-> k])
    BY DEF Read, FoldLeftDomain
  <2> QED BY <2>1, <2>2
<1> HIDE DEF F, seq
<1>5. ASSUME NEW k \in 1 .. n, NEW v \in V PROVE op(v, seq[k]) \in V
  <2> DEFINE z == ReadLine(v, lines[k])
  <2>1. z \in V
    BY <1>0, OneLineRead
  <2>2. PICK b \in Nat : z \in ReadOf(K, b)
    BY <2>1 DEF ReadSome
  <2> HIDE DEF z
  <2>3. [z EXCEPT !.at = k + 1] \in ReadOf(K, b)
    BY <1>0, <2>2 DEF ReadOf
  <2>4. [z EXCEPT !.at = k + 1] \in V
    BY <2>3 DEF ReadSome
  <2>5. seq[k] = k
    BY <1>3
  <2> QED BY <2>4, <2>5 DEF ReadFrom, z
<1>6. Steps(F, V, 1 .. n)
  <2> HIDE DEF op, V
  <2> QED BY <1>2, <1>5 DEF Steps
<1>7. \E it : it = [s \in SUBSET (1 .. n) |->
                     IF s = {} THEN base ELSE op(it[s \ {Max(s)}], seq[Max(s)])]
  <2>1. PICK it : LeftIteration(it, n, V, base, F)
    BY <1>0, <1>1, <1>6, LeftIterationExists
  <2>2. ASSUME NEW s \in SUBSET (1 .. n), s # {}
        PROVE  it[s] = op(it[s \ {Max(s)}], seq[Max(s)])
    <3>1. Max(s) \in 1 .. n /\ it[s \ {Max(s)}] \in V /\ it[s] = F[Max(s)][it[s \ {Max(s)}]]
      BY <2>1, <2>2 DEF LeftIteration
    <3> HIDE DEF V, op
    <3> QED BY <1>2, <3>1
  <2>3. it \in [SUBSET (1 .. n) -> V] /\ it[{}] = base
    BY <2>1 DEF LeftIteration
  <2> HIDE DEF V, op, base
  <2> QED BY <2>2, <2>3
<1>8. PICK it :
        /\ it = [s \in SUBSET (1 .. n) |->
                   IF s = {} THEN base ELSE op(it[s \ {Max(s)}], seq[Max(s)])]
        /\ Read(lines, at, size) = it[1 .. n]
  BY <1>3, <1>4, <1>7 DEF FoldLeft, MapThenFoldSet
<1>9. LeftFold(it, n, V, base, F)
  <2>1. it[{}] = base
    BY <1>8
  <2>2. ASSUME NEW s \in SUBSET (1 .. n), s # {}, it[s \ {Max(s)}] \in V
        PROVE  it[s] = F[Max(s)][it[s \ {Max(s)}]]
    <3>1. it[s] = op(it[s \ {Max(s)}], seq[Max(s)]) /\ Max(s) \in 1 .. n
      BY <1>0, <1>8, <2>2, LargestOf
    <3> HIDE DEF V, op
    <3> QED BY <1>2, <2>2, <3>1
  <2> HIDE DEF V, base
  <2> QED BY <2>1, <2>2 DEF LeftFold
<1>10. PICK g : LeftRun(g, n, V, base, F) /\ g[n] = it[1 .. n]
  <2> HIDE DEF n, op, V, base
  <2> QED BY <1>0, <1>1, <1>6, <1>9, LeftRuns
<1>11. ASSUME NEW k \in 1 .. n PROVE g[k] = op(g[k - 1], seq[k])
  <2>1. g[k] = F[k][g[k - 1]] /\ k - 1 \in 0 .. n /\ g \in [0 .. n -> V]
    BY <1>0, <1>10 DEF LeftRun
  <2> HIDE DEF n, V, op
  <2> QED BY <1>2, <2>1
<1>12. g \in [0 .. n -> V] /\ g[0] = base
  BY <1>10 DEF LeftRun
<1> QED BY <1>3, <1>8, <1>10, <1>11, <1>12 DEF ReadRun

(***************************************************************************)
(* Sentences are read, of labels of which there are finitely many; and if  *)
(* there is one in the lines at all, there is one in the first chunk.      *)
(***************************************************************************)
LEMMA SentencesOfLines ==
  ASSUME NEW K, NEW lines \in Seq(Lines(K)), NEW at \in Int, NEW size
  PROVE  \E b \in Nat : /\ Read(lines, at, size).data \in Seq(Sentences(K, b))
                        /\ SomeWords(Read(lines, at, size).data)
<1> DEFINE n == Len(lines)
<1> DEFINE d == Read(lines, at, size).data
<1>1. PICK g : ReadRun(g, lines, at, size, K)
  BY ReadRuns
<1>2. n \in 0 .. n
  BY LenProperties
<1>3. Read(lines, at, size) \in ReadSome(K)
  BY <1>1, <1>2 DEF ReadRun
<1>4. PICK b \in Nat : Read(lines, at, size) \in ReadOf(K, b)
  BY <1>3 DEF ReadSome
<1>5. d \in Seq(Closed(K, b))
  BY <1>4 DEF ReadOf
<1> HIDE DEF d
<1>6. Closed(K, b) \subseteq Sentences(K, b)
  BY DEF Closed
<1>7. d \in Seq(Sentences(K, b))
  BY <1>5, <1>6, WiderSeq
<1>8. SomeWords(d)
  BY <1>5, ElementOfSeq DEF SomeWords, Closed
<1> QED BY <1>7, <1>8 DEF d

(* A reader that has data keeps having some.                               *)
LEMMA ReadKeepsData ==
  ASSUME NEW K, NEW v \in ReadSome(K), NEW l
  PROVE  v.data # <<>> => ReadLine(v, l).data # <<>>
<1>1. PICK b \in Nat : v \in ReadOf(K, b)
  BY DEF ReadSome
<1> DEFINE S == Closed(K, b)
<1>2. /\ v = [data |-> v.data, open |-> v.open, at |-> v.at]
      /\ v.data \in Seq(S) /\ v.open = v.open
  BY <1>1 DEF ReadOf
<1> DEFINE T == S \cup {v.open}
<1>3. v.data \in Seq(T) /\ v.open \in T
  BY <1>2, WiderSeq
<1>4. Append(v.data, v.open) # <<>>
  <2> HIDE DEF T
  <2>1. Len(Append(v.data, v.open)) = Len(v.data) + 1 /\ Len(v.data) \in Nat
    BY <1>3, AppendProperties, LenProperties
  <2> DEFINE more == Append(v.data, v.open)
  <2>2. more = <<>> => Len(more) = 0
    OBVIOUS
  <2> HIDE DEF more
  <2>3. more # <<>>
    BY <2>1, <2>2 DEF more
  <2> QED BY <2>3 DEF more
<1>5. ReadLine(v, l).data = v.data \/ ReadLine(v, l).data = Append(v.data, v.open)
  BY <1>2 DEF ReadLine
<1> QED BY <1>4, <1>5

(* A file whose first chunk is empty has no sentence at all                *)
(* (DataFormatter: Read).                                                  *)
LEMMA FirstChunk ==
  ASSUME NEW K, NEW lines \in Seq(Lines(K)), NEW size \in Nat \ {0}, NEW other \in Nat \ {0},
         Read(lines, 1, size).data = <<>>
  PROVE  Read(lines, 1, other).data = <<>>
<1> DEFINE n == Len(lines)
<1>0. n \in Nat
  BY LenProperties
<1>a. 1 \in Int
  OBVIOUS
<1>1. PICK g : ReadRun(g, lines, 1, size, K)
  BY <1>a, ReadRuns, Zenon
<1>2. PICK h : ReadRun(h, lines, 1, other, K)
  BY <1>a, ReadRuns, Zenon
<1> DEFINE base == [data |-> <<>>, open |-> NoSentence, at |-> 1]
<1>3. /\ g \in [0 .. n -> ReadSome(K)] /\ g[0] = base /\ Read(lines, 1, size) = g[n]
      /\ \A k \in 1 .. n : g[k] = ReadFrom(lines, size, g[k - 1], k)
  BY <1>1 DEF ReadRun
<1>4. /\ h[0] = base /\ Read(lines, 1, other) = h[n]
      /\ \A k \in 1 .. n : h[k] = ReadFrom(lines, other, h[k - 1], k)
  BY <1>2 DEF ReadRun
<1> HIDE DEF base
<1> DEFINE S == {k \in 0 .. n : g[k].data = <<>>}
<1>5. n \in S
  BY <1>0, <1>3
<1>6. ASSUME NEW k \in 1 .. n, k \in S PROVE k - 1 \in S
  <2>0. k - 1 \in 0 .. n /\ k \in 0 .. n
    BY <1>0
  <2>1. g[k - 1] \in ReadSome(K) /\ g[k] = ReadFrom(lines, size, g[k - 1], k)
    BY <1>3, <2>0
  <2> DEFINE v == g[k - 1]
  <2> DEFINE z == ReadLine(v, lines[k])
  <2>2. v.data # <<>> => z.data # <<>>
    BY <2>1, ReadKeepsData
  <2>3. g[k].data = v.data \/ g[k].data = z.data
    <3>1. g[k] = v \/ g[k] = [z EXCEPT !.at = k + 1]
      BY <2>1 DEF ReadFrom
    <3>2. z \in ReadSome(K) \/ g[k] = v
      <4>1. lines[k] \in Lines(K)
        BY ElementOfSeq
      <4> QED BY <2>1, <4>1, OneLineRead
    <3> HIDE DEF z, v
    <3>3. z \in ReadSome(K) => [z EXCEPT !.at = k + 1].data = z.data
      BY DEF ReadSome, ReadOf
    <3> QED BY <3>1, <3>2, <3>3
  <2>4. g[k].data = <<>>
    BY <1>6
  <2> HIDE DEF z
  <2>5. v.data = <<>>
    BY <2>2, <2>3, <2>4
  <2> QED BY <2>0, <2>5
<1>7. \A k \in 0 .. n : g[k].data = <<>>
  <2>1. \A k \in 0 .. n : k \in S
    <3> HIDE DEF S
    <3> QED BY <1>0, <1>5, <1>6, DownFrom
  <2> QED BY <2>1
<1> DEFINE T == {k \in 0 .. n : h[k] = g[k]}
<1>8. 0 \in T
  BY <1>0, <1>3, <1>4
<1>9. ASSUME NEW k \in 0 .. n - 1, k \in T PROVE k + 1 \in T
  <2>0. k + 1 \in 1 .. n /\ (k + 1) - 1 = k /\ k \in 0 .. n /\ k + 1 \in 0 .. n
    BY <1>0
  <2>1. /\ h[k + 1] = ReadFrom(lines, other, h[k], k + 1)
        /\ g[k + 1] = ReadFrom(lines, size, g[k], k + 1)
        /\ h[k] = g[k] /\ g[k].data = <<>>
    BY <1>3, <1>4, <1>7, <1>9, <2>0
  <2>2. Len(g[k].data) = 0 /\ size # 0 /\ other # 0
    BY <2>1
  <2> HIDE DEF T
  <2>3. h[k + 1] = g[k + 1]
    BY <2>1, <2>2 DEF ReadFrom
  <2> QED BY <2>0, <2>3 DEF T
<1>10. \A k \in 0 .. n : k \in T
  <2> HIDE DEF T
  <2> QED BY <1>0, <1>8, <1>9, UpTo
<1> QED BY <1>0, <1>3, <1>4, <1>7, <1>10

-----------------------------------------------------------------------------
(***************************************************************************)
(* A file that is read chunk after chunk is read as a whole: a line adds   *)
(* the same to what a chunk has so far and to what all the chunks have.    *)
(***************************************************************************)
AnySentence(K) == UNION {Sentences(K, b) : b \in Nat}

LEMMA ReadIs ==
  ASSUME NEW K, NEW v \in ReadSome(K)
  PROVE  /\ v = [data |-> v.data, open |-> v.open, at |-> v.at]
         /\ v.data \in Seq(AnySentence(K)) /\ v.open \in AnySentence(K)
         /\ v.open = [words |-> v.open.words, tags |-> v.open.tags] /\ v.at \in Int
<1> DEFINE S == AnySentence(K)
<1>1. PICK b \in Nat : v \in ReadOf(K, b)
  BY DEF ReadSome
<1> DEFINE T == Closed(K, b)
<1>2. T \subseteq S /\ Sentences(K, b) \subseteq S
  BY DEF Closed, AnySentence
<1>3. /\ v = [data |-> v.data, open |-> v.open, at |-> v.at]
      /\ v.data \in Seq(T) /\ v.open \in Sentences(K, b) /\ v.at \in Int
  BY <1>1 DEF ReadOf
<1>4. v.open = [words |-> v.open.words, tags |-> v.open.tags]
  BY <1>3 DEF Sentences
<1> HIDE DEF S, T
<1>5. v.data \in Seq(S) /\ v.open \in S
  BY <1>2, <1>3, WiderSeq
<1> QED BY <1>3, <1>4, <1>5 DEF S

FurtherBy(w, v, d) == w.open = v.open /\ w.data = d \o v.data

LineAdds(z, v) ==
  \/ z.data = v.data
  \/ Len(z.data) = Len(v.data) + 1 /\ z.open = NoSentence

(* Two readers that differ by a finished part read a line alike            *)
(* (DataFormatter: Read).                                                  *)
LEMMA LineGoesOn ==
  ASSUME NEW K, NEW v \in ReadSome(K), NEW w \in ReadSome(K), NEW d \in Seq(AnySentence(K)),
         FurtherBy(w, v, d), NEW l \in Lines(K)
  PROVE  /\ FurtherBy(ReadLine(w, l), ReadLine(v, l), d)
         /\ LineAdds(ReadLine(v, l), v)
<1> DEFINE S == AnySentence(K)
<1>1. /\ v = [data |-> v.data, open |-> v.open, at |-> v.at]
      /\ v.data \in Seq(S) /\ v.open \in S
      /\ v.open = [words |-> v.open.words, tags |-> v.open.tags]
  BY ReadIs
<1>2. w = [data |-> w.data, open |-> w.open, at |-> w.at] /\ w.data \in Seq(S)
  BY ReadIs
<1>3. w.open = v.open /\ w.data = d \o v.data
  BY DEF FurtherBy
<1>4. l.kind \in {"comment", "blank", "tags", "word"}
  BY DEF Lines, WordLines
<1> HIDE DEF S
<1>5. CASE l.kind = "comment"
  BY <1>3, <1>5 DEF ReadLine, FurtherBy, LineAdds
<1>6. CASE l.kind = "tags"
  <2>1. /\ ReadLine(v, l) = [v EXCEPT !.open.tags = v.open.tags \o l.tags]
        /\ ReadLine(w, l) = [w EXCEPT !.open.tags = w.open.tags \o l.tags]
    BY <1>6 DEF ReadLine
  <2> DEFINE tags == v.open.tags \o l.tags
  <2>2. /\ ReadLine(v, l) = [v EXCEPT !.open.tags = tags]
        /\ ReadLine(w, l) = [w EXCEPT !.open.tags = tags]
    BY <1>3, <2>1
  <2> HIDE DEF tags
  <2>3. /\ ReadLine(v, l).data = v.data /\ ReadLine(w, l).data = w.data
        /\ ReadLine(v, l).open = [v.open EXCEPT !.tags = tags]
        /\ ReadLine(w, l).open = [w.open EXCEPT !.tags = tags]
    BY <1>1, <1>2, <2>2
  <2> QED BY <1>3, <2>3 DEF FurtherBy, LineAdds
<1>7. CASE l.kind = "word"
  <2> DEFINE x == [label |-> l.label, features |-> l.features]
  <2> DEFINE words == Append(v.open.words, x)
  <2>2. /\ ReadLine(v, l) = [v EXCEPT !.open.words = words]
        /\ ReadLine(w, l) = [w EXCEPT !.open.words = words]
    BY <1>3, <1>7 DEF ReadLine
  <2> HIDE DEF words
  <2>3. /\ ReadLine(v, l).data = v.data /\ ReadLine(w, l).data = w.data
        /\ ReadLine(v, l).open = [v.open EXCEPT !.words = words]
        /\ ReadLine(w, l).open = [w.open EXCEPT !.words = words]
    BY <1>1, <1>2, <2>2
  <2> QED BY <1>3, <2>3 DEF FurtherBy, LineAdds
<1>8. CASE l.kind = "blank" /\ v.open.words = <<>>
  BY <1>3, <1>8 DEF ReadLine, FurtherBy, LineAdds
<1>9. CASE l.kind = "blank" /\ v.open.words # <<>>
  <2> DEFINE mv == Append(v.data, v.open)
  <2> DEFINE mw == Append(w.data, v.open)
  <2> DEFINE none == NoSentence
  <2>1. /\ ReadLine(v, l) = [v EXCEPT !.data = mv, !.open = none]
        /\ ReadLine(w, l) = [w EXCEPT !.data = mw, !.open = none]
    BY <1>3, <1>9 DEF ReadLine
  <2>2. mw = d \o mv /\ Len(mv) = Len(v.data) + 1
    <3>1. <<v.open>> \in Seq(S) /\ d \in Seq(S)
      BY <1>1 DEF S
    <3>2. mv = v.data \o <<v.open>> /\ mw = w.data \o <<v.open>>
      BY <1>1, <1>2, AppendIsConcat
    <3>3. (d \o v.data) \o <<v.open>> = d \o (v.data \o <<v.open>>)
      BY <1>1, <3>1, ConcatAssociative
    <3>4. Len(mv) = Len(v.data) + 1
      BY <1>1, AppendProperties
    <3> QED BY <1>3, <3>2, <3>3, <3>4
  <2> HIDE DEF mv, mw, none
  <2>3. /\ ReadLine(v, l).data = mv /\ ReadLine(v, l).open = none
        /\ ReadLine(w, l).data = mw /\ ReadLine(w, l).open = none
    BY <1>1, <1>2, <2>1
  <2> QED BY <2>2, <2>3 DEF FurtherBy, LineAdds, none
<1> QED BY <1>4, <1>5, <1>6, <1>7, <1>8, <1>9

(* The file as a whole.                                                    *)
LineByLine(h, lines) ==
  \A k \in 1 .. Len(lines) : h[k] = [ReadLine(h[k - 1], lines[k]) EXCEPT !.at = k + 1]

LEMMA WholeRun ==
  ASSUME NEW K, NEW lines \in Seq(Lines(K)), NEW h, ReadRun(h, lines, 1, Len(lines), K)
  PROVE  LineByLine(h, lines)
<1> DEFINE n == Len(lines)
<1>0. n \in Nat
  BY LenProperties
<1>1. /\ h \in [0 .. n -> ReadSome(K)] /\ h[0] = [data |-> <<>>, open |-> NoSentence, at |-> 1]
      /\ \A k \in 1 .. n : h[k] = ReadFrom(lines, n, h[k - 1], k)
  BY DEF ReadRun
<1> DEFINE S == {k \in 0 .. n : h[k].at = k + 1 /\ Len(h[k].data) <= k}
<1>2. 0 \in S
  BY <1>0, <1>1
<1>3. ASSUME NEW k \in 0 .. n - 1, k \in S
      PROVE  h[k + 1] = [ReadLine(h[k], lines[k + 1]) EXCEPT !.at = (k + 1) + 1]
  <2>1. k + 1 \in 1 .. n /\ (k + 1) - 1 = k
    BY <1>0
  <2>2. h[k + 1] = ReadFrom(lines, n, h[k], k + 1)
    BY <1>1, <2>1
  <2>3. h[k].at = k + 1 /\ Len(h[k].data) <= k
    BY <1>3
  <2>4. Len(h[k].data) # n
    BY <1>0, <2>3
  <2> QED BY <2>2, <2>3, <2>4 DEF ReadFrom
<1>4. ASSUME NEW k \in 0 .. n - 1, k \in S PROVE k + 1 \in S
  <2>0. k + 1 \in 1 .. n /\ k \in 0 .. n /\ k + 1 \in 0 .. n
    BY <1>0
  <2>1. h[k] \in ReadSome(K) /\ lines[k + 1] \in Lines(K)
    BY <1>1, <2>0, ElementOfSeq
  <2> DEFINE v == h[k]
  <2> DEFINE z == ReadLine(v, lines[k + 1])
  <2>2. v.data \in Seq(AnySentence(K)) /\ <<>> \in Seq(AnySentence(K))
    <3>1. v.data \in Seq(AnySentence(K))
      BY <2>1, ReadIs, Zenon
    <3> QED BY <3>1
  <2>3. FurtherBy(v, v, <<>>)
    BY <2>2, ConcatEmptySeq DEF FurtherBy
  <2>4. z.data = v.data \/ Len(z.data) = Len(v.data) + 1
    BY <2>1, <2>2, <2>3, LineGoesOn DEF LineAdds
  <2>5. z = [data |-> z.data, open |-> z.open, at |-> z.at]
    BY <2>1, OneLineRead, ReadIs
  <2>6. h[k + 1] = [z EXCEPT !.at = (k + 1) + 1]
    BY <1>3, <1>4
  <2>7. Len(v.data) <= k /\ Len(v.data) \in Nat
    BY <1>4, <2>2, LenProperties
  <2> HIDE DEF z, v
  <2>8. h[k + 1].data = z.data /\ h[k + 1].at = (k + 1) + 1
    BY <2>5, <2>6
  <2>9. Len(z.data) <= k + 1
    BY <2>4, <2>7
  <2> QED BY <2>0, <2>8, <2>9
<1>5. \A k \in 0 .. n : k \in S
  <2> HIDE DEF S
  <2> QED BY <1>0, <1>2, <1>4, UpTo
<1>6. ASSUME NEW k \in 1 .. n PROVE h[k] = [ReadLine(h[k - 1], lines[k]) EXCEPT !.at = k + 1]
  <2>1. k - 1 \in 0 .. n - 1 /\ k - 1 \in 0 .. n /\ (k - 1) + 1 = k
    BY <1>0
  <2>2. k - 1 \in S
    BY <1>5, <2>1
  <2> HIDE DEF S
  <2>3. h[(k - 1) + 1] = [ReadLine(h[k - 1], lines[(k - 1) + 1]) EXCEPT !.at = ((k - 1) + 1) + 1]
    BY <1>3, <2>1, <2>2
  <2> QED BY <2>1, <2>3
<1> QED BY <1>6 DEF LineByLine

(* A chunk of it, which begins behind line from: it has not all its        *)
(* sentences yet, or it had them after line m.                             *)
ChunkGrowing(g, h, d, size, k) ==
  g[k].at = k + 1 /\ Len(g[k].data) < size /\ FurtherBy(h[k], g[k], d)
ChunkIsFull(g, h, d, size, m, k) ==
  /\ g[k].at = m + 1 /\ Len(g[k].data) = size
  /\ h[m].data = d \o g[k].data /\ h[m].open = NoSentence

ChunkEnds(h, lines, from, m, chunk) ==
  /\ chunk.at = m + 1 /\ h[m].data = h[from].data \o chunk.data
  /\ m < Len(lines) => h[m].open = NoSentence
  /\ chunk.data = <<>> => m = Len(lines)

LEMMA ChunkReads ==
  ASSUME NEW K, NEW lines \in Seq(Lines(K)), NEW h, ReadRun(h, lines, 1, Len(lines), K),
         NEW from \in 0 .. Len(lines), from < Len(lines) => h[from].open = NoSentence,
         NEW size \in Nat \ {0}
  PROVE  \E m \in from .. Len(lines) : ChunkEnds(h, lines, from, m, Read(lines, from + 1, size))
<1> DEFINE n == Len(lines)
<1> DEFINE d == h[from].data
<1> DEFINE base == [data |-> <<>>, open |-> NoSentence, at |-> from + 1]
<1>0. n \in Nat /\ from \in Int /\ from + 1 \in Int
  BY LenProperties
<1>1. /\ h \in [0 .. n -> ReadSome(K)]
      /\ \A k \in 1 .. n : h[k] = [ReadLine(h[k - 1], lines[k]) EXCEPT !.at = k + 1]
  <2>1. h \in [0 .. n -> ReadSome(K)]
    BY DEF ReadRun
  <2>2. \A k \in 1 .. n : h[k] = [ReadLine(h[k - 1], lines[k]) EXCEPT !.at = k + 1]
    <3>1. LineByLine(h, lines)
      BY WholeRun, Zenon
    <3> QED BY <3>1 DEF LineByLine
  <2> QED BY <2>1, <2>2
<1>2. PICK g : ReadRun(g, lines, from + 1, size, K)
  BY <1>0, ReadRuns, Zenon
<1>3. /\ g \in [0 .. n -> ReadSome(K)] /\ g[0] = base /\ Read(lines, from + 1, size) = g[n]
      /\ \A k \in 1 .. n : g[k] = ReadFrom(lines, size, g[k - 1], k)
  BY <1>2 DEF ReadRun
<1>4. d \in Seq(AnySentence(K))
  BY <1>1, ReadIs
<1> HIDE DEF d
<1>5. g[from] = base
  <2> DEFINE S == {k \in 0 .. from : g[k] = base}
  <2>1. 0 \in S
    BY <1>0, <1>3
  <2>2. ASSUME NEW k \in 0 .. from - 1, k \in S PROVE k + 1 \in S
    <3>1. k + 1 \in 1 .. n /\ (k + 1) - 1 = k /\ k + 1 \in 0 .. from /\ k + 1 # from + 1
      BY <1>0
    <3>2. g[k + 1] = ReadFrom(lines, size, g[k], k + 1) /\ g[k] = base
      BY <1>3, <2>2, <3>1
    <3>3. base.at = from + 1
      OBVIOUS
    <3> HIDE DEF base
    <3>4. g[k + 1] = base
      BY <3>1, <3>2, <3>3 DEF ReadFrom
    <3> QED BY <3>1, <3>4
  <2>3. \A k \in 0 .. from : k \in S
    <3>1. from \in Nat
      BY <1>0
    <3> HIDE DEF S
    <3> QED BY <2>1, <2>2, <3>1, UpTo
  <2>4. from \in S
    BY <1>0, <2>3
  <2> QED BY <2>4
<1>6. CASE from = n
  <2>1. d = d \o <<>>
    BY <1>4, ConcatEmptySeq
  <2>2. g[n].at = n + 1 /\ g[n].data = <<>>
    BY <1>5, <1>6
  <2>3. ChunkEnds(h, lines, from, n, g[n])
    BY <1>6, <2>1, <2>2 DEF ChunkEnds, d
  <2> QED BY <1>0, <1>3, <1>6, <2>3
<1>7. CASE from < n
  <2> DEFINE Runs(k) == ChunkGrowing(g, h, d, size, k)
  <2> DEFINE Full(k) == \E m \in from .. k : ChunkIsFull(g, h, d, size, m, k)
  <2> DEFINE T == {j \in 0 .. n - from : Runs(from + j) \/ Full(from + j)}
  <2>1. 0 \in T
    <3>1. d = d \o <<>>
      BY <1>4, ConcatEmptySeq
    <3>2. g[from].at = from + 1 /\ g[from].data = <<>> /\ g[from].open = NoSentence /\ Len(<<>>) < size
      BY <1>5
    <3>3. Runs(from)
      BY <1>7, <3>1, <3>2 DEF ChunkGrowing, FurtherBy, d
    <3> HIDE DEF Runs, Full
    <3>4. from + 0 = from /\ 0 \in 0 .. n - from
      BY <1>0, <1>7
    <3> QED BY <3>3, <3>4
  <2>2. ASSUME NEW k \in from .. n - 1, Runs(k) \/ Full(k) PROVE Runs(k + 1) \/ Full(k + 1)
    <3>0. k + 1 \in 1 .. n /\ (k + 1) - 1 = k /\ k \in 0 .. n /\ k + 1 \in 0 .. n
      BY <1>0
    <3>1. /\ g[k] \in ReadSome(K) /\ h[k] \in ReadSome(K) /\ lines[k + 1] \in Lines(K)
          /\ g[k + 1] = ReadFrom(lines, size, g[k], k + 1)
          /\ h[k + 1] = [ReadLine(h[k], lines[k + 1]) EXCEPT !.at = (k + 1) + 1]
      BY <1>1, <1>3, <3>0, ElementOfSeq
    <3>2. ASSUME Full(k) PROVE Full(k + 1)
      <4>1. PICK m \in from .. k : ChunkIsFull(g, h, d, size, m, k)
        BY <3>2
      <4>2. g[k + 1] = g[k]
        BY <3>1, <4>1 DEF ReadFrom, ChunkIsFull
      <4>3. ChunkIsFull(g, h, d, size, m, k + 1)
        BY <4>1, <4>2 DEF ChunkIsFull
      <4>4. m \in from .. k + 1
        BY <1>0, <4>1
      <4> QED BY <4>3, <4>4
    <3>3. ASSUME Runs(k) PROVE Runs(k + 1) \/ Full(k + 1)
      <4> DEFINE x == ReadLine(g[k], lines[k + 1])
      <4> DEFINE y == ReadLine(h[k], lines[k + 1])
      <4>1. g[k].at = k + 1 /\ Len(g[k].data) < size /\ FurtherBy(h[k], g[k], d)
        BY <3>3 DEF ChunkGrowing
      <4>2. Len(g[k].data) \in Nat
        BY <3>1, ReadIs, LenProperties
      <4>3. Len(g[k].data) # size
        BY <4>1, <4>2
      <4>4. g[k + 1] = [x EXCEPT !.at = (k + 1) + 1] /\ h[k + 1] = [y EXCEPT !.at = (k + 1) + 1]
        BY <3>1, <4>1, <4>3 DEF ReadFrom
      <4>5. FurtherBy(y, x, d) /\ (x.data = g[k].data \/ (Len(x.data) = Len(g[k].data) + 1 /\ x.open = NoSentence))
        <5>1. FurtherBy(y, x, d)
          BY <1>4, <3>1, <4>1, LineGoesOn, Zenon
        <5>2. x.data = g[k].data \/ (Len(x.data) = Len(g[k].data) + 1 /\ x.open = NoSentence)
          <6>1. LineAdds(x, g[k])
            BY <1>4, <3>1, <4>1, LineGoesOn, Zenon
          <6> QED BY <6>1 DEF LineAdds
        <5> QED BY <5>1, <5>2
      <4>6. x \in ReadSome(K) /\ y \in ReadSome(K)
        BY <3>1, OneLineRead
      <4> HIDE DEF x, y
      <4>7. x = [data |-> x.data, open |-> x.open, at |-> x.at] /\ y = [data |-> y.data, open |-> y.open, at |-> y.at]
        BY <4>6, ReadIs
      <4>8. /\ g[k + 1].data = x.data /\ g[k + 1].open = x.open /\ g[k + 1].at = (k + 1) + 1
            /\ h[k + 1].data = y.data /\ h[k + 1].open = y.open
        BY <4>4, <4>7
      <4>9. Len(x.data) < size \/ (Len(x.data) = size /\ x.open = NoSentence)
        BY <4>1, <4>2, <4>5
      <4>10. CASE Len(x.data) < size
        BY <4>5, <4>8, <4>10 DEF ChunkGrowing, FurtherBy
      <4>11. CASE Len(x.data) = size /\ x.open = NoSentence
        <5>1. ChunkIsFull(g, h, d, size, k + 1, k + 1)
          BY <4>5, <4>8, <4>11 DEF ChunkIsFull, FurtherBy
        <5>2. k + 1 \in from .. k + 1
          BY <1>0
        <5> QED BY <5>1, <5>2
      <4> QED BY <4>9, <4>10, <4>11
    <3> HIDE DEF Runs, Full
    <3> QED BY <2>2, <3>2, <3>3
  <2> HIDE DEF Runs, Full
  <2>3. ASSUME NEW j \in 0 .. (n - from) - 1, j \in T PROVE j + 1 \in T
    <3>1. from + j \in from .. n - 1 /\ (from + j) + 1 = from + (j + 1) /\ j + 1 \in 0 .. n - from
      BY <1>0
    <3>2. Runs(from + j) \/ Full(from + j)
      BY <2>3
    <3> QED BY <2>2, <3>1, <3>2
  <2>4. n - from \in T
    <3>1. n - from \in Nat /\ n - from \in 0 .. n - from
      BY <1>0, <1>7
    <3> HIDE DEF T
    <3>2. \A j \in 0 .. n - from : j \in T
      BY <2>1, <2>3, <3>1, UpTo
    <3> QED BY <3>1, <3>2
  <2>5. Runs(n) \/ Full(n)
    <3>1. from + (n - from) = n
      BY <1>0
    <3> QED BY <2>4, <3>1
  <2>6. CASE Runs(n)
    <3>1. g[n].at = n + 1 /\ h[n].data = d \o g[n].data
      BY <2>6 DEF Runs, ChunkGrowing, FurtherBy
    <3>2. n \in from .. n
      BY <1>0
    <3>3. ChunkEnds(h, lines, from, n, g[n])
      BY <3>1 DEF ChunkEnds, d
    <3> QED BY <1>3, <3>2, <3>3
  <2>7. CASE Full(n)
    <3>1. PICK m \in from .. n : ChunkIsFull(g, h, d, size, m, n)
      BY <2>7 DEF Full
    <3>2. g[n].data # <<>>
      BY <3>1 DEF ChunkIsFull
    <3>3. ChunkEnds(h, lines, from, m, g[n])
      BY <3>1, <3>2 DEF ChunkEnds, ChunkIsFull, d
    <3> QED BY <1>3, <3>1, <3>3
  <2> QED BY <2>5, <2>6, <2>7
<1> QED BY <1>0, <1>6, <1>7

-----------------------------------------------------------------------------
(***************************************************************************)
(* A sentence whose features have become uids is spelled with the features *)
(* of a model again; of the sentence that was read, these are the features *)
(* the model knows.                                                        *)
(***************************************************************************)
SpelledFeature(m, p) == m.features[p[1]] \o <<p[2]>>
SpelledFeatures(m, ps) == [i \in DOMAIN ps |-> SpelledFeature(m, ps[i])]
SpelledSentence(m, s) ==
  [t \in DOMAIN s.words |-> [label |-> s.words[t].label,
                             features |-> SpelledFeatures(m, s.words[t].features)]]

IsKnown(m, grows, f) == grows \/ FindFeature(m, f[1], f[2]) # 0
KnownFeatures(m, grows, fs) == Kept(fs, {f \in ToSet(fs) : IsKnown(m, grows, f)})
KnownSentence(m, grows, s) ==
  [t \in DOMAIN s.words |-> [label |-> s.words[t].label,
                             features |-> KnownFeatures(m, grows, s.words[t].features)]]

Spells(all, texts, m, grows) ==
  /\ Len(all) = Len(texts)
  /\ \A k \in 1 .. Len(all) : SpelledSentence(m, all[k]) = KnownSentence(m, grows, texts[k])

LEMMA SpelledAppend ==
  ASSUME NEW m, NEW T, NEW a \in Seq(T), NEW p \in T
  PROVE  /\ SpelledFeatures(m, Append(a, p)) = Append(SpelledFeatures(m, a), SpelledFeature(m, p))
<1> DEFINE e(i) == SpelledFeature(m, i)
<1> DEFINE l == SpelledFeatures(m, a)
<1> DEFINE q == Append(a, p)
<1>1. Len(a) \in Nat /\ DOMAIN a = 1 .. Len(a)
  BY LenProperties
<1>2. /\ q \in Seq(T) /\ Len(q) = Len(a) + 1
      /\ \A i \in 1 .. Len(a) : q[i] = a[i]
      /\ q[Len(a) + 1] = p
  BY AppendProperties
<1>3. DOMAIN q = 1 .. Len(a) + 1
  BY <1>2, LenProperties
<1> DEFINE Z == {e(x) : x \in T}
<1>4. l \in Seq(Z) /\ Len(l) = Len(a)
  <2>1. l = [i \in 1 .. Len(a) |-> e(a[i])]
    BY <1>1 DEF SpelledFeatures
  <2>2. \A i \in 1 .. Len(a) : e(a[i]) \in Z
    BY ElementOfSeq
  <2> HIDE DEF e, Z, l
  <2>3. l = [i \in 1 .. Len(a) |-> l[i]] /\ \A i \in 1 .. Len(a) : l[i] \in Z
    BY <2>1, <2>2
  <2> QED BY <1>1, <2>3, SequenceIs
<1>5. e(p) \in Z
  OBVIOUS
<1>6. /\ Append(l, e(p)) \in Seq(Z) /\ Len(Append(l, e(p))) = Len(a) + 1
      /\ \A i \in 1 .. Len(a) : Append(l, e(p))[i] = l[i]
      /\ Append(l, e(p))[Len(a) + 1] = e(p)
  <2> HIDE DEF e, Z, l
  <2> QED BY <1>4, <1>5, AppendProperties
<1>7. \A i \in 1 .. Len(a) : l[i] = e(a[i])
  BY <1>1 DEF SpelledFeatures
<1>8. SpelledFeatures(m, q) = [i \in 1 .. Len(a) + 1 |-> e(q[i])]
  BY <1>3 DEF SpelledFeatures
<1>9. Append(l, e(p)) = [i \in 1 .. Len(a) + 1 |-> e(q[i])]
  <2> DEFINE z == Append(l, e(p))
  <2>1. DOMAIN z = 1 .. Len(a) + 1
    BY <1>6, LenProperties
  <2>2. z = [i \in 1 .. Len(a) + 1 |-> z[i]]
    <3>1. z \in [1 .. Len(z) -> Z] /\ Len(z) = Len(a) + 1
      BY <1>6, LenProperties
    <3> HIDE DEF e, l, Z, z
    <3> QED BY <3>1
  <2>3. \A i \in 1 .. Len(a) + 1 : z[i] = e(q[i])
    <3> HIDE DEF e, l, q
    <3> QED BY <1>1, <1>2, <1>6, <1>7
  <2> HIDE DEF z
  <2> QED BY <2>2, <2>3 DEF z
<1> QED BY <1>8, <1>9

(* Two and one are three.                                                  *)
LEMMA ThreeOf ==
  ASSUME NEW a, NEW b, NEW c
  PROVE  <<a, b>> \o <<c>> = <<a, b, c>>
<1> DEFINE A == {a, b, c}
<1>1. <<a, b>> \in Seq(A) /\ <<c>> \in Seq(A) /\ <<a, b, c>> \in Seq(A)
  OBVIOUS
<1>2. Len(<<a, b>>) = 2 /\ Len(<<c>>) = 1 /\ Len(<<a, b, c>>) = 3
  OBVIOUS
<1> DEFINE s == <<a, b>> \o <<c>>
<1>3. s \in Seq(A) /\ Len(s) = 3 /\ s[1] = a /\ s[2] = b /\ s[3] = c
  BY <1>1, <1>2, ConcatProperties
<1> DEFINE t == <<a, b, c>>
<1>4. \A i \in 1 .. 3 : s[i] = t[i]
  BY <1>3
<1>5. t \in Seq(A) /\ Len(t) = 3
  BY <1>1, <1>2
<1> HIDE DEF A, s, t
<1>6. s = t
  BY <1>3, <1>4, <1>5, SeqEqual
<1> QED BY <1>6 DEF s, t

(* The numbers of a word's features spell the features that the model has. *)
LEMMA IndexedSpells ==
  ASSUME NEW K, NEW m, IsModel(m, K), NEW fs \in Seq(FeatureLines(K))
  PROVE  SpelledFeatures(m, Indexed(m, fs)) = KnownFeatures(m, FALSE, fs)
<1> DEFINE X == FeaturesOf(K, m.max)
<1> DEFINE n == Len(fs)
<1> DEFINE uid(f) == FindFeature(m, f[1], f[2])
<1> DEFINE found == [k \in DOMAIN fs |-> <<uid(fs[k]), fs[k][3]>>]
<1> DEFINE S == {p \in ToSet(found) : p[1] # 0}
<1> DEFINE T == {<<uid(f), f[3]>> : f \in FeatureLines(K)}
<1> DEFINE R == {f \in ToSet(fs) : IsKnown(m, FALSE, f)}
<1>0. m.features \in Seq(X)
  BY DEF IsModel
<1> HIDE DEF X
<1>1. n \in Nat /\ DOMAIN fs = 1 .. n /\ \A k \in 1 .. n : fs[k] \in FeatureLines(K)
  BY LenProperties, ElementOfSeq
<1>2. found \in Seq(T) /\ Len(found) = n
  <2>1. found = [k \in 1 .. n |-> found[k]] /\ \A k \in 1 .. n : found[k] \in T
    BY <1>1
  <2> HIDE DEF found, T, n
  <2> QED BY <1>1, <2>1, SequenceIs
<1>3. Indexed(m, fs) = Kept(found, S) /\ KnownFeatures(m, FALSE, fs) = Kept(fs, R)
  BY DEF Indexed, KnownFeatures
<1>4. ASSUME NEW k \in 1 .. n
      PROVE  /\ found[k] \in S <=> fs[k] \in R
             /\ fs[k] \in R => SpelledFeature(m, found[k]) = fs[k]
             /\ found[k] \in T
  <2>1. found[k] = <<uid(fs[k]), fs[k][3]>> /\ fs[k] \in ToSet(fs) /\ found[k] \in ToSet(found) /\ found[k] \in T
    BY <1>1 DEF ToSet
  <2>2. found[k] \in S <=> uid(fs[k]) # 0
    BY <2>1
  <2>3. fs[k] \in R <=> uid(fs[k]) # 0
    BY <2>1 DEF IsKnown
  <2>4. fs[k] \in R => SpelledFeature(m, found[k]) = fs[k]
    <3>1. fs[k] \in Nat \X Nat \X Int
      BY <1>1 DEF FeatureLines
    <3>2. IsFound(uid(fs[k]), m.features, <<fs[k][1], fs[k][2]>>)
      BY <1>0, FoundFeature
    <3>3. uid(fs[k]) # 0 => m.features[uid(fs[k])] = <<fs[k][1], fs[k][2]>>
      BY <3>2 DEF IsFound
    <3>4. <<fs[k][1], fs[k][2]>> \o <<fs[k][3]>> = fs[k]
      <4> DEFINE a == fs[k][1]
      <4> DEFINE b == fs[k][2]
      <4> DEFINE c == fs[k][3]
      <4>1. fs[k] = <<a, b, c>>
        BY <3>1
      <4> HIDE DEF a, b, c
      <4>2. <<a, b>> \o <<c>> = <<a, b, c>>
        BY ThreeOf
      <4> QED BY <4>1, <4>2 DEF a, b, c
    <3>5. found[k][1] = uid(fs[k]) /\ found[k][2] = fs[k][3]
      BY <2>1
    <3> HIDE DEF found, uid, R
    <3> QED BY <2>3, <3>3, <3>4, <3>5 DEF SpelledFeature
  <2> QED BY <2>1, <2>2, <2>3, <2>4
<1> HIDE DEF uid, found, S, T, R
<1>5. PICK g : KeptRun(g, found, T, S)
  BY <1>2, KeptRuns
<1>6. PICK h : KeptRun(h, fs, FeatureLines(K), R)
  BY KeptRuns
<1>7. /\ g \in [0 .. n -> Seq(T \cap S)] /\ g[0] = <<>> /\ Kept(found, S) = g[n]
      /\ \A k \in 1 .. n : g[k] = IF found[k] \in S THEN Append(g[k - 1], found[k]) ELSE g[k - 1]
  BY <1>2, <1>5 DEF KeptRun
<1>8. /\ h \in [0 .. n -> Seq(FeatureLines(K) \cap R)] /\ h[0] = <<>> /\ Kept(fs, R) = h[n]
      /\ \A k \in 1 .. n : h[k] = IF fs[k] \in R THEN Append(h[k - 1], fs[k]) ELSE h[k - 1]
  BY <1>6 DEF KeptRun
<1> HIDE DEF n
<1> DEFINE I == {k \in 0 .. n : SpelledFeatures(m, g[k]) = h[k]}
<1>9. 0 \in I
  <2>1. SpelledFeatures(m, <<>>) = <<>>
    BY DEF SpelledFeatures
  <2> QED BY <1>1, <1>7, <1>8, <2>1
<1>10. ASSUME NEW k \in 0 .. n - 1, k \in I PROVE k + 1 \in I
  <2>1. k + 1 \in 1 .. n /\ k + 1 \in 0 .. n /\ k \in 0 .. n /\ (k + 1) - 1 = k
    BY <1>1
  <2>2. SpelledFeatures(m, g[k]) = h[k]
    BY <1>10
  <2>3. CASE fs[k + 1] \in R
    <3>1. g[k + 1] = Append(g[k], found[k + 1]) /\ h[k + 1] = Append(h[k], fs[k + 1])
      BY <1>4, <1>7, <1>8, <2>1, <2>3
    <3>2. g[k] \in Seq(T \cap S) /\ found[k + 1] \in T \cap S
      BY <1>4, <1>7, <2>1, <2>3
    <3>3. SpelledFeatures(m, g[k + 1]) = Append(SpelledFeatures(m, g[k]), SpelledFeature(m, found[k + 1]))
      BY <3>1, <3>2, SpelledAppend
    <3>4. SpelledFeature(m, found[k + 1]) = fs[k + 1]
      BY <1>4, <2>1, <2>3
    <3> QED BY <2>1, <2>2, <3>1, <3>3, <3>4
  <2>4. CASE fs[k + 1] \notin R
    <3>1. g[k + 1] = g[k] /\ h[k + 1] = h[k]
      BY <1>4, <1>7, <1>8, <2>1, <2>4
    <3> QED BY <2>1, <2>2, <3>1
  <2> QED BY <2>3, <2>4
<1>11. \A k \in 0 .. n : k \in I
  <2> HIDE DEF I
  <2> QED BY <1>1, <1>9, <1>10, UpTo
<1>12. n \in I
  BY <1>1, <1>11
<1> QED BY <1>3, <1>7, <1>8, <1>12

(* The indexed data spell what was read (DataFormatter: IndexData).        *)
LEMMA DataSpelled ==
  ASSUME NEW K, NEW m, IsModel(m, K), NEW B, NEW read \in Seq(Sentences(K, B))
  PROVE  Spells(IndexData(m, read), read, m, FALSE)
<1> DEFINE n == Len(read)
<1> DEFINE all == IndexData(m, read)
<1> DEFINE valid(s) == ToSet(s.tags) \cap LabelsOf(m)
<1> DEFINE word(w) == [label |-> w.label, features |-> Indexed(m, w.features)]
<1> DEFINE words(s) == [t \in DOMAIN s.words |-> word(s.words[t])]
<1> DEFINE sentence(s) == [words |-> words(s),
                           tags |-> IF valid(s) = {} THEN LabelsOf(m) ELSE valid(s)]
<1>0. n \in Nat /\ DOMAIN read = 1 .. n /\ \A k \in 1 .. n : read[k] \in Sentences(K, B)
  BY LenProperties, ElementOfSeq
<1>1. all = [k \in 1 .. n |-> sentence(read[k])]
  BY <1>0 DEF IndexData
<1>2. Len(all) = n
  <2> DEFINE V == {sentence(read[k]) : k \in 1 .. n}
  <2>1. all = [k \in 1 .. n |-> all[k]] /\ \A k \in 1 .. n : all[k] \in V
    BY <1>1
  <2> HIDE DEF all, V, n
  <2> QED BY <1>0, <2>1, SequenceIs
<1>3. ASSUME NEW k \in 1 .. n PROVE SpelledSentence(m, all[k]) = KnownSentence(m, FALSE, read[k])
  <2> DEFINE s == read[k]
  <2>1. all[k].words = words(s)
    BY <1>1
  <2>2. s.words \in Seq(Words(K, B))
    BY <1>0 DEF Sentences
  <2>3. \A t \in DOMAIN s.words : s.words[t].features \in Seq(FeatureLines(K))
    <3>1. DOMAIN s.words = 1 .. Len(s.words)
      BY <2>2, LenProperties
    <3>2. \A t \in DOMAIN s.words : s.words[t] \in Words(K, B)
      BY <2>2, <3>1, ElementOfSeq
    <3> QED BY <3>2 DEF Words
  <2> HIDE DEF s
  <2>4. ASSUME NEW t \in DOMAIN s.words
        PROVE  SpelledFeatures(m, Indexed(m, s.words[t].features)) = KnownFeatures(m, FALSE, s.words[t].features)
    BY <2>3, <2>4, IndexedSpells
  <2>5. /\ DOMAIN all[k].words = DOMAIN s.words
        /\ \A t \in DOMAIN s.words : /\ all[k].words[t].label = s.words[t].label
                                     /\ all[k].words[t].features = Indexed(m, s.words[t].features)
    BY <2>1
  <2> HIDE DEF all, words, word
  <2> QED BY <2>4, <2>5 DEF SpelledSentence, KnownSentence, s
<1> HIDE DEF all
<1> QED BY <1>2, <1>3 DEF Spells, all

(* A model that lists the features of a sentence knows them.               *)
LEMMA ListedIsKnown ==
  ASSUME NEW K, NEW m, IsModel(m, K), NEW B, NEW s \in Sentences(K, B), ListsWords(m, s)
  PROVE  KnownSentence(m, FALSE, s) = KnownSentence(m, TRUE, s)
<1> DEFINE X == FeaturesOf(K, m.max)
<1>0. m.features \in Seq(X) /\ Len(m.features) \in Nat
  BY UidsOf DEF IsModel
<1> HIDE DEF X
<1>1. s.words \in Seq(Words(K, B))
  BY DEF Sentences
<1>2. DOMAIN s.words = 1 .. Len(s.words)
  BY <1>1, LenProperties
<1>3. ASSUME NEW t \in DOMAIN s.words
      PROVE  KnownFeatures(m, FALSE, s.words[t].features) = KnownFeatures(m, TRUE, s.words[t].features)
  <2> DEFINE fs == s.words[t].features
  <2>1. fs \in Seq(FeatureLines(K)) /\ ListsAll(m, fs)
    <3>1. s.words[t] \in Words(K, B)
      BY <1>1, <1>2, ElementOfSeq
    <3> QED BY <1>2, <3>1 DEF Words, ListsWords
  <2>2. DOMAIN fs = 1 .. Len(fs)
    BY <2>1, LenProperties
  <2> HIDE DEF fs
  <2>3. ASSUME NEW f \in ToSet(fs) PROVE FindFeature(m, f[1], f[2]) # 0
    <3>1. PICK k \in 1 .. Len(fs) : f = fs[k]
      BY <2>2 DEF ToSet
    <3>2. PICK u \in 1 .. Len(m.features) : m.features[u] = <<f[1], f[2]>>
      BY <2>1, <3>1 DEF ListsAll, Lists, FeatureOf
    <3>3. IsFound(FindFeature(m, f[1], f[2]), m.features, <<f[1], f[2]>>)
      BY <1>0, FoundFeature
    <3> QED BY <1>0, <3>2, <3>3 DEF IsFound
  <2>4. {f \in ToSet(fs) : IsKnown(m, FALSE, f)} = {f \in ToSet(fs) : IsKnown(m, TRUE, f)}
    BY <2>3 DEF IsKnown
  <2> QED BY <2>4 DEF KnownFeatures, fs
<1> QED BY <1>3 DEF KnownSentence

(* Uids keep their features while a model grows.                           *)
LEMMA SpelledAlike ==
  ASSUME NEW m, NEW y, Len(m.features) \in Nat,
         \A u \in 1 .. Len(m.features) : y.features[u] = m.features[u],
         NEW b, NEW s \in IndexedSentences(Len(m.features), b)
  PROVE  SpelledSentence(y, s) = SpelledSentence(m, s)
<1> DEFINE n == Len(m.features)
<1>1. s.words \in Seq(IndexedWords(n))
  BY DEF IndexedSentences
<1>2. DOMAIN s.words = 1 .. Len(s.words)
  BY <1>1, LenProperties
<1>3. ASSUME NEW t \in DOMAIN s.words
      PROVE  SpelledFeatures(y, s.words[t].features) = SpelledFeatures(m, s.words[t].features)
  <2> DEFINE fs == s.words[t].features
  <2>1. fs \in Seq((1 .. n) \X Int)
    <3>1. s.words[t] \in IndexedWords(n)
      BY <1>1, <1>2, ElementOfSeq
    <3> QED BY <3>1 DEF IndexedWords
  <2>2. DOMAIN fs = 1 .. Len(fs) /\ \A i \in 1 .. Len(fs) : fs[i] \in (1 .. n) \X Int
    BY <2>1, LenProperties, ElementOfSeq
  <2> HIDE DEF fs
  <2>3. \A i \in DOMAIN fs : fs[i][1] \in 1 .. n
    BY <2>2
  <2>4. \A i \in DOMAIN fs : SpelledFeature(y, fs[i]) = SpelledFeature(m, fs[i])
    BY <2>3 DEF SpelledFeature
  <2> QED BY <2>4 DEF SpelledFeatures, fs
<1> QED BY <1>3 DEF SpelledSentence

(* What is known while everything is, or to models of the same features.   *)
KnowAlike(y, m, grows) == grows \/ y.features = m.features

KnowTheSame(y, m, grows) ==
  \A s : KnownSentence(y, grows, s) = KnownSentence(m, grows, s)

LEMMA KnownAlike ==
  ASSUME NEW m, NEW y, NEW grows, KnowAlike(y, m, grows)
  PROVE  KnowTheSame(y, m, grows)
<1>1. \A f : IsKnown(y, grows, f) <=> IsKnown(m, grows, f)
  BY DEF IsKnown, FindFeature, KnowAlike
<1>2. \A fs : KnownFeatures(y, grows, fs) = KnownFeatures(m, grows, fs)
  BY <1>1 DEF KnownFeatures
<1> QED BY <1>2 DEF KnownSentence, KnowTheSame

(* A chunk more.                                                           *)
LEMMA SpellsMore ==
  ASSUME NEW U, NEW a \in Seq(U), NEW b \in Seq(U), NEW T, NEW s \in Seq(T), NEW t \in Seq(T),
         NEW m, NEW grows, Spells(a, s, m, grows), Spells(b, t, m, grows)
  PROVE  Spells(a \o b, s \o t, m, grows)
<1>1. /\ Len(a) \in Nat /\ Len(b) \in Nat /\ Len(s) = Len(a) /\ Len(t) = Len(b)
  BY LenProperties DEF Spells
<1>2. /\ Len(a \o b) = Len(a) + Len(b)
      /\ \A k \in 1 .. Len(a) + Len(b) : (a \o b)[k] = IF k <= Len(a) THEN a[k] ELSE b[k - Len(a)]
  BY ConcatProperties
<1>3. /\ Len(s \o t) = Len(s) + Len(t)
      /\ \A k \in 1 .. Len(s) + Len(t) : (s \o t)[k] = IF k <= Len(s) THEN s[k] ELSE t[k - Len(s)]
  BY ConcatProperties
<1>4. ASSUME NEW k \in 1 .. Len(a) + Len(b)
      PROVE  SpelledSentence(m, (a \o b)[k]) = KnownSentence(m, grows, (s \o t)[k])
  <2>1. CASE k <= Len(a)
    <3>1. k \in 1 .. Len(a) /\ (a \o b)[k] = a[k] /\ (s \o t)[k] = s[k]
      BY <1>1, <1>2, <1>3, <2>1
    <3> QED BY <3>1 DEF Spells
  <2>2. CASE ~(k <= Len(a))
    <3>1. k - Len(a) \in 1 .. Len(b) /\ (a \o b)[k] = b[k - Len(a)] /\ (s \o t)[k] = t[k - Len(a)]
      BY <1>1, <1>2, <1>3, <2>2
    <3> QED BY <3>1 DEF Spells
  <2> QED BY <2>1, <2>2
<1> QED BY <1>1, <1>2, <1>3, <1>4 DEF Spells

(* What data spell is the same for a model that has grown.                 *)
LEMMA SpellsAlike ==
  ASSUME NEW m, NEW y, Len(m.features) \in Nat,
         \A u \in 1 .. Len(m.features) : y.features[u] = m.features[u],
         NEW b, NEW all \in Seq(IndexedSentences(Len(m.features), b)), NEW texts,
         NEW grows, KnowAlike(y, m, grows), Spells(all, texts, m, grows)
  PROVE  Spells(all, texts, y, grows)
<1>1. ASSUME NEW k \in 1 .. Len(all) PROVE SpelledSentence(y, all[k]) = SpelledSentence(m, all[k])
  <2>1. all[k] \in IndexedSentences(Len(m.features), b)
    BY ElementOfSeq
  <2> QED BY <2>1, SpelledAlike, Zenon
<1>2. KnowTheSame(y, m, grows)
  BY KnownAlike
<1> QED BY <1>1, <1>2 DEF Spells, KnowTheSame

=============================================================================

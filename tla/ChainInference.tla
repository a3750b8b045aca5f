-------------------------- MODULE ChainInference --------------------------
(***************************************************************************)
(* Decoding and inference in a linear chain (VanillaCRF.cpp,               *)
(* TagConstrainedCRF.cpp, FrenchVanillaCRF.cpp), and what they compute,    *)
(* defined by all the paths there are.  Weights are integers; a tie goes   *)
(* to the smallest label.                                                  *)
(***************************************************************************)
EXTENDS SparseModel

CONSTANTS
  One,      \* the potential 1: potentials are integers in units of 1 / One
  Precision \* probabilities are rounded to units of 1 / Precision

ASSUME InferenceAssumption == {One, Precision} \subseteq Nat \ {0}

(* CreateConstrainedLinearFunctionCache: a column per word, for the labels *)
(* in tags.                                                                *)
LinearFunction(m, s, tags) ==
  [t \in DOMAIN s.words |-> [i \in LabelsOf(m) |->
     IF i \notin tags THEN 0
     ELSE FoldLeft(LAMBDA x, f : x + WeightOf(m, f[1], i) * f[2], 0, s.words[t].features)]]

(* CreateLinearFunctionCache, for all of them.                             *)
CreateLinearFunctionCache(m, s) == LinearFunction(m, s, LabelsOf(m))

(* Where a score, a function of labels, is largest.                        *)
Best(score) ==
  CHOOSE i \in DOMAIN score :
    \A j \in DOMAIN score : score[j] < score[i] \/ (score[j] = score[i] /\ i <= j)

(* Mutant: the transition is taken the wrong way round.                    *)
ViterbiBackwards(node, trans, tags) ==
  LET into(prev, i) == [j \in tags |-> prev[j] + trans[<<i, j>>]]
      step(cols, t) ==
        LET prev == Last(cols).score
            from == [i \in tags |-> Best(into(prev, i))]
        IN  Append(cols, [score |-> [i \in tags |-> into(prev, i)[from[i]] + node[t][i]],
                          from |-> from])
      first == [score |-> [i \in tags |-> node[1][i]], from |-> <<>>]
      cols == FoldLeft(step, <<first>>, [t \in 1 .. Len(node) - 1 |-> t + 1])
  IN  FoldRight(LAMBDA col, path : <<col.from[Head(path)]>> \o path, Tail(cols),
                <<Best(Last(cols).score)>>)

(* Viterbi1Best and ConstrainedViterbi1Best, of a sentence of at least one *)
(* word.                                                                   *)
Viterbi(node, trans, tags) ==
  LET into(prev, i) == [j \in tags |-> prev[j] + trans[<<j, i>>]]
      step(cols, t) ==
        LET prev == Last(cols).score
            from == [i \in tags |-> Best(into(prev, i))]
        IN  Append(cols, [score |-> [i \in tags |-> into(prev, i)[from[i]] + node[t][i]],
                          from |-> from])
      first == [score |-> [i \in tags |-> node[1][i]], from |-> <<>>]
      cols == FoldLeft(step, <<first>>, [t \in 1 .. Len(node) - 1 |-> t + 1])
  IN  FoldRight(LAMBDA col, path : <<col.from[Head(path)]>> \o path, Tail(cols),
                <<Best(Last(cols).score)>>)

Decode(m, s) == Viterbi(CreateLinearFunctionCache(m, s), m.trans, LabelsOf(m))

(* TagConstrainedCRF::Decode: only a proper subset constrains the path.    *)
ConstrainedDecode(m, s) ==
  Viterbi(LinearFunction(m, s, s.tags), m.trans,
          IF Cardinality(s.tags) \in 1 .. m.max - 1 THEN s.tags ELSE LabelsOf(m))

(* The Decode of the three CRFs there are (CRFFactory); the sparse one     *)
(* inherits it.                                                            *)
DecodeBy(crf, m, s) == IF crf = "constrained" THEN ConstrainedDecode(m, s) ELSE Decode(m, s)

Paths(n, tags) == [1 .. n -> tags]

PathScore(node, trans, path) ==
  FoldLeftDomain(LAMBDA x, t : x + node[t][path[t]]
                                 + (IF t = 1 THEN 0 ELSE trans[<<path[t - 1], path[t]>>]),
                 0, path)

IsBest(path, node, trans, tags) ==
  /\ path \in Paths(Len(node), tags)
  /\ \A q \in Paths(Len(node), tags) :
       PathScore(node, trans, q) <= PathScore(node, trans, path)

-----------------------------------------------------------------------------
(***************************************************************************)
(* Infer.  In place of exp stands a function that, like exp, is positive,  *)
(* grows, and is 1 at 0.  The code divides every column of sums by what it *)
(* adds up to; here the sums are whole, and divided at the end.            *)
(***************************************************************************)
Exp(x) == Max({1, One + x})

ExpNode(node) == [t \in DOMAIN node |-> [i \in DOMAIN node[t] |-> Exp(node[t][i])]]
ExpEdge(trans) == [e \in DOMAIN trans |-> Exp(trans[e])]

VectorSum(v) == FoldFunction(LAMBDA x, y : x + y, 0, v)

Forward(node, edge) ==
  LET tags == DOMAIN node[1]
      step(cols, t) == Append(cols, [i \in tags |->
        node[t][i] * VectorSum([j \in tags |-> edge[<<j, i>>] * Last(cols)[j]])])
  IN  FoldLeft(step, <<node[1]>>, [t \in 1 .. Len(node) - 1 |-> t + 1])

(* Mutant: the observation of the next word is forgotten.                  *)
BackwardUnobserved(node, edge) ==
  LET tags == DOMAIN node[1]
      step(cols, t) == <<[i \in tags |->
        VectorSum([j \in tags |-> edge[<<i, j>>] * Head(cols)[j]])]>> \o cols
  IN  FoldLeft(step, <<[i \in tags |-> 1]>>,
               [k \in 1 .. Len(node) - 1 |-> Len(node) - k])

Backward(node, edge) ==
  LET tags == DOMAIN node[1]
      step(cols, t) == <<[i \in tags |->
        VectorSum([j \in tags |-> edge[<<i, j>>] * node[t + 1][j] * Head(cols)[j]])]>> \o cols
  IN  FoldLeft(step, <<[i \in tags |-> 1]>>,
               [k \in 1 .. Len(node) - 1 |-> Len(node) - k])

(* The sparse sums: less one is the potential 1 of a.                      *)
SparseVectorDotProduct(a, b, tags, one) == VectorSum([i \in tags |-> (a[i] - one) * b[i]])

(* FrenchVanillaCRF: only transitions with a parameter are visited.        *)
SparseTransition(m) ==
  {e \in LabelsOf(m) \X LabelsOf(m) :
     <<FindFeature(m, EdgeSet, e[1]), e[2]>> \in DOMAIN m.weight}

(***************************************************************************)
(* The other transitions have the potential 1, for which the sum of the    *)
(* column stands; the code adds 1 in the forward pass, where the column    *)
(* has been scaled.                                                        *)
(***************************************************************************)
SparseForward(node, edge, sparse) ==
  LET tags == DOMAIN node[1]
      into(i) == {j \in tags : <<j, i>> \in sparse}
      step(cols, t) == Append(cols, [i \in tags |->
        node[t][i] * (One * VectorSum(Last(cols))
          + SparseVectorDotProduct([j \in tags |-> edge[<<j, i>>]], Last(cols), into(i), One))])
  IN  FoldLeft(step, <<node[1]>>, [t \in 1 .. Len(node) - 1 |-> t + 1])

SparseBackward(node, edge, sparse) ==
  LET tags == DOMAIN node[1]
      from(i) == {j \in tags : <<i, j>> \in sparse}
      step(cols, t) ==
        LET column == [j \in tags |-> node[t + 1][j] * Head(cols)[j]]
        IN  <<[i \in tags |->
                SparseVectorDotProduct([j \in tags |-> edge[<<i, j>>]], column, from(i), One)
                  + One * VectorSum(column)]>> \o cols
  IN  FoldLeft(step, <<[i \in tags |-> 1]>>,
               [k \in 1 .. Len(node) - 1 |-> Len(node) - k])

(* probNode and probEdge, times the sum over all paths.                    *)
ProbNode(alpha, beta) ==
  [t \in DOMAIN alpha |-> [i \in DOMAIN alpha[t] |-> alpha[t][i] * beta[t][i]]]

ProbEdge(node, edge, alpha, beta, known) ==
  [e \in known |-> VectorSum([t \in 1 .. Len(node) - 1 |->
     alpha[t][e[1]] * edge[e] * node[t + 1][e[2]] * beta[t + 1][e[2]]])]

PathWeight(node, edge, path) ==
  FoldLeftDomain(LAMBDA x, t : x * node[t][path[t]]
                                 * (IF t = 1 THEN 1 ELSE edge[<<path[t - 1], path[t]>>]),
                 1, path)

SumOver(paths, node, edge) == VectorSum([p \in paths |-> PathWeight(node, edge, p)])

LabelPath(s) == [t \in DOMAIN s.words |-> s.words[t].label]

(***************************************************************************)
(* The quotient of integers, rounded down; no sum that is divided by here  *)
(* is zero.                                                                *)
(***************************************************************************)
Quotient(a, b) ==
  CASE b > 0 -> a \div b
    [] b < 0 -> (-a) \div (-b)
    [] OTHER -> CHOOSE n \in Int : TRUE

(***************************************************************************)
(* What Infer returns: the probabilities of a label of a word and of a     *)
(* transition anywhere in the sentence, and how likely the labels of the   *)
(* sentence are; nan if the logarithm of a sum below zero was taken.       *)
(***************************************************************************)
Inferred(s, node, edge, alpha, beta, known) ==
  LET all == VectorSum(Last(alpha))
      part(x) == Quotient(Precision * x, all)
      of(column) == [i \in DOMAIN column |-> part(column[i])]
      edges == of(ProbEdge(node, edge, alpha, beta, known))
  IN  [node |-> LET nodes == ProbNode(alpha, beta) IN [t \in DOMAIN nodes |-> of(nodes[t])],
       edge |-> [e \in DOMAIN edge |-> IF e \in known THEN edges[e] ELSE 0],
       likely |-> part(PathWeight(node, edge, LabelPath(s))),
       nan |-> \E t \in DOMAIN alpha : VectorSum(alpha[t]) < 0]

VanillaSums(s, node, edge) ==
  Inferred(s, node, edge, Forward(node, edge), Backward(node, edge), DOMAIN edge)

SparseSums(s, node, edge, sparse) ==
  Inferred(s, node, edge, SparseForward(node, edge, sparse),
           SparseBackward(node, edge, sparse), sparse)

VanillaInfer(m, s) == VanillaSums(s, ExpNode(CreateLinearFunctionCache(m, s)), ExpEdge(m.trans))

SparseInfer(m, s) ==
  SparseSums(s, ExpNode(CreateLinearFunctionCache(m, s)), ExpEdge(m.trans), SparseTransition(m))

-----------------------------------------------------------------------------
(***************************************************************************)
(* TagConstrainedCRF takes the sparse sums over the transitions between    *)
(* the allowed tags.  Nothing stands for the other transitions, and in the *)
(* backward pass the 1 is taken off the column: what comes out are no sums *)
(* over paths, and may be zero or below.                                   *)
(***************************************************************************)
ConstrainedForward(node, edge, tags) ==
  LET step(cols, t) == Append(cols, [i \in DOMAIN node[1] |->
        IF i \notin tags THEN 0
        ELSE node[t][i]
               * SparseVectorDotProduct([j \in tags |-> edge[<<j, i>>]], Last(cols), tags, One)])
  IN  FoldLeft(step, <<node[1]>>, [t \in 1 .. Len(node) - 1 |-> t + 1])

(* The products of the sums a column was divided by (1 for a sum of zero). *)
Norms(alpha) ==
  FoldLeftDomain(LAMBDA x, t : LET sum == VectorSum(alpha[t])
                               IN  Append(x, IF sum # 0 THEN sum ELSE One * One * Last(x)),
                 <<>>, alpha)

(* The scaled columns, each in units of 1 / Precision.                     *)
ConstrainedBackward(node, edge, tags, norms) ==
  LET scaled(x, t) == IF t = 1 THEN Quotient(One * x, norms[1])
                      ELSE Quotient(One * One * x * norms[t - 1], norms[t])
      step(cols, t) ==
        LET column == [i \in DOMAIN node[1] |-> (Head(cols)[i] * node[t + 1][i]) \div One]
            sum(i) == SparseVectorDotProduct(column, [j \in tags |-> edge[<<i, j>>]],
                                             tags, Precision) \div One
        IN  <<[i \in DOMAIN node[1] |-> IF i \in tags THEN scaled(sum(i), t) ELSE 0]>> \o cols
  IN  FoldLeft(step, <<[i \in DOMAIN node[1] |-> scaled(Precision, Len(node))]>>,
               [k \in 1 .. Len(node) - 1 |-> Len(node) - k])

ConstrainedSums(s, node, edge, alpha, norms, beta) ==
  LET before(t) == IF t = 1 THEN One ELSE One * One * norms[t - 1]
      n == Len(node)
  IN  [node |-> [t \in 1 .. n |-> [i \in DOMAIN node[t] |->
                   Quotient(alpha[t][i] * beta[t][i], before(t))]],
       edge |-> [e \in DOMAIN edge |-> VectorSum([t \in 1 .. n - 1 |->
                   Quotient(alpha[t][e[1]] * edge[e]
                              * ((beta[t + 1][e[2]] * node[t + 1][e[2]]) \div One),
                            One * norms[t])])],
       likely |-> Quotient(Precision * PathWeight(node, edge, LabelPath(s)), norms[n]),
       nan |-> \E t \in 1 .. n : VectorSum(alpha[t]) < 0]

ConstrainedOf(s, node, edge, alpha, norms) ==
  ConstrainedSums(s, node, edge, alpha, norms, ConstrainedBackward(node, edge, s.tags, norms))

ConstrainedInfer(m, s) ==
  LET node == ExpNode(CreateLinearFunctionCache(m, s))
      edge == ExpEdge(m.trans)
      alpha == ConstrainedForward(node, edge, s.tags)
  IN  ConstrainedOf(s, node, edge, alpha, Norms(alpha))

(* The CRFs of CRFFactory.                                                 *)
InferBy(crf, m, s) ==
  CASE crf = "vanilla" -> VanillaInfer(m, s)
    [] crf = "sparse" -> SparseInfer(m, s)
    [] crf = "constrained" -> ConstrainedInfer(m, s)
=============================================================================

------------------------------ MODULE Learners ------------------------------
(***************************************************************************)
(* One sentence of training: PerceptronLearner and CumulativeL1SGDLearner. *)
(*                                                                         *)
(* A run of training is a record: the model, the loss so far, owed and     *)
(* what was paid of the penalties of l1sgd (m_CumulativeL1Penalty and the  *)
(* vectors beside it), and whether an assertion has failed.                *)
(***************************************************************************)
EXTENDS ChainInference, CumulativeL1

CONSTANTS
  LossUnit, \* what a sentence counts that is wrong in every word
  Sparsity  \* the sparsity option of l1sgd, in units of 1 / Precision

ASSUME SparsityAssumption == Sparsity \in Nat

Diff(s, tags) == Cardinality({t \in DOMAIN tags : s.words[t].label # tags[t]})

(* How often a path takes an edge, and what it sees of a feature.          *)
EdgeCount(path, e) ==
  Cardinality({t \in 2 .. Len(path) : <<path[t - 1], path[t]>> = e})
Seen(s, t, uid) ==
  FoldLeft(LAMBDA x, f : IF f[1] = uid THEN x + f[2] ELSE x, 0, s.words[t].features)
NodeCount(s, path, p) ==
  FoldLeftDomain(LAMBDA x, t : IF path[t] = p[2] THEN x + Seen(s, t, p[1]) ELSE x, 0, path)

(* UpdateNodeWeight and UpdateEdgeWeight over a sentence: only weights     *)
(* with a parameter change, but all the transitions do.                    *)
Update(m, s, tags, rate) ==
  LET labels == LabelPath(s)
  IN  [m EXCEPT
         !.weight = [p \in DOMAIN @ |->
            @[p] + rate * (NodeCount(s, labels, p) - NodeCount(s, tags, p))],
         !.trans = [e \in DOMAIN @ |->
            @[e] + rate * (EdgeCount(labels, e) - EdgeCount(tags, e))]]

PerceptronOn(crf, rate, r, s) ==
  LET tags == DecodeBy(crf, r.model, s)
      diff == Diff(s, tags)
  IN  IF diff = 0 THEN r
      ELSE [r EXCEPT !.model = Update(@, s, tags, rate),
                     !.loss = @ + (LossUnit * diff) \div Len(s.words)]

-----------------------------------------------------------------------------
(* CumulativeL1SGDLearner::Initialize                                      *)
NothingPaid(m) ==
  [owed |-> 0, weight |-> [p \in DOMAIN m.weight |-> 0], trans |-> [e \in DOMAIN m.trans |-> 0]]

(* What a pass adds to what every weight owes.                             *)
Owe(paid, rate) == [paid EXCEPT !.owed = @ + (rate * Sparsity) \div Precision]

(***************************************************************************)
(* UpdateNodeWeight: the weights of the features of one word after         *)
(* another, for each of the labels the feature has a parameter with.       *)
(***************************************************************************)
L1Weight(r, s, prob, rate, p) ==
  LET step(x, t) ==
        FoldLeft(LAMBDA y, f :
          IF f[1] # p[1] THEN y
          ELSE LET delta == (IF s.words[t].label = p[2] THEN Precision ELSE 0) - prob[t][p[2]]
               IN  ApplyPenalty(y.weight + (rate * delta * f[2]) \div Precision, y.paid,
                                r.paid.owed),
          x, s.words[t].features)
  IN  FoldLeftDomain(step, [weight |-> r.model.weight[p], paid |-> r.paid.weight[p]], s.words)

(* UpdateEdgeWeightOverSentence: every transition, once a sentence.        *)
L1Transition(r, s, prob, rate, e) ==
  LET delta == Precision * EdgeCount(LabelPath(s), e) - prob[e]
  IN  ApplyPenalty(r.model.trans[e] + (rate * delta) \div Precision, r.paid.trans[e], r.paid.owed)

(***************************************************************************)
(* In place of the logarithm of the likelihood stands how far it is from   *)
(* one.                                                                    *)
(***************************************************************************)
L1Step(rate, r, s, seen) ==
  LET weight == [p \in DOMAIN r.model.weight |-> L1Weight(r, s, seen.node, rate, p)]
      trans == [e \in DOMAIN r.model.trans |-> L1Transition(r, s, seen.edge, rate, e)]
  IN  IF seen.nan THEN [r EXCEPT !.failed = TRUE]
      ELSE [r EXCEPT !.model.weight = [p \in DOMAIN weight |-> weight[p].weight],
                     !.model.trans = [e \in DOMAIN trans |-> trans[e].weight],
                     !.paid.weight = [p \in DOMAIN weight |-> weight[p].paid],
                     !.paid.trans = [e \in DOMAIN trans |-> trans[e].paid],
                     !.loss = @ + (LossUnit * (Precision - seen.likely)) \div Precision]

L1On(crf, rate, r, s) ==
  IF r.failed THEN r ELSE L1Step(rate, r, s, InferBy(crf, r.model, s))

(* The norm of the weights, which is meant to be added to the loss, is     *)
(* added to the likelihood, and times the sparsity squared.                *)
L1Loss(loss, m) ==
  LET abs(x) == Larger(x, -x)
  IN  loss - (Sparsity * Sparsity * VectorSum([p \in DOMAIN m.weight |-> abs(m.weight[p])]))
               \div (Precision * Precision)

-----------------------------------------------------------------------------
(* The learners of SupervisedLearnerFactory that the API names.            *)
TrainOn(alg, crf, rate, r, s) ==
  IF alg = "l1sgd" THEN L1On(crf, rate, r, s) ELSE PerceptronOn(crf, rate, r, s)

PassLoss(alg, loss, m) == IF alg = "l1sgd" THEN L1Loss(loss, m) ELSE loss
=============================================================================

--------------------------- MODULE TaggerTraining ---------------------------
(***************************************************************************)
(* Training a sequence tagger, loading it and decoding with it: the        *)
(* pipeline of the tutorial (docs_src/tutorials/sequence_tagging_lccrf.rst)*)
(* and the commands behind it (SequenceTagging, Learn, Decode,             *)
(* BaseSupervisedLearner and LinearChainCRF) over the data structures of   *)
(* TextFeatures, StreamData, SparseModel, ChainInference and Learners.     *)
(*                                                                         *)
(* A job is what one program does: the sentences it fits and trains on, or *)
(* a training file of its own; the size of a chunk; the permutations of    *)
(* its shuffles; the learner and the CRF; and whether it goes on learning  *)
(* from the model it has learned.  Weights and rates are integers.         *)
(***************************************************************************)
EXTENDS Learners, TextFeatures, StreamData

CONSTANTS
  Jobs,     \* the jobs: [corpus, file, size, order, alg, crf, again, reset, expand]
  Orders,   \* the orders of the n-grams
  Patterns, \* the regular expressions
  Rates,    \* the learning rate of every iteration, of each learner
  WarmIter, \* iter.warm of each learner
  MaxIter   \* iter.max

NoFile == <<>>

(* The lines of a training file.                                           *)
FileLine ==
  [kind : {"comment", "blank"}] \cup [kind : {"tags"}, tags : Seq(Nat)]
    \cup [kind : {"word"}, label : Nat, features : Seq(Nat \X Nat \X Int)]

ASSUME TaggerAssumption ==
  /\ Orders \in Seq(1 .. 8) /\ Patterns \in Seq(Seq(STRING)) /\ MaxIter \in Nat
  /\ \A j \in Jobs :
       /\ j \in [corpus : Seq([tokens : Seq(DOMAIN Letters), labels : Seq(Nat)]),
                 file : Seq(FileLine), size : Nat \ {0}, order : {j.order},
                 alg : {"perceptron", "l1sgd"}, crf : {"vanilla", "sparse", "constrained"},
                 again : BOOLEAN, reset : BOOLEAN, expand : BOOLEAN]
       /\ \A n \in DOMAIN j.order : n \in Nat /\ j.order[n] \in Bijection(1 .. n, 1 .. n)
  /\ \A j \in Jobs : \A k \in DOMAIN j.corpus :
       /\ Len(j.corpus[k].tokens) = Len(j.corpus[k].labels)
       /\ \A g \in DOMAIN Orders : Len(j.corpus[k].tokens) >= Max({1, Orders[g] - 1})
  /\ \A j \in Jobs : j.corpus = <<>> => Read(j.file, 1, 1).data # <<>>
  /\ \A j \in Jobs : \A k \in 1 .. MaxIter : Rates[j.alg][k] \in Nat \ {0}

VARIABLES
  job,     \* what this program does
  stage,   \* how far it is
  done,    \* sentences fitted in this stage, or lines read
  ngrams,  \* the n-gram featurizers
  regexes, \* the regex featurizer
  concat,  \* the text feature concatenation
  file,    \* the training data file
  model,   \* m_LinearModel of the learner
  data,    \* trainData
  learner, \* the learner, the local variables of Learn, and what a pass was given
  past,    \* the loss and the weights after every pass
  bin,     \* the model file
  crf,     \* m_LinearModel of the LinearChainCRF that loaded it
  output   \* what the decode command has written

vars == <<job, stage, done, ngrams, regexes, concat, file, model, data, learner, past, bin, crf, output>>
training == <<model, data, learner, past, bin, crf, output>>
inputs == <<job, done, ngrams, regexes, concat, file>>

NewLearner ==
  [loss |-> 0, prev |-> 0, converged |-> 0, highest |-> 0, seen |-> <<>>,
   paid |-> NothingPaid(EmptyModel)]

Init ==
  /\ job \in Jobs
  /\ stage = IF job.corpus = <<>> THEN "read" ELSE "fit"
  /\ done = 0
  /\ ngrams = [g \in DOMAIN Orders |-> NewNGrams(Orders[g], TRUE)]
  /\ regexes = FoldLeft(AddRegex, NewRegexes(<<>>), Patterns)
  /\ concat = NewConcat(1)
  /\ file = job.file
  /\ model = EmptyModel
  /\ data = NewData
  /\ learner = NewLearner
  /\ past = <<>>
  /\ bin = NoFile
  /\ crf = NoModel
  /\ output = <<>>

-----------------------------------------------------------------------------
Sentence == job.corpus[done + 1]

(* One sentence more; after the last one the next stage begins.            *)
Advance(next) ==
  IF done + 1 = Len(job.corpus) THEN done' = 0 /\ stage' = next
  ELSE done' = done + 1 /\ UNCHANGED stage

FitNGrams ==
  /\ stage = "fit"
  /\ ngrams' = [g \in DOMAIN ngrams |-> Fit(ngrams[g], Sentence.tokens)]
  /\ Advance("concat")
  /\ UNCHANGED <<job, regexes, concat, file, training>>

(* The features of every featurizer.                                       *)
Groups(tokens) ==
  Append([g \in DOMAIN ngrams |-> Transform(ngrams[g], tokens)], RegexTransform(regexes, tokens))

FitConcat ==
  /\ stage = "concat"
  /\ concat' = ConcatFit(concat, Groups(Sentence.tokens))
  /\ Advance("write")
  /\ UNCHANGED <<job, ngrams, regexes, file, training>>

Features(tokens) == ConcatTransform(concat, Groups(tokens))

WriteData ==
  /\ stage = "write"
  /\ file' = file \o AsLccrf(Features(Sentence.tokens), Sentence.labels)
  /\ Advance("read")
  /\ UNCHANGED <<job, ngrams, regexes, concat, training>>

-----------------------------------------------------------------------------
(***************************************************************************)
(* The loop of StreamDataManager's constructor, for the learn command and  *)
(* for the decode command, which does not expand its model.                *)
(***************************************************************************)
ReadChunk ==
  LET r == Read(file, done + 1, job.size)
      grown == IF bin = NoFile \/ job.expand THEN Expand(model, r.data) ELSE model
      known == IF stage = "read" THEN grown ELSE crf
  IN  /\ stage \in {"read", "input"}
      /\ r.data # <<>>
      /\ model' = IF stage = "read" THEN grown ELSE model
      /\ data' = SaveChunk(data, IndexData(known, r.data))
      /\ done' = r.at - 1
      /\ UNCHANGED <<job, stage, ngrams, regexes, concat, file, learner, past, bin, crf, output>>

(* After the last chunk the learner is made.                               *)
EndOfData ==
  /\ stage = "read"
  /\ Read(file, done + 1, job.size).data = <<>>
  /\ data' = LoadAll(Flush(data, job.order))
  /\ learner' = [NewLearner EXCEPT !.paid = NothingPaid(model)]
  /\ stage' = "pass"
  /\ UNCHANGED <<inputs, model, past, bin, crf, output>>

-----------------------------------------------------------------------------
Converged == learner.converged > 2 \/ Len(past) = MaxIter
Rate == Rates[job.alg][Len(past) + 1]

StartPass ==
  /\ stage = "pass"
  /\ ~Converged
  /\ data' = Flush(data, job.order)
  /\ learner' = [learner EXCEPT !.loss = 0, !.seen = <<>>, !.paid = Owe(@, Rate)]
  /\ stage' = "train"
  /\ UNCHANGED <<inputs, model, past, bin, crf, output>>

(***************************************************************************)
(* One turn of SinglePassTraining's loop: a chunk.  A likelihood that is   *)
(* not a number ends the program.                                          *)
(***************************************************************************)
TrainChunk ==
  LET handed == Shuffled(Swap(data), job.order)
      r == FoldLeft(LAMBDA x, s : TrainOn(job.alg, job.crf, Rate, x, s),
                    [model |-> model, loss |-> learner.loss, paid |-> learner.paid,
                     failed |-> FALSE],
                    Handed(handed))
  IN  /\ stage = "train"
      /\ ~IsEmpty(data)
      /\ data' = handed
      /\ model' = r.model
      /\ learner' = [learner EXCEPT !.loss = r.loss, !.paid = r.paid,
                                   !.seen = @ \o Handed(handed)]
      /\ stage' = IF r.failed THEN "failed" ELSE stage
      /\ UNCHANGED <<inputs, past, bin, crf, output>>

(***************************************************************************)
(* The end of a pass.  An iteration has not improved if its loss is not    *)
(* smaller by more than a ten-thousandth, and also if there is no loss any *)
(* more, by which the difference is divided; while the learner warms up,   *)
(* every iteration has.                                                    *)
(***************************************************************************)
Stalled(prev, loss) ==
  \/ loss = 0
  \/ loss > 0 /\ 10000 * (prev - loss) < loss
  \/ loss < 0 /\ 10000 * (prev - loss) > loss

EndPass ==
  LET back == BackPropagate(model)
      loss == PassLoss(job.alg, learner.loss, back)
      stalled == Len(past) >= WarmIter[job.alg] /\ Stalled(learner.prev, loss)
  IN  /\ stage = "train"
      /\ IsEmpty(data)
      /\ model' = back
      /\ past' = Append(past, [loss |-> loss, weight |-> back.weight])
      /\ learner' = [learner EXCEPT
           !.prev = loss,
           !.converged = IF stalled THEN @ + 1 ELSE 0,
           !.highest = IF stalled THEN @ ELSE Len(past) + 1]
      /\ stage' = "pass"
      /\ UNCHANGED <<inputs, data, bin, crf, output>>

(* After the loop the weights of the last improvement are restored, which  *)
(* are all zero when there was none.                                       *)
RolledBack ==
  Reset(model, IF learner.highest = 0 THEN [p \in DOMAIN model.weight |-> 0]
               ELSE past[learner.highest].weight)

(* The end of Learn::Run: what is written is shrunk before.                *)
FinishLearning ==
  /\ stage = "pass"
  /\ Converged
  /\ model' = RolledBack
  /\ bin' = Serialize(Shrink(model'))
  /\ stage' = "saved"
  /\ UNCHANGED <<inputs, data, learner, past, crf, output>>

(* A model file that is not there cannot be loaded.                        *)
LoadMissing == stage = "failed" /\ UNCHANGED vars

-----------------------------------------------------------------------------
(* LinearChainCRF of the model file, or Deserialize.                       *)
Load ==
  /\ stage \in {"saved", "loaded"}
  /\ crf' = Deserialize(bin)
  /\ stage' = "loaded"
  /\ UNCHANGED <<inputs, model, data, learner, past, bin, output>>

(* SaveModel, or Serialize, of what was loaded.                            *)
SaveModel ==
  /\ stage = "loaded"
  /\ bin' = Serialize(crf)
  /\ UNCHANGED <<inputs, stage, model, data, learner, past, crf, output>>

(***************************************************************************)
(* The learn command with the model it has learned as its premodel.  Reset *)
(* leaves the cache of transitions as it is, which Expand then makes anew. *)
(***************************************************************************)
LearnAgain ==
  LET premodel == Deserialize(bin)
  IN  /\ stage = "loaded"
      /\ job.again
      /\ job' = [job EXCEPT !.again = FALSE]
      /\ model' = IF job.reset THEN [premodel EXCEPT !.weight = [p \in DOMAIN @ |-> 0]]
                  ELSE premodel
      /\ data' = NewData
      /\ past' = <<>>
      /\ done' = 0
      /\ stage' = "read"
      /\ UNCHANGED <<ngrams, regexes, concat, file, learner, bin, crf, output>>

(* The decode command: the model is loaded, then the data.                 *)
OpenInput ==
  /\ stage = "loaded"
  /\ output = <<>>
  /\ crf' = Deserialize(bin)
  /\ data' = NewData
  /\ done' = 0
  /\ stage' = "input"
  /\ UNCHANGED <<job, ngrams, regexes, concat, file, model, learner, past, bin, output>>

(* Nothing is shuffled, neither by the constructor nor by BatchDecode.     *)
Unshuffled == <<>>

EndOfInput ==
  /\ stage = "input"
  /\ Read(file, done + 1, job.size).data = <<>>
  /\ data' = Flush(LoadAll(Flush(data, Unshuffled)), Unshuffled)
  /\ stage' = "decode"
  /\ UNCHANGED <<inputs, model, learner, past, bin, crf, output>>

(* One turn of BatchDecode's loop.                                         *)
DecodeChunk ==
  LET handed == Swap(data)
  IN  /\ stage = "decode"
      /\ ~IsEmpty(data)
      /\ data' = handed
      /\ output' = output \o [k \in DOMAIN Handed(handed) |->
                                DecodeBy(job.crf, crf, Handed(handed)[k])]
      /\ UNCHANGED <<inputs, stage, model, learner, past, bin, crf>>

EndOfDecoding ==
  /\ stage = "decode"
  /\ IsEmpty(data)
  /\ stage' = "loaded"
  /\ UNCHANGED <<inputs, model, data, learner, past, bin, crf, output>>

(* The same, by someone who saved and loaded featurizers as well.          *)
LoadTagger ==
  /\ stage = "loaded"
  /\ crf' = Deserialize(bin)
  /\ concat' = ConcatReloaded(concat)
  /\ regexes' = RegexesReloaded(regexes)
  /\ UNCHANGED <<job, stage, done, ngrams, file, model, data, learner, past, bin, output>>

Prepare == FitNGrams \/ FitConcat \/ WriteData
Learn == ReadChunk \/ EndOfData \/ StartPass \/ TrainChunk \/ EndPass \/ FinishLearning

DecodeCommand == OpenInput \/ EndOfInput \/ DecodeChunk \/ EndOfDecoding

Next ==
  Prepare \/ Learn \/ LearnAgain \/ LoadMissing \/ Load \/ SaveModel \/ LoadTagger
    \/ DecodeCommand

Spec == Init /\ [][Next]_vars

-----------------------------------------------------------------------------
(* The sentences of the file.                                              *)
AllSentences == Read(file, 1, Len(file)).data

(* What can occur: a model has parameters of its features and labels only, *)
(* chunks are handed out while there are any.                              *)
TypeOK ==
  /\ \E j \in Jobs : job \in {j, [j EXCEPT !.again = FALSE]}
  /\ stage \in {"fit", "concat", "write", "read", "pass", "train", "saved", "loaded",
                "input", "decode", "failed"}
  /\ done \in 0 .. Max({Len(job.corpus), Len(file)})
  /\ \A m \in {model, crf} :
       /\ DOMAIN m.weight \subseteq (DOMAIN m.features) \X LabelsOf(m)
       /\ m.max > 0 => DOMAIN m.trans = LabelsOf(m) \X LabelsOf(m)
  /\ {data.cur, data.next} \subseteq {1, 2}
  /\ Len(data.queue) <= ChunkSize(data)
  /\ learner.converged \in 0 .. 3
  /\ stage \in {"pass", "train"} => learner.highest \in 0 .. Len(past)

(***************************************************************************)
(* A pass trains on every sentence of the file once, in whatever chunks    *)
(* and order they are handed out (StreamDataManager).                      *)
(***************************************************************************)
Count(x, s) == Cardinality({k \in DOMAIN s : s[k] = x})
EachSentenceOnce ==
  stage = "train" /\ IsEmpty(data) =>
    LET all == FlattenSeq(data.disk)
    IN  \A s \in ToSet(all) \cup ToSet(learner.seen) : Count(s, all) = Count(s, learner.seen)

(***************************************************************************)
(* The chunk files hold the sentences of the file: their features were     *)
(* replaced by uids while the model still grew, chunk after chunk, and     *)
(* these are the uids of the same features to the end.  A model that does  *)
(* not grow leaves out the features it does not have.                      *)
(***************************************************************************)
IndexesHold ==
  stage \in {"pass", "train"} =>
    LET grows == bin = NoFile \/ job.expand
        known(f) == grows \/ FindFeature(model, f[1], f[2]) # 0
        all == FlattenSeq(data.disk)
    IN  [k \in DOMAIN all |->
          [t \in DOMAIN all[k].words |->
             LET w == all[k].words[t]
             IN  [label |-> w.label,
                  features |-> [i \in DOMAIN w.features |->
                     model.features[w.features[i][1]] \o <<w.features[i][2]>>]]]]
        = [k \in DOMAIN AllSentences |->
            [t \in DOMAIN AllSentences[k].words |->
               LET w == AllSentences[k].words[t]
               IN  [label |-> w.label, features |-> Kept(w.features, {f \in ToSet(w.features) : known(f)})]]]

(***************************************************************************)
(* Between two passes the transitions that decoding looks up are the       *)
(* weights of their parameters, which are what is saved.                   *)
(***************************************************************************)
CacheAgrees ==
  stage = "pass" =>
    \A p \in DOMAIN model.weight :
      model.features[p[1]][1] = EdgeSet =>
        model.trans[<<model.features[p[1]][2], p[2]>>] = model.weight[p]

(***************************************************************************)
(* Decoding finds a best path there is, also when it is confined to the    *)
(* tags a sentence allows (VanillaCRF, TagConstrainedCRF).                 *)
(***************************************************************************)
DecodesBest ==
  stage = "pass" =>
    \A s \in ToSet(IndexData(model, AllSentences)) :
      /\ IsBest(Decode(model, s), LinearFunction(model, s, LabelsOf(model)),
                model.trans, LabelsOf(model))
      /\ IsBest(ConstrainedDecode(model, s), LinearFunction(model, s, s.tags),
                model.trans, s.tags)

(***************************************************************************)
(* Forward and backward sums are the sums over all the paths through a     *)
(* word, and over an edge; the sparse ones, which visit only transitions   *)
(* with a parameter, are the same (VanillaCRF, FrenchVanillaCRF: Infer).   *)
(* Only the sums that are confined to allowed tags make a training fail    *)
(* (TagConstrainedCRF: Infer).                                             *)
(***************************************************************************)
MarginalsAgree ==
  /\ stage = "failed" => job.crf = "constrained"
  /\ stage = "pass" =>
    \A s \in ToSet(IndexData(model, AllSentences)) :
      LET m == RefreshCache(model)
          n == Len(s.words)
          node == ExpNode(LinearFunction(m, s, LabelsOf(m)))
          edge == ExpEdge(m.trans)
          known == SparseTransition(m)
          alpha == Forward(node, edge)
          beta == Backward(node, edge)
          paths == Paths(n, LabelsOf(m))
      IN  /\ ProbNode(alpha, beta) = [t \in 1 .. n |-> [i \in LabelsOf(m) |->
               SumOver({p \in paths : p[t] = i}, node, edge)]]
          /\ ProbEdge(node, edge, alpha, beta, known) = [e \in known |->
               VectorSum([t \in 1 .. n - 1 |->
                 SumOver({p \in paths : <<p[t], p[t + 1]>> = e}, node, edge)])]
          /\ alpha = SparseForward(node, edge, known)
          /\ beta = SparseBackward(node, edge, known)

(***************************************************************************)
(* What l1sgd takes off a weight in the end is what it would have taken    *)
(* off at every pass: a weight pays what it owes when it is updated, at    *)
(* the latest at the end of the pass, never more, and never beyond zero.   *)
(***************************************************************************)
PenaltiesPaid ==
  stage = "pass" /\ job.alg = "l1sgd" /\ past # <<>> =>
    LET paid == learner.paid
    IN  /\ \A p \in DOMAIN model.weight :
             model.features[p[1]][1] # EdgeSet =>
               PaidUp(model.weight[p], paid.weight[p], paid.owed)
        /\ \A e \in DOMAIN model.trans : PaidUp(model.trans[e], paid.trans[e], paid.owed)

(***************************************************************************)
(* What is loaded decides as what was learned, although parameters were    *)
(* dropped, renumbered and sorted in between: the same labels, transitions *)
(* and scores of every word.                                               *)
(***************************************************************************)
Scores(m) == [k \in DOMAIN AllSentences |->
                LinearFunction(m, IndexData(m, AllSentences)[k], LabelsOf(m))]
SavedAsLearned ==
  stage = "loaded" =>
    crf.max = model.max /\ crf.trans = model.trans /\ Scores(crf) = Scores(model)

(***************************************************************************)
(* Prediction sees a sentence as training did: the features that           *)
(* text_features_to_lccrf wrote for it weigh what those weigh that are     *)
(* handed to Predict, in either of the forms the API takes them; and what  *)
(* the decode command writes are the tags of the sentences of its file, in *)
(* their order, whatever chunks they went through.                         *)
(***************************************************************************)
TrainPredictAgree ==
  /\ stage = "loaded" =>
       \A k \in DOMAIN job.corpus :
         LET tokens == job.corpus[k].tokens
             fs == Features(tokens)
             s == IndexFeatures(crf, Len(tokens),
                                [i \in DOMAIN fs |-> <<fs[i].from, fs[i].id, fs[i].value>>])
             of(t) == SelectSeq(fs, LAMBDA f : f.from = t - 1)
             byWord == FlattenSeq([t \in DOMAIN tokens |-> of(t)])
         IN  /\ LinearFunction(crf, s, LabelsOf(crf)) = Scores(crf)[k]
             /\ s = IndexCounted(crf, [t \in DOMAIN tokens |-> Len(of(t))],
                                 [i \in DOMAIN byWord |-> <<1, byWord[i].id>>])
  /\ stage = "decode" /\ IsEmpty(data) =>
       output = [k \in DOMAIN AllSentences |->
                   DecodeBy(job.crf, crf, IndexData(crf, AllSentences)[k])]

(***************************************************************************)
(* A sentence the featurizers were fitted on has a feature for each of its *)
(* n-grams and for both boundaries, and different ones differ.  A feature   *)
(* of a regular expression spans whole tokens that spell what it matches,  *)
(* and no token that does is left out.  Unigrams that are dumped can be    *)
(* loaded again and go on with the same id.                                *)
(***************************************************************************)
FeaturesDescribe ==
  /\ stage = "concat" =>
       \A k \in DOMAIN job.corpus :
         LET tokens == job.corpus[k].tokens
             fs == ToSet(RegexTransform(regexes, tokens))
             spelled(f) == Joined(SubSeq(tokens, f.from + 1, f.to + 1))
         IN  /\ \A f \in fs : f.from <= f.to /\ spelled(f) = regexes.regexes[f.id + 1]
             /\ \A t \in DOMAIN tokens : \A i \in DOMAIN regexes.regexes :
                  Joined(<<tokens[t]>>) = regexes.regexes[i] =>
                    [id |-> i - 1, value |-> 1, from |-> t - 1, to |-> t - 1] \in fs
  /\ stage = "concat" =>
    \A g \in DOMAIN Orders : \A k \in DOMAIN job.corpus :
      LET tokens == job.corpus[k].tokens
          n == Orders[g]
          fs == Transform(ngrams[g], tokens)
      IN  /\ Len(tokens) >= n => Len(fs) = Len(tokens) - n + 3
          /\ IsInjective(ngrams[g].trie)
          /\ \A i \in 2 .. Len(fs) - 1 :
               ngrams[g].trie[SubSeq(tokens, fs[i].from + 1, fs[i].to + 1)] = fs[i].id
          /\ LET unigrams == Fit(NewNGrams(1, FALSE), tokens)
             IN  LoadNGram(NewNGrams(1, FALSE), DumpNGram(unigrams)) = unigrams

(***************************************************************************)
(* Every training ends, and so does every decode command: each step leaves *)
(* less to do, sentences and lines while there are stages before the       *)
(* learning, then iterations, and chunks within one (Learn, Next, Empty).  *)
(***************************************************************************)
Ahead ==
  LET before == [fit |-> 4, concat |-> 3, write |-> 2, read |-> 1, input |-> 1]
      rest == IF stage \in {"read", "input"} THEN Len(file) - done
              ELSE Len(job.corpus) - done
  IN  CASE stage \in DOMAIN before -> <<before[stage], rest, 0>>
        [] stage = "decode" -> <<0, 1, Len(data.queue)>>
        [] stage = "pass" -> <<0, 2 * (MaxIter - Len(past)) + 1, 0>>
        [] stage = "train" -> <<0, 2 * (MaxIter - Len(past)), Len(data.queue)>>
        [] OTHER -> <<0, 0, 0>>
Below(a, b) ==
  \E k \in DOMAIN a : a[k] \in 0 .. b[k] - 1 /\ \A i \in 1 .. k - 1 : a[i] = b[i]

EveryTrainingEnds == [][stage \notin {"saved", "loaded"} => Below(Ahead', Ahead)]_vars

(***************************************************************************)
(* "Rolling back to the latest improvement point at iteration"             *)
(* (BaseSupervisedLearner.cpp:148): what is learned are the weights after  *)
(* the last pass whose loss was smaller than the one before.               *)
(***************************************************************************)
Improvements == {k \in 2 .. Len(past) : past[k].loss < past[k - 1].loss}
KeepsImprovement ==
  stage = "saved" /\ Improvements # {} => model.weight = past[Max(Improvements)].weight

(***************************************************************************)
(* "The ngram file should contains two columns", of which "the answer 0"   *)
(* is an example (text_featurizers_exports.cpp:65, 70), and dump_ngram     *)
(* writes such files: what was fitted and dumped can be loaded.            *)
(***************************************************************************)
DumpedNGramsLoad ==
  stage = "concat" =>
    \A g \in DOMAIN Orders :
      LoadNGram(NewNGrams(Orders[g], TRUE), DumpNGram(ngrams[g])) = ngrams[g]
=============================================================================

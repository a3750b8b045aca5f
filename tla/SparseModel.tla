---------------------------- MODULE SparseModel ----------------------------
(***************************************************************************)
(* The model of the linear-chain CRF (SparseLinearModel.cpp) and the data  *)
(* it is built from (DataFormatter.cpp).                                   *)
(*                                                                         *)
(* A model is a record.  features lists the features <<set, id>> in the    *)
(* order of their uids; weight maps a parameter <<uid, label>> to its      *)
(* weight, an integer here (where a parameter stands in m_WeightVector is  *)
(* left out); max is m_MaxLabelState and trans the cache of the            *)
(* transitions.  Feature set 0 holds the transitions.  Importance and text *)
(* of a word, which no learner uses, are left out.                         *)
(***************************************************************************)
EXTENDS Selecting

EdgeSet == 0
NoModel == [features |-> <<>>, weight |-> <<>>, max |-> -1, trans |-> <<>>]
EmptyModel == [NoModel EXCEPT !.max = 0]

LabelsOf(m) == 0 .. m.max - 1

-----------------------------------------------------------------------------
NoSentence == [words |-> <<>>, tags |-> <<>>]

(* A line more of a sentence, or of the sentences.                         *)
ReadLine(r, l) ==
  CASE l.kind = "comment" -> r
    [] l.kind = "tags" -> [r EXCEPT !.open.tags = @ \o l.tags]
    [] l.kind = "word" -> [r EXCEPT !.open.words =
                             Append(@, [label |-> l.label, features |-> l.features])]
    [] l.kind = "blank" /\ r.open.words = <<>> -> r
    [] OTHER -> [r EXCEPT !.data = Append(@, r.open), !.open = NoSentence]

ReadFrom(file, size, r, k) ==
  IF k # r.at \/ Len(r.data) = size THEN r ELSE [ReadLine(r, file[k]) EXCEPT !.at = k + 1]

(***************************************************************************)
(* DataFormatter::Read: sentences from the lines at and after at, until    *)
(* there are size of them.  A sentence ends with a blank line: one that is *)
(* open when the lines end is lost.                                        *)
(***************************************************************************)
Read(file, at, size) ==
  FoldLeftDomain(LAMBDA r, k : ReadFrom(file, size, r, k),
                 [data |-> <<>>, open |-> NoSentence, at |-> at], file)

-----------------------------------------------------------------------------
(* FindFeautureIdMap: 0 is INDEX_NOT_FOUND.                                *)
FindFeature(m, set, id) == SelectInSeq(m.features, LAMBDA f : f = <<set, id>>)

WeightOf(m, uid, label) ==
  IF <<uid, label>> \in DOMAIN m.weight THEN m.weight[<<uid, label>>] ELSE 0

(* Mutant: a new feature takes the first place.                            *)
InsertParameterFirst(m, set, id, label) ==
  LET uid == FindFeature(m, set, id)
      features == IF uid = 0 THEN <<<<set, id>>>> \o m.features ELSE m.features
      param == <<IF uid = 0 THEN 1 ELSE uid, label>>
  IN  [m EXCEPT !.features = features,
                !.weight = Inserted(@, param, 0)]

InsertParameter(m, set, id, label) ==
  LET uid == FindFeature(m, set, id)
      features == IF uid = 0 THEN Append(m.features, <<set, id>>) ELSE m.features
      param == <<IF uid = 0 THEN Len(features) ELSE uid, label>>
  IN  [m EXCEPT !.features = features,
                !.weight = Inserted(@, param, 0)]

(* RefreshCache: a transition without a parameter weighs nothing.          *)
RefreshCache(m) ==
  [m EXCEPT !.trans = [e \in LabelsOf(m) \X LabelsOf(m) |->
     LET uid == FindFeature(m, EdgeSet, e[1])
     IN  IF uid = 0 THEN 0 ELSE WeightOf(m, uid, e[2])]]

(* A parameter for every feature of a word with its label.                 *)
InsertWord(m, w) ==
  FoldLeft(LAMBDA x, f : InsertParameter(x, f[1], f[2], w.label), m, w.features)

(* And one for every transition.                                           *)
InsertSentence(m, s) ==
  LET edge(x, t) == IF t = 1 THEN x
                    ELSE InsertParameter(x, EdgeSet, s.words[t - 1].label, s.words[t].label)
  IN  FoldLeftDomain(LAMBDA x, t : edge(InsertWord(x, s.words[t]), t), m, s.words)

LabelsIn(data) == {w.label : w \in UNION {ToSet(s.words) : s \in ToSet(data)}}

(* Mutant: the largest label is taken for the number of labels.            *)
ExpandUncounted(m, data) ==
  RefreshCache([FoldLeft(InsertSentence, m, data) EXCEPT !.max = Max({@} \cup LabelsIn(data))])

(***************************************************************************)
(* Expand: the parameters of all the sentences.  Every call adds one to    *)
(* the number of labels.                                                   *)
(***************************************************************************)
Expand(m, data) ==
  RefreshCache([FoldLeft(InsertSentence, m, data) EXCEPT !.max = Max({@} \cup LabelsIn(data)) + 1])

(* Mutant: nothing is written back.                                        *)
BackPropagateNothing(m) == m

(* BackPropagateTransitionWeight: what training changed in the cache of    *)
(* transitions that have no parameter is dropped.                          *)
BackPropagate(m) ==
  [m EXCEPT !.weight = [p \in DOMAIN @ |->
     LET f == m.features[p[1]]
     IN  IF f[1] = EdgeSet /\ f[2] < m.max THEN m.trans[<<f[2], p[2]>>] ELSE @[p]]]

(* Reset(vec) *)
Reset(m, weight) == RefreshCache([m EXCEPT !.weight = weight])

(***************************************************************************)
(* Shrink: parameters of weight zero go, then features without parameters. *)
(* The others get new uids, in no particular order; the transitions are    *)
(* left as they were.                                                      *)
(***************************************************************************)
Shrink(m) ==
  LET live == {p \in DOMAIN m.weight : m.weight[p] # 0}
      uids == Kept([u \in 1 .. Len(m.features) |-> u], {p[1] : p \in live})
      old(p) == <<uids[p[1]], p[2]>>
  IN  [m EXCEPT !.features = [k \in 1 .. Len(uids) |-> m.features[uids[k]]],
                !.weight = [p \in {q \in (DOMAIN uids) \X LabelsOf(m) : old(q) \in live} |->
                              m.weight[old(p)]]]

-----------------------------------------------------------------------------
(* The uids by set and feature.                                            *)
ByFeature(m) ==
  LET before(f, g) == f[1] < g[1] \/ (f[1] = g[1] /\ f[2] < g[2])
      uids == DOMAIN m.features
  IN  InOrderOf(uids, {p \in uids \X uids : before(m.features[p[1]], m.features[p[2]])})

(* Mutant: the list of a feature is that of the feature's place in the     *)
(* file, not of its uid.                                                   *)
SerializeMixed(m) ==
  LET sorted == ByFeature(m)
      labels(u) == {p[2] : p \in {q \in DOMAIN m.weight : q[1] = u}}
  IN  [max |-> m.max, lists |-> [k \in 1 .. Len(sorted) |->
         [feature |-> m.features[sorted[k]],
          weights |-> [l \in labels(k) |-> m.weight[<<k, l>>]]]]]

(* Serialize: by set and feature, each with its labels.                    *)
Serialize(m) ==
  LET sorted == ByFeature(m)
      labels(u) == {p[2] : p \in {q \in DOMAIN m.weight : q[1] = u}}
  IN  [max |-> m.max, lists |-> [k \in 1 .. Len(sorted) |->
         [feature |-> m.features[sorted[k]],
          weights |-> [l \in labels(sorted[k]) |-> m.weight[<<sorted[k], l>>]]]]]

(* Deserialize refuses a weight of zero, which Serialize would write.      *)
Deserialize(file) ==
  LET n == Len(file.lists)
      params == UNION {{k} \X DOMAIN file.lists[k].weights : k \in 1 .. n}
      weight == [p \in params |-> file.lists[p[1]].weights[p[2]]]
  IN  IF \E p \in params : weight[p] = 0 THEN NoModel
      ELSE RefreshCache([features |-> [k \in 1 .. n |-> file.lists[k].feature],
                         weight |-> weight, max |-> file.max, trans |-> <<>>])

-----------------------------------------------------------------------------
Indexed(m, features) ==
  LET found == [k \in DOMAIN features |->
                  <<FindFeature(m, features[k][1], features[k][2]), features[k][3]>>]
  IN  Kept(found, {p \in ToSet(found) : p[1] # 0})

(***************************************************************************)
(* DataFormatter::IndexData: features become uids, and a sentence without  *)
(* valid tags of its own allows all the labels there are at the time.      *)
(***************************************************************************)
IndexData(m, data) ==
  LET valid(s) == ToSet(s.tags) \cap LabelsOf(m)
  IN  [k \in DOMAIN data |->
         [words |-> [t \in DOMAIN data[k].words |->
                       [label |-> data[k].words[t].label,
                        features |-> Indexed(m, data[k].words[t].features)]],
          tags |-> IF valid(data[k]) = {} THEN LabelsOf(m) ELSE valid(data[k])]]

(* SparseLinearChainCRFDecode of len words: a feature is <<word, id,       *)
(* value>>, of set 1, and words are counted from 0.                        *)
IndexFeatures(m, len, features) ==
  LET at(t) == SelectSeq(features, LAMBDA f : f[1] = t - 1)
  IN  [words |-> [t \in 1 .. len |->
                    [label |-> 0,
                     features |-> Indexed(m, [k \in DOMAIN at(t) |-> <<1, at(t)[k][2], at(t)[k][3]>>])]],
       tags |-> {}]

(* The same, of the features <<set, id>> of one word after another, how    *)
(* many of them each word has, and all of the value 1.                     *)
IndexCounted(m, counts, features) ==
  LET start(t) == FoldLeft(LAMBDA x, n : x + n, 0, SubSeq(counts, 1, t - 1))
  IN  [words |-> [t \in DOMAIN counts |->
                    [label |-> 0,
                     features |-> Indexed(m, [k \in 1 .. counts[t] |->
                                               Append(features[start(t) + k], 1)])]],
       tags |-> {}]
=============================================================================

---------------------------- MODULE TextFeatures ----------------------------
(***************************************************************************)
(* From tokens to training data: NGramFeaturizer, RegexFeaturizer,         *)
(* TextFeatureConcat and SequenceTagging.text_features_to_lccrf.           *)
(*                                                                         *)
(* An n-gram is a sequence of tokens; the code joins them by blanks, which *)
(* is the same as long as no token holds one.  A TextFeature is a record   *)
(* of its id, its value and the tokens, counted from 0, it spans.          *)
(***************************************************************************)
EXTENDS Selecting

CONSTANT Letters \* how a token is written, a sequence of characters, none a blank

ASSUME LettersAssumption ==
  \A token \in DOMAIN Letters :
    Letters[token] \in Seq(STRING) \ {<<>>} /\ " " \notin ToSet(Letters[token])

BOS_MARK == "BeginningOfDoc"
EOS_MARK == "EndOfDoc"
Marked(tokens) == <<BOS_MARK>> \o tokens \o <<EOS_MARK>>

NewNGrams(order, boundaries) ==
  [order |-> order, boundaries |-> boundaries, trie |-> <<>>, next |-> 0]

AddNGram(f, gram) ==
  IF gram \in DOMAIN f.trie THEN f
  ELSE [f EXCEPT !.trie = Inserted(@, gram, f.next), !.next = @ + 1]

(* Mutant: the last window is not fitted.                                  *)
FitShort(f, tokens) ==
  LET text == Marked(tokens)
      n == Len(text)
      inner == [j \in 1 .. Max({0, n - f.order - 2}) |-> SubSeq(text, j + 1, j + f.order)]
  IN  FoldLeft(AddNGram, f,
               IF f.boundaries
               THEN <<SubSeq(text, 1, f.order + 1)>> \o inner \o <<SubSeq(text, n - f.order, n)>>
               ELSE inner)

(***************************************************************************)
(* Fit, of at least order - 1 tokens (the code tests for order - 2, and    *)
(* then reads tokens there are not): the first tokens with the mark before *)
(* them, every window, the last tokens with the mark behind.               *)
(***************************************************************************)
Fit(f, tokens) ==
  LET text == Marked(tokens)
      n == Len(text)
      inner == [j \in 1 .. n - f.order - 1 |-> SubSeq(text, j + 1, j + f.order)]
  IN  FoldLeft(AddNGram, f,
               IF f.boundaries
               THEN <<SubSeq(text, 1, f.order + 1)>> \o inner \o <<SubSeq(text, n - f.order, n)>>
               ELSE inner)

(* Transform: the known ones among the same n-grams, with what they span.  *)
Transform(f, tokens) ==
  LET text == Marked(tokens)
      n == Len(tokens)
      window(first, last, from, to) ==
        [gram |-> SubSeq(text, first + 1, last + 1), from |-> from, to |-> to]
      bos == <<window(0, f.order, 0, f.order - 1)>>
      inner == [k \in 1 .. n - f.order + 1 |->
                  window(k, k + f.order - 1, k - 1, k + f.order - 2)]
      eos == <<window(n - f.order + 1, n + 1, n - f.order, n - 1)>>
      windows == IF f.boundaries THEN bos \o inner \o eos ELSE inner
      found == Kept(windows, {w \in ToSet(windows) : w.gram \in DOMAIN f.trie})
  IN  IF n < f.order THEN <<>>
      ELSE [k \in DOMAIN found |-> [id |-> f.trie[found[k].gram], value |-> 1,
                                    from |-> found[k].from, to |-> found[k].to]]

(* AddNGram of an id that is given.                                        *)
AddNGramId(f, gram, id) ==
  IF gram \in DOMAIN f.trie THEN f
  ELSE [f EXCEPT !.trie = Inserted(@, gram, id), !.next = Max({@, id + 1})]

(* DumpNGram: a line per n-gram, its tokens and its id between blanks; in  *)
(* which order makes no difference.                                        *)
DumpNGram(f) ==
  {[gram |-> gram, id |-> f.trie[gram]] : gram \in DOMAIN f.trie}

(***************************************************************************)
(* LoadNGram takes what stands before the first blank for the n-gram and   *)
(* the rest for the id: a second token, which is no number, throws.        *)
(***************************************************************************)
NotLoaded == <<>>
LoadNGram(f, lines) ==
  IF \E line \in lines : Len(line.gram) > 1 THEN NotLoaded
  ELSE FoldSet(LAMBDA line, x : AddNGramId(x, line.gram, line.id), f, lines)

-----------------------------------------------------------------------------
(* RegexFeaturizer keeps the text of every expression beside the compiled  *)
(* one.                                                                    *)
NewRegexes(patterns) == [patterns |-> patterns, regexes |-> patterns]

AddRegex(r, pattern) ==
  [r EXCEPT !.patterns = Append(@, pattern), !.regexes = Append(@, pattern)]

Joined(tokens) ==
  FoldLeftDomain(LAMBDA x, t : (IF t = 1 THEN <<>> ELSE Append(x, " ")) \o Letters[tokens[t]],
                 <<>>, tokens)

(***************************************************************************)
(* std::regex_iterator, for expressions that are literal texts: the places *)
(* of the matches, from the left, that do not overlap.                     *)
(***************************************************************************)
MatchesOf(regex, text) ==
  LET n == Len(regex)
      at(k) == k + n - 1 <= Len(text) /\ SubSeq(text, k, k + n - 1) = regex
  IN  FoldLeftDomain(LAMBDA x, k : IF at(k) /\ (x = <<>> \/ Last(x) + n <= k) THEN Append(x, k)
                                   ELSE x,
                     <<>>, text)

(***************************************************************************)
(* Transform, of at least one token: the matches that begin where a token  *)
(* begins and end where one ends (token_inverse_indexes).                  *)
(***************************************************************************)
RegexTransform(r, tokens) ==
  LET text == Joined(tokens)
      beginning(t) == Len(Joined(SubSeq(tokens, 1, t - 1))) + (IF t = 1 THEN 1 ELSE 2)
      from == [t \in DOMAIN tokens |-> beginning(t)]
      to == [t \in DOMAIN tokens |-> beginning(t) + Len(Letters[tokens[t]]) - 1]
      whole(i) == Kept(MatchesOf(r.regexes[i], text),
                       {k \in Range(from) : k + Len(r.regexes[i]) - 1 \in Range(to)})
      feature(i, k) == [id |-> i - 1, value |-> 1,
                        from |-> (CHOOSE t \in DOMAIN from : from[t] = k) - 1,
                        to |-> (CHOOSE t \in DOMAIN to : to[t] = k + Len(r.regexes[i]) - 1) - 1]
  IN  FlattenSeq([i \in DOMAIN r.regexes |->
                    [j \in DOMAIN whole(i) |-> feature(i, whole(i)[j])]])

(* Load of what Save wrote: a line each, of which blanks at both ends and  *)
(* empty lines are lost.                                                   *)
RegexesReloaded(r) ==
  LET blank(c) == c = " "
      trimmed(p) == LET first == SelectInSeq(p, LAMBDA c : ~blank(c))
                    IN  IF first = 0 THEN <<>>
                        ELSE SubSeq(p, first, SelectLastInSeq(p, LAMBDA c : ~blank(c)))
      lines == [i \in DOMAIN r.patterns |-> trimmed(r.patterns[i])]
  IN  FoldLeft(AddRegex, NewRegexes(<<>>), Kept(lines, ToSet(lines) \ {<<>>}))

-----------------------------------------------------------------------------
(* TextFeatureConcat: a global id for every <<group, id>>.                 *)
NewConcat(start) == [mapping |-> <<>>, next |-> start]

(* Mutant: features of different groups share an id.                       *)
ConcatKeysUngrouped(groups) ==
  FlattenSeq([g \in DOMAIN groups |-> [k \in DOMAIN groups[g] |-> <<0, groups[g][k].id>>]])

ConcatKeys(groups) ==
  FlattenSeq([g \in DOMAIN groups |-> [k \in DOMAIN groups[g] |-> <<g - 1, groups[g][k].id>>]])

ConcatFit(c, groups) ==
  LET add(x, key) == IF key \in DOMAIN x.mapping THEN x
                     ELSE [x EXCEPT !.mapping = Inserted(@, key, x.next), !.next = @ + 1]
  IN  FoldLeft(add, c, ConcatKeys(groups))

ConcatTransform(c, groups) ==
  LET keys == ConcatKeys(groups)
      features == FlattenSeq(groups)
      known == Kept([k \in DOMAIN keys |-> k], {k \in DOMAIN keys : keys[k] \in DOMAIN c.mapping})
  IN  [k \in DOMAIN known |-> [features[known[k]] EXCEPT !.id = c.mapping[keys[known[k]]]]]

(* Load of what Save wrote: the ids go on behind the largest one.          *)
ConcatReloaded(c) ==
  [c EXCEPT !.next = IF c.mapping = <<>> THEN 0 ELSE Max(Range(c.mapping)) + 1]

-----------------------------------------------------------------------------
(***************************************************************************)
(* text_features_to_lccrf: a line per token with the features that begin   *)
(* there, in the order of their ids, and a blank line.  Of several with    *)
(* the same id only the last one's value is written: the sum is set back   *)
(* to zero every time.                                                     *)
(***************************************************************************)
WordLine(label, features, t) ==
  LET here == Kept(features, {f \in ToSet(features) : f.from = t})
      ids == Ascending({here[k].id : k \in DOMAIN here})
      value(id) == here[SelectLastInSeq(here, LAMBDA f : f.id = id)].value
  IN  [kind |-> "word", label |-> label,
       features |-> [k \in DOMAIN ids |-> <<1, ids[k], value(ids[k])>>]]

AsLccrf(features, labels) ==
  Append([t \in DOMAIN labels |-> WordLine(labels[t], features, t - 1)], [kind |-> "blank"])
=============================================================================

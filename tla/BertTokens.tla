----------------------------- MODULE BertTokens -----------------------------
(***************************************************************************)
(* Tokenizer, BasicTokenizer, WordpieceTokenizer and BertTokenizer.        *)
(*                                                                         *)
(* BasicTokenizer looks at the bytes of a string.  No byte is a CJK        *)
(* character or an accent for it, so that tokenize_chinese_chars and       *)
(* strip_accents, which BertTokenizer passes on, change nothing.           *)
(***************************************************************************)
EXTENDS CharUtils

CONSTANTS
  VocabLines,    \* the lines of the vocabulary file
  Punctuation,   \* iswpunct
  Controls,      \* iswcntrl
  Suffix,        \* suffix_indicator_
  Unknown, Start, End, Pad, Mask, \* the special tokens
  CleanUps       \* what CleanUpTokenization replaces: pairs of strings

SpecialTokens == {Unknown, Pad, Start, Mask, End}

-----------------------------------------------------------------------------
(* Mutant: a line that is known already takes an id all the same.          *)
LoadVocabCounting(lines) ==
  LET step(v, line) ==
        IF RTrim(line) = <<>> THEN v
        ELSE IF RTrim(line) \in DOMAIN v.ids THEN [v EXCEPT !.next = @ + 1]
        ELSE [ids |-> With(v.ids, RTrim(line), v.next),
              tokens |-> With(v.tokens, Cardinality(DOMAIN v.ids), RTrim(line)),
              next |-> v.next + 1]
  IN  FoldLeft(step, [ids |-> <<>>, tokens |-> <<>>, next |-> 0], lines)

(* LoadVocabFile: vocab_map_ and vocab_map_reverse_.                       *)
LoadVocab(lines) ==
  LET step(v, line) ==
        IF RTrim(line) = <<>> \/ RTrim(line) \in DOMAIN v.ids THEN v
        ELSE [ids |-> With(v.ids, RTrim(line), v.next),
              tokens |-> With(v.tokens, v.next, RTrim(line)),
              next |-> v.next + 1]
  IN  FoldLeft(step, [ids |-> <<>>, tokens |-> <<>>, next |-> 0], lines)

Vocab == LoadVocab(VocabLines)

ConvertIdToToken(id) == IF id \in DOMAIN Vocab.tokens THEN Vocab.tokens[id] ELSE Unknown
ConvertTokenToId(str) == IF str \in DOMAIN Vocab.ids THEN Vocab.ids[str] ELSE -1

-----------------------------------------------------------------------------
Pushed(res, token) == IF token = <<>> THEN res ELSE Append(res, token)

(* BasicTokenizer::Tokenize.                                               *)
BasicTokenize(str, lower) ==
  LET text == IF lower THEN [k \in DOMAIN str |-> tolower(str[k])] ELSE str
      step(r, c) ==
        IF c \in Punctuation THEN [res |-> Append(Pushed(r.res, r.token), <<c>>), token |-> <<>>]
        ELSE IF c \in Blanks THEN [res |-> Pushed(r.res, r.token), token |-> <<>>]
        ELSE IF c \in Controls THEN r
        ELSE [r EXCEPT !.token = Append(@, c)]
      end == FoldLeft(step, [res |-> <<>>, token |-> <<>>], text)
  IN  Pushed(end.res, end.token)

(* Mutant: the shortest piece in the vocabulary is taken.                  *)
GreedySearchShortest(token) ==
  LET piece(p, q) == (IF p > 1 THEN Suffix ELSE <<>>) \o SubSeq(token, p, q)
      from[p \in 1 .. Len(token) + 1] ==
        LET ends == {q \in p .. Len(token) : piece(p, q) \in DOMAIN Vocab.ids}
        IN  IF p > Len(token) THEN <<>>
            ELSE IF ends = {} THEN <<Unknown>>
            ELSE <<piece(p, Min(ends))>> \o from[Min(ends) + 1]
  IN  from[1]

(***************************************************************************)
(* GreedySearch: the longest piece in the vocabulary, again and again; if  *)
(* there is none the rest becomes the unknown token, behind the pieces     *)
(* there are already.                                                      *)
(***************************************************************************)
GreedySearch(token) ==
  LET piece(p, q) == (IF p > 1 THEN Suffix ELSE <<>>) \o SubSeq(token, p, q)
      from[p \in 1 .. Len(token) + 1] ==
        LET ends == {q \in p .. Len(token) : piece(p, q) \in DOMAIN Vocab.ids}
        IN  IF p > Len(token) THEN <<>>
            ELSE IF ends = {} THEN <<Unknown>>
            ELSE <<piece(p, Max(ends))>> \o from[Max(ends) + 1]
  IN  from[1]

(* WordpieceTokenizer::Tokenize of a string: a blank ends a word, but is   *)
(* the beginning of one where none is open.                                *)
SplitAtBlanks(str) ==
  LET step(r, c) == IF c = Space /\ r.token # <<>> THEN [res |-> Append(r.res, r.token), token |-> <<>>]
                    ELSE [r EXCEPT !.token = Append(@, c)]
      end == FoldLeft(step, [res |-> <<>>, token |-> <<>>], str)
  IN  Pushed(end.res, end.token)

WordpieceTokenize(words) == FlattenSeq([k \in DOMAIN words |-> GreedySearch(words[k])])

(* BertTokenizer::Tokenize, with and without the basic tokenizer.          *)
BertTokenize(str, basic, lower) ==
  WordpieceTokenize(IF basic THEN BasicTokenize(str, lower) ELSE SplitAtBlanks(str))

-----------------------------------------------------------------------------
TruncateOne(ids, max) == IF max < 0 \/ max >= Len(ids) THEN ids ELSE SubSeq(ids, 1, max)

(* resize to a larger size adds zeros.                                     *)
Resize(s, n) == [k \in 1 .. n |-> IF k <= Len(s) THEN s[k] ELSE 0]

(* Mutant: half of an odd limit is rounded for both.                       *)
KeepHalf(n1, n2, max) ==
  LET half == max \div 2
  IN  IF n1 > half /\ n2 > half THEN <<half, half>>
      ELSE IF n2 > n1 THEN <<n1, max - n1>>
      ELSE <<max - n2, n2>>

(* How much of two inputs that are too long together is kept.              *)
Keep(n1, n2, max) ==
  LET half == max \div 2
  IN  IF n1 > half /\ n2 > half THEN <<max - half, half>>
      ELSE IF n2 > n1 THEN <<n1, max - n1>>
      ELSE <<max - n2, n2>>

(***************************************************************************)
(* Truncate of a pair.  only_first and only_second compute a length that   *)
(* is unsigned: below zero it is not noticed.  only_first then fails to    *)
(* resize to it; only_second resizes the second input to the length of the *)
(* first in any case.                                                      *)
(***************************************************************************)
TruncateFails == <<>>
Truncate(in1, in2, strategy, max) ==
  LET n1 == Len(in1)
      n2 == Len(in2)
      keep == Keep(n1, n2, max)
  IN  IF max < 0 \/ n1 + n2 <= max THEN <<in1, in2>>
      ELSE CASE strategy = "longest_first" -> <<Resize(in1, keep[1]), Resize(in2, keep[2])>>
           [] strategy = "longest_from_back" ->
                <<SubSeq(in1, n1 - keep[1] + 1, n1), SubSeq(in2, n2 - keep[2] + 1, n2)>>
           [] strategy = "only_first" ->
                IF max - n2 <= 0 THEN TruncateFails ELSE <<Resize(in1, max - n2), in2>>
           [] strategy = "only_second" ->
                IF max - n1 = 0 THEN TruncateFails ELSE <<in1, Resize(in2, n1)>>
           [] OTHER -> TruncateFails

AddSpecialToken(code) ==
  <<ConvertTokenToId(Start)>> \o code \o <<ConvertTokenToId(End)>>
AddSpecialTokens(ids1, ids2) == AddSpecialToken(ids1) \o ids2 \o <<ConvertTokenToId(End)>>

GenerateTypeId(ids) == [k \in 1 .. Len(ids) + 2 |-> 0]

(* Mutant: the token behind the first input is taken for the second's.     *)
GenerateTypeIdsEarly(ids1, ids2) ==
  [k \in 1 .. Len(ids1) + Len(ids2) + 3 |-> IF k <= Len(ids1) + 1 THEN 0 ELSE 1]

GenerateTypeIds(ids1, ids2) ==
  [k \in 1 .. Len(ids1) + Len(ids2) + 3 |-> IF k <= Len(ids1) + 2 THEN 0 ELSE 1]

(* Encode, of tokens, and EncodePlus: ids, type ids and attention mask.    *)
Encode(tokens, max) ==
  AddSpecialToken(TruncateOne([k \in DOMAIN tokens |-> ConvertTokenToId(tokens[k])], max))

EncodePlus(tokens, max) ==
  LET ids == Encode(tokens, max)
  IN  [k \in DOMAIN ids |-> <<ids[k], GenerateTypeId(ids)[k], 1>>]

Unlimited == -1
EncodePlusPair(tokens1, tokens2, strategy, max) ==
  LET codes == Truncate(Encode(tokens1, Unlimited), Encode(tokens2, Unlimited), strategy, max)
      ids == AddSpecialTokens(codes[1], codes[2])
      types == GenerateTypeIds(codes[1], codes[2])
  IN  IF codes = TruncateFails THEN TruncateFails
      ELSE [k \in DOMAIN ids |-> <<ids[k], types[k], 1>>]

-----------------------------------------------------------------------------
CleanUpTokenization(text) ==
  FoldLeft(LAMBDA t, pair : ReplaceText(t, pair[1], pair[2]), text, CleanUps)

(* Mutant: a piece is only joined to the word before it if it is long.     *)
BertDecodeStrict(code, skip, clean) ==
  LET n == Len(Suffix)
      step(texts, id) ==
        LET token == ConvertIdToToken(id)
        IN  IF skip /\ token \in SpecialTokens THEN texts
            ELSE IF texts # <<>> /\ Len(token) > n + 1 /\ IsPrefix(Suffix, token)
            THEN Append(Front(texts), Last(texts) \o SubSeq(token, n + 1, Len(token)))
            ELSE Append(texts, token)
      text == JoinStr(FoldLeft(step, <<>>, code), <<Space>>)
  IN  IF clean THEN CleanUpTokenization(text) ELSE text

(* BertTokenizer::Decode: pieces are joined to the word before them.       *)
BertDecode(code, skip, clean) ==
  LET n == Len(Suffix)
      step(texts, id) ==
        LET token == ConvertIdToToken(id)
        IN  IF skip /\ token \in SpecialTokens THEN texts
            ELSE IF texts # <<>> /\ Len(token) > n /\ IsPrefix(Suffix, token)
            THEN Append(Front(texts), Last(texts) \o SubSeq(token, n + 1, Len(token)))
            ELSE Append(texts, token)
      text == JoinStr(FoldLeft(step, <<>>, code), <<Space>>)
  IN  IF clean THEN CleanUpTokenization(text) ELSE text

(* Tokenizer::Decode, which GPT2Tokenizer inherits.                        *)
Decode(code, skip, clean) ==
  LET tokens == SelectSeq([k \in DOMAIN code |-> ConvertIdToToken(code[k])],
                          LAMBDA t : ~skip \/ t \notin SpecialTokens)
      text == JoinStr(tokens, <<Space>>)
  IN  IF clean THEN CleanUpTokenization(text) ELSE text
=============================================================================

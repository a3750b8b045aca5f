----------------------------- MODULE Tokenizers -----------------------------
(***************************************************************************)
(* A GPT-2 and a BERT tokenizer over every text up to a length: a user     *)
(* types, a character a step, and adds special tokens to the first one.    *)
(* What a text is turned into is compared with what it should be turned    *)
(* into, said without the loops of the code.                               *)
(***************************************************************************)
EXTENDS GptTokens, BertTokens

CONSTANTS
  Alphabet, \* the characters users type
  MaxText,  \* the length of a text
  Specials  \* special tokens users add: [str, id]

ASSUME TokenizersAssumption ==
  /\ MaxText \in Nat
  /\ VocabLines \in Seq(Seq(CodePoints)) /\ Suffix \in Seq(CodePoints)
  /\ Alphabet \subseteq CodePoints
  /\ Specials \subseteq [str : Seq(CodePoints), id : Nat]
  /\ Alphabet \cap Controls \subseteq Blanks
  /\ Contractions \subseteq Seq(CodePoints)

VARIABLES
  text,      \* what has been typed
  token_list \* token_list_ of the GPT2Tokenizer

vars == <<text, token_list>>

Init == text = <<>> /\ token_list = <<>>

Type(c) ==
  /\ Len(text) < MaxText
  /\ text' = Append(text, c)
  /\ UNCHANGED token_list

AddSpecial(st) ==
  /\ CanAdd(token_list, st.str, st.id)
  /\ token_list' = Add(token_list, st.str, st.id)
  /\ UNCHANGED text

(* Serialize, and Deserialize to a new tokenizer: vocabulary and merges    *)
(* are written to the model, the special tokens are not.                   *)
Reload ==
  /\ token_list # <<>>
  /\ token_list' = <<>>
  /\ UNCHANGED text

Next == Reload \/ (\E c \in Alphabet : Type(c)) \/ (\E st \in Specials : AddSpecial(st))

Spec == Init /\ [][Next]_vars

-----------------------------------------------------------------------------
(* What GPT2Tokenizer makes of a text, and BertTokenizer.                  *)
GptIds == GptVocab(Unknown)
Merges == BpeMap(GptIds)
Bytes(word) == [k \in DOMAIN word |-> IdIn(GptIds, <<word[k]>>)]

(* The files of the byte pairs: no two tokens have one id, an unknown      *)
(* token the file does not have gets an id that is free, the characters    *)
(* are tokens, and so is what a line merges two tokens to.                 *)
ASSUME GptFilesAssumption ==
  /\ IsFiniteSet(DOMAIN VocabFile) /\ VocabFile \in [DOMAIN VocabFile -> Nat]
  /\ IsInjective(VocabFile)
  /\ Unknown \in DOMAIN VocabFile \/ Cardinality(DOMAIN VocabFile) \notin Range(VocabFile)
  /\ DOMAIN VocabFile \subseteq Seq(CodePoints) /\ Unknown \in Seq(CodePoints)
  /\ \A c \in Alphabet : <<c>> \in DOMAIN VocabFile
  /\ MergeLines \in Seq(Seq(CodePoints) \X Seq(CodePoints))
  /\ \A k \in DOMAIN MergeLines :
       {MergeLines[k][1], MergeLines[k][2]} \subseteq DOMAIN GptIds
         => MergeLines[k][1] \o MergeLines[k][2] \in DOMAIN GptIds

Spelling == [id \in Range(GptIds) |-> CHOOSE t \in DOMAIN GptIds : GptIds[t] = id]

TokensOfWord(word) ==
  LET ids == bpe(Merges, Bytes(word)) IN [i \in DOMAIN ids |-> Spelling[ids[i]]]
TokensOf(str) ==
  LET words == Words(str) IN FlattenSeq([k \in DOMAIN words |-> TokensOfWord(words[k])])

GptTokenize(list, str) ==
  LET pieces == SplitBySpecialTokens(list, str)
  IN  IF \A k \in DOMAIN str : is_unicode_space(str[k]) THEN <<>>
      ELSE FlattenSeq([k \in DOMAIN pieces |->
             IF pieces[k].id # -1 THEN <<pieces[k].str>> ELSE TokensOf(pieces[k].str)])

(* GPT2Tokenizer's Encode, of tokens: the id of an added token is not      *)
(* asked for.                                                              *)
GptEncode(tokens, max) ==
  GptAddSpecialToken(TruncateOne([k \in DOMAIN tokens |-> IdIn(GptIds, tokens[k])], max))

(* The state, and that the two maps of a vocabulary are inverse.           *)
TypeOK ==
  /\ text \in Seq(Alphabet)
  /\ token_list \in Seq(Specials)
  /\ \A t \in DOMAIN Vocab.ids : ConvertIdToToken(ConvertTokenToId(t)) = t
  /\ Range(Vocab.ids) = 0 .. Cardinality(DOMAIN Vocab.ids) - 1

Spell(tokens, str) ==
  /\ FlattenSeq(tokens) =
       (IF \A k \in DOMAIN str : is_unicode_space(str[k]) THEN <<>> ELSE str)
  /\ \A k \in DOMAIN tokens :
       LET id == GptEncode(<<tokens[k]>>, Unlimited)[1]
       IN  IF id = -1 THEN \E st \in ToSet(token_list) : st.str = tokens[k]
           ELSE Spelling[id] = tokens[k]

(***************************************************************************)
(* The tokens of GPT2Tokenizer spell the text: neither the special tokens  *)
(* nor the words nor the merges lose a character (a text of nothing but    *)
(* white space has none).  No part of a text that is not a special token   *)
(* contains one.  An id stands for its token; an added token, and no other *)
(* one, has the id -1, whatever the id it was added with.                  *)
(***************************************************************************)
GptSpellsText ==
  /\ Spell(GptTokenize(token_list, text), text)
  /\ LET pieces == SplitBySpecialTokens(token_list, text)
     IN  \A k \in DOMAIN pieces : \A st \in ToSet(token_list) :
           pieces[k].id = -1 => Find(pieces[k].str, st.str, 1) = 0

(***************************************************************************)
(* The words are those of the pattern: at every place the first            *)
(* alternative that matches, as far as it can be extended                  *)
(* (gpt2_tokenizer.cpp: the comments in TryMatch; \s is category Z).       *)
(***************************************************************************)
InRanges(table, c) == \E k \in DOMAIN table : c \in table[k][1] .. table[k][2]
Letter(c) == InRanges(LetterTable, c)
Number(c) == InRanges(NumberTable, c)
Separator(c) == InRanges(SeparatorTable, c)

(***************************************************************************)
(* The tables of the categories are in ascending order, and no range       *)
(* overlaps another (str_utils.cpp: l_category_table, n_category_table,    *)
(* z_category_table); the blank is a separator and nothing else; no short  *)
(* form begins another.                                                    *)
(***************************************************************************)
ASSUME TablesAssumption ==
  /\ CodePoints \subseteq Int
  /\ \A table \in {LetterTable, NumberTable, SeparatorTable} :
       /\ table \in Seq(Int \X Int)
       /\ \A k \in DOMAIN table : table[k][1] <= table[k][2]
       /\ \A j, k \in DOMAIN table : j < k => table[j][2] < table[k][1]
  /\ Separator(Space) /\ ~Letter(Space) /\ ~Number(Space)
  /\ \A c, d \in Contractions : IsPrefix(c, d) => c = d

AllOf(s, P(_)) == s # <<>> /\ \A k \in DOMAIN s : P(s[k])
Optional(s) == IF s # <<>> /\ s[1] = Space THEN Tail(s) ELSE s

Matches(alternative, s, rest) ==
  CASE alternative = 1 -> s # <<>> /\ s[1] = Quote /\ Tail(s) \in Contractions
    [] alternative = 2 -> AllOf(Optional(s), Letter)
    [] alternative = 3 -> AllOf(Optional(s), Number)
    [] alternative = 4 -> AllOf(Optional(s), LAMBDA c : ~(Letter(c) \/ Number(c) \/ Separator(c)))
    [] alternative = 5 -> AllOf(s, Separator) /\ (rest = <<>> \/ Separator(rest[1]))
    [] alternative = 6 -> AllOf(s, Separator)

PatternWord(s) ==
  LET lengths == [a \in 1 .. 6 |->
        {n \in 1 .. Len(s) : Matches(a, SubSeq(s, 1, n), SubSeq(s, n + 1, Len(s)))}]
  IN  Max(lengths[Min({a \in 1 .. 6 : lengths[a] # {}})])

WordsOfPattern ==
  LET words == Words(text)
      behind == [k \in 1 .. Len(words) |-> FlattenSeq(SubSeq(words, k, Len(words)))]
  IN  /\ FlattenSeq(words) = text
      /\ \A k \in DOMAIN words : Len(words[k]) = PatternWord(behind[k])

(***************************************************************************)
(* Byte pairs: merging all the occurrences of a pair at once comes to the  *)
(* same as merging one pair at a time, the first of the lowest rank, until *)
(* there is none (GPT2Tokenizer::bpe).                                     *)
(***************************************************************************)
MergeOne(vals) ==
  LET pairs == {k \in 1 .. Len(vals) - 1 : <<vals[k], vals[k + 1]>> \in DOMAIN Merges}
      rank(k) == Merges[<<vals[k], vals[k + 1]>>].rank
      k0 == CHOOSE k \in pairs : \A j \in pairs :
              rank(k) < rank(j) \/ (rank(k) = rank(j) /\ k <= j)
  IN  IF pairs = {} THEN vals
      ELSE SubSeq(vals, 1, k0 - 1) \o <<Merges[<<vals[k0], vals[k0 + 1]>>].id>>
             \o SubSeq(vals, k0 + 2, Len(vals))

MergesByRank ==
  LET one[k \in 0 .. Len(text)] == IF k = 0 THEN Bytes(text) ELSE MergeOne(one[k - 1])
  IN  bpe(Merges, Bytes(text)) = one[Len(text)]

(* A text without its blanks.                                              *)
Inked(s) == FlattenSeq([k \in DOMAIN s |-> IF s[k] = Space THEN <<>> ELSE <<s[k]>>])

(***************************************************************************)
(* Decoding what BertTokenizer encoded gives the words of the text back,   *)
(* with one blank between them, if all of their pieces are known; and      *)
(* cleaning up removes nothing but blanks.                                 *)
(***************************************************************************)
BertRoundTrip ==
  \A lower \in BOOLEAN :
    LET words == BasicTokenize(text, lower)
        tokens == BertTokenize(text, TRUE, lower)
        code == Encode(tokens, Unlimited)
    IN  /\ Unknown \notin ToSet(tokens) =>
             BertDecode(code, TRUE, FALSE) = JoinStr(words, <<Space>>)
        /\ Inked(BertDecode(code, TRUE, TRUE)) = Inked(BertDecode(code, TRUE, FALSE))

(***************************************************************************)
(* What decoding tells the pieces of words from: the mark of a piece that  *)
(* continues a word begins with punctuation, which is a word by itself;    *)
(* so are no special tokens, which contain some and are longer.  A         *)
(* replacement of CleanUpTokenization takes blanks away and nothing else.  *)
(* The default tokens ("##", "[UNK]", others) and the replacements         *)
(* (" ." by ".", others) are such.                                         *)
(***************************************************************************)
ASSUME BertTokensAssumption ==
  /\ Space \in CodePoints
  /\ \A c \in Alphabet : tolower(c) \in CodePoints
  /\ Suffix # <<>> /\ Suffix[1] \in Punctuation
  /\ \A t \in SpecialTokens :
       /\ t \in Seq(CodePoints) /\ Len(t) > 1 /\ ~IsPrefix(Suffix, t)
       /\ \E k \in DOMAIN t : t[k] \in Punctuation
  /\ CleanUps \in Seq(Seq(CodePoints) \X Seq(CodePoints))
  /\ \A k \in DOMAIN CleanUps :
       CleanUps[k][1] # <<>> /\ Inked(CleanUps[k][1]) = Inked(CleanUps[k][2])

(***************************************************************************)
(* A word is cut into the longest pieces in the vocabulary, one behind the *)
(* other; they spell the word, or the unknown token stands for the rest,   *)
(* of which no piece is in the vocabulary                                  *)
(* (WordpieceTokenizer::GreedySearch).                                     *)
(***************************************************************************)
Piece(word, p, q) == (IF p > 1 THEN Suffix ELSE <<>>) \o SubSeq(word, p, q)
KnownPiece(word, p, q) == Piece(word, p, q) \in DOMAIN Vocab.ids
Longest(word, p, q) == KnownPiece(word, p, q) /\ \A r \in q + 1 .. Len(word) : ~KnownPiece(word, p, r)

(* Where the pieces of a word begin: all but the first are marked.         *)
Starts(pieces) ==
  LET start[k \in 1 .. Len(pieces) + 1] ==
        CASE k = 1 -> 1
          [] k = 2 -> 1 + Len(pieces[1])
          [] OTHER -> start[k - 1] + Len(pieces[k - 1]) - Len(Suffix)
  IN  start

CutInto(word, pieces) ==
  /\ Starts(pieces)[Len(pieces) + 1] <= Len(word) + 1
  /\ \A k \in DOMAIN pieces :
       LET p == Starts(pieces)[k] q == Starts(pieces)[k + 1] - 1
       IN  p <= q /\ pieces[k] = Piece(word, p, q) /\ Longest(word, p, q)

LongestPieces ==
  \A word \in ToSet(SplitAtBlanks(text)) :
    LET pieces == GreedySearch(word)
        spelt == Starts(pieces)[Len(pieces) + 1] = Len(word) + 1
    IN  \/ CutInto(word, pieces) /\ spelt
        \/ /\ pieces # <<>> /\ Last(pieces) = Unknown
           /\ CutInto(word, Front(pieces))
           /\ LET p == Starts(Front(pieces))[Len(pieces)]
              IN  p <= Len(word) /\ \A q \in p .. Len(word) : ~KnownPiece(word, p, q)

(***************************************************************************)
(* Tokenizer::Truncate cuts a pair that is too long to the limit exactly:  *)
(* each from its end, or its front, and none to less than half of the      *)
(* limit if it had more; or only the first, if the second leaves room for  *)
(* it, and fails if it does not.  A pair of GPT2Tokenizer then has as many *)
(* ids as the limit.  only_second promises no more than that it does not   *)
(* touch the first.                                                        *)
(***************************************************************************)
Strategies == {"longest_first", "longest_from_back", "only_first", "only_second"}

TruncatesToLimit ==
  \A cut \in 0 .. Len(text) : \A max \in 0 .. Len(text) - 1 : \A strategy \in Strategies :
    LET in1 == SubSeq(text, 1, cut)
        in2 == SubSeq(text, cut + 1, Len(text))
        out == Truncate(in1, in2, strategy, max)
        kept(before, after) ==
          after = (IF strategy = "longest_from_back"
                   THEN SubSeq(before, Len(before) - Len(after) + 1, Len(before))
                   ELSE SubSeq(before, 1, Len(after)))
        half(before, after) == Len(after) >= Min({Len(before), max \div 2})
        atLimit == /\ Len(out[1]) + Len(out[2]) = max
                   /\ kept(in1, out[1]) /\ kept(in2, out[2])
                   /\ Len(GptAddSpecialTokens(out[1], out[2])) = max
    IN  CASE strategy = "only_first" ->
               IF Len(in2) >= max THEN out = TruncateFails ELSE atLimit /\ out[2] = in2
          [] strategy = "only_second" ->
               out # TruncateFails => out[1] = in1
          [] OTHER -> atLimit /\ half(in1, out[1]) /\ half(in2, out[2])

(***************************************************************************)
(* EncodePlus of a pair: whatever was cut, the first type goes with the    *)
(* ids of the first input and the special tokens around them, the second   *)
(* with those of the second and the token behind them, and no mask is      *)
(* missing.                                                                *)
(***************************************************************************)
TypesPartInputs ==
  \A cut \in 0 .. Len(text) : \A max \in {Unlimited} \cup 0 .. Len(text) + 4 :
    \A strategy \in Strategies :
      LET tokens(s) == [k \in DOMAIN s |-> <<s[k]>>]
          first == tokens(SubSeq(text, 1, cut))
          second == tokens(SubSeq(text, cut + 1, Len(text)))
          codes == Truncate(Encode(first, Unlimited), Encode(second, Unlimited), strategy, max)
          typed(ids, type) == [k \in DOMAIN ids |-> <<ids[k], type, 1>>]
      IN  codes # TruncateFails =>
            EncodePlusPair(first, second, strategy, max) =
              typed(AddSpecialToken(codes[1]), 0)
                \o typed(codes[2] \o <<ConvertTokenToId(End)>>, 1)
=============================================================================

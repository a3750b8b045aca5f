----------------------------- MODULE GptTokens -----------------------------
(***************************************************************************)
(* GPT2Tokenizer: special tokens, the words of the pattern, byte pairs.    *)
(* The code's bytes are the characters here, so that byte_encoder_ is the  *)
(* vocabulary itself.                                                      *)
(***************************************************************************)
EXTENDS CharUtils

CONSTANTS
  Contractions, \* what may follow a quote: s, t, m, d, re, ve, ll
  VocabFile,    \* vocab.json: a function from strings to ids
  MergeLines    \* merges.txt: pairs of strings

-----------------------------------------------------------------------------
(* TryMatch: how much of s, which is not empty, the next word takes.       *)
TryMatch(s) ==
  LET n == Len(s)
      run(from, P(_)) == CHOOSE i \in from - 1 .. n :
                           (i = n \/ ~P(s[i + 1])) /\ \A j \in from .. i : P(s[j])
      \* a word of P, with the blank before it: 0 if there is none
      word(P(_)) == IF s[1] = Space /\ n > 1 /\ P(s[2]) THEN run(3, P)
                    ELSE IF P(s[1]) THEN run(2, P) ELSE 0
      short == {c \in Contractions : s[1] = Quote /\ IsPrefix(c, Tail(s))}
      blanks == run(2, is_unicode_seperator)
  IN  IF short # {} THEN 1 + Len(CHOOSE c \in short : TRUE)
      ELSE IF word(is_unicode_letter) > 0 THEN word(is_unicode_letter)
      ELSE IF word(is_unicode_number) > 0 THEN word(is_unicode_number)
      ELSE IF word(not_category_LNZ) > 0 THEN word(not_category_LNZ)
      ELSE IF blanks > 1 /\ blanks < n THEN blanks - 1 ELSE blanks

(* GetNextToken until there is none; every character is of some category.  *)
Words(s) ==
  LET from[p \in 1 .. Len(s) + 1] ==
        IF p > Len(s) THEN <<>>
        ELSE LET n == TryMatch(SubSeq(s, p, Len(s)))
             IN  <<SubSeq(s, p, p + n - 1)>> \o from[p + n]
  IN  from[1]

-----------------------------------------------------------------------------
(* Add: a special token at the end of the list; the same one with another  *)
(* id, and an empty one, throw.                                            *)
CanAdd(list, str, id) ==
  str # <<>> /\ \A k \in DOMAIN list : list[k].str = str => list[k].id = id
Add(list, str, id) ==
  IF \E k \in DOMAIN list : list[k].str = str THEN list
  ELSE Append(list, [str |-> str, id |-> id])

(* Mutant: the search position is not moved over the text in front of the  *)
(* token.                                                                  *)
SplitByBehind(str, st) ==
  LET from[p \in 1 .. Len(str) + 1] ==
        LET next == Find(str, st.str, p)
        IN  IF p > Len(str) THEN <<>>
            ELSE IF next = 0 THEN <<[str |-> SubSeq(str, p, Len(str)), id |-> -1]>>
            ELSE (IF next = p THEN <<>> ELSE <<[str |-> SubSeq(str, p, next - 1), id |-> -1]>>)
                 \o <<[str |-> st.str, id |-> st.id]>> \o from[p + Len(st.str)]
  IN  from[1]

(* The pieces of a string between the occurrences of a special token.      *)
SplitBy(str, st) ==
  LET from[p \in 1 .. Len(str) + 1] ==
        LET next == Find(str, st.str, p)
        IN  IF p > Len(str) THEN <<>>
            ELSE IF next = 0 THEN <<[str |-> SubSeq(str, p, Len(str)), id |-> -1]>>
            ELSE (IF next = p THEN <<>> ELSE <<[str |-> SubSeq(str, p, next - 1), id |-> -1]>>)
                 \o <<[str |-> st.str, id |-> st.id]>> \o from[next + Len(st.str)]
  IN  from[1]

(* SplitBySpeicalTokens: one special token after the other, in the order   *)
(* in which they were added.                                               *)
SplitBySpecialTokens(list, text) ==
  FoldLeft(LAMBDA pieces, st : FlattenSeq([k \in DOMAIN pieces |->
             IF pieces[k].id # -1 THEN <<pieces[k]>> ELSE SplitBy(pieces[k].str, st)]),
           <<[str |-> text, id |-> -1]>>, list)

-----------------------------------------------------------------------------
(* Load: the unknown token gets the next id, a merge the ids of its parts  *)
(* and its rank, which is its line.                                        *)
GptVocab(unknown) ==
  IF unknown \in DOMAIN VocabFile THEN VocabFile
  ELSE With(VocabFile, unknown, Cardinality(DOMAIN VocabFile))

IdIn(vocab, str) == IF str \in DOMAIN vocab THEN vocab[str] ELSE -1

BpeMap(vocab) ==
  LET key(line) == <<IdIn(vocab, line[1]), IdIn(vocab, line[2])>>
  IN  FoldLeftDomain(LAMBDA map, k :
        With(map, key(MergeLines[k]),
             [id |-> IdIn(vocab, MergeLines[k][1] \o MergeLines[k][2]), rank |-> k]),
        <<>>, MergeLines)

(* Mutant: the pair of the highest rank is taken.                          *)
MergeOnceLast(map, vals) ==
  LET at == {k \in 1 .. Len(vals) - 1 : <<vals[k], vals[k + 1]>> \in DOMAIN map}
      rank(k) == map[<<vals[k], vals[k + 1]>>].rank
      best == CHOOSE k \in at : \A j \in at : rank(j) <= rank(k)
      pair == <<vals[best], vals[best + 1]>>
      from[i \in 1 .. Len(vals) + 1] ==
        CASE i > Len(vals) -> <<>>
          [] i < Len(vals) /\ <<vals[i], vals[i + 1]>> = pair -> <<map[pair].id>> \o from[i + 2]
          [] OTHER -> <<vals[i]>> \o from[i + 1]
  IN  IF at = {} THEN vals ELSE from[1]

(* One turn of bpe: all the occurrences of the pair of the lowest rank.    *)
MergeOnce(map, vals) ==
  LET at == {k \in 1 .. Len(vals) - 1 : <<vals[k], vals[k + 1]>> \in DOMAIN map}
      rank(k) == map[<<vals[k], vals[k + 1]>>].rank
      best == CHOOSE k \in at : \A j \in at : rank(k) <= rank(j)
      pair == <<vals[best], vals[best + 1]>>
      from[i \in 1 .. Len(vals) + 1] ==
        CASE i > Len(vals) -> <<>>
          [] i < Len(vals) /\ <<vals[i], vals[i + 1]>> = pair -> <<map[pair].id>> \o from[i + 2]
          [] OTHER -> <<vals[i]>> \o from[i + 1]
  IN  IF at = {} THEN vals ELSE from[1]

bpe(map, vals) ==
  LET turn[k \in 0 .. Len(vals)] == IF k = 0 THEN vals ELSE MergeOnce(map, turn[k - 1])
  IN  turn[Len(vals)]

(* AddSpecialToken of one and of two inputs: there are none.               *)
GptAddSpecialToken(code) == code
GptAddSpecialTokens(ids1, ids2) == ids1 \o ids2
=============================================================================

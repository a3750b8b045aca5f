---------------------------- MODULE MCTokenizers ----------------------------
(***************************************************************************)
(* A small world of characters: two letters, the first of which begins its *)
(* range, and the capital of one; a digit; the blank, the quote, the full  *)
(* stop and the hash; a bracket, which nobody types.                       *)
(***************************************************************************)
EXTENDS Tokenizers

a == 10
s == 12
A == 20
one == 30
dot == 41
hash == 42
blank == 40
quote == 43
tab == 44
bracket == 1

Codes == 0 .. 63
LetterRanges == << <<10, 13>>, <<20, 21>>, <<50, 52>> >>
NumberRanges == << <<30, 31>>, <<55, 56>> >>
SeparatorRanges == << <<40, 40>> >>
BlankCodes == {blank, tab}
LowerCase == A :> a
ShortForms == { <<s>>, <<a, s>> }
Typed == {a, s, A, one, blank, quote, dot, hash}

GptFile ==
  LET strings == << <<a>>, <<s>>, <<A>>, <<one>>, <<blank>>, <<quote>>, <<dot>>, <<hash>>,
                    <<a, s>>, <<s, a>>, <<blank, a>>, <<blank, a, s>>, <<a, a>>, <<a, s, a, s>> >>
  IN  [t \in ToSet(strings) |-> SelectInSeq(strings, LAMBDA u : u = t) - 1]
GptMerges == << <<<<a>>, <<s>>>>, <<<<s>>, <<a>>>>, <<<<a>>, <<a>>>>, <<<<blank>>, <<a>>>>,
                <<<<blank>>, <<a, s>>>>, <<<<a, s>>, <<a, s>>>> >>

Unk == <<bracket, 2>>
Cls == <<bracket, 3>>
Sep == <<bracket, 4>>
PadT == <<bracket, 5>>
MaskT == <<bracket, 6>>
Hashes == <<hash, hash>>
BertFile ==
  << Unk, Cls, <<>>, Sep, PadT, MaskT, <<a>>, <<a, s>>, <<s>>, <<s, tab>>, <<dot>>, <<hash>>,
     <<quote>>, <<hash, hash, s>>, <<hash, hash, a, s>>, <<hash, hash, one>>, <<hash, hash, a>>,
     <<a>> >>
Puncts == {dot, hash, quote, bracket}
CleaningUp == << << <<blank, dot>>, <<dot>> >>, << <<blank, quote, blank>>, <<quote>> >>,
                 << <<blank, quote, s>>, <<quote, s>> >> >>
SpecialStrings == { [str |-> <<a, dot>>, id |-> 90], [str |-> <<dot, s>>, id |-> 91] }
=============================================================================

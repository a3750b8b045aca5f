------------------------- MODULE Tokenizers_proofs -------------------------
(***************************************************************************)
(* What the tokenizers promise for every vocabulary and every text.        *)
(***************************************************************************)
EXTENDS Tokenizers, Folding_proofs, FiniteSetTheorems, SequenceTheorems

-----------------------------------------------------------------------------
(* The text is a sequence of characters.                                   *)
TextTyped == text \in Seq(Alphabet)

LEMMA TextIsTyped == Spec => []TextTyped
<1>1. Init => TextTyped
  BY DEF Init, TextTyped
<1>2. TextTyped /\ [Next]_vars => TextTyped'
  BY DEF TextTyped, Next, vars, Type, AddSpecial, Reload
<1> QED BY <1>1, <1>2, PTL DEF Spec

-----------------------------------------------------------------------------
(* Truncation.                                                             *)
LEMMA SmallerOf ==
  ASSUME NEW m \in Int, NEW n \in Int
  PROVE  Min({m, n}) = IF m <= n THEN m ELSE n
<1>1. ASSUME NEW x \in {m, n}, \A y \in {m, n} : x <= y
      PROVE  x = IF m <= n THEN m ELSE n
  BY <1>1
<1>2. \E x \in {m, n} : \A y \in {m, n} : x <= y
  OBVIOUS
<1>3. Min({m, n}) \in {m, n} /\ \A y \in {m, n} : Min({m, n}) <= y
  BY <1>2 DEF Min
<1> QED BY <1>1, <1>3

(* What is kept of two inputs that are too long together.                  *)
KeptLengths(n1, n2, max, k1, k2) ==
  /\ k1 + k2 = max /\ k1 <= n1 /\ k2 <= n2
  /\ k1 >= n1 \/ k1 >= max \div 2
  /\ k2 >= n2 \/ k2 >= max \div 2

LEMMA WhatIsKept ==
  ASSUME NEW n1 \in Nat, NEW n2 \in Nat, NEW max \in Nat, n1 + n2 > max
  PROVE  \E k1, k2 \in Nat :
           Keep(n1, n2, max) = <<k1, k2>> /\ KeptLengths(n1, n2, max, k1, k2)
<1> DEFINE half == max \div 2
<1>1. half \in Nat /\ 2 * half <= max /\ max <= 2 * half + 1
  OBVIOUS
<1>2. CASE n1 > half /\ n2 > half
  <2>1. Keep(n1, n2, max) = <<max - half, half>>
    BY <1>2 DEF Keep
  <2> HIDE DEF half
  <2>2. max - half \in Nat /\ max - half <= n1 /\ max - half >= half /\ max - half + half = max
    BY <1>1, <1>2
  <2>3. half \in Nat /\ KeptLengths(n1, n2, max, max - half, half)
    BY <1>1, <1>2, <2>2 DEF KeptLengths, half
  <2> QED BY <2>1, <2>2, <2>3
<1>3. CASE ~(n1 > half /\ n2 > half) /\ n2 > n1
  <2>1. Keep(n1, n2, max) = <<n1, max - n1>>
    BY <1>3 DEF Keep
  <2> HIDE DEF half
  <2>2. max - n1 \in Nat /\ max - n1 <= n2 /\ max - n1 >= half /\ n1 + (max - n1) = max
    BY <1>1, <1>3
  <2> QED BY <2>1, <2>2, <1>1, <1>3 DEF half, KeptLengths
<1>4. CASE ~(n1 > half /\ n2 > half) /\ ~(n2 > n1)
  <2>1. Keep(n1, n2, max) = <<max - n2, n2>>
    BY <1>4 DEF Keep
  <2> HIDE DEF half
  <2>2. max - n2 \in Nat /\ max - n2 <= n1 /\ max - n2 >= half /\ max - n2 + n2 = max
    BY <1>1, <1>4
  <2> QED BY <2>1, <2>2, <1>1, <1>4 DEF half, KeptLengths
<1> QED BY <1>2, <1>3, <1>4

(* The beginning or the end of a sequence, of length n.                    *)
Part(s, n, strategy) ==
  IF strategy = "longest_from_back" THEN SubSeq(s, Len(s) - n + 1, Len(s)) ELSE SubSeq(s, 1, n)

LEMMA PartOf ==
  ASSUME NEW S, NEW s \in Seq(S), NEW n \in Nat, n <= Len(s), NEW strategy
  PROVE  Part(s, n, strategy) \in Seq(S) /\ Len(Part(s, n, strategy)) = n
<1>1. SubSeq(s, 1, n) \in Seq(S) /\ Len(SubSeq(s, 1, n)) = n
  BY SubSeqProperties
<1>2. SubSeq(s, Len(s) - n + 1, Len(s)) \in Seq(S) /\ Len(SubSeq(s, Len(s) - n + 1, Len(s))) = n
  BY SubSeqProperties
<1> QED BY <1>1, <1>2 DEF Part

(* Resizing to fewer tokens keeps the first ones.                          *)
LEMMA ResizeIsPart ==
  ASSUME NEW S, NEW s \in Seq(S), NEW n \in Nat, n <= Len(s)
  PROVE  Resize(s, n) = SubSeq(s, 1, n)
<1>1. Resize(s, n) = [k \in 1 .. n |-> s[k]]
  BY DEF Resize
<1> QED BY <1>1

Halving == {"longest_first", "longest_from_back"}

(* These truncate both inputs to the lengths Keep computes.                *)
LEMMA TruncateBoth ==
  ASSUME NEW S, NEW in1 \in Seq(S), NEW in2 \in Seq(S), NEW max \in Nat,
         NEW strategy \in Halving, Len(in1) + Len(in2) > max
  PROVE  \E k1, k2 \in Nat :
           /\ Truncate(in1, in2, strategy, max) = <<Part(in1, k1, strategy), Part(in2, k2, strategy)>>
           /\ KeptLengths(Len(in1), Len(in2), max, k1, k2)
<1> DEFINE n1 == Len(in1)
<1> DEFINE n2 == Len(in2)
<1>1. n1 \in Nat /\ n2 \in Nat /\ n1 + n2 > max
  OBVIOUS
<1> HIDE DEF n1, n2
<1>2. PICK k1, k2 \in Nat :
        Keep(n1, n2, max) = <<k1, k2>> /\ KeptLengths(n1, n2, max, k1, k2)
  BY <1>1, WhatIsKept
<1>3. ~(max < 0 \/ n1 + n2 <= max)
  BY <1>1
<1>4. Truncate(in1, in2, strategy, max) = <<Part(in1, k1, strategy), Part(in2, k2, strategy)>>
  <2>1. CASE strategy = "longest_first"
    <3>1. Truncate(in1, in2, strategy, max) = <<Resize(in1, k1), Resize(in2, k2)>>
      BY <1>2, <1>3, <2>1 DEF Truncate, n1, n2
    <3>2. Resize(in1, k1) = SubSeq(in1, 1, k1) /\ Resize(in2, k2) = SubSeq(in2, 1, k2)
      BY <1>2, ResizeIsPart DEF n1, n2, KeptLengths
    <3> QED BY <3>1, <3>2, <2>1 DEF Part
  <2>2. CASE strategy = "longest_from_back"
    <3>0. strategy \notin {"longest_first", "only_first", "only_second"}
      BY <2>2
    <3>1. Keep(n1, n2, max)[1] = k1 /\ Keep(n1, n2, max)[2] = k2
      BY <1>2
    <3>2. Truncate(in1, in2, strategy, max)
            = <<SubSeq(in1, n1 - Keep(n1, n2, max)[1] + 1, n1),
                SubSeq(in2, n2 - Keep(n1, n2, max)[2] + 1, n2)>>
      BY <1>3, <2>2, <3>0 DEF Truncate, n1, n2
    <3> QED BY <3>1, <3>2, <2>2 DEF Part, n1, n2
  <2> QED BY <2>1, <2>2 DEF Halving
<1> QED BY <1>2, <1>4 DEF n1, n2

(* These leave one input as it is, or fail.                                *)
LEMMA TruncateOneOf ==
  ASSUME NEW S, NEW in1 \in Seq(S), NEW in2 \in Seq(S), NEW max \in Nat,
         Len(in1) + Len(in2) > max
  PROVE  /\ Truncate(in1, in2, "only_first", max) =
              IF Len(in2) >= max THEN TruncateFails
              ELSE <<SubSeq(in1, 1, max - Len(in2)), in2>>
         /\ Truncate(in1, in2, "only_second", max) =
              IF Len(in1) = max THEN TruncateFails ELSE <<in1, Resize(in2, Len(in1))>>
<1> DEFINE n1 == Len(in1)
<1> DEFINE n2 == Len(in2)
<1>1. n1 \in Nat /\ n2 \in Nat /\ n1 + n2 > max
  OBVIOUS
<1> HIDE DEF n1, n2
<1>2. ~(max < 0 \/ n1 + n2 <= max)
  BY <1>1
<1>3. Truncate(in1, in2, "only_first", max) =
        IF max - n2 <= 0 THEN TruncateFails ELSE <<Resize(in1, max - n2), in2>>
  BY <1>2 DEF Truncate, n1, n2
<1>4. Truncate(in1, in2, "only_second", max) =
        IF max - n1 = 0 THEN TruncateFails ELSE <<in1, Resize(in2, n1)>>
  BY <1>2 DEF Truncate, n1, n2
<1>5. ASSUME ~(n2 >= max) PROVE Resize(in1, max - n2) = SubSeq(in1, 1, max - n2)
  <2>1. max - n2 \in Nat /\ max - n2 <= Len(in1)
    BY <1>1, <1>5 DEF n1
  <2> QED BY <2>1, ResizeIsPart
<1>6. (max - n2 <= 0 <=> n2 >= max) /\ (max - n1 = 0 <=> n1 = max)
  BY <1>1
<1> QED BY <1>3, <1>4, <1>5, <1>6 DEF n1, n2

(* What the codes of a text consist of; zero is what a resize fills up     *)
(* with.                                                                   *)
IdSet == {ConvertTokenToId(t) : t \in DOMAIN Vocab.ids} \cup {-1, 0}

LEMMA IdIsTyped == \A t : ConvertTokenToId(t) \in IdSet
  BY DEF ConvertTokenToId, IdSet

(* An encoded text is a sequence of ids.                                   *)
LEMMA EncodeTyped ==
  ASSUME NEW S, NEW tokens \in Seq(S)
  PROVE  Encode(tokens, Unlimited) \in Seq(IdSet)
<1> DEFINE ids == [k \in DOMAIN tokens |-> ConvertTokenToId(tokens[k])]
<1>1. ids \in Seq(IdSet)
  BY IdIsTyped
<1> HIDE DEF ids
<1>2. Encode(tokens, Unlimited) = AddSpecialToken(ids)
  BY DEF Encode, TruncateOne, Unlimited, ids
<1>3. <<ConvertTokenToId(Start)>> \in Seq(IdSet) /\ <<ConvertTokenToId(End)>> \in Seq(IdSet)
  BY IdIsTyped
<1> QED BY <1>1, <1>2, <1>3, ConcatProperties DEF AddSpecialToken

(* Truncation that does not fail gives two sequences of ids.               *)
LEMMA TruncateTyped ==
  ASSUME NEW e1 \in Seq(IdSet), NEW e2 \in Seq(IdSet), NEW max \in Int, NEW strategy \in Strategies,
         Truncate(e1, e2, strategy, max) # TruncateFails
  PROVE  \E c1, c2 \in Seq(IdSet) : Truncate(e1, e2, strategy, max) = <<c1, c2>>
<1>1. CASE max < 0 \/ Len(e1) + Len(e2) <= max
  BY <1>1 DEF Truncate
<1>2. CASE ~(max < 0 \/ Len(e1) + Len(e2) <= max)
  <2>1. max \in Nat /\ Len(e1) + Len(e2) > max /\ Len(e1) \in Nat /\ Len(e2) \in Nat
    BY <1>2
  <2>2. CASE strategy \in Halving
    <3>1. PICK k1, k2 \in Nat :
            /\ Truncate(e1, e2, strategy, max) = <<Part(e1, k1, strategy), Part(e2, k2, strategy)>>
            /\ KeptLengths(Len(e1), Len(e2), max, k1, k2)
      BY <2>1, <2>2, TruncateBoth
    <3>2. k1 <= Len(e1) /\ k2 <= Len(e2)
      BY <3>1 DEF KeptLengths
    <3>3. Part(e1, k1, strategy) \in Seq(IdSet)
      BY <3>2, PartOf
    <3>4. Part(e2, k2, strategy) \in Seq(IdSet)
      BY <3>2, PartOf
    <3> QED BY <3>1, <3>3, <3>4
  <2>3. CASE strategy = "only_first"
    <3>1. /\ Truncate(e1, e2, "only_first", max) = <<SubSeq(e1, 1, max - Len(e2)), e2>>
          /\ ~(Len(e2) >= max)
      BY <2>1, <2>3, TruncateOneOf
    <3>2. SubSeq(e1, 1, max - Len(e2)) \in Seq(IdSet)
      <4>1. max - Len(e2) \in Nat /\ max - Len(e2) <= Len(e1)
        BY <2>1, <3>1
      <4> QED BY <4>1, SubSeqProperties
    <3> QED BY <2>3, <3>1, <3>2
  <2>4. CASE strategy = "only_second"
    <3>1. Truncate(e1, e2, "only_second", max) = <<e1, Resize(e2, Len(e1))>>
      BY <2>1, <2>4, TruncateOneOf
    <3>2. Resize(e2, Len(e1)) \in Seq(IdSet)
      <4>1. 0 \in IdSet
        BY DEF IdSet
      <4>2. \A k \in 1 .. Len(e1) : (IF k <= Len(e2) THEN e2[k] ELSE 0) \in IdSet
        BY <2>1, <4>1, ElementOfSeq
      <4> QED BY <2>1, <4>2 DEF Resize
    <3> QED BY <2>4, <3>1, <3>2
  <2> QED BY <2>2, <2>3, <2>4 DEF Strategies, Halving
<1> QED BY <1>1, <1>2

(* Ids with one type and the mask.                                         *)
Typed(ids, type) == [k \in DOMAIN ids |-> <<ids[k], type, 1>>]

LEMMA TypedIs ==
  ASSUME NEW ids \in Seq(IdSet), NEW type \in {0, 1}
  PROVE  /\ Typed(ids, type) \in Seq(IdSet \X {0, 1} \X {1})
         /\ Len(Typed(ids, type)) = Len(ids)
         /\ \A k \in 1 .. Len(ids) : Typed(ids, type)[k] = <<ids[k], type, 1>>
<1>1. \A k \in 1 .. Len(ids) : <<ids[k], type, 1>> \in IdSet \X {0, 1} \X {1}
  BY ElementOfSeq
<1> QED BY <1>1 DEF Typed

PairCodes(tokens1, tokens2, strategy, max, c1, c2) ==
  Truncate(Encode(tokens1, Unlimited), Encode(tokens2, Unlimited), strategy, max) = <<c1, c2>>

PairTyped(tokens1, tokens2, strategy, max, c1, c2) ==
  EncodePlusPair(tokens1, tokens2, strategy, max) =
    Typed(AddSpecialToken(c1), 0) \o Typed(c2 \o <<ConvertTokenToId(End)>>, 1)

(* The types of a pair part behind the first input's last special token.   *)
LEMMA PairIsEncoded ==
  ASSUME NEW c1 \in Seq(IdSet), NEW c2 \in Seq(IdSet), NEW tokens1, NEW tokens2, NEW strategy, NEW max,
         PairCodes(tokens1, tokens2, strategy, max, c1, c2)
  PROVE  PairTyped(tokens1, tokens2, strategy, max, c1, c2)
<1> DEFINE end == <<ConvertTokenToId(End)>>
<1> DEFINE a == AddSpecialToken(c1)
<1> DEFINE b == c2 \o end
<1> DEFINE ids == AddSpecialTokens(c1, c2)
<1> DEFINE n == Len(c1) + Len(c2) + 3
<1> DEFINE T == IdSet \X {0, 1} \X {1}
<1>1. <<ConvertTokenToId(Start)>> \in Seq(IdSet) /\ end \in Seq(IdSet)
  BY IdIsTyped
<1>2. Len(<<ConvertTokenToId(Start)>>) = 1 /\ Len(end) = 1
  OBVIOUS
<1>3. a \in Seq(IdSet) /\ Len(a) = Len(c1) + 2
  BY <1>1, <1>2, ConcatProperties DEF AddSpecialToken
<1>4. b \in Seq(IdSet) /\ Len(b) = Len(c2) + 1
  <2> HIDE DEF end
  <2>1. c2 \o end \in Seq(IdSet) /\ Len(c2 \o end) = Len(c2) + Len(end)
    BY <1>1, ConcatProperties, Zenon
  <2> QED BY <1>2, <2>1
<1>5. ids = a \o b
  <2>1. ids = (a \o c2) \o end
    BY DEF AddSpecialTokens
  <2> HIDE DEF a, end, ids
  <2>2. (a \o c2) \o end = a \o (c2 \o end)
    <3>1. a \in Seq(IdSet) /\ end \in Seq(IdSet)
      BY <1>1, <1>3
    <3>2. c2 \in Seq(IdSet)
      OBVIOUS
    <3> QED BY <3>1, <3>2, ConcatAssociative
  <2> QED BY <2>1, <2>2
<1> HIDE DEF a, b, ids
<1>6. n \in Nat /\ Len(c1) \in Nat /\ Len(c2) \in Nat /\ Len(a) + Len(b) = n
  BY <1>3, <1>4
<1>7. ids \in Seq(IdSet) /\ Len(ids) = n
  BY <1>3, <1>4, <1>5, <1>6, ConcatProperties
<1>8. \A k \in 1 .. n : ids[k] = IF k <= Len(a) THEN a[k] ELSE b[k - Len(a)]
  BY <1>3, <1>4, <1>5, <1>6, ConcatProperties
<1> DEFINE types == GenerateTypeIds(c1, c2)
<1> DEFINE plus == [k \in DOMAIN ids |-> <<ids[k], types[k], 1>>]
<1>9. EncodePlusPair(tokens1, tokens2, strategy, max) = plus
  <2>1. <<c1, c2>> # TruncateFails
    BY DEF TruncateFails
  <2> QED BY <2>1 DEF EncodePlusPair, PairCodes, ids
<1>10. \A k \in 1 .. n : types[k] = IF k <= Len(a) THEN 0 ELSE 1
  BY <1>3 DEF GenerateTypeIds
<1> HIDE DEF types, n
<1>11. /\ plus \in Seq(T) /\ Len(plus) = n
       /\ \A k \in 1 .. n : plus[k] = <<ids[k], types[k], 1>>
  <2>1. DOMAIN ids = 1 .. n
    BY <1>6, <1>7
  <2>2. \A k \in 1 .. n : <<ids[k], types[k], 1>> \in T
    BY <1>7, <1>10, ElementOfSeq
  <2> QED BY <1>6, <2>1, <2>2
<1> DEFINE ta == Typed(a, 0)
<1> DEFINE tb == Typed(b, 1)
<1>12. /\ ta \in Seq(T) /\ Len(ta) = Len(a)
       /\ \A k \in 1 .. Len(a) : ta[k] = <<a[k], 0, 1>>
  BY <1>3, TypedIs
<1>13. /\ tb \in Seq(T) /\ Len(tb) = Len(b)
       /\ \A k \in 1 .. Len(b) : tb[k] = <<b[k], 1, 1>>
  BY <1>4, TypedIs
<1> HIDE DEF ta, tb, plus, T
<1>14. /\ ta \o tb \in Seq(T) /\ Len(ta \o tb) = n
       /\ \A k \in 1 .. n : (ta \o tb)[k] = IF k <= Len(a) THEN ta[k] ELSE tb[k - Len(a)]
  <2>0. ta \in Seq(T) /\ tb \in Seq(T)
    BY <1>12, <1>13
  <2>1. /\ ta \o tb \in Seq(T) /\ Len(ta \o tb) = Len(ta) + Len(tb)
        /\ \A k \in 1 .. Len(ta) + Len(tb) :
             (ta \o tb)[k] = IF k <= Len(ta) THEN ta[k] ELSE tb[k - Len(ta)]
    BY <2>0, ConcatProperties, Zenon
  <2>2. Len(ta) = Len(a) /\ Len(tb) = Len(b)
    BY <1>12, <1>13
  <2>3. Len(ta) + Len(tb) = n
    BY <1>6, <2>2
  <2> QED BY <2>1, <2>2, <2>3
<1>15. ASSUME NEW k \in 1 .. n PROVE plus[k] = (ta \o tb)[k]
  <2>1. CASE k <= Len(a)
    <3>1. k \in 1 .. Len(a)
      BY <1>6, <2>1
    <3> QED BY <1>8, <1>10, <1>11, <1>12, <1>14, <2>1, <3>1
  <2>2. CASE ~(k <= Len(a))
    <3>1. k - Len(a) \in 1 .. Len(b)
      BY <1>3, <1>4, <1>6, <2>2
    <3> QED BY <1>8, <1>10, <1>11, <1>13, <1>14, <2>2, <3>1
  <2> QED BY <2>1, <2>2
<1>16. plus = ta \o tb
  BY <1>11, <1>14, <1>15, SeqEqual
<1> QED BY <1>9, <1>16 DEF PairTyped, ta, tb, a, b

(* The two halves of a text, and their tokens.                             *)
LEMMA HalvesTyped ==
  ASSUME TextTyped, NEW cut \in 0 .. Len(text)
  PROVE  /\ SubSeq(text, 1, cut) \in Seq(Alphabet) /\ Len(SubSeq(text, 1, cut)) = cut
         /\ SubSeq(text, cut + 1, Len(text)) \in Seq(Alphabet)
         /\ Len(SubSeq(text, cut + 1, Len(text))) = Len(text) - cut
<1>1. text \in Seq(Alphabet) /\ Len(text) \in Nat /\ cut \in Nat /\ cut <= Len(text)
  BY DEF TextTyped
<1>2. SubSeq(text, 1, cut) \in Seq(Alphabet) /\ Len(SubSeq(text, 1, cut)) = cut
  BY <1>1, SubSeqProperties
<1>3. \A k \in cut + 1 .. Len(text) : k \in 1 .. Len(text)
  BY <1>1
<1> QED BY <1>1, <1>2, <1>3, SubSeqProperties

(* The characters of a text as tokens.                                     *)
LEMMA SingletonsTyped ==
  ASSUME NEW S, NEW s \in Seq(S)
  PROVE  [k \in DOMAIN s |-> <<s[k]>>] \in Seq(Seq(S))
<1>1. DOMAIN s = 1 .. Len(s) /\ \A k \in DOMAIN s : <<s[k]>> \in Seq(S)
  OBVIOUS
<1> QED BY <1>1

(***************************************************************************)
(* EncodePlus gives the first type to the first input of a pair and the    *)
(* special tokens around it, the second to what follows, with any          *)
(* vocabulary, any texts, limits and strategies.                           *)
(***************************************************************************)
THEOREM TypesPart == Spec => []TypesPartInputs
<1>1. TextTyped => TypesPartInputs
  <2> SUFFICES ASSUME TextTyped,
                      NEW cut \in 0 .. Len(text), NEW max \in {Unlimited} \cup 0 .. Len(text) + 4,
                      NEW strategy \in Strategies
               PROVE  LET tokens(s) == [k \in DOMAIN s |-> <<s[k]>>]
                          first == tokens(SubSeq(text, 1, cut))
                          second == tokens(SubSeq(text, cut + 1, Len(text)))
                          codes == Truncate(Encode(first, Unlimited), Encode(second, Unlimited), strategy, max)
                          typed(ids, type) == [k \in DOMAIN ids |-> <<ids[k], type, 1>>]
                      IN  codes # TruncateFails =>
                            EncodePlusPair(first, second, strategy, max) =
                              typed(AddSpecialToken(codes[1]), 0)
                                \o typed(codes[2] \o <<ConvertTokenToId(End)>>, 1)
    BY DEF TypesPartInputs
  <2> DEFINE in1 == SubSeq(text, 1, cut)
  <2> DEFINE in2 == SubSeq(text, cut + 1, Len(text))
  <2> DEFINE first == [k \in DOMAIN in1 |-> <<in1[k]>>]
  <2> DEFINE second == [k \in DOMAIN in2 |-> <<in2[k]>>]
  <2> DEFINE codes == Truncate(Encode(first, Unlimited), Encode(second, Unlimited), strategy, max)
  <2>1. in1 \in Seq(Alphabet) /\ in2 \in Seq(Alphabet)
    BY HalvesTyped
  <2> HIDE DEF in1, in2
  <2>2. first \in Seq(Seq(Alphabet)) /\ second \in Seq(Seq(Alphabet))
    BY <2>1, SingletonsTyped
  <2> HIDE DEF first, second
  <2>3. Encode(first, Unlimited) \in Seq(IdSet) /\ Encode(second, Unlimited) \in Seq(IdSet)
    BY <2>2, EncodeTyped
  <2>4. max \in Int
    BY DEF TextTyped, Unlimited
  <2>5. ASSUME codes # TruncateFails
        PROVE  EncodePlusPair(first, second, strategy, max) =
                 Typed(AddSpecialToken(codes[1]), 0) \o Typed(codes[2] \o <<ConvertTokenToId(End)>>, 1)
    <3>1. PICK c1 \in Seq(IdSet), c2 \in Seq(IdSet) : codes = <<c1, c2>>
      BY <2>3, <2>4, <2>5, TruncateTyped
    <3>2. EncodePlusPair(first, second, strategy, max) =
            Typed(AddSpecialToken(c1), 0) \o Typed(c2 \o <<ConvertTokenToId(End)>>, 1)
      <4>1. Truncate(Encode(first, Unlimited), Encode(second, Unlimited), strategy, max) = <<c1, c2>>
        BY <3>1
      <4>2. PairCodes(first, second, strategy, max, c1, c2)
        BY <4>1 DEF PairCodes
      <4>3. PairTyped(first, second, strategy, max, c1, c2)
        BY <4>2, PairIsEncoded, Zenon
      <4> QED BY <4>3 DEF PairTyped
    <3>3. codes[1] = c1 /\ codes[2] = c2
      BY <3>1
    <3> QED BY <3>2, <3>3
  <2> QED BY <2>5 DEF Typed, codes, first, second, in1, in2
<1> QED BY <1>1, TextIsTyped, PTL

(***************************************************************************)
(* Tokenizer::Truncate cuts every pair that is too long to the limit, none *)
(* of the two to less than half of it; or only the first, and fails        *)
(* exactly where the second leaves no room for it; or leaves the first as  *)
(* it is.                                                                  *)
(***************************************************************************)
THEOREM PairsAreCut == Spec => []TruncatesToLimit
<1>1. TextTyped => TruncatesToLimit
  <2> SUFFICES ASSUME TextTyped,
                      NEW cut \in 0 .. Len(text), NEW max \in 0 .. Len(text) - 1, NEW strategy \in Strategies
               PROVE  LET in1 == SubSeq(text, 1, cut)
                          in2 == SubSeq(text, cut + 1, Len(text))
                          out == Truncate(in1, in2, strategy, max)
                          kept(before, after) ==
                            after = (IF strategy = "longest_from_back"
                                     THEN SubSeq(before, Len(before) - Len(after) + 1, Len(before))
                                     ELSE SubSeq(before, 1, Len(after)))
                          half(before, after) == Len(after) >= Min({Len(before), max \div 2})
                          atLimit == /\ Len(out[1]) + Len(out[2]) = max
                                     /\ kept(in1, out[1]) /\ kept(in2, out[2])
                                     /\ Len(GptAddSpecialTokens(out[1], out[2])) = max
                      IN  CASE strategy = "only_first" ->
                                 IF Len(in2) >= max THEN out = TruncateFails ELSE atLimit /\ out[2] = in2
                            [] strategy = "only_second" ->
                                 out # TruncateFails => out[1] = in1
                            [] OTHER -> atLimit /\ half(in1, out[1]) /\ half(in2, out[2])
    BY DEF TruncatesToLimit
  <2> DEFINE in1 == SubSeq(text, 1, cut)
  <2> DEFINE in2 == SubSeq(text, cut + 1, Len(text))
  <2> DEFINE out == Truncate(in1, in2, strategy, max)
  <2> DEFINE bound == max \div 2
  <2> DEFINE atLimit == /\ Len(out[1]) + Len(out[2]) = max
                        /\ out[1] = Part(in1, Len(out[1]), strategy)
                        /\ out[2] = Part(in2, Len(out[2]), strategy)
                        /\ Len(GptAddSpecialTokens(out[1], out[2])) = max
  <2>1. max \in Nat /\ Len(text) \in Nat /\ max < Len(text) /\ cut \in Nat
    BY DEF TextTyped
  <2>2. /\ in1 \in Seq(Alphabet) /\ in2 \in Seq(Alphabet)
        /\ Len(in1) + Len(in2) > max /\ Len(in1) \in Nat /\ Len(in2) \in Nat
    <3>1. in1 \in Seq(Alphabet) /\ in2 \in Seq(Alphabet) /\ Len(in1) = cut /\ Len(in2) = Len(text) - cut
      BY HalvesTyped
    <3> HIDE DEF in1, in2
    <3> QED BY <2>1, <3>1
  <2> HIDE DEF in1, in2, out
  <2>3. ASSUME NEW k1 \in Nat, NEW k2 \in Nat, k1 <= Len(in1), k2 <= Len(in2), k1 + k2 = max,
               out = <<Part(in1, k1, strategy), Part(in2, k2, strategy)>>
        PROVE  atLimit /\ Len(out[1]) = k1 /\ Len(out[2]) = k2
    <3>1. /\ Part(in1, k1, strategy) \in Seq(Alphabet) /\ Len(Part(in1, k1, strategy)) = k1
          /\ Part(in2, k2, strategy) \in Seq(Alphabet) /\ Len(Part(in2, k2, strategy)) = k2
      BY <2>2, <2>3, PartOf
    <3>2. out[1] = Part(in1, k1, strategy) /\ out[2] = Part(in2, k2, strategy)
      BY <2>3
    <3>3. Len(GptAddSpecialTokens(out[1], out[2])) = max
      <4> DEFINE p1 == Part(in1, k1, strategy)
      <4> DEFINE p2 == Part(in2, k2, strategy)
      <4>1. GptAddSpecialTokens(out[1], out[2]) = p1 \o p2
        BY <3>2 DEF GptAddSpecialTokens
      <4>2. p1 \in Seq(Alphabet) /\ Len(p1) = k1 /\ p2 \in Seq(Alphabet) /\ Len(p2) = k2
        BY <3>1
      <4> HIDE DEF p1, p2
      <4>3. Len(p1 \o p2) = Len(p1) + Len(p2)
        BY <4>2, ConcatProperties
      <4> QED BY <2>3, <4>1, <4>2, <4>3
    <3> QED BY <2>3, <3>1, <3>2, <3>3
  <2> HIDE DEF atLimit
  <2>4. CASE strategy \in Halving
    <3>1. PICK k1, k2 \in Nat :
            /\ out = <<Part(in1, k1, strategy), Part(in2, k2, strategy)>>
            /\ KeptLengths(Len(in1), Len(in2), max, k1, k2)
      BY <2>1, <2>2, <2>4, TruncateBoth DEF out
    <3>2. atLimit /\ Len(out[1]) = k1 /\ Len(out[2]) = k2
      BY <2>3, <3>1 DEF KeptLengths
    <3>3. (k1 >= Len(in1) \/ k1 >= bound) /\ (k2 >= Len(in2) \/ k2 >= bound)
      BY <3>1 DEF KeptLengths
    <3>4. bound \in Int
      BY <2>1
    <3> HIDE DEF bound
    <3>5. Min({Len(in1), bound}) = IF Len(in1) <= bound THEN Len(in1) ELSE bound
      BY <2>2, <3>4, SmallerOf
    <3>6. Min({Len(in2), bound}) = IF Len(in2) <= bound THEN Len(in2) ELSE bound
      BY <2>2, <3>4, SmallerOf
    <3>7. Len(out[1]) >= Min({Len(in1), bound}) /\ Len(out[2]) >= Min({Len(in2), bound})
      BY <2>2, <3>2, <3>3, <3>4, <3>5, <3>6
    <3>8. strategy # "only_first" /\ strategy # "only_second"
      BY <2>4 DEF Halving
    <3> QED BY <3>2, <3>7, <3>8 DEF atLimit, Part, in1, in2, out, bound
  <2>5. CASE strategy = "only_first"
    <3>1. out = IF Len(in2) >= max THEN TruncateFails ELSE <<SubSeq(in1, 1, max - Len(in2)), in2>>
      BY <2>1, <2>2, <2>5, TruncateOneOf DEF out
    <3>2. ASSUME ~(Len(in2) >= max) PROVE atLimit /\ out[2] = in2
      <4>1. max - Len(in2) \in Nat /\ max - Len(in2) <= Len(in1) /\ (max - Len(in2)) + Len(in2) = max
        BY <2>1, <2>2, <3>2
      <4>2. in2 = SubSeq(in2, 1, Len(in2))
        BY <2>2, SubSeqFull
      <4>3. out = <<Part(in1, max - Len(in2), strategy), Part(in2, Len(in2), strategy)>>
        BY <2>5, <3>1, <3>2, <4>2 DEF Part
      <4>4. atLimit
        BY <2>2, <2>3, <4>1, <4>3
      <4> QED BY <3>1, <3>2, <4>4
    <3> QED BY <2>5, <3>1, <3>2 DEF atLimit, Part, in1, in2, out
  <2>6. CASE strategy = "only_second"
    <3>1. out = IF Len(in1) = max THEN TruncateFails ELSE <<in1, Resize(in2, Len(in1))>>
      BY <2>1, <2>2, <2>6, TruncateOneOf DEF out
    <3> QED BY <2>6, <3>1 DEF in1, in2, out
  <2> QED BY <2>4, <2>5, <2>6 DEF Strategies, Halving
<1> QED BY <1>1, TextIsTyped, PTL

-----------------------------------------------------------------------------
(***************************************************************************)
(* The two maps of a vocabulary.                                           *)
(***************************************************************************)
LineSet == {RTrim(VocabLines[k]) : k \in DOMAIN VocabLines}

MapSet == [ids : UNION {[D -> Nat] : D \in SUBSET LineSet},
           tokens : UNION {[D -> LineSet] : D \in SUBSET Nat},
           next : Nat]

OneToOne(v) ==
  /\ IsFiniteSet(DOMAIN v.ids) /\ v.next = Cardinality(DOMAIN v.ids)
  /\ DOMAIN v.tokens = 0 .. v.next - 1
  /\ \A t \in DOMAIN v.ids : v.ids[t] \in 0 .. v.next - 1 /\ v.tokens[v.ids[t]] = t
  /\ \A i \in 0 .. v.next - 1 : v.tokens[i] \in DOMAIN v.ids /\ v.ids[v.tokens[i]] = i

Vocabularies == {v \in MapSet : OneToOne(v)}

NoVocab == [ids |-> <<>>, tokens |-> <<>>, next |-> 0]

LEMMA NoVocabulary == NoVocab \in Vocabularies
<1>1. NoVocab.ids = <<>> /\ NoVocab.tokens = <<>> /\ NoVocab.next = 0
  BY DEF NoVocab
<1>2. DOMAIN <<>> = {} /\ 0 .. 0 - 1 = {}
  OBVIOUS
<1>3. NoVocab \in MapSet
  <2>1. <<>> \in [{} -> Nat] /\ <<>> \in [{} -> LineSet]
    OBVIOUS
  <2>2. <<>> \in UNION {[D -> Nat] : D \in SUBSET LineSet}
    BY <2>1
  <2>3. <<>> \in UNION {[D -> LineSet] : D \in SUBSET Nat}
    BY <2>1
  <2> QED BY <2>2, <2>3 DEF MapSet, NoVocab
<1>4. OneToOne(NoVocab)
  <2>1. IsFiniteSet({}) /\ Cardinality({}) = 0
    BY FS_EmptySet
  <2> QED BY <1>1, <1>2, <2>1 DEF OneToOne
<1> QED BY <1>3, <1>4 DEF Vocabularies

Longer(v, str) ==
  [ids |-> With(v.ids, str, v.next), tokens |-> With(v.tokens, v.next, str), next |-> v.next + 1]

(* A line that is not in the vocabulary makes it longer.                   *)
LEMMA OneMore ==
  ASSUME NEW v \in Vocabularies, NEW str \in LineSet, str \notin DOMAIN v.ids
  PROVE  Longer(v, str) \in Vocabularies
<1> DEFINE ids == With(v.ids, str, v.next)
<1> DEFINE tokens == With(v.tokens, v.next, str)
<1>1. v \in MapSet /\ OneToOne(v)
  BY DEF Vocabularies
<1>2. v.next \in Nat
  BY <1>1 DEF MapSet
<1>3. PICK D \in SUBSET LineSet : v.ids \in [D -> Nat]
  BY <1>1 DEF MapSet
<1>4. v.tokens \in [0 .. v.next - 1 -> LineSet]
  <2>1. PICK E \in SUBSET Nat : v.tokens \in [E -> LineSet]
    BY <1>1 DEF MapSet
  <2>2. E = 0 .. v.next - 1
    BY <1>1, <2>1 DEF OneToOne
  <2> QED BY <2>1, <2>2
<1>5. /\ DOMAIN ids = D \cup {str} /\ ids[str] = v.next
      /\ \A t \in D : ids[t] = v.ids[t]
  BY <1>3 DEF With
<1>6. /\ DOMAIN tokens = (0 .. v.next - 1) \cup {v.next} /\ tokens[v.next] = str
      /\ \A i \in 0 .. v.next - 1 : tokens[i] = v.tokens[i]
  <2>1. v.next \notin 0 .. v.next - 1
    BY <1>2
  <2> QED BY <1>4, <2>1 DEF With
<1>7. ids = [t \in D \cup {str} |-> ids[t]] /\ tokens = [i \in (0 .. v.next - 1) \cup {v.next} |-> tokens[i]]
  BY <1>5, <1>6 DEF With
<1>8. (0 .. v.next - 1) \cup {v.next} = 0 .. (v.next + 1) - 1
  BY <1>2
<1> HIDE DEF ids, tokens
<1>9. ids \in [D \cup {str} -> Nat] /\ tokens \in [0 .. (v.next + 1) - 1 -> LineSet]
  BY <1>2, <1>3, <1>4, <1>5, <1>6, <1>7, <1>8, ZenonT(60)
<1> DEFINE w == [ids |-> ids, tokens |-> tokens, next |-> v.next + 1]
<1>10. w.ids = ids /\ w.tokens = tokens /\ w.next = v.next + 1
  OBVIOUS
<1>11. w \in MapSet
  <2>1. ids \in UNION {[E -> Nat] : E \in SUBSET LineSet}
    BY <1>9
  <2>2. tokens \in UNION {[E -> LineSet] : E \in SUBSET Nat}
    <3>1. 0 .. (v.next + 1) - 1 \in SUBSET Nat
      BY <1>2
    <3> QED BY <1>9, <3>1
  <2> QED BY <1>2, <2>1, <2>2 DEF MapSet
<1>12. OneToOne(w)
  <2>1. IsFiniteSet(D) /\ Cardinality(D) = v.next
    BY <1>1, <1>3 DEF OneToOne
  <2>2. IsFiniteSet(D \cup {str}) /\ Cardinality(D \cup {str}) = v.next + 1
    BY <1>3, <2>1, FS_AddElement
  <2>3. \A t \in D \cup {str} : ids[t] \in 0 .. (v.next + 1) - 1 /\ tokens[ids[t]] = t
    BY <1>1, <1>2, <1>3, <1>5, <1>6 DEF OneToOne
  <2>4. \A i \in 0 .. (v.next + 1) - 1 : tokens[i] \in D \cup {str} /\ ids[tokens[i]] = i
    <3> TAKE i \in 0 .. (v.next + 1) - 1
    <3>1. CASE i = v.next
      BY <3>1, <1>5, <1>6
    <3>2. CASE i # v.next
      <4>1. i \in 0 .. v.next - 1
        BY <3>2, <1>2
      <4> QED BY <4>1, <1>1, <1>3, <1>5, <1>6 DEF OneToOne
    <3> QED BY <3>1, <3>2
  <2> HIDE DEF w
  <2> QED BY <1>5, <1>9, <1>10, <2>2, <2>3, <2>4 DEF OneToOne
<1> QED BY <1>11, <1>12 DEF Longer, Vocabularies, w, ids, tokens

(* LoadVocabFile, for every file.                                          *)
LEMMA VocabularyIsRead == VocabLines \in Seq(Seq(CodePoints)) => Vocab \in Vocabularies
<1> SUFFICES ASSUME VocabLines \in Seq(Seq(CodePoints)) PROVE Vocab \in Vocabularies
  OBVIOUS
<1> DEFINE n == Len(VocabLines)
<1> DEFINE op(v, line) ==
      IF RTrim(line) = <<>> \/ RTrim(line) \in DOMAIN v.ids THEN v
      ELSE [ids |-> With(v.ids, RTrim(line), v.next),
            tokens |-> With(v.tokens, v.next, RTrim(line)),
            next |-> v.next + 1]
<1> DEFINE V == Vocabularies
<1> DEFINE seq == VocabLines
<1> DEFINE base == NoVocab
<1> DEFINE F == [k \in 1 .. n |-> [v \in V |-> op(v, seq[k])]]
<1>0. n \in Nat /\ DOMAIN seq = 1 .. n
  OBVIOUS
<1>1. base \in V
  BY NoVocabulary
<1>2. \A k \in 1 .. n : \A v \in V : F[k][v] = op(v, seq[k])
  OBVIOUS
<1>4. ASSUME NEW k \in 1 .. n, NEW v \in V PROVE op(v, seq[k]) \in V
  <2>1. RTrim(seq[k]) \in LineSet
    BY <1>0 DEF LineSet
  <2>2. CASE RTrim(seq[k]) = <<>> \/ RTrim(seq[k]) \in DOMAIN v.ids
    BY <2>2
  <2>3. CASE ~(RTrim(seq[k]) = <<>> \/ RTrim(seq[k]) \in DOMAIN v.ids)
    <3>1. op(v, seq[k]) = Longer(v, RTrim(seq[k]))
      BY <2>3 DEF Longer
    <3> QED BY <2>1, <2>3, <3>1, OneMore
  <2> QED BY <2>2, <2>3
<1> HIDE DEF F
<1>5. Steps(F, V, 1 .. n)
  <2> HIDE DEF op, V, seq
  <2> QED BY <1>2, <1>4 DEF Steps
<1>6. \E it : it = [s \in SUBSET (1 .. n) |->
                     IF s = {} THEN base ELSE op(it[s \ {Max(s)}], seq[Max(s)])]
  <2>1. PICK it : LeftIteration(it, n, V, base, F)
    <3> HIDE DEF op, V, seq, base, n
    <3> QED BY <1>0, <1>1, <1>5, LeftIterationExists
  <2>2. ASSUME NEW s \in SUBSET (1 .. n), s # {}
        PROVE  it[s] = op(it[s \ {Max(s)}], seq[Max(s)])
    <3>1. Max(s) \in 1 .. n /\ it[s \ {Max(s)}] \in V /\ it[s] = F[Max(s)][it[s \ {Max(s)}]]
      BY <2>1, <2>2 DEF LeftIteration
    <3> HIDE DEF V, op, seq
    <3> QED BY <1>2, <3>1
  <2>3. it \in [SUBSET (1 .. n) -> V] /\ it[{}] = base
    BY <2>1 DEF LeftIteration
  <2> HIDE DEF V, op, base, seq
  <2>4. it = [s \in SUBSET (1 .. n) |->
               IF s = {} THEN base ELSE op(it[s \ {Max(s)}], seq[Max(s)])]
    BY <2>2, <2>3
  <2> QED BY <2>4
<1>7. PICK it :
        /\ it = [s \in SUBSET (1 .. n) |->
                   IF s = {} THEN base ELSE op(it[s \ {Max(s)}], seq[Max(s)])]
        /\ Vocab = it[1 .. n]
  <2>1. Vocab = FoldLeft(op, base, seq)
    BY DEF Vocab, LoadVocab, NoVocab
  <2> HIDE DEF op, base, seq, V
  <2> QED BY <1>0, <1>6, <2>1 DEF FoldLeft, MapThenFoldSet
<1>8. LeftFold(it, n, V, base, F)
  <2> HIDE DEF op, base, seq, V
  <2>1. it[{}] = base
    BY <1>7
  <2>2. ASSUME NEW s \in SUBSET (1 .. n), s # {}, it[s \ {Max(s)}] \in V
        PROVE  it[s] = F[Max(s)][it[s \ {Max(s)}]]
    <3>1. it[s] = op(it[s \ {Max(s)}], seq[Max(s)])
      BY <1>7, <2>2
    <3>2. Max(s) \in 1 .. n
      BY <1>0, <2>2, LargestOf
    <3> QED BY <1>2, <2>2, <3>1, <3>2
  <2> QED BY <2>1, <2>2 DEF LeftFold
<1>9. PICK g : LeftRun(g, n, V, base, F) /\ g[n] = it[1 .. n]
  <2> HIDE DEF n, op, V, base, seq
  <2> QED BY <1>0, <1>1, <1>5, <1>8, LeftRuns
<1> HIDE DEF n, V
<1>10. n \in 0 .. n /\ g \in [0 .. n -> V]
  BY <1>0, <1>9 DEF LeftRun
<1>11. g[n] \in V
  BY <1>10
<1> QED BY <1>7, <1>9, <1>11 DEF V

(***************************************************************************)
(* The invariant TypeOK: tokens and ids are one to one, and the ids are    *)
(* consecutive numbers from 0.                                             *)
(***************************************************************************)
LEMMA VocabularyIsOneToOne ==
  /\ \A t \in DOMAIN Vocab.ids : ConvertIdToToken(ConvertTokenToId(t)) = t
  /\ Range(Vocab.ids) = 0 .. Cardinality(DOMAIN Vocab.ids) - 1
<1>1. Vocab \in Vocabularies
  BY VocabularyIsRead, TokenizersAssumption
<1>2. OneToOne(Vocab) /\ Vocab.next \in Nat
  BY <1>1 DEF Vocabularies, MapSet
<1>3. ASSUME NEW t \in DOMAIN Vocab.ids PROVE ConvertIdToToken(ConvertTokenToId(t)) = t
  BY <1>2 DEF OneToOne, ConvertIdToToken, ConvertTokenToId
<1>4. Range(Vocab.ids) = 0 .. Vocab.next - 1
  <2>1. \A i \in Range(Vocab.ids) : i \in 0 .. Vocab.next - 1
    BY <1>2 DEF Range, OneToOne
  <2>2. \A i \in 0 .. Vocab.next - 1 : i \in Range(Vocab.ids)
    BY <1>2 DEF Range, OneToOne
  <2> QED BY <2>1, <2>2
<1> QED BY <1>2, <1>3, <1>4 DEF OneToOne

(* The variables have their types in every state of the tokenizers.        *)
THEOREM TokenizersTyped == Spec => []TypeOK
<1>1. Init => TypeOK
  BY VocabularyIsOneToOne DEF Init, TypeOK
<1>2. TypeOK /\ [Next]_vars => TypeOK'
  <2> SUFFICES ASSUME TypeOK, [Next]_vars PROVE TypeOK'
    OBVIOUS
  <2>1. text' \in Seq(Alphabet)
    BY DEF TypeOK, Next, vars, Type, AddSpecial, Reload
  <2>2. token_list' \in Seq(Specials)
    <3>1. CASE Reload
      BY <3>1 DEF Reload
    <3>2. ASSUME NEW c \in Alphabet, Type(c) PROVE token_list' = token_list
      BY <3>2 DEF Type
    <3>3. ASSUME NEW st \in Specials, AddSpecial(st)
          PROVE  token_list' \in Seq(Specials)
      <4>1. st \in [str : Seq(CodePoints), id : Nat]
        BY TokenizersAssumption
      <4>2. st = [str |-> st.str, id |-> st.id]
        BY <4>1
      <4>3. Append(token_list, st) \in Seq(Specials)
        BY DEF TypeOK
      <4>4. token_list' \in {token_list, Append(token_list, st)}
        BY <3>3, <4>2 DEF AddSpecial, Add
      <4> QED BY <4>3, <4>4 DEF TypeOK
    <3> QED BY <3>1, <3>2, <3>3 DEF Next, vars, TypeOK
  <2> QED BY <2>1, <2>2, VocabularyIsOneToOne DEF TypeOK
<1> QED BY <1>1, <1>2, PTL DEF Spec

-----------------------------------------------------------------------------
(* The pieces r cut word from p on, at the places c.                       *)
Cuts(word, p, r, c) ==
  /\ c \in [1 .. Len(r) + 1 -> 1 .. Len(word) + 1]
  /\ c[1] = p
  /\ \A k \in 1 .. Len(r) :
       /\ c[k] < c[k + 1]
       /\ r[k] = Piece(word, c[k], c[k + 1] - 1)
       /\ Longest(word, c[k], c[k + 1] - 1)

(* s is r, behind which the word ends at e, or nothing fits.               *)
Ends(word, s, r, e) ==
  \/ e = Len(word) + 1 /\ s = r
  \/ e <= Len(word) /\ s = Append(r, Unknown) /\ \A q \in e .. Len(word) : ~KnownPiece(word, e, q)

PieceSet(word) == {Piece(word, p, q) : p \in 1 .. Len(word), q \in 1 .. Len(word)} \cup {Unknown}

CutUp(word, p, s) ==
  \E r \in Seq(PieceSet(word)) : \E c : Cuts(word, p, r, c) /\ Ends(word, s, r, c[Len(r) + 1])

LEMMA PieceLength ==
  ASSUME NEW word \in Seq(CodePoints), NEW p \in 1 .. Len(word), NEW q \in p .. Len(word)
  PROVE  Len(Piece(word, p, q)) = q - p + 1 + IF p > 1 THEN Len(Suffix) ELSE 0
<1>1. \A i \in p .. q : word[i] \in CodePoints
  BY TokenizersAssumption
<1>2. SubSeq(word, p, q) \in Seq(CodePoints) /\ Len(SubSeq(word, p, q)) = q - p + 1
  BY <1>1, SubSeqProperties
<1>3. Suffix \in Seq(CodePoints) /\ <<>> \in Seq(CodePoints) /\ Len(<<>>) = 0
  BY TokenizersAssumption
<1>4. CASE p > 1
  <2>1. Piece(word, p, q) = Suffix \o SubSeq(word, p, q)
    BY <1>4 DEF Piece
  <2> QED BY <1>2, <1>3, <1>4, <2>1, ConcatProperties
<1>5. CASE ~(p > 1)
  <2>1. Piece(word, p, q) = <<>> \o SubSeq(word, p, q)
    BY <1>5 DEF Piece
  <2> QED BY <1>2, <1>3, <1>5, <2>1, ConcatProperties
<1> QED BY <1>4, <1>5

(* One piece more in front.                                                *)
LEMMA OnePieceMore ==
  ASSUME NEW word \in Seq(CodePoints), NEW p \in 1 .. Len(word), NEW q \in p .. Len(word),
         Longest(word, p, q), NEW s, CutUp(word, q + 1, s)
  PROVE  CutUp(word, p, <<Piece(word, p, q)>> \o s)
<1> DEFINE T == PieceSet(word)
<1> DEFINE x == Piece(word, p, q)
<1>0. PICK r \in Seq(T) : \E c : Cuts(word, q + 1, r, c) /\ Ends(word, s, r, c[Len(r) + 1])
  BY DEF CutUp
<1>1. PICK c : Cuts(word, q + 1, r, c) /\ Ends(word, s, r, c[Len(r) + 1])
  BY <1>0
<1> DEFINE m == Len(r)
<1> DEFINE N == Len(word) + 1
<1>2. m \in Nat /\ N \in Nat /\ q \in 1 .. Len(word) /\ p <= q /\ p \in Nat /\ q \in Nat
  OBVIOUS
<1>3. x \in T
  BY <1>2 DEF PieceSet
<1> HIDE DEF T, x
<1>4. <<x>> \o r \in Seq(T) /\ Len(<<x>> \o r) = m + 1
  BY <1>3
<1>5. (<<x>> \o r)[1] = x /\ \A k \in 2 .. m + 1 : (<<x>> \o r)[k] = r[k - 1]
  BY <1>3
<1> DEFINE t == <<x>> \o r
<1> DEFINE d == [k \in 1 .. m + 2 |-> IF k = 1 THEN p ELSE c[k - 1]]
<1>6. c \in [1 .. m + 1 -> 1 .. N] /\ c[1] = q + 1
  BY <1>1 DEF Cuts
<1> HIDE DEF m, N
<1>7. d \in [1 .. m + 2 -> 1 .. N] /\ d[1] = p /\ \A k \in 2 .. m + 2 : d[k] = c[k - 1]
  <2>1. ASSUME NEW k \in 2 .. m + 2 PROVE k - 1 \in 1 .. m + 1 /\ k # 1 /\ k \in 1 .. m + 2
    BY <1>2
  <2>2. 1 \in 1 .. m + 2 /\ p \in 1 .. N
    BY <1>2 DEF N
  <2>3. \A k \in 1 .. m + 2 : k # 1 => k - 1 \in 1 .. m + 1
    BY <1>2
  <2> QED BY <1>6, <2>1, <2>2, <2>3
<1> HIDE DEF d, t
<1>8. Cuts(word, p, t, d)
  <2>1. Len(t) = m + 1 /\ t[1] = x /\ \A k \in 2 .. m + 1 : t[k] = r[k - 1]
    BY <1>4, <1>5 DEF t
  <2>2. Len(t) + 1 = m + 2
    BY <2>1, <1>2
  <2>3. ASSUME NEW k \in 1 .. m + 1
        PROVE  /\ d[k] < d[k + 1]
               /\ t[k] = Piece(word, d[k], d[k + 1] - 1)
               /\ Longest(word, d[k], d[k + 1] - 1)
    <3>1. CASE k = 1
      <4>1. d[1] = p /\ d[2] = q + 1 /\ 2 - 1 = 1 /\ 1 + 1 = 2 /\ (q + 1) - 1 = q
        BY <1>2, <1>6, <1>7
      <4>2. d[k] = p /\ d[k + 1] = q + 1 /\ d[k + 1] - 1 = q
        BY <3>1, <4>1
      <4>3. p < q + 1
        BY <1>2
      <4> QED BY <3>1, <4>2, <4>3, <2>1 DEF x
    <3>2. CASE k # 1
      <4>1. k - 1 \in 1 .. m /\ k \in 2 .. m + 2 /\ k + 1 \in 2 .. m + 2 /\ k \in 2 .. m + 1
            /\ (k + 1) - 1 = k /\ (k - 1) + 1 = k
        BY <3>2, <1>2
      <4>2. d[k] = c[k - 1] /\ d[k + 1] = c[(k - 1) + 1] /\ t[k] = r[k - 1]
        BY <4>1, <1>7, <2>1, SMTT(30)
      <4>3. /\ c[k - 1] < c[(k - 1) + 1]
            /\ r[k - 1] = Piece(word, c[k - 1], c[(k - 1) + 1] - 1)
            /\ Longest(word, c[k - 1], c[(k - 1) + 1] - 1)
        BY <1>1, <4>1 DEF Cuts, m
      <4> QED BY <4>2, <4>3
    <3> QED BY <3>1, <3>2
  <2> QED BY <1>7, <2>1, <2>2, <2>3 DEF Cuts, N
<1>9. Ends(word, <<x>> \o s, t, d[Len(t) + 1])
  <2>1. Len(t) = m + 1 /\ Len(t) + 1 \in 2 .. m + 2 /\ (Len(t) + 1) - 1 = m + 1
    BY <1>4, <1>2 DEF t
  <2>2. d[Len(t) + 1] = c[m + 1]
    BY <2>1, <1>7
  <2>3. <<x>> \o Append(r, Unknown) = Append(<<x>> \o r, Unknown)
    <3>1. Unknown \in T
      BY DEF T, PieceSet
    <3> QED BY <1>3, <3>1
  <2> QED BY <1>1, <2>2, <2>3 DEF Ends, t, m
<1>10. t \in Seq(PieceSet(word))
  BY <1>4 DEF t, T
<1> QED BY <1>8, <1>9, <1>10 DEF CutUp, x

(* GreedySearch, of every word.                                            *)
LEMMA WordIsCutUp ==
  ASSUME NEW word \in Seq(CodePoints)
  PROVE  CutUp(word, 1, GreedySearch(word))
<1> DEFINE n == Len(word)
<1> DEFINE V == Seq(PieceSet(word))
<1> DEFINE fit(p) == {q \in p .. n : KnownPiece(word, p, q)}
<1> DEFINE F == [p \in 1 .. n |-> [v \in V |->
                   IF fit(p) = {} THEN <<Unknown>> ELSE <<Piece(word, p, Max(fit(p)))>> \o v]]
<1> DEFINE jump == [p \in 1 .. n |-> IF fit(p) = {} THEN p + 1 ELSE Max(fit(p)) + 1]
<1> DEFINE body(f) == [p \in 1 .. n + 1 |->
                   IF p > n THEN <<>>
                   ELSE IF fit(p) = {} THEN <<Unknown>>
                   ELSE <<Piece(word, p, Max(fit(p)))>> \o f[Max(fit(p)) + 1]]
<1>0. n \in Nat /\ <<>> \in V /\ <<Unknown>> \in V
  BY DEF PieceSet
<1>1. ASSUME NEW p \in 1 .. n, fit(p) # {}
      PROVE  Max(fit(p)) \in p .. n /\ Longest(word, p, Max(fit(p)))
  <2>1. fit(p) \in SUBSET (1 .. n)
    OBVIOUS
  <2>2. Max(fit(p)) \in fit(p) /\ \A q \in fit(p) : q <= Max(fit(p))
    <3> HIDE DEF fit
    <3> QED BY <1>0, <1>1, <2>1, LargestOf
  <2>3. Max(fit(p)) \in p .. n /\ KnownPiece(word, p, Max(fit(p)))
    BY <2>2
  <2>4. ASSUME NEW q \in Max(fit(p)) + 1 .. n PROVE ~KnownPiece(word, p, q)
    <3>1. q \in p .. n /\ ~(q <= Max(fit(p)))
      BY <2>3
    <3> QED BY <2>2, <3>1
  <2> QED BY <2>3, <2>4 DEF Longest
<1>2. Steps(F, V, 1 .. n)
  <2> SUFFICES ASSUME NEW p \in 1 .. n, NEW v \in V PROVE F[p][v] \in V
    BY DEF Steps
  <2>1. CASE fit(p) = {}
    BY <2>1, <1>0
  <2>2. CASE fit(p) # {}
    <3> DEFINE q == Max(fit(p))
    <3>1. q \in 1 .. n
      BY <1>1, <2>2
    <3>2. F[p][v] = <<Piece(word, p, q)>> \o v
      BY <2>2
    <3> HIDE DEF q, F, fit
    <3>3. Piece(word, p, q) \in PieceSet(word)
      BY <3>1 DEF PieceSet
    <3> QED BY <3>2, <3>3
  <2> QED BY <2>1, <2>2
<1>3. /\ jump \in [1 .. n -> Nat]
      /\ \A p \in 1 .. n : p < jump[p] /\ jump[p] <= n + 1
  <2> SUFFICES ASSUME NEW p \in 1 .. n PROVE jump[p] \in Nat /\ p < jump[p] /\ jump[p] <= n + 1
    OBVIOUS
  <2>1. CASE fit(p) = {}
    BY <2>1
  <2>2. CASE fit(p) # {}
    <3>1. jump[p] = Max(fit(p)) + 1 /\ Max(fit(p)) \in p .. n
      BY <2>2, <1>1
    <3> HIDE DEF jump, fit
    <3> QED BY <3>1
  <2> QED BY <2>1, <2>2
<1>4. PICK f : JumpRun(f, n, V, <<>>, F, jump)
  <2> HIDE DEF n, V, F, jump
  <2> QED BY <1>0, <1>2, <1>3, JumpRunExists
<1>5. f = body(f)
  <2>1. f \in [1 .. n + 1 -> V] /\ f[n + 1] = <<>>
    BY <1>4 DEF JumpRun
  <2>2. ASSUME NEW p \in 1 .. n + 1 PROVE f[p] = body(f)[p]
    <3>1. CASE p = n + 1
      BY <2>1, <3>1, <1>0
    <3>2. CASE p # n + 1
      <4>1. p \in 1 .. n /\ ~(p > n)
        BY <3>2, <1>0
      <4>2. f[p] = F[p][f[jump[p]]]
        BY <1>4, <4>1 DEF JumpRun
      <4>3. jump[p] \in 1 .. n + 1
        <5> HIDE DEF jump
        <5> QED BY <1>3, <4>1
      <4>4. f[jump[p]] \in V
        BY <2>1, <4>3
      <4>5. CASE fit(p) = {}
        BY <4>1, <4>2, <4>4, <4>5
      <4>6. CASE fit(p) # {}
        <5>1. jump[p] = Max(fit(p)) + 1
          BY <4>1, <4>6
        <5>2. F[p][f[jump[p]]] = <<Piece(word, p, Max(fit(p)))>> \o f[jump[p]]
          BY <4>1, <4>4, <4>6
        <5>3. body(f)[p] = <<Piece(word, p, Max(fit(p)))>> \o f[Max(fit(p)) + 1]
          BY <4>1, <4>6
        <5> HIDE DEF F, body, jump, fit
        <5> QED BY <4>2, <5>1, <5>2, <5>3
      <4> QED BY <4>5, <4>6
    <3> QED BY <3>1, <3>2
  <2>3. f = [p \in 1 .. n + 1 |-> f[p]]
    BY <2>1
  <2>4. body(f) = [p \in 1 .. n + 1 |-> body(f)[p]]
    OBVIOUS
  <2> HIDE DEF body
  <2> QED BY <2>2, <2>3, <2>4
<1>6. PICK from : from = body(from) /\ GreedySearch(word) = from[1]
  <2>1. \E g : g = body(g)
    <3> HIDE DEF body
    <3> QED BY <1>5
  <2>2. GreedySearch(word) = (CHOOSE g : g = body(g))[1]
    BY DEF GreedySearch, KnownPiece, Piece
  <2> HIDE DEF body
  <2> QED BY <2>1, <2>2
<1> DEFINE S == {k \in Nat : k <= n => \A p \in n + 1 - k .. n + 1 : CutUp(word, p, from[p])}
<1>7. CutUp(word, n + 1, from[n + 1])
  <2>1. from[n + 1] = <<>>
    BY <1>0, <1>6
  <2> DEFINE c == [k \in 1 .. 1 |-> n + 1]
  <2>2. <<>> \in V /\ Len(<<>>) = 0
    BY <1>0
  <2>3. Cuts(word, n + 1, <<>>, c)
    <3>1. c \in [1 .. Len(<<>>) + 1 -> 1 .. n + 1] /\ c[1] = n + 1
      BY <2>2, <1>0
    <3>2. 1 .. Len(<<>>) = {}
      BY <2>2
    <3> HIDE DEF c
    <3> QED BY <3>1, <3>2 DEF Cuts
  <2>4. Ends(word, <<>>, <<>>, c[Len(<<>>) + 1])
    BY <2>2 DEF Ends
  <2> HIDE DEF c
  <2> QED BY <2>1, <2>2, <2>3, <2>4 DEF CutUp
<1>8. ASSUME NEW p \in 1 .. n, \A q \in p + 1 .. n + 1 : CutUp(word, q, from[q])
      PROVE  CutUp(word, p, from[p])
  <2>1. CASE fit(p) = {}
    <3>1. from[p] = <<Unknown>>
      BY <1>6, <2>1
    <3> DEFINE c == [k \in 1 .. 1 |-> p]
    <3>2. <<>> \in V /\ Len(<<>>) = 0
      BY <1>0
    <3>3. Cuts(word, p, <<>>, c)
      <4>1. c \in [1 .. Len(<<>>) + 1 -> 1 .. n + 1] /\ c[1] = p
        BY <3>2, <1>0
      <4>2. 1 .. Len(<<>>) = {}
        BY <3>2
      <4> HIDE DEF c
      <4> QED BY <4>1, <4>2 DEF Cuts
    <3>4. Ends(word, <<Unknown>>, <<>>, c[Len(<<>>) + 1])
      <4>1. c[Len(<<>>) + 1] = p
        BY <3>2
      <4>2. <<Unknown>> = Append(<<>>, Unknown)
        OBVIOUS
      <4>3. \A q \in p .. n : ~KnownPiece(word, p, q)
        BY <2>1
      <4> QED BY <4>1, <4>2, <4>3 DEF Ends
    <3> HIDE DEF c
    <3> QED BY <3>1, <3>2, <3>3, <3>4 DEF CutUp
  <2>2. CASE fit(p) # {}
    <3> DEFINE q == Max(fit(p))
    <3>1. q \in p .. n /\ Longest(word, p, q)
      BY <1>1, <2>2
    <3>2. from[p] = <<Piece(word, p, q)>> \o from[q + 1]
      <4>1. p \in 1 .. n + 1 /\ ~(p > n)
        BY <1>0
      <4>2. body(from)[p] = <<Piece(word, p, q)>> \o from[q + 1]
        BY <2>2, <4>1
      <4> HIDE DEF body
      <4> QED BY <1>6, <4>2
    <3> HIDE DEF q, fit, body
    <3>3. CutUp(word, q + 1, from[q + 1])
      BY <1>8, <3>1, <1>0
    <3> QED BY <3>1, <3>2, <3>3, OnePieceMore DEF n
  <2> QED BY <2>1, <2>2
<1>9. 0 \in S
  BY <1>7, <1>0
<1>10. ASSUME NEW k \in Nat, k \in S PROVE k + 1 \in S
  <2> HIDE DEF n, body, fit
  <2> SUFFICES ASSUME k + 1 <= n, NEW p \in n + 1 - (k + 1) .. n + 1 PROVE CutUp(word, p, from[p])
    OBVIOUS
  <2>1. \A q \in n + 1 - k .. n + 1 : CutUp(word, q, from[q])
    BY <1>10, <1>0
  <2>2. CASE p \in n + 1 - k .. n + 1
    BY <2>1, <2>2
  <2>3. CASE p \notin n + 1 - k .. n + 1
    <3>1. p = n - k /\ p \in 1 .. n /\ p + 1 = n + 1 - k
      BY <2>3, <1>0
    <3> QED BY <1>8, <2>1, <3>1
  <2> QED BY <2>2, <2>3
<1> HIDE DEF S
<1>11. n \in S
  BY <1>0, <1>9, <1>10, NatSetInduction
<1>12. CutUp(word, 1, from[1])
  <2> HIDE DEF n
  <2>1. \A p \in n + 1 - n .. n + 1 : CutUp(word, p, from[p])
    BY <1>0, <1>11 DEF S
  <2>2. 1 \in n + 1 - n .. n + 1
    BY <1>0
  <2> QED BY <2>1, <2>2
<1> QED BY <1>6, <1>12

(* Where the pieces begin, as Starts finds it.                             *)
LEMMA StartsAreCuts ==
  ASSUME NEW word \in Seq(CodePoints), NEW r \in Seq(PieceSet(word)), NEW c, Cuts(word, 1, r, c)
  PROVE  Starts(r) = c
<1> DEFINE m == Len(r)
<1> DEFINE body(f) == [k \in 1 .. m + 1 |->
        CASE k = 1 -> 1
          [] k = 2 -> 1 + Len(r[1])
          [] OTHER -> f[k - 1] + Len(r[k - 1]) - Len(Suffix)]
<1>1. m \in Nat /\ Len(word) \in Nat /\ Len(Suffix) \in Nat
  BY TokenizersAssumption
<1>2. c \in [1 .. m + 1 -> 1 .. Len(word) + 1] /\ c[1] = 1
  BY DEF Cuts
<1>3. ASSUME NEW k \in 2 .. m + 1
      PROVE  /\ c[k - 1] \in 1 .. Len(word) /\ c[k] \in 2 .. Len(word) + 1
             /\ Len(r[k - 1]) = c[k] - c[k - 1] + IF c[k - 1] > 1 THEN Len(Suffix) ELSE 0
  <2>1. k - 1 \in 1 .. m /\ (k - 1) + 1 = k /\ k - 1 \in 1 .. m + 1 /\ k \in 1 .. m + 1
    BY <1>1
  <2>2. c[k - 1] < c[k] /\ r[k - 1] = Piece(word, c[k - 1], c[k] - 1)
    BY <2>1 DEF Cuts
  <2>3. c[k - 1] \in 1 .. Len(word) + 1 /\ c[k] \in 1 .. Len(word) + 1
    BY <1>2, <2>1
  <2>4. c[k - 1] \in 1 .. Len(word) /\ c[k] - 1 \in c[k - 1] .. Len(word) /\ c[k] \in 2 .. Len(word) + 1
    BY <1>1, <2>2, <2>3, SMTT(30)
  <2>5. Len(Piece(word, c[k - 1], c[k] - 1))
          = (c[k] - 1) - c[k - 1] + 1 + IF c[k - 1] > 1 THEN Len(Suffix) ELSE 0
    BY <2>4, PieceLength
  <2> DEFINE mark == IF c[k - 1] > 1 THEN Len(Suffix) ELSE 0
  <2>6. mark \in Int
    BY <1>1
  <2> HIDE DEF mark
  <2>7. Len(r[k - 1]) = (c[k] - 1) - c[k - 1] + 1 + mark
    BY <2>2, <2>5 DEF mark
  <2>8. Len(r[k - 1]) = c[k] - c[k - 1] + mark
    BY <2>3, <2>6, <2>7
  <2> QED BY <2>4, <2>8 DEF mark
<1> HIDE DEF m
<1>4. c = body(c)
  <2>1. ASSUME NEW k \in 1 .. m + 1 PROVE c[k] = body(c)[k]
    <3>1. CASE k = 1
      BY <1>2, <3>1
    <3>2. CASE k = 2
      <4>1. k \in 2 .. m + 1 /\ k - 1 = 1
        BY <3>2
      <4>2. Len(r[1]) = c[2] - 1 + 0 /\ c[2] \in Nat
        BY <1>2, <1>3, <4>1, <3>2
      <4>3. body(c)[k] = 1 + Len(r[1])
        BY <3>2
      <4> QED BY <4>2, <4>3, <3>2
    <3>3. CASE k # 1 /\ k # 2
      <4>1. k \in 2 .. m + 1 /\ k - 1 \in 2 .. m + 1
        BY <3>3, <1>1
      <4>2. c[k - 1] > 1
        BY <1>3, <4>1
      <4>3. Len(r[k - 1]) = c[k] - c[k - 1] + Len(Suffix) /\ c[k] \in Nat /\ c[k - 1] \in Nat
        BY <1>3, <4>1, <4>2
      <4>4. body(c)[k] = c[k - 1] + Len(r[k - 1]) - Len(Suffix)
        BY <3>3
      <4> HIDE DEF body
      <4> QED BY <4>3, <4>4, <1>1
    <3> QED BY <3>1, <3>2, <3>3
  <2>2. c = [k \in 1 .. m + 1 |-> c[k]]
    BY <1>2
  <2>3. body(c) = [k \in 1 .. m + 1 |-> body(c)[k]]
    OBVIOUS
  <2> HIDE DEF body
  <2> QED BY <2>1, <2>2, <2>3
<1>5. PICK f : f = body(f) /\ Starts(r) = f
  <2>1. Starts(r) = CHOOSE g : g = body(g)
    BY DEF Starts, m
  <2>2. \E g : g = body(g)
    <3> HIDE DEF body
    <3> QED BY <1>4
  <2> HIDE DEF body
  <2> QED BY <2>1, <2>2
<1> DEFINE S == {k \in Nat : k + 1 \in 1 .. m + 1 => f[k + 1] = c[k + 1]}
<1>6. 0 \in S
  BY <1>2, <1>5
<1>7. ASSUME NEW k \in 0 .. m - 1, k \in S PROVE k + 1 \in S
  <2>1. f[k + 1] = c[k + 1] /\ (k + 1) + 1 \in 1 .. m + 1 /\ ((k + 1) + 1) - 1 = k + 1
    BY <1>7, <1>1
  <2>2. body(f)[(k + 1) + 1] = body(c)[(k + 1) + 1]
    BY <2>1
  <2> HIDE DEF body
  <2> QED BY <1>4, <1>5, <2>2
<1>8. \A k \in 0 .. m : k \in S
  <2> HIDE DEF S
  <2> QED BY <1>1, <1>6, <1>7, UpTo
<1>9. \A k \in 1 .. m + 1 : f[k] = c[k]
  <2> TAKE k \in 1 .. m + 1
  <2>1. k - 1 \in 0 .. m /\ (k - 1) + 1 = k
    BY <1>1
  <2>2. k - 1 \in S
    BY <1>8, <2>1
  <2> QED BY <2>1, <2>2
<1>10. f = [k \in 1 .. m + 1 |-> f[k]] /\ c = [k \in 1 .. m + 1 |-> c[k]]
  BY <1>2, <1>5
<1> HIDE DEF body
<1> QED BY <1>5, <1>9, <1>10

(* The words of a text are sequences of its characters.                    *)
LEMMA WordsAreTyped ==
  ASSUME TextTyped
  PROVE  ToSet(SplitAtBlanks(text)) \subseteq Seq(Alphabet)
<1> DEFINE n == Len(text)
<1> DEFINE op(r, c) == IF c = Space /\ r.token # <<>> THEN [res |-> Append(r.res, r.token), token |-> <<>>]
                       ELSE [r EXCEPT !.token = Append(@, c)]
<1> DEFINE V == [res : Seq(Seq(Alphabet)), token : Seq(Alphabet)]
<1> DEFINE base == [res |-> <<>>, token |-> <<>>]
<1> DEFINE seq == text
<1> DEFINE F == [k \in 1 .. n |-> [v \in V |-> op(v, seq[k])]]
<1>0. n \in Nat /\ DOMAIN seq = 1 .. n /\ \A k \in 1 .. n : seq[k] \in Alphabet
  BY DEF TextTyped
<1>1. base \in V
  OBVIOUS
<1>2. \A k \in 1 .. n : \A v \in V : F[k][v] = op(v, seq[k])
  OBVIOUS
<1>4. ASSUME NEW k \in 1 .. n, NEW v \in V PROVE op(v, seq[k]) \in V
  <2>1. seq[k] \in Alphabet
    BY <1>0
  <2>2. v.res \in Seq(Seq(Alphabet)) /\ v.token \in Seq(Alphabet)
    OBVIOUS
  <2> HIDE DEF seq
  <2>3. Append(v.res, v.token) \in Seq(Seq(Alphabet)) /\ Append(v.token, seq[k]) \in Seq(Alphabet)
    BY <2>1, <2>2
  <2>4. CASE seq[k] = Space /\ v.token # <<>>
    <3>1. op(v, seq[k]) = [res |-> Append(v.res, v.token), token |-> <<>>]
      BY <2>4
    <3> QED BY <3>1, <2>3
  <2>5. CASE ~(seq[k] = Space /\ v.token # <<>>)
    <3>1. op(v, seq[k]) = [v EXCEPT !.token = Append(v.token, seq[k])]
      BY <2>5
    <3> QED BY <3>1, <2>3
  <2> QED BY <2>4, <2>5
<1> HIDE DEF F
<1>5. Steps(F, V, 1 .. n)
  <2> HIDE DEF op, V, seq
  <2> QED BY <1>2, <1>4 DEF Steps
<1>6. \E it : it = [s \in SUBSET (1 .. n) |->
                     IF s = {} THEN base ELSE op(it[s \ {Max(s)}], seq[Max(s)])]
  <2>1. PICK it : LeftIteration(it, n, V, base, F)
    <3> HIDE DEF op, V, seq, base, n
    <3> QED BY <1>0, <1>1, <1>5, LeftIterationExists
  <2>2. ASSUME NEW s \in SUBSET (1 .. n), s # {}
        PROVE  it[s] = op(it[s \ {Max(s)}], seq[Max(s)])
    <3>1. Max(s) \in 1 .. n /\ it[s \ {Max(s)}] \in V /\ it[s] = F[Max(s)][it[s \ {Max(s)}]]
      BY <2>1, <2>2 DEF LeftIteration
    <3> HIDE DEF V, op, seq
    <3> QED BY <1>2, <3>1
  <2>3. it \in [SUBSET (1 .. n) -> V] /\ it[{}] = base
    BY <2>1 DEF LeftIteration
  <2> HIDE DEF V, op, base, seq
  <2>4. it = [s \in SUBSET (1 .. n) |->
               IF s = {} THEN base ELSE op(it[s \ {Max(s)}], seq[Max(s)])]
    BY <2>2, <2>3
  <2> QED BY <2>4
<1> DEFINE end == FoldLeft(op, base, seq)
<1>7. PICK it :
        /\ it = [s \in SUBSET (1 .. n) |->
                   IF s = {} THEN base ELSE op(it[s \ {Max(s)}], seq[Max(s)])]
        /\ end = it[1 .. n]
  <2> HIDE DEF op, base, seq, V
  <2> QED BY <1>0, <1>6 DEF FoldLeft, MapThenFoldSet
<1>8. LeftFold(it, n, V, base, F)
  <2> HIDE DEF op, base, seq, V
  <2>1. it[{}] = base
    BY <1>7
  <2>2. ASSUME NEW s \in SUBSET (1 .. n), s # {}, it[s \ {Max(s)}] \in V
        PROVE  it[s] = F[Max(s)][it[s \ {Max(s)}]]
    <3>1. it[s] = op(it[s \ {Max(s)}], seq[Max(s)])
      BY <1>7, <2>2
    <3>2. Max(s) \in 1 .. n
      BY <1>0, <2>2, LargestOf
    <3> QED BY <1>2, <2>2, <3>1, <3>2
  <2> QED BY <2>1, <2>2 DEF LeftFold
<1>9. PICK g : LeftRun(g, n, V, base, F) /\ g[n] = it[1 .. n]
  <2> HIDE DEF n, op, V, base, seq, end
  <2> QED BY <1>0, <1>1, <1>5, <1>8, LeftRuns
<1>10. end \in V
  <2> HIDE DEF n, V, end
  <2>1. n \in 0 .. n /\ g \in [0 .. n -> V]
    BY <1>0, <1>9 DEF LeftRun
  <2> QED BY <1>7, <1>9, <2>1
<1>11. SplitAtBlanks(text) = Pushed(end.res, end.token)
  BY DEF SplitAtBlanks
<1> HIDE DEF end
<1>12. end.res \in Seq(Seq(Alphabet)) /\ Append(end.res, end.token) \in Seq(Seq(Alphabet))
  BY <1>10
<1>13. SplitAtBlanks(text) \in Seq(Seq(Alphabet))
  BY <1>11, <1>12 DEF Pushed
<1> QED BY <1>13 DEF ToSet

(***************************************************************************)
(* WordpieceTokenizer::GreedySearch takes the longest piece there is, for  *)
(* every vocabulary and every word; what it takes spells the word, or      *)
(* nothing fits where the unknown token stands.                            *)
(***************************************************************************)
THEOREM PiecesAreLongest == Spec => []LongestPieces
<1>1. ASSUME NEW word \in Seq(CodePoints), NEW pieces, pieces = GreedySearch(word)
      PROVE  \/ CutInto(word, pieces) /\ Starts(pieces)[Len(pieces) + 1] = Len(word) + 1
             \/ /\ pieces # <<>> /\ Last(pieces) = Unknown
                /\ CutInto(word, Front(pieces))
                /\ LET p == Starts(Front(pieces))[Len(pieces)]
                   IN  p <= Len(word) /\ \A q \in p .. Len(word) : ~KnownPiece(word, p, q)
  <2>0. PICK r \in Seq(PieceSet(word)) :
          \E c : Cuts(word, 1, r, c) /\ Ends(word, pieces, r, c[Len(r) + 1])
    BY <1>1, WordIsCutUp DEF CutUp
  <2>1. PICK c : Cuts(word, 1, r, c) /\ Ends(word, pieces, r, c[Len(r) + 1])
    BY <2>0
  <2> DEFINE m == Len(r)
  <2>2. Starts(r) = c /\ m \in Nat /\ Len(word) \in Nat /\ c \in [1 .. m + 1 -> 1 .. Len(word) + 1]
    <3>1. Starts(r) = c
      BY <2>1, StartsAreCuts
    <3>2. c \in [1 .. m + 1 -> 1 .. Len(word) + 1]
      BY <2>1 DEF Cuts
    <3>3. m \in Nat /\ Len(word) \in Nat
      OBVIOUS
    <3> QED BY <3>1, <3>2, <3>3
  <2>3. CutInto(word, r)
    <3>1. c[m + 1] <= Len(word) + 1
      BY <2>2
    <3>2. ASSUME NEW k \in 1 .. m
          PROVE  c[k] <= c[k + 1] - 1 /\ r[k] = Piece(word, c[k], c[k + 1] - 1) /\ Longest(word, c[k], c[k + 1] - 1)
      <4>1. k \in 1 .. m + 1 /\ k + 1 \in 1 .. m + 1
        BY <2>2
      <4>0. c[k] \in 1 .. Len(word) + 1 /\ c[k + 1] \in 1 .. Len(word) + 1
        <5> HIDE DEF m
        <5> QED BY <2>2, <4>1
      <4>2. c[k] \in Int /\ c[k + 1] \in Int /\ c[k] < c[k + 1]
        BY <2>1, <2>2, <4>0 DEF Cuts
      <4> QED BY <2>1, <4>2 DEF Cuts
    <3> QED BY <2>2, <3>1, <3>2 DEF CutInto
  <2>4. CASE c[m + 1] = Len(word) + 1 /\ pieces = r
    BY <2>2, <2>3, <2>4
  <2>5. CASE /\ c[m + 1] <= Len(word) /\ pieces = Append(r, Unknown)
             /\ \A q \in c[m + 1] .. Len(word) : ~KnownPiece(word, c[m + 1], q)
    <3> DEFINE T == PieceSet(word)
    <3>1. Unknown \in T
      BY DEF PieceSet
    <3> HIDE DEF T
    <3>2. /\ Len(pieces) = m + 1 /\ pieces # <<>>
          /\ pieces[m + 1] = Unknown
          /\ \A k \in 1 .. m : pieces[k] = r[k]
      BY <2>5, <3>1, AppendProperties DEF T
    <3>3. Last(pieces) = Unknown
      BY <3>2 DEF Last
    <3>4. Front(pieces) = r
      <4>1. Front(pieces) = SubSeq(pieces, 1, m)
        BY <3>2, <2>2 DEF Front
      <4>2. SubSeq(Append(r, Unknown), 1, m) = r
        BY <3>1 DEF T
      <4> QED BY <4>1, <4>2, <2>5
    <3> QED BY <2>2, <2>3, <2>5, <3>2, <3>3, <3>4
  <2> QED BY <2>1, <2>4, <2>5 DEF Ends
<1>2. TextTyped => LongestPieces
  <2>1. Seq(Alphabet) \subseteq Seq(CodePoints)
    BY TokenizersAssumption
  <2> QED BY <1>1, <2>1, WordsAreTyped DEF LongestPieces
<1> QED BY <1>2, TextIsTyped, PTL

-----------------------------------------------------------------------------
(* GPT2Tokenizer: a word is not empty, and the words spell the text.       *)
(* There is a run of places in G that cannot be extended.                  *)
LEMMA RunExists ==
  ASSUME NEW n \in Nat, NEW from \in 1 .. n + 1, NEW G
  PROVE  \E i \in from - 1 .. n : (i = n \/ ~(i + 1 \in G)) /\ \A j \in from .. i : j \in G
<1> DEFINE ends == {i \in from - 1 .. n : i = n \/ i + 1 \notin G}
<1>1. n \in ends /\ ends \in SUBSET Nat
  OBVIOUS
<1>2. PICK i \in ends : \A j \in ends : i <= j
  <2> HIDE DEF ends
  <2> QED BY <1>1, SmallestOf
<1>3. ASSUME NEW j \in from .. i PROVE j \in G
  <2>1. j - 1 \in from - 1 .. n /\ j - 1 # n /\ (j - 1) + 1 = j /\ ~(i <= j - 1)
    OBVIOUS
  <2>2. j - 1 \notin ends
    <3> HIDE DEF ends
    <3> QED BY <1>2, <2>1
  <2> QED BY <2>1, <2>2
<1> QED BY <1>2, <1>3

(* No character users type is behind the beginning of the last range of a  *)
(* table: there the search finds nothing.                                  *)
Covered(table) ==
  \A c \in Alphabet : table # <<>> =>
    ~(table[Len(table)][1] < c /\ c <= table[Len(table)][2])
CharactersCovered == Covered(LetterTable) /\ Covered(NumberTable)

LEMMA TableSearch ==
  ASSUME NEW table \in {LetterTable, NumberTable}, Covered(table), NEW c \in Alphabet
  PROVE  InTable(table, c) <=> InRanges(table, c)
<1> DEFINE n == Len(table)
<1> DEFINE at == {i \in 1 .. n : table[i][1] > c \/ (table[i][1] = c /\ table[i][2] >= c)}
<1>1. /\ table \in Seq(Int \X Int) /\ c \in Int /\ n \in Nat /\ DOMAIN table = 1 .. n
      /\ n >= 1 => ~(table[n][1] < c /\ c <= table[n][2])
  <2>1. table \in Seq(Int \X Int) /\ c \in Int
    BY TablesAssumption, TokenizersAssumption
  <2>2. n \in Nat /\ DOMAIN table = 1 .. n /\ (n >= 1 => table # <<>>)
    BY <2>1
  <2> QED BY <2>1, <2>2 DEF Covered
<1>2. /\ \A i \in 1 .. n : table[i][1] \in Int /\ table[i][2] \in Int /\ table[i][1] <= table[i][2]
      /\ \A i, j \in 1 .. n : i < j => table[i][2] < table[j][1]
  <2>1. /\ \A i \in DOMAIN table : table[i][1] <= table[i][2]
        /\ \A i, j \in DOMAIN table : i < j => table[i][2] < table[j][1]
    BY TablesAssumption
  <2>2. \A i \in 1 .. n : table[i] \in Int \X Int
    BY <1>1
  <2> HIDE DEF n
  <2>3. \A i \in 1 .. n : table[i][1] \in Int /\ table[i][2] \in Int
    BY <2>2
  <2> QED BY <1>1, <2>1, <2>3
<1>3. at \in SUBSET Nat
  BY <1>1
<1>4. SelectInSeq(table, LAMBDA r : r[1] > c \/ (r[1] = c /\ r[2] >= c)) = IF at = {} THEN 0 ELSE Min(at)
  BY DEF SelectInSeq
<1>5. InRanges(table, c) <=> \E i \in 1 .. n : table[i][1] <= c /\ c <= table[i][2]
  <2>1. \A i \in 1 .. n : c \in table[i][1] .. table[i][2] <=> table[i][1] <= c /\ c <= table[i][2]
    <3> HIDE DEF n
    <3> QED BY <1>1, <1>2
  <2>2. InRanges(table, c) <=> \E i \in 1 .. n : c \in table[i][1] .. table[i][2]
    BY DEF InRanges
  <2> HIDE DEF n, at
  <2> QED BY <2>1, <2>2
<1>6. CASE at = {}
  <2>1. ~InTable(table, c)
    BY <1>4, <1>6 DEF InTable
  <2>2. ASSUME NEW i \in 1 .. n, table[i][1] <= c, c <= table[i][2] PROVE FALSE
    <3>1. i \notin at
      BY <1>6
    <3> HIDE DEF n
    <3>2. table[i][1] < c
      BY <1>1, <1>2, <2>2, <3>1
    <3>3. i # n
      BY <1>1, <2>2, <3>2
    <3>4. n \in 1 .. n /\ i < n
      BY <1>1, <3>3
    <3>5. n \notin at
      BY <1>6
    <3>6. c < table[n][1]
      BY <1>1, <1>2, <2>2, <3>4
    <3> HIDE DEF at
    <3>7. n \in at
      BY <3>4, <3>6 DEF at
    <3> QED BY <3>5, <3>7
  <2> QED BY <1>5, <2>1, <2>2
<1>7. CASE at # {}
  <2> DEFINE k == Min(at)
  <2>1. k \in at /\ \A i \in at : k <= i
    <3> HIDE DEF at
    <3> QED BY <1>3, <1>7, SmallestOf
  <2>2. InTable(table, c) <=> k # 0 /\ (table[k][1] = c \/ (k > 1 /\ c <= table[k - 1][2]))
    BY <1>4, <1>7 DEF InTable
  <2>3. k \in 1 .. n /\ table[k][1] >= c /\ \A i \in 1 .. n : i < k => table[i][1] < c
    <3>1. k \in 1 .. n /\ table[k][1] >= c
      <4>1. k \in 1 .. n /\ (table[k][1] > c \/ table[k][1] = c)
        <5> HIDE DEF k
        <5> QED BY <2>1
      <4> HIDE DEF k, n
      <4> QED BY <1>1, <1>2, <4>1
    <3>2. ASSUME NEW i \in 1 .. n, i < k PROVE table[i][1] < c
      <4>1. i \notin at
        <5> HIDE DEF at
        <5> QED BY <2>1, <3>1, <3>2
      <4> HIDE DEF k
      <4> QED BY <1>1, <1>2, <4>1
    <3> HIDE DEF at, k
    <3> QED BY <3>1, <3>2
  <2> HIDE DEF at, k, n
  <2>4. ASSUME InTable(table, c) PROVE \E i \in 1 .. n : table[i][1] <= c /\ c <= table[i][2]
    <3>1. CASE table[k][1] = c
      BY <1>1, <1>2, <2>3, <3>1
    <3>2. CASE table[k][1] # c
      <4>1. k > 1 /\ c <= table[k - 1][2] /\ k - 1 \in 1 .. n /\ k - 1 < k
        BY <1>1, <2>2, <2>3, <2>4, <3>2, SMTT(30)
      <4> QED BY <1>1, <1>2, <2>3, <4>1
    <3> QED BY <3>1, <3>2
  <2>5. ASSUME NEW i \in 1 .. n, table[i][1] <= c, c <= table[i][2] PROVE InTable(table, c)
    <3>1. CASE i >= k
      <4>1. i = k
        BY <1>1, <1>2, <2>3, <2>5, <3>1, SMTT(30)
      <4> QED BY <1>1, <1>2, <2>2, <2>3, <2>5, <4>1
    <3>2. CASE i < k
      <4>1. ~(i < k - 1)
        <5>1. ASSUME i < k - 1 PROVE FALSE
          <6>1. k - 1 \in 1 .. n /\ table[i][2] < table[k - 1][1] /\ table[k - 1][1] < c
            BY <1>1, <1>2, <2>3, <5>1
          <6> QED BY <1>1, <1>2, <2>5, <6>1
        <5> QED BY <5>1
      <4>2. i = k - 1 /\ k > 1
        BY <1>1, <2>3, <3>2, <4>1
      <4> QED BY <1>1, <2>2, <2>3, <2>5, <4>2
    <3> QED BY <1>1, <2>3, <3>1, <3>2
  <2> QED BY <1>5, <2>4, <2>5
<1> QED BY <1>6, <1>7

(* The predicates on characters say what the categories say                *)
(* (UnicodeUtils).                                                         *)
LEMMA CategoriesOf ==
  ASSUME CharactersCovered, NEW c \in Alphabet
  PROVE  /\ is_unicode_letter(c) <=> Letter(c)
         /\ is_unicode_number(c) <=> Number(c)
         /\ is_unicode_seperator(c) <=> Separator(c)
<1>1. c \in CodePoints /\ c \in Int
  BY TablesAssumption, TokenizersAssumption
<1>2. is_unicode_letter(c) <=> Letter(c)
  BY <1>1, TableSearch DEF CharactersCovered, is_unicode_letter, Letters, Letter
<1>3. is_unicode_number(c) <=> Number(c)
  BY <1>1, TableSearch DEF CharactersCovered, is_unicode_number, Numbers, Number
<1>4. is_unicode_seperator(c) <=> Separator(c)
  <2>1. SeparatorTable \in Seq(Int \X Int)
    BY TablesAssumption
  <2>2. \A k \in DOMAIN SeparatorTable : SeparatorTable[k][1] \in Int /\ SeparatorTable[k][2] \in Int
    BY <2>1
  <2> QED BY <1>1, <2>2 DEF is_unicode_seperator, Separator, InRanges
<1> QED BY <1>2, <1>3, <1>4

-----------------------------------------------------------------------------
(* A run of places in G that cannot be extended, and a word of them with   *)
(* the blank before it.                                                    *)
IsRun(i, from, n, G) ==
  /\ i \in from - 1 .. n
  /\ i = n \/ i + 1 \notin G
  /\ \A j \in from .. i : j \in G

IsWord(w, s, G) ==
  IF s[1] = Space /\ Len(s) > 1 /\ 2 \in G THEN IsRun(w, 3, Len(s), G)
  ELSE IF 1 \in G THEN IsRun(w, 2, Len(s), G) ELSE w = 0

AllIn(s, k, G) == IF s[1] = Space THEN k >= 2 /\ \A j \in 2 .. k : j \in G
                  ELSE \A j \in 1 .. k : j \in G
WordLengths(s, G) == {k \in 1 .. Len(s) : AllIn(s, k, G)}

(* w is the largest of K, 0 if there is none.                              *)
IsLargest(w, K) == IF K = {} THEN w = 0 ELSE w \in K /\ \A k \in K : k <= w

LEMMA WordIsLargest ==
  ASSUME NEW s \in Seq(CodePoints), s # <<>>, NEW G, s[1] = Space => 1 \notin G,
         NEW w, IsWord(w, s, G)
  PROVE  IsLargest(w, WordLengths(s, G))
<1> DEFINE n == Len(s)
<1> DEFINE K == WordLengths(s, G)
<1>0. n \in Nat /\ n >= 1
  BY EmptySeq, LenProperties
<1>1. CASE s[1] = Space /\ n > 1 /\ 2 \in G
  <2>1. IsRun(w, 3, n, G)
    BY <1>1 DEF IsWord
  <2>2. w \in 2 .. n /\ (w = n \/ w + 1 \notin G) /\ \A j \in 3 .. w : j \in G
    BY <2>1 DEF IsRun
  <2> HIDE DEF n
  <2>3. \A j \in 2 .. w : j \in G
    BY <1>0, <1>1, <2>2
  <2>4. w \in K
    BY <1>0, <1>1, <2>2, <2>3 DEF WordLengths, AllIn, n
  <2>5. ASSUME NEW k \in K PROVE k <= w
    <3>1. k \in 1 .. n /\ \A j \in 2 .. k : j \in G
      BY <1>1 DEF WordLengths, AllIn, n
    <3> QED BY <1>0, <2>2, <3>1
  <2> QED BY <2>4, <2>5 DEF IsLargest
<1>2. CASE s[1] = Space /\ ~(n > 1 /\ 2 \in G)
  <2>1. w = 0
    BY <1>2 DEF IsWord
  <2>2. ASSUME NEW k \in K PROVE FALSE
    <3>1. k \in 1 .. n /\ k >= 2 /\ \A j \in 2 .. k : j \in G
      BY <1>2 DEF WordLengths, AllIn
    <3> HIDE DEF K, n
    <3> QED BY <1>0, <1>2, <3>1
  <2> QED BY <2>1, <2>2 DEF IsLargest
<1>3. CASE s[1] # Space /\ 1 \in G
  <2>1. IsRun(w, 2, n, G)
    BY <1>3 DEF IsWord
  <2>2. w \in 1 .. n /\ (w = n \/ w + 1 \notin G) /\ \A j \in 2 .. w : j \in G
    BY <2>1 DEF IsRun
  <2> HIDE DEF n
  <2>3. \A j \in 1 .. w : j \in G
    BY <1>0, <1>3, <2>2
  <2>4. w \in K
    BY <1>0, <1>3, <2>2, <2>3 DEF WordLengths, AllIn, n
  <2>5. ASSUME NEW k \in K PROVE k <= w
    <3>1. k \in 1 .. n /\ \A j \in 1 .. k : j \in G
      BY <1>3 DEF WordLengths, AllIn, n
    <3> QED BY <1>0, <2>2, <3>1
  <2> QED BY <2>4, <2>5 DEF IsLargest
<1>4. CASE s[1] # Space /\ 1 \notin G
  <2>1. w = 0
    BY <1>4 DEF IsWord
  <2>2. ASSUME NEW k \in K PROVE FALSE
    <3>1. k \in 1 .. n /\ \A j \in 1 .. k : j \in G
      BY <1>4 DEF WordLengths, AllIn
    <3> HIDE DEF K, n
    <3> QED BY <1>0, <1>4, <3>1
  <2> QED BY <2>1, <2>2 DEF IsLargest
<1> QED BY <1>1, <1>2, <1>3, <1>4

-----------------------------------------------------------------------------
(* Where a text has characters of a category.                              *)
LetterSet == {c \in CodePoints : is_unicode_letter(c)}
NumberSet == {c \in CodePoints : is_unicode_number(c)}
OtherSet == {c \in CodePoints : not_category_LNZ(c)}
BlankSet == {c \in CodePoints : is_unicode_seperator(c)}
Places(s, C) == {j \in 1 .. Len(s) : s[j] \in C}
Shorts(s) == {c \in Contractions : s[1] = Quote /\ IsPrefix(c, Tail(s))}

FirstOf(s, wordL, wordN, wordO, blanks) ==
  IF Shorts(s) # {} THEN 1 + Len(CHOOSE c \in Shorts(s) : TRUE)
  ELSE IF wordL > 0 THEN wordL
  ELSE IF wordN > 0 THEN wordN
  ELSE IF wordO > 0 THEN wordO
  ELSE IF blanks > 1 /\ blanks < Len(s) THEN blanks - 1 ELSE blanks

(* What TryMatch finds: words and runs that cannot be extended.            *)
Found(s, wordL, wordN, wordO, blanks) ==
  /\ IsWord(wordL, s, Places(s, LetterSet))
  /\ IsWord(wordN, s, Places(s, NumberSet))
  /\ IsWord(wordO, s, Places(s, OtherSet))
  /\ IsRun(blanks, 2, Len(s), Places(s, BlankSet))
  /\ TryMatch(s) = FirstOf(s, wordL, wordN, wordO, blanks)

LEMMA MatchedAs ==
  ASSUME NEW s \in Seq(CodePoints), s # <<>>
  PROVE  \E wordL, wordN, wordO, blanks : Found(s, wordL, wordN, wordO, blanks)
<1> DEFINE n == Len(s)
<1> DEFINE run(from, P(_)) == CHOOSE i \in from - 1 .. n :
                           (i = n \/ ~P(s[i + 1])) /\ \A j \in from .. i : P(s[j])
<1> DEFINE word(P(_)) == IF s[1] = Space /\ n > 1 /\ P(s[2]) THEN run(3, P)
                    ELSE IF P(s[1]) THEN run(2, P) ELSE 0
<1> DEFINE blanks == run(2, is_unicode_seperator)
<1> DEFINE wordL == word(is_unicode_letter)
<1> DEFINE wordN == word(is_unicode_number)
<1> DEFINE wordO == word(not_category_LNZ)
<1>0. n \in Nat /\ n >= 1 /\ \A j \in 1 .. n : s[j] \in CodePoints
  BY EmptySeq, LenProperties
<1>1. TryMatch(s) = FirstOf(s, wordL, wordN, wordO, blanks)
  BY DEF TryMatch, FirstOf, Shorts
<1>2. IsWord(wordL, s, Places(s, LetterSet))
  <2> DEFINE G == Places(s, LetterSet)
  <2> DEFINE r(from) == run(from, is_unicode_letter)
  <2>1. \A j \in 1 .. n : j \in G <=> is_unicode_letter(s[j])
    BY <1>0 DEF Places, LetterSet
  <2>2. ASSUME NEW from \in 1 .. n + 1 PROVE IsRun(r(from), from, n, G)
    <3>1. \E i \in from - 1 .. n : (i = n \/ ~(i + 1 \in G)) /\ \A j \in from .. i : j \in G
      <4> HIDE DEF G, n
      <4> QED BY <1>0, RunExists
    <3>2. \E i \in from - 1 .. n : (i = n \/ ~is_unicode_letter(s[i + 1])) /\ \A j \in from .. i : is_unicode_letter(s[j])
      <4> HIDE DEF G, n
      <4> QED BY <1>0, <2>1, <3>1
    <3> DEFINE i == r(from)
    <3>3. i \in from - 1 .. n /\ (i = n \/ ~is_unicode_letter(s[i + 1])) /\ \A j \in from .. i : is_unicode_letter(s[j])
      BY <3>2
    <3> HIDE DEF i, G, n, r
    <3> QED BY <1>0, <2>1, <3>3 DEF IsRun, i
  <2>3. wordL = IF s[1] = Space /\ n > 1 /\ is_unicode_letter(s[2]) THEN r(3)
                ELSE IF is_unicode_letter(s[1]) THEN r(2) ELSE 0
    OBVIOUS
  <2>4. IsRun(r(2), 2, n, G) /\ (n > 1 => IsRun(r(3), 3, n, G))
    <3>1. 2 \in 1 .. n + 1 /\ (n > 1 => 3 \in 1 .. n + 1)
      BY <1>0
    <3> HIDE DEF n, r, G
    <3> QED BY <2>2, <3>1
  <2>5. (2 \in G <=> n > 1 /\ is_unicode_letter(s[2])) /\ (1 \in G <=> is_unicode_letter(s[1]))
    <3>1. (2 \in G => n > 1) /\ 1 \in 1 .. n /\ (n > 1 => 2 \in 1 .. n)
      BY <1>0 DEF Places
    <3> HIDE DEF n, G
    <3> QED BY <2>1, <3>1
  <2>6. IsWord(wordL, s, G) <=>
          IF s[1] = Space /\ n > 1 /\ 2 \in G THEN IsRun(wordL, 3, n, G)
          ELSE IF 1 \in G THEN IsRun(wordL, 2, n, G) ELSE wordL = 0
    BY DEF IsWord
  <2> HIDE DEF n, r, G, wordL
  <2> QED BY <2>3, <2>4, <2>5, <2>6 DEF G
<1>3. IsWord(wordN, s, Places(s, NumberSet))
  <2> DEFINE G == Places(s, NumberSet)
  <2> DEFINE r(from) == run(from, is_unicode_number)
  <2>1. \A j \in 1 .. n : j \in G <=> is_unicode_number(s[j])
    BY <1>0 DEF Places, NumberSet
  <2>2. ASSUME NEW from \in 1 .. n + 1 PROVE IsRun(r(from), from, n, G)
    <3>1. \E i \in from - 1 .. n : (i = n \/ ~(i + 1 \in G)) /\ \A j \in from .. i : j \in G
      <4> HIDE DEF G, n
      <4> QED BY <1>0, RunExists
    <3>2. \E i \in from - 1 .. n : (i = n \/ ~is_unicode_number(s[i + 1])) /\ \A j \in from .. i : is_unicode_number(s[j])
      <4> HIDE DEF G, n
      <4> QED BY <1>0, <2>1, <3>1
    <3> DEFINE i == r(from)
    <3>3. i \in from - 1 .. n /\ (i = n \/ ~is_unicode_number(s[i + 1])) /\ \A j \in from .. i : is_unicode_number(s[j])
      BY <3>2
    <3> HIDE DEF i, G, n, r
    <3> QED BY <1>0, <2>1, <3>3 DEF IsRun, i
  <2>3. wordN = IF s[1] = Space /\ n > 1 /\ is_unicode_number(s[2]) THEN r(3)
                ELSE IF is_unicode_number(s[1]) THEN r(2) ELSE 0
    OBVIOUS
  <2>4. IsRun(r(2), 2, n, G) /\ (n > 1 => IsRun(r(3), 3, n, G))
    <3>1. 2 \in 1 .. n + 1 /\ (n > 1 => 3 \in 1 .. n + 1)
      BY <1>0
    <3> HIDE DEF n, r, G
    <3> QED BY <2>2, <3>1
  <2>5. (2 \in G <=> n > 1 /\ is_unicode_number(s[2])) /\ (1 \in G <=> is_unicode_number(s[1]))
    <3>1. (2 \in G => n > 1) /\ 1 \in 1 .. n /\ (n > 1 => 2 \in 1 .. n)
      BY <1>0 DEF Places
    <3> HIDE DEF n, G
    <3> QED BY <2>1, <3>1
  <2>6. IsWord(wordN, s, G) <=>
          IF s[1] = Space /\ n > 1 /\ 2 \in G THEN IsRun(wordN, 3, n, G)
          ELSE IF 1 \in G THEN IsRun(wordN, 2, n, G) ELSE wordN = 0
    BY DEF IsWord
  <2> HIDE DEF n, r, G, wordN
  <2> QED BY <2>3, <2>4, <2>5, <2>6 DEF G
<1>4. IsWord(wordO, s, Places(s, OtherSet))
  <2> DEFINE G == Places(s, OtherSet)
  <2> DEFINE r(from) == run(from, not_category_LNZ)
  <2>1. \A j \in 1 .. n : j \in G <=> not_category_LNZ(s[j])
    BY <1>0 DEF Places, OtherSet
  <2>2. ASSUME NEW from \in 1 .. n + 1 PROVE IsRun(r(from), from, n, G)
    <3>1. \E i \in from - 1 .. n : (i = n \/ ~(i + 1 \in G)) /\ \A j \in from .. i : j \in G
      <4> HIDE DEF G, n
      <4> QED BY <1>0, RunExists
    <3>2. \E i \in from - 1 .. n : (i = n \/ ~not_category_LNZ(s[i + 1])) /\ \A j \in from .. i : not_category_LNZ(s[j])
      <4> HIDE DEF G, n
      <4> QED BY <1>0, <2>1, <3>1
    <3> DEFINE i == r(from)
    <3>3. i \in from - 1 .. n /\ (i = n \/ ~not_category_LNZ(s[i + 1])) /\ \A j \in from .. i : not_category_LNZ(s[j])
      BY <3>2
    <3> HIDE DEF i, G, n, r
    <3> QED BY <1>0, <2>1, <3>3 DEF IsRun, i
  <2>3. wordO = IF s[1] = Space /\ n > 1 /\ not_category_LNZ(s[2]) THEN r(3)
                ELSE IF not_category_LNZ(s[1]) THEN r(2) ELSE 0
    OBVIOUS
  <2>4. IsRun(r(2), 2, n, G) /\ (n > 1 => IsRun(r(3), 3, n, G))
    <3>1. 2 \in 1 .. n + 1 /\ (n > 1 => 3 \in 1 .. n + 1)
      BY <1>0
    <3> HIDE DEF n, r, G
    <3> QED BY <2>2, <3>1
  <2>5. (2 \in G <=> n > 1 /\ not_category_LNZ(s[2])) /\ (1 \in G <=> not_category_LNZ(s[1]))
    <3>1. (2 \in G => n > 1) /\ 1 \in 1 .. n /\ (n > 1 => 2 \in 1 .. n)
      BY <1>0 DEF Places
    <3> HIDE DEF n, G
    <3> QED BY <2>1, <3>1
  <2>6. IsWord(wordO, s, G) <=>
          IF s[1] = Space /\ n > 1 /\ 2 \in G THEN IsRun(wordO, 3, n, G)
          ELSE IF 1 \in G THEN IsRun(wordO, 2, n, G) ELSE wordO = 0
    BY DEF IsWord
  <2> HIDE DEF n, r, G, wordO
  <2> QED BY <2>3, <2>4, <2>5, <2>6 DEF G
<1>5. IsRun(blanks, 2, n, Places(s, BlankSet))
  <2> DEFINE G == Places(s, BlankSet)
  <2>1. \A j \in 1 .. n : j \in G <=> is_unicode_seperator(s[j])
    BY <1>0 DEF Places, BlankSet
  <2>2. \E i \in 2 - 1 .. n : (i = n \/ ~(i + 1 \in G)) /\ \A j \in 2 .. i : j \in G
    <3>1. 2 \in 1 .. n + 1
      BY <1>0
    <3> HIDE DEF G, n
    <3> QED BY <1>0, <3>1, RunExists
  <2>3. \E i \in 2 - 1 .. n : (i = n \/ ~is_unicode_seperator(s[i + 1]))
                             /\ \A j \in 2 .. i : is_unicode_seperator(s[j])
    <3> HIDE DEF G, n
    <3> QED BY <1>0, <2>1, <2>2
  <2>4. blanks \in 2 - 1 .. n /\ (blanks = n \/ ~is_unicode_seperator(s[blanks + 1]))
        /\ \A j \in 2 .. blanks : is_unicode_seperator(s[j])
    BY <2>3
  <2> HIDE DEF n, G, blanks
  <2> QED BY <1>0, <2>1, <2>4 DEF IsRun, G
<1> HIDE DEF wordL, wordN, wordO, blanks
<1> QED BY <1>1, <1>2, <1>3, <1>4, <1>5 DEF Found

(* A match takes one character or more (TryMatch).                         *)
LEMMA MatchedLength ==
  ASSUME NEW s \in Seq(CodePoints), s # <<>>
  PROVE  TryMatch(s) \in 1 .. Len(s)
<1> DEFINE n == Len(s)
<1>0. n \in Nat /\ n >= 1
  BY EmptySeq, LenProperties
<1>1. PICK wordL, wordN, wordO, blanks : Found(s, wordL, wordN, wordO, blanks)
  BY MatchedAs
<1>2. wordL \in 0 .. n /\ wordN \in 0 .. n /\ wordO \in 0 .. n /\ blanks \in 1 .. n
  <2> HIDE DEF n
  <2> QED BY <1>0, <1>1 DEF Found, IsWord, IsRun, n
<1>3. ASSUME NEW c \in Shorts(s) PROVE 1 + Len(c) \in 1 .. n
  <2>1. c \in Seq(CodePoints) /\ IsPrefix(c, Tail(s))
    BY TokenizersAssumption DEF Shorts
  <2>2. Len(Tail(s)) = n - 1
    BY <1>0
  <2>3. Len(c) <= Len(Tail(s))
    BY <2>1 DEF IsPrefix
  <2> QED BY <1>0, <2>1, <2>2, <2>3
<1>4. Shorts(s) # {} => 1 + Len(CHOOSE c \in Shorts(s) : TRUE) \in 1 .. n
  BY <1>3
<1>5. TryMatch(s) = FirstOf(s, wordL, wordN, wordO, blanks)
  BY <1>1 DEF Found
<1> HIDE DEF n
<1> QED BY <1>0, <1>2, <1>4, <1>5 DEF FirstOf, n

-----------------------------------------------------------------------------
(* The alternatives of the pattern, said of places.                        *)
LEMMA OptionalIn ==
  ASSUME NEW s \in Seq(CodePoints), NEW k \in 1 .. Len(s), NEW C
  PROVE  /\ Optional(SubSeq(s, 1, k)) \in Seq(CodePoints)
         /\ (/\ Optional(SubSeq(s, 1, k)) # <<>>
             /\ \A j \in DOMAIN Optional(SubSeq(s, 1, k)) : Optional(SubSeq(s, 1, k))[j] \in C)
              <=> AllIn(s, k, Places(s, C))
<1> DEFINE n == Len(s)
<1> DEFINE p == SubSeq(s, 1, k)
<1> DEFINE o == Optional(p)
<1>0. n \in Nat /\ k \in 1 .. n /\ k \in Nat /\ \A j \in 1 .. n : s[j] \in CodePoints
  OBVIOUS
<1>1. p \in Seq(CodePoints) /\ Len(p) = k /\ p # <<>> /\ \A j \in 1 .. k : p[j] = s[j]
  <2>1. p \in Seq(CodePoints) /\ Len(p) = k /\ \A j \in 1 .. k : p[j] = s[j]
    BY <1>0, SubSeqProperties
  <2> HIDE DEF p
  <2> QED BY <1>0, <2>1
<1> HIDE DEF p, n
<1>2. CASE s[1] = Space
  <2>1. o = Tail(p)
    BY <1>0, <1>1, <1>2 DEF Optional
  <2>2. o \in Seq(CodePoints) /\ Len(o) = k - 1 /\ \A j \in 1 .. k - 1 : o[j] = p[j + 1]
    BY <1>0, <1>1, <2>1, HeadTailProperties
  <2> HIDE DEF o
  <2>3. DOMAIN o = 1 .. k - 1 /\ (o # <<>> <=> k >= 2)
    BY <1>0, <2>2
  <2>4. \A j \in 1 .. k - 1 : o[j] = s[j + 1] /\ j + 1 \in 1 .. n
    BY <1>0, <1>1, <2>2
  <2>5. (\A j \in 1 .. k - 1 : o[j] \in C) <=> \A j \in 2 .. k : j \in Places(s, C)
    <3>1. ASSUME \A j \in 1 .. k - 1 : o[j] \in C, NEW j \in 2 .. k PROVE j \in Places(s, C)
      <4>1. j - 1 \in 1 .. k - 1 /\ (j - 1) + 1 = j
        BY <1>0
      <4>2. s[j] \in C /\ j \in 1 .. n
        BY <2>4, <3>1, <4>1
      <4> QED BY <4>2 DEF Places, n
    <3>2. ASSUME \A j \in 2 .. k : j \in Places(s, C), NEW j \in 1 .. k - 1 PROVE o[j] \in C
      <4>1. j + 1 \in 2 .. k
        BY <1>0
      <4> QED BY <2>4, <3>2, <4>1 DEF Places
    <3> QED BY <3>1, <3>2
  <2>6. AllIn(s, k, Places(s, C)) <=> k >= 2 /\ \A j \in 2 .. k : j \in Places(s, C)
    BY <1>2 DEF AllIn
  <2> QED BY <2>2, <2>3, <2>5, <2>6 DEF o, p
<1>3. CASE s[1] # Space
  <2>1. o = p
    BY <1>0, <1>1, <1>3 DEF Optional
  <2>2. DOMAIN p = 1 .. k
    BY <1>0, <1>1
  <2>3. (\A j \in 1 .. k : p[j] \in C) <=> \A j \in 1 .. k : j \in Places(s, C)
    BY <1>0, <1>1 DEF Places, n
  <2>4. AllIn(s, k, Places(s, C)) <=> \A j \in 1 .. k : j \in Places(s, C)
    BY <1>3 DEF AllIn
  <2> QED BY <1>1, <2>1, <2>2, <2>3, <2>4 DEF o, p
<1> QED BY <1>2, <1>3

(* What each alternative of the pattern matches.                           *)
LEMMA Alternatives ==
  ASSUME CharactersCovered, NEW s \in Seq(Alphabet), NEW k \in 1 .. Len(s)
  PROVE  LET m(a) == Matches(a, SubSeq(s, 1, k), SubSeq(s, k + 1, Len(s)))
             blank(j) == j \in Places(s, BlankSet)
         IN  /\ m(1) <=> s[1] = Quote /\ SubSeq(s, 2, k) \in Contractions
             /\ m(2) <=> AllIn(s, k, Places(s, LetterSet))
             /\ m(3) <=> AllIn(s, k, Places(s, NumberSet))
             /\ m(4) <=> AllIn(s, k, Places(s, OtherSet))
             /\ m(5) <=> (\A j \in 1 .. k : blank(j)) /\ (k = Len(s) \/ blank(k + 1))
             /\ m(6) <=> \A j \in 1 .. k : blank(j)
<1> DEFINE n == Len(s)
<1> DEFINE p == SubSeq(s, 1, k)
<1> DEFINE r == SubSeq(s, k + 1, n)
<1>0. n \in Nat /\ k \in 1 .. n /\ k \in Nat /\ \A j \in 1 .. n : s[j] \in Alphabet
  OBVIOUS
<1>1. p \in Seq(Alphabet) /\ Len(p) = k /\ p # <<>> /\ \A j \in 1 .. k : p[j] = s[j]
  <2>1. p \in Seq(Alphabet) /\ Len(p) = k /\ \A j \in 1 .. k : p[j] = s[j]
    BY <1>0, SubSeqProperties
  <2> HIDE DEF p
  <2> QED BY <1>0, <2>1
<1>2. (r = <<>> <=> k = n) /\ (k # n => r[1] = s[k + 1] /\ k + 1 \in 1 .. n)
  <2>1. k + 1 \in 1 .. n + 1 /\ \A j \in k + 1 .. n : s[j] \in Alphabet
    BY <1>0
  <2>2. Len(r) = n - k /\ r \in Seq(Alphabet) /\ \A j \in 1 .. n - k : r[j] = s[k + j]
    <3>1. /\ r \in Seq(Alphabet) /\ Len(r) = IF k + 1 <= n THEN n - (k + 1) + 1 ELSE 0
          /\ \A j \in 1 .. n - (k + 1) + 1 : r[j] = s[k + 1 + j - 1]
      BY <1>0, <2>1, SubSeqProperties
    <3> HIDE DEF r, n
    <3>2. \A j \in 1 .. n - k : j \in 1 .. n - (k + 1) + 1 /\ k + 1 + j - 1 = k + j
      BY <1>0
    <3> QED BY <1>0, <3>1, <3>2
  <2> HIDE DEF r, n
  <2> QED BY <1>0, <2>2
<1>3. /\ \A c \in Alphabet : Letter(c) <=> c \in LetterSet
      /\ \A c \in Alphabet : Number(c) <=> c \in NumberSet
      /\ \A c \in Alphabet : Separator(c) <=> c \in BlankSet
      /\ \A c \in Alphabet : ~(Letter(c) \/ Number(c) \/ Separator(c)) <=> c \in OtherSet
  <2> SUFFICES ASSUME NEW c \in Alphabet
      PROVE /\ Letter(c) <=> c \in LetterSet
            /\ Number(c) <=> c \in NumberSet
            /\ Separator(c) <=> c \in BlankSet
            /\ ~(Letter(c) \/ Number(c) \/ Separator(c)) <=> c \in OtherSet
    OBVIOUS
  <2> QED BY CategoriesOf, TokenizersAssumption
          DEF LetterSet, NumberSet, BlankSet, OtherSet, not_category_LNZ
<1>4. Tail(p) = SubSeq(s, 2, k)
  <2>1. Tail(p) \in Seq(Alphabet) /\ Len(Tail(p)) = k - 1 /\ \A j \in 1 .. k - 1 : Tail(p)[j] = p[j + 1]
    BY <1>0, <1>1, HeadTailProperties
  <2>2. /\ SubSeq(s, 2, k) \in Seq(Alphabet) /\ Len(SubSeq(s, 2, k)) = k - 1
        /\ \A j \in 1 .. k - 1 : SubSeq(s, 2, k)[j] = s[j + 1]
    <3>1. 2 \in 1 .. n + 1 /\ \A j \in 2 .. k : s[j] \in Alphabet
      BY <1>0
    <3>2. /\ SubSeq(s, 2, k) \in Seq(Alphabet) /\ Len(SubSeq(s, 2, k)) = IF 2 <= k THEN k - 2 + 1 ELSE 0
          /\ \A j \in 1 .. k - 2 + 1 : SubSeq(s, 2, k)[j] = s[2 + j - 1]
      BY <1>0, <3>1, SubSeqProperties
    <3> DEFINE q == SubSeq(s, 2, k)
    <3> HIDE DEF q
    <3>3. \A j \in 1 .. k - 1 : j \in 1 .. k - 2 + 1 /\ 2 + j - 1 = j + 1
      BY <1>0
    <3>4. k - 2 + 1 = k - 1 /\ (~(2 <= k) => k - 1 = 0)
      BY <1>0
    <3> QED BY <3>2, <3>3, <3>4 DEF q
  <2>3. \A j \in 1 .. k - 1 : Tail(p)[j] = SubSeq(s, 2, k)[j]
    <3> SUFFICES ASSUME NEW j \in 1 .. k - 1 PROVE Tail(p)[j] = SubSeq(s, 2, k)[j]
      OBVIOUS
    <3>1. j + 1 \in 1 .. k
      BY <1>0
    <3> QED BY <1>1, <2>1, <2>2, <3>1
  <2> QED BY <2>1, <2>2, <2>3, SeqEqual
<1>5. p \in Seq(CodePoints) /\ s \in Seq(CodePoints) /\ k \in 1 .. Len(s)
  BY <1>1, TokenizersAssumption
<1>6. /\ Matches(1, p, r) <=> p # <<>> /\ p[1] = Quote /\ Tail(p) \in Contractions
      /\ Matches(2, p, r) <=> Optional(p) # <<>> /\ \A j \in DOMAIN Optional(p) : Letter(Optional(p)[j])
      /\ Matches(3, p, r) <=> Optional(p) # <<>> /\ \A j \in DOMAIN Optional(p) : Number(Optional(p)[j])
      /\ Matches(4, p, r) <=> Optional(p) # <<>> /\ \A j \in DOMAIN Optional(p) :
            ~(Letter(Optional(p)[j]) \/ Number(Optional(p)[j]) \/ Separator(Optional(p)[j]))
      /\ Matches(5, p, r) <=> (p # <<>> /\ \A j \in DOMAIN p : Separator(p[j])) /\ (r = <<>> \/ Separator(r[1]))
      /\ Matches(6, p, r) <=> p # <<>> /\ \A j \in DOMAIN p : Separator(p[j])
  BY DEF Matches, AllOf
<1>7. \A j \in DOMAIN Optional(p) : Optional(p)[j] \in Alphabet
  <2>1. Tail(p) \in Seq(Alphabet)
    BY <1>1
  <2> HIDE DEF p
  <2>2. Optional(p) \in Seq(Alphabet)
    BY <1>1, <2>1 DEF Optional
  <2> QED BY <2>2
<1>8. DOMAIN p = 1 .. k /\ \A j \in 1 .. k : j \in Places(s, BlankSet) <=> Separator(p[j])
  <2>1. DOMAIN p = 1 .. k
    BY <1>1
  <2> HIDE DEF p
  <2> QED BY <1>0, <1>1, <1>3, <2>1 DEF Places
<1>9. k # n => (k + 1 \in Places(s, BlankSet) <=> Separator(r[1]))
  <2> HIDE DEF p, r
  <2> QED BY <1>0, <1>2, <1>3 DEF Places
<1>10. /\ Matches(1, p, r) <=> s[1] = Quote /\ SubSeq(s, 2, k) \in Contractions
       /\ Matches(5, p, r) <=> (\A j \in 1 .. k : j \in Places(s, BlankSet))
             /\ (k = n \/ k + 1 \in Places(s, BlankSet))
       /\ Matches(6, p, r) <=> \A j \in 1 .. k : j \in Places(s, BlankSet)
  <2>1. p[1] = s[1]
    BY <1>0, <1>1
  <2> HIDE DEF p, r, n
  <2> QED BY <1>1, <1>2, <1>4, <1>6, <1>8, <1>9, <2>1
<1>11. Matches(2, p, r) <=> AllIn(s, k, Places(s, LetterSet))
  BY <1>3, <1>5, <1>6, <1>7, OptionalIn
<1>12. Matches(3, p, r) <=> AllIn(s, k, Places(s, NumberSet))
  BY <1>3, <1>5, <1>6, <1>7, OptionalIn
<1>13. Matches(4, p, r) <=> AllIn(s, k, Places(s, OtherSet))
  BY <1>3, <1>5, <1>6, <1>7, OptionalIn
<1> QED BY <1>10, <1>11, <1>12, <1>13

(* The largest of the first set that is not empty.                         *)
LEMMA FirstLargest ==
  ASSUME NEW n \in Nat, NEW L, \A a \in 1 .. 6 : L[a] \in SUBSET (1 .. n),
         NEW a \in 1 .. 6, \A b \in 1 .. 6 : b < a => L[b] = {},
         NEW w \in L[a], \A k \in L[a] : k <= w
  PROVE  Max(L[Min({b \in 1 .. 6 : L[b] # {}})]) = w
<1> DEFINE B == {b \in 1 .. 6 : L[b] # {}}
<1>1. B \in SUBSET Nat /\ a \in B /\ \A b \in B : b \in 1 .. 6 /\ ~(b < a)
  OBVIOUS
<1> HIDE DEF B
<1>2. Min(B) \in B /\ \A b \in B : Min(B) <= b
  BY <1>1, SmallestOf
<1>3. Min(B) = a
  <2> DEFINE b == Min(B)
  <2>1. b \in 1 .. 6 /\ ~(b < a) /\ b <= a
    BY <1>1, <1>2
  <2> HIDE DEF b
  <2> QED BY <2>1 DEF b
<1>4. L[a] \in SUBSET (1 .. n) /\ L[a] # {}
  OBVIOUS
<1>5. Max(L[a]) \in L[a] /\ \A y \in L[a] : y <= Max(L[a])
  BY <1>4, LargestOf
<1>6. Max(L[a]) = w
  BY <1>4, <1>5
<1> QED BY <1>3, <1>6 DEF B

(* A contraction matches at one length.                                    *)
LEMMA ShortsMatch ==
  ASSUME NEW s \in Seq(CodePoints), s # <<>>
  PROVE  /\ \A c \in Shorts(s) : 1 + Len(c) \in 1 .. Len(s) /\ SubSeq(s, 2, 1 + Len(c)) = c
         /\ \A k \in 1 .. Len(s) : s[1] = Quote /\ SubSeq(s, 2, k) \in Contractions
              => SubSeq(s, 2, k) \in Shorts(s)
         /\ \A k \in 1 .. Len(s) : \A c \in Shorts(s) :
              SubSeq(s, 2, k) \in Contractions => k = 1 + Len(c)
<1> DEFINE n == Len(s)
<1> DEFINE t == Tail(s)
<1>0. n \in Nat /\ n >= 1 /\ t \in Seq(CodePoints) /\ Len(t) = n - 1
      /\ \A j \in 1 .. n : s[j] \in CodePoints
  BY EmptySeq, LenProperties, HeadTailProperties
<1>1. \A j \in 1 .. n - 1 : t[j] = s[j + 1]
  BY HeadTailProperties
<1> HIDE DEF t, n
<1>2. ASSUME NEW k \in 1 .. n
      PROVE  SubSeq(s, 2, k) = SubSeq(t, 1, k - 1) /\ Len(SubSeq(s, 2, k)) = k - 1
  <2>1. /\ SubSeq(s, 2, k) \in Seq(CodePoints) /\ Len(SubSeq(s, 2, k)) = k - 1
        /\ \A j \in 1 .. k - 1 : SubSeq(s, 2, k)[j] = s[j + 1]
    <3>1. 2 \in 1 .. n + 1 /\ \A j \in 2 .. k : s[j] \in CodePoints
      BY <1>0
    <3>2. /\ SubSeq(s, 2, k) \in Seq(CodePoints) /\ Len(SubSeq(s, 2, k)) = IF 2 <= k THEN k - 2 + 1 ELSE 0
          /\ \A j \in 1 .. k - 2 + 1 : SubSeq(s, 2, k)[j] = s[2 + j - 1]
      BY <1>0, <3>1, SubSeqProperties DEF n
    <3> DEFINE q == SubSeq(s, 2, k)
    <3> HIDE DEF q
    <3>3. \A j \in 1 .. k - 1 : j \in 1 .. k - 2 + 1 /\ 2 + j - 1 = j + 1
      BY <1>0
    <3>4. k - 2 + 1 = k - 1 /\ (~(2 <= k) => k - 1 = 0)
      BY <1>0
    <3> QED BY <3>2, <3>3, <3>4 DEF q
  <2>2. /\ SubSeq(t, 1, k - 1) \in Seq(CodePoints) /\ Len(SubSeq(t, 1, k - 1)) = k - 1
        /\ \A j \in 1 .. k - 1 : SubSeq(t, 1, k - 1)[j] = t[j]
    <3>1. 1 \in 1 .. Len(t) + 1 /\ k - 1 \in 0 .. Len(t) /\ k - 1 \in Nat
          /\ \A j \in 1 .. k - 1 : t[j] \in CodePoints
      BY <1>0
    <3>2. /\ SubSeq(t, 1, k - 1) \in Seq(CodePoints)
          /\ Len(SubSeq(t, 1, k - 1)) = IF 1 <= k - 1 THEN k - 1 - 1 + 1 ELSE 0
          /\ \A j \in 1 .. k - 1 - 1 + 1 : SubSeq(t, 1, k - 1)[j] = t[1 + j - 1]
      BY <1>0, <3>1, SubSeqProperties
    <3> DEFINE q == SubSeq(t, 1, k - 1)
    <3> HIDE DEF q
    <3>3. \A j \in 1 .. k - 1 : j \in 1 .. k - 1 - 1 + 1 /\ 1 + j - 1 = j
      BY <1>0
    <3>4. k - 1 - 1 + 1 = k - 1 /\ (~(1 <= k - 1) => k - 1 = 0)
      BY <1>0
    <3> QED BY <3>2, <3>3, <3>4 DEF q
  <2>3. \A j \in 1 .. k - 1 : j \in 1 .. n - 1
    BY <1>0
  <2>4. \A j \in 1 .. k - 1 : SubSeq(s, 2, k)[j] = SubSeq(t, 1, k - 1)[j]
    BY <1>1, <2>1, <2>2, <2>3
  <2> QED BY <2>1, <2>2, <2>4, SeqEqual
<1>3. ASSUME NEW c \in Shorts(s)
      PROVE  /\ c \in Contractions /\ c \in Seq(CodePoints) /\ Len(c) \in 0 .. n - 1
             /\ c = SubSeq(t, 1, Len(c))
  <2>1. c \in Contractions /\ IsPrefix(c, t)
    BY DEF Shorts, t
  <2>2. c \in Seq(CodePoints)
    BY <2>1, TokenizersAssumption
  <2>3. Len(c) <= Len(t) /\ SubSeq(c, 1, Len(c)) = SubSeq(t, 1, Len(c))
    BY <2>1 DEF IsPrefix
  <2>4. SubSeq(c, 1, Len(c)) = c
    BY <2>2, SubSeqFull
  <2> QED BY <1>0, <2>1, <2>2, <2>3, <2>4
<1>4. ASSUME NEW c \in Shorts(s) PROVE 1 + Len(c) \in 1 .. n /\ SubSeq(s, 2, 1 + Len(c)) = c
  <2>1. 1 + Len(c) \in 1 .. n /\ (1 + Len(c)) - 1 = Len(c)
    BY <1>0, <1>3
  <2> QED BY <1>2, <1>3, <2>1
<1>5. ASSUME NEW k \in 1 .. n, NEW m \in 1 .. n, k <= m
      PROVE  IsPrefix(SubSeq(s, 2, k), SubSeq(s, 2, m))
  <2> DEFINE c == SubSeq(t, 1, k - 1)
  <2> DEFINE d == SubSeq(t, 1, m - 1)
  <2>1. c = SubSeq(s, 2, k) /\ d = SubSeq(s, 2, m) /\ Len(c) = k - 1 /\ Len(d) = m - 1
    BY <1>2
  <2>2. k - 1 \in Nat /\ m - 1 \in Nat /\ k - 1 \in 0 .. m - 1 /\ m - 1 \in 0 .. Len(t)
    BY <1>0, <1>5
  <2>3. \A q \in 0 .. Len(t) : \A j \in 1 .. q : SubSeq(t, 1, q)[j] = t[j]
    <3> SUFFICES ASSUME NEW q \in 0 .. Len(t), NEW j \in 1 .. q PROVE SubSeq(t, 1, q)[j] = t[j]
      OBVIOUS
    <3> QED BY <1>0
  <2>4. c \in Seq(CodePoints) /\ d \in Seq(CodePoints)
    <3>1. \A j \in 1 .. Len(t) : t[j] \in CodePoints
      BY <1>0
    <3>2. \A q \in 0 .. Len(t) : SubSeq(t, 1, q) \in Seq(CodePoints)
      BY <1>0, <3>1
    <3>3. k - 1 \in 0 .. Len(t)
      BY <1>0, <2>2
    <3> QED BY <2>2, <3>2, <3>3
  <2>5. SubSeq(c, 1, k - 1) = c
    BY <2>1, <2>4, SubSeqFull
  <2>6. SubSeq(d, 1, k - 1) = c
    <3>1. /\ SubSeq(d, 1, k - 1) \in Seq(CodePoints) /\ Len(SubSeq(d, 1, k - 1)) = k - 1
          /\ \A j \in 1 .. k - 1 : SubSeq(d, 1, k - 1)[j] = d[j]
      <4> HIDE DEF c, d
      <4>1. k - 1 \in 0 .. Len(d) /\ \A j \in 1 .. Len(d) : d[j] \in CodePoints
        BY <2>1, <2>2, <2>4
      <4> QED BY <2>2, <2>4, <4>1
    <3>2. \A j \in 1 .. k - 1 : d[j] = t[j] /\ c[j] = t[j]
      <4>1. \A j \in 1 .. k - 1 : j \in 1 .. m - 1
        BY <2>2
      <4>2. k - 1 \in 0 .. Len(t)
        BY <1>0, <2>2
      <4> QED BY <2>2, <2>3, <4>1, <4>2
    <3> HIDE DEF c, d
    <3>3. \A j \in 1 .. k - 1 : SubSeq(d, 1, k - 1)[j] = c[j]
      BY <3>1, <3>2
    <3> QED BY <2>1, <2>4, <3>1, <3>3, SeqEqual
  <2> HIDE DEF c, d
  <2> QED BY <2>1, <2>2, <2>5, <2>6 DEF IsPrefix
<1>6. ASSUME NEW k \in 1 .. n, s[1] = Quote, SubSeq(s, 2, k) \in Contractions
      PROVE  SubSeq(s, 2, k) \in Shorts(s)
  <2>1. n \in 1 .. n /\ k <= n
    BY <1>0
  <2>2. IsPrefix(SubSeq(s, 2, k), SubSeq(s, 2, n))
    BY <1>5, <2>1
  <2>3. SubSeq(s, 2, n) = SubSeq(t, 1, n - 1)
    BY <1>2, <2>1
  <2>4. SubSeq(t, 1, n - 1) = t
    BY <1>0, SubSeqFull
  <2> QED BY <1>6, <2>2, <2>3, <2>4 DEF Shorts, t
<1>7. ASSUME NEW k \in 1 .. n, NEW c \in Shorts(s), SubSeq(s, 2, k) \in Contractions
      PROVE  k = 1 + Len(c)
  <2> DEFINE m == 1 + Len(c)
  <2>1. m \in 1 .. n /\ SubSeq(s, 2, m) = c /\ c \in Contractions
    BY <1>3, <1>4
  <2> HIDE DEF m
  <2>2. IsPrefix(SubSeq(s, 2, k), SubSeq(s, 2, m)) \/ IsPrefix(SubSeq(s, 2, m), SubSeq(s, 2, k))
    <3>1. k <= m \/ m <= k
      BY <1>0, <2>1
    <3> QED BY <1>5, <2>1, <3>1
  <2>3. SubSeq(s, 2, k) = c
    BY <1>7, <2>1, <2>2, TablesAssumption
  <2>4. Len(SubSeq(s, 2, k)) = k - 1 /\ Len(SubSeq(s, 2, m)) = m - 1
    BY <1>2, <2>1
  <2> QED BY <2>1, <2>3, <2>4 DEF m
<1> QED BY <1>4, <1>6, <1>7 DEF n

(* A match is as long as the pattern of GPT-2 says (TryMatch).             *)
LEMMA MatchesPattern ==
  ASSUME CharactersCovered, NEW s \in Seq(Alphabet), s # <<>>
  PROVE  TryMatch(s) = PatternWord(s)
<1> DEFINE n == Len(s)
<1> DEFINE L == [a \in 1 .. 6 |->
                  {k \in 1 .. n : Matches(a, SubSeq(s, 1, k), SubSeq(s, k + 1, n))}]
<1> DEFINE Z == Places(s, BlankSet)
<1>0. n \in Nat /\ n >= 1 /\ \A j \in 1 .. n : s[j] \in Alphabet
  BY EmptySeq, LenProperties
<1>1. s \in Seq(CodePoints) /\ s[1] \in CodePoints /\ s[1] \in Alphabet
  BY <1>0, TokenizersAssumption
<1>2. PICK wordL, wordN, wordO, blanks : Found(s, wordL, wordN, wordO, blanks)
  BY <1>1, MatchedAs
<1>3. PatternWord(s) = Max(L[Min({a \in 1 .. 6 : L[a] # {}})])
  BY DEF PatternWord
<1>4. \A a \in 1 .. 6 : L[a] \in SUBSET (1 .. n)
  OBVIOUS
<1>5. /\ L[1] = {k \in 1 .. n : s[1] = Quote /\ SubSeq(s, 2, k) \in Contractions}
      /\ L[2] = WordLengths(s, Places(s, LetterSet))
      /\ L[3] = WordLengths(s, Places(s, NumberSet))
      /\ L[4] = WordLengths(s, Places(s, OtherSet))
      /\ L[5] = {k \in 1 .. n : (\A j \in 1 .. k : j \in Z) /\ (k = n \/ k + 1 \in Z)}
      /\ L[6] = {k \in 1 .. n : \A j \in 1 .. k : j \in Z}
  BY Alternatives, SMTT(30) DEF WordLengths
<1> HIDE DEF L
<1>6. s[1] = Space => /\ 1 \notin Places(s, LetterSet) /\ 1 \notin Places(s, NumberSet)
                      /\ 1 \notin Places(s, OtherSet) /\ 1 \in Z
  <2> SUFFICES ASSUME s[1] = Space
      PROVE /\ s[1] \notin LetterSet /\ s[1] \notin NumberSet /\ s[1] \notin OtherSet /\ s[1] \in BlankSet
    BY <1>0 DEF Places
  <2> QED BY <1>1, CategoriesOf, TablesAssumption DEF LetterSet, NumberSet, OtherSet, BlankSet, not_category_LNZ
<1>7. IsLargest(wordL, L[2]) /\ IsLargest(wordN, L[3]) /\ IsLargest(wordO, L[4])
  BY <1>1, <1>2, <1>5, <1>6, WordIsLargest DEF Found
<1>8. \A a \in 1 .. 6 : \A w : IsLargest(w, L[a]) =>
        IF L[a] = {} THEN w = 0 ELSE w \in L[a] /\ w > 0 /\ \A k \in L[a] : k <= w
  BY <1>0, <1>4 DEF IsLargest
<1>9. TryMatch(s) = FirstOf(s, wordL, wordN, wordO, blanks)
  BY <1>2 DEF Found
<1> DEFINE First(a, w) == /\ \A b \in 1 .. 6 : b < a => L[b] = {}
                         /\ w \in L[a] /\ \A k \in L[a] : k <= w
<1>10. ASSUME NEW a \in 1 .. 6, NEW w, First(a, w) PROVE PatternWord(s) = w
  <2> HIDE DEF n
  <2> QED BY <1>0, <1>3, <1>4, <1>10, FirstLargest
<1>11. CASE Shorts(s) # {}
  <2> DEFINE c == CHOOSE c \in Shorts(s) : TRUE
  <2>1. c \in Shorts(s)
    BY <1>11
  <2> HIDE DEF c
  <2>2. 1 + Len(c) \in 1 .. n /\ SubSeq(s, 2, 1 + Len(c)) = c /\ c \in Contractions /\ s[1] = Quote
    BY <1>1, <2>1, ShortsMatch DEF Shorts
  <2>3. \A k \in 1 .. n : SubSeq(s, 2, k) \in Contractions => k = 1 + Len(c)
    BY <1>1, <2>1, ShortsMatch
  <2>4. L[1] = {1 + Len(c)}
    BY <1>5, <2>2, <2>3
  <2>5. First(1, 1 + Len(c))
    <3>1. \A k \in L[1] : k <= 1 + Len(c)
      BY <1>0, <2>2, <2>4
    <3> HIDE DEF n
    <3> QED BY <2>4, <3>1
  <2>6. TryMatch(s) = 1 + Len(c)
    BY <1>9, <1>11 DEF FirstOf, c
  <2> HIDE DEF First
  <2> QED BY <1>10, <2>5, <2>6
<1>12. CASE Shorts(s) = {}
  <2>1. L[1] = {}
    BY <1>1, <1>5, <1>12, ShortsMatch
  <2>2. TryMatch(s) = IF wordL > 0 THEN wordL ELSE IF wordN > 0 THEN wordN ELSE IF wordO > 0 THEN wordO
                      ELSE IF blanks > 1 /\ blanks < n THEN blanks - 1 ELSE blanks
    BY <1>9, <1>12 DEF FirstOf
  <2> HIDE DEF n
  <2>3. /\ IF L[2] = {} THEN wordL = 0 ELSE wordL \in L[2] /\ wordL > 0 /\ \A k \in L[2] : k <= wordL
        /\ IF L[3] = {} THEN wordN = 0 ELSE wordN \in L[3] /\ wordN > 0 /\ \A k \in L[3] : k <= wordN
        /\ IF L[4] = {} THEN wordO = 0 ELSE wordO \in L[4] /\ wordO > 0 /\ \A k \in L[4] : k <= wordO
    <3>1. 2 \in 1 .. 6 /\ 3 \in 1 .. 6 /\ 4 \in 1 .. 6
      OBVIOUS
    <3> QED BY <1>7, <1>8, <3>1
  <2>4. CASE L[2] # {}
    <3>1. wordL > 0 /\ wordL \in L[2] /\ \A k \in L[2] : k <= wordL
      BY <2>3, <2>4
    <3>2. First(2, wordL)
      BY <2>1, <3>1
    <3> HIDE DEF First
    <3> QED BY <1>10, <2>2, <3>1, <3>2
  <2>5. CASE L[2] = {} /\ L[3] # {}
    <3>1. wordL = 0 /\ wordN > 0 /\ wordN \in L[3] /\ \A k \in L[3] : k <= wordN
      BY <2>3, <2>5
    <3>2. First(3, wordN)
      <4>1. \A b \in 1 .. 6 : b < 3 => b = 1 \/ b = 2
        OBVIOUS
      <4> QED BY <2>1, <2>5, <3>1, <4>1
    <3> HIDE DEF First
    <3> QED BY <1>10, <2>2, <3>1, <3>2
  <2>6. CASE L[2] = {} /\ L[3] = {} /\ L[4] # {}
    <3>1. wordL = 0 /\ wordN = 0 /\ wordO > 0 /\ wordO \in L[4] /\ \A k \in L[4] : k <= wordO
      BY <2>3, <2>6
    <3>2. First(4, wordO)
      <4>1. \A b \in 1 .. 6 : b < 4 => b = 1 \/ b = 2 \/ b = 3
        OBVIOUS
      <4> QED BY <2>1, <2>6, <3>1, <4>1
    <3> HIDE DEF First
    <3> QED BY <1>10, <2>2, <3>1, <3>2
  <2>7. CASE L[2] = {} /\ L[3] = {} /\ L[4] = {}
    <3>1. wordL = 0 /\ wordN = 0 /\ wordO = 0
      BY <2>3, <2>7
    <3>2. TryMatch(s) = IF blanks > 1 /\ blanks < n THEN blanks - 1 ELSE blanks
      BY <2>2, <3>1
    <3>3. 1 \in Z
      <4>1. CASE s[1] = Space
        BY <1>6, <4>1
      <4>2. CASE s[1] # Space
        <5>1. \A G : 1 \in G => 1 \in WordLengths(s, G)
          <6>1. \A G : 1 \in G => AllIn(s, 1, G)
            BY <4>2 DEF AllIn
          <6>2. 1 \in 1 .. Len(s)
            BY <1>0 DEF n
          <6> QED BY <6>1, <6>2 DEF WordLengths
        <5>2. 1 \notin Places(s, LetterSet) /\ 1 \notin Places(s, NumberSet) /\ 1 \notin Places(s, OtherSet)
          <6>1. WordLengths(s, Places(s, LetterSet)) = {} /\ WordLengths(s, Places(s, NumberSet)) = {}
                /\ WordLengths(s, Places(s, OtherSet)) = {}
            BY <1>5, <2>7
          <6> QED BY <5>1, <6>1
        <5>3. 1 \in 1 .. Len(s)
          BY <1>0 DEF n
        <5> QED BY <1>1, <5>2, <5>3 DEF Places, LetterSet, NumberSet, OtherSet, BlankSet, not_category_LNZ
      <4> QED BY <4>1, <4>2
    <3>4. blanks \in 1 .. n /\ (blanks = n \/ blanks + 1 \notin Z) /\ \A j \in 1 .. blanks : j \in Z
      <4>1. IsRun(blanks, 2, n, Z)
        BY <1>2 DEF Found, n
      <4> HIDE DEF Z
      <4>2. blanks \in 1 .. n /\ (blanks = n \/ blanks + 1 \notin Z) /\ \A j \in 2 .. blanks : j \in Z
        BY <4>1 DEF IsRun
      <4> QED BY <1>0, <3>3, <4>2
    <3> HIDE DEF Z
    <3>5. ASSUME NEW k \in 1 .. n, \A j \in 1 .. k : j \in Z PROVE k <= blanks
      BY <1>0, <3>4, <3>5
    <3>6. CASE blanks = n
      <4>1. n \in L[5] /\ \A k \in L[5] : k <= n
        BY <1>0, <1>5, <3>4, <3>6
      <4>2. First(5, n)
        <5>1. \A b \in 1 .. 6 : b < 5 => b = 1 \/ b = 2 \/ b = 3 \/ b = 4
          OBVIOUS
        <5> QED BY <2>1, <2>7, <4>1, <5>1
      <4>3. TryMatch(s) = n
        BY <1>0, <3>2, <3>6
      <4> HIDE DEF First
      <4> QED BY <1>10, <4>2, <4>3
    <3>7. CASE blanks # n /\ blanks > 1
      <4>1. blanks - 1 \in L[5]
        <5>1. blanks - 1 \in 1 .. n /\ (blanks - 1) + 1 = blanks /\ \A j \in 1 .. blanks - 1 : j \in Z
          BY <1>0, <3>4, <3>7
        <5>2. blanks \in Z
          BY <1>0, <3>4
        <5> QED BY <1>5, <5>1, <5>2
      <4>2. ASSUME NEW k \in L[5] PROVE k <= blanks - 1
        <5>1. k \in 1 .. n /\ (\A j \in 1 .. k : j \in Z) /\ (k = n \/ k + 1 \in Z)
          BY <1>5
        <5>2. k <= blanks
          BY <3>5, <5>1
        <5>3. k # blanks
          BY <3>4, <3>7, <5>1
        <5> QED BY <1>0, <3>4, <5>1, <5>2, <5>3
      <4>3. First(5, blanks - 1)
        <5>1. \A b \in 1 .. 6 : b < 5 => b = 1 \/ b = 2 \/ b = 3 \/ b = 4
          OBVIOUS
        <5> QED BY <2>1, <2>7, <4>1, <4>2, <5>1
      <4>4. TryMatch(s) = blanks - 1
        BY <1>0, <3>2, <3>4, <3>7
      <4> HIDE DEF First
      <4> QED BY <1>10, <4>3, <4>4
    <3>8. CASE blanks # n /\ ~(blanks > 1)
      <4>1. blanks = 1
        BY <1>0, <3>4, <3>8
      <4>2. L[5] = {}
        <5>1. ASSUME NEW k \in L[5] PROVE FALSE
          <6>1. k \in 1 .. n /\ (\A j \in 1 .. k : j \in Z) /\ (k = n \/ k + 1 \in Z)
            BY <1>5
          <6>2. k <= blanks
            BY <3>5, <6>1
          <6>3. k = blanks
            BY <4>1, <6>1, <6>2
          <6> QED BY <3>4, <3>8, <6>1, <6>3
        <5> QED BY <5>1
      <4>3. 1 \in L[6] /\ \A k \in L[6] : k <= 1
        BY <1>0, <1>5, <3>4, <3>5, <4>1
      <4>4. First(6, 1)
        <5>1. \A b \in 1 .. 6 : b < 6 => b = 1 \/ b = 2 \/ b = 3 \/ b = 4 \/ b = 5
          OBVIOUS
        <5> QED BY <2>1, <2>7, <4>2, <4>3, <5>1
      <4>5. TryMatch(s) = 1
        BY <3>2, <4>1
      <4> HIDE DEF First
      <4> QED BY <1>10, <4>4, <4>5
    <3> QED BY <3>6, <3>7, <3>8
  <2> QED BY <2>4, <2>5, <2>6, <2>7
<1> QED BY <1>11, <1>12

-----------------------------------------------------------------------------
(* A list of words, each of which is what TryMatch takes of the rest.      *)
Matched(words) ==
  \A k \in 1 .. Len(words) :
    /\ FlattenSeq(SubSeq(words, k, Len(words))) # <<>>
    /\ Len(words[k]) = TryMatch(FlattenSeq(SubSeq(words, k, Len(words))))

LEMMA OneWordMore ==
  ASSUME NEW U, NEW v \in Seq(Seq(U)), Matched(v), NEW w \in Seq(U),
         FlattenSeq(<<w>> \o v) # <<>>, Len(w) = TryMatch(FlattenSeq(<<w>> \o v))
  PROVE  Matched(<<w>> \o v)
<1> DEFINE x == <<w>> \o v
<1>1. x \in Seq(Seq(U)) /\ Len(x) = Len(v) + 1 /\ x[1] = w /\ \A k \in 1 .. Len(v) : x[k + 1] = v[k]
  BY ConcatProperties
<1>2. x = <<w>> \o v
  OBVIOUS
<1> HIDE DEF x
<1>3. SubSeq(x, 1, Len(x)) = x
  BY <1>1, SubSeqFull
<1>4. ASSUME NEW k \in 1 .. Len(v) PROVE SubSeq(x, k + 1, Len(x)) = SubSeq(v, k, Len(v))
  <2> DEFINE n == Len(v)
  <2>0. n \in Nat /\ k \in 1 .. n /\ Len(x) = n + 1
    BY <1>1
  <2> HIDE DEF n
  <2>1. /\ SubSeq(x, k + 1, n + 1) \in Seq(Seq(U)) /\ Len(SubSeq(x, k + 1, n + 1)) = n - k + 1
        /\ \A j \in 1 .. n - k + 1 : SubSeq(x, k + 1, n + 1)[j] = x[k + j]
    <3>1. k + 1 \in 1 .. Len(x) + 1 /\ n + 1 \in (k + 1) - 1 .. Len(x) /\ \A j \in k + 1 .. n + 1 : x[j] \in Seq(U)
      BY <1>1, <2>0, SMTT(30)
    <3>2. /\ SubSeq(x, k + 1, n + 1) \in Seq(Seq(U))
          /\ Len(SubSeq(x, k + 1, n + 1)) = IF k + 1 <= n + 1 THEN (n + 1) - (k + 1) + 1 ELSE 0
          /\ \A j \in 1 .. (n + 1) - (k + 1) + 1 : SubSeq(x, k + 1, n + 1)[j] = x[k + 1 + j - 1]
      BY <1>1, <2>0, <3>1, SubSeqProperties, SMTT(30)
    <3> DEFINE q == SubSeq(x, k + 1, n + 1)
    <3> HIDE DEF q
    <3>3. (n + 1) - (k + 1) + 1 = n - k + 1 /\ k + 1 <= n + 1 /\ \A j \in 1 .. n - k + 1 : k + 1 + j - 1 = k + j
      BY <2>0
    <3> QED BY <3>2, <3>3 DEF q
  <2>2. /\ SubSeq(v, k, n) \in Seq(Seq(U)) /\ Len(SubSeq(v, k, n)) = n - k + 1
        /\ \A j \in 1 .. n - k + 1 : SubSeq(v, k, n)[j] = v[k + j - 1]
    <3>1. \A j \in k .. n : v[j] \in Seq(U)
      BY <2>0 DEF n
    <3> QED BY <2>0, <3>1, SubSeqProperties DEF n
  <2>3. \A j \in 1 .. n - k + 1 : SubSeq(x, k + 1, n + 1)[j] = SubSeq(v, k, n)[j]
    <3> SUFFICES ASSUME NEW j \in 1 .. n - k + 1 PROVE SubSeq(x, k + 1, n + 1)[j] = SubSeq(v, k, n)[j]
      OBVIOUS
    <3>1. k + j - 1 \in 1 .. n /\ (k + j - 1) + 1 = k + j
      BY <2>0
    <3>2. x[k + j] = v[k + j - 1]
      BY <1>1, <3>1 DEF n
    <3> QED BY <2>1, <2>2, <3>2
  <2>4. SubSeq(x, k + 1, n + 1) = SubSeq(v, k, n)
    BY <2>1, <2>2, <2>3, SeqEqual
  <2> QED BY <2>0, <2>4 DEF n
<1>5. ASSUME NEW k \in 1 .. Len(x)
      PROVE  /\ FlattenSeq(SubSeq(x, k, Len(x))) # <<>>
             /\ Len(x[k]) = TryMatch(FlattenSeq(SubSeq(x, k, Len(x))))
  <2>1. CASE k = 1
    BY <1>1, <1>2, <1>3, <2>1
  <2>2. CASE k # 1
    <3>1. k - 1 \in 1 .. Len(v) /\ (k - 1) + 1 = k
      BY <1>1, <2>2
    <3> DEFINE m == k - 1
    <3> HIDE DEF m
    <3>2. m \in 1 .. Len(v) /\ m + 1 = k
      BY <3>1 DEF m
    <3>3. SubSeq(x, k, Len(x)) = SubSeq(v, m, Len(v)) /\ x[k] = v[m]
      BY <1>1, <1>4, <3>2
    <3> QED BY <3>2, <3>3 DEF Matched
  <2> QED BY <2>1, <2>2
<1> QED BY <1>2, <1>5 DEF Matched

(* Words leaves nothing out.                                               *)
LEMMA WordsSpell ==
  ASSUME NEW U \in SUBSET CodePoints, NEW s \in Seq(U)
  PROVE  Words(s) \in Seq(Seq(U)) /\ FlattenSeq(Words(s)) = s /\ Matched(Words(s))
<1> DEFINE n == Len(s)
<1> DEFINE V == Seq(Seq(U))
<1> DEFINE size == [p \in 1 .. n |-> TryMatch(SubSeq(s, p, n))]
<1> DEFINE F == [p \in 1 .. n |-> [v \in V |-> <<SubSeq(s, p, p + size[p] - 1)>> \o v]]
<1> DEFINE jump == [p \in 1 .. n |-> p + size[p]]
<1> DEFINE body(f) == [p \in 1 .. n + 1 |->
        IF p > n THEN <<>>
        ELSE <<SubSeq(s, p, p + TryMatch(SubSeq(s, p, n)) - 1)>> \o f[p + TryMatch(SubSeq(s, p, n))]]
<1>0. n \in Nat /\ <<>> \in V /\ s \in Seq(CodePoints) /\ \A k \in 1 .. n : s[k] \in U
  OBVIOUS
<1>1. ASSUME NEW p \in 1 .. n
      PROVE  size[p] \in Nat /\ 1 <= size[p] /\ p + size[p] <= n + 1
  <2>1. \A k \in p .. n : s[k] \in CodePoints
    BY <1>0
  <2>2. SubSeq(s, p, n) \in Seq(CodePoints) /\ Len(SubSeq(s, p, n)) = n - p + 1
    BY <1>0, <2>1, SubSeqProperties
  <2> DEFINE t == SubSeq(s, p, n)
  <2> HIDE DEF t, n
  <2>3. TryMatch(t) \in 1 .. Len(t) /\ Len(t) = n - p + 1
    <3>1. t \in Seq(CodePoints) /\ Len(t) = n - p + 1 /\ n - p + 1 >= 1
      BY <1>0, <2>2 DEF t
    <3>2. t # <<>>
      BY <3>1
    <3> QED BY <3>1, <3>2, MatchedLength
  <2>4. size[p] = TryMatch(t)
    BY DEF t
  <2> QED BY <1>0, <2>3, <2>4
<1>2. \A p \in 1 .. n : size[p] = TryMatch(SubSeq(s, p, n))
  OBVIOUS
<1> HIDE DEF size
<1>3. ASSUME NEW p \in 1 .. n
      PROVE  /\ SubSeq(s, p, p + size[p] - 1) \in Seq(U)
             /\ SubSeq(s, p, p + size[p] - 1) \o SubSeq(s, p + size[p], n) = SubSeq(s, p, n)
  <2>1. /\ p \in 1 .. n + 1 /\ p + size[p] - 1 \in p - 1 .. n /\ (p + size[p] - 1) + 1 = p + size[p]
        /\ p + size[p] - 1 \in Int /\ p \in Int
    BY <1>0, <1>1
  <2>2. \A k \in p .. p + size[p] - 1 : s[k] \in U
    BY <1>0, <2>1
  <2> DEFINE k == p + size[p] - 1
  <2>3. k \in p - 1 .. n /\ n \in k .. Len(s) /\ k \in Int /\ k + 1 = p + size[p]
    BY <1>0, <2>1
  <2>4. p \in 1 .. Len(s) + 1
    BY <2>1
  <2> HIDE DEF k
  <2>5. SubSeq(s, p, k) \o SubSeq(s, k + 1, n) = SubSeq(s, p, n)
    <3> QED BY <2>3, <2>4, ConcatAdjacentSubSeq
  <2> HIDE DEF n
  <2>6. SubSeq(s, p, k) \in Seq(U)
    BY <2>1, <2>2, SubSeqProperties DEF k
  <2> QED BY <2>3, <2>5, <2>6 DEF k
<1>4. Steps(F, V, 1 .. n)
  <2> SUFFICES ASSUME NEW p \in 1 .. n, NEW v \in V PROVE F[p][v] \in V
    BY DEF Steps
  <2> DEFINE w == SubSeq(s, p, p + size[p] - 1)
  <2>1. F[p][v] = <<w>> \o v /\ w \in Seq(U)
    BY <1>3
  <2> HIDE DEF w, F
  <2> QED BY <2>1
<1>5. jump \in [1 .. n -> Nat] /\ \A p \in 1 .. n : p < jump[p] /\ jump[p] <= n + 1
  <2> HIDE DEF n
  <2> QED BY <1>0, <1>1
<1>6. PICK f : JumpRun(f, n, V, <<>>, F, jump)
  <2> HIDE DEF n, V, F, jump
  <2> QED BY <1>0, <1>4, <1>5, JumpRunExists
<1>7. f = body(f)
  <2>1. f \in [1 .. n + 1 -> V] /\ f[n + 1] = <<>>
    BY <1>6 DEF JumpRun
  <2>2. ASSUME NEW p \in 1 .. n + 1 PROVE f[p] = body(f)[p]
    <3>1. CASE p = n + 1
      BY <2>1, <3>1, <1>0
    <3>2. CASE p # n + 1
      <4>1. p \in 1 .. n /\ ~(p > n)
        BY <3>2, <1>0
      <4>2. f[p] = F[p][f[jump[p]]]
        BY <1>6, <4>1 DEF JumpRun
      <4>3. jump[p] \in 1 .. n + 1
        <5> HIDE DEF jump
        <5> QED BY <1>5, <4>1
      <4>4. f[jump[p]] \in V /\ jump[p] = p + size[p]
        BY <2>1, <4>1, <4>3
      <4>5. f[p] = <<SubSeq(s, p, p + size[p] - 1)>> \o f[p + size[p]]
        BY <4>1, <4>2, <4>4
      <4> HIDE DEF F, jump
      <4> QED BY <1>2, <4>1, <4>5
    <3> QED BY <3>1, <3>2
  <2>3. f = [p \in 1 .. n + 1 |-> f[p]]
    BY <2>1
  <2>4. body(f) = [p \in 1 .. n + 1 |-> body(f)[p]]
    OBVIOUS
  <2> HIDE DEF body
  <2> QED BY <2>2, <2>3, <2>4
<1>8. PICK from : from = body(from) /\ Words(s) = from[1]
  <2>1. \E g : g = body(g)
    <3> HIDE DEF body
    <3> QED BY <1>7
  <2>2. Words(s) = (CHOOSE g : g = body(g))[1]
    BY DEF Words
  <2> HIDE DEF body
  <2> QED BY <2>1, <2>2
<1> DEFINE S == {p \in Nat : /\ from[p] \in V /\ FlattenSeq(from[p]) = SubSeq(s, p, n)
                            /\ Matched(from[p])}
<1>9. n + 1 \in S
  <2>1. from[n + 1] = <<>>
    BY <1>0, <1>8
  <2>2. SubSeq(s, n + 1, n) = <<>>
    BY <1>0, SubSeqEmpty
  <2>3. n + 1 \in Nat /\ Matched(<<>>)
    BY <1>0 DEF Matched
  <2> HIDE DEF n, V, body
  <2> QED BY <1>0, <2>1, <2>2, <2>3, FlattenNone
<1>10. ASSUME NEW p \in 1 .. n, \A q \in p + 1 .. n + 1 : q \in S PROVE p \in S
  <2> DEFINE w == SubSeq(s, p, p + size[p] - 1)
  <2>1. p \in 1 .. n + 1 /\ ~(p > n)
    BY <1>0
  <2>2. from[p] = <<w>> \o from[p + size[p]]
    <3>1. body(from)[p] = <<w>> \o from[p + size[p]]
      BY <1>2, <2>1
    <3> HIDE DEF body
    <3> QED BY <1>8, <3>1
  <2> HIDE DEF body, w, V
  <2>3. p + size[p] \in p + 1 .. n + 1
    BY <1>1, <1>0
  <2>4. from[p + size[p]] \in V /\ FlattenSeq(from[p + size[p]]) = SubSeq(s, p + size[p], n)
    BY <1>10, <2>3
  <2>5. w \in Seq(U) /\ w \o SubSeq(s, p + size[p], n) = SubSeq(s, p, n)
    BY <1>3 DEF w
  <2>6. <<w>> \in V /\ FlattenSeq(<<w>>) = w
    BY <2>5, FlattenOne DEF V
  <2>7. FlattenSeq(<<w>> \o from[p + size[p]]) = w \o SubSeq(s, p + size[p], n)
    <3>1. \A a, b \in V : FlattenSeq(a \o b) = FlattenSeq(a) \o FlattenSeq(b)
      BY FlattenConcat DEF V
    <3> DEFINE a == <<w>>
    <3> DEFINE b == from[p + size[p]]
    <3>2. a \in V /\ b \in V
      BY <2>4, <2>6
    <3> HIDE DEF a, b
    <3>3. FlattenSeq(a \o b) = FlattenSeq(a) \o FlattenSeq(b)
      BY ONLY <3>1, <3>2
    <3> QED BY <2>4, <2>6, <3>3 DEF a, b
  <2>8. from[p] \in V
    BY <2>2, <2>4, <2>6, ConcatProperties DEF V
  <2>9. FlattenSeq(from[p]) = SubSeq(s, p, n)
    BY <2>2, <2>5, <2>7
  <2>10. Len(w) = TryMatch(SubSeq(s, p, n)) /\ SubSeq(s, p, n) # <<>>
    <3>1. \A k \in p .. n : s[k] \in U
      BY <1>0
    <3>2. Len(SubSeq(s, p, n)) = n - p + 1 /\ Len(w) = size[p]
      <4>1. p + size[p] - 1 \in p .. n /\ (p + size[p] - 1) - p + 1 = size[p]
        BY <1>0, <1>1
      <4>2. \A k \in p .. p + size[p] - 1 : s[k] \in U
        BY <1>0, <4>1
      <4>3. Len(SubSeq(s, p, n)) = n - p + 1
        BY <1>0, <3>1, SubSeqProperties
      <4> DEFINE e == p + size[p] - 1
      <4>4. e \in p .. n /\ \A k \in p .. e : s[k] \in U
        BY <4>1, <4>2
      <4> HIDE DEF e
      <4>5. Len(SubSeq(s, p, e)) = e - p + 1
        BY <1>0, <4>4, SubSeqProperties
      <4>6. e - p + 1 = size[p] /\ w = SubSeq(s, p, e)
        BY <4>1 DEF e, w
      <4> QED BY <4>3, <4>5, <4>6
    <3>3. n - p + 1 >= 1
      BY <1>0
    <3> HIDE DEF n
    <3>4. SubSeq(s, p, n) # <<>>
      <4>1. ASSUME SubSeq(s, p, n) = <<>> PROVE FALSE
        <5>1. Len(SubSeq(s, p, n)) = 0
          BY <4>1
        <5>2. Len(SubSeq(s, p, n)) = n - p + 1
          BY <3>2
        <5>3. n - p + 1 = 0
          BY ONLY <5>1, <5>2
        <5> QED BY <1>0, <3>3, <5>3
      <4> QED BY <4>1
    <3> QED BY <1>2, <3>2, <3>4
  <2>11. Matched(from[p])
    <3>1. Matched(from[p + size[p]])
      BY <1>10, <2>3
    <3> HIDE DEF S
    <3>2. FlattenSeq(<<w>> \o from[p + size[p]]) = SubSeq(s, p, n)
      BY <2>2, <2>9
    <3>3. Matched(<<w>> \o from[p + size[p]])
      BY <2>4, <2>5, <2>10, <3>1, <3>2, OneWordMore DEF V
    <3> QED BY <2>2, <3>3
  <2> QED BY <2>1, <2>8, <2>9, <2>11
<1> HIDE DEF S
<1>11. 1 \in S
  <2> HIDE DEF n
  <2> QED BY <1>0, <1>9, <1>10, FromTheEnd
<1>12. SubSeq(s, 1, n) = s
  BY <1>0, SubSeqFull
<1> QED BY <1>8, <1>11, <1>12 DEF S

(***************************************************************************)
(* Where the tables are searched as far as the users type, the words of    *)
(* GPT2Tokenizer are those of the pattern: TryMatch takes what the first   *)
(* alternative that matches takes at most, and GetNextToken goes on where  *)
(* it ended.                                                               *)
(***************************************************************************)
THEOREM WordsMatchPattern ==
  ASSUME CharactersCovered
  PROVE  Spec => []WordsOfPattern
<1>1. TextTyped => WordsOfPattern
  <2> SUFFICES ASSUME TextTyped PROVE WordsOfPattern
    OBVIOUS
  <2> DEFINE words == Words(text)
  <2> DEFINE behind == [k \in 1 .. Len(words) |-> FlattenSeq(SubSeq(words, k, Len(words)))]
  <2>1. Alphabet \in SUBSET CodePoints /\ text \in Seq(Alphabet)
    BY TokenizersAssumption DEF TextTyped
  <2>2. words \in Seq(Seq(Alphabet)) /\ FlattenSeq(words) = text /\ Matched(words)
    BY <2>1, WordsSpell
  <2> HIDE DEF words
  <2>3. ASSUME NEW k \in 1 .. Len(words) PROVE Len(words[k]) = PatternWord(behind[k])
    <3> DEFINE r == FlattenSeq(SubSeq(words, k, Len(words)))
    <3>1. r # <<>> /\ Len(words[k]) = TryMatch(r)
      BY <2>2 DEF Matched
    <3>2. SubSeq(words, k, Len(words)) \in Seq(Seq(Alphabet))
      BY <2>2
    <3>3. r \in Seq(Alphabet)
      BY <3>2, FlattenType
    <3>4. behind[k] = r
      OBVIOUS
    <3> HIDE DEF r, behind
    <3> QED BY <3>1, <3>3, <3>4, MatchesPattern
  <2>4. DOMAIN words = 1 .. Len(words)
    BY <2>2
  <2> HIDE DEF behind
  <2>5. FlattenSeq(words) = text /\ \A k \in DOMAIN words : Len(words[k]) = PatternWord(behind[k])
    BY <2>2, <2>3, <2>4
  <2> QED BY <2>5 DEF WordsOfPattern, words, behind
<1> QED BY <1>1, TextIsTyped, PTL

-----------------------------------------------------------------------------
(* The tokens GPT2Tokenizer knows, and what a list of their ids spells.    *)
Known == DOMAIN GptIds
Ids == Range(GptIds)
Spelt(vals) == Replaced(Spelling, vals)

LEMMA GptVocabulary ==
  /\ GptIds \in [Known -> Nat] /\ Known \subseteq Seq(CodePoints) /\ Ids \subseteq Nat
  /\ \A t, u \in Known : GptIds[t] = GptIds[u] => t = u
  /\ \A c \in Alphabet : <<c>> \in Known
<1> DEFINE D == DOMAIN VocabFile
<1> DEFINE n == Cardinality(D)
<1>1. /\ IsFiniteSet(D) /\ VocabFile \in [D -> Nat] /\ D \subseteq Seq(CodePoints)
      /\ Unknown \in Seq(CodePoints) /\ \A c \in Alphabet : <<c>> \in D
  BY GptFilesAssumption
<1>2. n \in Nat
  BY <1>1, FS_CardinalityType
<1>3. \A t, u \in D : VocabFile[t] = VocabFile[u] => t = u
  BY GptFilesAssumption DEF IsInjective
<1>4. Unknown \in D \/ \A t \in D : VocabFile[t] # n
  BY GptFilesAssumption DEF Range
<1>5. CASE Unknown \in D
  <2>1. GptIds = VocabFile
    BY <1>5 DEF GptIds, GptVocab
  <2> QED BY <1>1, <1>3, <2>1 DEF Known, Ids, Range
<1>6. CASE Unknown \notin D
  <2>1. GptIds = [t \in D \cup {Unknown} |-> IF t = Unknown THEN n ELSE VocabFile[t]]
    BY <1>6 DEF GptIds, GptVocab, With
  <2> HIDE DEF D, n
  <2>2. Known = D \cup {Unknown}
    BY <2>1 DEF Known
  <2>3. GptIds \in [Known -> Nat]
    BY <1>1, <1>2, <2>1, <2>2
  <2>4. \A t \in Known : GptIds[t] = IF t = Unknown THEN n ELSE VocabFile[t]
    BY <2>1, <2>2
  <2>5. \A t, u \in Known : GptIds[t] = GptIds[u] => t = u
    BY <1>3, <1>4, <1>6, <2>2, <2>4
  <2>6. Ids \subseteq Nat
    BY <2>3 DEF Ids, Range, Known
  <2> QED BY <1>1, <2>2, <2>3, <2>5, <2>6
<1> QED BY <1>5, <1>6

(* A token and its id name each other.                                     *)
LEMMA SpellingInverts ==
  /\ Spelling \in [Ids -> Known]
  /\ \A t \in Known : GptIds[t] \in Ids /\ Spelling[GptIds[t]] = t
  /\ \A id \in Ids : GptIds[Spelling[id]] = id
<1>1. \A t \in Known : GptIds[t] \in Ids
  BY DEF Known, Ids, Range
<1>2. \A id \in Ids : \E t \in Known : GptIds[t] = id
  BY DEF Known, Ids, Range
<1>3. \A id \in Ids : Spelling[id] = CHOOSE t \in Known : GptIds[t] = id
  BY DEF Spelling, Known, Ids
<1>4. \A id \in Ids : Spelling[id] \in Known /\ GptIds[Spelling[id]] = id
  BY <1>2, <1>3
<1>5. Spelling = [id \in Ids |-> Spelling[id]]
  BY DEF Spelling, Ids
<1>6. Spelling \in [Ids -> Known]
  BY <1>4, <1>5
<1>7. \A t \in Known : Spelling[GptIds[t]] = t
  BY <1>1, <1>4, GptVocabulary
<1> QED BY <1>1, <1>4, <1>6, <1>7

(* The tokens of a list of ids.                                            *)
LEMMA SpeltTokens ==
  ASSUME NEW vals \in Seq(Ids)
  PROVE  /\ [k \in DOMAIN vals |-> Spelling[vals[k]]] \in Seq(Known)
         /\ Len([k \in DOMAIN vals |-> Spelling[vals[k]]]) = Len(vals)
         /\ Spelt(vals) \in Seq(CodePoints)
<1> DEFINE tokens == [k \in DOMAIN vals |-> Spelling[vals[k]]]
<1>1. \A k \in 1 .. Len(vals) : vals[k] \in Ids
  OBVIOUS
<1>2. \A k \in 1 .. Len(vals) : Spelling[vals[k]] \in Known
  BY <1>1, SpellingInverts
<1>3. tokens \in Seq(Known) /\ Len(tokens) = Len(vals)
  BY <1>2
<1> HIDE DEF tokens
<1>4. tokens \in Seq(Seq(CodePoints))
  BY <1>3, GptVocabulary
<1>5. FlattenSeq(tokens) \in Seq(CodePoints)
  BY <1>4, FlattenType
<1> QED BY <1>3, <1>5 DEF tokens, Spelt, Replaced, Mapped

(* Ids are spelt one after the other.                                      *)
LEMMA SpeltParts ==
  /\ \A v, w \in Seq(Ids) : Spelt(v \o w) = Spelt(v) \o Spelt(w)
  /\ \A x \in Ids : Spelt(<<x>>) = Spelling[x]
<1>1. Spelling \in [Ids -> Seq(CodePoints)]
  BY SpellingInverts, GptVocabulary
<1> QED BY <1>1, ReplacedConcat, ReplacedOne DEF Spelt

(* The id of a string: -1 stands for an unknown one.                       *)
LEMMA IdOf ==
  ASSUME NEW str
  PROVE  /\ IdIn(GptIds, str) \in Int
         /\ str \in Known => IdIn(GptIds, str) \in Ids /\ Spelling[IdIn(GptIds, str)] = str
         /\ IdIn(GptIds, str) \in Ids => str \in Known
         /\ IdIn(GptIds, str) = -1 => str \notin Known
<1>1. CASE str \in Known
  <2>1. IdIn(GptIds, str) = GptIds[str]
    BY <1>1 DEF IdIn, Known
  <2>2. GptIds[str] \in Ids /\ GptIds[str] \in Nat /\ Spelling[GptIds[str]] = str
    BY <1>1, SpellingInverts, GptVocabulary
  <2> QED BY <1>1, <2>1, <2>2
<1>2. CASE str \notin Known
  <2>1. IdIn(GptIds, str) = -1
    BY <1>2 DEF IdIn, Known
  <2>2. -1 \notin Ids
    BY GptVocabulary
  <2> QED BY <1>2, <2>1, <2>2
<1> QED BY <1>1, <1>2

(* Tables of merges that spell: the id of a pair of tokens is that of the  *)
(* token they make together.  What a pair has is what its last line says.  *)
TableSet == UNION {[D -> [id : Int, rank : Nat]] : D \in SUBSET (Int \X Int)}
Joins(m, pair) ==
  /\ m[pair].id \in Ids
  /\ Spelling[m[pair].id] = Spelling[pair[1]] \o Spelling[pair[2]]
MergeKey(k) == <<IdIn(GptIds, MergeLines[k][1]), IdIn(GptIds, MergeLines[k][2])>>
MergeValue(k) == [id |-> IdIn(GptIds, MergeLines[k][1] \o MergeLines[k][2]), rank |-> k]
SaidByLine(m, pair) ==
  LET k == m[pair].rank IN k \in DOMAIN MergeLines /\ pair = MergeKey(k) /\ m[pair] = MergeValue(k)

Tables == {m \in TableSet : /\ \A pair \in DOMAIN m \cap (Ids \X Ids) : Joins(m, pair)
                            /\ \A pair \in DOMAIN m : SaidByLine(m, pair)}

LEMMA OneLineMore ==
  ASSUME NEW m \in Tables, NEW k \in DOMAIN MergeLines
  PROVE  With(m, MergeKey(k), MergeValue(k)) \in Tables
<1> DEFINE key == MergeKey(k)
<1> DEFINE value == MergeValue(k)
<1> DEFINE w == With(m, key, value)
<1>1. key \in Int \X Int /\ value \in [id : Int, rank : Nat]
  <2>1. k \in Nat
    BY GptFilesAssumption
  <2> QED BY <2>1, IdOf DEF MergeKey, MergeValue
<1>2. PICK D \in SUBSET (Int \X Int) : m \in [D -> [id : Int, rank : Nat]]
  BY DEF Tables, TableSet
<1> HIDE DEF key, value
<1>3. DOMAIN w = D \cup {key} /\ \A x \in DOMAIN w : w[x] = IF x = key THEN value ELSE m[x]
  BY <1>2 DEF With
<1>4. w \in TableSet
  <2>1. w \in [D \cup {key} -> [id : Int, rank : Nat]]
    BY <1>1, <1>2 DEF With
  <2>2. D \cup {key} \in SUBSET (Int \X Int)
    BY <1>1
  <2> QED BY <2>1, <2>2 DEF TableSet
<1> HIDE DEF w
<1>5. ASSUME NEW pair \in DOMAIN w \cap (Ids \X Ids) PROVE Joins(w, pair)
  <2>1. CASE pair # key
    <3>1. pair \in DOMAIN m \cap (Ids \X Ids) /\ w[pair] = m[pair]
      BY <1>2, <1>3, <2>1
    <3> QED BY <3>1 DEF Tables, Joins
  <2>2. CASE pair = key
    <3> DEFINE a == MergeLines[k][1]
    <3> DEFINE b == MergeLines[k][2]
    <3>1. w[pair] = value /\ pair[1] = IdIn(GptIds, a) /\ pair[2] = IdIn(GptIds, b)
          /\ value.id = IdIn(GptIds, a \o b)
      BY <1>3, <2>2 DEF key, value, MergeKey, MergeValue
    <3>2. pair[1] \in Ids /\ pair[2] \in Ids
      OBVIOUS
    <3>3. a \in Known /\ b \in Known
      BY <3>1, <3>2, IdOf
    <3>4. a \o b \in Known
      BY <3>3, GptFilesAssumption DEF Known
    <3> HIDE DEF a, b
    <3>5. /\ Spelling[pair[1]] = a /\ Spelling[pair[2]] = b
          /\ w[pair].id \in Ids /\ Spelling[w[pair].id] = a \o b
      BY <3>1, <3>3, <3>4, IdOf
    <3> QED BY <3>5 DEF Joins
  <2> QED BY <2>1, <2>2
<1>6. ASSUME NEW pair \in DOMAIN w PROVE SaidByLine(w, pair)
  <2>1. CASE pair # key
    <3>1. pair \in DOMAIN m /\ w[pair] = m[pair]
      BY <1>2, <1>3, <2>1
    <3>2. SaidByLine(m, pair)
      BY <3>1 DEF Tables
    <3> QED BY <3>1, <3>2 DEF SaidByLine
  <2>2. CASE pair = key
    <3>1. w[pair] = value
      BY <1>3, <2>2
    <3>2. w[pair] = MergeValue(k) /\ w[pair].rank = k /\ pair = MergeKey(k)
      BY <2>2, <3>1 DEF key, value, MergeValue
    <3> QED BY <3>2 DEF SaidByLine
  <2> QED BY <2>1, <2>2
<1>7. w \in Tables
  BY <1>4, <1>5, <1>6 DEF Tables
<1> QED BY <1>7 DEF w, key, value

(* The table that is read is one of them.                                  *)
LEMMA MergesAreRead == Merges \in Tables
<1> DEFINE n == Len(MergeLines)
<1> DEFINE key(line) == <<IdIn(GptIds, line[1]), IdIn(GptIds, line[2])>>
<1> DEFINE op(map, k) == With(map, key(MergeLines[k]),
                   [id |-> IdIn(GptIds, MergeLines[k][1] \o MergeLines[k][2]), rank |-> k])
<1> DEFINE V == Tables
<1> DEFINE seq == [i \in DOMAIN MergeLines |-> i]
<1> DEFINE F == [k \in 1 .. n |-> [v \in V |-> op(v, seq[k])]]
<1>0. n \in Nat /\ DOMAIN seq = 1 .. n /\ (\A k \in 1 .. n : seq[k] = k) /\ DOMAIN MergeLines = 1 .. n
  BY GptFilesAssumption
<1>1. <<>> \in V
  <2>1. <<>> \in [{} -> [id : Int, rank : Nat]] /\ DOMAIN <<>> = {}
    OBVIOUS
  <2>2. <<>> \in TableSet
    BY <2>1 DEF TableSet
  <2> QED BY <2>1, <2>2 DEF Tables
<1>2. \A k \in 1 .. n : \A v \in V : F[k][v] = op(v, seq[k])
  OBVIOUS
<1>4. ASSUME NEW k \in 1 .. n, NEW v \in V PROVE op(v, seq[k]) \in V
  <2>1. op(v, seq[k]) = With(v, MergeKey(k), MergeValue(k))
    BY <1>0 DEF MergeKey, MergeValue
  <2> QED BY <1>0, <2>1, OneLineMore
<1> HIDE DEF F
<1>5. Steps(F, V, 1 .. n)
  <2> HIDE DEF op, V, seq
  <2> QED BY <1>2, <1>4 DEF Steps
<1>6. \E it : it = [s \in SUBSET (1 .. n) |->
                     IF s = {} THEN <<>> ELSE op(it[s \ {Max(s)}], seq[Max(s)])]
  <2>1. PICK it : LeftIteration(it, n, V, <<>>, F)
    <3> HIDE DEF op, V, seq, n
    <3> QED BY <1>0, <1>1, <1>5, LeftIterationExists
  <2>2. ASSUME NEW s \in SUBSET (1 .. n), s # {}
        PROVE  it[s] = op(it[s \ {Max(s)}], seq[Max(s)])
    <3>1. Max(s) \in 1 .. n /\ it[s \ {Max(s)}] \in V /\ it[s] = F[Max(s)][it[s \ {Max(s)}]]
      BY <2>1, <2>2 DEF LeftIteration
    <3> HIDE DEF V, op, seq
    <3> QED BY <1>2, <3>1
  <2>3. it \in [SUBSET (1 .. n) -> V] /\ it[{}] = <<>>
    BY <2>1 DEF LeftIteration
  <2> HIDE DEF V, op, seq
  <2>4. it = [s \in SUBSET (1 .. n) |->
               IF s = {} THEN <<>> ELSE op(it[s \ {Max(s)}], seq[Max(s)])]
    BY <2>2, <2>3
  <2> QED BY <2>4
<1>7. PICK it :
        /\ it = [s \in SUBSET (1 .. n) |->
                   IF s = {} THEN <<>> ELSE op(it[s \ {Max(s)}], seq[Max(s)])]
        /\ Merges = it[1 .. n]
  <2>1. Merges = FoldLeft(op, <<>>, seq)
    BY DEF Merges, BpeMap, FoldLeftDomain
  <2> HIDE DEF op, seq, V
  <2> QED BY <1>0, <1>6, <2>1 DEF FoldLeft, MapThenFoldSet
<1>8. LeftFold(it, n, V, <<>>, F)
  <2> HIDE DEF op, seq, V
  <2>1. it[{}] = <<>>
    BY <1>7
  <2>2. ASSUME NEW s \in SUBSET (1 .. n), s # {}, it[s \ {Max(s)}] \in V
        PROVE  it[s] = F[Max(s)][it[s \ {Max(s)}]]
    <3>1. it[s] = op(it[s \ {Max(s)}], seq[Max(s)])
      BY <1>7, <2>2
    <3>2. Max(s) \in 1 .. n
      BY <1>0, <2>2, LargestOf
    <3> QED BY <1>2, <2>2, <3>1, <3>2
  <2> QED BY <2>1, <2>2 DEF LeftFold
<1>9. PICK g : LeftRun(g, n, V, <<>>, F) /\ g[n] = it[1 .. n]
  <2> HIDE DEF n, op, V, seq
  <2> QED BY <1>0, <1>1, <1>5, <1>8, LeftRuns
<1> HIDE DEF n, V
<1>10. n \in 0 .. n /\ g \in [0 .. n -> V]
  BY <1>0, <1>9 DEF LeftRun
<1>11. g[n] \in V
  BY <1>10
<1> QED BY <1>7, <1>9, <1>11 DEF V

(* Where a list has a pair of the table, and what the pair is.             *)
PairAt(vals, k) == <<vals[k], vals[k + 1]>>
Active(m, vals) == {k \in 1 .. Len(vals) - 1 : PairAt(vals, k) \in DOMAIN m}

(* A turn of bpe: pair is one of the lowest rank, and from has what the    *)
(* list is from each place on when it is merged.                           *)
Turn(m, vals, pair, from) ==
  /\ pair \in DOMAIN m \cap (Ids \X Ids)
  /\ \E k \in Active(m, vals) : PairAt(vals, k) = pair
  /\ \A k \in Active(m, vals) : m[pair].rank <= m[PairAt(vals, k)].rank
  /\ MergeOnce(m, vals) = from[1]
  /\ from[Len(vals) + 1] = <<>>
  /\ \A i \in 1 .. Len(vals) :
       IF i < Len(vals) /\ PairAt(vals, i) = pair
       THEN i + 2 \in 1 .. Len(vals) + 1 /\ from[i] = <<m[pair].id>> \o from[i + 2]
       ELSE from[i] = <<vals[i]>> \o from[i + 1]

LEMMA TurnIsTaken ==
  ASSUME NEW m \in Tables, NEW vals \in Seq(Ids)
  PROVE  IF Active(m, vals) = {} THEN MergeOnce(m, vals) = vals
         ELSE \E pair, from : Turn(m, vals, pair, from)
<1> DEFINE n == Len(vals)
<1> DEFINE at == {k \in 1 .. n - 1 : <<vals[k], vals[k + 1]>> \in DOMAIN m}
<1> DEFINE rank(k) == m[<<vals[k], vals[k + 1]>>].rank
<1> DEFINE best == CHOOSE k \in at : \A j \in at : rank(k) <= rank(j)
<1> DEFINE pair == <<vals[best], vals[best + 1]>>
<1> DEFINE hit(i) == i < n /\ <<vals[i], vals[i + 1]>> = pair
<1> DEFINE body(f) == [i \in 1 .. n + 1 |->
        CASE i > n -> <<>>
          [] i < n /\ <<vals[i], vals[i + 1]>> = pair -> <<m[pair].id>> \o f[i + 2]
          [] OTHER -> <<vals[i]>> \o f[i + 1]]
<1> DEFINE from == CHOOSE f : f = body(f)
<1>0. n \in Nat /\ vals \in [1 .. n -> Ids] /\ at = Active(m, vals)
  BY DEF Active, PairAt
<1>1. MergeOnce(m, vals) = IF at = {} THEN vals ELSE from[1]
  BY DEF MergeOnce
<1>2. CASE at = {}
  BY <1>0, <1>1, <1>2
<1>3. CASE at # {}
  <2>1. best \in at /\ \A j \in at : rank(best) <= rank(j)
    <3> DEFINE R == {rank(k) : k \in at}
    <3>1. \A k \in at : rank(k) \in Nat
      BY DEF Tables, TableSet
    <3>2. R \in SUBSET Nat /\ R # {}
      BY <1>3, <3>1
    <3>3. Min(R) \in R /\ \A r \in R : Min(R) <= r
      <4> HIDE DEF R
      <4> QED BY <3>2, SmallestOf
    <3>4. \E k \in at : \A j \in at : rank(k) <= rank(j)
      BY <3>3
    <3> HIDE DEF at, rank
    <3> QED BY <3>4
  <2>2. pair \in DOMAIN m /\ pair \in Ids \X Ids
    <3> HIDE DEF best
    <3>1. best \in 1 .. n - 1 /\ pair \in DOMAIN m
      BY <2>1
    <3>2. best \in 1 .. n /\ best + 1 \in 1 .. n
      BY <1>0, <3>1
    <3> QED BY <1>0, <3>1, <3>2
  <2>3. (\E k \in at : PairAt(vals, k) = pair) /\ \A k \in at : m[pair].rank <= m[PairAt(vals, k)].rank
    <3> HIDE DEF best, at
    <3> QED BY <2>1 DEF PairAt
  <2> HIDE DEF best
  <2> DEFINE id == m[pair].id
  <2>4. id \in Ids
    BY <2>2 DEF Tables, Joins
  <2> HIDE DEF at, id
  <2> DEFINE V == Seq(Ids)
  <2> DEFINE part == [i \in 1 .. n |-> IF hit(i) THEN <<id>> ELSE <<vals[i]>>]
  <2> DEFINE jump == [i \in 1 .. n |-> IF hit(i) THEN i + 2 ELSE i + 1]
  <2> DEFINE F == [i \in 1 .. n |-> [v \in V |-> part[i] \o v]]
  <2>5. ASSUME NEW i \in 1 .. n PROVE part[i] \in V /\ jump[i] \in i + 1 .. n + 1
    <3>1. vals[i] \in Ids
      BY <1>0
    <3>2. part[i] \in V
      BY <2>4, <3>1
    <3>3. jump[i] = IF hit(i) THEN i + 2 ELSE i + 1
      OBVIOUS
    <3>4. hit(i) => i < n
      OBVIOUS
    <3> HIDE DEF part, hit, jump
    <3> QED BY <1>0, <3>2, <3>3, <3>4
  <2>6. /\ \A i \in 1 .. n : jump[i] = IF hit(i) THEN i + 2 ELSE i + 1
        /\ \A i \in 1 .. n : part[i] = IF hit(i) THEN <<id>> ELSE <<vals[i]>>
    OBVIOUS
  <2> HIDE DEF part
  <2>7. Steps(F, V, 1 .. n)
    <3> SUFFICES ASSUME NEW i \in 1 .. n, NEW v \in V PROVE F[i][v] \in V
      BY DEF Steps
    <3>1. F[i][v] = part[i] \o v /\ part[i] \in V
      BY <2>5
    <3> HIDE DEF F
    <3> QED BY <3>1
  <2>8. jump \in [1 .. n -> Nat] /\ \A i \in 1 .. n : i < jump[i] /\ jump[i] <= n + 1
    <3>1. jump = [i \in 1 .. n |-> jump[i]]
      OBVIOUS
    <3> HIDE DEF jump, n
    <3> QED BY <1>0, <2>5, <3>1
  <2> HIDE DEF jump
  <2>9. PICK f : JumpRun(f, n, V, <<>>, F, jump)
    <3>1. <<>> \in V
      OBVIOUS
    <3> HIDE DEF n, V, F
    <3> QED BY <1>0, <2>7, <2>8, <3>1, JumpRunExists
  <2>10. f = body(f)
    <3>1. f \in [1 .. n + 1 -> V] /\ f[n + 1] = <<>>
      BY <2>9 DEF JumpRun
    <3>2. ASSUME NEW i \in 1 .. n + 1 PROVE f[i] = body(f)[i]
      <4>1. CASE i = n + 1
        BY <3>1, <4>1, <1>0
      <4>2. CASE i # n + 1
        <5>1. i \in 1 .. n /\ ~(i > n)
          BY <4>2, <1>0
        <5>2. f[i] = F[i][f[jump[i]]]
          BY <2>9, <5>1 DEF JumpRun
        <5>3. jump[i] \in 1 .. n + 1
          BY <2>5, <5>1
        <5>4. f[jump[i]] \in V
          BY <3>1, <5>3
        <5>5. f[i] = part[i] \o f[jump[i]]
          BY <5>1, <5>2, <5>4
        <5>6. CASE hit(i)
          <6>1. f[i] = <<id>> \o f[i + 2]
            BY <2>6, <5>1, <5>5, <5>6
          <6> QED BY <5>1, <5>6, <6>1 DEF id
        <5>7. CASE ~hit(i)
          <6>1. f[i] = <<vals[i]>> \o f[i + 1]
            BY <2>6, <5>1, <5>5, <5>7
          <6> QED BY <5>1, <5>7, <6>1
        <5> QED BY <5>6, <5>7
      <4> QED BY <4>1, <4>2
    <3>3. f = [i \in 1 .. n + 1 |-> f[i]]
      BY <3>1
    <3>4. body(f) = [i \in 1 .. n + 1 |-> body(f)[i]]
      OBVIOUS
    <3> HIDE DEF body
    <3> QED BY <3>2, <3>3, <3>4
  <2>11. from = body(from)
    <3> HIDE DEF body
    <3> QED BY <2>10
  <2> HIDE DEF from
  <2>12. ASSUME NEW i \in 1 .. n
         PROVE  IF i < n /\ PairAt(vals, i) = pair
                THEN i + 2 \in 1 .. n + 1 /\ from[i] = <<m[pair].id>> \o from[i + 2]
                ELSE from[i] = <<vals[i]>> \o from[i + 1]
    <3>1. i \in 1 .. n + 1 /\ ~(i > n) /\ (i < n => i + 2 \in 1 .. n + 1)
      BY <1>0
    <3>2. hit(i) <=> i < n /\ PairAt(vals, i) = pair
      BY DEF PairAt
    <3>3. CASE hit(i)
      <4>1. body(from)[i] = <<m[pair].id>> \o from[i + 2]
        BY <3>1, <3>3
      <4> HIDE DEF body, hit
      <4> QED BY <2>11, <3>1, <3>2, <3>3, <4>1
    <3>4. CASE ~hit(i)
      <4>1. body(from)[i] = <<vals[i]>> \o from[i + 1]
        BY <3>1, <3>4
      <4> HIDE DEF body, hit
      <4> QED BY <2>11, <3>2, <3>4, <4>1
    <3> QED BY <3>3, <3>4
  <2>13. from[n + 1] = <<>>
    <3>1. body(from)[n + 1] = <<>>
      BY <1>0
    <3> HIDE DEF body
    <3> QED BY <2>11, <3>1
  <2> HIDE DEF body, hit, pair
  <2>14. Turn(m, vals, pair, from)
    BY <1>0, <1>1, <1>3, <2>2, <2>3, <2>12, <2>13 DEF Turn
  <2> QED BY <1>0, <1>3, <2>14
<1> QED BY <1>2, <1>3

(* A part of a list, place by place.                                       *)
LEMMA SubSeqPoints ==
  ASSUME NEW S, NEW s \in Seq(S), NEW p \in 1 .. Len(s) + 1, NEW q \in p - 1 .. Len(s)
  PROVE  /\ SubSeq(s, p, q) \in Seq(S) /\ Len(SubSeq(s, p, q)) = q - p + 1
         /\ \A k \in 1 .. q - p + 1 : SubSeq(s, p, q)[k] = s[p + k - 1]
<1> DEFINE n == Len(s)
<1>1. n \in Nat /\ p \in Int /\ q \in Int /\ p \in 1 .. n + 1 /\ q \in p - 1 .. n
      /\ \A i \in 1 .. n : s[i] \in S
  OBVIOUS
<1> HIDE DEF n
<1>2. \A i \in p .. q : s[i] \in S
  BY <1>1
<1>3. /\ SubSeq(s, p, q) \in Seq(S) /\ Len(SubSeq(s, p, q)) = IF p <= q THEN q - p + 1 ELSE 0
      /\ \A k \in 1 .. q - p + 1 : SubSeq(s, p, q)[k] = s[p + k - 1]
  BY <1>1, <1>2, SubSeqProperties
<1>4. (IF p <= q THEN q - p + 1 ELSE 0) = q - p + 1
  BY <1>1
<1> QED BY <1>3, <1>4

(* A turn of bpe changes neither that the list has ids nor what it spells. *)
LEMMA MergeOnceSpells ==
  ASSUME NEW m \in Tables, NEW vals \in Seq(Ids)
  PROVE  MergeOnce(m, vals) \in Seq(Ids) /\ Spelt(MergeOnce(m, vals)) = Spelt(vals)
<1> DEFINE n == Len(vals)
<1>0. n \in Nat /\ \A i \in 1 .. n : vals[i] \in Ids
  OBVIOUS
<1>1. CASE Active(m, vals) = {}
  BY <1>1, TurnIsTaken
<1>2. CASE Active(m, vals) # {}
  <2>1. PICK pair, from : Turn(m, vals, pair, from)
    BY <1>2, TurnIsTaken
  <2>2. /\ pair \in DOMAIN m \cap (Ids \X Ids) /\ MergeOnce(m, vals) = from[1] /\ from[n + 1] = <<>>
        /\ \A i \in 1 .. n :
             IF i < n /\ PairAt(vals, i) = pair
             THEN i + 2 \in 1 .. n + 1 /\ from[i] = <<m[pair].id>> \o from[i + 2]
             ELSE from[i] = <<vals[i]>> \o from[i + 1]
    BY <2>1 DEF Turn
  <2> DEFINE id == m[pair].id
  <2>3. id \in Ids /\ Spelling[id] = Spelling[pair[1]] \o Spelling[pair[2]]
    BY <2>2 DEF Tables, Joins
  <2> DEFINE S == {i \in Nat : from[i] \in Seq(Ids) /\ Spelt(from[i]) = Spelt(SubSeq(vals, i, n))}
  <2>4. n + 1 \in S
    <3>1. SubSeq(vals, n + 1, n) = <<>> /\ n + 1 \in Nat /\ <<>> \in Seq(Ids)
      BY <1>0, SubSeqEmpty
    <3> HIDE DEF n
    <3> QED BY <2>2, <3>1
  <2>5. ASSUME NEW i \in 1 .. n
        PROVE  /\ SubSeq(vals, i + 1, n) \in Seq(Ids)
               /\ Spelt(SubSeq(vals, i, n)) = Spelling[vals[i]] \o Spelt(SubSeq(vals, i + 1, n))
    <3>1. SubSeq(vals, i, n) = <<vals[i]>> \o SubSeq(vals, i + 1, n)
      <4>1. i \in 1 .. Len(vals) /\ n \in i .. Len(vals)
        BY <1>0
      <4> QED BY <4>1, SubSeqRecursiveFirst
    <3>2. SubSeq(vals, i + 1, n) \in Seq(Ids)
      <4> DEFINE j == i + 1
      <4>1. j \in 1 .. Len(vals) + 1 /\ n \in j - 1 .. Len(vals)
        BY <1>0
      <4> HIDE DEF j
      <4>2. SubSeq(vals, j, n) \in Seq(Ids)
        BY <4>1, SubSeqPoints
      <4> QED BY <4>2 DEF j
    <3> DEFINE e == SubSeq(vals, i + 1, n)
    <3> DEFINE c == <<vals[i]>>
    <3>3. e \in Seq(Ids) /\ c \in Seq(Ids) /\ Spelt(c) = Spelling[vals[i]]
      BY <1>0, <3>2, SpeltParts
    <3> HIDE DEF e, c
    <3>4. Spelt(c \o e) = Spelt(c) \o Spelt(e)
      BY <3>3, SpeltParts
    <3> QED BY <3>1, <3>3, <3>4 DEF e, c
  <2>6. ASSUME NEW i \in 1 .. n, \A q \in i + 1 .. n + 1 : q \in S PROVE i \in S
    <3>1. CASE i < n /\ PairAt(vals, i) = pair
      <4>1. from[i] = <<id>> \o from[i + 2] /\ i + 2 \in i + 1 .. n + 1 /\ i + 1 \in 1 .. n
        <5>1. from[i] = <<id>> \o from[i + 2]
          BY <2>2, <3>1
        <5>2. i + 2 \in i + 1 .. n + 1 /\ i + 1 \in 1 .. n
          BY <1>0, <3>1
        <5> QED BY <5>1, <5>2
      <4>2. from[i + 2] \in Seq(Ids) /\ Spelt(from[i + 2]) = Spelt(SubSeq(vals, i + 2, n))
        BY <2>6, <4>1
      <4> DEFINE a == Spelling[vals[i]]
      <4> DEFINE b == Spelling[vals[i + 1]]
      <4> DEFINE r == Spelt(from[i + 2])
      <4>3. Spelt(SubSeq(vals, i, n)) = a \o (b \o r)
        <5>1. (i + 1) + 1 = i + 2
          BY <1>0
        <5>2. Spelt(SubSeq(vals, i + 1, n)) = b \o Spelt(SubSeq(vals, i + 2, n))
          BY <2>5, <4>1, <5>1
        <5> QED BY <2>5, <4>2, <5>2
      <4>4. Spelling[id] = a \o b
        BY <2>3, <3>1 DEF PairAt
      <4> DEFINE c == <<id>>
      <4>5. c \in Seq(Ids) /\ Spelt(c) = Spelling[id]
        <5> HIDE DEF id, c
        <5>1. \A x \in Ids : Spelt(<<x>>) = Spelling[x]
          BY SpeltParts
        <5>2. \A x \in Ids : <<x>> \in Seq(Ids)
          OBVIOUS
        <5>3. id \in Ids
          BY <2>3
        <5> QED BY <2>3, <5>1, <5>2, <5>3 DEF c
      <4>6. from[i] \in Seq(Ids) /\ Spelt(from[i]) = Spelt(c) \o r
        <5> HIDE DEF c
        <5>1. from[i] = c \o from[i + 2]
          BY <4>1 DEF c
        <5>2. \A v, w \in Seq(Ids) : v \o w \in Seq(Ids) /\ Spelt(v \o w) = Spelt(v) \o Spelt(w)
          BY SpeltParts, ConcatProperties
        <5> DEFINE w == from[i + 2]
        <5>3. w \in Seq(Ids)
          BY <4>2
        <5> HIDE DEF w, id
        <5>4. c \o w \in Seq(Ids) /\ Spelt(c \o w) = Spelt(c) \o Spelt(w)
          BY <4>5, <5>2, <5>3
        <5> QED BY <5>1, <5>4 DEF w
      <4>7. a \in Seq(CodePoints) /\ b \in Seq(CodePoints) /\ r \in Seq(CodePoints)
        <5>1. vals[i] \in Ids /\ vals[i + 1] \in Ids
          BY <1>0, <4>1
        <5> QED BY <4>2, <5>1, SpellingInverts, GptVocabulary, SpeltTokens
      <4> HIDE DEF a, b, r, c, id, n
      <4>8. (a \o b) \o r = a \o (b \o r)
        BY <4>7, ConcatAssociative, SMTT(30)
      <4>9. i \in Nat
        BY <1>0
      <4> QED BY <4>3, <4>4, <4>5, <4>6, <4>8, <4>9
    <3>2. CASE ~(i < n /\ PairAt(vals, i) = pair)
      <4>1. from[i] = <<vals[i]>> \o from[i + 1] /\ i + 1 \in i + 1 .. n + 1
        <5>1. from[i] = <<vals[i]>> \o from[i + 1]
          BY <2>2, <3>2
        <5>2. i + 1 \in i + 1 .. n + 1
          BY <1>0
        <5> QED BY <5>1, <5>2
      <4>2. from[i + 1] \in Seq(Ids) /\ Spelt(from[i + 1]) = Spelt(SubSeq(vals, i + 1, n))
        BY <2>6, <4>1
      <4> DEFINE c == <<vals[i]>>
      <4>3. c \in Seq(Ids) /\ Spelt(c) = Spelling[vals[i]]
        BY <1>0, SpeltParts
      <4> HIDE DEF c
      <4>4. from[i] = c \o from[i + 1]
        BY <4>1 DEF c
      <4>5. from[i] \in Seq(Ids) /\ Spelt(from[i]) = Spelt(c) \o Spelt(from[i + 1])
        <5>1. \A v, w \in Seq(Ids) : v \o w \in Seq(Ids) /\ Spelt(v \o w) = Spelt(v) \o Spelt(w)
          BY SpeltParts, ConcatProperties
        <5> DEFINE w == from[i + 1]
        <5>2. w \in Seq(Ids)
          BY <4>2
        <5> HIDE DEF w
        <5>3. c \o w \in Seq(Ids) /\ Spelt(c \o w) = Spelt(c) \o Spelt(w)
          BY <4>3, <5>1, <5>2
        <5> QED BY <4>4, <5>3 DEF w
      <4>6. i \in Nat
        BY <1>0
      <4> HIDE DEF n
      <4> QED BY <2>5, <4>2, <4>3, <4>5, <4>6
    <3> QED BY <3>1, <3>2
  <2>7. 1 \in S
    <3> HIDE DEF n, S
    <3> QED BY <1>0, <2>4, <2>6, FromTheEnd
  <2>8. SubSeq(vals, 1, n) = vals
    BY <1>0, SubSeqFull
  <2> QED BY <2>2, <2>7, <2>8
<1> QED BY <1>1, <1>2

(* A step taken n times.                                                   *)
LEMMA Repeats ==
  ASSUME NEW n \in Nat, NEW x0 \in Seq(Ids), NEW F \in [Seq(Ids) -> Seq(Ids)]
  PROVE  \E g \in [0 .. n -> Seq(Ids)] : g[0] = x0 /\ \A k \in 1 .. n : g[k] = F[g[k - 1]]
<1> DEFINE V == Seq(Ids)
<1> DEFINE G == [k \in 1 .. n |-> F]
<1>1. Steps(G, V, 1 .. n)
  BY DEF Steps
<1>2. PICK it : LeftIteration(it, n, V, x0, G)
  BY <1>1, LeftIterationExists
<1>3. LeftFold(it, n, V, x0, G)
  BY <1>2 DEF LeftIteration, LeftFold
<1>4. PICK g : LeftRun(g, n, V, x0, G)
  BY <1>1, <1>3, LeftRuns
<1>5. g \in [0 .. n -> V] /\ g[0] = x0 /\ \A k \in 1 .. n : g[k] = G[k][g[k - 1]]
  BY <1>4 DEF LeftRun
<1>6. \A k \in 1 .. n : G[k] = F
  OBVIOUS
<1>7. g \in [0 .. n -> Seq(Ids)]
  BY <1>5
<1> HIDE DEF G, V
<1> QED BY <1>5, <1>6, <1>7

(* The turns of bpe, one after the other.                                  *)
LEMMA BpeRuns ==
  ASSUME NEW m \in Tables, NEW vals \in Seq(Ids)
  PROVE  \E turn \in [0 .. Len(vals) -> Seq(Ids)] :
           /\ bpe(m, vals) = turn[Len(vals)] /\ turn[0] = vals
           /\ \A k \in 1 .. Len(vals) : turn[k] = MergeOnce(m, turn[k - 1])
<1> DEFINE n == Len(vals)
<1> DEFINE V == Seq(Ids)
<1> DEFINE F == [v \in V |-> MergeOnce(m, v)]
<1> DEFINE body(f) == [k \in 0 .. n |-> IF k = 0 THEN vals ELSE MergeOnce(m, f[k - 1])]
<1>0. n \in Nat /\ vals \in V /\ \A k \in 1 .. n : k - 1 \in 0 .. n
  OBVIOUS
<1>1. F \in [V -> V] /\ \A v \in V : F[v] = MergeOnce(m, v)
  BY MergeOnceSpells
<1> HIDE DEF F, V
<1>2. PICK g \in [0 .. n -> V] : g[0] = vals /\ \A k \in 1 .. n : g[k] = F[g[k - 1]]
  <2> HIDE DEF n, body
  <2>1. n \in Nat /\ vals \in V /\ F \in [V -> V]
    BY <1>0, <1>1
  <2> QED BY <2>1, Repeats DEF V
<1>3. g = body(g)
  <2>1. ASSUME NEW k \in 0 .. n PROVE g[k] = body(g)[k]
    <3>1. CASE k = 0
      BY <1>2, <3>1
    <3>2. CASE k # 0
      <4>1. k \in 1 .. n /\ k - 1 \in 0 .. n
        BY <1>0, <3>2
      <4>2. g[k] = MergeOnce(m, g[k - 1])
        BY <1>1, <1>2, <4>1
      <4> QED BY <3>2, <4>2
    <3> QED BY <3>1, <3>2
  <2>2. g = [k \in 0 .. n |-> g[k]]
    OBVIOUS
  <2>3. body(g) = [k \in 0 .. n |-> body(g)[k]]
    OBVIOUS
  <2> HIDE DEF body
  <2> QED BY <2>1, <2>2, <2>3
<1> DEFINE turn == CHOOSE f : f = body(f)
<1>4. turn = body(turn)
  <2> HIDE DEF body
  <2> QED BY <1>3
<1>5. bpe(m, vals) = turn[n]
  BY DEF bpe
<1> HIDE DEF turn
<1>6. turn[0] = vals /\ \A k \in 1 .. n : turn[k] = MergeOnce(m, turn[k - 1])
  <2>1. body(turn)[0] = vals
    BY <1>0
  <2>2. ASSUME NEW k \in 1 .. n PROVE body(turn)[k] = MergeOnce(m, turn[k - 1])
    BY <1>0
  <2> HIDE DEF body
  <2> QED BY <1>4, <2>1, <2>2
<1> DEFINE S == {k \in Nat : turn[k] \in V}
<1>7. 0 \in S
  BY <1>0, <1>6
<1>8. ASSUME NEW k \in 0 .. n - 1, k \in S PROVE k + 1 \in S
  <2>1. k + 1 \in 1 .. n /\ (k + 1) - 1 = k /\ k + 1 \in Nat
    BY <1>0
  <2>2. turn[k + 1] = MergeOnce(m, turn[k]) /\ turn[k] \in V
    BY <1>6, <1>8, <2>1
  <2> QED BY <1>1, <2>1, <2>2
<1>9. \A k \in 0 .. n : turn[k] \in V
  <2> HIDE DEF n, S
  <2>1. \A k \in 0 .. n : k \in S
    BY <1>0, <1>7, <1>8, UpTo
  <2> QED BY <2>1 DEF S
<1>10. turn \in [0 .. n -> V]
  <2>1. body(turn) = [k \in 0 .. n |-> body(turn)[k]]
    OBVIOUS
  <2> HIDE DEF body
  <2>2. turn = [k \in 0 .. n |-> turn[k]]
    BY <1>4, <2>1
  <2> QED BY <1>9, <2>2
<1> QED BY <1>5, <1>6, <1>10 DEF V

(* Merging pairs leaves what is spelt as it was (GPT2Tokenizer: bpe).      *)
LEMMA BpeSpells ==
  ASSUME NEW m \in Tables, NEW vals \in Seq(Ids)
  PROVE  bpe(m, vals) \in Seq(Ids) /\ Spelt(bpe(m, vals)) = Spelt(vals)
<1> DEFINE n == Len(vals)
<1>1. n \in Nat /\ n \in 0 .. n
  OBVIOUS
<1>2. PICK turn \in [0 .. n -> Seq(Ids)] :
        /\ bpe(m, vals) = turn[n] /\ turn[0] = vals
        /\ \A k \in 1 .. n : turn[k] = MergeOnce(m, turn[k - 1])
  BY BpeRuns
<1> DEFINE S == {k \in 0 .. n : Spelt(turn[k]) = Spelt(vals)}
<1>3. 0 \in S
  BY <1>1, <1>2
<1>4. ASSUME NEW k \in 0 .. n - 1, k \in S PROVE k + 1 \in S
  <2>1. k + 1 \in 1 .. n /\ (k + 1) - 1 = k /\ k \in 0 .. n /\ k + 1 \in 0 .. n
    BY <1>1
  <2>2. turn[k + 1] = MergeOnce(m, turn[k]) /\ turn[k] \in Seq(Ids)
    BY <1>2, <2>1
  <2> HIDE DEF n
  <2> QED BY <1>4, <2>1, <2>2, MergeOnceSpells
<1>5. n \in S
  <2> HIDE DEF S, n
  <2> QED BY <1>1, <1>3, <1>4, UpTo
<1> QED BY <1>1, <1>2, <1>5

(* A word is spelt by its bytes, and by its tokens.                        *)
LEMMA BytesSpell ==
  ASSUME NEW word \in Seq(Alphabet)
  PROVE  Bytes(word) \in Seq(Ids) /\ Spelt(Bytes(word)) = word
<1> DEFINE n == Len(word)
<1> DEFINE v == Bytes(word)
<1>1. n \in Nat /\ \A k \in 1 .. n : word[k] \in Alphabet
  OBVIOUS
<1>2. v = [k \in 1 .. n |-> IdIn(GptIds, <<word[k]>>)]
  BY DEF Bytes
<1>3. \A k \in 1 .. n : IdIn(GptIds, <<word[k]>>) \in Ids /\ Spelling[IdIn(GptIds, <<word[k]>>)] = <<word[k]>>
  BY <1>1, GptVocabulary, IdOf
<1> HIDE DEF v
<1>4. v \in Seq(Ids) /\ DOMAIN v = 1 .. n /\ \A k \in 1 .. n : Spelling[v[k]] = <<word[k]>>
  BY <1>1, <1>2, <1>3
<1>5. [k \in DOMAIN v |-> Spelling[v[k]]] = [k \in 1 .. Len(word) |-> <<word[k]>>]
  BY <1>4
<1> QED BY <1>4, <1>5, FlattenSingles DEF Spelt, Replaced, Mapped, v

(* The tokens of a word spell the word.                                    *)
LEMMA TokensSpellWord ==
  ASSUME NEW word \in Seq(Alphabet)
  PROVE  TokensOfWord(word) \in Seq(Known) /\ FlattenSeq(TokensOfWord(word)) = word
<1> DEFINE ids == bpe(Merges, Bytes(word))
<1>1. ids \in Seq(Ids) /\ Spelt(ids) = word
  BY BytesSpell, MergesAreRead, BpeSpells
<1>2. TokensOfWord(word) = [i \in DOMAIN ids |-> Spelling[ids[i]]]
  BY DEF TokensOfWord
<1> HIDE DEF ids
<1> QED BY <1>1, <1>2, SpeltTokens DEF Spelt, Replaced, Mapped

(* The tokens of a text spell the text.                                    *)
LEMMA TokensSpell ==
  ASSUME NEW str \in Seq(Alphabet)
  PROVE  TokensOf(str) \in Seq(Known) /\ FlattenSeq(TokensOf(str)) = str
<1> DEFINE words == Words(str)
<1> DEFINE lists == [k \in DOMAIN words |-> TokensOfWord(words[k])]
<1>1. words \in Seq(Seq(Alphabet)) /\ FlattenSeq(words) = str
  BY WordsSpell, TokenizersAssumption
<1>2. TokensOf(str) = FlattenSeq(lists)
  BY DEF TokensOf
<1> HIDE DEF words
<1> DEFINE n == Len(words)
<1>3. n \in Nat /\ DOMAIN words = 1 .. n /\ \A k \in 1 .. n : words[k] \in Seq(Alphabet)
  BY <1>1
<1>4. \A k \in 1 .. n : lists[k] \in Seq(Known) /\ FlattenSeq(lists[k]) = words[k]
  BY <1>3, TokensSpellWord
<1>5. lists = [k \in 1 .. n |-> lists[k]]
  BY <1>3
<1> HIDE DEF lists, n
<1>6. lists \in Seq(Seq(Known)) /\ Len(lists) = n
  BY <1>3, <1>4, <1>5, SMTT(30)
<1>7. FlattenSeq(lists) \in Seq(Known)
  BY <1>6, FlattenType
<1>8. lists \in Seq(Seq(Seq(CodePoints)))
  BY <1>6, GptVocabulary
<1>9. FlattenSeq(FlattenSeq(lists)) = FlattenSeq([k \in 1 .. Len(lists) |-> FlattenSeq(lists[k])])
  BY <1>8, FlattenTwice
<1>10. [k \in 1 .. Len(lists) |-> FlattenSeq(lists[k])] = words
  <2>1. words = [k \in 1 .. n |-> words[k]]
    BY <1>1, <1>3 DEF n
  <2> QED BY <1>4, <1>6, <2>1
<1> QED BY <1>1, <1>2, <1>7, <1>9, <1>10

-----------------------------------------------------------------------------
(* What Find finds, and what it does not find in a part of a string.       *)
Occurs(s, sub, p) == p + Len(sub) - 1 <= Len(s) /\ SubSeq(s, p, p + Len(sub) - 1) = sub
IsPart(t, s) == \E i \in 1 .. Len(s) + 1 : \E j \in i - 1 .. Len(s) : t = SubSeq(s, i, j)
Without(s, sub) == \A p \in 1 .. Len(s) : ~Occurs(s, sub, p)

LEMMA FindsFirst ==
  ASSUME NEW s \in Seq(CodePoints), NEW sub \in Seq(CodePoints), sub # <<>>, NEW from \in 1 .. Len(s) + 1
  PROVE  \/ /\ Find(s, sub, from) = 0
            /\ \A q \in from .. Len(s) : ~Occurs(s, sub, q)
         \/ /\ Find(s, sub, from) \in from .. Len(s)
            /\ Occurs(s, sub, Find(s, sub, from))
            /\ \A q \in from .. Find(s, sub, from) - 1 : ~Occurs(s, sub, q)
<1> DEFINE n == Len(s)
<1> DEFINE m == Len(sub)
<1> DEFINE at == {p \in from .. n - m + 1 : SubSeq(s, p, p + m - 1) = sub}
<1>1. n \in Nat /\ m \in Nat /\ m >= 1
  BY EmptySeq, LenProperties
<1>2. Find(s, sub, from) = IF at = {} THEN 0 ELSE Min(at)
  BY DEF Find
<1>3. ASSUME NEW q \in from .. n PROVE Occurs(s, sub, q) <=> q \in at
  BY <1>1 DEF Occurs
<1>4. at \in SUBSET Nat /\ \A q \in at : q \in from .. n
  BY <1>1
<1> HIDE DEF at, n
<1>5. CASE at = {}
  BY <1>2, <1>3, <1>5 DEF n
<1>6. CASE at # {}
  <2> DEFINE p == Find(s, sub, from)
  <2>1. p \in at /\ \A q \in at : p <= q
    BY <1>2, <1>4, <1>6, SmallestOf, ZenonT(60)
  <2>2. p \in from .. n /\ Occurs(s, sub, p)
    BY <1>3, <1>4, <2>1
  <2> HIDE DEF p
  <2>3. ASSUME NEW q \in from .. p - 1 PROVE ~Occurs(s, sub, q)
    <3>1. q \in from .. n /\ ~(p <= q)
      BY <1>1, <2>2
    <3> QED BY <1>3, <2>1, <3>1
  <2> QED BY <2>2, <2>3 DEF p, n
<1> QED BY <1>5, <1>6

(* Nothing is found where nothing occurs.                                  *)
LEMMA WithoutMeans ==
  ASSUME NEW s \in Seq(CodePoints), NEW sub \in Seq(CodePoints), sub # <<>>
  PROVE  Find(s, sub, 1) = 0 <=> Without(s, sub)
<1>1. 1 \in 1 .. Len(s) + 1 /\ Len(s) \in Nat
  BY LenProperties
<1> DEFINE p == Find(s, sub, 1)
<1>2. \/ p = 0 /\ \A q \in 1 .. Len(s) : ~Occurs(s, sub, q)
      \/ p \in 1 .. Len(s) /\ Occurs(s, sub, p)
  BY <1>1, FindsFirst
<1> HIDE DEF p
<1>3. p = 0 <=> Without(s, sub)
  BY <1>1, <1>2 DEF Without
<1> QED BY <1>3 DEF p

(* A part in which nothing occurs.                                         *)
LEMMA PartWithout ==
  ASSUME NEW s \in Seq(CodePoints), NEW sub \in Seq(CodePoints), sub # <<>>,
         NEW i \in 1 .. Len(s) + 1, NEW j \in i - 1 .. Len(s),
         \A p \in i .. j : p + Len(sub) - 1 <= j => ~Occurs(s, sub, p)
  PROVE  Find(SubSeq(s, i, j), sub, 1) = 0
<1> DEFINE t == SubSeq(s, i, j)
<1> DEFINE n == Len(s)
<1> DEFINE m == Len(sub)
<1>1. n \in Nat /\ m \in Nat /\ m >= 1 /\ i \in Int /\ j \in Int
  BY EmptySeq, LenProperties
<1>2. t \in Seq(CodePoints) /\ Len(t) = j - i + 1
  <2>1. \A k \in i .. j : s[k] \in CodePoints
    BY <1>1
  <2>2. t \in Seq(CodePoints) /\ Len(t) = IF i <= j THEN j - i + 1 ELSE 0
    BY <1>1, <2>1, SubSeqProperties
  <2>3. i <= j \/ j - i + 1 = 0
    BY <1>1
  <2> HIDE DEF t
  <2> QED BY <2>2, <2>3
<1> HIDE DEF t, n, m
<1>3. ASSUME NEW p \in 1 .. Len(t), Occurs(t, sub, p) PROVE FALSE
  <2> DEFINE q == i + p - 1
  <2>1. p + m - 1 <= j - i + 1 /\ SubSeq(t, p, p + m - 1) = sub
    BY <1>2, <1>3 DEF Occurs, m
  <2>2. i \in 1 .. Len(s) /\ j \in 1 .. Len(s) /\ p \in 1 .. j - i + 1 /\ p + m - 1 \in 1 .. j - i + 1
    BY <1>1, <1>2, <2>1 DEF n
  <2>3. SubSeq(t, p, p + m - 1) = SubSeq(s, i + p - 1, i + (p + m - 1) - 1)
    BY <2>2, SubSeqOfSubSeq, SMTT(30) DEF t
  <2>4. i + (p + m - 1) - 1 = q + m - 1 /\ q \in i .. j /\ q + m - 1 <= j /\ q + m - 1 <= Len(s)
    BY <1>1, <2>1, <2>2
  <2> HIDE DEF q
  <2>5. SubSeq(s, q, q + m - 1) = sub
    BY <2>1, <2>3, <2>4 DEF q
  <2>6. Occurs(s, sub, q)
    BY <2>4, <2>5 DEF Occurs, m
  <2>7. ~Occurs(s, sub, q)
    BY <2>4 DEF m
  <2> QED BY <2>6, <2>7
<1>4. Without(t, sub)
  BY <1>3 DEF Without
<1> QED BY <1>2, <1>4, WithoutMeans DEF t

(* Nothing occurs in a part where nothing occurs in the whole.             *)
LEMMA PartOfClear ==
  ASSUME NEW s \in Seq(CodePoints), NEW sub \in Seq(CodePoints), sub # <<>>, NEW t, IsPart(t, s),
         Find(s, sub, 1) = 0
  PROVE  Find(t, sub, 1) = 0
<1>0. PICK i \in 1 .. Len(s) + 1 : \E j \in i - 1 .. Len(s) : t = SubSeq(s, i, j)
  BY DEF IsPart
<1>1. PICK j \in i - 1 .. Len(s) : t = SubSeq(s, i, j)
  BY <1>0
<1>2. \A p \in 1 .. Len(s) : ~Occurs(s, sub, p)
  BY WithoutMeans DEF Without
<1>3. \A p \in i .. j : p \in 1 .. Len(s)
  BY LenProperties
<1>4. \A p \in i .. j : p + Len(sub) - 1 <= j => ~Occurs(s, sub, p)
  BY <1>2, <1>3
<1> QED BY <1>1, <1>4, PartWithout

-----------------------------------------------------------------------------
(* The pieces a text is split into: of an id that is not -1 those that are *)
(* special tokens.                                                         *)
Pieces == [str : Seq(Alphabet), id : Int]
StrOf == [e \in Pieces |-> e.str]
Texts(pieces) == Replaced(StrOf, pieces)

LEMMA TextsParts ==
  /\ Texts(<<>>) = <<>>
  /\ \A e \in Pieces : Texts(<<e>>) = e.str
  /\ \A v, w \in Seq(Pieces) : Texts(v \o w) = Texts(v) \o Texts(w)
<1>1. StrOf \in [Pieces -> Seq(Alphabet)] /\ \A e \in Pieces : StrOf[e] = e.str
  BY DEF StrOf, Pieces
<1>2. Texts(<<>>) = <<>>
  BY ReplacedNone DEF Texts
<1>3. StrOf \in [Pieces -> Seq(Alphabet)]
  BY <1>1
<1>4. /\ \A v, w \in Seq(Pieces) : Texts(v \o w) = Texts(v) \o Texts(w)
      /\ \A e \in Pieces : Texts(<<e>>) = StrOf[e]
  BY <1>3, ReplacedConcat, ReplacedOne DEF Texts
<1> QED BY <1>1, <1>2, <1>4

(* What a special token splits a piece of text into.                       *)
SplitInto(str, st) ==
  {e \in Pieces : IF e.id = -1 THEN IsPart(e.str, str) /\ Find(e.str, st.str, 1) = 0
                  ELSE e.str = st.str}

LEMMA SplitByPieces ==
  ASSUME NEW str \in Seq(Alphabet), NEW st \in Specials, st.str # <<>>
  PROVE  SplitBy(str, st) \in Seq(SplitInto(str, st)) /\ Texts(SplitBy(str, st)) = str
<1> DEFINE n == Len(str)
<1> DEFINE sub == st.str
<1> DEFINE m == Len(sub)
<1> DEFINE next(p) == Find(str, sub, p)
<1> DEFINE rest(p) == [str |-> SubSeq(str, p, n), id |-> -1]
<1> DEFINE front(p) == IF next(p) = p THEN <<>> ELSE <<[str |-> SubSeq(str, p, next(p) - 1), id |-> -1]>>
<1> DEFINE token == [str |-> sub, id |-> st.id]
<1> DEFINE body(f) == [p \in 1 .. n + 1 |->
        IF p > n THEN <<>>
        ELSE IF Find(str, st.str, p) = 0 THEN <<[str |-> SubSeq(str, p, n), id |-> -1]>>
        ELSE (IF Find(str, st.str, p) = p THEN <<>>
              ELSE <<[str |-> SubSeq(str, p, Find(str, st.str, p) - 1), id |-> -1]>>)
             \o <<[str |-> st.str, id |-> st.id]>> \o f[Find(str, st.str, p) + Len(st.str)]]
<1> DEFINE from == CHOOSE f : f = body(f)
<1> DEFINE E == SplitInto(str, st)
<1> DEFINE V == Seq(E)
<1>1. /\ n \in Nat /\ str \in Seq(CodePoints) /\ sub \in Seq(CodePoints) /\ m \in Nat /\ m >= 1
      /\ st.id \in Nat /\ sub # <<>> /\ \A k \in 1 .. n : str[k] \in Alphabet
  <2>1. st.str \in Seq(CodePoints) /\ st.id \in Nat
    BY TokenizersAssumption
  <2>2. str \in Seq(CodePoints)
    BY TokenizersAssumption
  <2> QED BY <2>1, <2>2, EmptySeq, LenProperties
<1>2. SplitBy(str, st) = from[1]
  BY DEF SplitBy
<1>3. ASSUME NEW p \in 1 .. n
      PROVE  \/ next(p) = 0 /\ \A q \in p .. n : ~Occurs(str, sub, q)
             \/ /\ next(p) \in p .. n /\ next(p) + m <= n + 1
                /\ SubSeq(str, next(p), next(p) + m - 1) = sub
                /\ \A q \in p .. next(p) - 1 : ~Occurs(str, sub, q)
  <2>1. p \in 1 .. Len(str) + 1
    BY <1>1
  <2> HIDE DEF next, sub
  <2>2. \/ next(p) = 0 /\ \A q \in p .. n : ~Occurs(str, sub, q)
        \/ /\ next(p) \in p .. n /\ Occurs(str, sub, next(p))
           /\ \A q \in p .. next(p) - 1 : ~Occurs(str, sub, q)
    BY <1>1, <2>1, FindsFirst DEF next
  <2>3. next(p) \in p .. n /\ Occurs(str, sub, next(p)) =>
          next(p) + m <= n + 1 /\ SubSeq(str, next(p), next(p) + m - 1) = sub
    BY <1>1 DEF Occurs
  <2> QED BY <2>2, <2>3
<1> HIDE DEF next
\* a part of the text in which there is no token
<1>4. ASSUME NEW i \in 1 .. n + 1, NEW j \in i - 1 .. n, \A q \in i .. j : ~Occurs(str, sub, q)
      PROVE  [str |-> SubSeq(str, i, j), id |-> -1] \in E
  <2>1. SubSeq(str, i, j) \in Seq(Alphabet)
    BY <1>1, SubSeqProperties
  <2>2. IsPart(SubSeq(str, i, j), str)
    BY DEF IsPart
  <2>3. Find(SubSeq(str, i, j), sub, 1) = 0
    <3> HIDE DEF sub
    <3> QED BY <1>1, <1>4, PartWithout
  <2> DEFINE e == [str |-> SubSeq(str, i, j), id |-> -1]
  <2>4. e \in Pieces /\ e.id = -1 /\ e.str = SubSeq(str, i, j)
    BY <2>1 DEF Pieces
  <2> HIDE DEF e
  <2>5. e \in E
    BY <2>2, <2>3, <2>4 DEF SplitInto
  <2> QED BY <2>5 DEF e
<1>5. ASSUME NEW p \in 1 .. n, next(p) = 0
      PROVE  <<rest(p)>> \in V /\ Texts(<<rest(p)>>) = SubSeq(str, p, n)
  <2>1. p \in 1 .. n + 1 /\ n \in p - 1 .. n /\ \A q \in p .. n : ~Occurs(str, sub, q)
    BY <1>1, <1>3, <1>5
  <2>2. rest(p) \in E
    BY <1>4, <2>1
  <2>3. rest(p) \in Pieces /\ rest(p).str = SubSeq(str, p, n)
    BY <2>2 DEF SplitInto
  <2> HIDE DEF rest, E
  <2> QED BY <2>2, <2>3, TextsParts
<1>6. ASSUME NEW p \in 1 .. n, next(p) # 0
      PROVE  /\ front(p) \in V /\ Texts(front(p)) = SubSeq(str, p, next(p) - 1)
             /\ <<token>> \in V /\ Texts(<<token>>) = SubSeq(str, next(p), next(p) + m - 1)
  <2>0. next(p) \in p .. n /\ next(p) + m <= n + 1 /\ SubSeq(str, next(p), next(p) + m - 1) = sub
    BY <1>1, <1>3, <1>6
  <2>1. token \in E /\ token.str = sub /\ token \in Pieces
    <3>1. sub \in Seq(Alphabet)
      <4>1. \A k \in next(p) .. next(p) + m - 1 : str[k] \in Alphabet
        BY <1>1, <2>0
      <4>2. SubSeq(str, next(p), next(p) + m - 1) \in Seq(Alphabet)
        BY <1>1, <2>0, <4>1, SubSeqProperties
      <4> QED BY <2>0, <4>2
    <3> QED BY <1>1, <3>1 DEF SplitInto, Pieces
  <2>2. <<token>> \in V /\ Texts(<<token>>) = sub
    <3> HIDE DEF token, E, sub
    <3> QED BY <2>1, TextsParts
  <2>3. CASE next(p) = p
    <3>1. SubSeq(str, p, next(p) - 1) = <<>>
      BY <2>3, SubSeqEmpty
    <3>2. front(p) = <<>>
      BY <2>3
    <3>3. front(p) \in V /\ Texts(front(p)) = <<>>
      <4> HIDE DEF front, E
      <4> QED BY <3>2, TextsParts
    <3> HIDE DEF front, token, V, sub
    <3> QED BY <2>0, <2>2, <3>1, <3>3
  <2>4. CASE next(p) # p
    <3> DEFINE e == [str |-> SubSeq(str, p, next(p) - 1), id |-> -1]
    <3>1. p \in 1 .. n + 1 /\ next(p) - 1 \in p - 1 .. n /\ \A q \in p .. next(p) - 1 : ~Occurs(str, sub, q)
      BY <1>1, <1>3, <1>6, <2>0
    <3>2. e \in E
      BY <1>4, <3>1
    <3>3. e \in Pieces /\ e.str = SubSeq(str, p, next(p) - 1)
      BY <3>2 DEF SplitInto
    <3>4. front(p) = <<e>>
      BY <2>4
    <3>5. front(p) \in V /\ Texts(front(p)) = e.str
      <4> HIDE DEF e, front, E
      <4> QED BY <3>2, <3>3, <3>4, TextsParts
    <3> HIDE DEF e, front, token, V, sub
    <3> QED BY <2>0, <2>2, <3>3, <3>5
  <2> QED BY <2>3, <2>4
<1> DEFINE jump == [p \in 1 .. n |-> IF next(p) = 0 THEN n + 1 ELSE next(p) + m]
<1> DEFINE F == [p \in 1 .. n |-> [v \in V |->
        IF next(p) = 0 THEN <<rest(p)>> ELSE front(p) \o <<token>> \o v]]
<1>7. jump \in [1 .. n -> Nat] /\ \A p \in 1 .. n : p < jump[p] /\ jump[p] <= n + 1
  <2>1. ASSUME NEW p \in 1 .. n PROVE jump[p] \in Nat /\ p < jump[p] /\ jump[p] <= n + 1
    <3>1. \/ next(p) = 0
          \/ next(p) \in p .. n /\ next(p) + m <= n + 1
      BY <1>3
    <3>2. jump[p] = IF next(p) = 0 THEN n + 1 ELSE next(p) + m
      OBVIOUS
    <3> HIDE DEF n, m, jump
    <3> QED BY <1>1, <3>1, <3>2
  <2>2. jump = [p \in 1 .. n |-> jump[p]]
    OBVIOUS
  <2> HIDE DEF jump, n
  <2> QED BY <2>1, <2>2
<1>8. \A p \in 1 .. n : jump[p] = IF next(p) = 0 THEN n + 1 ELSE next(p) + m
  OBVIOUS
<1> HIDE DEF jump
<1>9. ASSUME NEW p \in 1 .. n, NEW v \in V
      PROVE  /\ F[p][v] = IF next(p) = 0 THEN <<rest(p)>> ELSE front(p) \o <<token>> \o v
             /\ F[p][v] \in V
  <2>1. F[p][v] = IF next(p) = 0 THEN <<rest(p)>> ELSE front(p) \o <<token>> \o v
    OBVIOUS
  <2> HIDE DEF F, V, rest, front, token
  <2>2. CASE next(p) = 0
    BY <1>5, <2>1, <2>2
  <2>3. CASE next(p) # 0
    BY <1>6, <2>1, <2>3, ConcatProperties DEF V
  <2> QED BY <2>1, <2>2, <2>3
<1>10. PICK f : JumpRun(f, n, V, <<>>, F, jump)
  <2>1. Steps(F, V, 1 .. n)
    <3> HIDE DEF n, V, F
    <3> QED BY <1>9 DEF Steps
  <2>2. <<>> \in V
    OBVIOUS
  <2> HIDE DEF n, V, F
  <2> QED BY <1>1, <1>7, <2>1, <2>2, JumpRunExists
<1> HIDE DEF F
<1>11. f = body(f)
  <2>1. f \in [1 .. n + 1 -> V] /\ f[n + 1] = <<>>
    BY <1>10 DEF JumpRun
  <2>2. ASSUME NEW p \in 1 .. n + 1 PROVE f[p] = body(f)[p]
    <3>1. CASE p = n + 1
      BY <2>1, <3>1, <1>1
    <3>2. CASE p # n + 1
      <4>1. p \in 1 .. n /\ ~(p > n)
        BY <3>2, <1>1
      <4>2. f[p] = F[p][f[jump[p]]]
        BY <1>10, <4>1 DEF JumpRun
      <4>3. jump[p] \in 1 .. n + 1
        BY <1>7, <4>1
      <4>4. f[jump[p]] \in V
        BY <2>1, <4>3
      <4>5. f[p] = IF next(p) = 0 THEN <<rest(p)>> ELSE front(p) \o <<token>> \o f[jump[p]]
        BY <1>9, <4>1, <4>2, <4>4
      <4>6. body(f)[p] = IF next(p) = 0 THEN <<rest(p)>> ELSE front(p) \o <<token>> \o f[next(p) + m]
        BY <4>1 DEF next
      <4> HIDE DEF body, rest, front, token
      <4> QED BY <1>8, <4>1, <4>5, <4>6
    <3> QED BY <3>1, <3>2
  <2>3. f = [p \in 1 .. n + 1 |-> f[p]]
    BY <2>1
  <2>4. body(f) = [p \in 1 .. n + 1 |-> body(f)[p]]
    OBVIOUS
  <2> HIDE DEF body
  <2> QED BY <2>2, <2>3, <2>4
<1>12. from = body(from)
  <2> HIDE DEF body
  <2> QED BY <1>11
<1> HIDE DEF from
<1>13. ASSUME NEW p \in 1 .. n
       PROVE  from[p] = IF next(p) = 0 THEN <<rest(p)>> ELSE front(p) \o <<token>> \o from[next(p) + m]
  <2>1. p \in 1 .. n + 1 /\ ~(p > n)
    BY <1>1
  <2>2. body(from)[p] = IF next(p) = 0 THEN <<rest(p)>> ELSE front(p) \o <<token>> \o from[next(p) + m]
    BY <2>1 DEF next
  <2> HIDE DEF body, rest, front, token
  <2> QED BY <1>12, <2>2
<1>14. from[n + 1] = <<>>
  <2>1. body(from)[n + 1] = <<>>
    BY <1>1
  <2> HIDE DEF body
  <2> QED BY <1>12, <2>1
<1> HIDE DEF body, rest, front, token
<1> DEFINE S == {p \in Nat : from[p] \in V /\ Texts(from[p]) = SubSeq(str, p, n)}
<1>15. n + 1 \in S
  <2>1. SubSeq(str, n + 1, n) = <<>>
    BY <1>1, SubSeqEmpty
  <2>2. n + 1 \in Nat /\ <<>> \in V
    BY <1>1
  <2> HIDE DEF n, V
  <2> QED BY <1>14, <2>1, <2>2, TextsParts
<1>16. ASSUME NEW p \in 1 .. n, \A q \in p + 1 .. n + 1 : q \in S PROVE p \in S
  <2>1. CASE next(p) = 0
    <3>1. p \in Nat
      BY <1>1
    <3> HIDE DEF n, V
    <3> QED BY <1>5, <1>13, <2>1, <3>1
  <2>2. CASE next(p) # 0
    <3> DEFINE x == next(p)
    <3>1. x \in p .. n /\ x + m \in p + 1 .. n + 1
      BY <1>1, <1>3, <2>2
    <3>2. from[x + m] \in V /\ Texts(from[x + m]) = SubSeq(str, x + m, n)
      BY <1>16, <3>1
    <3>3. from[p] = front(p) \o <<token>> \o from[x + m]
      BY <1>13, <2>2
    <3>4. /\ front(p) \in V /\ Texts(front(p)) = SubSeq(str, p, x - 1)
          /\ <<token>> \in V /\ Texts(<<token>>) = SubSeq(str, x, x + m - 1)
      BY <1>6, <2>2
    <3> HIDE DEF x
    <3>5. front(p) \o <<token>> \in V /\ from[p] \in V
      <4> HIDE DEF E
      <4> QED BY <3>2, <3>3, <3>4, ConcatProperties
    <3>6. V \subseteq Seq(Pieces)
      BY DEF SplitInto
    <3>7. Texts(from[p]) = Texts(front(p)) \o Texts(<<token>>) \o Texts(from[x + m])
      <4> HIDE DEF V
      <4> QED BY <3>2, <3>3, <3>4, <3>5, <3>6, TextsParts
    <3>8. SubSeq(str, p, x - 1) \o SubSeq(str, x, x + m - 1) = SubSeq(str, p, x + m - 1)
      <4> DEFINE k == x - 1
      <4> DEFINE j == x + m - 1
      <4>1. p \in 1 .. Len(str) + 1 /\ k \in p - 1 .. Len(str) /\ j \in k .. Len(str) /\ k + 1 = x
        BY <1>1, <3>1
      <4> HIDE DEF k, j
      <4>2. SubSeq(str, p, k) \o SubSeq(str, k + 1, j) = SubSeq(str, p, j)
        BY <4>1, ConcatAdjacentSubSeq
      <4> QED BY <4>1, <4>2 DEF k, j
    <3>9. SubSeq(str, p, x + m - 1) \o SubSeq(str, x + m, n) = SubSeq(str, p, n)
      <4> DEFINE k == x + m - 1
      <4>1. p \in 1 .. Len(str) + 1 /\ k \in p - 1 .. Len(str) /\ n \in k .. Len(str) /\ k + 1 = x + m
        BY <1>1, <3>1
      <4> HIDE DEF k
      <4>2. SubSeq(str, p, k) \o SubSeq(str, k + 1, n) = SubSeq(str, p, n)
        BY <4>1, ConcatAdjacentSubSeq
      <4> QED BY <4>1, <4>2 DEF k
    <3>10. p \in Nat
      BY <1>1
    <3> HIDE DEF V, n
    <3>11. Texts(from[p]) = SubSeq(str, p, n)
      BY <3>2, <3>4, <3>7, <3>8, <3>9
    <3> QED BY <3>5, <3>10, <3>11
  <2> QED BY <2>1, <2>2
<1>17. 1 \in S
  <2> HIDE DEF n, S
  <2> QED BY <1>1, <1>15, <1>16, FromTheEnd
<1>18. SubSeq(str, 1, n) = str
  BY <1>1, SubSeqFull
<1> QED BY <1>2, <1>17, <1>18

(* One special token, and all of them.                                     *)
SplitOnce(pieces, st) ==
  FlattenSeq([k \in DOMAIN pieces |->
    IF pieces[k].id # -1 THEN <<pieces[k]>> ELSE SplitBy(pieces[k].str, st)])

LEMMA SplitOncePieces ==
  ASSUME NEW st \in Specials, st.str # <<>>, NEW G \in SUBSET Pieces, NEW H \in SUBSET Pieces,
         \A e \in G : IF e.id # -1 THEN e \in H ELSE SplitInto(e.str, st) \subseteq H,
         NEW pieces \in Seq(G)
  PROVE  SplitOnce(pieces, st) \in Seq(H) /\ Texts(SplitOnce(pieces, st)) = Texts(pieces)
<1> DEFINE n == Len(pieces)
<1> DEFINE lists == [k \in DOMAIN pieces |->
        IF pieces[k].id # -1 THEN <<pieces[k]>> ELSE SplitBy(pieces[k].str, st)]
<1>1. n \in Nat /\ DOMAIN pieces = 1 .. n /\ \A k \in 1 .. n : pieces[k] \in G /\ pieces[k] \in Pieces
  OBVIOUS
<1>2. ASSUME NEW k \in 1 .. n PROVE lists[k] \in Seq(H) /\ Texts(lists[k]) = pieces[k].str
  <2> DEFINE e == pieces[k]
  <2>1. e \in G /\ e \in Pieces /\ lists[k] = IF e.id # -1 THEN <<e>> ELSE SplitBy(e.str, st)
    BY <1>1
  <2> HIDE DEF e, lists
  <2>2. CASE e.id # -1
    <3>1. e \in H
      BY <2>1, <2>2
    <3> QED BY <2>1, <2>2, <3>1, TextsParts DEF e
  <2>3. CASE e.id = -1
    <3>1. e.str \in Seq(Alphabet) /\ SplitInto(e.str, st) \subseteq H
      BY <2>1, <2>3 DEF Pieces
    <3>2. lists[k] \in Seq(SplitInto(e.str, st)) /\ Texts(lists[k]) = e.str
      BY <2>1, <2>3, <3>1, SplitByPieces
    <3> QED BY <3>1, <3>2 DEF e
  <2> QED BY <2>2, <2>3
<1>3. lists = [k \in 1 .. n |-> lists[k]]
  BY <1>1
<1>4. SplitOnce(pieces, st) = FlattenSeq(lists)
  BY DEF SplitOnce
<1> HIDE DEF lists, n
<1>5. lists \in Seq(Seq(H)) /\ Len(lists) = n
  BY <1>1, <1>2, <1>3
<1>6. FlattenSeq(lists) \in Seq(H)
  BY <1>5, FlattenType
<1>7. Texts(FlattenSeq(lists)) = FlattenSeq([k \in 1 .. Len(lists) |-> Texts(lists[k])])
  <2>1. lists \in Seq(Seq(Pieces))
    BY <1>5
  <2>2. StrOf \in [Pieces -> Seq(Alphabet)]
    BY DEF StrOf, Pieces
  <2> QED BY <2>1, <2>2, ReplacedFlatten DEF Texts
<1>8. [k \in 1 .. Len(lists) |-> Texts(lists[k])] = Mapped(StrOf, pieces)
  <2>1. \A k \in 1 .. n : Texts(lists[k]) = StrOf[pieces[k]]
    BY <1>1, <1>2 DEF StrOf
  <2>2. Mapped(StrOf, pieces) = [k \in 1 .. n |-> StrOf[pieces[k]]]
    BY <1>1 DEF Mapped
  <2>3. [k \in 1 .. Len(lists) |-> Texts(lists[k])] = [k \in 1 .. n |-> StrOf[pieces[k]]]
    BY <1>5, <2>1
  <2> QED BY <2>2, <2>3
<1>9. Texts(FlattenSeq(lists)) = Texts(pieces)
  BY <1>7, <1>8 DEF Texts, Replaced
<1> QED BY <1>4, <1>6, <1>9

(* The pieces in which none of the first n special tokens is left.         *)
Split(list, n) ==
  {e \in Pieces : IF e.id = -1 THEN \A j \in 1 .. n : Find(e.str, list[j].str, 1) = 0
                  ELSE \E st \in ToSet(list) : e.str = st.str}

LEMMA SplitByOneMore ==
  ASSUME NEW list \in Seq({st \in Specials : st.str # <<>>}), NEW n \in 1 .. Len(list),
         NEW pieces \in Seq(Split(list, n - 1))
  PROVE  SplitOnce(pieces, list[n]) \in Seq(Split(list, n))
<1> DEFINE st == list[n]
<1> DEFINE G == Split(list, n - 1)
<1> DEFINE H == Split(list, n)
<1>1. st \in Specials /\ st.str # <<>> /\ st \in ToSet(list) /\ Len(list) \in Nat
  BY DEF ToSet
<1>2. G \in SUBSET Pieces /\ H \in SUBSET Pieces
  BY DEF Split
<1>3. ASSUME NEW e \in G, e.id # -1 PROVE e \in H
  BY <1>3 DEF Split
<1>4. ASSUME NEW e \in G, e.id = -1, NEW d \in SplitInto(e.str, st) PROVE d \in H
  <2>1. d \in Pieces /\ e \in Pieces /\ e.str \in Seq(CodePoints)
    BY TokenizersAssumption DEF SplitInto, Split, Pieces
  <2>2. CASE d.id # -1
    <3>1. d.str = st.str
      BY <2>2, <1>4 DEF SplitInto
    <3> HIDE DEF st
    <3> QED BY <1>1, <2>1, <2>2, <3>1 DEF Split
  <2>3. CASE d.id = -1
    <3>1. IsPart(d.str, e.str) /\ Find(d.str, st.str, 1) = 0
      BY <2>3, <1>4 DEF SplitInto
    <3>2. ASSUME NEW j \in 1 .. n, j # n PROVE Find(d.str, list[j].str, 1) = 0
      <4>1. j \in 1 .. n - 1 /\ j \in 1 .. Len(list)
        BY <3>2, <1>1
      <4>2. Find(e.str, list[j].str, 1) = 0
        BY <1>4, <4>1 DEF Split
      <4>3. list[j].str # <<>> /\ list[j].str \in Seq(CodePoints)
        <5>1. list[j] \in Specials /\ list[j].str # <<>>
          BY <4>1
        <5> QED BY <5>1, TokenizersAssumption
      <4> QED BY <2>1, <3>1, <4>2, <4>3, PartOfClear
    <3>3. \A j \in 1 .. n : Find(d.str, list[j].str, 1) = 0
      BY <3>1, <3>2
    <3> QED BY <2>1, <2>3, <3>3 DEF Split
  <2> QED BY <2>2, <2>3
<1>5. \A e \in G : IF e.id # -1 THEN e \in H ELSE SplitInto(e.str, st) \subseteq H
  BY <1>3, <1>4
<1> HIDE DEF st, G, H
<1>6. pieces \in Seq(G)
  BY DEF G
<1>7. SplitOnce(pieces, st) \in Seq(H)
  BY <1>1, <1>2, <1>5, <1>6, SplitOncePieces
<1> QED BY <1>7 DEF st, H

(* Splitting by all the special tokens leaves the text as it was           *)
(* (SplitBySpecialTokens).                                                 *)
LEMMA SplitByAll ==
  ASSUME NEW list \in Seq({st \in Specials : st.str # <<>>}), NEW str \in Seq(Alphabet)
  PROVE  /\ SplitBySpecialTokens(list, str) \in Seq(Split(list, Len(list)))
         /\ Texts(SplitBySpecialTokens(list, str)) = str
<1> DEFINE n == Len(list)
<1> DEFINE op(pieces, st) == FlattenSeq([k \in DOMAIN pieces |->
        IF pieces[k].id # -1 THEN <<pieces[k]>> ELSE SplitBy(pieces[k].str, st)])
<1> DEFINE V == Seq(Pieces)
<1> DEFINE base == <<[str |-> str, id |-> -1]>>
<1> DEFINE F == [k \in 1 .. n |-> [v \in V |-> op(v, list[k])]]
<1>0. n \in Nat /\ DOMAIN list = 1 .. n /\ \A k \in 1 .. n : list[k] \in Specials /\ list[k].str # <<>>
  OBVIOUS
<1>a. \A v : \A st : op(v, st) = SplitOnce(v, st)
  BY DEF SplitOnce
<1>1. base \in V /\ Texts(base) = str /\ base \in Seq(Split(list, 0))
  <2> DEFINE e == [str |-> str, id |-> -1]
  <2>1. e \in Pieces /\ e.str = str /\ e.id = -1
    BY DEF Pieces
  <2>2. e \in Split(list, 0)
    <3> HIDE DEF e
    <3> QED BY <2>1 DEF Split
  <2> HIDE DEF e
  <2> QED BY <2>1, <2>2, TextsParts DEF e
<1>2. \A k \in 1 .. n : \A v \in V : F[k][v] = op(v, list[k])
  OBVIOUS
<1> HIDE DEF op
<1>4. ASSUME NEW k \in 1 .. n, NEW v \in V
      PROVE  op(v, list[k]) \in V /\ Texts(op(v, list[k])) = Texts(v)
  <2>1. ASSUME NEW st \in Specials PROVE \A e \in Pieces : SplitInto(e.str, st) \subseteq Pieces
    BY DEF SplitInto
  <2>2. list[k] \in Specials /\ list[k].str # <<>> /\ Pieces \in SUBSET Pieces
    BY <1>0
  <2>3. SplitOnce(v, list[k]) \in Seq(Pieces) /\ Texts(SplitOnce(v, list[k])) = Texts(v)
    BY <2>1, <2>2, SplitOncePieces
  <2> QED BY <1>a, <2>3
<1> HIDE DEF F
<1>5. Steps(F, V, 1 .. n)
  <2> HIDE DEF V
  <2> QED BY <1>2, <1>4 DEF Steps
<1>6. \E it : it = [s \in SUBSET (1 .. n) |->
                     IF s = {} THEN base ELSE op(it[s \ {Max(s)}], list[Max(s)])]
  <2>1. PICK it : LeftIteration(it, n, V, base, F)
    <3> HIDE DEF V, base, n
    <3> QED BY <1>0, <1>1, <1>5, LeftIterationExists
  <2>2. ASSUME NEW s \in SUBSET (1 .. n), s # {}
        PROVE  it[s] = op(it[s \ {Max(s)}], list[Max(s)])
    <3>1. Max(s) \in 1 .. n /\ it[s \ {Max(s)}] \in V /\ it[s] = F[Max(s)][it[s \ {Max(s)}]]
      BY <2>1, <2>2 DEF LeftIteration
    <3> HIDE DEF V
    <3> QED BY <1>2, <3>1
  <2>3. it \in [SUBSET (1 .. n) -> V] /\ it[{}] = base
    BY <2>1 DEF LeftIteration
  <2> HIDE DEF V, base
  <2>4. it = [s \in SUBSET (1 .. n) |->
               IF s = {} THEN base ELSE op(it[s \ {Max(s)}], list[Max(s)])]
    BY <2>2, <2>3
  <2> QED BY <2>4
<1>7. PICK it :
        /\ it = [s \in SUBSET (1 .. n) |->
                   IF s = {} THEN base ELSE op(it[s \ {Max(s)}], list[Max(s)])]
        /\ SplitBySpecialTokens(list, str) = it[1 .. n]
  <2>1. SplitBySpecialTokens(list, str) = FoldLeft(op, base, list)
    BY DEF SplitBySpecialTokens, op
  <2> HIDE DEF op, base, V
  <2> QED BY <1>0, <1>6, <2>1 DEF FoldLeft, MapThenFoldSet
<1>8. LeftFold(it, n, V, base, F)
  <2> HIDE DEF base, V
  <2>1. it[{}] = base
    BY <1>7
  <2>2. ASSUME NEW s \in SUBSET (1 .. n), s # {}, it[s \ {Max(s)}] \in V
        PROVE  it[s] = F[Max(s)][it[s \ {Max(s)}]]
    <3>1. it[s] = op(it[s \ {Max(s)}], list[Max(s)])
      BY <1>7, <2>2
    <3>2. Max(s) \in 1 .. n
      BY <1>0, <2>2, LargestOf
    <3> QED BY <1>2, <2>2, <3>1, <3>2
  <2> QED BY <2>1, <2>2 DEF LeftFold
<1>9. PICK g : LeftRun(g, n, V, base, F) /\ g[n] = it[1 .. n]
  <2> HIDE DEF n, V, base
  <2> QED BY <1>0, <1>1, <1>5, <1>8, LeftRuns
<1> DEFINE S == {k \in Nat : k \in 0 .. n => g[k] \in Seq(Split(list, k)) /\ Texts(g[k]) = str}
<1>10. 0 \in S
  BY <1>1, <1>9 DEF LeftRun
<1>11. ASSUME NEW k \in 0 .. n - 1, k \in S PROVE k + 1 \in S
  <2>1. k + 1 \in 1 .. n /\ (k + 1) - 1 = k /\ k \in 0 .. n /\ k + 1 \in Nat
    BY <1>0
  <2>2. g[k] \in V /\ g[k + 1] = F[k + 1][g[k]]
    BY <1>9, <2>1 DEF LeftRun
  <2>3. g[k] \in Seq(Split(list, k)) /\ Texts(g[k]) = str
    BY <1>11, <2>1
  <2> HIDE DEF V, n
  <2>4. g[k + 1] = SplitOnce(g[k], list[k + 1])
    BY <1>a, <1>2, <2>1, <2>2
  <2>5. Texts(g[k + 1]) = str
    BY <1>a, <1>4, <2>1, <2>2, <2>3, <2>4
  <2>6. g[k + 1] \in Seq(Split(list, k + 1))
    BY <2>1, <2>3, <2>4, SplitByOneMore DEF n
  <2> QED BY <2>1, <2>5, <2>6
<1>12. n \in S /\ n \in 0 .. n
  <2>1. n \in 0 .. n
    BY <1>0
  <2> HIDE DEF S, n
  <2> QED BY <1>0, <1>10, <1>11, <2>1, UpTo
<1> QED BY <1>7, <1>9, <1>12

(* A token is one of the vocabulary or a special token of the list, and    *)
(* together they spell the text.                                           *)
TokenSet(list) == Known \cup {st.str : st \in ToSet(list)}

LEMMA GptTokenizes ==
  ASSUME NEW list \in Seq({st \in Specials : st.str # <<>>}), NEW str \in Seq(Alphabet)
  PROVE  /\ GptTokenize(list, str) \in Seq(TokenSet(list))
         /\ FlattenSeq(GptTokenize(list, str)) =
              (IF \A k \in DOMAIN str : is_unicode_space(str[k]) THEN <<>> ELSE str)
<1> DEFINE T == TokenSet(list)
<1> DEFINE pieces == SplitBySpecialTokens(list, str)
<1> DEFINE n == Len(pieces)
<1> DEFINE lists == [k \in DOMAIN pieces |->
        IF pieces[k].id # -1 THEN <<pieces[k].str>> ELSE TokensOf(pieces[k].str)]
<1> DEFINE blank == \A k \in DOMAIN str : is_unicode_space(str[k])
<1>1. GptTokenize(list, str) = IF blank THEN <<>> ELSE FlattenSeq(lists)
  BY DEF GptTokenize
<1>2. pieces \in Seq(Split(list, Len(list))) /\ Texts(pieces) = str
  BY SplitByAll
<1> HIDE DEF pieces
<1>3. n \in Nat /\ DOMAIN pieces = 1 .. n /\ \A k \in 1 .. n : pieces[k] \in Split(list, Len(list))
  BY <1>2
<1>4. ASSUME NEW k \in 1 .. n PROVE lists[k] \in Seq(T) /\ FlattenSeq(lists[k]) = pieces[k].str
  <2> DEFINE e == pieces[k]
  <2>1. /\ e \in Split(list, Len(list)) /\ e \in Pieces /\ e.str \in Seq(Alphabet)
        /\ lists[k] = IF e.id # -1 THEN <<e.str>> ELSE TokensOf(e.str)
    BY <1>3 DEF Split, Pieces
  <2> HIDE DEF e, lists
  <2>2. CASE e.id # -1
    <3>1. e.str \in T
      BY <2>1, <2>2 DEF Split, TokenSet
    <3> QED BY <2>1, <2>2, <3>1, FlattenOne DEF e
  <2>3. CASE e.id = -1
    <3>1. TokensOf(e.str) \in Seq(Known) /\ FlattenSeq(TokensOf(e.str)) = e.str
      BY <2>1, TokensSpell
    <3>2. TokensOf(e.str) \in Seq(T)
      BY <3>1 DEF TokenSet
    <3> QED BY <2>1, <2>3, <3>1, <3>2 DEF e
  <2> QED BY <2>2, <2>3
<1>5. lists = [k \in 1 .. n |-> lists[k]]
  BY <1>3
<1>6. T \subseteq Seq(CodePoints)
  <2>1. ASSUME NEW st \in ToSet(list) PROVE st.str \in Seq(CodePoints)
    <3>1. st \in Specials
      BY DEF ToSet
    <3> QED BY <3>1, TokenizersAssumption
  <2> QED BY <2>1, GptVocabulary DEF TokenSet
<1> HIDE DEF lists, n, T
<1>7. lists \in Seq(Seq(T)) /\ Len(lists) = n
  BY <1>3, <1>4, <1>5, SMTT(30)
<1>8. FlattenSeq(lists) \in Seq(T)
  BY <1>7, FlattenType
<1>9. lists \in Seq(Seq(Seq(CodePoints)))
  BY <1>6, <1>7
<1>10. FlattenSeq(FlattenSeq(lists)) = FlattenSeq([k \in 1 .. Len(lists) |-> FlattenSeq(lists[k])])
  BY <1>9, FlattenTwice
<1>11. [k \in 1 .. Len(lists) |-> FlattenSeq(lists[k])] = Mapped(StrOf, pieces)
  <2>1. \A k \in 1 .. n : FlattenSeq(lists[k]) = StrOf[pieces[k]]
    BY <1>3, <1>4 DEF StrOf, Split
  <2>2. Mapped(StrOf, pieces) = [k \in 1 .. n |-> StrOf[pieces[k]]]
    BY <1>3 DEF Mapped
  <2>3. [k \in 1 .. Len(lists) |-> FlattenSeq(lists[k])] = [k \in 1 .. n |-> StrOf[pieces[k]]]
    BY <1>7, <2>1
  <2> QED BY <2>2, <2>3
<1>12. FlattenSeq(FlattenSeq(lists)) = str
  BY <1>2, <1>10, <1>11 DEF Texts, Replaced
<1> HIDE DEF blank
<1>13. GptTokenize(list, str) \in Seq(T)
  <2>1. <<>> \in Seq(T)
    OBVIOUS
  <2> QED BY <1>1, <1>8, <2>1
<1>14. FlattenSeq(GptTokenize(list, str)) = IF blank THEN <<>> ELSE str
  BY <1>1, <1>12, FlattenNone
<1> QED BY <1>13, <1>14 DEF T, blank

(***************************************************************************)
(* The invariant GptSpellsText: whatever the special tokens, the merges    *)
(* and the text, the tokens spell the text; no piece between special       *)
(* tokens contains one; and the id of a token is that of its spelling, or  *)
(* -1 for a special token that the vocabulary does not have.  A special    *)
(* token is never empty, which is what Add refuses.                        *)
(***************************************************************************)
ListTyped == text \in Seq(Alphabet) /\ token_list \in Seq({st \in Specials : st.str # <<>>})

LEMMA ListIsTyped == Spec => []ListTyped
<1>1. Init => ListTyped
  BY DEF Init, ListTyped
<1>2. ListTyped /\ [Next]_vars => ListTyped'
  <2> SUFFICES ASSUME ListTyped, [Next]_vars PROVE ListTyped'
    OBVIOUS
  <2>1. text' \in Seq(Alphabet)
    BY DEF ListTyped, Next, vars, Type, AddSpecial, Reload
  <2> DEFINE U == {st \in Specials : st.str # <<>>}
  <2>2. CASE Reload
    BY <2>1, <2>2 DEF Reload, ListTyped
  <2>3. ASSUME NEW st \in Specials, AddSpecial(st) PROVE token_list' \in Seq(U)
    <3>1. st \in U /\ token_list \in Seq(U)
      BY <2>3 DEF AddSpecial, CanAdd, ListTyped
    <3>2. [str |-> st.str, id |-> st.id] = st
      BY TokenizersAssumption
    <3> HIDE DEF U
    <3>3. token_list' = token_list \/ token_list' = Append(token_list, st)
      BY <2>3, <3>2 DEF AddSpecial, Add
    <3> QED BY <3>1, <3>3
  <2>4. CASE \E st \in Specials : AddSpecial(st)
    BY <2>1, <2>3, <2>4 DEF ListTyped
  <2>5. CASE UNCHANGED token_list
    BY <2>1, <2>5 DEF ListTyped
  <2> QED BY <2>2, <2>4, <2>5 DEF Next, vars, Type
<1> QED BY <1>1, <1>2, PTL DEF Spec

(* In every state, the tokens of GPT-2 spell the text they were made from. *)
THEOREM TokensSpellText == Spec => []GptSpellsText
<1>1. ListTyped => GptSpellsText
  <2> SUFFICES ASSUME ListTyped PROVE GptSpellsText
    OBVIOUS
  <2> DEFINE tokens == GptTokenize(token_list, text)
  <2> DEFINE pieces == SplitBySpecialTokens(token_list, text)
  <2> DEFINE U == {st \in Specials : st.str # <<>>}
  <2>1. text \in Seq(Alphabet) /\ token_list \in Seq(U)
    BY DEF ListTyped
  <2>2. /\ tokens \in Seq(TokenSet(token_list))
        /\ FlattenSeq(tokens) = (IF \A k \in DOMAIN text : is_unicode_space(text[k]) THEN <<>> ELSE text)
    BY <2>1, GptTokenizes
  <2>3. pieces \in Seq(Split(token_list, Len(token_list)))
    BY <2>1, SplitByAll
  <2> HIDE DEF tokens, pieces
  <2>4. ASSUME NEW k \in DOMAIN tokens
        PROVE  LET id == GptEncode(<<tokens[k]>>, Unlimited)[1]
               IN  IF id = -1 THEN \E st \in ToSet(token_list) : st.str = tokens[k]
                   ELSE Spelling[id] = tokens[k]
    <3> DEFINE t == tokens[k]
    <3>1. t \in TokenSet(token_list)
      BY <2>2
    <3> HIDE DEF t
    <3>2. GptEncode(<<t>>, Unlimited)[1] = IdIn(GptIds, t)
      BY DEF GptEncode, GptAddSpecialToken, TruncateOne, Unlimited
    <3>3. CASE t \in Known
      <4>1. IdIn(GptIds, t) # -1 /\ Spelling[IdIn(GptIds, t)] = t
        BY <3>3, IdOf
      <4> QED BY <3>2, <4>1 DEF t
    <3>4. CASE t \notin Known
      <4>1. IdIn(GptIds, t) = -1
        BY <3>4 DEF IdIn, Known
      <4>2. \E st \in ToSet(token_list) : st.str = t
        BY <3>1, <3>4 DEF TokenSet
      <4> QED BY <3>2, <4>1, <4>2 DEF t
    <3> QED BY <3>3, <3>4
  <2>5. ASSUME NEW k \in DOMAIN pieces, NEW st \in ToSet(token_list), pieces[k].id = -1
        PROVE  Find(pieces[k].str, st.str, 1) = 0
    <3>1. PICK j \in 1 .. Len(token_list) : st = token_list[j]
      BY <2>1 DEF ToSet
    <3>2. pieces[k] \in Split(token_list, Len(token_list))
      BY <2>3
    <3> QED BY <2>5, <3>1, <3>2 DEF Split
  <2>6. Spell(tokens, text)
    BY <2>2, <2>4 DEF Spell
  <2> QED BY <2>5, <2>6 DEF GptSpellsText, tokens, pieces
<1> QED BY <1>1, ListIsTyped, PTL

-----------------------------------------------------------------------------
(* MergeOne, which looks for one pair at a time.                           *)
LEMMA RankIsLine ==
  ASSUME NEW x \in DOMAIN Merges, NEW y \in DOMAIN Merges, Merges[x].rank = Merges[y].rank
  PROVE  x = y
  BY MergesAreRead DEF Tables, SaidByLine

(* A merge makes the ids one fewer, if there is a pair to merge.           *)
LEMMA OneIsMerged ==
  ASSUME NEW x \in Seq(Ids)
  PROVE  IF Active(Merges, x) = {} THEN MergeOne(x) = x
         ELSE MergeOne(x) \in Seq(Ids) /\ Len(MergeOne(x)) = Len(x) - 1
<1> DEFINE pairs == {k \in 1 .. Len(x) - 1 : <<x[k], x[k + 1]>> \in DOMAIN Merges}
<1> DEFINE rank(k) == Merges[<<x[k], x[k + 1]>>].rank
<1> DEFINE first(k) == \A j \in pairs : rank(k) < rank(j) \/ (rank(k) = rank(j) /\ k <= j)
<1> DEFINE k0 == CHOOSE k \in pairs : first(k)
<1>0. Merges \in Tables /\ pairs = Active(Merges, x)
  BY MergesAreRead DEF Active, PairAt
<1>1. MergeOne(x) = IF pairs = {} THEN x
        ELSE SubSeq(x, 1, k0 - 1) \o <<Merges[<<x[k0], x[k0 + 1]>>].id>> \o SubSeq(x, k0 + 2, Len(x))
  BY DEF MergeOne
<1>2. CASE pairs = {}
  BY <1>0, <1>1, <1>2
<1>3. CASE pairs # {}
  <2>1. \E k \in pairs : first(k)
    <3> DEFINE R == {rank(k) : k \in pairs}
    <3>1. \A k \in pairs : rank(k) \in Nat /\ k \in Nat
      BY <1>0 DEF Tables, TableSet
    <3>2. R \in SUBSET Nat /\ R # {}
      BY <1>3, <3>1
    <3>3. Min(R) \in R /\ \A r \in R : Min(R) <= r
      <4> HIDE DEF R
      <4> QED BY <3>2, SmallestOf
    <3> DEFINE r == Min(R)
    <3> DEFINE K == {k \in pairs : rank(k) = r}
    <3>4. r \in Nat /\ (\A k \in pairs : r <= rank(k)) /\ K # {} /\ K \in SUBSET Nat
      <4>1. r \in R /\ r \in Nat
        BY <3>2, <3>3
      <4>2. \A k \in pairs : r <= rank(k)
        BY <3>3
      <4> HIDE DEF r, pairs, rank
      <4> QED BY <3>1, <4>1, <4>2
    <3> HIDE DEF r
    <3>5. Min(K) \in K /\ \A k \in K : Min(K) <= k
      <4> HIDE DEF K
      <4> QED BY <3>4, SmallestOf
    <3> DEFINE k1 == Min(K)
    <3> HIDE DEF k1, pairs, rank
    <3>6. k1 \in pairs /\ rank(k1) = r /\ \A k \in pairs : rank(k) = r => k1 <= k
      BY <3>5 DEF k1
    <3>7. first(k1)
      BY <3>1, <3>4, <3>6
    <3> QED BY <3>6, <3>7
  <2>2. k0 \in pairs
    <3> HIDE DEF pairs, first
    <3> QED BY <2>1
  <2> HIDE DEF k0
  <2> DEFINE n == Len(x)
  <2> DEFINE pair == <<x[k0], x[k0 + 1]>>
  <2>3. n \in Nat /\ k0 \in 1 .. n - 1 /\ k0 \in Nat /\ k0 \in 1 .. n /\ k0 + 1 \in 1 .. n /\ pair \in DOMAIN Merges
    BY <2>2
  <2>4. x[k0] \in Ids /\ x[k0 + 1] \in Ids
    BY <2>3
  <2>5. Merges[pair].id \in Ids
    BY <1>0, <2>3, <2>4 DEF Tables, Joins
  <2> DEFINE id == Merges[pair].id
  <2> HIDE DEF id, pair
  <2>6. SubSeq(x, 1, k0 - 1) \in Seq(Ids) /\ Len(SubSeq(x, 1, k0 - 1)) = k0 - 1
    <3>1. 1 \in 1 .. n + 1 /\ k0 - 1 \in 1 - 1 .. n /\ (k0 - 1) - 1 + 1 = k0 - 1
      BY <2>3
    <3> DEFINE e == k0 - 1
    <3>2. e \in 1 - 1 .. n /\ e - 1 + 1 = e
      BY <3>1
    <3> HIDE DEF e
    <3>3. SubSeq(x, 1, e) \in Seq(Ids) /\ Len(SubSeq(x, 1, e)) = e
      BY <3>1, <3>2, SubSeqPoints DEF n
    <3> QED BY <3>3 DEF e
  <2>7. SubSeq(x, k0 + 2, n) \in Seq(Ids) /\ Len(SubSeq(x, k0 + 2, n)) = n - k0 - 1
    <3> DEFINE e == k0 + 2
    <3>1. e \in 1 .. n + 1 /\ n \in e - 1 .. n /\ n - e + 1 = n - k0 - 1
      BY <2>3
    <3> HIDE DEF e
    <3>2. SubSeq(x, e, n) \in Seq(Ids) /\ Len(SubSeq(x, e, n)) = n - e + 1
      BY <3>1, SubSeqPoints DEF n
    <3> QED BY <3>1, <3>2 DEF e
  <2>8. MergeOne(x) = SubSeq(x, 1, k0 - 1) \o <<id>> \o SubSeq(x, k0 + 2, n)
    <3> HIDE DEF pairs, k0
    <3> QED BY <1>1, <1>3 DEF k0, id, pair
  <2> DEFINE u == SubSeq(x, 1, k0 - 1)
  <2> DEFINE v == SubSeq(x, k0 + 2, n)
  <2>9. u \in Seq(Ids) /\ v \in Seq(Ids) /\ Len(u) = k0 - 1 /\ Len(v) = n - k0 - 1 /\ id \in Ids
        /\ MergeOne(x) = u \o <<id>> \o v
    BY <2>5, <2>6, <2>7, <2>8 DEF id
  <2> HIDE DEF u, v
  <2>10. u \o <<id>> \o v \in Seq(Ids) /\ Len(u \o <<id>> \o v) = Len(u) + 1 + Len(v)
    <3>1. u \o <<id>> \in Seq(Ids) /\ Len(u \o <<id>>) = Len(u) + 1
      BY <2>9
    <3> DEFINE e == u \o <<id>>
    <3> HIDE DEF e
    <3>2. e \o v \in Seq(Ids) /\ Len(e \o v) = Len(e) + Len(v)
      BY <2>9, <3>1, ConcatProperties DEF e
    <3> QED BY <3>1, <3>2 DEF e
  <2>11. Len(u) + 1 + Len(v) = n - 1
    <3> HIDE DEF n
    <3> QED BY <2>3, <2>9
  <2> QED BY <1>0, <1>3, <2>9, <2>10, <2>11
<1> QED BY <1>2, <1>3

(* It merges the first pair of the smallest rank.                          *)
LEMMA FirstIsMerged ==
  ASSUME NEW x \in Seq(Ids), NEW p \in Active(Merges, x),
         \A k \in Active(Merges, x) : Merges[PairAt(x, p)].rank <= Merges[PairAt(x, k)].rank,
         \A k \in Active(Merges, x) : k < p => PairAt(x, k) # PairAt(x, p)
  PROVE  MergeOne(x) =
           SubSeq(x, 1, p - 1) \o <<Merges[PairAt(x, p)].id>> \o SubSeq(x, p + 2, Len(x))
<1> DEFINE pairs == {k \in 1 .. Len(x) - 1 : <<x[k], x[k + 1]>> \in DOMAIN Merges}
<1> DEFINE rank(k) == Merges[<<x[k], x[k + 1]>>].rank
<1> DEFINE first(k) == \A j \in pairs : rank(k) < rank(j) \/ (rank(k) = rank(j) /\ k <= j)
<1> DEFINE k0 == CHOOSE k \in pairs : first(k)
<1>0. Merges \in Tables /\ pairs = Active(Merges, x)
  BY MergesAreRead DEF Active, PairAt
<1>1. MergeOne(x) = IF pairs = {} THEN x
        ELSE SubSeq(x, 1, k0 - 1) \o <<Merges[<<x[k0], x[k0 + 1]>>].id>> \o SubSeq(x, k0 + 2, Len(x))
  BY DEF MergeOne
<1>2. /\ \A k \in pairs : rank(k) \in Nat /\ k \in Nat
      /\ \A k \in pairs : rank(k) = Merges[PairAt(x, k)].rank /\ PairAt(x, k) \in DOMAIN Merges
  BY <1>0 DEF Tables, TableSet, PairAt
<1>3. p \in pairs /\ \A k \in pairs : rank(p) <= rank(k)
  BY <1>0, <1>2
<1>4. \A k \in pairs : k < p => rank(k) # rank(p)
  <2> SUFFICES ASSUME NEW k \in pairs, k < p, rank(k) = rank(p) PROVE FALSE
    OBVIOUS
  <2>1. PairAt(x, k) = PairAt(x, p)
    <3> HIDE DEF pairs, rank
    <3> QED BY <1>2, <1>3, RankIsLine
  <2> QED BY <1>0, <2>1
<1> HIDE DEF pairs, rank
<1>5. first(p)
  BY <1>2, <1>3, <1>4
<1>6. k0 \in pairs /\ first(k0)
  BY <1>3, <1>5
<1>7. k0 = p
  <2> HIDE DEF k0
  <2>1. (rank(k0) < rank(p) \/ (rank(k0) = rank(p) /\ k0 <= p)) /\ (rank(p) < rank(k0) \/ (rank(p) = rank(k0) /\ p <= k0))
    BY <1>3, <1>5, <1>6
  <2>2. rank(k0) \in Nat /\ rank(p) \in Nat /\ k0 \in Nat /\ p \in Nat
    BY <1>2, <1>3, <1>6
  <2> QED BY <2>1, <2>2
<1>8. pairs # {}
  BY <1>3
<1> HIDE DEF k0
<1> QED BY <1>1, <1>7, <1>8 DEF PairAt

(* Putting sequences of ids together associates.                           *)
LEMMA IdsAssociate ==
  \A x, y, z \in Seq(Ids) : (x \o y) \o z = x \o (y \o z)
BY ConcatAssociative, SMTT(30)

(* u with what the list w has from i on.                                   *)
Joined(u, w, i) == u \o SubSeq(w, i, Len(w))

LEMMA JoinedPoints ==
  ASSUME NEW u \in Seq(Ids), NEW w \in Seq(Ids), NEW i \in 1 .. Len(w) + 1
  PROVE  /\ Joined(u, w, i) \in Seq(Ids) /\ Len(Joined(u, w, i)) = Len(u) + (Len(w) - i + 1)
         /\ \A k \in 1 .. Len(u) : Joined(u, w, i)[k] = u[k]
         /\ \A k \in 1 .. Len(w) - i + 1 : Joined(u, w, i)[Len(u) + k] = w[i + k - 1]
<1> DEFINE n == Len(w)
<1> DEFINE v == SubSeq(w, i, n)
<1>1. n \in Nat /\ n \in i - 1 .. n /\ i \in 1 .. n + 1
  OBVIOUS
<1>2. v \in Seq(Ids) /\ Len(v) = n - i + 1 /\ \A k \in 1 .. n - i + 1 : v[k] = w[i + k - 1]
  BY <1>1, SubSeqPoints
<1> HIDE DEF v
<1>3. /\ u \o v \in Seq(Ids) /\ Len(u \o v) = Len(u) + Len(v)
      /\ \A k \in 1 .. Len(u) : (u \o v)[k] = u[k]
      /\ \A k \in 1 .. Len(v) : (u \o v)[Len(u) + k] = v[k]
  <2>1. /\ u \o v \in Seq(Ids) /\ Len(u \o v) = Len(u) + Len(v)
        /\ \A k \in 1 .. Len(u) + Len(v) : (u \o v)[k] = IF k <= Len(u) THEN u[k] ELSE v[k - Len(u)]
    BY <1>2, ConcatProperties
  <2> DEFINE l == Len(u)
  <2> DEFINE e == Len(v)
  <2>2. l \in Nat /\ e \in Nat
    BY <1>2
  <2> HIDE DEF l, e
  <2>3. \A k \in 1 .. l : k \in 1 .. l + e /\ k <= l
    BY <2>2
  <2>4. \A k \in 1 .. e : l + k \in 1 .. l + e /\ ~(l + k <= l) /\ (l + k) - l = k
    BY <2>2
  <2> DEFINE x == u \o v
  <2> HIDE DEF x
  <2>5. /\ \A k \in 1 .. l : x[k] = u[k]
        /\ \A k \in 1 .. e : x[l + k] = v[k]
    BY <2>1, <2>3, <2>4 DEF l, e, x
  <2> QED BY <2>1, <2>5 DEF l, e, x
<1>4. Joined(u, w, i) = u \o v
  BY DEF Joined, v
<1> QED BY <1>2, <1>3, <1>4 DEF n

(* What is in front of and behind the pair at i.                           *)
LEMMA JoinedAround ==
  ASSUME NEW u \in Seq(Ids), NEW w \in Seq(Ids), NEW i \in 1 .. Len(w) - 1
  PROVE  LET x == Joined(u, w, i)
         IN  /\ SubSeq(x, 1, Len(u)) = u
             /\ SubSeq(x, Len(u) + 3, Len(x)) = SubSeq(w, i + 2, Len(w))
<1> DEFINE x == Joined(u, w, i)
<1> DEFINE n == Len(w)
<1> DEFINE l == Len(u)
<1>1. /\ x \in Seq(Ids) /\ Len(x) = l + (n - i + 1)
      /\ \A k \in 1 .. l : x[k] = u[k]
      /\ \A k \in 1 .. n - i + 1 : x[l + k] = w[i + k - 1]
  <2>1. i \in 1 .. Len(w) + 1
    OBVIOUS
  <2> QED BY <2>1, JoinedPoints
<1>2. n \in Nat /\ l \in Nat /\ i \in 1 .. n - 1 /\ i \in Nat
  OBVIOUS
<1> HIDE DEF x
<1>3. SubSeq(x, 1, l) = u
  <2>1. 1 \in 1 .. Len(x) + 1 /\ l \in 1 - 1 .. Len(x) /\ l - 1 + 1 = l
    BY <1>1, <1>2
  <2>2. /\ SubSeq(x, 1, l) \in Seq(Ids) /\ Len(SubSeq(x, 1, l)) = l - 1 + 1
        /\ \A k \in 1 .. l - 1 + 1 : SubSeq(x, 1, l)[k] = x[1 + k - 1]
    <3> HIDE DEF l
    <3> QED BY <1>1, <2>1, SubSeqPoints
  <2>3. \A k \in 1 .. l : SubSeq(x, 1, l)[k] = u[k]
    <3> SUFFICES ASSUME NEW k \in 1 .. l PROVE SubSeq(x, 1, l)[k] = u[k]
      OBVIOUS
    <3>1. k \in 1 .. l - 1 + 1 /\ 1 + k - 1 = k
      BY <2>1
    <3> QED BY <1>1, <2>2, <3>1
  <2> QED BY <2>1, <2>2, <2>3, SeqEqual
<1>4. SubSeq(x, l + 3, Len(x)) = SubSeq(w, i + 2, n)
  <2> DEFINE p == l + 3
  <2> DEFINE q == i + 2
  <2> HIDE DEF n, l
  <2>1. p \in 1 .. Len(x) + 1 /\ Len(x) \in p - 1 .. Len(x) /\ Len(x) - p + 1 = n - i - 1
    BY <1>1, <1>2
  <2>2. q \in 1 .. n + 1 /\ n \in q - 1 .. n /\ n - q + 1 = n - i - 1
    BY <1>2
  <2>3. /\ SubSeq(x, p, Len(x)) \in Seq(Ids) /\ Len(SubSeq(x, p, Len(x))) = n - i - 1
        /\ \A k \in 1 .. n - i - 1 : SubSeq(x, p, Len(x))[k] = x[p + k - 1]
    <3> HIDE DEF p
    <3>1. /\ SubSeq(x, p, Len(x)) \in Seq(Ids) /\ Len(SubSeq(x, p, Len(x))) = Len(x) - p + 1
          /\ \A k \in 1 .. Len(x) - p + 1 : SubSeq(x, p, Len(x))[k] = x[p + k - 1]
      BY <1>1, <2>1, SubSeqPoints
    <3> QED BY <2>1, <3>1
  <2>4. /\ SubSeq(w, q, n) \in Seq(Ids) /\ Len(SubSeq(w, q, n)) = n - i - 1
        /\ \A k \in 1 .. n - i - 1 : SubSeq(w, q, n)[k] = w[q + k - 1]
    <3> HIDE DEF q
    <3>1. /\ SubSeq(w, q, n) \in Seq(Ids) /\ Len(SubSeq(w, q, n)) = n - q + 1
          /\ \A k \in 1 .. n - q + 1 : SubSeq(w, q, n)[k] = w[q + k - 1]
      BY <2>2, SubSeqPoints DEF n
    <3> QED BY <2>2, <3>1
  <2>5. \A k \in 1 .. n - i - 1 : SubSeq(x, p, Len(x))[k] = SubSeq(w, q, n)[k]
    <3> SUFFICES ASSUME NEW k \in 1 .. n - i - 1 PROVE SubSeq(x, p, Len(x))[k] = SubSeq(w, q, n)[k]
      OBVIOUS
    <3>1. k + 2 \in 1 .. n - i + 1 /\ p + k - 1 = l + (k + 2) /\ i + (k + 2) - 1 = q + k - 1
      BY <1>2
    <3>2. x[p + k - 1] = w[q + k - 1]
      BY <1>1, <3>1
    <3> HIDE DEF p, q
    <3> QED BY <2>3, <2>4, <3>2
  <2> HIDE DEF p, q
  <2>6. SubSeq(x, p, Len(x)) = SubSeq(w, q, n)
    BY <2>3, <2>4, <2>5, SeqEqual
  <2> QED BY <2>6 DEF p, q
<1> QED BY <1>3, <1>4 DEF x

-----------------------------------------------------------------------------
(* A line that takes what another line makes comes behind it, as it does   *)
(* where a training wrote the lines: a token has to be made before it can  *)
(* be merged.                                                              *)
LinesInOrder ==
  \A k, j \in DOMAIN MergeLines :
    MergeLines[k][1] \o MergeLines[k][2] \in {MergeLines[j][1], MergeLines[j][2]} => k < j

LEMMA MadeEarlier ==
  ASSUME LinesInOrder, NEW pair \in DOMAIN Merges \cap (Ids \X Ids), NEW q \in DOMAIN Merges,
         Merges[pair].id \in {q[1], q[2]}
  PROVE  Merges[pair].rank < Merges[q].rank /\ Merges[pair].rank \in Nat /\ Merges[q].rank \in Nat
<1> DEFINE k == Merges[pair].rank
<1> DEFINE j == Merges[q].rank
<1> DEFINE made == MergeLines[k][1] \o MergeLines[k][2]
<1>1. /\ k \in DOMAIN MergeLines /\ Merges[pair] = MergeValue(k) /\ Merges[pair].id \in Ids
      /\ j \in DOMAIN MergeLines /\ q = MergeKey(j)
  BY MergesAreRead DEF Tables, SaidByLine, Joins
<1> HIDE DEF k, j
<1>2. Merges[pair].id = IdIn(GptIds, made)
  BY <1>1 DEF MergeValue
<1>3. q[1] = IdIn(GptIds, MergeLines[j][1]) /\ q[2] = IdIn(GptIds, MergeLines[j][2])
  BY <1>1 DEF MergeKey
<1> HIDE DEF made
<1>4. ASSUME NEW str, IdIn(GptIds, str) = IdIn(GptIds, made) PROVE str = made
  <2>1. IdIn(GptIds, str) \in Ids /\ IdIn(GptIds, made) \in Ids
    BY <1>1, <1>2, <1>4
  <2> QED BY <1>4, <2>1, IdOf
<1>5. made \in {MergeLines[j][1], MergeLines[j][2]}
  BY <1>2, <1>3, <1>4
<1>6. k < j /\ k \in Nat /\ j \in Nat
  <2>1. DOMAIN MergeLines \subseteq Nat
    BY GptFilesAssumption
  <2> QED BY <1>1, <1>5, <2>1 DEF LinesInOrder, made
<1> QED BY <1>6 DEF k, j

(* In x, which begins with what has been merged to the list u, no pair of  *)
(* the table ranks before pair, and pair itself does not begin in u.       *)
Merged(u, x, pair) ==
  \A k \in Active(Merges, x) :
    /\ Merges[pair].rank <= Merges[PairAt(x, k)].rank
    /\ k <= Len(u) => PairAt(x, k) # pair

(* The pair behind u is the one MergeOne takes; what it becomes ranks      *)
(* behind it wherever it is merged again.                                  *)
LEMMA PairIsMerged ==
  ASSUME LinesInOrder, NEW pair \in DOMAIN Merges \cap (Ids \X Ids),
         NEW u \in Seq(Ids), NEW w \in Seq(Ids), NEW i \in 1 .. Len(w) - 1, PairAt(w, i) = pair,
         Merged(u, Joined(u, w, i), pair)
  PROVE  LET v == u \o <<Merges[pair].id>>
         IN  /\ MergeOne(Joined(u, w, i)) = Joined(v, w, i + 2)
             /\ v \in Seq(Ids) /\ Merged(v, Joined(v, w, i + 2), pair)
<1> DEFINE n == Len(w)
<1> DEFINE l == Len(u)
<1> DEFINE x == Joined(u, w, i)
<1> DEFINE id == Merges[pair].id
<1> DEFINE v == u \o <<id>>
<1> DEFINE y == Joined(v, w, i + 2)
<1> DEFINE rank(q) == Merges[q].rank
<1>0. n \in Nat /\ l \in Nat /\ i \in Nat /\ i >= 1 /\ i < n /\ i \in 1 .. Len(w) + 1
  OBVIOUS
<1>1. id \in Ids /\ \A q \in DOMAIN Merges : rank(q) \in Nat
  <2>1. id \in Ids
    BY MergesAreRead DEF Tables, Joins
  <2>2. Merges \in TableSet
    BY MergesAreRead DEF Tables
  <2>3. \A q \in DOMAIN Merges : rank(q) \in Nat
    BY <2>2 DEF TableSet
  <2> QED BY <2>1, <2>3
<1>2. v \in Seq(Ids) /\ Len(v) = l + 1 /\ v[l + 1] = id /\ \A k \in 1 .. l : v[k] = u[k]
  <2> HIDE DEF id
  <2> QED BY <1>1
<1>3. /\ x \in Seq(Ids) /\ Len(x) = l + (n - i + 1)
      /\ \A k \in 1 .. l : x[k] = u[k]
      /\ \A k \in 1 .. n - i + 1 : x[l + k] = w[i + k - 1]
  BY <1>0, JoinedPoints
<1> HIDE DEF v
<1>4. /\ y \in Seq(Ids) /\ Len(y) = (l + 1) + (n - (i + 2) + 1)
      /\ \A k \in 1 .. l + 1 : y[k] = v[k]
      /\ \A k \in 1 .. n - (i + 2) + 1 : y[(l + 1) + k] = w[(i + 2) + k - 1]
  <2> DEFINE j == i + 2
  <2>1. j \in 1 .. Len(w) + 1
    BY <1>0
  <2> HIDE DEF j
  <2>2. /\ Joined(v, w, j) \in Seq(Ids) /\ Len(Joined(v, w, j)) = Len(v) + (Len(w) - j + 1)
        /\ \A k \in 1 .. Len(v) : Joined(v, w, j)[k] = v[k]
        /\ \A k \in 1 .. Len(w) - j + 1 : Joined(v, w, j)[Len(v) + k] = w[j + k - 1]
    BY <1>2, <2>1, JoinedPoints
  <2> QED BY <1>2, <2>2 DEF j
<1>5. w[i] = pair[1] /\ w[i + 1] = pair[2] /\ pair = <<pair[1], pair[2]>>
  BY DEF PairAt
<1> HIDE DEF n, l, x, y, id
<1>6. x[l + 1] = w[i] /\ x[l + 2] = w[i + 1]
  <2>1. 1 \in 1 .. n - i + 1 /\ 2 \in 1 .. n - i + 1 /\ i + 1 - 1 = i /\ i + 2 - 1 = i + 1
    BY <1>0
  <2> QED BY <1>3, <2>1
<1>7. PairAt(x, l + 1) = pair
  BY <1>0, <1>5, <1>6 DEF PairAt
<1>8. l + 1 \in Active(Merges, x)
  <2>1. l + 1 \in 1 .. Len(x) - 1
    BY <1>0, <1>3
  <2> QED BY <1>7, <2>1 DEF Active
<1>9. \A k \in Active(Merges, x) : rank(pair) <= rank(PairAt(x, k)) /\ (k <= l => PairAt(x, k) # pair)
  BY DEF Merged, x, l
<1>10. MergeOne(x) = y
  <2>1. \A k \in Active(Merges, x) : k \in Nat /\ (k < l + 1 => k <= l)
    BY <1>0, <1>3 DEF Active
  <2>2. MergeOne(x) = SubSeq(x, 1, l) \o <<id>> \o SubSeq(x, l + 3, Len(x))
    <3> DEFINE p == l + 1
    <3>1. p \in Active(Merges, x) /\ PairAt(x, p) = pair /\ p - 1 = l /\ p + 2 = l + 3
      BY <1>0, <1>7, <1>8
    <3>2. \A k \in Active(Merges, x) : Merges[PairAt(x, p)].rank <= Merges[PairAt(x, k)].rank
      BY <1>9, <3>1
    <3>3. \A k \in Active(Merges, x) : k < p => PairAt(x, k) # PairAt(x, p)
      BY <1>9, <2>1, <3>1
    <3> HIDE DEF p
    <3>4. MergeOne(x) = SubSeq(x, 1, p - 1) \o <<Merges[PairAt(x, p)].id>> \o SubSeq(x, p + 2, Len(x))
      BY <1>3, <3>1, <3>2, <3>3, FirstIsMerged
    <3> QED BY <3>1, <3>4 DEF id
  <2>3. SubSeq(x, 1, l) = u /\ SubSeq(x, l + 3, Len(x)) = SubSeq(w, i + 2, n)
    BY JoinedAround DEF x, l, n
  <2>4. y = v \o SubSeq(w, i + 2, n)
    BY DEF y, Joined, n
  <2> QED BY <2>2, <2>3, <2>4 DEF v
<1>11. ASSUME NEW k \in Active(Merges, y)
       PROVE  rank(pair) <= rank(PairAt(y, k)) /\ (k <= l + 1 => PairAt(y, k) # pair)
  <2>1. k \in 1 .. l + (n - i) - 1 /\ PairAt(y, k) \in DOMAIN Merges /\ k \in Nat
    <3>1. k \in 1 .. Len(y) - 1 /\ PairAt(y, k) \in DOMAIN Merges
      BY DEF Active
    <3> QED BY <1>0, <1>4, <3>1
  <2>2. CASE k < l
    <3>1. k \in 1 .. l /\ k + 1 \in 1 .. l /\ k \in 1 .. l + 1 /\ k + 1 \in 1 .. l + 1 /\ k \in 1 .. Len(x) - 1
      BY <1>0, <1>3, <2>1, <2>2
    <3>2. PairAt(y, k) = PairAt(x, k)
      BY <1>2, <1>3, <1>4, <3>1 DEF PairAt
    <3>3. k \in Active(Merges, x) /\ k <= l
      BY <2>1, <3>1, <3>2 DEF Active
    <3> QED BY <1>9, <3>2, <3>3
  <2>3. CASE k = l \/ k = l + 1
    <3>1. y[l + 1] = id
      <4>1. l + 1 \in 1 .. l + 1
        BY <1>0
      <4> QED BY <1>2, <1>4, <4>1
    <3>2. id \in {PairAt(y, k)[1], PairAt(y, k)[2]}
      BY <2>3, <3>1 DEF PairAt
    <3>3. rank(pair) < rank(PairAt(y, k)) /\ rank(pair) \in Nat /\ rank(PairAt(y, k)) \in Nat
      BY <2>1, <3>2, MadeEarlier DEF id
    <3> QED BY <3>3
  <2>4. CASE k > l + 1
    <3> DEFINE j == k - l
    <3>1. /\ j \in Nat /\ j \in 1 .. n - i + 1 /\ j + 1 \in 1 .. n - i + 1 /\ j + 2 \in 1 .. n - i + 1
          /\ j - 1 \in 1 .. n - (i + 2) + 1 /\ j \in 1 .. n - (i + 2) + 1
          /\ k = l + j /\ (l + 1) + (j - 1) = k /\ (l + 1) + j = k + 1
          /\ l + (j + 1) = k + 1 /\ l + (j + 2) = k + 2
          /\ (i + 2) + (j - 1) - 1 = i + j /\ (i + 2) + j - 1 = i + j + 1
          /\ i + (j + 1) - 1 = i + j /\ i + (j + 2) - 1 = i + j + 1
          /\ k + 1 \in 1 .. Len(x) - 1 /\ (k + 1) + 1 = k + 2
      BY <1>0, <1>3, <2>1, <2>4
    <3> HIDE DEF j
    <3>2. y[k] = w[i + j] /\ y[k + 1] = w[i + j + 1]
      <4>1. y[(l + 1) + (j - 1)] = w[(i + 2) + (j - 1) - 1]
        BY <1>4, <3>1
      <4>2. y[(l + 1) + j] = w[(i + 2) + j - 1]
        BY <1>4, <3>1
      <4> QED BY <3>1, <4>1, <4>2
    <3>3. x[k + 1] = w[i + j] /\ x[k + 2] = w[i + j + 1]
      BY <1>3, <3>1
    <3>4. PairAt(y, k) = PairAt(x, k + 1)
      BY <3>1, <3>2, <3>3 DEF PairAt
    <3>5. k + 1 \in Active(Merges, x)
      BY <2>1, <3>1, <3>4 DEF Active
    <3>6. rank(pair) <= rank(PairAt(y, k)) /\ ~(k <= l + 1)
      BY <1>0, <1>9, <2>1, <2>4, <3>4, <3>5
    <3> QED BY <3>6
  <2> QED BY <1>0, <2>1, <2>2, <2>3, <2>4
<1>12. Merged(v, y, pair)
  BY <1>2, <1>11 DEF Merged
<1> QED BY <1>2, <1>10, <1>12 DEF x, y, v, id

(* Where the pair is not, nothing changes.                                 *)
LEMMA PairIsPassed ==
  ASSUME NEW pair, NEW u \in Seq(Ids), NEW w \in Seq(Ids), NEW i \in 1 .. Len(w),
         ~(i < Len(w) /\ PairAt(w, i) = pair), Merged(u, Joined(u, w, i), pair)
  PROVE  LET v == u \o <<w[i]>>
         IN  Joined(v, w, i + 1) = Joined(u, w, i) /\ v \in Seq(Ids) /\ Merged(v, Joined(v, w, i + 1), pair)
<1> DEFINE n == Len(w)
<1> DEFINE l == Len(u)
<1> DEFINE x == Joined(u, w, i)
<1> DEFINE v == u \o <<w[i]>>
<1>0. n \in Nat /\ l \in Nat /\ i \in Nat /\ i >= 1 /\ i <= n /\ i \in 1 .. Len(w) + 1 /\ w[i] \in Ids
  OBVIOUS
<1>1. v \in Seq(Ids) /\ Len(v) = l + 1
  BY <1>0
<1>2. Joined(v, w, i + 1) = x
  <2>1. SubSeq(w, i, n) = <<w[i]>> \o SubSeq(w, i + 1, n)
    <3>1. i \in 1 .. Len(w) /\ n \in i .. Len(w)
      BY <1>0
    <3> QED BY <3>1, SubSeqRecursiveFirst
  <2>2. SubSeq(w, i + 1, n) \in Seq(Ids)
    <3> DEFINE j == i + 1
    <3>1. j \in 1 .. Len(w) + 1 /\ n \in j - 1 .. Len(w)
      BY <1>0
    <3> HIDE DEF j
    <3>2. SubSeq(w, j, n) \in Seq(Ids)
      BY <3>1, SubSeqPoints
    <3> QED BY <3>2 DEF j
  <2> DEFINE e == SubSeq(w, i + 1, n)
  <2>3. x = u \o (<<w[i]>> \o e) /\ Joined(v, w, i + 1) = (u \o <<w[i]>>) \o e /\ e \in Seq(Ids) /\ <<w[i]>> \in Seq(Ids)
    BY <1>0, <2>1, <2>2 DEF Joined
  <2> HIDE DEF e
  <2> DEFINE c == <<w[i]>>
  <2>4. c \in Seq(Ids)
    BY <2>3
  <2> HIDE DEF c
  <2>5. (u \o c) \o e = u \o (c \o e)
    <3>1. u \in Seq(Ids) /\ c \in Seq(Ids) /\ e \in Seq(Ids)
      BY <2>3, <2>4
    <3> QED BY ONLY <3>1, IdsAssociate, SMTT(30)
  <2> QED BY <2>3, <2>5 DEF c
<1>3. /\ Len(x) = l + (n - i + 1)
      /\ \A k \in 1 .. n - i + 1 : x[l + k] = w[i + k - 1]
  BY <1>0, JoinedPoints
<1> HIDE DEF v, x, n, l
<1>4. ASSUME NEW k \in Active(Merges, x), k <= l + 1 PROVE PairAt(x, k) # pair
  <2>1. k \in 1 .. Len(x) - 1
    BY DEF Active
  <2>2. CASE k <= l
    BY <2>2 DEF Merged, x, l
  <2>3. CASE k = l + 1
    <3>1. i < n /\ 1 \in 1 .. n - i + 1 /\ 2 \in 1 .. n - i + 1 /\ i + 1 - 1 = i /\ i + 2 - 1 = i + 1 /\ k + 1 = l + 2
      BY <1>0, <1>3, <2>1, <2>3
    <3>2. x[l + 1] = w[i] /\ x[l + 2] = w[i + 1]
      BY <1>3, <3>1
    <3>3. PairAt(x, k) = PairAt(w, i)
      BY <2>3, <3>1, <3>2 DEF PairAt
    <3> QED BY <3>1, <3>3 DEF n
  <2> QED BY <1>0, <1>4, <2>1, <2>2, <2>3
<1>5. Merged(v, x, pair)
  BY <1>1, <1>4 DEF Merged, x
<1> QED BY <1>1, <1>2, <1>5 DEF v, x

(* A turn of bpe comes to what MergeOne comes to from its next list on.    *)
LEMMA TurnIsSteps ==
  ASSUME LinesInOrder, NEW w \in Seq(Ids), Active(Merges, w) # {},
         NEW O, MergeOne(w) \in O, \A x \in O : MergeOne(x) \in O
  PROVE  MergeOnce(Merges, w) \in O
<1> DEFINE n == Len(w)
<1>0. n \in Nat /\ Merges \in Tables
  BY MergesAreRead
<1>1. \E pair, from : Turn(Merges, w, pair, from)
  BY <1>0, TurnIsTaken
<1>2. PICK pair, from : Turn(Merges, w, pair, from)
  BY <1>1
<1>3. /\ pair \in DOMAIN Merges \cap (Ids \X Ids)
      /\ \E k \in Active(Merges, w) : PairAt(w, k) = pair
      /\ \A k \in Active(Merges, w) : Merges[pair].rank <= Merges[PairAt(w, k)].rank
      /\ MergeOnce(Merges, w) = from[1]
      /\ from[n + 1] = <<>>
      /\ \A i \in 1 .. n :
           IF i < n /\ PairAt(w, i) = pair
           THEN i + 2 \in 1 .. n + 1 /\ from[i] = <<Merges[pair].id>> \o from[i + 2]
           ELSE from[i] = <<w[i]>> \o from[i + 1]
  BY <1>2 DEF Turn
<1> DEFINE hits(i) == \E j \in i .. n - 1 : PairAt(w, j) = pair
<1> DEFINE ahead(x, i) == x \in O \/ (x = w /\ hits(i))
<1> DEFINE S == {i \in Nat : /\ from[i] \in Seq(Ids)
                            /\ \A u \in Seq(Ids) :
                                 Merged(u, Joined(u, w, i), pair) /\ ahead(Joined(u, w, i), i)
                                   => u \o from[i] \in O}
<1>4. n + 1 \in S
  <2>1. \A u \in Seq(Ids) : Joined(u, w, n + 1) = u /\ u \o <<>> = u
    <3> SUFFICES ASSUME NEW u \in Seq(Ids) PROVE Joined(u, w, n + 1) = u /\ u \o <<>> = u
      OBVIOUS
    <3>1. SubSeq(w, n + 1, n) = <<>>
      BY <1>0, SubSeqEmpty
    <3>2. u \o <<>> = u
      BY ConcatEmptySeq
    <3> QED BY <3>1, <3>2 DEF Joined
  <2>2. ~hits(n + 1) /\ n + 1 \in Nat /\ <<>> \in Seq(Ids)
    BY <1>0
  <2> HIDE DEF n, hits
  <2> QED BY <1>3, <2>1, <2>2
<1>5. ASSUME NEW i \in 1 .. n, \A q \in i + 1 .. n + 1 : q \in S PROVE i \in S
  <2>1. CASE i < n /\ PairAt(w, i) = pair
    <3> DEFINE id == Merges[pair].id
    <3>1. from[i] = <<id>> \o from[i + 2] /\ i + 2 \in i + 1 .. n + 1 /\ i + 2 \in S
      <4>1. from[i] = <<id>> \o from[i + 2] /\ i + 2 \in i + 1 .. n + 1
        <5>1. from[i] = <<id>> \o from[i + 2] /\ i + 2 \in 1 .. n + 1
          BY <1>3, <2>1
        <5> HIDE DEF n
        <5> QED BY <1>0, <5>1
      <4> HIDE DEF S, id
      <4> QED BY <1>5, <4>1
    <3>2. from[i + 2] \in Seq(Ids) /\ \A u \in Seq(Ids) :
            Merged(u, Joined(u, w, i + 2), pair) /\ ahead(Joined(u, w, i + 2), i + 2) => u \o from[i + 2] \in O
      BY <3>1
    <3>3. id \in Ids /\ i \in Nat /\ i \in 1 .. Len(w) - 1
      <4>1. id \in Ids
        BY <1>3, MergesAreRead DEF Tables, Joins
      <4> QED BY <1>0, <2>1, <4>1
    <3> HIDE DEF id, n, S
    <3>4. from[i] \in Seq(Ids)
      BY <3>1, <3>2, <3>3
    <3>5. ASSUME NEW u \in Seq(Ids), Merged(u, Joined(u, w, i), pair), ahead(Joined(u, w, i), i)
          PROVE  u \o from[i] \in O
      <4> DEFINE v == u \o <<id>>
      <4>1. /\ MergeOne(Joined(u, w, i)) = Joined(v, w, i + 2)
            /\ v \in Seq(Ids) /\ Merged(v, Joined(v, w, i + 2), pair)
        BY <1>3, <2>1, <3>3, <3>5, PairIsMerged DEF id
      <4>2. Joined(v, w, i + 2) \in O
        BY <3>5, <4>1
      <4> HIDE DEF v
      <4>3. v \o from[i + 2] \in O
        BY <3>2, <4>1, <4>2
      <4>4. u \o (<<id>> \o from[i + 2]) = (u \o <<id>>) \o from[i + 2]
        <5> DEFINE c == <<id>>
        <5> DEFINE e == from[i + 2]
        <5>1. c \in Seq(Ids) /\ e \in Seq(Ids)
          BY <3>2, <3>3
        <5> HIDE DEF c, e
        <5>2. (u \o c) \o e = u \o (c \o e)
          BY <5>1, IdsAssociate
        <5> QED BY <5>2 DEF c, e
      <4> QED BY <3>1, <4>3, <4>4 DEF v
    <3> HIDE DEF hits
    <3> QED BY <3>3, <3>4, <3>5 DEF S
  <2>2. CASE ~(i < n /\ PairAt(w, i) = pair)
    <3>1. from[i] = <<w[i]>> \o from[i + 1] /\ i + 1 \in i + 1 .. n + 1 /\ i + 1 \in S
      <4>1. from[i] = <<w[i]>> \o from[i + 1]
        BY <1>3, <2>2
      <4>2. i + 1 \in i + 1 .. n + 1
        BY <1>0
      <4> HIDE DEF S
      <4> QED BY <1>5, <4>1, <4>2
    <3>2. from[i + 1] \in Seq(Ids) /\ \A u \in Seq(Ids) :
            Merged(u, Joined(u, w, i + 1), pair) /\ ahead(Joined(u, w, i + 1), i + 1) => u \o from[i + 1] \in O
      BY <3>1
    <3>3. w[i] \in Ids /\ i \in Nat
      BY <1>0
    <3>4. from[i] \in Seq(Ids)
      <4> HIDE DEF n, S
      <4> QED BY <3>1, <3>2, <3>3
    <3>5. hits(i) => hits(i + 1)
      <4> SUFFICES ASSUME NEW j \in i .. n - 1, PairAt(w, j) = pair PROVE hits(i + 1)
        OBVIOUS
      <4>1. j # i
        BY <1>0, <2>2
      <4>2. j \in i + 1 .. n - 1
        BY <1>0, <4>1
      <4> QED BY <4>2
    <3>6. ASSUME NEW u \in Seq(Ids), Merged(u, Joined(u, w, i), pair), ahead(Joined(u, w, i), i)
          PROVE  u \o from[i] \in O
      <4> DEFINE v == u \o <<w[i]>>
      <4>1. Joined(v, w, i + 1) = Joined(u, w, i) /\ v \in Seq(Ids) /\ Merged(v, Joined(v, w, i + 1), pair)
        BY <2>2, <3>6, PairIsPassed
      <4> HIDE DEF v, S, n, hits
      <4>2. v \o from[i + 1] \in O
        BY <3>2, <3>5, <3>6, <4>1
      <4>3. u \o (<<w[i]>> \o from[i + 1]) = (u \o <<w[i]>>) \o from[i + 1]
        <5> DEFINE c == <<w[i]>>
        <5> DEFINE e == from[i + 1]
        <5>1. c \in Seq(Ids) /\ e \in Seq(Ids)
          BY <3>2, <3>3
        <5> HIDE DEF c, e
        <5>2. (u \o c) \o e = u \o (c \o e)
          BY <5>1, IdsAssociate
        <5> QED BY <5>2 DEF c, e
      <4> QED BY <3>1, <4>2, <4>3 DEF v
    <3> HIDE DEF hits, n
    <3> QED BY <3>3, <3>4, <3>6
  <2> QED BY <2>1, <2>2
<1>6. 1 \in S
  <2> HIDE DEF n, S
  <2> QED BY <1>0, <1>4, <1>5, FromTheEnd
<1>7. Joined(<<>>, w, 1) = w
  <2>1. SubSeq(w, 1, n) = w
    BY <1>0, SubSeqFull
  <2> QED BY <2>1, ConcatEmptySeq DEF Joined
<1>8. Merged(<<>>, w, pair)
  <2>1. \A k \in Active(Merges, w) : k >= 1
    BY DEF Active
  <2>2. Len(<<>>) = 0
    OBVIOUS
  <2>3. \A k \in Active(Merges, w) : k \in Nat
    BY <1>0 DEF Active
  <2> QED BY <1>3, <2>1, <2>2, <2>3 DEF Merged
<1>9. hits(1)
  <2>1. PICK k \in Active(Merges, w) : PairAt(w, k) = pair
    BY <1>3
  <2>2. k \in 1 .. n - 1
    BY DEF Active
  <2> QED BY <2>1, <2>2
<1>10. <<>> \in Seq(Ids) /\ ahead(Joined(<<>>, w, 1), 1) /\ Merged(<<>>, Joined(<<>>, w, 1), pair)
  <2> HIDE DEF hits
  <2> QED BY <1>7, <1>8, <1>9
<1>11. <<>> \o from[1] \in O /\ from[1] \in Seq(Ids)
  <2> HIDE DEF hits, n
  <2> QED BY <1>6, <1>10
<1>12. <<>> \o from[1] = from[1]
  BY <1>11, ConcatEmptySeq
<1> QED BY <1>3, <1>11, <1>12

(* Merging one pair at a time: the function one of MergesByRank.           *)
Ones(n, vals) ==
  LET one[k \in 0 .. n] == IF k = 0 THEN vals ELSE MergeOne(one[k - 1]) IN one

MergesOnes(one, n, vals) ==
  /\ one \in [0 .. n -> Seq(Ids)] /\ one[0] = vals
  /\ \A k \in 1 .. n : one[k] = MergeOne(one[k - 1])

LEMMA OnesRun ==
  ASSUME NEW n \in Nat, NEW vals \in Seq(Ids)
  PROVE  MergesOnes(Ones(n, vals), n, vals)
<1> DEFINE one == Ones(n, vals)
<1> DEFINE V == Seq(Ids)
<1> DEFINE F == [v \in V |-> MergeOne(v)]
<1> DEFINE body(f) == [k \in 0 .. n |-> IF k = 0 THEN vals ELSE MergeOne(f[k - 1])]
<1>0. vals \in V /\ \A k \in 1 .. n : k - 1 \in 0 .. n /\ k \in 0 .. n /\ k # 0
  OBVIOUS
<1>1. F \in [V -> V] /\ \A v \in V : F[v] = MergeOne(v)
  BY OneIsMerged
<1> HIDE DEF F, V
<1>2. PICK g \in [0 .. n -> V] : g[0] = vals /\ \A k \in 1 .. n : g[k] = F[g[k - 1]]
  <2> HIDE DEF body
  <2>1. vals \in Seq(Ids) /\ F \in [Seq(Ids) -> Seq(Ids)]
    BY <1>0, <1>1 DEF V
  <2>2. \E g \in [0 .. n -> Seq(Ids)] : g[0] = vals /\ \A k \in 1 .. n : g[k] = F[g[k - 1]]
    BY ONLY n \in Nat, <2>1, Repeats
  <2> QED BY <2>2 DEF V
<1>3. g = body(g)
  <2>1. ASSUME NEW k \in 0 .. n PROVE g[k] = body(g)[k]
    <3>1. CASE k = 0
      BY <1>2, <3>1
    <3>2. CASE k # 0
      <4>1. k \in 1 .. n /\ k - 1 \in 0 .. n
        BY <1>0, <3>2
      <4>2. g[k] = MergeOne(g[k - 1])
        BY <1>1, <1>2, <4>1
      <4> QED BY <3>2, <4>2
    <3> QED BY <3>1, <3>2
  <2>2. g = [k \in 0 .. n |-> g[k]]
    OBVIOUS
  <2>3. body(g) = [k \in 0 .. n |-> body(g)[k]]
    OBVIOUS
  <2> HIDE DEF body
  <2> QED BY <2>1, <2>2, <2>3
<1>4. one = body(one)
  <2>1. one = CHOOSE f : f = body(f)
    BY DEF Ones
  <2> HIDE DEF body, one
  <2> QED BY <1>3, <2>1
<1> HIDE DEF one
<1>5. one[0] = vals /\ \A k \in 1 .. n : one[k] = MergeOne(one[k - 1])
  <2>1. body(one)[0] = vals
    OBVIOUS
  <2>2. ASSUME NEW k \in 1 .. n PROVE body(one)[k] = MergeOne(one[k - 1])
    BY <1>0
  <2> HIDE DEF body
  <2> QED BY <1>4, <2>1, <2>2
<1> DEFINE S == {k \in Nat : one[k] \in V}
<1>6. 0 \in S
  BY <1>0, <1>5
<1>7. ASSUME NEW k \in 0 .. n - 1, k \in S PROVE k + 1 \in S
  <2>1. k + 1 \in 1 .. n /\ (k + 1) - 1 = k /\ k + 1 \in Nat
    OBVIOUS
  <2>2. one[k + 1] = MergeOne(one[k]) /\ one[k] \in V
    BY <1>5, <1>7, <2>1
  <2>3. MergeOne(one[k]) \in V
    BY <1>1, <2>2
  <2> QED BY <2>1, <2>2, <2>3
<1>8. \A k \in 0 .. n : one[k] \in V
  <2> HIDE DEF S
  <2>1. \A k \in 0 .. n : k \in S
    BY <1>6, <1>7, UpTo
  <2> QED BY <2>1 DEF S
<1>9. one \in [0 .. n -> V]
  <2>1. body(one) = [k \in 0 .. n |-> body(one)[k]]
    OBVIOUS
  <2> HIDE DEF body
  <2>2. one = [k \in 0 .. n |-> one[k]]
    BY <1>4, <2>1
  <2> QED BY <1>8, <2>2
<1> QED BY <1>5, <1>9 DEF V, one, MergesOnes

(* The pairs are merged after as many steps as there are characters, and   *)
(* from a list without pairs on nothing is merged any more.                *)
LEMMA OnesEnd ==
  ASSUME NEW n \in Nat, NEW one \in [0 .. n -> Seq(Ids)], Len(one[0]) <= n,
         \A k \in 1 .. n : one[k] = MergeOne(one[k - 1])
  PROVE  /\ Active(Merges, one[n]) = {}
         /\ \A k \in 0 .. n : Active(Merges, one[k]) = {} => one[n] = one[k]
<1> DEFINE done(k) == Active(Merges, one[k]) = {}
<1>1. \A k \in 0 .. n : one[k] \in Seq(Ids) /\ Len(one[k]) \in Nat
  OBVIOUS
<1>2. ASSUME NEW k \in 0 .. n - 1
      PROVE  /\ done(k) => one[k + 1] = one[k]
             /\ ~done(k) => Len(one[k + 1]) = Len(one[k]) - 1
  <2>1. k + 1 \in 1 .. n /\ (k + 1) - 1 = k /\ k \in 0 .. n
    OBVIOUS
  <2>2. one[k + 1] = MergeOne(one[k]) /\ one[k] \in Seq(Ids)
    BY <1>1, <2>1
  <2> QED BY <2>2, OneIsMerged
<1> DEFINE S == {k \in Nat : done(k) \/ Len(one[k]) <= n - k}
<1>3. 0 \in S
  OBVIOUS
<1>4. ASSUME NEW k \in 0 .. n - 1, k \in S PROVE k + 1 \in S
  <2>0. k + 1 \in Nat
    OBVIOUS
  <2>1. CASE done(k)
    <3>1. done(k + 1)
      BY <1>2, <2>1
    <3> QED BY <2>0, <3>1
  <2>2. CASE ~done(k)
    <3>1. Len(one[k]) <= n - k /\ Len(one[k + 1]) = Len(one[k]) - 1
      BY <1>2, <1>4, <2>2
    <3>2. Len(one[k]) \in Nat
      BY <1>1
    <3> HIDE DEF done
    <3> QED BY <3>1, <3>2
  <2> QED BY <2>1, <2>2
<1>5. \A k \in 0 .. n : k \in S
  <2> HIDE DEF S
  <2> QED BY <1>3, <1>4, UpTo
<1>6. done(n)
  <2>1. n \in S /\ Len(one[n]) \in Nat
    BY <1>1, <1>5
  <2>2. CASE Len(one[n]) <= n - n
    <3>1. 1 .. Len(one[n]) - 1 = {}
      BY <2>1, <2>2
    <3> QED BY <3>1 DEF Active
  <2> QED BY <2>1, <2>2
<1>7. ASSUME NEW j \in 0 .. n, done(j) PROVE one[n] = one[j]
  <2> DEFINE T == {k \in Nat : k >= j => one[k] = one[j]}
  <2>1. 0 \in T
    <3>1. 0 >= j => j = 0
      OBVIOUS
    <3> QED BY <3>1
  <2>2. ASSUME NEW k \in 0 .. n - 1, k \in T PROVE k + 1 \in T
    <3>1. CASE k >= j
      <4>1. one[k] = one[j]
        BY <2>2, <3>1
      <4>2. done(k)
        BY <1>7, <4>1
      <4> QED BY <1>2, <4>1, <4>2
    <3>2. CASE k + 1 = j
      BY <3>2
    <3>3. CASE k + 1 < j
      BY <3>3
    <3> QED BY <3>1, <3>2, <3>3
  <2>3. \A k \in 0 .. n : k \in T
    <3> HIDE DEF T
    <3> QED BY <2>1, <2>2, UpTo
  <2> QED BY <2>3
<1> QED BY <1>6, <1>7

(* A turn of bpe is one or more of the steps.                              *)
LEMMA TurnsAreOnes ==
  ASSUME LinesInOrder, NEW n \in Nat, NEW one \in [0 .. n -> Seq(Ids)],
         NEW turn \in [0 .. n -> Seq(Ids)], Len(one[0]) <= n, turn[0] = one[0],
         \A k \in 1 .. n : one[k] = MergeOne(one[k - 1]) /\ turn[k] = MergeOnce(Merges, turn[k - 1])
  PROVE  turn[n] = one[n]
<1>1. /\ Active(Merges, one[n]) = {}
      /\ \A k \in 0 .. n : Active(Merges, one[k]) = {} => one[n] = one[k]
  BY OnesEnd
<1>2. MergeOne(one[n]) = one[n]
  <2>1. one[n] \in Seq(Ids)
    OBVIOUS
  <2> QED BY <1>1, <2>1, OneIsMerged
<1> DEFINE from(k) == {one[j] : j \in k .. n}
<1> DEFINE S == {k \in Nat : turn[k] \in from(k)}
<1>3. 0 \in S
  OBVIOUS
<1>4. ASSUME NEW k \in 0 .. n - 1, k \in S PROVE k + 1 \in S
  <2>1. PICK j \in k .. n : turn[k] = one[j]
    BY <1>4
  <2>2. /\ k + 1 \in 1 .. n /\ (k + 1) - 1 = k /\ k + 1 \in Nat /\ n \in k + 1 .. n
        /\ j \in 0 .. n
    OBVIOUS
  <2>3. turn[k + 1] = MergeOnce(Merges, one[j]) /\ one[j] \in Seq(Ids)
    <3>1. turn[k + 1] = MergeOnce(Merges, turn[(k + 1) - 1])
      BY <2>2
    <3> QED BY <2>1, <2>2, <3>1
  <2>4. CASE Active(Merges, one[j]) = {}
    <3>1. MergeOnce(Merges, one[j]) = one[j]
      BY <2>3, <2>4, TurnIsTaken, MergesAreRead
    <3>2. one[n] = one[j]
      BY <1>1, <2>2, <2>4
    <3>3. turn[k + 1] = one[n]
      BY <2>3, <3>1, <3>2
    <3> QED BY <2>2, <3>3
  <2>5. CASE Active(Merges, one[j]) # {}
    <3>1. j \in 0 .. n - 1
      <4>1. j # n
        BY <1>1, <2>5
      <4> QED BY <4>1, <2>2
    <3> DEFINE O == from(j + 1)
    <3>2. MergeOne(one[j]) \in O
      <4>1. j + 1 \in 1 .. n /\ (j + 1) - 1 = j /\ j + 1 \in j + 1 .. n
        BY <3>1
      <4>2. one[j + 1] = MergeOne(one[j])
        BY <4>1
      <4> QED BY <4>1, <4>2
    <3>3. ASSUME NEW x \in O PROVE MergeOne(x) \in O
      <4>1. PICK q \in j + 1 .. n : x = one[q]
        OBVIOUS
      <4>2. CASE q = n
        BY <1>2, <4>1, <4>2
      <4>3. CASE q # n
        <5>1. q + 1 \in 1 .. n /\ (q + 1) - 1 = q /\ q + 1 \in j + 1 .. n
          BY <3>1, <4>3
        <5>2. one[q + 1] = MergeOne(one[q])
          BY <5>1
        <5> QED BY <4>1, <5>1, <5>2
      <4> QED BY <4>2, <4>3
    <3>4. MergeOnce(Merges, one[j]) \in O
      <4> DEFINE w == one[j]
      <4>1. w \in Seq(Ids) /\ Active(Merges, w) # {} /\ MergeOne(w) \in O
        BY <2>3, <2>5, <3>2
      <4> HIDE DEF O, w
      <4>2. MergeOnce(Merges, w) \in O
        BY <3>3, <4>1, TurnIsSteps
      <4> QED BY <4>2 DEF w
    <3>5. PICK q \in j + 1 .. n : turn[k + 1] = one[q]
      BY <2>3, <3>4
    <3>6. q \in k + 1 .. n
      BY <2>1, <3>1
    <3> QED BY <2>2, <3>5, <3>6
  <2> QED BY <2>4, <2>5
<1>5. n \in S
  <2>1. \A k \in 0 .. n : k \in S
    <3> HIDE DEF S
    <3> QED BY <1>3, <1>4, UpTo
  <2> QED BY <2>1
<1>6. PICK j \in n .. n : turn[n] = one[j]
  BY <1>5
<1>7. j = n
  OBVIOUS
<1> QED BY <1>6, <1>7

(***************************************************************************)
(* If the lines of the merges stand in the order in which a token is made  *)
(* and merged, then the turns of bpe (GPT2Tokenizer::bpe), each of which   *)
(* merges every occurrence of a pair, come to what merging one pair at a   *)
(* time comes to, the first of the lowest rank, whatever the text is.      *)
(***************************************************************************)
THEOREM MergesGoByRank == ASSUME LinesInOrder PROVE Spec => []MergesByRank
<1>1. ASSUME TextTyped PROVE MergesByRank
  <2>0. text \in Seq(Alphabet)
    BY <1>1 DEF TextTyped
  <2> DEFINE n == Len(text)
  <2> DEFINE vals == Bytes(text)
  <2> DEFINE one == Ones(n, vals)
  <2>1. n \in Nat /\ vals \in Seq(Ids) /\ Len(vals) = n
    <3>1. DOMAIN text = 1 .. n /\ n \in Nat
      BY <2>0
    <3>2. vals \in Seq(Ids)
      BY <2>0, BytesSpell
    <3>3. DOMAIN vals = 1 .. n
      BY <3>1 DEF Bytes
    <3> HIDE DEF n, vals
    <3> QED BY <3>1, <3>2, <3>3, LenProperties
  <2>2. MergesByRank <=> bpe(Merges, vals) = one[n]
    BY DEF MergesByRank, Ones
  <2> HIDE DEF one
  <2>3. /\ one \in [0 .. n -> Seq(Ids)] /\ one[0] = vals
        /\ \A k \in 1 .. n : one[k] = MergeOne(one[k - 1])
    <3> HIDE DEF n, vals
    <3>1. MergesOnes(Ones(n, vals), n, vals)
      BY <2>1, OnesRun
    <3> QED BY <3>1 DEF one, MergesOnes
  <2> HIDE DEF vals
  <2>4. PICK turn \in [0 .. n -> Seq(Ids)] :
          /\ bpe(Merges, vals) = turn[n] /\ turn[0] = vals
          /\ \A k \in 1 .. n : turn[k] = MergeOnce(Merges, turn[k - 1])
    BY <2>1, MergesAreRead, BpeRuns
  <2>5. turn[n] = one[n]
    <3> HIDE DEF n
    <3>1. n \in Nat /\ Len(one[0]) <= n /\ turn[0] = one[0]
      BY <2>1, <2>3, <2>4
    <3>2. \A k \in 1 .. n :
            one[k] = MergeOne(one[k - 1]) /\ turn[k] = MergeOnce(Merges, turn[k - 1])
      BY <2>3, <2>4
    <3> QED BY <2>3, <3>1, <3>2, TurnsAreOnes
  <2> QED BY <2>2, <2>4, <2>5
<1>2. TextTyped => MergesByRank
  BY <1>1
<1> QED BY <1>2, TextIsTyped, PTL

-----------------------------------------------------------------------------
(* What a string shows, character by character.                            *)
InkOf == [c \in CodePoints |-> IF c = Space THEN <<>> ELSE <<c>>]

LEMMA InkedAs ==
  ASSUME NEW s \in Seq(CodePoints)
  PROVE  Inked(s) = Replaced(InkOf, s)
<1>1. ASSUME NEW k \in DOMAIN s
      PROVE  InkOf[s[k]] = IF s[k] = Space THEN <<>> ELSE <<s[k]>>
  <2>1. s[k] \in CodePoints
    OBVIOUS
  <2> QED BY <2>1 DEF InkOf
<1>2. Mapped(InkOf, s) = [k \in DOMAIN s |-> IF s[k] = Space THEN <<>> ELSE <<s[k]>>]
  BY <1>1 DEF Mapped
<1> QED BY <1>2 DEF Replaced, Inked

(* What two strings show, one behind the other.                            *)
LEMMA InkedParts ==
  ASSUME NEW v \in Seq(CodePoints), NEW w \in Seq(CodePoints)
  PROVE  Inked(v \o w) = Inked(v) \o Inked(w) /\ Inked(v) \in Seq(CodePoints)
<1>1. InkOf \in [CodePoints -> Seq(CodePoints)]
  BY DEF InkOf
<1>2. v \o w \in Seq(CodePoints)
  OBVIOUS
<1>3. Replaced(InkOf, v \o w) = Replaced(InkOf, v) \o Replaced(InkOf, w)
  BY <1>1, ReplacedConcat
<1>4. Mapped(InkOf, v) \in Seq(Seq(CodePoints))
  BY <1>1, MappedType
<1>5. Replaced(InkOf, v) \in Seq(CodePoints)
  BY <1>4, FlattenType DEF Replaced
<1> QED BY <1>2, <1>3, <1>5, InkedAs

(* And three.                                                              *)
LEMMA InkedThree ==
  ASSUME NEW u \in Seq(CodePoints), NEW v \in Seq(CodePoints), NEW w \in Seq(CodePoints)
  PROVE  Inked((u \o v) \o w) = (Inked(u) \o Inked(v)) \o Inked(w)
<1>1. u \o v \in Seq(CodePoints)
  OBVIOUS
<1>2. Inked((u \o v) \o w) = Inked(u \o v) \o Inked(w)
  BY <1>1, InkedParts
<1>3. Inked(u \o v) = Inked(u) \o Inked(v)
  BY InkedParts
<1> QED BY <1>2, <1>3

(***************************************************************************)
(* replace_all puts what shows the same for what it finds, and leaves the  *)
(* rest as it is.                                                          *)
(***************************************************************************)
LEMMA ReplacementShows ==
  ASSUME NEW s \in Seq(CodePoints), NEW sub \in Seq(CodePoints), sub # <<>>,
         NEW by \in Seq(CodePoints), Inked(sub) = Inked(by)
  PROVE  ReplaceText(s, sub, by) \in Seq(CodePoints) /\ Inked(ReplaceText(s, sub, by)) = Inked(s)
<1> DEFINE n == Len(s)
<1> DEFINE m == Len(sub)
<1> DEFINE V == Seq(CodePoints)
<1> DEFINE next(p) == Find(s, sub, p)
<1> DEFINE body(f) == [p \in 1 .. n + 1 |->
        IF Find(s, sub, p) = 0 THEN SubSeq(s, p, Len(s))
        ELSE SubSeq(s, p, Find(s, sub, p) - 1) \o by \o f[Find(s, sub, p) + Len(sub)]]
<1> DEFINE rest == CHOOSE f : f = body(f)
<1>1. /\ n \in Nat /\ m \in Nat /\ m >= 1
      /\ \A k \in 1 .. n : s[k] \in CodePoints
  BY EmptySeq, LenProperties
<1>2. ReplaceText(s, sub, by) = rest[1]
  BY DEF ReplaceText
<1>3. ASSUME NEW p \in 1 .. n + 1
      PROVE  \/ next(p) = 0
             \/ /\ next(p) \in p .. n /\ next(p) + m <= n + 1
                /\ SubSeq(s, next(p), next(p) + m - 1) = sub
  <2>1. p \in 1 .. Len(s) + 1
    BY <1>1
  <2> HIDE DEF next
  <2>2. \/ next(p) = 0
        \/ next(p) \in p .. n /\ Occurs(s, sub, next(p))
    BY <1>1, <2>1, FindsFirst DEF next
  <2>3. next(p) \in p .. n /\ Occurs(s, sub, next(p)) =>
          next(p) + m <= n + 1 /\ SubSeq(s, next(p), next(p) + m - 1) = sub
    BY <1>1 DEF Occurs
  <2> QED BY <2>2, <2>3
<1> HIDE DEF next
<1>4. next(n + 1) = 0
  BY <1>1, <1>3
<1> DEFINE front(p) == SubSeq(s, p, next(p) - 1)
<1> DEFINE tail(p) == SubSeq(s, p, n)
<1>5. ASSUME NEW p \in 1 .. n PROVE tail(p) \in V /\ (next(p) # 0 => front(p) \in V)
  <2>1. tail(p) \in V
    BY <1>1, SubSeqProperties
  <2>2. ASSUME next(p) # 0 PROVE front(p) \in V
    <3>1. next(p) \in p .. n
      BY <1>3, <2>2
    <3>2. \A k \in p .. next(p) - 1 : s[k] \in CodePoints
      BY <1>1, <3>1
    <3> QED BY <1>1, <3>1, <3>2, SubSeqProperties
  <2> QED BY <2>1, <2>2
<1> DEFINE jump == [p \in 1 .. n |-> IF next(p) = 0 THEN n + 1 ELSE next(p) + m]
<1> DEFINE F == [p \in 1 .. n |-> [v \in V |->
        IF next(p) = 0 THEN tail(p) ELSE front(p) \o by \o v]]
<1>7. jump \in [1 .. n -> Nat] /\ \A p \in 1 .. n : p < jump[p] /\ jump[p] <= n + 1
  <2>1. ASSUME NEW p \in 1 .. n PROVE jump[p] \in Nat /\ p < jump[p] /\ jump[p] <= n + 1
    <3>1. \/ next(p) = 0
          \/ next(p) \in p .. n /\ next(p) + m <= n + 1
      BY <1>1, <1>3
    <3>2. jump[p] = IF next(p) = 0 THEN n + 1 ELSE next(p) + m
      OBVIOUS
    <3> HIDE DEF n, m, jump
    <3> QED BY <1>1, <3>1, <3>2
  <2>2. jump = [p \in 1 .. n |-> jump[p]]
    OBVIOUS
  <2> HIDE DEF jump, n
  <2> QED BY <2>1, <2>2
<1>8. \A p \in 1 .. n : jump[p] = IF next(p) = 0 THEN n + 1 ELSE next(p) + m
  OBVIOUS
<1> HIDE DEF jump
<1>9. ASSUME NEW p \in 1 .. n, NEW v \in V
      PROVE  /\ F[p][v] = IF next(p) = 0 THEN tail(p) ELSE front(p) \o by \o v
             /\ F[p][v] \in V
  <2>1. F[p][v] = IF next(p) = 0 THEN tail(p) ELSE front(p) \o by \o v
    OBVIOUS
  <2> HIDE DEF F, front, tail
  <2>2. CASE next(p) = 0
    BY <1>5, <2>1, <2>2
  <2>3. CASE next(p) # 0
    BY <1>5, <2>1, <2>3, ConcatProperties
  <2> QED BY <2>1, <2>2, <2>3
<1>10. PICK f : JumpRun(f, n, V, <<>>, F, jump)
  <2>1. Steps(F, V, 1 .. n)
    <3> HIDE DEF n, V, F
    <3> QED BY <1>9 DEF Steps
  <2>2. <<>> \in V
    OBVIOUS
  <2> HIDE DEF n, V, F
  <2> QED BY <1>1, <1>7, <2>1, <2>2, JumpRunExists
<1> HIDE DEF F
<1>11. f = body(f)
  <2>1. f \in [1 .. n + 1 -> V] /\ f[n + 1] = <<>>
    BY <1>10 DEF JumpRun
  <2>2. ASSUME NEW p \in 1 .. n + 1 PROVE f[p] = body(f)[p]
    <3>1. CASE p = n + 1
      <4>1. body(f)[p] = SubSeq(s, n + 1, n)
        BY <1>4, <3>1 DEF next
      <4>2. SubSeq(s, n + 1, n) = <<>>
        BY <1>1, SubSeqEmpty
      <4> HIDE DEF body
      <4> QED BY <2>1, <3>1, <4>1, <4>2
    <3>2. CASE p # n + 1
      <4>1. p \in 1 .. n
        BY <3>2, <1>1
      <4>2. f[p] = F[p][f[jump[p]]]
        BY <1>10, <4>1 DEF JumpRun
      <4>3. jump[p] \in 1 .. n + 1
        BY <1>7, <4>1
      <4>4. f[jump[p]] \in V
        BY <2>1, <4>3
      <4>5. f[p] = IF next(p) = 0 THEN tail(p) ELSE front(p) \o by \o f[jump[p]]
        BY <1>9, <4>1, <4>2, <4>4
      <4>6. body(f)[p] = IF next(p) = 0 THEN tail(p) ELSE front(p) \o by \o f[next(p) + m]
        BY <4>1 DEF next
      <4> HIDE DEF body, front, tail
      <4> QED BY <1>8, <4>1, <4>5, <4>6
    <3> QED BY <3>1, <3>2
  <2>3. f = [p \in 1 .. n + 1 |-> f[p]]
    BY <2>1
  <2>4. body(f) = [p \in 1 .. n + 1 |-> body(f)[p]]
    OBVIOUS
  <2> HIDE DEF body
  <2> QED BY <2>2, <2>3, <2>4
<1>12. rest = body(rest)
  <2> HIDE DEF body
  <2> QED BY <1>11
<1> HIDE DEF rest
<1>13. ASSUME NEW p \in 1 .. n + 1
       PROVE  rest[p] = IF next(p) = 0 THEN tail(p) ELSE front(p) \o by \o rest[next(p) + m]
  <2>2. body(rest)[p] = IF next(p) = 0 THEN tail(p) ELSE front(p) \o by \o rest[next(p) + m]
    BY DEF next
  <2> HIDE DEF body, front, tail
  <2> QED BY <1>12, <2>2
<1> HIDE DEF body
<1> DEFINE S == {p \in Nat : rest[p] \in V /\ Inked(rest[p]) = Inked(tail(p))}
<1>15. n + 1 \in S
  <2>1. tail(n + 1) = <<>>
    BY <1>1, SubSeqEmpty
  <2>2. n + 1 \in Nat /\ <<>> \in V /\ n + 1 \in 1 .. n + 1
    BY <1>1
  <2>3. rest[n + 1] = <<>>
    <3> HIDE DEF tail, front, n
    <3> QED BY <1>4, <1>13, <2>1, <2>2
  <2> HIDE DEF n, V, tail
  <2> QED BY <2>1, <2>2, <2>3
<1>16. ASSUME NEW p \in 1 .. n, \A q \in p + 1 .. n + 1 : q \in S PROVE p \in S
  <2>0. p \in Nat /\ p \in 1 .. n + 1
    BY <1>1
  <2>1. CASE next(p) = 0
    <3>1. rest[p] = tail(p)
      BY <1>13, <2>0, <2>1
    <3> HIDE DEF n, V, tail
    <3> QED BY <1>5, <2>0, <3>1
  <2>2. CASE next(p) # 0
    <3> DEFINE x == next(p)
    <3>1. x \in p .. n /\ x + m \in p + 1 .. n + 1 /\ x + m <= n + 1 /\ SubSeq(s, x, x + m - 1) = sub
      BY <1>1, <1>3, <2>0, <2>2
    <3>2. rest[x + m] \in V /\ Inked(rest[x + m]) = Inked(tail(x + m))
      BY <1>16, <3>1
    <3>3. rest[p] = (front(p) \o by) \o rest[x + m]
      BY <1>13, <2>0, <2>2
    <3>4. front(p) \in V
      BY <1>5, <2>2
    <3>5. tail(x + m) \in V
      <4>1. \A k \in x + m .. n : s[k] \in CodePoints
        BY <1>1, <3>1
      <4> QED BY <1>1, <3>1, <4>1, SubSeqProperties
    <3>6. (front(p) \o by) \in V /\ rest[p] \in V /\ (front(p) \o sub) \in V
      <4> HIDE DEF front
      <4> QED BY <3>2, <3>3, <3>4, ConcatProperties
    <3>7. front(p) \o sub = SubSeq(s, p, x + m - 1)
      <4> DEFINE k == x - 1
      <4> DEFINE j == x + m - 1
      <4>1. p \in 1 .. Len(s) + 1 /\ k \in p - 1 .. Len(s) /\ j \in k .. Len(s) /\ k + 1 = x
        BY <1>1, <3>1
      <4> HIDE DEF k, j
      <4>2. SubSeq(s, p, k) \o SubSeq(s, k + 1, j) = SubSeq(s, p, j)
        BY <4>1, ConcatAdjacentSubSeq
      <4> QED BY <3>1, <4>1, <4>2 DEF k, j
    <3>8. (front(p) \o sub) \o tail(x + m) = tail(p)
      <4> DEFINE k == x + m - 1
      <4>1. p \in 1 .. Len(s) + 1 /\ k \in p - 1 .. Len(s) /\ n \in k .. Len(s) /\ k + 1 = x + m
        BY <1>1, <3>1
      <4> HIDE DEF k
      <4>2. SubSeq(s, p, k) \o SubSeq(s, k + 1, n) = SubSeq(s, p, n)
        BY <4>1, ConcatAdjacentSubSeq
      <4> HIDE DEF front
      <4> QED BY <3>7, <4>1, <4>2 DEF k
    <3> HIDE DEF x, front, tail, n, V
    <3>9. Inked(rest[p]) = (Inked(front(p)) \o Inked(by)) \o Inked(rest[x + m])
      <4>1. front(p) \in Seq(CodePoints) /\ rest[x + m] \in Seq(CodePoints)
        BY <3>2, <3>4 DEF V
      <4>2. Inked((front(p) \o by) \o rest[x + m]) = (Inked(front(p)) \o Inked(by)) \o Inked(rest[x + m])
        BY <4>1, InkedThree
      <4> QED BY <3>3, <4>2
    <3>10. Inked(tail(p)) = (Inked(front(p)) \o Inked(sub)) \o Inked(tail(x + m))
      <4>1. front(p) \in Seq(CodePoints) /\ tail(x + m) \in Seq(CodePoints)
        BY <3>4, <3>5 DEF V
      <4>2. Inked((front(p) \o sub) \o tail(x + m)) = (Inked(front(p)) \o Inked(sub)) \o Inked(tail(x + m))
        BY <4>1, InkedThree
      <4> QED BY <3>8, <4>2
    <3>11. Inked(rest[p]) = Inked(tail(p))
      BY <3>2, <3>9, <3>10
    <3> QED BY <2>0, <3>6, <3>11
  <2> QED BY <2>1, <2>2
<1>17. 1 \in S
  <2> HIDE DEF n, S
  <2> QED BY <1>1, <1>15, <1>16, FromTheEnd
<1>18. tail(1) = s
  BY <1>1, SubSeqFull
<1> QED BY <1>2, <1>17, <1>18

(* CleanUpTokenization shows what was there.                               *)
LEMMA CleaningShows ==
  ASSUME NEW str \in Seq(CodePoints)
  PROVE  Inked(CleanUpTokenization(str)) = Inked(str)
<1> DEFINE n == Len(CleanUps)
<1> DEFINE op(t, pair) == ReplaceText(t, pair[1], pair[2])
<1> DEFINE V == {u \in Seq(CodePoints) : Inked(u) = Inked(str)}
<1> DEFINE base == str
<1> DEFINE seq == CleanUps
<1> DEFINE F == [k \in 1 .. n |-> [v \in V |-> op(v, seq[k])]]
<1>0. n \in Nat /\ DOMAIN seq = 1 .. n
  BY BertTokensAssumption
<1>1. base \in V
  OBVIOUS
<1>2. \A k \in 1 .. n : \A v \in V : F[k][v] = op(v, seq[k])
  OBVIOUS
<1>4. ASSUME NEW k \in 1 .. n, NEW v \in V PROVE op(v, seq[k]) \in V
  <2>1. /\ CleanUps[k] \in Seq(CodePoints) \X Seq(CodePoints)
        /\ CleanUps[k][1] # <<>> /\ Inked(CleanUps[k][1]) = Inked(CleanUps[k][2])
    <3>1. k \in DOMAIN CleanUps
      BY <1>0
    <3>2. CleanUps[k] \in Seq(CodePoints) \X Seq(CodePoints)
      BY <3>1, BertTokensAssumption
    <3>3. CleanUps[k][1] # <<>> /\ Inked(CleanUps[k][1]) = Inked(CleanUps[k][2])
      BY <3>1, BertTokensAssumption, Zenon
    <3> QED BY <3>2, <3>3
  <2>2. CleanUps[k][1] \in Seq(CodePoints) /\ CleanUps[k][2] \in Seq(CodePoints)
    BY <2>1
  <2>3. v \in Seq(CodePoints) /\ Inked(v) = Inked(str)
    OBVIOUS
  <2>4. /\ ReplaceText(v, CleanUps[k][1], CleanUps[k][2]) \in Seq(CodePoints)
        /\ Inked(ReplaceText(v, CleanUps[k][1], CleanUps[k][2])) = Inked(v)
    BY <2>1, <2>2, <2>3, ReplacementShows
  <2> QED BY <2>3, <2>4
<1> HIDE DEF F
<1>5. Steps(F, V, 1 .. n)
  <2> HIDE DEF op, V, seq
  <2> QED BY <1>2, <1>4 DEF Steps
<1>6. \E it : it = [s \in SUBSET (1 .. n) |->
                     IF s = {} THEN base ELSE op(it[s \ {Max(s)}], seq[Max(s)])]
  <2>1. PICK it : LeftIteration(it, n, V, base, F)
    <3> HIDE DEF op, V, seq, base, n
    <3> QED BY <1>0, <1>1, <1>5, LeftIterationExists
  <2>2. ASSUME NEW s \in SUBSET (1 .. n), s # {}
        PROVE  it[s] = op(it[s \ {Max(s)}], seq[Max(s)])
    <3>1. Max(s) \in 1 .. n /\ it[s \ {Max(s)}] \in V /\ it[s] = F[Max(s)][it[s \ {Max(s)}]]
      BY <2>1, <2>2 DEF LeftIteration
    <3> HIDE DEF V, op, seq
    <3> QED BY <1>2, <3>1
  <2>3. it \in [SUBSET (1 .. n) -> V] /\ it[{}] = base
    BY <2>1 DEF LeftIteration
  <2> HIDE DEF V, op, base, seq
  <2>4. it = [s \in SUBSET (1 .. n) |->
               IF s = {} THEN base ELSE op(it[s \ {Max(s)}], seq[Max(s)])]
    BY <2>2, <2>3
  <2> QED BY <2>4
<1> DEFINE end == FoldLeft(op, base, seq)
<1>7. PICK it :
        /\ it = [s \in SUBSET (1 .. n) |->
                   IF s = {} THEN base ELSE op(it[s \ {Max(s)}], seq[Max(s)])]
        /\ end = it[1 .. n]
  <2> HIDE DEF op, base, seq, V
  <2> QED BY <1>0, <1>6 DEF FoldLeft, MapThenFoldSet
<1>8. LeftFold(it, n, V, base, F)
  <2> HIDE DEF op, base, seq, V
  <2>1. it[{}] = base
    BY <1>7
  <2>2. ASSUME NEW s \in SUBSET (1 .. n), s # {}, it[s \ {Max(s)}] \in V
        PROVE  it[s] = F[Max(s)][it[s \ {Max(s)}]]
    <3>1. it[s] = op(it[s \ {Max(s)}], seq[Max(s)])
      BY <1>7, <2>2
    <3>2. Max(s) \in 1 .. n
      BY <1>0, <2>2, LargestOf
    <3> QED BY <1>2, <2>2, <3>1, <3>2
  <2> QED BY <2>1, <2>2 DEF LeftFold
<1>9. PICK g : LeftRun(g, n, V, base, F) /\ g[n] = it[1 .. n]
  <2> HIDE DEF n, op, V, base, seq, end
  <2> QED BY <1>0, <1>1, <1>5, <1>8, LeftRuns
<1>10. end \in V
  <2> HIDE DEF n, V, end
  <2>1. n \in 0 .. n /\ g \in [0 .. n -> V]
    BY <1>0, <1>9 DEF LeftRun
  <2> QED BY <1>7, <1>9, <2>1
<1>11. CleanUpTokenization(str) = end
  BY DEF CleanUpTokenization
<1> HIDE DEF end
<1> QED BY <1>10, <1>11

(* Strings with a blank between them are a string.                         *)
LEMMA JoinedIsString ==
  ASSUME NEW tokens \in Seq(Seq(CodePoints))
  PROVE  JoinStr(tokens, <<Space>>) \in Seq(CodePoints)
<1> DEFINE n == Len(tokens)
<1> DEFINE op(res, k) == res \o tokens[k] \o (IF k < Len(tokens) THEN <<Space>> ELSE <<>>)
<1> DEFINE V == Seq(CodePoints)
<1> DEFINE base == <<>>
<1> DEFINE seq == [i \in DOMAIN tokens |-> i]
<1> DEFINE F == [k \in 1 .. n |-> [v \in V |-> op(v, seq[k])]]
<1>0. n \in Nat /\ DOMAIN seq = 1 .. n /\ Len(seq) = n /\ \A k \in 1 .. n : seq[k] = k
  OBVIOUS
<1>1. base \in V
  OBVIOUS
<1>2. \A k \in 1 .. n : \A v \in V : F[k][v] = op(v, seq[k])
  OBVIOUS
<1>4. ASSUME NEW k \in 1 .. n, NEW v \in V PROVE op(v, seq[k]) \in V
  <2>1. tokens[k] \in Seq(CodePoints) /\ <<Space>> \in Seq(CodePoints) /\ <<>> \in Seq(CodePoints)
    BY <1>0, BertTokensAssumption
  <2>2. seq[k] = k
    BY <1>0
  <2> DEFINE d == IF k < Len(tokens) THEN <<Space>> ELSE <<>>
  <2>3. d \in Seq(CodePoints)
    BY <2>1
  <2>4. op(v, seq[k]) = (v \o tokens[k]) \o d
    BY <2>2
  <2> HIDE DEF d, op
  <2>5. (v \o tokens[k]) \o d \in Seq(CodePoints)
    BY <2>1, <2>3, ConcatProperties
  <2> QED BY <2>4, <2>5
<1> HIDE DEF F
<1>5. Steps(F, V, 1 .. n)
  <2> HIDE DEF op, V, seq
  <2> QED BY <1>2, <1>4 DEF Steps
<1>6. \E it : it = [s \in SUBSET (1 .. n) |->
                     IF s = {} THEN base ELSE op(it[s \ {Max(s)}], seq[Max(s)])]
  <2>1. PICK it : LeftIteration(it, n, V, base, F)
    <3> HIDE DEF op, V, seq, base, n
    <3> QED BY <1>0, <1>1, <1>5, LeftIterationExists
  <2>2. ASSUME NEW s \in SUBSET (1 .. n), s # {}
        PROVE  it[s] = op(it[s \ {Max(s)}], seq[Max(s)])
    <3>1. Max(s) \in 1 .. n /\ it[s \ {Max(s)}] \in V /\ it[s] = F[Max(s)][it[s \ {Max(s)}]]
      BY <2>1, <2>2 DEF LeftIteration
    <3> HIDE DEF V, op, seq
    <3> QED BY <1>2, <3>1
  <2>3. it \in [SUBSET (1 .. n) -> V] /\ it[{}] = base
    BY <2>1 DEF LeftIteration
  <2> HIDE DEF V, op, base, seq
  <2>4. it = [s \in SUBSET (1 .. n) |->
               IF s = {} THEN base ELSE op(it[s \ {Max(s)}], seq[Max(s)])]
    BY <2>2, <2>3
  <2> QED BY <2>4
<1> DEFINE end == FoldLeft(op, base, seq)
<1>7. PICK it :
        /\ it = [s \in SUBSET (1 .. n) |->
                   IF s = {} THEN base ELSE op(it[s \ {Max(s)}], seq[Max(s)])]
        /\ end = it[1 .. n]
  <2> HIDE DEF op, base, seq, V
  <2> QED BY <1>0, <1>6 DEF FoldLeft, MapThenFoldSet
<1>8. LeftFold(it, n, V, base, F)
  <2> HIDE DEF op, base, seq, V
  <2>1. it[{}] = base
    BY <1>7
  <2>2. ASSUME NEW s \in SUBSET (1 .. n), s # {}, it[s \ {Max(s)}] \in V
        PROVE  it[s] = F[Max(s)][it[s \ {Max(s)}]]
    <3>1. it[s] = op(it[s \ {Max(s)}], seq[Max(s)])
      BY <1>7, <2>2
    <3>2. Max(s) \in 1 .. n
      BY <1>0, <2>2, LargestOf
    <3> QED BY <1>2, <2>2, <3>1, <3>2
  <2> QED BY <2>1, <2>2 DEF LeftFold
<1>9. PICK g : LeftRun(g, n, V, base, F) /\ g[n] = it[1 .. n]
  <2> HIDE DEF n, op, V, base, seq, end
  <2> QED BY <1>0, <1>1, <1>5, <1>8, LeftRuns
<1>10. end \in V
  <2> HIDE DEF n, V, end
  <2>1. n \in 0 .. n /\ g \in [0 .. n -> V]
    BY <1>0, <1>9 DEF LeftRun
  <2> QED BY <1>7, <1>9, <2>1
<1>11. JoinStr(tokens, <<Space>>) = end
  BY DEF JoinStr, FoldLeftDomain
<1> HIDE DEF end
<1> QED BY <1>10, <1>11

(* A line without the blanks behind it is a string, and so is a token.     *)
LEMMA TokenIsString ==
  ASSUME NEW id
  PROVE  ConvertIdToToken(id) \in Seq(CodePoints)
<1>1. ASSUME NEW s \in Seq(CodePoints) PROVE RTrim(s) \in Seq(CodePoints)
  <2> DEFINE I == {i \in 1 .. Len(s) : s[i] \notin Blanks}
  <2>1. RTrim(s) = SubSeq(s, 1, IF I # {} THEN Max(I) ELSE 0)
    BY DEF RTrim, SelectLastInSeq
  <2>2. I # {} => Max(I) \in 1 .. Len(s)
    <3>1. Len(s) \in Nat /\ I \in SUBSET (1 .. Len(s))
      OBVIOUS
    <3> HIDE DEF I
    <3> QED BY <3>1, LargestOf
  <2> DEFINE e == IF I # {} THEN Max(I) ELSE 0
  <2>3. e \in 0 .. Len(s)
    <3> HIDE DEF I
    <3> QED BY <2>2
  <2> HIDE DEF e
  <2>4. \A k \in 1 .. e : s[k] \in CodePoints
    BY <2>3
  <2>5. SubSeq(s, 1, e) \in Seq(CodePoints)
    BY <2>3, <2>4, SubSeqProperties
  <2> QED BY <2>1, <2>5 DEF e
<1>2. LineSet \subseteq Seq(CodePoints)
  BY <1>1, TokenizersAssumption DEF LineSet
<1>3. Vocab \in Vocabularies
  BY VocabularyIsRead, TokenizersAssumption
<1>4. Vocab.tokens \in UNION {[D -> LineSet] : D \in SUBSET Nat}
  BY <1>3 DEF Vocabularies, MapSet
<1>5. id \in DOMAIN Vocab.tokens => Vocab.tokens[id] \in LineSet
  BY <1>4
<1>6. Unknown \in Seq(CodePoints)
  BY GptFilesAssumption
<1> QED BY <1>2, <1>5, <1>6 DEF ConvertIdToToken

(***************************************************************************)
(* What BertTokenizer::Decode does with a token when it skips the special  *)
(* ones, and with tokens one after the other, from u to v.                 *)
(***************************************************************************)
DecodeStep(done, token) ==
  IF token \in SpecialTokens THEN done
  ELSE IF done # <<>> /\ Len(token) > Len(Suffix) /\ IsPrefix(Suffix, token)
  THEN Append(Front(done), Last(done) \o SubSeq(token, Len(Suffix) + 1, Len(token)))
  ELSE Append(done, token)

DecodeRun(g, tokens, u, v) ==
  /\ g \in [0 .. Len(tokens) -> Seq(Seq(CodePoints))]
  /\ g[0] = u /\ g[Len(tokens)] = v
  /\ \A k \in 1 .. Len(tokens) : g[k] = DecodeStep(g[k - 1], tokens[k])

Decodes(tokens, u, v) == \E g : DecodeRun(g, tokens, u, v)

LEMMA DecodesTyped ==
  ASSUME NEW done \in Seq(Seq(CodePoints)), NEW token \in Seq(CodePoints)
  PROVE  DecodeStep(done, token) \in Seq(Seq(CodePoints))
<1> DEFINE T == Seq(CodePoints)
<1>0. Suffix \in T /\ Len(Suffix) \in Nat
  BY TokenizersAssumption
<1>1. Append(done, token) \in Seq(T)
  OBVIOUS
<1>2. ASSUME done # <<>>, Len(token) > Len(Suffix)
      PROVE  Append(Front(done), Last(done) \o SubSeq(token, Len(Suffix) + 1, Len(token))) \in Seq(T)
  <2>1. Len(done) \in Nat \ {0} /\ Len(token) \in Nat
    BY <1>2, EmptySeq
  <2>2. Last(done) \in T
    <3>1. Len(done) \in 1 .. Len(done) /\ \A k \in 1 .. Len(done) : done[k] \in T
      BY <2>1
    <3> HIDE DEF T
    <3> QED BY <3>1 DEF Last
  <2>3. Front(done) \in Seq(T)
    <3>1. \A k \in 1 .. Len(done) - 1 : done[k] \in T
      BY <2>1
    <3> HIDE DEF T
    <3> QED BY <2>1, <3>1, SubSeqProperties DEF Front
  <2>4. SubSeq(token, Len(Suffix) + 1, Len(token)) \in T
    <3>1. \A k \in Len(Suffix) + 1 .. Len(token) : token[k] \in CodePoints
      BY <1>0, <2>1
    <3> QED BY <1>0, <1>2, <2>1, <3>1, SubSeqProperties
  <2>5. Last(done) \o SubSeq(token, Len(Suffix) + 1, Len(token)) \in T
    BY <2>2, <2>4, ConcatProperties
  <2> HIDE DEF T
  <2> QED BY <2>3, <2>5, AppendProperties
<1> QED BY <1>1, <1>2 DEF DecodeStep

(* One token.                                                              *)
LEMMA DecodesOne ==
  ASSUME NEW u \in Seq(Seq(CodePoints)), NEW token \in Seq(CodePoints)
  PROVE  Decodes(<<token>>, u, DecodeStep(u, token))
<1> DEFINE T == Seq(Seq(CodePoints))
<1> DEFINE v == DecodeStep(u, token)
<1> DEFINE g == [k \in 0 .. 1 |-> IF k = 0 THEN u ELSE v]
<1>1. v \in T
  BY DecodesTyped
<1>2. Len(<<token>>) = 1 /\ <<token>>[1] = token /\ 1 - 1 = 0
  OBVIOUS
<1>3. g \in [0 .. 1 -> T] /\ g[0] = u /\ g[1] = v
  <2> HIDE DEF v, T
  <2> QED BY <1>1 DEF T
<1>4. \A k \in 1 .. 1 : g[k] = DecodeStep(g[k - 1], <<token>>[k])
  BY <1>2, <1>3
<1>5. DecodeRun(g, <<token>>, u, v)
  <2> HIDE DEF g, v
  <2> QED BY <1>2, <1>3, <1>4 DEF DecodeRun
<1> QED BY <1>5 DEF Decodes

(* Tokens, and then more.                                                  *)
LEMMA DecodesBoth ==
  ASSUME NEW a \in Seq(Seq(CodePoints)), NEW b \in Seq(Seq(CodePoints)), NEW u, NEW v, NEW w,
         Decodes(a, u, v), Decodes(b, v, w)
  PROVE  Decodes(a \o b, u, w)
<1> DEFINE T == Seq(Seq(CodePoints))
<1> DEFINE m == Len(a)
<1> DEFINE n == Len(b)
<1>0. m \in Nat /\ n \in Nat /\ Len(a \o b) = m + n
  OBVIOUS
<1>1. PICK f : DecodeRun(f, a, u, v)
  BY DEF Decodes
<1>2. PICK h : DecodeRun(h, b, v, w)
  BY DEF Decodes
<1> DEFINE g == [k \in 0 .. m + n |-> IF k <= m THEN f[k] ELSE h[k - m]]
<1>3. f \in [0 .. m -> T] /\ f[0] = u /\ f[m] = v
  BY <1>1 DEF DecodeRun
<1>4. h \in [0 .. n -> T] /\ h[0] = v /\ h[n] = w
  BY <1>2 DEF DecodeRun
<1>5. \A k \in 1 .. m : (a \o b)[k] = a[k]
  OBVIOUS
<1>6. \A k \in m + 1 .. m + n : (a \o b)[k] = b[k - m]
  OBVIOUS
<1> HIDE DEF T, m, n
<1>7. g \in [0 .. m + n -> T]
  <2>1. ASSUME NEW k \in 0 .. m + n PROVE g[k] \in T
    <3>1. k <= m => k \in 0 .. m
      BY <1>0
    <3>2. ~(k <= m) => k - m \in 0 .. n
      BY <1>0
    <3> QED BY <1>3, <1>4, <3>1, <3>2
  <2> QED BY <2>1
<1>8. \A k \in 0 .. m : g[k] = f[k]
  BY <1>0
<1>9. \A k \in m .. m + n : g[k] = h[k - m]
  <2>1. ASSUME NEW k \in m .. m + n PROVE g[k] = h[k - m]
    <3>1. CASE k = m
      <4>1. g[m] = f[m] /\ m - m = 0
        BY <1>0, <1>8
      <4> QED BY <1>3, <1>4, <3>1, <4>1
    <3>2. CASE k # m
      BY <1>0, <3>2
    <3> QED BY <3>1, <3>2
  <2> QED BY <2>1
<1> HIDE DEF g
<1>10. ASSUME NEW k \in 1 .. m + n PROVE g[k] = DecodeStep(g[k - 1], (a \o b)[k])
  <2>1. CASE k <= m
    <3>1. k \in 1 .. m /\ k \in 0 .. m /\ k - 1 \in 0 .. m
      BY <1>0, <2>1
    <3>2. f[k] = DecodeStep(f[k - 1], a[k])
      BY <1>1, <3>1 DEF DecodeRun, m
    <3> QED BY <1>5, <1>8, <3>1, <3>2
  <2>2. CASE ~(k <= m)
    <3>1. k \in m + 1 .. m + n /\ k \in m .. m + n /\ k - 1 \in m .. m + n /\ k - m \in 1 .. n
      BY <1>0, <2>2
    <3>2. (k - 1) - m = (k - m) - 1
      BY <1>0
    <3>3. h[k - m] = DecodeStep(h[(k - m) - 1], b[k - m])
      BY <1>2, <3>1 DEF DecodeRun, n
    <3> QED BY <1>6, <1>9, <3>1, <3>2, <3>3
  <2> QED BY <2>1, <2>2
<1>11. g[0] = u /\ g[m + n] = w
  <2>1. 0 \in 0 .. m /\ m + n \in m .. m + n /\ (m + n) - m = n
    BY <1>0
  <2> QED BY <1>3, <1>4, <1>8, <1>9, <2>1
<1>12. DecodeRun(g, a \o b, u, w)
  BY <1>0, <1>7, <1>10, <1>11 DEF DecodeRun, T
<1> QED BY <1>12 DEF Decodes

(* They come to one thing only.                                            *)
LEMMA DecodesOnly ==
  ASSUME NEW a \in Seq(Seq(CodePoints)), NEW u, NEW v, NEW w, Decodes(a, u, v), Decodes(a, u, w)
  PROVE  v = w
<1> DEFINE n == Len(a)
<1>0. n \in Nat
  OBVIOUS
<1>1. PICK f : DecodeRun(f, a, u, v)
  BY DEF Decodes
<1>2. PICK h : DecodeRun(h, a, u, w)
  BY DEF Decodes
<1> DEFINE S == {k \in Nat : f[k] = h[k]}
<1>3. 0 \in S
  BY <1>1, <1>2 DEF DecodeRun
<1>4. ASSUME NEW k \in 0 .. n - 1, k \in S PROVE k + 1 \in S
  <2>1. k + 1 \in 1 .. n /\ (k + 1) - 1 = k /\ k + 1 \in Nat
    BY <1>0
  <2>2. f[k + 1] = DecodeStep(f[(k + 1) - 1], a[k + 1]) /\ h[k + 1] = DecodeStep(h[(k + 1) - 1], a[k + 1])
    BY <1>1, <1>2, <2>1 DEF DecodeRun
  <2>3. f[k] = h[k]
    BY <1>4
  <2> QED BY <2>1, <2>2, <2>3
<1>5. n \in S
  <2>1. n \in 0 .. n
    BY <1>0
  <2> HIDE DEF n, S
  <2> QED BY <1>0, <1>3, <1>4, <2>1, UpTo
<1> QED BY <1>1, <1>2, <1>5 DEF DecodeRun

(* What Decode joins is what its tokens come to.                           *)
LEMMA DecodingIs ==
  ASSUME NEW C, NEW code \in Seq(C)
  PROVE  \E x \in Seq(Seq(CodePoints)) :
           /\ BertDecode(code, TRUE, FALSE) = JoinStr(x, <<Space>>)
           /\ Decodes([k \in 1 .. Len(code) |-> ConvertIdToToken(code[k])], <<>>, x)
<1> DEFINE n == Len(code)
<1> DEFINE toks == [k \in 1 .. n |-> ConvertIdToToken(code[k])]
<1> DEFINE op(texts, id) ==
      LET token == ConvertIdToToken(id)
      IN  IF TRUE /\ token \in SpecialTokens THEN texts
          ELSE IF texts # <<>> /\ Len(token) > Len(Suffix) /\ IsPrefix(Suffix, token)
          THEN Append(Front(texts), Last(texts) \o SubSeq(token, Len(Suffix) + 1, Len(token)))
          ELSE Append(texts, token)
<1> DEFINE V == Seq(Seq(CodePoints))
<1> DEFINE base == <<>>
<1> DEFINE seq == code
<1> DEFINE F == [k \in 1 .. n |-> [v \in V |-> op(v, seq[k])]]
<1>0. n \in Nat /\ DOMAIN seq = 1 .. n
  OBVIOUS
<1>1. base \in V
  OBVIOUS
<1>2. \A k \in 1 .. n : \A v \in V : F[k][v] = op(v, seq[k])
  OBVIOUS
<1>3. \A v, id : op(v, id) = DecodeStep(v, ConvertIdToToken(id))
  BY DEF DecodeStep
<1>4. ASSUME NEW k \in 1 .. n, NEW v \in V PROVE op(v, seq[k]) \in V
  <2>1. op(v, seq[k]) = DecodeStep(v, ConvertIdToToken(seq[k]))
    BY <1>3
  <2>2. DecodeStep(v, ConvertIdToToken(seq[k])) \in V
    BY TokenIsString, DecodesTyped
  <2> HIDE DEF op
  <2> QED BY <2>1, <2>2
<1> HIDE DEF F
<1>5. Steps(F, V, 1 .. n)
  <2> HIDE DEF op, V, seq
  <2> QED BY <1>2, <1>4 DEF Steps
<1>6. \E it : it = [s \in SUBSET (1 .. n) |->
                     IF s = {} THEN base ELSE op(it[s \ {Max(s)}], seq[Max(s)])]
  <2>1. PICK it : LeftIteration(it, n, V, base, F)
    <3> HIDE DEF op, V, seq, base, n
    <3> QED BY <1>0, <1>1, <1>5, LeftIterationExists
  <2>2. ASSUME NEW s \in SUBSET (1 .. n), s # {}
        PROVE  it[s] = op(it[s \ {Max(s)}], seq[Max(s)])
    <3>1. Max(s) \in 1 .. n /\ it[s \ {Max(s)}] \in V /\ it[s] = F[Max(s)][it[s \ {Max(s)}]]
      BY <2>1, <2>2 DEF LeftIteration
    <3> HIDE DEF V, op, seq
    <3> QED BY <1>2, <3>1
  <2>3. it \in [SUBSET (1 .. n) -> V] /\ it[{}] = base
    BY <2>1 DEF LeftIteration
  <2> HIDE DEF V, op, base, seq
  <2>4. it = [s \in SUBSET (1 .. n) |->
               IF s = {} THEN base ELSE op(it[s \ {Max(s)}], seq[Max(s)])]
    BY <2>2, <2>3
  <2> QED BY <2>4
<1> DEFINE end == FoldLeft(op, base, seq)
<1>7. PICK it :
        /\ it = [s \in SUBSET (1 .. n) |->
                   IF s = {} THEN base ELSE op(it[s \ {Max(s)}], seq[Max(s)])]
        /\ end = it[1 .. n]
  <2> HIDE DEF op, base, seq, V
  <2> QED BY <1>0, <1>6 DEF FoldLeft, MapThenFoldSet
<1>8. LeftFold(it, n, V, base, F)
  <2> HIDE DEF op, base, seq, V
  <2>1. it[{}] = base
    BY <1>7
  <2>2. ASSUME NEW s \in SUBSET (1 .. n), s # {}, it[s \ {Max(s)}] \in V
        PROVE  it[s] = F[Max(s)][it[s \ {Max(s)}]]
    <3>1. it[s] = op(it[s \ {Max(s)}], seq[Max(s)])
      BY <1>7, <2>2
    <3>2. Max(s) \in 1 .. n
      BY <1>0, <2>2, LargestOf
    <3> QED BY <1>2, <2>2, <3>1, <3>2
  <2> QED BY <2>1, <2>2 DEF LeftFold
<1>9. PICK g : LeftRun(g, n, V, base, F) /\ g[n] = it[1 .. n]
  <2> HIDE DEF n, op, V, base, seq, end
  <2> QED BY <1>0, <1>1, <1>5, <1>8, LeftRuns
<1>10. end \in V
  <2> HIDE DEF n, V, end
  <2>1. n \in 0 .. n /\ g \in [0 .. n -> V]
    BY <1>0, <1>9 DEF LeftRun
  <2> QED BY <1>7, <1>9, <2>1
<1>11. BertDecode(code, TRUE, FALSE) = JoinStr(end, <<Space>>)
  BY DEF BertDecode
<1> HIDE DEF end
<1>12. /\ g \in [0 .. n -> V] /\ g[0] = base
       /\ \A k \in 1 .. n : g[k] = F[k][g[k - 1]]
  BY <1>9 DEF LeftRun
<1>13. ASSUME NEW k \in 1 .. n PROVE g[k] = DecodeStep(g[k - 1], toks[k])
  <2>1. k - 1 \in 0 .. n
    BY <1>0
  <2> HIDE DEF op, V, n
  <2>2. g[k - 1] \in V
    BY <1>12, <2>1
  <2>3. g[k] = op(g[k - 1], seq[k])
    BY <1>2, <1>12, <2>2
  <2>4. toks[k] = ConvertIdToToken(code[k])
    OBVIOUS
  <2> HIDE DEF toks
  <2> QED BY <1>3, <2>3, <2>4
<1>14. Len(toks) = n
  BY <1>0
<1>15. DecodeRun(g, toks, <<>>, end)
  <2>1. g[n] = end
    BY <1>7, <1>9
  <2> HIDE DEF toks, n, op
  <2> QED BY <1>12, <1>13, <1>14, <2>1 DEF DecodeRun
<1>16. Decodes(toks, <<>>, end)
  <2> HIDE DEF toks
  <2> QED BY <1>15 DEF Decodes
<1> QED BY <1>10, <1>11, <1>16

-----------------------------------------------------------------------------
(* BasicTokenizer's words: punctuation, or strings without any.            *)
BasicWords ==
  {w \in Seq(CodePoints) : w # <<>> /\ (Len(w) = 1 \/ \A k \in 1 .. Len(w) : w[k] \notin Punctuation)}

LEMMA WordsAreBasic ==
  ASSUME NEW str \in Seq(Alphabet), NEW lower \in BOOLEAN
  PROVE  BasicTokenize(str, lower) \in Seq(BasicWords)
<1> DEFINE P == CodePoints \ Punctuation
<1> DEFINE seq == IF lower THEN [k \in DOMAIN str |-> tolower(str[k])] ELSE str
<1> DEFINE n == Len(seq)
<1> DEFINE op(r, c) ==
        IF c \in Punctuation THEN [res |-> Append(Pushed(r.res, r.token), <<c>>), token |-> <<>>]
        ELSE IF c \in Blanks THEN [res |-> Pushed(r.res, r.token), token |-> <<>>]
        ELSE IF c \in Controls THEN r
        ELSE [r EXCEPT !.token = Append(@, c)]
<1> DEFINE V == [res : Seq(BasicWords), token : Seq(P)]
<1> DEFINE base == [res |-> <<>>, token |-> <<>>]
<1> DEFINE F == [k \in 1 .. n |-> [v \in V |-> op(v, seq[k])]]
<1>a. seq \in Seq(CodePoints)
  <2>1. \A c \in Alphabet : c \in CodePoints /\ tolower(c) \in CodePoints
    BY TokenizersAssumption, BertTokensAssumption
  <2>2. [k \in DOMAIN str |-> tolower(str[k])] \in Seq(CodePoints)
    <3>1. \A k \in 1 .. Len(str) : tolower(str[k]) \in CodePoints
      BY <2>1
    <3> QED BY <3>1
  <2>3. str \in Seq(CodePoints)
    BY <2>1
  <2> QED BY <2>2, <2>3
<1>b. ASSUME NEW token \in Seq(P), token # <<>> PROVE token \in BasicWords
  <2>1. \A k \in 1 .. Len(token) : token[k] \in P
    OBVIOUS
  <2>2. token \in Seq(CodePoints)
    OBVIOUS
  <2> QED BY <1>b, <2>1, <2>2 DEF BasicWords
<1>c. ASSUME NEW res \in Seq(BasicWords), NEW token \in Seq(P) PROVE Pushed(res, token) \in Seq(BasicWords)
  <2>1. CASE token = <<>>
    BY <2>1 DEF Pushed
  <2>2. CASE token # <<>>
    <3>1. token \in BasicWords
      BY <1>b, <2>2
    <3> QED BY <2>2, <3>1, AppendProperties DEF Pushed
  <2> QED BY <2>1, <2>2
<1>0. n \in Nat /\ DOMAIN seq = 1 .. n /\ \A k \in 1 .. n : seq[k] \in CodePoints
  <2> HIDE DEF seq
  <2> QED BY <1>a
<1>1. base \in V
  OBVIOUS
<1>2. \A k \in 1 .. n : \A v \in V : F[k][v] = op(v, seq[k])
  OBVIOUS
<1>3. ASSUME NEW v \in V, NEW c \in CodePoints PROVE op(v, c) \in V
  <2>2. v.res \in Seq(BasicWords) /\ v.token \in Seq(P) /\ v = [res |-> v.res, token |-> v.token]
    OBVIOUS
  <2>3. Pushed(v.res, v.token) \in Seq(BasicWords)
    BY <1>c, <2>2
  <2>4. <<c>> \in BasicWords
    <3>1. <<c>> \in Seq(CodePoints) /\ Len(<<c>>) = 1 /\ <<c>> # <<>>
      OBVIOUS
    <3> QED BY <3>1 DEF BasicWords
  <2>5. Append(Pushed(v.res, v.token), <<c>>) \in Seq(BasicWords)
    BY <2>3, <2>4, AppendProperties
  <2>6. c \notin Punctuation => Append(v.token, c) \in Seq(P)
    BY <2>2
  <2>7. CASE c \in Punctuation
    <3>1. op(v, c) = [res |-> Append(Pushed(v.res, v.token), <<c>>), token |-> <<>>]
      BY <2>7
    <3>2. <<>> \in Seq(P)
      OBVIOUS
    <3> HIDE DEF op, P
    <3> QED BY <2>5, <3>1, <3>2
  <2>8. CASE c \notin Punctuation /\ c \in Blanks
    <3>1. op(v, c) = [res |-> Pushed(v.res, v.token), token |-> <<>>]
      BY <2>8
    <3>2. <<>> \in Seq(P)
      OBVIOUS
    <3> HIDE DEF op, P
    <3> QED BY <2>3, <3>1, <3>2
  <2>9. CASE c \notin Punctuation /\ c \notin Blanks /\ c \in Controls
    BY <2>9
  <2>10. CASE c \notin Punctuation /\ c \notin Blanks /\ c \notin Controls
    <3>1. op(v, c) = [v EXCEPT !.token = Append(v.token, c)]
      BY <2>10
    <3>2. Append(v.token, c) \in Seq(P)
      BY <2>6, <2>10
    <3> HIDE DEF op, P
    <3> QED BY <3>1, <3>2
  <2> QED BY <2>7, <2>8, <2>9, <2>10
<1>4. ASSUME NEW k \in 1 .. n, NEW v \in V PROVE op(v, seq[k]) \in V
  <2> HIDE DEF op, V, seq
  <2> QED BY <1>0, <1>3
<1> HIDE DEF F
<1>5. Steps(F, V, 1 .. n)
  <2> HIDE DEF op, V, seq
  <2> QED BY <1>2, <1>4 DEF Steps
<1>6. \E it : it = [s \in SUBSET (1 .. n) |->
                     IF s = {} THEN base ELSE op(it[s \ {Max(s)}], seq[Max(s)])]
  <2>1. PICK it : LeftIteration(it, n, V, base, F)
    <3> HIDE DEF op, V, seq, base, n
    <3> QED BY <1>0, <1>1, <1>5, LeftIterationExists
  <2>2. ASSUME NEW s \in SUBSET (1 .. n), s # {}
        PROVE  it[s] = op(it[s \ {Max(s)}], seq[Max(s)])
    <3>1. Max(s) \in 1 .. n /\ it[s \ {Max(s)}] \in V /\ it[s] = F[Max(s)][it[s \ {Max(s)}]]
      BY <2>1, <2>2 DEF LeftIteration
    <3> HIDE DEF V, op, seq
    <3> QED BY <1>2, <3>1
  <2>3. it \in [SUBSET (1 .. n) -> V] /\ it[{}] = base
    BY <2>1 DEF LeftIteration
  <2> HIDE DEF V, op, base, seq
  <2>4. it = [s \in SUBSET (1 .. n) |->
               IF s = {} THEN base ELSE op(it[s \ {Max(s)}], seq[Max(s)])]
    BY <2>2, <2>3
  <2> QED BY <2>4
<1> DEFINE end == FoldLeft(op, base, seq)
<1>7. PICK it :
        /\ it = [s \in SUBSET (1 .. n) |->
                   IF s = {} THEN base ELSE op(it[s \ {Max(s)}], seq[Max(s)])]
        /\ end = it[1 .. n]
  <2> HIDE DEF op, base, seq, V
  <2> QED BY <1>0, <1>6 DEF FoldLeft, MapThenFoldSet
<1>8. LeftFold(it, n, V, base, F)
  <2> HIDE DEF op, base, seq, V
  <2>1. it[{}] = base
    BY <1>7
  <2>2. ASSUME NEW s \in SUBSET (1 .. n), s # {}, it[s \ {Max(s)}] \in V
        PROVE  it[s] = F[Max(s)][it[s \ {Max(s)}]]
    <3>1. it[s] = op(it[s \ {Max(s)}], seq[Max(s)])
      BY <1>7, <2>2
    <3>2. Max(s) \in 1 .. n
      BY <1>0, <2>2, LargestOf
    <3> QED BY <1>2, <2>2, <3>1, <3>2
  <2> QED BY <2>1, <2>2 DEF LeftFold
<1>9. PICK g : LeftRun(g, n, V, base, F) /\ g[n] = it[1 .. n]
  <2> HIDE DEF n, op, V, base, seq, end
  <2> QED BY <1>0, <1>1, <1>5, <1>8, LeftRuns
<1>10. end \in V
  <2> HIDE DEF n, V, end
  <2>1. n \in 0 .. n /\ g \in [0 .. n -> V]
    BY <1>0, <1>9 DEF LeftRun
  <2> QED BY <1>7, <1>9, <2>1
<1>11. BasicTokenize(str, lower) = Pushed(end.res, end.token)
  BY DEF BasicTokenize
<1> HIDE DEF end
<1>12. end.res \in Seq(BasicWords) /\ end.token \in Seq(P)
  BY <1>10
<1> QED BY <1>c, <1>11, <1>12

(* A first piece is what a word begins with; it is no special token and    *)
(* does not seem to continue a word.                                       *)
LEMMA FirstPiece ==
  ASSUME NEW word \in BasicWords, NEW q \in 1 .. Len(word)
  PROVE  /\ Piece(word, 1, q) = SubSeq(word, 1, q) /\ SubSeq(word, 1, q) \in Seq(CodePoints)
         /\ Piece(word, 1, q) \notin SpecialTokens
         /\ ~(Len(Piece(word, 1, q)) > Len(Suffix) /\ IsPrefix(Suffix, Piece(word, 1, q)))
<1> DEFINE x == SubSeq(word, 1, q)
<1>1. /\ word \in Seq(CodePoints) /\ Len(word) \in Nat /\ q \in Nat
      /\ (Len(word) = 1 \/ \A k \in 1 .. Len(word) : word[k] \notin Punctuation)
      /\ \A k \in 1 .. q : word[k] \in CodePoints
  BY DEF BasicWords
<1>2. x \in Seq(CodePoints) /\ Len(x) = q /\ \A k \in 1 .. q : x[k] = word[k]
  <2>1. x \in Seq(CodePoints)
    BY <1>1, SubSeqProperties
  <2>2. Len(x) = q
    BY <1>1, SubSeqProperties
  <2>3. \A k \in 1 .. q : x[k] = word[k]
    BY <1>1, SubSeqProperties
  <2> QED BY <2>1, <2>2, <2>3
<1>3. Piece(word, 1, q) = x
  <2>1. Piece(word, 1, q) = <<>> \o x
    BY DEF Piece
  <2>2. <<>> \o x = x
    BY <1>2
  <2> QED BY <2>1, <2>2
<1>4. Suffix \in Seq(CodePoints) /\ Suffix # <<>> /\ Suffix[1] \in Punctuation /\ Len(Suffix) \in Nat
  BY TokenizersAssumption, BertTokensAssumption
<1> HIDE DEF x
<1>5. x \notin SpecialTokens
  <2> SUFFICES ASSUME x \in SpecialTokens PROVE FALSE
    OBVIOUS
  <2>1. Len(x) > 1 /\ \E k \in DOMAIN x : x[k] \in Punctuation
    BY BertTokensAssumption
  <2>2. PICK k \in 1 .. q : x[k] \in Punctuation
    BY <1>2, <2>1
  <2>3. word[k] \in Punctuation /\ k \in 1 .. Len(word) /\ Len(word) # 1
    BY <1>1, <1>2, <2>1, <2>2
  <2> QED BY <1>1, <2>3
<1>6. ASSUME Len(x) > Len(Suffix), IsPrefix(Suffix, x) PROVE FALSE
  <2>1. Len(Suffix) >= 1 /\ Len(Suffix) \in Nat
    BY <1>4, EmptySeq
  <2>2. SubSeq(Suffix, 1, Len(Suffix)) = SubSeq(x, 1, Len(Suffix))
    BY <1>6 DEF IsPrefix
  <2>3. SubSeq(Suffix, 1, Len(Suffix)) = Suffix
    BY <1>4
  <2>4. SubSeq(x, 1, Len(Suffix))[1] = x[1]
    BY <1>2, <1>6, <2>1
  <2>5. word[1] \in Punctuation /\ Len(word) # 1 /\ 1 \in 1 .. Len(word)
    BY <1>1, <1>2, <1>4, <1>6, <2>1, <2>2, <2>3, <2>4
  <2> QED BY <1>1, <2>5
<1> QED BY <1>2, <1>3, <1>5, <1>6 DEF x

(* A later piece is marked, and what is behind the mark goes on with it.   *)
LEMMA LaterPiece ==
  ASSUME NEW word \in Seq(CodePoints), NEW p \in 2 .. Len(word), NEW q \in p .. Len(word)
  PROVE  /\ Piece(word, p, q) \in Seq(CodePoints) /\ Piece(word, p, q) \notin SpecialTokens
         /\ Len(Piece(word, p, q)) > Len(Suffix) /\ IsPrefix(Suffix, Piece(word, p, q))
         /\ SubSeq(Piece(word, p, q), Len(Suffix) + 1, Len(Piece(word, p, q))) = SubSeq(word, p, q)
<1> DEFINE x == SubSeq(word, p, q)
<1> DEFINE n == Len(Suffix)
<1> DEFINE m == Len(x)
<1>1. /\ Len(word) \in Nat /\ p \in Nat /\ q \in Nat /\ p > 1 /\ p <= q
      /\ \A k \in p .. q : word[k] \in CodePoints
  OBVIOUS
<1>2. x \in Seq(CodePoints) /\ m = q - p + 1 /\ m \in Nat /\ m > 0
  <2>1. x \in Seq(CodePoints)
    BY <1>1, SubSeqProperties
  <2>2. Len(x) = q - p + 1
    BY <1>1, SubSeqProperties
  <2> QED BY <1>1, <2>1, <2>2
<1>3. Piece(word, p, q) = Suffix \o x
  BY <1>1 DEF Piece
<1>4. Suffix \in Seq(CodePoints) /\ n \in Nat
  BY TokenizersAssumption
<1> HIDE DEF x
<1>5. Suffix \o x \in Seq(CodePoints) /\ Len(Suffix \o x) = n + m
  BY <1>2, <1>4
<1>6. SubSeq(Suffix \o x, 1, n) = Suffix
  BY <1>2, <1>4
<1>7. SubSeq(Suffix \o x, n + 1, n + m) = x
  BY <1>2, <1>4
<1>8. IsPrefix(Suffix, Suffix \o x)
  <2>1. SubSeq(Suffix, 1, n) = Suffix
    BY <1>4
  <2> QED BY <1>2, <1>4, <1>5, <1>6, <2>1 DEF IsPrefix
<1>9. Suffix \o x \notin SpecialTokens
  BY <1>8, BertTokensAssumption
<1>10. Len(Suffix \o x) > n
  BY <1>2, <1>4, <1>5
<1> QED BY <1>3, <1>5, <1>7, <1>8, <1>9, <1>10 DEF x

(* Both are decoded to more of the word.                                   *)
LEMMA FirstDecoded ==
  ASSUME NEW word \in BasicWords, NEW q \in 1 .. Len(word), NEW done
  PROVE  DecodeStep(done, Piece(word, 1, q)) = Append(done, SubSeq(word, 1, q))
BY FirstPiece DEF DecodeStep

(* The next piece.                                                         *)
LEMMA LaterDecoded ==
  ASSUME NEW word \in Seq(CodePoints), NEW p \in 2 .. Len(word), NEW q \in p .. Len(word),
         NEW done \in Seq(Seq(CodePoints))
  PROVE  DecodeStep(Append(done, SubSeq(word, 1, p - 1)), Piece(word, p, q)) =
           Append(done, SubSeq(word, 1, q))
<1> DEFINE T == Seq(CodePoints)
<1> DEFINE x == SubSeq(word, 1, p - 1)
<1> DEFINE u == Append(done, x)
<1> DEFINE t == Piece(word, p, q)
<1>1. Len(word) \in Nat /\ p \in Nat /\ q \in Nat /\ p > 1 /\ p <= q /\ Len(done) \in Nat
  OBVIOUS
<1>2. x \in T
  <2>1. \A k \in 1 .. p - 1 : word[k] \in CodePoints
    BY <1>1
  <2> QED BY <1>1, <2>1, SubSeqProperties
<1>3. x \o SubSeq(word, p, q) = SubSeq(word, 1, q)
  <2> DEFINE k == p - 1
  <2>1. 1 \in 1 .. Len(word) + 1 /\ k \in 1 - 1 .. Len(word) /\ q \in k .. Len(word) /\ k + 1 = p
    BY <1>1
  <2> HIDE DEF k
  <2>2. SubSeq(word, 1, k) \o SubSeq(word, k + 1, q) = SubSeq(word, 1, q)
    BY <2>1, ConcatAdjacentSubSeq
  <2> QED BY <2>1, <2>2 DEF k
<1> HIDE DEF x, T
<1>4. u # <<>> /\ Last(u) = x /\ Front(u) = done
  <2>0. done \in Seq(T)
    BY DEF T
  <2>1. Len(u) = Len(done) + 1 /\ u[Len(done) + 1] = x
    BY <1>1, <1>2, <2>0, AppendProperties
  <2>2. SubSeq(u, 1, Len(done)) = done
    BY <1>2, <2>0
  <2>3. u # <<>>
    <3>1. Len(<<>>) = 0
      OBVIOUS
    <3> HIDE DEF u
    <3> QED BY <1>1, <2>1, <3>1
  <2>4. (Len(done) + 1) - 1 = Len(done)
    BY <1>1
  <2> HIDE DEF u
  <2> QED BY <2>1, <2>2, <2>3, <2>4 DEF Last, Front
<1>5. /\ t \notin SpecialTokens /\ Len(t) > Len(Suffix) /\ IsPrefix(Suffix, t)
      /\ SubSeq(t, Len(Suffix) + 1, Len(t)) = SubSeq(word, p, q)
  BY LaterPiece
<1>6. DecodeStep(u, t) = Append(Front(u), Last(u) \o SubSeq(t, Len(Suffix) + 1, Len(t)))
  <2> HIDE DEF u, t
  <2> QED BY <1>4, <1>5 DEF DecodeStep
<1>7. DecodeStep(u, t) = Append(done, SubSeq(word, 1, q))
  <2> HIDE DEF u, t
  <2> QED BY <1>3, <1>4, <1>5, <1>6
<1> QED BY <1>7 DEF x

(***************************************************************************)
(* The pieces of a word, if all are known, are decoded to the word.        *)
(***************************************************************************)
KnownTokens == DOMAIN Vocab.ids \cap Seq(CodePoints)

LEMMA WordDecodes ==
  ASSUME NEW word \in BasicWords, Unknown \notin ToSet(GreedySearch(word)),
         NEW done \in Seq(Seq(CodePoints))
  PROVE  /\ GreedySearch(word) \in Seq(KnownTokens)
         /\ Decodes(GreedySearch(word), done, Append(done, word))
<1> DEFINE T == Seq(Seq(CodePoints))
<1>0. word \in Seq(CodePoints) /\ word # <<>> /\ Len(word) \in Nat /\ Len(word) >= 1
  BY EmptySeq DEF BasicWords
<1>1. PICK r \in Seq(PieceSet(word)) :
        \E c : Cuts(word, 1, r, c) /\ Ends(word, GreedySearch(word), r, c[Len(r) + 1])
  BY <1>0, WordIsCutUp DEF CutUp
<1>2. PICK c : Cuts(word, 1, r, c) /\ Ends(word, GreedySearch(word), r, c[Len(r) + 1])
  BY <1>1
<1> DEFINE m == Len(r)
<1>3. m \in Nat /\ DOMAIN r = 1 .. m
  OBVIOUS
<1>4. c[m + 1] = Len(word) + 1 /\ GreedySearch(word) = r
  <2>1. ASSUME GreedySearch(word) = Append(r, Unknown) PROVE FALSE
    <3> DEFINE U == PieceSet(word)
    <3>1. Unknown \in U
      BY DEF PieceSet
    <3> HIDE DEF U
    <3>2. r \in Seq(U)
      BY DEF U
    <3>3. Append(r, Unknown)[m + 1] = Unknown /\ m + 1 \in DOMAIN Append(r, Unknown)
      BY <1>3, <3>1, <3>2
    <3>4. Unknown \in ToSet(Append(r, Unknown))
      BY <3>3 DEF ToSet
    <3> QED BY <2>1, <3>4
  <2> QED BY <1>2, <2>1 DEF Ends
<1>5. /\ c \in [1 .. m + 1 -> 1 .. Len(word) + 1] /\ c[1] = 1
      /\ \A k \in 1 .. m : /\ c[k] < c[k + 1]
                           /\ r[k] = Piece(word, c[k], c[k + 1] - 1)
                           /\ Longest(word, c[k], c[k + 1] - 1)
  BY <1>2 DEF Cuts
<1> HIDE DEF m
<1>6. \A k \in 1 .. m + 1 : c[k] \in 1 .. Len(word) + 1 /\ c[k] \in Nat
  BY <1>0, <1>5
<1> DEFINE S == {k \in Nat : k \in 1 .. m => c[k] < c[k + 1]}
<1>7. \A k \in 2 .. m + 1 : c[k] >= 2
  <2> DEFINE R == {j \in Nat : j + 1 \in 2 .. m + 1 => c[j + 1] >= 2}
  <2>1. 0 \in R
    OBVIOUS
  <2>2. ASSUME NEW j \in 0 .. m - 1, j \in R PROVE j + 1 \in R
    <3>1. j + 1 \in 1 .. m /\ (j + 1) + 1 = j + 2 /\ j + 1 \in Nat /\ j + 2 \in 1 .. m + 1 /\ j + 1 \in 1 .. m + 1
      BY <1>3
    <3>2. c[j + 1] < c[j + 2] /\ c[j + 1] \in Nat /\ c[j + 1] >= 1 /\ c[j + 2] \in Nat
      BY <1>5, <1>6, <3>1
    <3> QED BY <3>1, <3>2
  <2>3. \A j \in 0 .. m : j \in R
    <3> HIDE DEF R
    <3> QED BY <1>3, <2>1, <2>2, UpTo
  <2>4. ASSUME NEW k \in 2 .. m + 1 PROVE c[k] >= 2
    <3>1. k - 1 \in 0 .. m /\ (k - 1) + 1 = k
      BY <1>3
    <3>2. k - 1 \in R
      <4> HIDE DEF R
      <4> QED BY <2>3, <3>1
    <3>3. k - 1 + 1 \in 2 .. m + 1 => c[k - 1 + 1] >= 2
      BY <3>2
    <3> QED BY <3>1, <3>3
  <2> QED BY <2>4
<1>8. ASSUME NEW k \in 1 .. m
      PROVE  /\ c[k] \in 1 .. Len(word) /\ c[k + 1] - 1 \in c[k] .. Len(word)
             /\ (k # 1 => c[k] \in 2 .. Len(word))
  <2>1. k \in 1 .. m + 1 /\ k + 1 \in 1 .. m + 1 /\ (k # 1 => k \in 2 .. m + 1)
    BY <1>3
  <2>2. c[k] \in 1 .. Len(word) + 1 /\ c[k + 1] \in 1 .. Len(word) + 1 /\ c[k] < c[k + 1]
    BY <1>5, <1>6, <2>1
  <2>3. k # 1 => c[k] >= 2
    BY <1>7, <2>1
  <2> QED BY <1>0, <2>2, <2>3
<1>9. ASSUME NEW k \in 1 .. m PROVE r[k] \in KnownTokens
  <2>1. r[k] = Piece(word, c[k], c[k + 1] - 1) /\ KnownPiece(word, c[k], c[k + 1] - 1)
    BY <1>5 DEF Longest
  <2>2. r[k] \in DOMAIN Vocab.ids
    BY <2>1 DEF KnownPiece
  <2>3. r[k] \in Seq(CodePoints)
    <3>1. CASE k = 1
      <4>1. c[k + 1] - 1 \in 1 .. Len(word) /\ c[k] = 1
        BY <1>0, <1>5, <1>8, <3>1
      <4> QED BY <2>1, <4>1, FirstPiece
    <3>2. CASE k # 1
      BY <1>0, <1>8, <2>1, <3>2, LaterPiece
    <3> QED BY <3>1, <3>2
  <2> QED BY <2>2, <2>3 DEF KnownTokens
<1>10. r \in Seq(KnownTokens)
  BY <1>3, <1>9 DEF m
<1> DEFINE g == [k \in 0 .. m |-> IF k = 0 THEN done ELSE Append(done, SubSeq(word, 1, c[k + 1] - 1))]
<1>11. ASSUME NEW k \in 0 .. m PROVE g[k] \in T
  <2>1. CASE k = 0
    BY <2>1
  <2>2. CASE k # 0
    <3>1. k \in 1 .. m
      BY <1>3, <2>2
    <3> DEFINE q == c[k + 1] - 1
    <3>2. q \in 1 .. Len(word)
      BY <1>0, <1>8, <3>1
    <3>3. \A j \in 1 .. q : word[j] \in CodePoints
      BY <1>0, <3>2
    <3> HIDE DEF q
    <3>4. SubSeq(word, 1, q) \in Seq(CodePoints)
      BY <1>0, <3>2, <3>3, SubSeqProperties
    <3>5. g[k] = Append(done, SubSeq(word, 1, q))
      BY <2>2 DEF q
    <3> HIDE DEF g
    <3> QED BY <3>4, <3>5, AppendProperties
  <2> QED BY <2>1, <2>2
<1>12. ASSUME NEW k \in 1 .. m PROVE g[k] = DecodeStep(g[k - 1], r[k])
  <2>0. k \in 0 .. m /\ k - 1 \in 0 .. m /\ k # 0 /\ (k - 1) + 1 = k
    BY <1>3
  <2>1. g[k] = Append(done, SubSeq(word, 1, c[k + 1] - 1)) /\ r[k] = Piece(word, c[k], c[k + 1] - 1)
    BY <1>5, <2>0
  <2>2. CASE k = 1
    <3>1. g[k - 1] = done
      BY <2>0, <2>2
    <3>2. c[k + 1] - 1 \in 1 .. Len(word) /\ c[k] = 1
      BY <1>0, <1>5, <1>8, <2>2
    <3>3. DecodeStep(done, Piece(word, 1, c[k + 1] - 1)) = Append(done, SubSeq(word, 1, c[k + 1] - 1))
      BY <3>2, FirstDecoded
    <3> HIDE DEF g
    <3> QED BY <2>1, <3>1, <3>2, <3>3
  <2>3. CASE k # 1
    <3>1. g[k - 1] = Append(done, SubSeq(word, 1, c[k] - 1))
      <4>1. k - 1 # 0
        BY <2>0, <2>3
      <4> QED BY <2>0, <4>1
    <3>2. c[k] \in 2 .. Len(word) /\ c[k + 1] - 1 \in c[k] .. Len(word)
      BY <1>8, <2>3
    <3>3. DecodeStep(Append(done, SubSeq(word, 1, c[k] - 1)), Piece(word, c[k], c[k + 1] - 1)) =
            Append(done, SubSeq(word, 1, c[k + 1] - 1))
      <4> DEFINE p == c[k]
      <4> DEFINE q == c[k + 1] - 1
      <4>1. p \in 2 .. Len(word) /\ q \in p .. Len(word)
        BY <3>2
      <4> HIDE DEF p, q
      <4>2. DecodeStep(Append(done, SubSeq(word, 1, p - 1)), Piece(word, p, q)) = Append(done, SubSeq(word, 1, q))
        BY <1>0, <4>1, LaterDecoded
      <4> QED BY <4>2 DEF p, q
    <3> HIDE DEF g
    <3> QED BY <2>1, <3>1, <3>3
  <2> QED BY <2>2, <2>3
<1>13. m # 0
  <2>1. m = 0 => c[m + 1] = 1
    BY <1>5
  <2> QED BY <1>0, <1>4, <2>1 DEF m
<1>14. g[m] = Append(done, word)
  <2>1. m \in 0 .. m /\ (Len(word) + 1) - 1 = Len(word)
    BY <1>0, <1>3
  <2>2. c[m + 1] = Len(word) + 1
    BY <1>4 DEF m
  <2>3. SubSeq(word, 1, Len(word)) = word
    BY <1>0
  <2>4. g[m] = Append(done, SubSeq(word, 1, c[m + 1] - 1))
    BY <1>13, <2>1
  <2> HIDE DEF g
  <2> QED BY <2>1, <2>2, <2>3, <2>4
<1>15. g \in [0 .. m -> T] /\ g[0] = done
  <2>1. g[0] = done
    BY <1>3
  <2>2. g = [k \in 0 .. m |-> g[k]]
    OBVIOUS
  <2> HIDE DEF g, T
  <2> QED BY <1>11, <2>1, <2>2
<1>16. DecodeRun(g, r, done, Append(done, word))
  <2> HIDE DEF g
  <2> QED BY <1>12, <1>14, <1>15 DEF DecodeRun, m
<1>17. Decodes(r, done, Append(done, word))
  <2> HIDE DEF g
  <2> QED BY <1>16 DEF Decodes
<1> QED BY <1>4, <1>10, <1>17

AnyPiece == UNION {PieceSet(w) : w \in BasicWords}

(* The pieces of a word are tokens (GreedySearch).                         *)
LEMMA SearchIsTyped ==
  ASSUME NEW word \in BasicWords
  PROVE  GreedySearch(word) \in Seq(AnyPiece)
<1>0. word \in Seq(CodePoints)
  BY DEF BasicWords
<1>1. PICK r \in Seq(PieceSet(word)) :
        \E c : Cuts(word, 1, r, c) /\ Ends(word, GreedySearch(word), r, c[Len(r) + 1])
  BY <1>0, WordIsCutUp DEF CutUp
<1>2. GreedySearch(word) \in {r, Append(r, Unknown)}
  BY <1>1 DEF Ends
<1>3. PieceSet(word) \subseteq AnyPiece /\ Unknown \in AnyPiece
  <2>1. PieceSet(word) \subseteq AnyPiece
    BY DEF AnyPiece
  <2>2. Unknown \in PieceSet(word)
    BY DEF PieceSet
  <2> QED BY <2>1, <2>2
<1>4. r \in Seq(AnyPiece)
  <2> DEFINE U == PieceSet(word)
  <2>1. \A k \in 1 .. Len(r) : r[k] \in AnyPiece
    BY <1>3
  <2>2. r = [k \in 1 .. Len(r) |-> r[k]] /\ Len(r) \in Nat
    OBVIOUS
  <2> HIDE DEF U
  <2> QED BY <2>1, <2>2
<1> QED BY <1>2, <1>3, <1>4, AppendProperties

(* The words of a text, if all their pieces are known.                     *)
LEMMA WordsDecode ==
  ASSUME NEW words \in Seq(BasicWords), Unknown \notin ToSet(WordpieceTokenize(words))
  PROVE  /\ WordpieceTokenize(words) \in Seq(KnownTokens)
         /\ Decodes(WordpieceTokenize(words), <<>>, words)
<1> DEFINE n == Len(words)
<1> DEFINE seqs == [k \in DOMAIN words |-> GreedySearch(words[k])]
<1> DEFINE T == Seq(CodePoints)
<1>0. n \in Nat /\ DOMAIN words = 1 .. n /\ \A k \in 1 .. n : words[k] \in BasicWords
  OBVIOUS
<1>1. \A k \in 1 .. n : seqs[k] = GreedySearch(words[k]) /\ seqs[k] \in Seq(AnyPiece)
  BY <1>0, SearchIsTyped
<1>2. seqs \in Seq(Seq(AnyPiece)) /\ Len(seqs) = n
  <2>1. seqs = [k \in 1 .. n |-> seqs[k]]
    BY <1>0
  <2> HIDE DEF seqs, n
  <2> QED BY <1>0, <1>1, <2>1
<1>3. WordpieceTokenize(words) = FlattenSeq(seqs)
  BY DEF WordpieceTokenize
<1> HIDE DEF seqs
<1>4. PICK G : FlatRun(G, AnyPiece, seqs)
  BY <1>2, FlattenRuns
<1>5. /\ G \in [0 .. n -> Seq(AnyPiece)] /\ G[0] = <<>> /\ G[n] = FlattenSeq(seqs)
      /\ \A k \in 1 .. n : G[k] = G[k - 1] \o seqs[k]
  BY <1>2, <1>4 DEF FlatRun
<1> HIDE DEF n
<1>6. ASSUME NEW k \in 1 .. n, Unknown \notin ToSet(G[k])
      PROVE  Unknown \notin ToSet(G[k - 1]) /\ Unknown \notin ToSet(seqs[k])
  <2>1. k - 1 \in 0 .. n
    BY <1>0
  <2>2. G[k - 1] \in Seq(AnyPiece) /\ seqs[k] \in Seq(AnyPiece) /\ G[k] = G[k - 1] \o seqs[k]
    BY <1>1, <1>5, <2>1
  <2>3. \A a, b \in Seq(AnyPiece) : ToSet(a) \subseteq ToSet(a \o b) /\ ToSet(b) \subseteq ToSet(a \o b)
    <3>1. ASSUME NEW a \in Seq(AnyPiece), NEW b \in Seq(AnyPiece)
          PROVE  ToSet(a) \subseteq ToSet(a \o b) /\ ToSet(b) \subseteq ToSet(a \o b)
      <4>1. ASSUME NEW j \in DOMAIN a PROVE a[j] \in ToSet(a \o b)
        <5>1. j \in DOMAIN (a \o b) /\ (a \o b)[j] = a[j]
          OBVIOUS
        <5> QED BY <5>1 DEF ToSet
      <4>2. ASSUME NEW j \in DOMAIN b PROVE b[j] \in ToSet(a \o b)
        <5>1. Len(a) + j \in DOMAIN (a \o b) /\ (a \o b)[Len(a) + j] = b[j]
          OBVIOUS
        <5> QED BY <5>1 DEF ToSet
      <4> QED BY <4>1, <4>2 DEF ToSet
    <3> QED BY <3>1
  <2> QED BY <1>6, <2>2, <2>3
<1>7. \A k \in 0 .. n : Unknown \notin ToSet(G[k])
  <2> DEFINE S == {k \in Nat : Unknown \notin ToSet(G[k])}
  <2>1. n \in S
    BY <1>0, <1>3, <1>5
  <2>2. \A k \in 1 .. n : k \in S => k - 1 \in S
    BY <1>0, <1>6
  <2>3. \A k \in 0 .. n : k \in S
    <3> HIDE DEF S
    <3> QED BY <1>0, <2>1, <2>2, DownFrom
  <2> QED BY <2>3
<1>8. ASSUME NEW k \in 1 .. n
      PROVE  Unknown \notin ToSet(GreedySearch(words[k])) /\ seqs[k] = GreedySearch(words[k])
  BY <1>0, <1>1, <1>6, <1>7
<1>9. \A k \in 1 .. n : seqs[k] \in Seq(KnownTokens)
  <2>1. ASSUME NEW k \in 1 .. n PROVE seqs[k] \in Seq(KnownTokens)
    <3>1. words[k] \in BasicWords /\ Unknown \notin ToSet(GreedySearch(words[k]))
      BY <1>0, <1>8
    <3>2. <<>> \in Seq(Seq(CodePoints))
      OBVIOUS
    <3>3. GreedySearch(words[k]) \in Seq(KnownTokens)
      BY <3>1, <3>2, WordDecodes
    <3> QED BY <1>8, <3>3
  <2> QED BY <2>1
<1>10. seqs \in Seq(Seq(KnownTokens))
  <2>1. seqs = [k \in 1 .. n |-> seqs[k]]
    BY <1>2
  <2> QED BY <1>0, <1>9, <2>1
<1>11. FlattenSeq(seqs) \in Seq(KnownTokens)
  BY <1>10, FlattenType
<1>12. KnownTokens \subseteq T
  BY DEF KnownTokens
<1>13. BasicWords \subseteq T
  BY DEF BasicWords
<1> DEFINE S == {k \in Nat : G[k] \in Seq(T) /\ Decodes(G[k], <<>>, SubSeq(words, 1, k))}
<1>14. 0 \in S
  <2> DEFINE g == [k \in 0 .. 0 |-> <<>>]
  <2>1. g \in [0 .. 0 -> Seq(T)] /\ g[0] = <<>> /\ Len(<<>>) = 0 /\ 1 .. 0 = {}
    OBVIOUS
  <2>2. DecodeRun(g, <<>>, <<>>, <<>>)
    <3> HIDE DEF g
    <3> QED BY <2>1 DEF DecodeRun
  <2>3. Decodes(<<>>, <<>>, <<>>)
    <3> HIDE DEF g
    <3> QED BY <2>2 DEF Decodes
  <2>4. SubSeq(words, 1, 0) = <<>>
    BY SubSeqEmpty
  <2>5. <<>> \in Seq(T) /\ 0 \in Nat
    OBVIOUS
  <2> HIDE DEF T
  <2> QED BY <1>5, <2>3, <2>4, <2>5
<1>15. ASSUME NEW k \in 0 .. n - 1, k \in S PROVE k + 1 \in S
  <2>1. k + 1 \in 1 .. n /\ (k + 1) - 1 = k /\ k \in Nat /\ k + 1 \in Nat
    BY <1>0
  <2>2. G[k + 1] = G[k] \o seqs[k + 1] /\ G[k] \in Seq(T)
    BY <1>5, <1>15, <2>1
  <2>3. words \in Seq(T)
    <3>1. \A j \in 1 .. n : words[j] \in T
      BY <1>0, <1>13
    <3>2. words = [j \in 1 .. n |-> words[j]]
      BY <1>0
    <3> HIDE DEF T
    <3> QED BY <1>0, <3>1, <3>2
  <2> DEFINE u == SubSeq(words, 1, k)
  <2>4. u \in Seq(T)
    <3>1. \A j \in 1 .. k : words[j] \in T
      BY <1>0, <1>13
    <3> HIDE DEF T
    <3> QED BY <1>0, <2>1, <3>1, SubSeqProperties
  <2>5. Append(u, words[k + 1]) = SubSeq(words, 1, k + 1)
    <3>1. k + 1 \in 1 .. Len(words) /\ Len(words) \in Nat
      BY <2>1, <1>0 DEF n
    <3> HIDE DEF T
    <3> QED BY <2>1, <2>3, <3>1
  <2>6. Decodes(seqs[k + 1], u, Append(u, words[k + 1]))
    <3>1. words[k + 1] \in BasicWords /\ Unknown \notin ToSet(GreedySearch(words[k + 1]))
      BY <1>0, <1>8, <2>1
    <3> HIDE DEF u
    <3> QED BY <1>8, <2>1, <2>4, <3>1, WordDecodes
  <2>7. seqs[k + 1] \in Seq(T)
    <3>1. seqs[k + 1] \in Seq(KnownTokens)
      BY <1>9, <2>1
    <3> DEFINE w == seqs[k + 1]
    <3>2. \A j \in 1 .. Len(w) : w[j] \in T
      BY <3>1, <1>12
    <3>3. w = [j \in 1 .. Len(w) |-> w[j]] /\ Len(w) \in Nat
      BY <3>1
    <3> HIDE DEF w, T
    <3>4. w \in Seq(T)
      BY <3>2, <3>3
    <3> QED BY <3>4 DEF w
  <2>8. Decodes(G[k], <<>>, u)
    BY <1>15
  <2>9. Decodes(G[k] \o seqs[k + 1], <<>>, Append(u, words[k + 1]))
    <3> HIDE DEF u
    <3> QED BY <2>2, <2>6, <2>7, <2>8, DecodesBoth
  <2>10. G[k] \o seqs[k + 1] \in Seq(T)
    <3> HIDE DEF T
    <3> QED BY <2>2, <2>7, ConcatProperties
  <2> HIDE DEF T, u
  <2> QED BY <2>1, <2>2, <2>5, <2>9, <2>10
<1>16. n \in S
  <2>1. n \in 0 .. n
    BY <1>0
  <2> HIDE DEF S
  <2> QED BY <1>0, <1>14, <1>15, <2>1, UpTo
<1>17. SubSeq(words, 1, n) = words
  BY <1>0 DEF n
<1> QED BY <1>3, <1>5, <1>11, <1>16, <1>17

(***************************************************************************)
(* BertRoundTrip: what is decoded of the ids of a text are its words, with *)
(* blanks between them; cleaning up takes no more than blanks away.        *)
(***************************************************************************)
LEMMA MarkIsSpecial ==
  ASSUME NEW t \in SpecialTokens
  PROVE  ConvertIdToToken(ConvertTokenToId(t)) \in SpecialTokens
<1>1. CASE t \in DOMAIN Vocab.ids
  BY <1>1, VocabularyIsOneToOne
<1>2. CASE t \notin DOMAIN Vocab.ids
  <2>1. Vocab \in Vocabularies
    BY VocabularyIsRead, TokenizersAssumption
  <2>2. DOMAIN Vocab.tokens = 0 .. Vocab.next - 1
    BY <2>1 DEF Vocabularies, OneToOne
  <2>3. -1 \notin DOMAIN Vocab.tokens
    BY <2>2
  <2>4. ConvertTokenToId(t) = -1
    BY <1>2 DEF ConvertTokenToId
  <2> QED BY <2>3, <2>4 DEF ConvertIdToToken, SpecialTokens
<1> QED BY <1>1, <1>2

(* Tokens that are known come back from their ids.                         *)
LEMMA TokensComeBack ==
  ASSUME NEW tokens \in Seq(KnownTokens), NEW words \in Seq(Seq(CodePoints)),
         Decodes(tokens, <<>>, words)
  PROVE  LET code == Encode(tokens, Unlimited)
         IN  Decodes([k \in 1 .. Len(code) |-> ConvertIdToToken(code[k])], <<>>, words)
<1> DEFINE T == Seq(CodePoints)
<1> DEFINE n == Len(tokens)
<1> DEFINE ids == [k \in DOMAIN tokens |-> ConvertTokenToId(tokens[k])]
<1> DEFINE cls == ConvertTokenToId(Start)
<1> DEFINE sep == ConvertTokenToId(End)
<1> DEFINE code == Encode(tokens, Unlimited)
<1> DEFINE back == [k \in 1 .. Len(code) |-> ConvertIdToToken(code[k])]
<1> DEFINE a == ConvertIdToToken(cls)
<1> DEFINE b == ConvertIdToToken(sep)
<1>0. n \in Nat /\ DOMAIN tokens = 1 .. n /\ \A k \in 1 .. n : tokens[k] \in KnownTokens
  OBVIOUS
<1>1. cls \in IdSet /\ sep \in IdSet /\ \A k \in 1 .. n : ids[k] \in IdSet
  BY <1>0, IdIsTyped
<1>2. ids \in Seq(IdSet) /\ Len(ids) = n
  BY IdIsTyped
<1>3. code = (<<cls>> \o ids) \o <<sep>>
  BY DEF Encode, AddSpecialToken, TruncateOne, Unlimited
<1>4. \A k \in 1 .. n : ConvertIdToToken(ids[k]) = tokens[k]
  <2>1. ASSUME NEW k \in 1 .. n PROVE ConvertIdToToken(ids[k]) = tokens[k]
    <3>1. tokens[k] \in DOMAIN Vocab.ids
      BY <1>0 DEF KnownTokens
    <3>2. ids[k] = ConvertTokenToId(tokens[k])
      BY <1>0
    <3> QED BY <3>1, <3>2, VocabularyIsOneToOne
  <2> QED BY <2>1
<1>5. a \in SpecialTokens /\ b \in SpecialTokens /\ a \in T /\ b \in T
  BY MarkIsSpecial, TokenIsString DEF SpecialTokens
<1>6. tokens \in Seq(T)
  <2>1. \A k \in 1 .. n : tokens[k] \in T
    BY <1>0 DEF KnownTokens
  <2>2. tokens = [k \in 1 .. n |-> tokens[k]]
    BY <1>0
  <2> HIDE DEF T
  <2> QED BY <1>0, <2>1, <2>2
<1> HIDE DEF ids, cls, sep, n, T
<1>7. /\ Len(code) = n + 2 /\ code[1] = cls /\ code[n + 2] = sep
      /\ \A k \in 1 .. n : code[k + 1] = ids[k]
  <2>1. <<cls>> \in Seq(IdSet) /\ <<sep>> \in Seq(IdSet) /\ Len(<<cls>>) = 1 /\ Len(<<sep>>) = 1
    BY <1>1
  <2> DEFINE d == <<cls>> \o ids
  <2>2. d \in Seq(IdSet) /\ Len(d) = n + 1 /\ d[1] = cls /\ \A k \in 1 .. n : d[k + 1] = ids[k]
    BY <1>0, <1>2, <2>1
  <2> HIDE DEF d, code
  <2>3. Len(d \o <<sep>>) = n + 2 /\ (d \o <<sep>>)[n + 2] = sep
    BY <1>0, <2>1, <2>2
  <2>4. \A k \in 1 .. n + 1 : (d \o <<sep>>)[k] = d[k]
    BY <1>0, <2>1, <2>2
  <2>5. code = d \o <<sep>>
    BY <1>3 DEF d
  <2>6. 1 \in 1 .. n + 1 /\ \A k \in 1 .. n : k + 1 \in 1 .. n + 1
    BY <1>0
  <2> QED BY <2>2, <2>3, <2>4, <2>5, <2>6
<1> DEFINE e == (<<a>> \o tokens) \o <<b>>
<1>8. /\ Len(e) = n + 2 /\ e \in Seq(T) /\ e[1] = a /\ e[n + 2] = b
      /\ \A k \in 1 .. n : e[k + 1] = tokens[k]
  <2> HIDE DEF a, b
  <2>1. <<a>> \in Seq(T) /\ <<b>> \in Seq(T) /\ Len(<<a>>) = 1 /\ Len(<<b>>) = 1
    BY <1>5
  <2> DEFINE d == <<a>> \o tokens
  <2>2. d \in Seq(T) /\ Len(d) = n + 1 /\ d[1] = a /\ \A k \in 1 .. n : d[k + 1] = tokens[k]
    BY <1>0, <1>6, <2>1 DEF n
  <2> HIDE DEF d
  <2>3. Len(d \o <<b>>) = n + 2 /\ (d \o <<b>>)[n + 2] = b /\ d \o <<b>> \in Seq(T)
    BY <1>0, <2>1, <2>2
  <2>4. \A k \in 1 .. n + 1 : (d \o <<b>>)[k] = d[k]
    BY <1>0, <2>1, <2>2
  <2>6. 1 \in 1 .. n + 1 /\ \A k \in 1 .. n : k + 1 \in 1 .. n + 1
    BY <1>0
  <2> QED BY <2>2, <2>3, <2>4, <2>6 DEF d
<1>9. back = e
  <2>1. ASSUME NEW k \in 1 .. n + 2 PROVE ConvertIdToToken(code[k]) = e[k]
    <3> HIDE DEF code, e
    <3>1. CASE k = 1
      BY <1>7, <1>8, <3>1
    <3>2. CASE k = n + 2
      BY <1>7, <1>8, <3>2
    <3>3. CASE k # 1 /\ k # n + 2
      <4>1. k - 1 \in 1 .. n /\ (k - 1) + 1 = k
        BY <1>0, <3>3
      <4>2. code[k] = ids[k - 1] /\ e[k] = tokens[k - 1]
        BY <1>7, <1>8, <4>1
      <4> QED BY <1>4, <4>1, <4>2
    <3> QED BY <3>1, <3>2, <3>3
  <2>2. e = [k \in 1 .. n + 2 |-> e[k]]
    <3> HIDE DEF e
    <3> QED BY <1>8
  <2>3. back = [k \in 1 .. n + 2 |-> ConvertIdToToken(code[k])]
    <3> HIDE DEF code
    <3> QED BY <1>7
  <2> HIDE DEF e, back, code
  <2> QED BY <2>1, <2>2, <2>3
<1>10. Decodes(<<a>>, <<>>, <<>>)
  <2>1. <<>> \in Seq(Seq(CodePoints))
    OBVIOUS
  <2>2. a \in Seq(CodePoints)
    BY <1>5 DEF T
  <2> HIDE DEF a
  <2>3. DecodeStep(<<>>, a) = <<>>
    BY <1>5 DEF DecodeStep
  <2>4. Decodes(<<a>>, <<>>, DecodeStep(<<>>, a))
    BY <2>1, <2>2, DecodesOne
  <2> QED BY <2>3, <2>4
<1>11. Decodes(<<b>>, words, words)
  <2>2. b \in Seq(CodePoints)
    BY <1>5 DEF T
  <2> HIDE DEF b
  <2>3. DecodeStep(words, b) = words
    BY <1>5 DEF DecodeStep
  <2>4. Decodes(<<b>>, words, DecodeStep(words, b))
    BY <2>2, DecodesOne
  <2> QED BY <2>3, <2>4
<1>12. Decodes(e, <<>>, words)
  <2> HIDE DEF a, b
  <2>1. <<a>> \in Seq(Seq(CodePoints)) /\ <<b>> \in Seq(Seq(CodePoints)) /\ tokens \in Seq(Seq(CodePoints))
    BY <1>5, <1>6 DEF T
  <2>2. Decodes(<<a>> \o tokens, <<>>, words)
    BY <1>10, <2>1, DecodesBoth
  <2>3. <<a>> \o tokens \in Seq(Seq(CodePoints))
    BY <2>1, ConcatProperties
  <2> QED BY <1>11, <2>1, <2>2, <2>3, DecodesBoth
<1> HIDE DEF e, back
<1>13. Decodes(back, <<>>, words)
  BY <1>9, <1>12
<1> QED BY <1>13 DEF back

(***************************************************************************)
(* Decoding undoes encoding (BertTokenizer::Decode): for any vocabulary,   *)
(* special tokens and replacements that BertTokensAssumption allows, and   *)
(* any text all of whose pieces are known, the words come back with one    *)
(* blank between them; cleaning up removes nothing but blanks.             *)
(***************************************************************************)
THEOREM TextsComeBack == Spec => []BertRoundTrip
<1>1. TextTyped => BertRoundTrip
  <2> SUFFICES ASSUME TextTyped, NEW lower \in BOOLEAN
               PROVE  LET words == BasicTokenize(text, lower)
                          tokens == BertTokenize(text, TRUE, lower)
                          code == Encode(tokens, Unlimited)
                      IN  /\ Unknown \notin ToSet(tokens) =>
                               BertDecode(code, TRUE, FALSE) = JoinStr(words, <<Space>>)
                          /\ Inked(BertDecode(code, TRUE, TRUE)) = Inked(BertDecode(code, TRUE, FALSE))
    BY DEF BertRoundTrip
  <2> DEFINE words == BasicTokenize(text, lower)
  <2> DEFINE tokens == BertTokenize(text, TRUE, lower)
  <2> DEFINE code == Encode(tokens, Unlimited)
  <2> DEFINE back == [k \in 1 .. Len(code) |-> ConvertIdToToken(code[k])]
  <2>1. words \in Seq(BasicWords)
    BY WordsAreBasic DEF TextTyped
  <2>2. tokens = WordpieceTokenize(words)
    BY DEF BertTokenize
  <2> HIDE DEF words
  <2>3. tokens \in Seq(AnyPiece)
    <3> DEFINE n == Len(words)
    <3> DEFINE seqs == [k \in DOMAIN words |-> GreedySearch(words[k])]
    <3>1. n \in Nat /\ DOMAIN words = 1 .. n /\ \A k \in 1 .. n : words[k] \in BasicWords
      BY <2>1
    <3>2. \A k \in 1 .. n : GreedySearch(words[k]) \in Seq(AnyPiece)
      BY <3>1, SearchIsTyped
    <3>3. seqs \in Seq(Seq(AnyPiece))
      <4> HIDE DEF n
      <4> QED BY <3>1, <3>2
    <3>4. FlattenSeq(seqs) \in Seq(AnyPiece)
      <4> HIDE DEF seqs
      <4> QED BY <3>3, FlattenType
    <3> HIDE DEF tokens
    <3> QED BY <2>2, <3>4 DEF WordpieceTokenize
  <2> HIDE DEF tokens
  <2>4. code \in Seq(IdSet)
    BY <2>3, EncodeTyped
  <2> HIDE DEF code
  <2>5. PICK x \in Seq(Seq(CodePoints)) :
          BertDecode(code, TRUE, FALSE) = JoinStr(x, <<Space>>) /\ Decodes(back, <<>>, x)
    BY <2>4, DecodingIs
  <2>6. BertDecode(code, TRUE, TRUE) = CleanUpTokenization(BertDecode(code, TRUE, FALSE))
    BY DEF BertDecode
  <2>7. Inked(BertDecode(code, TRUE, TRUE)) = Inked(BertDecode(code, TRUE, FALSE))
    <3>1. BertDecode(code, TRUE, FALSE) \in Seq(CodePoints)
      BY <2>5, JoinedIsString
    <3> QED BY <2>6, <3>1, CleaningShows
  <2>8. ASSUME Unknown \notin ToSet(tokens) PROVE BertDecode(code, TRUE, FALSE) = JoinStr(words, <<Space>>)
    <3>1. tokens \in Seq(KnownTokens) /\ Decodes(tokens, <<>>, words)
      BY <2>1, <2>2, <2>8, WordsDecode
    <3>2. words \in Seq(Seq(CodePoints))
      <4>1. BasicWords \subseteq Seq(CodePoints)
        BY DEF BasicWords
      <4>2. \A k \in 1 .. Len(words) : words[k] \in Seq(CodePoints)
        BY <2>1, <4>1
      <4>3. words = [k \in 1 .. Len(words) |-> words[k]] /\ Len(words) \in Nat
        BY <2>1
      <4> DEFINE T == Seq(CodePoints)
      <4> HIDE DEF T
      <4>4. \A k \in 1 .. Len(words) : words[k] \in T
        BY <4>2 DEF T
      <4>5. words \in Seq(T)
        BY <4>3, <4>4
      <4> QED BY <4>5 DEF T
    <3>3. Decodes(back, <<>>, words)
      BY <3>1, <3>2, TokensComeBack DEF code
    <3>4. back \in Seq(Seq(CodePoints))
      <4>1. Len(code) \in Nat
        BY <2>4
      <4>2. \A k \in 1 .. Len(code) : ConvertIdToToken(code[k]) \in Seq(CodePoints)
        BY TokenIsString
      <4> QED BY <4>1, <4>2
    <3> HIDE DEF back
    <3>5. x = words
      BY <2>5, <3>3, <3>4, DecodesOnly
    <3> QED BY <2>5, <3>5
  <2> QED BY <2>7, <2>8 DEF words, tokens, code
<1> QED BY <1>1, TextIsTyped, PTL

=============================================================================

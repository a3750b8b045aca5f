------------------------------ MODULE MCTagger ------------------------------
(***************************************************************************)
(* Small jobs: a corpus that can be learned, one that cannot, one of which *)
(* nothing remains to be learned after the first pass, and a file written  *)
(* by hand, with comments, tag constraints, features of two sets and       *)
(* without a blank line at its end; each in chunks of several sizes, so    *)
(* that there are one, two and more than two.                              *)
(***************************************************************************)
EXTENDS TaggerTraining

UniBigrams == <<1, 2>>
Falling == [alg \in {"perceptron", "l1sgd"} |->
              IF alg = "l1sgd" THEN <<6, 4, 4, 4, 4, 4>> ELSE <<3, 2, 2, 1, 1, 1>>]
Warm == [alg \in {"perceptron", "l1sgd"} |-> IF alg = "l1sgd" THEN 2 ELSE 0]
Spelled == [a |-> <<"x">>, b |-> <<"y", "x">>]
Expressions == << <<"x">>, <<"y", "x", " ", "x">> >>

S(tokens, labels) == [tokens |-> tokens, labels |-> labels]
W(label, features) == [kind |-> "word", label |-> label, features |-> features]
Line(kind) == [kind |-> kind]

Learnable == << S(<<"a", "b">>, <<0, 1>>), S(<<"b", "a", "b">>, <<1, 0, 1>>),
                S(<<"a">>, <<0>>), S(<<"b", "b">>, <<1, 1>>) >>
Contradictory == << S(<<"a", "b">>, <<1, 0>>), S(<<"a", "b">>, <<0, 1>>),
                    S(<<"b", "a">>, <<1, 1>>) >>
Short == << S(<<"a", "b">>, <<0, 1>>), S(<<"b", "a">>, <<1, 0>>) >>
AtOnce == << S(<<"a">>, <<1>>) >>

ByHand == << Line("comment"), W(2, <<<<1, 4, 1>>, <<2, 4, 2>>>>), W(0, <<<<1, 4, 1>>>>),
             Line("blank"), Line("blank"), [kind |-> "tags", tags |-> <<0, 1, 9>>],
             W(0, <<>>), W(0, <<<<2, 5, 1>>>>), Line("blank"),
             W(1, <<<<1, 5, 1>>>>), Line("blank"), W(1, <<<<1, 7, 1>>>>) >>

Same == [n \in 1 .. 4 |-> [k \in 1 .. n |-> k]]
Turned == [n \in 1 .. 4 |-> [k \in 1 .. n |-> IF k = n THEN 1 ELSE k + 1]]
Reversed == [n \in 1 .. 4 |-> [k \in 1 .. n |-> n + 1 - k]]

Plain == [alg |-> "perceptron", crf |-> "vanilla", again |-> FALSE, reset |-> FALSE, expand |-> TRUE]

Job(corpus, lines, sizes, options) ==
  {[corpus |-> corpus, file |-> lines, size |-> n, order |-> order] @@ o :
     n \in sizes, order \in {Same, Turned, Reversed}, o \in options}

L1(kind) == [Plain EXCEPT !.alg = "l1sgd", !.crf = kind]
Constrained == [Plain EXCEPT !.crf = "constrained"]
Again(reset, expand) == [Plain EXCEPT !.again = TRUE, !.reset = reset, !.expand = expand]

AllJobs ==
  UNION {Job(Learnable, <<>>, {1, 2, 4}, {Plain}), Job(Learnable, <<>>, {2}, {L1("vanilla")}),
         Job(Contradictory, <<>>, {1, 2}, {Plain, L1("vanilla")}),
         Job(AtOnce, <<>>, {2}, {Plain, L1("constrained"), Again(TRUE, TRUE), Again(FALSE, FALSE)}),
         Job(Short, <<>>, {1, 2}, {L1("sparse"), L1("constrained"), Again(FALSE, TRUE)}),
         Job(<<>>, ByHand, {1, 2}, {Plain, Constrained})}
=============================================================================

---------------------------- MODULE MCModelStore ----------------------------
(***************************************************************************)
(* Processes and kinds of objects of the model-checking runs of ModelStore.*)
(***************************************************************************)
EXTENDS ModelStoreInv

CONSTANTS a, b, d, e

OneHome == [p \in {a} |-> {d}]
SomeShared == [p \in {a, b} |-> IF p = a THEN {d} ELSE {d, e}]

Regexes == {"regex"}
Tokenizers == {"tokenizer"}
Composite == {"regex", "ort_session", "linear_svm"}
NoKinds == {}

=============================================================================

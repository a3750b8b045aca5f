--------------------------- MODULE MCDynamicBatch ---------------------------
(***************************************************************************)
(* Requests for the model-checking runs of DynamicBatch.                   *)
(***************************************************************************)
EXTENDS DynamicBatchInv

CONSTANTS c1, c2, c3, s1, s2, float, int32, half

A(shape, elem, rows) == [shape |-> shape, elem |-> elem, rows |-> rows]

ShapesBoth == {s1, s2}
ElemsAll == {float, int32, half}
ElemsSupported == {float, int32}

(* Two inputs, the second with an inner shape that varies. *)
RaggedRequests ==
  [c \in Calls |-> {<<A(s1, float, 1), A(s, float, 1)>> : s \in Shapes}]

(***************************************************************************)
(* Calls that can share a batch.  The first has two rows and a second      *)
(* input of any element type; the second call's second input may be of the *)
(* other inner shape.                                                      *)
(***************************************************************************)
MixedRequests ==
  [c \in Calls |->
     CASE c = c1 -> {<<A(s1, float, 2), A(s1, e, 2)>> : e \in Elems}
       [] c = c2 -> {<<A(s1, float, 1), A(s, float, 1)>> : s \in Shapes}
       [] OTHER -> {<<A(s1, float, 1), A(s1, float, 1)>>}]
=============================================================================

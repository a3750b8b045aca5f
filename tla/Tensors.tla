------------------------------ MODULE Tensors ------------------------------
(***************************************************************************)
(* The tensors an OrtSession call carries and what the ONNX model makes    *)
(* of them: pyis/ops/ort_session/ort_tensor_utils.cpp, and ONNX Runtime    *)
(* itself, which is external.                                              *)
(*                                                                         *)
(* A tensor keeps what the batching code looks at or mixes up: its shape   *)
(* past the leading dimension (rank included), its element type, and its   *)
(* rows, i.e. its slices along the leading dimension.  The content of a    *)
(* row is its origin: <<c, k>> is row k of the tensor call c passed.       *)
(* <<c, 0>> stands for bytes of c's tensor read at the wrong element type. *)
(***************************************************************************)
EXTENDS Naturals, Sequences

CONSTANTS
  Calls,           \* the calls of OrtSession::Run made on one session
  NumInputs,       \* input_names.size()
  Shapes,          \* shapes past the leading dimension
  ModelShapes,     \* those the model accepts
  Elems,           \* tensor element types
  SupportedElems,  \* those ort_tensor_utils.cpp handles
  ModelElem,       \* the one the model's inputs are declared with
  MaxRows,         \* bound on the leading dimension of one argument
  Requests         \* Requests[c]: the argument lists call c may be made with

Inputs == 1 .. NumInputs

Arg == [shape : Shapes, elem : Elems, rows : 0 .. MaxRows]

ArgList == [Inputs -> Arg]

ASSUME CallsAssumption == Calls # {}
ASSUME NumInputsAssumption == NumInputs \in Nat \ {0}
ASSUME ModelAssumption ==
  /\ Shapes # {}
  /\ ModelShapes \subseteq Shapes
  /\ SupportedElems \subseteq Elems
  /\ ModelElem \in SupportedElems
ASSUME RowsAssumption == MaxRows \in Nat
ASSUME RequestsAssumption == Requests \in [Calls -> SUBSET ArgList]

(* An argument list for every call. *)
Arguments ==
  {f \in [Calls -> UNION {Requests[c] : c \in Calls}] :
      \A c \in Calls : f[c] \in Requests[c]}

Row == Calls \X (0 .. MaxRows)

Tensor == [shape : Shapes, elem : Elems, rows : Seq(Row)]

(* What the model returns for one row of its inputs: a function of them.   *)
OutputRow == [Inputs -> Row]

(* The tensors call c passes for the argument list a. *)
ArgTensors(c, a) ==
  [i \in Inputs |-> [shape |-> a[i].shape, elem |-> a[i].elem,
                     rows |-> [k \in 1 .. a[i].rows |-> <<c, k>>]]]

(***************************************************************************)
(* ConcatTensors(src, tgt).  Rank and inner dimensions are compared, and   *)
(* the type of src has to be one the code handles; the type of tgt is      *)
(* never looked at, its bytes are copied as if it were src's.              *)
(***************************************************************************)
CanConcat(src, tgt) == src.shape = tgt.shape /\ src.elem \in SupportedElems

ReadAs(rows, same) ==
  [k \in 1 .. Len(rows) |-> IF same THEN rows[k] ELSE <<rows[k][1], 0>>]

(* Mutant: the rows end up in front of the ones already there.             *)
ConcatInFront(src, tgt) ==
  [src EXCEPT !.rows = ReadAs(tgt.rows, src.elem = tgt.elem) \o @]

ConcatTensors(src, tgt) ==
  [src EXCEPT !.rows = @ \o ReadAs(tgt.rows, src.elem = tgt.elem)]

(***************************************************************************)
(* Ort::Session::Run (external).  The model declares one element type, a   *)
(* set of inner shapes and a leading dimension shared by its inputs; Run   *)
(* throws on anything else.  Row k of the output depends on row k of every *)
(* input and on nothing else.                                              *)
(***************************************************************************)
ModelAccepts(t) ==
  \A i \in Inputs : /\ t[i].elem = ModelElem
                    /\ t[i].shape \in ModelShapes
                    /\ Len(t[i].rows) = Len(t[1].rows)

ModelOutput(t) == [k \in 1 .. Len(t[1].rows) |-> [i \in Inputs |-> t[i].rows[k]]]

(* GetTensorSliceByIndexSpan: the rows first + 1 .. last of an output,     *)
(* which begin where first rows before them end.                           *)
CanSlice(out, first, last) == first <= last /\ last <= Len(out)
Slice(out, first, last) == SubSeq(out, first + 1, last)

(***************************************************************************)
(* What a call is worth on its own, with no other call around: the         *)
(* session without dynamic batching.                                       *)
(***************************************************************************)
Acceptable(a) ==
  \A i \in Inputs : /\ a[i].elem = ModelElem
                    /\ a[i].shape \in ModelShapes
                    /\ a[i].rows = a[1].rows

SameShapes(a, b) == \A i \in Inputs : a[i].shape = b[i].shape

OwnOutput(c, a) == [k \in 1 .. a[1].rows |-> [i \in Inputs |-> <<c, k>>]]

============================================================================

--------------------------- MODULE MCModelContext ---------------------------
(***************************************************************************)
(* The threads of the model-checking runs of ModelContext.                 *)
(***************************************************************************)
EXTENDS ModelContext

CONSTANTS p1, p2, n1, n2, n3

OnePython == {p1}
TwoPython == {p1, p2}
Callers == {p1, n1, n2, n3}
OneSample == {n3}
Nobody == {}

=============================================================================

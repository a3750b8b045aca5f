-------------------------- MODULE ModelRepository --------------------------
(***************************************************************************)
(* What save and load promise about the models on disk, whatever files     *)
(* they are made of and whichever process writes them: a model is torn     *)
(* while it is being saved, and stays torn if that is cut short; once it   *)
(* has been saved nothing but saving it again changes it.                  *)
(***************************************************************************)
EXTENDS Sequences

CONSTANTS Paths, Data, None, Partial

VARIABLE model   \* model[x]: the contents of the objects saved at x

Init == model = [x \in Paths |-> None]

Begin(x) == model' = [model EXCEPT ![x] = Partial]

Commit(x) ==
  /\ model[x] = Partial
  /\ model'[x] \in Seq(Data)
  /\ model' = [model EXCEPT ![x] = model'[x]]

Next == \E x \in Paths : Begin(x) \/ Commit(x)

Spec == Init /\ [][Next]_model

=============================================================================

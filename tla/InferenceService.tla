-------------------------- MODULE InferenceService --------------------------
(***************************************************************************)
(* What OrtSession::Run promises its callers, batched or not: a call ends  *)
(* with the model's output on its own arguments, or with an exception, and *)
(* the process goes down only when the calls made so far give cause to.    *)
(* How calls are gathered, queued and cut apart again is not said here:    *)
(* DynamicBatch implements this module.                                    *)
(***************************************************************************)
EXTENDS Tensors

VARIABLES
  status,  \* status[c]: how far call c is
  args,    \* args[c]: what c is called with
  answer,  \* answer[c]: the rows c returned with
  alive    \* the process has not been terminated

svars == <<status, args, answer, alive>>

Init ==
  /\ status = [c \in Calls |-> "idle"]
  /\ args \in Arguments
  /\ answer = [c \in Calls |-> <<>>]
  /\ alive = TRUE

Begin(c) ==
  /\ status[c] = "idle"
  /\ status' = [status EXCEPT ![c] = "pending"]
  /\ UNCHANGED <<args, answer, alive>>

(* The only answer there is: the model's output on the call's own rows.    *)
Answer(c) ==
  /\ status[c] = "pending"
  /\ Acceptable(args[c])
  /\ status' = [status EXCEPT ![c] = "returned"]
  /\ answer' = [answer EXCEPT ![c] = OwnOutput(c, args[c])]
  /\ UNCHANGED <<args, alive>>

(* Nothing is promised about the content of an answer to a call the model  *)
(* would have rejected.                                                    *)
AnswerAnything(c) ==
  /\ status[c] = "pending"
  /\ ~Acceptable(args[c])
  /\ status' = [status EXCEPT ![c] = "returned"]
  /\ answer' \in [Calls -> Seq(OutputRow)]
  /\ \A d \in Calls \ {c} : answer'[d] = answer[d]
  /\ UNCHANGED <<args, alive>>

Made == {c \in Calls : status[c] # "idle"}

(* Two calls whose shapes differ, or one the model would reject by itself. *)
Trouble ==
  \E c, d \in Made : ~Acceptable(args[c]) \/ ~SameShapes(args[c], args[d])

(* A call is refused only next to a call it cannot be batched with.        *)
Refuse(c) ==
  /\ status[c] = "pending"
  /\ Trouble
  /\ status' = [status EXCEPT ![c] = "threw"]
  /\ UNCHANGED <<args, answer, alive>>

Timeout(c) ==
  /\ status[c] = "pending"
  /\ status' = [status EXCEPT ![c] = "timedout"]
  /\ UNCHANGED <<args, answer, alive>>

Die ==
  /\ Trouble
  /\ alive' = FALSE
  /\ UNCHANGED <<status, args, answer>>

Next ==
  /\ alive
  /\ \/ \E c \in Calls : \/ Begin(c) \/ Answer(c) \/ AnswerAnything(c)
                          \/ Refuse(c) \/ Timeout(c)
     \/ Die

Spec == Init /\ [][Next]_svars

=============================================================================

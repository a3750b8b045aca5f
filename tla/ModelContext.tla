---------------------------- MODULE ModelContext ----------------------------
(***************************************************************************)
(* The one active ModelContext of a process (pyis/share/model_context.cpp) *)
(* and the threads that take turns with it: the Python save and load of    *)
(* py/pyis-python/pyis/python/model_context.py, which run under the        *)
(* interpreter lock, and native callers of the C API, which do not.        *)
(*                                                                         *)
(* A context is named after the thread that created it.  What happens in   *)
(* the body, while the context is active, is module ModelStore.            *)
(***************************************************************************)

CONSTANTS
  Threads,   \* the threads that use a context
  Python,    \* those that come through the pybind11 module
  Sample,    \* native ones that follow the sample in pyis_c_api.h
  NoThread   \* nobody: no lock owner, no active context

ASSUME ContextAssumption ==
  /\ Python \subseteq Threads
  /\ Sample \subseteq Threads \ Python
  /\ NoThread \notin Threads

VARIABLES
  gil,     \* the Python thread that holds the interpreter lock, or NoThread
  mutex,   \* owner of model_context_mutex, or NoThread
  active,  \* active_model_context, or NoThread for nullptr
  pc,      \* pc[t]: where t is in its use of a context
  alive    \* the process has not been terminated

vars == <<gil, mutex, active, pc, alive>>

Places == {"idle", "lock", "publish", "body", "exit", "unlock"}

(* A Python thread runs only while it holds the interpreter lock. *)
Running(t) == alive /\ (t \in Python => gil = t)

Goto(t, l) == pc' = [pc EXCEPT ![t] = l]

(***************************************************************************)
(* Mutants: slips this code could have, each of which breaks a property.   *)
(***************************************************************************)

(* Activate without model_context_mutex. *)
LockNothing(t) ==
  /\ Running(t)
  /\ pc[t] = "lock"
  /\ Goto(t, "publish")
  /\ UNCHANGED <<gil, mutex, active, alive>>

(* Deactivate forgets to reset active_model_context. *)
ClearNothing(t) ==
  /\ Running(t)
  /\ pc[t] = "exit"
  /\ active = t
  /\ Goto(t, "unlock")
  /\ UNCHANGED <<gil, mutex, active, alive>>

(* The body is not in a with block: an exception skips the deactivation. *)
LeaveUnguarded(t) ==
  /\ Running(t)
  /\ pc[t] = "body"
  /\ Goto(t, "exit") \/ Goto(t, "idle")
  /\ UNCHANGED <<gil, mutex, active, alive>>

-----------------------------------------------------------------------------

Init ==
  /\ gil = NoThread
  /\ mutex = NoThread
  /\ active = NoThread
  /\ pc = [t \in Threads |-> "idle"]
  /\ alive = TRUE

(***************************************************************************)
(* The interpreter hands its lock around between bytecodes.  activate and  *)
(* deactivate are bound without a call guard: a thread keeps the lock      *)
(* while it is in them, also while it waits for model_context_mutex.       *)
(***************************************************************************)
TakeGil(t) ==
  /\ alive
  /\ t \in Python
  /\ gil = NoThread
  /\ gil' = t
  /\ UNCHANGED <<mutex, active, pc, alive>>

DropGil(t) ==
  /\ alive
  /\ t \in Python
  /\ gil = t
  /\ pc[t] \in {"idle", "body"}
  /\ gil' = NoThread
  /\ UNCHANGED <<mutex, active, pc, alive>>

(***************************************************************************)
(* __enter__: the thread creates its context and calls Activate.  The      *)
(* sample calls Deactivate in its place.                                   *)
(***************************************************************************)
Enter(t) ==
  /\ Running(t)
  /\ pc[t] = "idle"
  /\ Goto(t, IF t \in Sample THEN "exit" ELSE "lock")
  /\ UNCHANGED <<gil, mutex, active, alive>>

(* Activate, in the order of its two lines. *)
Lock(t) ==
  /\ Running(t)
  /\ pc[t] = "lock"
  /\ mutex = NoThread
  /\ mutex' = t
  /\ Goto(t, "publish")
  /\ UNCHANGED <<gil, active, alive>>

Publish(t) ==
  /\ Running(t)
  /\ pc[t] = "publish"
  /\ active' = t
  /\ Goto(t, "body")
  /\ UNCHANGED <<gil, mutex, alive>>

(* The body ends, by itself or with an exception; __exit__ runs. *)
Leave(t) ==
  /\ Running(t)
  /\ pc[t] = "body"
  /\ Goto(t, "exit")
  /\ UNCHANGED <<gil, mutex, active, alive>>

(* Deactivate of the active context. *)
Clear(t) ==
  /\ Running(t)
  /\ pc[t] = "exit"
  /\ active = t
  /\ active' = NoThread
  /\ Goto(t, "unlock")
  /\ UNCHANGED <<gil, mutex, alive>>

Unlock(t) ==
  /\ Running(t)
  /\ pc[t] = "unlock"
  /\ mutex' = NoThread
  /\ Goto(t, "idle")
  /\ UNCHANGED <<gil, active, alive>>

(***************************************************************************)
(* Deactivate of any other context throws.  The sample's scope guard then  *)
(* calls it again while the exception unwinds: the process is terminated.  *)
(***************************************************************************)
DeactivateThrows(t) ==
  /\ Running(t)
  /\ pc[t] = "exit"
  /\ active # t
  /\ alive' = FALSE
  /\ UNCHANGED <<gil, mutex, active, pc>>

Step(t) ==
  \/ Enter(t) \/ Lock(t) \/ Publish(t) \/ Leave(t)
  \/ Clear(t) \/ Unlock(t) \/ DeactivateThrows(t)

Next == \E t \in Threads : Step(t) \/ TakeGil(t) \/ DropGil(t)

(***************************************************************************)
(* Threads keep running once they have called Activate, a body ends, and   *)
(* every thread that waits for the interpreter lock gets it in the end,    *)
(* for long enough to do a step.  std::mutex promises no such thing: a     *)
(* thread may lose the race for it forever.                                *)
(***************************************************************************)
Fairness ==
  \A t \in Threads :
    /\ WF_vars(Lock(t) \/ Publish(t) \/ Clear(t) \/ Unlock(t))
    /\ SF_vars(Leave(t))
    /\ SF_vars(TakeGil(t))
    /\ WF_vars(DropGil(t))

Spec == Init /\ [][Next]_vars /\ Fairness

-----------------------------------------------------------------------------

TypeOK ==
  /\ gil \in Python \cup {NoThread}
  /\ mutex \in Threads \cup {NoThread}
  /\ active \in Threads \cup {NoThread}
  /\ pc \in [Threads -> Places]
  /\ alive \in BOOLEAN

(* The threads between taking model_context_mutex and giving it back, and  *)
(* those whose context is the active one.                                  *)
Holds(t) == pc[t] \in {"publish", "body", "unlock"}
            \/ (pc[t] = "exit" /\ t \notin Sample)
IsActive(t) == pc[t] = "body" \/ (pc[t] = "exit" /\ t \notin Sample)

(* The mutex has at most one owner, who is in the section it protects, and *)
(* active_model_context is nullptr outside of bodies.                      *)
MutexInv ==
  /\ \A t \in Threads : Holds(t) <=> mutex = t
  /\ \A t \in Threads : IsActive(t) <=> active = t
  /\ \A t \in Sample : pc[t] \in {"idle", "exit"}

IndInv == TypeOK /\ MutexInv

(***************************************************************************)
(* What GetActive() hands to a thread that is in its body is that thread's *)
(* own context, although GetActive takes no lock: the objects it saves and *)
(* loads never end up in another model's directory.                        *)
(***************************************************************************)
OwnContextInBody == \A t \in Threads : pc[t] = "body" => active = t

(***************************************************************************)
(* "You CAN NOT activate two model context instances at the same time"     *)
(* (pyis_c_api.h:29): no activation replaces another.                      *)
(***************************************************************************)
TurnsTaken ==
  [][active' # active => active = NoThread \/ active' = NoThread]_vars

(***************************************************************************)
(* "Deactivation needs to be guaranteed when model loading or saving is    *)
(* done" or is interrupted (pyis_c_api.h:34), which the with blocks are    *)
(* there for: a context that was activated is deactivated in the end.      *)
(***************************************************************************)
DeactivationGuaranteed ==
  \A t \in Threads : active = t ~> (active # t \/ ~alive)

=============================================================================

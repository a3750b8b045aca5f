------------------------ MODULE ModelContext_proofs ------------------------
(***************************************************************************)
(* Proofs about ModelContext, for any threads of any kind.                 *)
(***************************************************************************)
EXTENDS ModelContext, TLAPS

(* The mutex goes from its owner's section to nobody and on to the next:   *)
(* ownership and publication are preserved by every step of every thread.  *)
LEMMA IndInvPreserved == IndInv /\ [Next]_vars => IndInv'
<1> SUFFICES ASSUME IndInv, [Next]_vars PROVE IndInv'
  OBVIOUS
<1> USE ContextAssumption DEF IndInv, TypeOK, MutexInv, Holds, IsActive,
                              Places, Goto, Running
<1>1. CASE UNCHANGED vars
  BY <1>1 DEF vars
<1>2. ASSUME NEW t \in Threads, TakeGil(t) \/ DropGil(t)
      PROVE  IndInv'
  BY <1>2 DEF TakeGil, DropGil
<1>3. ASSUME NEW t \in Threads, Enter(t)
      PROVE  IndInv'
  BY <1>3 DEF Enter
<1>4. ASSUME NEW t \in Threads, Lock(t)
      PROVE  IndInv'
  BY <1>4 DEF Lock
<1>5. ASSUME NEW t \in Threads, Publish(t)
      PROVE  IndInv'
  BY <1>5 DEF Publish
<1>6. ASSUME NEW t \in Threads, Leave(t)
      PROVE  IndInv'
  BY <1>6 DEF Leave
<1>7. ASSUME NEW t \in Threads, Clear(t)
      PROVE  IndInv'
  BY <1>7 DEF Clear
<1>8. ASSUME NEW t \in Threads, Unlock(t)
      PROVE  IndInv'
  BY <1>8 DEF Unlock
<1>9. ASSUME NEW t \in Threads, DeactivateThrows(t)
      PROVE  IndInv'
  BY <1>9 DEF DeactivateThrows
<1>. QED
  BY <1>1, <1>2, <1>3, <1>4, <1>5, <1>6, <1>7, <1>8, <1>9 DEF Next, Step

(* The inductive invariant: model_context_mutex excludes, and              *)
(* active_model_context follows it.                                        *)
THEOREM MutexCorrect == Spec => []IndInv
<1>1. Init => IndInv
  BY ContextAssumption
     DEF Init, IndInv, TypeOK, MutexInv, Holds, IsActive, Places
<1>2. IndInv /\ [Next]_vars => IndInv'
  BY IndInvPreserved
<1>. QED
  BY <1>1, <1>2, PTL DEF Spec

(* A thread in its body sees its own context, for any number of threads,   *)
(* also when some of them misuse Deactivate.                               *)
THEOREM ContextCorrect == Spec => []OwnContextInBody
<1>1. IndInv => OwnContextInBody
  BY DEF IndInv, MutexInv, IsActive, OwnContextInBody
<1>. QED
  BY <1>1, MutexCorrect, PTL

(* No activation ever replaces an active context.                          *)
THEOREM TurnsCorrect == Spec => TurnsTaken
<1>1. ASSUME IndInv, [Next]_vars
      PROVE  active' # active => active = NoThread \/ active' = NoThread
  <2> USE <1>1 DEF IndInv, MutexInv, TypeOK
  <2>1. ASSUME NEW t \in Threads, Publish(t)
        PROVE  active = NoThread
    BY <2>1, ContextAssumption DEF Publish, Holds, IsActive
  <2>2. ASSUME NEW t \in Threads, Clear(t)
        PROVE  active' = NoThread
    BY <2>2 DEF Clear
  <2>. QED
    BY <2>1, <2>2 DEF Next, Step, TakeGil, DropGil, Enter, Lock, Leave,
                      Unlock, DeactivateThrows, vars
<1>2. IndInv /\ [Next]_vars
        => [active' # active => active = NoThread \/ active' = NoThread]_vars
  BY <1>1
<1>. QED
  BY <1>2, MutexCorrect, PTL DEF Spec, TurnsTaken

=============================================================================

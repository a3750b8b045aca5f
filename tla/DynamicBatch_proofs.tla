------------------------ MODULE DynamicBatch_proofs ------------------------
(***************************************************************************)
(* Proofs about DynamicBatch: what holds whatever the calls carry, types,  *)
(* the mutex, the queue, wakeups and promises; then the rows of calls.     *)
(***************************************************************************)
EXTENDS DynamicBatchInv, SequenceTheorems, TLAPS

-----------------------------------------------------------------------------
(* The operators on tensors return what their names say. *)

LEMMA OneIsInput == 1 \in Inputs
BY NumInputsAssumption DEF Inputs

(* A sequence given by its elements. *)
LEMMA SeqOfElements ==
  ASSUME NEW S, NEW n \in Nat, NEW s \in [1 .. n -> S]
  PROVE  s \in Seq(S) /\ Len(s) = n
<1>1. s \in Seq(S)
  BY SeqDef
<1>2. DOMAIN s = 1 .. Len(s) /\ Len(s) \in Nat
  BY <1>1, LenProperties
<1> QED
  BY <1>1, <1>2

(* What Append adds, and where. *)
LEMMA AppendOne ==
  ASSUME NEW S, NEW s \in Seq(S), NEW e \in S
  PROVE  /\ Append(s, e) \in Seq(S) /\ Append(s, e) # <<>>
         /\ Len(s) \in Nat /\ Len(Append(s, e)) = Len(s) + 1
         /\ Append(s, e)[Len(s) + 1] = e
         /\ \A n \in 1 .. Len(s) : Append(s, e)[n] = s[n]
         /\ \A n \in 1 .. Len(Append(s, e)) : n \in 1 .. Len(s) \/ n = Len(s) + 1
         /\ s = <<>> => Len(Append(s, e)) = 1
<1>1. /\ Append(s, e) \in Seq(S)
      /\ Len(s) \in Nat /\ Len(Append(s, e)) = Len(s) + 1
      /\ Append(s, e)[Len(s) + 1] = e
      /\ \A n \in 1 .. Len(s) : Append(s, e)[n] = s[n]
  OBVIOUS
<1>2. Append(s, e) # <<>>
  BY <1>1, EmptySeq
<1>3. s = <<>> => Len(s) = 0
  BY EmptySeq
<1>4. \A n \in 1 .. Len(Append(s, e)) : n \in 1 .. Len(s) \/ n = Len(s) + 1
  BY <1>1
<1> QED
  BY <1>1, <1>2, <1>3, <1>4

(* Concatenation, piece by piece. *)
LEMMA ConcatPieces ==
  ASSUME NEW S, NEW p \in Seq(S), NEW q \in Seq(S)
  PROVE  /\ p \o q \in Seq(S)
         /\ Len(p \o q) = Len(p) + Len(q)
         /\ \A k \in 1 .. Len(p) : (p \o q)[k] = p[k]
         /\ \A k \in 1 .. Len(q) : (p \o q)[Len(p) + k] = q[k]
<1>1. /\ p \o q \in Seq(S)
      /\ Len(p \o q) = Len(p) + Len(q)
      /\ \A i \in 1 .. Len(p) + Len(q) :
            (p \o q)[i] = IF i <= Len(p) THEN p[i] ELSE q[i - Len(p)]
  BY ConcatProperties, Zenon
<1>2. Len(p) \in Nat /\ Len(q) \in Nat
  BY LenProperties
<1>3. ASSUME NEW k \in 1 .. Len(q)
      PROVE  (p \o q)[Len(p) + k] = q[k]
  <2>1. Len(p) + k \in 1 .. Len(p) + Len(q) /\ ~(Len(p) + k <= Len(p))
    BY <1>2
  <2>2. (p \o q)[Len(p) + k] = q[Len(p) + k - Len(p)]
    BY <1>1, <2>1
  <2>3. Len(p) + k - Len(p) = k
    BY <1>2
  <2> QED
    BY <2>2, <2>3, Zenon
<1>4. ASSUME NEW k \in 1 .. Len(p)
      PROVE  (p \o q)[k] = p[k]
  <2>1. k \in 1 .. Len(p) + Len(q) /\ k <= Len(p)
    BY <1>2
  <2> QED
    BY <1>1, <2>1, Zenon
<1> QED
  BY <1>1, <1>3, <1>4

(* The tensors of a call have its rows, in order. *)
LEMMA ArgTensorsType ==
  ASSUME NEW c \in Calls, NEW a \in ArgList
  PROVE  /\ ArgTensors(c, a) \in [Inputs -> Tensor]
         /\ \A i \in Inputs :
               /\ ArgTensors(c, a)[i].shape = a[i].shape
               /\ ArgTensors(c, a)[i].elem = a[i].elem
               /\ Len(ArgTensors(c, a)[i].rows) = a[i].rows
               /\ \A k \in 1 .. a[i].rows : ArgTensors(c, a)[i].rows[k] = <<c, k>>
<1>1. SUFFICES ASSUME NEW i \in Inputs
               PROVE  /\ ArgTensors(c, a)[i] \in Tensor
                      /\ ArgTensors(c, a)[i].shape = a[i].shape
                      /\ ArgTensors(c, a)[i].elem = a[i].elem
                      /\ Len(ArgTensors(c, a)[i].rows) = a[i].rows
                      /\ \A k \in 1 .. a[i].rows :
                            ArgTensors(c, a)[i].rows[k] = <<c, k>>
  BY Zenon DEF ArgTensors
<1>2. a[i] \in Arg /\ a[i].shape \in Shapes /\ a[i].elem \in Elems /\ a[i].rows \in 0 .. MaxRows
  BY DEF ArgList, Arg
<1> DEFINE rows == [k \in 1 .. a[i].rows |-> <<c, k>>]
<1>3. rows \in [1 .. a[i].rows -> Row]
  BY <1>2, RowsAssumption DEF Row
<1>4. rows \in Seq(Row) /\ Len(rows) = a[i].rows
  <2> a[i].rows \in Nat
    BY <1>2, RowsAssumption
  <2> QED
    BY <1>3, SeqOfElements
<1>5. ArgTensors(c, a)[i] = [shape |-> a[i].shape, elem |-> a[i].elem, rows |-> rows]
  BY DEF ArgTensors
<1> QED
  BY <1>2, <1>4, <1>5 DEF Tensor

(* Concatenation appends the rows of the second tensor to the first. *)
LEMMA ConcatTensorsType ==
  ASSUME NEW s \in Tensor, NEW t \in Tensor
  PROVE  /\ ConcatTensors(s, t) \in Tensor
         /\ ConcatTensors(s, t).shape = s.shape
         /\ ConcatTensors(s, t).elem = s.elem
         /\ Len(ConcatTensors(s, t).rows) = Len(s.rows) + Len(t.rows)
         /\ \A k \in 1 .. Len(s.rows) : ConcatTensors(s, t).rows[k] = s.rows[k]
         /\ \A k \in 1 .. Len(t.rows) :
               ConcatTensors(s, t).rows[Len(s.rows) + k] =
                  IF s.elem = t.elem THEN t.rows[k] ELSE <<t.rows[k][1], 0>>
<1> DEFINE r == ReadAs(t.rows, s.elem = t.elem)
<1>1. /\ s.rows \in Seq(Row) /\ t.rows \in Seq(Row)
      /\ Len(s.rows) \in Nat /\ Len(t.rows) \in Nat
  BY DEF Tensor
<1>2. \A k \in 1 .. Len(t.rows) : t.rows[k] \in Row
  BY <1>1
<1>3. r \in [1 .. Len(t.rows) -> Row]
  BY <1>2, RowsAssumption DEF ReadAs, Row
<1>4. r \in Seq(Row) /\ Len(r) = Len(t.rows)
  BY <1>1, <1>3, SeqOfElements
<1>5. \A k \in 1 .. Len(t.rows) :
         r[k] = IF s.elem = t.elem THEN t.rows[k] ELSE <<t.rows[k][1], 0>>
  BY DEF ReadAs
<1> HIDE DEF r
<1>6. ConcatTensors(s, t) = [shape |-> s.shape, elem |-> s.elem, rows |-> s.rows \o r]
  <2>1. s = [shape |-> s.shape, elem |-> s.elem, rows |-> s.rows]
    BY DEF Tensor
  <2>2. ConcatTensors(s, t) = [s EXCEPT !.rows = s.rows \o r]
    BY DEF ConcatTensors, r
  <2> QED
    BY <2>1, <2>2
<1>7. /\ s.rows \o r \in Seq(Row)
      /\ Len(s.rows \o r) = Len(s.rows) + Len(r)
      /\ \A k \in 1 .. Len(s.rows) : (s.rows \o r)[k] = s.rows[k]
      /\ \A k \in 1 .. Len(r) : (s.rows \o r)[Len(s.rows) + k] = r[k]
  <2>1. \A p, q \in Seq(Row) :
           /\ p \o q \in Seq(Row)
           /\ Len(p \o q) = Len(p) + Len(q)
           /\ \A k \in 1 .. Len(p) : (p \o q)[k] = p[k]
           /\ \A k \in 1 .. Len(q) : (p \o q)[Len(p) + k] = q[k]
    BY ConcatPieces
  <2> QED
    BY <1>1, <1>4, <2>1, Zenon
<1> QED
  BY <1>4, <1>5, <1>6, <1>7 DEF Tensor

(* The output has one row per row of the inputs. *)
LEMMA ModelOutputType ==
  ASSUME NEW t \in [Inputs -> Tensor], ModelAccepts(t)
  PROVE  /\ ModelOutput(t) \in Seq(OutputRow)
         /\ Len(ModelOutput(t)) = Len(t[1].rows)
         /\ \A k \in 1 .. Len(t[1].rows) : \A i \in Inputs :
               ModelOutput(t)[k][i] = t[i].rows[k]
<1>1. 1 \in Inputs
  BY OneIsInput
<1>2. \A i \in Inputs : t[i].rows \in Seq(Row) /\ Len(t[i].rows) = Len(t[1].rows)
  BY DEF Tensor, ModelAccepts
<1>3. Len(t[1].rows) \in Nat
  BY <1>1, <1>2
<1>4. \A k \in 1 .. Len(t[1].rows) : \A i \in Inputs : t[i].rows[k] \in Row
  BY <1>2, ElementOfSeq
<1>5. ModelOutput(t) \in [1 .. Len(t[1].rows) -> OutputRow]
  BY <1>4 DEF ModelOutput, OutputRow
<1>6. ModelOutput(t) \in Seq(OutputRow) /\ Len(ModelOutput(t)) = Len(t[1].rows)
  BY <1>3, <1>5, SeqOfElements
<1> QED
  BY <1>6 DEF ModelOutput

-----------------------------------------------------------------------------
(* Types. *)

Typing == TypeOK /\ LocalsSet

LEMMA ArgumentsType == Arguments \subseteq [Calls -> ArgList]
BY RequestsAssumption DEF Arguments

(* The variables have their types at the start.                            *)
LEMMA InitTyping == Init => Typing
<1> SUFFICES ASSUME Init PROVE Typing
  OBVIOUS
<1>1. NoTensor \in Tensor
  BY EmptySeq, ModelAssumption DEF NoTensor, Tensor
<1>2. args \in [Calls -> ArgList]
  BY ArgumentsType DEF Init
<1>3. /\ <<>> \in Seq(Calls)
      /\ <<>> \in Seq(OutputRow)
  BY EmptySeq
<1> QED
  BY <1>1, <1>2, <1>3, BatchAssumption DEF Init, Typing, TypeOK, LocalsSet

(* concat_inputs_ keeps its type as inputs are appended. *)
LEMMA ConcatUpToType ==
  ASSUME TypeOK, NEW c \in Calls, ctx[c] \in Calls, NEW n \in Int
  PROVE  ConcatUpTo(c, n) \in [Inputs -> Tensor]
<1>1. args[c] \in ArgList /\ concat[ctx[c]] \in [Inputs -> Tensor]
  BY DEF TypeOK
<1>2. ArgTensors(c, args[c]) \in [Inputs -> Tensor]
  BY <1>1, ArgTensorsType
<1>3. \A i \in Inputs :
         ConcatTensors(concat[ctx[c]][i], ArgTensors(c, args[c])[i]) \in Tensor
  BY <1>1, <1>2, ConcatTensorsType
<1> QED
  BY <1>1, <1>3 DEF ConcatUpTo

(* A step of a call keeps the types.                                       *)
LEMMA CallTyping ==
  ASSUME Typing, NEW c \in Calls, CallStep(c)
  PROVE  Typing'
<1> USE DEF Typing, Ended, Goto
<1>0. NoCall \notin Calls
  BY BatchAssumption
<1>1. CASE Execute(c)
  BY <1>1 DEF TypeOK, LocalsSet, batchVars, workerVars, Execute
<1>2. CASE Lock(c)
  BY <1>2 DEF TypeOK, LocalsSet, batchVars, workerVars, Lock
<1>3. CASE Enqueue(c)
  <2> DEFINE b == IF NeedsNewBatch THEN c ELSE queue[Len(queue)]
  <2>1. b \in Calls
    BY DEF TypeOK, NeedsNewBatch
  <2>2. BatchTileCount(b) \in Nat
    <3>1. concat[b] \in [Inputs -> Tensor]
      BY <2>1 DEF TypeOK
    <3>2. concat[b][1].rows \in Seq(Row)
      BY <3>1, OneIsInput DEF Tensor
    <3>3. Len(concat[b][1].rows) \in Nat
      BY <3>2, LenProperties
    <3> QED
      BY <3>3 DEF BatchTileCount
  <2>3. Append(queue, c) \in Seq(Calls) /\ Append(members[b], c) \in Seq(Calls)
    BY <2>1 DEF TypeOK
  <2> HIDE DEF b
  <2>4. /\ queue' = IF NeedsNewBatch THEN Append(queue, c) ELSE queue
        /\ ctx' = [ctx EXCEPT ![c] = b]
        /\ start' = [start EXCEPT ![c] = BatchTileCount(b)]
        /\ members' = [members EXCEPT ![b] = Append(members[b], c)]
        /\ first' = [first EXCEPT ![c] = queue = <<>>]
        /\ pc' = [pc EXCEPT ![c] = "concat"]
        /\ UNCHANGED <<mutex, concat, output, ready, args, answer, wpc, cur,
                       notified, alive>>
    BY <1>3 DEF Enqueue, b, workerVars
  <2>5. queue' \in Seq(Calls) /\ members' \in [Calls -> Seq(Calls)]
    BY <2>1, <2>3, <2>4 DEF TypeOK
  <2>6. ctx' \in [Calls -> Calls \cup {NoCall}] /\ start' \in [Calls -> Nat]
    BY <2>1, <2>2, <2>4 DEF TypeOK
  <2>7. TypeOK'
    BY <2>4, <2>5, <2>6 DEF TypeOK
  <2>8. LocalsSet'
    BY <1>0, <2>1, <2>4 DEF TypeOK, LocalsSet
  <2> QED
    BY <2>7, <2>8
<1>4. CASE Concat(c)
  <2>1. ctx[c] \in Calls /\ args[c] \in ArgList
    BY <1>4 DEF TypeOK, LocalsSet, Concat
  <2>2. ArgTensors(c, args[c]) \in [Inputs -> Tensor]
    BY <2>1, ArgTensorsType
  <2>3. ConcatUpTo(c, NumInputs) \in [Inputs -> Tensor]
    BY <2>1, ConcatUpToType, NumInputsAssumption
  <2>4. concat' \in [Calls -> [Inputs -> Tensor]]
    BY <1>4, <2>1, <2>2, <2>3 DEF TypeOK, Concat
  <2>5. /\ pc' = [pc EXCEPT ![c] = "notify"] \/ pc' = [pc EXCEPT ![c] = "wait"]
        /\ mutex' = NoCall
        /\ pc[c] = "concat"
        /\ UNCHANGED <<queue, members, output, ready, args, first, ctx, start,
                       answer, wpc, cur, notified, alive>>
    BY <1>4 DEF Concat, workerVars
  <2>6. TypeOK'
    BY <2>4, <2>5 DEF TypeOK
  <2>7. LocalsSet'
    BY <2>5 DEF TypeOK, LocalsSet
  <2> QED
    BY <2>6, <2>7
<1>5. CASE ConcatThrows(c)
  <2>1. ctx[c] \in Calls
    BY <1>5 DEF TypeOK, LocalsSet, ConcatThrows
  <2>2. \A i \in Inputs : ConcatUpTo(c, i - 1) \in [Inputs -> Tensor]
    BY <2>1, ConcatUpToType, NumInputsAssumption DEF Inputs
  <2>3. concat' \in [Calls -> [Inputs -> Tensor]]
    BY <1>5, <2>1, <2>2 DEF TypeOK, ConcatThrows
  <2>4. /\ pc' = [pc EXCEPT ![c] = "threw"]
        /\ mutex' = NoCall
        /\ pc[c] = "concat"
        /\ UNCHANGED <<queue, members, output, ready, args, first, ctx, start,
                       answer, wpc, cur, notified, alive>>
    BY <1>5 DEF ConcatThrows, workerVars
  <2>5. TypeOK'
    BY <2>3, <2>4 DEF TypeOK
  <2>6. LocalsSet'
    BY <2>4 DEF TypeOK, LocalsSet
  <2> QED
    BY <2>5, <2>6
<1>6. CASE NotifyOne(c)
  BY <1>6 DEF TypeOK, LocalsSet, batchVars, NotifyOne
<1>7. CASE GetOutputs(c)
  <2> DEFINE out == output[ctx[c]]
  <2>1. ctx[c] \in Calls /\ out \in Seq(OutputRow)
    BY <1>7 DEF TypeOK, LocalsSet, GetOutputs
  <2>2. start[c] \in Nat /\ End(c) \in Nat
    <3>1. args[c][1].rows \in 0 .. MaxRows
      BY OneIsInput DEF TypeOK, ArgList, Arg
    <3>2. args[c][1].rows \in Nat /\ start[c] \in Nat
      BY <3>1, RowsAssumption DEF TypeOK
    <3> QED
      BY <3>2 DEF End
  <2>3. CanSlice(out, start[c], End(c)) =>
           Slice(out, start[c], End(c)) \in Seq(OutputRow)
    BY <2>1, <2>2 DEF CanSlice, Slice
  <2> HIDE DEF out
  <2>4. /\ \/ answer' = [answer EXCEPT ![c] = out]
           \/ /\ CanSlice(out, start[c], End(c))
              /\ answer' = [answer EXCEPT ![c] = Slice(out, start[c], End(c))]
           \/ answer' = answer
        /\ pc' = [pc EXCEPT ![c] = "returned"] \/ pc' = [pc EXCEPT ![c] = "threw"]
        /\ pc[c] = "wait"
        /\ UNCHANGED <<mutex, queue, members, concat, output, ready, args, first,
                       ctx, start, wpc, cur, notified, alive>>
    BY <1>7 DEF GetOutputs, out, batchVars, workerVars
  <2>5. answer' \in [Calls -> Seq(OutputRow)]
    <3>1. answer \in [Calls -> Seq(OutputRow)]
      BY DEF TypeOK
    <3> QED
      BY <2>1, <2>3, <2>4, <3>1
  <2>6. TypeOK'
    BY <2>4, <2>5 DEF TypeOK
  <2>7. LocalsSet'
    BY <2>4 DEF TypeOK, LocalsSet
  <2> QED
    BY <2>6, <2>7
<1>8. CASE Timeout(c)
  BY <1>8 DEF TypeOK, LocalsSet, batchVars, workerVars, Timeout
<1> QED
  BY <1>1, <1>2, <1>3, <1>4, <1>5, <1>6, <1>7, <1>8 DEF CallStep

(* A step of the worker keeps the types.                                   *)
LEMMA WorkerTyping ==
  ASSUME Typing, WorkerStep \/ SpuriousWakeup
  PROVE  Typing'
<1> USE DEF Typing
<1>0. NoCall \notin Calls
  BY BatchAssumption
<1>1. CASE WorkerLock
  BY <1>1 DEF TypeOK, LocalsSet, batchVars, callVars, WorkerLock
<1>2. CASE WorkerWait
  BY <1>2 DEF TypeOK, LocalsSet, batchVars, callVars, WorkerWait
<1>3. CASE WorkerPop
  <2>1. Head(queue) \in Calls /\ Tail(queue) \in Seq(Calls)
    BY <1>3, HeadTailProperties DEF TypeOK, WorkerPop
  <2> QED
    BY <1>0, <1>3, <2>1 DEF TypeOK, LocalsSet, batchVars, callVars, WorkerPop
<1>4. CASE ModelExecute
  <2>1. cur \in Calls /\ concat[cur] \in [Inputs -> Tensor]
    BY <1>4 DEF TypeOK, LocalsSet, ModelExecute
  <2>2. ModelAccepts(concat[cur]) => ModelOutput(concat[cur]) \in Seq(OutputRow)
    BY <2>1, ModelOutputType
  <2>3. output' \in [Calls -> Seq(OutputRow)]
    BY <1>4, <2>1, <2>2 DEF TypeOK, ModelExecute
  <2>4. /\ \/ wpc' = "notify" /\ notified' = 0 /\ alive' = alive
           \/ alive' = FALSE /\ UNCHANGED <<wpc, notified>>
        /\ wpc = "run"
        /\ UNCHANGED <<mutex, queue, members, concat, ready, pc, first, ctx, start,
                       answer, args, cur>>
    BY <1>4 DEF ModelExecute, callVars
  <2>5. TypeOK'
    <3>1. wpc' \in {"lock", "check", "waiting", "run", "notify"} /\ notified' \in Nat
      BY <2>4 DEF TypeOK
    <3>2. alive' \in BOOLEAN
      BY <2>4, Zenon DEF TypeOK
    <3> QED
      BY <2>3, <2>4, <3>1, <3>2 DEF TypeOK
  <2>6. LocalsSet'
    BY <2>4 DEF LocalsSet
  <2> QED
    BY <2>5, <2>6
<1>5. CASE NotifyResult
  <2>1. cur \in Calls /\ members[cur] \in Seq(Calls) /\ notified \in Nat
    BY <1>5 DEF TypeOK, LocalsSet, NotifyResult
  <2>2. notified < BatchSize(cur) => members[cur][notified + 1] \in Calls
    BY <2>1 DEF BatchSize
  <2>3. ready' \subseteq Calls /\ notified' \in Nat
    BY <1>5, <2>1, <2>2 DEF TypeOK, NotifyResult
  <2>4. /\ \/ UNCHANGED <<wpc, cur>>
           \/ wpc' = "lock" /\ cur' = NoCall
        /\ wpc = "notify"
        /\ UNCHANGED <<mutex, queue, members, concat, output, pc, first, ctx, start,
                       answer, args, alive>>
    BY <1>5 DEF NotifyResult, batchVars, callVars
  <2>5. TypeOK'
    BY <2>3, <2>4 DEF TypeOK
  <2>6. LocalsSet'
    BY <2>4 DEF LocalsSet
  <2> QED
    BY <2>5, <2>6
<1>6. CASE SpuriousWakeup
  BY <1>6 DEF TypeOK, LocalsSet, batchVars, callVars, SpuriousWakeup
<1> QED
  BY <1>1, <1>2, <1>3, <1>4, <1>5, <1>6 DEF WorkerStep

(* Every step keeps the types.                                             *)
LEMMA NextTyping == Typing /\ [Next]_vars => Typing'
<1> SUFFICES ASSUME Typing, [Next]_vars PROVE Typing'
  OBVIOUS
<1>1. CASE UNCHANGED vars
  BY <1>1 DEF Typing, TypeOK, LocalsSet, vars, batchVars, callVars, workerVars
<1> QED
  BY <1>1, CallTyping, WorkerTyping DEF Next

(***************************************************************************)
(* The variables keep their types.                                         *)
(***************************************************************************)
THEOREM TypeCorrect == Spec => []TypeOK
<1>1. Typing => TypeOK
  BY DEF Typing
<1> QED
  BY <1>1, InitTyping, NextTyping, PTL DEF Spec

-----------------------------------------------------------------------------
(* The mutex. *)

LEMMA NextMutexHeld == Typing /\ MutexHeld /\ [Next]_vars => MutexHeld'
<1> SUFFICES ASSUME Typing, MutexHeld, [Next]_vars PROVE MutexHeld'
  OBVIOUS
<1> USE DEF Typing, TypeOK, Ended, Goto, MutexHeld
<1>0. Worker \notin Calls /\ NoCall \notin Calls /\ NoCall # Worker
  BY BatchAssumption
<1>1. ASSUME NEW c \in Calls, CallStep(c) PROVE MutexHeld'
  <2>0. CASE GetOutputs(c)
    <3>1. /\ \E l \in {"returned", "threw"} : pc' = [pc EXCEPT ![c] = l]
          /\ pc[c] = "wait" /\ mutex' = mutex /\ wpc' = wpc
      BY <2>0 DEF GetOutputs, workerVars
    <3> QED
      BY <1>0, <3>1
  <2>1. CASE Execute(c) \/ NotifyOne(c) \/ Timeout(c)
    <3>1. /\ \E l \in {"lock", "wait", "timedout"} : pc' = [pc EXCEPT ![c] = l]
          /\ pc[c] \notin {"enqueue", "concat"} /\ mutex' = mutex
          /\ wpc' = wpc \/ (wpc = "waiting" /\ wpc' = "lock")
      BY <2>1 DEF Execute, NotifyOne, Timeout, workerVars
    <3> QED
      BY <1>0, <3>1
  <2>2. CASE Lock(c)
    BY <1>0, <2>2 DEF Lock, workerVars
  <2>3. CASE Enqueue(c)
    BY <1>0, <2>3 DEF Enqueue, workerVars
  <2>4. CASE Concat(c) \/ ConcatThrows(c)
    <3>1. /\ \E l \in {"notify", "wait", "threw"} : pc' = [pc EXCEPT ![c] = l]
          /\ pc[c] = "concat" /\ mutex' = NoCall /\ wpc' = wpc
      BY <2>4 DEF Concat, ConcatThrows, workerVars
    <3> QED
      BY <1>0, <3>1
  <2> QED
    BY <1>1, <2>0, <2>1, <2>2, <2>3, <2>4 DEF CallStep
<1>2. CASE WorkerStep \/ SpuriousWakeup
  BY <1>0, <1>2, SMTT(30) DEF WorkerStep, WorkerLock, WorkerWait, WorkerPop, ModelExecute,
                    NotifyResult, SpuriousWakeup, callVars
<1>3. CASE UNCHANGED vars
  BY <1>3 DEF vars, callVars, workerVars
<1> QED
  BY <1>1, <1>2, <1>3 DEF Next

-----------------------------------------------------------------------------
(* The batches and the queue. *)

(* The facts about the queue that one step depends on. *)
Gathering == Typing /\ MutexHeld /\ MembersAreCallers /\ QueueIsPending
             /\ ConcatOnLast /\ ReadyInOrder

(* Enqueue adds one promise to one batch: a new one, queued last, or the   *)
(* one that is queued last already.                                        *)
LEMMA EnqueueAddsOne ==
  ASSUME Gathering, NEW c \in Calls, Enqueue(c)
  PROVE  \E b \in Calls :
            /\ \/ b = c /\ members[c] = <<>> /\ queue' = Append(queue, c)
               \/ /\ b # c /\ queue # <<>> /\ b = queue[Len(queue)]
                  /\ members[b] # <<>> /\ queue' = queue
            /\ queue = <<>> => b = c
            /\ members' = [members EXCEPT ![b] = Append(members[b], c)]
            /\ ctx' = [ctx EXCEPT ![c] = b]
            /\ ctx[c] = NoCall
            /\ start' = [start EXCEPT ![c] = BatchTileCount(b)]
            /\ first' = [first EXCEPT ![c] = queue = <<>>]
            /\ pc' = [pc EXCEPT ![c] = "concat"]
            /\ pc[c] = "enqueue"
            /\ UNCHANGED <<mutex, concat, output, ready, args, answer, wpc, cur,
                           notified, alive>>
            /\ \A d \in Calls : \A n \in 1 .. Len(members[d]) : members[d][n] # c
            /\ BatchTileCount(b) = IF b = c THEN 0 ELSE Len(concat[b][1].rows)
<1> DEFINE b == IF NeedsNewBatch THEN c ELSE queue[Len(queue)]
<1>0. NoCall \notin Calls
  BY BatchAssumption
<1>1. ctx[c] = NoCall /\ pc[c] = "enqueue"
  BY DEF Enqueue, Gathering, Typing, LocalsSet
<1>2. \A d \in Calls : \A n \in 1 .. Len(members[d]) : members[d][n] # c
  BY <1>0, <1>1 DEF Gathering, MembersAreCallers, BatchSize
<1>3. members[c] = <<>>
  <2>1. members[c] # <<>> => 1 \in 1 .. Len(members[c])
    BY DEF Gathering, Typing, TypeOK
  <2> QED
    BY <1>2, <2>1 DEF Gathering, MembersAreCallers
<1>4. ASSUME ~NeedsNewBatch
      PROVE  /\ b \in Calls /\ queue # <<>> /\ b = queue[Len(queue)]
             /\ members[b] # <<>> /\ b # c
  <2>1. queue # <<>> /\ queue \in Seq(Calls)
    BY <1>4 DEF NeedsNewBatch, Gathering, Typing, TypeOK
  <2>2. Len(queue) \in 1 .. Len(queue)
    BY <2>1
  <2>3. b = queue[Len(queue)] /\ b \in Calls
    BY <1>4, <2>1, <2>2
  <2>4. members[b] # <<>>
    BY <2>2, <2>3 DEF Gathering, QueueIsPending
  <2> QED
    BY <1>3, <2>1, <2>3, <2>4
<1>5. BatchTileCount(b) = IF b = c THEN 0 ELSE Len(concat[b][1].rows)
  <2>1. CASE NeedsNewBatch
    BY <1>3, <2>1 DEF BatchTileCount, BatchSize
  <2>2. CASE ~NeedsNewBatch
    <3>1. members[b] \in Seq(Calls) /\ members[b] # <<>>
      BY <1>4, <2>2 DEF Gathering, Typing, TypeOK
    <3>2. Len(members[b]) > 0
      BY <3>1, EmptySeq
    <3> QED
      BY <1>4, <2>2, <3>2 DEF BatchTileCount, BatchSize
  <2> QED
    BY <2>1, <2>2
<1>6. queue = <<>> => b = c
  BY DEF NeedsNewBatch
<1>7. b \in Calls
  BY <1>4
<1>8. /\ queue' = IF NeedsNewBatch THEN Append(queue, c) ELSE queue
      /\ members' = [members EXCEPT ![b] = Append(members[b], c)]
      /\ ctx' = [ctx EXCEPT ![c] = b]
      /\ start' = [start EXCEPT ![c] = BatchTileCount(b)]
      /\ first' = [first EXCEPT ![c] = queue = <<>>]
      /\ pc' = [pc EXCEPT ![c] = "concat"]
      /\ UNCHANGED <<mutex, concat, output, ready, args, answer, wpc, cur,
                     notified, alive>>
  BY DEF Enqueue, workerVars, Goto
<1>9. \/ b = c /\ members[c] = <<>> /\ queue' = Append(queue, c)
      \/ /\ b # c /\ queue # <<>> /\ b = queue[Len(queue)]
         /\ members[b] # <<>> /\ queue' = queue
  BY <1>3, <1>4, <1>8
<1> HIDE DEF b
<1> QED
  BY <1>1, <1>2, <1>5, <1>6, <1>7, <1>8, <1>9

(* No other step touches who is in a batch. *)
LEMMA OnlyEnqueueAdds ==
  ASSUME [Next]_vars
  PROVE  \/ \E c \in Calls : Enqueue(c)
         \/ UNCHANGED <<members, ctx, start, first>>
BY DEF Next, CallStep, Execute, Lock, Concat, ConcatThrows, NotifyOne, GetOutputs,
       Timeout, WorkerStep, WorkerLock, WorkerWait, WorkerPop, ModelExecute,
       NotifyResult, SpuriousWakeup, vars, batchVars, callVars

(* Every step keeps the members of a batch the calls that joined it, its   *)
(* creator first.                                                          *)
LEMMA NextMembers == Gathering /\ [Next]_vars => MembersAreCallers'
<1> SUFFICES ASSUME Gathering, [Next]_vars PROVE MembersAreCallers'
  OBVIOUS
<1>0. /\ NoCall \notin Calls
      /\ members \in [Calls -> Seq(Calls)] /\ ctx \in [Calls -> Calls \cup {NoCall}]
  BY BatchAssumption DEF Gathering, Typing, TypeOK
<1>1. CASE UNCHANGED <<members, ctx, start, first>>
  BY <1>1 DEF Gathering, MembersAreCallers, BatchSize, Joined
<1>2. ASSUME NEW c \in Calls, Enqueue(c) PROVE MembersAreCallers'
  <2>1. PICK b \in Calls :
           /\ members' = [members EXCEPT ![b] = Append(members[b], c)]
           /\ ctx' = [ctx EXCEPT ![c] = b]
           /\ ctx[c] = NoCall
           /\ b = c \/ members[b] # <<>>
           /\ b = c => members[c] = <<>>
           /\ \A d \in Calls : \A n \in 1 .. Len(members[d]) : members[d][n] # c
    BY <1>2, EnqueueAddsOne
  <2>2. /\ Len(members'[b]) = Len(members[b]) + 1
        /\ members'[b][Len(members[b]) + 1] = c
        /\ \A n \in 1 .. Len(members[b]) : members'[b][n] = members[b][n]
        /\ \A d \in Calls : d # b => members'[d] = members[d]
        /\ Len(members[b]) \in Nat
    BY <1>0, <2>1
  <2>3. \A d \in Calls : \A n \in 1 .. Len(members'[d]) :
           \/ n \in 1 .. Len(members[d]) /\ members'[d][n] = members[d][n]
           \/ d = b /\ n = Len(members[b]) + 1 /\ members'[d][n] = c
    <3> SUFFICES ASSUME NEW d \in Calls, NEW n \in 1 .. Len(members'[d])
                 PROVE  \/ n \in 1 .. Len(members[d]) /\ members'[d][n] = members[d][n]
                        \/ d = b /\ n = Len(members[b]) + 1 /\ members'[d][n] = c
      OBVIOUS
    <3>1. CASE d # b
      BY <2>2, <3>1
    <3>2. CASE d = b
      <4>1. n \in 1 .. Len(members[b]) \/ n = Len(members[b]) + 1
        BY <2>2, <3>2
      <4> QED
        BY <2>2, <3>2, <4>1
    <3> QED
      BY <3>1, <3>2
  <2>4. \A d \in Calls : \A n \in 1 .. Len(members'[d]) : ctx'[members'[d][n]] = d
    <3> SUFFICES ASSUME NEW d \in Calls, NEW n \in 1 .. Len(members'[d])
                 PROVE  ctx'[members'[d][n]] = d
      OBVIOUS
    <3>1. CASE n \in 1 .. Len(members[d]) /\ members'[d][n] = members[d][n]
      <4>1. members[d][n] \in Calls /\ members[d][n] # c /\ ctx[members[d][n]] = d
        BY <1>0, <2>1, <3>1 DEF Gathering, MembersAreCallers, BatchSize
      <4> QED
        BY <1>0, <2>1, <3>1, <4>1
    <3>2. CASE d = b /\ members'[d][n] = c
      BY <1>0, <2>1, <3>2
    <3> QED
      BY <2>3, <3>1, <3>2
  <2>5. \A d \in Calls : \A m, n \in 1 .. Len(members'[d]) :
           members'[d][m] = members'[d][n] => m = n
    <3> SUFFICES ASSUME NEW d \in Calls, NEW m \in 1 .. Len(members'[d]),
                        NEW n \in 1 .. Len(members'[d]),
                        members'[d][m] = members'[d][n]
                 PROVE  m = n
      OBVIOUS
    <3>1. CASE m \in 1 .. Len(members[d]) /\ n \in 1 .. Len(members[d])
      BY <2>2, <2>3, <3>1 DEF Gathering, MembersAreCallers, BatchSize
    <3>2. CASE m \notin 1 .. Len(members[d]) \/ n \notin 1 .. Len(members[d])
      BY <2>1, <2>3, <3>2
    <3> QED
      BY <3>1, <3>2
  <2>6. \A d \in Calls : ctx'[d] # NoCall =>
           \E n \in 1 .. Len(members'[ctx'[d]]) : members'[ctx'[d]][n] = d
    <3> SUFFICES ASSUME NEW d \in Calls, ctx'[d] # NoCall
                 PROVE  \E n \in 1 .. Len(members'[ctx'[d]]) : members'[ctx'[d]][n] = d
      OBVIOUS
    <3>1. CASE d = c
      BY <1>0, <2>1, <2>2, <3>1
    <3>2. CASE d # c
      <4>1. ctx'[d] = ctx[d] /\ ctx[d] \in Calls
        BY <1>0, <2>1, <3>2
      <4>2. PICK n \in 1 .. Len(members[ctx[d]]) : members[ctx[d]][n] = d
        BY <4>1 DEF Gathering, MembersAreCallers, BatchSize, Joined
      <4>3. n \in 1 .. Len(members'[ctx[d]]) /\ members'[ctx[d]][n] = d
        <5>1. CASE ctx[d] # b
          BY <2>2, <4>1, <4>2, <5>1
        <5>2. CASE ctx[d] = b
          <6>1. n \in 1 .. Len(members[b]) /\ n \in 1 .. Len(members'[b])
            BY <2>2, <4>2, <5>2
          <6> QED
            BY <2>2, <4>2, <5>2, <6>1
        <5> QED
          BY <5>1, <5>2
      <4> QED
        BY <4>1, <4>3
    <3> QED
      BY <3>1, <3>2
  <2>7. \A d \in Calls : members'[d] # <<>> => members'[d][1] = d
    <3> SUFFICES ASSUME NEW d \in Calls, members'[d] # <<>>
                 PROVE  members'[d][1] = d
      OBVIOUS
    <3>1. CASE d # b
      BY <2>2, <3>1 DEF Gathering, MembersAreCallers
    <3>2. CASE d = b /\ b = c
      BY <1>0, <2>1, <2>2, <3>2
    <3>3. CASE d = b /\ members[b] # <<>>
      <4>1. 1 \in 1 .. Len(members[b])
        BY <1>0, <3>3
      <4> QED
        BY <2>2, <3>3, <4>1 DEF Gathering, MembersAreCallers
    <3> QED
      BY <2>1, <3>1, <3>2, <3>3
  <2> QED
    BY <2>4, <2>5, <2>6, <2>7 DEF MembersAreCallers, BatchSize, Joined
<1> QED
  BY <1>1, <1>2, OnlyEnqueueAdds

(* Only Enqueue and the worker's pop move the queue, and only Enqueue      *)
(* brings a call to where it concatenates.                                 *)
LEMMA OnlyEnqueueAndPopMoveQueue ==
  ASSUME Typing, [Next]_vars
  PROVE  \/ \E c \in Calls : Enqueue(c)
         \/ WorkerPop
         \/ queue' = queue /\ \A c \in Calls : pc'[c] = "concat" => pc[c] = "concat"
<1> USE DEF Typing, TypeOK, Goto
<1>1. ASSUME NEW c \in Calls, CallStep(c), ~Enqueue(c)
      PROVE  queue' = queue /\ \A d \in Calls : pc'[d] = "concat" => pc[d] = "concat"
  <2>1. queue' = queue /\ \E l \in {"lock", "enqueue", "notify", "wait", "threw",
                                    "returned", "timedout"} : pc' = [pc EXCEPT ![c] = l]
    BY <1>1 DEF CallStep, Execute, Lock, Concat, ConcatThrows, NotifyOne, GetOutputs,
                Timeout
  <2> QED
    BY <2>1
<1>2. CASE WorkerStep \/ SpuriousWakeup
  BY <1>2 DEF WorkerStep, WorkerLock, WorkerWait, ModelExecute, NotifyResult,
              SpuriousWakeup, callVars
<1>3. CASE UNCHANGED vars
  BY <1>3 DEF vars, callVars
<1> QED
  BY <1>1, <1>2, <1>3 DEF Next

(* Nobody is in a critical section while somebody else is. *)
LEMMA OneAtATime ==
  ASSUME Typing, MutexHeld
  PROVE  /\ \A c, d \in Calls :
               pc[c] \in {"enqueue", "concat"} /\ pc[d] \in {"enqueue", "concat"} => c = d
         /\ wpc = "check" => \A c \in Calls : pc[c] \notin {"enqueue", "concat"}
BY BatchAssumption DEF Typing, TypeOK, MutexHeld

(* The worker sets promises of the batch it has run; no other step does.   *)
LEMMA OnlyNotifyResultSets ==
  ASSUME [Next]_vars
  PROVE  NotifyResult \/ ready' = ready
BY DEF Next, CallStep, Execute, Lock, Enqueue, Concat, ConcatThrows, NotifyOne,
       GetOutputs, Timeout, WorkerStep, WorkerLock, WorkerWait, WorkerPop,
       ModelExecute, SpuriousWakeup, vars, callVars

(* Only the worker changes the batch it works on.                          *)
LEMMA OnlyWorkerMovesCur ==
  ASSUME [Next]_vars
  PROVE  \/ WorkerPop \/ NotifyResult
         \/ ModelExecute /\ cur' = cur
         \/ UNCHANGED <<cur, notified>> /\ (wpc' # wpc => wpc' \in {"lock", "check", "waiting"})
BY DEF Next, CallStep, Execute, Lock, Enqueue, Concat, ConcatThrows, NotifyOne,
       GetOutputs, Timeout, WorkerStep, WorkerLock, WorkerWait,
       ModelExecute, SpuriousWakeup, vars, callVars, workerVars

(* What WorkerPop and NotifyResult do. *)
LEMMA PopTakesFirst ==
  ASSUME Gathering, WorkerPop
  PROVE  /\ cur = NoCall /\ cur' \in Calls /\ cur' = queue[1]
         /\ wpc = "check" /\ wpc' = "run"
         /\ queue # <<>> /\ Len(queue) \in Nat
         /\ queue' \in Seq(Calls)
         /\ Len(queue') = Len(queue) - 1
         /\ \A n \in 1 .. Len(queue') : queue'[n] = queue[n + 1]
         /\ UNCHANGED <<members, concat, output, ready, pc, first, ctx, start, answer,
                        args, notified, alive>>
<1>1. queue \in Seq(Calls) /\ queue # <<>>
  BY DEF WorkerPop, Gathering, Typing, TypeOK
<1>2. /\ Tail(queue) \in Seq(Calls) /\ Head(queue) \in Calls
      /\ Len(Tail(queue)) = Len(queue) - 1
      /\ \A n \in 1 .. Len(Tail(queue)) : Tail(queue)[n] = queue[n + 1]
  BY <1>1, HeadTailProperties
<1>3. Head(queue) = queue[1] /\ Len(queue) \in Nat
  BY <1>1
<1> QED
  BY <1>1, <1>2, <1>3 DEF WorkerPop, batchVars, callVars, Gathering, Typing, LocalsSet

(* The worker tells one member after the other.                            *)
LEMMA NotifySetsOne ==
  ASSUME Gathering, NotifyResult
  PROVE  /\ cur \in Calls /\ wpc = "notify" /\ notified \in Nat
         /\ \/ /\ notified < Len(members[cur])
               /\ members[cur][notified + 1] \in Calls
               /\ ctx[members[cur][notified + 1]] = cur
               /\ ready' = ready \cup {members[cur][notified + 1]}
               /\ notified' = notified + 1
               /\ UNCHANGED <<wpc, cur>>
            \/ /\ notified >= Len(members[cur])
               /\ wpc' = "lock" /\ cur' = NoCall
               /\ UNCHANGED <<ready, notified>>
         /\ UNCHANGED <<mutex, queue, members, concat, output, pc, first, ctx, start,
                        answer, args, alive>>
<1>1. /\ cur \in Calls /\ notified \in Nat /\ members[cur] \in Seq(Calls)
      /\ wpc = "notify"
  BY DEF NotifyResult, Gathering, Typing, TypeOK, LocalsSet
<1>2. notified < Len(members[cur]) => notified + 1 \in 1 .. Len(members[cur])
  BY <1>1
<1>3. \A n \in 1 .. Len(members[cur]) :
         members[cur][n] \in Calls /\ ctx[members[cur][n]] = cur
  BY <1>1 DEF Gathering, MembersAreCallers, BatchSize
<1> QED
  BY <1>1, <1>2, <1>3 DEF NotifyResult, BatchSize, batchVars, callVars

(* Every step keeps batches in the queue that are neither empty nor run    *)
(* nor answered.                                                           *)
LEMMA NextQueue == Gathering /\ [Next]_vars => QueueIsPending'
<1> SUFFICES ASSUME Gathering, [Next]_vars PROVE QueueIsPending'
  OBVIOUS
<1>0. /\ NoCall \notin Calls /\ ready \subseteq Joined
      /\ queue \in Seq(Calls) /\ Len(queue) \in Nat
      /\ \A n \in 1 .. Len(queue) : queue[n] \in Calls
      /\ members \in [Calls -> Seq(Calls)] /\ ctx \in [Calls -> Calls \cup {NoCall}]
      /\ cur \in Calls \cup {NoCall}
  BY BatchAssumption DEF Gathering, Typing, TypeOK, ReadyInOrder
<1>1. ASSUME NEW c \in Calls, Enqueue(c) PROVE QueueIsPending'
  <2>1. PICK b \in Calls :
           /\ \/ b = c /\ members[c] = <<>> /\ queue' = Append(queue, c)
              \/ b # c /\ members[b] # <<>> /\ queue' = queue
           /\ members' = [members EXCEPT ![b] = Append(members[b], c)]
           /\ ctx' = [ctx EXCEPT ![c] = b]
           /\ ctx[c] = NoCall
           /\ cur' = cur /\ ready' = ready
    BY <1>1, EnqueueAddsOne
  <2>2. /\ members'[b] # <<>>
        /\ \A d \in Calls : members[d] # <<>> => members'[d] # <<>>
    <3>1. Append(members[b], c) # <<>>
      <4>1. members[b] \in Seq(Calls)
        BY <1>0
      <4> QED
        BY <4>1, AppendOne
    <3> QED
      BY <1>0, <2>1, <3>1
  <2>3. c \notin ready /\ \A d \in ready : d \in Calls /\ ctx'[d] = ctx[d]
    BY <1>0, <2>1 DEF Joined
  <2>4. CASE queue' = queue
    BY SMTT(30), <1>0, <2>1, <2>2, <2>3, <2>4 DEF Gathering, QueueIsPending
  <2>5. CASE b = c /\ members[c] = <<>> /\ queue' = Append(queue, c)
    <3>1. /\ Len(queue') = Len(queue) + 1
          /\ queue'[Len(queue) + 1] = c
          /\ \A n \in 1 .. Len(queue) : queue'[n] = queue[n] /\ queue'[n] # c
          /\ \A n \in 1 .. Len(queue') : n \in 1 .. Len(queue) \/ n = Len(queue) + 1
      <4>1. \A n \in 1 .. Len(queue) : queue[n] # c
        BY <2>5 DEF Gathering, QueueIsPending
      <4>2. /\ Len(Append(queue, c)) = Len(queue) + 1
            /\ Append(queue, c)[Len(queue) + 1] = c
            /\ \A n \in 1 .. Len(queue) : Append(queue, c)[n] = queue[n]
            /\ \A n \in 1 .. Len(Append(queue, c)) :
                  n \in 1 .. Len(queue) \/ n = Len(queue) + 1
        BY <1>0, AppendOne
      <4> QED
        BY <2>5, <4>1, <4>2
    <3>2. cur # c /\ \A d \in ready : ctx[d] # c
      <4>1. \A d \in ready : ctx[d] # c
        <5> SUFFICES ASSUME NEW d \in ready, ctx[d] = c PROVE FALSE
          OBVIOUS
        <5>1. \E n \in 1 .. Len(members[c]) : members[c][n] = d
          BY <1>0 DEF Gathering, MembersAreCallers, BatchSize
        <5> QED
          BY <2>5, <5>1
      <4> QED
        BY <2>5, <4>1 DEF Gathering, QueueIsPending
    <3>3. \A m, n \in 1 .. Len(queue') : queue'[m] = queue'[n] => m = n
      BY <3>1 DEF Gathering, QueueIsPending
    <3>4. \A n \in 1 .. Len(queue') :
             /\ members'[queue'[n]] # <<>>
             /\ queue'[n] # cur'
             /\ \A d \in ready' : ctx'[d] # queue'[n]
      <4> SUFFICES ASSUME NEW n \in 1 .. Len(queue')
                   PROVE  /\ members'[queue'[n]] # <<>>
                          /\ queue'[n] # cur
                          /\ \A d \in ready : ctx[d] # queue'[n]
        BY <2>1, <2>3
      <4>1. CASE n \in 1 .. Len(queue)
        BY <1>0, <2>2, <3>1, <4>1 DEF Gathering, QueueIsPending
      <4>2. CASE n = Len(queue) + 1
        BY <2>2, <2>5, <3>1, <3>2, <4>2
      <4> QED
        BY <3>1, <4>1, <4>2
    <3>5. cur' \in Calls => members'[cur'] # <<>>
      BY <2>1, <2>2 DEF Gathering, QueueIsPending
    <3> QED
      BY <3>3, <3>4, <3>5 DEF QueueIsPending
  <2> QED
    BY <2>1, <2>4, <2>5
<1>2. CASE WorkerPop
  <2>1. /\ cur' = queue[1] /\ queue # <<>>
        /\ Len(queue') = Len(queue) - 1
        /\ \A n \in 1 .. Len(queue') : queue'[n] = queue[n + 1]
        /\ UNCHANGED <<members, ready, ctx>>
    BY <1>2, PopTakesFirst
  <2>2. \A n \in 1 .. Len(queue') : n + 1 \in 1 .. Len(queue)
    BY <1>0, <2>1
  <2>3. 1 \in 1 .. Len(queue)
    BY <1>0, <2>1
  <2>4. \A m, n \in 1 .. Len(queue') : queue'[m] = queue'[n] => m = n
    <3> SUFFICES ASSUME NEW m \in 1 .. Len(queue'), NEW n \in 1 .. Len(queue'),
                        queue'[m] = queue'[n]
                 PROVE  m = n
      OBVIOUS
    <3>1. m + 1 = n + 1
      BY <2>1, <2>2 DEF Gathering, QueueIsPending
    <3> QED
      BY <3>1
  <2>5. \A n \in 1 .. Len(queue') :
           /\ members'[queue'[n]] # <<>>
           /\ queue'[n] # cur'
           /\ \A d \in ready' : ctx'[d] # queue'[n]
    <3> SUFFICES ASSUME NEW n \in 1 .. Len(queue')
                 PROVE  /\ members[queue[n + 1]] # <<>>
                        /\ queue[n + 1] # queue[1]
                        /\ \A d \in ready : ctx[d] # queue[n + 1]
      BY <2>1
    <3>1. n + 1 \in 1 .. Len(queue) /\ n + 1 # 1
      BY <2>2
    <3> QED
      BY <2>3, <3>1 DEF Gathering, QueueIsPending
  <2>6. members'[cur'] # <<>>
    BY <2>1, <2>3 DEF Gathering, QueueIsPending
  <2> QED
    BY <2>4, <2>5, <2>6 DEF QueueIsPending
<1>3. CASE queue' = queue /\ ~(\E c \in Calls : Enqueue(c)) /\ NotifyResult
  <2>1. /\ cur \in Calls
        /\ \/ /\ ctx[members[cur][notified + 1]] = cur
              /\ ready' = ready \cup {members[cur][notified + 1]}
              /\ cur' = cur
           \/ ready' = ready /\ cur' = NoCall
        /\ UNCHANGED <<members, ctx>>
    BY <1>3, NotifySetsOne
  <2> QED
    BY <1>0, <1>3, <2>1 DEF Gathering, QueueIsPending
<1>4. CASE /\ queue' = queue /\ ~(\E c \in Calls : Enqueue(c))
           /\ ~NotifyResult /\ ~WorkerPop
  <2>1. UNCHANGED <<members, ctx, ready, cur>>
    BY <1>4, OnlyEnqueueAdds, OnlyNotifyResultSets, OnlyWorkerMovesCur
  <2> QED
    BY <1>4, <2>1 DEF Gathering, QueueIsPending
<1> QED
  BY <1>1, <1>2, <1>3, <1>4, OnlyEnqueueAndPopMoveQueue DEF Gathering

(* Every step keeps concatenation to the last batch.                       *)
LEMMA NextConcatOnLast == Gathering /\ [Next]_vars => ConcatOnLast'
<1> SUFFICES ASSUME Gathering, [Next]_vars, NEW d \in Calls, pc'[d] = "concat"
             PROVE  /\ queue' # <<>> /\ ctx'[d] = queue'[Len(queue')]
                    /\ members'[ctx'[d]][Len(members'[ctx'[d]])] = d
                    /\ first'[d] => Len(members'[ctx'[d]]) = 1
  BY DEF ConcatOnLast, BatchSize
<1>1. ASSUME NEW c \in Calls, Enqueue(c)
      PROVE  /\ queue' # <<>> /\ ctx'[d] = queue'[Len(queue')]
             /\ members'[ctx'[d]][Len(members'[ctx'[d]])] = d
             /\ first'[d] => Len(members'[ctx'[d]]) = 1
  <2>1. PICK b \in Calls :
           /\ \/ b = c /\ members[c] = <<>> /\ queue' = Append(queue, c)
              \/ queue # <<>> /\ b = queue[Len(queue)] /\ queue' = queue
           /\ queue = <<>> => b = c /\ members[c] = <<>>
           /\ members' = [members EXCEPT ![b] = Append(members[b], c)]
           /\ ctx' = [ctx EXCEPT ![c] = b]
           /\ first' = [first EXCEPT ![c] = queue = <<>>]
           /\ pc' = [pc EXCEPT ![c] = "concat"]
           /\ pc[c] = "enqueue"
    BY <1>1, EnqueueAddsOne
  <2>2. d = c
    BY <2>1, OneAtATime DEF Gathering, Typing, TypeOK
  <2>3. /\ queue \in Seq(Calls) /\ members[b] \in Seq(Calls)
        /\ ctx'[d] = b /\ members'[b] = Append(members[b], c)
        /\ first'[d] = (queue = <<>>)
    BY <2>1, <2>2 DEF Gathering, Typing, TypeOK
  <2>4. queue' # <<>> /\ b = queue'[Len(queue')]
    BY <2>1, <2>3
  <2>5. members'[b][Len(members'[b])] = d
    BY <2>2, <2>3
  <2>6. first'[d] => Len(members'[b]) = 1
    <3>1. members[b] = <<>> => Len(Append(members[b], c)) = 1
      BY <2>3, AppendOne
    <3> QED
      BY <2>1, <2>3, <3>1
  <2> QED
    BY <2>3, <2>4, <2>5, <2>6
<1>2. CASE WorkerPop
  BY <1>2, PopTakesFirst, OneAtATime DEF Gathering
<1>3. CASE /\ ~(\E c \in Calls : Enqueue(c))
           /\ queue' = queue /\ pc[d] = "concat"
  BY <1>3, OnlyEnqueueAdds DEF Gathering, ConcatOnLast, BatchSize
<1> QED
  BY <1>1, <1>2, <1>3, OnlyEnqueueAndPopMoveQueue DEF Gathering

(* Enqueue leaves the batch the worker has alone. *)
LEMMA EnqueueSparesCur ==
  ASSUME Gathering, NEW c \in Calls, Enqueue(c), cur \in Calls
  PROVE  members'[cur] = members[cur]
<1>1. PICK b \in Calls :
         /\ \/ b = c /\ members[c] = <<>>
            \/ queue # <<>> /\ b = queue[Len(queue)]
         /\ members' = [members EXCEPT ![b] = Append(members[b], c)]
  BY EnqueueAddsOne
<1>2. members[c] = <<>> => cur # c
  BY DEF Gathering, QueueIsPending
<1>3. queue # <<>> => queue[Len(queue)] # cur
  <2>1. queue # <<>> => Len(queue) \in 1 .. Len(queue)
    BY DEF Gathering, Typing, TypeOK
  <2> QED
    BY <2>1 DEF Gathering, QueueIsPending
<1> QED
  BY <1>1, <1>2, <1>3 DEF Gathering, Typing, TypeOK

(* Every step keeps the members that were told the first ones of the       *)
(* batch.                                                                  *)
LEMMA NextReady == Gathering /\ [Next]_vars => ReadyInOrder'
<1> SUFFICES ASSUME Gathering, [Next]_vars PROVE ReadyInOrder'
  OBVIOUS
<1>0. /\ NoCall \notin Calls
      /\ members \in [Calls -> Seq(Calls)] /\ ctx \in [Calls -> Calls \cup {NoCall}]
      /\ cur \in Calls \cup {NoCall}
      /\ wpc \in {"run", "notify"} => cur \in Calls
  BY BatchAssumption DEF Gathering, Typing, TypeOK, LocalsSet
<1>1. ASSUME NEW c \in Calls, Enqueue(c) PROVE ReadyInOrder'
  <2>1. ready' = ready /\ wpc' = wpc /\ cur' = cur /\ notified' = notified
    BY <1>1, EnqueueAddsOne
  <2>2. cur \in Calls => members'[cur] = members[cur]
    BY <1>1, EnqueueSparesCur
  <2>3. \A d \in Calls : ctx[d] # NoCall => ctx'[d] # NoCall
    BY <1>0, <1>1, EnqueueAddsOne
  <2> QED
    <3>1. ready' \subseteq Joined'
      BY <2>1, <2>3 DEF Gathering, ReadyInOrder, Joined
    <3>2. wpc' \in {"run", "notify"} => members'[cur'] = members[cur]
      BY <1>0, <2>1, <2>2
    <3> QED
      BY <2>1, <3>1, <3>2 DEF Gathering, ReadyInOrder, BatchSize
<1>2. CASE WorkerPop
  <2>1. /\ cur' = queue[1] /\ cur' \in Calls /\ wpc' = "run"
        /\ queue # <<>> /\ Len(queue) \in Nat
        /\ UNCHANGED <<members, ready, ctx>>
    BY <1>2, PopTakesFirst
  <2>2. 1 \in 1 .. Len(queue)
    BY <2>1 DEF Gathering, Typing, TypeOK
  <2>3. \A d \in ready : ctx[d] # cur'
    BY <2>1, <2>2 DEF Gathering, QueueIsPending
  <2>4. \A n \in 1 .. Len(members[cur']) : members[cur'][n] \notin ready
    BY <2>1, <2>3 DEF Gathering, MembersAreCallers, BatchSize
  <2> QED
    BY <2>1, <2>4 DEF Gathering, ReadyInOrder, Joined, BatchSize
<1>3. CASE NotifyResult
  <2>1. /\ cur \in Calls /\ wpc = "notify" /\ notified \in Nat
        /\ \/ /\ notified < Len(members[cur])
              /\ members[cur][notified + 1] \in Calls
              /\ ctx[members[cur][notified + 1]] = cur
              /\ ready' = ready \cup {members[cur][notified + 1]}
              /\ notified' = notified + 1
              /\ UNCHANGED <<wpc, cur>>
           \/ wpc' = "lock" /\ ready' = ready
        /\ UNCHANGED <<members, ctx>>
    BY <1>3, NotifySetsOne
  <2>2. ready' \subseteq {c \in Calls : ctx'[c] # NoCall}
    BY <1>0, <2>1 DEF Gathering, ReadyInOrder, Joined
  <2>3. CASE wpc' = "lock"
    BY <2>2, <2>3 DEF ReadyInOrder, Joined
  <2>4. CASE /\ notified < Len(members[cur])
             /\ ready' = ready \cup {members[cur][notified + 1]}
             /\ notified' = notified + 1
             /\ UNCHANGED <<wpc, cur>>
    <3> SUFFICES ASSUME NEW n \in 1 .. Len(members[cur])
                 PROVE  members[cur][n] \in ready' <=> n <= notified + 1
      BY <2>1, <2>2, <2>4 DEF ReadyInOrder, Joined, BatchSize
    <3>1. Len(members[cur]) \in Nat /\ notified + 1 \in 1 .. Len(members[cur])
      BY <1>0, <2>1, <2>4
    <3>2. members[cur][n] \in ready <=> n <= notified
      BY <2>1 DEF Gathering, ReadyInOrder, BatchSize
    <3>3. members[cur][n] = members[cur][notified + 1] <=> n = notified + 1
      BY <2>1, <3>1 DEF Gathering, MembersAreCallers, BatchSize
    <3>4. n <= notified + 1 <=> n <= notified \/ n = notified + 1
      BY <2>1
    <3> QED
      BY <2>4, <3>2, <3>3, <3>4
  <2> QED
    BY <2>1, <2>3, <2>4
<1>4. CASE ModelExecute
  <2>1. /\ wpc = "run" /\ cur' = cur
        /\ UNCHANGED <<members, ready, ctx>>
        /\ (wpc' = "notify" /\ notified' = 0) \/ wpc' = "run"
    BY <1>4 DEF ModelExecute, callVars
  <2>2. \A n \in 1 .. Len(members[cur]) : ~(n <= 0)
    OBVIOUS
  <2> QED
    BY <2>1, <2>2 DEF Gathering, ReadyInOrder, Joined, BatchSize
<1>5. CASE /\ ~(\E c \in Calls : Enqueue(c)) /\ ~WorkerPop
           /\ ~NotifyResult /\ ~ModelExecute
  <2>1. /\ UNCHANGED <<members, ctx, ready, cur, notified>>
        /\ wpc' # wpc => wpc' \in {"lock", "check", "waiting"}
    BY <1>5, OnlyEnqueueAdds, OnlyNotifyResultSets, OnlyWorkerMovesCur
  <2> QED
    BY <2>1 DEF Gathering, ReadyInOrder, Joined, BatchSize
<1> QED
  BY <1>1, <1>2, <1>3, <1>4, <1>5

-----------------------------------------------------------------------------
(* Wakeups. *)

LEMMA NextNoLostWakeup == Gathering /\ NoLostWakeup /\ [Next]_vars => NoLostWakeup'
<1> SUFFICES ASSUME Gathering, NoLostWakeup, [Next]_vars,
                    wpc' = "waiting", queue' # <<>>
             PROVE  \E d \in Calls : first'[d] /\ pc'[d] \in {"concat", "notify"}
  BY DEF NoLostWakeup
<1>0. /\ pc \in [Calls -> {"idle", "lock", "enqueue", "concat", "notify", "wait"}
                          \cup Ended]
      /\ first \in [Calls -> BOOLEAN]
  BY DEF Gathering, Typing, TypeOK
<1>1. ASSUME NEW c \in Calls, Enqueue(c)
      PROVE  \E d \in Calls : first'[d] /\ pc'[d] \in {"concat", "notify"}
  <2>1. /\ first' = [first EXCEPT ![c] = queue = <<>>]
        /\ pc' = [pc EXCEPT ![c] = "concat"]
        /\ pc[c] = "enqueue" /\ wpc' = wpc
    BY <1>1, EnqueueAddsOne
  <2>2. CASE queue = <<>>
    BY <1>0, <2>1, <2>2
  <2>3. CASE queue # <<>>
    <3>1. PICK d \in Calls : first[d] /\ pc[d] \in {"concat", "notify"}
      BY <2>1, <2>3 DEF NoLostWakeup
    <3>2. d # c
      BY <2>1, <3>1
    <3> QED
      BY <1>0, <2>1, <3>1, <3>2
  <2> QED
    BY <2>2, <2>3
<1>2. CASE WorkerPop \/ WorkerWait
  BY <1>2 DEF WorkerPop, WorkerWait
<1>3. ASSUME NEW c \in Calls, NotifyOne(c) PROVE FALSE
  BY <1>3 DEF NotifyOne
<1>4. ASSUME NEW c \in Calls, Concat(c) \/ ConcatThrows(c)
      PROVE  \E d \in Calls : first'[d] /\ pc'[d] \in {"concat", "notify"}
  <2>1. PICK d \in Calls : first[d] /\ pc[d] \in {"concat", "notify"}
    BY <1>4 DEF NoLostWakeup, Concat, ConcatThrows, workerVars
  <2>2. CASE d = c
    <3>1. ~ConcatThrows(c)
      BY <2>1, <2>2 DEF ConcatThrows, Gathering, ConcatOnLast
    <3> QED
      BY <1>0, <1>4, <2>1, <2>2, <3>1 DEF Concat, Goto
  <2>3. CASE d # c
    BY <1>0, <1>4, <2>1, <2>3 DEF Concat, ConcatThrows, Goto
  <2> QED
    BY <2>2, <2>3
<1>5. ASSUME NEW c \in Calls, Execute(c) \/ Lock(c) \/ GetOutputs(c) \/ Timeout(c)
      PROVE  \E d \in Calls : first'[d] /\ pc'[d] \in {"concat", "notify"}
  <2>1. /\ UNCHANGED <<queue, wpc, first>> /\ pc[c] \in {"idle", "lock", "wait"}
        /\ \E l : pc' = [pc EXCEPT ![c] = l]
    BY <1>5 DEF Execute, Lock, GetOutputs, Timeout, Goto, workerVars
  <2> QED
    BY <1>0, <2>1 DEF NoLostWakeup
<1>6. CASE WorkerLock \/ ModelExecute \/ NotifyResult \/ SpuriousWakeup \/ UNCHANGED vars
  BY <1>6 DEF WorkerLock, ModelExecute, NotifyResult, SpuriousWakeup, vars,
              callVars, workerVars, NoLostWakeup
<1> QED
  BY <1>1, <1>2, <1>3, <1>4, <1>5, <1>6 DEF Next, CallStep, WorkerStep

-----------------------------------------------------------------------------
(* Promises. *)

LEMMA NextNoCallForgotten == Gathering /\ NoCallForgotten /\ [Next]_vars => NoCallForgotten'
<1> SUFFICES ASSUME Gathering, NoCallForgotten, [Next]_vars,
                    NEW d \in Calls, ctx'[d] # NoCall, d \notin ready'
             PROVE  \E n \in 1 .. Len(members'[ctx'[d]]) :
                       /\ members'[ctx'[d]][n] = d
                       /\ \/ \E k \in 1 .. Len(queue') : queue'[k] = ctx'[d]
                          \/ ctx'[d] = cur' /\ (wpc' = "notify" => n > notified')
  BY DEF NoCallForgotten, Joined, BatchSize, Queued
<1>0. /\ NoCall \notin Calls
      /\ queue \in Seq(Calls) /\ Len(queue) \in Nat
      /\ members \in [Calls -> Seq(Calls)] /\ ctx \in [Calls -> Calls \cup {NoCall}]
  <2>1. TypeOK
    BY DEF Gathering, Typing
  <2> QED
    BY <2>1, BatchAssumption DEF TypeOK
<1>1. ASSUME ctx[d] # NoCall, d \notin ready
      PROVE  /\ ctx[d] \in Calls
             /\ \E n \in 1 .. Len(members[ctx[d]]) :
                   /\ members[ctx[d]][n] = d
                   /\ \/ \E k \in 1 .. Len(queue) : queue[k] = ctx[d]
                      \/ ctx[d] = cur /\ (wpc = "notify" => n > notified)
  BY <1>0, <1>1 DEF NoCallForgotten, Joined, BatchSize, Queued
<1>2. ASSUME NEW c \in Calls, Enqueue(c)
      PROVE  \E n \in 1 .. Len(members'[ctx'[d]]) :
                /\ members'[ctx'[d]][n] = d
                /\ \/ \E k \in 1 .. Len(queue') : queue'[k] = ctx'[d]
                   \/ ctx'[d] = cur' /\ (wpc' = "notify" => n > notified')
  <2>1. PICK b \in Calls :
           /\ \/ b = c /\ queue' = Append(queue, c)
              \/ queue # <<>> /\ b = queue[Len(queue)] /\ queue' = queue
           /\ members' = [members EXCEPT ![b] = Append(members[b], c)]
           /\ ctx' = [ctx EXCEPT ![c] = b]
           /\ UNCHANGED <<wpc, cur, notified, ready>>
    BY <1>2, EnqueueAddsOne
  <2>2. members[b] \in Seq(Calls)
    BY <1>0
  <2>3. /\ Len(members[b]) \in Nat /\ Len(members'[b]) = Len(members[b]) + 1
        /\ members'[b][Len(members[b]) + 1] = c
        /\ \A n \in 1 .. Len(members[b]) :
              n \in 1 .. Len(members'[b]) /\ members'[b][n] = members[b][n]
        /\ \A e \in Calls : e # b => members'[e] = members[e]
    <3>1. /\ Len(members[b]) \in Nat /\ Len(Append(members[b], c)) = Len(members[b]) + 1
          /\ Append(members[b], c)[Len(members[b]) + 1] = c
          /\ \A n \in 1 .. Len(members[b]) : Append(members[b], c)[n] = members[b][n]
      BY <2>2, AppendOne
    <3> QED
      BY <1>0, <2>1, <3>1
  <2>4. /\ \E k \in 1 .. Len(queue') : queue'[k] = b
        /\ \A k \in 1 .. Len(queue) : k \in 1 .. Len(queue') /\ queue'[k] = queue[k]
    <3>1. CASE queue # <<>> /\ b = queue[Len(queue)] /\ queue' = queue
      BY <1>0, <3>1
    <3>2. CASE b = c /\ queue' = Append(queue, c)
      <4>1. /\ Len(Append(queue, c)) = Len(queue) + 1
            /\ Append(queue, c)[Len(queue) + 1] = c
            /\ \A k \in 1 .. Len(queue) : Append(queue, c)[k] = queue[k]
        BY <1>0, AppendOne
      <4> QED
        BY <1>0, <3>2, <4>1
    <3> QED
      BY <2>1, <3>1, <3>2
  <2>5. CASE d = c
    <3>1. ctx'[d] = b /\ Len(members[b]) + 1 \in 1 .. Len(members'[b])
      BY <1>0, <2>1, <2>3, <2>5
    <3> QED
      BY <2>3, <2>4, <2>5, <3>1
  <2>6. CASE d # c
    <3>1. ctx'[d] = ctx[d] /\ d \notin ready
      BY <1>0, <2>1, <2>6
    <3>2. PICK n \in 1 .. Len(members[ctx[d]]) :
             /\ members[ctx[d]][n] = d
             /\ \/ \E k \in 1 .. Len(queue) : queue[k] = ctx[d]
                \/ ctx[d] = cur /\ (wpc = "notify" => n > notified)
      BY <1>1, <3>1
    <3>3. n \in 1 .. Len(members'[ctx[d]]) /\ members'[ctx[d]][n] = d
      <4>1. CASE ctx[d] = b
        BY <2>3, <3>2, <4>1
      <4>2. CASE ctx[d] # b
        BY <1>1, <2>3, <3>1, <3>2, <4>2
      <4> QED
        BY <4>1, <4>2
    <3> QED
      BY <2>1, <2>4, <3>1, <3>2, <3>3
  <2> QED
    BY <2>5, <2>6
<1>3. CASE WorkerPop
  <2>1. /\ cur = NoCall /\ cur' = queue[1] /\ wpc' = "run"
        /\ Len(queue') = Len(queue) - 1
        /\ \A n \in 1 .. Len(queue') : queue'[n] = queue[n + 1]
        /\ UNCHANGED <<members, ready, ctx>>
    BY <1>3, PopTakesFirst
  <2>2. PICK n \in 1 .. Len(members[ctx[d]]) :
           /\ members[ctx[d]][n] = d
           /\ \/ \E k \in 1 .. Len(queue) : queue[k] = ctx[d]
              \/ ctx[d] = cur
    BY <1>1, <2>1
  <2>3. PICK k \in 1 .. Len(queue) : queue[k] = ctx[d]
    BY <2>1, <2>2
  <2>4. CASE k = 1
    BY <2>1, <2>2, <2>3, <2>4
  <2>5. CASE k # 1
    <3>1. k - 1 \in 1 .. Len(queue') /\ queue'[k - 1] = queue[k]
      BY <1>0, <2>1, <2>5
    <3> QED
      BY <2>1, <2>2, <2>3, <3>1
  <2> QED
    BY <2>4, <2>5
<1>4. CASE NotifyResult /\ queue' = queue
  <2>1. /\ cur \in Calls /\ wpc = "notify" /\ notified \in Nat
        /\ \/ /\ ready' = ready \cup {members[cur][notified + 1]}
              /\ notified' = notified + 1
              /\ UNCHANGED <<wpc, cur>>
           \/ /\ notified >= Len(members[cur])
              /\ UNCHANGED ready
        /\ UNCHANGED <<members, ctx>>
    BY <1>4, NotifySetsOne
  <2>2. PICK n \in 1 .. Len(members[ctx[d]]) :
           /\ members[ctx[d]][n] = d
           /\ \/ \E k \in 1 .. Len(queue) : queue[k] = ctx[d]
              \/ ctx[d] = cur /\ n > notified
    BY <1>1, <2>1
  <2>3. CASE \E k \in 1 .. Len(queue) : queue[k] = ctx[d]
    BY <1>4, <2>1, <2>2, <2>3
  <2>4. CASE ctx[d] = cur /\ n > notified
    <3>1. Len(members[cur]) \in Nat /\ n \in Nat
      BY <1>0, <2>1, <2>4
    <3>2. ~(notified >= Len(members[cur]))
      BY <2>1, <2>4, <3>1
    <3>3. n # notified + 1
      BY <2>1, <2>2, <2>4, <3>2
    <3>4. n > notified + 1
      BY <2>1, <2>4, <3>1, <3>3
    <3> QED
      BY <2>1, <2>2, <2>4, <3>2, <3>4
  <2> QED
    BY <2>2, <2>3, <2>4
<1>5. CASE ModelExecute
  <2>1. /\ wpc = "run" /\ cur' = cur
        /\ UNCHANGED <<members, ready, ctx, queue>>
        /\ (wpc' = "notify" /\ notified' = 0) \/ wpc' = "run"
    BY <1>5 DEF ModelExecute, callVars
  <2>2. \A n \in 1 .. Len(members[ctx[d]]) : n > 0
    OBVIOUS
  <2> QED
    BY <1>1, <2>1, <2>2
<1>6. CASE /\ ~(\E c \in Calls : Enqueue(c)) /\ ~WorkerPop
           /\ ~NotifyResult /\ ~ModelExecute
  <2>1. /\ UNCHANGED <<members, ctx, ready, cur, notified, queue>>
        /\ wpc' # wpc => wpc' \in {"lock", "check", "waiting"}
    BY <1>6, OnlyEnqueueAdds, OnlyNotifyResultSets, OnlyWorkerMovesCur,
       OnlyEnqueueAndPopMoveQueue DEF Gathering
  <2> QED
    BY <1>1, <2>1
<1>7. NotifyResult => queue' = queue
  BY DEF NotifyResult
<1> QED
  BY <1>2, <1>3, <1>4, <1>5, <1>6, <1>7

-----------------------------------------------------------------------------

(* The control invariant holds at the start.                               *)
LEMMA InitControl == Init => ControlInv
<1> SUFFICES ASSUME Init PROVE ControlInv
  OBVIOUS
<1>1. Typing
  BY InitTyping
<1>2. Len(<<>>) = 0 /\ 1 .. 0 = {}
  BY EmptySeq
<1>3. MutexHeld /\ NoLostWakeup
  BY BatchAssumption DEF Init, MutexHeld, NoLostWakeup
<1>4. MembersAreCallers /\ NoCallForgotten /\ QueueIsPending
  BY <1>2, BatchAssumption DEF Init, MembersAreCallers, QueueIsPending, Joined,
     BatchSize, NoCallForgotten
<1>5. ConcatOnLast /\ ReadyInOrder
  BY DEF Init, ConcatOnLast, ReadyInOrder, Joined
<1> QED
  BY <1>1, <1>3, <1>4, <1>5 DEF ControlInv, Typing

(* Every step keeps it.                                                    *)
LEMMA NextControl == ControlInv /\ [Next]_vars => ControlInv'
BY NextTyping, NextMutexHeld, NextMembers, NextQueue, NextConcatOnLast, NextReady,
   NextNoLostWakeup, NextNoCallForgotten DEF ControlInv, Typing, Gathering

(***************************************************************************)
(* Control, queue and promises are right in every reachable state.         *)
(***************************************************************************)
THEOREM ControlCorrect == Spec => []ControlInv
BY InitControl, NextControl, PTL DEF Spec

(***************************************************************************)
(* The worker never waits next to a queued batch with nobody on the way to *)
(* wake it (Execute's notify_one, WorkerLoop's cv_.wait).                  *)
(***************************************************************************)
THEOREM WakeupsKept == Spec => []NoLostWakeup
<1>1. ControlInv => NoLostWakeup
  BY DEF ControlInv
<1> QED
  BY <1>1, ControlCorrect, PTL

(***************************************************************************)
(* No promise is dropped between ConcatInputs and NotifyResults.           *)
(***************************************************************************)
THEOREM PromisesKept == Spec => []NoCallForgotten
<1>1. ControlInv => NoCallForgotten
  BY DEF ControlInv
<1> QED
  BY <1>1, ControlCorrect, PTL

(***************************************************************************)
(* NotifyResults sets no promise twice.                                    *)
(***************************************************************************)
THEOREM PromisesSetOnce == Spec => []PromiseSetOnce
<1>1. ControlInv => PromiseSetOnce
  <2> SUFFICES ASSUME ControlInv, wpc = "notify",
                      NEW n \in (notified + 1) .. BatchSize(cur)
               PROVE  members[cur][n] \notin ready
    BY DEF PromiseSetOnce
  <2>1. notified \in Nat
    BY DEF ControlInv, TypeOK
  <2>2. n \in 1 .. BatchSize(cur) /\ ~(n <= notified)
    BY <2>1
  <2> QED
    BY <2>2 DEF ControlInv, ReadyInOrder
<1> QED
  BY <1>1, ControlCorrect, PTL

(* Concat and ConcatThrows write to the batch that is queued last. *)
LEMMA ConcatWritesQueued ==
  ASSUME Gathering, [Next]_vars, NEW b \in Calls, concat'[b] # concat[b]
  PROVE  Queued(b)
<1>1. PICK c \in Calls : Concat(c) \/ ConcatThrows(c)
  BY DEF Next, CallStep, Execute, Lock, Enqueue, NotifyOne, GetOutputs,
         Timeout, WorkerStep, WorkerLock, WorkerWait, WorkerPop, ModelExecute,
         NotifyResult, SpuriousWakeup, vars, batchVars
<1>2. \E x : concat' = [concat EXCEPT ![ctx[c]] = x]
  BY <1>1 DEF Concat, ConcatThrows
<1>3. b = ctx[c]
  BY <1>2 DEF Gathering, Typing, TypeOK
<1>4. queue # <<>> /\ b = queue[Len(queue)]
  BY <1>1, <1>3 DEF Concat, ConcatThrows, Gathering, ConcatOnLast
<1>5. Len(queue) \in 1 .. Len(queue)
  BY <1>4 DEF Gathering, Typing, TypeOK
<1> QED
  BY <1>4, <1>5 DEF Queued

(***************************************************************************)
(* A batch is sealed when the worker has taken it off the queue.           *)
(***************************************************************************)
THEOREM BatchesSealed == Spec => BatchSealed
<1>1. ControlInv /\ [Next]_vars =>
         [\A b \in Calls : members[b] # <<>> /\ ~Queued(b) =>
             members'[b] = members[b] /\ concat'[b] = concat[b]]_vars
  <2> SUFFICES ASSUME ControlInv, [Next]_vars, NEW b \in Calls,
                      members[b] # <<>>, ~Queued(b)
               PROVE  members'[b] = members[b] /\ concat'[b] = concat[b]
    OBVIOUS
  <2>1. Gathering
    BY DEF ControlInv, Gathering, Typing
  <2>2. concat'[b] = concat[b]
    BY <2>1, ConcatWritesQueued
  <2>3. ASSUME NEW c \in Calls, Enqueue(c) PROVE members'[b] = members[b]
    <3>1. PICK e \in Calls :
             /\ \/ e = c /\ members[c] = <<>>
                \/ queue # <<>> /\ e = queue[Len(queue)]
             /\ members' = [members EXCEPT ![e] = Append(members[e], c)]
      BY <2>1, <2>3, EnqueueAddsOne
    <3>2. queue # <<>> => Len(queue) \in 1 .. Len(queue)
      BY DEF ControlInv, TypeOK
    <3>3. e # b
      BY <3>1, <3>2 DEF Queued
    <3> QED
      BY <3>1, <3>3 DEF ControlInv, TypeOK
  <2> QED
    BY <2>2, <2>3, OnlyEnqueueAdds
<1> QED
  BY <1>1, ControlCorrect, PTL DEF Spec, BatchSealed

-----------------------------------------------------------------------------
(* Batch sizes. *)

LEMMA NextFilled ==
  ASSUME MaxBatchSize >= 1
  PROVE  ControlInv /\ BatchesFilledInOrder /\ [Next]_vars => BatchesFilledInOrder'
<1> SUFFICES ASSUME ControlInv, BatchesFilledInOrder, [Next]_vars
             PROVE  BatchesFilledInOrder'
  OBVIOUS
<1>0. /\ Gathering
      /\ queue \in Seq(Calls) /\ Len(queue) \in Nat
      /\ members \in [Calls -> Seq(Calls)]
      /\ \A n \in 1 .. Len(queue) : queue[n] \in Calls
      /\ MaxBatchSize \in Int
  BY BatchAssumption DEF ControlInv, Gathering, Typing, TypeOK
<1>1. ASSUME NEW c \in Calls, Enqueue(c) PROVE BatchesFilledInOrder'
  <2>1. PICK b \in Calls :
           /\ \/ b = c /\ members[c] = <<>> /\ queue' = Append(queue, c)
              \/ b # c /\ queue # <<>> /\ b = queue[Len(queue)] /\ queue' = queue
           /\ members' = [members EXCEPT ![b] = Append(members[b], c)]
    BY <1>0, <1>1, EnqueueAddsOne
  <2>2. /\ Len(members[b]) \in Nat /\ Len(members'[b]) = Len(members[b]) + 1
        /\ members[b] = <<>> => Len(members'[b]) = 1
        /\ \A d \in Calls : d # b => members'[d] = members[d]
    <3>1. members[b] \in Seq(Calls)
      BY <1>0
    <3>2. /\ Len(members[b]) \in Nat /\ Len(Append(members[b], c)) = Len(members[b]) + 1
          /\ members[b] = <<>> => Len(Append(members[b], c)) = 1
      BY <3>1, AppendOne
    <3> QED
      BY <1>0, <2>1, <3>2
  <2>3. CASE b = c /\ members[c] = <<>> /\ queue' = Append(queue, c)
    <3>1. NeedsNewBatch
      <4>1. ~NeedsNewBatch => queue' = queue
        BY <1>1 DEF Enqueue
      <4>2. Len(queue') = Len(queue) + 1
        BY <1>0, <2>3, AppendOne
      <4> QED
        BY <1>0, <4>1, <4>2
    <3>2. \A n \in 1 .. Len(queue) : Len(members[queue[n]]) = MaxBatchSize
      <4>1. queue # <<>> => Len(members[queue[Len(queue)]]) = MaxBatchSize
        BY <3>1 DEF NeedsNewBatch, BatchSize
      <4>2. \A n \in 1 .. Len(queue) : n \in 1 .. (Len(queue) - 1) \/ n = Len(queue)
        BY <1>0
      <4>3. queue = <<>> => Len(queue) = 0
        BY EmptySeq
      <4> QED
        BY <1>0, <4>1, <4>2, <4>3 DEF BatchesFilledInOrder, BatchSize
    <3>3. /\ Len(queue') = Len(queue) + 1
          /\ \A n \in 1 .. Len(queue) : queue'[n] = queue[n] /\ queue[n] # c
      <4>1. \A n \in 1 .. Len(queue) : queue[n] # c
        BY <2>3 DEF ControlInv, QueueIsPending
      <4> QED
        BY <1>0, <2>3, <4>1, AppendOne
    <3>4. \A n \in 1 .. (Len(queue') - 1) : Len(members'[queue'[n]]) = MaxBatchSize
      BY <1>0, <2>2, <2>3, <3>2, <3>3
    <3>5. \A d \in Calls : Len(members'[d]) <= MaxBatchSize
      BY <2>2, <2>3 DEF BatchesFilledInOrder, BatchSize
    <3> QED
      BY <3>4, <3>5 DEF BatchesFilledInOrder, BatchSize
  <2>4. CASE b # c /\ queue # <<>> /\ b = queue[Len(queue)] /\ queue' = queue
    <3>1. ~NeedsNewBatch
      <4>1. NeedsNewBatch => queue' = Append(queue, c)
        BY <1>1 DEF Enqueue
      <4>2. Len(Append(queue, c)) = Len(queue) + 1
        BY <1>0, AppendOne
      <4> QED
        BY <1>0, <2>4, <4>1, <4>2
    <3>2. Len(members[b]) # MaxBatchSize /\ Len(members[b]) <= MaxBatchSize
      BY <2>4, <3>1 DEF NeedsNewBatch, BatchesFilledInOrder, BatchSize
    <3>3. Len(members'[b]) <= MaxBatchSize
      BY <1>0, <2>2, <3>2
    <3>4. \A n \in 1 .. (Len(queue) - 1) : queue[n] # b
      <4>1. \A n \in 1 .. (Len(queue) - 1) :
               n \in 1 .. Len(queue) /\ Len(queue) \in 1 .. Len(queue) /\ n # Len(queue)
        BY <1>0
      <4> QED
        BY <2>4, <4>1 DEF ControlInv, QueueIsPending
    <3>5. \A n \in 1 .. (Len(queue') - 1) : Len(members'[queue'[n]]) = MaxBatchSize
      BY <1>0, <2>2, <2>4, <3>4 DEF BatchesFilledInOrder, BatchSize
    <3>6. \A d \in Calls : Len(members'[d]) <= MaxBatchSize
      BY <2>2, <3>3 DEF BatchesFilledInOrder, BatchSize
    <3> QED
      BY <3>5, <3>6 DEF BatchesFilledInOrder, BatchSize
  <2> QED
    BY <2>1, <2>3, <2>4
<1>2. CASE WorkerPop
  <2>1. /\ Len(queue') = Len(queue) - 1
        /\ \A n \in 1 .. Len(queue') : queue'[n] = queue[n + 1]
        /\ members' = members
    BY <1>0, <1>2, PopTakesFirst
  <2>2. \A n \in 1 .. (Len(queue') - 1) :
           n \in 1 .. Len(queue') /\ n + 1 \in 1 .. (Len(queue) - 1)
    BY <1>0, <2>1
  <2> QED
    BY <2>1, <2>2 DEF BatchesFilledInOrder, BatchSize
<1>3. CASE UNCHANGED <<members, queue>>
  BY <1>3 DEF BatchesFilledInOrder, BatchSize
<1> QED
  BY <1>0, <1>1, <1>2, <1>3, OnlyEnqueueAdds, OnlyEnqueueAndPopMoveQueue DEF Gathering

(***************************************************************************)
(* With a positive max_batch_size_, batches stay within it and are filled  *)
(* up one after the other.                                                 *)
(***************************************************************************)
THEOREM BatchesBounded ==
  ASSUME MaxBatchSize >= 1
  PROVE  Spec => []BatchesFilledInOrder
<1>1. Init => BatchesFilledInOrder
  <2>1. Len(<<>>) = 0 /\ 1 .. (0 - 1) = {} /\ MaxBatchSize \in Int
    BY EmptySeq, BatchAssumption
  <2> QED
    BY <2>1 DEF Init, BatchesFilledInOrder, BatchSize
<1>2. ControlInv /\ BatchesFilledInOrder /\ [Next]_vars => BatchesFilledInOrder'
  BY NextFilled
<1> QED
  BY <1>1, <1>2, ControlCorrect, PTL DEF Spec

-----------------------------------------------------------------------------
(***************************************************************************)
(* What the callers get, for calls that pass the same number of rows in    *)
(* all their inputs: every answer is made of the call's own rows, and the  *)
(* batch manager implements the inference service.                         *)
(***************************************************************************)

LEMMA ControlIsGathering == ControlInv => Gathering /\ Typing
BY DEF ControlInv, Gathering, Typing

(* The types of the tensors at hand. *)
LEMMA TensorTypes ==
  ASSUME TypeOK, NEW b \in Calls, NEW i \in Inputs
  PROVE  /\ concat[b] \in [Inputs -> Tensor] /\ concat[b][i] \in Tensor
         /\ concat[b][i].rows \in Seq(Row) /\ Len(concat[b][i].rows) \in Nat
         /\ args[b] \in ArgList /\ args[b][i].rows \in Nat /\ start[b] \in Nat
<1>1. /\ concat[b] \in [Inputs -> Tensor] /\ args[b] \in ArgList /\ start[b] \in Nat
  BY DEF TypeOK
<1>2. concat[b][i] \in Tensor /\ args[b][i] \in Arg
  BY <1>1 DEF ArgList
<1>3. concat[b][i].rows \in Seq(Row) /\ args[b][i].rows \in 0 .. MaxRows
  BY <1>2 DEF Tensor, Arg
<1> QED
  BY <1>1, <1>2, <1>3, RowsAssumption

(***************************************************************************)
(* The two ways a call writes to its batch, and what it leaves alone.      *)
(***************************************************************************)
Lends(c) ==
  /\ BatchSize(ctx[c]) = 1
  /\ ctx[c] = c
  /\ concat'[c] = ArgTensors(c, args[c])
  /\ pc' = [pc EXCEPT ![c] = "notify"] \/ pc' = [pc EXCEPT ![c] = "wait"]

Appends(c, n, i) ==
  LET b == ctx[c]
      s == concat[b][i]
      t == ArgTensors(c, args[c])[i]
  IN  IF i <= n THEN concat'[b][i] = ConcatTensors(s, t) ELSE concat'[b][i] = s

Adds(c, n) ==
  /\ BatchSize(ctx[c]) # 1
  /\ ctx[c] # c
  /\ Filled(ctx[c])
  /\ \A i \in Inputs : Appends(c, n, i)
  /\ \/ n = NumInputs /\ (pc' = [pc EXCEPT ![c] = "notify"] \/ pc' = [pc EXCEPT ![c] = "wait"])
     \/ /\ n + 1 \in Inputs /\ ~Fits(c, n + 1)
        /\ pc' = [pc EXCEPT ![c] = "threw"]

LEMMA ConcatCases ==
  ASSUME ControlInv, NEW c \in Calls, Concat(c) \/ ConcatThrows(c)
  PROVE  /\ pc[c] = "concat" /\ ctx[c] \in Calls
         /\ \A b \in Calls : b # ctx[c] => concat'[b] = concat[b]
         /\ Queued(ctx[c])
         /\ UNCHANGED <<queue, members, output, ready, args, first, ctx, start, answer,
                        wpc, cur, notified, alive>>
         /\ Lends(c) \/ \E n \in 0 .. NumInputs : Adds(c, n)
<1>1. /\ pc[c] = "concat" /\ TypeOK
      /\ UNCHANGED <<queue, members, output, ready, args, first, ctx, start, answer,
                     wpc, cur, notified, alive>>
  BY DEF Concat, ConcatThrows, workerVars, ControlInv
<1>2. ctx[c] \in Calls
  BY <1>1 DEF ControlInv, TypeOK, LocalsSet
<1>3. Queued(ctx[c])
  <2>1. queue # <<>> /\ ctx[c] = queue[Len(queue)]
    BY <1>1 DEF ControlInv, ConcatOnLast
  <2>2. Len(queue) \in 1 .. Len(queue)
    BY <1>1, <2>1 DEF TypeOK
  <2> QED
    BY <2>1, <2>2 DEF Queued
<1>4. /\ members[ctx[c]] # <<>> /\ members[ctx[c]][1] = ctx[c]
      /\ members[ctx[c]][BatchSize(ctx[c])] = c
  BY <1>1, <1>2, <1>3 DEF ControlInv, ConcatOnLast, Queued, QueueIsPending,
     MembersAreCallers
<1>5. \A b \in Calls : b # ctx[c] => concat'[b] = concat[b]
  BY <1>1 DEF Concat, ConcatThrows, TypeOK
<1>6. BatchSize(ctx[c]) = 1 <=> ctx[c] = c
  <2>1. BatchSize(ctx[c]) \in 1 .. BatchSize(ctx[c]) /\ 1 \in 1 .. BatchSize(ctx[c])
    BY <1>1, <1>2, <1>4 DEF TypeOK, BatchSize
  <2> QED
    BY <1>2, <1>4, <2>1 DEF ControlInv, MembersAreCallers
<1>7. CASE BatchSize(ctx[c]) = 1
  BY <1>1, <1>2, <1>3, <1>5, <1>6, <1>7 DEF Concat, ConcatThrows, Lends, TypeOK, Goto
<1>8. CASE BatchSize(ctx[c]) # 1
  <2>1. Filled(ctx[c])
    <3>1. pc[ctx[c]] # "concat"
      BY <1>1, <1>2, <1>6, <1>8, OneAtATime, ControlIsGathering DEF Gathering
    <3> QED
      BY <1>4, <3>1 DEF Filled
  <2>2. ASSUME NEW n \in Int, concat' = [concat EXCEPT ![ctx[c]] = ConcatUpTo(c, n)]
        PROVE  \A i \in Inputs : Appends(c, n, i)
    BY <1>1, <1>2, <2>2 DEF ConcatUpTo, Appends, TypeOK
  <2>3. CASE Concat(c)
    <3>1. concat' = [concat EXCEPT ![ctx[c]] = ConcatUpTo(c, NumInputs)]
      BY <1>8, <2>3 DEF Concat
    <3>2. NumInputs \in 0 .. NumInputs /\ NumInputs \in Int
      BY NumInputsAssumption
    <3>3. \A i \in Inputs : Appends(c, NumInputs, i)
      BY <2>2, <3>1, <3>2
    <3>4. Adds(c, NumInputs)
      BY <1>6, <1>8, <2>1, <2>3, <3>3 DEF Adds, Concat, Goto
    <3> QED
      BY <1>1, <1>2, <1>3, <1>5, <3>2, <3>4
  <2>4. CASE ConcatThrows(c)
    <3>1. PICK i \in Inputs :
             /\ ~Fits(c, i)
             /\ concat' = [concat EXCEPT ![ctx[c]] = ConcatUpTo(c, i - 1)]
      BY <2>4 DEF ConcatThrows
    <3>2. i - 1 \in 0 .. NumInputs /\ i - 1 \in Int /\ i - 1 + 1 = i
      BY NumInputsAssumption DEF Inputs
    <3>3. \A j \in Inputs : Appends(c, i - 1, j)
      BY <2>2, <3>1, <3>2
    <3>4. Adds(c, i - 1)
      BY <1>6, <1>8, <2>1, <2>4, <3>1, <3>2, <3>3 DEF Adds, ConcatThrows, Goto
    <3> QED
      BY <1>1, <1>2, <1>3, <1>5, <3>2, <3>4
  <2> QED
    BY <2>3, <2>4
<1> QED
  BY <1>7, <1>8

(* What an appended input looks like. *)
Grown(c, n, i) ==
  LET s == concat[ctx[c]][i]
      t == concat'[ctx[c]][i]
  IN  /\ t.shape = s.shape /\ t.elem = s.elem
      /\ Len(s.rows) \in Nat /\ args[c][i].rows \in Nat
      /\ Len(t.rows) = Len(s.rows) + (IF i <= n THEN args[c][i].rows ELSE 0)
      /\ \A k \in 1 .. Len(s.rows) : t.rows[k] = s.rows[k]
      /\ i <= n => \A k \in 1 .. args[c][i].rows :
            t.rows[Len(s.rows) + k] = <<c, IF s.elem = args[c][i].elem THEN k ELSE 0>>

LEMMA AppendsRows ==
  ASSUME ControlInv, NEW c \in Calls, ctx[c] \in Calls, NEW n \in Nat,
         NEW i \in Inputs, Appends(c, n, i)
  PROVE  Grown(c, n, i)
<1> DEFINE s == concat[ctx[c]][i]
           a == ArgTensors(c, args[c])[i]
           t == concat'[ctx[c]][i]
<1>1. TypeOK
  BY DEF ControlInv
<1>2. s \in Tensor /\ args[c] \in ArgList /\ Len(s.rows) \in Nat /\ args[c][i].rows \in Nat
  BY <1>1, TensorTypes
<1>3. /\ a \in Tensor /\ a.elem = args[c][i].elem /\ Len(a.rows) = args[c][i].rows
      /\ \A k \in 1 .. args[c][i].rows : a.rows[k] = <<c, k>>
  BY <1>2, ArgTensorsType
<1>4. IF i <= n THEN t = ConcatTensors(s, a) ELSE t = s
  BY DEF Appends
<1> HIDE DEF s, a, t
<1>5. CASE i <= n
  <2>1. t = ConcatTensors(s, a)
    BY <1>4, <1>5
  <2>2. /\ t.shape = s.shape /\ t.elem = s.elem
        /\ Len(t.rows) = Len(s.rows) + Len(a.rows)
        /\ \A k \in 1 .. Len(s.rows) : t.rows[k] = s.rows[k]
        /\ \A k \in 1 .. Len(a.rows) :
              t.rows[Len(s.rows) + k] =
                 IF s.elem = a.elem THEN a.rows[k] ELSE <<a.rows[k][1], 0>>
    <3>1. s \in Tensor /\ a \in Tensor
      BY <1>2, <1>3
    <3> DEFINE u == ConcatTensors(s, a)
    <3>2. /\ u.shape = s.shape /\ u.elem = s.elem
          /\ Len(u.rows) = Len(s.rows) + Len(a.rows)
          /\ \A k \in 1 .. Len(s.rows) : u.rows[k] = s.rows[k]
          /\ \A k \in 1 .. Len(a.rows) :
                u.rows[Len(s.rows) + k] =
                   IF s.elem = a.elem THEN a.rows[k] ELSE <<a.rows[k][1], 0>>
      BY Zenon, <3>1, ConcatTensorsType
    <3> HIDE DEF u
    <3>3. t = u
      BY <2>1 DEF u
    <3> QED
      BY <3>2, <3>3
  <2>3. \A k \in 1 .. args[c][i].rows :
           t.rows[Len(s.rows) + k] = <<c, IF s.elem = args[c][i].elem THEN k ELSE 0>>
    <3> SUFFICES ASSUME NEW k \in 1 .. args[c][i].rows
                 PROVE  t.rows[Len(s.rows) + k] =
                           <<c, IF s.elem = args[c][i].elem THEN k ELSE 0>>
      OBVIOUS
    <3>1. a.rows[k] = <<c, k>> /\ a.rows[k][1] = c
      BY <1>3
    <3>2. t.rows[Len(s.rows) + k] =
             IF s.elem = args[c][i].elem THEN a.rows[k] ELSE <<a.rows[k][1], 0>>
      BY <1>3, <2>2
    <3> QED
      BY <3>1, <3>2
  <2> QED
    BY <1>2, <1>3, <1>5, <2>2, <2>3 DEF s, t, Grown
<1>6. CASE ~(i <= n)
  <2>1. t = s /\ Len(t.rows) = Len(s.rows) + 0
    BY <1>2, <1>4, <1>6
  <2> QED
    BY <1>2, <1>6, <2>1 DEF s, t, Grown
<1> QED
  BY <1>5, <1>6

-----------------------------------------------------------------------------
(* The parts of RowsInv, one by one. *)

LEMMA ArgsStay ==
  ASSUME [Next]_vars
  PROVE  args' = args
BY DEF Next, CallStep, Execute, Lock, Enqueue, Concat, ConcatThrows, NotifyOne,
       GetOutputs, Timeout, WorkerStep, WorkerLock, WorkerWait, WorkerPop,
       ModelExecute, NotifyResult, SpuriousWakeup, vars

(* Only a call that concatenates writes a batch.                           *)
LEMMA OnlyConcatWrites ==
  ASSUME [Next]_vars
  PROVE  (\E c \in Calls : Concat(c) \/ ConcatThrows(c)) \/ concat' = concat
BY DEF Next, CallStep, Execute, Lock, Enqueue, NotifyOne, GetOutputs,
       Timeout, WorkerStep, WorkerLock, WorkerWait, WorkerPop, ModelExecute,
       NotifyResult, SpuriousWakeup, vars, batchVars

(* How a step moves a program counter into or out of Concat. *)
LEMMA ConcatMoves ==
  ASSUME ControlInv, [Next]_vars, ~(\E c \in Calls : Concat(c) \/ ConcatThrows(c))
  PROVE  \A d \in Calls :
            /\ pc[d] = "concat" => pc'[d] = "concat"
            /\ pc'[d] \in {"notify", "wait", "returned", "timedout"} => Settled(d)
<1> USE DEF ControlInv, TypeOK, Goto, Settled
<1>1. ASSUME NEW c \in Calls, Execute(c) \/ Lock(c) \/ Enqueue(c)
      PROVE  /\ pc[c] # "concat"
             /\ \E l \in {"lock", "enqueue", "concat"} : pc' = [pc EXCEPT ![c] = l]
  BY <1>1 DEF Execute, Lock, Enqueue
<1>2. ASSUME NEW c \in Calls, NotifyOne(c) \/ GetOutputs(c) \/ Timeout(c)
      PROVE  pc[c] \in {"notify", "wait"} /\ \E l : pc' = [pc EXCEPT ![c] = l]
  BY <1>2 DEF NotifyOne, GetOutputs, Timeout
<1>3. CASE WorkerStep \/ SpuriousWakeup \/ UNCHANGED vars
  BY <1>3 DEF WorkerStep, WorkerLock, WorkerWait, WorkerPop, ModelExecute,
       NotifyResult, SpuriousWakeup, vars, callVars
<1>4. ASSUME NEW c \in Calls, Execute(c) \/ Lock(c) \/ Enqueue(c)
      PROVE  \A d \in Calls :
                /\ pc[d] = "concat" => pc'[d] = "concat"
                /\ pc'[d] \in {"notify", "wait", "returned", "timedout"} => Settled(d)
  BY <1>1, <1>4
<1>5. ASSUME NEW c \in Calls, NotifyOne(c) \/ GetOutputs(c) \/ Timeout(c)
      PROVE  \A d \in Calls :
                /\ pc[d] = "concat" => pc'[d] = "concat"
                /\ pc'[d] \in {"notify", "wait", "returned", "timedout"} => Settled(d)
  BY <1>2, <1>5
<1> QED
  BY <1>3, <1>4, <1>5 DEF Next, CallStep

(* A batch that is filled after a step without Concat was filled before,   *)
(* and if it holds one promise after the step, it held one before.         *)
LEMMA FilledBefore ==
  ASSUME ControlInv, [Next]_vars, ~(\E c \in Calls : Concat(c) \/ ConcatThrows(c)),
         NEW b \in Calls, Filled(b)'
  PROVE  Filled(b) /\ (BatchSize(b)' = 1 => BatchSize(b) = 1)
<1>1. members'[b] # <<>> /\ pc'[b] # "concat"
  BY DEF Filled
<1>2. pc[b] # "concat"
  BY <1>1, ConcatMoves
<1>3. CASE members' = members
  BY <1>1, <1>2, <1>3 DEF Filled, BatchSize
<1>4. ASSUME NEW c \in Calls, Enqueue(c)
      PROVE  Filled(b) /\ (BatchSize(b)' = 1 => BatchSize(b) = 1)
  <2>1. PICK e \in Calls :
           /\ e = c \/ members[e] # <<>>
           /\ members' = [members EXCEPT ![e] = Append(members[e], c)]
           /\ pc' = [pc EXCEPT ![c] = "concat"]
    BY <1>4, EnqueueAddsOne, ControlIsGathering
  <2>2. b # c
    BY <1>1, <2>1 DEF ControlInv, TypeOK
  <2>3. CASE b # e
    BY <1>1, <1>2, <2>1, <2>3 DEF Filled, BatchSize, ControlInv, TypeOK
  <2>4. CASE b = e
    <3>1. members[b] \in Seq(Calls) /\ members[b] # <<>>
      BY <2>1, <2>2, <2>4 DEF ControlInv, TypeOK
    <3>2. Len(members[b]) \in Nat \ {0} /\ members'[b] = Append(members[b], c)
      BY <2>1, <2>4, <3>1, EmptySeq DEF ControlInv, TypeOK
    <3>3. Len(Append(members[b], c)) = Len(members[b]) + 1
      BY <3>1, AppendOne
    <3> QED
      BY <1>2, <3>1, <3>2, <3>3 DEF Filled, BatchSize
  <2> QED
    BY <2>3, <2>4
<1> QED
  BY <1>3, <1>4, OnlyEnqueueAdds

(* Concatenating one batch fills no other.                                 *)
LEMMA OthersStayFilled ==
  ASSUME ControlInv, NEW c \in Calls, Concat(c) \/ ConcatThrows(c),
         NEW b \in Calls, b # ctx[c], Filled(b)'
  PROVE  Filled(b)
<1>1. /\ members' = members /\ pc[c] = "concat"
  BY ConcatCases
<1>2. members[b] # <<>>
  BY <1>1 DEF Filled
<1>3. 1 \in 1 .. BatchSize(b) /\ members[b][1] = b
  BY <1>2 DEF ControlInv, TypeOK, MembersAreCallers, BatchSize
<1>4. b # c
  BY <1>3 DEF ControlInv, MembersAreCallers
<1>5. pc[b] # "concat"
  BY <1>1, <1>4, OneAtATime DEF ControlInv, Typing
<1> QED
  BY <1>2, <1>5 DEF Filled

(* Every step keeps the tensors of a batch those of its creator's.         *)
LEMMA NextCreators == RowsInv /\ [Next]_vars => CreatorsTensors'
<1> SUFFICES ASSUME RowsInv, [Next]_vars, NEW b \in Calls, Filled(b)', NEW i \in Inputs
             PROVE  /\ concat'[b][i].shape = args[b][i].shape
                    /\ concat'[b][i].elem = args[b][i].elem
  BY ArgsStay DEF CreatorsTensors
<1>0. ControlInv /\ CreatorsTensors /\ TypeOK
  BY DEF RowsInv, ControlInv
<1>1. CASE concat' = concat /\ ~(\E c \in Calls : Concat(c) \/ ConcatThrows(c))
  BY <1>0, <1>1, FilledBefore DEF CreatorsTensors
<1>2. ASSUME NEW c \in Calls, Concat(c) \/ ConcatThrows(c)
      PROVE  /\ concat'[b][i].shape = args[b][i].shape
             /\ concat'[b][i].elem = args[b][i].elem
  <2>1. /\ ctx[c] \in Calls /\ members' = members
        /\ \A e \in Calls : e # ctx[c] => concat'[e] = concat[e]
        /\ Lends(c) \/ \E n \in 0 .. NumInputs : Adds(c, n)
    BY <1>0, <1>2, ConcatCases
  <2>2. CASE Lends(c) /\ b = ctx[c]
    BY <1>0, <2>2, TensorTypes, ArgTensorsType DEF Lends
  <2>3. ASSUME NEW n \in 0 .. NumInputs, Adds(c, n), b = ctx[c]
        PROVE  /\ concat'[b][i].shape = args[b][i].shape
               /\ concat'[b][i].elem = args[b][i].elem
    <3>1. Filled(b) /\ Appends(c, n, i) /\ n \in Nat
      BY <2>3, NumInputsAssumption DEF Adds
    <3>2. /\ concat'[ctx[c]][i].shape = concat[ctx[c]][i].shape
          /\ concat'[ctx[c]][i].elem = concat[ctx[c]][i].elem
      <4>1. Grown(c, n, i)
        BY <1>0, <2>1, <3>1, AppendsRows
      <4> QED
        BY <4>1 DEF Grown
    <3> QED
      BY <1>0, <2>3, <3>1, <3>2 DEF CreatorsTensors
  <2>4. CASE b # ctx[c]
    <3>1. Filled(b)
      BY <1>0, <1>2, <2>4, OthersStayFilled
    <3> QED
      BY <1>0, <2>1, <2>4, <3>1 DEF CreatorsTensors
  <2> QED
    BY <2>1, <2>2, <2>3, <2>4
<1> QED
  BY <1>1, <1>2, OnlyConcatWrites

(* Every step keeps the first input of a batch the longest.                *)
LEMMA NextLonger == RowsInv /\ [Next]_vars => LongerFirst'
<1> SUFFICES ASSUME RowsInv, [Next]_vars, NEW b \in Calls, NEW i \in Inputs
             PROVE  Len(concat'[b][i].rows) <= Len(concat'[b][1].rows)
  BY DEF LongerFirst, RowsOf
<1>0. ControlInv /\ TypeOK /\ EvenArgs /\ 1 \in Inputs /\ i \in Nat
  BY OneIsInput DEF RowsInv, ControlInv, Inputs
<1>1. Len(concat[b][i].rows) <= Len(concat[b][1].rows)
  BY DEF RowsInv, LongerFirst, RowsOf
<1>2. CASE concat' = concat
  BY <1>1, <1>2
<1>3. ASSUME NEW c \in Calls, Concat(c) \/ ConcatThrows(c), b = ctx[c]
      PROVE  Len(concat'[b][i].rows) <= Len(concat'[b][1].rows)
  <2>1. args[c][i].rows = args[c][1].rows /\ args[c][1].rows \in Nat /\ args[c] \in ArgList
    BY <1>0, TensorTypes DEF EvenArgs
  <2>2. CASE Lends(c)
    <3>1. /\ Len(ArgTensors(c, args[c])[i].rows) = args[c][i].rows
          /\ Len(ArgTensors(c, args[c])[1].rows) = args[c][1].rows
      BY <1>0, <2>1, ArgTensorsType
    <3> QED
      BY <1>3, <2>1, <2>2, <3>1 DEF Lends
  <2>3. ASSUME NEW n \in 0 .. NumInputs, Adds(c, n)
        PROVE  Len(concat'[b][i].rows) <= Len(concat'[b][1].rows)
    <3>1. Appends(c, n, i) /\ Appends(c, n, 1) /\ n \in Nat
      BY <1>0, <2>3, NumInputsAssumption DEF Adds
    <3>2. /\ Len(concat[b][i].rows) \in Nat
          /\ Len(concat'[b][i].rows) =
                Len(concat[b][i].rows) + (IF i <= n THEN args[c][i].rows ELSE 0)
      <4>1. Grown(c, n, i)
        BY <1>0, <1>3, <3>1, AppendsRows
      <4> QED
        BY <1>3, <4>1 DEF Grown
    <3>3. /\ Len(concat[b][1].rows) \in Nat
          /\ Len(concat'[b][1].rows) =
                Len(concat[b][1].rows) + (IF 1 <= n THEN args[c][1].rows ELSE 0)
      <4>1. Grown(c, n, 1)
        BY <1>0, <1>3, <3>1, AppendsRows
      <4> QED
        BY <1>3, <4>1 DEF Grown
    <3>4. i <= n => 1 <= n
      BY NumInputsAssumption DEF Inputs
    <3> DEFINE Li == Len(concat[b][i].rows)
               L1 == Len(concat[b][1].rows)
               Mi == Len(concat'[b][i].rows)
               M1 == Len(concat'[b][1].rows)
               r == args[c][1].rows
    <3>5. /\ Li \in Nat /\ L1 \in Nat /\ r \in Nat /\ Li <= L1
          /\ Mi = Li + (IF i <= n THEN r ELSE 0)
          /\ M1 = L1 + (IF 1 <= n THEN r ELSE 0)
      BY <1>1, <2>1, <3>2, <3>3
    <3> HIDE DEF Li, L1, Mi, M1, r
    <3>6. Mi <= M1
      BY <3>4, <3>5
    <3> QED
      BY <3>6 DEF Mi, M1
  <2> QED
    BY <1>0, <1>3, <2>2, <2>3, ConcatCases
<1>4. ASSUME NEW c \in Calls, Concat(c) \/ ConcatThrows(c), b # ctx[c]
      PROVE  Len(concat'[b][i].rows) <= Len(concat'[b][1].rows)
  BY <1>0, <1>1, <1>4, ConcatCases
<1> QED
  BY <1>2, <1>3, <1>4, OnlyConcatWrites

(* Every step keeps the span of a call that concatenates at the end of the *)
(* batch.                                                                  *)
LEMMA NextSpan == RowsInv /\ [Next]_vars => SpanAtEnd'
<1> SUFFICES ASSUME RowsInv, [Next]_vars, NEW d \in Calls, pc'[d] = "concat"
             PROVE  start'[d] = IF Len(members'[ctx'[d]]) = 1 THEN 0
                                ELSE Len(concat'[ctx'[d]][1].rows)
  BY DEF SpanAtEnd, RowsOf, BatchSize
<1>0. ControlInv /\ TypeOK
  BY DEF RowsInv, ControlInv
<1>1. ASSUME NEW c \in Calls, Enqueue(c)
      PROVE  start'[d] = IF Len(members'[ctx'[d]]) = 1 THEN 0
                         ELSE Len(concat'[ctx'[d]][1].rows)
  <2>1. PICK b \in Calls :
           /\ (b = c /\ members[c] = <<>>) \/ (b # c /\ members[b] # <<>>)
           /\ members' = [members EXCEPT ![b] = Append(members[b], c)]
           /\ ctx' = [ctx EXCEPT ![c] = b]
           /\ start' = [start EXCEPT ![c] = BatchTileCount(b)]
           /\ pc' = [pc EXCEPT ![c] = "concat"]
           /\ pc[c] = "enqueue"
           /\ concat' = concat
           /\ BatchTileCount(b) = IF b = c THEN 0 ELSE Len(concat[b][1].rows)
    BY <1>0, <1>1, EnqueueAddsOne, ControlIsGathering
  <2>2. d = c
    BY <1>0, <2>1, OneAtATime, ControlIsGathering DEF Gathering, TypeOK
  <2>3. /\ members[b] \in Seq(Calls) /\ members'[b] = Append(members[b], c)
        /\ ctx'[d] = b /\ start'[d] = BatchTileCount(b)
    BY <1>0, <2>1, <2>2 DEF TypeOK
  <2>4. Len(members'[b]) = 1 <=> b = c
    <3>1. /\ Len(Append(members[b], c)) = Len(members[b]) + 1
          /\ members[b] = <<>> => Len(Append(members[b], c)) = 1
      BY <2>3, AppendOne
    <3>2. members[b] # <<>> => Len(members[b]) \in Nat \ {0}
      BY <2>3, EmptySeq
    <3> QED
      BY <2>1, <2>3, <3>1, <3>2
  <2> QED
    BY <2>1, <2>3, <2>4
<1>2. ASSUME NEW c \in Calls, Concat(c) \/ ConcatThrows(c)
      PROVE  FALSE
  <2>1. pc[c] = "concat" /\ \E l \in {"notify", "wait", "threw"} : pc' = [pc EXCEPT ![c] = l]
    BY <1>0, <1>2, ConcatCases DEF Lends, Adds
  <2>2. pc[d] = "concat" /\ d # c
    BY <1>0, <2>1 DEF TypeOK
  <2> QED
    BY <1>0, <2>1, <2>2, OneAtATime, ControlIsGathering DEF Gathering
<1>3. CASE /\ ~(\E c \in Calls : Enqueue(c))
           /\ ~(\E c \in Calls : Concat(c) \/ ConcatThrows(c))
  <2>1. pc[d] = "concat"
    BY <1>0, <1>3, OnlyEnqueueAndPopMoveQueue, PopTakesFirst, ControlIsGathering
  <2> QED
    BY <1>3, <2>1, OnlyEnqueueAdds, OnlyConcatWrites DEF RowsInv, SpanAtEnd, RowsOf, BatchSize
<1> QED
  BY <1>1, <1>2, <1>3

(* Every step keeps a batch of one the inputs of its call.                 *)
LEMMA NextAlone == RowsInv /\ [Next]_vars => AloneIsWhole'
<1> SUFFICES ASSUME RowsInv, [Next]_vars,
                    NEW b \in Calls, Filled(b)', BatchSize(b)' = 1
             PROVE  concat'[b] = ArgTensors(b, args'[b])
  BY DEF AloneIsWhole, ArgTensors
<1>a. args' = args
  BY ArgsStay
<1>0. ControlInv /\ AloneIsWhole
  BY DEF RowsInv
<1>1. CASE concat' = concat /\ ~(\E c \in Calls : Concat(c) \/ ConcatThrows(c))
  BY <1>a, <1>0, <1>1, FilledBefore DEF AloneIsWhole
<1>2. ASSUME NEW c \in Calls, Concat(c) \/ ConcatThrows(c)
      PROVE  concat'[b] = ArgTensors(b, args[b])
  <2>1. /\ members' = members
        /\ \A e \in Calls : e # ctx[c] => concat'[e] = concat[e]
        /\ Lends(c) \/ \E n \in 0 .. NumInputs : Adds(c, n)
    BY <1>0, <1>2, ConcatCases
  <2>2. BatchSize(b) = 1
    BY <2>1 DEF BatchSize
  <2>3. CASE b = ctx[c]
    BY <2>1, <2>2, <2>3 DEF Lends, Adds
  <2>4. CASE b # ctx[c]
    BY <1>0, <1>2, <2>1, <2>2, <2>4, OthersStayFilled DEF AloneIsWhole
  <2> QED
    BY <2>3, <2>4
<1> QED
  BY <1>a, <1>1, <1>2, OnlyConcatWrites

(* Every step keeps as many rows in all the inputs of a call.              *)
LEMMA NextEvenArgs == RowsInv /\ [Next]_vars => EvenArgs'
BY ArgsStay DEF RowsInv, EvenArgs

(* A step without Concat keeps a settled call's rows where they are. *)
LEMMA SettledStays ==
  ASSUME ControlInv, [Next]_vars, ~(\E c \in Calls : Concat(c) \/ ConcatThrows(c)),
         NEW d \in Calls, Settled(d)'
  PROVE  /\ Settled(d) /\ ctx[d] \in Calls
         /\ UNCHANGED <<concat, args>> /\ ctx'[d] = ctx[d] /\ start'[d] = start[d]
<1>1. Settled(d)
  BY ConcatMoves DEF Settled
<1>2. pc[d] \notin {"idle", "lock", "enqueue"} /\ ctx[d] \in Calls
  BY <1>1 DEF Settled, ControlInv, TypeOK, LocalsSet
<1>3. ctx'[d] = ctx[d] /\ start'[d] = start[d]
  <2>1. ASSUME NEW c \in Calls, Enqueue(c)
        PROVE  ctx'[d] = ctx[d] /\ start'[d] = start[d]
    BY <1>2, <2>1 DEF Enqueue, ControlInv, TypeOK
  <2> QED
    BY <2>1, OnlyEnqueueAdds
<1> QED
  BY <1>1, <1>2, <1>3, ArgsStay, OnlyConcatWrites

(* A gap between the inputs of a batch is never closed again. *)
LEMMA EvenBefore ==
  ASSUME RowsInv, NEW c \in Calls, ctx[c] \in Calls, NEW n \in 0 .. NumInputs,
         Adds(c, n), NEW i \in Inputs,
         Len(concat'[ctx[c]][i].rows) = Len(concat'[ctx[c]][1].rows)
  PROVE  Len(concat[ctx[c]][i].rows) = Len(concat[ctx[c]][1].rows)
<1>1. /\ ControlInv /\ TypeOK /\ 1 \in Inputs /\ i \in Nat /\ n \in Nat
      /\ i <= n => 1 <= n
      /\ Appends(c, n, i) /\ Appends(c, n, 1)
  BY OneIsInput, NumInputsAssumption DEF RowsInv, ControlInv, Inputs, Adds
<1> DEFINE Li == Len(concat[ctx[c]][i].rows)
           L1 == Len(concat[ctx[c]][1].rows)
           Mi == Len(concat'[ctx[c]][i].rows)
           M1 == Len(concat'[ctx[c]][1].rows)
           r == args[c][1].rows
<1>2. args[c][i].rows = r /\ Li <= L1
  BY DEF RowsInv, EvenArgs, LongerFirst, RowsOf
<1>3. Li \in Nat /\ r \in Nat /\ Mi = Li + (IF i <= n THEN r ELSE 0)
  <2>1. /\ Li \in Nat /\ args[c][i].rows \in Nat
        /\ Mi = Li + (IF i <= n THEN args[c][i].rows ELSE 0)
    <3>1. Grown(c, n, i)
      BY <1>1, AppendsRows
    <3> QED
      BY <3>1 DEF Grown
  <2> QED
    BY <1>2, <2>1
<1>4. L1 \in Nat /\ M1 = L1 + (IF 1 <= n THEN r ELSE 0)
  <2>1. Grown(c, n, 1)
    BY <1>1, AppendsRows
  <2> QED
    BY <2>1 DEF Grown
<1> HIDE DEF Li, L1, Mi, M1, r
<1>5. Mi = M1 => Li = L1
  BY <1>1, <1>2, <1>3, <1>4
<1> QED
  BY <1>5 DEF Li, L1, Mi, M1

(* The span and the rows of a settled call, in every input of its batch. *)
InPlace(d, i) ==
  /\ start[d] + args[d][1].rows <= Len(concat[ctx[d]][i].rows)
  /\ \A k \in 1 .. args[d][i].rows :
        concat[ctx[d]][i].rows[start[d] + k] =
           <<d, IF concat[ctx[d]][i].elem = args[d][i].elem THEN k ELSE 0>>

(* Concat puts a call's rows in place and moves nobody else's. *)
LEMMA ConcatPlaces ==
  ASSUME RowsInv, NEW c \in Calls, Concat(c) \/ ConcatThrows(c),
         NEW d \in Calls, Settled(d)', ctx[d] \in Calls,
         \A i \in Inputs : Len(concat'[ctx[d]][i].rows) = Len(concat'[ctx[d]][1].rows)
  PROVE  \A i \in Inputs : InPlace(d, i)'
<1> SUFFICES ASSUME NEW i \in Inputs PROVE InPlace(d, i)'
  OBVIOUS
<1>0. ControlInv /\ TypeOK /\ 1 \in Inputs
  BY OneIsInput DEF RowsInv, ControlInv
<1>1. /\ pc[c] = "concat" /\ ctx[c] \in Calls
      /\ \A b \in Calls : b # ctx[c] => concat'[b] = concat[b]
      /\ UNCHANGED <<members, args, ctx, start>>
      /\ Lends(c) \/ \E n \in 0 .. NumInputs : Adds(c, n)
  BY <1>0, ConcatCases
<1>2. \E l : pc' = [pc EXCEPT ![c] = l]
  BY <1>1 DEF Lends, Adds
<1>3. d # c => Settled(d)
  BY <1>0, <1>2 DEF Settled, TypeOK
<1>4. args[d][i].rows = args[d][1].rows /\ args[d][1].rows \in Nat /\ start[d] \in Nat
  BY <1>0, TensorTypes DEF RowsInv, EvenArgs
<1>5. ASSUME d # c, \A j \in Inputs : Len(concat[ctx[d]][j].rows) = Len(concat[ctx[d]][1].rows)
      PROVE  InPlace(d, i)
  BY <1>3, <1>5 DEF RowsInv, RowsInPlace, Even, RowsOf, End, InPlace
<1>6. CASE ctx[d] # ctx[c]
  <2>1. d # c /\ concat'[ctx[d]] = concat[ctx[d]]
    BY <1>1, <1>6
  <2> QED
    BY <1>1, <1>5, <2>1 DEF InPlace
<1>7. CASE ctx[d] = ctx[c] /\ Lends(c)
  <2>1. ctx[c] = c /\ concat'[c] = ArgTensors(c, args[c]) /\ BatchSize(c) = 1
    BY <1>7 DEF Lends
  <2>2. d = c
    <3>1. \E n \in 1 .. BatchSize(c) : members[c][n] = d
      BY <1>0, <1>7, <2>1, BatchAssumption DEF ControlInv, MembersAreCallers, Joined
    <3>2. \E n \in 1 .. BatchSize(c) : members[c][n] = c
      BY <1>0, <2>1, BatchAssumption DEF ControlInv, MembersAreCallers, Joined
    <3> QED
      BY <2>1, <3>1, <3>2
  <2>3. start[c] = 0
    BY <1>1, <2>1 DEF RowsInv, SpanAtEnd
  <2>4. /\ concat'[c][i].elem = args[c][i].elem
        /\ Len(concat'[c][i].rows) = args[c][i].rows
        /\ \A k \in 1 .. args[c][i].rows : concat'[c][i].rows[k] = <<c, k>>
    <3>1. args[c] \in ArgList
      BY <1>0 DEF TypeOK
    <3> QED
      BY <2>1, <3>1, ArgTensorsType
  <2>5. \A k \in 1 .. args[c][i].rows : start[c] + k = k
    BY <2>3
  <2>6. start[c] + args[c][1].rows <= Len(concat'[c][i].rows)
    BY <1>4, <2>2, <2>3, <2>4
  <2>7. \A k \in 1 .. args[c][i].rows :
           concat'[c][i].rows[start[c] + k] =
              <<c, IF concat'[c][i].elem = args[c][i].elem THEN k ELSE 0>>
    BY <2>4, <2>5
  <2> QED
    BY <1>1, <2>1, <2>2, <2>6, <2>7 DEF InPlace
<1>8. ASSUME NEW n \in 0 .. NumInputs, Adds(c, n), ctx[d] = ctx[c]
      PROVE  InPlace(d, i)'
  <2>1. Appends(c, n, i) /\ n \in Nat /\ BatchSize(ctx[c]) # 1
    BY <1>8, NumInputsAssumption DEF Adds
  <2>2. \A j \in Inputs : Len(concat[ctx[d]][j].rows) = Len(concat[ctx[d]][1].rows)
    BY <1>1, <1>8, EvenBefore
  <2> DEFINE s == concat[ctx[c]][i]
             t == concat'[ctx[c]][i]
  <2>3. /\ t.elem = s.elem
        /\ Len(s.rows) \in Nat /\ args[c][i].rows \in Nat
        /\ Len(t.rows) = Len(s.rows) + (IF i <= n THEN args[c][i].rows ELSE 0)
        /\ \A k \in 1 .. Len(s.rows) : t.rows[k] = s.rows[k]
        /\ i <= n => \A k \in 1 .. args[c][i].rows :
              t.rows[Len(s.rows) + k] = <<c, IF s.elem = args[c][i].elem THEN k ELSE 0>>
    <3>1. Grown(c, n, i)
      BY <1>0, <1>1, <2>1, AppendsRows
    <3> QED
      BY <3>1 DEF Grown
  <2>4. CASE d # c
    <3>1. /\ start[d] + args[d][1].rows <= Len(s.rows)
          /\ \A k \in 1 .. args[d][i].rows :
                s.rows[start[d] + k] = <<d, IF s.elem = args[d][i].elem THEN k ELSE 0>>
      BY <1>5, <1>8, <2>2, <2>4 DEF InPlace
    <3> HIDE DEF s, t
    <3>2. start[d] + args[d][1].rows <= Len(t.rows)
      BY <1>4, <2>3, <3>1
    <3>3. \A k \in 1 .. args[d][i].rows : start[d] + k \in 1 .. Len(s.rows)
      BY SMTT(30), <1>4, <2>3, <3>1
    <3>4. \A k \in 1 .. args[d][i].rows :
             t.rows[start[d] + k] = <<d, IF t.elem = args[d][i].elem THEN k ELSE 0>>
      BY <2>3, <3>1, <3>3
    <3> QED
      BY <1>1, <1>8, <3>2, <3>4 DEF InPlace, t
  <2>5. CASE d = c
    <3>1. i <= n
      <4>1. pc'[c] # "threw"
        BY <2>5 DEF Settled
      <4>2. n = NumInputs
        BY <1>0, <1>8, <4>1 DEF Adds, TypeOK
      <4> QED
        BY <4>2 DEF Inputs
    <3>2. start[c] = Len(s.rows)
      BY <1>1, <1>8, <2>1, <2>2 DEF RowsInv, SpanAtEnd, RowsOf
    <3> HIDE DEF s, t
    <3>3. start[d] + args[d][1].rows <= Len(t.rows)
      BY <1>4, <2>3, <2>5, <3>1, <3>2
    <3>4. \A k \in 1 .. args[d][i].rows :
             t.rows[start[d] + k] = <<d, IF t.elem = args[d][i].elem THEN k ELSE 0>>
      BY <2>3, <2>5, <3>1, <3>2
    <3> QED
      BY <1>1, <1>8, <3>3, <3>4 DEF InPlace, t
  <2> QED
    BY <2>4, <2>5
<1> QED
  BY <1>1, <1>6, <1>7, <1>8

(* Every step keeps the rows where the spans say.                          *)
LEMMA NextRowsInPlace == RowsInv /\ [Next]_vars => RowsInPlace'
<1> SUFFICES ASSUME RowsInv, [Next]_vars, NEW d \in Calls, Settled(d)', Even(ctx[d])'
             PROVE  \A i \in Inputs : InPlace(d, i)'
  BY DEF RowsInPlace, InPlace, End, RowsOf
<1>0. ControlInv /\ TypeOK
  BY DEF RowsInv, ControlInv
<1>e. \A i \in Inputs : Len(concat'[ctx'[d]][i].rows) = Len(concat'[ctx'[d]][1].rows)
  BY DEF Even, RowsOf
<1>1. ASSUME NEW c \in Calls, Concat(c) \/ ConcatThrows(c)
      PROVE  \A i \in Inputs : InPlace(d, i)'
  <2>1. /\ ctx' = ctx /\ pc[c] = "concat"
        /\ \E l : pc' = [pc EXCEPT ![c] = l]
    BY <1>0, <1>1, ConcatCases DEF Lends, Adds
  <2>2. pc[d] \notin {"idle", "lock", "enqueue"}
    BY <1>0, <2>1 DEF Settled, TypeOK
  <2>3. ctx[d] \in Calls
    BY <1>0, <2>2 DEF ControlInv, TypeOK, LocalsSet
  <2> QED
    BY <1>1, <1>e, <2>1, <2>3, ConcatPlaces
<1>2. CASE ~(\E c \in Calls : Concat(c) \/ ConcatThrows(c))
  <2>1. /\ Settled(d)
        /\ UNCHANGED <<concat, args>> /\ ctx'[d] = ctx[d] /\ start'[d] = start[d]
    BY <1>0, <1>2, SettledStays
  <2>2. \A i \in Inputs : Len(concat[ctx[d]][i].rows) = Len(concat[ctx[d]][1].rows)
    BY <1>e, <2>1
  <2>3. \A i \in Inputs : InPlace(d, i)
    BY <2>1, <2>2 DEF RowsInv, RowsInPlace, Even, RowsOf, End, InPlace
  <2> QED
    BY <2>1, <2>3 DEF InPlace
<1> QED
  BY <1>1, <1>2

(* Only a run of the model changes its output.                             *)
LEMMA OnlyModelExecuteRuns ==
  ASSUME [Next]_vars
  PROVE  ModelExecute \/ output' = output
BY DEF Next, CallStep, Execute, Lock, Enqueue, Concat, ConcatThrows, NotifyOne,
       GetOutputs, Timeout, WorkerStep, WorkerLock, WorkerWait, WorkerPop,
       NotifyResult, SpuriousWakeup, vars, batchVars

(* A batch that has run is not written to again. *)
LEMMA RunIsWritten ==
  ASSUME ControlInv, [Next]_vars, NEW b \in Calls, HasRun(b)
  PROVE  concat'[b] = concat[b]
<1>1. ASSUME Queued(b) PROVE FALSE
  <2>1. b # cur /\ \A c \in ready : ctx[c] # b
    BY <1>1 DEF ControlInv, QueueIsPending, Queued
  <2> QED
    BY <2>1 DEF HasRun
<1> QED
  BY <1>1, ConcatWritesQueued, ControlIsGathering

(* Only ModelExecute makes a batch one that has run. *)
LEMMA HasRunBefore ==
  ASSUME ControlInv, [Next]_vars, ~ModelExecute, NEW b \in Calls, HasRun(b)'
  PROVE  HasRun(b)
<1>0. /\ TypeOK /\ Gathering /\ ready \subseteq Joined
  BY ControlIsGathering DEF ControlInv, ReadyInOrder
<1>1. CASE NotifyResult
  <2>1. /\ cur \in Calls /\ wpc = "notify" /\ ctx' = ctx
        /\ \A m \in ready' : m \in ready \/ ctx[m] = cur
        /\ wpc' = "notify" => cur' = cur
    BY <1>0, <1>1, NotifySetsOne DEF NotifyResult, callVars
  <2> QED
    BY <2>1 DEF HasRun
<1>2. CASE WorkerPop
  BY <1>0, <1>2, PopTakesFirst DEF HasRun
<1>3. CASE ~NotifyResult /\ ~WorkerPop
  <2>1. /\ ready' = ready
        /\ wpc' = "notify" => wpc = "notify" /\ cur' = cur
    BY <1>3, OnlyNotifyResultSets, OnlyWorkerMovesCur
  <2>2. \A m \in ready : ctx'[m] = ctx[m]
    <3>1. ASSUME NEW c \in Calls, Enqueue(c)
          PROVE  \A m \in ready : ctx'[m] = ctx[m]
      <4>1. ctx[c] = NoCall
        BY <1>0, <3>1, EnqueueAddsOne
      <4>2. c \notin ready
        BY <1>0, <4>1 DEF Joined
      <4> QED
        BY <1>0, <3>1, <4>2 DEF Enqueue, TypeOK
    <3> QED
      BY <3>1, OnlyEnqueueAdds
  <2> QED
    BY <2>1, <2>2 DEF HasRun
<1> QED
  BY <1>1, <1>2, <1>3

(* Every step keeps the output that of the inputs.                         *)
LEMMA NextOutput == RowsInv /\ [Next]_vars => OutputOfInputs'
<1> SUFFICES ASSUME RowsInv, [Next]_vars, NEW b \in Calls, HasRun(b)'
             PROVE  ModelAccepts(concat'[b]) /\ output'[b] = ModelOutput(concat'[b])
  BY DEF OutputOfInputs, ModelAccepts, ModelOutput
<1>0. ControlInv /\ TypeOK
  BY DEF RowsInv, ControlInv
<1>1. ASSUME HasRun(b), output'[b] = output[b]
      PROVE  ModelAccepts(concat'[b]) /\ output'[b] = ModelOutput(concat'[b])
  BY <1>0, <1>1, RunIsWritten DEF RowsInv, OutputOfInputs
<1>2. CASE ~ModelExecute
  BY <1>0, <1>1, <1>2, HasRunBefore, OnlyModelExecuteRuns
<1>3. CASE ModelExecute
  <2>1. UNCHANGED <<concat, ready, ctx, cur>> /\ wpc = "run"
    BY <1>3 DEF ModelExecute, callVars
  <2>2. CASE /\ ModelAccepts(concat[cur])
             /\ output' = [output EXCEPT ![cur] = ModelOutput(concat[cur])]
    <3>1. CASE b = cur
      BY <1>0, <2>1, <2>2, <3>1 DEF TypeOK
    <3>2. CASE b # cur
      BY <1>0, <1>1, <2>1, <2>2, <3>2 DEF TypeOK, HasRun
    <3> QED
      BY <3>1, <3>2
  <2>3. CASE UNCHANGED <<output, wpc>>
    BY <1>1, <2>1, <2>3 DEF HasRun
  <2> QED
    BY <1>3, <2>2, <2>3 DEF ModelExecute
<1> QED
  BY <1>2, <1>3

-----------------------------------------------------------------------------
(* The answers. *)

(* The rows of the calls that share a call's batch do not matter: the model *)
(* turns the ones in the call's span into the call's own output.            *)
LEMMA SpanOfOutput ==
  ASSUME NEW c \in Calls, NEW a \in ArgList, NEW t \in [Inputs -> Tensor],
         NEW n \in Nat, Acceptable(a), ModelAccepts(t), n + a[1].rows <= Len(t[1].rows),
         \A i \in Inputs : \A k \in 1 .. a[i].rows : t[i].rows[n + k] = <<c, k>>
  PROVE  SubSeq(ModelOutput(t), n + 1, n + a[1].rows) = OwnOutput(c, a)
<1> DEFINE r == a[1].rows
           out == ModelOutput(t)
           s == SubSeq(out, n + 1, n + r)
<1>1. r \in Nat /\ \A i \in Inputs : a[i].rows = r
  BY OneIsInput, RowsAssumption DEF ArgList, Arg, Acceptable
<1>2. /\ out \in Seq(OutputRow) /\ Len(out) = Len(t[1].rows) /\ Len(out) \in Nat
      /\ out = [k \in 1 .. Len(t[1].rows) |-> [i \in Inputs |-> t[i].rows[k]]]
  BY ModelOutputType DEF ModelOutput
<1>3. \A k \in 1 .. r : out[n + k] = [i \in Inputs |-> <<c, k>>]
  <2> SUFFICES ASSUME NEW k \in 1 .. r PROVE out[n + k] = [i \in Inputs |-> <<c, k>>]
    OBVIOUS
  <2>1. n + k \in 1 .. Len(t[1].rows)
    BY <1>1, <1>2
  <2>2. \A i \in Inputs : t[i].rows[n + k] = <<c, k>>
    BY <1>1
  <2> HIDE DEF out
  <2>3. out[n + k] = [i \in Inputs |-> t[i].rows[n + k]]
    BY <1>2, <2>1
  <2> QED
    BY <2>2, <2>3
<1> HIDE DEF r, out
<1>4. s = [k \in 1 .. r |-> out[n + k]]
  <2>1. n + r <= Len(out)
    BY <1>2 DEF r
  <2>2. s = [k \in 1 .. ((n + r) - (n + 1) + 1) |-> out[k + (n + 1) - 1]]
    BY <1>1, <1>2, <2>1
  <2>3. (n + r) - (n + 1) + 1 = r /\ \A k \in 1 .. r : k + (n + 1) - 1 = n + k
    BY <1>1
  <2> QED
    BY <2>2, <2>3
<1>5. s = [k \in 1 .. r |-> [i \in Inputs |-> <<c, k>>]]
  BY <1>3, <1>4
<1> QED
  BY <1>5 DEF OwnOutput, r, out

(* A call that gets outputs and is fine by itself gets its own. *)
LEMMA GetsOwn ==
  ASSUME RowsInv, NEW c \in Calls, GetOutputs(c), Acceptable(args[c])
  PROVE  /\ ctx[c] \in Calls /\ ModelAccepts(concat[ctx[c]])
         /\ answer' = [answer EXCEPT ![c] = OwnOutput(c, args[c])]
         /\ pc' = [pc EXCEPT ![c] = "returned"]
<1>0. /\ ControlInv /\ TypeOK /\ pc[c] = "wait" /\ c \in ready
      /\ args[c] \in ArgList /\ start[c] \in Nat
  BY DEF RowsInv, ControlInv, TypeOK, GetOutputs
<1>1. ctx[c] \in Calls
  BY <1>0 DEF ControlInv, TypeOK, LocalsSet
<1> DEFINE t == concat[ctx[c]]
<1>2. ModelAccepts(t) /\ output[ctx[c]] = ModelOutput(t)
  BY <1>0, <1>1 DEF HasRun, RowsInv, OutputOfInputs
<1>3. t \in [Inputs -> Tensor]
  BY <1>0, <1>1, TensorTypes DEF TypeOK
<1>4. \A i \in Inputs : args[c][i].rows = args[c][1].rows /\ args[c][i].elem = t[i].elem
  BY <1>2 DEF ModelAccepts, Acceptable
<1>5. \A i \in Inputs : InPlace(c, i)
  BY <1>0, <1>2 DEF ModelAccepts, RowsInv, RowsInPlace, Settled, Even, RowsOf, End, InPlace
<1>6. /\ start[c] + args[c][1].rows <= Len(t[1].rows)
      /\ \A i \in Inputs : \A k \in 1 .. args[c][i].rows : t[i].rows[start[c] + k] = <<c, k>>
  BY <1>4, <1>5, OneIsInput DEF InPlace
<1>7. Slice(ModelOutput(t), start[c], End(c)) = OwnOutput(c, args[c])
  BY <1>0, <1>2, <1>3, <1>6, SpanOfOutput DEF End, Slice
<1>8. CASE BatchSize(ctx[c]) = 1
  <2>1. members[ctx[c]] # <<>> /\ ctx[c] = c
    <3>1. members[ctx[c]] \in Seq(Calls) /\ Len(<<>>) = 0
      BY <1>0, <1>1 DEF TypeOK
    <3>2. \E n \in 1 .. BatchSize(ctx[c]) : members[ctx[c]][n] = c
      BY <1>0, <1>1, BatchAssumption DEF ControlInv, MembersAreCallers, Joined
    <3>3. members[ctx[c]] # <<>> => members[ctx[c]][1] = ctx[c]
      BY <1>0, <1>1 DEF ControlInv, MembersAreCallers
    <3> QED
      BY <1>8, <3>1, <3>2, <3>3 DEF BatchSize
  <2>2. t = ArgTensors(c, args[c])
    BY <1>0, <1>8, <2>1 DEF RowsInv, AloneIsWhole, Filled
  <2>3. ModelOutput(t) = OwnOutput(c, args[c])
    <3>1. /\ Len(t[1].rows) = args[c][1].rows
          /\ \A i \in Inputs : \A k \in 1 .. args[c][i].rows : t[i].rows[k] = <<c, k>>
      BY <1>0, <2>2, OneIsInput, ArgTensorsType
    <3> HIDE DEF t
    <3>2. \A k \in 1 .. args[c][1].rows : \A i \in Inputs : t[i].rows[k] = <<c, k>>
      BY <1>4, <3>1
    <3>3. \A k \in 1 .. args[c][1].rows :
             [i \in Inputs |-> t[i].rows[k]] = [i \in Inputs |-> <<c, k>>]
      BY <3>2
    <3> QED
      BY <3>1, <3>3 DEF ModelOutput, OwnOutput
  <2> QED
    BY <1>0, <1>1, <1>2, <1>8, <2>3 DEF GetOutputs, Goto
<1>9. CASE BatchSize(ctx[c]) # 1
  <2>1. CanSlice(output[ctx[c]], start[c], End(c))
    <3>1. Len(ModelOutput(t)) = Len(t[1].rows)
      BY <1>2, <1>3, ModelOutputType
    <3>2. args[c][1].rows \in Nat
      BY <1>0, OneIsInput, TensorTypes
    <3> QED
      BY <1>0, <1>2, <1>6, <3>1, <3>2 DEF CanSlice, End
  <2> QED
    BY <1>0, <1>1, <1>2, <1>7, <1>9, <2>1 DEF GetOutputs, Goto
<1> QED
  BY <1>1, <1>2, <1>8, <1>9

(* A step that does not get outputs returns nothing and changes no answer. *)
LEMMA OnlyGetOutputsAnswers ==
  ASSUME TypeOK, [Next]_vars
  PROVE  \/ \E c \in Calls : GetOutputs(c)
         \/ answer' = answer /\ \A d \in Calls : pc'[d] = "returned" => pc[d] = "returned"
<1> USE DEF TypeOK, Goto
<1>1. ASSUME NEW c \in Calls, CallStep(c), ~GetOutputs(c)
      PROVE  answer' = answer /\ \A d \in Calls : pc'[d] = "returned" => pc[d] = "returned"
  <2>1. answer' = answer /\ \E l : l # "returned" /\ pc' = [pc EXCEPT ![c] = l]
    BY <1>1 DEF CallStep, Execute, Lock, Enqueue, Concat, ConcatThrows, NotifyOne,
       Timeout
  <2> QED
    BY <2>1
<1>2. CASE WorkerStep \/ SpuriousWakeup \/ UNCHANGED vars
  BY <1>2 DEF WorkerStep, WorkerLock, WorkerWait, WorkerPop, ModelExecute,
     NotifyResult, SpuriousWakeup, vars, callVars
<1> QED
  BY <1>1, <1>2 DEF Next

(* Every step keeps the answers of a call those of its own rows.           *)
LEMMA NextAnswers == RowsInv /\ [Next]_vars => AnswersAreOwn'
<1> SUFFICES ASSUME RowsInv, [Next]_vars, NEW d \in Calls,
                    pc'[d] = "returned", Acceptable(args[d])
             PROVE  answer'[d] = OwnOutput(d, args[d])
  BY ArgsStay DEF AnswersAreOwn, Acceptable, OwnOutput
<1>0. TypeOK
  BY DEF RowsInv, ControlInv
<1>1. ASSUME pc[d] = "returned", answer'[d] = answer[d]
      PROVE  answer'[d] = OwnOutput(d, args[d])
  BY <1>1 DEF RowsInv, AnswersAreOwn
<1>2. ASSUME GetOutputs(d)
      PROVE  answer'[d] = OwnOutput(d, args[d])
  BY <1>0, <1>2, GetsOwn DEF TypeOK
<1>3. ASSUME NEW c \in Calls, GetOutputs(c), c # d
      PROVE  pc[d] = "returned" /\ answer'[d] = answer[d]
  BY <1>0, <1>3 DEF GetOutputs, Goto, TypeOK
<1> QED
  BY <1>0, <1>1, <1>2, <1>3, OnlyGetOutputsAnswers

(* The rows' invariant holds at the start.                                 *)
LEMMA InitRows == EvenRequests /\ Init => RowsInv
<1> SUFFICES ASSUME EvenRequests, Init PROVE RowsInv
  OBVIOUS
<1>1. ControlInv
  BY InitControl
<1>2. EvenArgs
  <2>1. \A c \in Calls : args[c] \in Requests[c]
    BY DEF Init, Arguments
  <2> QED
    BY <2>1 DEF EvenRequests, EvenArgs
<1>3. /\ CreatorsTensors /\ SpanAtEnd /\ AloneIsWhole /\ RowsInPlace
      /\ AnswersAreOwn
  BY DEF Init, CreatorsTensors, Filled, SpanAtEnd, AloneIsWhole, RowsInPlace, Settled,
     AnswersAreOwn
<1>4. LongerFirst
  BY OneIsInput DEF Init, LongerFirst, RowsOf, NoTensor
<1>5. OutputOfInputs
  BY BatchAssumption DEF Init, OutputOfInputs, HasRun
<1> QED
  BY <1>1, <1>2, <1>3, <1>4, <1>5 DEF RowsInv

(* Every step keeps it.                                                    *)
LEMMA NextRows == RowsInv /\ [Next]_vars => RowsInv'
<1> SUFFICES ASSUME RowsInv, [Next]_vars PROVE RowsInv'
  OBVIOUS
<1>1. ControlInv'
  BY NextControl DEF RowsInv
<1> QED
  BY <1>1, NextEvenArgs, NextCreators, NextLonger, NextSpan, NextAlone, NextRowsInPlace,
     NextOutput, NextAnswers DEF RowsInv

(***************************************************************************)
(* Whatever calls share a batch, in whatever order they come and whichever *)
(* of them time out or are refused: if every call passes the same number   *)
(* of rows in all its inputs, a call the model accepts that returns, does  *)
(* so with the model's output on its own rows (Execute, ConcatInputs,      *)
(* SliceOutputs).                                                          *)
(***************************************************************************)
THEOREM AnswersCorrect ==
  ASSUME EvenRequests
  PROVE  Spec => []AnswersAreOwn
<1>1. Init => RowsInv
  BY InitRows
<1>2. RowsInv => AnswersAreOwn
  BY DEF RowsInv
<1> QED
  BY <1>1, <1>2, NextRows, PTL DEF Spec


-----------------------------------------------------------------------------
(***************************************************************************)
(* The batch manager implements the inference service.                     *)
(***************************************************************************)
(* Service!Trouble, said of the batch manager's variables. *)
Troubled ==
  \E c, d \in Calls : /\ pc[c] # "idle" /\ pc[d] # "idle"
                      /\ ~Acceptable(args[c]) \/ ~SameShapes(args[c], args[d])

status == [c \in Calls |-> IF pc[c] \in {"idle"} \cup Ended THEN pc[c] ELSE "pending"]

LEMMA TroubledIsTrouble ==
  ASSUME TypeOK
  PROVE  Troubled <=> Service!Trouble
<1>1. Service!Made = {c \in Calls : pc[c] # "idle"}
  BY DEF Service!Made, TypeOK, Ended
<1>2. \A c, d \in Calls : /\ Service!Acceptable(args[c]) <=> Acceptable(args[c])
                          /\ Service!SameShapes(args[c], args[d]) <=> SameShapes(args[c], args[d])
  BY DEF Service!Acceptable, Acceptable, Service!SameShapes, SameShapes, Service!Inputs, Inputs
<1> QED
  BY <1>1, <1>2 DEF Troubled, Service!Trouble

(* Calls are not unmade. *)
LEMMA TroubledStays ==
  ASSUME TypeOK, [Next]_vars, Troubled
  PROVE  Troubled'
<1>1. \A c \in Calls : pc[c] # "idle" => pc'[c] # "idle"
  <2>1. ASSUME NEW c \in Calls, CallStep(c)
        PROVE  \E l : l # "idle" /\ pc' = [pc EXCEPT ![c] = l]
    BY <2>1 DEF CallStep, Execute, Lock, Enqueue, Concat, ConcatThrows, NotifyOne,
       GetOutputs, Timeout, Goto
  <2>2. CASE WorkerStep \/ SpuriousWakeup \/ UNCHANGED vars
    BY <2>2 DEF WorkerStep, WorkerLock, WorkerWait, WorkerPop, ModelExecute,
       NotifyResult, SpuriousWakeup, vars, callVars
  <2> QED
    BY <2>1, <2>2 DEF Next, TypeOK
<1> QED
  BY <1>1, ArgsStay DEF Troubled

(* The call that made a batch has been made, and waits for it. *)
LEMMA CreatorIsMade ==
  ASSUME ControlInv, NEW b \in Calls, members[b] # <<>>
  PROVE  ctx[b] = b /\ pc[b] # "idle"
<1>1. members[b] \in Seq(Calls)
  BY DEF ControlInv, TypeOK
<1>2. 1 \in 1 .. BatchSize(b)
  BY <1>1, EmptySeq DEF BatchSize
<1>3. members[b][1] = b /\ ctx[members[b][1]] = b
  BY <1>2 DEF ControlInv, MembersAreCallers
<1> QED
  BY <1>3, BatchAssumption DEF ControlInv, LocalsSet

(* ConcatTensors throws only at an input whose shape differs from the one  *)
(* the batch was made with, or whose type nobody could run anyway.         *)
LEMMA MisfitIsTrouble ==
  ASSUME RowsInv, NEW c \in Calls, pc[c] = "concat", ctx[c] \in Calls,
         Filled(ctx[c]), NEW i \in Inputs, ~Fits(c, i)
  PROVE  Troubled
<1> DEFINE b == ctx[c]
<1>1. ControlInv /\ TypeOK /\ pc[b] # "idle"
  BY CreatorIsMade DEF RowsInv, ControlInv, Filled
<1>2. concat[b][i].shape = args[b][i].shape /\ concat[b][i].elem = args[b][i].elem
  BY DEF RowsInv, CreatorsTensors
<1>3. ArgTensors(c, args[c])[i].shape = args[c][i].shape
  BY <1>1, ArgTensorsType, TensorTypes
<1>4. args[b][i].shape # args[c][i].shape \/ args[b][i].elem \notin SupportedElems
  BY <1>2, <1>3 DEF Fits, CanConcat
<1>5. ~Acceptable(args[b]) \/ ~SameShapes(args[b], args[c])
  BY <1>4, ModelAssumption DEF Acceptable, SameShapes
<1> QED
  BY <1>1, <1>5 DEF Troubled

-----------------------------------------------------------------------------
(* Inputs short of rows. *)

LEMMA NextShort ==
  ASSUME RowsInv, \A b \in Calls : Filled(b) /\ ~Even(b) => Troubled, [Next]_vars,
         NEW b \in Calls, Filled(b)', ~Even(b)'
  PROVE  Troubled'
<1>0. ControlInv /\ TypeOK /\ 1 \in Inputs
  BY OneIsInput DEF RowsInv, ControlInv
<1>1. ASSUME Filled(b), concat'[b] = concat[b]
      PROVE  Troubled'
  <2>1. ~Even(b)
    BY <1>1 DEF Even, RowsOf
  <2> QED
    BY <1>0, <1>1, <2>1, TroubledStays
<1>2. CASE ~(\E c \in Calls : Concat(c) \/ ConcatThrows(c))
  BY <1>0, <1>1, <1>2, FilledBefore, OnlyConcatWrites
<1>3. ASSUME NEW c \in Calls, Concat(c) \/ ConcatThrows(c)
      PROVE  Troubled'
  <2>1. /\ pc[c] = "concat" /\ ctx[c] \in Calls
        /\ \A e \in Calls : e # ctx[c] => concat'[e] = concat[e]
        /\ Lends(c) \/ \E n \in 0 .. NumInputs : Adds(c, n)
    BY <1>0, <1>3, ConcatCases
  <2>2. CASE b # ctx[c]
    BY <1>0, <1>1, <1>3, <2>1, <2>2, OthersStayFilled
  <2>3. CASE b = ctx[c] /\ Lends(c)
    <3>1. b = c /\ concat'[b] = ArgTensors(c, args[c]) /\ args[c] \in ArgList
      BY <1>0, <2>3 DEF Lends, TypeOK
    <3>2. \A i \in Inputs : Len(concat'[b][i].rows) = args[c][i].rows
      BY <3>1, ArgTensorsType
    <3>3. \A i \in Inputs : Len(concat'[b][i].rows) = Len(concat'[b][1].rows)
      BY <1>0, <3>2 DEF RowsInv, EvenArgs
    <3> QED
      BY <3>3 DEF Even, RowsOf
  <2>4. ASSUME NEW n \in 0 .. NumInputs, Adds(c, n), b = ctx[c]
        PROVE  Troubled'
    <3>1. Filled(b)
      BY <2>4 DEF Adds
    <3>2. CASE Even(b) /\ n = NumInputs
      <4>1. ASSUME NEW i \in Inputs
            PROVE  Len(concat'[b][i].rows) = Len(concat[b][i].rows) + args[c][1].rows
        <5>1. Appends(c, n, i) /\ n \in Nat /\ i <= n
          BY <2>4, <3>2, NumInputsAssumption DEF Adds, Inputs
        <5>2. Grown(c, n, i)
          BY <1>0, <2>1, <5>1, AppendsRows
        <5>3. Len(concat'[b][i].rows) = Len(concat[b][i].rows) + args[c][i].rows
          BY <2>4, <5>1, <5>2 DEF Grown
        <5> QED
          BY <5>3 DEF RowsInv, EvenArgs
      <4>2. \A i \in Inputs : Len(concat'[b][i].rows) = Len(concat'[b][1].rows)
        BY <1>0, <3>2, <4>1 DEF Even, RowsOf
      <4> QED
        BY <4>2 DEF Even, RowsOf
    <3>3. CASE n # NumInputs
      <4>1. n + 1 \in Inputs /\ ~Fits(c, n + 1)
        BY <2>4, <3>3 DEF Adds
      <4>2. Troubled
        BY <2>1, <2>4, <3>1, <4>1, MisfitIsTrouble
      <4> QED
        BY <1>0, <4>2, TroubledStays
    <3>4. CASE ~Even(b)
      BY <1>0, <3>1, <3>4, TroubledStays
    <3> QED
      BY <3>2, <3>3, <3>4
  <2> QED
    BY <2>1, <2>2, <2>3, <2>4
<1> QED
  BY <1>2, <1>3

(* Every step keeps the whole invariant.                                   *)
LEMMA NextInd == IndInv /\ [Next]_vars => IndInv'
<1> SUFFICES ASSUME IndInv, [Next]_vars PROVE IndInv'
  OBVIOUS
<1>1. RowsInv /\ RowsInv' /\ TypeOK /\ TypeOK'
  BY NextRows DEF IndInv, RowsInv, ControlInv
<1>2. Troubled <=> Service!Trouble
  BY <1>1, TroubledIsTrouble
<1>3. (Troubled <=> Service!Trouble)'
  BY <1>1, TroubledIsTrouble, PTL
<1>4. \A b \in Calls : Filled(b) /\ ~Even(b) => Troubled
  BY <1>2 DEF IndInv, ShortMeansTrouble
<1>5. \A b \in Calls : Filled(b)' /\ ~Even(b)' => Troubled'
  BY <1>1, <1>4, NextShort
<1> QED
  BY <1>1, <1>3, <1>5 DEF IndInv, ShortMeansTrouble

-----------------------------------------------------------------------------
(* Every step is one of the service's, or none. *)

(* A caller that goes from one place in Execute to another has not ended;  *)
(* one that ends, ends.                                                    *)
LEMMA StatusOf ==
  ASSUME TypeOK, NEW c \in Calls, NEW l, pc' = [pc EXCEPT ![c] = l]
  PROVE  status' = [status EXCEPT ![c] = IF l \in {"idle"} \cup Ended THEN l ELSE "pending"]
BY DEF TypeOK, status

(* A step within a call is no step of the service.                         *)
LEMMA StatusStays ==
  ASSUME TypeOK, NEW c \in Calls, NEW l, pc' = [pc EXCEPT ![c] = l],
         l \notin {"idle"} \cup Ended, pc[c] \notin {"idle"} \cup Ended
  PROVE  status' = status
BY DEF TypeOK, status

(* A call that begins is a request of the service.                         *)
LEMMA StepExecute ==
  ASSUME TypeOK, alive, NEW c \in Calls, Execute(c)
  PROVE  Service!Next
<1>1. /\ pc[c] = "idle" /\ pc' = [pc EXCEPT ![c] = "lock"]
      /\ UNCHANGED <<args, answer>> /\ alive' = alive
  BY DEF Execute, Goto
<1>2. status[c] = "idle"
  BY <1>1 DEF status
<1>3. status' = [status EXCEPT ![c] = "pending"]
  BY <1>1, StatusOf DEF Ended
<1>4. Service!Begin(c)
  BY <1>1, <1>2, <1>3 DEF Service!Begin, status
<1> QED
  BY <1>4 DEF Service!Next

(* A call that waits too long times out in the service.                    *)
LEMMA StepTimeout ==
  ASSUME TypeOK, alive, NEW c \in Calls, Timeout(c)
  PROVE  Service!Next
<1>1. /\ pc[c] = "wait" /\ pc' = [pc EXCEPT ![c] = "timedout"]
      /\ UNCHANGED <<args, answer>> /\ alive' = alive
  BY DEF Timeout, Goto
<1>2. status[c] = "pending"
  BY <1>1 DEF status, Ended
<1>3. status' = [status EXCEPT ![c] = "timedout"]
  BY <1>1, StatusOf DEF Ended
<1>4. Service!Timeout(c)
  BY <1>1, <1>2, <1>3 DEF Service!Timeout, status
<1> QED
  BY <1>4 DEF Service!Next

(* An exception out of Execute, with a cause. *)
LEMMA StepRefuse ==
  ASSUME TypeOK, alive, NEW c \in Calls, pc[c] \in {"concat", "wait"},
         pc' = [pc EXCEPT ![c] = "threw"], UNCHANGED <<args, answer>>, alive' = alive,
         Troubled
  PROVE  Service!Next
<1>1. status[c] = "pending"
  BY DEF status, Ended
<1>2. status' = [status EXCEPT ![c] = "threw"]
  BY StatusOf DEF Ended
<1>3. Service!Refuse(c)
  BY <1>1, <1>2, TroubledIsTrouble DEF Service!Refuse, status
<1> QED
  BY <1>3 DEF Service!Next

(* A call whose inputs do not fit is refused by the service.               *)
LEMMA StepConcatThrows ==
  ASSUME RowsInv, alive, NEW c \in Calls, ConcatThrows(c)
  PROVE  Service!Next
<1>1. ControlInv /\ TypeOK
  BY DEF RowsInv, ControlInv
<1>2. /\ pc[c] = "concat" /\ ctx[c] \in Calls
      /\ UNCHANGED <<args, answer>> /\ alive' = alive
      /\ pc' = [pc EXCEPT ![c] = "threw"]
      /\ BatchSize(ctx[c]) # 1
  BY <1>1, ConcatCases DEF ConcatThrows, Goto
<1>3. PICK i \in Inputs : ~Fits(c, i)
  BY DEF ConcatThrows
<1>4. Filled(ctx[c])
  BY <1>1, <1>2, ConcatCases DEF Lends, Adds
<1>5. Troubled
  BY <1>2, <1>3, <1>4, MisfitIsTrouble
<1> QED
  BY <1>1, <1>2, <1>5, StepRefuse

(* A call that takes its rows is an answer of the service.                 *)
LEMMA StepGetOutputs ==
  ASSUME RowsInv, TypeOK', alive, NEW c \in Calls, GetOutputs(c)
  PROVE  Service!Next
<1>1. /\ TypeOK /\ pc[c] = "wait" /\ UNCHANGED args /\ alive' = alive
      /\ \A d \in Calls \ {c} : answer'[d] = answer[d]
  BY DEF RowsInv, ControlInv, TypeOK, GetOutputs
<1>2. status[c] = "pending"
  BY <1>1 DEF status, Ended
<1>3. Service!Acceptable(args[c]) <=> Acceptable(args[c])
  BY DEF Service!Acceptable, Acceptable, Service!Inputs, Inputs
<1>4. CASE Acceptable(args[c])
  <2>1. /\ answer' = [answer EXCEPT ![c] = OwnOutput(c, args[c])]
        /\ pc' = [pc EXCEPT ![c] = "returned"]
    BY <1>4, GetsOwn
  <2>2. status' = [status EXCEPT ![c] = "returned"]
    BY <1>1, <2>1, StatusOf DEF Ended
  <2>3. Service!OwnOutput(c, args[c]) = OwnOutput(c, args[c])
    BY DEF Service!OwnOutput, OwnOutput, Service!Inputs, Inputs
  <2>4. Service!Answer(c)
    BY <1>1, <1>2, <1>3, <1>4, <2>1, <2>2, <2>3 DEF Service!Answer, status
  <2> QED
    BY <1>1, <2>4 DEF Service!Next
<1>5. CASE ~Acceptable(args[c]) /\ pc' = [pc EXCEPT ![c] = "returned"]
  <2>1. status' = [status EXCEPT ![c] = "returned"]
    BY <1>1, <1>5, StatusOf DEF Ended
  <2>2. Service!OutputRow = OutputRow
    BY DEF Service!OutputRow, OutputRow, Service!Row, Row, Service!Inputs, Inputs
  <2>3. answer' \in [Calls -> Seq(Service!OutputRow)]
    BY <2>2 DEF TypeOK
  <2>4. Service!AnswerAnything(c)
    BY <1>1, <1>2, <1>3, <1>5, <2>1, <2>3 DEF Service!AnswerAnything, status
  <2> QED
    BY <1>1, <2>4 DEF Service!Next
<1>6. CASE ~Acceptable(args[c]) /\ pc' = [pc EXCEPT ![c] = "threw"] /\ answer' = answer
  <2>1. Troubled
    BY <1>1, <1>6 DEF Troubled
  <2> QED
    BY <1>1, <1>6, <2>1, StepRefuse
<1> QED
  BY <1>4, <1>5, <1>6 DEF GetOutputs, Goto

(* A run of the model is no step of the service unless it ends the         *)
(* process.                                                                *)
LEMMA StepModelExecute ==
  ASSUME IndInv, alive, ModelExecute
  PROVE  Service!Next \/ UNCHANGED Service!svars
<1>1. /\ ControlInv /\ TypeOK /\ wpc = "run"
      /\ UNCHANGED <<pc, args, answer, members, concat>>
  BY DEF IndInv, RowsInv, ControlInv, ModelExecute, callVars
<1>2. status' = status
  BY <1>1 DEF status
<1>3. cur \in Calls /\ members[cur] # <<>>
  BY <1>1 DEF ControlInv, TypeOK, LocalsSet, QueueIsPending
<1>4. Filled(cur)
  <2>1. ctx[cur] = cur
    BY <1>1, <1>3, CreatorIsMade
  <2>2. ASSUME pc[cur] = "concat" PROVE FALSE
    <3>1. queue # <<>> /\ cur = queue[Len(queue)]
      BY <1>1, <1>3, <2>1, <2>2 DEF ControlInv, ConcatOnLast
    <3>2. Len(queue) \in 1 .. Len(queue)
      BY <1>1, <3>1 DEF TypeOK
    <3> QED
      BY <1>1, <3>1, <3>2 DEF ControlInv, QueueIsPending
  <2> QED
    BY <1>3, <2>2 DEF Filled
<1>5. ASSUME ~ModelAccepts(concat[cur]) PROVE Troubled
  <2>1. pc[cur] # "idle"
    BY <1>1, <1>3, CreatorIsMade
  <2>2. CASE ~Even(cur)
    BY <1>1, <1>3, <1>4, <2>2, TroubledIsTrouble DEF IndInv, ShortMeansTrouble
  <2>3. CASE Even(cur)
    <3>1. \E i \in Inputs : concat[cur][i].elem # ModelElem \/ concat[cur][i].shape \notin ModelShapes
      BY <1>5, <2>3 DEF ModelAccepts, Even, RowsOf
    <3>2. ~Acceptable(args[cur])
      BY <1>3, <1>4, <3>1 DEF IndInv, RowsInv, CreatorsTensors, Acceptable
    <3> QED
      BY <1>3, <2>1, <3>2 DEF Troubled
  <2> QED
    BY <2>2, <2>3
<1>6. CASE ~ModelAccepts(concat[cur]) /\ alive' = FALSE
  <2>1. Service!Die
    BY <1>1, <1>2, <1>5, <1>6, TroubledIsTrouble DEF Service!Die, status
  <2> QED
    BY <2>1 DEF Service!Next
<1>7. CASE alive' = alive
  BY <1>1, <1>2, <1>7 DEF Service!svars, status
<1> QED
  BY <1>6, <1>7 DEF ModelExecute

(* Everything else is between the callers and the worker. *)
LEMMA StepInside ==
  ASSUME TypeOK, [Next]_vars, ~ModelExecute,
         ~(\E c \in Calls : Execute(c) \/ Timeout(c) \/ ConcatThrows(c) \/ GetOutputs(c))
  PROVE  UNCHANGED Service!svars
<1>1. ASSUME NEW c \in Calls, Lock(c) \/ Enqueue(c) \/ Concat(c) \/ NotifyOne(c)
      PROVE  status' = status /\ UNCHANGED <<args, answer>> /\ alive' = alive
  <2>1. pc[c] \in {"lock", "enqueue", "concat", "notify"} /\ UNCHANGED <<args, answer>>
        /\ alive' = alive
    BY <1>1 DEF Lock, Enqueue, Concat, NotifyOne
  <2>2. \E l \in {"enqueue", "concat", "notify", "wait"} : pc' = [pc EXCEPT ![c] = l]
    BY <1>1 DEF Lock, Enqueue, Concat, NotifyOne, Goto
  <2>3. status' = status
    BY <2>1, <2>2, StatusStays DEF Ended
  <2> QED
    BY <2>1, <2>3
<1>2. CASE WorkerStep \/ SpuriousWakeup \/ UNCHANGED vars
  <2>1. UNCHANGED <<pc, args, answer>> /\ alive' = alive
    BY <1>2 DEF WorkerStep, WorkerLock, WorkerWait, WorkerPop, NotifyResult,
       SpuriousWakeup, vars, callVars
  <2> QED
    BY <2>1 DEF Service!svars, status
<1>3. CASE status' = status /\ UNCHANGED <<args, answer>> /\ alive' = alive
  BY <1>3 DEF Service!svars, status
<1> QED
  BY <1>1, <1>2, <1>3 DEF Next, CallStep

(* The whole invariant holds at the start.                                 *)
LEMMA InitInd == EvenRequests /\ Init => IndInv
BY InitRows DEF IndInv, ShortMeansTrouble, Filled, Init

(***************************************************************************)
(* The invariant all of this rests on, in every reachable state: queue,    *)
(* promises and locks in order, every call's rows in its span of the batch *)
(* it joined, and no input of a batch short of rows unless a caller passed *)
(* tensors that do not fit (ConcatInputs, ConcatTensors, SliceOutputs).    *)
(***************************************************************************)
THEOREM RowsStayInPlace ==
  ASSUME EvenRequests
  PROVE  Spec => []IndInv
BY InitInd, NextInd, PTL DEF Spec

(***************************************************************************)
(* The batch manager implements the inference service: for calls that pass *)
(* the same number of rows in all their inputs, batching shows only in     *)
(* what the service allows next to calls that differ in shape or that the  *)
(* model would reject by themselves (Execute, WorkerLoop).                 *)
(***************************************************************************)
THEOREM ServiceImplemented ==
  ASSUME EvenRequests
  PROVE  Spec => ImplementsService
<1>1. Init => Service!Init
  <2> SUFFICES ASSUME Init PROVE Service!Init
    OBVIOUS
  <2>1. status = [c \in Calls |-> "idle"]
    BY DEF Init, status
  <2>2. Service!Arguments = Arguments
    BY DEF Service!Arguments, Arguments
  <2> QED
    BY <2>1, <2>2 DEF Init, Service!Init, status
<1>2. IndInv /\ [Next]_vars => [Service!Next]_Service!svars
  <2> SUFFICES ASSUME IndInv, [Next]_vars PROVE Service!Next \/ UNCHANGED Service!svars
    OBVIOUS
  <2>1. RowsInv /\ TypeOK /\ TypeOK'
    BY NextRows DEF IndInv, RowsInv, ControlInv
  <2>2. CASE UNCHANGED vars
    BY <2>2 DEF vars, callVars, Service!svars
  <2>3. CASE alive /\ Next
    <3>1. ASSUME NEW c \in Calls, Execute(c) \/ Timeout(c) \/ ConcatThrows(c) \/ GetOutputs(c)
          PROVE  Service!Next
      BY <2>1, <2>3, <3>1, StepExecute, StepTimeout, StepConcatThrows, StepGetOutputs
    <3>2. CASE ModelExecute
      BY <2>3, <3>2, StepModelExecute
    <3> QED
      BY <2>1, <3>1, <3>2, StepInside
  <2> QED
    BY <2>2, <2>3 DEF Next
<1> QED
  BY <1>1, <1>2, InitInd, NextInd, PTL DEF Spec, ImplementsService, Service!Spec

=============================================================================

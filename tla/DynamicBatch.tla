---------------------------- MODULE DynamicBatch ----------------------------
(***************************************************************************)
(* DynamicBatchManager (pyis/ops/ort_session/ort_dym_batch_mgr.cpp): the   *)
(* threads inside Execute gather their inputs into batches on a queue, a   *)
(* detached worker thread runs the model on one batch at a time, and every *)
(* caller cuts its own rows out of the batch's output.                     *)
(*                                                                         *)
(* A batch (struct BatchContext) is named after the call that created it.  *)
(* An action is what one thread does between two points where another can  *)
(* get in its way; what a thread does under queue_mutex_ is more than one  *)
(* action, so that the mutex has something to protect.                     *)
(***************************************************************************)
EXTENDS Tensors, Integers

CONSTANTS
  MaxBatchSize,  \* max_batch_size_, an int the constructor takes as it is
  Worker,        \* the worker thread
  NoCall         \* nobody: no lock owner, no batch

ASSUME BatchAssumption ==
  /\ MaxBatchSize \in Int
  /\ Worker \notin Calls
  /\ NoCall \notin Calls \cup {Worker}

VARIABLES
  mutex,     \* owner of queue_mutex_, or NoCall
  queue,     \* batch_queue_
  members,   \* members[b]: the calls whose promises b holds, in order
  concat,    \* concat[b]: concat_inputs_ of b
  output,    \* output[b]: concat_outputs_ of b
  ready,     \* the calls whose promise has its value
  pc,        \* pc[c]: where call c is in Execute, or how it ended
  args,      \* args[c]: the inputs of call c
  first,     \* first[c]: c's local first_query
  ctx,       \* ctx[c]: c's local batch_context
  start,     \* start[c]: c's local output_index_start
  answer,    \* answer[c]: the outputs c returned
  wpc,       \* where the worker is in WorkerLoop
  cur,       \* the worker's local batch_context
  notified,  \* how many promises of cur the worker has set
  alive      \* the process has not been terminated

batchVars == <<members, concat, output>>
callVars == <<pc, first, ctx, start, answer>>
workerVars == <<wpc, cur, notified>>
vars == <<mutex, queue, batchVars, ready, callVars, args, workerVars, alive>>

-----------------------------------------------------------------------------

BatchSize(b) == Len(members[b])

Goto(c, l) == pc' = [pc EXCEPT ![c] = l]

(***************************************************************************)
(* Mutants: slips this code could have, each of which breaks a property.   *)
(***************************************************************************)

(* The calls of a batch counted, not its rows. *)
CallCount(b) == BatchSize(b)

(* A batch is full only when it holds one call too many. *)
NeedsNewBatchLate ==
  \/ queue = <<>>
  \/ BatchSize(queue[Len(queue)]) = MaxBatchSize + 1

(* Execute without queue_mutex_. *)
LockNothing(c) ==
  /\ pc[c] = "lock"
  /\ Goto(c, "enqueue")
  /\ UNCHANGED <<mutex, queue, batchVars, ready, args, first, ctx, start,
                 answer, workerVars, alive>>

(* ConcatInputs leaves out the last input. *)
ConcatBefore(c, n) ==
  [i \in Inputs |-> IF i < n THEN ConcatTensors(concat[ctx[c]][i],
                                                ArgTensors(c, args[c])[i])
                             ELSE concat[ctx[c]][i]]

NotifyNobody(c) ==
  /\ pc[c] = "notify"
  /\ Goto(c, "wait")
  /\ UNCHANGED <<mutex, queue, batchVars, ready, args, first, ctx, start,
                 answer, workerVars, alive>>

(* cv_.wait without the condition. *)
WorkerWaitBlindly ==
  /\ wpc = "check"
  /\ mutex' = NoCall
  /\ wpc' = "waiting"
  /\ UNCHANGED <<queue, batchVars, ready, callVars, args, cur, notified, alive>>

(* The front of the queue is not popped, or everything behind it is, too. *)
PopLeaving(rest) ==
  /\ wpc = "check"
  /\ queue # <<>>
  /\ cur' = Head(queue)
  /\ queue' = rest
  /\ mutex' = NoCall
  /\ wpc' = "run"
  /\ UNCHANGED <<batchVars, ready, callVars, args, notified, alive>>
WorkerPeek == PopLeaving(queue)
WorkerPopAll == PopLeaving(<<>>)

-----------------------------------------------------------------------------

BatchTileCount(b) == IF BatchSize(b) > 0 THEN Len(concat[b][1].rows) ELSE 0

NoTensor == [shape |-> CHOOSE s \in Shapes : TRUE, elem |-> ModelElem,
             rows |-> <<>>]

Init ==
  /\ mutex = NoCall
  /\ queue = <<>>
  /\ members = [b \in Calls |-> <<>>]
  /\ concat = [b \in Calls |-> [i \in Inputs |-> NoTensor]]
  /\ output = [b \in Calls |-> <<>>]
  /\ ready = {}
  /\ pc = [c \in Calls |-> "idle"]
  /\ args \in Arguments
  /\ first = [c \in Calls |-> FALSE]
  /\ ctx = [c \in Calls |-> NoCall]
  /\ start = [c \in Calls |-> 0]
  /\ answer = [c \in Calls |-> <<>>]
  /\ wpc = "lock"
  /\ cur = NoCall
  /\ notified = 0
  /\ alive = TRUE

-----------------------------------------------------------------------------
(* Execute, one caller. *)

Execute(c) ==
  /\ pc[c] = "idle"
  /\ Goto(c, "lock")
  /\ UNCHANGED <<mutex, queue, batchVars, ready, args, first, ctx, start,
                 answer, workerVars, alive>>

Lock(c) ==
  /\ pc[c] = "lock"
  /\ mutex = NoCall
  /\ mutex' = c
  /\ Goto(c, "enqueue")
  /\ UNCHANGED <<queue, batchVars, ready, args, first, ctx, start,
                 answer, workerVars, alive>>

(* A batch of one's own when the queue is empty or its last batch is full. *)
NeedsNewBatch ==
  \/ queue = <<>>
  \/ BatchSize(queue[Len(queue)]) = MaxBatchSize

(***************************************************************************)
(* Choose the batch, note where the call's rows will start in it, and add  *)
(* the call's promise to it.                                               *)
(***************************************************************************)
Enqueue(c) ==
  /\ pc[c] = "enqueue"
  /\ LET b == IF NeedsNewBatch THEN c ELSE queue[Len(queue)]
     IN  /\ queue' = IF NeedsNewBatch THEN Append(queue, c) ELSE queue
         /\ ctx' = [ctx EXCEPT ![c] = b]
         /\ start' = [start EXCEPT ![c] = BatchTileCount(b)]
         /\ members' = [members EXCEPT ![b] = Append(@, c)]
  /\ first' = [first EXCEPT ![c] = queue = <<>>]
  /\ Goto(c, "concat")
  /\ UNCHANGED <<mutex, concat, output, ready, args, answer, workerVars, alive>>

(* concat_inputs_ once the first n inputs of c have been concatenated.     *)
ConcatUpTo(c, n) ==
  LET t == ArgTensors(c, args[c])
  IN  [i \in Inputs |-> IF i <= n THEN ConcatTensors(concat[ctx[c]][i], t[i])
                                  ELSE concat[ctx[c]][i]]

Fits(c, i) == CanConcat(concat[ctx[c]][i], ArgTensors(c, args[c])[i])

(* ConcatInputs, then the end of the critical section: the first call of a *)
(* batch lends it its inputs, a later one has each of its inputs appended. *)
Concat(c) ==
  /\ pc[c] = "concat"
  /\ \/ /\ BatchSize(ctx[c]) = 1
        /\ concat' = [concat EXCEPT ![ctx[c]] = ArgTensors(c, args[c])]
     \/ /\ BatchSize(ctx[c]) # 1
        /\ \A i \in Inputs : Fits(c, i)
        /\ concat' = [concat EXCEPT ![ctx[c]] = ConcatUpTo(c, NumInputs)]
  /\ mutex' = NoCall
  /\ Goto(c, IF first[c] THEN "notify" ELSE "wait")
  /\ UNCHANGED <<queue, members, output, ready, args, first, ctx, start,
                 answer, workerVars, alive>>

(* ConcatTensors throws at input i: the inputs before i stay concatenated  *)
(* and the promise stays in the batch; unwinding releases the mutex.       *)
ConcatThrows(c) ==
  /\ pc[c] = "concat"
  /\ BatchSize(ctx[c]) # 1
  /\ \E i \in Inputs :
        /\ ~Fits(c, i)
        /\ \A j \in 1 .. (i - 1) : Fits(c, j)
        /\ concat' = [concat EXCEPT ![ctx[c]] = ConcatUpTo(c, i - 1)]
  /\ mutex' = NoCall
  /\ Goto(c, "threw")
  /\ UNCHANGED <<queue, members, output, ready, args, first, ctx, start,
                 answer, workerVars, alive>>

(* cv_.notify_one(): wakes the worker if it waits, is lost if it does not. *)
NotifyOne(c) ==
  /\ pc[c] = "notify"
  /\ wpc' = IF wpc = "waiting" THEN "lock" ELSE wpc
  /\ Goto(c, "wait")
  /\ UNCHANGED <<mutex, queue, batchVars, ready, args, first, ctx, start,
                 answer, cur, notified, alive>>

End(c) == start[c] + args[c][1].rows

(* The future is ready: SliceOutputs.  A batch of one gives its outputs    *)
(* away whole; otherwise an index span past the output throws.             *)
GetOutputs(c) ==
  /\ pc[c] = "wait"
  /\ c \in ready
  /\ LET out == output[ctx[c]]
     IN  \/ /\ BatchSize(ctx[c]) = 1
            /\ answer' = [answer EXCEPT ![c] = out]
            /\ Goto(c, "returned")
         \/ /\ BatchSize(ctx[c]) # 1
            /\ CanSlice(out, start[c], End(c))
            /\ answer' = [answer EXCEPT ![c] = Slice(out, start[c], End(c))]
            /\ Goto(c, "returned")
         \/ /\ BatchSize(ctx[c]) # 1
            /\ ~CanSlice(out, start[c], End(c))
            /\ Goto(c, "threw")
            /\ UNCHANGED answer
  /\ UNCHANGED <<mutex, queue, batchVars, ready, args, first, ctx, start,
                 workerVars, alive>>

(* wait_until gives up after five seconds; the batch keeps the call.       *)
Timeout(c) ==
  /\ pc[c] = "wait"
  /\ c \notin ready
  /\ Goto(c, "timedout")
  /\ UNCHANGED <<mutex, queue, batchVars, ready, args, first, ctx, start,
                 answer, workerVars, alive>>

-----------------------------------------------------------------------------
(* WorkerLoop, one detached thread. *)

(* At the start, after a wait and after a batch, the worker takes the      *)
(* mutex and goes to look at the queue.                                    *)
WorkerLock ==
  /\ wpc = "lock"
  /\ mutex = NoCall
  /\ mutex' = Worker
  /\ wpc' = "check"
  /\ UNCHANGED <<queue, batchVars, ready, callVars, args, cur, notified, alive>>

(* cv_.wait(lock) gives up the mutex and starts waiting in one step.       *)
WorkerWait ==
  /\ wpc = "check"
  /\ queue = <<>>
  /\ mutex' = NoCall
  /\ wpc' = "waiting"
  /\ UNCHANGED <<queue, batchVars, ready, callVars, args, cur, notified, alive>>

SpuriousWakeup ==
  /\ wpc = "waiting"
  /\ wpc' = "lock"
  /\ UNCHANGED <<mutex, queue, batchVars, ready, callVars, args, cur, notified,
                 alive>>

WorkerPop ==
  /\ wpc = "check"
  /\ queue # <<>>
  /\ cur' = Head(queue)
  /\ queue' = Tail(queue)
  /\ mutex' = NoCall
  /\ wpc' = "run"
  /\ UNCHANGED <<batchVars, ready, callVars, args, notified, alive>>

(* ModelExecute.  CopyTensor throws on a type it does not know and Run on  *)
(* inputs the model does not accept; nothing in WorkerLoop catches, and an *)
(* exception that leaves a thread's function terminates the process.       *)
ModelExecute ==
  /\ wpc = "run"
  /\ \/ /\ ModelAccepts(concat[cur])
        /\ output' = [output EXCEPT ![cur] = ModelOutput(concat[cur])]
        /\ wpc' = "notify"
        /\ notified' = 0
        /\ UNCHANGED alive
     \/ /\ ~ModelAccepts(concat[cur])
        /\ alive' = FALSE
        /\ UNCHANGED <<output, wpc, notified>>
  /\ UNCHANGED <<mutex, queue, members, concat, ready, callVars, args, cur>>

(* NotifyResults, one promise at a time, and the end of the iteration.     *)
NotifyResult ==
  /\ wpc = "notify"
  /\ \/ /\ notified < BatchSize(cur)
        /\ ready' = ready \cup {members[cur][notified + 1]}
        /\ notified' = notified + 1
        /\ UNCHANGED <<wpc, cur>>
     \/ /\ notified >= BatchSize(cur)
        /\ wpc' = "lock"
        /\ cur' = NoCall
        /\ UNCHANGED <<ready, notified>>
  /\ UNCHANGED <<mutex, queue, batchVars, callVars, args, alive>>

-----------------------------------------------------------------------------

CallStep(c) ==
  \/ Execute(c) \/ Lock(c) \/ Enqueue(c) \/ Concat(c) \/ ConcatThrows(c)
  \/ NotifyOne(c) \/ GetOutputs(c) \/ Timeout(c)

WorkerStep ==
  WorkerLock \/ WorkerWait \/ WorkerPop \/ ModelExecute \/ NotifyResult

Next == alive /\ ((\E c \in Calls : CallStep(c)) \/ WorkerStep \/ SpuriousWakeup)

Spec == Init /\ [][Next]_vars

(***************************************************************************)
(* A thread that can go on does, and one that keeps finding the mutex free *)
(* gets it.  No call has to be made, no timeout has to fire, and nobody    *)
(* relies on a spurious wakeup.                                            *)
(***************************************************************************)
Fairness ==
  /\ \A c \in Calls :
        /\ SF_vars(alive /\ Lock(c))
        /\ WF_vars(alive /\ (\/ Enqueue(c) \/ Concat(c) \/ ConcatThrows(c)
                             \/ NotifyOne(c) \/ GetOutputs(c)))
  /\ SF_vars(alive /\ WorkerLock)
  /\ WF_vars(alive /\ (WorkerWait \/ WorkerPop \/ ModelExecute \/ NotifyResult))

FairSpec == Spec /\ Fairness

-----------------------------------------------------------------------------
(* Properties. *)

Ended == {"returned", "threw", "timedout"}

(* The values the variables take. *)
TypeOK ==
  /\ mutex \in Calls \cup {Worker, NoCall}
  /\ queue \in Seq(Calls)
  /\ members \in [Calls -> Seq(Calls)]
  /\ concat \in [Calls -> [Inputs -> Tensor]]
  /\ output \in [Calls -> Seq(OutputRow)]
  /\ ready \subseteq Calls
  /\ pc \in [Calls -> {"idle", "lock", "enqueue", "concat", "notify", "wait"} \cup Ended]
  /\ args \in [Calls -> ArgList]
  /\ first \in [Calls -> BOOLEAN]
  /\ ctx \in [Calls -> Calls \cup {NoCall}]
  /\ start \in [Calls -> Nat]
  /\ answer \in [Calls -> Seq(OutputRow)]
  /\ wpc \in {"lock", "check", "waiting", "run", "notify"}
  /\ cur \in Calls \cup {NoCall}
  /\ notified \in Nat
  /\ alive \in BOOLEAN

(* Whose promise is in some batch, thrown and timed out calls included. *)
Joined == {c \in Calls : ctx[c] # NoCall}

Queued(b) == \E n \in 1 .. Len(queue) : queue[n] = b

(***************************************************************************)
(* No wakeup is lost: the worker does not wait next to a queued batch      *)
(* unless a call is on its way to notify it.  Execute notifies only when   *)
(* it found the queue empty, and after it has let go of the mutex.         *)
(***************************************************************************)
NoLostWakeup ==
  wpc = "waiting" /\ queue # <<>> =>
     \E c \in Calls : first[c] /\ pc[c] \in {"concat", "notify"}

(***************************************************************************)
(* No promise is dropped: a call whose promise is not set yet is in a      *)
(* batch that is queued or being run, and in the part of the latter that   *)
(* NotifyResults has not come to yet.                                      *)
(***************************************************************************)
NoCallForgotten ==
  \A c \in Joined \ ready :
     LET b == ctx[c]
     IN  \E n \in 1 .. BatchSize(b) :
            /\ members[b][n] = c
            /\ Queued(b) \/ (b = cur /\ (wpc = "notify" => n > notified))

(* NotifyResults sets no promise twice (set_value would throw in the       *)
(* worker and terminate the process).                                      *)
PromiseSetOnce ==
  wpc = "notify" =>
     \A n \in (notified + 1) .. BatchSize(cur) : members[cur][n] \notin ready

(* No batch outgrows max_batch_size_, and the queue holds full batches     *)
(* only, except for its last one.                                          *)
BatchesFilledInOrder ==
  /\ \A b \in Calls : BatchSize(b) <= MaxBatchSize
  /\ \A n \in 1 .. (Len(queue) - 1) : BatchSize(queue[n]) = MaxBatchSize

(* Once the worker has taken a batch off the queue, Execute adds neither   *)
(* promises nor rows to it.                                                *)
BatchSealed ==
  [][\A b \in Calls : members[b] # <<>> /\ ~Queued(b) =>
        members'[b] = members[b] /\ concat'[b] = concat[b]]_vars

(***************************************************************************)
(* A call the model accepts returns the model's output on its own rows,    *)
(* whatever calls shared its batch.  (Needs calls whose inputs agree on    *)
(* the number of rows: see the runs.)                                      *)
(***************************************************************************)
AnswersAreOwn ==
  \A c \in Calls : pc[c] = "returned" /\ Acceptable(args[c]) =>
     answer[c] = OwnOutput(c, args[c])

(***************************************************************************)
(* Every call that got as far as asking for the mutex ends, without the    *)
(* help of a timeout, and every promise that was added to a batch is set,  *)
(* even if its caller has given up or was refused; or the process is gone. *)
(***************************************************************************)
EveryCallEnds ==
  \A c \in Calls : /\ pc[c] = "lock" ~> (pc[c] \in Ended \/ ~alive)
                   /\ c \in Joined ~> (c \in ready \/ ~alive)

(***************************************************************************)
(* Thread safety and reentrancy, which docs_src/operators/word_dict.rst:5  *)
(* states of every operator: calls that are all fine by themselves do not  *)
(* bring the process down together.                                        *)
(***************************************************************************)
NeverTerminated ==
  (\A c \in Calls : Acceptable(args[c])) => alive

-----------------------------------------------------------------------------
(* DynamicBatch implements InferenceService. *)

Service == INSTANCE InferenceService WITH
  status <- [c \in Calls |-> IF pc[c] \in {"idle"} \cup Ended THEN pc[c]
                             ELSE "pending"]

(* Every behaviour of the batch manager is one a caller of an inference    *)
(* service expects.                                                        *)
ImplementsService == Service!Spec

=============================================================================

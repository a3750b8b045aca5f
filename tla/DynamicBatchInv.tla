-------------------------- MODULE DynamicBatchInv --------------------------
(***************************************************************************)
(* The inductive invariant of DynamicBatch, in named parts.  Control,      *)
(* queue and promises are right whatever the calls are; the rows are where *)
(* they should be if the inputs of each call agree on their number.        *)
(***************************************************************************)
EXTENDS DynamicBatch

(* Where a thread is says which of its locals are set. *)
LocalsSet ==
  /\ \A c \in Calls : ctx[c] = NoCall <=> pc[c] \in {"idle", "lock", "enqueue"}
  /\ cur = NoCall <=> wpc \in {"lock", "check", "waiting"}

(* queue_mutex_ is held in the critical sections and nowhere else. *)
MutexHeld ==
  /\ \A c \in Calls : mutex = c <=> pc[c] \in {"enqueue", "concat"}
  /\ mutex = Worker <=> wpc = "check"

(* A promise is in the batch its call waits for, once; and the call that   *)
(* made a batch is its first member.                                       *)
MembersAreCallers ==
  /\ \A b \in Calls : \A n \in 1 .. BatchSize(b) : ctx[members[b][n]] = b
  /\ \A b \in Calls : \A m, n \in 1 .. BatchSize(b) :
        members[b][m] = members[b][n] => m = n
  /\ \A c \in Joined : \E n \in 1 .. BatchSize(ctx[c]) : members[ctx[c]][n] = c
  /\ \A b \in Calls : members[b] # <<>> => members[b][1] = b

(* What is queued is distinct, not empty, not being run, and not answered. *)
QueueIsPending ==
  /\ \A m, n \in 1 .. Len(queue) : queue[m] = queue[n] => m = n
  /\ \A n \in 1 .. Len(queue) :
        /\ members[queue[n]] # <<>>
        /\ queue[n] # cur
        /\ \A c \in ready : ctx[c] # queue[n]
  /\ cur \in Calls => members[cur] # <<>>

(* A call that concatenates works on the last batch of the queue, and is   *)
(* its last member; it is alone in it if it found the queue empty.         *)
ConcatOnLast ==
  \A c \in Calls : pc[c] = "concat" =>
     LET b == ctx[c]
     IN  /\ queue # <<>> /\ b = queue[Len(queue)]
         /\ members[b][BatchSize(b)] = c
         /\ first[c] => BatchSize(b) = 1

(* NotifyResults sets the promises of the batch it has run, from the front. *)
ReadyInOrder ==
  /\ ready \subseteq Joined
  /\ wpc = "run" =>
        \A n \in 1 .. BatchSize(cur) : members[cur][n] \notin ready
  /\ wpc = "notify" =>
        \A n \in 1 .. BatchSize(cur) : members[cur][n] \in ready <=> n <= notified

ControlInv ==
  /\ TypeOK
  /\ LocalsSet
  /\ MutexHeld
  /\ MembersAreCallers
  /\ QueueIsPending
  /\ ConcatOnLast
  /\ ReadyInOrder
  /\ NoLostWakeup
  /\ NoCallForgotten

-----------------------------------------------------------------------------
(* The rows. *)

(* Every call passes the same number of rows in all its inputs. *)
EvenRequests ==
  \A c \in Calls : \A a \in Requests[c] : \A i \in Inputs : a[i].rows = a[1].rows

EvenArgs == \A c \in Calls : \A i \in Inputs : args[c][i].rows = args[c][1].rows

RowsOf(b, i) == concat[b][i].rows

(* No input of the batch is short of rows. *)
Even(b) == \A i \in Inputs : Len(RowsOf(b, i)) = Len(RowsOf(b, 1))

(* The call's inputs are in its batch, to the last one. *)
Settled(c) == pc[c] \in {"notify", "wait", "returned", "timedout"}

(* Its creator has lent the batch its inputs. *)
Filled(b) == members[b] # <<>> /\ pc[b] # "concat"

(* A batch has the shapes and the types of the call that created it. *)
CreatorsTensors ==
  \A b \in Calls : Filled(b) =>
     \A i \in Inputs : /\ concat[b][i].shape = args[b][i].shape
                       /\ concat[b][i].elem = args[b][i].elem

(* A call refused half way leaves earlier inputs longer than later ones,   *)
(* never the other way round, so that the gap is never closed again.       *)
LongerFirst ==
  \A b \in Calls : \A i \in Inputs : Len(RowsOf(b, i)) <= Len(RowsOf(b, 1))

(* The span a call notes before it concatenates is where its rows will be. *)
SpanAtEnd ==
  \A c \in Calls : pc[c] = "concat" =>
     start[c] = IF BatchSize(ctx[c]) = 1 THEN 0 ELSE Len(RowsOf(ctx[c], 1))

(* A batch of one holds exactly its call's inputs. *)
AloneIsWhole ==
  \A b \in Calls : Filled(b) /\ BatchSize(b) = 1 => concat[b] = ArgTensors(b, args[b])

(* In a batch where no input is short of rows, a settled call's rows are   *)
(* in its span, as written or, if the types differ, as misread.            *)
RowsInPlace ==
  \A c \in Calls : Settled(c) /\ Even(ctx[c]) =>
     \A i \in Inputs :
        /\ End(c) <= Len(RowsOf(ctx[c], i))
        /\ \A k \in 1 .. args[c][i].rows :
              RowsOf(ctx[c], i)[start[c] + k] =
                 <<c, IF concat[ctx[c]][i].elem = args[c][i].elem THEN k ELSE 0>>

(* The batch being notified, and every batch with a promise set, has run. *)
HasRun(b) == (b = cur /\ wpc = "notify") \/ \E c \in ready : ctx[c] = b

OutputOfInputs ==
  \A b \in Calls : HasRun(b) =>
     ModelAccepts(concat[b]) /\ output[b] = ModelOutput(concat[b])

RowsInv ==
  /\ ControlInv
  /\ EvenArgs
  /\ CreatorsTensors
  /\ LongerFirst
  /\ SpanAtEnd
  /\ AloneIsWhole
  /\ RowsInPlace
  /\ OutputOfInputs
  /\ AnswersAreOwn

(* An input short of rows has a cause the service's callers can see. *)
ShortMeansTrouble ==
  \A b \in Calls : Filled(b) /\ ~Even(b) => Service!Trouble

IndInv == RowsInv /\ ShortMeansTrouble

============================================================================

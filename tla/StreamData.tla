----------------------------- MODULE StreamData -----------------------------
(***************************************************************************)
(* StreamDataManager: training data in chunk files, handed out chunk by    *)
(* chunk, at most two of them in memory.                                   *)
(*                                                                         *)
(* disk holds what was saved in the chunk files, names the order in which  *)
(* they stand in m_ChunkFilenames.  Every std::shuffle starts from the     *)
(* same seed: n things are always put in the same order.                   *)
(***************************************************************************)
EXTENDS Integers, SequencesExt

NewData ==
  [disk |-> <<>>, names |-> <<>>, mem |-> <<<<>>, <<>>>>, cur |-> 1, next |-> 2, queue |-> <<>>]

ChunkSize(d) == Len(d.names)
IsEmpty(d) == d.queue = <<>>

(* order maps a number of things to the permutation of that many; as many  *)
(* things as it does not name stay in their order.                         *)
Permuted(s, order) ==
  IF Len(s) \in DOMAIN order THEN [k \in DOMAIN s |-> s[order[Len(s)][k]]] ELSE s

SaveChunk(d, chunk) ==
  [d EXCEPT !.disk = Append(@, chunk), !.names = Append(@, Len(d.disk) + 1)]

Chunk(d, k) == d.disk[d.names[k]]

(* Flush, of at least one chunk: the files change their order, or the two  *)
(* chunks in memory do.                                                    *)
Flush(d, order) ==
  LET e == [d EXCEPT !.names = Permuted(@, order), !.queue = [k \in 1 .. ChunkSize(d) |-> k]]
      index == Permuted(<<1, 2>>, order)
  IN  CASE ChunkSize(d) = 1 -> [e EXCEPT !.cur = 1, !.next = 1]
        [] ChunkSize(d) = 2 -> [e EXCEPT !.next = index[1], !.cur = index[2]]
        [] OTHER -> [e EXCEPT !.next = 1, !.cur = 2, !.mem[1] = Chunk(e, 1)]

(* The end of the constructor: one or two chunks are loaded for good.      *)
LoadAll(d) ==
  IF ChunkSize(d) > 2 THEN d
  ELSE [d EXCEPT !.mem = [i \in 1 .. 2 |-> IF i <= ChunkSize(d) THEN Chunk(d, i) ELSE <<>>]]

(* Mutant: the chunk is read over the one that is handed out.              *)
SwapOverwriting(d) ==
  LET e == [d EXCEPT !.queue = Tail(@), !.cur = d.next, !.next = d.cur]
  IN  IF ChunkSize(d) > 2 /\ ~IsEmpty(e) THEN [e EXCEPT !.mem[e.cur] = Chunk(e, Head(e.queue))]
      ELSE e

(* Mutant: the queue is left as it is.                                     *)
SwapUnpopped(d) ==
  LET e == [d EXCEPT !.cur = d.next, !.next = d.cur]
  IN  IF ChunkSize(d) > 2 /\ ~IsEmpty(e) THEN [e EXCEPT !.mem[e.next] = Chunk(e, Head(e.queue))]
      ELSE e

(* Next up to the shuffle: the chunks change places, and the one that is   *)
(* not handed out is replaced by the next of the queue.                    *)
Swap(d) ==
  LET e == [d EXCEPT !.queue = Tail(@), !.cur = d.next, !.next = d.cur]
  IN  IF ChunkSize(d) > 2 /\ ~IsEmpty(e) THEN [e EXCEPT !.mem[e.next] = Chunk(e, Head(e.queue))]
      ELSE e

Shuffled(d, order) == [d EXCEPT !.mem[d.cur] = Permuted(@, order)]

Handed(d) == d.mem[d.cur]
=============================================================================

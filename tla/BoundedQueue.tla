---------------------------- MODULE BoundedQueue ----------------------------
(***************************************************************************)
(* What an intra-process buffer promises: a queue that keeps the newest    *)
(* Capacity messages, hands them out oldest first, each once, and answers  *)
(* Null when it is empty.  RingBuffer implements this module.              *)
(***************************************************************************)
EXTENDS Integers, Sequences

CONSTANTS
  Messages,  (* what is stored                                            *)
  Null,      (* BufferT(), the empty pointer                              *)
  Capacity   (* the depth of the subscription's history                   *)

VARIABLES
  queue,     (* the messages kept, oldest first                           *)
  taken      (* what the last dequeue returned                            *)

QueueInit == queue = <<>> /\ taken = Null

(* A full queue gives up its oldest message. *)
Add(m) ==
  /\ queue' = Append(IF Len(queue) = Capacity THEN Tail(queue) ELSE queue, m)
  /\ UNCHANGED taken

Remove ==
  \/ /\ queue # <<>>
     /\ taken' = Head(queue)
     /\ queue' = Tail(queue)
  \/ /\ queue = <<>>
     /\ taken' = Null
     /\ UNCHANGED queue

QueueNext == Remove \/ \E m \in Messages : Add(m)

QueueSpec == QueueInit /\ [][QueueNext]_<<queue, taken>>

=============================================================================

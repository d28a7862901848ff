----------------------------- MODULE RingBuffer -----------------------------
(***************************************************************************)
(* RingBufferImplementation, the storage of every intra-process            *)
(* subscription: a fixed array with a write and a read index.  Each        *)
(* operation holds the buffer's mutex from its first step to its last.     *)
(***************************************************************************)
EXTENDS Integers, Sequences

CONSTANTS
  Messages,  (* what is stored                                            *)
  Null,      (* BufferT(), the empty pointer                              *)
  capacity_  (* the depth of the subscription's history                   *)

(* The constructor rejects a capacity of zero. *)
ASSUME RingBufferAssumption == capacity_ \in Nat \ {0} /\ Null \notin Messages

VARIABLES
  ring_buffer_, write_index_, read_index_, size_,
  taken        (* what the last dequeue returned                          *)

bufferVars == <<ring_buffer_, write_index_, read_index_, size_, taken>>

Slots == 0..(capacity_ - 1)
next_(val) == (val + 1) % capacity_
has_data_ == size_ # 0
is_full_ == size_ = capacity_

BufferInit ==
  /\ ring_buffer_ = [i \in Slots |-> Null]
  /\ write_index_ = capacity_ - 1
  /\ read_index_ = 0
  /\ size_ = 0
  /\ taken = Null

(* Two faulty variants: the size is counted before the test for full, and  *)
(* the oldest message of a full buffer is not given up.                    *)
enqueue_CountFirst(request) ==
  /\ write_index_' = next_(write_index_)
  /\ ring_buffer_' = [ring_buffer_ EXCEPT ![write_index_'] = request]
  /\ size_' = IF is_full_ THEN size_ ELSE size_ + 1
  /\ read_index_' = IF size_' = capacity_ THEN next_(read_index_) ELSE read_index_
  /\ UNCHANGED taken

enqueue_NoOverwrite(request) ==
  /\ write_index_' = next_(write_index_)
  /\ ring_buffer_' = [ring_buffer_ EXCEPT ![write_index_'] = request]
  /\ size_' = size_ + 1
  /\ UNCHANGED <<read_index_, taken>>

(* The new message is stored over the oldest one when the buffer is full. *)
enqueue(request) ==
  /\ write_index_' = next_(write_index_)
  /\ ring_buffer_' = [ring_buffer_ EXCEPT ![write_index_'] = request]
  /\ \/ is_full_ /\ read_index_' = next_(read_index_) /\ UNCHANGED size_
     \/ ~is_full_ /\ size_' = size_ + 1 /\ UNCHANGED read_index_
  /\ UNCHANGED taken

(* The oldest message is moved out, which leaves its slot empty. *)
dequeue ==
  \/ /\ ~has_data_
     /\ taken' = Null
     /\ UNCHANGED <<ring_buffer_, write_index_, read_index_, size_>>
  \/ /\ has_data_
     /\ taken' = ring_buffer_[read_index_]
     /\ ring_buffer_' = [ring_buffer_ EXCEPT ![read_index_] = Null]
     /\ read_index_' = next_(read_index_)
     /\ size_' = size_ - 1
     /\ UNCHANGED write_index_

BufferNext == dequeue \/ \E m \in Messages : enqueue(m)

BufferSpec == BufferInit /\ [][BufferNext]_bufferVars

-----------------------------------------------------------------------------
(* Correctness.                                                            *)

(* The slot of the i-th oldest message, and how far a slot is from the     *)
(* oldest one.                                                             *)
SlotOf(i) == (read_index_ + i - 1) % capacity_
AgeOf(j) == (j - read_index_) % capacity_

(* The indices stay in the array, write_index_ is the slot of the newest   *)
(* message, and a slot holds a message exactly if it is among the size_    *)
(* slots from read_index_ on: no message is kept alive by a slot that has  *)
(* been read.                                                              *)
BufferOK ==
  /\ write_index_ \in Slots /\ read_index_ \in Slots
  /\ size_ \in 0..capacity_
  /\ ring_buffer_ \in [Slots -> Messages \cup {Null}]
  /\ write_index_ = SlotOf(size_)
  /\ \A j \in Slots : ring_buffer_[j] # Null <=> AgeOf(j) < size_

(* The buffer implements BoundedQueue: oldest first, each message once,    *)
(* and only the oldest is given up when a publisher outruns the reader.    *)
Contents == [i \in 1..size_ |-> ring_buffer_[SlotOf(i)]]

Queue == INSTANCE BoundedQueue WITH Capacity <- capacity_, queue <- Contents

ImplementsQueue == Queue!QueueSpec

=============================================================================

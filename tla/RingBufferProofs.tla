-------------------------- MODULE RingBufferProofs --------------------------
(***************************************************************************)
(* The ring buffer keeps its shape and implements a bounded queue, for     *)
(* every capacity and every set of messages.                               *)
(***************************************************************************)
EXTENDS RingBuffer, SequenceTheorems, TLAPS

(* An index in use is at most one round away from the array. *)
LEMMA WrapsOnce ==
  ASSUME NEW x \in Int, - capacity_ <= x, x < 2 * capacity_
  PROVE  x % capacity_ = IF x < 0 THEN x + capacity_
                         ELSE IF x < capacity_ THEN x ELSE x - capacity_
<1> USE RingBufferAssumption
<1>1. CASE x < 0
  <2>1. x = (-1) * capacity_ + (x + capacity_) /\ x + capacity_ \in 0..(capacity_ - 1)
    BY <1>1
  <2>2. QED
    BY <1>1, <2>1
<1>2. CASE 0 <= x /\ x < capacity_
  BY <1>2
<1>3. CASE x >= capacity_
  <2>1. x = 1 * capacity_ + (x - capacity_) /\ x - capacity_ \in 0..(capacity_ - 1)
    BY <1>3
  <2>2. QED
    BY <1>3, <2>1
<1>4. QED
  BY <1>1, <1>2, <1>3

(* The slot arithmetic stays within the reach of WrapsOnce. *)
LEMMA SumBounds ==
  ASSUME NEW r \in 0..(capacity_ - 1), NEW n \in 0..capacity_
  PROVE  r + n - 1 \in Int /\ - capacity_ <= r + n - 1 /\ r + n - 1 < 2 * capacity_
BY RingBufferAssumption

(* next_ steps to the following slot, or back to the first. *)
LEMMA NextSlot ==
  ASSUME NEW v \in Slots
  PROVE  next_(v) = IF v + 1 = capacity_ THEN 0 ELSE v + 1
BY RingBufferAssumption, WrapsOnce DEF next_, Slots

(* The slot of the i-th message, without the remainder. *)
LEMMA SlotFacts ==
  ASSUME BufferOK, NEW i \in 0..capacity_
  PROVE  /\ SlotOf(i) \in Slots
         /\ SlotOf(i) = IF read_index_ + i = 0 THEN capacity_ - 1
                        ELSE IF read_index_ + i <= capacity_
                               THEN read_index_ + i - 1
                               ELSE read_index_ + i - 1 - capacity_
<1> USE RingBufferAssumption
<1>1. read_index_ \in 0..(capacity_ - 1)
  BY DEF BufferOK, Slots
<1>2. /\ read_index_ + i - 1 \in Int
      /\ - capacity_ <= read_index_ + i - 1 /\ read_index_ + i - 1 < 2 * capacity_
  BY <1>1
<1>3. QED
  BY <1>1, <1>2, WrapsOnce DEF SlotOf, Slots

(* The age of a slot, without the remainder. *)
LEMMA AgeFacts ==
  ASSUME NEW j \in Slots, NEW r \in Slots
  PROVE  (j - r) % capacity_ = IF j < r THEN j - r + capacity_ ELSE j - r
<1> USE RingBufferAssumption
<1>1. j - r \in Int /\ - capacity_ <= j - r /\ j - r < 2 * capacity_
  BY DEF Slots
<1>2. QED
  BY <1>1, WrapsOnce DEF Slots

(* Both operations keep the buffer in shape. *)
LEMMA BufferStep == BufferOK /\ [BufferNext]_bufferVars => BufferOK'
<1> USE RingBufferAssumption
<1> SUFFICES ASSUME BufferOK, [BufferNext]_bufferVars PROVE BufferOK'
  OBVIOUS
<1>1. /\ read_index_ \in 0..(capacity_ - 1) /\ write_index_ \in 0..(capacity_ - 1)
      /\ size_ \in 0..capacity_
      /\ ring_buffer_ \in [Slots -> Messages \cup {Null}]
      /\ \A j \in Slots : ring_buffer_[j] # Null <=> AgeOf(j) < size_
  BY DEF BufferOK, Slots
<1>2. write_index_ = IF read_index_ + size_ = 0 THEN capacity_ - 1
                     ELSE IF read_index_ + size_ <= capacity_
                            THEN read_index_ + size_ - 1
                            ELSE read_index_ + size_ - 1 - capacity_
  BY SlotFacts DEF BufferOK
<1>3. ASSUME NEW m \in Messages, enqueue(m) PROVE BufferOK'
  <2>1. /\ write_index_' = IF write_index_ + 1 = capacity_ THEN 0 ELSE write_index_ + 1
        /\ ring_buffer_' = [ring_buffer_ EXCEPT ![write_index_'] = m]
        /\ m # Null
    BY <1>1, <1>3, NextSlot DEF enqueue, Slots
  <2>2. \/ /\ size_ = capacity_ /\ size_' = size_
           /\ read_index_' = IF read_index_ + 1 = capacity_ THEN 0 ELSE read_index_ + 1
        \/ size_ # capacity_ /\ size_' = size_ + 1 /\ read_index_' = read_index_
    BY <1>1, <1>3, NextSlot DEF enqueue, is_full_, Slots
  <2>3. /\ read_index_' \in 0..(capacity_ - 1) /\ write_index_' \in 0..(capacity_ - 1)
        /\ size_' \in 0..capacity_
        /\ ring_buffer_' \in [Slots -> Messages \cup {Null}]
    BY <1>1, <2>1, <2>2 DEF Slots
  <2>4. write_index_' = (read_index_' + size_' - 1) % capacity_
    <3>1. /\ read_index_' + size_' - 1 \in Int
          /\ - capacity_ <= read_index_' + size_' - 1
          /\ read_index_' + size_' - 1 < 2 * capacity_
      BY <2>3, SumBounds
    <3>2. QED
      BY <1>1, <1>2, <2>1, <2>2, <2>3, <3>1, WrapsOnce
  <2>5. ASSUME NEW j \in Slots
        PROVE  ring_buffer_'[j] # Null <=> (j - read_index_') % capacity_ < size_'
    <3>1. /\ (j - read_index_') % capacity_ =
                IF j < read_index_' THEN j - read_index_' + capacity_ ELSE j - read_index_'
          /\ (j - read_index_) % capacity_ =
                IF j < read_index_ THEN j - read_index_ + capacity_ ELSE j - read_index_
      BY <1>1, <2>3, AgeFacts DEF Slots
    <3>2. ring_buffer_[j] # Null <=> (j - read_index_) % capacity_ < size_
      BY <1>1 DEF AgeOf
    <3>3. ring_buffer_'[j] # Null <=> j = write_index_' \/ ring_buffer_[j] # Null
      BY <1>1, <2>1, <2>3
    <3>4. j \in 0..(capacity_ - 1) /\ read_index_' \in 0..(capacity_ - 1)
      BY <2>3 DEF Slots
    <3>5. CASE j = write_index_'
      BY <1>1, <1>2, <2>1, <2>2, <3>1, <3>3, <3>4, <3>5
    <3>6. CASE j # write_index_'
      <4>1. ring_buffer_'[j] # Null <=> (j - read_index_) % capacity_ < size_
        BY <3>2, <3>3, <3>6
      <4>2. (j - read_index_') % capacity_ < size_' <=> (j - read_index_) % capacity_ < size_
        BY <1>1, <1>2, <2>1, <2>2, <3>1, <3>4, <3>6
      <4>3. QED
        BY <4>1, <4>2
    <3>7. QED
      BY <3>5, <3>6
  <2>6. QED
    BY <2>3, <2>4, <2>5 DEF BufferOK, SlotOf, AgeOf, Slots
<1>4. CASE dequeue /\ has_data_
  <2>1. /\ read_index_' = IF read_index_ + 1 = capacity_ THEN 0 ELSE read_index_ + 1
        /\ ring_buffer_' = [ring_buffer_ EXCEPT ![read_index_] = Null]
        /\ size_ # 0 /\ size_' = size_ - 1 /\ write_index_' = write_index_
    BY <1>1, <1>4, NextSlot DEF dequeue, has_data_, Slots
  <2>2. /\ read_index_' \in 0..(capacity_ - 1)
        /\ size_' \in 0..capacity_
        /\ ring_buffer_' \in [Slots -> Messages \cup {Null}]
    BY <1>1, <2>1 DEF Slots
  <2>3. write_index_' = (read_index_' + size_' - 1) % capacity_
    <3>1. /\ read_index_' + size_' - 1 \in Int
          /\ - capacity_ <= read_index_' + size_' - 1
          /\ read_index_' + size_' - 1 < 2 * capacity_
      BY <2>2, SumBounds
    <3>2. QED
      BY <1>1, <1>2, <2>1, <2>2, <3>1, WrapsOnce
  <2>4. ASSUME NEW j \in Slots
        PROVE  ring_buffer_'[j] # Null <=> (j - read_index_') % capacity_ < size_'
    <3>1. /\ (j - read_index_') % capacity_ =
                IF j < read_index_' THEN j - read_index_' + capacity_ ELSE j - read_index_'
          /\ (j - read_index_) % capacity_ =
                IF j < read_index_ THEN j - read_index_ + capacity_ ELSE j - read_index_
      BY <1>1, <2>2, AgeFacts DEF Slots
    <3>2. ring_buffer_[j] # Null <=> (j - read_index_) % capacity_ < size_
      BY <1>1 DEF AgeOf
    <3>3. ring_buffer_'[j] # Null <=> j # read_index_ /\ ring_buffer_[j] # Null
      BY <1>1, <2>1
    <3>4. QED
      BY <1>1, <2>1, <3>1, <3>2, <3>3 DEF Slots
  <2>5. QED
    BY <1>1, <2>1, <2>2, <2>3, <2>4 DEF BufferOK, SlotOf, AgeOf, Slots
<1>5. CASE (dequeue /\ ~has_data_) \/ UNCHANGED bufferVars
  BY <1>5 DEF dequeue, bufferVars, BufferOK, SlotOf, AgeOf
<1>6. QED
  BY <1>3, <1>4, <1>5 DEF BufferNext

(* Whatever is stored and read, and in whatever order, the buffer stays in *)
(* shape.                                                                  *)
THEOREM BufferStaysInShape == BufferSpec => []BufferOK
<1>1. BufferInit => BufferOK
  <2> SUFFICES ASSUME BufferInit PROVE BufferOK
    OBVIOUS
  <2> USE RingBufferAssumption
  <2>1. /\ (0 + 0 - 1) % capacity_ = capacity_ - 1
        /\ 0 \in Slots /\ capacity_ - 1 \in Slots
    BY WrapsOnce DEF Slots
  <2>2. \A j \in Slots : (j - 0) % capacity_ = j
    BY <2>1, AgeFacts DEF Slots
  <2>3. QED
    BY <2>1, <2>2 DEF BufferInit, BufferOK, SlotOf, AgeOf, Slots
<1>2. QED
  BY <1>1, BufferStep, PTL DEF BufferSpec


-----------------------------------------------------------------------------
(* A sequence with one more element at its end, and one without its head,  *)
(* as functions.                                                           *)
LEMMA AppendAsFunction ==
  ASSUME NEW S, NEW s \in Seq(S), NEW x \in S
  PROVE  /\ \A i \in 1..Len(s) : Append(s, x)[i] = s[i]
         /\ Append(s, x)[Len(s) + 1] = x
         /\ Append(s, x) = [i \in 1..(Len(s) + 1) |-> Append(s, x)[i]]
<1>1. /\ Append(s, x) \in Seq(S) /\ Len(Append(s, x)) = Len(s) + 1
      /\ \A i \in 1..Len(s) : Append(s, x)[i] = s[i]
      /\ Append(s, x)[Len(s) + 1] = x
  BY AppendProperties
<1>2. Append(s, x) \in [1..(Len(s) + 1) -> S]
  BY <1>1, LenProperties
<1>3. QED
  BY <1>1, <1>2

LEMMA TailAsFunction ==
  ASSUME NEW S, NEW s \in Seq(S), s # <<>>
  PROVE  /\ Tail(s) \in Seq(S) /\ Len(Tail(s)) = Len(s) - 1
         /\ Tail(s) = [i \in 1..(Len(s) - 1) |-> s[i + 1]]
<1>1. /\ Tail(s) \in Seq(S) /\ Len(Tail(s)) = Len(s) - 1
      /\ \A i \in 1..Len(Tail(s)) : Tail(s)[i] = s[i + 1]
  BY HeadTailProperties
<1>2. Tail(s) \in [1..(Len(s) - 1) -> S]
  BY <1>1, LenProperties
<1>3. QED
  BY <1>1, <1>2

(* The contents are a sequence as long as the buffer is full. *)
LEMMA ContentsFacts ==
  ASSUME BufferOK
  PROVE  /\ Contents \in Seq(Messages \cup {Null})
         /\ Len(Contents) = size_
         /\ \A i \in 1..size_ : Contents[i] = ring_buffer_[SlotOf(i)]
<1>1. size_ \in Nat
  BY RingBufferAssumption DEF BufferOK
<1>2. \A i \in 1..size_ : SlotOf(i) \in Slots
  BY SlotFacts, RingBufferAssumption DEF BufferOK
<1>3. Contents \in [1..size_ -> Messages \cup {Null}]
  BY <1>2 DEF Contents, BufferOK
<1>4. QED
  BY <1>1, <1>3 DEF Contents

(* A message stored in a buffer with room comes after the others. *)
LEMMA EnqueueAppends ==
  ASSUME BufferOK, BufferOK', NEW m \in Messages, enqueue(m), ~is_full_
  PROVE  Contents' = Append(Contents, m)
<1> USE RingBufferAssumption
<1>1. /\ size_ \in Nat /\ size_ + 1 <= capacity_ /\ size_' = size_ + 1
      /\ read_index_' = read_index_ /\ read_index_ \in 0..(capacity_ - 1)
      /\ ring_buffer_' = [ring_buffer_ EXCEPT ![write_index_'] = m]
      /\ ring_buffer_ \in [Slots -> Messages \cup {Null}]
      /\ write_index_' \in Slots
  BY DEF enqueue, is_full_, BufferOK, Slots
<1>2. write_index_' = SlotOf(size_ + 1)
  BY <1>1 DEF BufferOK, SlotOf
<1>3. ASSUME NEW i \in 1..size_
      PROVE  SlotOf(i) \in Slots /\ SlotOf(i) # write_index_'
  BY <1>1, <1>2, SlotFacts
<1>4. Contents' = [i \in 1..(size_ + 1) |-> ring_buffer_'[SlotOf(i)]]
  BY <1>1 DEF Contents, SlotOf
<1>5. ASSUME NEW i \in 1..(size_ + 1)
      PROVE  ring_buffer_'[SlotOf(i)] = Append(Contents, m)[i]
  <2>1. CASE i = size_ + 1
    <3>1. ring_buffer_'[SlotOf(i)] = m
      BY <1>1, <1>2, <2>1
    <3>2. Append(Contents, m)[Len(Contents) + 1] = m
      BY ContentsFacts, AppendAsFunction
    <3>3. Len(Contents) = size_
      BY ContentsFacts
    <3>4. Append(Contents, m)[i] = m
      BY <2>1, <3>2, <3>3
    <3>5. QED
      BY <3>1, <3>4
  <2>2. CASE i \in 1..size_
    <3>1. ring_buffer_'[SlotOf(i)] = ring_buffer_[SlotOf(i)]
      BY <1>1, <1>3, <2>2
    <3>2. Append(Contents, m)[i] = Contents[i]
      BY <1>1, <2>2, ContentsFacts, AppendAsFunction
    <3>3. QED
      BY <2>2, <3>1, <3>2, ContentsFacts
  <2>3. i = size_ + 1 \/ i \in 1..size_
    BY <1>1
  <2>4. QED
    BY <2>1, <2>2, <2>3
<1>6. Append(Contents, m) = [i \in 1..(size_ + 1) |-> Append(Contents, m)[i]]
  BY <1>1, ContentsFacts, AppendAsFunction
<1>7. QED
  BY <1>4, <1>5, <1>6

(* In the next state the i-th oldest message of a buffer that has moved on *)
(* is the one that was the next oldest.                                    *)
LEMMA SlotsMove ==
  ASSUME BufferOK, BufferOK', read_index_' = next_(read_index_),
         NEW i \in 1..(capacity_ - 1)
  PROVE  SlotOf(i)' = SlotOf(i + 1)
<1> USE RingBufferAssumption
<1>1. read_index_ \in 0..(capacity_ - 1) /\ read_index_' \in 0..(capacity_ - 1)
  BY DEF BufferOK, Slots
<1>2. read_index_' = IF read_index_ + 1 = capacity_ THEN 0 ELSE read_index_ + 1
  BY <1>1, NextSlot DEF Slots
<1>3. /\ read_index_ + (i + 1) - 1 \in Int
      /\ - capacity_ <= read_index_ + (i + 1) - 1
      /\ read_index_ + (i + 1) - 1 < 2 * capacity_
  BY <1>1
<1>4. /\ read_index_' + i - 1 \in Int /\ - capacity_ <= read_index_' + i - 1
      /\ read_index_' + i - 1 < 2 * capacity_
  BY <1>1, SumBounds
<1>5. (read_index_' + i - 1) % capacity_ = (read_index_ + (i + 1) - 1) % capacity_
  BY <1>1, <1>2, <1>3, <1>4, WrapsOnce
<1>6. QED
  BY <1>5 DEF SlotOf

(* A message stored in a full buffer displaces the oldest. *)
LEMMA EnqueueDisplaces ==
  ASSUME BufferOK, BufferOK', NEW m \in Messages, enqueue(m), is_full_
  PROVE  Contents' = Append(Tail(Contents), m)
<1> USE RingBufferAssumption
<1>1. /\ size_ = capacity_ /\ size_' = capacity_
      /\ read_index_' = next_(read_index_) /\ read_index_ \in 0..(capacity_ - 1)
      /\ ring_buffer_' = [ring_buffer_ EXCEPT ![write_index_'] = m]
      /\ ring_buffer_ \in [Slots -> Messages \cup {Null}]
      /\ write_index_' \in Slots
  BY DEF enqueue, is_full_, BufferOK, Slots
<1>2. write_index_' = SlotOf(capacity_)'
  BY <1>1 DEF BufferOK
<1>3. write_index_' = read_index_
  <2>1. write_index_ \in Slots
    BY DEF BufferOK
  <2>2. write_index_ = SlotOf(capacity_)
    BY <1>1 DEF BufferOK
  <2>3. write_index_' = IF write_index_ + 1 = capacity_ THEN 0 ELSE write_index_ + 1
    BY <2>1, NextSlot DEF enqueue
  <2>4. QED
    BY <1>1, <2>2, <2>3, SlotFacts
<1>4. ASSUME NEW i \in 1..(capacity_ - 1)
      PROVE  SlotOf(i + 1) \in Slots /\ SlotOf(i + 1) # write_index_'
  <2>1. i + 1 \in 0..capacity_
    OBVIOUS
  <2>2. QED
    BY <1>1, <1>3, <2>1, SlotFacts
<1>5. Contents' = [i \in 1..capacity_ |-> ring_buffer_'[SlotOf(i)']]
  BY <1>1 DEF Contents
<1>6. /\ Tail(Contents) \in Seq(Messages \cup {Null})
      /\ Len(Tail(Contents)) = capacity_ - 1
      /\ Tail(Contents) = [i \in 1..(capacity_ - 1) |-> Contents[i + 1]]
  <2>1. Contents # <<>>
    BY <1>1, ContentsFacts
  <2>2. QED
    BY <1>1, <2>1, ContentsFacts, TailAsFunction
<1>7. /\ \A i \in 1..(capacity_ - 1) : Append(Tail(Contents), m)[i] = Tail(Contents)[i]
      /\ Append(Tail(Contents), m)[capacity_] = m
      /\ Append(Tail(Contents), m)
           = [i \in 1..capacity_ |-> Append(Tail(Contents), m)[i]]
  <2> DEFINE s == Tail(Contents)
  <2>1. /\ \A i \in 1..Len(s) : Append(s, m)[i] = s[i]
        /\ Append(s, m)[Len(s) + 1] = m
        /\ Append(s, m) = [i \in 1..(Len(s) + 1) |-> Append(s, m)[i]]
    <3>1. s \in Seq(Messages \cup {Null}) /\ m \in Messages \cup {Null}
      BY <1>6
    <3> HIDE DEF s
    <3>2. QED
      BY <3>1, AppendAsFunction
  <2>2. Len(s) = capacity_ - 1 /\ Len(s) + 1 = capacity_
    BY <1>6
  <2> HIDE DEF s
  <2>3. QED
    BY <2>1, <2>2 DEF s
<1>8. ASSUME NEW i \in 1..capacity_
      PROVE  ring_buffer_'[SlotOf(i)'] = Append(Tail(Contents), m)[i]
  <2>1. CASE i = capacity_
    BY <1>1, <1>2, <1>7, <2>1
  <2>2. CASE i \in 1..(capacity_ - 1)
    <3>1. SlotOf(i)' = SlotOf(i + 1)
      BY <1>1, <2>2, SlotsMove
    <3>2. ring_buffer_'[SlotOf(i)'] = ring_buffer_[SlotOf(i + 1)]
      BY <1>1, <1>4, <2>2, <3>1
    <3>3. i + 1 \in 1..size_
      BY <1>1, <2>2
    <3>4. Append(Tail(Contents), m)[i] = Contents[i + 1]
      BY <1>6, <1>7, <2>2
    <3>5. Contents[i + 1] = ring_buffer_[SlotOf(i + 1)]
      BY <3>3, ContentsFacts
    <3>6. QED
      BY <3>2, <3>4, <3>5
  <2>3. i = capacity_ \/ i \in 1..(capacity_ - 1)
    OBVIOUS
  <2>4. QED
    BY <2>1, <2>2, <2>3
<1>9. QED
  BY <1>5, <1>7, <1>8

(* What is read is the oldest message, and the others stay. *)
LEMMA DequeueRemoves ==
  ASSUME BufferOK, BufferOK', dequeue, has_data_
  PROVE  /\ Contents # <<>>
         /\ taken' = Head(Contents)
         /\ Contents' = Tail(Contents)
<1> USE RingBufferAssumption
<1>1. /\ size_ \in 1..capacity_ /\ size_' = size_ - 1
      /\ read_index_' = next_(read_index_) /\ read_index_ \in 0..(capacity_ - 1)
      /\ ring_buffer_' = [ring_buffer_ EXCEPT ![read_index_] = Null]
      /\ ring_buffer_ \in [Slots -> Messages \cup {Null}]
      /\ taken' = ring_buffer_[read_index_]
  BY DEF dequeue, has_data_, BufferOK, Slots
<1>2. SlotOf(1) = read_index_
  BY <1>1, SlotFacts
<1>3. Contents # <<>> /\ Head(Contents) = Contents[1]
  BY <1>1, ContentsFacts
<1>4. taken' = Head(Contents)
  BY <1>1, <1>2, <1>3, ContentsFacts
<1>5. Contents' = [i \in 1..(size_ - 1) |-> ring_buffer_'[SlotOf(i)']]
  BY <1>1 DEF Contents
<1>6. Tail(Contents) = [i \in 1..(size_ - 1) |-> Contents[i + 1]]
  BY <1>3, ContentsFacts, TailAsFunction
<1>7. ASSUME NEW i \in 1..(size_ - 1)
      PROVE  ring_buffer_'[SlotOf(i)'] = Contents[i + 1]
  <2>1. i \in 1..(capacity_ - 1) /\ i + 1 \in 0..capacity_ /\ i + 1 \in 1..size_
    BY <1>1
  <2>2. SlotOf(i)' = SlotOf(i + 1)
    BY <1>1, <2>1, SlotsMove
  <2>3. SlotOf(i + 1) \in Slots /\ SlotOf(i + 1) # read_index_
    BY <1>1, <2>1, SlotFacts
  <2>4. ring_buffer_'[SlotOf(i)'] = ring_buffer_[SlotOf(i + 1)]
    BY <1>1, <2>2, <2>3
  <2>5. QED
    BY <2>1, <2>4, ContentsFacts
<1>8. QED
  BY <1>3, <1>4, <1>5, <1>6, <1>7

(* The ring buffer implements the bounded queue. *)
THEOREM BufferImplementsQueue == BufferSpec => ImplementsQueue
<1>1. BufferInit => Queue!QueueInit
  BY DEF BufferInit, Queue!QueueInit, Contents
<1>2. /\ BufferOK /\ BufferOK' /\ [BufferNext]_bufferVars
      => Queue!QueueNext \/ UNCHANGED <<Contents, taken>>
  <2> SUFFICES ASSUME BufferOK, BufferOK', [BufferNext]_bufferVars
               PROVE  Queue!QueueNext \/ UNCHANGED <<Contents, taken>>
    OBVIOUS
  <2>1. ASSUME NEW m \in Messages, enqueue(m) PROVE Queue!QueueNext
    <3>1. CASE is_full_
      <4>1. Len(Contents) = capacity_
        BY <3>1, ContentsFacts DEF is_full_
      <4>2. Contents' = Append(Tail(Contents), m) /\ UNCHANGED taken
        BY <2>1, <3>1, EnqueueDisplaces DEF enqueue
      <4>3. QED
        BY <4>1, <4>2 DEF Queue!QueueNext, Queue!Add
    <3>2. CASE ~is_full_
      <4>1. Len(Contents) # capacity_
        BY <3>2, ContentsFacts DEF is_full_
      <4>2. Contents' = Append(Contents, m) /\ UNCHANGED taken
        BY <2>1, <3>2, EnqueueAppends DEF enqueue
      <4>3. QED
        BY <4>1, <4>2 DEF Queue!QueueNext, Queue!Add
    <3>3. QED
      BY <3>1, <3>2
  <2>2. CASE dequeue /\ has_data_
    BY <2>2, DequeueRemoves DEF Queue!QueueNext, Queue!Remove
  <2>3. CASE dequeue /\ ~has_data_
    <3>1. Contents = <<>>
      BY <2>3, ContentsFacts DEF has_data_
    <3>2. taken' = Null /\ UNCHANGED Contents
      BY <2>3 DEF dequeue, has_data_, Contents, SlotOf
    <3>3. QED
      BY <3>1, <3>2 DEF Queue!QueueNext, Queue!Remove
  <2>4. CASE UNCHANGED bufferVars
    BY <2>4 DEF bufferVars, Contents, SlotOf
  <2>5. QED
    BY <2>1, <2>2, <2>3, <2>4 DEF BufferNext
<1>3. QED
  BY <1>1, <1>2, BufferStaysInShape, PTL
  DEF BufferSpec, ImplementsQueue, Queue!QueueSpec

=============================================================================

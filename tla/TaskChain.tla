----------------------------- MODULE TaskChain ------------------------------
(***************************************************************************)
(* The task chain of the experiments (exp2_ours_main.cpp) on RTExecutor:   *)
(* the callback of a timer publishes, the callback of each relay publishes *)
(* what it takes, the last one counts rounds, records the sums the         *)
(* callbacks of a round have added up, and in the end cancels the          *)
(* executor.                                                               *)
(*                                                                         *)
(* There is one processor.  The timer's task has the higher priority and   *)
(* runs between any two steps of the others, which share a priority and    *)
(* are not time-sliced: one that runs goes on until it waits for its       *)
(* event.  The timer may fire before a round is over.  The buffer of the   *)
(* last node is RingBuffer, with its code; those of the relays are queues  *)
(* of the same depth, as BoundedQueue says.                                *)
(***************************************************************************)
EXTENDS RingBuffer, FiniteSets

CONSTANTS
  CHAIN_LENGTH,   (* nodes, that of the timer included; at least two      *)
  TOTAL_ROUNDS, WARMUP_ROUNDS

ASSUME TaskChainAssumption ==
  /\ CHAIN_LENGTH \in Nat \ {0, 1} /\ TOTAL_ROUNDS \in Nat \ {0} /\ WARMUP_ROUNDS \in Nat
  /\ Messages = 0..(Cardinality(Messages) - 1)

Timer == 0
Last == CHAIN_LENGTH - 1
Relays == 1..(Last - 1)
Receivers == 1..Last
Senders == 0..(Last - 1)

VARIABLES
  inbox,       (* the buffer of a relay                                   *)
  event,       (* the event sent to a receiver's task is pending          *)
  at,          (* where the task of a node is                             *)
  hand,        (* the message a timer or relay is about to publish        *)
  clock,       (* the time stamp of the last message, truncated           *)
  g_round, g_done,
  published,   (* nodes that have added to g_round_publish_sum_ns         *)
  scheduled,   (* nodes that have added to g_round_sched_sum_ns           *)
  recorded,    (* rounds in g_publish_stats and g_sched_stats             *)
  cancelled,   (* the executor's cancel() was called                      *)
  overlap      (* the timer fired before the last round was over          *)

roundVars == <<g_round, g_done, published, scheduled, recorded, cancelled, overlap>>
vars == <<bufferVars, inbox, event, at, hand, clock, roundVars>>

Init ==
  /\ BufferInit
  /\ inbox = [i \in Relays |-> <<>>]
  /\ event = [i \in Receivers |-> FALSE]
  /\ at = [i \in 0..Last |-> "wait"]
  /\ hand = [i \in Senders |-> Null]
  /\ clock = 0
  /\ g_round = 0 /\ g_done = FALSE
  /\ published = {} /\ scheduled = {} /\ recorded = 0
  /\ cancelled = FALSE /\ overlap = FALSE

LastRound == TOTAL_ROUNDS + WARMUP_ROUNDS

(* No receiver has anything to do: a round is over. *)
Settled == \A i \in Receivers : at[i] = "wait" /\ ~event[i]

(* A name with a suffix is a faulty variant of the definition that follows. *)

CPU_Shared(i) == at[Timer] = "wait"

(* The task of receiver i has the processor, or can have it. *)
CPU(i) ==
  /\ at[Timer] = "wait"
  /\ \A j \in Receivers \ {i} : at[j] = "wait"

-----------------------------------------------------------------------------
(* The timer.                                                              *)

(* on_timer resets the sums of the round and stamps a message.  It does    *)
(* nothing when all rounds are done.                                       *)
OnTimer ==
  /\ at[Timer] = "wait"
  /\ ~g_done /\ g_round < LastRound
  /\ published' = {} /\ scheduled' = {}
  /\ clock' = (clock + 1) % Cardinality(Messages)
  /\ hand' = [hand EXCEPT ![Timer] = clock']
  /\ at' = [at EXCEPT ![Timer] = "publish"]
  /\ overlap' = ~Settled
  /\ UNCHANGED <<bufferVars, inbox, event, g_round, g_done, recorded, cancelled>>

-----------------------------------------------------------------------------
(* Publishing, by the timer and the relays.                                *)

(* The message goes to the next node's buffer. *)
Store(i) ==
  IF i + 1 = Last
    THEN enqueue(hand[i]) /\ UNCHANGED inbox
    ELSE /\ inbox' = [inbox EXCEPT ![i + 1] =
              Append(IF Len(@) = capacity_ THEN Tail(@) ELSE @, hand[i])]
         /\ UNCHANGED bufferVars

TimerPublish ==
  /\ at[Timer] = "publish"
  /\ Store(Timer)
  /\ at' = [at EXCEPT ![Timer] = "announce"]
  /\ UNCHANGED <<event, hand, clock, roundVars>>

(* The direct notification: the event of the next node's task. *)
Announce(i) ==
  /\ at[i] = "announce" /\ (i # Timer => CPU(i))
  /\ event' = [event EXCEPT ![i + 1] = TRUE]
  /\ at' = [at EXCEPT ![i] = "add"]
  /\ UNCHANGED <<bufferVars, inbox, hand, clock, roundVars>>

(* publish() has returned, and what it took is added to the round's sum. *)
AddPublishTime(i) ==
  /\ at[i] = "add" /\ (i # Timer => CPU(i))
  /\ published' = published \cup {i}
  /\ at' = [at EXCEPT ![i] = "wait"]
  /\ UNCHANGED <<bufferVars, inbox, event, hand, clock, g_round, g_done, scheduled,
                 recorded, cancelled, overlap>>

-----------------------------------------------------------------------------
(* The receivers.                                                          *)

(* run_loop of the callback task *)
TakeEvent(i) ==
  /\ CPU(i) /\ at[i] = "wait" /\ event[i]
  /\ event' = [event EXCEPT ![i] = FALSE]
  /\ at' = [at EXCEPT ![i] = "ready"]
  /\ UNCHANGED <<bufferVars, inbox, hand, clock, roundVars>>

(* One message is taken from the buffer.  There is one: the timer and the  *)
(* relays store and announce before a receiver runs.                       *)
TakeMessage(i) ==
  /\ CPU(i) /\ at[i] = "ready"
  /\ IF i = Last
       THEN /\ has_data_ /\ dequeue
            /\ UNCHANGED <<inbox, hand>>
       ELSE /\ inbox[i] # <<>>
            /\ hand' = [hand EXCEPT ![i] = Head(inbox[i])]
            /\ inbox' = [inbox EXCEPT ![i] = Tail(@)]
            /\ UNCHANGED bufferVars
  /\ at' = [at EXCEPT ![i] = "callback"]
  /\ UNCHANGED <<event, clock, roundVars>>

(* When all rounds are done a callback returns at once. *)
Skip(i) ==
  /\ CPU(i) /\ at[i] = "callback" /\ g_done
  /\ at' = [at EXCEPT ![i] = "wait"]
  /\ UNCHANGED <<bufferVars, inbox, event, hand, clock, roundVars>>

(* The callback of a relay: what scheduling took is added, and the message *)
(* is published again.                                                     *)
Relay(i) ==
  /\ i # Last
  /\ CPU(i) /\ at[i] = "callback" /\ ~g_done
  /\ scheduled' = scheduled \cup {i}
  /\ Store(i)
  /\ at' = [at EXCEPT ![i] = "announce"]
  /\ UNCHANGED <<event, hand, clock, g_round, g_done, published, recorded, cancelled, overlap>>

(* The callback of the last node: a warm-up round is only counted, ... *)
FinalWarmUp(i) ==
  /\ i = Last
  /\ CPU(i) /\ at[i] = "callback" /\ ~g_done /\ g_round < WARMUP_ROUNDS
  /\ g_round' = g_round + 1
  /\ at' = [at EXCEPT ![i] = "wait"]
  /\ UNCHANGED <<bufferVars, inbox, event, hand, clock, g_done, published, scheduled,
                 recorded, cancelled, overlap>>

Final_Late(i) ==
  /\ i = Last
  /\ CPU(i) /\ at[i] = "callback" /\ ~g_done /\ g_round >= WARMUP_ROUNDS
  /\ scheduled' = scheduled \cup {i}
  /\ recorded' = recorded + 1
  /\ g_round' = g_round + 1
  /\ g_done' = (g_round' > LastRound)
  /\ cancelled' = (cancelled \/ g_done')
  /\ at' = [at EXCEPT ![i] = "wait"]
  /\ UNCHANGED <<bufferVars, inbox, event, hand, clock, published, overlap>>

(* ... any other is recorded, and after the last one the executor is       *)
(* cancelled.                                                              *)
Final(i) ==
  /\ i = Last
  /\ CPU(i) /\ at[i] = "callback" /\ ~g_done /\ g_round >= WARMUP_ROUNDS
  /\ scheduled' = scheduled \cup {i}
  /\ recorded' = recorded + 1
  /\ g_round' = g_round + 1
  /\ g_done' = (g_round' >= LastRound)
  /\ cancelled' = (cancelled \/ g_done')
  /\ at' = [at EXCEPT ![i] = "wait"]
  /\ UNCHANGED <<bufferVars, inbox, event, hand, clock, published, overlap>>

-----------------------------------------------------------------------------
TimerStep == OnTimer \/ TimerPublish \/ Announce(Timer) \/ AddPublishTime(Timer)

ReceiverStep(i) ==
  \/ TakeEvent(i) \/ TakeMessage(i) \/ Skip(i)
  \/ Relay(i) \/ FinalWarmUp(i) \/ Final(i)
  \/ i # Last /\ (Announce(i) \/ AddPublishTime(i))

Next == TimerStep \/ \E i \in Receivers : ReceiverStep(i)

Spec == Init /\ [][Next]_vars

(* The timer fires for ever and its task has the processor whenever it     *)
(* wants it; it leaves time to the others, which take turns.               *)
LiveSpec == Spec /\ WF_vars(TimerStep) /\ \A i \in Receivers : SF_vars(ReceiverStep(i))

-----------------------------------------------------------------------------
(* Correctness.                                                            *)

(* A round that no other one overlapped is recorded with the publishing    *)
(* time of every node that publishes and the scheduling time of every node *)
(* that receives: none is added too late (FinalNode reads the sums while   *)
(* the callbacks before it may still have to add to them).                 *)
RoundSums ==
  [][recorded' # recorded /\ ~overlap => published = Senders /\ scheduled' = Receivers]_vars

(* Also when rounds overlap, events coalesce and messages are given up,    *)
(* the last node comes to count all rounds and cancels the executor.       *)
ChainEnds == <>cancelled

=============================================================================

------------------------ MODULE MultiThreadedExecutor ------------------------
(***************************************************************************)
(* MultiThreadedExecutor over Executor (rclcpp/executor.cpp and            *)
(* executors/multi_threaded_executor.cpp), serving intra-process           *)
(* subscriptions.  One thread at a time holds wait_mutex_, selects a ready *)
(* subscription or waits for one in rcl_wait, and runs its callback after  *)
(* releasing the mutex.  The subscriptions of a mutually exclusive         *)
(* callback group are not offered while one of them runs.                  *)
(***************************************************************************)
EXTENDS IntraProcess

CONSTANTS
  Threads,    (* number_of_threads_                                       *)
  Group,      (* the callback group of each subscription                  *)
  Exclusive   (* the groups of type MutuallyExclusive                     *)

ASSUME ExecutorAssumption == NONE \notin Threads

Groups == {Group[s] : s \in Subs}

VARIABLES
  spinning,     (* Executor::spinning                                     *)
  cancelling,   (* cancel() has cleared spinning, not yet triggered       *)
  interrupt_,   (* interrupt_guard_condition_ is triggered                *)
  wait_mutex_,  (* the thread that holds it                               *)
  handles,      (* waitable_handles_ of the memory strategy               *)
  busy,         (* groups whose can_be_taken_from_ is false               *)
  at,           (* where a thread is in run()                             *)
  any_exec      (* the subscription a thread has taken from               *)

execVars == <<spinning, cancelling, interrupt_, wait_mutex_, handles, busy, at, any_exec>>
vars == <<intraVars, execVars>>

Init ==
  /\ IntraInit
  /\ spinning = FALSE /\ cancelling = FALSE /\ interrupt_ = FALSE
  /\ wait_mutex_ = NONE /\ handles = {} /\ busy = {}
  /\ at = [t \in Threads |-> "out"] /\ any_exec = [t \in Threads |-> NONE]

Go(t, place) == at' = [at EXCEPT ![t] = place]

-----------------------------------------------------------------------------
(* spin() starts the threads, and returns when they have all left. *)
Spin ==
  /\ \A t \in Threads : at[t] = "out"
  /\ ~spinning
  /\ spinning' = TRUE
  /\ at' = [t \in Threads |-> "loop"]
  /\ UNCHANGED <<intraVars, cancelling, interrupt_, wait_mutex_, handles, busy, any_exec>>

(* cancel() clears the flag, ... *)
Cancel ==
  /\ spinning /\ ~cancelling
  /\ spinning' = FALSE
  /\ cancelling' = TRUE
  /\ UNCHANGED <<intraVars, interrupt_, wait_mutex_, handles, busy, at, any_exec>>

CancelTrigger_Lost ==
  /\ cancelling
  /\ cancelling' = FALSE
  /\ UNCHANGED <<intraVars, spinning, interrupt_, wait_mutex_, handles, busy, at, any_exec>>

(* ... then interrupts the wait. *)
CancelTrigger ==
  /\ cancelling
  /\ cancelling' = FALSE
  /\ interrupt_' = TRUE
  /\ UNCHANGED <<intraVars, spinning, wait_mutex_, handles, busy, at, any_exec>>

-----------------------------------------------------------------------------
(* run(), by thread t.                                                     *)

Lock(t) ==
  /\ at[t] = "loop" /\ spinning
  /\ wait_mutex_ = NONE
  /\ wait_mutex_' = t
  /\ Go(t, "next")
  /\ UNCHANGED <<intraVars, spinning, cancelling, interrupt_, handles, busy, any_exec>>

Exit(t) ==
  /\ at[t] = "loop" /\ ~spinning
  /\ Go(t, "out")
  /\ UNCHANGED <<intraVars, spinning, cancelling, interrupt_, wait_mutex_, handles, busy,
                 any_exec>>

(* get_next_waitable: handles of groups that are in use stay in the list.  *)
Available(S) == {s \in S : Group[s] \notin busy}

(* get_next_ready_executable_from_map selects a subscription and begins    *)
(* take_data, ...                                                          *)
Take(t, s) ==
  /\ at[t] = "next" \/ (at[t] = "again" /\ spinning)
  /\ s \in Available(handles)
  /\ Consume(s)
  /\ handles' = handles \ {s}
  /\ any_exec' = [any_exec EXCEPT ![t] = s]
  /\ Go(t, "took")
  /\ UNCHANGED <<spinning, cancelling, interrupt_, wait_mutex_, busy>>

MarkGroup_Skipped(t) ==
  /\ at[t] = "took"
  /\ Retrigger(any_exec[t])
  /\ wait_mutex_' = NONE
  /\ Go(t, "run")
  /\ UNCHANGED <<spinning, cancelling, interrupt_, handles, busy, any_exec>>

(* ... finishes it, marks the group as in use, and run() unlocks. *)
MarkGroup(t) ==
  /\ at[t] = "took"
  /\ Retrigger(any_exec[t])
  /\ busy' = busy \cup ({Group[any_exec[t]]} \cap Exclusive)
  /\ wait_mutex_' = NONE
  /\ Go(t, "run")
  /\ UNCHANGED <<spinning, cancelling, interrupt_, handles, any_exec>>

(* Nothing is ready.  wait_for_work forgets the handles and collects those *)
(* of the groups not in use.                                               *)
Collect(t) ==
  /\ at[t] = "next" /\ Available(handles) = {}
  /\ handles' = Available(Subs)
  /\ Go(t, "wait")
  /\ UNCHANGED <<intraVars, spinning, cancelling, interrupt_, wait_mutex_, busy, any_exec>>

Signalled == interrupt_ \/ \E s \in handles : notified[s]

(* rmw_wait returns, and resets every guard condition of the wait set. *)
WakeUp(t) ==
  /\ at[t] = "wait"
  /\ Signalled
  /\ interrupt_' = FALSE
  /\ notified' = [s \in Subs |-> notified[s] /\ s \notin handles]
  /\ Go(t, "woken")
  /\ UNCHANGED <<size_, publishing, spinning, cancelling, wait_mutex_, handles, busy, any_exec>>

(* remove_null_handles keeps the subscriptions that have data. *)
RemoveNullHandles(t) ==
  /\ at[t] = "woken"
  /\ handles' = {s \in handles : size_[s] > 0}
  /\ Go(t, "again")
  /\ UNCHANGED <<intraVars, spinning, cancelling, interrupt_, wait_mutex_, busy, any_exec>>

(* get_next_executable gives up: cancelled, or still nothing is ready. *)
GiveUp(t) ==
  /\ at[t] = "again"
  /\ ~spinning \/ Available(handles) = {}
  /\ wait_mutex_' = NONE
  /\ Go(t, "loop")
  /\ UNCHANGED <<intraVars, spinning, cancelling, interrupt_, handles, busy, any_exec>>

(* execute_any_executable starts the callback, ... *)
Execute(t) ==
  /\ at[t] = "run" /\ spinning
  /\ Go(t, "callback")
  /\ UNCHANGED <<intraVars, spinning, cancelling, interrupt_, wait_mutex_, handles, busy,
                 any_exec>>

(* ... or returns at once when the executor was cancelled; run() resets    *)
(* callback_group, so ~AnyExecutable does not release it.                  *)
Discard(t) ==
  /\ at[t] = "run" /\ ~spinning
  /\ any_exec' = [any_exec EXCEPT ![t] = NONE]
  /\ Go(t, "loop")
  /\ UNCHANGED <<intraVars, spinning, cancelling, interrupt_, wait_mutex_, handles, busy>>

Release_Kept(t) ==
  /\ at[t] = "callback"
  /\ any_exec' = [any_exec EXCEPT ![t] = NONE]
  /\ Go(t, "released")
  /\ UNCHANGED <<intraVars, spinning, cancelling, interrupt_, wait_mutex_, handles, busy>>

(* The callback returns and the group is released, ... *)
Release(t) ==
  /\ at[t] = "callback"
  /\ busy' = busy \ {Group[any_exec[t]]}
  /\ any_exec' = [any_exec EXCEPT ![t] = NONE]
  /\ Go(t, "released")
  /\ UNCHANGED <<intraVars, spinning, cancelling, interrupt_, wait_mutex_, handles>>

Interrupt_Skipped(t) ==
  /\ at[t] = "released"
  /\ Go(t, "loop")
  /\ UNCHANGED <<intraVars, spinning, cancelling, interrupt_, wait_mutex_, handles, busy,
                 any_exec>>

(* ... then the wait is interrupted. *)
Interrupt(t) ==
  /\ at[t] = "released"
  /\ interrupt_' = TRUE
  /\ Go(t, "loop")
  /\ UNCHANGED <<intraVars, spinning, cancelling, wait_mutex_, handles, busy, any_exec>>

ServeStep(t) ==
  \/ Lock(t) \/ MarkGroup(t) \/ Collect(t) \/ WakeUp(t)
  \/ RemoveNullHandles(t) \/ GiveUp(t) \/ Execute(t) \/ Release(t) \/ Interrupt(t)
  \/ \E s \in Subs : Take(t, s)

ThreadStep(t) == ServeStep(t) \/ Exit(t) \/ Discard(t)

Publishing ==
  \E p \in Publishers :
    /\ Notify(p) \/ \E s \in Subs : Publish(p, s)
    /\ UNCHANGED execVars

(* Nobody cancels, ... *)
ServeNext == Spin \/ Publishing \/ \E t \in Threads : ServeStep(t)

ServeSpec == Init /\ [][ServeNext]_vars

(* ... or somebody does at any time, and spins again.                      *)
Next ==
  \/ Spin \/ Publishing \/ Cancel \/ CancelTrigger
  \/ \E t \in Threads : ThreadStep(t)

Spec == Init /\ [][Next]_vars

(* The threads and a call under way are scheduled; nobody has to publish   *)
(* or to spin.                                                             *)
LiveSpec ==
  /\ ServeSpec
  /\ \A p \in Publishers : WF_vars(Notify(p) /\ UNCHANGED execVars)
  /\ \A t \in Threads : WF_vars(ServeStep(t))

-----------------------------------------------------------------------------
(* Correctness.                                                            *)

(* Every variable has its type. *)
TypeOK ==
  /\ IntraTypeOK
  /\ spinning \in BOOLEAN /\ cancelling \in BOOLEAN /\ interrupt_ \in BOOLEAN
  /\ wait_mutex_ \in Threads \cup {NONE}
  /\ handles \subseteq Subs /\ busy \subseteq Groups \cap Exclusive
  /\ at \in [Threads -> {"out", "loop", "next", "wait", "woken", "again",
                         "took", "run", "callback", "released"}]
  /\ any_exec \in [Threads -> Subs \cup {NONE}]

(* The thread has a subscription to run or runs it. *)
Holds(t) == at[t] \in {"run", "callback"}

(* Two callbacks of one mutually exclusive group never overlap             *)
(* (get_next_ready_executable_from_map and can_be_taken_from).             *)
ExclusiveGroups ==
  \A t, u \in Threads :
    Holds(t) /\ Holds(u) /\ Group[any_exec[t]] = Group[any_exec[u]]
      /\ Group[any_exec[t]] \in Exclusive => t = u

(* A group in use is held by a thread that will run a callback of it:      *)
(* taken but not executed executables release their group                  *)
(* (any_executable.cpp).                                                   *)
GroupReleased ==
  \A g \in busy : \E t \in Threads : Holds(t) /\ Group[any_exec[t]] = g

(* A thread waits, with nothing to wake it, the others have nothing to run *)
(* and no publisher is under way.                                          *)
Asleep ==
  /\ \E t \in Threads : at[t] = "wait"
  /\ \A t \in Threads : at[t] \in {"wait", "loop"}
  /\ \A p \in Publishers : publishing[p] = NONE
  /\ ~Signalled

(* The executor does not sleep on stored messages (executor.cpp: wake the  *)
(* wait, work that was previously blocked is now available).               *)
NoStranded == Asleep => \A s \in Subs : size_[s] = 0

(* A stored message leads to a callback of its subscription.               *)
Served ==
  \A s \in Subs :
    size_[s] > 0 /\ spinning ~> \E t \in Threads : at[t] = "callback" /\ any_exec[t] = s

(* cancel() ends every thread, and with them spin().                       *)
CancelEnds == ~spinning ~> \A t \in Threads : at[t] = "out"

=============================================================================

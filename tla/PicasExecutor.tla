---------------------------- MODULE PicasExecutor ----------------------------
(***************************************************************************)
(* The PiCAS executor (rclcpp-picas): MultiThreadedExecutor whose          *)
(* callbacks have priorities once enable_callback_priority() was called.   *)
(* A thread then always waits before it selects, looks through all ready   *)
(* timers and subscriptions, and takes the one of the highest priority.    *)
(* Otherwise the executor is the one it was forked from.                   *)
(*                                                                         *)
(* The selection, the mark of the group and the unlock are one step: the   *)
(* mutex is held, and the others do no more than release groups.           *)
(***************************************************************************)
EXTENDS MultiThreadedExecutor

CONSTANTS
  Timers,
  Priority    (* callback_priority of each timer and subscription         *)

Entities == Subs \cup Timers

(* A negative priority is never selected; the default is zero. *)
ASSUME PicasAssumption ==
  Subs \cap Timers = {} /\ NONE \notin Timers /\ Priority \in [Entities -> Nat]

VARIABLES
  callback_priority_enabled,
  due,               (* timers whose period is over                       *)
  scheduled_timers_, (* timers a thread has selected and not yet done     *)
  callback_group,    (* any_exec.callback_group of each thread            *)
  waiting            (* what was ready when a thread began to wait        *)

picasVars == <<callback_priority_enabled, due, scheduled_timers_, callback_group, waiting>>
allVars == <<vars, picasVars>>

PicasInit ==
  /\ Init
  /\ callback_priority_enabled \in BOOLEAN
  /\ due = {} /\ scheduled_timers_ = {} /\ waiting = {}
  /\ callback_group = [t \in Threads |-> NONE]

Ready(S) == {e \in S : IF e \in Timers THEN e \in due ELSE size_[e] > 0}

-----------------------------------------------------------------------------
Expire(tm) ==
  /\ callback_priority_enabled /\ tm \notin due
  /\ due' = due \cup {tm}
  /\ UNCHANGED <<vars, callback_priority_enabled, scheduled_timers_, callback_group, waiting>>

(* get_next_executable does not try a selection before it has waited. *)
CollectAll(t) ==
  /\ at[t] = "next"
  /\ handles' = Available(Entities)
  /\ waiting' = Ready(handles') \ scheduled_timers_
  /\ Go(t, "wait")
  /\ UNCHANGED <<intraVars, spinning, cancelling, interrupt_, wait_mutex_, busy, any_exec,
                 callback_priority_enabled, due, scheduled_timers_, callback_group>>

(* rcl_wait returns for a guard condition or a timer, resets the former,   *)
(* and keeps the timers that are due.                                      *)
WaitReturns(t) ==
  /\ at[t] = "wait"
  /\ interrupt_ \/ handles \cap due # {} \/ \E s \in handles \cap Subs : notified[s]
  /\ interrupt_' = FALSE
  /\ notified' = [s \in Subs |-> notified[s] /\ s \notin handles]
  /\ handles' = handles \ (Timers \ due)
  /\ Go(t, "woken")
  /\ UNCHANGED <<size_, publishing, spinning, cancelling, wait_mutex_, busy, any_exec,
                 picasVars>>

(* Two faulty variants: a subscription counts as ready if its guard        *)
(* condition is triggered, and a group in use is not marked.               *)
Stored_Notified(s) == notified[s]
InUse_Unmarked(g) == busy

(* is_ready of a subscription looks into its buffer. *)
Stored(s) == size_[s] > 0

KeepReady(t) ==
  /\ at[t] = "woken"
  /\ handles' = {e \in handles : e \in Subs => Stored(e)}
  /\ Go(t, "again")
  /\ UNCHANGED <<intraVars, spinning, cancelling, interrupt_, wait_mutex_, busy, any_exec,
                 picasVars>>

InUse(g) == busy \cup ({g} \cap Exclusive)

(* The choice of get_next_timer and get_next_waitable among their own kind *)
Best(Kind) ==
  {e \in Available(handles) \cap Kind :
     \A f \in Available(handles) \cap Kind : Priority[f] <= Priority[e]}

(* A subscription must be above the timer chosen before it, ... *)
BeatsTimers(s) == \A tm \in Best(Timers) : Priority[tm] < Priority[s]

(* ... and the group it leaves in any_exec stays there when it is not.     *)
GroupsLeft(tm) ==
  IF Best(Subs) = {} THEN {Group[tm]} ELSE {Group[s] : s \in Best(Subs)}

(* Every handle looked at is dropped, also those not selected. *)
Select(t) ==
  /\ at[t] = "again" /\ spinning
  /\ handles' = handles \ Available(handles)
  /\ wait_mutex_' = NONE /\ waiting' = {}
  /\ UNCHANGED <<spinning, cancelling, interrupt_, callback_priority_enabled, due>>

SelectSub(t, s) ==
  /\ Select(t)
  /\ s \in Best(Subs) /\ BeatsTimers(s)
  /\ Consume(s)
  /\ any_exec' = [any_exec EXCEPT ![t] = s]
  /\ callback_group' = [callback_group EXCEPT ![t] = Group[s]]
  /\ busy' = InUse(Group[s])
  /\ Go(t, "run")
  /\ UNCHANGED scheduled_timers_

(* Another thread has selected the timer and is not done with it; the      *)
(* faulty variant does not look.                                           *)
Scheduled_Unchecked(tm) == FALSE
Scheduled(tm) == tm \in scheduled_timers_

SelectTimer(t, tm) ==
  /\ Select(t)
  /\ tm \in Best(Timers) /\ \A s \in Best(Subs) : ~BeatsTimers(s)
  /\ ~Scheduled(tm)
  /\ scheduled_timers_' = scheduled_timers_ \cup {tm}
  /\ any_exec' = [any_exec EXCEPT ![t] = tm]
  /\ \E g \in GroupsLeft(tm) :
       /\ callback_group' = [callback_group EXCEPT ![t] = g]
       /\ busy' = InUse(g)
  /\ Go(t, "run")
  /\ UNCHANGED intraVars

(* The thread goes on without the timer, and gives the group back. *)
SkipTimer(t, tm) ==
  /\ Select(t)
  /\ tm \in Best(Timers) /\ \A s \in Best(Subs) : ~BeatsTimers(s)
  /\ Scheduled(tm)
  /\ Go(t, "loop")
  /\ UNCHANGED <<intraVars, busy, any_exec, scheduled_timers_, callback_group>>

-----------------------------------------------------------------------------
(* execute_any_executable, and what run() does after it.                   *)

(* A timer that is called is not due any more. *)
Call(t) ==
  /\ at[t] = "run" /\ spinning
  /\ due' = due \ {any_exec[t]}
  /\ Go(t, "callback")
  /\ UNCHANGED <<intraVars, spinning, cancelling, interrupt_, wait_mutex_, handles, busy,
                 any_exec, callback_priority_enabled, scheduled_timers_, callback_group,
                 waiting>>

(* The executable of a timer is kept until the timer is unscheduled. *)
Done(t) ==
  /\ Go(t, IF any_exec[t] \in Timers THEN "unschedule" ELSE "loop")
  /\ any_exec' = [any_exec EXCEPT ![t] = IF @ \in Timers THEN @ ELSE NONE]
  /\ callback_group' = [callback_group EXCEPT ![t] = NONE]
  /\ UNCHANGED <<callback_priority_enabled, due, scheduled_timers_, waiting>>

DiscardAny(t) ==
  /\ at[t] = "run" /\ ~spinning
  /\ Done(t)
  /\ UNCHANGED <<intraVars, spinning, cancelling, interrupt_, wait_mutex_, handles, busy>>

ReleaseGroup(t) ==
  /\ at[t] = "callback"
  /\ busy' = busy \ {callback_group[t]}
  /\ Go(t, "released")
  /\ UNCHANGED <<intraVars, spinning, cancelling, interrupt_, wait_mutex_, handles, any_exec,
                 picasVars>>

InterruptWait(t) ==
  /\ at[t] = "released"
  /\ interrupt_' = TRUE
  /\ Done(t)
  /\ UNCHANGED <<intraVars, spinning, cancelling, wait_mutex_, handles, busy>>

Unschedule(t) ==
  /\ at[t] = "unschedule" /\ wait_mutex_ = NONE
  /\ scheduled_timers_' = scheduled_timers_ \ {any_exec[t]}
  /\ any_exec' = [any_exec EXCEPT ![t] = NONE]
  /\ Go(t, "loop")
  /\ UNCHANGED <<intraVars, spinning, cancelling, interrupt_, wait_mutex_, handles, busy,
                 callback_priority_enabled, due, callback_group, waiting>>

PriorityStep(t) ==
  \/ (Lock(t) \/ Exit(t)) /\ UNCHANGED picasVars
  \/ /\ GiveUp(t) /\ waiting' = {}
     /\ UNCHANGED <<callback_priority_enabled, due, scheduled_timers_, callback_group>>
  \/ CollectAll(t) \/ WaitReturns(t) \/ KeepReady(t)
  \/ \E s \in Subs : SelectSub(t, s)
  \/ \E tm \in Timers : SelectTimer(t, tm) \/ SkipTimer(t, tm)
  \/ Call(t) \/ DiscardAny(t) \/ ReleaseGroup(t) \/ InterruptWait(t) \/ Unschedule(t)

PicasStep(t) ==
  \/ callback_priority_enabled /\ PriorityStep(t)
  \/ ~callback_priority_enabled /\ ThreadStep(t) /\ UNCHANGED picasVars

PicasNext ==
  \/ (Spin \/ Cancel \/ CancelTrigger \/ Publishing) /\ UNCHANGED picasVars
  \/ \E tm \in Timers : Expire(tm)
  \/ \E t \in Threads : PicasStep(t)

PicasSpec == PicasInit /\ [][PicasNext]_allVars

(* As in MultiThreadedExecutor; no timer has to expire. *)
PicasLiveSpec ==
  /\ PicasSpec
  /\ WF_allVars(CancelTrigger /\ UNCHANGED picasVars)
  /\ \A t \in Threads : WF_allVars(PicasStep(t))

-----------------------------------------------------------------------------
(* Correctness.                                                            *)

(* The callback of a timer is run by one thread at a time, whatever its    *)
(* group and however soon it is due again (multi_threaded_executor.cpp:    *)
(* guard against multiple threads getting the same timer).                 *)
TimersOnce ==
  \A t, u \in Threads :
    Holds(t) /\ Holds(u) /\ any_exec[t] = any_exec[u] /\ any_exec[t] \in Timers => t = u

(* A callback begins only if no other of a higher priority has been ready  *)
(* since before the thread waited, also if it has lost selections before   *)
(* and its guard condition has been reset meanwhile (executor.cpp: keep    *)
(* only the highest-priority one).                                         *)
HighestFirst ==
  [][\A t \in Threads :
       callback_priority_enabled /\ at[t] = "again" /\ at'[t] = "run" =>
         \A e \in waiting : Priority[e] <= Priority[any_exec'[t]]]_allVars

=============================================================================

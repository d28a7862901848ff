------------------------------ MODULE RTExecutor ------------------------------
(***************************************************************************)
(* RTExecutor and CallbackTask (rclcpp/executors/rt_executor.cpp).  Every  *)
(* registered callback has an RTEMS task of its own that waits for         *)
(* RTEMS_EVENT_1; the timer device (TimerService) or a publisher sends it. *)
(* spin() starts the tasks, programs the device and blocks until cancel()  *)
(* sends it SHUTDOWN_EVENT; the destructor stops the tasks and then the    *)
(* device.  Any task may run between any two steps of any other.           *)
(***************************************************************************)
EXTENDS TimerService, Integers, FiniteSets

CONSTANTS
  Subs,      (* subscriptions                                             *)
  Spinners,  (* RTEMS ids of the tasks that call spin()                   *)
  Periods,   (* period_ticks of the timers, whole clock ticks             *)
  MaxSpins   (* bound on the calls of spin()                              *)

(* Channels are numbered from 0, and ids and registrations are distinct. *)
ASSUME RTExecutorAssumption ==
  /\ IsFiniteSet(Channels) /\ Channels = 0..(Cardinality(Channels) - 1)
  /\ NONE \notin Channels \cup Subs \cup Spinners
  /\ Channels \cap Subs = {}
  /\ Periods \subseteq Nat
  /\ MaxSpins \in Nat

VARIABLES
  spinning,       (* Executor::spinning                                   *)
  spin_task_id_,  (* the task cancel() wakes                              *)
  dev_fd_,        (* the executor holds an open descriptor                *)
  next_channel_,  (* timers registered so far                             *)
  period_ticks,   (* TimerReg::period_ticks                               *)
  running_,       (* CallbackTask::running_ of a registration             *)
  task_id_,       (* CallbackTask::task_id_ of a registration             *)
  owner,          (* the registration a live RTEMS task works for         *)
  loop,           (* where the task is in run_loop                        *)
  shutdown,       (* SHUTDOWN_EVENT pending at a spinner; it is sticky    *)
  pc,             (* where a spinner is in spin()                         *)
  k,              (* the next element of spin()'s loop over timer_regs_   *)
  spins,          (* calls of spin() so far                               *)
  dtor,           (* how far the destructor is                            *)
  todo            (* registrations the destructor's loop has yet to visit *)

taskVars == <<running_, task_id_, owner, loop>>
regVars == <<next_channel_, period_ticks>>
spinVars == <<pc, k, spins>>
dtorVars == <<dtor, todo>>
vars == <<serviceVars, spinning, spin_task_id_, dev_fd_, regVars, taskVars,
          shutdown, spinVars, dtorVars>>

Regs == Channels \cup Subs
Timers == 0..(next_channel_ - 1)
Idle == dtor = "no" /\ \A m \in Spinners : pc[m] = "idle"

Init ==
  /\ ServiceInit
  /\ spinning = FALSE /\ spin_task_id_ = NONE /\ dev_fd_ = FALSE
  /\ next_channel_ = 0 /\ period_ticks = [c \in Channels |-> 0]
  /\ running_ = [r \in Regs |-> FALSE] /\ task_id_ = [r \in Regs |-> NONE]
  /\ owner = [t \in Tasks |-> NONE] /\ loop = [t \in Tasks |-> "wait"]
  /\ shutdown = [m \in Spinners |-> FALSE]
  /\ pc = [m \in Spinners |-> "idle"] /\ k = [m \in Spinners |-> 0]
  /\ spins = 0
  /\ dtor = "no" /\ todo = {}

-----------------------------------------------------------------------------
(* CallbackTask.  A name with a suffix, here and below, is a faulty        *)
(* variant of the action that follows it, which no action uses.            *)

StartTask_Twice(r) ==
  \/ \E t \in Tasks :
       /\ owner[t] = NONE
       /\ owner' = [owner EXCEPT ![t] = r]
       /\ loop' = [loop EXCEPT ![t] = "wait"]
       /\ task_id_' = [task_id_ EXCEPT ![r] = t]
       /\ running_' = [running_ EXCEPT ![r] = TRUE]
  \/ (\A t \in Tasks : owner[t] # NONE) /\ UNCHANGED taskVars

(* start(): rtems_task_create fails when every task is in use. *)
StartTask(r) ==
  \/ running_[r] /\ UNCHANGED taskVars
  \/ ~running_[r] /\ (\A t \in Tasks : owner[t] # NONE) /\ UNCHANGED taskVars
  \/ /\ ~running_[r]
     /\ \E t \in Tasks :
          /\ owner[t] = NONE
          /\ owner' = [owner EXCEPT ![t] = r]
          /\ loop' = [loop EXCEPT ![t] = "wait"]
          /\ task_id_' = [task_id_ EXCEPT ![r] = t]
          /\ running_' = [running_ EXCEPT ![r] = TRUE]

(* The task is deleted, by itself or by stop(), and its pending event with *)
(* it.                                                                     *)
Delete(t) ==
  /\ owner' = [owner EXCEPT ![t] = NONE]
  /\ events' = [events EXCEPT ![t] = FALSE]
  /\ loop' = [loop EXCEPT ![t] = "wait"]

(* run_loop: the event is taken, and the callback begins unless running_   *)
(* has been cleared.                                                       *)
TakeEvent(t) ==
  /\ owner[t] # NONE /\ loop[t] = "wait"
  /\ events[t]
  /\ \/ running_[owner[t]] /\ Receive(t)
        /\ loop' = [loop EXCEPT ![t] = "callback"]
        /\ UNCHANGED owner
     \/ ~running_[owner[t]] /\ Delete(t) /\ UNCHANGED <<opened, armed>>
  /\ UNCHANGED <<spinning, spin_task_id_, dev_fd_, regVars, running_, task_id_,
                 shutdown, spinVars, dtorVars>>

Return_Once(t) ==
  /\ owner[t] # NONE /\ loop[t] \in {"callback", "cancelled"}
  /\ Delete(t) /\ UNCHANGED <<opened, armed>>
  /\ UNCHANGED <<spinning, spin_task_id_, dev_fd_, regVars, running_, task_id_,
                 shutdown, spinVars, dtorVars>>

Return_DropsEvent(t) ==
  /\ owner[t] # NONE /\ loop[t] \in {"callback", "cancelled"}
  /\ events' = [events EXCEPT ![t] = FALSE]
  /\ \/ running_[owner[t]] /\ loop' = [loop EXCEPT ![t] = "wait"] /\ UNCHANGED owner
     \/ ~running_[owner[t]] /\ Delete(t)
  /\ UNCHANGED <<opened, armed, spinning, spin_task_id_, dev_fd_, regVars,
                 running_, task_id_, shutdown, spinVars, dtorVars>>

(* The callback returns, and the loop tests running_. *)
Return(t) ==
  /\ owner[t] # NONE /\ loop[t] \in {"callback", "cancelled"}
  /\ \/ running_[owner[t]] /\ loop' = [loop EXCEPT ![t] = "wait"]
        /\ UNCHANGED <<owner, events>>
     \/ ~running_[owner[t]] /\ Delete(t)
  /\ UNCHANGED <<opened, armed, spinning, spin_task_id_, dev_fd_, regVars,
                 running_, task_id_, shutdown, spinVars, dtorVars>>

(* A callback calls cancel(), once: the flag first, ... *)
CancelStore(t) ==
  /\ owner[t] # NONE /\ loop[t] = "callback"
  /\ spinning' = FALSE
  /\ loop' = [loop EXCEPT ![t] = "cancel"]
  /\ UNCHANGED <<serviceVars, spin_task_id_, dev_fd_, regVars, running_,
                 task_id_, owner, shutdown, spinVars, dtorVars>>

(* ... then the event, if a task id has been noted. *)
CancelSend(t) ==
  /\ owner[t] # NONE /\ loop[t] = "cancel"
  /\ shutdown' = [m \in Spinners |-> shutdown[m] \/ m = spin_task_id_]
  /\ loop' = [loop EXCEPT ![t] = "cancelled"]
  /\ UNCHANGED <<serviceVars, spinning, spin_task_id_, dev_fd_, regVars,
                 running_, task_id_, owner, spinVars, dtorVars>>

-----------------------------------------------------------------------------
(* The senders of RTEMS_EVENT_1; a send to a deleted task fails.           *)

Send(ts) == events' = [t \in Tasks |-> events[t] \/ (t \in ts /\ owner[t] # NONE)]

(* The device interrupts for some armed channels. *)
Expire(S) ==
  /\ opened
  /\ \A c \in S : armed[c] # NONE
  /\ Send({armed[c] : c \in S})
  /\ UNCHANGED <<opened, armed, spinning, spin_task_id_, dev_fd_, regVars,
                 taskVars, shutdown, spinVars, dtorVars>>

(* A message arrives for a subscription, from any task or from DDS. *)
Publish(s) ==
  /\ Send({task_id_[s]})
  /\ UNCHANGED <<opened, armed, spinning, spin_task_id_, dev_fd_, regVars,
                 taskVars, shutdown, spinVars, dtorVars>>

-----------------------------------------------------------------------------
(* The executor's own operations.                                          *)

register_rt_timer_NoLimit(p) ==
  /\ Idle
  /\ next_channel_ <= Cardinality(Channels)
  /\ next_channel_' = next_channel_ + 1
  /\ period_ticks' = [c \in Channels \cup {next_channel_} |->
                        IF c = next_channel_ THEN p ELSE period_ticks[c]]
  /\ UNCHANGED <<serviceVars, spinning, spin_task_id_, dev_fd_, taskVars,
                 shutdown, spinVars, dtorVars>>

(* A timer is registered, or -1 returned when the channels are used up. *)
register_rt_timer(p) ==
  /\ Idle
  /\ next_channel_ \in Channels
  /\ next_channel_' = next_channel_ + 1
  /\ period_ticks' = [period_ticks EXCEPT ![next_channel_] = p]
  /\ UNCHANGED <<serviceVars, spinning, spin_task_id_, dev_fd_, taskVars,
                 shutdown, spinVars, dtorVars>>

(* A subscription's task is started as it is registered. *)
register_rt_subscription(s) ==
  /\ Idle
  /\ ~running_[s]
  /\ StartTask(s)
  /\ UNCHANGED <<serviceVars, spinning, spin_task_id_, dev_fd_, regVars,
                 shutdown, spinVars, dtorVars>>

(* spin() enters by exchanging the flag; it throws if the flag was set. *)
Spin(m) ==
  /\ dtor = "no" /\ pc[m] = "idle" /\ spins < MaxSpins
  /\ ~spinning
  /\ spinning' = TRUE
  /\ spins' = spins + 1
  /\ pc' = [pc EXCEPT ![m] = "start"] /\ k' = [k EXCEPT ![m] = 0]
  /\ UNCHANGED <<serviceVars, spin_task_id_, dev_fd_, regVars, taskVars,
                 shutdown, dtorVars>>

(* start_all_tasks *)
StartNext(m) ==
  /\ pc[m] = "start"
  /\ \/ /\ k[m] \in Timers
        /\ StartTask(k[m])
        /\ k' = [k EXCEPT ![m] = @ + 1]
        /\ UNCHANGED pc
     \/ /\ k[m] \notin Timers
        /\ pc' = [pc EXCEPT ![m] = IF Timers = {} THEN "note" ELSE "open"]
        /\ UNCHANGED <<taskVars, k>>
  /\ UNCHANGED <<serviceVars, spinning, spin_task_id_, dev_fd_, regVars,
                 shutdown, spins, dtorVars>>

(* setup_timer_driver: the device is exclusive, so a second open fails,    *)
(* and spin() goes on without it.                                          *)
OpenDriver(m) ==
  /\ pc[m] = "open"
  /\ \/ /\ OpenDevice
        /\ dev_fd_' = TRUE
        /\ pc' = [pc EXCEPT ![m] = "arm"]
        /\ k' = [k EXCEPT ![m] = 0]
     \/ /\ opened
        /\ dev_fd_' = FALSE
        /\ pc' = [pc EXCEPT ![m] = "note"]
        /\ UNCHANGED <<serviceVars, k>>
  /\ UNCHANGED <<spinning, spin_task_id_, regVars, taskVars, shutdown, spins,
                 dtorVars>>

(* setup_timer_driver, one channel: the task is started if it is not, and  *)
(* the channel is armed for it; START rejects a period of zero ticks, and  *)
(* every failure only skips the channel.                                   *)
ArmChannel(c) ==
  /\ StartTask(c)
  /\ IF running_'[c] /\ period_ticks[c] > 0 /\ dev_fd_
       THEN Arm(c, task_id_'[c])
       ELSE UNCHANGED serviceVars

ArmNext_SkipsLast(m) ==
  /\ pc[m] = "arm"
  /\ \/ /\ k[m] + 1 \in Timers
        /\ ArmChannel(k[m])
        /\ k' = [k EXCEPT ![m] = @ + 1]
        /\ UNCHANGED pc
     \/ /\ k[m] + 1 \notin Timers
        /\ pc' = [pc EXCEPT ![m] = "note"]
        /\ UNCHANGED <<serviceVars, taskVars, k>>
  /\ UNCHANGED <<spinning, spin_task_id_, dev_fd_, regVars, shutdown, spins,
                 dtorVars>>

ArmNext(m) ==
  /\ pc[m] = "arm"
  /\ \/ /\ k[m] \in Timers
        /\ ArmChannel(k[m])
        /\ k' = [k EXCEPT ![m] = @ + 1]
        /\ UNCHANGED pc
     \/ /\ k[m] \notin Timers
        /\ pc' = [pc EXCEPT ![m] = "note"]
        /\ UNCHANGED <<serviceVars, taskVars, k>>
  /\ UNCHANGED <<spinning, spin_task_id_, dev_fd_, regVars, shutdown, spins,
                 dtorVars>>

NoteTask_Forgotten(m) ==
  /\ pc[m] = "note"
  /\ pc' = [pc EXCEPT ![m] = "blocked"]
  /\ UNCHANGED <<serviceVars, spinning, spin_task_id_, dev_fd_, regVars,
                 taskVars, shutdown, k, spins, dtorVars>>

(* spin_task_id_ = rtems_task_self() *)
NoteTask(m) ==
  /\ pc[m] = "note"
  /\ spin_task_id_' = m
  /\ pc' = [pc EXCEPT ![m] = "blocked"]
  /\ UNCHANGED <<serviceVars, spinning, dev_fd_, regVars, taskVars, shutdown,
                 k, spins, dtorVars>>

(* SHUTDOWN_EVENT is received, and the scope guard clears the flag on the  *)
(* way out.                                                                *)
WakeUp(m) ==
  /\ pc[m] = "blocked"
  /\ shutdown[m]
  /\ shutdown' = [shutdown EXCEPT ![m] = FALSE]
  /\ pc' = [pc EXCEPT ![m] = "leave"]
  /\ UNCHANGED <<serviceVars, spinning, spin_task_id_, dev_fd_, regVars,
                 taskVars, k, spins, dtorVars>>

Leave(m) ==
  /\ pc[m] = "leave"
  /\ spinning' = FALSE
  /\ pc' = [pc EXCEPT ![m] = "idle"]
  /\ UNCHANGED <<serviceVars, spin_task_id_, dev_fd_, regVars, taskVars,
                 shutdown, k, spins, dtorVars>>

(* The destructor: stop_all_tasks visits the timers and then the           *)
(* subscriptions, ...                                                      *)
Destroy ==
  /\ Idle
  /\ dtor' = "stop"
  /\ todo' = Timers \cup Subs
  /\ UNCHANGED <<serviceVars, spinning, spin_task_id_, dev_fd_, regVars,
                 taskVars, shutdown, spinVars>>

Visits(r) ==
  /\ r \in todo
  /\ r \in Subs => todo \cap Channels = {}
  /\ r \in Channels => \A c \in todo \cap Channels : r <= c

(* stop() clears running_ and wakes the task, which may then delete itself *)
(* before ...                                                              *)
StopSignal(r) ==
  /\ dtor = "stop" /\ Visits(r)
  /\ running_[r]
  /\ running_' = [running_ EXCEPT ![r] = FALSE]
  /\ Send({task_id_[r]})
  /\ dtor' = "delete"
  /\ UNCHANGED <<opened, armed, spinning, spin_task_id_, dev_fd_, regVars,
                 task_id_, owner, loop, shutdown, spinVars, todo>>

StopSkip(r) ==
  /\ dtor = "stop" /\ Visits(r)
  /\ ~running_[r]
  /\ todo' = todo \ {r}
  /\ UNCHANGED <<serviceVars, spinning, spin_task_id_, dev_fd_, regVars,
                 taskVars, shutdown, spinVars, dtor>>

StopDelete_LeftAlone(r) ==
  /\ dtor = "delete" /\ Visits(r)
  /\ ~running_[r] /\ task_id_[r] # NONE
  /\ UNCHANGED <<events, owner, loop>>
  /\ task_id_' = [task_id_ EXCEPT ![r] = NONE]
  /\ dtor' = "stop"
  /\ todo' = todo \ {r}
  /\ UNCHANGED <<opened, armed, spinning, spin_task_id_, dev_fd_, regVars,
                 running_, shutdown, spinVars>>

(* ... stop() deletes it, wherever it is in its callback. *)
StopDelete(r) ==
  /\ dtor = "delete" /\ Visits(r)
  /\ ~running_[r] /\ task_id_[r] # NONE
  /\ IF owner[task_id_[r]] = NONE THEN UNCHANGED <<events, owner, loop>>
                                  ELSE Delete(task_id_[r])
  /\ task_id_' = [task_id_ EXCEPT ![r] = NONE]
  /\ dtor' = "stop"
  /\ todo' = todo \ {r}
  /\ UNCHANGED <<opened, armed, spinning, spin_task_id_, dev_fd_, regVars,
                 running_, shutdown, spinVars>>

(* ... then teardown_timer_driver, unless there is no descriptor: every    *)
(* channel is stopped and the device closed.                               *)
Teardown ==
  /\ dtor = "stop" /\ todo = {}
  /\ dtor' = IF dev_fd_ THEN "teardown" ELSE "done"
  /\ todo' = IF dev_fd_ THEN Timers ELSE {}
  /\ UNCHANGED <<serviceVars, spinning, spin_task_id_, dev_fd_, regVars,
                 taskVars, shutdown, spinVars>>

StopChannel(c) ==
  /\ dtor = "teardown" /\ Visits(c)
  /\ Arm(c, NONE)
  /\ todo' = todo \ {c}
  /\ UNCHANGED <<spinning, spin_task_id_, dev_fd_, regVars, taskVars, shutdown,
                 spinVars, dtor>>

CloseDriver ==
  /\ dtor = "teardown" /\ todo = {}
  /\ CloseDevice
  /\ dev_fd_' = FALSE
  /\ dtor' = "done"
  /\ UNCHANGED <<spinning, spin_task_id_, regVars, taskVars, shutdown, spinVars,
                 todo>>

-----------------------------------------------------------------------------
SpinStep(m) ==
  StartNext(m) \/ OpenDriver(m) \/ ArmNext(m) \/ NoteTask(m) \/ WakeUp(m) \/ Leave(m)

DtorStep ==
  \/ \E r \in Regs : StopSignal(r) \/ StopSkip(r) \/ StopDelete(r)
  \/ \E c \in Channels : StopChannel(c)
  \/ Teardown
  \/ CloseDriver

Next ==
  \/ \E p \in Periods : register_rt_timer(p)
  \/ \E s \in Subs : register_rt_subscription(s) \/ Publish(s)
  \/ \E m \in Spinners : Spin(m) \/ SpinStep(m)
  \/ \E t \in Tasks : TakeEvent(t) \/ Return(t) \/ CancelStore(t) \/ CancelSend(t)
  \/ \E S \in SUBSET Channels \ {{}} : Expire(S)
  \/ Destroy
  \/ DtorStep

Spec == Init /\ [][Next]_vars

(* A ready task runs: the spinner, the callback tasks (their callbacks     *)
(* return) and a cancel() under way.  Nothing obliges a timer to be        *)
(* started, a message to come or a callback to call cancel().              *)
LiveSpec ==
  /\ Spec
  /\ \A m \in Spinners : WF_vars(SpinStep(m))
  /\ \A t \in Tasks : WF_vars(TakeEvent(t)) /\ WF_vars(Return(t))
                      /\ WF_vars(CancelSend(t))

-----------------------------------------------------------------------------
(* Correctness.                                                            *)

(* Every variable has its type. *)
TypeOK ==
  /\ ServiceTypeOK
  /\ spinning \in BOOLEAN /\ dev_fd_ \in BOOLEAN
  /\ spin_task_id_ \in Spinners \cup {NONE}
  /\ next_channel_ \in 0..Cardinality(Channels)
  /\ period_ticks \in [Channels -> Periods \cup {0}]
  /\ running_ \in [Regs -> BOOLEAN] /\ task_id_ \in [Regs -> Tasks \cup {NONE}]
  /\ owner \in [Tasks -> Regs \cup {NONE}]
  /\ loop \in [Tasks -> {"wait", "callback", "cancel", "cancelled"}]
  /\ shutdown \in [Spinners -> BOOLEAN]
  /\ pc \in [Spinners -> {"idle", "start", "open", "arm", "note", "blocked", "leave"}]
  /\ k \in [Spinners -> Nat] /\ spins \in 0..MaxSpins
  /\ dtor \in {"no", "stop", "delete", "teardown", "done"} /\ todo \subseteq Regs

(* A live task is the one task of its registration: none is started twice  *)
(* by start_all_tasks and setup_timer_driver, and none is left behind by   *)
(* stop(), whichever of the two deletes it first.                          *)
TasksMatch == \A t \in Tasks : owner[t] # NONE => task_id_[owner[t]] = t

(* While the executor lives, an armed channel notifies the live task of    *)
(* its own timer (setup_timer_driver).                                     *)
TargetsLive ==
  dtor = "no" =>
    \A c \in Channels : armed[c] # NONE => owner[armed[c]] = c /\ running_[c]

(* Once spin() blocks, every timer of at least one tick whose task could   *)
(* be started is armed (rt_executor.hpp: starts all CallbackTasks and the  *)
(* timer driver), whatever its callbacks have done since.                  *)
ArmedWhenBlocked ==
  \A m \in Spinners : pc[m] \in {"note", "blocked"} =>
    \A c \in Timers : period_ticks[c] > 0 /\ running_[c] => armed[c] # NONE

(* A destroyed executor leaves nothing behind: the device is closed, no    *)
(* channel is armed, and no task lives, whatever its callback was doing    *)
(* (rt_executor.hpp: stop all timer channels and close the driver).        *)
DestroyedIsQuiet ==
  dtor = "done" =>
    /\ ~opened
    /\ \A c \in Channels : armed[c] = NONE
    /\ \A t \in Tasks : owner[t] = NONE

(* A cancel() that starts while spin() blocks ends it.                     *)
CancelWakesSpin ==
  \A m \in Spinners :
    pc[m] = "blocked" /\ (\E t \in Tasks : loop[t] = "cancel") ~> pc[m] # "blocked"

(* A cancel() made at any time during spin() ends it (rt_executor.hpp:     *)
(* block until cancel()).                                                  *)
CancelEndsSpin ==
  \A m \in Spinners :
    pc[m] # "idle" /\ (\E t \in Tasks : loop[t] = "cancel") ~> pc[m] = "idle"

(* An event sent to a task of a living executor starts the callback, even  *)
(* if the callback was running when it was sent (run_loop).                *)
EventStartsCallback ==
  \A t \in Tasks :
    events[t] /\ dtor = "no" ~> loop[t] = "callback" \/ dtor # "no"

=============================================================================

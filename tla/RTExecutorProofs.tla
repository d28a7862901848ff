-------------------------- MODULE RTExecutorProofs --------------------------
(***************************************************************************)
(* Theorems about the executor of callback tasks, for every set of timer   *)
(* channels, subscriptions, RTEMS tasks, spinners and periods.             *)
(***************************************************************************)
EXTENDS RTExecutor, FiniteSetTheorems, TLAPS

LEMMA ChannelFacts ==
  /\ Cardinality(Channels) \in Nat /\ Channels \subseteq Nat
  /\ Channels = 0..(Cardinality(Channels) - 1)
  /\ NONE \notin Tasks /\ NONE \notin Regs /\ NONE \notin Spinners
  /\ MaxSpins \in Nat /\ Channels \cap Subs = {}
<1>1. Cardinality(Channels) \in Nat
  BY RTExecutorAssumption, FS_CardinalityType
<1>2. QED
  BY <1>1, RTExecutorAssumption, TimerServiceAssumption DEF Regs

LEMMA TimerFacts ==
  ASSUME next_channel_ \in 0..Cardinality(Channels)
  PROVE  Timers \subseteq Channels /\ Timers \subseteq Regs
BY ChannelFacts DEF Timers, Regs

-----------------------------------------------------------------------------
(* Types.                                                                  *)

TaskTypes ==
  /\ running_ \in [Regs -> BOOLEAN] /\ task_id_ \in [Regs -> Tasks \cup {NONE}]
  /\ owner \in [Tasks -> Regs \cup {NONE}]
  /\ loop \in [Tasks -> {"wait", "callback", "cancel", "cancelled"}]

LEMMA StartTypes ==
  ASSUME TaskTypes, NEW r \in Regs, StartTask(r)
  PROVE  TaskTypes'
BY DEF TaskTypes, StartTask, taskVars

LEMMA ArmTypes ==
  ASSUME TypeOK, NEW c \in Channels, ArmChannel(c)
  PROVE  TaskTypes' /\ ServiceTypeOK'
<1>1. c \in Regs /\ TaskTypes
  BY DEF Regs, TypeOK, TaskTypes
<1>2. TaskTypes'
  BY <1>1, StartTypes DEF ArmChannel
<1>3. task_id_'[c] \in Tasks \cup {NONE}
  BY <1>1, <1>2 DEF TaskTypes
<1>4. Arm(c, task_id_'[c]) => ServiceTypeOK'
  BY <1>3 DEF Arm, TypeOK, ServiceTypeOK
<1>5. UNCHANGED serviceVars => ServiceTypeOK'
  BY DEF serviceVars, TypeOK, ServiceTypeOK
<1>6. Arm(c, task_id_'[c]) \/ UNCHANGED serviceVars
  BY DEF ArmChannel
<1>7. QED
  BY <1>2, <1>4, <1>5, <1>6

(* A step of a callback task. *)
TaskStep(t) == TakeEvent(t) \/ Return(t) \/ CancelStore(t) \/ CancelSend(t)

(* An event arrives. *)
Arrival ==
  \/ \E s \in Subs : Publish(s)
  \/ \E S \in SUBSET Channels \ {{}} : Expire(S)

(* A registration, or a call of spin() or of the destructor. *)
Call ==
  \/ \E p \in Periods : register_rt_timer(p)
  \/ \E s \in Subs : register_rt_subscription(s)
  \/ \E m \in Spinners : Spin(m)
  \/ Destroy

LEMMA Steps ==
  Next <=> \/ Call
           \/ Arrival
           \/ \E t \in Tasks : TaskStep(t)
           \/ \E m \in Spinners : SpinStep(m)
           \/ DtorStep
BY DEF Next, Call, Arrival, TaskStep

LEMMA CallTypes == TypeOK /\ Call => TypeOK'
<1> SUFFICES ASSUME TypeOK, Call PROVE TypeOK'
  OBVIOUS
<1> USE ChannelFacts DEF TypeOK, ServiceTypeOK, serviceVars, taskVars, regVars, spinVars, dtorVars
<1>1. CASE \E p \in Periods : register_rt_timer(p)
  BY <1>1 DEF register_rt_timer
<1>2. ASSUME NEW s \in Subs, register_rt_subscription(s) PROVE TypeOK'
  <2>1. TaskTypes'
    BY <1>2, StartTypes DEF register_rt_subscription, TaskTypes, Regs
  <2>2. QED
    BY <1>2, <2>1 DEF register_rt_subscription, TaskTypes
<1>3. CASE \E m \in Spinners : Spin(m)
  BY <1>3 DEF Spin
<1>4. CASE Destroy
  BY <1>4, TimerFacts DEF Destroy, Regs
<1>5. QED
  BY <1>1, <1>2, <1>3, <1>4 DEF Call

LEMMA ArrivalTypes == TypeOK /\ Arrival => TypeOK'
BY DEF Arrival, Publish, Expire, Send, TypeOK, ServiceTypeOK, taskVars, regVars, spinVars, dtorVars

LEMMA TaskStepTypes ==
  ASSUME TypeOK, NEW t \in Tasks, TaskStep(t)
  PROVE  TypeOK'
<1> USE DEF TypeOK, ServiceTypeOK, serviceVars, regVars, spinVars, dtorVars
<1>1. CASE TakeEvent(t)
  BY <1>1 DEF TakeEvent, Receive, Delete
<1>2. CASE Return(t)
  BY <1>2 DEF Return, Delete
<1>3. CASE CancelStore(t)
  BY <1>3 DEF CancelStore
<1>4. CASE CancelSend(t)
  BY <1>4 DEF CancelSend
<1>5. QED
  BY <1>1, <1>2, <1>3, <1>4 DEF TaskStep

LEMMA SpinStepTypes ==
  ASSUME TypeOK, NEW m \in Spinners, SpinStep(m)
  PROVE  TypeOK'
<1> Timers \subseteq Channels /\ Timers \subseteq Regs
  BY TimerFacts DEF TypeOK
<1> USE DEF TypeOK, ServiceTypeOK, serviceVars, taskVars, regVars, spinVars, dtorVars
<1>1. CASE StartNext(m)
  <2>1. (StartTask(k[m]) /\ k[m] \in Timers) \/ UNCHANGED taskVars
    BY <1>1 DEF StartNext
  <2>2. TaskTypes'
    BY <2>1, StartTypes DEF TaskTypes
  <2>3. pc' \in [Spinners -> {"idle", "start", "open", "arm", "note", "blocked", "leave"}]
    BY <1>1 DEF StartNext
  <2>4. k' \in [Spinners -> Nat]
    BY <1>1 DEF StartNext
  <2>5. QED
    BY <1>1, <2>2, <2>3, <2>4 DEF StartNext, TaskTypes
<1>2. CASE OpenDriver(m)
  <2>1. ServiceTypeOK' /\ dev_fd_' \in BOOLEAN
    BY <1>2 DEF OpenDriver, OpenDevice
  <2>2. pc' \in [Spinners -> {"idle", "start", "open", "arm", "note", "blocked", "leave"}]
    BY <1>2 DEF OpenDriver
  <2>3. k' \in [Spinners -> Nat]
    BY <1>2 DEF OpenDriver
  <2>4. QED
    BY <1>2, <2>1, <2>2, <2>3 DEF OpenDriver
<1>3. CASE ArmNext(m)
  <2>1. (ArmChannel(k[m]) /\ k[m] \in Timers) \/ UNCHANGED <<serviceVars, taskVars>>
    BY <1>3 DEF ArmNext
  <2>2. TaskTypes' /\ ServiceTypeOK'
    BY <2>1, ArmTypes DEF TaskTypes
  <2>3. pc' \in [Spinners -> {"idle", "start", "open", "arm", "note", "blocked", "leave"}]
    BY <1>3 DEF ArmNext
  <2>4. k' \in [Spinners -> Nat]
    BY <1>3 DEF ArmNext
  <2>5. QED
    BY <1>3, <2>2, <2>3, <2>4 DEF ArmNext, TaskTypes
<1>4. CASE NoteTask(m)
  BY <1>4 DEF NoteTask
<1>5. CASE WakeUp(m)
  BY <1>5 DEF WakeUp
<1>6. CASE Leave(m)
  BY <1>6 DEF Leave
<1>7. QED
  BY <1>1, <1>2, <1>3, <1>4, <1>5, <1>6 DEF SpinStep

LEMMA DtorStepTypes == TypeOK /\ DtorStep => TypeOK'
<1> SUFFICES ASSUME TypeOK, DtorStep PROVE TypeOK'
  OBVIOUS
<1> USE DEF TypeOK, ServiceTypeOK, serviceVars, taskVars, regVars, spinVars, dtorVars
<1>1. CASE \E r \in Regs : StopSignal(r)
  BY <1>1 DEF StopSignal, Send
<1>2. CASE \E r \in Regs : StopSkip(r)
  BY <1>2 DEF StopSkip
<1>3. CASE \E r \in Regs : StopDelete(r)
  BY <1>3 DEF StopDelete, Delete
<1>4. CASE \E c \in Channels : StopChannel(c)
  BY <1>4 DEF StopChannel, Arm
<1>5. CASE Teardown
  BY <1>5, TimerFacts DEF Teardown
<1>6. CASE CloseDriver
  BY <1>6 DEF CloseDriver, CloseDevice
<1>7. QED
  BY <1>1, <1>2, <1>3, <1>4, <1>5, <1>6 DEF DtorStep

LEMMA TypeStep == TypeOK /\ [Next]_vars => TypeOK'
<1>1. TypeOK /\ UNCHANGED vars => TypeOK'
  BY DEF TypeOK, ServiceTypeOK, vars, serviceVars, taskVars, regVars, spinVars, dtorVars
<1>2. QED
  BY <1>1, Steps, CallTypes, ArrivalTypes, TaskStepTypes, SpinStepTypes, DtorStepTypes

LEMMA TypeInit == Init => TypeOK
<1> SUFFICES ASSUME Init PROVE TypeOK
  OBVIOUS
<1>1. ServiceTypeOK
  BY DEF Init, ServiceInit, ServiceTypeOK
<1>2. spins \in 0..MaxSpins /\ next_channel_ \in 0..Cardinality(Channels)
  BY ChannelFacts DEF Init
<1>3. QED
  BY <1>1, <1>2 DEF Init, TypeOK

(* The executor's variables, and the device's, keep their types. *)
THEOREM TypeCorrect == Spec => []TypeOK
BY TypeInit, TypeStep, PTL DEF Spec

-----------------------------------------------------------------------------
(* The tasks of the registrations.                                         *)

(* What a registration knows of its task while the executor lives, and     *)
(* between the two halves of stop(), when the task may be gone already.    *)
Kept(r) ==
  IF running_[r] THEN task_id_[r] \in Tasks /\ owner[task_id_[r]] = r
                 ELSE task_id_[r] = NONE

Stopped(r) ==
  /\ ~running_[r] /\ task_id_[r] \in Tasks
  /\ owner[task_id_[r]] \in {r, NONE}

SpinningLives == \A m \in Spinners : pc[m] # "idle" => dtor = "no"

KeptInv ==
  /\ dtor \in {"no", "stop"} => \A r \in Regs : Kept(r)
  /\ dtor = "delete" => \E r \in Regs : Stopped(r) /\ \A q \in Regs \ {r} : Kept(q)

(* The destructor has yet to visit the registrations that have a task. *)
ToVisit ==
  CASE dtor = "no" -> Timers \cup Subs
    [] dtor \in {"stop", "delete"} -> todo
    [] OTHER -> {}

VisitInv == \A t \in Tasks : owner[t] \in ToVisit \cup {NONE}

(* While the executor lives, an armed channel notifies the task its timer  *)
(* knows of.                                                               *)
ArmedInv ==
  dtor = "no" =>
    \A c \in Channels : armed[c] # NONE => armed[c] = task_id_[c] /\ running_[c]

TaskInv == SpinningLives /\ TasksMatch /\ KeptInv /\ VisitInv /\ ArmedInv

(* Most steps concern no task. *)
LEMMA TasksAlone ==
  ASSUME TaskInv, SpinningLives',
         UNCHANGED <<running_, task_id_, owner, armed, dtor, todo, next_channel_>>
  PROVE  TaskInv'
<1> USE DEF TaskInv
<1>1. TasksMatch'
  BY DEF TasksMatch
<1>2. KeptInv'
  BY DEF KeptInv, Kept, Stopped
<1>3. VisitInv'
  BY DEF VisitInv, ToVisit, Timers
<1>4. ArmedInv'
  BY DEF ArmedInv
<1>5. QED
  BY <1>1, <1>2, <1>3, <1>4

(* A start gives a registration that has none a task nobody owns. *)
LEMMA StartKeeps ==
  ASSUME TypeOK, TaskInv, dtor = "no", NEW r \in Timers \cup Subs, StartTask(r)
  PROVE  /\ TasksMatch'
         /\ \A q \in Regs : Kept(q)'
         /\ \A t \in Tasks : owner'[t] \in Timers \cup Subs \cup {NONE}
         /\ \A q \in Regs : running_[q] => running_'[q] /\ task_id_'[q] = task_id_[q]
<1>1. r \in Regs
  BY TimerFacts DEF TypeOK, Regs
<1>2. /\ TasksMatch /\ \A q \in Regs : Kept(q)
      /\ \A t \in Tasks : owner[t] \in Timers \cup Subs \cup {NONE}
  BY DEF TaskInv, KeptInv, VisitInv, ToVisit
<1>3. CASE UNCHANGED taskVars
  BY <1>2, <1>3 DEF TasksMatch, Kept, taskVars
<1>4. ASSUME ~running_[r], NEW t \in Tasks, owner[t] = NONE,
             owner' = [owner EXCEPT ![t] = r],
             task_id_' = [task_id_ EXCEPT ![r] = t],
             running_' = [running_ EXCEPT ![r] = TRUE]
      PROVE  /\ TasksMatch'
             /\ \A q \in Regs : Kept(q)'
             /\ \A u \in Tasks : owner'[u] \in Timers \cup Subs \cup {NONE}
             /\ \A q \in Regs : running_[q] => running_'[q] /\ task_id_'[q] = task_id_[q]
  <2> USE ChannelFacts, <1>1, <1>2, <1>4 DEF TypeOK
  <2>1. task_id_[r] = NONE
    BY DEF Kept
  <2>2. TasksMatch'
    BY <2>1 DEF TasksMatch
  <2>3. \A q \in Regs : Kept(q)'
    BY <2>1 DEF Kept
  <2>4. QED
    BY <2>2, <2>3
<1>5. QED
  BY <1>3, <1>4 DEF StartTask

(* A step leaves a channel as it was, or arms it for its timer's task. *)
ArmedRight ==
  \A c \in Channels : armed'[c] = armed[c] \/ (armed'[c] = task_id_'[c] /\ running_'[c])

LEMMA StartInv ==
  ASSUME TypeOK, TaskInv, dtor = "no", NEW r \in Timers \cup Subs, StartTask(r),
         dtor' = dtor, next_channel_' = next_channel_, SpinningLives', ArmedRight
  PROVE  TaskInv'
<1>1. /\ TasksMatch'
      /\ \A q \in Regs : Kept(q)'
      /\ \A t \in Tasks : owner'[t] \in Timers \cup Subs \cup {NONE}
      /\ \A q \in Regs : running_[q] => running_'[q] /\ task_id_'[q] = task_id_[q]
  BY StartKeeps
<1>2. KeptInv'
  BY <1>1 DEF KeptInv
<1>3. VisitInv'
  BY <1>1 DEF VisitInv, ToVisit, Timers
<1>4. ArmedInv'
  BY <1>1 DEF ArmedInv, ArmedRight, TaskInv, Regs
<1>5. QED
  BY <1>1, <1>2, <1>3, <1>4 DEF TaskInv

(* A task that finds running_ cleared is the one stop() is deleting. *)
LEMMA DeleteInv ==
  ASSUME TypeOK, TaskInv, NEW t \in Tasks, owner[t] # NONE, ~running_[owner[t]],
         Delete(t), UNCHANGED <<running_, task_id_, armed, dtor, todo, next_channel_, pc>>
  PROVE  TaskInv'
<1> USE ChannelFacts DEF TaskInv, TypeOK
<1>1. task_id_[owner[t]] = t /\ owner[t] \in Regs /\ ~Kept(owner[t])
  BY DEF TasksMatch, Kept
<1>2. SpinningLives' /\ TasksMatch' /\ VisitInv' /\ ArmedInv'
  BY DEF SpinningLives, TasksMatch, VisitInv, ToVisit, ArmedInv, Delete, Timers
<1>3. dtor \notin {"no", "stop"}
  BY <1>1 DEF KeptInv
<1>4. ASSUME NEW r \in Regs, Stopped(r), \A q \in Regs \ {r} : Kept(q)
      PROVE  Stopped(r)' /\ \A q \in Regs \ {r} : Kept(q)'
  <2>1. owner[t] = r
    BY <1>1, <1>4
  <2>2. Stopped(r)'
    BY <1>4, <2>1 DEF Stopped, Delete
  <2>3. \A q \in Regs \ {r} : Kept(q)'
    BY <1>4, <2>1 DEF Kept, Delete
  <2>4. QED
    BY <2>2, <2>3
<1>5. KeptInv'
  BY <1>3, <1>4 DEF KeptInv
<1>6. QED
  BY <1>2, <1>5

LEMMA CallInv == TypeOK /\ TaskInv /\ Call => TaskInv'
<1> SUFFICES ASSUME TypeOK, TaskInv, Call PROVE TaskInv'
  OBVIOUS
<1> USE DEF serviceVars, taskVars, regVars, spinVars, dtorVars
<1>1. ASSUME NEW p \in Periods, register_rt_timer(p) PROVE TaskInv'
  <2>1. Timers \subseteq Timers'
    BY <1>1, ChannelFacts DEF register_rt_timer, Timers, TypeOK
  <2>2. SpinningLives' /\ TasksMatch' /\ KeptInv' /\ ArmedInv'
    BY <1>1 DEF register_rt_timer, TaskInv, SpinningLives, TasksMatch, KeptInv, Kept,
                Stopped, ArmedInv
  <2>3. VisitInv'
    BY <1>1, <2>1 DEF register_rt_timer, TaskInv, VisitInv, ToVisit, Idle
  <2>4. QED
    BY <2>2, <2>3 DEF TaskInv
<1>2. ASSUME NEW s \in Subs, register_rt_subscription(s) PROVE TaskInv'
  <2>1. /\ dtor = "no" /\ StartTask(s) /\ s \in Timers \cup Subs
        /\ armed' = armed /\ dtor' = dtor /\ next_channel_' = next_channel_ /\ pc' = pc
    BY <1>2 DEF register_rt_subscription, Idle
  <2>2. SpinningLives'
    BY <2>1 DEF TaskInv, SpinningLives
  <2>3. ArmedRight
    BY <2>1 DEF ArmedRight
  <2>4. QED
    BY <2>1, <2>2, <2>3, StartInv
<1>3. ASSUME NEW m \in Spinners, Spin(m) PROVE TaskInv'
  BY <1>3, TasksAlone DEF Spin, SpinningLives
<1>4. ASSUME Destroy PROVE TaskInv'
  BY <1>4 DEF Destroy, Idle, TaskInv, SpinningLives, TasksMatch, KeptInv, Kept, VisitInv,
              ToVisit, ArmedInv
<1>5. QED
  BY <1>1, <1>2, <1>3, <1>4 DEF Call

LEMMA ArrivalInv == TypeOK /\ TaskInv /\ Arrival => TaskInv'
<1>1. TaskInv /\ Arrival => SpinningLives'
  BY DEF Arrival, Publish, Expire, TaskInv, SpinningLives, taskVars, spinVars, dtorVars
<1>2. QED
  BY <1>1, TasksAlone DEF Arrival, Publish, Expire, taskVars, regVars, spinVars, dtorVars

LEMMA TaskStepInv ==
  ASSUME TypeOK, TaskInv, NEW t \in Tasks, TaskStep(t)
  PROVE  TaskInv'
<1> USE DEF serviceVars, regVars, spinVars, dtorVars
<1>1. SpinningLives'
  BY DEF TaskStep, TakeEvent, Return, CancelStore, CancelSend, TaskInv, SpinningLives
<1>2. CASE TakeEvent(t)
  BY <1>1, <1>2, TasksAlone, DeleteInv DEF TakeEvent, Receive
<1>3. CASE Return(t)
  BY <1>1, <1>3, TasksAlone, DeleteInv DEF Return
<1>4. CASE CancelStore(t)
  BY <1>1, <1>4, TasksAlone DEF CancelStore
<1>5. CASE CancelSend(t)
  BY <1>1, <1>5, TasksAlone DEF CancelSend
<1>6. QED
  BY <1>2, <1>3, <1>4, <1>5 DEF TaskStep

LEMMA SpinStepInv ==
  ASSUME TypeOK, TaskInv, NEW m \in Spinners, SpinStep(m)
  PROVE  TaskInv'
<1> USE DEF serviceVars, taskVars, regVars, spinVars, dtorVars
<1>1. pc[m] # "idle" /\ dtor = "no" /\ dtor' = dtor /\ next_channel_' = next_channel_
  BY DEF SpinStep, StartNext, OpenDriver, ArmNext, NoteTask, WakeUp, Leave, TaskInv, SpinningLives
<1>2. SpinningLives'
  BY <1>1 DEF SpinningLives
<1>3. CASE StartNext(m)
  <2>1. armed' = armed /\ todo' = todo /\ ArmedRight
    BY <1>3 DEF StartNext, ArmedRight
  <2>2. CASE UNCHANGED taskVars
    BY <1>1, <1>2, <2>1, <2>2, TasksAlone
  <2>3. CASE k[m] \in Timers /\ StartTask(k[m])
    BY <1>1, <1>2, <2>1, <2>3, StartInv
  <2>4. QED
    BY <1>3, <2>2, <2>3 DEF StartNext
<1>4. CASE OpenDriver(m)
  BY <1>2, <1>4, TasksAlone DEF OpenDriver, OpenDevice
<1>5. CASE ArmNext(m)
  <2>1. CASE UNCHANGED <<serviceVars, taskVars>>
    BY <1>2, <1>5, <2>1, TasksAlone DEF ArmNext
  <2>2. CASE k[m] \in Timers /\ ArmChannel(k[m])
    <3>1. ArmedRight
      BY <2>2 DEF ArmedRight, ArmChannel, Arm, TypeOK, ServiceTypeOK
    <3>2. StartTask(k[m])
      BY <2>2 DEF ArmChannel
    <3>3. k[m] \in Timers \cup Subs /\ dtor' = dtor /\ next_channel_' = next_channel_
      BY <1>1, <2>2
    <3>4. QED
      BY <1>1, <1>2, <3>1, <3>2, <3>3, StartInv
  <2>3. QED
    BY <1>5, <2>1, <2>2 DEF ArmNext
<1>6. CASE NoteTask(m)
  BY <1>2, <1>6, TasksAlone DEF NoteTask
<1>7. CASE WakeUp(m)
  BY <1>2, <1>7, TasksAlone DEF WakeUp
<1>8. CASE Leave(m)
  BY <1>2, <1>8, TasksAlone DEF Leave
<1>9. QED
  BY <1>3, <1>4, <1>5, <1>6, <1>7, <1>8 DEF SpinStep

LEMMA DtorStepInv == TypeOK /\ TaskInv /\ DtorStep => TaskInv'
<1> SUFFICES ASSUME TypeOK, TaskInv, DtorStep PROVE TaskInv'
  OBVIOUS
<1> USE DEF serviceVars, taskVars, regVars, spinVars, dtorVars
<1>1. SpinningLives' /\ ArmedInv'
  BY DEF DtorStep, StopSignal, StopSkip, StopDelete, StopChannel, Teardown, CloseDriver,
         TaskInv, SpinningLives, ArmedInv
<1>2. ASSUME NEW r \in Regs, StopSignal(r) PROVE TaskInv'
  <2>1. Stopped(r)' /\ \A q \in Regs \ {r} : Kept(q)'
    BY <1>2 DEF StopSignal, TaskInv, KeptInv, Kept, Stopped, TypeOK
  <2>2. KeptInv'
    BY <1>2, <2>1 DEF StopSignal, KeptInv
  <2>3. TasksMatch' /\ VisitInv'
    BY <1>2 DEF StopSignal, TaskInv, TasksMatch, VisitInv, ToVisit
  <2>4. QED
    BY <1>1, <2>2, <2>3 DEF TaskInv
<1>3. ASSUME NEW r \in Regs, StopSkip(r) PROVE TaskInv'
  <2>1. Kept(r) /\ task_id_[r] = NONE
    BY <1>3 DEF StopSkip, TaskInv, KeptInv, Kept
  <2>2. \A t \in Tasks : owner[t] # r
    BY <2>1, ChannelFacts DEF TaskInv, TasksMatch
  <2>3. KeptInv' /\ TasksMatch'
    BY <1>3 DEF StopSkip, TaskInv, KeptInv, Kept, TasksMatch
  <2>4. VisitInv'
    BY <1>3, <2>2 DEF StopSkip, TaskInv, VisitInv, ToVisit
  <2>5. QED
    BY <1>1, <2>3, <2>4 DEF TaskInv
<1>4. ASSUME NEW r \in Regs, StopDelete(r) PROVE TaskInv'
  <2>1. ~Kept(r)
    BY <1>4 DEF StopDelete, Kept
  <2>2. Stopped(r) /\ \A q \in Regs \ {r} : Kept(q)
    BY <1>4, <2>1 DEF StopDelete, TaskInv, KeptInv
  <2>3. \A t \in Tasks : owner'[t] = IF t = task_id_[r] THEN NONE ELSE owner[t]
    <3>1. CASE owner[task_id_[r]] = NONE
      BY <1>4, <3>1 DEF StopDelete
    <3>2. CASE owner[task_id_[r]] # NONE
      BY <1>4, <3>2 DEF StopDelete, Delete, TypeOK
    <3>3. QED
      BY <3>1, <3>2
  <2>4. \A t \in Tasks : owner'[t] \in {owner[t], NONE} /\ owner'[t] # r
    BY <2>2, <2>3, ChannelFacts DEF Stopped, TypeOK, TaskInv, TasksMatch
  <2>5. TasksMatch'
    BY <1>4, <2>4 DEF StopDelete, TypeOK, TaskInv, TasksMatch
  <2>6. \A q \in Regs : Kept(q)'
    BY <1>4, <2>2, <2>3 DEF StopDelete, Stopped, Kept, TypeOK
  <2>7. VisitInv'
    BY <1>4, <2>4 DEF StopDelete, TaskInv, VisitInv, ToVisit
  <2>8. QED
    BY <1>1, <1>4, <2>5, <2>6, <2>7 DEF TaskInv, KeptInv, StopDelete
<1>5. ASSUME NEW c \in Channels, StopChannel(c) PROVE TaskInv'
  BY <1>1, <1>5 DEF StopChannel, TaskInv, KeptInv, TasksMatch, VisitInv, ToVisit
<1>6. ASSUME Teardown PROVE TaskInv'
  BY <1>1, <1>6 DEF Teardown, TaskInv, KeptInv, TasksMatch, VisitInv, ToVisit
<1>7. ASSUME CloseDriver PROVE TaskInv'
  BY <1>1, <1>7 DEF CloseDriver, TaskInv, KeptInv, TasksMatch, VisitInv, ToVisit
<1>8. QED
  BY <1>2, <1>3, <1>4, <1>5, <1>6, <1>7 DEF DtorStep

LEMMA TaskInvInit == Init => TaskInv
BY DEF Init, ServiceInit, TaskInv, SpinningLives, TasksMatch, KeptInv, Kept, VisitInv, ArmedInv, Regs

LEMMA TaskInvStep == TypeOK /\ TaskInv /\ [Next]_vars => TaskInv'
<1>1. TaskInv /\ UNCHANGED vars => TaskInv'
  BY TasksAlone DEF vars, serviceVars, taskVars, regVars, spinVars, dtorVars, TaskInv, SpinningLives
<1>2. QED
  BY <1>1, Steps, CallInv, ArrivalInv, TaskStepInv, SpinStepInv, DtorStepInv

LEMMA TaskInvHolds == Spec => [](TypeOK /\ TaskInv)
BY TypeInit, TypeStep, TaskInvInit, TaskInvStep, PTL DEF Spec

(* No registration ever has two tasks, and none is left behind, whichever  *)
(* of stop() and the task itself deletes it (CallbackTask::start, stop).   *)
THEOREM OneTaskEach == Spec => []TasksMatch
<1>1. TaskInv => TasksMatch
  BY DEF TaskInv
<1>2. QED
  BY <1>1, TaskInvHolds, PTL

(* While the executor lives the device notifies live tasks only, each the  *)
(* task of the channel's own timer (setup_timer_driver).                   *)
THEOREM ChannelsReachTheirTasks == Spec => []TargetsLive
<1>1. TypeOK /\ TaskInv => TargetsLive
  BY DEF TaskInv, TargetsLive, ArmedInv, KeptInv, Kept, Regs
<1>2. QED
  BY <1>1, TaskInvHolds, PTL

-----------------------------------------------------------------------------
(* One spin(): the device.                                                 *)

(* The device is open exactly while the executor has its descriptor, and   *)
(* the one spin() opens it.                                                *)
DeviceInv ==
  /\ opened = dev_fd_
  /\ ~opened => \A c \in Channels : armed[c] = NONE
  /\ spins = 0 => ~opened /\ \A m \in Spinners : pc[m] = "idle"
  /\ \A m \in Spinners : pc[m] \in {"start", "open"} => ~opened
  /\ dtor = "done" => ~opened

OneSpinner == \A m, n \in Spinners : pc[m] # "idle" /\ pc[n] # "idle" => m = n

(* setup_timer_driver has armed the channels it has visited. *)
ArmedSoFar ==
  \A m \in Spinners : pc[m] = "arm" =>
    /\ opened
    /\ \A c \in Timers : c < k[m] /\ period_ticks[c] > 0 /\ running_[c] => armed[c] # NONE

SpinInv == DeviceInv /\ OneSpinner /\ ArmedSoFar /\ ArmedWhenBlocked

(* Most steps leave the device and spin() alone, ...                       *)
LEMMA SpinAlone ==
  ASSUME SpinInv, dtor' = "done" => ~opened,
         UNCHANGED <<opened, dev_fd_, armed, spins, pc, k, next_channel_, period_ticks, running_>>
  PROVE  SpinInv'
<1>1. DeviceInv'
  BY DEF SpinInv, DeviceInv
<1>2. OneSpinner'
  BY DEF SpinInv, OneSpinner
<1>3. ArmedSoFar' /\ ArmedWhenBlocked'
  BY DEF SpinInv, ArmedSoFar, ArmedWhenBlocked, Timers
<1>4. QED
  BY <1>1, <1>2, <1>3 DEF SpinInv

(* ... or happen when no task is in spin().                                *)
LEMMA NobodySpins ==
  ASSUME DeviceInv', \A m \in Spinners : pc'[m] = "idle"
  PROVE  SpinInv'
BY DEF SpinInv, OneSpinner, ArmedSoFar, ArmedWhenBlocked

LEMMA CallSpin ==
  ASSUME MaxSpins <= 1, TypeOK, SpinInv, Call
  PROVE  SpinInv'
<1> USE DEF serviceVars, taskVars, regVars, spinVars, dtorVars, Idle
<1>1. ASSUME NEW p \in Periods, register_rt_timer(p) PROVE SpinInv'
  BY <1>1, NobodySpins DEF register_rt_timer, SpinInv, DeviceInv
<1>2. ASSUME NEW s \in Subs, register_rt_subscription(s) PROVE SpinInv'
  BY <1>2, NobodySpins DEF register_rt_subscription, SpinInv, DeviceInv
<1>3. ASSUME NEW m \in Spinners, Spin(m) PROVE SpinInv'
  <2>1. spins = 0 /\ spins' = 1
    BY <1>3, ChannelFacts DEF Spin, TypeOK
  <2>2. ~opened /\ \A n \in Spinners : pc[n] = "idle"
    BY <2>1 DEF SpinInv, DeviceInv
  <2>3. \A n \in Spinners : pc'[n] = IF n = m THEN "start" ELSE "idle"
    BY <1>3, <2>2 DEF Spin, TypeOK
  <2>4. DeviceInv'
    BY <1>3, <2>1, <2>2 DEF Spin, SpinInv, DeviceInv
  <2>5. OneSpinner' /\ ArmedSoFar' /\ ArmedWhenBlocked'
    BY <2>3 DEF OneSpinner, ArmedSoFar, ArmedWhenBlocked
  <2>6. QED
    BY <2>4, <2>5 DEF SpinInv
<1>4. ASSUME Destroy PROVE SpinInv'
  BY <1>4, NobodySpins DEF Destroy, SpinInv, DeviceInv
<1>5. QED
  BY <1>1, <1>2, <1>3, <1>4 DEF Call

LEMMA ArrivalSpin == SpinInv /\ Arrival => SpinInv'
<1>1. SpinInv => (dtor = "done" => ~opened)
  BY DEF SpinInv, DeviceInv
<1>2. QED
  BY <1>1, SpinAlone DEF Arrival, Publish, Expire, taskVars, regVars, spinVars, dtorVars

LEMMA TaskStepSpin ==
  ASSUME SpinInv, NEW t \in Tasks, TaskStep(t)
  PROVE  SpinInv'
<1> USE DEF serviceVars, regVars, spinVars, dtorVars
<1>1. dtor = "done" => ~opened
  BY DEF SpinInv, DeviceInv
<1>2. CASE TakeEvent(t)
  BY <1>1, <1>2, SpinAlone DEF TakeEvent, Receive
<1>3. CASE Return(t)
  BY <1>1, <1>3, SpinAlone DEF Return
<1>4. CASE CancelStore(t)
  BY <1>1, <1>4, SpinAlone DEF CancelStore
<1>5. CASE CancelSend(t)
  BY <1>1, <1>5, SpinAlone DEF CancelSend
<1>6. QED
  BY <1>2, <1>3, <1>4, <1>5 DEF TaskStep

(* The channel that is visited is armed, if its task runs and its period   *)
(* is at least a tick.                                                     *)
LEMMA ChannelArmed ==
  ASSUME TypeOK, TaskInv', TypeOK', NEW c \in Channels, ArmChannel(c), dev_fd_, dtor' = "no",
         period_ticks[c] > 0, running_'[c]
  PROVE  armed'[c] # NONE
<1>1. armed' = [armed EXCEPT ![c] = task_id_'[c]]
  BY DEF ArmChannel, Arm
<1>2. task_id_'[c] \in Tasks
  BY DEF TaskInv, KeptInv, Kept, Regs
<1>3. QED
  BY <1>1, <1>2, ChannelFacts DEF TypeOK, ServiceTypeOK

LEMMA SpinStepSpin ==
  ASSUME TypeOK, TaskInv, TypeOK', TaskInv', SpinInv, NEW m \in Spinners, SpinStep(m)
  PROVE  SpinInv'
<1> USE DEF serviceVars, taskVars, regVars, spinVars, dtorVars
<1>1. /\ pc[m] # "idle" /\ dtor = "no" /\ dtor' = dtor /\ spins' = spins /\ spins # 0
      /\ next_channel_' = next_channel_ /\ period_ticks' = period_ticks
  BY DEF SpinStep, StartNext, OpenDriver, ArmNext, NoteTask, WakeUp, Leave, TaskInv,
         SpinningLives, SpinInv, DeviceInv
<1>2. \A n \in Spinners : n # m => pc[n] = "idle" /\ pc'[n] = "idle"
  BY <1>1 DEF SpinStep, StartNext, OpenDriver, ArmNext, NoteTask, WakeUp, Leave, TypeOK,
              SpinInv, OneSpinner
<1>3. OneSpinner'
  BY <1>2 DEF OneSpinner
<1>4. CASE StartNext(m)
  <2>1. pc'[m] = "start" \/ pc'[m] = "open" \/ (pc'[m] = "note" /\ Timers = {})
    BY <1>4 DEF StartNext, TypeOK
  <2>2. DeviceInv'
    BY <1>1, <1>2, <1>4 DEF StartNext, SpinInv, DeviceInv
  <2>3. ArmedSoFar' /\ ArmedWhenBlocked'
    BY <1>1, <1>2, <2>1 DEF ArmedSoFar, ArmedWhenBlocked, Timers
  <2>4. QED
    BY <1>3, <2>2, <2>3 DEF SpinInv
<1>5. CASE OpenDriver(m)
  <2>1. ~opened
    BY <1>5 DEF OpenDriver, SpinInv, DeviceInv
  <2>2. pc'[m] = "arm" /\ k'[m] = 0 /\ opened' /\ dev_fd_' /\ armed' = armed
    BY <1>5, <2>1 DEF OpenDriver, OpenDevice, TypeOK
  <2>3. DeviceInv'
    BY <1>1, <1>2, <1>5, <2>1, <2>2 DEF OpenDriver, OpenDevice, SpinInv, DeviceInv
  <2>4. \A c \in Timers' : ~(c < k'[m])
    BY <2>2, ChannelFacts, TimerFacts, <1>1 DEF Timers, TypeOK
  <2>5. ArmedSoFar' /\ ArmedWhenBlocked'
    BY <1>2, <2>2, <2>4 DEF ArmedSoFar, ArmedWhenBlocked
  <2>6. QED
    BY <1>3, <2>3, <2>5 DEF SpinInv
<1>6. CASE ArmNext(m) /\ k[m] \in Timers
  <2>1. /\ opened /\ dev_fd_ /\ opened' = opened /\ dev_fd_' = dev_fd_ /\ ArmChannel(k[m])
        /\ pc'[m] = "arm" /\ k'[m] = k[m] + 1
    BY <1>6 DEF ArmNext, ArmChannel, Arm, SpinInv, DeviceInv, ArmedSoFar, TypeOK
  <2>2. k[m] \in Channels /\ k[m] \in Nat
    BY <1>6, TimerFacts DEF TypeOK
  <2>3. period_ticks[k[m]] > 0 /\ running_'[k[m]] => armed'[k[m]] # NONE
    BY <1>1, <2>1, <2>2, ChannelArmed
  <2>4. \A c \in Channels : c # k[m] => armed'[c] = armed[c] /\ running_'[c] = running_[c]
    BY <2>1 DEF ArmChannel, StartTask, Arm, TypeOK, ServiceTypeOK, Regs
  <2>5. ASSUME NEW c \in Timers, c < k'[m], period_ticks[c] > 0, running_'[c]
        PROVE  armed'[c] # NONE
    <3>1. c \in Channels /\ c \in Nat
      BY TimerFacts, ChannelFacts DEF TypeOK
    <3>2. CASE c = k[m]
      BY <2>3, <2>5, <3>2
    <3>3. CASE c # k[m]
      <4>1. c < k[m]
        BY <2>1, <2>2, <2>5, <3>1, <3>3
      <4>2. QED
        BY <1>6, <2>4, <2>5, <3>1, <3>3, <4>1 DEF ArmNext, SpinInv, ArmedSoFar
    <3>4. QED
      BY <3>2, <3>3
  <2>6. ArmedSoFar' /\ ArmedWhenBlocked'
    BY <1>1, <1>2, <2>1, <2>5 DEF ArmedSoFar, ArmedWhenBlocked, Timers
  <2>7. DeviceInv'
    BY <1>1, <1>2, <2>1 DEF SpinInv, DeviceInv
  <2>8. QED
    BY <1>3, <2>6, <2>7 DEF SpinInv
<1>7. CASE ArmNext(m) /\ k[m] \notin Timers
  <2>1. \A c \in Timers : c < k[m]
    BY <1>7, ChannelFacts DEF Timers, TypeOK
  <2>2. pc'[m] = "note" /\ armed' = armed /\ running_' = running_ /\ opened /\ opened' = opened
    BY <1>7 DEF ArmNext, TypeOK, SpinInv, ArmedSoFar
  <2>3. ArmedWhenBlocked'
    BY <1>1, <1>2, <1>7, <2>1, <2>2 DEF ArmNext, SpinInv, ArmedSoFar, ArmedWhenBlocked, Timers
  <2>4. DeviceInv' /\ ArmedSoFar'
    BY <1>1, <1>2, <1>7, <2>2 DEF ArmNext, SpinInv, DeviceInv, ArmedSoFar
  <2>5. QED
    BY <1>3, <2>3, <2>4 DEF SpinInv
<1>8. CASE NoteTask(m)
  <2>1. pc'[m] = "blocked" /\ pc[m] = "note"
    BY <1>8 DEF NoteTask, TypeOK
  <2>2. ArmedWhenBlocked' /\ ArmedSoFar'
    BY <1>2, <1>8, <2>1 DEF NoteTask, SpinInv, ArmedSoFar, ArmedWhenBlocked, Timers
  <2>3. DeviceInv'
    BY <1>1, <1>2, <1>8, <2>1 DEF NoteTask, SpinInv, DeviceInv
  <2>4. QED
    BY <1>3, <2>2, <2>3 DEF SpinInv
<1>9. CASE WakeUp(m) \/ Leave(m)
  <2>1. pc'[m] \in {"leave", "idle"}
    BY <1>9 DEF WakeUp, Leave, TypeOK
  <2>2. ArmedWhenBlocked' /\ ArmedSoFar'
    BY <1>2, <2>1 DEF ArmedSoFar, ArmedWhenBlocked
  <2>3. DeviceInv'
    BY <1>1, <1>2, <1>9, <2>1 DEF WakeUp, Leave, SpinInv, DeviceInv
  <2>4. QED
    BY <1>3, <2>2, <2>3 DEF SpinInv
<1>10. QED
  BY <1>4, <1>5, <1>6, <1>7, <1>8, <1>9 DEF SpinStep

LEMMA DtorStepSpin ==
  ASSUME TaskInv, SpinInv, DtorStep
  PROVE  SpinInv'
<1> USE DEF serviceVars, taskVars, regVars, spinVars, dtorVars
<1>1. dtor # "no" /\ pc' = pc /\ spins' = spins
  BY DEF DtorStep, StopSignal, StopSkip, StopDelete, StopChannel, Teardown, CloseDriver
<1>2. \A m \in Spinners : pc'[m] = "idle"
  BY <1>1 DEF TaskInv, SpinningLives
<1>3. ASSUME NEW r \in Regs, StopSignal(r) \/ StopSkip(r) \/ StopDelete(r) PROVE DeviceInv'
  BY <1>1, <1>2, <1>3 DEF StopSignal, StopSkip, StopDelete, SpinInv, DeviceInv
<1>4. ASSUME NEW c \in Channels, StopChannel(c) PROVE DeviceInv'
  BY <1>1, <1>2, <1>4 DEF StopChannel, Arm, SpinInv, DeviceInv
<1>5. ASSUME Teardown PROVE DeviceInv'
  BY <1>1, <1>2, <1>5 DEF Teardown, SpinInv, DeviceInv
<1>6. ASSUME CloseDriver PROVE DeviceInv'
  BY <1>1, <1>2, <1>6 DEF CloseDriver, CloseDevice, SpinInv, DeviceInv
<1>7. DeviceInv'
  BY <1>3, <1>4, <1>5, <1>6 DEF DtorStep
<1>8. QED
  BY <1>2, <1>7, NobodySpins

LEMMA SpinInvHolds ==
  ASSUME MaxSpins <= 1
  PROVE  Spec => [](TypeOK /\ TaskInv /\ SpinInv)
<1>1. Init => SpinInv
  BY DEF Init, ServiceInit, SpinInv, DeviceInv, OneSpinner, ArmedSoFar, ArmedWhenBlocked
<1>2. SpinInv /\ UNCHANGED vars => SpinInv'
  <2>1. SpinInv => (dtor = "done" => ~opened)
    BY DEF SpinInv, DeviceInv
  <2>2. QED
    BY <2>1, SpinAlone DEF vars, serviceVars, taskVars, regVars, spinVars, dtorVars
<1>3. TypeOK /\ TaskInv /\ SpinInv /\ [Next]_vars => SpinInv'
  BY <1>2, TypeStep, TaskInvStep, Steps, CallSpin, ArrivalSpin, TaskStepSpin, SpinStepSpin,
     DtorStepSpin
<1>4. QED
  BY <1>1, <1>3, TaskInvHolds, PTL DEF Spec

(* With a single spin(), which is how the experiments use the executor,    *)
(* every timer with a task and a period of a tick or more is armed before  *)
(* spin() blocks, and stays so (start_all_tasks, setup_timer_driver).      *)
THEOREM AllTimersArmed ==
  ASSUME MaxSpins <= 1
  PROVE  Spec => []ArmedWhenBlocked
<1>1. SpinInv => ArmedWhenBlocked
  BY DEF SpinInv
<1>2. QED
  BY <1>1, SpinInvHolds, PTL

(* With a single spin(), a destroyed executor leaves no task, no armed     *)
(* channel and no open device (stop_all_tasks, teardown_timer_driver).     *)
THEOREM NothingLeftBehind ==
  ASSUME MaxSpins <= 1
  PROVE  Spec => []DestroyedIsQuiet
<1>1. TypeOK /\ TaskInv /\ SpinInv => DestroyedIsQuiet
  BY DEF TaskInv, VisitInv, ToVisit, SpinInv, DeviceInv, DestroyedIsQuiet
<1>2. QED
  BY <1>1, SpinInvHolds, PTL

=============================================================================

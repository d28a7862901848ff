------------------------ MODULE MultiThreadedProofs ------------------------
(***************************************************************************)
(* MultiThreadedExecutor, and PicasExecutor, which was forked from it:     *)
(* mutual exclusion of callback groups, their release, that no message is  *)
(* slept on, and that callbacks go by their priorities, for every number   *)
(* of threads, publishers, subscriptions, timers and groups.               *)
(***************************************************************************)
EXTENDS PicasExecutor, FiniteSetTheorems, WellFoundedInduction, TLAPS

LEMMA InitTypes ==
  ASSUME Init
  PROVE  TypeOK
<1> USE IntraProcessAssumption, ExecutorAssumption
<1>1. IntraTypeOK
  BY DEF Init, IntraInit, IntraTypeOK
<1>2. at \in [Threads -> {"out"}] /\ any_exec \in [Threads -> {NONE}]
  BY DEF Init
<1>3. QED
  BY <1>1, <1>2 DEF Init, TypeOK

LEMMA TypeStep ==
  ASSUME TypeOK, [Next]_vars
  PROVE  TypeOK'
<1> USE IntraProcessAssumption, ExecutorAssumption DEF TypeOK, IntraTypeOK, Go
<1>1. CASE Spin \/ Cancel \/ CancelTrigger
  BY <1>1 DEF Spin, Cancel, CancelTrigger, intraVars
<1>2. ASSUME NEW p \in Publishers, Notify(p), UNCHANGED execVars PROVE TypeOK'
  BY <1>2 DEF Notify, execVars
<1>3. ASSUME NEW p \in Publishers, NEW s \in Subs, Publish(p, s), UNCHANGED execVars
      PROVE  TypeOK'
  BY <1>3 DEF Publish, execVars
<1>4. ASSUME NEW t \in Threads, ThreadStep(t) PROVE TypeOK'
  <2>1. CASE Lock(t) \/ Exit(t) \/ GiveUp(t) \/ Execute(t) \/ Discard(t) \/ Interrupt(t)
    BY <2>1 DEF Lock, Exit, GiveUp, Execute, Discard, Interrupt, intraVars
  <2>2. CASE MarkGroup(t)
    <3>1. any_exec[t] \in Subs \cup {NONE}
      OBVIOUS
    <3>2. notified' \in [Subs -> BOOLEAN]
      BY <2>2 DEF MarkGroup, Retrigger
    <3>3. busy' \subseteq Groups \cap Exclusive
      BY <2>2 DEF MarkGroup, Groups
    <3>4. QED
      BY <2>2, <3>2, <3>3 DEF MarkGroup, Retrigger
  <2>3. CASE Collect(t) \/ RemoveNullHandles(t)
    BY <2>3 DEF Collect, RemoveNullHandles, Available, intraVars
  <2>4. CASE WakeUp(t)
    BY <2>4 DEF WakeUp
  <2>5. CASE Release(t)
    BY <2>5 DEF Release, intraVars
  <2>6. ASSUME NEW s \in Subs, Take(t, s) PROVE TypeOK'
    BY <2>6 DEF Take, Consume
  <2>7. QED
    BY <1>4, <2>1, <2>2, <2>3, <2>4, <2>5, <2>6 DEF ThreadStep, ServeStep
<1>5. CASE UNCHANGED vars
  BY <1>5 DEF vars, intraVars, execVars
<1>6. QED
  BY <1>1, <1>2, <1>3, <1>4, <1>5 DEF Next, Publishing

(* Every variable keeps its type. *)
THEOREM TypeCorrect == Spec => []TypeOK
<1>1. Init => TypeOK
  BY InitTypes
<1>2. TypeOK /\ [Next]_vars => TypeOK'
  BY TypeStep
<1>3. QED
  BY <1>1, <1>2, PTL DEF Spec

-----------------------------------------------------------------------------
(* A thread at one of these places holds wait_mutex_. *)
Selecting(t) == at[t] \in {"next", "wait", "woken", "again", "took"}

(* A thread at one of these places has taken a message. *)
HasTaken(t) == at[t] \in {"took", "run", "callback"}

MutexInv == \A t \in Threads : Selecting(t) => wait_mutex_ = t

(* What a thread has taken is of a subscription; its group, if mutually    *)
(* exclusive, is marked once the mutex is released, and not before.        *)
TakenInv ==
  \A t \in Threads :
    /\ HasTaken(t) => any_exec[t] \in Subs
    /\ Holds(t) /\ Group[any_exec[t]] \in Exclusive => Group[any_exec[t]] \in busy
    /\ at[t] = "took" => Group[any_exec[t]] \notin busy

ExclusiveInv == TypeOK /\ MutexInv /\ TakenInv /\ ExclusiveGroups

LEMMA MutexStep ==
  ASSUME TypeOK, MutexInv, [Next]_vars
  PROVE  MutexInv'
<1> USE ExecutorAssumption DEF TypeOK, MutexInv, Selecting, Go
<1>1. CASE Spin \/ Cancel \/ CancelTrigger
  BY <1>1 DEF Spin, Cancel, CancelTrigger
<1>2. CASE UNCHANGED execVars
  BY <1>2 DEF execVars
<1>3. ASSUME NEW t \in Threads, ThreadStep(t) PROVE MutexInv'
  <2>1. CASE Lock(t)
    BY <2>1 DEF Lock
  <2>2. CASE Exit(t) \/ GiveUp(t) \/ Execute(t) \/ Discard(t) \/ Release(t) \/ Interrupt(t)
    BY <2>2 DEF Exit, GiveUp, Execute, Discard, Release, Interrupt
  <2>3. CASE MarkGroup(t) \/ Collect(t) \/ WakeUp(t) \/ RemoveNullHandles(t)
    BY <2>3 DEF MarkGroup, Collect, WakeUp, RemoveNullHandles
  <2>4. ASSUME NEW s \in Subs, Take(t, s) PROVE MutexInv'
    BY <2>4 DEF Take
  <2>5. QED
    BY <1>3, <2>1, <2>2, <2>3, <2>4 DEF ThreadStep, ServeStep
<1>4. QED
  BY <1>1, <1>2, <1>3 DEF Next, Publishing, vars

(* Only a thread that holds the mutex marks a group, and a group is        *)
(* released only by the thread that holds it.                              *)
LEMMA ExclusiveStep ==
  ASSUME ExclusiveInv, [Next]_vars
  PROVE  TakenInv' /\ ExclusiveGroups'
<1> USE ExecutorAssumption, IntraProcessAssumption
    DEF ExclusiveInv, TypeOK, TakenInv, ExclusiveGroups, HasTaken, Holds, Go
<1>1. CASE Spin
  BY <1>1 DEF Spin
<1>2. CASE Cancel \/ CancelTrigger
  BY <1>2 DEF Cancel, CancelTrigger
<1>3. CASE UNCHANGED execVars
  BY <1>3 DEF execVars
<1>4. ASSUME NEW t \in Threads, ThreadStep(t) PROVE TakenInv' /\ ExclusiveGroups'
  <2>1. CASE Lock(t) \/ Exit(t) \/ GiveUp(t) \/ Interrupt(t)
    BY <2>1 DEF Lock, Exit, GiveUp, Interrupt
  <2>2. CASE Collect(t) \/ WakeUp(t) \/ RemoveNullHandles(t)
    BY <2>2 DEF Collect, WakeUp, RemoveNullHandles
  <2>3. CASE Execute(t)
    BY <2>3 DEF Execute
  <2>4. CASE Discard(t)
    BY <2>4 DEF Discard
  <2>5. ASSUME NEW s \in Subs, Take(t, s) PROVE TakenInv' /\ ExclusiveGroups'
    BY <2>5 DEF Take, Available
  <2>6. CASE MarkGroup(t)
    <3>1. \A u \in Threads : at[u] = "took" => u = t
      BY <2>6 DEF MarkGroup, MutexInv, Selecting
    <3>2. /\ at' = [at EXCEPT ![t] = "run"] /\ any_exec' = any_exec
          /\ busy' = busy \cup ({Group[any_exec[t]]} \cap Exclusive)
          /\ at[t] = "took"
      BY <2>6 DEF MarkGroup
    <3>3. TakenInv'
      BY <3>1, <3>2
    <3>4. \A u \in Threads \ {t} :
            Holds(u) /\ Group[any_exec[u]] \in Exclusive
              => Group[any_exec[u]] # Group[any_exec[t]]
      BY <3>2
    <3>5. ExclusiveGroups'
      BY <3>2, <3>4
    <3>6. QED
      BY <3>3, <3>5
  <2>7. CASE Release(t)
    <3>1. /\ at' = [at EXCEPT ![t] = "released"] /\ at[t] = "callback"
          /\ any_exec' = [any_exec EXCEPT ![t] = NONE]
          /\ busy' = busy \ {Group[any_exec[t]]}
      BY <2>7 DEF Release
    <3>2. \A u \in Threads \ {t} :
            Holds(u) /\ Group[any_exec[u]] \in Exclusive
              => Group[any_exec[u]] # Group[any_exec[t]]
      BY <3>1
    <3>3. TakenInv'
      BY <3>1, <3>2
    <3>4. ExclusiveGroups'
      BY <3>1
    <3>5. QED
      BY <3>3, <3>4
  <2>8. QED
    BY <1>4, <2>1, <2>2, <2>3, <2>4, <2>5, <2>6, <2>7 DEF ThreadStep, ServeStep
<1>5. QED
  BY <1>1, <1>2, <1>3, <1>4 DEF Next, Publishing, vars

LEMMA ExclusiveHolds == Spec => []ExclusiveInv
<1>1. Init => MutexInv /\ TakenInv /\ ExclusiveGroups
  BY DEF Init, MutexInv, Selecting, TakenInv, HasTaken, Holds, ExclusiveGroups
<1>2. TypeOK /\ TypeOK' /\ MutexInv /\ TakenInv /\ ExclusiveGroups /\ [Next]_vars
        => (MutexInv /\ TakenInv /\ ExclusiveGroups)'
  BY MutexStep, ExclusiveStep DEF ExclusiveInv
<1>3. ExclusiveInv <=> TypeOK /\ MutexInv /\ TakenInv /\ ExclusiveGroups
  BY DEF ExclusiveInv
<1>4. QED
  BY <1>1, <1>2, <1>3, TypeCorrect, PTL DEF Spec

(* Two callbacks of one mutually exclusive group never overlap, whoever    *)
(* cancels and however threads interleave (get_next_executable under       *)
(* wait_mutex_, can_be_taken_from).                                        *)
THEOREM CallbacksExclude == Spec => []ExclusiveGroups
<1>1. ExclusiveInv => ExclusiveGroups
  BY DEF ExclusiveInv
<1>2. QED
  BY <1>1, ExclusiveHolds, PTL

-----------------------------------------------------------------------------
(* An executor nobody cancels is an executor. *)
LEMMA ServeIsSpec == ServeSpec => Spec
<1>1. [ServeNext]_vars => [Next]_vars
  BY DEF ServeNext, Next, ThreadStep
<1>2. QED
  BY <1>1, PTL DEF ServeSpec, Spec

(* Without cancel() no thread leaves its loop, ... *)
RunningInv == spinning \/ \A t \in Threads : at[t] = "out"

(* ... so that what is taken is also executed: a group in use is held by a *)
(* thread that will release it (execute_any_executable, ~AnyExecutable).   *)
THEOREM GroupsAreReleased == ServeSpec => []GroupReleased
<1> USE ExecutorAssumption DEF TypeOK, RunningInv, GroupReleased, Holds, Go
<1>1. Init => RunningInv /\ GroupReleased
  BY DEF Init
<1>2. TypeOK /\ RunningInv /\ GroupReleased /\ [ServeNext]_vars
        => RunningInv' /\ GroupReleased'
  <2> SUFFICES ASSUME TypeOK, RunningInv, GroupReleased, [ServeNext]_vars
               PROVE  RunningInv' /\ GroupReleased'
    OBVIOUS
  <2>1. CASE Spin
    BY <2>1 DEF Spin
  <2>3. CASE UNCHANGED execVars
    BY <2>3 DEF execVars
  <2>4. ASSUME NEW t \in Threads, ServeStep(t) PROVE RunningInv' /\ GroupReleased'
    <3>0. at[t] # "out" /\ spinning
      BY <2>4 DEF ServeStep, Lock, MarkGroup, Collect, WakeUp, RemoveNullHandles,
                  GiveUp, Execute, Release, Interrupt, Take
    <3>1. CASE Lock(t) \/ GiveUp(t) \/ Interrupt(t)
      BY <3>0, <3>1 DEF Lock, GiveUp, Interrupt
    <3>2. CASE Collect(t) \/ WakeUp(t) \/ RemoveNullHandles(t) \/ Execute(t)
      BY <3>0, <3>2 DEF Collect, WakeUp, RemoveNullHandles, Execute
    <3>3. ASSUME NEW s \in Subs, Take(t, s) PROVE RunningInv' /\ GroupReleased'
      BY <3>0, <3>3 DEF Take
    <3>4. CASE MarkGroup(t)
      BY <3>0, <3>4 DEF MarkGroup
    <3>5. CASE Release(t)
      <4>1. /\ at' = [at EXCEPT ![t] = "released"] /\ spinning' = spinning
            /\ any_exec' = [any_exec EXCEPT ![t] = NONE]
            /\ busy' = busy \ {Group[any_exec[t]]}
        BY <3>5 DEF Release
      <4>2. ASSUME NEW g \in busy'
            PROVE  \E u \in Threads : Holds(u)' /\ Group[any_exec'[u]] = g
        <5>1. PICK u \in Threads : Holds(u) /\ Group[any_exec[u]] = g
          BY <4>1, <4>2
        <5>2. u # t
          BY <4>1, <4>2, <5>1
        <5>3. QED
          BY <4>1, <5>1, <5>2
      <4>3. QED
        BY <3>0, <4>1, <4>2
    <3>6. QED
      BY <2>4, <3>1, <3>2, <3>3, <3>4, <3>5 DEF ServeStep
  <2>5. QED
    BY <2>1, <2>3, <2>4 DEF ServeNext, Publishing, vars
<1>3. QED
  BY <1>1, <1>2, ServeIsSpec, TypeCorrect, PTL DEF ServeSpec

-----------------------------------------------------------------------------
(* No message is stranded, if no mutually exclusive group has two          *)
(* subscriptions.                                                          *)
OneEach ==
  \A s, u \in Subs : Group[s] = Group[u] /\ Group[s] \in Exclusive => s = u

(* What is left in the list can be taken: its group is not in use. *)
HandlesFree ==
  /\ \A s \in handles : Group[s] \notin busy
  /\ \A t \in Threads : at[t] = "took" => any_exec[t] \notin handles

(* Somebody is about to find a stored message: its guard condition is      *)
(* triggered or about to be, or its subscription is in the list, while no  *)
(* thread waits.                                                           *)
PendingInv ==
  \A s \in Subs : size_[s] > 0 =>
    \/ notified[s]
    \/ \E p \in Publishers : publishing[p] = s
    \/ s \in handles /\ \A t \in Threads : at[t] # "wait"
    \/ \E t \in Threads : at[t] = "took" /\ any_exec[t] = s

(* A thread waits for all subscriptions but those of the groups in use,    *)
(* and is interrupted when one is released.                                *)
WaitCovers ==
  \A t \in Threads, s \in Subs : at[t] = "wait" /\ s \notin handles =>
    \/ interrupt_
    \/ \E u \in Threads : at[u] = "released"
    \/ Group[s] \in busy

WakeInv == HandlesFree /\ PendingInv /\ WaitCovers

LEMMA HandlesStep ==
  ASSUME OneEach, ExclusiveInv, HandlesFree, [Next]_vars
  PROVE  HandlesFree'
<1> USE ExecutorAssumption DEF ExclusiveInv, TypeOK, HandlesFree, Go
<1>1. CASE Spin \/ Cancel \/ CancelTrigger
  BY <1>1 DEF Spin, Cancel, CancelTrigger
<1>2. CASE UNCHANGED execVars
  BY <1>2 DEF execVars
<1>3. ASSUME NEW t \in Threads, ThreadStep(t) PROVE HandlesFree'
  <2>1. CASE Lock(t) \/ Exit(t) \/ GiveUp(t) \/ Execute(t) \/ Discard(t) \/ Release(t) \/ Interrupt(t)
    BY <2>1 DEF Lock, Exit, GiveUp, Execute, Discard, Release, Interrupt
  <2>2. CASE Collect(t)
    <3>1. \A u \in Threads : at'[u] # "took"
      BY <2>2 DEF Collect, MutexInv, Selecting
    <3>2. QED
      BY <2>2, <3>1 DEF Collect, Available
  <2>3. CASE WakeUp(t) \/ RemoveNullHandles(t)
    BY <2>3 DEF WakeUp, RemoveNullHandles
  <2>4. ASSUME NEW s \in Subs, Take(t, s) PROVE HandlesFree'
    <3>1. \A u \in Threads : u # t => at'[u] # "took"
      BY <2>4 DEF Take, MutexInv, Selecting
    <3>2. QED
      BY <2>4, <3>1 DEF Take, Available
  <2>5. CASE MarkGroup(t)
    <3>1. any_exec[t] \in Subs /\ any_exec[t] \notin handles
      BY <2>5 DEF MarkGroup, TakenInv, HasTaken
    <3>2. \A s \in handles : Group[s] \in Exclusive => Group[s] # Group[any_exec[t]]
      BY <3>1 DEF OneEach
    <3>3. QED
      BY <2>5, <3>2 DEF MarkGroup
  <2>6. QED
    BY <1>3, <2>1, <2>2, <2>3, <2>4, <2>5 DEF ThreadStep, ServeStep
<1>4. QED
  BY <1>1, <1>2, <1>3 DEF Next, Publishing, vars

LEMMA PendingStep ==
  ASSUME ~Direct, ExclusiveInv, HandlesFree, PendingInv, [Next]_vars
  PROVE  PendingInv'
<1> USE ExecutorAssumption, IntraProcessAssumption
    DEF ExclusiveInv, TypeOK, IntraTypeOK, PendingInv, Go
<1>1. CASE Spin \/ Cancel \/ CancelTrigger
  BY <1>1 DEF Spin, Cancel, CancelTrigger, intraVars
<1>2. ASSUME NEW p \in Publishers, Notify(p), UNCHANGED execVars PROVE PendingInv'
  BY <1>2 DEF Notify, execVars
<1>3. ASSUME NEW p \in Publishers, NEW s \in Subs, Publish(p, s), UNCHANGED execVars
      PROVE  PendingInv'
  BY <1>3 DEF Publish, execVars
<1>4. CASE UNCHANGED vars
  BY <1>4 DEF vars, intraVars, execVars
<1>5. ASSUME NEW t \in Threads, ThreadStep(t) PROVE PendingInv'
  <2>1. CASE Lock(t) \/ Exit(t) \/ GiveUp(t) \/ Execute(t)
    BY <2>1 DEF Lock, Exit, GiveUp, Execute, intraVars
  <2>2. CASE Discard(t) \/ Release(t) \/ Interrupt(t)
    BY <2>2 DEF Discard, Release, Interrupt, intraVars
  <2>3. CASE Collect(t)
    <3>1. handles = {} /\ \A u \in Threads : at[u] # "took"
      BY <2>3 DEF Collect, Available, HandlesFree, MutexInv, Selecting
    <3>2. QED
      BY <2>3, <3>1 DEF Collect, intraVars
  <2>4. CASE WakeUp(t)
    <3>1. \A u \in Threads : at'[u] # "wait"
      BY <2>4 DEF WakeUp, MutexInv, Selecting
    <3>2. QED
      BY <2>4, <3>1 DEF WakeUp
  <2>5. CASE RemoveNullHandles(t)
    BY <2>5 DEF RemoveNullHandles, intraVars
  <2>6. ASSUME NEW s \in Subs, Take(t, s) PROVE PendingInv'
    <3>1. \A u \in Threads : at[u] = "took" => u = t
      BY <2>6 DEF Take, MutexInv, Selecting
    <3>2. \A u \in Threads : at'[u] # "wait"
      BY <2>6 DEF Take, MutexInv, Selecting
    <3>3. QED
      BY <2>6, <3>1, <3>2 DEF Take, Consume
  <2>7. CASE MarkGroup(t)
    <3>1. any_exec[t] \in Subs
      BY <2>7 DEF MarkGroup, TakenInv, HasTaken
    <3>2. QED
      BY <2>7, <3>1 DEF MarkGroup, Retrigger
  <2>8. QED
    BY <1>5, <2>1, <2>2, <2>3, <2>4, <2>5, <2>6, <2>7 DEF ThreadStep, ServeStep
<1>6. QED
  BY <1>1, <1>2, <1>3, <1>4, <1>5 DEF Next, Publishing

LEMMA CoversStep ==
  ASSUME ExclusiveInv, WaitCovers, [Next]_vars
  PROVE  WaitCovers'
<1> USE ExecutorAssumption DEF ExclusiveInv, TypeOK, WaitCovers, Go
<1>1. CASE Spin \/ Cancel \/ CancelTrigger
  BY <1>1 DEF Spin, Cancel, CancelTrigger
<1>2. CASE UNCHANGED execVars
  BY <1>2 DEF execVars
<1>3. ASSUME NEW t \in Threads, ThreadStep(t) PROVE WaitCovers'
  <2>1. CASE Lock(t) \/ Exit(t) \/ GiveUp(t) \/ Execute(t) \/ Discard(t)
    BY <2>1 DEF Lock, Exit, GiveUp, Execute, Discard
  <2>2. CASE Interrupt(t)
    BY <2>2 DEF Interrupt
  <2>3. CASE Release(t)
    <3>1. at'[t] = "released"
      BY <2>3 DEF Release
    <3>2. QED
      BY <3>1
  <2>4. CASE Collect(t)
    <3>1. \A u \in Threads : u # t => at'[u] # "wait"
      BY <2>4 DEF Collect, MutexInv, Selecting
    <3>2. QED
      BY <2>4, <3>1 DEF Collect, Available
  <2>5. CASE WakeUp(t) \/ RemoveNullHandles(t) \/ MarkGroup(t)
    <3>1. \A u \in Threads : at'[u] # "wait"
      BY <2>5 DEF WakeUp, RemoveNullHandles, MarkGroup, MutexInv, Selecting
    <3>2. QED
      BY <3>1
  <2>6. ASSUME NEW s \in Subs, Take(t, s) PROVE WaitCovers'
    <3>1. \A u \in Threads : at'[u] # "wait"
      BY <2>6 DEF Take, MutexInv, Selecting
    <3>2. QED
      BY <3>1
  <2>7. QED
    BY <1>3, <2>1, <2>2, <2>3, <2>4, <2>5, <2>6 DEF ThreadStep, ServeStep
<1>4. QED
  BY <1>1, <1>2, <1>3 DEF Next, Publishing, vars

(* If nobody cancels and no mutually exclusive group has two               *)
(* subscriptions, the executor never sleeps on a stored message            *)
(* (executor.cpp: wake the wait, as work that was previously blocked is    *)
(* now available).                                                         *)
THEOREM NobodySleepsOnMessages ==
  ASSUME ~Direct, OneEach
  PROVE  ServeSpec => []NoStranded
<1>1. Init => WakeInv
  BY DEF Init, IntraInit, WakeInv, HandlesFree, PendingInv, WaitCovers
<1>2. ExclusiveInv /\ WakeInv /\ [Next]_vars => WakeInv'
  BY HandlesStep, PendingStep, CoversStep DEF WakeInv
<1>3. ExclusiveInv /\ WakeInv /\ GroupReleased => NoStranded
  <2> SUFFICES ASSUME ExclusiveInv, WakeInv, GroupReleased, Asleep,
                      NEW s \in Subs, size_[s] # 0
               PROVE  FALSE
    BY DEF NoStranded
  <2>1. /\ \A t \in Threads : at[t] \in {"wait", "loop"}
        /\ \A p \in Publishers : publishing[p] = NONE
        /\ ~interrupt_ /\ \A u \in handles : ~notified[u]
    BY DEF Asleep, Signalled
  <2>2. PICK t \in Threads : at[t] = "wait"
    BY DEF Asleep
  <2>3. notified[s] /\ s \notin handles
    <3>1. size_[s] > 0
      BY DEF ExclusiveInv, TypeOK, IntraTypeOK
    <3>2. s # NONE
      BY IntraProcessAssumption
    <3>3. QED
      BY <2>1, <2>2, <3>1, <3>2 DEF WakeInv, PendingInv
  <2>4. Group[s] \in busy
    BY <2>1, <2>2, <2>3 DEF WakeInv, WaitCovers
  <2>5. QED
    BY <2>1, <2>4 DEF GroupReleased, Holds
<1>4. QED
  BY <1>1, <1>2, <1>3, ExclusiveHolds, ServeIsSpec, GroupsAreReleased, PTL DEF Spec

-----------------------------------------------------------------------------
(* PicasExecutor.  A finite set of timers and subscriptions has one of the *)
(* highest priority: the smallest set without one would, less one element, *)
(* have one.                                                               *)
LEMMA LeastExists ==
  ASSUME NEW T, T \subseteq Nat, T # {}
  PROVE  \E x \in T : \A y \in T : x <= y
<1> DEFINE R == OpToRel(<, Nat)
<1>1. \A x, y \in Nat : <<x, y>> \in R <=> x < y
  BY DEF OpToRel
<1>2. IsWellFoundedOn(R, Nat)
  BY NatLessThanWellFounded, Zenon
<1> HIDE DEF R
<1>3. PICK x \in T : \A y \in T : ~(<<y, x>> \in R)
  BY <1>2, WFMin
<1>4. ASSUME NEW y \in T PROVE x <= y
  <2>1. x \in Nat /\ y \in Nat /\ ~(<<y, x>> \in R)
    BY <1>3
  <2>2. ~(y < x)
    BY <1>1, <2>1
  <2>3. QED
    BY <2>1, <2>2
<1>5. QED
  BY <1>4

LEMMA HighestExists ==
  ASSUME IsFiniteSet(Entities), NEW S, S \subseteq Entities, S # {}
  PROVE  \E e \in S : \A f \in S : Priority[f] <= Priority[e]
<1> DEFINE Tops(T) == {e \in T : \A f \in T : Priority[f] <= Priority[e]}
           Bad == {T \in SUBSET S : T # {} /\ Tops(T) = {}}
           Sizes == {Cardinality(T) : T \in Bad}
<1>0. \A e \in S : Priority[e] \in Nat
  BY PicasAssumption
<1>1. \A T \in SUBSET S : IsFiniteSet(T)
  BY FS_Subset
<1>2. Sizes \subseteq Nat
  BY <1>1, FS_CardinalityType
<1>3. ASSUME NEW T0 \in Bad PROVE FALSE
  <2>1. Sizes # {}
    OBVIOUS
  <2>2. PICK T \in Bad : \A U \in Bad : Cardinality(T) <= Cardinality(U)
    <3> HIDE DEF Bad
    <3>1. PICK x \in Sizes : \A y \in Sizes : x <= y
      <4> HIDE DEF Sizes
      <4>1. QED
        BY <1>2, <2>1, LeastExists
    <3>2. QED
      BY <3>1
  <2>3. PICK e \in T : TRUE
    OBVIOUS
  <2>4. /\ IsFiniteSet(T \ {e}) /\ Cardinality(T \ {e}) = Cardinality(T) - 1
        /\ Cardinality(T) \in Nat
    BY <1>1, <2>3, FS_RemoveElement, FS_CardinalityType
  <2>5. T \ {e} \notin Bad
    <3> HIDE DEF Bad
    <3>1. QED
      BY <2>2, <2>4
  <2>6. T \ {e} # {}
    <3>1. SUFFICES ASSUME T = {e} PROVE FALSE
      BY <2>3
    <3>2. e \in Tops(T)
      BY <1>0, <3>1
    <3>3. QED
      BY <3>2
  <2>7. PICK m \in T \ {e} : \A f \in T \ {e} : Priority[f] <= Priority[m]
    BY <2>5, <2>6
  <2>8. e \in Tops(T) \/ m \in Tops(T)
    <3>1. CASE Priority[e] <= Priority[m]
      BY <2>7, <3>1
    <3>2. CASE ~(Priority[e] <= Priority[m])
      <4>1. ASSUME NEW f \in T PROVE Priority[f] <= Priority[e]
        <5>1. f = e \/ Priority[f] <= Priority[m]
          BY <2>7
        <5>2. Priority[e] \in Nat /\ Priority[m] \in Nat /\ Priority[f] \in Nat
          BY <1>0, <2>3, <2>7
        <5>3. QED
          BY <3>2, <5>1, <5>2
      <4>2. QED
        BY <2>3, <4>1
    <3>3. QED
      BY <3>1, <3>2
  <2>9. QED
    BY <2>8
<1>4. S \notin Bad
  BY <1>3
<1>5. QED
  BY <1>4

(* What an executor with priorities keeps in its variables. *)
PriorityTypes ==
  /\ callback_priority_enabled
  /\ IntraTypeOK
  /\ spinning \in BOOLEAN /\ cancelling \in BOOLEAN /\ interrupt_ \in BOOLEAN
  /\ wait_mutex_ \in Threads \cup {NONE}
  /\ handles \subseteq Entities
  /\ at \in [Threads -> {"out", "loop", "next", "wait", "woken", "again",
                         "run", "callback", "released", "unschedule"}]
  /\ any_exec \in [Threads -> Entities \cup {NONE}]
  /\ DOMAIN callback_group = Threads
  /\ due \subseteq Timers /\ scheduled_timers_ \subseteq Timers
  /\ waiting \subseteq Entities

(* A timer a thread has selected is scheduled, and no other thread has it. *)
TimersInv ==
  \A t \in Threads : any_exec[t] \in Timers =>
    /\ any_exec[t] \in scheduled_timers_
    /\ \A u \in Threads : any_exec[u] = any_exec[t] => u = t

(* What was ready when a thread began to wait is still offered when it     *)
(* selects: messages are taken by whoever holds the mutex, and a timer     *)
(* that another thread may be about to call was not counted as ready.      *)
WaitingInv ==
  \A t \in Threads : at[t] \in {"wait", "woken", "again"} =>
    /\ waiting \subseteq Available(handles)
    /\ \A e \in waiting : IF e \in Timers THEN e \in due \ scheduled_timers_
                                          ELSE size_[e] > 0

PriorityInv == PriorityTypes /\ MutexInv /\ TimersInv /\ WaitingInv

(* A subscription that loses to a timer of a mutually exclusive group is   *)
(* in that group.                                                          *)
LosersShareGroup ==
  \A tm \in Timers, s \in Subs :
    Group[tm] \in Exclusive /\ Priority[s] <= Priority[tm] => Group[s] = Group[tm]

(* The group a thread will release is in use, and no other thread will     *)
(* release it; it is the group of the callback, if that is mutually        *)
(* exclusive.                                                              *)
ReleasesInv ==
  \A t \in Threads : Holds(t) =>
    /\ callback_group[t] \in Exclusive =>
         /\ callback_group[t] \in busy
         /\ \A u \in Threads :
              Holds(u) /\ callback_group[u] = callback_group[t] => u = t
    /\ any_exec[t] \in Entities
    /\ Group[any_exec[t]] \in Exclusive => callback_group[t] = Group[any_exec[t]]

(* Both executors are locked, and selected from, in the same way. *)
LEMMA PriorityMutexStep ==
  ASSUME PriorityTypes, MutexInv, [PicasNext]_allVars
  PROVE  MutexInv'
<1> USE ExecutorAssumption DEF PriorityTypes, MutexInv, Selecting, Go
<1>1. CASE Spin \/ Cancel \/ CancelTrigger
  BY <1>1 DEF Spin, Cancel, CancelTrigger
<1>2. CASE UNCHANGED execVars
  BY <1>2 DEF execVars
<1>3. ASSUME NEW tm \in Timers, Expire(tm) PROVE MutexInv'
  BY <1>3 DEF Expire, vars, execVars
<1>4. ASSUME NEW t \in Threads, PriorityStep(t) PROVE MutexInv'
  <2>1. CASE Lock(t) \/ Exit(t) \/ GiveUp(t)
    BY <2>1 DEF Lock, Exit, GiveUp
  <2>2. CASE CollectAll(t) \/ WaitReturns(t) \/ KeepReady(t)
    BY <2>2 DEF CollectAll, WaitReturns, KeepReady
  <2>3. ASSUME NEW s \in Subs, SelectSub(t, s) PROVE MutexInv'
    BY <2>3 DEF SelectSub, Select
  <2>4. ASSUME NEW tm \in Timers, SelectTimer(t, tm) PROVE MutexInv'
    BY <2>4 DEF SelectTimer, Select
  <2>5. ASSUME NEW tm \in Timers, SkipTimer(t, tm) PROVE MutexInv'
    BY <2>5 DEF SkipTimer, Select
  <2>6. CASE Call(t) \/ ReleaseGroup(t) \/ Unschedule(t)
    BY <2>6 DEF Call, ReleaseGroup, Unschedule
  <2>7. CASE DiscardAny(t) \/ InterruptWait(t)
    BY <2>7 DEF DiscardAny, InterruptWait, Done
  <2>8. QED
    BY <1>4, <2>1, <2>2, <2>3, <2>4, <2>5, <2>6, <2>7 DEF PriorityStep
<1>5. QED
  BY <1>1, <1>2, <1>3, <1>4 DEF PicasNext, PicasStep, Publishing, allVars, vars

(* Every variable of an executor with priorities keeps its type. *)
LEMMA PriorityTypesStep ==
  ASSUME PriorityTypes, [PicasNext]_allVars
  PROVE  PriorityTypes'
<1> USE IntraProcessAssumption, ExecutorAssumption, PicasAssumption
    DEF PriorityTypes, IntraTypeOK, Go
<1>1. CASE (Spin \/ Cancel \/ CancelTrigger) /\ UNCHANGED picasVars
  BY <1>1 DEF Spin, Cancel, CancelTrigger, intraVars, picasVars
<1>2. ASSUME NEW p \in Publishers, Notify(p), UNCHANGED <<execVars, picasVars>>
      PROVE  PriorityTypes'
  BY <1>2 DEF Notify, execVars, picasVars
<1>3. ASSUME NEW p \in Publishers, NEW s \in Subs, Publish(p, s),
             UNCHANGED <<execVars, picasVars>>
      PROVE  PriorityTypes'
  BY <1>3 DEF Publish, execVars, picasVars
<1>4. ASSUME NEW tm \in Timers, Expire(tm) PROVE PriorityTypes'
  BY <1>4 DEF Expire, vars, intraVars, execVars
<1>5. ASSUME NEW t \in Threads, PriorityStep(t) PROVE PriorityTypes'
  <2>1. CASE (Lock(t) \/ Exit(t)) /\ UNCHANGED picasVars
    BY <2>1 DEF Lock, Exit, intraVars, picasVars
  <2>2. CASE /\ GiveUp(t) /\ waiting' = {}
             /\ UNCHANGED <<callback_priority_enabled, due, scheduled_timers_, callback_group>>
    BY <2>2 DEF GiveUp, intraVars
  <2>3. CASE CollectAll(t)
    BY <2>3 DEF CollectAll, Available, Ready, intraVars
  <2>4. CASE WaitReturns(t)
    BY <2>4 DEF WaitReturns, picasVars
  <2>5. CASE KeepReady(t)
    BY <2>5 DEF KeepReady, intraVars, picasVars
  <2>6. ASSUME NEW s \in Subs, SelectSub(t, s) PROVE PriorityTypes'
    BY <2>6 DEF SelectSub, Select, Consume, Entities
  <2>7. ASSUME NEW tm \in Timers, SelectTimer(t, tm) PROVE PriorityTypes'
    BY <2>7 DEF SelectTimer, Select, intraVars, Entities
  <2>8. ASSUME NEW tm \in Timers, SkipTimer(t, tm) PROVE PriorityTypes'
    BY <2>8 DEF SkipTimer, Select, intraVars
  <2>9. CASE Call(t) \/ ReleaseGroup(t) \/ Unschedule(t)
    BY <2>9 DEF Call, ReleaseGroup, Unschedule, intraVars, picasVars
  <2>10. CASE DiscardAny(t) \/ InterruptWait(t)
    BY <2>10 DEF DiscardAny, InterruptWait, Done, intraVars
  <2>11. QED
    BY <1>5, <2>1, <2>2, <2>3, <2>4, <2>5, <2>6, <2>7, <2>8, <2>9, <2>10 DEF PriorityStep
<1>6. CASE UNCHANGED allVars
  BY <1>6 DEF allVars, vars, intraVars, execVars, picasVars
<1>7. QED
  BY <1>1, <1>2, <1>3, <1>4, <1>5, <1>6 DEF PicasNext, PicasStep, Publishing

(* A timer is selected only if no thread has it. *)
LEMMA TimersStep ==
  ASSUME PriorityTypes, TimersInv, [PicasNext]_allVars
  PROVE  TimersInv'
<1> USE PicasAssumption DEF PriorityTypes, TimersInv, Go
<1>1. CASE (Spin \/ Cancel \/ CancelTrigger) /\ UNCHANGED picasVars
  BY <1>1 DEF Spin, Cancel, CancelTrigger, picasVars
<1>2. CASE UNCHANGED <<execVars, picasVars>>
  BY <1>2 DEF execVars, picasVars
<1>3. ASSUME NEW tm \in Timers, Expire(tm) PROVE TimersInv'
  BY <1>3 DEF Expire, vars, execVars
<1>4. ASSUME NEW t \in Threads, PriorityStep(t) PROVE TimersInv'
  <2>1. CASE (Lock(t) \/ Exit(t)) /\ UNCHANGED picasVars
    BY <2>1 DEF Lock, Exit, picasVars
  <2>2. CASE GiveUp(t) /\ UNCHANGED scheduled_timers_
    BY <2>2 DEF GiveUp
  <2>3. CASE CollectAll(t) \/ WaitReturns(t) \/ KeepReady(t)
    BY <2>3 DEF CollectAll, WaitReturns, KeepReady, picasVars
  <2>4. ASSUME NEW s \in Subs, SelectSub(t, s) PROVE TimersInv'
    BY <2>4 DEF SelectSub
  <2>5. ASSUME NEW tm \in Timers, SelectTimer(t, tm) PROVE TimersInv'
    BY <2>5 DEF SelectTimer, Scheduled
  <2>6. ASSUME NEW tm \in Timers, SkipTimer(t, tm) PROVE TimersInv'
    BY <2>6 DEF SkipTimer
  <2>7. CASE Call(t) \/ ReleaseGroup(t)
    BY <2>7 DEF Call, ReleaseGroup, picasVars
  <2>8. CASE Unschedule(t)
    BY <2>8 DEF Unschedule
  <2>9. CASE DiscardAny(t) \/ InterruptWait(t)
    BY <2>9 DEF DiscardAny, InterruptWait, Done
  <2>10. QED
    BY <1>4, <2>1, <2>2, <2>3, <2>4, <2>5, <2>6, <2>7, <2>8, <2>9 DEF PriorityStep
<1>5. QED
  BY <1>1, <1>2, <1>3, <1>4 DEF PicasNext, PicasStep, Publishing, allVars, vars

(* While a thread waits and then selects, only groups are released. *)
LEMMA WaitingStep ==
  ASSUME PriorityInv, [PicasNext]_allVars
  PROVE  WaitingInv'
<1> USE PicasAssumption, ExecutorAssumption, IntraProcessAssumption
    DEF PriorityInv, PriorityTypes, IntraTypeOK, WaitingInv, Go, Available
<1>1. CASE (Spin \/ Cancel \/ CancelTrigger) /\ UNCHANGED picasVars
  BY <1>1 DEF Spin, Cancel, CancelTrigger, intraVars, picasVars
<1>2. ASSUME NEW p \in Publishers, Notify(p), UNCHANGED <<execVars, picasVars>>
      PROVE  WaitingInv'
  BY <1>2 DEF Notify, execVars, picasVars
<1>3. ASSUME NEW p \in Publishers, NEW s \in Subs, Publish(p, s),
             UNCHANGED <<execVars, picasVars>>
      PROVE  WaitingInv'
  BY <1>3 DEF Publish, execVars, picasVars, Entities
<1>4. ASSUME NEW tm \in Timers, Expire(tm) PROVE WaitingInv'
  BY <1>4 DEF Expire, vars, intraVars, execVars
<1>5. CASE UNCHANGED allVars
  BY <1>5 DEF allVars, vars, intraVars, execVars, picasVars
<1>6. ASSUME NEW t \in Threads, PriorityStep(t) PROVE WaitingInv'
  <2>1. CASE (Lock(t) \/ Exit(t)) /\ UNCHANGED picasVars
    BY <2>1 DEF Lock, Exit, intraVars, picasVars
  <2>2. CASE GiveUp(t) /\ waiting' = {}
    BY <2>2
  <2>3. CASE CollectAll(t)
    <3>1. \A e \in Ready(handles') : IF e \in Timers THEN e \in due ELSE size_[e] > 0
      BY DEF Ready
    <3>2. waiting' \subseteq Available(handles)'
      BY <2>3 DEF CollectAll, Ready
    <3>3. QED
      BY <2>3, <3>1, <3>2 DEF CollectAll, intraVars
  <2>4. CASE WaitReturns(t)
    BY <2>4 DEF WaitReturns, picasVars
  <2>5. CASE KeepReady(t)
    BY <2>5 DEF KeepReady, Stored, intraVars, picasVars
  <2>6. ASSUME NEW s \in Subs, SelectSub(t, s) PROVE WaitingInv'
    BY <2>6 DEF SelectSub, Select
  <2>7. ASSUME NEW tm \in Timers, SelectTimer(t, tm) \/ SkipTimer(t, tm)
        PROVE  WaitingInv'
    BY <2>7 DEF SelectTimer, SkipTimer, Select
  <2>8. CASE Call(t)
    <3>1. \A u \in Threads, e \in waiting :
            at[u] \in {"wait", "woken", "again"} /\ e \in Timers => e # any_exec[t]
      BY DEF TimersInv
    <3>2. QED
      BY <2>8, <3>1 DEF Call, intraVars
  <2>9. CASE ReleaseGroup(t)
    BY <2>9 DEF ReleaseGroup, intraVars, picasVars
  <2>10. CASE Unschedule(t)
    BY <2>10 DEF Unschedule, intraVars
  <2>11. CASE DiscardAny(t) \/ InterruptWait(t)
    BY <2>11 DEF DiscardAny, InterruptWait, Done, intraVars
  <2>12. QED
    BY <1>6, <2>1, <2>2, <2>3, <2>4, <2>5, <2>6, <2>7, <2>8, <2>9, <2>10, <2>11
       DEF PriorityStep
<1>7. QED
  BY <1>1, <1>2, <1>3, <1>4, <1>5, <1>6 DEF PicasNext, PicasStep, Publishing

(* An executor without priorities is the one it was forked from. *)
LEMMA WithoutPriorities ==
  ASSUME ~callback_priority_enabled, [PicasNext]_allVars
  PROVE  [Next]_vars /\ ~callback_priority_enabled'
<1>1. CASE UNCHANGED allVars
  BY <1>1 DEF allVars, picasVars
<1>2. CASE (Spin \/ Cancel \/ CancelTrigger \/ Publishing) /\ UNCHANGED picasVars
  BY <1>2 DEF Next, picasVars
<1>3. ASSUME NEW tm \in Timers, Expire(tm) PROVE FALSE
  BY <1>3 DEF Expire
<1>4. ASSUME NEW t \in Threads, PicasStep(t)
      PROVE  [Next]_vars /\ ~callback_priority_enabled'
  BY <1>4 DEF PicasStep, Next, picasVars
<1>5. QED
  BY <1>1, <1>2, <1>3, <1>4 DEF PicasNext

PicasInv ==
  /\ callback_priority_enabled => PriorityInv
  /\ ~callback_priority_enabled => ExclusiveInv

LEMMA PicasHolds == PicasSpec => []PicasInv
<1>1. PicasInit => PicasInv
  <2> SUFFICES ASSUME PicasInit PROVE PicasInv
    OBVIOUS
  <2>1. Init /\ callback_priority_enabled \in BOOLEAN
    BY DEF PicasInit
  <2>2. TypeOK
    BY <2>1, InitTypes
  <2>3. MutexInv /\ TakenInv /\ ExclusiveGroups
    BY <2>1 DEF Init, MutexInv, Selecting, TakenInv, HasTaken, Holds, ExclusiveGroups
  <2>4. callback_priority_enabled => PriorityTypes
    BY <2>1, <2>2 DEF PicasInit, Init, TypeOK, PriorityTypes
  <2>5. TimersInv /\ WaitingInv
    BY PicasAssumption DEF PicasInit, Init, TimersInv, WaitingInv
  <2>6. QED
    BY <2>1, <2>2, <2>3, <2>4, <2>5 DEF PicasInv, PriorityInv, ExclusiveInv
<1>2. PicasInv /\ [PicasNext]_allVars => PicasInv'
  <2> SUFFICES ASSUME PicasInv, [PicasNext]_allVars PROVE PicasInv'
    OBVIOUS
  <2>1. CASE callback_priority_enabled
    <3>1. PriorityTypes' /\ MutexInv' /\ TimersInv' /\ WaitingInv'
      BY <2>1, PriorityTypesStep, PriorityMutexStep, TimersStep, WaitingStep
         DEF PicasInv, PriorityInv
    <3>2. callback_priority_enabled'
      BY <3>1 DEF PriorityTypes
    <3>3. QED
      BY <3>1, <3>2 DEF PicasInv, PriorityInv
  <2>2. CASE ~callback_priority_enabled
    <3>1. ExclusiveInv /\ [Next]_vars /\ ~callback_priority_enabled'
      BY <2>2, WithoutPriorities DEF PicasInv
    <3>2. ExclusiveInv'
      BY <3>1, TypeStep, MutexStep, ExclusiveStep DEF ExclusiveInv
    <3>3. QED
      BY <3>1, <3>2 DEF PicasInv
  <2>3. QED
    BY <2>1, <2>2
<1>3. QED
  BY <1>1, <1>2, PTL DEF PicasSpec

(* What is selected has the highest priority of all that is offered. *)
LEMMA SelectedIsHighest ==
  ASSUME IsFiniteSet(Entities), handles \subseteq Entities,
         NEW e \in Available(handles), NEW x,
         \/ x \in Best(Subs) /\ BeatsTimers(x)
         \/ x \in Best(Timers) /\ \A s \in Best(Subs) : ~BeatsTimers(s)
  PROVE  Priority[e] <= Priority[x]
<1> DEFINE Offered(Kind) == Available(handles) \cap Kind
<1>1. Offered(Subs) \subseteq Entities /\ Offered(Timers) \subseteq Entities
  BY DEF Available
<1>2. \A k \in {Subs, Timers} : Offered(k) # {} => \E b \in Offered(k) :
          b \in Best(k) /\ \A f \in Offered(k) : Priority[f] <= Priority[b]
  <2>1. Subs \subseteq Entities /\ Timers \subseteq Entities
    BY DEF Entities
  <2>2. ASSUME NEW k \in {Subs, Timers}, Offered(k) # {}
        PROVE  \E b \in Offered(k) :
                 b \in Best(k) /\ \A f \in Offered(k) : Priority[f] <= Priority[b]
    <3>1. Offered(k) \subseteq Entities
      BY <1>1
    <3> HIDE DEF Offered
    <3>2. PICK b \in Offered(k) : \A f \in Offered(k) : Priority[f] <= Priority[b]
      BY <2>2, <3>1, HighestExists
    <3>3. b \in Best(k)
      BY <3>2 DEF Best, Offered
    <3>4. QED
      BY <3>2, <3>3
  <2>3. QED
    BY <2>2
<1>3. \A f \in Entities : Priority[f] \in Nat
  BY PicasAssumption
<1>4. e \in Entities /\ x \in Entities
  BY DEF Available, Best
<1>5. e \in Offered(Subs) \/ e \in Offered(Timers)
  BY <1>4 DEF Entities
<1>6. \A k \in {Subs, Timers} : \A b \in Best(k) :
        b \in Entities /\ \A f \in Offered(k) : Priority[f] <= Priority[b]
  BY DEF Best, Available
<1> HIDE DEF Offered
<1>7. CASE x \in Best(Subs) /\ BeatsTimers(x)
  <2>1. CASE e \in Offered(Subs)
    BY <1>6, <1>7, <2>1
  <2>2. CASE e \in Offered(Timers)
    <3>1. PICK b \in Best(Timers) : Priority[e] <= Priority[b]
      BY <1>2, <2>2
    <3>2. b \in Entities /\ Priority[b] < Priority[x]
      BY <1>6, <1>7 DEF BeatsTimers
    <3>3. QED
      BY <1>3, <1>4, <3>1, <3>2
  <2>3. QED
    BY <1>5, <2>1, <2>2
<1>8. CASE x \in Best(Timers) /\ \A s \in Best(Subs) : ~BeatsTimers(s)
  <2>1. CASE e \in Offered(Timers)
    BY <1>6, <1>8, <2>1
  <2>2. CASE e \in Offered(Subs)
    <3>1. PICK s \in Best(Subs) : Priority[e] <= Priority[s]
      BY <1>2, <2>2
    <3>2. PICK b \in Best(Timers) : ~(Priority[b] < Priority[s])
      BY <1>8, <3>1 DEF BeatsTimers
    <3>3. b \in Offered(Timers) /\ Priority[b] <= Priority[x]
      BY <1>6, <1>8, <3>2 DEF Best, Offered
    <3>4. b \in Entities /\ s \in Entities
      BY <1>6, <3>1, <3>2
    <3>5. QED
      BY <1>3, <1>4, <3>1, <3>2, <3>3, <3>4
  <2>3. QED
    BY <1>5, <2>1, <2>2
<1>9. QED
  BY <1>7, <1>8

(* With priorities no timer is in the hands of two threads, for all groups *)
(* and numbers of threads; without them the modelled executor has          *)
(* subscriptions only (multi_threaded_executor.cpp: guard against multiple *)
(* threads getting the same timer).                                        *)
THEOREM TimersRunOnce == PicasSpec => []TimersOnce
<1>1. PicasInv => TimersOnce
  <2> SUFFICES ASSUME PicasInv PROVE TimersOnce
    OBVIOUS
  <2>1. CASE callback_priority_enabled
    BY <2>1 DEF PicasInv, PriorityInv, TimersInv, TimersOnce
  <2>2. CASE ~callback_priority_enabled
    <3>1. \A t \in Threads : Holds(t) => any_exec[t] \in Subs
      BY <2>2 DEF PicasInv, ExclusiveInv, TakenInv, HasTaken, Holds
    <3>2. QED
      BY <3>1, PicasAssumption DEF TimersOnce
  <2>3. QED
    BY <2>1, <2>2
<1>2. QED
  BY <1>1, PicasHolds, PTL

(* With finitely many timers and subscriptions, a callback begins only if  *)
(* no other of a higher priority has been ready since before the thread    *)
(* waited, for all priorities, groups and numbers of threads               *)
(* (get_next_ready_executable_from_map: keep only the highest-priority     *)
(* one).                                                                   *)
THEOREM HighestGoesFirst ==
  ASSUME IsFiniteSet(Entities)
  PROVE  PicasSpec => HighestFirst
<1> DEFINE Turn ==
      \A t \in Threads :
        callback_priority_enabled /\ at[t] = "again" /\ at'[t] = "run" =>
          \A e \in waiting : Priority[e] <= Priority[any_exec'[t]]
<1>1. PicasInv /\ [PicasNext]_allVars => [Turn]_allVars
  <2> SUFFICES ASSUME PicasInv, PicasNext, callback_priority_enabled,
                      NEW t \in Threads, at[t] = "again", at'[t] = "run",
                      NEW e \in waiting
               PROVE  Priority[e] <= Priority[any_exec'[t]]
    OBVIOUS
  <2> USE DEF PriorityTypes, Go
  <2>1. PriorityTypes /\ MutexInv /\ WaitingInv
    BY DEF PicasInv, PriorityInv
  <2>2. e \in Available(handles) /\ handles \subseteq Entities
    BY <2>1 DEF WaitingInv
  <2>3. \E u \in Threads : PriorityStep(u)
    <3>1. ~(Spin \/ Cancel \/ CancelTrigger)
      BY <2>1 DEF Spin, Cancel, CancelTrigger
    <3>2. ~Publishing
      BY DEF Publishing, execVars
    <3>3. \A tm \in Timers : ~Expire(tm)
      BY DEF Expire, vars, execVars
    <3>4. QED
      BY <3>1, <3>2, <3>3 DEF PicasNext, PicasStep
  <2>4. PICK u \in Threads : PriorityStep(u)
    BY <2>3
  <2>5. \/ \E s \in Subs : SelectSub(t, s)
        \/ \E tm \in Timers : SelectTimer(t, tm)
    <3>1. ~(Lock(u) \/ Exit(u) \/ GiveUp(u))
      BY <2>1 DEF Lock, Exit, GiveUp
    <3>2. ~(CollectAll(u) \/ WaitReturns(u) \/ KeepReady(u))
      BY <2>1 DEF CollectAll, WaitReturns, KeepReady
    <3>3. ~(Call(u) \/ ReleaseGroup(u) \/ Unschedule(u))
      BY <2>1 DEF Call, ReleaseGroup, Unschedule
    <3>4. ~(DiscardAny(u) \/ InterruptWait(u))
      BY <2>1 DEF DiscardAny, InterruptWait, Done
    <3>5. \A tm \in Timers : ~SkipTimer(u, tm)
      BY <2>1 DEF SkipTimer
    <3>6. ASSUME NEW s \in Subs, SelectSub(u, s) PROVE u = t
      BY <2>1, <3>6 DEF SelectSub
    <3>7. ASSUME NEW tm \in Timers, SelectTimer(u, tm) PROVE u = t
      BY <2>1, <3>7 DEF SelectTimer
    <3>8. QED
      BY <2>4, <3>1, <3>2, <3>3, <3>4, <3>5, <3>6, <3>7 DEF PriorityStep
  <2>6. ASSUME NEW s \in Subs, SelectSub(t, s) PROVE Priority[e] <= Priority[any_exec'[t]]
    <3>1. any_exec'[t] = s /\ s \in Best(Subs) /\ BeatsTimers(s)
      BY <2>1, <2>6 DEF SelectSub
    <3>2. QED
      BY <2>2, <3>1, SelectedIsHighest
  <2>7. ASSUME NEW tm \in Timers, SelectTimer(t, tm)
        PROVE  Priority[e] <= Priority[any_exec'[t]]
    <3>1. any_exec'[t] = tm /\ tm \in Best(Timers) /\ \A s \in Best(Subs) : ~BeatsTimers(s)
      BY <2>1, <2>7 DEF SelectTimer
    <3>2. QED
      BY <2>2, <3>1, SelectedIsHighest
  <2>8. QED
    BY <2>5, <2>6, <2>7
<1>2. QED
  BY <1>1, PicasHolds, PTL DEF PicasSpec, HighestFirst

-----------------------------------------------------------------------------
(* A thread marks a group only when it is free, and releases its own. *)
LEMMA ReleasesStep ==
  ASSUME LosersShareGroup, PriorityTypes, ReleasesInv, [PicasNext]_allVars
  PROVE  ReleasesInv'
<1> USE PicasAssumption, ExecutorAssumption DEF PriorityTypes, ReleasesInv, Holds, Go
<1>1. CASE (Spin \/ Cancel \/ CancelTrigger) /\ UNCHANGED picasVars
  BY <1>1 DEF Spin, Cancel, CancelTrigger, picasVars
<1>2. CASE UNCHANGED <<execVars, picasVars>>
  BY <1>2 DEF execVars, picasVars
<1>3. ASSUME NEW tm \in Timers, Expire(tm) PROVE ReleasesInv'
  BY <1>3 DEF Expire, vars, execVars
<1>4. ASSUME NEW t \in Threads, PriorityStep(t) PROVE ReleasesInv'
  <2>1. CASE (Lock(t) \/ Exit(t)) /\ UNCHANGED picasVars
    BY <2>1 DEF Lock, Exit, picasVars
  <2>2. CASE GiveUp(t) /\ UNCHANGED callback_group
    BY <2>2 DEF GiveUp
  <2>3. CASE CollectAll(t) \/ WaitReturns(t) \/ KeepReady(t)
    BY <2>3 DEF CollectAll, WaitReturns, KeepReady, picasVars
  <2>4. ASSUME NEW s \in Subs, SelectSub(t, s) PROVE ReleasesInv'
    <3>1. s \in Entities /\ Group[s] \notin busy
      BY <2>4 DEF SelectSub, Best, Available, Entities
    <3>2. QED
      BY <2>4, <3>1 DEF SelectSub, InUse
  <2>5. ASSUME NEW tm \in Timers, SelectTimer(t, tm) PROVE ReleasesInv'
    <3>1. PICK g \in GroupsLeft(tm) :
            /\ callback_group' = [callback_group EXCEPT ![t] = g]
            /\ busy' = InUse(g)
      BY <2>5 DEF SelectTimer
    <3>2. tm \in Best(Timers) /\ \A s \in Best(Subs) : ~BeatsTimers(s)
      BY <2>5 DEF SelectTimer
    <3>3. tm \in Entities /\ Group[tm] \notin busy
      BY <3>2 DEF Best, Available, Entities
    <3>4. g \notin busy /\ (Group[tm] \in Exclusive => g = Group[tm])
      <4>1. CASE g = Group[tm]
        BY <3>3, <4>1
      <4>2. ASSUME NEW s \in Best(Subs), g = Group[s]
            PROVE  g \notin busy /\ (Group[tm] \in Exclusive => g = Group[tm])
        <5>1. s \in Subs /\ Group[s] \notin busy
          BY DEF Best, Available
        <5>2. PICK b \in Best(Timers) : ~(Priority[b] < Priority[s])
          BY <3>2 DEF BeatsTimers
        <5>3. Priority[b] <= Priority[tm]
          BY <3>2, <5>2 DEF Best
        <5>4. Priority[b] \in Nat /\ Priority[tm] \in Nat /\ Priority[s] \in Nat
          BY <3>3, <5>1, <5>2 DEF Best, Available, Entities
        <5>5. Priority[s] <= Priority[tm]
          BY <5>2, <5>3, <5>4
        <5>6. QED
          BY <4>2, <5>1, <5>5 DEF LosersShareGroup
      <4>3. QED
        BY <3>1, <4>1, <4>2 DEF GroupsLeft
    <3>5. /\ at' = [at EXCEPT ![t] = "run"]
          /\ any_exec' = [any_exec EXCEPT ![t] = tm]
      BY <2>5 DEF SelectTimer
    <3>6. QED
      BY <3>1, <3>3, <3>4, <3>5 DEF InUse
  <2>6. ASSUME NEW tm \in Timers, SkipTimer(t, tm) PROVE ReleasesInv'
    BY <2>6 DEF SkipTimer
  <2>7. CASE Call(t)
    BY <2>7 DEF Call
  <2>8. CASE Unschedule(t)
    BY <2>8 DEF Unschedule
  <2>9. CASE ReleaseGroup(t)
    BY <2>9 DEF ReleaseGroup, picasVars
  <2>10. CASE DiscardAny(t) \/ InterruptWait(t)
    <3>1. /\ busy' = busy /\ at'[t] \notin {"run", "callback"}
          /\ \A u \in Threads \ {t} :
               /\ at'[u] = at[u] /\ any_exec'[u] = any_exec[u]
               /\ callback_group'[u] = callback_group[u]
      BY <2>10 DEF DiscardAny, InterruptWait, Done
    <3>2. QED
      BY <3>1
  <2>11. QED
    BY <1>4, <2>1, <2>2, <2>3, <2>4, <2>5, <2>6, <2>7, <2>8, <2>9, <2>10 DEF PriorityStep
<1>5. QED
  BY <1>1, <1>2, <1>3, <1>4 DEF PicasNext, PicasStep, Publishing, allVars, vars

(* Two callbacks of one mutually exclusive group never overlap in an       *)
(* executor with priorities either, if a subscription that loses to a      *)
(* timer of a mutually exclusive group is in that group, for all           *)
(* priorities and numbers of threads (get_next_ready_executable_from_map,  *)
(* whose scans leave the group of a losing candidate in any_exec).         *)
THEOREM PrioritiesExclude ==
  ASSUME LosersShareGroup
  PROVE  PicasSpec => []ExclusiveGroups
<1> DEFINE Released == callback_priority_enabled => ReleasesInv
<1>1. PicasInit => Released
  BY DEF PicasInit, Init, ReleasesInv, Holds
<1>2. PicasInv /\ Released /\ [PicasNext]_allVars => Released'
  <2> SUFFICES ASSUME PicasInv, Released, [PicasNext]_allVars,
                      callback_priority_enabled'
               PROVE  ReleasesInv'
    OBVIOUS
  <2>1. callback_priority_enabled
    BY WithoutPriorities
  <2>2. QED
    BY <2>1, ReleasesStep DEF PicasInv, PriorityInv
<1>3. PicasInv /\ Released => ExclusiveGroups
  <2> SUFFICES ASSUME PicasInv, Released, callback_priority_enabled
               PROVE  ExclusiveGroups
    BY DEF PicasInv, ExclusiveInv
  <2>1. QED
    BY DEF ReleasesInv, ExclusiveGroups
<1> HIDE DEF Released
<1>4. QED
  BY <1>1, <1>2, <1>3, PicasHolds, PTL DEF PicasSpec

=============================================================================

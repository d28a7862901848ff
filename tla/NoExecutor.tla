------------------------------ MODULE NoExecutor ------------------------------
(***************************************************************************)
(* NoExecutor (rclcpp-rtss25, rclcpp/executors/no_executor.cpp): there is  *)
(* no loop that waits.  A middleware listener or the signal handler of the *)
(* timers dispatches each executable itself, to a thread popped from the   *)
(* stack of idle threads or to a new one; the thread runs it, and pushes   *)
(* itself again.                                                           *)
(***************************************************************************)
EXTENDS StackAtomic, FiniteSets

CONSTANTS
  Subs,       (* subscriptions                                            *)
  Timers,     (* timers                                                   *)
  Group,      (* the callback group of each of them                       *)
  Exclusive,  (* the groups of type MutuallyExclusive                     *)
  depth       (* of the history of a subscription                         *)

Sources == Subs \cup Timers

ASSUME NoExecutorAssumption == depth \in Nat \ {0} /\ NULL \notin Sources

VARIABLES
  started,     (* NoExecutor::started, and "over" after stop()            *)
  unread,      (* messages in the history of a subscription               *)
  missed,      (* history: announcements made while it was not started    *)
  todo,        (* what a dispatcher is still to dispatch                  *)
  doing,       (* the executable in assign_or_create                      *)
  idle_thread, (* the thread that assign_or_create has popped             *)
  at,          (* where a thread is in thread_start                       *)
  is_busy,     (* ThreadDataNoExec::is_busy                               *)
  executable,  (* ThreadDataNoExec::executable                            *)
  locked       (* callback_group_mutex of a group is locked               *)

dispatchVars == <<todo, doing, idle_thread>>
threadVars == <<at, is_busy, executable, locked>>
vars == <<stackVars, started, unread, missed, dispatchVars, threadVars>>

Init ==
  /\ StackInit
  /\ started = "no"
  /\ unread = [s \in Subs |-> 0] /\ missed = [s \in Subs |-> 0]
  /\ todo = [p \in Poppers |-> {}] /\ doing = [p \in Poppers |-> NULL]
  /\ idle_thread = [p \in Poppers |-> NULL]
  /\ at = [t \in Threads |-> "none"] /\ is_busy = [t \in Threads |-> FALSE]
  /\ executable = [t \in Threads |-> NULL]
  /\ locked = {}

Ready(p) == todo[p] = {} /\ doing[p] = NULL /\ idle_thread[p] = NULL

(* Condition.  wait_on looks at the value at least once a tick, so that it *)
(* returns when the value is set, whether or not the event is seen.        *)
set_val(t, val) == is_busy' = [is_busy EXCEPT ![t] = val]
wait_on(t) == is_busy[t]

(* Bound: a dispatch begins only while a thread is left for it. *)
Engaged(t) == at[t] \notin {"none", "wait"} \/ is_busy[t]
Dispatching ==
  {x \in Poppers \X (Sources \cup {NULL}) :
     x[2] \in todo[x[1]] \/ (x[2] = NULL /\ (doing[x[1]] # NULL \/ idle_thread[x[1]] # NULL))}
Room(n) ==
  Cardinality({t \in Threads : Engaged(t)}) + Cardinality(Dispatching) + n
    <= Cardinality(Threads)

-----------------------------------------------------------------------------
(* spin() is start(), a sleep until the context is shut down, and stop(). *)
Start ==
  /\ started = "no"
  /\ started' = "yes"
  /\ UNCHANGED <<stackVars, unread, missed, dispatchVars, threadVars>>

Stop ==
  /\ started = "yes"
  /\ started' = "over"
  /\ UNCHANGED <<stackVars, unread, missed, dispatchVars, threadVars>>

(* A message is stored and announced; handle_subscription ignores the      *)
(* announcement unless the executor is started.                            *)
handle_subscription(p, s) ==
  /\ Ready(p) /\ Room(1)
  /\ unread' = [unread EXCEPT ![s] = IF @ = depth THEN @ ELSE @ + 1]
  /\ \/ /\ started = "yes"
        /\ todo' = [todo EXCEPT ![p] = {s}]
        /\ UNCHANGED missed
     \/ /\ started # "yes"
        /\ missed' = [missed EXCEPT ![s] = IF @ = depth THEN @ ELSE @ + 1]
        /\ UNCHANGED todo
  /\ UNCHANGED <<stackVars, started, doing, idle_thread, threadVars>>

(* The signal of any timer dispatches every timer that is not canceled. *)
handle_timer(p) ==
  /\ Ready(p)
  /\ started = "yes"
  /\ \E active \in SUBSET Timers \ {{}} :
       /\ Room(Cardinality(active))
       /\ todo' = [todo EXCEPT ![p] = active]
  /\ UNCHANGED <<stackVars, started, unread, missed, doing, idle_thread, threadVars>>

-----------------------------------------------------------------------------
(* assign_or_create: an idle thread is popped and given the executable, or *)
Pop(p, s) ==
  /\ doing[p] = NULL /\ idle_thread[p] = NULL
  /\ s \in todo[p]
  /\ todo' = [todo EXCEPT ![p] = @ \ {s}]
  /\ doing' = [doing EXCEPT ![p] = s]
  /\ Load(p)
  /\ UNCHANGED <<started, unread, missed, idle_thread, threadVars>>

PopStep(p) ==
  /\ ReadNext(p) \/ Unlink(p) \/ UnlinkFails(p)
  /\ UNCHANGED <<started, unread, missed, dispatchVars, threadVars>>

PopEnds(p) ==
  /\ \E t \in Threads :
       /\ Popped(p, t)
       /\ idle_thread' = [idle_thread EXCEPT ![p] = t]
       /\ executable' = [executable EXCEPT ![t] = doing[p]]
  /\ doing' = [doing EXCEPT ![p] = NULL]
  /\ UNCHANGED <<started, unread, missed, todo, at, is_busy, locked>>

create_thread_Dropped(p) ==
  /\ FoundEmpty(p)
  /\ \/ /\ \A t \in Threads : at[t] = "none"
        /\ \E t \in Threads :
             /\ at' = [at EXCEPT ![t] = "wait"]
             /\ set_val(t, TRUE)
             /\ executable' = [executable EXCEPT ![t] = doing[p]]
     \/ /\ \E t \in Threads : at[t] # "none"
        /\ UNCHANGED <<at, is_busy, executable>>
  /\ doing' = [doing EXCEPT ![p] = NULL]
  /\ UNCHANGED <<started, unread, missed, todo, idle_thread, locked>>

(* ... a new one created with it if there is none; ...                     *)
create_thread(p) ==
  /\ FoundEmpty(p)
  /\ \E t \in Threads :
       /\ at[t] = "none"
       /\ at' = [at EXCEPT ![t] = "wait"]
       /\ set_val(t, TRUE)
       /\ executable' = [executable EXCEPT ![t] = doing[p]]
  /\ doing' = [doing EXCEPT ![p] = NULL]
  /\ UNCHANGED <<started, unread, missed, todo, idle_thread, locked>>

(* ... a popped thread is then woken.                                      *)
SetBusy(p) ==
  /\ idle_thread[p] # NULL
  /\ set_val(idle_thread[p], TRUE)
  /\ idle_thread' = [idle_thread EXCEPT ![p] = NULL]
  /\ UNCHANGED <<stackVars, started, unread, missed, todo, doing, at, executable, locked>>

-----------------------------------------------------------------------------
(* thread_start, by thread t.                                              *)

(* A name with a suffix is a faulty variant of the action that follows.    *)
Execute_AnyGroup(t) ==
  LET s == executable[t] IN
  /\ at[t] = "wait" /\ wait_on(t)
  /\ Group[s] \notin locked
  /\ locked' = locked \cup {Group[s]}
  /\ unread' = [u \in Subs |-> IF u = s /\ unread[u] > 0 THEN unread[u] - 1 ELSE unread[u]]
  /\ at' = [at EXCEPT ![t] = "callback"]
  /\ UNCHANGED <<stackVars, started, missed, dispatchVars, is_busy, executable>>

(* When wait_on returns, execute_executable locks the mutex of a mutually  *)
(* exclusive group, takes a message if the executable is a subscription    *)
(* and there is one, and runs the callback, ...                            *)
Execute(t) ==
  LET s == executable[t] IN
  /\ at[t] = "wait" /\ wait_on(t)
  /\ Group[s] \notin locked
  /\ locked' = locked \cup ({Group[s]} \cap Exclusive)
  /\ unread' = [u \in Subs |-> IF u = s /\ unread[u] > 0 THEN unread[u] - 1 ELSE unread[u]]
  /\ at' = [at EXCEPT ![t] = "callback"]
  /\ UNCHANGED <<stackVars, started, missed, dispatchVars, is_busy, executable>>

(* ... unlocks.  The executable is not read again, and so not kept. *)
Unlock(t) ==
  /\ at[t] = "callback"
  /\ locked' = locked \ {Group[executable[t]]}
  /\ at' = [at EXCEPT ![t] = "done"]
  /\ executable' = [executable EXCEPT ![t] = NULL]
  /\ UNCHANGED <<stackVars, started, unread, missed, dispatchVars, is_busy>>

SetIdle_Kept(t) ==
  /\ at[t] = "done"
  /\ at' = [at EXCEPT ![t] = "push"]
  /\ UNCHANGED <<stackVars, started, unread, missed, dispatchVars, is_busy, executable, locked>>

(* The thread is not busy any more before it is in the stack. *)
SetIdle(t) ==
  /\ at[t] = "done"
  /\ set_val(t, FALSE)
  /\ at' = [at EXCEPT ![t] = "push"]
  /\ UNCHANGED <<stackVars, started, unread, missed, dispatchVars, executable, locked>>

Push(t) ==
  /\ at[t] = "push"
  /\ \/ (NewNode(t) \/ LinkFails(t)) /\ UNCHANGED at
     \/ Link(t) /\ at' = [at EXCEPT ![t] = "wait"]
  /\ UNCHANGED <<started, unread, missed, dispatchVars, is_busy, executable, locked>>

-----------------------------------------------------------------------------
DispatchStep(p) ==
  \/ \E s \in Sources : Pop(p, s)
  \/ PopStep(p) \/ PopEnds(p) \/ create_thread(p) \/ SetBusy(p)

ThreadStep(t) == Unlock(t) \/ SetIdle(t) \/ Push(t)

Next ==
  \/ Start \/ Stop
  \/ \E p \in Poppers :
       \/ handle_timer(p) \/ DispatchStep(p)
       \/ \E s \in Subs : handle_subscription(p, s)
  \/ \E t \in Threads : Execute(t) \/ ThreadStep(t)

Spec == Init /\ [][Next]_vars

-----------------------------------------------------------------------------
(* Correctness.                                                            *)

(* Every variable has its type. *)
TypeOK ==
  /\ StackTypeOK
  /\ started \in {"no", "yes", "over"}
  /\ unread \in [Subs -> 0..depth] /\ missed \in [Subs -> 0..depth]
  /\ todo \in [Poppers -> SUBSET Sources]
  /\ doing \in [Poppers -> Sources \cup {NULL}]
  /\ idle_thread \in [Poppers -> Threads \cup {NULL}]
  /\ at \in [Threads -> {"none", "wait", "callback", "done", "push"}]
  /\ is_busy \in [Threads -> BOOLEAN]
  /\ executable \in [Threads -> Sources \cup {NULL}]
  /\ locked \subseteq Exclusive

(* An idle thread is in one place: once in the stack, or in the hands of   *)
(* one dispatcher.  None is lost, none is given two executables            *)
(* (assign_or_create, thread_start).                                       *)
Places(t) == {i \in 1..Len(order) : data[order[i]] = t}
Holders(t) ==
  {p \in Poppers :
     \/ idle_thread[p] = t
     \/ /\ popping[p] = "won"
        /\ data[cur_head[p]] = t}

IdleOnce ==
  \A t \in Threads :
    Cardinality(Places(t)) + Cardinality(Holders(t))
      = IF at[t] = "wait" /\ ~is_busy[t] THEN 1 ELSE 0

(* Every message that was announced while the executor was started has an  *)
(* executable on its way to take it; only as many as were announced before *)
(* or after may stay behind (handle_subscription).                         *)
Dispatched(s) ==
  {p \in Poppers :
     \/ s \in todo[p] \cup {doing[p]}
     \/ idle_thread[p] # NULL /\ executable[idle_thread[p]] = s}
Assigned(s) == {t \in Threads : is_busy[t] /\ at[t] = "wait" /\ executable[t] = s}

NothingLeft ==
  \A s \in Subs :
    unread[s] <= missed[s] + Cardinality(Dispatched(s)) + Cardinality(Assigned(s))

=============================================================================

---------------------------- MODULE DirectNotify ----------------------------
(***************************************************************************)
(* Intra-process subscriptions of RTExecutor: the callback task of each    *)
(* subscription waits for the event its publishers send it directly, and   *)
(* takes one message per event.  The callback is the one of the            *)
(* experiments (rt_executor_impl.cpp, ours_executor_impl.cpp), which takes *)
(* from the intra-process buffer.                                          *)
(***************************************************************************)
EXTENDS IntraProcess

CONSTANT
  Preempts     (* a callback task runs at once when it is sent an event,  *)
               (* before any publisher runs again                         *)

ASSUME DirectNotifyAssumption ==
  Direct /\ Preempts \in BOOLEAN

VARIABLE
  reader       (* where the callback task of a subscription is            *)

vars == <<intraVars, reader>>

Init == IntraInit /\ reader = [s \in Subs |-> "wait"]

PublisherStep(p) ==
  /\ Preempts => \A s \in Subs : reader[s] = "wait" /\ ~notified[s]
  /\ Notify(p) \/ \E s \in Subs : Publish(p, s)
  /\ UNCHANGED reader

(* run_loop: the event is received. *)
TakeEvent(s) ==
  /\ reader[s] = "wait" /\ notified[s]
  /\ notified' = [notified EXCEPT ![s] = FALSE]
  /\ reader' = [reader EXCEPT ![s] = "ready"]
  /\ UNCHANGED <<size_, publishing>>

(* The callback takes one message and handles it, ... *)
Take(s) ==
  /\ reader[s] = "ready"
  /\ Consume(s)
  /\ reader' = [reader EXCEPT ![s] = "taken"]

(* ... after it has called trigger_guard_condition for the rest, or ... *)
HandleMessage(s) ==
  /\ reader[s] = "taken"
  /\ Retrigger(s)
  /\ reader' = [reader EXCEPT ![s] = "wait"]

(* ... the buffer is empty. *)
FindNothing(s) ==
  /\ reader[s] = "ready"
  /\ size_[s] = 0
  /\ reader' = [reader EXCEPT ![s] = "wait"]
  /\ UNCHANGED intraVars

ReaderStep(s) == TakeEvent(s) \/ Take(s) \/ HandleMessage(s) \/ FindNothing(s)

Next ==
  \/ \E p \in Publishers : PublisherStep(p)
  \/ \E s \in Subs : ReaderStep(s)

Spec == Init /\ [][Next]_vars

-----------------------------------------------------------------------------
(* Correctness.                                                            *)

(* Every variable has its type. *)
TypeOK == IntraTypeOK /\ reader \in [Subs -> {"wait", "ready", "taken"}]

(* No message stays behind in the buffer of a subscription whose callback  *)
(* task waits with no event and whose publishers are done                  *)
(* (subscription_intra_process.hpp: if there is data still to be           *)
(* processed, indicate it).                                                *)
NoStranded ==
  \A s \in Subs :
    reader[s] = "wait" /\ ~notified[s] /\ (\A p \in Publishers : publishing[p] # s)
      => size_[s] = 0

=============================================================================

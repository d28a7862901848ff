---------------------------- MODULE IntraProcess ----------------------------
(***************************************************************************)
(* The sending side of intra-process subscriptions                         *)
(* (subscription_intra_process*.hpp): a publisher stores its message in    *)
(* the subscription's buffer and then, in a second step, notifies the      *)
(* reader, through the guard condition of the subscription or, once        *)
(* set_direct_notify_callback has been called, by RTEMS_EVENT_1 to its     *)
(* callback task.  Of a buffer only its length is kept: BoundedQueue and   *)
(* RingBuffer say what is in it.                                           *)
(***************************************************************************)
EXTENDS Integers

CONSTANTS
  Subs,        (* subscriptions                                           *)
  Publishers,  (* tasks that publish                                      *)
  capacity_,   (* depth of every subscription's buffer                    *)
  Direct,      (* direct_notify_callback_ is set                          *)
  NONE         (* no subscription                                         *)

ASSUME IntraProcessAssumption ==
  capacity_ \in Nat \ {0} /\ Direct \in BOOLEAN /\ NONE \notin Subs

VARIABLES
  size_,       (* messages in the buffer of a subscription                *)
  notified,    (* its guard condition is triggered, its event is pending  *)
  publishing   (* the subscription a publisher has yet to notify          *)

intraVars == <<size_, notified, publishing>>

IntraInit ==
  /\ size_ = [s \in Subs |-> 0]
  /\ notified = [s \in Subs |-> FALSE]
  /\ publishing = [p \in Publishers |-> NONE]

IntraTypeOK ==
  /\ size_ \in [Subs -> 0..capacity_]
  /\ notified \in [Subs -> BOOLEAN]
  /\ publishing \in [Publishers -> Subs \cup {NONE}]

(* A name with a suffix is a faulty variant of the action that follows.    *)

Publish_NoOverwrite(p, s) ==
  /\ publishing[p] = NONE
  /\ size_' = [size_ EXCEPT ![s] = @ + 1]
  /\ publishing' = [publishing EXCEPT ![p] = s]
  /\ UNCHANGED notified

(* provide_intra_process_message: the message is stored, over the oldest   *)
(* one if the buffer is full, ...                                          *)
Publish(p, s) ==
  /\ publishing[p] = NONE
  /\ size_' = [size_ EXCEPT ![s] = IF @ = capacity_ THEN @ ELSE @ + 1]
  /\ publishing' = [publishing EXCEPT ![p] = s]
  /\ UNCHANGED notified

Notify_WhenFirst(p) ==
  /\ publishing[p] # NONE
  /\ notified' = [notified EXCEPT ![publishing[p]] = @ \/ size_[publishing[p]] = 1]
  /\ publishing' = [publishing EXCEPT ![p] = NONE]
  /\ UNCHANGED size_

(* ... then trigger_guard_condition or, if there is one, the direct        *)
(* callback of invoke_on_new_message notifies the reader.                  *)
Notify(p) ==
  /\ publishing[p] # NONE
  /\ notified' = [notified EXCEPT ![publishing[p]] = TRUE]
  /\ publishing' = [publishing EXCEPT ![p] = NONE]
  /\ UNCHANGED size_

(* take_data takes the oldest message, ... *)
Consume(s) ==
  /\ size_[s] > 0
  /\ size_' = [size_ EXCEPT ![s] = @ - 1]
  /\ UNCHANGED <<notified, publishing>>

Retrigger_Forgotten(s) == UNCHANGED intraVars

(* ... then triggers the guard condition if there is another, which does   *)
(* nothing when notification is direct.                                    *)
Retrigger(s) ==
  /\ notified' = [notified EXCEPT ![s] = @ \/ (~Direct /\ size_[s] > 0)]
  /\ UNCHANGED <<size_, publishing>>

=============================================================================

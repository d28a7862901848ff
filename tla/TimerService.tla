---------------------------- MODULE TimerService ----------------------------
(***************************************************************************)
(* What /dev/rtss_timer promises the program that opens it, with the       *)
(* hardware timer, the clock and the interrupt multiplexing left out: a    *)
(* channel is armed for one task or for none, a task gets RTEMS_EVENT_1    *)
(* only from a channel armed for it while the device is open, and closing  *)
(* the device leaves nothing armed.  RtssTimer implements this module;     *)
(* RTExecutor is built on it.                                              *)
(***************************************************************************)

CONSTANTS
  Channels,  (* the timer channels of the device                    *)
  Tasks,     (* RTEMS task ids a channel can notify                 *)
  NONE       (* RTEMS_ID_NONE                                       *)

ASSUME TimerServiceAssumption == NONE \notin Tasks

VARIABLES
  opened,    (* drv.opened                                          *)
  armed,     (* the task each channel notifies when it expires      *)
  events     (* RTEMS_EVENT_1 pending at a task; sends coalesce     *)

serviceVars == <<opened, armed, events>>

ServiceTypeOK ==
  /\ opened \in BOOLEAN
  /\ armed \in [Channels -> Tasks \cup {NONE}]
  /\ events \in [Tasks -> BOOLEAN]

ServiceInit ==
  /\ opened = FALSE
  /\ armed = [c \in Channels |-> NONE]
  /\ events = [t \in Tasks |-> FALSE]

OpenDevice ==
  /\ ~opened
  /\ opened' = TRUE
  /\ UNCHANGED <<armed, events>>

CloseDevice ==
  /\ opened
  /\ \A c \in Channels : armed[c] = NONE
  /\ opened' = FALSE
  /\ UNCHANGED <<armed, events>>

(* Arming replaces the target; arming for NONE disarms. *)
Arm(c, t) ==
  /\ opened
  /\ armed' = [armed EXCEPT ![c] = t]
  /\ UNCHANGED <<opened, events>>

(* One interrupt serves any set of armed channels. *)
Fire(S) ==
  /\ opened
  /\ \A c \in S : armed[c] # NONE
  /\ events' = [t \in Tasks |-> events[t] \/ \E c \in S : armed[c] = t]
  /\ UNCHANGED <<opened, armed>>

(* rtems_event_receive returns and clears the pending event. *)
Receive(t) ==
  /\ events[t]
  /\ events' = [events EXCEPT ![t] = FALSE]
  /\ UNCHANGED <<opened, armed>>

ServiceNext ==
  \/ OpenDevice
  \/ CloseDevice
  \/ \E c \in Channels, t \in Tasks \cup {NONE} : Arm(c, t)
  \/ \E S \in SUBSET Channels : Fire(S)
  \/ \E t \in Tasks : Receive(t)

ServiceSpec == ServiceInit /\ [][ServiceNext]_serviceVars

=============================================================================

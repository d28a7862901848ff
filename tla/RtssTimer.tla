------------------------------ MODULE RtssTimer ------------------------------
(***************************************************************************)
(* The RTSS timer driver (driver/rtss_timer_driver.c): up to eight         *)
(* periodic channels multiplexed onto the one-shot Cortex-A9 private timer *)
(* (PT).  The thread that holds the device issues ioctls; the interrupt    *)
(* service routine pt_isr runs between any two of its steps, and between   *)
(* the stores of rtss_close, the one operation that clears the channels    *)
(* without masking interrupts.                                             *)
(*                                                                         *)
(* Time is in nanoseconds, scaled down: TickNs is the length of one PT     *)
(* count (10 ns on the board), MaxLoad the largest value of its 32-bit     *)
(* load register, OverflowNs the largest delta whose product with the      *)
(* peripheral clock still fits int64_t.                                    *)
(***************************************************************************)
EXTENDS Integers

CONSTANTS
  Channels,    (* 0 .. RTSS_TIMER_MAX_CHANNELS - 1                        *)
  Tasks,       (* RTEMS task ids                                          *)
  NONE,        (* RTEMS_ID_NONE                                           *)
  INT64_MAX,   (* next_fire_ns of a channel that is not running           *)
  TickNs,      (* nanoseconds per PT count                                *)
  MaxLoad,     (* largest PT load value                                   *)
  OverflowNs,  (* beyond it, ns * PT_PERIPHCLK overflows int64_t          *)
  MIN_PERIOD,  (* RTSS_TIMER_MIN_PERIOD_NS                                *)
  MAX_PERIOD,  (* RTSS_TIMER_MAX_PERIOD_NS                                *)
  SysTickNs,   (* 10^9 / rtems_clock_get_ticks_per_second()               *)
  SysTicks,    (* period_ticks arguments of RTSS_TIMER_SET_PERIOD         *)
  NsPeriods,   (* period_ns arguments of RTSS_TIMER_SET_PERIOD_NS         *)
  MaxDelay,    (* longest time between the two clock reads of one handler *)
  MaxTime      (* bound on the clock                                      *)

(* The ids are real ids, a PT count takes time, the load register spans    *)
(* less time than the overflow bound (42.9 s against 92.2 s), the period   *)
(* range is positive, and the clock stays below INT64_MAX.                 *)
ASSUME RtssAssumption ==
  /\ Channels \subseteq Nat
  /\ NONE \notin Tasks
  /\ INT64_MAX \in Nat /\ MaxTime \in Nat /\ MaxTime < INT64_MAX
  /\ TickNs \in Nat \ {0}
  /\ MaxLoad \in Nat \ {0}
  /\ OverflowNs \in Nat /\ MaxLoad * TickNs <= OverflowNs
  /\ MIN_PERIOD \in Nat \ {0} /\ MAX_PERIOD \in Nat
  /\ SysTickNs \in Nat \ {0}
  /\ SysTicks \subseteq Nat
  /\ NsPeriods \subseteq Int
  /\ MaxDelay \in Nat

(* A period fits int64_t with room for the clock: rtems_interval has 32    *)
(* bits, so period_ns is at most 4.3 * 10^18 of INT64_MAX = 9.2 * 10^18.   *)
ASSUME PeriodAssumption ==
  /\ \A k \in SysTicks : k * SysTickNs + MaxTime < INT64_MAX
  /\ MAX_PERIOD + MaxTime < INT64_MAX

VARIABLES
  now,              (* now_ns()                                           *)
  opened,           (* drv.opened                                         *)
  active,           (* drv.channels[c].active                             *)
  period_ns,        (* drv.channels[c].period_ns                          *)
  next_fire_ns,     (* drv.channels[c].next_fire_ns                       *)
  target_task,      (* drv.channels[c].target_task                        *)
  rtss_isr_fire_ns, (* time stamp of the last event of a channel          *)
  ptOn,             (* PT enabled and still counting                      *)
  ptDue,            (* when the PT count reaches zero                     *)
  irq,              (* PT interrupt latched, pt_isr not yet entered       *)
  hung,             (* pt_isr is in a catch-up loop that never ends       *)
  closing,          (* rtss_close is clearing the channels                *)
  toClear,          (* the stores of rtss_close still to be made          *)
  events,           (* RTEMS_EVENT_1 pending at a task                    *)
  anchor            (* history: the first slot of a channel's schedule    *)

channelVars == <<active, period_ns, next_fire_ns, target_task>>
ptVars == <<ptOn, ptDue, irq>>
closeVars == <<closing, toClear>>
vars == <<now, opened, channelVars, rtss_isr_fire_ns, ptVars, hung, closeVars,
          events, anchor>>

Fields == {"active", "target_task", "next_fire_ns"}

Init ==
  /\ now = 0
  /\ opened = FALSE
  /\ active = [c \in Channels |-> FALSE]
  /\ period_ns = [c \in Channels |-> 0]
  /\ next_fire_ns = [c \in Channels |-> INT64_MAX]
  /\ target_task = [c \in Channels |-> NONE]
  /\ rtss_isr_fire_ns = [c \in Channels |-> 0]
  /\ ptOn = FALSE /\ ptDue = 0 /\ irq = FALSE
  /\ hung = FALSE
  /\ closing = FALSE /\ toClear = {}
  /\ events = [t \in Tasks |-> FALSE]
  /\ anchor = [c \in Channels |-> 0]

-----------------------------------------------------------------------------
(* The hardware.                                                           *)

(* The PT counts down with the clock and latches its interrupt once.       *)
Tick ==
  /\ now < MaxTime
  /\ now' = now + 1
  /\ irq' = (irq \/ (ptOn /\ ptDue = now + 1))
  /\ ptOn' = (ptOn /\ ptDue # now + 1)
  /\ UNCHANGED <<opened, channelVars, rtss_isr_fire_ns, ptDue, hung, closeVars,
                 events, anchor>>

(* The load values ns_to_pt_load can return for a delta of d: truncated to *)
(* whole counts and clamped to 1 .. MaxLoad.  Past OverflowNs the signed   *)
(* product overflows, and any load is possible.                            *)
PtLoads(d) ==
  LET ns == IF d < 1 THEN 1 ELSE d IN
  {l \in 1..MaxLoad :
     \/ ns > OverflowNs
     \/ l = 1 /\ ns < TickNs
     \/ l * TickNs <= ns /\ (l = MaxLoad \/ ns < (l + 1) * TickNs)}

(* find_nearest_expiration starts at INT64_MAX, so it never sees a channel *)
(* whose next_fire_ns has been cleared.                                    *)
Pending(act, nf) == {c \in Channels : act[c] /\ nf[c] < INT64_MAX}

(* rearm_pt at time t.  Disabling and reloading the PT does not recall an  *)
(* interrupt the controller has already latched, nor one that the old      *)
(* count raises before t; it may also be lost with the flag that is        *)
(* cleared.                                                                *)
RearmPt(t, act, nf, latched) ==
  /\ \/ /\ Pending(act, nf) = {}
        /\ ptOn' = FALSE
        /\ UNCHANGED ptDue
     \/ \E c \in Pending(act, nf) :
          /\ \A d \in Pending(act, nf) : nf[c] <= nf[d]
          /\ \E l \in PtLoads(nf[c] - t) : ptDue' = t + l * TickNs
          /\ ptOn' = TRUE
  /\ irq' \in {FALSE, latched \/ (ptOn /\ ptDue <= t)}

(* A handler reads the clock once for its decision and again to re-arm.    *)
SecondReadings == {t \in now..MaxTime : t <= now + MaxDelay}

-----------------------------------------------------------------------------
(* The interrupt service routine.                                          *)

(* Faulty variants, named ..._Bug here and below, show that the properties *)
(* can fail: this one misses a slot that expires exactly now.              *)
Expired_Bug ==
  {c \in Channels : active[c] /\ target_task[c] # NONE /\ next_fire_ns[c] < now}


Expired ==
  {c \in Channels : active[c] /\ target_task[c] # NONE /\ next_fire_ns[c] <= now}

CatchUp_Drift(n, p, t) == t + p
CatchUp_Once(n, p, t) == n + p

(* while (next_fire_ns <= now) next_fire_ns += period_ns                   *)
CatchUp(n, p, t) == n + ((t - n) \div p + 1) * p

Notify(S) ==
  /\ events' = [t \in Tasks |-> events[t] \/ \E c \in S : target_task[c] = t]
  /\ rtss_isr_fire_ns' =
       [c \in Channels |-> IF c \in S THEN now ELSE rtss_isr_fire_ns[c]]

AdvanceSchedule(S) ==
  next_fire_ns' = [c \in Channels |->
                     IF c \in S THEN CatchUp(next_fire_ns[c], period_ns[c], now)
                                ELSE next_fire_ns[c]]

Isr_NoRearm ==
  /\ irq /\ ~hung
  /\ \A c \in Expired : period_ns[c] > 0
  /\ Notify(Expired)
  /\ AdvanceSchedule(Expired)
  /\ irq' = FALSE
  /\ UNCHANGED <<now, opened, active, period_ns, target_task, ptOn, ptDue, hung,
                 closeVars, anchor>>

(* pt_isr with a positive period on every expired channel.                 *)
Isr ==
  /\ irq /\ ~hung
  /\ \A c \in Expired : period_ns[c] > 0
  /\ Notify(Expired)
  /\ AdvanceSchedule(Expired)
  /\ \E t \in SecondReadings :
       /\ now' = t
       /\ RearmPt(t, active, next_fire_ns', FALSE)
  /\ UNCHANGED <<opened, active, period_ns, target_task, hung, closeVars, anchor>>

(* The first expired channel whose period is zero never leaves the catch-  *)
(* up loop; the channels before it have been served.                       *)
IsrHang ==
  /\ irq /\ ~hung
  /\ \E c \in Expired :
       LET served == {d \in Expired : d < c} IN
       /\ period_ns[c] = 0
       /\ \A d \in served : period_ns[d] > 0
       /\ Notify(served \cup {c})
       /\ AdvanceSchedule(served)
  /\ hung' = TRUE
  /\ irq' = FALSE
  /\ UNCHANGED <<now, opened, active, period_ns, target_task, ptOn, ptDue,
                 closeVars, anchor>>

-----------------------------------------------------------------------------
(* The operations of the thread that holds the device.                     *)

Idle == ~hung /\ ~closing

rtss_open ==
  /\ Idle /\ ~opened
  /\ opened' = TRUE
  /\ UNCHANGED <<now, channelVars, rtss_isr_fire_ns, ptVars, hung, closeVars,
                 events, anchor>>

(* A period stored on a running channel takes effect from its next slot.   *)
StorePeriod(c, p) ==
  /\ Idle /\ opened
  /\ period_ns' = [period_ns EXCEPT ![c] = p]
  /\ anchor' = [anchor EXCEPT ![c] = IF active[c] THEN next_fire_ns[c] ELSE @]
  /\ UNCHANGED <<now, opened, active, next_fire_ns, target_task,
                 rtss_isr_fire_ns, ptVars, hung, closeVars, events>>

(* RTSS_TIMER_SET_PERIOD: whole clock ticks, with no range check.          *)
SetPeriod(c, ticks) == StorePeriod(c, ticks * SysTickNs)

SetPeriodNs_Unchecked(c, p) == p <= MAX_PERIOD /\ StorePeriod(c, p)

(* RTSS_TIMER_SET_PERIOD_NS: nanoseconds, range checked.                   *)
SetPeriodNs(c, p) ==
  /\ MIN_PERIOD <= p /\ p <= MAX_PERIOD
  /\ StorePeriod(c, p)

(* RTSS_TIMER_SET_TASK *)
SetTask(c, t) ==
  /\ Idle /\ opened
  /\ target_task' = [target_task EXCEPT ![c] = t]
  /\ UNCHANGED <<now, opened, active, period_ns, next_fire_ns,
                 rtss_isr_fire_ns, ptVars, hung, closeVars, events, anchor>>

Start_NoPeriodCheck(c) ==
  /\ Idle /\ opened
  /\ active' = [active EXCEPT ![c] = TRUE]
  /\ next_fire_ns' = [next_fire_ns EXCEPT ![c] = now + period_ns[c]]
  /\ anchor' = [anchor EXCEPT ![c] = now + period_ns[c]]
  /\ \E t \in SecondReadings :
       /\ now' = t
       /\ RearmPt(t, active', next_fire_ns', irq)
  /\ UNCHANGED <<opened, period_ns, target_task, rtss_isr_fire_ns, hung,
                 closeVars, events>>

(* RTSS_TIMER_START, with interrupts disabled from the first store on.     *)
Start(c) ==
  /\ Idle /\ opened
  /\ period_ns[c] # 0
  /\ active' = [active EXCEPT ![c] = TRUE]
  /\ next_fire_ns' = [next_fire_ns EXCEPT ![c] = now + period_ns[c]]
  /\ anchor' = [anchor EXCEPT ![c] = now + period_ns[c]]
  /\ \E t \in SecondReadings :
       /\ now' = t
       /\ RearmPt(t, active', next_fire_ns', irq)
  /\ UNCHANGED <<opened, period_ns, target_task, rtss_isr_fire_ns, hung,
                 closeVars, events>>

Stop_DisablesPt(c) ==
  /\ Idle /\ opened
  /\ active' = [active EXCEPT ![c] = FALSE]
  /\ next_fire_ns' = [next_fire_ns EXCEPT ![c] = INT64_MAX]
  /\ ptOn' = FALSE
  /\ UNCHANGED <<now, opened, period_ns, target_task, rtss_isr_fire_ns, ptDue,
                 irq, hung, closeVars, events, anchor>>

(* RTSS_TIMER_STOP, with interrupts disabled.                              *)
Stop(c) ==
  /\ Idle /\ opened
  /\ active' = [active EXCEPT ![c] = FALSE]
  /\ next_fire_ns' = [next_fire_ns EXCEPT ![c] = INT64_MAX]
  /\ \E t \in SecondReadings :
       /\ now' = t
       /\ RearmPt(t, active', next_fire_ns', irq)
  /\ UNCHANGED <<opened, period_ns, target_task, rtss_isr_fire_ns, hung,
                 closeVars, events, anchor>>

(* rtss_close clears channel after channel with interrupts enabled: pt_isr *)
(* may run between any two stores, and the compiler is free to choose the  *)
(* order of the three stores of a channel.  Then it disables the PT and    *)
(* gives the device up.                                                    *)
BeginClose ==
  /\ Idle /\ opened
  /\ closing' = TRUE
  /\ toClear' = Channels \X Fields
  /\ UNCHANGED <<now, opened, channelVars, rtss_isr_fire_ns, ptVars, hung,
                 events, anchor>>

ClearField(c, f) ==
  /\ closing /\ ~hung
  /\ <<c, f>> \in toClear
  /\ \A d \in 0..(c - 1), g \in Fields : <<d, g>> \notin toClear
  /\ toClear' = toClear \ {<<c, f>>}
  /\ active' = IF f = "active" THEN [active EXCEPT ![c] = FALSE] ELSE active
  /\ target_task' = IF f = "target_task" THEN [target_task EXCEPT ![c] = NONE]
                                         ELSE target_task
  /\ next_fire_ns' = IF f = "next_fire_ns"
                       THEN [next_fire_ns EXCEPT ![c] = INT64_MAX]
                       ELSE next_fire_ns
  /\ UNCHANGED <<now, opened, period_ns, rtss_isr_fire_ns, ptVars, hung,
                 closing, events, anchor>>

EndClose_PtLeftOn ==
  /\ closing /\ ~hung
  /\ toClear = {}
  /\ opened' = FALSE
  /\ closing' = FALSE
  /\ UNCHANGED <<now, channelVars, rtss_isr_fire_ns, ptVars, hung, toClear,
                 events, anchor>>

EndClose_TooEarly ==
  /\ closing /\ ~hung
  /\ ptOn' = FALSE
  /\ opened' = FALSE
  /\ closing' = FALSE
  /\ UNCHANGED <<now, channelVars, rtss_isr_fire_ns, ptDue, irq, hung, toClear,
                 events, anchor>>


EndClose ==
  /\ closing /\ ~hung
  /\ toClear = {}
  /\ ptOn' = FALSE
  /\ opened' = FALSE
  /\ closing' = FALSE
  /\ UNCHANGED <<now, channelVars, rtss_isr_fire_ns, ptDue, irq, hung, toClear,
                 events, anchor>>

(* A callback task takes its pending event (external: the RTEMS kernel).   *)
TakeEvent(t) ==
  /\ ~hung
  /\ events[t]
  /\ events' = [events EXCEPT ![t] = FALSE]
  /\ UNCHANGED <<now, opened, channelVars, rtss_isr_fire_ns, ptVars, hung,
                 closeVars, anchor>>

Ioctl(c) ==
  \/ \E k \in SysTicks : SetPeriod(c, k)
  \/ \E p \in NsPeriods : SetPeriodNs(c, p)
  \/ \E t \in Tasks \cup {NONE} : SetTask(c, t)
  \/ Start(c)
  \/ Stop(c)

Next ==
  \/ Tick
  \/ Isr
  \/ IsrHang
  \/ rtss_open
  \/ \E c \in Channels : Ioctl(c)
  \/ BeginClose
  \/ \E c \in Channels, f \in Fields : ClearField(c, f)
  \/ EndClose
  \/ \E t \in Tasks : TakeEvent(t)

Spec == Init /\ [][Next]_vars

-----------------------------------------------------------------------------
(* The order of calls that rtss_timer_driver.h documents and RTExecutor    *)
(* follows: period and task are set on a stopped channel, the period is at *)
(* least the minimum, and a channel is started only once it has a task.    *)

FlowIoctl(c) ==
  \/ /\ ~active[c]
     /\ \/ \E k \in SysTicks : k * SysTickNs >= MIN_PERIOD /\ SetPeriod(c, k)
        \/ \E p \in NsPeriods : SetPeriodNs(c, p)
        \/ \E t \in Tasks : SetTask(c, t)
  \/ target_task[c] # NONE /\ Start(c)
  \/ Stop(c)

FlowNext ==
  \/ Tick
  \/ Isr
  \/ IsrHang
  \/ rtss_open
  \/ \E c \in Channels : FlowIoctl(c)
  \/ BeginClose
  \/ \E c \in Channels, f \in Fields : ClearField(c, f)
  \/ EndClose
  \/ \E t \in Tasks : TakeEvent(t)

FlowSpec == Init /\ [][FlowNext]_vars

(* The clock runs and a latched interrupt is taken: nothing in the driver  *)
(* masks interrupts for good.                                              *)
LiveSpec == FlowSpec /\ WF_vars(Tick) /\ WF_vars(Isr)

-----------------------------------------------------------------------------
(* Correctness.                                                            *)

(* Every variable has its type. *)
TypeOK ==
  /\ now \in 0..MaxTime
  /\ opened \in BOOLEAN
  /\ active \in [Channels -> BOOLEAN]
  /\ period_ns \in [Channels -> Nat]
  /\ next_fire_ns \in [Channels -> Nat]
  /\ target_task \in [Channels -> Tasks \cup {NONE}]
  /\ rtss_isr_fire_ns \in [Channels -> 0..MaxTime]
  /\ ptOn \in BOOLEAN /\ ptDue \in Nat /\ irq \in BOOLEAN
  /\ hung \in BOOLEAN
  /\ closing \in BOOLEAN /\ toClear \subseteq Channels \X Fields
  /\ events \in [Tasks -> BOOLEAN]
  /\ anchor \in [Channels -> Nat]

(* A running channel is never forgotten by the hardware: whatever the      *)
(* ioctls and interrupts did, either pt_isr is about to run or the PT is   *)
(* counting towards a moment at most one count after every running         *)
(* channel's next slot, or one count from now if the slot has passed       *)
(* (rearm_pt, find_nearest_expiration, ns_to_pt_load).                     *)
PtArmed ==
  ~hung =>
    \A c \in Pending(active, next_fire_ns) :
      \/ irq
      \/ /\ ptOn
         /\ now < ptDue
         /\ ptDue <= next_fire_ns[c] + TickNs \/ ptDue <= now + TickNs

(* No drift: however late the interrupts come, the next slot of a running  *)
(* channel stays on the grid laid down when it was started, or when its    *)
(* period was last changed (driver header: absolute time prevents          *)
(* cumulative drift).                                                      *)
NoDrift ==
  \A c \in Pending(active, next_fire_ns) :
    /\ anchor[c] <= next_fire_ns[c]
    /\ period_ns[c] > 0 => (next_fire_ns[c] - anchor[c]) % period_ns[c] = 0

(* Missed slots are skipped, none is repeated and none is early: the event *)
(* time stamp the callback task reads lies between the two slots around    *)
(* it, the later of which is the next one (pt_isr's catch-up loop).        *)
SkipsMissed ==
  ~hung =>
    \A c \in Pending(active, next_fire_ns) :
      /\ rtss_isr_fire_ns[c] < next_fire_ns[c]
      /\ rtss_isr_fire_ns[c] >= anchor[c] =>
           next_fire_ns[c] - period_ns[c] <= rtss_isr_fire_ns[c]

(* A closed device is quiet: no channel runs, none has a task, and the PT  *)
(* is off, even if interrupts came while rtss_close was clearing the       *)
(* channels or are still latched after it.                                 *)
ClosedQuiet ==
  ~opened => /\ ~ptOn
             /\ \A c \in Channels : ~active[c] /\ target_task[c] = NONE

(* One interrupt is enough: pt_isr moves the slot of every running channel *)
(* that has expired past the time it read, so the PT is never re-armed for *)
(* a slot it was just raised for (driver header: for each active channel,  *)
(* advance next_fire_ns).  Holds under the documented order of calls until *)
(* rtss_close begins.                                                      *)
IsrServesAll ==
  [][Isr /\ ~closing =>
       \A c \in Channels : active[c] => now < next_fire_ns'[c]]_vars

(* Under the documented order of calls pt_isr always returns.              *)
IsrReturns == ~hung

(* A slot that has come is served, or its channel stopped: it does not     *)
(* stay in the past, provided the PT is not re-armed by ioctls for ever.   *)
(* Left out is only a slot whose last PT count ends after the clock's      *)
(* bound (pt_isr, rearm_pt).                                               *)
Due(c, slot) == active[c] /\ next_fire_ns[c] = slot /\ slot <= now

PastBound == ptOn /\ MaxTime < ptDue /\ ptDue <= now + TickNs

DueIsServed ==
  <>[][\A c \in Channels : ~Start(c) /\ ~Stop(c)]_vars =>
    \A c \in Channels, slot \in 0..MaxTime :
      Due(c, slot) ~> ~Due(c, slot) \/ PastBound

(* What the driver promises its user, stated in TimerService: a channel is *)
(* armed for its target while it runs and has a next slot.                 *)
Armed == [c \in Channels |-> IF c \in Pending(active, next_fire_ns)
                               THEN target_task[c] ELSE NONE]

Service == INSTANCE TimerService WITH armed <- Armed

(* The driver implements TimerService: with interrupts between any two     *)
(* stores, a task is notified only by an open device's channel that is     *)
(* armed for it, and a device is given up only with nothing armed.         *)
ImplementsService == Service!ServiceSpec

=============================================================================

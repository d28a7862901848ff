-------------------------- MODULE RtssTimerProofs --------------------------
(***************************************************************************)
(* Theorems about the timer driver, for any number of channels and tasks,  *)
(* any clock bound and any admissible hardware parameters.                 *)
(***************************************************************************)
EXTENDS RtssTimer, TLAPS

(* Catching up lands on the first slot after now: the schedule moves by a  *)
(* whole number of periods, at least one, and by no more than is needed.   *)
LEMMA CatchUpFacts ==
  ASSUME NEW n \in Nat, NEW p \in Nat \ {0}, NEW t \in Nat, n <= t
  PROVE  /\ CatchUp(n, p, t) \in Nat
         /\ CatchUp(n, p, t) > t
         /\ CatchUp(n, p, t) - p <= t
<1> DEFINE q == (t - n) \div p
<1>1. q \in Nat /\ q * p <= t - n /\ t - n < (q + 1) * p
  OBVIOUS
<1>2. CatchUp(n, p, t) = n + (q + 1) * p
  BY DEF CatchUp
<1>3. (q + 1) * p \in Nat /\ (q + 1) * p = q * p + p
  BY <1>1
<1> HIDE DEF q
<1>4. QED
  BY <1>1, <1>2, <1>3

(* Every load value the driver can compute is a positive count that ends   *)
(* no later than the slot it is computed for, or after a single count.     *)
LEMMA PtLoadFacts ==
  ASSUME NEW d \in Int, NEW l \in PtLoads(d)
  PROVE  /\ l \in Nat \ {0}
         /\ l * TickNs \in Nat /\ l * TickNs > 0
         /\ l * TickNs <= d \/ l * TickNs = TickNs
<1> USE RtssAssumption
<1> DEFINE ns == IF d < 1 THEN 1 ELSE d
<1>1. l \in 1..MaxLoad /\ ns \in Nat
  BY DEF PtLoads
<1>2. l * TickNs \in Nat /\ l * TickNs > 0 /\ l * TickNs <= MaxLoad * TickNs
  BY <1>1
<1>3. l * TickNs <= ns \/ l = 1
  BY <1>1, <1>2 DEF PtLoads
<1>4. CASE l = 1
  BY <1>1, <1>2, <1>4
<1>5. CASE l # 1 /\ l * TickNs <= ns
  <2>1. l * TickNs > TickNs
    BY <1>1, <1>5
  <2>2. ns # 1
    BY <2>1, <1>5, <1>1
  <2> QED BY <2>2, <1>1, <1>2, <1>5
<1> QED BY <1>3, <1>4, <1>5


-----------------------------------------------------------------------------
(* What re-arming the PT establishes at time t.                            *)

(* The PT registers keep their types. *)
LEMMA RearmTypes ==
  ASSUME NEW t \in Nat,
         NEW act \in [Channels -> BOOLEAN], NEW nf \in [Channels -> Nat],
         NEW latched \in BOOLEAN,
         TypeOK, RearmPt(t, act, nf, latched)
  PROVE  ptOn' \in BOOLEAN /\ ptDue' \in Nat /\ irq' \in BOOLEAN
<1>1. irq' \in BOOLEAN
  BY DEF RearmPt, TypeOK
<1>2. CASE Pending(act, nf) = {} /\ ptOn' = FALSE /\ UNCHANGED ptDue
  BY <1>1, <1>2 DEF TypeOK
<1>3. ASSUME NEW c \in Pending(act, nf),
             NEW l \in PtLoads(nf[c] - t), ptDue' = t + l * TickNs, ptOn' = TRUE
      PROVE  ptOn' \in BOOLEAN /\ ptDue' \in Nat
  <2>1. nf[c] - t \in Int
    BY DEF Pending
  <2>2. QED
    BY <1>3, <2>1, PtLoadFacts
<1>4. QED
  BY <1>1, <1>2, <1>3 DEF RearmPt

(* The type invariant is preserved by every step. *)
LEMMA TypeStep == TypeOK /\ [Next]_vars => TypeOK'
<1> SUFFICES ASSUME TypeOK, [Next]_vars PROVE TypeOK'
  OBVIOUS
<1> USE RtssAssumption
<1>1. CASE Tick
  BY <1>1 DEF Tick, TypeOK, channelVars, closeVars
<1>2. CASE Isr
  <2>1. PICK t \in SecondReadings :
          now' = t /\ RearmPt(t, active, next_fire_ns', FALSE)
    BY <1>2 DEF Isr
  <2>2. next_fire_ns' \in [Channels -> Nat]
    <3>1. \A c \in Expired : CatchUp(next_fire_ns[c], period_ns[c], now) \in Nat
      BY <1>2, CatchUpFacts DEF Isr, Expired, TypeOK
    <3>2. QED
      BY <1>2, <3>1 DEF Isr, AdvanceSchedule, TypeOK
  <2>3. t \in Nat /\ t \in 0..MaxTime
    BY DEF SecondReadings, TypeOK
  <2>4. ptOn' \in BOOLEAN /\ ptDue' \in Nat /\ irq' \in BOOLEAN
    BY <2>1, <2>2, <2>3, RearmTypes DEF TypeOK
  <2>5. /\ events' \in [Tasks -> BOOLEAN]
        /\ rtss_isr_fire_ns' \in [Channels -> 0..MaxTime]
    BY <1>2 DEF Isr, Notify, TypeOK
  <2>6. QED
    BY <1>2, <2>1, <2>2, <2>3, <2>4, <2>5 DEF Isr, TypeOK, closeVars
<1>3. CASE IsrHang
  <2>1. PICK c \in Expired :
          /\ \A d \in {e \in Expired : e < c} : period_ns[d] > 0
          /\ Notify({e \in Expired : e < c} \cup {c})
          /\ AdvanceSchedule({e \in Expired : e < c})
    BY <1>3 DEF IsrHang
  <2>2. next_fire_ns' \in [Channels -> Nat]
    <3>1. \A d \in {e \in Expired : e < c} :
            CatchUp(next_fire_ns[d], period_ns[d], now) \in Nat
      BY <2>1, CatchUpFacts DEF Expired, TypeOK
    <3>2. QED
      BY <2>1, <3>1 DEF AdvanceSchedule, TypeOK
  <2>3. /\ events' \in [Tasks -> BOOLEAN]
        /\ rtss_isr_fire_ns' \in [Channels -> 0..MaxTime]
    BY <2>1 DEF Notify, TypeOK
  <2>4. QED
    BY <1>3, <2>2, <2>3 DEF IsrHang, TypeOK, closeVars
<1>4. CASE rtss_open
  BY <1>4 DEF rtss_open, TypeOK, channelVars, ptVars, closeVars
<1>5. ASSUME NEW c \in Channels, Ioctl(c) PROVE TypeOK'
  <2>1. ASSUME NEW p \in Nat, StorePeriod(c, p) PROVE TypeOK'
    BY <2>1 DEF StorePeriod, TypeOK, ptVars, closeVars
  <2>2. ASSUME NEW k \in SysTicks, SetPeriod(c, k) PROVE TypeOK'
    BY <2>1, <2>2 DEF SetPeriod
  <2>3. ASSUME NEW p \in NsPeriods, SetPeriodNs(c, p) PROVE TypeOK'
    BY <2>1, <2>3 DEF SetPeriodNs
  <2>4. ASSUME NEW t \in Tasks \cup {NONE}, SetTask(c, t) PROVE TypeOK'
    BY <2>4 DEF SetTask, TypeOK, ptVars, closeVars
  <2>5. CASE Start(c)
    <3>1. PICK t \in SecondReadings :
            now' = t /\ RearmPt(t, active', next_fire_ns', irq)
      BY <2>5 DEF Start
    <3>2. /\ active' \in [Channels -> BOOLEAN]
          /\ next_fire_ns' \in [Channels -> Nat]
          /\ anchor' \in [Channels -> Nat]
      BY <2>5 DEF Start, TypeOK
    <3>3. t \in Nat /\ t \in 0..MaxTime
      BY DEF SecondReadings, TypeOK
    <3>4. ptOn' \in BOOLEAN /\ ptDue' \in Nat /\ irq' \in BOOLEAN
      BY <3>1, <3>2, <3>3, RearmTypes DEF TypeOK
    <3>5. QED
      BY <2>5, <3>1, <3>2, <3>3, <3>4 DEF Start, TypeOK, closeVars
  <2>6. CASE Stop(c)
    <3>1. PICK t \in SecondReadings :
            now' = t /\ RearmPt(t, active', next_fire_ns', irq)
      BY <2>6 DEF Stop
    <3>2. /\ active' \in [Channels -> BOOLEAN]
          /\ next_fire_ns' \in [Channels -> Nat]
      BY <2>6 DEF Stop, TypeOK
    <3>3. t \in Nat /\ t \in 0..MaxTime
      BY DEF SecondReadings, TypeOK
    <3>4. ptOn' \in BOOLEAN /\ ptDue' \in Nat /\ irq' \in BOOLEAN
      BY <3>1, <3>2, <3>3, RearmTypes DEF TypeOK
    <3>5. QED
      BY <2>6, <3>1, <3>2, <3>3, <3>4 DEF Stop, TypeOK, closeVars
  <2>7. QED
    BY <1>5, <2>2, <2>3, <2>4, <2>5, <2>6 DEF Ioctl
<1>6. CASE BeginClose
  BY <1>6 DEF BeginClose, TypeOK, channelVars, ptVars
<1>7. ASSUME NEW c \in Channels, NEW f \in Fields, ClearField(c, f)
      PROVE  TypeOK'
  BY <1>7 DEF ClearField, TypeOK, ptVars
<1>8. CASE EndClose
  BY <1>8 DEF EndClose, TypeOK, channelVars
<1>9. ASSUME NEW t \in Tasks, TakeEvent(t) PROVE TypeOK'
  BY <1>9 DEF TakeEvent, TypeOK, channelVars, ptVars, closeVars
<1>10. CASE UNCHANGED vars
  BY <1>10 DEF vars, TypeOK, channelVars, ptVars, closeVars
<1>11. QED
  BY <1>1, <1>2, <1>3, <1>4, <1>5, <1>6, <1>7, <1>8, <1>9, <1>10 DEF Next

(* The initial state is well typed. *)
LEMMA InitType == Init => TypeOK
<1> SUFFICES ASSUME Init PROVE TypeOK
  OBVIOUS
<1>1. 0 \in 0..MaxTime /\ INT64_MAX \in Nat
  BY RtssAssumption
<1>2. /\ now \in 0..MaxTime
      /\ active \in [Channels -> BOOLEAN]
      /\ period_ns \in [Channels -> Nat]
      /\ next_fire_ns \in [Channels -> Nat]
      /\ target_task \in [Channels -> Tasks \cup {NONE}]
      /\ rtss_isr_fire_ns \in [Channels -> 0..MaxTime]
      /\ events \in [Tasks -> BOOLEAN]
      /\ anchor \in [Channels -> Nat]
  BY <1>1 DEF Init
<1>3. QED
  BY <1>2 DEF Init, TypeOK

(* Every variable keeps its type, whatever ioctls the program issues and   *)
(* whenever pt_isr runs.                                                   *)
THEOREM TypeCorrect == Spec => []TypeOK
  BY InitType, TypeStep, PTL DEF Spec


-----------------------------------------------------------------------------
(* A closing device: what still has to be cleared is still in toClear, and *)
(* a closed device has nothing left and the PT off.                        *)
CloseInv ==
  /\ closing => opened
  /\ ~closing => toClear = {}
  /\ ~opened => ~ptOn
  /\ closing \/ ~opened =>
       \A c \in Channels :
         /\ active[c] => <<c, "active">> \in toClear
         /\ target_task[c] # NONE => <<c, "target_task">> \in toClear

(* rtss_close and the interrupts between its stores keep it. *)
LEMMA CloseStep == TypeOK /\ CloseInv /\ [Next]_vars => CloseInv'
<1> SUFFICES ASSUME TypeOK, CloseInv, [Next]_vars PROVE CloseInv'
  OBVIOUS
<1>1. CASE Tick
  BY <1>1 DEF Tick, CloseInv, channelVars, closeVars
<1>2. CASE Isr
  <2>1. PICK t \in SecondReadings : RearmPt(t, active, next_fire_ns', FALSE)
    BY <1>2 DEF Isr
  <2>2. ASSUME ~opened PROVE ptOn' = FALSE
    <3>1. \A c \in Channels : ~active[c]
      BY <2>2 DEF CloseInv
    <3>2. Pending(active, next_fire_ns') = {}
      BY <3>1 DEF Pending
    <3>3. QED
      BY <2>1, <3>2 DEF RearmPt
  <2>3. QED
    BY <1>2, <2>2 DEF Isr, CloseInv, closeVars
<1>3. CASE IsrHang
  BY <1>3 DEF IsrHang, CloseInv, closeVars
<1>4. CASE rtss_open
  BY <1>4 DEF rtss_open, Idle, CloseInv, channelVars, ptVars, closeVars
<1>5. ASSUME NEW c \in Channels, Ioctl(c) PROVE CloseInv'
  BY <1>5 DEF Ioctl, SetPeriod, SetPeriodNs, StorePeriod, SetTask, Start, Stop,
              Idle, CloseInv, ptVars, closeVars
<1>6. CASE BeginClose
  BY <1>6 DEF BeginClose, Idle, Fields, CloseInv, channelVars, ptVars
<1>7. ASSUME NEW c \in Channels, NEW f \in Fields, ClearField(c, f)
      PROVE  CloseInv'
  <2>1. /\ closing /\ opened /\ closing' /\ opened'
        /\ toClear' = toClear \ {<<c, f>>}
    BY <1>7 DEF ClearField, CloseInv
  <2>2. ASSUME NEW d \in Channels, active'[d] PROVE <<d, "active">> \in toClear'
    <3>1. active[d] /\ ~(f = "active" /\ d = c)
      BY <1>7, <2>2 DEF ClearField, TypeOK
    <3>2. QED
      BY <2>1, <3>1 DEF CloseInv
  <2>3. ASSUME NEW d \in Channels, target_task'[d] # NONE
        PROVE  <<d, "target_task">> \in toClear'
    <3>1. target_task[d] # NONE /\ ~(f = "target_task" /\ d = c)
      BY <1>7, <2>3 DEF ClearField, TypeOK
    <3>2. QED
      BY <2>1, <3>1 DEF CloseInv
  <2>4. QED
    BY <2>1, <2>2, <2>3 DEF CloseInv
<1>8. CASE EndClose
  BY <1>8 DEF EndClose, CloseInv, channelVars
<1>9. ASSUME NEW t \in Tasks, TakeEvent(t) PROVE CloseInv'
  BY <1>9 DEF TakeEvent, CloseInv, channelVars, ptVars, closeVars
<1>10. CASE UNCHANGED vars
  BY <1>10 DEF vars, CloseInv, channelVars, ptVars, closeVars
<1>11. QED
  BY <1>1, <1>2, <1>3, <1>4, <1>5, <1>6, <1>7, <1>8, <1>9, <1>10 DEF Next

(* A closed device runs no channel, keeps no target and leaves the PT off. *)
THEOREM ClosedDeviceIsQuiet == Spec => []ClosedQuiet
<1>1. Init => CloseInv
  BY DEF Init, CloseInv
<1>2. CloseInv => ClosedQuiet
  BY DEF CloseInv, ClosedQuiet
<1>3. QED
  BY <1>1, <1>2, CloseStep, TypeCorrect, PTL DEF Spec

-----------------------------------------------------------------------------
(* Re-arming at time t leaves the PT counting towards a moment that suits  *)
(* every pending channel.                                                  *)
LEMMA RearmArms ==
  ASSUME NEW t \in Nat,
         NEW act \in [Channels -> BOOLEAN], NEW nf \in [Channels -> Nat],
         NEW latched \in BOOLEAN,
         RearmPt(t, act, nf, latched),
         NEW c \in Pending(act, nf)
  PROVE  /\ ptOn'
         /\ t < ptDue'
         /\ ptDue' <= nf[c] + TickNs \/ ptDue' <= t + TickNs
<1> USE RtssAssumption
<1>1. PICK d \in Pending(act, nf) :
        /\ \A e \in Pending(act, nf) : nf[d] <= nf[e]
        /\ \E l \in PtLoads(nf[d] - t) : ptDue' = t + l * TickNs
        /\ ptOn' = TRUE
  BY DEF RearmPt
<1>2. nf[d] \in Nat /\ nf[c] \in Nat /\ nf[d] <= nf[c]
  BY <1>1 DEF Pending
<1>3. PICK l \in PtLoads(nf[d] - t) : ptDue' = t + l * TickNs
  BY <1>1
<1>4. /\ l * TickNs \in Nat /\ l * TickNs > 0
      /\ l * TickNs <= nf[d] - t \/ l * TickNs = TickNs
  BY <1>2, PtLoadFacts
<1>5. QED
  BY <1>1, <1>2, <1>3, <1>4

(* Every step leaves each running channel to the PT or to a latched irq. *)
LEMMA PtArmedStep ==
  TypeOK /\ TypeOK' /\ CloseInv /\ PtArmed /\ [Next]_vars => PtArmed'
<1> SUFFICES ASSUME TypeOK, TypeOK', CloseInv, PtArmed, [Next]_vars, ~hung',
                    NEW c \in Pending(active', next_fire_ns')
             PROVE  \/ irq'
                    \/ /\ ptOn'
                       /\ now' < ptDue'
                       /\ \/ ptDue' <= next_fire_ns'[c] + TickNs
                          \/ ptDue' <= now' + TickNs
  BY DEF PtArmed, Pending
<1> USE RtssAssumption
<1>1. CASE Tick
  <2>1. c \in Pending(active, next_fire_ns)
    BY <1>1 DEF Tick, channelVars, Pending
  <2>2. QED
    BY <1>1, <2>1 DEF Tick, TypeOK, PtArmed, channelVars, Pending
<1>2. ASSUME NEW t \in SecondReadings, NEW l \in BOOLEAN, now' = t,
             RearmPt(t, active', next_fire_ns', l)
      PROVE  /\ ptOn'
             /\ now' < ptDue'
             /\ \/ ptDue' <= next_fire_ns'[c] + TickNs
                \/ ptDue' <= now' + TickNs
  BY <1>2, RearmArms DEF TypeOK, SecondReadings
<1>3. CASE Isr
  <2>1. PICK t \in SecondReadings :
          now' = t /\ RearmPt(t, active', next_fire_ns', FALSE)
    BY <1>3 DEF Isr
  <2>2. QED
    BY <1>2, <2>1
<1>4. CASE IsrHang
  BY <1>4 DEF IsrHang
<1>5. ASSUME UNCHANGED <<now, active, next_fire_ns, ptOn, ptDue, irq, hung>>
      PROVE  \/ irq'
             \/ /\ ptOn'
                /\ now' < ptDue'
                /\ \/ ptDue' <= next_fire_ns'[c] + TickNs
                   \/ ptDue' <= now' + TickNs
  BY <1>5 DEF PtArmed, Pending
<1>6. CASE rtss_open
  BY <1>5, <1>6 DEF rtss_open, channelVars, ptVars
<1>7. ASSUME NEW d \in Channels, Start(d) \/ Stop(d)
      PROVE  \/ irq'
             \/ /\ ptOn'
                /\ now' < ptDue'
                /\ \/ ptDue' <= next_fire_ns'[c] + TickNs
                   \/ ptDue' <= now' + TickNs
  <2>1. PICK t \in SecondReadings :
          now' = t /\ RearmPt(t, active', next_fire_ns', irq)
    BY <1>7 DEF Start, Stop
  <2>2. irq \in BOOLEAN
    BY DEF TypeOK
  <2>3. QED
    BY <1>2, <2>1, <2>2
<1>8. ASSUME NEW d \in Channels, Ioctl(d), ~Start(d), ~Stop(d)
      PROVE  UNCHANGED <<now, active, next_fire_ns, ptOn, ptDue, irq, hung>>
  BY <1>8 DEF Ioctl, SetPeriod, SetPeriodNs, StorePeriod, SetTask, ptVars
<1>9. CASE BeginClose
  BY <1>5, <1>9 DEF BeginClose, channelVars, ptVars
<1>10. ASSUME NEW d \in Channels, NEW f \in Fields, ClearField(d, f)
       PROVE  \/ irq'
              \/ /\ ptOn'
                 /\ now' < ptDue'
                 /\ \/ ptDue' <= next_fire_ns'[c] + TickNs
                    \/ ptDue' <= now' + TickNs
  <2>1. /\ active'[c] => active[c]
        /\ next_fire_ns'[c] = next_fire_ns[c] \/ next_fire_ns'[c] = INT64_MAX
    BY <1>10 DEF ClearField, TypeOK, Pending
  <2>2. /\ c \in Pending(active, next_fire_ns)
        /\ next_fire_ns'[c] = next_fire_ns[c]
    BY <2>1 DEF Pending, TypeOK
  <2>3. QED
    BY <1>10, <2>2 DEF ClearField, PtArmed, ptVars
<1>11. CASE EndClose
  <2>1. \A d \in Channels : ~active'[d]
    BY <1>11 DEF EndClose, CloseInv, channelVars
  <2>2. QED
    BY <2>1 DEF Pending
<1>12. ASSUME NEW d \in Tasks, TakeEvent(d)
       PROVE  UNCHANGED <<now, active, next_fire_ns, ptOn, ptDue, irq, hung>>
  BY <1>12 DEF TakeEvent, channelVars, ptVars
<1>13. CASE UNCHANGED vars
  BY <1>5, <1>13 DEF vars, channelVars, ptVars
<1>14. QED
  BY <1>1, <1>3, <1>4, <1>5, <1>6, <1>7, <1>8, <1>9, <1>10, <1>11, <1>12, <1>13
     DEF Next

(* No running channel is ever forgotten by the hardware timer. *)
THEOREM PtNeverForgets == Spec => []PtArmed
<1>1. Init => CloseInv /\ PtArmed
  BY DEF Init, CloseInv, PtArmed, Pending
<1>2. QED
  BY <1>1, CloseStep, PtArmedStep, TypeCorrect, PTL DEF Spec


-----------------------------------------------------------------------------
(* A whole number of periods more stays on the grid. *)
LEMMA GridStep ==
  ASSUME NEW a \in Nat, NEW n \in Nat, NEW p \in Nat \ {0}, NEW t \in Nat,
         a <= n, (n - a) % p = 0, n <= t
  PROVE  a <= CatchUp(n, p, t) /\ (CatchUp(n, p, t) - a) % p = 0
<1> DEFINE k == (t - n) \div p + 1
           q == (n - a) \div p
<1>1. k \in Nat /\ k * p \in Nat
  OBVIOUS
<1>2. q \in Nat /\ n - a = q * p
  OBVIOUS
<1>3. CatchUp(n, p, t) - a = (q + k) * p
  <2>1. CatchUp(n, p, t) = n + k * p
    BY DEF CatchUp
  <2> HIDE DEF k, q
  <2>2. (q + k) * p = q * p + k * p
    BY <1>1, <1>2
  <2>3. CatchUp(n, p, t) - a = (n - a) + k * p
    BY <1>1, <2>1
  <2>4. QED
    BY <1>1, <1>2, <2>2, <2>3
<1> HIDE DEF k, q
<1>4. \A m \in Nat : (m * p) % p = 0
  OBVIOUS
<1>5. CatchUp(n, p, t) \in Nat /\ CatchUp(n, p, t) > t
  BY CatchUpFacts
<1>6. QED
  BY <1>1, <1>2, <1>3, <1>4, <1>5

(* Only starting a channel, or storing a period on it, moves its grid. *)
LEMMA NoDriftStep == TypeOK /\ NoDrift /\ [Next]_vars => NoDrift'
<1> USE RtssAssumption
<1> DEFINE OnGrid(c) ==
      /\ anchor[c] <= next_fire_ns[c]
      /\ period_ns[c] > 0 => (next_fire_ns[c] - anchor[c]) % period_ns[c] = 0
<1> SUFFICES ASSUME TypeOK, NoDrift, [Next]_vars,
                    NEW c \in Pending(active', next_fire_ns')
             PROVE  OnGrid(c)'
  BY DEF NoDrift
<1>1. c \in Channels
  BY DEF Pending
<1>2. ASSUME UNCHANGED <<active, next_fire_ns, period_ns, anchor>>
      PROVE  OnGrid(c)'
  BY <1>2 DEF NoDrift, Pending
<1>3. ASSUME NEW S \in SUBSET Expired, AdvanceSchedule(S),
             \A d \in S : period_ns[d] > 0,
             UNCHANGED <<active, period_ns, anchor>>
      PROVE  OnGrid(c)'
  <2>1. CASE c \in S
    <3>1. /\ active[c] /\ next_fire_ns[c] <= now
          /\ next_fire_ns[c] \in Nat /\ anchor[c] \in Nat
          /\ period_ns[c] \in Nat \ {0} /\ now \in Nat /\ now <= MaxTime
      BY <1>1, <1>3, <2>1 DEF Expired, TypeOK
    <3>2. c \in Pending(active, next_fire_ns)
      BY <1>1, <3>1 DEF Pending
    <3>3. anchor[c] <= next_fire_ns[c]
          /\ (next_fire_ns[c] - anchor[c]) % period_ns[c] = 0
      BY <3>1, <3>2 DEF NoDrift
    <3>4. next_fire_ns'[c] = CatchUp(next_fire_ns[c], period_ns[c], now)
      BY <1>1, <1>3, <2>1 DEF AdvanceSchedule
    <3>5. /\ anchor[c] <= CatchUp(next_fire_ns[c], period_ns[c], now)
          /\ (CatchUp(next_fire_ns[c], period_ns[c], now) - anchor[c])
               % period_ns[c] = 0
      BY <3>1, <3>3, GridStep
    <3>6. QED
      BY <1>3, <3>4, <3>5
  <2>2. CASE c \notin S
    <3>1. next_fire_ns'[c] = next_fire_ns[c]
      BY <1>1, <1>3, <2>2 DEF AdvanceSchedule
    <3>2. QED
      BY <1>3, <3>1 DEF NoDrift, Pending
  <2>3. QED
    BY <2>1, <2>2
<1>4. CASE Tick
  BY <1>2, <1>4 DEF Tick, channelVars
<1>5. CASE Isr
  BY <1>3, <1>5 DEF Isr
<1>6. CASE IsrHang
  <2>1. PICK d \in Expired :
          /\ \A e \in {x \in Expired : x < d} : period_ns[e] > 0
          /\ AdvanceSchedule({x \in Expired : x < d})
    BY <1>6 DEF IsrHang
  <2>2. QED
    BY <1>3, <1>6, <2>1 DEF IsrHang
<1>7. CASE rtss_open
  BY <1>2, <1>7 DEF rtss_open, channelVars
<1>8. ASSUME NEW d \in Channels, NEW p \in Nat, StorePeriod(d, p)
      PROVE  OnGrid(c)'
  <2>1. CASE c = d
    <3>1. anchor'[c] = next_fire_ns'[c]
      BY <1>1, <1>8, <2>1 DEF StorePeriod, TypeOK, Pending
    <3>2. next_fire_ns'[c] \in Nat /\ period_ns'[c] \in Nat
      BY <1>1, <1>8 DEF StorePeriod, TypeOK
    <3>3. QED
      BY <3>1, <3>2
  <2>2. CASE c # d
    BY <1>1, <1>8, <2>2 DEF StorePeriod, TypeOK, NoDrift, Pending
  <2>3. QED
    BY <2>1, <2>2
<1>9. ASSUME NEW d \in Channels, Ioctl(d) PROVE OnGrid(c)'
  <2>1. ASSUME NEW k \in SysTicks, SetPeriod(d, k) PROVE OnGrid(c)'
    <3>1. k * SysTickNs \in Nat
      OBVIOUS
    <3>2. StorePeriod(d, k * SysTickNs)
      BY <2>1 DEF SetPeriod
    <3> HIDE DEF OnGrid
    <3>3. QED
      BY <1>8, <3>1, <3>2
  <2>2. ASSUME NEW p \in NsPeriods, SetPeriodNs(d, p) PROVE OnGrid(c)'
    BY <1>8, <2>2 DEF SetPeriodNs
  <2>3. ASSUME NEW t \in Tasks \cup {NONE}, SetTask(d, t) PROVE OnGrid(c)'
    BY <1>2, <2>3 DEF SetTask
  <2>4. CASE Start(d)
    <3>1. CASE c = d
      <4>1. anchor'[c] = next_fire_ns'[c] /\ period_ns'[c] = period_ns[c]
        BY <1>1, <2>4, <3>1 DEF Start, TypeOK
      <4>2. next_fire_ns'[c] \in Nat /\ period_ns[c] \in Nat
        BY <1>1, <2>4 DEF Start, TypeOK
      <4>3. QED
        BY <4>1, <4>2
    <3>2. CASE c # d
      BY <1>1, <2>4, <3>2 DEF Start, TypeOK, NoDrift, Pending
    <3>3. QED
      BY <3>1, <3>2
  <2>5. CASE Stop(d)
    BY <1>1, <2>5 DEF Stop, TypeOK, NoDrift, Pending
  <2>6. QED
    BY <1>9, <2>1, <2>2, <2>3, <2>4, <2>5 DEF Ioctl
<1>10. CASE BeginClose
  BY <1>2, <1>10 DEF BeginClose, channelVars
<1>11. ASSUME NEW d \in Channels, NEW f \in Fields, ClearField(d, f)
       PROVE  OnGrid(c)'
  <2>1. /\ active[c] /\ next_fire_ns'[c] = next_fire_ns[c]
        /\ c \in Pending(active, next_fire_ns)
    BY <1>1, <1>11 DEF ClearField, TypeOK, Pending
  <2>2. QED
    BY <1>11, <2>1 DEF ClearField, NoDrift
<1>12. CASE EndClose
  BY <1>2, <1>12 DEF EndClose, channelVars
<1>13. ASSUME NEW t \in Tasks, TakeEvent(t) PROVE OnGrid(c)'
  BY <1>2, <1>13 DEF TakeEvent, channelVars
<1>14. CASE UNCHANGED vars
  BY <1>2, <1>14 DEF vars, channelVars
<1>15. QED
  BY <1>4, <1>5, <1>6, <1>7, <1>9, <1>10, <1>11, <1>12, <1>13, <1>14 DEF Next

(* However late the interrupts come, a schedule never drifts off its grid. *)
THEOREM SchedulesNeverDrift == Spec => []NoDrift
<1>1. Init => NoDrift
  BY DEF Init, NoDrift, Pending
<1>2. QED
  BY <1>1, NoDriftStep, TypeCorrect, PTL DEF Spec


-----------------------------------------------------------------------------
(* A time stamp is never in the future. *)
StampInv == \A c \in Channels : rtss_isr_fire_ns[c] <= now

(* The clock only advances, and a stamp is the time of its interrupt. *)
LEMMA StampStep == TypeOK /\ StampInv /\ [Next]_vars => StampInv'
<1> SUFFICES ASSUME TypeOK, StampInv, [Next]_vars,
                    NEW c \in Channels
             PROVE  rtss_isr_fire_ns'[c] <= now'
  BY DEF StampInv
<1>1. /\ now \in Nat /\ rtss_isr_fire_ns[c] \in Nat
      /\ rtss_isr_fire_ns[c] <= now
  BY RtssAssumption DEF TypeOK, StampInv
<1>2. ASSUME rtss_isr_fire_ns' = rtss_isr_fire_ns, now' = now \/ now' = now + 1
      PROVE  rtss_isr_fire_ns'[c] <= now'
  BY <1>1, <1>2
<1>3. ASSUME rtss_isr_fire_ns' = rtss_isr_fire_ns, now' \in SecondReadings
      PROVE  rtss_isr_fire_ns'[c] <= now'
  BY <1>1, <1>3, RtssAssumption DEF SecondReadings
<1>4. ASSUME NEW S, Notify(S), now' = now \/ now' \in SecondReadings
      PROVE  rtss_isr_fire_ns'[c] <= now'
  <2>1. rtss_isr_fire_ns'[c] <= now
    BY <1>1, <1>4 DEF Notify
  <2>2. now <= now' /\ rtss_isr_fire_ns'[c] \in Nat /\ now' \in Nat
    BY <1>1, <1>4, RtssAssumption DEF SecondReadings, Notify
  <2>3. QED
    BY <1>1, <2>1, <2>2
<1>5. CASE Isr
  BY <1>4, <1>5 DEF Isr
<1>6. CASE IsrHang
  BY <1>4, <1>6 DEF IsrHang
<1>7. ASSUME NEW d \in Channels, Start(d) \/ Stop(d)
      PROVE  rtss_isr_fire_ns'[c] <= now'
  BY <1>3, <1>7 DEF Start, Stop
<1>8. ASSUME NEW d \in Channels, Ioctl(d), ~Start(d), ~Stop(d)
      PROVE  rtss_isr_fire_ns'[c] <= now'
  BY <1>2, <1>8 DEF Ioctl, SetPeriod, SetPeriodNs, StorePeriod, SetTask
<1>9. ASSUME NEW d \in Channels, NEW f \in Fields, ClearField(d, f)
      PROVE  rtss_isr_fire_ns'[c] <= now'
  BY <1>2, <1>9 DEF ClearField
<1>10. ASSUME NEW t \in Tasks, TakeEvent(t) PROVE rtss_isr_fire_ns'[c] <= now'
  BY <1>2, <1>10 DEF TakeEvent
<1>11. CASE Tick \/ rtss_open \/ BeginClose \/ EndClose \/ UNCHANGED vars
  BY <1>2, <1>11 DEF Tick, rtss_open, BeginClose, EndClose, vars
<1>12. QED
  BY <1>5, <1>6, <1>7, <1>8, <1>9, <1>10, <1>11 DEF Next

(* A step that leaves a channel's schedule and the stamp alone, or clears  *)
(* part of it, keeps the stamp between its two slots; a start or a new     *)
(* period begins a grid after the stamp; an interrupt moves both.          *)
LEMMA SkipsMissedStep ==
  TypeOK /\ StampInv /\ SkipsMissed /\ [Next]_vars => SkipsMissed'
<1> USE RtssAssumption
<1> DEFINE Between(c) ==
      /\ rtss_isr_fire_ns[c] < next_fire_ns[c]
      /\ rtss_isr_fire_ns[c] >= anchor[c] =>
           next_fire_ns[c] - period_ns[c] <= rtss_isr_fire_ns[c]
<1> SUFFICES ASSUME TypeOK, StampInv, SkipsMissed, [Next]_vars, ~hung',
                    NEW c \in Pending(active', next_fire_ns')
             PROVE  Between(c)'
  BY DEF SkipsMissed
<1>1. /\ c \in Channels /\ now \in Nat /\ now <= MaxTime
      /\ rtss_isr_fire_ns[c] \in Nat /\ rtss_isr_fire_ns[c] <= now
      /\ period_ns[c] \in Nat /\ next_fire_ns[c] \in Nat
      /\ anchor[c] \in Nat
  BY DEF Pending, TypeOK, StampInv
<1>2. ASSUME active'[c] = active[c], next_fire_ns'[c] = next_fire_ns[c],
             period_ns'[c] = period_ns[c], anchor'[c] = anchor[c],
             rtss_isr_fire_ns'[c] = rtss_isr_fire_ns[c], ~hung
      PROVE  Between(c)'
  BY <1>1, <1>2 DEF SkipsMissed, Pending
<1>3. CASE Tick
  BY <1>2, <1>3 DEF Tick, channelVars
<1>4. CASE Isr
  <2>1. CASE c \in Expired
    <3>1. /\ next_fire_ns[c] <= now /\ period_ns[c] \in Nat \ {0}
          /\ rtss_isr_fire_ns'[c] = now
          /\ next_fire_ns'[c] = CatchUp(next_fire_ns[c], period_ns[c], now)
          /\ period_ns'[c] = period_ns[c]
      BY <1>1, <1>4, <2>1 DEF Isr, Expired, Notify, AdvanceSchedule
    <3>2. /\ next_fire_ns'[c] \in Nat /\ next_fire_ns'[c] > now
          /\ next_fire_ns'[c] - period_ns[c] <= now
      <4> DEFINE n == CatchUp(next_fire_ns[c], period_ns[c], now)
      <4>1. n \in Nat /\ n > now /\ n - period_ns[c] <= now
        BY <1>1, <3>1, CatchUpFacts
      <4>2. QED
        BY <3>1, <4>1
    <3>3. QED
      BY <3>1, <3>2
  <2>2. CASE c \notin Expired
    BY <1>1, <1>2, <1>4, <2>2 DEF Isr, Notify, AdvanceSchedule
  <2>3. QED
    BY <2>1, <2>2
<1>5. CASE IsrHang
  BY <1>5 DEF IsrHang
<1>6. CASE rtss_open
  BY <1>2, <1>6 DEF rtss_open, channelVars, Idle
<1>7. ASSUME NEW d \in Channels, NEW p \in Nat, StorePeriod(d, p)
      PROVE  Between(c)'
  <2>1. CASE c = d
    <3>1. /\ anchor'[c] = next_fire_ns[c] /\ next_fire_ns' = next_fire_ns
          /\ rtss_isr_fire_ns' = rtss_isr_fire_ns
          /\ c \in Pending(active, next_fire_ns) /\ ~hung
      BY <1>1, <1>7, <2>1 DEF StorePeriod, Idle, TypeOK, Pending
    <3>2. rtss_isr_fire_ns[c] < next_fire_ns[c]
      BY <3>1 DEF SkipsMissed
    <3>3. QED
      BY <1>1, <3>1, <3>2
  <2>2. CASE c # d
    BY <1>1, <1>2, <1>7, <2>2 DEF StorePeriod, Idle, TypeOK
  <2>3. QED
    BY <2>1, <2>2
<1>8. ASSUME NEW d \in Channels, Ioctl(d) PROVE Between(c)'
  <2>1. ASSUME NEW k \in SysTicks, SetPeriod(d, k) PROVE Between(c)'
    <3>1. k * SysTickNs \in Nat
      OBVIOUS
    <3>2. StorePeriod(d, k * SysTickNs)
      BY <2>1 DEF SetPeriod
    <3> HIDE DEF Between
    <3>3. QED
      BY <1>7, <3>1, <3>2
  <2>2. ASSUME NEW p \in NsPeriods, SetPeriodNs(d, p) PROVE Between(c)'
    <3>1. p \in Nat /\ StorePeriod(d, p)
      BY <2>2 DEF SetPeriodNs
    <3> HIDE DEF Between
    <3>2. QED
      BY <1>7, <3>1
  <2>3. ASSUME NEW t \in Tasks \cup {NONE}, SetTask(d, t) PROVE Between(c)'
    BY <1>2, <2>3 DEF SetTask, Idle
  <2>4. CASE Start(d)
    <3>1. CASE c = d
      <4>1. /\ next_fire_ns'[c] = now + period_ns[c]
            /\ anchor'[c] = now + period_ns[c]
            /\ period_ns[c] > 0
            /\ rtss_isr_fire_ns' = rtss_isr_fire_ns
        BY <1>1, <2>4, <3>1 DEF Start, TypeOK
      <4>2. QED
        BY <1>1, <4>1
    <3>2. CASE c # d
      BY <1>1, <1>2, <2>4, <3>2 DEF Start, Idle, TypeOK
    <3>3. QED
      BY <3>1, <3>2
  <2>5. CASE Stop(d)
    <3>1. c # d
      BY <1>1, <2>5 DEF Stop, TypeOK, Pending
    <3>2. QED
      BY <1>1, <1>2, <2>5, <3>1 DEF Stop, Idle, TypeOK
  <2>6. QED
    BY <1>8, <2>1, <2>2, <2>3, <2>4, <2>5 DEF Ioctl
<1>9. CASE BeginClose
  BY <1>2, <1>9 DEF BeginClose, channelVars, Idle
<1>10. ASSUME NEW d \in Channels, NEW f \in Fields, ClearField(d, f)
       PROVE  Between(c)'
  <2>1. /\ active[c] /\ active'[c] /\ next_fire_ns'[c] = next_fire_ns[c]
    BY <1>1, <1>10 DEF ClearField, TypeOK, Pending
  <2>2. active'[c] = active[c]
    BY <1>1, <1>10, <2>1 DEF ClearField, TypeOK, Pending
  <2>3. QED
    BY <1>2, <1>10, <2>1, <2>2 DEF ClearField
<1>11. CASE EndClose
  BY <1>2, <1>11 DEF EndClose, channelVars
<1>12. ASSUME NEW t \in Tasks, TakeEvent(t) PROVE Between(c)'
  BY <1>2, <1>12 DEF TakeEvent, channelVars
<1>13. CASE UNCHANGED vars
  BY <1>2, <1>13 DEF vars, channelVars
<1>14. QED
  BY <1>3, <1>4, <1>5, <1>6, <1>8, <1>9, <1>10, <1>11, <1>12, <1>13 DEF Next

(* Missed slots are skipped once and none is repeated or early. *)
THEOREM MissedSlotsAreSkipped == Spec => []SkipsMissed
<1>1. Init => StampInv /\ SkipsMissed
  BY RtssAssumption DEF Init, StampInv, SkipsMissed, Pending
<1>2. QED
  BY <1>1, StampStep, SkipsMissedStep, TypeCorrect, PTL DEF Spec


-----------------------------------------------------------------------------
(* Under the documented order of calls a running channel has a positive    *)
(* period, and a task until rtss_close begins.                             *)
FlowInv ==
  /\ ~hung
  /\ \A c \in Channels : active[c] => period_ns[c] > 0
  /\ ~closing => \A c \in Channels : active[c] => target_task[c] # NONE

(* The documented order of calls is a restriction of the driver's steps. *)
LEMMA FlowIsNext == [FlowNext]_vars => [Next]_vars
<1>1. ASSUME NEW c \in Channels, FlowIoctl(c) PROVE Ioctl(c)
  BY <1>1 DEF FlowIoctl, Ioctl
<1>2. QED
  BY <1>1 DEF FlowNext, Next

(* No step of the documented order breaks FlowInv: a period changes only   *)
(* on a stopped channel, Start refuses a zero period, and when rtss_close  *)
(* ends no channel is left running.                                        *)
LEMMA FlowStep == TypeOK /\ CloseInv /\ FlowInv /\ [FlowNext]_vars => FlowInv'
<1> USE RtssAssumption
<1> SUFFICES ASSUME TypeOK, CloseInv, FlowInv, [FlowNext]_vars
             PROVE  FlowInv'
  OBVIOUS
<1>1. ASSUME active' = active, period_ns' = period_ns, hung' = hung,
             target_task' = target_task, closing \/ closing' = closing
      PROVE  closing' = closing => FlowInv'
  BY <1>1 DEF FlowInv
<1>2. CASE Tick \/ rtss_open \/ UNCHANGED vars
  BY <1>1, <1>2 DEF Tick, rtss_open, vars, channelVars, closeVars, Idle
<1>3. CASE Isr
  BY <1>1, <1>3 DEF Isr, closeVars
<1>4. CASE IsrHang
  BY <1>4 DEF IsrHang, Expired, FlowInv
<1>5. ASSUME NEW c \in Channels, FlowIoctl(c) PROVE FlowInv'
  <2>1. ASSUME NEW k \in SysTicks, ~active[c], SetPeriod(c, k) PROVE FlowInv'
    BY <2>1 DEF SetPeriod, StorePeriod, FlowInv, TypeOK, closeVars
  <2>2. ASSUME NEW p \in NsPeriods, ~active[c], SetPeriodNs(c, p) PROVE FlowInv'
    BY <2>2 DEF SetPeriodNs, StorePeriod, FlowInv, TypeOK, closeVars
  <2>3. ASSUME NEW t \in Tasks, ~active[c], SetTask(c, t) PROVE FlowInv'
    BY <2>3 DEF SetTask, FlowInv, TypeOK, closeVars
  <2>4. CASE target_task[c] # NONE /\ Start(c)
    BY <2>4 DEF Start, FlowInv, TypeOK, closeVars
  <2>5. CASE Stop(c)
    BY <2>5 DEF Stop, FlowInv, TypeOK, closeVars
  <2>6. QED
    BY <1>5, <2>1, <2>2, <2>3, <2>4, <2>5 DEF FlowIoctl
<1>6. CASE BeginClose
  BY <1>6 DEF BeginClose, FlowInv, channelVars
<1>7. ASSUME NEW c \in Channels, NEW f \in Fields, ClearField(c, f)
      PROVE  FlowInv'
  BY <1>7 DEF ClearField, FlowInv, TypeOK
<1>8. CASE EndClose
  BY <1>8 DEF EndClose, FlowInv, CloseInv, TypeOK, channelVars, Fields
<1>9. ASSUME NEW t \in Tasks, TakeEvent(t) PROVE FlowInv'
  BY <1>1, <1>9 DEF TakeEvent, channelVars, closeVars
<1>10. QED
  BY <1>2, <1>3, <1>4, <1>5, <1>6, <1>7, <1>8, <1>9 DEF FlowNext

(* FlowInv holds of every behaviour that keeps the documented order.       *)
LEMMA FlowInvariant == FlowSpec => [](TypeOK /\ CloseInv /\ FlowInv)
<1>1. Init => TypeOK /\ CloseInv /\ FlowInv
  BY InitType DEF Init, CloseInv, FlowInv
<1>2. QED
  BY <1>1, TypeStep, CloseStep, FlowStep, FlowIsNext, PTL DEF FlowSpec

(* A caller that sets a period and a task before it starts a channel never *)
(* makes pt_isr loop for ever.                                             *)
THEOREM DocumentedOrderReturns == FlowSpec => []IsrReturns
<1>1. FlowInv => IsrReturns
  BY DEF FlowInv, IsrReturns
<1>2. QED
  BY <1>1, FlowInvariant, PTL

(* A caller that keeps the documented order never gets an interrupt whose  *)
(* handler leaves an expired channel behind.                               *)
THEOREM OneInterruptIsEnough == FlowSpec => IsrServesAll
<1> DEFINE Served == Isr /\ ~closing =>
                       \A c \in Channels : active[c] => now < next_fire_ns'[c]
<1>1. TypeOK /\ FlowInv => Served
  <2> SUFFICES ASSUME TypeOK, FlowInv, Isr, ~closing,
                      NEW c \in Channels, active[c]
               PROVE  now < next_fire_ns'[c]
    OBVIOUS
  <2>1. /\ now \in Nat /\ next_fire_ns[c] \in Nat
        /\ period_ns[c] \in Nat \ {0} /\ target_task[c] # NONE
    BY RtssAssumption DEF TypeOK, FlowInv
  <2>2. CASE next_fire_ns[c] <= now
    <3>1. next_fire_ns'[c] = CatchUp(next_fire_ns[c], period_ns[c], now)
      BY <2>1, <2>2 DEF Isr, Expired, AdvanceSchedule
    <3>2. CatchUp(next_fire_ns[c], period_ns[c], now) > now
      BY <2>1, <2>2, CatchUpFacts
    <3>3. QED
      BY <2>1, <3>1, <3>2
  <2>3. CASE ~(next_fire_ns[c] <= now)
    <3>1. next_fire_ns'[c] = next_fire_ns[c]
      BY <2>3 DEF Isr, Expired, AdvanceSchedule
    <3>2. QED
      BY <2>1, <2>3, <3>1
  <2>4. QED
    BY <2>2, <2>3
<1>2. QED
  BY <1>1, FlowInvariant, PTL DEF IsrServesAll


-----------------------------------------------------------------------------
(* A period leaves room for the clock below INT64_MAX. *)
PeriodInv == \A c \in Channels : period_ns[c] + MaxTime < INT64_MAX

(* Only SET_PERIOD and SET_PERIOD_NS store a period, and both bound it. *)
LEMMA PeriodStep == TypeOK /\ PeriodInv /\ [Next]_vars => PeriodInv'
<1> USE RtssAssumption, PeriodAssumption
<1> SUFFICES ASSUME TypeOK, PeriodInv, [Next]_vars PROVE PeriodInv'
  OBVIOUS
<1>1. CASE UNCHANGED period_ns
  BY <1>1 DEF PeriodInv
<1>2. ASSUME NEW c \in Channels, NEW k \in SysTicks, SetPeriod(c, k)
      PROVE  PeriodInv'
  BY <1>2 DEF SetPeriod, StorePeriod, PeriodInv, TypeOK
<1>3. ASSUME NEW c \in Channels, NEW p \in NsPeriods, SetPeriodNs(c, p)
      PROVE  PeriodInv'
  BY <1>3 DEF SetPeriodNs, StorePeriod, PeriodInv, TypeOK
<1>4. ASSUME NEW c \in Channels, Ioctl(c) PROVE PeriodInv'
  BY <1>1, <1>2, <1>3, <1>4 DEF Ioctl, SetTask, Start, Stop
<1>5. QED
  BY <1>1, <1>4 DEF Next, Tick, Isr, IsrHang, rtss_open, BeginClose, ClearField,
                    EndClose, TakeEvent, vars, channelVars

(* A channel that is served stays armed for the same task. *)
LEMMA ServedStaysArmed ==
  ASSUME TypeOK, PeriodInv, NEW S \in SUBSET Expired,
         \A c \in S : period_ns[c] > 0,
         AdvanceSchedule(S), UNCHANGED <<active, target_task>>
  PROVE  Armed' = Armed
<1> USE RtssAssumption
<1>1. ASSUME NEW c \in Channels
      PROVE  c \in Pending(active, next_fire_ns)' <=> c \in Pending(active, next_fire_ns)
  <2>1. /\ now \in Nat /\ now <= MaxTime /\ next_fire_ns[c] \in Nat
        /\ period_ns[c] \in Nat /\ period_ns[c] + MaxTime < INT64_MAX
    BY DEF TypeOK, PeriodInv
  <2>2. CASE c \in S
    <3>1. next_fire_ns[c] <= now /\ period_ns[c] \in Nat \ {0}
      BY <2>1, <2>2 DEF Expired
    <3>2. /\ CatchUp(next_fire_ns[c], period_ns[c], now) \in Nat
          /\ CatchUp(next_fire_ns[c], period_ns[c], now) - period_ns[c] <= now
      BY <2>1, <3>1, CatchUpFacts
    <3>3. CatchUp(next_fire_ns[c], period_ns[c], now) < INT64_MAX
      BY <2>1, <3>2
    <3>4. next_fire_ns'[c] < INT64_MAX /\ next_fire_ns[c] < INT64_MAX
      BY <2>1, <2>2, <3>1, <3>3 DEF AdvanceSchedule
    <3>5. QED
      BY <3>4 DEF Pending
  <2>3. CASE c \notin S
    BY <2>3 DEF AdvanceSchedule, Pending
  <2>4. QED
    BY <2>2, <2>3
<1>2. QED
  BY <1>1 DEF Armed

(* The interrupt notifies tasks of armed channels of an open device. *)
LEMMA NotifyFires ==
  ASSUME TypeOK, CloseInv, NEW S \in SUBSET Expired, Notify(S),
         Armed' = Armed, UNCHANGED opened
  PROVE  Service!ServiceNext \/ UNCHANGED <<opened, Armed, events>>
<1> USE RtssAssumption
<1>1. CASE S = {}
  BY <1>1 DEF Notify, TypeOK
<1>2. CASE S # {}
  <2>1. S \in SUBSET Channels /\ opened
    BY <1>2 DEF CloseInv, Expired
  <2>2. ASSUME NEW c \in S
        PROVE  Armed[c] = target_task[c] /\ target_task[c] # NONE
    BY DEF Armed, Pending, Expired, TypeOK
  <2>3. events' = [t \in Tasks |-> events[t] \/ \E c \in S : Armed[c] = t]
    BY <2>2 DEF Notify
  <2>4. Service!Fire(S)
    BY <2>1, <2>2, <2>3 DEF Service!Fire
  <2>5. QED
    BY <2>1, <2>4 DEF Service!ServiceNext
<1>3. QED
  BY <1>1, <1>2

(* A step that touches one channel of an open device arms or disarms it. *)
LEMMA TouchArms ==
  ASSUME TypeOK, TypeOK', opened, NEW c \in Channels,
         UNCHANGED <<opened, events>>,
         \A d \in Channels \ {c} :
           /\ active'[d] = active[d]
           /\ next_fire_ns'[d] = next_fire_ns[d]
           /\ target_task'[d] = target_task[d]
  PROVE  Service!ServiceNext
<1>1. Armed' = [Armed EXCEPT ![c] = Armed'[c]]
  BY DEF Armed, Pending
<1>2. Armed'[c] \in Tasks \cup {NONE}
  BY DEF Armed, TypeOK
<1>3. Service!Arm(c, Armed'[c])
  BY <1>1 DEF Service!Arm
<1>4. QED
  BY <1>2, <1>3 DEF Service!ServiceNext

(* The driver implements TimerService: every driver step is a step of the  *)
(* service or changes nothing the service can see.                         *)
THEOREM DriverImplementsService == Spec => ImplementsService
<1> USE RtssAssumption
<1>1. Init => TypeOK /\ CloseInv /\ PeriodInv
  <2>1. Init => PeriodInv
    <3>1. 0 + MaxTime < INT64_MAX
      OBVIOUS
    <3>2. QED
      BY <3>1 DEF Init, PeriodInv
  <2>2. QED
    BY <2>1, InitType DEF Init, CloseInv
<1>2. Init => Service!ServiceInit
  BY DEF Init, Service!ServiceInit, Armed, Pending
<1>3. /\ TypeOK /\ TypeOK' /\ CloseInv /\ PeriodInv /\ [Next]_vars
      => Service!ServiceNext \/ UNCHANGED <<opened, Armed, events>>
  <2> SUFFICES ASSUME TypeOK, TypeOK', CloseInv, PeriodInv, [Next]_vars
               PROVE  Service!ServiceNext \/ UNCHANGED <<opened, Armed, events>>
    OBVIOUS
  <2>1. ASSUME UNCHANGED <<opened, active, next_fire_ns, target_task, events>>
        PROVE  UNCHANGED <<opened, Armed, events>>
    BY <2>1 DEF Armed, Pending
  <2>2. CASE Tick \/ BeginClose \/ UNCHANGED vars
    BY <2>1, <2>2 DEF Tick, BeginClose, vars, channelVars
  <2>3. CASE Isr
    <3>1. Armed' = Armed
      BY <2>3, ServedStaysArmed DEF Isr
    <3>2. QED
      BY <2>3, <3>1, NotifyFires DEF Isr
  <2>4. CASE IsrHang
    <3>1. PICK c \in Expired :
            LET served == {d \in Expired : d < c} IN
            /\ \A d \in served : period_ns[d] > 0
            /\ Notify(served \cup {c})
            /\ AdvanceSchedule(served)
      BY <2>4 DEF IsrHang
    <3> DEFINE served == {d \in Expired : d < c}
    <3>2. served \in SUBSET Expired /\ served \cup {c} \in SUBSET Expired
      OBVIOUS
    <3>3. Notify(served \cup {c}) /\ UNCHANGED opened
      BY <2>4, <3>1 DEF IsrHang
    <3>4. /\ \A d \in served : period_ns[d] > 0
          /\ AdvanceSchedule(served)
          /\ UNCHANGED <<active, target_task>>
      BY <2>4, <3>1 DEF IsrHang
    <3> HIDE DEF served
    <3>5. Armed' = Armed
      BY <3>2, <3>4, ServedStaysArmed
    <3>6. QED
      BY <3>2, <3>3, <3>5, NotifyFires
  <2>5. CASE rtss_open
    <3>1. Service!OpenDevice
      BY <2>5 DEF rtss_open, channelVars, Armed, Pending, Service!OpenDevice
    <3>2. QED
      BY <3>1 DEF Service!ServiceNext
  <2>6. ASSUME NEW c \in Channels, Ioctl(c)
        PROVE  Service!ServiceNext \/ UNCHANGED <<opened, Armed, events>>
    <3>1. ASSUME NEW p, StorePeriod(c, p)
          PROVE  UNCHANGED <<opened, Armed, events>>
      BY <2>1, <3>1 DEF StorePeriod
    <3>2. CASE \E t \in Tasks \cup {NONE} : SetTask(c, t)
      BY <3>2, TouchArms DEF SetTask, TypeOK
    <3>3. CASE Start(c)
      BY <3>3, TouchArms DEF Start, TypeOK
    <3>4. CASE Stop(c)
      BY <3>4, TouchArms DEF Stop, TypeOK
    <3>5. QED
      BY <2>6, <3>1, <3>2, <3>3, <3>4 DEF Ioctl, SetPeriod, SetPeriodNs
  <2>7. ASSUME NEW c \in Channels, NEW f \in Fields, ClearField(c, f)
        PROVE  Service!ServiceNext
    <3>1. opened
      BY <2>7 DEF ClearField, CloseInv
    <3>2. QED
      BY <2>7, <3>1, TouchArms DEF ClearField, TypeOK
  <2>8. CASE EndClose
    <3>1. \A c \in Channels : Armed[c] = NONE
      BY <2>8 DEF EndClose, CloseInv, Armed, Pending
    <3>2. opened
      BY <2>8 DEF EndClose, CloseInv
    <3>3. Service!CloseDevice
      BY <2>8, <3>1, <3>2
      DEF EndClose, channelVars, Armed, Pending, Service!CloseDevice
    <3>4. QED
      BY <3>3 DEF Service!ServiceNext
  <2>9. ASSUME NEW t \in Tasks, TakeEvent(t) PROVE Service!ServiceNext
    <3>1. Service!Receive(t)
      BY <2>9 DEF TakeEvent, channelVars, Armed, Pending, Service!Receive
    <3>2. QED
      BY <3>1 DEF Service!ServiceNext
  <2>10. QED
    BY <2>2, <2>3, <2>4, <2>5, <2>6, <2>7, <2>8, <2>9 DEF Next
<1>4. QED
  BY <1>1, <1>2, <1>3, TypeStep, CloseStep, PeriodStep, PTL
  DEF Spec, ImplementsService, Service!ServiceSpec, Service!serviceVars

=============================================================================

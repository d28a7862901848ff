--------------------------- MODULE TaskChainProofs ---------------------------
(***************************************************************************)
(* The sums of a round are complete when the last node of the chain        *)
(* records them, for every length of the chain, depth of the buffers and   *)
(* number of rounds.                                                       *)
(***************************************************************************)
EXTENDS TaskChain, TLAPS

ChainTypes ==
  /\ at \in [0..Last -> {"wait", "publish", "announce", "add", "ready", "callback"}]
  /\ event \in [Receivers -> BOOLEAN]

(* No receiver outside S is active or has an event. *)
Quiet(S) == \A j \in Receivers \ S : at[j] = "wait" /\ ~event[j]

(* The timer's task publishes the first message of a round. *)
TimerTurn ==
  /\ at[Timer] \in {"publish", "announce", "add"}
  /\ Quiet({1}) /\ at[1] = "wait"
  /\ published = {} /\ scheduled = {}

(* The message is at receiver i: until its callback adds the time it was   *)
(* scheduled, until the next receiver has its event, and until the time    *)
(* of publishing has been added.                                           *)
Arrived(i) ==
  /\ Quiet({i}) /\ at[i] \in {"wait", "ready", "callback"}
  /\ at[i] # "wait" => ~event[i]
  /\ published = 0..(i - 1) /\ scheduled = 1..(i - 1)

Relayed(i) ==
  /\ Quiet({i}) /\ at[i] = "announce" /\ ~event[i]
  /\ published = 0..(i - 1) /\ scheduled = 1..i

Announced(i) ==
  /\ Quiet({i, i + 1}) /\ at[i] = "add" /\ ~event[i] /\ at[i + 1] = "wait"
  /\ published = 0..(i - 1) /\ scheduled = 1..i

ReceiverTurn(i) == Arrived(i) \/ (i # Last /\ (Relayed(i) \/ Announced(i)))

(* While no round overlaps another, one node at a time has the message. *)
OneAtATime ==
  \/ overlap
  \/ TimerTurn
  \/ at[Timer] = "wait" /\ Settled
  \/ at[Timer] = "wait" /\ \E i \in Receivers : ReceiverTurn(i)

ChainInv == ChainTypes /\ OneAtATime

LEMMA NodeFacts ==
  /\ Last \in Nat /\ Last >= 1 /\ Timer = 0 /\ 1 \in Receivers
  /\ Receivers = 1..Last /\ Senders = 0..(Last - 1)
BY TaskChainAssumption DEF Last, Timer, Receivers, Senders

LEMMA ChainTypesStep == ChainTypes /\ [Next]_vars => ChainTypes'
<1> SUFFICES ASSUME ChainTypes, [Next]_vars PROVE ChainTypes'
  OBVIOUS
<1> USE NodeFacts DEF ChainTypes
<1>1. CASE TimerStep
  BY <1>1 DEF TimerStep, OnTimer, TimerPublish, Announce, AddPublishTime
<1>2. ASSUME NEW i \in Receivers, ReceiverStep(i) PROVE ChainTypes'
  BY <1>2 DEF ReceiverStep, TakeEvent, TakeMessage, Skip, Relay, FinalWarmUp, Final,
              Announce, AddPublishTime
<1>3. CASE UNCHANGED vars
  BY <1>3 DEF vars
<1>4. QED
  BY <1>1, <1>2, <1>3 DEF Next

(* The steps of the timer's task. *)
LEMMA TimerTurns ==
  ASSUME ChainTypes, OneAtATime, TimerStep
  PROVE  OneAtATime'
<1> USE NodeFacts DEF ChainTypes, roundVars
<1>1. CASE OnTimer
  <2>1. CASE Settled
    <3>1. TimerTurn'
      BY <1>1, <2>1 DEF OnTimer, Settled, TimerTurn, Quiet
    <3>2. QED
      BY <3>1 DEF OneAtATime
  <2>2. CASE ~Settled
    BY <1>1, <2>2 DEF OnTimer, OneAtATime
  <2>3. QED
    BY <2>1, <2>2
<1>2. ASSUME TimerTurn, TimerPublish \/ Announce(Timer) PROVE TimerTurn'
  BY <1>2 DEF TimerTurn, TimerPublish, Announce, Quiet
<1>3. ASSUME TimerTurn, AddPublishTime(Timer) PROVE Arrived(1)' /\ at'[Timer] = "wait"
  BY <1>3 DEF TimerTurn, AddPublishTime, Arrived, Quiet
<1>4. TimerPublish \/ Announce(Timer) \/ AddPublishTime(Timer)
        => at[Timer] # "wait" /\ overlap' = overlap
  BY DEF TimerPublish, Announce, AddPublishTime
<1>5. QED
  BY <1>1, <1>2, <1>3, <1>4 DEF TimerStep, OneAtATime, ReceiverTurn

(* The steps of a receiver's task, which are those of the node that has    *)
(* the message.                                                            *)
LEMMA ReceiverTurns ==
  ASSUME ChainTypes, OneAtATime, NEW i \in Receivers, ReceiverStep(i)
  PROVE  /\ OneAtATime'
         /\ recorded' # recorded /\ ~overlap => published = Senders /\ scheduled' = Receivers
<1> USE NodeFacts DEF ChainTypes, roundVars
<1>1. at[Timer] = "wait" /\ at'[Timer] = "wait" /\ overlap' = overlap
  BY DEF ReceiverStep, TakeEvent, TakeMessage, Skip, Relay, FinalWarmUp, Final, Announce,
         AddPublishTime, CPU
<1>2. at[i] # "wait" \/ event[i]
  BY DEF ReceiverStep, TakeEvent, TakeMessage, Skip, Relay, FinalWarmUp, Final, Announce,
         AddPublishTime
<1>3. CASE overlap
  BY <1>1, <1>3 DEF OneAtATime
<1>4. ASSUME NEW j \in Receivers, Arrived(j), ~overlap
      PROVE  /\ OneAtATime'
             /\ recorded' # recorded => published = Senders /\ scheduled' = Receivers
  <2>1. i = j
    BY <1>2, <1>4 DEF Arrived, Quiet
  <2>2. CASE TakeEvent(i) \/ TakeMessage(i)
    <3>1. Arrived(i)' /\ recorded' = recorded
      BY <1>4, <2>1, <2>2 DEF Arrived, Quiet, TakeEvent, TakeMessage
    <3>2. QED
      BY <1>1, <3>1 DEF OneAtATime, ReceiverTurn
  <2>3. CASE Skip(i) \/ FinalWarmUp(i)
    <3>1. Settled' /\ recorded' = recorded
      BY <1>4, <2>1, <2>3 DEF Arrived, Quiet, Skip, FinalWarmUp, Settled
    <3>2. QED
      BY <1>1, <3>1 DEF OneAtATime
  <2>4. CASE Relay(i)
    <3>1. Relayed(i)' /\ recorded' = recorded /\ i # Last
      BY <1>4, <2>1, <2>4 DEF Arrived, Relayed, Quiet, Relay
    <3>2. QED
      BY <1>1, <3>1 DEF OneAtATime, ReceiverTurn
  <2>5. CASE Final(i)
    <3>1. Settled'
      BY <1>4, <2>1, <2>5 DEF Arrived, Quiet, Final, Settled
    <3>2. published = Senders /\ scheduled' = Receivers
      <4>1. i = Last /\ scheduled' = scheduled \cup {Last}
        BY <2>5 DEF Final
      <4>2. published = 0..(Last - 1) /\ scheduled = 1..(Last - 1)
        BY <1>4, <2>1, <4>1 DEF Arrived
      <4>3. 1..Last = 1..(Last - 1) \cup {Last}
        OBVIOUS
      <4>4. QED
        BY <4>1, <4>2, <4>3
    <3>3. QED
      BY <1>1, <3>1, <3>2 DEF OneAtATime
  <2>6. QED
    BY <1>4, <2>1, <2>2, <2>3, <2>4, <2>5 DEF ReceiverStep, Arrived, Announce, AddPublishTime
<1>5. ASSUME NEW j \in Receivers, j # Last, Relayed(j), ~overlap
      PROVE  OneAtATime' /\ recorded' = recorded
  <2>1. i = j /\ at[i] = "announce"
    BY <1>2, <1>5 DEF Relayed, Quiet
  <2>2. Announce(i)
    BY <2>1, <1>5 DEF ReceiverStep, TakeEvent, TakeMessage, Skip, Relay, FinalWarmUp, Final,
                      AddPublishTime
  <2>3. Announced(i)' /\ recorded' = recorded
    BY <1>5, <2>1, <2>2 DEF Relayed, Announced, Quiet, Announce
  <2>4. QED
    BY <1>1, <1>5, <2>1, <2>3 DEF OneAtATime, ReceiverTurn
<1>6. ASSUME NEW j \in Receivers, j # Last, Announced(j), ~overlap
      PROVE  OneAtATime' /\ recorded' = recorded
  <2>1. i = j \/ i = j + 1
    BY <1>2, <1>6 DEF Announced, Quiet
  <2>2. i # j + 1
    BY <1>6 DEF Announced, ReceiverStep, TakeEvent, TakeMessage, Skip, Relay, FinalWarmUp, Final,
                Announce, AddPublishTime, CPU
  <2>3. AddPublishTime(i)
    BY <1>6, <2>1, <2>2 DEF Announced, ReceiverStep, TakeEvent, TakeMessage, Skip, Relay,
                            FinalWarmUp, Final, Announce
  <2>4. j + 1 \in Receivers
    BY <1>6
  <2>5. Arrived(j + 1)' /\ recorded' = recorded
    BY <1>6, <2>1, <2>2, <2>3, <2>4 DEF Announced, Arrived, Quiet, AddPublishTime
  <2>6. QED
    BY <1>1, <2>4, <2>5 DEF OneAtATime, ReceiverTurn
<1>7. overlap \/ \E j \in Receivers : ReceiverTurn(j)
  BY <1>1, <1>2 DEF OneAtATime, TimerTurn, Settled
<1>8. QED
  BY <1>3, <1>4, <1>5, <1>6, <1>7 DEF ReceiverTurn

(* A round that no other one overlapped is recorded with the times of all  *)
(* its nodes: the last one, which reads the sums, does not run before the  *)
(* nodes before it have added theirs (FinalNode::on_message).              *)
THEOREM SumsAreComplete == Spec => RoundSums
<1>1. Init => ChainInv
  BY NodeFacts DEF Init, ChainInv, ChainTypes, OneAtATime, Settled
<1>2. OneAtATime /\ UNCHANGED vars => OneAtATime' /\ recorded' = recorded
  BY DEF vars, roundVars, OneAtATime, TimerTurn, Settled, ReceiverTurn, Arrived, Relayed,
         Announced, Quiet
<1>3. TimerStep => recorded' = recorded
  BY DEF TimerStep, OnTimer, TimerPublish, Announce, AddPublishTime, roundVars
<1>4. ChainInv /\ [Next]_vars => ChainInv'
  BY <1>2, ChainTypesStep, TimerTurns, ReceiverTurns DEF ChainInv, Next
<1>5. ChainInv /\ [Next]_vars =>
        [recorded' # recorded /\ ~overlap => published = Senders /\ scheduled' = Receivers]_vars
  BY <1>3, ReceiverTurns DEF ChainInv, Next
<1>6. QED
  BY <1>1, <1>4, <1>5, PTL DEF Spec, RoundSums

=============================================================================

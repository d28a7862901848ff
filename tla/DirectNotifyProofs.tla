------------------------- MODULE DirectNotifyProofs -------------------------
(***************************************************************************)
(* One take per event empties the buffers when callback tasks preempt the  *)
(* publishers, for every number of subscriptions and publishers and every  *)
(* capacity.                                                               *)
(***************************************************************************)
EXTENDS DirectNotify, FiniteSetTheorems, TLAPS

(* Every variable keeps its type, with or without preemption. *)
THEOREM TypeCorrect == Spec => []TypeOK
<1> USE IntraProcessAssumption, DirectNotifyAssumption
<1>1. Init => TypeOK
  BY DEF Init, IntraInit, TypeOK, IntraTypeOK
<1>2. TypeOK /\ [Next]_vars => TypeOK'
  <2> SUFFICES ASSUME TypeOK, [Next]_vars PROVE TypeOK'
    OBVIOUS
  <2> USE DEF TypeOK, IntraTypeOK
  <2>1. ASSUME NEW p \in Publishers, PublisherStep(p) PROVE TypeOK'
    <3>1. CASE Notify(p)
      BY <2>1, <3>1 DEF PublisherStep, Notify
    <3>2. ASSUME NEW s \in Subs, Publish(p, s) PROVE TypeOK'
      BY <2>1, <3>2 DEF PublisherStep, Publish
    <3>3. QED
      BY <2>1, <3>1, <3>2 DEF PublisherStep
  <2>2. ASSUME NEW s \in Subs, TakeEvent(s) PROVE TypeOK'
    BY <2>2 DEF TakeEvent
  <2>3. ASSUME NEW s \in Subs, Take(s) PROVE TypeOK'
    BY <2>3 DEF Take, Consume
  <2>4. ASSUME NEW s \in Subs, HandleMessage(s) PROVE TypeOK'
    BY <2>4 DEF HandleMessage, Retrigger
  <2>5. ASSUME NEW s \in Subs, FindNothing(s) PROVE TypeOK'
    BY <2>5 DEF FindNothing, intraVars
  <2>6. CASE UNCHANGED vars
    BY <2>6 DEF vars, intraVars
  <2>7. QED
    BY <2>1, <2>2, <2>3, <2>4, <2>5, <2>6 DEF Next, ReaderStep
<1>3. QED
  BY <1>1, <1>2, PTL DEF Spec

-----------------------------------------------------------------------------
(* The publishers that have stored a message of s and not yet announced it. *)
Announcing(s) == {p \in Publishers : publishing[p] = s}

(* The take that the callback task of s is sure to make. *)
Owed(s) == IF notified[s] \/ reader[s] = "ready" THEN 1 ELSE 0

(* A buffer holds no more messages than will be announced and taken. *)
CountInv == \A s \in Subs : size_[s] <= Cardinality(Announcing(s)) + Owed(s)

(* A publication adds its publisher to those announcing, ... *)
LEMMA PublishCounts ==
  ASSUME IsFiniteSet(Publishers), TypeOK, NEW p \in Publishers, NEW s \in Subs, Publish(p, s)
  PROVE  /\ Cardinality(Announcing(s)') = Cardinality(Announcing(s)) + 1
         /\ \A u \in Subs \ {s} : Announcing(u)' = Announcing(u)
<1> USE IntraProcessAssumption DEF TypeOK, IntraTypeOK, Publish
<1>1. Announcing(s)' = Announcing(s) \cup {p} /\ p \notin Announcing(s)
  BY DEF Announcing
<1>2. IsFiniteSet(Announcing(s))
  BY FS_Subset DEF Announcing
<1>3. \A u \in Subs \ {s} : Announcing(u)' = Announcing(u)
  BY DEF Announcing
<1>4. QED
  BY <1>1, <1>2, <1>3, FS_AddElement

(* ... and a notification removes it. *)
LEMMA NotifyCounts ==
  ASSUME IsFiniteSet(Publishers), TypeOK, NEW p \in Publishers, NEW s \in Subs,
         publishing[p] = s, Notify(p)
  PROVE  /\ Cardinality(Announcing(s)') = Cardinality(Announcing(s)) - 1
         /\ \A u \in Subs \ {s} : Announcing(u)' = Announcing(u)
<1> USE IntraProcessAssumption DEF TypeOK, IntraTypeOK
<1>1. publishing' = [publishing EXCEPT ![p] = NONE] /\ s # NONE
  BY DEF Notify
<1>2. p \in Announcing(s) /\ Announcing(s)' = Announcing(s) \ {p}
  BY <1>1 DEF Announcing
<1>3. IsFiniteSet(Announcing(s))
  BY FS_Subset DEF Announcing
<1>4. \A u \in Subs \ {s} : Announcing(u)' = Announcing(u)
  BY <1>1 DEF Announcing
<1>5. QED
  BY <1>2, <1>3, <1>4, FS_RemoveElement

(* Preemption is what makes CountInv inductive: an event is never sent to  *)
(* a task that was already owed one.                                       *)
LEMMA CountStep ==
  ASSUME Preempts, IsFiniteSet(Publishers), TypeOK, TypeOK', CountInv, [Next]_vars
  PROVE  CountInv'
<1> USE IntraProcessAssumption, DirectNotifyAssumption
<1>0. \A s \in Subs :
        /\ IsFiniteSet(Announcing(s)) /\ Cardinality(Announcing(s)) \in Nat
        /\ size_[s] \in Nat /\ notified[s] \in BOOLEAN
  <2>1. \A s \in Subs : IsFiniteSet(Announcing(s))
    BY FS_Subset DEF Announcing
  <2>2. QED
    BY <2>1, FS_CardinalityType DEF TypeOK, IntraTypeOK
<1>1. ASSUME NEW p \in Publishers, NEW s \in Subs, PublisherStep(p), Publish(p, s)
      PROVE  CountInv'
  <2>1. SUFFICES ASSUME NEW u \in Subs
        PROVE  size_'[u] <= Cardinality(Announcing(u)') + Owed(u)'
    BY DEF CountInv
  <2>2. Owed(u)' = Owed(u) /\ Owed(u) \in {0, 1}
    BY <1>1 DEF PublisherStep, Publish, Owed
  <2>3. size_'[u] <= size_[u] + (IF u = s THEN 1 ELSE 0)
    BY <1>0, <1>1 DEF Publish, TypeOK, IntraTypeOK
  <2>4. size_[u] <= Cardinality(Announcing(u)) + Owed(u) /\ size_'[u] \in Nat
    BY DEF CountInv, TypeOK, IntraTypeOK
  <2>5. Cardinality(Announcing(u)') = Cardinality(Announcing(u)) + (IF u = s THEN 1 ELSE 0)
    BY <1>0, <1>1, PublishCounts
  <2>6. QED
    BY <1>0, <2>2, <2>3, <2>4, <2>5
<1>2. ASSUME NEW p \in Publishers, NEW s \in Subs, publishing[p] = s,
             PublisherStep(p), Notify(p)
      PROVE  CountInv'
  <2>1. SUFFICES ASSUME NEW u \in Subs
        PROVE  size_'[u] <= Cardinality(Announcing(u)') + Owed(u)'
    BY DEF CountInv
  <2>2. Owed(u) = 0 /\ Owed(u)' = IF u = s THEN 1 ELSE 0
    BY <1>2 DEF PublisherStep, Notify, Owed, TypeOK, IntraTypeOK
  <2>3. size_'[u] = size_[u]
    BY <1>2 DEF Notify
  <2>4. size_[u] <= Cardinality(Announcing(u)) + Owed(u)
    BY DEF CountInv
  <2>5. Cardinality(Announcing(u)') = Cardinality(Announcing(u)) - (IF u = s THEN 1 ELSE 0)
    BY <1>0, <1>2, NotifyCounts
  <2>6. QED
    BY <1>0, <2>2, <2>3, <2>4, <2>5
<1>3. ASSUME NEW s \in Subs, ReaderStep(s) PROVE CountInv'
  <2>1. SUFFICES ASSUME NEW u \in Subs
        PROVE  size_'[u] <= Cardinality(Announcing(u)') + Owed(u)'
    BY DEF CountInv
  <2>2. publishing' = publishing
    BY <1>3 DEF ReaderStep, TakeEvent, Take, Consume, HandleMessage, Retrigger,
                FindNothing, intraVars
  <2>3. Announcing(u)' = Announcing(u)
    BY <2>2 DEF Announcing
  <2>4. size_[u] <= Cardinality(Announcing(u)) + Owed(u)
    BY DEF CountInv
  <2>5. \/ size_'[u] <= size_[u] /\ Owed(u)' >= Owed(u)
        \/ size_'[u] <= size_[u] - 1 /\ Owed(u)' >= Owed(u) - 1
        \/ size_'[u] = 0
    <3>1. CASE TakeEvent(s)
      BY <1>0, <3>1 DEF TakeEvent, Owed, TypeOK, IntraTypeOK
    <3>2. CASE Take(s)
      BY <1>0, <3>2 DEF Take, Consume, Owed, TypeOK, IntraTypeOK
    <3>3. CASE HandleMessage(s)
      BY <1>0, <3>3 DEF HandleMessage, Retrigger, Owed, TypeOK, IntraTypeOK
    <3>4. CASE FindNothing(s)
      BY <1>0, <3>4 DEF FindNothing, intraVars, Owed, TypeOK, IntraTypeOK
    <3>5. QED
      BY <1>3, <3>1, <3>2, <3>3, <3>4 DEF ReaderStep
  <2>6. Owed(u) \in {0, 1} /\ Owed(u)' \in {0, 1} /\ size_'[u] \in Nat
    BY DEF Owed, TypeOK, IntraTypeOK
  <2>7. QED
    BY <1>0, <2>3, <2>4, <2>5, <2>6
<1>4. CASE UNCHANGED vars
  BY <1>4 DEF vars, intraVars, CountInv, Announcing, Owed
<1>5. QED
  <2>1. ASSUME NEW p \in Publishers, Notify(p) PROVE publishing[p] \in Subs
    BY <2>1 DEF Notify, TypeOK, IntraTypeOK
  <2>2. QED
    BY <1>1, <1>2, <1>3, <1>4, <2>1 DEF Next, PublisherStep

(* When callback tasks preempt the publishers, no message stays behind in  *)
(* the buffer of a task that waits without an event (run_loop and the      *)
(* subscription callback: one take per event).                             *)
THEOREM OneTakeIsEnough ==
  ASSUME Preempts, IsFiniteSet(Publishers)
  PROVE  Spec => []NoStranded
<1>1. Init => CountInv
  <2>1. SUFFICES ASSUME Init, NEW s \in Subs
        PROVE  size_[s] <= Cardinality(Announcing(s)) + Owed(s)
    BY DEF CountInv
  <2>2. IsFiniteSet(Announcing(s))
    BY FS_Subset DEF Announcing
  <2>3. Cardinality(Announcing(s)) \in Nat
    BY <2>2, FS_CardinalityType
  <2>4. QED
    BY <2>1, <2>3 DEF Init, IntraInit, Owed
<1>2. TypeOK /\ TypeOK' /\ CountInv /\ [Next]_vars => CountInv'
  BY CountStep
<1>3. TypeOK /\ CountInv => NoStranded
  <2>1. SUFFICES ASSUME TypeOK, CountInv, NEW s \in Subs, reader[s] = "wait", ~notified[s],
                        \A p \in Publishers : publishing[p] # s
        PROVE  size_[s] = 0
    BY DEF NoStranded
  <2>2. Announcing(s) = {} /\ Owed(s) = 0
    BY <2>1 DEF Announcing, Owed
  <2>3. Cardinality(Announcing(s)) = 0
    BY <2>2, FS_EmptySet
  <2>4. QED
    BY <2>1, <2>2, <2>3 DEF CountInv, TypeOK, IntraTypeOK
<1>4. QED
  BY <1>1, <1>2, <1>3, TypeCorrect, PTL DEF Spec

=============================================================================

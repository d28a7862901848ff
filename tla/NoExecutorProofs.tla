-------------------------- MODULE NoExecutorProofs --------------------------
(***************************************************************************)
(* The types of NoExecutor, and the lock-free stack of its idle threads:   *)
(* if no address is reused while a pop() holds it, the stack is a list, no *)
(* idle thread is lost or found twice, and every message announced has an  *)
(* executable on its way, for every number of threads, dispatchers and     *)
(* nodes.                                                                  *)
(***************************************************************************)
EXTENDS NoExecutor, SequenceTheorems, FiniteSetTheorems, TLAPS

(* The two operations on the history of the stack. *)
LEMMA PushSeq ==
  ASSUME NEW S, NEW s \in Seq(S), NEW x \in S, NEW r, r = <<x>> \o s
  PROVE  /\ r \in Seq(S) /\ Len(r) = Len(s) + 1 /\ r[1] = x
         /\ \A i \in 1..Len(s) : r[i + 1] = s[i]
OBVIOUS

LEMMA PopSeq ==
  ASSUME NEW s \in Seq(Nodes), s # <<>>, NEW r, r = SubSeq(s, 2, Len(s))
  PROVE  /\ r \in Seq(Nodes) /\ Len(r) = Len(s) - 1
         /\ \A i \in 1..Len(r) : r[i] = s[i + 1]
<1>1. Len(s) \in Nat \ {0} /\ \A i \in 2..Len(s) : s[i] \in Nodes
  BY EmptySeq
<1>2. /\ r \in Seq(Nodes) /\ Len(r) = IF 2 <= Len(s) THEN Len(s) - 2 + 1 ELSE 0
      /\ \A i \in 1..(Len(s) - 2 + 1) : r[i] = s[2 + i - 1]
  BY <1>1, SubSeqProperties
<1> DEFINE n == Len(s)
<1> HIDE DEF n
<1>3. Len(r) = Len(s) - 1
  <2>1. n \in Nat \ {0} /\ Len(r) = IF 2 <= n THEN n - 2 + 1 ELSE 0
    BY <1>1, <1>2 DEF n
  <2>2. Len(r) = n - 1
    BY <2>1
  <2>3. QED
    BY <2>2 DEF n
<1>4. ASSUME NEW i \in 1..Len(r) PROVE r[i] = s[i + 1]
  <2>1. i \in 1..(Len(s) - 2 + 1) /\ 2 + i - 1 = i + 1
    BY <1>1, <1>3
  <2>2. QED
    BY <1>2, <2>1
<1>5. QED
  BY <1>2, <1>3, <1>4

-----------------------------------------------------------------------------
(* Every step of NoExecutor is one of the stack, or leaves it alone. *)
StackStep ==
  \/ \E t \in Threads : NewNode(t) \/ Link(t) \/ LinkFails(t)
  \/ \E p \in Poppers :
       \/ Load(p) \/ ReadNext(p) \/ Unlink(p) \/ UnlinkFails(p) \/ FoundEmpty(p)
       \/ \E t \in Threads : Popped(p, t)
  \/ UNCHANGED stackVars

LEMMA StepsOfStack == [Next]_vars => StackStep
BY DEF Next, vars, StackStep, Start, Stop, handle_timer, handle_subscription, DispatchStep,
       Pop, PopStep, PopEnds, create_thread, SetBusy, Execute, ThreadStep, Unlock, SetIdle, Push

LEMMA StackTypes == StackTypeOK /\ StackStep => StackTypeOK'
<1> SUFFICES ASSUME StackTypeOK, StackStep PROVE StackTypeOK'
  OBVIOUS
<1> USE StackAssumption DEF StackTypeOK
<1>1. ASSUME NEW t \in Threads, NewNode(t) PROVE StackTypeOK'
  BY <1>1 DEF NewNode
<1>2. ASSUME NEW t \in Threads, Link(t) PROVE StackTypeOK'
  <2>1. order' \in Seq(Nodes)
    BY <1>2, PushSeq DEF Link
  <2>2. QED
    BY <1>2, <2>1 DEF Link
<1>3. ASSUME NEW t \in Threads, LinkFails(t) PROVE StackTypeOK'
  BY <1>3 DEF LinkFails
<1>4. ASSUME NEW p \in Poppers, Load(p) \/ UnlinkFails(p) PROVE StackTypeOK'
  BY <1>4 DEF Load, UnlinkFails, Hold
<1>5. ASSUME NEW p \in Poppers, ReadNext(p) PROVE StackTypeOK'
  BY <1>5 DEF ReadNext
<1>6. ASSUME NEW p \in Poppers, Unlink(p) PROVE StackTypeOK'
  <2>1. order' \in Seq(Nodes)
    BY <1>6 DEF Unlink
  <2>2. QED
    BY <1>6, <2>1 DEF Unlink
<1>7. ASSUME NEW p \in Poppers, FoundEmpty(p) PROVE StackTypeOK'
  BY <1>7 DEF FoundEmpty
<1>8. ASSUME NEW p \in Poppers, NEW t \in Threads, Popped(p, t) PROVE StackTypeOK'
  BY <1>8 DEF Popped
<1>9. CASE UNCHANGED stackVars
  BY <1>9 DEF stackVars
<1>10. QED
  BY <1>1, <1>2, <1>3, <1>4, <1>5, <1>6, <1>7, <1>8, <1>9 DEF StackStep

(* The rest of NoExecutor. *)
ExecTypeOK ==
  /\ started \in {"no", "yes", "over"}
  /\ unread \in [Subs -> 0..depth] /\ missed \in [Subs -> 0..depth]
  /\ todo \in [Poppers -> SUBSET Sources]
  /\ doing \in [Poppers -> Sources \cup {NULL}]
  /\ idle_thread \in [Poppers -> Threads \cup {NULL}]
  /\ at \in [Threads -> {"none", "wait", "callback", "done", "push"}]
  /\ is_busy \in [Threads -> BOOLEAN]
  /\ executable \in [Threads -> Sources \cup {NULL}]
  /\ locked \subseteq Exclusive

LEMMA ExecTypes == ExecTypeOK /\ [Next]_vars => ExecTypeOK'
<1> SUFFICES ASSUME ExecTypeOK, [Next]_vars PROVE ExecTypeOK'
  OBVIOUS
<1> USE NoExecutorAssumption DEF ExecTypeOK, threadVars, dispatchVars, set_val
<1>1. CASE Start \/ Stop
  BY <1>1 DEF Start, Stop
<1>2. ASSUME NEW p \in Poppers, handle_timer(p) PROVE ExecTypeOK'
  BY <1>2 DEF handle_timer, Sources
<1>3. ASSUME NEW p \in Poppers, NEW s \in Subs, handle_subscription(p, s) PROVE ExecTypeOK'
  <2>1. unread' \in [Subs -> 0..depth] /\ missed' \in [Subs -> 0..depth]
    BY <1>3 DEF handle_subscription
  <2>2. todo' \in [Poppers -> SUBSET Sources]
    BY <1>3 DEF handle_subscription, Sources
  <2>3. QED
    BY <1>3, <2>1, <2>2 DEF handle_subscription
<1>4. ASSUME NEW p \in Poppers, DispatchStep(p) PROVE ExecTypeOK'
  <2>1. ASSUME NEW s \in Sources, Pop(p, s) PROVE ExecTypeOK'
    BY <2>1 DEF Pop
  <2>2. CASE PopStep(p)
    BY <2>2 DEF PopStep
  <2>3. CASE PopEnds(p)
    BY <2>3 DEF PopEnds
  <2>4. CASE create_thread(p)
    BY <2>4 DEF create_thread
  <2>5. CASE SetBusy(p)
    BY <2>5 DEF SetBusy
  <2>6. QED
    BY <1>4, <2>1, <2>2, <2>3, <2>4, <2>5 DEF DispatchStep
<1>5. ASSUME NEW t \in Threads, Execute(t) PROVE ExecTypeOK'
  <2>1. unread' \in [Subs -> 0..depth]
    BY <1>5 DEF Execute
  <2>2. QED
    BY <1>5, <2>1 DEF Execute
<1>6. ASSUME NEW t \in Threads, ThreadStep(t) PROVE ExecTypeOK'
  BY <1>6 DEF ThreadStep, Unlock, SetIdle, Push
<1>7. CASE UNCHANGED vars
  BY <1>7 DEF vars
<1>8. QED
  BY <1>1, <1>2, <1>3, <1>4, <1>5, <1>6, <1>7 DEF Next

LEMMA TypeInit == Init => StackTypeOK /\ ExecTypeOK
<1>1. Init => StackTypeOK
  BY DEF Init, StackInit, StackTypeOK
<1>2. Init => ExecTypeOK
  BY NoExecutorAssumption DEF Init, ExecTypeOK
<1>3. QED
  BY <1>1, <1>2

(* Every variable of the executor and its stack keeps its type. *)
THEOREM TypeCorrect == Spec => []TypeOK
<1>1. StackTypeOK /\ ExecTypeOK <=> TypeOK
  BY DEF TypeOK, ExecTypeOK
<1>2. QED
  BY <1>1, TypeInit, StepsOfStack, StackTypes, ExecTypes, PTL DEF Spec

-----------------------------------------------------------------------------
(* The stack.                                                              *)

Listed == {order[i] : i \in 1..Len(order)}

(* The node a thread is pushing is its own; no pop() holds its address. *)
PushInv ==
  \A t \in Threads : node[t] # NULL =>
    /\ node[t] \in live \ Listed
    /\ \A p \in Poppers : cur_head[p] # node[t]
    /\ \A u \in Threads : node[u] = node[t] => u = t

(* What a pop() has read of a node holds for as long as the node is in the *)
(* list: it cannot leave and come back.  A node it has unlinked is not in  *)
(* the list.                                                               *)
PopInv ==
  \A p \in Poppers :
    /\ popping[p] \in {"loaded", "read", "won"} => cur_head[p] \in Nodes
    /\ popping[p] = "read" /\ cur_head[p] \in Listed => succ[p] = next[cur_head[p]]
    /\ popping[p] = "won" => cur_head[p] \notin Listed

StackInv == StackOK /\ PushInv /\ PopInv

(* What push() and pop() do to the list. *)
LEMMA OrderPushed ==
  ASSUME StackTypeOK, NEW t \in Threads, Link(t), NEW n \in Nodes, n = node[t]
  PROVE  /\ Len(order) \in Nat /\ Len(order') = Len(order) + 1 /\ order'[1] = n
         /\ \A i \in 1..Len(order) : order'[i + 1] = order[i]
         /\ Listed' = Listed \cup {n}
<1>1. /\ Len(order) \in Nat /\ Len(order') = Len(order) + 1 /\ order'[1] = n
      /\ \A i \in 1..Len(order) : order'[i + 1] = order[i]
  BY PushSeq DEF Link, StackTypeOK
<1>2. ASSUME NEW i \in 1..Len(order') PROVE order'[i] \in Listed \cup {n}
  <2>1. i = 1 \/ (i - 1 \in 1..Len(order) /\ order'[i] = order[i - 1])
    BY <1>1
  <2>2. QED
    BY <1>1, <2>1 DEF Listed
<1>3. \A i \in 1..Len(order) : i + 1 \in 1..Len(order') /\ order'[i + 1] = order[i]
  BY <1>1
<1>4. \A x : x \in Listed' <=> \E j \in 1..Len(order') : order'[j] = x
  BY DEF Listed
<1>5. ASSUME NEW x \in Listed PROVE x \in Listed'
  <2>1. PICK i \in 1..Len(order) : x = order[i]
    BY DEF Listed
  <2>2. QED
    BY <1>3, <1>4, <2>1
<1>6. n \in Listed'
  <2>1. 1 \in 1..Len(order')
    BY <1>1
  <2>2. QED
    BY <1>1, <1>4, <2>1
<1>7. Listed' \subseteq Listed \cup {n}
  BY <1>2, <1>4
<1>8. QED
  BY <1>1, <1>5, <1>6, <1>7

LEMMA OrderPopped ==
  ASSUME StackTypeOK, StackOK, head # NULL, NEW p \in Poppers, Unlink(p)
  PROVE  /\ order # <<>> /\ head = order[1] /\ Len(order) \in Nat \ {0}
         /\ Len(order') = Len(order) - 1
         /\ \A i \in 1..Len(order') : order'[i] = order[i + 1]
         /\ head \in Listed /\ Listed' = Listed \ {head}
<1> USE DEF StackTypeOK
<1>1. order # <<>> /\ head = order[1] /\ Len(order) \in Nat \ {0}
  BY EmptySeq DEF StackOK
<1>2. /\ Len(order') = Len(order) - 1
      /\ \A i \in 1..Len(order') : order'[i] = order[i + 1]
  <2>1. order \in Seq(Nodes) /\ order' = SubSeq(order, 2, Len(order))
    BY DEF Unlink
  <2>2. \A r : r = SubSeq(order, 2, Len(order)) =>
               /\ Len(r) = Len(order) - 1
               /\ \A i \in 1..Len(r) : r[i] = order[i + 1]
    BY <1>1, <2>1, PopSeq
  <2>3. QED
    BY <2>1, <2>2
<1>3. \A x : x \in Listed' <=> \E j \in 1..Len(order') : order'[j] = x
  BY DEF Listed
<1>4. \A x : x \in Listed <=> \E j \in 1..Len(order) : order[j] = x
  BY DEF Listed
<1>5. ASSUME NEW i \in 1..Len(order') PROVE order'[i] # head /\ order'[i] \in Listed
  <2>1. i + 1 \in 1..Len(order) /\ i + 1 # 1 /\ 1 \in 1..Len(order)
    BY <1>1, <1>2
  <2>2. QED
    BY <1>1, <1>2, <1>4, <2>1 DEF StackOK
<1>6. ASSUME NEW x \in Listed, x # head PROVE x \in Listed'
  <2>1. PICK j \in 1..Len(order) : x = order[j]
    BY <1>4
  <2>2. j # 1
    BY <1>1, <1>6, <2>1
  <2>3. j - 1 \in 1..Len(order') /\ (j - 1) + 1 = j
    BY <1>1, <1>2, <2>2
  <2>4. order'[j - 1] = x
    BY <1>2, <2>1, <2>3
  <2>5. QED
    BY <1>3, <2>3, <2>4
<1>7. head \in Listed
  <2>1. 1 \in 1..Len(order)
    BY <1>1
  <2>2. QED
    BY <1>1, <1>4, <2>1
<1>8. Listed' \subseteq Listed \ {head}
  BY <1>3, <1>5
<1>9. QED
  BY <1>1, <1>2, <1>6, <1>7, <1>8

LEMMA NewNodeInv ==
  ASSUME ~Reuse, StackTypeOK, StackInv, NEW t \in Threads, NewNode(t)
  PROVE  StackInv'
<1> USE StackAssumption DEF StackTypeOK, StackInv
<1>1. PICK n \in Nodes \ live :
        /\ \A p \in Poppers : cur_head[p] # n
        /\ live' = live \cup {n}
        /\ next' = [next EXCEPT ![n] = head]
        /\ node' = [node EXCEPT ![t] = n]
  BY DEF NewNode
<1>2. UNCHANGED <<head, cur_head, succ, popping, order>>
  BY DEF NewNode
<1>3. Listed \subseteq live /\ Listed' = Listed /\ n \notin Listed
  BY <1>2 DEF StackOK, Listed
<1>4. StackOK'
  BY <1>1, <1>2 DEF StackOK
<1>5. PushInv'
  BY <1>1, <1>2, <1>3 DEF PushInv
<1>6. PopInv'
  BY <1>1, <1>2, <1>3 DEF PopInv
<1>7. QED
  BY <1>4, <1>5, <1>6

LEMMA LinkInv ==
  ASSUME StackTypeOK, StackTypeOK', StackInv, NEW t \in Threads, Link(t)
  PROVE  StackInv'
<1> USE StackAssumption DEF StackTypeOK, StackInv
<1>0. PICK n : n = node[t]
  OBVIOUS
<1>1. /\ n \in live /\ n \in Nodes /\ n \notin Listed /\ head = next[n] /\ head' = n
      /\ \A p \in Poppers : cur_head[p] # n
      /\ node' = [node EXCEPT ![t] = NULL]
      /\ UNCHANGED <<next, live, cur_head, succ, popping>>
  BY <1>0 DEF Link, PushInv
<1>2. /\ Len(order) \in Nat /\ Len(order') = Len(order) + 1 /\ order'[1] = n
      /\ \A i \in 1..Len(order) : order'[i + 1] = order[i]
      /\ Listed' = Listed \cup {n}
  BY <1>0, <1>1, OrderPushed
<1>3. \A i \in 2..Len(order') : i - 1 \in 1..Len(order) /\ order'[i] = order[i - 1]
  BY <1>2
<1>5. StackOK'
  <2>1. head' = order'[1] /\ order' # <<>>
    BY <1>1, <1>2
  <2>2. ASSUME NEW i \in 1..Len(order')
        PROVE  /\ order'[i] \in live'
               /\ next'[order'[i]] = IF i = Len(order') THEN NULL ELSE order'[i + 1]
    <3>1. CASE i = 1
      <4>1. order = <<>> => Len(order') = 1 /\ head = NULL
        BY <1>2 DEF StackOK
      <4>2. order # <<>> => Len(order) >= 1 /\ head = order[1]
        BY <1>2, EmptySeq DEF StackOK
      <4>3. order'[i] = n /\ next'[n] = head
        BY <1>1, <1>2, <3>1
      <4>4. head = IF 1 = Len(order') THEN NULL ELSE order'[2]
        <5>1. order # <<>> => 1 \in 1..Len(order) /\ order'[1 + 1] = order[1] /\ 1 + 1 = 2
          BY <1>2, <4>2
        <5>2. QED
          BY <1>2, <4>1, <4>2, <5>1
      <4>5. QED
        BY <1>1, <3>1, <4>3, <4>4
    <3>2. CASE i # 1
      <4>1. i - 1 \in 1..Len(order) /\ order'[i] = order[i - 1]
        BY <1>2, <1>3, <3>2
      <4>2. next[order[i - 1]] = IF i - 1 = Len(order) THEN NULL ELSE order[i]
        <5>1. (i - 1) + 1 = i
          BY <1>2
        <5>2. QED
          BY <4>1, <5>1 DEF StackOK
      <4>3. i # Len(order') => order'[i + 1] = order[i]
        <5>1. i # Len(order') => i \in 1..Len(order)
          BY <1>2
        <5>2. QED
          BY <1>2, <5>1
      <4>4. QED
        BY <1>1, <1>2, <4>1, <4>2, <4>3 DEF StackOK
    <3>3. QED
      BY <3>1, <3>2
  <2>3. ASSUME NEW i \in 1..Len(order'), NEW j \in 1..Len(order'), order'[i] = order'[j]
        PROVE  i = j
    <3>1. \A m \in 2..Len(order') : order'[m] # n
      BY <1>1, <1>3 DEF Listed
    <3>2. CASE i = 1 \/ j = 1
      BY <1>2, <2>3, <3>1, <3>2
    <3>3. CASE i # 1 /\ j # 1
      BY <1>2, <1>3, <2>3, <3>3 DEF StackOK
    <3>4. QED
      BY <3>2, <3>3
  <2>4. QED
    BY <2>1, <2>2, <2>3 DEF StackOK
<1>6. PushInv'
  BY <1>0, <1>1, <1>2 DEF PushInv
<1>7. PopInv'
  BY <1>1, <1>2 DEF PopInv
<1>8. QED
  BY <1>5, <1>6, <1>7

LEMMA LinkFailsInv ==
  ASSUME StackTypeOK, StackInv, NEW t \in Threads, LinkFails(t)
  PROVE  StackInv'
<1> USE StackAssumption DEF StackTypeOK, StackInv
<1>1. node[t] \notin Listed /\ next' = [next EXCEPT ![node[t]] = head]
      /\ UNCHANGED <<head, live, node, cur_head, succ, popping, order>>
  BY DEF LinkFails, PushInv
<1>2. StackOK'
  BY <1>1 DEF StackOK, Listed
<1>3. PushInv'
  BY <1>1 DEF PushInv, Listed
<1>4. PopInv'
  BY <1>1 DEF PopInv, Listed
<1>5. QED
  BY <1>2, <1>3, <1>4

LEMMA HoldInv ==
  ASSUME StackTypeOK, StackInv, NEW p \in Poppers, Hold(p),
         UNCHANGED <<head, next, live, node, succ, order>>
  PROVE  StackInv'
<1> USE StackAssumption DEF StackTypeOK, StackInv
<1>1. head = NULL \/ head \in Listed
  <2>1. order # <<>> => 1 \in 1..Len(order)
    BY EmptySeq
  <2>2. QED
    BY <2>1 DEF StackOK, Listed
<1>2. StackOK'
  BY DEF StackOK
<1>3. PushInv'
  BY <1>1 DEF PushInv, Hold, Listed
<1>4. PopInv'
  BY DEF PopInv, Hold, Listed
<1>5. QED
  BY <1>2, <1>3, <1>4

LEMMA ReadNextInv ==
  ASSUME StackTypeOK, StackInv, NEW p \in Poppers, ReadNext(p)
  PROVE  StackInv'
<1> USE StackAssumption DEF StackTypeOK, StackInv
<1>1. UNCHANGED <<head, next, live, node, cur_head, order>>
  BY DEF ReadNext
<1>2. StackOK' /\ PushInv'
  BY <1>1 DEF StackOK, PushInv, Listed
<1>3. Listed \subseteq live /\ Listed' = Listed
  BY <1>1 DEF StackOK, Listed
<1>4. PopInv'
  BY <1>1, <1>3 DEF PopInv, ReadNext
<1>5. QED
  BY <1>2, <1>4

LEMMA UnlinkInv ==
  ASSUME StackTypeOK, StackTypeOK', StackInv, NEW p \in Poppers, Unlink(p)
  PROVE  StackInv'
<1> USE StackAssumption DEF StackTypeOK, StackInv
<1>1. /\ popping[p] = "read" /\ head = cur_head[p] /\ head \in Nodes /\ head' = succ[p]
      /\ popping' = [popping EXCEPT ![p] = "won"]
      /\ UNCHANGED <<next, live, node, cur_head, succ>>
  BY DEF Unlink, PopInv
<1>2. order # <<>> /\ head = order[1] /\ Len(order) \in Nat \ {0}
  BY <1>1, OrderPopped
<1>3. /\ Len(order') = Len(order) - 1
      /\ \A i \in 1..Len(order') : order'[i] = order[i + 1]
  BY <1>1, OrderPopped
<1>4. \A i \in 1..Len(order') : i + 1 \in 1..Len(order) /\ i + 1 # 1
  BY <1>2, <1>3
<1>5. head \in Listed /\ Listed' = Listed \ {head}
  BY <1>1, OrderPopped
<1>6. succ[p] = IF 1 = Len(order) THEN NULL ELSE order[2]
  <2>1. succ[p] = next[order[1]]
    BY <1>1, <1>2, <1>5 DEF PopInv
  <2>2. 1 \in 1..Len(order) /\ 1 + 1 = 2
    BY <1>2
  <2>3. QED
    BY <2>1, <2>2 DEF StackOK
<1>7. StackOK'
  <2>1. head' = IF order' = <<>> THEN NULL ELSE order'[1]
    <3>1. CASE Len(order) = 1
      <4>1. order' = <<>>
        BY <1>3, <3>1, EmptySeq
      <4>2. QED
        BY <1>1, <1>6, <3>1, <4>1
    <3>2. CASE Len(order) # 1
      <4>1. order' # <<>> /\ 1 \in 1..Len(order')
        BY <1>2, <1>3, <3>2
      <4>2. order'[1] = order[2]
        BY <1>3, <4>1
      <4>3. QED
        BY <1>1, <1>6, <3>2, <4>1, <4>2
    <3>3. QED
      BY <3>1, <3>2
  <2>2. \A i \in 1..Len(order') :
          /\ order'[i] \in live'
          /\ next'[order'[i]] = IF i = Len(order') THEN NULL ELSE order'[i + 1]
    <3>1. \A i \in 1..Len(order') : i # Len(order') => order'[i + 1] = order[i + 2]
      BY <1>2, <1>3
    <3>2. QED
      BY <1>1, <1>2, <1>3, <1>4, <3>1 DEF StackOK
  <2>3. \A i, j \in 1..Len(order') : order'[i] = order'[j] => i = j
    BY <1>2, <1>3, <1>4 DEF StackOK
  <2>4. QED
    BY <2>1, <2>2, <2>3 DEF StackOK
<1>8. PushInv'
  BY <1>1, <1>5 DEF PushInv
<1>9. PopInv'
  BY <1>1, <1>5 DEF PopInv
<1>10. QED
  BY <1>7, <1>8, <1>9

LEMMA PoppedInv ==
  ASSUME StackTypeOK, StackInv, NEW p \in Poppers, NEW t \in Threads, Popped(p, t)
  PROVE  StackInv'
<1> USE StackAssumption DEF StackTypeOK, StackInv
<1>1. /\ cur_head[p] \in Nodes \ Listed
      /\ live' = live \ {cur_head[p]} /\ next' = [next EXCEPT ![cur_head[p]] = NULL]
      /\ cur_head' = [cur_head EXCEPT ![p] = NULL] /\ succ' = [succ EXCEPT ![p] = NULL]
      /\ popping' = [popping EXCEPT ![p] = "no"]
      /\ UNCHANGED <<head, node, order>>
  BY DEF Popped, PopInv
<1>2. StackOK'
  BY <1>1 DEF StackOK, Listed
<1>3. PushInv'
  BY <1>1 DEF PushInv, Listed
<1>4. PopInv'
  BY <1>1 DEF PopInv, Listed
<1>5. QED
  BY <1>2, <1>3, <1>4

LEMMA StackInvStep ==
  ASSUME ~Reuse
  PROVE  StackTypeOK /\ StackTypeOK' /\ StackInv /\ StackStep => StackInv'
<1> SUFFICES ASSUME StackTypeOK, StackTypeOK', StackInv, StackStep PROVE StackInv'
  OBVIOUS
<1>1. ASSUME NEW p \in Poppers, Load(p) \/ UnlinkFails(p) PROVE StackInv'
  BY <1>1, HoldInv DEF Load, UnlinkFails
<1>2. ASSUME NEW p \in Poppers, FoundEmpty(p) PROVE StackInv'
  BY <1>2 DEF FoundEmpty, StackTypeOK, StackInv, StackOK, PushInv, PopInv, Listed
<1>3. CASE UNCHANGED stackVars
  BY <1>3 DEF stackVars, StackInv, StackOK, PushInv, PopInv, Listed
<1>4. QED
  BY <1>1, <1>2, <1>3, NewNodeInv, LinkInv, LinkFailsInv, ReadNextInv, UnlinkInv, PoppedInv
  DEF StackStep

LEMMA StackInvHolds ==
  ASSUME ~Reuse
  PROVE  Spec => []StackInv
<1>1. Init => StackInv
  <2>1. Init => Listed = {}
    BY DEF Init, StackInit, Listed
  <2>2. QED
    BY <2>1, StackAssumption DEF Init, StackInit, StackInv, StackOK, PushInv, PopInv
<1>2. TypeOK => StackTypeOK
  BY DEF TypeOK
<1>3. QED
  BY <1>1, <1>2, TypeCorrect, StepsOfStack, StackInvStep, PTL DEF Spec

(* However push() and pop() interleave, the nodes that begin at head are   *)
(* those pushed and not yet popped, if the allocator does not give a new   *)
(* node the address of one that a pop() under way has loaded (stack.hpp).  *)
THEOREM StackIsAList ==
  ASSUME ~Reuse
  PROVE  Spec => []StackOK
<1>1. StackInv => StackOK
  BY DEF StackInv
<1>2. QED
  BY <1>1, StackInvHolds, PTL

-----------------------------------------------------------------------------
(* The idle threads.                                                       *)

Idle(t) == at[t] = "wait" /\ ~is_busy[t]

Held(t, p) == idle_thread[p] = t \/ (popping[p] = "won" /\ data[cur_head[p]] = t)

(* A thread pushes itself, and is not busy when it does; a dispatcher that *)
(* pops has no thread yet; a node in the list, or just unlinked, has one.  *)
OwnInv ==
  /\ \A t \in Threads : node[t] # NULL => at[t] = "push" /\ data[node[t]] = t
  /\ \A t \in Threads : at[t] = "push" => ~is_busy[t]
  /\ \A p \in Poppers : popping[p] # "no" => idle_thread[p] = NULL
  /\ \A p \in Poppers : popping[p] = "won" => data[cur_head[p]] \in Threads
  /\ \A n \in Listed : data[n] \in Threads

(* An idle thread, and no other, is in the list or held, and only once. *)
OnceInv ==
  /\ \A m, n \in Listed : data[m] = data[n] => m = n
  /\ \A t \in Threads, p, q \in Poppers : Held(t, p) /\ Held(t, q) => p = q
  /\ \A t \in Threads, p \in Poppers, n \in Listed : data[n] = t => ~Held(t, p)
  /\ \A t \in Threads :
       Idle(t) <=> ((\E n \in Listed : data[n] = t) \/ (\E p \in Poppers : Held(t, p)))

IdleInv == OwnInv /\ OnceInv

(* A step after which the same threads are idle, listed and held. *)
LEMMA OnceKept ==
  ASSUME OnceInv, Listed' = Listed, \A n \in Listed : data'[n] = data[n],
         \A t \in Threads, p \in Poppers : Held(t, p)' <=> Held(t, p),
         \A t \in Threads : Idle(t)' <=> Idle(t)
  PROVE  OnceInv'
<1>1. \A m, n \in Listed' : data'[m] = data'[n] => m = n
  BY DEF OnceInv
<1>2. \A t \in Threads, p, q \in Poppers : Held(t, p)' /\ Held(t, q)' => p = q
  BY DEF OnceInv
<1>3. \A t \in Threads, p \in Poppers, n \in Listed' : data'[n] = t => ~Held(t, p)'
  BY DEF OnceInv
<1>4. \A t \in Threads :
        Idle(t)' <=> ((\E n \in Listed' : data'[n] = t) \/ (\E p \in Poppers : Held(t, p)'))
  BY DEF OnceInv
<1>5. QED
  BY <1>1, <1>2, <1>3, <1>4 DEF OnceInv

(* Steps that concern neither the stack nor the hands of a dispatcher. *)
LEMMA IdleAlone ==
  ASSUME IdleInv, UNCHANGED <<stackVars, idle_thread>>,
         \A t \in Threads :
           /\ Idle(t)' <=> Idle(t)
           /\ node[t] # NULL => at'[t] = "push"
           /\ at'[t] = "push" => ~is_busy'[t]
  PROVE  IdleInv'
<1> USE DEF stackVars, IdleInv
<1>1. Listed' = Listed
  BY DEF Listed
<1>2. OwnInv'
  BY <1>1 DEF OwnInv
<1>3. OnceInv'
  BY <1>1 DEF OnceInv, Held
<1>4. QED
  BY <1>2, <1>3

LEMMA IdlePop ==
  ASSUME StackTypeOK, ExecTypeOK, IdleInv, NEW p \in Poppers,
         (\E s \in Sources : Pop(p, s)) \/ (PopStep(p) /\ ~Unlink(p))
  PROVE  IdleInv'
<1> USE DEF StackTypeOK, ExecTypeOK, IdleInv, threadVars, dispatchVars
<1>1. /\ UNCHANGED <<data, node, order, at, is_busy, idle_thread>>
      /\ idle_thread[p] = NULL /\ popping[p] # "won" /\ popping'[p] # "won"
      /\ \A q \in Poppers : q # p => popping'[q] = popping[q] /\ cur_head'[q] = cur_head[q]
  BY DEF Pop, Load, PopStep, ReadNext, UnlinkFails, Hold, OwnInv
<1>2. Listed' = Listed
  BY <1>1 DEF Listed
<1>3. \A t \in Threads, q \in Poppers : Held(t, q)' <=> Held(t, q)
  BY <1>1 DEF Held
<1>4. OwnInv'
  BY <1>1, <1>2 DEF OwnInv
<1>5. \A t \in Threads : Idle(t)' <=> Idle(t)
  BY <1>1 DEF Idle
<1>6. QED
  BY <1>1, <1>2, <1>3, <1>4, <1>5, OnceKept

(* The thread of the node that is unlinked passes into the dispatcher's    *)
(* hands.                                                                  *)
LEMMA IdleUnlink ==
  ASSUME StackTypeOK, StackInv, IdleInv, NEW p \in Poppers, Unlink(p),
         UNCHANGED <<idle_thread, threadVars>>
  PROVE  IdleInv'
<1> USE StackAssumption DEF StackTypeOK, IdleInv, threadVars
<1>1. /\ popping[p] = "read" /\ head = cur_head[p] /\ head # NULL
      /\ popping' = [popping EXCEPT ![p] = "won"]
      /\ UNCHANGED <<data, node, cur_head, at, is_busy, idle_thread>>
  BY DEF Unlink, StackInv, PopInv
<1>2. head \in Listed /\ Listed' = Listed \ {head}
  BY <1>1, OrderPopped DEF StackInv
<1>3. data[head] \in Threads /\ idle_thread[p] = NULL
  BY <1>1, <1>2 DEF OwnInv
<1>4. \A t \in Threads, q \in Poppers :
        Held(t, q)' <=> IF q = p THEN t = data[head] ELSE Held(t, q)
  BY <1>1, <1>3 DEF Held
<1>5. OwnInv'
  BY <1>1, <1>2, <1>3 DEF OwnInv
<1>6. \A t \in Threads : ~Held(t, p)
  BY <1>1, <1>3 DEF Held
<1>7. OnceInv'
  <2>1. \A m, n \in Listed' : data'[m] = data'[n] => m = n
    BY <1>1, <1>2 DEF OnceInv
  <2>2. \A t \in Threads, q, r \in Poppers : Held(t, q)' /\ Held(t, r)' => q = r
    BY <1>2, <1>3, <1>4 DEF OnceInv
  <2>3. \A t \in Threads, q \in Poppers, n \in Listed' : data'[n] = t => ~Held(t, q)'
    BY <1>1, <1>2, <1>4 DEF OnceInv
  <2>4. ASSUME NEW t \in Threads
        PROVE  Idle(t)' <=> ((\E n \in Listed' : data'[n] = t) \/ (\E q \in Poppers : Held(t, q)'))
    <3>1. Idle(t)' <=> Idle(t)
      BY <1>1 DEF Idle
    <3>2. (\E n \in Listed : data[n] = t) <=> ((\E n \in Listed' : data[n] = t) \/ t = data[head])
      BY <1>2
    <3>3. (\E q \in Poppers : Held(t, q)') <=> (t = data[head] \/ (\E q \in Poppers : Held(t, q)))
      BY <1>4, <1>6
    <3>4. QED
      BY <1>1, <3>1, <3>2, <3>3 DEF OnceInv
  <2>5. QED
    BY <2>1, <2>2, <2>3, <2>4 DEF OnceInv
<1>8. QED
  BY <1>5, <1>7

(* pop() returns it. *)
LEMMA IdlePopEnds ==
  ASSUME StackTypeOK, ExecTypeOK, StackInv, IdleInv, NEW p \in Poppers, PopEnds(p)
  PROVE  IdleInv'
<1> USE StackAssumption DEF StackTypeOK, ExecTypeOK, IdleInv
<1>1. PICK t \in Threads : Popped(p, t) /\ idle_thread' = [idle_thread EXCEPT ![p] = t]
  BY DEF PopEnds
<1>2. /\ popping[p] = "won" /\ t = data[cur_head[p]]
      /\ data' = [data EXCEPT ![cur_head[p]] = NULL]
      /\ cur_head' = [cur_head EXCEPT ![p] = NULL]
      /\ popping' = [popping EXCEPT ![p] = "no"]
      /\ UNCHANGED <<node, order, at, is_busy>>
  BY <1>1 DEF PopEnds, Popped
<1>3. Listed' = Listed /\ cur_head[p] \notin Listed /\ idle_thread[p] = NULL
  BY <1>2 DEF Listed, StackInv, PopInv, OwnInv
<1>4. \A q \in Poppers : q # p /\ popping[q] = "won" => cur_head[q] # cur_head[p]
  BY <1>2 DEF OnceInv, OwnInv, Held
<1>5. \A q \in Poppers : q # p /\ popping[q] = "won" =>
        popping'[q] = "won" /\ data'[cur_head'[q]] = data[cur_head[q]]
  BY <1>2, <1>4
<1>6. \A n \in Listed : data'[n] = data[n]
  BY <1>2, <1>3
<1>7. \A u \in Threads, q \in Poppers : Held(u, q)' <=> Held(u, q)
  BY <1>1, <1>2, <1>3, <1>5 DEF Held
<1>8. OwnInv'
  <2>1. \A u \in Threads : node[u] # NULL => data'[node[u]] = data[node[u]]
    BY <1>2 DEF StackInv, PushInv
  <2>2. \A q \in Poppers : popping'[q] = "won" => data'[cur_head'[q]] \in Threads
    BY <1>2, <1>5 DEF OwnInv
  <2>3. QED
    BY <1>1, <1>2, <1>3, <1>6, <2>1, <2>2 DEF OwnInv
<1>9. OnceInv'
  <2>1. \A u \in Threads : Idle(u)' <=> Idle(u)
    BY <1>2 DEF Idle
  <2>2. QED
    BY <1>3, <1>6, <1>7, <2>1, OnceKept
<1>10. QED
  BY <1>8, <1>9

LEMMA IdleCreate ==
  ASSUME StackTypeOK, ExecTypeOK, IdleInv, NEW p \in Poppers, create_thread(p)
  PROVE  IdleInv'
<1> USE DEF StackTypeOK, ExecTypeOK, IdleInv
<1>1. PICK t \in Threads :
        /\ at[t] = "none" /\ at' = [at EXCEPT ![t] = "wait"]
        /\ is_busy' = [is_busy EXCEPT ![t] = TRUE]
  BY DEF create_thread, set_val
<1>2. /\ popping[p] = "empty" /\ popping' = [popping EXCEPT ![p] = "no"]
      /\ UNCHANGED <<data, node, order, cur_head, idle_thread>>
  BY DEF create_thread, FoundEmpty
<1>3. Listed' = Listed
  BY <1>2 DEF Listed
<1>4. \A u \in Threads, q \in Poppers : Held(u, q)' <=> Held(u, q)
  BY <1>2 DEF Held
<1>5. \A u \in Threads : Idle(u)' <=> Idle(u)
  BY <1>1 DEF Idle
<1>6. OwnInv'
  BY <1>1, <1>2, <1>3 DEF OwnInv
<1>7. QED
  BY <1>2, <1>3, <1>4, <1>5, <1>6, OnceKept

(* The thread is woken, and out of the dispatcher's hands. *)
LEMMA IdleSetBusy ==
  ASSUME StackTypeOK, ExecTypeOK, IdleInv, NEW p \in Poppers, SetBusy(p)
  PROVE  IdleInv'
<1> USE StackAssumption DEF StackTypeOK, ExecTypeOK, IdleInv
<1>1. PICK t \in Threads : t = idle_thread[p]
  BY DEF SetBusy
<1>2. /\ is_busy' = [is_busy EXCEPT ![t] = TRUE]
      /\ idle_thread' = [idle_thread EXCEPT ![p] = NULL]
      /\ UNCHANGED <<data, node, order, cur_head, popping, at>>
  BY <1>1 DEF SetBusy, set_val, stackVars
<1>3. Held(t, p) /\ Idle(t) /\ popping[p] = "no"
  BY <1>1, <1>2 DEF Held, OnceInv, OwnInv
<1>4. Listed' = Listed
  BY <1>2 DEF Listed
<1>5. \A u \in Threads, q \in Poppers : Held(u, q)' <=> (Held(u, q) /\ q # p)
  BY <1>2, <1>3 DEF Held
<1>6. \A u \in Threads : Idle(u)' <=> (Idle(u) /\ u # t)
  BY <1>2 DEF Idle
<1>7. \A u \in Threads : Held(u, p) => u = t
  BY <1>1, <1>3 DEF Held
<1>8. OwnInv'
  BY <1>2, <1>3, <1>4 DEF OwnInv, Idle
<1>9. OnceInv'
  <2>1. \A m, n \in Listed' : data'[m] = data'[n] => m = n
    BY <1>2, <1>4 DEF OnceInv
  <2>2. \A u \in Threads, q, r \in Poppers : Held(u, q)' /\ Held(u, r)' => q = r
    BY <1>5 DEF OnceInv
  <2>3. \A u \in Threads, q \in Poppers, n \in Listed' : data'[n] = u => ~Held(u, q)'
    BY <1>2, <1>4, <1>5 DEF OnceInv
  <2>4. ASSUME NEW u \in Threads
        PROVE  Idle(u)' <=> ((\E n \in Listed' : data'[n] = u) \/ (\E q \in Poppers : Held(u, q)'))
    <3>1. CASE u = t
      <4>1. (\A n \in Listed : data[n] # t) /\ \A q \in Poppers : Held(t, q) => q = p
        BY <1>3 DEF OnceInv
      <4>2. QED
        BY <1>2, <1>4, <1>5, <1>6, <3>1, <4>1
    <3>2. CASE u # t
      <4>1. ~Held(u, p)
        BY <1>7, <3>2
      <4>2. \A q \in Poppers : Held(u, q)' <=> Held(u, q)
        BY <1>5, <4>1
      <4>3. QED
        BY <1>2, <1>4, <1>6, <3>2, <4>2 DEF OnceInv
    <3>3. QED
      BY <3>1, <3>2
  <2>5. QED
    BY <2>1, <2>2, <2>3, <2>4 DEF OnceInv
<1>10. QED
  BY <1>8, <1>9

(* push(): the thread makes a node, and is in the list once it is linked. *)
LEMMA IdlePush ==
  ASSUME ~Reuse, StackTypeOK, ExecTypeOK, StackInv, IdleInv, NEW t \in Threads, Push(t)
  PROVE  IdleInv'
<1> USE StackAssumption DEF StackTypeOK, ExecTypeOK, IdleInv
<1>1. at[t] = "push" /\ ~is_busy[t] /\ is_busy' = is_busy /\ idle_thread' = idle_thread
  BY DEF Push, OwnInv, dispatchVars
<1>2. CASE LinkFails(t)
  <2>1. /\ at' = at /\ Listed' = Listed
        /\ UNCHANGED <<data, node, order, cur_head, popping>>
    BY <1>2 DEF Push, LinkFails, Link, Listed
  <2>2. OwnInv'
    BY <1>1, <2>1 DEF OwnInv
  <2>3. (\A u \in Threads, q \in Poppers : Held(u, q)' <=> Held(u, q)) /\ \A u \in Threads : Idle(u)' <=> Idle(u)
    BY <1>1, <2>1 DEF Held, Idle
  <2>4. QED
    BY <2>1, <2>2, <2>3, OnceKept
<1>3. CASE NewNode(t)
  <2>1. PICK n \in Nodes \ live :
          /\ \A p \in Poppers : cur_head[p] # n
          /\ data' = [data EXCEPT ![n] = t] /\ node' = [node EXCEPT ![t] = n]
    BY <1>3 DEF NewNode
  <2>2. at' = at /\ UNCHANGED <<order, cur_head, popping>> /\ node[t] = NULL
    BY <1>3 DEF Push, NewNode, Link
  <2>3. Listed' = Listed /\ n \notin Listed
    BY <2>2 DEF Listed, StackInv, StackOK
  <2>4. \A u \in Threads : node[u] # n
    BY <2>1 DEF StackInv, PushInv
  <2>5. \A u \in Threads, q \in Poppers : Held(u, q)' <=> Held(u, q)
    BY <1>1, <2>1, <2>2 DEF Held
  <2>6. OwnInv'
    BY <1>1, <2>1, <2>2, <2>3, <2>4 DEF OwnInv
  <2>7. \A m \in Listed : data'[m] = data[m]
    BY <2>1, <2>3
  <2>8. \A u \in Threads : Idle(u)' <=> Idle(u)
    BY <1>1, <2>2 DEF Idle
  <2>9. QED
    BY <2>3, <2>5, <2>6, <2>7, <2>8, OnceKept
<1>4. CASE Link(t)
  <2>1. /\ node[t] \in Nodes /\ data[node[t]] = t /\ data' = data
        /\ node' = [node EXCEPT ![t] = NULL] /\ at' = [at EXCEPT ![t] = "wait"]
        /\ UNCHANGED <<cur_head, popping>>
    BY <1>4 DEF Push, Link, NewNode, LinkFails, OwnInv
  <2>2. Listed' = Listed \cup {node[t]}
    BY <1>4, <2>1, OrderPushed
  <2>3. ~Idle(t) /\ \A u \in Threads : Idle(u)' <=> (Idle(u) \/ u = t)
    BY <1>1, <2>1 DEF Idle
  <2>4. (\A n \in Listed : data[n] # t) /\ (\A q \in Poppers : ~Held(t, q))
    BY <2>3 DEF OnceInv
  <2>5. \A u \in Threads, q \in Poppers : Held(u, q)' <=> Held(u, q)
    BY <1>1, <2>1 DEF Held
  <2>6. OwnInv'
    BY <1>1, <2>1, <2>2 DEF OwnInv
  <2>7. OnceInv'
    <3>1. \A m, n \in Listed' : data'[m] = data'[n] => m = n
      BY <2>1, <2>2, <2>4 DEF OnceInv
    <3>2. \A u \in Threads, q, r \in Poppers : Held(u, q)' /\ Held(u, r)' => q = r
      BY <2>5 DEF OnceInv
    <3>3. \A u \in Threads, q \in Poppers, n \in Listed' : data'[n] = u => ~Held(u, q)'
      BY <2>1, <2>2, <2>4, <2>5 DEF OnceInv
    <3>4. ASSUME NEW u \in Threads
          PROVE  Idle(u)' <=> ((\E n \in Listed' : data'[n] = u) \/ (\E q \in Poppers : Held(u, q)'))
      <4>1. (\E n \in Listed' : data'[n] = u) <=> ((\E n \in Listed : data[n] = u) \/ u = t)
        BY <2>1, <2>2
      <4>2. (\E q \in Poppers : Held(u, q)') <=> (\E q \in Poppers : Held(u, q))
        BY <2>5
      <4>3. QED
        BY <2>3, <4>1, <4>2 DEF OnceInv
    <3>5. QED
      BY <3>1, <3>2, <3>3, <3>4 DEF OnceInv
  <2>8. QED
    BY <2>6, <2>7
<1>5. QED
  BY <1>2, <1>3, <1>4 DEF Push

LEMMA IdleStep ==
  ASSUME ~Reuse, StackTypeOK, ExecTypeOK, StackInv, IdleInv, [Next]_vars
  PROVE  IdleInv'
<1> USE DEF dispatchVars, threadVars, vars
<1>1. CASE UNCHANGED <<stackVars, idle_thread, threadVars>>
  BY <1>1, IdleAlone DEF IdleInv, OwnInv, Idle, stackVars
<1>2. CASE Start \/ Stop \/ \E p \in Poppers : handle_timer(p) \/ \E s \in Subs : handle_subscription(p, s)
  BY <1>1, <1>2 DEF Start, Stop, handle_timer, handle_subscription
<1>3. ASSUME NEW p \in Poppers, DispatchStep(p) PROVE IdleInv'
  <2>1. PopStep(p) /\ Unlink(p) => IdleInv'
    BY IdleUnlink DEF PopStep
  <2>2. QED
    BY <1>3, <2>1, IdlePop, IdlePopEnds, IdleCreate, IdleSetBusy DEF DispatchStep
<1>4. ASSUME NEW t \in Threads, Execute(t) \/ Unlock(t) \/ SetIdle(t) PROVE IdleInv'
  <2>1. UNCHANGED <<stackVars, idle_thread>>
    BY <1>4 DEF Execute, Unlock, SetIdle
  <2>2. \A u \in Threads : /\ Idle(u)' <=> Idle(u)
                           /\ node[u] # NULL => at'[u] = "push"
                           /\ at'[u] = "push" => ~is_busy'[u]
    BY <1>4 DEF Execute, Unlock, SetIdle, set_val, wait_on, Idle, ExecTypeOK, IdleInv, OwnInv
  <2>3. QED
    BY <2>1, <2>2, IdleAlone
<1>5. QED
  BY <1>1, <1>2, <1>3, <1>4, IdlePush DEF Next, ThreadStep

LEMMA IdleInvHolds ==
  ASSUME ~Reuse
  PROVE  Spec => []IdleInv
<1>1. Init => IdleInv
  <2>1. Init => Listed = {}
    BY DEF Init, StackInit, Listed
  <2>2. QED
    BY <2>1, StackAssumption DEF Init, StackInit, IdleInv, OwnInv, OnceInv, Held, Idle
<1>2. (StackTypeOK /\ ExecTypeOK) <=> TypeOK
  BY DEF TypeOK, ExecTypeOK
<1>3. QED
  BY <1>1, <1>2, TypeCorrect, StackInvHolds, IdleStep, PTL DEF Spec

LEMMA OneOrNone ==
  ASSUME NEW S, \A x, y \in S : x = y
  PROVE  Cardinality(S) = IF S = {} THEN 0 ELSE 1
<1>1. CASE S = {}
  BY <1>1, FS_EmptySet
<1>2. CASE S # {}
  <2>1. PICK x : S = {x}
    BY <1>2
  <2>2. QED
    BY <1>2, <2>1, FS_Singleton
<1>3. QED
  BY <1>1, <1>2

(* No idle thread is lost and none is given two executables, if no address *)
(* is reused too soon (assign_or_create, thread_start).                    *)
THEOREM IdleThreadsAreKept ==
  ASSUME ~Reuse
  PROVE  Spec => []IdleOnce
<1>1. StackInv /\ IdleInv => IdleOnce
  <2> SUFFICES ASSUME StackInv, IdleInv, NEW t \in Threads
               PROVE  Cardinality(Places(t)) + Cardinality(Holders(t)) = IF Idle(t) THEN 1 ELSE 0
    BY DEF IdleOnce, Idle
  <2>1. \A i \in 1..Len(order) : order[i] \in Listed
    BY DEF Listed
  <2>2. \A i, j \in Places(t) : i = j
    BY <2>1 DEF Places, IdleInv, OnceInv, StackInv, StackOK
  <2>3. \A p, q \in Holders(t) : p = q
    BY DEF Holders, Held, IdleInv, OnceInv
  <2>4. (Places(t) # {}) <=> (\E n \in Listed : data[n] = t)
    BY DEF Places, Listed
  <2>5. (Holders(t) # {}) <=> (\E p \in Poppers : Held(t, p))
    BY DEF Holders, Held
  <2>6. ~(Places(t) # {} /\ Holders(t) # {})
    BY <2>4, <2>5 DEF IdleInv, OnceInv
  <2>7. Idle(t) <=> (Places(t) # {} \/ Holders(t) # {})
    BY <2>4, <2>5 DEF IdleInv, OnceInv
  <2>8. /\ Cardinality(Places(t)) = IF Places(t) = {} THEN 0 ELSE 1
        /\ Cardinality(Holders(t)) = IF Holders(t) = {} THEN 0 ELSE 1
    BY <2>2, <2>3, OneOrNone
  <2>9. QED
    BY <2>6, <2>7, <2>8
<1>2. QED
  BY <1>1, StackInvHolds, IdleInvHolds, PTL

-----------------------------------------------------------------------------
(* The messages announced.                                                 *)

OnItsWay(p, s) ==
  \/ s \in todo[p] \cup {doing[p]}
  \/ idle_thread[p] # NULL /\ executable[idle_thread[p]] = s

Waking(t, s) == is_busy[t] /\ at[t] = "wait" /\ executable[t] = s

(* The dispatchers and threads that have an executable on its way are      *)
(* finitely many, and as many as there are messages to take.               *)
Served(s) ==
  /\ IsFiniteSet(Dispatched(s)) /\ IsFiniteSet(Assigned(s))
  /\ unread[s] <= missed[s] + Cardinality(Dispatched(s)) + Cardinality(Assigned(s))

(* One of a set passes into another one, or stays as well. *)
LEMMA Passed ==
  ASSUME NEW D, NEW A, NEW D1, NEW p, NEW t, IsFiniteSet(D), IsFiniteSet(A),
         D \ {p} \subseteq D1, D1 \subseteq D, t \notin A
  PROVE  /\ IsFiniteSet(D1) /\ IsFiniteSet(A \cup {t})
         /\ Cardinality(D) + Cardinality(A) <= Cardinality(D1) + Cardinality(A \cup {t})
<1>1. Cardinality(D) \in Nat /\ Cardinality(A) \in Nat
  BY FS_CardinalityType
<1>2. IsFiniteSet(A \cup {t}) /\ Cardinality(A \cup {t}) = Cardinality(A) + 1
  BY FS_AddElement
<1>3. IsFiniteSet(D1)
  BY FS_Subset
<1>4. Cardinality(D) <= Cardinality(D1) + 1
  <2>1. IsFiniteSet(D \ {p}) /\ Cardinality(D \ {p}) <= Cardinality(D1)
    BY <1>3, FS_Subset
  <2>2. Cardinality(D \ {p}) = IF p \in D THEN Cardinality(D) - 1 ELSE Cardinality(D)
    BY FS_RemoveElement
  <2>3. Cardinality(D1) \in Nat
    BY <1>3, FS_CardinalityType
  <2>4. QED
    BY <1>1, <2>1, <2>2, <2>3
<1>5. Cardinality(D1) \in Nat
  BY <1>3, FS_CardinalityType
<1>6. QED
  BY <1>1, <1>2, <1>3, <1>4, <1>5

(* Nothing changes for a subscription, or more is on its way than before. *)
LEMMA ServedKept ==
  ASSUME ExecTypeOK, ExecTypeOK', NEW s \in Subs, Served(s), unread'[s] = unread[s],
         missed'[s] = missed[s], NEW x,
         \A p \in Poppers : OnItsWay(p, s) => OnItsWay(p, s)',
         \A p \in Poppers : OnItsWay(p, s)' => OnItsWay(p, s) \/ p = x,
         \A t \in Threads : Waking(t, s)' <=> Waking(t, s)
  PROVE  Served(s)'
<1> DEFINE D == Dispatched(s)
           D1 == Dispatched(s)'
<1>1. Assigned(s)' = Assigned(s)
  BY DEF Assigned, Waking
<1>2. D \subseteq D1 /\ D1 \subseteq D \cup {x}
  BY DEF Dispatched, OnItsWay
<1>3. IsFiniteSet(D) /\ IsFiniteSet(Assigned(s))
  BY DEF Served
<1> HIDE DEF D, D1
<1>4. IsFiniteSet(D \cup {x})
  BY <1>3, FS_AddElement
<1>5. IsFiniteSet(D1) /\ Cardinality(D) <= Cardinality(D1)
  BY <1>2, <1>4, FS_Subset
<1>6. /\ Cardinality(D) \in Nat /\ Cardinality(D1) \in Nat
      /\ Cardinality(Assigned(s)) \in Nat
  BY <1>3, <1>5, FS_CardinalityType
<1>7. unread[s] \in Nat /\ missed[s] \in Nat
  BY NoExecutorAssumption DEF ExecTypeOK
<1>8. unread[s] <= missed[s] + Cardinality(D) + Cardinality(Assigned(s))
  BY DEF Served, D
<1>9. unread'[s] <= missed'[s] + Cardinality(D1) + Cardinality(Assigned(s))
  BY <1>5, <1>6, <1>7, <1>8
<1>10. QED
  BY <1>1, <1>3, <1>5, <1>9 DEF Served, D1

(* An executable passes from dispatcher p to thread t. *)
LEMMA ServedPassed ==
  ASSUME ExecTypeOK, NEW s \in Subs, Served(s), unread' = unread, missed' = missed,
         NEW p \in Poppers, NEW t \in Threads, ~Waking(t, s), Waking(t, s)',
         \A q \in Poppers : OnItsWay(q, s) /\ q # p => OnItsWay(q, s)',
         \A q \in Poppers : OnItsWay(q, s)' => OnItsWay(q, s),
         \A u \in Threads : u # t => (Waking(u, s)' <=> Waking(u, s))
  PROVE  Served(s)'
<1> DEFINE D == Dispatched(s)
           D1 == Dispatched(s)'
           A == Assigned(s)
           A1 == Assigned(s)'
<1>1. A1 = A \cup {t} /\ t \notin A
  BY DEF Assigned, Waking
<1>2. D \ {p} \subseteq D1 /\ D1 \subseteq D
  BY DEF Dispatched, OnItsWay
<1>3. /\ IsFiniteSet(D) /\ IsFiniteSet(A)
      /\ unread[s] <= missed[s] + Cardinality(D) + Cardinality(A)
  BY DEF Served
<1> HIDE DEF D, D1, A, A1
<1>4. /\ IsFiniteSet(D1) /\ IsFiniteSet(A1)
      /\ Cardinality(D) + Cardinality(A) <= Cardinality(D1) + Cardinality(A1)
  BY <1>1, <1>2, <1>3, Passed
<1>5. /\ Cardinality(D) \in Nat /\ Cardinality(D1) \in Nat
      /\ Cardinality(A) \in Nat /\ Cardinality(A1) \in Nat
  BY <1>3, <1>4, FS_CardinalityType
<1>6. unread[s] \in Nat /\ missed[s] \in Nat
  BY NoExecutorAssumption DEF ExecTypeOK
<1>7. unread'[s] <= missed'[s] + Cardinality(D1) + Cardinality(A1)
  BY <1>3, <1>4, <1>5, <1>6
<1>8. QED
  BY <1>4, <1>7 DEF Served, D1, A1

(* A message is announced. *)
LEMMA ServedAnnounced ==
  ASSUME ExecTypeOK, NEW p \in Poppers, NEW s \in Subs, handle_subscription(p, s), Served(s)
  PROVE  Served(s)'
<1> DEFINE D == Dispatched(s)
           D1 == Dispatched(s)'
           A == Assigned(s)
<1>1. Assigned(s)' = A
  BY DEF Assigned, handle_subscription, threadVars
<1>2. /\ IsFiniteSet(D) /\ IsFiniteSet(A)
      /\ unread[s] <= missed[s] + Cardinality(D) + Cardinality(A)
  BY DEF Served
<1>3. Cardinality(D) \in Nat /\ Cardinality(A) \in Nat
  BY <1>2, FS_CardinalityType
<1>4. /\ unread[s] \in 0..depth /\ missed[s] \in 0..depth /\ depth \in Nat
      /\ unread'[s] = IF unread[s] = depth THEN unread[s] ELSE unread[s] + 1
  BY NoExecutorAssumption DEF ExecTypeOK, handle_subscription
<1>5. CASE started = "yes"
  <2>1. D1 = D \cup {p} /\ p \notin D /\ missed' = missed
    BY <1>5, NoExecutorAssumption
    DEF handle_subscription, Ready, Dispatched, ExecTypeOK, Sources, threadVars
  <2> HIDE DEF D, D1, A
  <2>2. IsFiniteSet(D1) /\ Cardinality(D1) = Cardinality(D) + 1
    BY <1>2, <2>1, FS_AddElement
  <2>3. unread'[s] <= missed'[s] + Cardinality(D1) + Cardinality(A)
    BY <1>2, <1>3, <1>4, <2>1, <2>2
  <2>4. QED
    BY <1>1, <1>2, <2>2, <2>3 DEF Served, D1, A
<1>6. CASE started # "yes"
  <2>1. D1 = D /\ missed'[s] = IF missed[s] = depth THEN missed[s] ELSE missed[s] + 1
    BY <1>6 DEF handle_subscription, Dispatched, threadVars, ExecTypeOK
  <2> HIDE DEF D, D1, A
  <2>2. unread'[s] <= missed'[s] + Cardinality(D) + Cardinality(A)
    BY <1>2, <1>3, <1>4, <2>1
  <2>3. QED
    BY <1>1, <1>2, <2>1, <2>2 DEF Served, D1, A
<1>7. QED
  BY <1>5, <1>6

(* A message is taken, if there is one. *)
LEMMA ServedTaken ==
  ASSUME ExecTypeOK, NEW t \in Threads, Execute(t), NEW s \in Subs, s = executable[t], Served(s)
  PROVE  Served(s)'
<1> DEFINE D == Dispatched(s)
           A == Assigned(s)
           A1 == Assigned(s)'
<1>1. A1 = A \ {t} /\ t \in A
  BY DEF Assigned, Execute, wait_on, ExecTypeOK
<1>2. Dispatched(s)' = D /\ missed' = missed
  BY DEF Dispatched, Execute, dispatchVars
<1>3. /\ IsFiniteSet(D) /\ IsFiniteSet(A)
      /\ unread[s] <= missed[s] + Cardinality(D) + Cardinality(A)
  BY DEF Served
<1>4. unread'[s] = IF unread[s] > 0 THEN unread[s] - 1 ELSE unread[s]
  BY DEF Execute
<1> HIDE DEF D, A, A1
<1>5. IsFiniteSet(A1) /\ Cardinality(A1) = Cardinality(A) - 1
  BY <1>1, <1>3, FS_RemoveElement
<1>6. Cardinality(D) \in Nat /\ Cardinality(A) \in Nat /\ Cardinality(A1) \in Nat
  BY <1>3, <1>5, FS_CardinalityType
<1>7. unread[s] \in Nat /\ missed[s] \in Nat
  BY NoExecutorAssumption DEF ExecTypeOK
<1>8. unread'[s] <= missed[s] + Cardinality(D) + Cardinality(A1)
  BY <1>3, <1>4, <1>5, <1>6, <1>7
<1>9. QED
  BY <1>2, <1>3, <1>5, <1>8 DEF Served, D, A1

(* No step but these three changes what a dispatcher or a thread has to do. *)
LEMMA ServedStep ==
  ASSUME TypeOK, TypeOK', IdleInv, [Next]_vars, NEW s \in Subs, Served(s)
  PROVE  Served(s)'
<1> USE NoExecutorAssumption, StackAssumption DEF vars, dispatchVars, threadVars
<1>1. ExecTypeOK /\ ExecTypeOK' /\ StackTypeOK
  BY DEF TypeOK, ExecTypeOK
<1>2. s # NULL
  BY DEF Sources
<1>3. CASE UNCHANGED <<unread, missed, todo, doing, idle_thread, at, is_busy, executable>>
  BY <1>1, <1>3, ServedKept DEF OnItsWay, Waking
<1>4. CASE Start \/ Stop \/ UNCHANGED vars
  BY <1>3, <1>4 DEF Start, Stop
<1>5. ASSUME NEW p \in Poppers, handle_timer(p) PROVE Served(s)'
  BY <1>1, <1>2, <1>5, ServedKept DEF handle_timer, Ready, OnItsWay, Waking, ExecTypeOK
<1>6. ASSUME NEW p \in Poppers, NEW u \in Subs, handle_subscription(p, u) PROVE Served(s)'
  <2>1. CASE u = s
    BY <1>1, <1>6, <2>1, ServedAnnounced
  <2>2. CASE u # s
    BY <1>1, <1>2, <1>6, <2>2, ServedKept DEF handle_subscription, Ready, OnItsWay, Waking, ExecTypeOK
  <2>3. QED
    BY <2>1, <2>2
<1>7. ASSUME NEW p \in Poppers, DispatchStep(p) PROVE Served(s)'
  <2>1. ASSUME NEW u \in Sources, Pop(p, u) PROVE Served(s)'
    BY <1>1, <1>2, <2>1, ServedKept DEF Pop, OnItsWay, Waking, ExecTypeOK
  <2>2. CASE PopStep(p)
    BY <1>3, <2>2 DEF PopStep
  <2>3. CASE PopEnds(p)
    <3>1. PICK t \in Threads : /\ Popped(p, t) /\ idle_thread' = [idle_thread EXCEPT ![p] = t]
                               /\ executable' = [executable EXCEPT ![t] = doing[p]]
      BY <2>3 DEF PopEnds
    <3>2. /\ doing' = [doing EXCEPT ![p] = NULL]
          /\ UNCHANGED <<unread, missed, todo, at, is_busy>>
      BY <2>3 DEF PopEnds
    <3>3. Held(t, p) /\ idle_thread[p] = NULL
      BY <3>1 DEF Popped, Held, IdleInv, OwnInv
    <3>4. ~is_busy[t] /\ \A q \in Poppers : idle_thread[q] # t
      BY <1>1, <3>3 DEF IdleInv, OnceInv, Idle, Held
    <3>5. \A q \in Poppers : OnItsWay(q, s)' <=> OnItsWay(q, s)
      BY <1>1, <1>2, <3>1, <3>2, <3>3, <3>4 DEF OnItsWay, ExecTypeOK
    <3>6. \A u \in Threads : Waking(u, s)' <=> Waking(u, s)
      BY <1>1, <3>1, <3>2, <3>4 DEF Waking, ExecTypeOK
    <3>7. QED
      BY <1>1, <3>2, <3>5, <3>6, ServedKept
  <2>4. CASE create_thread(p)
    <3>1. PICK t \in Threads :
            /\ at[t] = "none" /\ at' = [at EXCEPT ![t] = "wait"]
            /\ is_busy' = [is_busy EXCEPT ![t] = TRUE]
            /\ executable' = [executable EXCEPT ![t] = doing[p]]
      BY <2>4 DEF create_thread, set_val
    <3>2. /\ doing' = [doing EXCEPT ![p] = NULL] /\ popping[p] = "empty"
          /\ UNCHANGED <<unread, missed, todo, idle_thread>>
      BY <2>4 DEF create_thread, FoundEmpty
    <3>3. \A q \in Poppers : idle_thread[q] # t
      BY <3>1 DEF IdleInv, OnceInv, Idle, Held
    <3>4. idle_thread[p] = NULL
      BY <3>2 DEF IdleInv, OwnInv
    <3>5. CASE doing[p] = s
      <4>1. ~Waking(t, s) /\ Waking(t, s)' /\ \A u \in Threads : u # t => (Waking(u, s)' <=> Waking(u, s))
        BY <1>1, <3>1, <3>5 DEF Waking, ExecTypeOK
      <4>2. /\ \A q \in Poppers : OnItsWay(q, s) /\ q # p => OnItsWay(q, s)'
            /\ \A q \in Poppers : OnItsWay(q, s)' => OnItsWay(q, s)
        BY <1>1, <1>2, <3>1, <3>2, <3>3 DEF OnItsWay, ExecTypeOK
      <4>3. QED
        BY <1>1, <3>2, <4>1, <4>2, ServedPassed
    <3>6. CASE doing[p] # s
      <4>1. \A u \in Threads : Waking(u, s)' <=> Waking(u, s)
        BY <1>1, <3>1, <3>6 DEF Waking, ExecTypeOK
      <4>2. \A q \in Poppers : OnItsWay(q, s)' <=> OnItsWay(q, s)
        BY <1>1, <1>2, <3>1, <3>2, <3>3, <3>6 DEF OnItsWay, ExecTypeOK
      <4>3. QED
        BY <1>1, <3>2, <4>1, <4>2, ServedKept
    <3>7. QED
      BY <3>5, <3>6
  <2>5. CASE SetBusy(p)
    <3>1. PICK t \in Threads : t = idle_thread[p]
      BY <1>1, <2>5 DEF SetBusy, ExecTypeOK
    <3>2. /\ is_busy' = [is_busy EXCEPT ![t] = TRUE]
          /\ idle_thread' = [idle_thread EXCEPT ![p] = NULL]
          /\ UNCHANGED <<unread, missed, todo, doing, at, executable>>
      BY <2>5, <3>1 DEF SetBusy, set_val
    <3>3. Held(t, p)
      BY <3>1 DEF Held
    <3>4. at[t] = "wait" /\ ~is_busy[t]
      BY <3>3 DEF IdleInv, OnceInv, Idle
    <3>5. CASE executable[t] = s
      <4>1. ~Waking(t, s) /\ Waking(t, s)' /\ \A u \in Threads : u # t => (Waking(u, s)' <=> Waking(u, s))
        BY <1>1, <3>2, <3>4, <3>5 DEF Waking, ExecTypeOK
      <4>2. /\ \A q \in Poppers : OnItsWay(q, s) /\ q # p => OnItsWay(q, s)'
            /\ \A q \in Poppers : OnItsWay(q, s)' => OnItsWay(q, s)
        BY <1>1, <3>2 DEF OnItsWay, ExecTypeOK
      <4>3. QED
        BY <1>1, <3>2, <4>1, <4>2, ServedPassed
    <3>6. CASE executable[t] # s
      <4>1. \A u \in Threads : Waking(u, s)' <=> Waking(u, s)
        BY <1>1, <3>2, <3>6 DEF Waking, ExecTypeOK
      <4>2. \A q \in Poppers : OnItsWay(q, s)' <=> OnItsWay(q, s)
        BY <1>1, <3>1, <3>2, <3>6 DEF OnItsWay, ExecTypeOK
      <4>3. QED
        BY <1>1, <3>2, <4>1, <4>2, ServedKept
    <3>7. QED
      BY <3>5, <3>6
  <2>6. QED
    BY <1>7, <2>1, <2>2, <2>3, <2>4, <2>5 DEF DispatchStep
<1>8. ASSUME NEW t \in Threads, Execute(t) PROVE Served(s)'
  <2>1. CASE executable[t] = s
    BY <1>1, <1>8, <2>1, ServedTaken
  <2>2. CASE executable[t] # s
    BY <1>1, <1>8, <2>2, ServedKept DEF Execute, OnItsWay, Waking, ExecTypeOK
  <2>3. QED
    BY <2>1, <2>2
<1>9. ASSUME NEW t \in Threads, Unlock(t) PROVE Served(s)'
  <2>1. \A q \in Poppers : idle_thread[q] # t
    BY <1>9 DEF Unlock, IdleInv, OnceInv, Idle, Held
  <2>2. \A q \in Poppers : OnItsWay(q, s)' <=> OnItsWay(q, s)
    BY <1>1, <1>2, <1>9, <2>1 DEF Unlock, OnItsWay, ExecTypeOK
  <2>3. QED
    BY <1>1, <1>9, <2>2, ServedKept DEF Unlock, Waking, ExecTypeOK
<1>10. ASSUME NEW t \in Threads, SetIdle(t) \/ Push(t) PROVE Served(s)'
  <2>1. UNCHANGED <<unread, missed, todo, doing, idle_thread, executable>>
    BY <1>10 DEF SetIdle, Push
  <2>2. \A u \in Threads : Waking(u, s)' <=> Waking(u, s)
    BY <1>1, <1>10 DEF SetIdle, Push, set_val, Waking, ExecTypeOK, IdleInv, OwnInv
  <2>3. QED
    BY <1>1, <2>1, <2>2, ServedKept DEF OnItsWay
<1>11. QED
  BY <1>4, <1>5, <1>6, <1>7, <1>8, <1>9, <1>10 DEF Next, ThreadStep

(* Every message announced to a started executor has an executable on its  *)
(* way, if no address is reused too soon (handle_subscription,             *)
(* assign_or_create, thread_start).                                        *)
THEOREM MessagesAreServed ==
  ASSUME ~Reuse
  PROVE  Spec => []NothingLeft
<1> DEFINE I == \A s \in Subs : Served(s)
<1>1. Init => I
  <2> SUFFICES ASSUME Init, NEW s \in Subs PROVE Served(s)
    OBVIOUS
  <2>1. Dispatched(s) = {} /\ Assigned(s) = {}
    BY NoExecutorAssumption DEF Init, Dispatched, Assigned, Sources
  <2>2. IsFiniteSet({}) /\ Cardinality({}) = 0
    BY FS_EmptySet
  <2>3. unread[s] = 0 /\ missed[s] = 0
    BY DEF Init
  <2>4. QED
    BY <2>1, <2>2, <2>3 DEF Served
<1>2. I => NothingLeft
  BY DEF NothingLeft, Served
<1>3. TypeOK /\ TypeOK' /\ IdleInv /\ I /\ [Next]_vars => I'
  BY ServedStep
<1>4. Spec => [](TypeOK /\ IdleInv)
  BY IdleInvHolds, TypeCorrect, PTL
<1> HIDE DEF I
<1>5. QED
  BY <1>1, <1>2, <1>3, <1>4, PTL DEF Spec

=============================================================================

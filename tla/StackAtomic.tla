----------------------------- MODULE StackAtomic -----------------------------
(***************************************************************************)
(* syncutil::StackAtomic (rclcpp/stack.hpp), the lock-free stack in which  *)
(* NoExecutor keeps its idle threads.  push() and pop() are loops around a *)
(* compare-and-exchange of head; pop() reads the successor of a node that  *)
(* another pop() may have deleted, and whose address the allocator may     *)
(* have given to a new node since.                                         *)
(***************************************************************************)
EXTENDS Naturals, Sequences

CONSTANTS
  Threads,   (* what is stored; a thread pushes itself                    *)
  Poppers,   (* the tasks and signal handlers that pop                    *)
  Nodes,     (* addresses of stack nodes                                  *)
  NULL,      (* nullptr                                                   *)
  Reuse      (* a new node may get the address of a deleted one that a    *)
             (* pop() under way still holds                               *)

ASSUME StackAssumption ==
  /\ NULL \notin Nodes \cup Threads
  /\ Reuse \in BOOLEAN

VARIABLES
  head,      (* StackAtomic::head                                         *)
  data,      (* StackNode::data, by address                               *)
  next,      (* StackNode::next                                           *)
  live,      (* the addresses allocated                                   *)
  node,      (* new_node of a thread in push()                            *)
  cur_head,  (* cur_head of a pop()                                       *)
  succ,      (* cur_head->next as read by a pop()                         *)
  popping,   (* where a pop() is                                          *)
  order      (* history: the nodes pushed and not yet popped, top first   *)

stackVars == <<head, data, next, live, node, cur_head, succ, popping, order>>

StackInit ==
  /\ head = NULL
  /\ data = [n \in Nodes |-> NULL] /\ next = [n \in Nodes |-> NULL]
  /\ live = {}
  /\ node = [t \in Threads |-> NULL]
  /\ cur_head = [p \in Poppers |-> NULL] /\ succ = [p \in Poppers |-> NULL]
  /\ popping = [p \in Poppers |-> "no"]
  /\ order = <<>>

-----------------------------------------------------------------------------
(* push() by thread t.                                                     *)

NewNode(t) ==
  /\ node[t] = NULL
  /\ \E n \in Nodes \ live :
       /\ Reuse \/ \A p \in Poppers : cur_head[p] # n
       /\ live' = live \cup {n}
       /\ data' = [data EXCEPT ![n] = t]
       /\ next' = [next EXCEPT ![n] = head]
       /\ node' = [node EXCEPT ![t] = n]
  /\ UNCHANGED <<head, cur_head, succ, popping, order>>

(* A name with a suffix is a faulty variant of the action that follows:    *)
(* here, the plain store that push() has as a comment.                     *)
Link_Store(t) ==
  /\ node[t] # NULL
  /\ head' = node[t]
  /\ order' = <<node[t]>> \o order
  /\ node' = [node EXCEPT ![t] = NULL]
  /\ UNCHANGED <<data, next, live, cur_head, succ, popping>>

Link(t) ==
  /\ node[t] # NULL
  /\ head = next[node[t]]
  /\ head' = node[t]
  /\ order' = <<node[t]>> \o order
  /\ node' = [node EXCEPT ![t] = NULL]
  /\ UNCHANGED <<data, next, live, cur_head, succ, popping>>

LinkFails(t) ==
  /\ node[t] # NULL
  /\ head # next[node[t]]
  /\ next' = [next EXCEPT ![node[t]] = head]
  /\ UNCHANGED <<head, data, live, node, cur_head, succ, popping, order>>

-----------------------------------------------------------------------------
(* pop() by p.                                                             *)

(* head is loaded, at the start or by a failed exchange; an empty stack    *)
(* ends pop().                                                             *)
Hold(p) ==
  /\ cur_head' = [cur_head EXCEPT ![p] = head]
  /\ popping' = [popping EXCEPT ![p] = IF head = NULL THEN "empty" ELSE "loaded"]

Load(p) ==
  /\ popping[p] = "no"
  /\ Hold(p)
  /\ UNCHANGED <<head, data, next, live, node, succ, order>>

(* The successor of a deleted node can be anything. *)
ReadNext(p) ==
  /\ popping[p] = "loaded"
  /\ \E n \in Nodes \cup {NULL} :
       /\ cur_head[p] \in live => n = next[cur_head[p]]
       /\ succ' = [succ EXCEPT ![p] = n]
  /\ popping' = [popping EXCEPT ![p] = "read"]
  /\ UNCHANGED <<head, data, next, live, node, cur_head, order>>

Unlink(p) ==
  /\ popping[p] = "read"
  /\ head = cur_head[p]
  /\ head' = succ[p]
  /\ order' = SubSeq(order, 2, Len(order))
  /\ popping' = [popping EXCEPT ![p] = "won"]
  /\ UNCHANGED <<data, next, live, node, cur_head, succ>>

UnlinkFails(p) ==
  /\ popping[p] = "read"
  /\ head # cur_head[p]
  /\ Hold(p)
  /\ UNCHANGED <<head, data, next, live, node, succ, order>>

(* pop() returns the thread and deletes the node, which nobody can rely on *)
(* from then on, or returns nullptr.                                       *)
Popped(p, t) ==
  /\ popping[p] = "won"
  /\ t = data[cur_head[p]]
  /\ live' = live \ {cur_head[p]}
  /\ data' = [data EXCEPT ![cur_head[p]] = NULL]
  /\ next' = [next EXCEPT ![cur_head[p]] = NULL]
  /\ cur_head' = [cur_head EXCEPT ![p] = NULL]
  /\ succ' = [succ EXCEPT ![p] = NULL]
  /\ popping' = [popping EXCEPT ![p] = "no"]
  /\ UNCHANGED <<head, node, order>>

FoundEmpty(p) ==
  /\ popping[p] = "empty"
  /\ popping' = [popping EXCEPT ![p] = "no"]
  /\ UNCHANGED <<head, data, next, live, node, cur_head, succ, order>>

-----------------------------------------------------------------------------
StackTypeOK ==
  /\ head \in Nodes \cup {NULL}
  /\ data \in [Nodes -> Threads \cup {NULL}]
  /\ next \in [Nodes -> Nodes \cup {NULL}]
  /\ live \subseteq Nodes
  /\ node \in [Threads -> Nodes \cup {NULL}]
  /\ cur_head \in [Poppers -> Nodes \cup {NULL}]
  /\ succ \in [Poppers -> Nodes \cup {NULL}]
  /\ popping \in [Poppers -> {"no", "empty", "loaded", "read", "won"}]
  /\ order \in Seq(Nodes)

(* The list that begins at head is the nodes pushed and not yet popped, in *)
(* order: no exchange, however long after its load, has cut off a node or  *)
(* linked one that is deleted.                                             *)
StackOK ==
  /\ head = IF order = <<>> THEN NULL ELSE order[1]
  /\ \A i \in 1..Len(order) :
       /\ order[i] \in live
       /\ next[order[i]] = IF i = Len(order) THEN NULL ELSE order[i + 1]
       /\ \A j \in 1..Len(order) : order[i] = order[j] => i = j

=============================================================================

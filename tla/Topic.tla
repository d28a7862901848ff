------------------------------- MODULE Topic --------------------------------
(***************************************************************************)
(* What intra-process communication promises its users: a publication goes *)
(* exactly once to every matching subscription that is known when it       *)
(* begins, no subscription comes or goes in the middle of it, and the      *)
(* publications of one publisher arrive in their order.                    *)
(***************************************************************************)
EXTENDS Naturals, Sequences

CONSTANTS
  Publishers,
  Subs,        (* subscriptions of the same process                       *)
  Matches,     (* pairs <<p, s>> on one topic and of compatible QoS       *)
  MaxSent      (* bound on the publications of one publisher              *)

VARIABLES
  joined,      (* subscriptions that are known                            *)
  sent,        (* publications a publisher has begun                      *)
  owed,        (* subscriptions its last publication has yet to reach     *)
  received     (* what a subscription was given, each <<publisher, n>>    *)

topicVars == <<joined, sent, owed, received>>

TopicInit ==
  /\ joined = {}
  /\ sent = [p \in Publishers |-> 0]
  /\ owed = [p \in Publishers |-> {}]
  /\ received = [s \in Subs |-> <<>>]

Quiet == \A p \in Publishers : owed[p] = {}

Join(s) ==
  /\ Quiet
  /\ joined' = joined \cup {s}
  /\ UNCHANGED <<sent, owed, received>>

Leave(s) ==
  /\ Quiet
  /\ joined' = joined \ {s}
  /\ UNCHANGED <<sent, owed, received>>

Begin(p) ==
  /\ owed[p] = {} /\ sent[p] < MaxSent
  /\ sent' = [sent EXCEPT ![p] = @ + 1]
  /\ owed' = [owed EXCEPT ![p] = {s \in joined : <<p, s>> \in Matches}]
  /\ UNCHANGED <<joined, received>>

Deliver(p, s) ==
  /\ s \in owed[p]
  /\ owed' = [owed EXCEPT ![p] = @ \ {s}]
  /\ received' = [received EXCEPT ![s] = Append(@, <<p, sent[p]>>)]
  /\ UNCHANGED <<joined, sent>>

TopicNext ==
  \/ \E s \in Subs : Join(s) \/ Leave(s)
  \/ \E p \in Publishers : Begin(p) \/ \E s \in Subs : Deliver(p, s)

TopicSpec == TopicInit /\ [][TopicNext]_topicVars

=============================================================================

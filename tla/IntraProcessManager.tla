------------------------ MODULE IntraProcessManager -------------------------
(***************************************************************************)
(* IntraProcessManager (intra_process_manager.hpp, .cpp) with the life of  *)
(* the publishers and subscriptions that register with it, and the way a   *)
(* publish() of publisher.hpp takes: two counts decide whether the message *)
(* also goes to the middleware, then it is stored in the buffers of the    *)
(* subscriptions of the process, shared by those that share and owned      *)
(* alone by the others, then it is sent.                                   *)
(*                                                                         *)
(* mutex_ is held shared by the publications and alone by registration and *)
(* removal, which are single steps.  What the middleware has discovered is *)
(* any set of subscriptions that exist, at any moment.  The buffers are    *)
(* deep enough for every message: BoundedQueue has what a full one does.   *)
(***************************************************************************)
EXTENDS Integers, Sequences, FiniteSets

CONSTANTS
  Publishers,
  Subs,        (* subscriptions of this process, with a buffer            *)
  Sharing,     (* those whose buffer takes shared messages                *)
  Remotes,     (* subscriptions of other processes                        *)
  Matches,     (* pairs <<p, s>> for which can_communicate                *)
  MaxSent      (* bound on the publications of one publisher              *)

ASSUME IntraProcessManagerAssumption ==
  /\ Sharing \subseteq Subs /\ Matches \subseteq Publishers \X Subs
  /\ Remotes \cap Subs = {} /\ Publishers \cap Subs = {}
  /\ {"message", "shared_msg", "none"} \cap Subs = {} /\ MaxSent \in Nat
  /\ IsFiniteSet(Subs) /\ IsFiniteSet(Remotes)

VARIABLES
  life,          (* of a publisher or subscription                        *)
  publishers_,   (* registered publishers; the pointer to one is weak     *)
  subscriptions_,
  pub_to_subs_,  (* [shared, owned]: the two lists of a publisher         *)
  sent,          (* publications a publisher has begun                    *)
  call,          (* where publish() is, and its local variables           *)
  stored,        (* messages stored for a subscription, oldest first      *)
  samples,       (* messages of the middleware a subscription has to take *)
  taken          (* messages it has handled from there                    *)

vars == <<life, publishers_, subscriptions_, pub_to_subs_, sent, call, stored,
          samples, taken>>

(* A message object: the one published, the shared copy, or the copy made  *)
(* for one subscription.                                                   *)
Copies == {"message", "shared_msg"} \cup Subs
Objects == [from : Publishers, n : 1..MaxSent, copy : Copies]

Object(p, c) == [from |-> p, n |-> sent[p], copy |-> c]

NoLists == [shared |-> <<>>, owned |-> <<>>]

(* publish() has not been called. *)
Resting == [at |-> "idle", seen |-> {}, inter |-> FALSE, left |-> <<>>, kept |-> "none"]

Init ==
  /\ life = [e \in Publishers \cup Subs |-> "none"]
  /\ publishers_ = {} /\ subscriptions_ = {}
  /\ pub_to_subs_ = [p \in Publishers |-> NoLists]
  /\ sent = [p \in Publishers |-> 0]
  /\ call = [p \in Publishers |-> Resting]
  /\ stored = [s \in Subs |-> <<>>]
  /\ samples = [s \in Subs |-> {}]
  /\ taken = [s \in Subs |-> {}]

(* mutex_ can be taken alone: no publication is storing its message. *)
Exclusive == \A p \in Publishers : call[p].at # "store"

(* A name with a suffix is a faulty variant of the definition that follows. *)

Inserted_Swapped(lists, s) ==
  IF s \notin Sharing THEN [lists EXCEPT !.shared = Append(@, s)]
                      ELSE [lists EXCEPT !.owned = Append(@, s)]

(* insert_sub_id_for_pub *)
Inserted(lists, s) ==
  IF s \in Sharing THEN [lists EXCEPT !.shared = Append(@, s)]
                   ELSE [lists EXCEPT !.owned = Append(@, s)]

(* erase(remove(...)): a subscription is in a list once at most. *)
Without(list, s) ==
  IF \E i \in DOMAIN list : list[i] = s
    THEN LET k == CHOOSE i \in DOMAIN list : list[i] = s
         IN  [i \in 1..(Len(list) - 1) |-> IF i < k THEN list[i] ELSE list[i + 1]]
    ELSE list

(* A set in the order an unordered_map happens to visit it. *)
Orders(S) ==
  {o \in [1..Cardinality(S) -> S] : \A i, j \in DOMAIN o : o[i] = o[j] => i = j}

-----------------------------------------------------------------------------
(* Publishers and subscriptions come and go.                               *)

add_publisher_Alone(p) ==
  /\ life[p] = "none" /\ Exclusive
  /\ life' = [life EXCEPT ![p] = "live"]
  /\ publishers_' = publishers_ \cup {p}
  /\ pub_to_subs_' = [pub_to_subs_ EXCEPT ![p] = NoLists]
  /\ UNCHANGED <<subscriptions_, sent, call, stored, samples, taken>>

(* The subscriptions known to the manager are entered for the publisher. *)
add_publisher(p) ==
  /\ life[p] = "none" /\ Exclusive
  /\ life' = [life EXCEPT ![p] = "live"]
  /\ publishers_' = publishers_ \cup {p}
  /\ \E shared \in Orders({s \in subscriptions_ \cap Sharing : <<p, s>> \in Matches}),
        owned \in Orders({s \in subscriptions_ \ Sharing : <<p, s>> \in Matches}) :
       pub_to_subs_' = [pub_to_subs_ EXCEPT ![p] = [shared |-> shared, owned |-> owned]]
  /\ UNCHANGED <<subscriptions_, sent, call, stored, samples, taken>>

(* The subscription of the middleware is made first, and may be            *)
(* discovered before ...                                                   *)
CreateSubscription(s) ==
  /\ life[s] = "none"
  /\ life' = [life EXCEPT ![s] = "made"]
  /\ UNCHANGED <<publishers_, subscriptions_, pub_to_subs_, sent, call, stored,
                 samples, taken>>

(* ... the manager knows it, which enters it for all live publishers. *)
add_subscription(s) ==
  /\ life[s] = "made" /\ Exclusive
  /\ life' = [life EXCEPT ![s] = "live"]
  /\ subscriptions_' = subscriptions_ \cup {s}
  /\ pub_to_subs_' = [p \in Publishers |->
       IF p \in publishers_ /\ life[p] = "live" /\ <<p, s>> \in Matches
         THEN Inserted(pub_to_subs_[p], s) ELSE pub_to_subs_[p]]
  /\ UNCHANGED <<publishers_, sent, call, stored, samples, taken>>

remove_subscription_OneList(s) ==
  /\ life[s] = "live" /\ Exclusive
  /\ life' = [life EXCEPT ![s] = "gone"]
  /\ subscriptions_' = subscriptions_ \ {s}
  /\ pub_to_subs_' = [p \in Publishers |->
       [pub_to_subs_[p] EXCEPT !.shared = Without(@, s)]]
  /\ samples' = [samples EXCEPT ![s] = {}]
  /\ UNCHANGED <<publishers_, sent, call, stored, taken>>

(* The destructor of a subscription. *)
remove_subscription(s) ==
  /\ life[s] = "live" /\ Exclusive
  /\ life' = [life EXCEPT ![s] = "gone"]
  /\ subscriptions_' = subscriptions_ \ {s}
  /\ pub_to_subs_' = [p \in Publishers |->
       [shared |-> Without(pub_to_subs_[p].shared, s),
        owned |-> Without(pub_to_subs_[p].owned, s)]]
  /\ samples' = [samples EXCEPT ![s] = {}]
  /\ UNCHANGED <<publishers_, sent, call, stored, taken>>

(* The last pointer to a publisher is dropped: its weak pointers expire ... *)
ExpirePublisher(p) ==
  /\ life[p] = "live" /\ call[p].at = "idle"
  /\ life' = [life EXCEPT ![p] = "expired"]
  /\ UNCHANGED <<publishers_, subscriptions_, pub_to_subs_, sent, call, stored,
                 samples, taken>>

(* ... before its destructor removes it. *)
remove_publisher(p) ==
  /\ life[p] = "expired" /\ Exclusive
  /\ life' = [life EXCEPT ![p] = "gone"]
  /\ publishers_' = publishers_ \ {p}
  /\ pub_to_subs_' = [pub_to_subs_ EXCEPT ![p] = NoLists]
  /\ UNCHANGED <<subscriptions_, sent, call, stored, samples, taken>>

-----------------------------------------------------------------------------
(* publish().                                                              *)

(* Subscriptions the middleware can have discovered. *)
Discoverable(p) ==
  {s \in Subs : <<p, s>> \in Matches /\ life[s] # "none"} \cup Remotes

(* get_subscription_count, ... *)
CountAll(p) ==
  /\ life[p] = "live" /\ call[p].at = "idle" /\ sent[p] < MaxSent
  /\ sent' = [sent EXCEPT ![p] = @ + 1]
  /\ \E seen \in SUBSET Discoverable(p) :
       call' = [call EXCEPT ![p].at = "count", ![p].seen = seen]
  /\ UNCHANGED <<life, publishers_, subscriptions_, pub_to_subs_, stored, samples, taken>>

Intra(p) == Len(pub_to_subs_[p].shared) + Len(pub_to_subs_[p].owned)

(* ... then get_intra_process_subscription_count: the difference is taken  *)
(* for subscriptions of other processes.                                   *)
CountIntra(p) ==
  /\ call[p].at = "count"
  /\ call' = [call EXCEPT ![p].at = "counted",
                          ![p].inter = Cardinality(call[p].seen) > Intra(p)]
  /\ UNCHANGED <<life, publishers_, subscriptions_, pub_to_subs_, sent, stored, samples, taken>>

(* add_shared_msg_to_buffers: <<subscription, object>> for every one. *)
ToShared(p, c, ids) == [i \in DOMAIN ids |-> <<ids[i], Object(p, c)>>]

ToOwned_NoCopy(p, ids) == [i \in DOMAIN ids |-> <<ids[i], Object(p, "message")>>]

(* add_owned_msg_to_buffers: a copy for every one but the last. *)
ToOwned(p, ids) ==
  [i \in DOMAIN ids |->
     <<ids[i], Object(p, IF i = Len(ids) THEN "message" ELSE ids[i])>>]

(* The branches of do_intra_process_publish and of                         *)
(* do_intra_process_publish_and_return_shared: nobody owns, ...            *)
StoreShared(p, lists) ==
  /\ lists.owned = <<>>
  /\ call' = [call EXCEPT ![p].at = "store",
                          ![p].left = ToShared(p, "message", lists.shared),
                          ![p].kept = IF call[p].inter THEN "message" ELSE "none"]

(* ... or nothing is returned and at most one shares, which then owns a    *)
(* copy like the others, ...                                               *)
StoreOwned(p, lists) ==
  /\ lists.owned # <<>> /\ ~call[p].inter /\ Len(lists.shared) <= 1
  /\ call' = [call EXCEPT ![p].at = "store",
                          ![p].left = ToOwned(p, lists.shared \o lists.owned)]

(* ... or a copy is shared. *)
StoreBoth(p, lists) ==
  /\ lists.owned # <<>> /\ (call[p].inter \/ Len(lists.shared) > 1)
  /\ call' = [call EXCEPT ![p].at = "store",
                          ![p].left = ToShared(p, "shared_msg", lists.shared)
                                      \o ToOwned(p, lists.owned),
                          ![p].kept = IF call[p].inter THEN "shared_msg" ELSE "none"]

(* mutex_ is taken shared, and the lists are read. *)
BeginStore(p) ==
  /\ call[p].at = "counted"
  /\ \/ StoreShared(p, pub_to_subs_[p])
     \/ StoreOwned(p, pub_to_subs_[p])
     \/ StoreBoth(p, pub_to_subs_[p])
  /\ UNCHANGED <<life, publishers_, subscriptions_, pub_to_subs_, sent, stored, samples, taken>>

(* provide_intra_process_data for the next subscription. *)
Store(p) ==
  /\ call[p].at = "store" /\ call[p].left # <<>>
  /\ LET next == Head(call[p].left)
     IN  stored' = [stored EXCEPT ![next[1]] = Append(@, next[2])]
  /\ call' = [call EXCEPT ![p].left = Tail(@)]
  /\ UNCHANGED <<life, publishers_, subscriptions_, pub_to_subs_, sent, samples, taken>>

(* mutex_ is released. *)
EndStore(p) ==
  /\ call[p].at = "store" /\ call[p].left = <<>>
  /\ call' = [call EXCEPT ![p] = IF @.inter THEN [@ EXCEPT !.at = "send"] ELSE Resting]
  /\ UNCHANGED <<life, publishers_, subscriptions_, pub_to_subs_, sent, stored, samples, taken>>

(* do_inter_process_publish: the middleware gives the message to the       *)
(* subscriptions it has discovered, those of this process among them.      *)
Send(p) ==
  /\ call[p].at = "send"
  /\ \E to \in SUBSET (Discoverable(p) \cap {s \in Subs : life[s] # "gone"}) :
       samples' = [s \in Subs |->
         IF s \in to THEN samples[s] \cup {<<p, sent[p]>>} ELSE samples[s]]
  /\ call' = [call EXCEPT ![p] = Resting]
  /\ UNCHANGED <<life, publishers_, subscriptions_, pub_to_subs_, sent, stored, taken>>

matches_any_publishers_First(p) ==
  life[p] = "live" /\ p = CHOOSE q \in publishers_ : TRUE

(* The weak pointer of the publisher must not have expired. *)
matches_any_publishers(p) == p \in publishers_ /\ life[p] = "live"

(* take_type_erased: a message of a publisher of this process is dropped,  *)
(* it comes by way of the buffer.                                          *)
TakeSample(s) ==
  /\ life[s] = "live"
  /\ \E m \in samples[s] :
       /\ samples' = [samples EXCEPT ![s] = @ \ {m}]
       /\ taken' = [taken EXCEPT ![s] = IF matches_any_publishers(m[1]) THEN @ ELSE @ \cup {m}]
  /\ UNCHANGED <<life, publishers_, subscriptions_, pub_to_subs_, sent, call, stored>>

Next ==
  \/ \E p \in Publishers :
       \/ add_publisher(p) \/ ExpirePublisher(p) \/ remove_publisher(p)
       \/ CountAll(p) \/ CountIntra(p) \/ BeginStore(p) \/ Store(p) \/ EndStore(p) \/ Send(p)
  \/ \E s \in Subs :
       CreateSubscription(s) \/ add_subscription(s) \/ remove_subscription(s) \/ TakeSample(s)

Spec == Init /\ [][Next]_vars

-----------------------------------------------------------------------------
(* Correctness.                                                            *)

(* Every variable has its type. *)
TypeOK ==
  /\ life \in [Publishers \cup Subs -> {"none", "made", "live", "expired", "gone"}]
  /\ publishers_ \subseteq Publishers /\ subscriptions_ \subseteq Subs
  /\ pub_to_subs_ \in [Publishers -> [shared : Seq(Sharing), owned : Seq(Subs \ Sharing)]]
  /\ sent \in [Publishers -> 0..MaxSent]
  /\ call \in [Publishers -> [at : {"idle", "count", "counted", "store", "send"},
                              seen : SUBSET (Subs \cup Remotes), inter : BOOLEAN,
                              left : Seq(Subs \X Objects),
                              kept : {"none", "message", "shared_msg"}]]
  /\ stored \in [Subs -> Seq(Objects)]
  /\ samples \in [Subs -> SUBSET (Publishers \X (1..MaxSent))]
  /\ taken \in [Subs -> SUBSET (Publishers \X (1..MaxSent))]

(* An object stored for a subscription that owns its messages is stored    *)
(* nowhere else, and is not the one publish() goes on to send.             *)
OwnedAlone ==
  \A s \in Subs \ Sharing : \A i \in DOMAIN stored[s] :
    LET o == stored[s][i]
    IN  /\ \A u \in Subs : \A j \in DOMAIN stored[u] : stored[u][j] = o => <<u, j>> = <<s, i>>
        /\ o.n = sent[o.from] => call[o.from].kept # o.copy

(* A subscription handles a message of its own process a second time, as   *)
(* it comes from the middleware, only if the publisher was destroyed       *)
(* before that copy was taken.                                             *)
HandledOnce ==
  \A s \in Subs : \A i \in DOMAIN stored[s] :
    <<stored[s][i].from, stored[s][i].n>> \in taken[s]
      => life[stored[s][i].from] \in {"expired", "gone"}

(* A message is sent to the other processes when one of their              *)
(* subscriptions was counted, unless a subscription the manager counts is  *)
(* one the middleware did not.                                             *)
RemoteServed ==
  [][\A p \in Publishers :
       /\ call[p].at = "count" /\ call'[p].at = "counted"
       /\ call[p].seen \cap Remotes # {}
       /\ {s \in subscriptions_ : <<p, s>> \in Matches} \subseteq call[p].seen
       => call'[p].inter]_vars

Receivers(list) == {list[i][1] : i \in DOMAIN list}
Message(o) == <<o.from, o.n>>

Promise == INSTANCE Topic WITH
  joined <- subscriptions_,
  sent <- [p \in Publishers |-> sent[p] - IF call[p].at \in {"count", "counted"} THEN 1 ELSE 0],
  owed <- [p \in Publishers |-> Receivers(call[p].left)],
  received <- [s \in Subs |-> [i \in DOMAIN stored[s] |-> Message(stored[s][i])]]

(* Publications keep the promise of Topic. *)
ImplementsTopic == Promise!TopicSpec

=============================================================================

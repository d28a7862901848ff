---------------------- MODULE IntraProcessManagerProofs ----------------------
(***************************************************************************)
(* IntraProcessManager, for every set of publishers and all finite sets of *)
(* subscriptions: no message of a live publisher of the process is handled *)
(* as it comes from the middleware; the lists of subscribers are those of  *)
(* the registered subscriptions that match; an object has one owner; no    *)
(* other process is forgotten; and the manager keeps the promise of Topic. *)
(***************************************************************************)
EXTENDS IntraProcessManager, SequenceTheorems, FiniteSetTheorems, TLAPS

(* A publisher is live while it publishes, and a live one is registered;   *)
(* what the middleware holds was published; and what a subscription took   *)
(* from there came from a publisher that was no longer live, which it      *)
(* never is again.                                                         *)
LivePublishers ==
  \A p \in Publishers :
    /\ call[p].at # "idle" => life[p] = "live"
    /\ life[p] = "live" => p \in publishers_
    /\ life[p] \in {"none", "live", "expired", "gone"}

SamplesPublished ==
  \A s \in Subs : \A m \in samples[s] :
    m[1] \in Publishers /\ life[m[1]] \in {"live", "expired", "gone"}

TakenFromDead ==
  \A s \in Subs : \A m \in taken[s] :
    m[1] \in Publishers /\ life[m[1]] \in {"expired", "gone"}

Shape ==
  /\ DOMAIN life = Publishers \cup Subs
  /\ DOMAIN samples = Subs /\ DOMAIN taken = Subs /\ DOMAIN call = Publishers
  /\ \A p \in Publishers : DOMAIN call[p] = {"at", "seen", "inter", "left", "kept"}

DeadInv == Shape /\ LivePublishers /\ SamplesPublished /\ TakenFromDead

(* Publishers and subscriptions that come and go. *)
LEMMA LifeStep ==
  ASSUME DeadInv, NEW e \in Publishers \cup Subs,
         \/ e \in Publishers /\ (add_publisher(e) \/ ExpirePublisher(e) \/ remove_publisher(e))
         \/ e \in Subs /\ (CreateSubscription(e) \/ add_subscription(e) \/ remove_subscription(e))
  PROVE  DeadInv'
<1> USE IntraProcessManagerAssumption
<1> USE DEF DeadInv, Shape, LivePublishers, SamplesPublished, TakenFromDead
<1>1. CASE e \in Publishers /\ add_publisher(e)
  BY <1>1 DEF add_publisher
<1>2. CASE e \in Publishers /\ ExpirePublisher(e)
  BY <1>2 DEF ExpirePublisher
<1>3. CASE e \in Publishers /\ remove_publisher(e)
  BY <1>3 DEF remove_publisher, Exclusive
<1>4. CASE e \in Subs /\ CreateSubscription(e)
  BY <1>4 DEF CreateSubscription
<1>5. CASE e \in Subs /\ add_subscription(e)
  BY <1>5 DEF add_subscription
<1>6. CASE e \in Subs /\ remove_subscription(e)
  BY <1>6 DEF remove_subscription
<1>7. QED
  BY <1>1, <1>2, <1>3, <1>4, <1>5, <1>6

(* A step of publish(). *)
LEMMA PublishStep ==
  ASSUME DeadInv, NEW p \in Publishers,
         CountAll(p) \/ CountIntra(p) \/ BeginStore(p) \/ Store(p) \/ EndStore(p) \/ Send(p)
  PROVE  DeadInv'
<1> USE DEF DeadInv, Shape, LivePublishers, SamplesPublished, TakenFromDead
<1>1. CASE CountAll(p)
  BY <1>1 DEF CountAll
<1>2. CASE CountIntra(p)
  BY <1>2 DEF CountIntra
<1>3. CASE BeginStore(p)
  BY <1>3 DEF BeginStore, StoreShared, StoreOwned, StoreBoth
<1>4. CASE Store(p)
  BY <1>4 DEF Store
<1>5. CASE EndStore(p)
  BY <1>5 DEF EndStore, Resting
<1>6. CASE Send(p)
  <2>1. life' = life /\ taken' = taken /\ publishers_' = publishers_ /\ life[p] = "live"
    BY <1>6 DEF Send
  <2>2. SamplesPublished'
    BY <1>6, <2>1 DEF Send
  <2>3. Shape' /\ LivePublishers'
    BY <1>6, <2>1 DEF Send, Resting
  <2>4. QED
    BY <2>1, <2>2, <2>3
<1>7. QED
  BY <1>1, <1>2, <1>3, <1>4, <1>5, <1>6

(* A subscription takes from the middleware. *)
LEMMA TakeStep ==
  ASSUME DeadInv, NEW s \in Subs, TakeSample(s)
  PROVE  DeadInv'
<1> USE DEF DeadInv, Shape, LivePublishers, SamplesPublished, TakenFromDead
<1>1. PICK m \in samples[s] :
        /\ samples' = [samples EXCEPT ![s] = @ \ {m}]
        /\ taken' = [taken EXCEPT ![s] =
             IF matches_any_publishers(m[1]) THEN @ ELSE @ \cup {m}]
  BY DEF TakeSample
<1>2. life' = life /\ call' = call /\ publishers_' = publishers_
  BY DEF TakeSample
<1>3. ~matches_any_publishers(m[1]) => life[m[1]] \in {"expired", "gone"}
  BY DEF matches_any_publishers
<1>4. SamplesPublished'
  BY <1>1, <1>2
<1>5. TakenFromDead'
  BY <1>1, <1>2, <1>3
<1>6. QED
  BY <1>1, <1>2, <1>4, <1>5

LEMMA DeadInit == Init => DeadInv
BY IntraProcessManagerAssumption
DEF Init, DeadInv, Shape, LivePublishers, SamplesPublished, TakenFromDead, Resting

LEMMA DeadNext == DeadInv /\ [Next]_vars => DeadInv'
<1> SUFFICES ASSUME DeadInv, [Next]_vars PROVE DeadInv'
  OBVIOUS
<1>1. CASE UNCHANGED vars
  BY <1>1 DEF vars, DeadInv, Shape, LivePublishers, SamplesPublished, TakenFromDead
<1>2. QED
  BY <1>1, LifeStep, PublishStep, TakeStep DEF Next

(* A subscription handles a message of its own process a second time only  *)
(* if the publisher was destroyed before the copy of the middleware was    *)
(* taken (take_type_erased).                                               *)
THEOREM DuplicateMeansDestroyed == Spec => []HandledOnce
<1>1. DeadInv => HandledOnce
  BY DEF DeadInv, TakenFromDead, HandledOnce
<1>2. QED
  BY DeadInit, DeadNext, <1>1, PTL DEF Spec

-----------------------------------------------------------------------------
(* Lists of subscriptions, and the operations on them.                     *)

Distinct(list) == \A i, j \in DOMAIN list : list[i] = list[j] => i = j
Listed(list) == {list[i] : i \in DOMAIN list}

LEMMA SeqMade ==
  ASSUME NEW S, NEW n \in Nat, NEW f \in [1..n -> S]
  PROVE  f \in Seq(S) /\ Len(f) = n
<1>1. f \in Seq(S)
  BY SeqDef
<1>2. QED
  BY <1>1, LenProperties

LEMMA Appended ==
  ASSUME NEW S, NEW list \in Seq(S), NEW s \in S, s \notin Listed(list), Distinct(list)
  PROVE  /\ Append(list, s) \in Seq(S) /\ Distinct(Append(list, s))
         /\ Listed(Append(list, s)) = Listed(list) \cup {s}
<1> DEFINE r == Append(list, s)
<1>1. /\ r \in Seq(S) /\ Len(list) \in Nat /\ Len(r) = Len(list) + 1
      /\ DOMAIN list = 1..Len(list) /\ DOMAIN r = 1..Len(r)
      /\ \A i \in 1..Len(list) : r[i] = list[i]
      /\ r[Len(r)] = s
  BY AppendProperties, LenProperties
<1> HIDE DEF r
<1>2. Distinct(r)
  BY <1>1 DEF Distinct, Listed
<1>3. \A x \in Listed(r) : x \in Listed(list) \cup {s}
  BY <1>1 DEF Listed
<1>4. \A x \in Listed(list) : x \in Listed(r)
  BY <1>1 DEF Listed
<1>5. s \in Listed(r)
  BY <1>1 DEF Listed
<1>6. QED
  BY <1>1, <1>2, <1>3, <1>4, <1>5 DEF r

(* Its place is closed up. *)
LEMMA Dropped ==
  ASSUME NEW S, NEW list \in Seq(S), NEW s, NEW k \in DOMAIN list, list[k] = s, Distinct(list),
         NEW r, r = [i \in 1..(Len(list) - 1) |-> IF i < k THEN list[i] ELSE list[i + 1]]
  PROVE  r \in Seq(S) /\ Distinct(r) /\ Listed(r) = Listed(list) \ {s}
<1>1. PICK n \in Nat : n = Len(list) /\ DOMAIN list = 1..n /\ list \in [1..n -> S]
  BY LenProperties
<1>2. n - 1 \in Nat /\ k \in 1..n
  BY <1>1
<1>3. /\ DOMAIN r = 1..(n - 1)
      /\ \A i \in 1..(n - 1) : r[i] = IF i < k THEN list[i] ELSE list[i + 1]
  BY <1>1
<1>4. r \in [1..(n - 1) -> S]
  BY <1>1, <1>2
<1>5. r \in Seq(S)
  BY <1>2, <1>4, SeqMade
<1>6. Distinct(r)
  <2> SUFFICES ASSUME NEW i \in 1..(n - 1), NEW j \in 1..(n - 1), r[i] = r[j]
               PROVE  i = j
    BY <1>3 DEF Distinct
  <2> DEFINE Old(m) == IF m < k THEN m ELSE m + 1
  <2>1. Old(i) \in 1..n /\ Old(j) \in 1..n
    BY <1>2
  <2>2. list[Old(i)] = list[Old(j)]
    BY <1>3
  <2>3. Old(i) = Old(j)
    BY <1>1, <2>1, <2>2 DEF Distinct
  <2>4. QED
    BY <1>2, <2>3
<1>7. ASSUME NEW x \in Listed(r) PROVE x \in Listed(list) \ {s}
  <2>1. PICK i \in 1..(n - 1) : x = r[i]
    BY <1>3, <1>7 DEF Listed
  <2>2. \E j \in 1..n : j # k /\ x = list[j]
    <3>1. CASE i < k
      BY <1>2, <1>3, <2>1, <3>1
    <3>2. CASE ~(i < k)
      <4>1. i + 1 \in 1..n /\ i + 1 # k
        BY <1>2, <3>2
      <4>2. QED
        BY <1>3, <2>1, <3>2, <4>1
    <3>3. QED
      BY <3>1, <3>2
  <2>3. QED
    BY <1>1, <1>2, <2>2 DEF Listed, Distinct
<1>8. ASSUME NEW x \in Listed(list) \ {s} PROVE x \in Listed(r)
  <2>1. PICK j \in 1..n : j # k /\ x = list[j]
    BY <1>1, <1>8 DEF Listed
  <2>2. \E i \in 1..(n - 1) : x = r[i]
    <3>1. CASE j < k
      <4>1. j \in 1..(n - 1)
        BY <1>2, <3>1
      <4>2. QED
        BY <1>3, <2>1, <3>1, <4>1
    <3>2. CASE j > k
      <4>1. j - 1 \in 1..(n - 1) /\ ~(j - 1 < k) /\ (j - 1) + 1 = j
        BY <1>2, <3>2
      <4>2. r[j - 1] = x
        BY <1>3, <2>1, <4>1
      <4>3. QED
        BY <4>1, <4>2
    <3>3. QED
      BY <1>2, <2>1, <3>1, <3>2
  <2>3. QED
    BY <1>3, <2>2 DEF Listed
<1>9. QED
  BY <1>5, <1>6, <1>7, <1>8

LEMMA Removed ==
  ASSUME NEW S, NEW list \in Seq(S), NEW s, Distinct(list)
  PROVE  /\ Without(list, s) \in Seq(S) /\ Distinct(Without(list, s))
         /\ Listed(Without(list, s)) = Listed(list) \ {s}
<1>1. CASE \E i \in DOMAIN list : list[i] = s
  <2> DEFINE k == CHOOSE i \in DOMAIN list : list[i] = s
  <2>1. k \in DOMAIN list /\ list[k] = s
    BY <1>1
  <2> DEFINE r == [i \in 1..(Len(list) - 1) |-> IF i < k THEN list[i] ELSE list[i + 1]]
  <2>2. Without(list, s) = r
    BY <1>1 DEF Without
  <2>3. r \in Seq(S) /\ Distinct(r) /\ Listed(r) = Listed(list) \ {s}
    <3> HIDE DEF k
    <3>1. QED
      BY <2>1, Dropped
  <2>4. QED
    BY <2>2, <2>3
<1>2. CASE ~\E i \in DOMAIN list : list[i] = s
  BY <1>2 DEF Without, Listed
<1>3. QED
  BY <1>1, <1>2

(* A set in some order. *)
LEMMA Ordered ==
  ASSUME NEW S, IsFiniteSet(S), NEW o \in Orders(S)
  PROVE  o \in Seq(S) /\ Distinct(o) /\ Listed(o) = S
<1>1. Cardinality(S) \in Nat
  BY FS_CardinalityType
<1> DEFINE n == Cardinality(S)
<1>2. o \in [1..n -> S] /\ Distinct(o) /\ DOMAIN o = 1..n
  BY DEF Orders, Distinct
<1>3. o \in Seq(S)
  BY <1>1, <1>2, SeqMade
<1>4. o \in Injection(1..n, S)
  BY <1>2 DEF Injection, IsInjective, Distinct
<1>5. IsFiniteSet(1..n) /\ Cardinality(1..n) = n
  BY <1>1, FS_Interval
<1>6. o \in Surjection(1..n, S)
  BY <1>4, <1>5, FS_Injection
<1>7. Listed(o) = S
  BY <1>2, <1>6 DEF Surjection, Listed
<1>8. QED
  BY <1>2, <1>3, <1>7

(* A list without duplicates is as long as its set is large. *)
LEMMA Counted ==
  ASSUME NEW S, NEW list \in Seq(S), Distinct(list)
  PROVE  IsFiniteSet(Listed(list)) /\ Cardinality(Listed(list)) = Len(list) /\ Len(list) \in Nat
<1>1. Len(list) \in Nat /\ DOMAIN list = 1..Len(list) /\ list \in [1..Len(list) -> S]
  BY LenProperties
<1>2. list \in Bijection(1..Len(list), Listed(list))
  BY <1>1 DEF Bijection, Injection, Surjection, IsInjective, Distinct, Listed
<1>3. IsFiniteSet(1..Len(list)) /\ Cardinality(1..Len(list)) = Len(list)
  BY <1>1, FS_Interval
<1>4. ExistsBijection(1..Len(list), Listed(list))
  BY <1>2 DEF ExistsBijection
<1>5. QED
  BY <1>1, <1>3, <1>4, FS_Bijection

-----------------------------------------------------------------------------
(* The entries publish() makes for the subscriptions it finds.             *)

LEMMA ObjectTyped ==
  ASSUME TypeOK, NEW p \in Publishers, sent[p] >= 1, NEW c \in Copies
  PROVE  Object(p, c) \in Objects
<1>1. sent[p] \in 1..MaxSent
  BY IntraProcessManagerAssumption DEF TypeOK
<1>2. QED
  BY <1>1 DEF Object, Objects

LEMMA SharedEntries ==
  ASSUME TypeOK, NEW p \in Publishers, sent[p] >= 1, NEW c \in {"message", "shared_msg"},
         NEW ids \in Seq(Subs), NEW r, r = ToShared(p, c, ids)
  PROVE  /\ r \in Seq(Subs \X Objects) /\ Len(r) = Len(ids)
         /\ \A i \in 1..Len(ids) : r[i] = <<ids[i], Object(p, c)>>
<1>1. Object(p, c) \in Objects
  BY ObjectTyped DEF Copies
<1>2. Len(ids) \in Nat /\ DOMAIN ids = 1..Len(ids) /\ \A i \in 1..Len(ids) : ids[i] \in Subs
  BY LenProperties, ElementOfSeq
<1>3. r \in [1..Len(ids) -> Subs \X Objects]
  BY <1>1, <1>2 DEF ToShared
<1>4. QED
  BY <1>2, <1>3, SeqMade DEF ToShared

LEMMA OwnedEntries ==
  ASSUME TypeOK, NEW p \in Publishers, sent[p] >= 1,
         NEW ids \in Seq(Subs), NEW r, r = ToOwned(p, ids)
  PROVE  /\ r \in Seq(Subs \X Objects) /\ Len(r) = Len(ids)
         /\ \A i \in 1..Len(ids) :
              r[i] = <<ids[i], Object(p, IF i = Len(ids) THEN "message" ELSE ids[i])>>
<1>1. Len(ids) \in Nat /\ DOMAIN ids = 1..Len(ids) /\ \A i \in 1..Len(ids) : ids[i] \in Subs
  BY LenProperties, ElementOfSeq
<1>2. ASSUME NEW i \in 1..Len(ids)
      PROVE  Object(p, IF i = Len(ids) THEN "message" ELSE ids[i]) \in Objects
  BY <1>1, ObjectTyped DEF Copies
<1>3. r \in [1..Len(ids) -> Subs \X Objects]
  BY <1>1, <1>2 DEF ToOwned
<1>4. QED
  BY <1>1, <1>3, SeqMade DEF ToOwned

-----------------------------------------------------------------------------
(* Types.                                                                  *)

(* A publication under way was counted, and has something left to store    *)
(* and something to send only where publish() has come that far.           *)
CallInv ==
  \A p \in Publishers :
    /\ life[p] = "live" => p \in publishers_
    /\ call[p].at # "idle" => sent[p] >= 1
    /\ call[p].at # "store" => call[p].left = <<>>
    /\ call[p].at \notin {"store", "send"} => call[p].kept = "none"

CallType ==
  [at : {"idle", "count", "counted", "store", "send"}, seen : SUBSET (Subs \cup Remotes),
   inter : BOOLEAN, left : Seq(Subs \X Objects), kept : {"none", "message", "shared_msg"}]

(* What BeginStore does to the call. *)
LEMMA BeginStoreFacts ==
  ASSUME TypeOK, CallInv, NEW p \in Publishers, BeginStore(p)
  PROVE  /\ call[p].at = "counted" /\ call'[p].at = "store"
         /\ call'[p].left \in Seq(Subs \X Objects)
         /\ call'[p].kept \in {"none", "message", "shared_msg"}
         /\ call'[p].seen = call[p].seen /\ call'[p].inter = call[p].inter
         /\ call' \in [Publishers -> [at : {"idle", "count", "counted", "store", "send"},
                              seen : SUBSET (Subs \cup Remotes), inter : BOOLEAN,
                              left : Seq(Subs \X Objects),
                              kept : {"none", "message", "shared_msg"}]]
         /\ \A q \in Publishers \ {p} : call'[q] = call[q]
<1> DEFINE lists == pub_to_subs_[p]
           both == ToShared(p, "shared_msg", lists.shared) \o ToOwned(p, lists.owned)
<1>1. lists.shared \in Seq(Subs) /\ lists.owned \in Seq(Subs) /\ sent[p] >= 1
  BY IntraProcessManagerAssumption DEF TypeOK, BeginStore, CallInv
<1> HIDE DEF lists
<1>2. ToShared(p, "message", lists.shared) \in Seq(Subs \X Objects)
  BY <1>1, SharedEntries
<1>3. ToOwned(p, lists.shared \o lists.owned) \in Seq(Subs \X Objects)
  BY <1>1, OwnedEntries, ConcatProperties
<1>4. both \in Seq(Subs \X Objects)
  <2>1. ToShared(p, "shared_msg", lists.shared) \in Seq(Subs \X Objects)
    BY <1>1, SharedEntries
  <2>2. ToOwned(p, lists.owned) \in Seq(Subs \X Objects)
    BY <1>1, OwnedEntries
  <2>3. QED
    BY <2>1, <2>2, ConcatProperties
<1>5. call[p].at = "counted"
  BY DEF BeginStore
<1> HIDE DEF both
<1>6. CASE StoreShared(p, lists)
  BY <1>2, <1>5, <1>6 DEF StoreShared, TypeOK
<1>7. CASE StoreOwned(p, lists)
  BY <1>3, <1>5, <1>7 DEF StoreOwned, TypeOK
<1>8. CASE StoreBoth(p, lists)
  BY <1>4, <1>5, <1>8 DEF StoreBoth, TypeOK, both
<1>9. QED
  BY <1>6, <1>7, <1>8 DEF BeginStore, lists

LEMMA TypesOfLife ==
  ASSUME TypeOK, NEW e \in Publishers \cup Subs,
         \/ e \in Publishers /\ (ExpirePublisher(e) \/ remove_publisher(e))
         \/ e \in Subs /\ CreateSubscription(e)
  PROVE  TypeOK'
<1> USE IntraProcessManagerAssumption DEF TypeOK
<1>1. CASE e \in Publishers /\ ExpirePublisher(e)
  BY <1>1 DEF ExpirePublisher
<1>2. CASE e \in Publishers /\ remove_publisher(e)
  BY <1>2, EmptySeq DEF remove_publisher, NoLists
<1>3. CASE e \in Subs /\ CreateSubscription(e)
  BY <1>3 DEF CreateSubscription
<1>4. QED
  BY <1>1, <1>2, <1>3

(* The lists have no duplicates; those of a registered publisher have only *)
(* subscriptions that are registered, and those of a live one all that     *)
(* match, each in the list that fits its buffer.                           *)
ListsInv ==
  /\ \A s \in Subs : s \in subscriptions_ <=> life[s] = "live"
  /\ \A p \in Publishers :
       LET lists == pub_to_subs_[p]
       IN  /\ Distinct(lists.shared) /\ Distinct(lists.owned)
           /\ Listed(lists.shared) \cup Listed(lists.owned) \subseteq subscriptions_
           /\ life[p] = "live" =>
                /\ Listed(lists.shared) = {s \in subscriptions_ \cap Sharing : <<p, s>> \in Matches}
                /\ Listed(lists.owned) = {s \in subscriptions_ \ Sharing : <<p, s>> \in Matches}

BaseInv == TypeOK /\ CallInv /\ ListsInv

LEMMA NoListsFacts ==
  /\ <<>> \in Seq(Sharing) /\ <<>> \in Seq(Subs \ Sharing)
  /\ Distinct(<<>>) /\ Listed(<<>>) = {}
<1>1. DOMAIN <<>> = {}
  OBVIOUS
<1>2. QED
  BY <1>1 DEF Distinct, Listed

LEMMA BaseInit == Init => BaseInv
<1> SUFFICES ASSUME Init PROVE BaseInv
  OBVIOUS
<1> USE IntraProcessManagerAssumption DEF Init
<1>1. TypeOK
  <2>1. call \in [Publishers -> [at : {"idle", "count", "counted", "store", "send"},
                              seen : SUBSET (Subs \cup Remotes), inter : BOOLEAN,
                              left : Seq(Subs \X Objects),
                              kept : {"none", "message", "shared_msg"}]]
    BY DEF Resting
  <2>2. QED
    BY <2>1, NoListsFacts DEF TypeOK, NoLists
<1>2. CallInv
  BY DEF CallInv, Resting
<1>3. ListsInv
  BY NoListsFacts DEF ListsInv, NoLists
<1>4. QED
  BY <1>1, <1>2, <1>3 DEF BaseInv

LEMMA BaseAddPublisher ==
  ASSUME BaseInv, NEW p \in Publishers, add_publisher(p)
  PROVE  BaseInv'
<1> USE IntraProcessManagerAssumption
<1> DEFINE Shared == {s \in subscriptions_ \cap Sharing : <<p, s>> \in Matches}
           Owned == {s \in subscriptions_ \ Sharing : <<p, s>> \in Matches}
<1>1. PICK shared \in Orders(Shared), owned \in Orders(Owned) :
        pub_to_subs_' = [pub_to_subs_ EXCEPT ![p] = [shared |-> shared, owned |-> owned]]
  BY DEF add_publisher
<1>2. /\ life' = [life EXCEPT ![p] = "live"] /\ publishers_' = publishers_ \cup {p}
      /\ UNCHANGED <<subscriptions_, sent, call, stored, samples, taken>>
  BY DEF add_publisher
<1>3. IsFiniteSet(Shared) /\ IsFiniteSet(Owned)
  BY FS_Subset DEF BaseInv, TypeOK
<1>4. shared \in Seq(Shared) /\ Distinct(shared) /\ Listed(shared) = Shared
  BY <1>3, Ordered
<1>5. owned \in Seq(Owned) /\ Distinct(owned) /\ Listed(owned) = Owned
  BY <1>3, Ordered
<1>6. shared \in Seq(Sharing) /\ owned \in Seq(Subs \ Sharing)
  <2>1. Shared \subseteq Sharing /\ Owned \subseteq Subs \ Sharing
    BY DEF BaseInv, TypeOK
  <2> HIDE DEF Shared, Owned
  <2>2. QED
    BY <1>4, <1>5, <2>1, SeqMonotonic
<1>7. TypeOK'
  BY <1>1, <1>2, <1>6 DEF BaseInv, TypeOK
<1>8. CallInv'
  BY <1>2 DEF BaseInv, CallInv
<1>9. ListsInv'
  <2>1. \A s \in Subs : s \in subscriptions_' <=> life'[s] = "live"
    BY <1>2 DEF BaseInv, ListsInv, TypeOK
  <2>2. pub_to_subs_'[p].shared = shared /\ pub_to_subs_'[p].owned = owned
    BY <1>1 DEF BaseInv, TypeOK
  <2>3. \A q \in Publishers \ {p} : pub_to_subs_'[q] = pub_to_subs_[q] /\ life'[q] = life[q]
    BY <1>1, <1>2 DEF BaseInv, TypeOK
  <2>4. QED
    BY <1>2, <1>4, <1>5, <2>1, <2>2, <2>3 DEF BaseInv, ListsInv
<1>10. QED
  BY <1>7, <1>8, <1>9 DEF BaseInv

LEMMA BaseAddSubscription ==
  ASSUME BaseInv, NEW s \in Subs, add_subscription(s)
  PROVE  BaseInv'
<1> USE IntraProcessManagerAssumption
<1>1. /\ life[s] = "made" /\ life' = [life EXCEPT ![s] = "live"]
      /\ subscriptions_' = subscriptions_ \cup {s}
      /\ pub_to_subs_' = [p \in Publishers |->
           IF p \in publishers_ /\ life[p] = "live" /\ <<p, s>> \in Matches
             THEN Inserted(pub_to_subs_[p], s) ELSE pub_to_subs_[p]]
      /\ UNCHANGED <<publishers_, sent, call, stored, samples, taken>>
  BY DEF add_subscription
<1>2. s \notin subscriptions_ /\ \A p \in Publishers : life'[p] = life[p]
  BY <1>1 DEF BaseInv, ListsInv, TypeOK
<1>3. \A p \in Publishers : life[p] = "live" => p \in publishers_
  BY DEF BaseInv, CallInv
<1>4. ASSUME NEW p \in Publishers
      PROVE  LET lists == pub_to_subs_'[p]
             IN  /\ lists \in [shared : Seq(Sharing), owned : Seq(Subs \ Sharing)]
                 /\ Distinct(lists.shared) /\ Distinct(lists.owned)
                 /\ Listed(lists.shared) \cup Listed(lists.owned) \subseteq subscriptions_'
                 /\ life'[p] = "live" =>
                      /\ Listed(lists.shared) = {u \in subscriptions_' \cap Sharing : <<p, u>> \in Matches}
                      /\ Listed(lists.owned) = {u \in subscriptions_' \ Sharing : <<p, u>> \in Matches}
  <2> DEFINE old == pub_to_subs_[p]
             new == pub_to_subs_'[p]
  <2>1. /\ old \in [shared : Seq(Sharing), owned : Seq(Subs \ Sharing)]
        /\ Distinct(old.shared) /\ Distinct(old.owned)
        /\ Listed(old.shared) \cup Listed(old.owned) \subseteq subscriptions_
        /\ life[p] = "live" =>
             /\ Listed(old.shared) = {u \in subscriptions_ \cap Sharing : <<p, u>> \in Matches}
             /\ Listed(old.owned) = {u \in subscriptions_ \ Sharing : <<p, u>> \in Matches}
    BY DEF BaseInv, TypeOK, ListsInv
  <2>2. new = IF p \in publishers_ /\ life[p] = "live" /\ <<p, s>> \in Matches
                THEN Inserted(old, s) ELSE old
    BY <1>1
  <2> HIDE DEF old, new
  <2>3. CASE ~(life[p] = "live" /\ <<p, s>> \in Matches)
    BY <1>1, <1>2, <2>1, <2>2, <2>3 DEF new
  <2>4. CASE life[p] = "live" /\ <<p, s>> \in Matches /\ s \in Sharing
    <3> DEFINE grown == Append(old.shared, s)
    <3>1. old.shared \in Seq(Sharing) /\ old.owned \in Seq(Subs \ Sharing)
      BY <2>1
    <3>2. new = [shared |-> grown, owned |-> old.owned]
      BY <1>3, <2>1, <2>2, <2>4 DEF Inserted
    <3>3. s \notin Listed(old.shared) /\ Distinct(old.shared) /\ s \in Sharing
      BY <1>2, <2>1, <2>4
    <3>4. grown \in Seq(Sharing) /\ Distinct(grown) /\ Listed(grown) = Listed(old.shared) \cup {s}
      BY <3>1, <3>3, Appended
    <3> HIDE DEF grown
    <3>5. new.shared = grown /\ new.owned = old.owned
      BY <3>2
    <3>6. new \in [shared : Seq(Sharing), owned : Seq(Subs \ Sharing)]
      BY <3>1, <3>2, <3>4
    <3>7. /\ Listed(new.shared) = {u \in subscriptions_' \cap Sharing : <<p, u>> \in Matches}
          /\ Listed(new.owned) = {u \in subscriptions_' \ Sharing : <<p, u>> \in Matches}
      <4>1. /\ Listed(old.shared) = {u \in subscriptions_ \cap Sharing : <<p, u>> \in Matches}
            /\ Listed(old.owned) = {u \in subscriptions_ \ Sharing : <<p, u>> \in Matches}
        BY <2>1, <2>4
      <4>2. /\ Listed(new.shared) = Listed(old.shared) \cup {s}
            /\ Listed(new.owned) = Listed(old.owned)
        BY <3>4, <3>5
      <4>3. QED
        BY <1>1, <2>4, <4>1, <4>2
    <3>8. QED
      BY <1>1, <2>1, <3>4, <3>5, <3>6, <3>7 DEF new
  <2>5. CASE life[p] = "live" /\ <<p, s>> \in Matches /\ s \notin Sharing
    <3> DEFINE grown == Append(old.owned, s)
    <3>1. old.shared \in Seq(Sharing) /\ old.owned \in Seq(Subs \ Sharing)
      BY <2>1
    <3>2. new = [shared |-> old.shared, owned |-> grown]
      BY <1>3, <2>1, <2>2, <2>5 DEF Inserted
    <3>3. s \notin Listed(old.owned) /\ Distinct(old.owned) /\ s \in Subs \ Sharing
      BY <1>2, <2>1, <2>5
    <3>4. grown \in Seq(Subs \ Sharing) /\ Distinct(grown) /\ Listed(grown) = Listed(old.owned) \cup {s}
      BY <3>1, <3>3, Appended
    <3> HIDE DEF grown
    <3>5. new.owned = grown /\ new.shared = old.shared
      BY <3>2
    <3>6. new \in [shared : Seq(Sharing), owned : Seq(Subs \ Sharing)]
      BY <3>1, <3>2, <3>4
    <3>7. /\ Listed(new.shared) = {u \in subscriptions_' \cap Sharing : <<p, u>> \in Matches}
          /\ Listed(new.owned) = {u \in subscriptions_' \ Sharing : <<p, u>> \in Matches}
      <4>1. /\ Listed(old.shared) = {u \in subscriptions_ \cap Sharing : <<p, u>> \in Matches}
            /\ Listed(old.owned) = {u \in subscriptions_ \ Sharing : <<p, u>> \in Matches}
        BY <2>1, <2>5
      <4>2. /\ Listed(new.owned) = Listed(old.owned) \cup {s}
            /\ Listed(new.shared) = Listed(old.shared)
        BY <3>4, <3>5
      <4>3. QED
        BY <1>1, <2>5, <4>1, <4>2
    <3>8. QED
      BY <1>1, <2>1, <3>4, <3>5, <3>6, <3>7 DEF new
  <2>6. QED
    BY <2>3, <2>4, <2>5
<1>5. TypeOK'
  <2>1. pub_to_subs_' \in [Publishers -> [shared : Seq(Sharing), owned : Seq(Subs \ Sharing)]]
    BY <1>1, <1>4
  <2>2. QED
    BY <1>1, <2>1 DEF BaseInv, TypeOK
<1>6. CallInv'
  BY <1>1 DEF BaseInv, CallInv
<1>7. ListsInv'
  <2>1. \A u \in Subs : u \in subscriptions_' <=> life'[u] = "live"
    BY <1>1 DEF BaseInv, ListsInv, TypeOK
  <2>2. QED
    BY <1>4, <2>1 DEF ListsInv
<1>8. QED
  BY <1>5, <1>6, <1>7 DEF BaseInv

LEMMA BaseRemoveSubscription ==
  ASSUME BaseInv, NEW s \in Subs, remove_subscription(s)
  PROVE  BaseInv'
<1> USE IntraProcessManagerAssumption
<1>1. /\ life' = [life EXCEPT ![s] = "gone"]
      /\ subscriptions_' = subscriptions_ \ {s}
      /\ pub_to_subs_' = [p \in Publishers |->
           [shared |-> Without(pub_to_subs_[p].shared, s),
            owned |-> Without(pub_to_subs_[p].owned, s)]]
      /\ samples' = [samples EXCEPT ![s] = {}]
      /\ UNCHANGED <<publishers_, sent, call, stored, taken>>
  BY DEF remove_subscription
<1>2. \A p \in Publishers : life'[p] = life[p]
  BY <1>1 DEF BaseInv, TypeOK
<1>3. ASSUME NEW p \in Publishers
      PROVE  LET lists == pub_to_subs_'[p]
                 old == pub_to_subs_[p]
             IN  /\ lists \in [shared : Seq(Sharing), owned : Seq(Subs \ Sharing)]
                 /\ Distinct(lists.shared) /\ Distinct(lists.owned)
                 /\ Listed(lists.shared) = Listed(old.shared) \ {s}
                 /\ Listed(lists.owned) = Listed(old.owned) \ {s}
  <2> DEFINE old == pub_to_subs_[p]
             shared == Without(old.shared, s)
             owned == Without(old.owned, s)
  <2>1. /\ old.shared \in Seq(Sharing) /\ old.owned \in Seq(Subs \ Sharing)
        /\ Distinct(old.shared) /\ Distinct(old.owned)
    BY DEF BaseInv, TypeOK, ListsInv
  <2>2. pub_to_subs_'[p] = [shared |-> shared, owned |-> owned]
    BY <1>1
  <2> HIDE DEF old
  <2>3. shared \in Seq(Sharing) /\ Distinct(shared) /\ Listed(shared) = Listed(old.shared) \ {s}
    BY <2>1, Removed
  <2>4. owned \in Seq(Subs \ Sharing) /\ Distinct(owned) /\ Listed(owned) = Listed(old.owned) \ {s}
    BY <2>1, Removed
  <2> HIDE DEF shared, owned
  <2>5. QED
    BY <2>2, <2>3, <2>4 DEF old
<1>4. TypeOK'
  <2>1. pub_to_subs_' \in [Publishers -> [shared : Seq(Sharing), owned : Seq(Subs \ Sharing)]]
    BY <1>1, <1>3
  <2>2. QED
    BY <1>1, <2>1 DEF BaseInv, TypeOK
<1>5. CallInv'
  BY <1>1 DEF BaseInv, CallInv
<1>6. ListsInv'
  <2>1. \A u \in Subs : u \in subscriptions_' <=> life'[u] = "live"
    BY <1>1 DEF BaseInv, ListsInv, TypeOK
  <2>2. QED
    BY <1>1, <1>2, <1>3, <2>1 DEF BaseInv, ListsInv
<1>7. QED
  BY <1>4, <1>5, <1>6 DEF BaseInv

(* Publishers expire and are removed, subscriptions are created. *)
LEMMA BaseLife ==
  ASSUME BaseInv, NEW e \in Publishers \cup Subs,
         \/ e \in Publishers /\ (ExpirePublisher(e) \/ remove_publisher(e))
         \/ e \in Subs /\ CreateSubscription(e)
  PROVE  BaseInv'
<1> USE IntraProcessManagerAssumption
<1>1. TypeOK'
  BY TypesOfLife DEF BaseInv
<1>2. CASE e \in Publishers /\ ExpirePublisher(e)
  BY <1>1, <1>2 DEF ExpirePublisher, BaseInv, CallInv, ListsInv, TypeOK
<1>3. CASE e \in Publishers /\ remove_publisher(e)
  <2>1. CallInv'
    BY <1>3 DEF remove_publisher, BaseInv, CallInv, TypeOK
  <2>2. ListsInv'
    BY <1>3, NoListsFacts DEF remove_publisher, NoLists, BaseInv, ListsInv, TypeOK
  <2>3. QED
    BY <1>1, <2>1, <2>2 DEF BaseInv
<1>4. CASE e \in Subs /\ CreateSubscription(e)
  BY <1>1, <1>4 DEF CreateSubscription, BaseInv, CallInv, ListsInv, TypeOK
<1>5. QED
  BY <1>2, <1>3, <1>4

(* The steps of publish(), which leave the lists alone. *)
LEMMA BasePublish ==
  ASSUME BaseInv, NEW p \in Publishers,
         CountAll(p) \/ CountIntra(p) \/ BeginStore(p) \/ Store(p) \/ EndStore(p) \/ Send(p)
  PROVE  BaseInv'
<1> USE IntraProcessManagerAssumption
<1>0. call \in [Publishers -> CallType] /\ call[p] \in CallType
  BY DEF BaseInv, TypeOK, CallType
<1>1. ListsInv'
  BY DEF BaseInv, ListsInv, CountAll, CountIntra, BeginStore, Store, EndStore, Send
<1>2. CASE CountAll(p)
  <2>1. PICK seen \in SUBSET Discoverable(p) :
          call' = [call EXCEPT ![p].at = "count", ![p].seen = seen]
    BY <1>2 DEF CountAll
  <2>2. seen \in SUBSET (Subs \cup Remotes)
    BY DEF Discoverable
  <2>3. /\ sent[p] < MaxSent /\ sent' = [sent EXCEPT ![p] = @ + 1]
        /\ UNCHANGED <<life, publishers_, subscriptions_, pub_to_subs_, stored, samples, taken>>
        /\ call[p].at = "idle" /\ sent \in [Publishers -> 0..MaxSent]
    BY <1>2 DEF CountAll, BaseInv, TypeOK
  <2>4. call' = [call EXCEPT ![p] = [call[p] EXCEPT !.at = "count", !.seen = seen]]
    BY <2>1
  <2>5. call' \in [Publishers -> CallType]
    <3>1. [call[p] EXCEPT !.at = "count", !.seen = seen] \in CallType
      BY <1>0, <2>2 DEF CallType
    <3>2. QED
      BY <1>0, <2>4, <3>1
  <2>6. sent' \in [Publishers -> 0..MaxSent] /\ sent'[p] >= 1
    BY <2>3
  <2>7. TypeOK'
    BY <2>3, <2>5, <2>6 DEF BaseInv, TypeOK, CallType
  <2>8. CallInv'
    BY <2>3, <2>4, <2>6 DEF BaseInv, TypeOK, CallInv
  <2>9. QED
    BY <1>1, <2>7, <2>8 DEF BaseInv
<1>3. CASE CountIntra(p)
  <2>0. call' \in [Publishers -> CallType]
    <3> DEFINE inter == Cardinality(call[p].seen) > Intra(p)
    <3>1. call' = [call EXCEPT ![p] = [call[p] EXCEPT !.at = "counted", !.inter = inter]]
      BY <1>0, <1>3 DEF CountIntra
    <3>2. inter \in BOOLEAN
      OBVIOUS
    <3> HIDE DEF inter
    <3>3. [call[p] EXCEPT !.at = "counted", !.inter = inter] \in CallType
      BY <1>0, <3>2 DEF CallType
    <3>4. QED
      BY <1>0, <3>1, <3>3
  <2>1. TypeOK'
    BY <1>3, <2>0 DEF CountIntra, BaseInv, TypeOK, CallType
  <2>2. CallInv'
    BY <1>3 DEF CountIntra, BaseInv, TypeOK, CallInv
  <2>3. QED
    BY <1>1, <2>1, <2>2 DEF BaseInv
<1>4. CASE BeginStore(p)
  <2>1. /\ call[p].at = "counted" /\ call'[p].at = "store"
        /\ \A q \in Publishers \ {p} : call'[q] = call[q]
    BY <1>4, BeginStoreFacts DEF BaseInv
  <2>2. UNCHANGED <<life, publishers_, subscriptions_, pub_to_subs_, sent, stored, samples, taken>>
    BY <1>4 DEF BeginStore
  <2>3. TypeOK'
    BY <1>4, <2>2, BeginStoreFacts DEF BaseInv, TypeOK
  <2>4. CallInv'
    BY <2>1, <2>2 DEF BaseInv, CallInv
  <2>5. QED
    BY <1>1, <2>3, <2>4 DEF BaseInv
<1>5. CASE Store(p)
  <2> DEFINE left == call[p].left
  <2>1. left \in Seq(Subs \X Objects) /\ left # <<>>
    BY <1>5 DEF Store, BaseInv, TypeOK
  <2>2. Head(left) \in Subs \X Objects /\ Tail(left) \in Seq(Subs \X Objects)
    BY <2>1, HeadTailProperties
  <2> DEFINE s == Head(left)[1]
             o == Head(left)[2]
  <2>3. s \in Subs /\ o \in Objects
    BY <2>2
  <2>4. /\ stored' = [stored EXCEPT ![s] = Append(@, o)]
        /\ call' = [call EXCEPT ![p].left = Tail(left)] /\ call[p].at = "store"
        /\ UNCHANGED <<life, publishers_, subscriptions_, pub_to_subs_, sent, samples, taken>>
    BY <1>5 DEF Store, BaseInv, TypeOK
  <2> HIDE DEF s, o
  <2>5. Append(stored[s], o) \in Seq(Objects)
    BY <2>3, AppendProperties DEF BaseInv, TypeOK
  <2>6. TypeOK'
    <3>1. call' \in [Publishers -> CallType]
      <4>1. [call[p] EXCEPT !.left = Tail(left)] \in CallType
        BY <1>0, <2>2 DEF CallType
      <4>2. call' = [call EXCEPT ![p] = [call[p] EXCEPT !.left = Tail(left)]]
        BY <1>0, <2>4
      <4>3. QED
        BY <1>0, <4>1, <4>2
    <3>2. stored' \in [Subs -> Seq(Objects)]
      BY <2>3, <2>4, <2>5 DEF BaseInv, TypeOK
    <3>3. QED
      BY <2>4, <3>1, <3>2 DEF BaseInv, TypeOK, CallType
  <2>7. CallInv'
    BY <2>4 DEF BaseInv, TypeOK, CallInv
  <2>8. QED
    BY <1>1, <2>6, <2>7 DEF BaseInv
<1>6. CASE EndStore(p)
  <2>0. call' \in [Publishers -> CallType]
    <3>1. Resting \in CallType
      BY EmptySeq DEF Resting, CallType
    <3>2. [call[p] EXCEPT !.at = "send"] \in CallType
      BY <1>0 DEF CallType
    <3>3. QED
      BY <1>0, <1>6, <3>1, <3>2 DEF EndStore, BaseInv, TypeOK, CallType
  <2>1. TypeOK'
    BY <1>6, <2>0 DEF EndStore, BaseInv, TypeOK, CallType
  <2>2. CallInv'
    BY <1>6 DEF EndStore, Resting, BaseInv, TypeOK, CallInv
  <2>3. QED
    BY <1>1, <2>1, <2>2 DEF BaseInv
<1>7. CASE Send(p)
  <2>1. PICK to \in SUBSET Subs :
          samples' = [s \in Subs |->
            IF s \in to THEN samples[s] \cup {<<p, sent[p]>>} ELSE samples[s]]
    BY <1>7 DEF Send
  <2>2. /\ call' = [call EXCEPT ![p] = Resting] /\ call[p].at = "send"
        /\ UNCHANGED <<life, publishers_, subscriptions_, pub_to_subs_, sent, stored, taken>>
    BY <1>7 DEF Send
  <2>3. sent[p] \in 1..MaxSent
    BY <2>2 DEF BaseInv, TypeOK, CallInv
  <2>4. samples' \in [Subs -> SUBSET (Publishers \X (1..MaxSent))]
    BY <2>1, <2>3 DEF BaseInv, TypeOK
  <2>5. TypeOK'
    BY <2>2, <2>4, EmptySeq DEF Resting, BaseInv, TypeOK
  <2>6. CallInv'
    BY <2>2 DEF Resting, BaseInv, TypeOK, CallInv
  <2>7. QED
    BY <1>1, <2>5, <2>6 DEF BaseInv
<1>8. QED
  BY <1>2, <1>3, <1>4, <1>5, <1>6, <1>7

LEMMA BaseTake ==
  ASSUME BaseInv, NEW s \in Subs, TakeSample(s)
  PROVE  BaseInv'
<1>1. PICK m \in samples[s] :
        /\ samples' = [samples EXCEPT ![s] = @ \ {m}]
        /\ taken' = [taken EXCEPT ![s] =
             IF matches_any_publishers(m[1]) THEN @ ELSE @ \cup {m}]
  BY DEF TakeSample
<1>2. UNCHANGED <<life, publishers_, subscriptions_, pub_to_subs_, sent, call, stored>>
  BY DEF TakeSample
<1>3. m \in Publishers \X (1..MaxSent)
  BY DEF BaseInv, TypeOK
<1>4. TypeOK'
  BY <1>1, <1>2, <1>3 DEF BaseInv, TypeOK
<1>5. QED
  BY <1>2, <1>4 DEF BaseInv, CallInv, ListsInv

LEMMA BaseStutter ==
  ASSUME BaseInv, UNCHANGED vars
  PROVE  BaseInv'
BY DEF vars, BaseInv, TypeOK, CallInv, ListsInv

LEMMA BaseNext == BaseInv /\ [Next]_vars => BaseInv'
BY BaseAddPublisher, BaseAddSubscription, BaseRemoveSubscription, BaseLife, BasePublish,
   BaseTake, BaseStutter DEF Next

(* Every variable has its type: the lists of a publisher hold only         *)
(* subscriptions that share and only such that own, and nothing but        *)
(* messages that were published is stored or sent (intra_process_manager). *)
THEOREM TypeCorrect == Spec => []TypeOK
<1>1. BaseInv => TypeOK
  BY DEF BaseInv
<1>2. QED
  BY BaseInit, BaseNext, <1>1, PTL DEF Spec

-----------------------------------------------------------------------------
(* Who owns an object.                                                     *)

(* What publish() has left to store: the message of the publication under  *)
(* way, once for every receiver, in an object of its own for a receiver    *)
(* that owns, which is not the object that is kept for the middleware.     *)
Fresh(p, n, left, kept) ==
  /\ \A i \in DOMAIN left : left[i][2].from = p /\ left[i][2].n = n
  /\ \A i, j \in DOMAIN left : left[i][1] = left[j][1] => i = j
  /\ \A i \in DOMAIN left : left[i][1] \notin Sharing =>
       /\ left[i][2].copy # kept
       /\ \A j \in DOMAIN left : left[i][2] = left[j][2] => i = j

LEMMA Joined ==
  ASSUME NEW S, NEW a \in Seq(S), NEW b \in Seq(S), Distinct(a), Distinct(b),
         Listed(a) \cap Listed(b) = {}
  PROVE  /\ a \o b \in Seq(S) /\ Distinct(a \o b) /\ Listed(a \o b) = Listed(a) \cup Listed(b)
<1> DEFINE r == a \o b
<1>1. PICK m \in Nat : m = Len(a) /\ DOMAIN a = 1..m
  BY LenProperties
<1>2. PICK n \in Nat : n = Len(b) /\ DOMAIN b = 1..n
  BY LenProperties
<1>3. /\ r \in Seq(S) /\ DOMAIN r = 1..(m + n)
      /\ \A i \in 1..(m + n) : r[i] = IF i <= m THEN a[i] ELSE b[i - m]
  BY <1>1, <1>2, ConcatProperties, LenProperties
<1> HIDE DEF r
<1>4. \A i \in 1..m : \A j \in 1..n : a[i] # b[j]
  BY <1>1, <1>2 DEF Listed
<1>5. \A i \in 1..(m + n) : ~(i <= m) => i - m \in 1..n
  BY <1>1, <1>2
<1>6. Distinct(r)
  <2> SUFFICES ASSUME NEW i \in 1..(m + n), NEW j \in 1..(m + n), r[i] = r[j]
               PROVE  i = j
    BY <1>3 DEF Distinct
  <2>1. CASE i <= m /\ j <= m
    BY <1>1, <1>3, <2>1 DEF Distinct
  <2>2. CASE ~(i <= m) /\ ~(j <= m)
    <3>1. i - m = j - m
      BY <1>2, <1>3, <1>5, <2>2 DEF Distinct
    <3>2. QED
      BY <1>1, <3>1
  <2>3. QED
    BY <1>1, <1>3, <1>4, <1>5, <2>1, <2>2
<1>7. ASSUME NEW x \in Listed(r) PROVE x \in Listed(a) \cup Listed(b)
  <2>1. PICK i \in 1..(m + n) : x = r[i]
    BY <1>3, <1>7 DEF Listed
  <2>2. CASE i <= m
    <3>1. i \in 1..m /\ x = a[i]
      BY <1>3, <2>1, <2>2
    <3>2. QED
      BY <1>1, <3>1 DEF Listed
  <2>3. CASE ~(i <= m)
    <3>1. i - m \in 1..n /\ x = b[i - m]
      BY <1>3, <1>5, <2>1, <2>3
    <3>2. QED
      BY <1>2, <3>1 DEF Listed
  <2>4. QED
    BY <2>2, <2>3
<1>8. ASSUME NEW x \in Listed(a) PROVE x \in Listed(r)
  <2>1. PICK i \in 1..m : x = a[i]
    BY <1>1, <1>8 DEF Listed
  <2>2. i \in 1..(m + n) /\ i <= m
    BY <1>1, <1>2
  <2>3. QED
    BY <1>3, <2>1, <2>2 DEF Listed
<1>9. ASSUME NEW x \in Listed(b) PROVE x \in Listed(r)
  <2>1. PICK i \in 1..n : x = b[i]
    BY <1>2, <1>9 DEF Listed
  <2>2. i + m \in 1..(m + n) /\ ~(i + m <= m) /\ (i + m) - m = i
    BY <1>1, <1>2
  <2>3. r[i + m] = x
    BY <1>3, <2>1, <2>2
  <2>4. QED
    BY <1>3, <2>2, <2>3 DEF Listed
<1>10. QED
  BY <1>3, <1>6, <1>7, <1>8, <1>9 DEF r

(* The branches of do_intra_process_publish. *)
LEMMA SharedFresh ==
  ASSUME TypeOK, NEW p \in Publishers, sent[p] >= 1, NEW kept,
         NEW ids \in Seq(Sharing), Distinct(ids), NEW left, left = ToShared(p, "message", ids)
  PROVE  Fresh(p, sent[p], left, kept) /\ Receivers(left) = Listed(ids)
<1>1. ids \in Seq(Subs) /\ DOMAIN ids = 1..Len(ids) /\ \A i \in 1..Len(ids) : ids[i] \in Sharing
  BY SeqMonotonic, LenProperties, ElementOfSeq, IntraProcessManagerAssumption
<1>2. DOMAIN left = DOMAIN ids /\ \A i \in DOMAIN ids : left[i] = <<ids[i], Object(p, "message")>>
  BY DEF ToShared
<1>3. \A i \in DOMAIN ids : /\ left[i][1] = ids[i] /\ left[i][1] \in Sharing
                            /\ left[i][2].from = p /\ left[i][2].n = sent[p]
  BY <1>1, <1>2 DEF Object
<1>4. Fresh(p, sent[p], left, kept)
  BY <1>2, <1>3 DEF Fresh, Distinct
<1>5. QED
  BY <1>2, <1>3, <1>4 DEF Receivers, Listed

LEMMA OwnedFresh ==
  ASSUME TypeOK, NEW p \in Publishers, sent[p] >= 1,
         NEW ids \in Seq(Subs), Distinct(ids), NEW left, left = ToOwned(p, ids)
  PROVE  Fresh(p, sent[p], left, "none") /\ Receivers(left) = Listed(ids)
<1>1. DOMAIN ids = 1..Len(ids) /\ \A i \in 1..Len(ids) : ids[i] \in Subs
  BY LenProperties, ElementOfSeq
<1>2. /\ DOMAIN left = DOMAIN ids
      /\ \A i \in DOMAIN ids : /\ left[i][1] = ids[i]
                               /\ left[i][2].from = p /\ left[i][2].n = sent[p]
                               /\ left[i][2].copy = IF i = Len(ids) THEN "message" ELSE ids[i]
  BY DEF ToOwned, Object
<1>3. \A i \in DOMAIN ids : ids[i] # "message" /\ ids[i] # "none"
  BY <1>1, IntraProcessManagerAssumption
<1>4. \A i, j \in DOMAIN left : left[i][2] = left[j][2] => i = j
  BY <1>2, <1>3 DEF Distinct
<1>5. QED
  BY <1>1, <1>2, <1>3, <1>4 DEF Fresh, Receivers, Listed, Distinct

LEMMA BothFresh ==
  ASSUME TypeOK, NEW p \in Publishers, sent[p] >= 1, NEW kept \in {"none", "shared_msg"},
         NEW shared \in Seq(Sharing), Distinct(shared),
         NEW owned \in Seq(Subs \ Sharing), Distinct(owned)
  PROVE  /\ Fresh(p, sent[p], ToShared(p, "shared_msg", shared) \o ToOwned(p, owned), kept)
         /\ Receivers(ToShared(p, "shared_msg", shared) \o ToOwned(p, owned))
              = Listed(shared) \cup Listed(owned)
<1> USE IntraProcessManagerAssumption
<1> DEFINE a == ToShared(p, "shared_msg", shared)
           b == ToOwned(p, owned)
           left == a \o b
<1>1. shared \in Seq(Subs) /\ owned \in Seq(Subs)
  BY SeqMonotonic
<1>2. PICK m \in Nat : m = Len(shared) /\ DOMAIN shared = 1..m /\ \A i \in 1..m : shared[i] \in Sharing
  BY LenProperties, ElementOfSeq
<1>3. PICK n \in Nat : n = Len(owned) /\ DOMAIN owned = 1..n /\ \A i \in 1..n : owned[i] \in Subs \ Sharing
  BY LenProperties, ElementOfSeq
<1>4. /\ a \in Seq(Subs \X Objects) /\ Len(a) = m
      /\ \A i \in 1..m : a[i] = <<shared[i], Object(p, "shared_msg")>>
  BY <1>1, <1>2, SharedEntries
<1>5. /\ b \in Seq(Subs \X Objects) /\ Len(b) = n
      /\ \A i \in 1..n : b[i] = <<owned[i], Object(p, IF i = n THEN "message" ELSE owned[i])>>
  BY <1>1, <1>3, OwnedEntries
<1> HIDE DEF a, b
<1>6. /\ DOMAIN left = 1..(m + n)
      /\ \A i \in 1..(m + n) : left[i] = IF i <= m THEN a[i] ELSE b[i - m]
  <2>1. left \in Seq(Subs \X Objects) /\ Len(left) = m + n
    BY <1>4, <1>5, ConcatProperties
  <2>2. \A i \in 1..(m + n) : left[i] = IF i <= m THEN a[i] ELSE b[i - m]
    BY <1>4, <1>5, ConcatProperties
  <2> HIDE DEF left
  <2>3. QED
    BY <2>1, <2>2, LenProperties
<1> HIDE DEF left
<1>7. \A i \in 1..(m + n) : IF i <= m THEN i \in 1..m ELSE i - m \in 1..n
  BY <1>2, <1>3
<1>8. \A i \in 1..(m + n) :
        IF i <= m
          THEN /\ left[i][1] = shared[i] /\ left[i][1] \in Sharing
               /\ left[i][2].from = p /\ left[i][2].n = sent[p] /\ left[i][2].copy = "shared_msg"
          ELSE /\ left[i][1] = owned[i - m] /\ left[i][1] \in Subs \ Sharing
               /\ left[i][2].from = p /\ left[i][2].n = sent[p]
               /\ left[i][2].copy = IF i - m = n THEN "message" ELSE owned[i - m]
  <2>1. \A i \in 1..m : /\ a[i][1] = shared[i] /\ a[i][1] \in Sharing
                        /\ a[i][2].from = p /\ a[i][2].n = sent[p] /\ a[i][2].copy = "shared_msg"
    BY <1>2, <1>4 DEF Object
  <2>2. \A i \in 1..n : /\ b[i][1] = owned[i] /\ b[i][1] \in Subs \ Sharing
                        /\ b[i][2].from = p /\ b[i][2].n = sent[p]
                        /\ b[i][2].copy = IF i = n THEN "message" ELSE owned[i]
    <3>1. \A c : Object(p, c).from = p /\ Object(p, c).n = sent[p] /\ Object(p, c).copy = c
      BY DEF Object
    <3> SUFFICES ASSUME NEW i \in 1..n
                 PROVE  /\ b[i][1] = owned[i] /\ b[i][1] \in Subs \ Sharing
                        /\ b[i][2].from = p /\ b[i][2].n = sent[p]
                        /\ b[i][2].copy = IF i = n THEN "message" ELSE owned[i]
      OBVIOUS
    <3> DEFINE c == IF i = n THEN "message" ELSE owned[i]
    <3>2. b[i] = <<owned[i], Object(p, c)>>
      BY <1>5
    <3> HIDE DEF c
    <3>3. b[i][1] = owned[i] /\ b[i][2] = Object(p, c)
      BY <3>2
    <3>4. QED
      BY <1>3, <3>1, <3>3 DEF c
  <2> SUFFICES ASSUME NEW i \in 1..(m + n)
               PROVE  IF i <= m
          THEN /\ left[i][1] = shared[i] /\ left[i][1] \in Sharing
               /\ left[i][2].from = p /\ left[i][2].n = sent[p] /\ left[i][2].copy = "shared_msg"
          ELSE /\ left[i][1] = owned[i - m] /\ left[i][1] \in Subs \ Sharing
               /\ left[i][2].from = p /\ left[i][2].n = sent[p]
               /\ left[i][2].copy = IF i - m = n THEN "message" ELSE owned[i - m]
    OBVIOUS
  <2>3. CASE i <= m
    <3>1. i \in 1..m /\ left[i] = a[i]
      BY <1>6, <1>7, <2>3
    <3>2. QED
      BY <2>1, <2>3, <3>1
  <2>4. CASE ~(i <= m)
    <3>1. i - m \in 1..n /\ left[i] = b[i - m]
      BY <1>6, <1>7, <2>4
    <3>2. QED
      BY <2>2, <2>4, <3>1
  <2>5. QED
    BY <2>3, <2>4
<1>9. \A i, j \in 1..(m + n) : left[i][1] = left[j][1] => i = j
  <2> SUFFICES ASSUME NEW i \in 1..(m + n), NEW j \in 1..(m + n), left[i][1] = left[j][1]
               PROVE  i = j
    OBVIOUS
  <2>1. CASE i <= m /\ j <= m
    <3>1. i \in DOMAIN shared /\ j \in DOMAIN shared /\ shared[i] = shared[j]
      BY <1>2, <1>7, <1>8, <2>1
    <3>2. QED
      BY <3>1 DEF Distinct
  <2>2. CASE ~(i <= m) /\ ~(j <= m)
    <3>1. i - m \in DOMAIN owned /\ j - m \in DOMAIN owned /\ owned[i - m] = owned[j - m]
      BY <1>3, <1>7, <1>8, <2>2
    <3>2. i - m = j - m
      BY <3>1 DEF Distinct
    <3>3. QED
      BY <1>2, <3>2
  <2>3. QED
    BY <1>8, <2>1, <2>2
<1>10. ASSUME NEW i \in 1..(m + n), left[i][1] \notin Sharing
       PROVE  /\ left[i][2].copy # kept
              /\ \A j \in 1..(m + n) : left[i][2] = left[j][2] => i = j
  <2>1. ~(i <= m) /\ i - m \in 1..n /\ left[i][2].copy \notin {"shared_msg", "none"}
    BY <1>3, <1>7, <1>8, <1>10
  <2>2. ASSUME NEW j \in 1..(m + n), left[i][2] = left[j][2] PROVE i = j
    <3>1. ~(j <= m) /\ j - m \in 1..n
      BY <1>7, <1>8, <2>1, <2>2
    <3>2. owned[i - m] # "message" /\ owned[j - m] # "message"
      BY <1>3, <2>1, <3>1
    <3>3. /\ left[i][2].copy = IF i - m = n THEN "message" ELSE owned[i - m]
          /\ left[j][2].copy = IF j - m = n THEN "message" ELSE owned[j - m]
      BY <1>8, <2>1, <3>1
    <3>4. i - m = j - m \/ owned[i - m] = owned[j - m]
      BY <2>2, <3>2, <3>3
    <3>5. i - m = j - m
      BY <1>3, <2>1, <3>1, <3>4 DEF Distinct
    <3>6. QED
      BY <1>2, <3>5
  <2>3. QED
    BY <2>1, <2>2
<1>11. Fresh(p, sent[p], left, kept)
  BY <1>6, <1>8, <1>9, <1>10 DEF Fresh
<1>12. ASSUME NEW x \in Receivers(left) PROVE x \in Listed(shared) \cup Listed(owned)
  <2>1. PICK i \in 1..(m + n) : x = left[i][1]
    BY <1>6, <1>12 DEF Receivers
  <2>2. CASE i <= m
    BY <1>2, <1>7, <1>8, <2>1, <2>2 DEF Listed
  <2>3. CASE ~(i <= m)
    BY <1>3, <1>7, <1>8, <2>1, <2>3 DEF Listed
  <2>4. QED
    BY <2>2, <2>3
<1>13. ASSUME NEW x \in Listed(shared) PROVE x \in Receivers(left)
  <2>1. PICK i \in 1..m : x = shared[i]
    BY <1>2, <1>13 DEF Listed
  <2>2. i \in 1..(m + n) /\ i <= m
    BY <1>2, <1>3
  <2>3. QED
    BY <1>6, <1>8, <2>1, <2>2 DEF Receivers
<1>14. ASSUME NEW x \in Listed(owned) PROVE x \in Receivers(left)
  <2>1. PICK i \in 1..n : x = owned[i]
    BY <1>3, <1>14 DEF Listed
  <2>2. i + m \in 1..(m + n) /\ ~(i + m <= m) /\ (i + m) - m = i
    BY <1>2, <1>3
  <2>3. left[i + m][1] = x
    BY <1>8, <2>1, <2>2
  <2>4. QED
    BY <1>6, <2>2, <2>3 DEF Receivers
<1>15. QED
  BY <1>11, <1>12, <1>13, <1>14 DEF left, a, b

(* What is left to store when mutex_ is taken, and for whom. *)
LEMMA Begun ==
  ASSUME BaseInv, NEW p \in Publishers, BeginStore(p)
  PROVE  /\ Fresh(p, sent[p], call'[p].left, call'[p].kept)
         /\ Receivers(call'[p].left) =
              Listed(pub_to_subs_[p].shared) \cup Listed(pub_to_subs_[p].owned)
<1> USE IntraProcessManagerAssumption
<1> DEFINE shared == pub_to_subs_[p].shared
           owned == pub_to_subs_[p].owned
<1>1. /\ shared \in Seq(Sharing) /\ Distinct(shared)
      /\ owned \in Seq(Subs \ Sharing) /\ Distinct(owned)
  BY DEF BaseInv, TypeOK, ListsInv
<1>2. TypeOK /\ sent[p] >= 1 /\ call[p].kept = "none"
  BY DEF BaseInv, CallInv, BeginStore
<1>3. call \in [Publishers -> CallType]
  BY <1>2 DEF TypeOK, CallType
<1> HIDE DEF shared, owned
<1>4. CASE StoreShared(p, pub_to_subs_[p])
  <2> DEFINE left == ToShared(p, "message", shared)
             kept == IF call[p].inter THEN "message" ELSE "none"
  <2>1. owned = <<>> /\ call' = [call EXCEPT ![p].at = "store", ![p].left = left, ![p].kept = kept]
    BY <1>4 DEF StoreShared, shared, owned
  <2>2. Fresh(p, sent[p], left, kept) /\ Receivers(left) = Listed(shared)
    BY <1>1, <1>2, SharedFresh
  <2> HIDE DEF left, kept
  <2>3. call'[p].left = left /\ call'[p].kept = kept
    BY <1>3, <2>1 DEF CallType
  <2>4. QED
    BY <2>1, <2>2, <2>3, NoListsFacts DEF shared, owned
<1>5. CASE StoreOwned(p, pub_to_subs_[p])
  <2> DEFINE ids == shared \o owned
             left == ToOwned(p, ids)
  <2>1. call' = [call EXCEPT ![p].at = "store", ![p].left = left]
    BY <1>5 DEF StoreOwned, shared, owned
  <2>2. ids \in Seq(Subs) /\ Distinct(ids) /\ Listed(ids) = Listed(shared) \cup Listed(owned)
    <3>1. shared \in Seq(Subs) /\ owned \in Seq(Subs)
      BY <1>1, SeqMonotonic
    <3>2. Listed(shared) \subseteq Sharing /\ Listed(owned) \cap Sharing = {}
      BY <1>1, LenProperties, ElementOfSeq DEF Listed
    <3>3. QED
      BY <1>1, <3>1, <3>2, Joined
  <2> HIDE DEF ids
  <2>3. Fresh(p, sent[p], left, "none") /\ Receivers(left) = Listed(ids)
    BY <1>2, <2>2, OwnedFresh
  <2> HIDE DEF left
  <2>4. call'[p].left = left /\ call'[p].kept = "none"
    BY <1>2, <1>3, <2>1 DEF CallType
  <2>5. QED
    BY <2>2, <2>3, <2>4 DEF shared, owned
<1>6. CASE StoreBoth(p, pub_to_subs_[p])
  <2> DEFINE left == ToShared(p, "shared_msg", shared) \o ToOwned(p, owned)
             kept == IF call[p].inter THEN "shared_msg" ELSE "none"
  <2>1. call' = [call EXCEPT ![p].at = "store", ![p].left = left, ![p].kept = kept]
    BY <1>6 DEF StoreBoth, shared, owned
  <2>0. kept \in {"none", "shared_msg"}
    OBVIOUS
  <2> HIDE DEF kept
  <2>2. Fresh(p, sent[p], left, kept) /\ Receivers(left) = Listed(shared) \cup Listed(owned)
    BY <1>1, <1>2, <2>0, BothFresh
  <2> HIDE DEF left
  <2>3. call'[p].left = left /\ call'[p].kept = kept
    BY <1>3, <2>1 DEF CallType
  <2>4. QED
    BY <2>2, <2>3 DEF shared, owned
<1>7. QED
  BY <1>4, <1>5, <1>6 DEF BeginStore

(* A message that is stored was published, and before the publication that *)
(* has not begun to store; and what is left to store for an owner, or is   *)
(* stored for one, is not both.                                            *)
StoredBefore ==
  \A s \in Subs : \A i \in DOMAIN stored[s] :
    LET o == stored[s][i]
    IN  /\ o.n <= sent[o.from]
        /\ call[o.from].at \in {"count", "counted"} => o.n < sent[o.from]

LeftFresh == \A p \in Publishers : Fresh(p, sent[p], call[p].left, call[p].kept)

LeftNotStored ==
  \A p \in Publishers : \A i \in DOMAIN call[p].left :
    \A s \in Subs : \A j \in DOMAIN stored[s] :
      (call[p].left[i][1] \notin Sharing \/ s \notin Sharing) => stored[s][j] # call[p].left[i][2]

OwnInv == BaseInv /\ StoredBefore /\ LeftFresh /\ LeftNotStored /\ OwnedAlone

LEMMA OwnInit == Init => OwnInv
<1> SUFFICES ASSUME Init PROVE OwnInv
  OBVIOUS
<1>1. BaseInv
  BY BaseInit
<1>2. (\A s \in Subs : DOMAIN stored[s] = {}) /\ (\A p \in Publishers : DOMAIN call[p].left = {})
  BY DEF Init, Resting
<1>3. QED
  BY <1>1, <1>2 DEF OwnInv, StoredBefore, LeftFresh, Fresh, LeftNotStored, OwnedAlone

LEMMA StoredTyped ==
  ASSUME TypeOK, NEW s \in Subs, NEW i \in DOMAIN stored[s]
  PROVE  /\ stored[s][i].from \in Publishers /\ stored[s][i].n \in 1..MaxSent
         /\ stored[s][i].copy # "none"
<1>1. stored[s] \in Seq(Objects)
  BY DEF TypeOK
<1>2. stored[s][i] \in Objects
  BY <1>1, LenProperties, ElementOfSeq
<1>3. "none" \notin Copies
  BY IntraProcessManagerAssumption DEF Copies
<1>4. QED
  BY <1>2, <1>3 DEF Objects

(* What comes and goes while nothing is published. *)
LEMMA OwnUnchanged ==
  ASSUME OwnInv, BaseInv', UNCHANGED <<sent, call, stored>>
  PROVE  OwnInv'
BY DEF OwnInv, StoredBefore, LeftFresh, Fresh, LeftNotStored, OwnedAlone

(* Steps of publish() that have nothing left to store. *)
LEMMA OwnNothingLeft ==
  ASSUME OwnInv, BaseInv', StoredBefore', NEW p \in Publishers, stored' = stored,
         \A q \in Publishers \ {p} : call'[q] = call[q] /\ sent'[q] = sent[q],
         call'[p].left = <<>>, call'[p].kept \in {call[p].kept, "none"},
         sent'[p] = sent[p] \/ call'[p].at = "count"
  PROVE  OwnInv'
<1>1. LeftFresh'
  BY DEF OwnInv, LeftFresh, Fresh
<1>2. LeftNotStored'
  BY DEF OwnInv, LeftNotStored
<1>3. OwnedAlone'
  <2> SUFFICES ASSUME NEW s \in Subs \ Sharing, NEW i \in DOMAIN stored[s],
                      stored[s][i].n = sent'[stored[s][i].from]
               PROVE  call'[stored[s][i].from].kept # stored[s][i].copy
    BY DEF OwnInv, OwnedAlone
  <2>1. /\ stored[s][i].from \in Publishers /\ stored[s][i].n \in 1..MaxSent
        /\ stored[s][i].copy # "none"
    BY StoredTyped DEF OwnInv, BaseInv
  <2>2. CASE stored[s][i].from # p
    BY <2>1, <2>2 DEF OwnInv, OwnedAlone
  <2>3. CASE stored[s][i].from = p
    <3>1. call'[p].at # "count"
      BY <2>1, <2>3 DEF StoredBefore
    <3>2. QED
      BY <2>1, <2>3, <3>1 DEF OwnInv, OwnedAlone
  <2>4. QED
    BY <2>2, <2>3
<1>4. QED
  BY <1>1, <1>2, <1>3 DEF OwnInv

LEMMA OwnCount ==
  ASSUME OwnInv, BaseInv', NEW p \in Publishers, CountAll(p) \/ CountIntra(p) \/ EndStore(p) \/ Send(p)
  PROVE  OwnInv'
<1> USE DEF OwnInv
<1>1. call \in [Publishers -> CallType] /\ sent \in [Publishers -> 0..MaxSent] /\ MaxSent \in Nat
  BY IntraProcessManagerAssumption DEF BaseInv, TypeOK, CallType
<1>2. \A s \in Subs : \A i \in DOMAIN stored[s] :
        stored[s][i].from \in Publishers /\ stored[s][i].n \in 1..MaxSent
  BY StoredTyped DEF BaseInv
<1>3. \A q \in Publishers : call[q].at # "store" => call[q].left = <<>>
  BY DEF BaseInv, CallInv
<1>4. CASE CountAll(p)
  <2>1. PICK seen \in SUBSET Discoverable(p) :
          call' = [call EXCEPT ![p].at = "count", ![p].seen = seen]
    BY <1>4 DEF CountAll
  <2>2. /\ \A q \in Publishers \ {p} : call'[q] = call[q] /\ sent'[q] = sent[q]
        /\ sent'[p] = sent[p] + 1 /\ stored' = stored
    BY <1>1, <1>4, <2>1 DEF CountAll
  <2>3. call'[p].left = <<>> /\ call'[p].kept = call[p].kept /\ call'[p].at = "count"
    BY <1>1, <1>3, <1>4, <2>1 DEF CountAll, CallType
  <2>4. StoredBefore'
    BY <1>1, <1>2, <2>2 DEF StoredBefore
  <2>5. QED
    BY <2>2, <2>3, <2>4, OwnNothingLeft
<1>5. CASE CountIntra(p)
  <2>1. /\ \A q \in Publishers \ {p} : call'[q] = call[q] /\ sent'[q] = sent[q]
        /\ sent' = sent /\ stored' = stored /\ call[p].at = "count"
    BY <1>1, <1>5 DEF CountIntra
  <2>2. call'[p].left = <<>> /\ call'[p].kept = call[p].kept
    BY <1>1, <1>3, <1>5 DEF CountIntra, CallType
  <2>3. StoredBefore'
    BY <1>1, <1>2, <2>1 DEF StoredBefore
  <2>4. QED
    BY <2>1, <2>2, <2>3, OwnNothingLeft
<1>6. CASE EndStore(p) \/ Send(p)
  <2>1. /\ \A q \in Publishers \ {p} : call'[q] = call[q] /\ sent'[q] = sent[q]
        /\ sent' = sent /\ stored' = stored
    BY <1>1, <1>6 DEF EndStore, Send
  <2>2. /\ call'[p].left = <<>> /\ call'[p].kept \in {call[p].kept, "none"}
        /\ call'[p].at \in {"send", "idle"}
    <3>1. call'[p] \in {[call[p] EXCEPT !.at = "send"], Resting} /\ call[p].left = <<>>
      BY <1>1, <1>3, <1>6 DEF EndStore, Send
    <3>2. QED
      BY <1>1, <3>1 DEF Resting, CallType
  <2>3. StoredBefore'
    BY <1>1, <1>2, <2>1, <2>2 DEF StoredBefore
  <2>4. QED
    BY <2>1, <2>2, <2>3, OwnNothingLeft
<1>7. QED
  BY <1>4, <1>5, <1>6

LEMMA OwnBegin ==
  ASSUME OwnInv, BaseInv', NEW p \in Publishers, BeginStore(p)
  PROVE  OwnInv'
<1> USE DEF OwnInv
<1>1. /\ call[p].at = "counted" /\ call'[p].at = "store"
      /\ \A q \in Publishers \ {p} : call'[q] = call[q]
  BY BeginStoreFacts DEF BaseInv
<1>2. sent' = sent /\ stored' = stored
  BY DEF BeginStore
<1>3. \A s \in Subs : \A i \in DOMAIN stored[s] :
        stored[s][i].from \in Publishers /\ stored[s][i].n \in 1..MaxSent
  BY StoredTyped DEF BaseInv
<1>4. sent \in [Publishers -> 0..MaxSent] /\ MaxSent \in Nat
  BY IntraProcessManagerAssumption DEF BaseInv, TypeOK
<1>5. \A s \in Subs : \A i \in DOMAIN stored[s] :
        stored[s][i].from = p => stored[s][i].n # sent[p]
  BY <1>1, <1>3, <1>4 DEF StoredBefore
<1>6. Fresh(p, sent[p], call'[p].left, call'[p].kept)
  BY Begun
<1>7. StoredBefore'
  BY <1>1, <1>2, <1>3 DEF StoredBefore
<1>8. LeftFresh'
  BY <1>1, <1>2, <1>6 DEF LeftFresh
<1>9. LeftNotStored'
  BY <1>1, <1>2, <1>5, <1>6 DEF LeftNotStored, Fresh
<1>10. OwnedAlone'
  BY <1>1, <1>2, <1>3, <1>5 DEF OwnedAlone
<1>11. QED
  BY <1>7, <1>8, <1>9, <1>10

LEMMA FreshTail ==
  ASSUME NEW S, NEW left \in Seq(S), left # <<>>, NEW p, NEW n, NEW kept, Fresh(p, n, left, kept)
  PROVE  /\ Fresh(p, n, Tail(left), kept)
         /\ Receivers(Tail(left)) = Receivers(left) \ {left[1][1]}
         /\ \A i \in DOMAIN Tail(left) :
              i + 1 \in DOMAIN left /\ i + 1 # 1 /\ Tail(left)[i] = left[i + 1]
<1>1. PICK m \in Nat : m = Len(left) /\ DOMAIN left = 1..m /\ m # 0
  BY LenProperties, EmptySeq
<1> DEFINE r == Tail(left)
<1>2. DOMAIN r = 1..(m - 1) /\ \A i \in 1..(m - 1) : r[i] = left[i + 1]
  <2>1. r \in Seq(S) /\ Len(r) = m - 1
    BY <1>1, HeadTailProperties
  <2>2. \A i \in 1..(m - 1) : r[i] = left[i + 1]
    BY <1>1, <2>1, HeadTailProperties
  <2> HIDE DEF r
  <2>3. QED
    BY <2>1, <2>2, LenProperties
<1> HIDE DEF r
<1>3. \A i \in DOMAIN r : i \in Nat /\ i + 1 \in DOMAIN left /\ i + 1 # 1 /\ r[i] = left[i + 1]
  BY <1>1, <1>2
<1>4. \A i, j \in DOMAIN r : i + 1 = j + 1 => i = j
  BY <1>3
<1>5. Fresh(p, n, r, kept)
  <2>1. \A i \in DOMAIN r : r[i][2].from = p /\ r[i][2].n = n
    BY <1>3 DEF Fresh
  <2>2. \A i, j \in DOMAIN r : r[i][1] = r[j][1] => i = j
    BY <1>3, <1>4 DEF Fresh
  <2>3. \A i \in DOMAIN r : r[i][1] \notin Sharing =>
          /\ r[i][2].copy # kept
          /\ \A j \in DOMAIN r : r[i][2] = r[j][2] => i = j
    BY <1>3, <1>4 DEF Fresh
  <2>4. QED
    BY <2>1, <2>2, <2>3 DEF Fresh
<1>6. ASSUME NEW x \in Receivers(r) PROVE x \in Receivers(left) \ {left[1][1]}
  <2>1. PICK i \in DOMAIN r : x = r[i][1]
    BY <1>6 DEF Receivers
  <2>2. 1 \in DOMAIN left /\ i + 1 \in DOMAIN left /\ i + 1 # 1 /\ x = left[i + 1][1]
    BY <1>1, <1>3, <2>1
  <2>3. QED
    BY <2>2 DEF Receivers, Fresh
<1>7. ASSUME NEW x \in Receivers(left) \ {left[1][1]} PROVE x \in Receivers(r)
  <2>1. PICK i \in 1..m : x = left[i][1] /\ i # 1
    BY <1>1, <1>7 DEF Receivers
  <2>2. i - 1 \in 1..(m - 1) /\ (i - 1) + 1 = i
    BY <1>1, <2>1
  <2>3. r[i - 1][1] = x
    BY <1>2, <2>1, <2>2
  <2>4. QED
    BY <1>2, <2>2, <2>3 DEF Receivers
<1>8. QED
  BY <1>3, <1>5, <1>6, <1>7 DEF r

(* What Store does, to the call and to what is stored. *)
StoreEffect(p, left, s, o) ==
  /\ call[p].at = "store" /\ left \in Seq(Subs \X Objects) /\ left # <<>>
  /\ 1 \in DOMAIN left /\ left[1] = <<s, o>>
  /\ call'[p].left = Tail(left) /\ call'[p].kept = call[p].kept /\ call'[p].at = call[p].at
  /\ \A q \in Publishers \ {p} : call'[q] = call[q]
  /\ \A u \in Subs \ {s} : stored'[u] = stored[u]
  /\ Len(stored[s]) \in Nat /\ DOMAIN stored[s] = 1..Len(stored[s])
  /\ DOMAIN stored'[s] = 1..(Len(stored[s]) + 1) /\ stored'[s][Len(stored[s]) + 1] = o
  /\ \A i \in DOMAIN stored[s] : stored'[s][i] = stored[s][i]

LEMMA StoreFacts ==
  ASSUME TypeOK, NEW p \in Publishers, Store(p)
  PROVE  \E s \in Subs, o \in Objects : StoreEffect(p, call[p].left, s, o)
<1> DEFINE left == call[p].left
<1>1. call \in [Publishers -> CallType] /\ call[p] \in CallType
  BY DEF TypeOK, CallType
<1>2. left \in Seq(Subs \X Objects) /\ left # <<>> /\ call[p].at = "store"
  BY <1>1 DEF Store, CallType
<1>3. 1 \in DOMAIN left /\ Head(left) = left[1] /\ left[1] \in Subs \X Objects
  <2>1. Len(left) \in Nat \ {0} /\ DOMAIN left = 1..Len(left)
    BY <1>2, EmptySeq, LenProperties
  <2>2. QED
    BY <1>2, <2>1, HeadTailProperties, ElementOfSeq
<1>4. PICK s \in Subs, o \in Objects : left[1] = <<s, o>>
  BY <1>3
<1>5. /\ stored' = [stored EXCEPT ![s] = Append(@, o)]
      /\ call' = [call EXCEPT ![p].left = Tail(left)]
  <2>1. Head(left)[1] = s /\ Head(left)[2] = o
    BY <1>3, <1>4
  <2>2. /\ stored' = [stored EXCEPT ![Head(left)[1]] = Append(@, Head(left)[2])]
        /\ call' = [call EXCEPT ![p].left = Tail(@)]
    BY DEF Store
  <2>3. QED
    BY <1>1, <2>1, <2>2
<1>6. stored[s] \in Seq(Objects) /\ stored \in [Subs -> Seq(Objects)]
  BY DEF TypeOK
<1> DEFINE r == Append(stored[s], o)
<1>7. /\ Len(stored[s]) \in Nat /\ DOMAIN stored[s] = 1..Len(stored[s])
      /\ r \in Seq(Objects) /\ Len(r) = Len(stored[s]) + 1
      /\ r[Len(stored[s]) + 1] = o
      /\ \A i \in 1..Len(stored[s]) : r[i] = stored[s][i]
  BY <1>6, AppendProperties, LenProperties
<1>8. stored'[s] = r
  BY <1>5, <1>6
<1> HIDE DEF r
<1>9. DOMAIN r = 1..(Len(stored[s]) + 1)
  BY <1>7, LenProperties
<1> HIDE DEF left
<1>10. /\ call'[p].left = Tail(left) /\ call'[p].kept = call[p].kept
       /\ call'[p].at = call[p].at
       /\ \A q \in Publishers \ {p} : call'[q] = call[q]
  BY <1>1, <1>5 DEF CallType
<1>11. \A u \in Subs \ {s} : stored'[u] = stored[u]
  BY <1>5, <1>6
<1>12. /\ DOMAIN stored'[s] = 1..(Len(stored[s]) + 1) /\ stored'[s][Len(stored[s]) + 1] = o
       /\ \A i \in DOMAIN stored[s] : stored'[s][i] = stored[s][i]
  BY <1>7, <1>8, <1>9
<1>13. QED
  BY <1>2, <1>3, <1>4, <1>7, <1>10, <1>11, <1>12 DEF left, StoreEffect

LEMMA OwnStore ==
  ASSUME OwnInv, BaseInv', NEW p \in Publishers, Store(p)
  PROVE  OwnInv'
<1> USE DEF OwnInv
<1> DEFINE left == call[p].left
<1>1. PICK s \in Subs, o \in Objects : StoreEffect(p, left, s, o)
  BY StoreFacts DEF BaseInv
<1> USE DEF StoreEffect
<1>2. sent' = sent
  BY DEF Store
(* An element stored is one that was, or the new one. *)
<1> DEFINE New(u, i) == u = s /\ i = Len(stored[s]) + 1 /\ stored'[u][i] = o
           Old(u, i) == i \in DOMAIN stored[u] /\ stored'[u][i] = stored[u][i]
<1>3. \A u \in Subs : \A i \in DOMAIN stored'[u] : Old(u, i) \/ New(u, i)
  BY <1>1
<1>4. \A u \in Subs : \A i \in DOMAIN stored[u] :
        stored[u][i].from \in Publishers /\ stored[u][i].n \in 1..MaxSent
  BY StoredTyped DEF BaseInv
<1>5. Fresh(p, sent[p], left, call[p].kept) /\ o.from = p /\ o.n = sent[p]
  BY <1>1 DEF LeftFresh, Fresh
<1>6. /\ Fresh(p, sent[p], Tail(left), call[p].kept)
      /\ \A i \in DOMAIN Tail(left) :
           i + 1 \in DOMAIN left /\ i + 1 # 1 /\ Tail(left)[i] = left[i + 1]
  BY <1>1, <1>5, FreshTail
<1>7. \A u \in Subs : \A i \in DOMAIN stored[u] :
        (s \notin Sharing \/ u \notin Sharing) => stored[u][i] # o
  BY <1>1 DEF LeftNotStored
<1>8. sent[p] \in 0..MaxSent
  BY DEF BaseInv, TypeOK
<1> HIDE DEF left
<1>9. StoredBefore'
  <2> SUFFICES ASSUME NEW u \in Subs, NEW i \in DOMAIN stored'[u]
               PROVE  /\ stored'[u][i].n <= sent[stored'[u][i].from]
                      /\ call'[stored'[u][i].from].at \in {"count", "counted"}
                           => stored'[u][i].n < sent[stored'[u][i].from]
    BY <1>2 DEF StoredBefore
  <2>1. CASE New(u, i)
    BY <1>1, <1>5, <1>8, <2>1
  <2>2. CASE Old(u, i)
    BY <1>1, <1>4, <2>2 DEF StoredBefore
  <2>3. QED
    BY <1>3, <2>1, <2>2
<1>10. LeftFresh'
  BY <1>1, <1>2, <1>6 DEF LeftFresh
<1>11. LeftNotStored'
  <2> SUFFICES ASSUME NEW q \in Publishers, NEW i \in DOMAIN call'[q].left,
                      NEW u \in Subs, NEW j \in DOMAIN stored'[u],
                      call'[q].left[i][1] \notin Sharing \/ u \notin Sharing
               PROVE  stored'[u][j] # call'[q].left[i][2]
    BY DEF LeftNotStored
  <2>1. CASE q = p /\ Old(u, j)
    <3>1. i + 1 \in DOMAIN call[p].left /\ call'[q].left[i] = call[p].left[i + 1]
      BY <1>1, <1>6, <2>1 DEF left
    <3>2. QED
      BY <2>1, <3>1 DEF LeftNotStored
  <2>2. CASE q = p /\ New(u, j)
    <3>1. i + 1 \in DOMAIN left /\ i + 1 # 1 /\ call'[q].left[i] = left[i + 1]
      BY <1>1, <1>6, <2>2
    <3>2. left[1][1] = s /\ left[1][2] = o /\ 1 \in DOMAIN left
      BY <1>1
    <3>3. QED
      BY <1>5, <2>2, <3>1, <3>2 DEF Fresh
  <2>3. CASE q # p /\ Old(u, j)
    BY <1>1, <2>3 DEF LeftNotStored
  <2>4. CASE q # p /\ New(u, j)
    <3>1. call'[q].left[i][2].from = q
      BY <1>1, <2>4 DEF LeftFresh, Fresh
    <3>2. QED
      BY <1>5, <2>4, <3>1
  <2>5. QED
    BY <1>3, <2>1, <2>2, <2>3, <2>4
<1>12. OwnedAlone'
  <2> SUFFICES ASSUME NEW u \in Subs \ Sharing, NEW i \in DOMAIN stored'[u]
               PROVE  /\ \A v \in Subs : \A j \in DOMAIN stored'[v] :
                           stored'[v][j] = stored'[u][i] => <<v, j>> = <<u, i>>
                      /\ stored'[u][i].n = sent[stored'[u][i].from]
                           => call'[stored'[u][i].from].kept # stored'[u][i].copy
    BY <1>2 DEF OwnedAlone
  <2>1. CASE Old(u, i)
    <3>1. ASSUME NEW v \in Subs, NEW j \in DOMAIN stored'[v], stored'[v][j] = stored'[u][i]
          PROVE  <<v, j>> = <<u, i>>
      <4>1. ~New(v, j)
        BY <1>7, <2>1, <3>1
      <4>2. QED
        BY <1>3, <2>1, <3>1, <4>1 DEF OwnedAlone
    <3>2. call'[stored[u][i].from].kept = call[stored[u][i].from].kept
      BY <1>1, <1>4, <2>1
    <3>3. QED
      BY <2>1, <3>1, <3>2 DEF OwnedAlone
  <2>2. CASE New(u, i)
    <3>1. ASSUME NEW v \in Subs, NEW j \in DOMAIN stored'[v], stored'[v][j] = stored'[u][i]
          PROVE  <<v, j>> = <<u, i>>
      <4>1. ~Old(v, j)
        BY <1>7, <2>2, <3>1
      <4>2. QED
        BY <1>3, <2>2, <3>1, <4>1
    <3>2. o.copy # call[p].kept
      BY <1>1, <1>5, <2>2 DEF Fresh
    <3>3. QED
      BY <1>1, <1>5, <2>2, <3>1, <3>2
  <2>3. QED
    BY <1>3, <2>1, <2>2
<1>13. QED
  BY <1>9, <1>10, <1>11, <1>12

LEMMA OwnNext == OwnInv /\ [Next]_vars => OwnInv'
<1> SUFFICES ASSUME OwnInv, [Next]_vars PROVE OwnInv'
  OBVIOUS
<1>1. BaseInv'
  BY BaseNext DEF OwnInv
<1>2. ASSUME NEW p \in Publishers, add_publisher(p) \/ ExpirePublisher(p) \/ remove_publisher(p)
      PROVE  OwnInv'
  BY <1>1, <1>2, OwnUnchanged DEF add_publisher, ExpirePublisher, remove_publisher
<1>3. ASSUME NEW s \in Subs,
             CreateSubscription(s) \/ add_subscription(s) \/ remove_subscription(s) \/ TakeSample(s)
      PROVE  OwnInv'
  BY <1>1, <1>3, OwnUnchanged
  DEF CreateSubscription, add_subscription, remove_subscription, TakeSample
<1>4. CASE UNCHANGED vars
  BY <1>1, <1>4, OwnUnchanged DEF vars
<1>5. QED
  BY <1>1, <1>2, <1>3, <1>4, OwnCount, OwnBegin, OwnStore DEF Next

(* No one else has the object that is stored for a subscription that owns  *)
(* its messages, and the middleware is not given it either                 *)
(* (add_owned_msg_to_buffers, add_shared_msg_to_buffers).                  *)
THEOREM OwnersAlone == Spec => []OwnedAlone
<1>1. OwnInv => OwnedAlone
  BY DEF OwnInv
<1>2. QED
  BY OwnInit, OwnNext, <1>1, PTL DEF Spec

-----------------------------------------------------------------------------
(* The subscriptions of other processes.                                   *)

(* What the manager counts for a live publisher. *)
LEMMA IntraCounts ==
  ASSUME BaseInv, NEW p \in Publishers, life[p] = "live"
  PROVE  LET known == {s \in subscriptions_ : <<p, s>> \in Matches}
         IN  IsFiniteSet(known) /\ Intra(p) = Cardinality(known) /\ Intra(p) \in Nat
<1> DEFINE shared == pub_to_subs_[p].shared
           owned == pub_to_subs_[p].owned
           A == Listed(shared)
           B == Listed(owned)
<1>1. /\ shared \in Seq(Sharing) /\ Distinct(shared)
      /\ owned \in Seq(Subs \ Sharing) /\ Distinct(owned)
      /\ A = {s \in subscriptions_ \cap Sharing : <<p, s>> \in Matches}
      /\ B = {s \in subscriptions_ \ Sharing : <<p, s>> \in Matches}
  BY DEF BaseInv, TypeOK, ListsInv
<1>2. Intra(p) = Len(shared) + Len(owned)
  BY DEF Intra
<1> HIDE DEF shared, owned
<1>3. IsFiniteSet(A) /\ Cardinality(A) = Len(shared) /\ Len(shared) \in Nat
  BY <1>1, Counted
<1>4. IsFiniteSet(B) /\ Cardinality(B) = Len(owned) /\ Len(owned) \in Nat
  BY <1>1, Counted
<1> DEFINE known == {s \in subscriptions_ : <<p, s>> \in Matches}
<1>5. A \cap B = {} /\ A \cup B = known
  BY <1>1
<1> HIDE DEF A, B, known
<1>6. /\ IsFiniteSet(A \cup B)
      /\ Cardinality(A \cup B) = Cardinality(A) + Cardinality(B) - Cardinality(A \cap B)
  BY <1>3, <1>4, FS_Union
<1>7. Cardinality(A \cap B) = 0
  BY <1>5, FS_EmptySet
<1>8. Cardinality(A \cup B) = Len(shared) + Len(owned)
  BY <1>3, <1>4, <1>6, <1>7
<1>9. IsFiniteSet(known) /\ Cardinality(known) = Intra(p)
  BY <1>2, <1>5, <1>6, <1>8
<1>10. Intra(p) \in Nat
  BY <1>2, <1>3, <1>4
<1>11. QED
  BY <1>9, <1>10 DEF known

(* The counts are compared by CountIntra only. *)
LEMMA ComparedByCountIntra ==
  ASSUME TypeOK, [Next]_vars, NEW p \in Publishers, call[p].at = "count", call'[p].at = "counted"
  PROVE  CountIntra(p)
<1> DEFINE Reg(q) == add_publisher(q) \/ ExpirePublisher(q) \/ remove_publisher(q)
           Sub(s) == CreateSubscription(s) \/ add_subscription(s) \/ remove_subscription(s)
                       \/ TakeSample(s)
           Pub(q) == CountAll(q) \/ BeginStore(q) \/ Store(q) \/ EndStore(q) \/ Send(q)
<1>1. call \in [Publishers -> CallType]
  BY DEF TypeOK, CallType
<1>2. call' # call
  OBVIOUS
<1>3. ASSUME NEW q \in Publishers PROVE ~Reg(q)
  BY <1>2 DEF add_publisher, ExpirePublisher, remove_publisher
<1>4. ASSUME NEW s \in Subs PROVE ~Sub(s)
  BY <1>2 DEF CreateSubscription, add_subscription, remove_subscription, TakeSample
<1>5. ASSUME NEW q \in Publishers, q # p, Pub(q) \/ CountIntra(q) PROVE FALSE
  <2>1. call'[p] = call[p]
    BY <1>1, <1>5
    DEF CountAll, CountIntra, BeginStore, StoreShared, StoreOwned, StoreBoth, Store, EndStore, Send
  <2>2. QED
    BY <2>1
<1>6. ~Pub(p)
  <2>1. ~CountAll(p) /\ ~BeginStore(p) /\ ~Store(p) /\ ~EndStore(p) /\ ~Send(p)
    BY DEF CountAll, BeginStore, Store, EndStore, Send
  <2>2. QED
    BY <2>1
<1>7. QED
  BY <1>2, <1>3, <1>4, <1>5, <1>6 DEF Next, vars

LEMMA RemoteCounted ==
  ASSUME BaseInv, DeadInv, [Next]_vars, NEW p \in Publishers,
         call[p].at = "count", call'[p].at = "counted", call[p].seen \cap Remotes # {},
         {s \in subscriptions_ : <<p, s>> \in Matches} \subseteq call[p].seen
  PROVE  call'[p].inter
<1> USE IntraProcessManagerAssumption
<1> DEFINE known == {s \in subscriptions_ : <<p, s>> \in Matches}
           seen == call[p].seen
<1>1. CountIntra(p)
  BY ComparedByCountIntra DEF BaseInv
<1>2. life[p] = "live"
  BY DEF DeadInv, LivePublishers
<1>3. IsFiniteSet(known) /\ Intra(p) = Cardinality(known) /\ Intra(p) \in Nat
  BY <1>2, IntraCounts
<1>4. known \subseteq Subs /\ seen \subseteq Subs \cup Remotes
  BY DEF BaseInv, TypeOK
<1>5. call'[p].inter = (Cardinality(seen) > Intra(p))
  BY <1>1 DEF CountIntra, BaseInv, TypeOK
<1> HIDE DEF known, seen
<1>6. IsFiniteSet(seen)
  BY <1>4, FS_Union, FS_Subset
<1>7. known \subseteq seen /\ known # seen
  BY <1>4 DEF known, seen
<1>8. Cardinality(known) <= Cardinality(seen) /\ Cardinality(known) # Cardinality(seen)
  BY <1>6, <1>7, FS_Subset
<1>9. Cardinality(seen) \in Nat
  BY <1>6, FS_CardinalityType
<1>10. Cardinality(seen) > Intra(p)
  BY <1>3, <1>8, <1>9
<1>11. QED
  BY <1>5, <1>10

(* The difference of the two counts does not miss a subscription of        *)
(* another process that was counted (get_subscription_count,               *)
(* get_intra_process_subscription_count), unless the middleware knew less  *)
(* of this process than the manager.                                       *)
THEOREM RemotesServed == Spec => RemoteServed
<1>1. BaseInv /\ DeadInv /\ [Next]_vars =>
        [\A p \in Publishers :
           /\ call[p].at = "count" /\ call'[p].at = "counted"
           /\ call[p].seen \cap Remotes # {}
           /\ {s \in subscriptions_ : <<p, s>> \in Matches} \subseteq call[p].seen
           => call'[p].inter]_vars
  BY RemoteCounted
<1>2. QED
  BY BaseInit, BaseNext, DeadInit, DeadNext, <1>1, PTL DEF Spec, RemoteServed

-----------------------------------------------------------------------------
(* The promise of Topic.                                                   *)

SentBar ==
  [p \in Publishers |-> sent[p] - IF call[p].at \in {"count", "counted"} THEN 1 ELSE 0]
OwedBar == [p \in Publishers |-> Receivers(call[p].left)]
ReceivedBar == [s \in Subs |-> [i \in DOMAIN stored[s] |-> Message(stored[s][i])]]

(* A step Topic does not see. *)
Unseen == UNCHANGED <<subscriptions_, SentBar, OwedBar, ReceivedBar>>

TopicInv == OwnInv /\ DeadInv

LEMMA NothingOwed == Receivers(<<>>) = {}
BY DEF Receivers

(* Registration waits until nothing is left to store. *)
LEMMA QuietWhenExclusive ==
  ASSUME TopicInv, Exclusive
  PROVE  \A p \in Publishers : OwedBar[p] = {}
BY NothingOwed DEF TopicInv, OwnInv, BaseInv, CallInv, Exclusive, OwedBar

LEMMA BarsUnchanged ==
  ASSUME UNCHANGED <<sent, call, stored>>
  PROVE  UNCHANGED <<SentBar, OwedBar, ReceivedBar>>
BY DEF SentBar, OwedBar, ReceivedBar

(* The steps of publish() before and after its message is stored. *)
LEMMA UnseenSteps ==
  ASSUME TopicInv, NEW p \in Publishers, CountAll(p) \/ CountIntra(p) \/ EndStore(p) \/ Send(p)
  PROVE  Unseen
<1> USE DEF TopicInv, OwnInv
<1>1. /\ call \in [Publishers -> CallType] /\ call[p] \in CallType
      /\ sent \in [Publishers -> 0..MaxSent] /\ MaxSent \in Nat
  BY IntraProcessManagerAssumption DEF BaseInv, TypeOK, CallType
<1>2. /\ \A q \in Publishers \ {p} : call'[q] = call[q] /\ sent'[q] = sent[q]
      /\ UNCHANGED <<subscriptions_, stored>>
  BY <1>1 DEF CountAll, CountIntra, EndStore, Send
<1>3. call[p].at # "store" => call[p].left = <<>>
  BY DEF BaseInv, CallInv
<1>4. /\ call'[p].left = <<>> /\ call[p].left = <<>>
      /\ \/ sent'[p] = sent[p] + 1 /\ call[p].at = "idle" /\ call'[p].at = "count"
         \/ sent'[p] = sent[p] /\ call[p].at = "count" /\ call'[p].at = "counted"
         \/ /\ sent'[p] = sent[p] /\ call[p].at \in {"store", "send"}
            /\ call'[p].at \in {"send", "idle"}
  <2>1. CASE CountAll(p)
    <3>1. PICK seen : call' = [call EXCEPT ![p].at = "count", ![p].seen = seen]
      BY <2>1 DEF CountAll
    <3>2. QED
      BY <1>1, <1>3, <2>1, <3>1 DEF CountAll, CallType
  <2>2. CASE CountIntra(p)
    BY <1>1, <1>3, <2>2 DEF CountIntra, CallType
  <2>3. CASE EndStore(p) \/ Send(p)
    <3>1. /\ call'[p] \in {[call[p] EXCEPT !.at = "send"], Resting} /\ call[p].left = <<>>
          /\ call[p].at \in {"store", "send"} /\ sent' = sent
      BY <1>1, <1>3, <2>3 DEF EndStore, Send
    <3>2. QED
      BY <1>1, <3>1 DEF Resting, CallType
  <2>4. QED
    BY <2>1, <2>2, <2>3
<1>5. OwedBar' = OwedBar
  BY <1>2, <1>4 DEF OwedBar
<1>6. SentBar' = SentBar
  <2> SUFFICES ASSUME NEW q \in Publishers PROVE SentBar'[q] = SentBar[q]
    BY DEF SentBar
  <2>1. CASE q = p
    <3>1. sent[p] \in Int
      BY <1>1
    <3>2. QED
      BY <1>4, <2>1, <3>1 DEF SentBar
  <2>2. CASE q # p
    BY <1>2, <2>2 DEF SentBar
  <2>3. QED
    BY <2>1, <2>2
<1>7. ReceivedBar' = ReceivedBar
  BY <1>2 DEF ReceivedBar
<1>8. QED
  BY <1>2, <1>5, <1>6, <1>7 DEF Unseen

(* The lists are read: a publication of Topic begins. *)
LEMMA BeginBegins ==
  ASSUME TopicInv, NEW p \in Publishers, BeginStore(p)
  PROVE  /\ OwedBar[p] = {} /\ SentBar[p] < MaxSent
         /\ SentBar' = [SentBar EXCEPT ![p] = @ + 1]
         /\ OwedBar' = [OwedBar EXCEPT ![p] = {s \in subscriptions_ : <<p, s>> \in Matches}]
         /\ UNCHANGED <<subscriptions_, ReceivedBar>>
<1> USE DEF TopicInv, OwnInv
<1>1. /\ call[p].at = "counted" /\ call'[p].at = "store"
      /\ \A q \in Publishers \ {p} : call'[q] = call[q]
  BY BeginStoreFacts DEF BaseInv
<1>2. UNCHANGED <<subscriptions_, sent, stored>>
  BY DEF BeginStore
<1>3. call[p].left = <<>> /\ life[p] = "live"
  BY <1>1 DEF BaseInv, CallInv, DeadInv, LivePublishers
<1>4. Receivers(call'[p].left) = {s \in subscriptions_ : <<p, s>> \in Matches}
  <2>1. /\ Listed(pub_to_subs_[p].shared) = {s \in subscriptions_ \cap Sharing : <<p, s>> \in Matches}
        /\ Listed(pub_to_subs_[p].owned) = {s \in subscriptions_ \ Sharing : <<p, s>> \in Matches}
    BY <1>3 DEF BaseInv, ListsInv
  <2>2. Receivers(call'[p].left) =
          Listed(pub_to_subs_[p].shared) \cup Listed(pub_to_subs_[p].owned)
    BY Begun
  <2>3. QED
    BY <2>1, <2>2
<1>5. sent \in [Publishers -> 0..MaxSent] /\ MaxSent \in Nat
  BY IntraProcessManagerAssumption DEF BaseInv, TypeOK
<1>6. OwedBar[p] = {}
  BY <1>3, NothingOwed DEF OwedBar
<1>7. SentBar[p] = sent[p] - 1 /\ SentBar'[p] = sent[p] /\ sent[p] \in Int
  BY <1>1, <1>2, <1>5 DEF SentBar
<1>8. SentBar[p] < MaxSent
  BY <1>5, <1>7
<1>9. SentBar' = [SentBar EXCEPT ![p] = @ + 1]
  <2>1. SentBar'[p] = SentBar[p] + 1
    BY <1>7
  <2>2. \A q \in Publishers \ {p} : SentBar'[q] = SentBar[q]
    BY <1>1, <1>2 DEF SentBar
  <2>3. DOMAIN SentBar = Publishers /\ DOMAIN SentBar' = Publishers
    BY DEF SentBar
  <2>4. SentBar = [q \in Publishers |-> SentBar[q]] /\ SentBar' = [q \in Publishers |-> SentBar'[q]]
    BY DEF SentBar
  <2>5. QED
    BY <2>1, <2>2, <2>3, <2>4
<1>10. OwedBar' = [OwedBar EXCEPT ![p] = {s \in subscriptions_ : <<p, s>> \in Matches}]
  BY <1>1, <1>4 DEF OwedBar
<1>11. QED
  BY <1>2, <1>6, <1>8, <1>9, <1>10 DEF ReceivedBar

LEMMA Given ==
  ASSUME NEW S, NEW n \in Nat, NEW f \in [1..n -> S], NEW e \in S,
         NEW g \in [1..(n + 1) -> S],
         g[n + 1] = e, \A i \in 1..n : g[i] = f[i]
  PROVE  g = Append(f, e)
<1>1. f \in Seq(S) /\ Len(f) = n
  BY SeqMade
<1> DEFINE r == Append(f, e)
<1>2. r \in Seq(S) /\ Len(r) = n + 1 /\ r[n + 1] = e /\ \A i \in 1..n : r[i] = f[i]
  BY <1>1, AppendProperties
<1> HIDE DEF r
<1>3. r \in [1..(n + 1) -> S]
  BY <1>2, LenProperties
<1>4. \A i \in 1..(n + 1) : g[i] = r[i]
  <2>1. \A i \in 1..(n + 1) : i \in 1..n \/ i = n + 1
    OBVIOUS
  <2>2. QED
    BY <1>2, <2>1
<1>5. g = r
  BY <1>3, <1>4
<1>6. QED
  BY <1>5 DEF r

(* A message is stored: it is delivered. *)
LEMMA StoreDelivers ==
  ASSUME TopicInv, NEW p \in Publishers, Store(p)
  PROVE  \E s \in Subs :
           /\ s \in OwedBar[p]
           /\ OwedBar' = [OwedBar EXCEPT ![p] = @ \ {s}]
           /\ ReceivedBar' = [ReceivedBar EXCEPT ![s] = Append(@, <<p, SentBar[p]>>)]
           /\ UNCHANGED <<subscriptions_, SentBar>>
<1> USE DEF TopicInv, OwnInv
<1> DEFINE left == call[p].left
<1>1. PICK s \in Subs, o \in Objects : StoreEffect(p, left, s, o)
  BY StoreFacts DEF BaseInv
<1>2. UNCHANGED <<subscriptions_, sent>>
  BY DEF Store
<1>3. Fresh(p, sent[p], left, call[p].kept) /\ o.from = p /\ o.n = sent[p]
  BY <1>1 DEF StoreEffect, LeftFresh, Fresh
<1>4. Receivers(Tail(left)) = Receivers(left) \ {s}
  BY <1>1, <1>3, FreshTail DEF StoreEffect
<1>5. s \in OwedBar[p]
  BY <1>1 DEF StoreEffect, OwedBar, Receivers
<1>6. OwedBar' = [OwedBar EXCEPT ![p] = @ \ {s}]
  <2>1. OwedBar'[p] = OwedBar[p] \ {s}
    BY <1>1, <1>4 DEF StoreEffect, OwedBar
  <2>2. \A q \in Publishers \ {p} : OwedBar'[q] = OwedBar[q]
    BY <1>1 DEF StoreEffect, OwedBar
  <2>3. OwedBar = [q \in Publishers |-> OwedBar[q]] /\ OwedBar' = [q \in Publishers |-> OwedBar'[q]]
    BY DEF OwedBar
  <2>4. QED
    BY <2>1, <2>2, <2>3
<1>7. SentBar' = SentBar /\ SentBar[p] = sent[p]
  <2>1. \A q \in Publishers : call'[q].at = call[q].at
    BY <1>1 DEF StoreEffect
  <2>2. sent[p] \in Int
    BY DEF BaseInv, TypeOK
  <2>3. call[p].at = "store"
    BY <1>1 DEF StoreEffect
  <2>4. QED
    BY <1>2, <2>1, <2>2, <2>3 DEF SentBar
<1>8. ReceivedBar' = [ReceivedBar EXCEPT ![s] = Append(@, <<p, SentBar[p]>>)]
  <2> DEFINE n == Len(stored[s])
             f == ReceivedBar[s]
             g == ReceivedBar'[s]
             M == {Message(x) : x \in Objects}
  <2>1. n \in Nat /\ DOMAIN stored[s] = 1..n /\ \A i \in 1..n : stored[s][i] \in Objects
    <3>1. stored[s] \in Seq(Objects)
      BY DEF BaseInv, TypeOK
    <3>2. QED
      BY <3>1, LenProperties, ElementOfSeq
  <2>2. f = [i \in 1..n |-> Message(stored[s][i])]
    BY <2>1 DEF ReceivedBar
  <2>3. f \in [1..n -> M]
    BY <2>1, <2>2
  <2>4. g = [i \in 1..(n + 1) |-> Message(stored'[s][i])]
    BY <1>1 DEF ReceivedBar, StoreEffect
  <2>5. /\ stored'[s][n + 1] = o
        /\ \A i \in 1..n : stored'[s][i] = stored[s][i]
    BY <1>1 DEF StoreEffect
  <2>6. Message(o) \in M /\ Message(o) = <<p, SentBar[p]>>
    BY <1>3, <1>7 DEF Message
  <2> HIDE DEF n, f, g, M
  <2>7. /\ g[n + 1] = Message(o) /\ \A i \in 1..n : g[i] = f[i]
        /\ \A i \in 1..(n + 1) : g[i] \in M
    <3>1. \A i \in 1..(n + 1) : i \in 1..n \/ i = n + 1
      BY <2>1
    <3>2. g[n + 1] = Message(o) /\ \A i \in 1..n : g[i] = f[i]
      BY <2>1, <2>2, <2>4, <2>5
    <3>3. QED
      BY <2>3, <2>6, <3>1, <3>2
  <2>0. g \in [1..(n + 1) -> M]
    BY <2>4, <2>7
  <2>8. g = Append(f, Message(o))
    BY <2>0, <2>1, <2>3, <2>6, <2>7, Given
  <2>9. \A u \in Subs \ {s} : ReceivedBar'[u] = ReceivedBar[u]
    BY <1>1 DEF ReceivedBar, StoreEffect
  <2>10. /\ ReceivedBar = [u \in Subs |-> ReceivedBar[u]]
         /\ ReceivedBar' = [u \in Subs |-> ReceivedBar'[u]]
    BY DEF ReceivedBar
  <2>11. ReceivedBar'[s] = Append(ReceivedBar[s], <<p, SentBar[p]>>)
    BY <2>6, <2>8 DEF f, g
  <2>12. QED
    BY <2>9, <2>10, <2>11
<1>9. QED
  BY <1>2, <1>5, <1>6, <1>7, <1>8

LEMMA PromiseInit == Init => Promise!TopicInit
<1> SUFFICES ASSUME Init PROVE Promise!TopicInit
  OBVIOUS
<1>1. /\ subscriptions_ = {} /\ SentBar = [p \in Publishers |-> 0]
      /\ OwedBar = [p \in Publishers |-> {}]
  BY NothingOwed DEF Init, Resting, SentBar, OwedBar
<1>2. ReceivedBar = [s \in Subs |-> <<>>]
  <2>1. \A s \in Subs : stored[s] = <<>> /\ DOMAIN stored[s] = {}
    BY DEF Init
  <2>2. \A s \in Subs : [i \in DOMAIN stored[s] |-> Message(stored[s][i])] = <<>>
    BY <2>1
  <2>3. QED
    BY <2>2 DEF ReceivedBar
<1>3. QED
  BY <1>1, <1>2 DEF Promise!TopicInit, SentBar, OwedBar, ReceivedBar

LEMMA PromiseNext == TopicInv /\ [Next]_vars => [Promise!TopicNext]_(Promise!topicVars)
<1> SUFFICES ASSUME TopicInv, [Next]_vars PROVE [Promise!TopicNext]_(Promise!topicVars)
  OBVIOUS
<1> DEFINE TSpec == [Promise!TopicNext]_(Promise!topicVars)
<1>1. Unseen => TSpec
  BY DEF Unseen, Promise!topicVars, SentBar, OwedBar, ReceivedBar
<1>2. UNCHANGED <<subscriptions_, sent, call, stored>> => TSpec
  BY <1>1, BarsUnchanged DEF Unseen
<1>3. Exclusive => Promise!Quiet
  BY QuietWhenExclusive DEF Promise!Quiet, OwedBar
<1>4. ASSUME NEW p \in Publishers, add_publisher(p) \/ ExpirePublisher(p) \/ remove_publisher(p)
      PROVE  TSpec
  BY <1>2, <1>4 DEF add_publisher, ExpirePublisher, remove_publisher
<1>5. ASSUME NEW s \in Subs, CreateSubscription(s) \/ TakeSample(s) PROVE TSpec
  BY <1>2, <1>5 DEF CreateSubscription, TakeSample
<1>6. ASSUME NEW s \in Subs, add_subscription(s) PROVE TSpec
  <2>1. UNCHANGED <<SentBar, OwedBar, ReceivedBar>>
    BY <1>6, BarsUnchanged DEF add_subscription
  <2>2. Promise!Join(s)
    BY <1>3, <1>6, <2>1 DEF add_subscription, Promise!Join, SentBar, OwedBar, ReceivedBar
  <2>3. QED
    BY <2>2 DEF Promise!TopicNext
<1>7. ASSUME NEW s \in Subs, remove_subscription(s) PROVE TSpec
  <2>1. UNCHANGED <<SentBar, OwedBar, ReceivedBar>>
    BY <1>7, BarsUnchanged DEF remove_subscription
  <2>2. Promise!Leave(s)
    BY <1>3, <1>7, <2>1 DEF remove_subscription, Promise!Leave, SentBar, OwedBar, ReceivedBar
  <2>3. QED
    BY <2>2 DEF Promise!TopicNext
<1>8. ASSUME NEW p \in Publishers, CountAll(p) \/ CountIntra(p) \/ EndStore(p) \/ Send(p)
      PROVE  TSpec
  BY <1>1, <1>8, UnseenSteps
<1>9. ASSUME NEW p \in Publishers, BeginStore(p) PROVE TSpec
  <2>1. Promise!Begin(p)
    BY <1>9, BeginBegins DEF Promise!Begin, SentBar, OwedBar, ReceivedBar
  <2>2. QED
    BY <2>1 DEF Promise!TopicNext
<1>10. ASSUME NEW p \in Publishers, Store(p) PROVE TSpec
  <2>1. PICK s \in Subs :
          /\ s \in OwedBar[p]
          /\ OwedBar' = [OwedBar EXCEPT ![p] = @ \ {s}]
          /\ ReceivedBar' = [ReceivedBar EXCEPT ![s] = Append(@, <<p, SentBar[p]>>)]
          /\ UNCHANGED <<subscriptions_, SentBar>>
    BY <1>10, StoreDelivers
  <2>2. Promise!Deliver(p, s)
    BY <2>1 DEF Promise!Deliver, SentBar, OwedBar, ReceivedBar
  <2>3. QED
    BY <2>2 DEF Promise!TopicNext
<1>11. UNCHANGED vars => TSpec
  BY <1>2 DEF vars
<1>12. QED
  BY <1>4, <1>5, <1>6, <1>7, <1>8, <1>9, <1>10, <1>11 DEF Next

(* Publications keep the promise of Topic: each goes exactly once to every *)
(* matching subscription that is known when the lists are read, none comes *)
(* or goes before it has, and those of one publisher arrive in order       *)
(* (do_intra_process_publish under mutex_).                                *)
THEOREM PromiseKept == Spec => ImplementsTopic
<1>1. Init => TopicInv
  BY OwnInit, DeadInit DEF TopicInv
<1>2. TopicInv /\ [Next]_vars => TopicInv'
  BY OwnNext, DeadNext DEF TopicInv
<1>3. QED
  BY PromiseInit, PromiseNext, <1>1, <1>2, PTL
  DEF Spec, ImplementsTopic, Promise!TopicSpec

=============================================================================

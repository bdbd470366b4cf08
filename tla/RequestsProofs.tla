--------------------------- MODULE RequestsProofs ---------------------------
(***************************************************************************)
(* Proofs about what requests do to users, for every set of users, requests*)
(* and documents: subscriptions, purchases, profiles and notifications.    *)
(***************************************************************************)
EXTENDS Subscriptions, Decorations, Profiles, PushD, TLAPS

(* Leaves go to Zenon unless they name another prover. *)
USE Zenon

(***************************************************************************)
(* The mirror of subscriptions is a replica, for any number of users,      *)
(* callers, tiers, failures and changes.                                   *)
(*                                                                         *)
(* A refresh asks first and writes later, so the fact that makes a write   *)
(* harmless is about the answers under way (AnswersGiven): each is one that *)
(* Nexus gave for the user it will be written to.  For the task this rests *)
(* on the order of the batch, which does not change between the two.       *)
(***************************************************************************)
MirrorInv == SubscriptionsTypeOK /\ AnswersGiven

LEMMA CompanyTier ==
    ASSUME NEW t \in Answers
    PROVE  nexus_tier_to_company(t) \in Tiers \cup {"Free"}
BY SubscriptionsAssumption DEF nexus_tier_to_company, Answers

LEMMA MirrorInit == SubscriptionsInit => MirrorInv
<1> SUFFICES ASSUME SubscriptionsInit PROVE MirrorInv
    OBVIOUS
<1> USE DEF SubscriptionsInit
<1>1. SubscriptionsTypeOK
    BY SubscriptionsAssumption, CompanyTier, SMT DEF SubscriptionsTypeOK, Never, Nothing
<1>2. AnswersGiven
    BY CompanyTier DEF AnswersGiven
<1> QED
    BY <1>1, <1>2 DEF MirrorInv

(* What a refresh may write, and what it leaves behind. *)
LEMMA WriteTyped ==
    ASSUME SubscriptionsTypeOK, NEW u \in Subscribers, NEW a \in Answers, Write(u, a)
    PROVE  /\ mirror' \in [Subscribers -> [tier : Tiers \cup {"Free"}, age : 0..Never, customer : BOOLEAN]]
           /\ mirror'[u].tier = nexus_tier_to_company(a)
           /\ \A v \in Subscribers \ {u} : mirror'[v] = mirror[v]
<1> DEFINE Doc == [tier : Tiers \cup {"Free"}, age : 0..Never, customer : BOOLEAN]
<1>1. mirror \in [Subscribers -> Doc]
    BY DEF SubscriptionsTypeOK
<1>2. Never \in Nat /\ 0 \in 0..Never
    BY SubscriptionsAssumption, SMT DEF Never
<1>3. Refreshed(u, a) \in Doc /\ Refreshed(u, a).tier = nexus_tier_to_company(a)
    BY <1>1, <1>2, CompanyTier DEF Refreshed, nexus_tier_to_company, Answers
<1> QED
    BY <1>1, <1>3 DEF Write

LEMMA MirrorStep == MirrorInv /\ [SubscriptionsNext]_subscriptionVars => MirrorInv'
<1> SUFFICES ASSUME MirrorInv, [SubscriptionsNext]_subscriptionVars PROVE MirrorInv'
    OBVIOUS
<1> USE DEF MirrorInv
<1>1. ASSUME NEW u \in Subscribers, NEW t \in Answers, NexusChanges(u, t)
      PROVE  MirrorInv'
    <2> USE <1>1 DEF NexusChanges
    <2>1. nexus_tier_to_company(t) \in Tiers \cup {"Free"}
        BY CompanyTier
    <2>2. SubscriptionsTypeOK'
        BY <2>1 DEF SubscriptionsTypeOK
    <2>3. \A v \in Subscribers : said[v] \subseteq said'[v]
        BY DEF SubscriptionsTypeOK
    <2>4. \A v \in Subscribers : nexus_tier_to_company(nexus'[v]) \in said'[v]
        BY DEF AnswersGiven, SubscriptionsTypeOK
    <2>5. AnswersGiven'
        BY <2>3, <2>4 DEF AnswersGiven, Given, NextUp
    <2> QED
        BY <2>2, <2>5
<1>2. CASE tick
    <2> USE <1>2 DEF tick
    <2>1. task.got = Nothing /\ task'.got = Nothing
        BY DEF AnswersGiven, SubscriptionsTypeOK
    <2>2. task'.batch \subseteq Subscribers /\ task' = [batch |-> task'.batch, got |-> task'.got]
        BY DEF SubscriptionsTypeOK
    <2>3. \A u \in Subscribers :
            (IF mirror[u].age < Never THEN mirror[u].age + 1 ELSE mirror[u].age) \in 0..Never
        BY SubscriptionsAssumption, SMT DEF SubscriptionsTypeOK, Never
    <2>4. mirror' \in [Subscribers -> [tier : Tiers \cup {"Free"}, age : 0..Never, customer : BOOLEAN]]
        <3>1. ASSUME NEW u \in Subscribers, NEW a \in 0..Never
              PROVE  [mirror[u] EXCEPT !.age = a]
                        \in [tier : Tiers \cup {"Free"}, age : 0..Never, customer : BOOLEAN]
            BY DEF SubscriptionsTypeOK
        <3>2. \A u \in Subscribers :
                  [mirror[u] EXCEPT !.age = IF @ < Never THEN @ + 1 ELSE @]
                    \in [tier : Tiers \cup {"Free"}, age : 0..Never, customer : BOOLEAN]
            BY <2>3, <3>1
        <3> QED
            BY <3>2
    <2>5. SubscriptionsTypeOK'
        BY <2>2, <2>4 DEF SubscriptionsTypeOK
    <2>6. AnswersGiven'
        BY <2>1 DEF AnswersGiven, Given
    <2> QED
        BY <2>5, <2>6
<1>3. ASSUME NEW u \in Subscribers, TaskAsks(u)
      PROVE  MirrorInv'
    <2> USE <1>3 DEF TaskAsks
    <2>1. task' = [batch |-> task.batch, got |-> Answer(u)]
        <3>1. task = [batch |-> task.batch, got |-> task.got]
            BY DEF SubscriptionsTypeOK
        <3>2. task' = [[batch |-> task.batch, got |-> task.got] EXCEPT !.got = Answer(u)]
            BY <3>1
        <3> QED
            BY <3>2
    <2>2. task'.batch = task.batch /\ task'.got = Answer(u) /\ SubscriptionsTypeOK'
        BY <2>1 DEF SubscriptionsTypeOK
    <2>3. \A v \in Subscribers : NextUp(v)' => v = u
        <3> SUFFICES ASSUME NEW v \in Subscribers, NextUp(v)' PROVE v = u
            OBVIOUS
        <3>1. u \in task.batch /\ v \in task.batch /\ ~Before(v, u) /\ ~Before(u, v)
            BY <2>2 DEF NextUp, Before
        <3>2. Place[u] \in Nat /\ Place[v] \in Nat
            BY SubscriptionsAssumption
        <3>3. Place[u] = Place[v]
            BY <3>1, <3>2, SMT DEF Before
        <3> QED
            BY <3>3, SubscriptionsAssumption
    <2>4. Given(Answer(u), u)
        BY DEF Given, Answer, AnswersGiven, SubscriptionsTypeOK
    <2>5. AnswersGiven'
        BY <2>2, <2>3, <2>4 DEF AnswersGiven, Given, NextUp
    <2> QED
        BY <2>2, <2>5
<1>4. ASSUME NEW u \in Subscribers, TaskWrites(u)
      PROVE  MirrorInv'
    <2> USE <1>4 DEF TaskWrites
    <2>1. task.got.answer \in Answers
        BY DEF AnswersGiven, Given
    <2>2. SubscriptionsTypeOK'
        BY <2>1, WriteTyped DEF SubscriptionsTypeOK, Passed
    <2>3. AnswersGiven'
        BY DEF AnswersGiven, Given, Passed
    <2> QED
        BY <2>2, <2>3
<1>5. ASSUME NEW u \in Subscribers, TaskFails(u)
      PROVE  MirrorInv'
    BY <1>5 DEF TaskFails, OnFailure, Passed, SubscriptionsTypeOK, AnswersGiven, Given
<1>6. ASSUME NEW r \in Refreshers, NEW u \in Subscribers, refresh(r, u)
      PROVE  MirrorInv'
    BY <1>6 DEF refresh, Answer, SubscriptionsTypeOK, AnswersGiven, Given, NextUp
<1>7. ASSUME NEW r \in Refreshers, RefreshWrites(r)
      PROVE  MirrorInv'
    <2> USE <1>7 DEF RefreshWrites
    <2>1. calls[r].user \in Subscribers /\ calls[r].answer \in Answers
        BY DEF AnswersGiven, Given
    <2>2. SubscriptionsTypeOK'
        BY <2>1, WriteTyped DEF SubscriptionsTypeOK
    <2>3. AnswersGiven'
        BY SMT DEF AnswersGiven, Given, NextUp
    <2> QED
        BY <2>2, <2>3
<1>8. ASSUME NEW r \in Refreshers, RefreshFails(r)
      PROVE  MirrorInv'
    BY <1>8 DEF RefreshFails, SubscriptionsTypeOK, AnswersGiven, Given, NextUp
<1>9. CASE UNCHANGED subscriptionVars
    BY <1>9 DEF subscriptionVars, SubscriptionsTypeOK, AnswersGiven, Given, NextUp
<1> QED
    BY <1>1, <1>2, <1>3, <1>4, <1>5, <1>6, <1>7, <1>8, <1>9 DEF SubscriptionsNext, TaskStep

(* Every answer under way is one that Nexus gave for its user, although    *)
(* asking and writing are two steps (refresh_user_subscription_from_nexus). *)
THEOREM AnswersStayGiven == SubscriptionsSafe => []MirrorInv
BY MirrorInit, MirrorStep, PTL DEF SubscriptionsSafe

------------------------------------------------------------------------------
(* The copies as the abstract specification sees them. *)
Truth == [u \in Subscribers |-> nexus_tier_to_company(nexus[u])]
Copy == [u \in Subscribers |-> mirror[u].tier]

LEMMA ReplicaInit == SubscriptionsInit => Mirrored!Init
<1> SUFFICES ASSUME SubscriptionsInit PROVE Mirrored!Init
    OBVIOUS
<1>1. Truth \in [Subscribers -> Tiers \cup {"Free"}]
    BY CompanyTier DEF SubscriptionsInit, Truth
<1>2. said = [u \in Subscribers |-> {Truth[u]}] /\ Copy = Truth
    BY DEF SubscriptionsInit, Truth, Copy
<1> QED
    BY <1>1, <1>2 DEF Mirrored!Init, Truth, Copy

(* A write of an answer that was given is a step of the replica. *)
LEMMA WriteTakes ==
    ASSUME SubscriptionsTypeOK, NEW u \in Subscribers, NEW a \in Answers,
           nexus_tier_to_company(a) \in said[u], Write(u, a), UNCHANGED <<nexus, said>>
    PROVE  \E v \in Tiers \cup {"Free"} : Mirrored!Take(u, v)
<1> DEFINE v == nexus_tier_to_company(a)
<1>1. v \in Tiers \cup {"Free"}
    BY CompanyTier
<1>2. Copy' = [Copy EXCEPT ![u] = v]
    BY WriteTyped DEF Copy, SubscriptionsTypeOK
<1>3. Mirrored!Take(u, v)
    BY <1>2 DEF Mirrored!Take, Copy
<1> QED
    BY <1>1, <1>3

LEMMA ReplicaStep ==
    MirrorInv /\ [SubscriptionsNext]_subscriptionVars => [Mirrored!Next]_(Mirrored!replicaVars)
<1> SUFFICES ASSUME MirrorInv, [SubscriptionsNext]_subscriptionVars
             PROVE  Mirrored!Next \/ UNCHANGED <<Truth, said, Copy>>
    BY DEF Mirrored!replicaVars, Truth, Copy
<1> USE DEF MirrorInv
<1>1. ASSUME NEW u \in Subscribers, NEW t \in Answers, NexusChanges(u, t)
      PROVE  Mirrored!Next
    <2> DEFINE v == nexus_tier_to_company(t)
    <2>1. v \in Tiers \cup {"Free"}
        BY CompanyTier
    <2>2. Truth' = [Truth EXCEPT ![u] = v]
        BY <1>1 DEF Truth, NexusChanges, SubscriptionsTypeOK
    <2>3. said' = [said EXCEPT ![u] = @ \cup {v}] /\ Copy' = Copy
        BY <1>1 DEF NexusChanges, Copy
    <2>4. Mirrored!Change(u, v)
        BY <2>2, <2>3 DEF Mirrored!Change, Truth, Copy
    <2> QED
        BY <2>1, <2>4 DEF Mirrored!Next
<1>2. CASE tick
    <2>1. Copy' = Copy
        BY <1>2 DEF tick, Copy, SubscriptionsTypeOK
    <2> QED
        BY <1>2, <2>1 DEF tick, Truth
<1>3. ASSUME NEW u \in Subscribers, TaskWrites(u)
      PROVE  Mirrored!Next
    <2>1. task.got.answer \in Answers /\ nexus_tier_to_company(task.got.answer) \in said[u]
        BY <1>3 DEF TaskWrites, AnswersGiven, Given
    <2> QED
        BY <1>3, <2>1, WriteTakes DEF TaskWrites, Mirrored!Next
<1>4. ASSUME NEW r \in Refreshers, RefreshWrites(r)
      PROVE  Mirrored!Next
    <2>1. /\ calls[r].user \in Subscribers /\ calls[r].answer \in Answers
          /\ nexus_tier_to_company(calls[r].answer) \in said[calls[r].user]
        BY <1>4 DEF RefreshWrites, AnswersGiven, Given
    <2> QED
        BY <1>4, <2>1, WriteTakes DEF RefreshWrites, Mirrored!Next
<1>5. ASSUME UNCHANGED <<nexus, mirror, said>>
      PROVE  UNCHANGED <<Truth, said, Copy>>
    BY <1>5 DEF Truth, Copy
<1>6. ASSUME NEW u \in Subscribers, TaskAsks(u) \/ TaskFails(u)
      PROVE  UNCHANGED <<nexus, mirror, said>>
    BY <1>6 DEF TaskAsks, TaskFails, OnFailure
<1>7. ASSUME NEW r \in Refreshers, (\E u \in Subscribers : refresh(r, u)) \/ RefreshFails(r)
      PROVE  UNCHANGED <<nexus, mirror, said>>
    BY <1>7 DEF refresh, RefreshFails
<1>8. CASE UNCHANGED subscriptionVars
    BY <1>8, <1>5 DEF subscriptionVars
<1> QED
    BY <1>1, <1>2, <1>3, <1>4, <1>5, <1>6, <1>7, <1>8 DEF SubscriptionsNext, TaskStep

(* The task, the route and Nexus together implement a replica: a copy is   *)
(* only ever given a tier that Nexus gave for this user, whatever fails and *)
(* in whatever order answers are written.                                  *)
THEOREM MirrorImplementsReplica == SubscriptionsSafe => MirrorIsReplica
BY AnswersStayGiven, ReplicaInit, ReplicaStep, PTL
   DEF SubscriptionsSafe, MirrorIsReplica, Mirrored!Safe

(***************************************************************************)
(* Decorations.  The ledger knows a key exactly when coins moved under it, *)
(* and whatever records a purchase comes after that.                       *)
(***************************************************************************)
ServingOK(s, known) ==
    /\ "op" \in DOMAIN s
    /\ s.op = "transfer" => <<s.u, s.d>> \in Pairs /\ s.coins # 0
    /\ s.op = "record" => <<s.u, s.d>> \in Pairs /\ known[<<s.u, s.d>>] # 0

PaidIInv ==
    /\ DOMAIN ledger = Pairs
    /\ moves = [p \in Pairs |-> IF ledger[p] = 0 THEN 0 ELSE 1]
    /\ purchases \in [Pairs -> Nat]
    /\ \A p \in Pairs : purchases[p] > 0 => ledger[p] # 0
    /\ DOMAIN serving = DRequests
    /\ \A q \in DRequests : ServingOK(serving[q], ledger)

LEMMA GoesTo ==
    ASSUME PaidIInv, NEW q \in DRequests, NEW s, Goes(q, s)
    PROVE  /\ DOMAIN serving' = DRequests
           /\ serving'[q] = s
           /\ \A r \in DRequests : r # q => serving'[r] = serving[r]
  BY DEF PaidIInv, Goes

(* A step that pays nothing and records nothing. *)
LEMMA UnpaidStep ==
    ASSUME PaidIInv, NEW q \in DRequests, NEW s, Goes(q, s), "op" \in DOMAIN s,
           s.op = "transfer" => <<s.u, s.d>> \in Pairs /\ s.coins # 0, s.op # "record",
           UNCHANGED <<purchases, ledger, moves>>
    PROVE  PaidIInv'
<1>1. /\ DOMAIN serving' = DRequests /\ serving'[q] = s
      /\ \A r \in DRequests : r # q => serving'[r] = serving[r]
  BY GoesTo
<1>2. ServingOK(s, ledger')
  BY DEF ServingOK
<1>3. \A r \in DRequests : ServingOK(serving'[r], ledger')
  BY <1>1, <1>2 DEF PaidIInv, ServingOK
<1> QED
  BY <1>1, <1>3 DEF PaidIInv

LEMMA TransferKeeps ==
    ASSUME PaidIInv, NEW q \in DRequests, NEW answered \in BOOLEAN, transfer_coins(q, answered)
    PROVE  PaidIInv'
<1> DEFINE s == serving[q]
           k == <<s.u, s.d>>
           outcome == Transfer(s.u, s.d, s.coins)
           t == IF answered /\ outcome[1] # "conflict"
                THEN [op |-> "record", u |-> s.u, d |-> s.d] ELSE Served
<1>1. k \in Pairs /\ s.coins # 0
  BY DEF PaidIInv, ServingOK, transfer_coins
<1>2. /\ ledger' = [ledger EXCEPT ![k] = outcome[2]] /\ Goes(q, t)
      /\ moves' = IF outcome[1] = "moved" THEN [moves EXCEPT ![k] = @ + 1] ELSE moves
      /\ UNCHANGED purchases
  BY DEF transfer_coins
<1>3. /\ outcome[2] # 0
      /\ outcome[1] = "moved" <=> ledger[k] = 0
  BY <1>1 DEF Transfer
<1> HIDE DEF outcome
<1>4. /\ DOMAIN ledger' = Pairs
      /\ ledger'[k] = outcome[2]
      /\ \A p \in Pairs : p # k => ledger'[p] = ledger[p]
  BY <1>1, <1>2 DEF PaidIInv
<1>5. moves' = [p \in Pairs |-> IF ledger'[p] = 0 THEN 0 ELSE 1]
  BY <1>1, <1>2, <1>3, <1>4, SMTT(30) DEF PaidIInv
<1>6. \A p \in Pairs : purchases'[p] > 0 => ledger'[p] # 0
  BY <1>2, <1>3, <1>4 DEF PaidIInv
<1>7. /\ DOMAIN serving' = DRequests /\ serving'[q] = t
      /\ \A r \in DRequests : r # q => serving'[r] = serving[r]
  BY <1>2, GoesTo
<1>8. ServingOK(t, ledger')
  BY <1>1, <1>3, <1>4 DEF ServingOK, Served
<1> HIDE DEF t
<1>9. \A r \in DRequests : ServingOK(serving'[r], ledger')
  BY <1>3, <1>4, <1>7, <1>8, SMT DEF PaidIInv, ServingOK
<1> QED
  BY <1>2, <1>4, <1>5, <1>6, <1>7, <1>9 DEF PaidIInv

LEMMA RecordKeeps ==
    ASSUME PaidIInv, NEW q \in DRequests, insert_decoration_purchase(q)
    PROVE  PaidIInv'
<1> DEFINE s == serving[q]
           t == [op |-> "count", d |-> s.d]
<1>1. <<s.u, s.d>> \in Pairs /\ ledger[<<s.u, s.d>>] # 0
  BY DEF PaidIInv, ServingOK, insert_decoration_purchase
<1>2. /\ purchases' = [purchases EXCEPT ![<<s.u, s.d>>] = @ + 1] /\ Goes(q, t)
      /\ UNCHANGED <<ledger, moves>>
  BY DEF insert_decoration_purchase
<1>3. /\ purchases' \in [Pairs -> Nat]
      /\ \A p \in Pairs : purchases'[p] > 0 => ledger[p] # 0
  BY <1>1, <1>2, SMT DEF PaidIInv
<1>4. /\ DOMAIN serving' = DRequests /\ serving'[q] = t
      /\ \A r \in DRequests : r # q => serving'[r] = serving[r]
  BY <1>2, GoesTo
<1>5. ServingOK(t, ledger')
  BY DEF ServingOK
<1> HIDE DEF t
<1>6. \A r \in DRequests : ServingOK(serving'[r], ledger')
  BY <1>2, <1>4, <1>5 DEF PaidIInv, ServingOK
<1> QED
  BY <1>2, <1>3, <1>4, <1>6 DEF PaidIInv

(* A request begins, or ends without a record. *)
LEMMA ServeKeeps ==
    ASSUME PaidIInv, NEW q \in DRequests,
           \/ \E d \in DecorationIds : Look(q, d)
           \/ \E s \in {"Approved", "Rejected"}, offer \in Offers : moderate_decoration(q, s, offer)
           \/ TransferRefused(q) \/ CountDownload(q) \/ IncrementNew(q)
    PROVE  PaidIInv'
<1>1. ASSUME NEW d \in DecorationIds, Look(q, d) PROVE PaidIInv'
  <2> DEFINE s == [op |-> "moderate", d |-> d, seen |-> decoration[d].version]
  <2>1. "op" \in DOMAIN s /\ s.op = "moderate"
    OBVIOUS
  <2>2. Goes(q, s) /\ UNCHANGED <<purchases, ledger, moves>>
    BY <1>1 DEF Look
  <2> HIDE DEF s
  <2> QED
    BY <2>1, <2>2, UnpaidStep
<1>2. "op" \in DOMAIN Served /\ Served.op = "served"
  BY DEF Served
<1>3. ASSUME Goes(q, Served), UNCHANGED <<purchases, ledger, moves>> PROVE PaidIInv'
  BY <1>2, <1>3, UnpaidStep
<1> QED
  BY <1>1, <1>3 DEF moderate_decoration, TransferRefused, CountDownload, IncrementNew

LEMMA BuyKeeps ==
    ASSUME PaidIInv, NEW q \in DRequests, NEW u \in Buyers, NEW d \in DecorationIds,
           purchase_decoration(q, u, d) \/ equip_decoration(q, u, d) \/ unequip_decoration(q, u, d)
    PROVE  PaidIInv'
<1>1. CASE purchase_decoration(q, u, d)
  <2> DEFINE s == [op |-> "transfer", u |-> u, d |-> d, coins |-> decoration[d].offer.price_coins]
  <2>1. decoration[d].offer.price_coins # 0
    BY <1>1, SMT DEF purchase_decoration, Paid
  <2>2. "op" \in DOMAIN s /\ s.op = "transfer" /\ <<s.u, s.d>> \in Pairs /\ s.coins # 0
    BY <2>1 DEF Pairs
  <2>3. Goes(q, s) /\ UNCHANGED <<purchases, ledger, moves>>
    BY <1>1 DEF purchase_decoration
  <2> HIDE DEF s
  <2> QED
    BY <2>2, <2>3, UnpaidStep
<1>2. CASE equip_decoration(q, u, d)
  <2> DEFINE old == {x \in wearing[u] : SlotOf[x] = SlotOf[d]}
             s == [op |-> "wear", u |-> u, list |-> (wearing[u] \ old) \cup {d},
                   out |-> old \ {d}, in |-> {d} \ old]
  <2>1. "op" \in DOMAIN s /\ s.op = "wear"
    OBVIOUS
  <2>2. Goes(q, s) /\ UNCHANGED <<purchases, ledger, moves>>
    BY <1>2 DEF equip_decoration
  <2> HIDE DEF s
  <2> QED
    BY <2>1, <2>2, UnpaidStep
<1>3. CASE unequip_decoration(q, u, d)
  <2> DEFINE s == [op |-> "wear", u |-> u, list |-> wearing[u] \ {d}, out |-> {d}, in |-> {}]
  <2>1. "op" \in DOMAIN s /\ s.op = "wear"
    OBVIOUS
  <2>2. Goes(q, s) /\ UNCHANGED <<purchases, ledger, moves>>
    BY <1>3 DEF unequip_decoration
  <2> HIDE DEF s
  <2> QED
    BY <2>1, <2>2, UnpaidStep
<1> QED
  BY <1>1, <1>2, <1>3

LEMMA WearKeeps ==
    ASSUME PaidIInv, NEW q \in DRequests,
           UpdateUser(q) \/ DecrementOld(q) \/ DecorationCallFails(q)
    PROVE  PaidIInv'
<1>1. "op" \in DOMAIN serving[q]
  BY DEF PaidIInv, ServingOK
<1>2. ASSUME NEW next \in {"drop_old", "add_new"},
             Goes(q, [serving[q] EXCEPT !.op = next]), UNCHANGED <<purchases, ledger, moves>>
      PROVE  PaidIInv'
  <2> DEFINE s == [serving[q] EXCEPT !.op = next]
  <2>1. "op" \in DOMAIN s /\ s.op = next
    BY <1>1
  <2> HIDE DEF s
  <2> QED
    BY <1>2, <2>1, UnpaidStep DEF s
<1>3. "op" \in DOMAIN Served /\ Served.op = "served"
  BY DEF Served
<1>4. ASSUME Goes(q, Served), UNCHANGED <<purchases, ledger, moves>> PROVE PaidIInv'
  BY <1>3, <1>4, UnpaidStep
<1> QED
  BY <1>2, <1>4 DEF UpdateUser, DecrementOld, DecorationCallFails

LEMMA PaidInitOK == DecorationsInit => PaidIInv
  BY SMT DEF DecorationsInit, PaidIInv, ServingOK, Waiting

LEMMA PaidStepKeeps == PaidIInv /\ [DecorationsNext]_decorationVars => PaidIInv'
<1> SUFFICES ASSUME PaidIInv, [DecorationsNext]_decorationVars PROVE PaidIInv'
  OBVIOUS
<1>1. ASSUME UNCHANGED <<purchases, ledger, moves, serving>> PROVE PaidIInv'
  BY <1>1 DEF PaidIInv, ServingOK
<1>2. ASSUME NEW d \in DecorationIds, NEW offer \in Offers,
             \/ studio_submit_decoration(d, offer)
             \/ \E new \in BOOLEAN : update_decoration(d, new, offer)
      PROVE  PaidIInv'
  BY <1>1, <1>2 DEF studio_submit_decoration, update_decoration
<1>3. CASE UNCHANGED decorationVars
  BY <1>1, <1>3 DEF decorationVars
<1> QED
  BY <1>2, <1>3, TransferKeeps, RecordKeeps, ServeKeeps, BuyKeeps, WearKeeps DEF DecorationsNext

(* Coins leave a buyer for a decoration at most once, and whoever owns it  *)
(* has paid, for any number of buyers, decorations, offers and requests,   *)
(* whichever of them are retried or fail half way (purchase_decoration).   *)
THEOREM AlwaysPaidOnce == DecorationsSpec => []PaidOnce
<1>1. PaidIInv => PaidOnce
  BY SMT DEF PaidIInv, PaidOnce
<1> QED
  BY <1>1, PaidInitOK, PaidStepKeeps, PTL DEF DecorationsSpec

(***************************************************************************)
(* Profiles.  A file that is shown and marked as deleted is one that the   *)
(* only edit under way is about to take off; and until it writes, that     *)
(* edit's copy of the user is still what is stored.                        *)
(***************************************************************************)
ShownIn(f) == {None} \cup {e.sets[f] : e \in {d \in EditData : f \in DOMAIN d.sets}}

EditOK(s) ==
    /\ "op" \in DOMAIN s
    /\ s.op \notin {"wait", "closed", "failed"} =>
          /\ s = [op |-> s.op, e |-> s.e, copy |-> s.copy]
          /\ s.op \in {"mark", "unset", "write", "publish"}
          /\ s.e \in EditData
          /\ \A f \in Files : s.copy[f] \in ShownIn(f)

TakesOff(q, f) == editing[q].op \in {"unset", "write"} /\ f \in editing[q].e.remove

Unwritten(q) == editing[q].op \in {"mark", "unset", "write"}

ShownIInv ==
    /\ DOMAIN editing = PRequests
    /\ \A q \in PRequests : EditOK(editing[q])
    /\ None \notin gone
    /\ \A f \in Files : profile[f] \in ShownIn(f)
    /\ \A p, q \in Holding : p # q => Fields \subseteq forgiven
    /\ \A f \in Files \ forgiven : profile[f] \in gone => \E q \in Holding : TakesOff(q, f)
    /\ \A q \in Holding : \A f \in Files \ forgiven :
          (Unwritten(q) /\ f \notin editing[q].e.remove) => editing[q].copy[f] = profile[f]

LEMMA FilesAreFields == Files \subseteq Fields
  BY DEF Files, Fields, FieldGroups, status, details

(* A file is shown as one thing. *)
LEMMA OnePurpose ==
    ASSUME NEW f \in Files, NEW g \in Files, NEW x \in ShownIn(f), x \in ShownIn(g), x # None
    PROVE  f = g
  BY ProfilesAssumption, SMT DEF Files, ShownIn

LEMMA StepsTo ==
    ASSUME ShownIInv, NEW q \in PRequests, NEW s, Step(q, s)
    PROVE  /\ DOMAIN editing' = PRequests
           /\ editing'[q] = s
           /\ \A r \in PRequests : r # q => editing'[r] = editing[r]
  BY DEF ShownIInv, Step

(* Once a file's field is not forgiven, whoever holds a copy is alone. *)
LEMMA Alone ==
    ASSUME ShownIInv, NEW p \in Holding, NEW q \in Holding, NEW f \in Files \ forgiven
    PROVE  p = q
  BY FilesAreFields DEF ShownIInv

(* What an edit no longer holds back: it is over, or it has written. *)
LEMMA EditIsOver ==
    ASSUME ShownIInv, NEW q \in PRequests, NEW s, Step(q, s), EditOK(s),
           s.op \in {"closed", "failed", "publish"}, s.op = "publish" => q \in Holding,
           forgiven \subseteq forgiven', gone' = gone,
           \A f \in Files : profile'[f] \in ShownIn(f),
           \A f \in Files \ forgiven' : profile'[f] \in gone => \E r \in Holding \ {q} : TakesOff(r, f),
           \A r \in Holding \ {q} : \A f \in Files \ forgiven' : profile'[f] = profile[f]
    PROVE  ShownIInv'
<1>1. /\ DOMAIN editing' = PRequests /\ editing'[q] = s
      /\ \A r \in PRequests : r # q => editing'[r] = editing[r]
  BY StepsTo
<1>2. \A r \in PRequests :
          r # q => /\ (r \in Holding') <=> (r \in Holding)
                   /\ Unwritten(r)' <=> Unwritten(r)
                   /\ \A f : TakesOff(r, f)' <=> TakesOff(r, f)
  BY <1>1 DEF Holding, TakesOff, Unwritten
<1>3. Holding' \subseteq Holding /\ ~Unwritten(q)'
  BY <1>1, <1>2 DEF Holding, Unwritten
<1>4. \A r \in PRequests : EditOK(editing'[r])
  BY <1>1 DEF ShownIInv
<1>5. \A f \in Files \ forgiven' : profile'[f] \in gone' => \E r \in Holding' : TakesOff(r, f)'
  <2> SUFFICES ASSUME NEW f \in Files \ forgiven', profile'[f] \in gone
               PROVE  \E r \in Holding' : TakesOff(r, f)'
    OBVIOUS
  <2>1. PICK r \in Holding \ {q} : TakesOff(r, f)
    OBVIOUS
  <2>2. r \in PRequests
    BY DEF Holding
  <2> QED
    BY <1>2, <2>1, <2>2
<1>6. \A r \in Holding' : \A f \in Files \ forgiven' :
          (Unwritten(r)' /\ f \notin editing'[r].e.remove) => editing'[r].copy[f] = profile'[f]
  <2> SUFFICES ASSUME NEW r \in Holding', NEW f \in Files \ forgiven', Unwritten(r)', f \notin editing'[r].e.remove
               PROVE  editing'[r].copy[f] = profile'[f]
    OBVIOUS
  <2>1. r # q /\ r \in PRequests /\ r \in Holding
    BY <1>3 DEF Holding
  <2> QED
    BY <2>1, <1>1, <1>2, SMT DEF ShownIInv
<1>7. \A p, r \in Holding' : p # r => Fields \subseteq forgiven'
  BY <1>3 DEF ShownIInv
<1>8. None \notin gone'
  BY DEF ShownIInv
<1> QED
  BY <1>1, <1>4, <1>5, <1>6, <1>7, <1>8 DEF ShownIInv, EditOK

LEMMA EditKeeps ==
    ASSUME ShownIInv, NEW q \in PRequests, NEW e \in EditData, edit(q, e)
    PROVE  ShownIInv'
<1>1. q \notin Holding /\ UNCHANGED <<profile, gone>>
  BY SMT DEF edit, NotBegun, Holding
<1>2. CASE ~Changed(e)
  <2>1. Step(q, Closed) /\ forgiven' = forgiven /\ EditOK(Closed) /\ Closed.op = "closed"
    BY <1>2 DEF edit, EditOK, Closed
  <2> QED
    BY <1>1, <2>1, EditIsOver DEF ShownIInv
<1>3. CASE Changed(e)
  <2> DEFINE s == [op |-> "mark", e |-> e, copy |-> profile]
  <2>1. Step(q, s) /\ forgiven' = IF Holding = {} THEN forgiven ELSE Fields
    BY <1>3 DEF edit
  <2>2. EditOK(s) /\ s.op = "mark" /\ s.copy = profile
    BY DEF EditOK, ShownIInv
  <2> HIDE DEF s
  <2>3. /\ DOMAIN editing' = PRequests /\ editing'[q] = s
        /\ \A r \in PRequests : r # q => editing'[r] = editing[r]
    BY <2>1, StepsTo
  <2>4. \A r \in PRequests : EditOK(editing'[r])
    BY <2>2, <2>3 DEF ShownIInv
  <2>5. \A r \in PRequests : r # q => (r \in Holding' <=> r \in Holding)
    BY <2>3 DEF Holding
  <2>6. \A p, r \in Holding' : p # r => Fields \subseteq forgiven'
    BY <2>1, <2>5 DEF Holding
  <2>7. \A f \in Files \ forgiven' : Holding = {} /\ f \notin forgiven
    BY <2>1, FilesAreFields
  <2>8. \A f \in Files \ forgiven' : profile'[f] \notin gone'
    BY <1>1, <2>7 DEF ShownIInv
  <2>9. \A r \in Holding' : \A f \in Files \ forgiven' : editing'[r].copy[f] = profile'[f]
    <3> SUFFICES ASSUME NEW r \in Holding', NEW f \in Files \ forgiven'
                 PROVE  editing'[r].copy[f] = profile'[f]
      OBVIOUS
    <3>1. r = q
      BY <2>5, <2>7 DEF Holding
    <3> QED
      BY <3>1, <2>2, <2>3, <1>1
  <2> QED
    BY <1>1, <2>3, <2>4, <2>6, <2>8, <2>9 DEF ShownIInv, EditOK
<1> QED
  BY <1>2, <1>3

(* The edit moves on to a write that is still to come. *)
LEMMA EditGoesOn ==
    ASSUME ShownIInv, NEW q \in Holding, NEW s, Step(q, s), EditOK(s),
           s.op \in {"unset", "write"}, s.e = editing[q].e, s.copy = editing[q].copy,
           Unwritten(q), forgiven' = forgiven, None \notin gone',
           \A f \in Files : profile'[f] \in ShownIn(f),
           \A f \in Files \ forgiven :
              /\ profile'[f] \in gone' => f \in s.e.remove
              /\ f \notin s.e.remove => profile'[f] = profile[f]
    PROVE  ShownIInv'
<1>1. /\ DOMAIN editing' = PRequests /\ editing'[q] = s /\ q \in PRequests
      /\ \A r \in PRequests : r # q => editing'[r] = editing[r]
  BY StepsTo DEF Holding
<1>2. \A r \in PRequests : EditOK(editing'[r])
  BY <1>1 DEF ShownIInv
<1>3. Holding' = Holding /\ q \in Holding'
  BY <1>1 DEF Holding
<1>4. \A f \in Files \ forgiven' : profile'[f] \in gone' => \E r \in Holding' : TakesOff(r, f)'
  <2> SUFFICES ASSUME NEW f \in Files \ forgiven', profile'[f] \in gone'
               PROVE  TakesOff(q, f)'
    BY <1>3
  <2> QED
    BY <1>1 DEF TakesOff
<1>5. \A r \in Holding' : \A f \in Files \ forgiven' :
          (Unwritten(r)' /\ f \notin editing'[r].e.remove) => editing'[r].copy[f] = profile'[f]
  <2> SUFFICES ASSUME NEW r \in Holding', NEW f \in Files \ forgiven', f \notin editing'[r].e.remove
               PROVE  editing'[r].copy[f] = profile'[f]
    OBVIOUS
  <2>1. r = q
    BY <1>3, Alone
  <2>2. editing[q].copy[f] = profile[f]
    BY <1>1, <2>1 DEF ShownIInv
  <2> QED
    BY <1>1, <2>1, <2>2
<1>6. \A p, r \in Holding' : p # r => Fields \subseteq forgiven'
  BY <1>3 DEF ShownIInv
<1> QED
  BY <1>1, <1>2, <1>4, <1>5, <1>6 DEF ShownIInv, EditOK

LEMMA MarkKeeps ==
    ASSUME ShownIInv, NEW q \in PRequests, mark_attachment_as_deleted(q)
    PROVE  ShownIInv'
<1> DEFINE s == editing[q]
           t == [s EXCEPT !.op = IF Split(s.e) THEN "unset" ELSE "write"]
<1>1. s.op = "mark" /\ EditOK(s) /\ q \in Holding /\ Unwritten(q)
  BY DEF ShownIInv, mark_attachment_as_deleted, Holding, Unwritten
<1>2. Step(q, t)
  BY <1>1, SMT DEF mark_attachment_as_deleted, Advance, After, EditOK
<1>3. /\ t.op \in {"unset", "write"} /\ t.e = s.e /\ t.copy = s.copy
      /\ t = [op |-> t.op, e |-> t.e, copy |-> t.copy]
  BY <1>1, SMT DEF EditOK
<1>4. EditOK(t)
  BY <1>1, <1>3 DEF EditOK
<1> HIDE DEF t
<1>5. /\ gone' = gone \cup ({s.copy[f] : f \in s.e.remove \cap Files} \ {None})
      /\ UNCHANGED <<profile, forgiven>>
  BY DEF mark_attachment_as_deleted
<1>6. ASSUME NEW f \in Files \ forgiven, profile'[f] \in gone' PROVE f \in s.e.remove
  <2>1. profile[f] \notin gone
    BY <1>1, Alone DEF ShownIInv, TakesOff
  <2>2. PICK g \in s.e.remove \cap Files : profile[f] = s.copy[g] /\ profile[f] # None
    BY <1>5, <1>6, <2>1
  <2>3. f = g
    BY <1>1, <2>2, OnePurpose DEF ShownIInv, EditOK
  <2> QED
    BY <2>2, <2>3
<1>7. None \notin gone' /\ \A f \in Files : profile'[f] \in ShownIn(f)
  BY <1>5 DEF ShownIInv
<1> QED
  BY <1>1, <1>2, <1>3, <1>4, <1>5, <1>6, <1>7, EditGoesOn

LEMMA UnsetKeeps ==
    ASSUME ShownIInv, NEW q \in PRequests, UnsetFields(q)
    PROVE  ShownIInv'
<1> DEFINE s == editing[q]
           t == [s EXCEPT !.op = "write"]
<1>1. s.op = "unset" /\ EditOK(s) /\ q \in Holding /\ Unwritten(q)
  BY DEF ShownIInv, UnsetFields, Holding, Unwritten
<1>2. Step(q, t) /\ UNCHANGED <<gone, forgiven>>
  BY DEF UnsetFields
<1>3. /\ t.op \in {"unset", "write"} /\ t.e = s.e /\ t.copy = s.copy
      /\ t = [op |-> t.op, e |-> t.e, copy |-> t.copy]
  BY <1>1, SMT DEF EditOK
<1>4. EditOK(t)
  BY <1>1, <1>3 DEF EditOK
<1> HIDE DEF t
<1>5. \A f \in Files : profile'[f] = profile[f] \/ (f \in s.e.remove /\ profile'[f] = None)
  BY FilesAreFields DEF UnsetFields
<1>6. \A f \in Files : profile'[f] \in ShownIn(f)
  BY <1>5 DEF ShownIInv, ShownIn
<1>7. ASSUME NEW f \in Files \ forgiven, profile'[f] \in gone' PROVE f \in s.e.remove
  BY <1>1, <1>2, <1>5, <1>7, Alone DEF ShownIInv, TakesOff
<1>8. None \notin gone'
  BY <1>2 DEF ShownIInv
<1> QED
  BY <1>1, <1>2, <1>3, <1>4, <1>5, <1>6, <1>7, <1>8, EditGoesOn

(* An edit that fails or is refused: what it names is forgiven. *)
LEMMA GivenUpKeeps ==
    ASSUME ShownIInv, NEW q \in Holding, NEW s, Step(q, s), EditOK(s), s.op \in {"closed", "failed"},
           forgiven' = forgiven \cup Named(editing[q].e), UNCHANGED <<profile, gone>>
    PROVE  ShownIInv'
<1>1. \A f \in Files \ forgiven' : profile'[f] \notin gone
  BY Alone DEF ShownIInv, TakesOff, Named
<1> QED
  BY <1>1, EditIsOver DEF ShownIInv, Holding

LEMMA UpdateKeeps ==
    ASSUME ShownIInv, NEW q \in PRequests, update_user(q)
    PROVE  ShownIInv'
<1> DEFINE s == editing[q]
           t == [s EXCEPT !.op = "publish"]
<1>1. s.op = "write" /\ EditOK(s) /\ q \in Holding /\ Unwritten(q) /\ gone' = gone
  BY DEF ShownIInv, update_user, Holding, Unwritten
<1>2. CASE Conflict(s.e)
  <2>1. Step(q, Closed) /\ forgiven' = forgiven \cup Named(s.e) /\ profile' = profile
    BY <1>2 DEF update_user
  <2>2. EditOK(Closed) /\ Closed.op = "closed"
    BY DEF EditOK, Closed
  <2> QED
    BY <1>1, <2>1, <2>2, GivenUpKeeps
<1>3. CASE ~Conflict(s.e)
  <2>1. /\ profile' = Rebuilt(s.e, s.copy)
        /\ forgiven' = forgiven \cup {f \in DOMAIN s.e.sets \cap Files : s.e.sets[f] \in gone}
        /\ Advance(q)
    BY <1>3 DEF update_user
  <2>2. Step(q, t)
    BY <1>1, <2>1, SMT DEF Advance, After, EditOK
  <2>3. t.op = "publish" /\ EditOK(t)
    BY <1>1, SMT DEF EditOK
  <2> HIDE DEF t
  <2>4. \A f \in Files :
          profile'[f] = IF f \in DOMAIN s.e.sets THEN s.e.sets[f]
                        ELSE IF f \in s.e.remove THEN None
                        ELSE IF \E g \in FieldGroups : f \in g /\ Sets(s.e, g) THEN s.copy[f]
                        ELSE profile[f]
    BY <2>1, FilesAreFields DEF Rebuilt
  <2>5. \A f \in Files : profile'[f] \in ShownIn(f)
    BY <1>1, <2>4, SMT DEF ShownIInv, EditOK, ShownIn
  <2>6. ASSUME NEW f \in Files \ forgiven', profile'[f] \in gone PROVE FALSE
    <3>1. f \notin DOMAIN s.e.sets /\ f \notin s.e.remove
      BY <2>1, <2>4, <2>6 DEF ShownIInv
    <3>2. profile'[f] = profile[f]
      BY <1>1, <2>1, <2>4, <3>1 DEF ShownIInv
    <3> QED
      BY <1>1, <2>1, <2>6, <3>1, <3>2, Alone DEF ShownIInv, TakesOff
  <2>7. \A r \in Holding \ {q} : \A f \in Files \ forgiven' : profile'[f] = profile[f]
    BY <1>1, <2>1, Alone
  <2> QED
    BY <1>1, <2>1, <2>2, <2>3, <2>5, <2>6, <2>7, EditIsOver
<1> QED
  BY <1>2, <1>3

LEMMA PublishKeeps ==
    ASSUME ShownIInv, NEW q \in PRequests, publish_user_update(q)
    PROVE  ShownIInv'
<1>1. Step(q, Closed) /\ UNCHANGED <<profile, gone, forgiven>> /\ editing[q].op = "publish"
  BY SMT DEF publish_user_update, Advance, After
<1>2. EditOK(Closed) /\ Closed.op = "closed"
  BY DEF EditOK, Closed
<1>3. \A f \in Files \ forgiven' : profile'[f] \in gone => \E r \in Holding \ {q} : TakesOff(r, f)
  BY <1>1 DEF ShownIInv, TakesOff
<1> QED
  BY <1>1, <1>2, <1>3, EditIsOver DEF ShownIInv

LEMMA EditFailsKeeps ==
    ASSUME ShownIInv, NEW q \in PRequests, EditFails(q)
    PROVE  ShownIInv'
<1> DEFINE s == IF HalfWritten(q) THEN [op |-> "failed"] ELSE Closed
<1>1. EditOK(s) /\ s.op \in {"closed", "failed"}
  BY DEF EditOK, Closed
<1>2. Step(q, s) /\ q \in Holding
  BY DEF EditFails, Holding
<1> HIDE DEF s
<1> QED
  BY <1>1, <1>2, GivenUpKeeps DEF EditFails

LEMMA ProfilesStepKeeps == ShownIInv /\ [ProfilesNext]_profileVars => ShownIInv'
<1> SUFFICES ASSUME ShownIInv, [ProfilesNext]_profileVars PROVE ShownIInv'
  OBVIOUS
<1>1. CASE \E q \in PRequests, e \in EditData : edit(q, e)
  BY <1>1, EditKeeps
<1>2. CASE \E q \in PRequests : mark_attachment_as_deleted(q) \/ UnsetFields(q) \/ update_user(q)
  BY <1>2, MarkKeeps, UnsetKeeps, UpdateKeeps
<1>3. CASE \E q \in PRequests : publish_user_update(q) \/ EditFails(q)
  BY <1>3, PublishKeeps, EditFailsKeeps
<1>4. CASE Poked \/ UNCHANGED profileVars
  BY <1>4, SMT DEF Poked, profileVars, ShownIInv, Holding, TakesOff, Unwritten, EditOK
<1> QED
  BY <1>1, <1>2, <1>3, <1>4 DEF ProfilesNext

LEMMA ProfilesInitOK == ProfilesInit => ShownIInv
<1> SUFFICES ASSUME ProfilesInit PROVE ShownIInv
  OBVIOUS
<1>1. Holding = {} /\ \A q \in PRequests : EditOK(editing[q])
  BY DEF ProfilesInit, Holding, NotBegun, EditOK
<1>2. \A f \in Files : profile[f] = None /\ None \in ShownIn(f)
  BY FilesAreFields DEF ProfilesInit, ShownIn
<1> QED
  BY <1>1, <1>2, SMT DEF ProfilesInit, ShownIInv

(* A profile never shows a file that is marked as deleted once its edits   *)
(* are through, for any number of edits of any fields: the mark that comes *)
(* before the write is only ever of a file the write takes off.            *)
THEOREM ShownFilesAlwaysKept == ProfilesSpec => []ShownFilesKept
<1>1. ShownIInv => ShownFilesKept
  BY DEF ShownIInv, ShownFilesKept
<1> QED
  BY <1>1, ProfilesInitOK, ProfilesStepKeeps, PTL DEF ProfilesSpec

(***************************************************************************)
(* Push notifications.  A payload, the session a consumer has found, the   *)
(* member it has still to look up and the event in the queue exclude each  *)
(* other; and of the two ways a message takes, one leads only to those it  *)
(* mentions by name and the other only to those it does not.               *)
(***************************************************************************)
Handed == outbound \cup notified

Mentioned(u, i) == \E e \in PushEvents : e.kind = "message" /\ e.id = i /\ u \in e.mentions

(* The queues an event goes through. *)
Via(q, i) ==
    \E e \in PushEvents : e.id = i /\ (q = e.kind \/ (e.kind = "message" /\ q = "mass"))

Meant(q, i, u) == (q = "message" => Mentioned(u, i)) /\ (q = "mass" => ~Mentioned(u, i))

Reached(payloads, q, i, s) == \E p \in payloads : p.via = q /\ p.id = i /\ p.session = s

PayloadOK(p) ==
    /\ p = [session |-> p.session, token |-> p.token, id |-> p.id, via |-> p.via, extras |-> p.extras]
    /\ Via(p.via, p.id) /\ Meant(p.via, p.id, UserOf[p.session])

EventOK(e) ==
    /\ e.queue \in Queues /\ Via(e.queue, e.id)
    /\ e.queue = "message" => \A u \in e.users : Mentioned(u, e.id)
    /\ e.queue = "mass" => \A u : Mentioned(u, e.id) => u \in e.mentions

ConsumerOK(q, c, payloads) ==
    /\ c = [event |-> c.event, members |-> c.members, sessions |-> c.sessions]
    /\ EventOK(c.event) /\ c.event.queue = q
    /\ \A x \in c.sessions :
          /\ x = <<x[1], x[2]>> /\ UserOf[x[1]] \notin c.members
          /\ Meant(q, c.event.id, UserOf[x[1]])
          /\ ~Reached(payloads, q, c.event.id, x[1])
    /\ \A x, y \in c.sessions : x[1] = y[1] => x = y
    /\ \A s : UserOf[s] \in c.members => ~Reached(payloads, q, c.event.id, s)

PushOK(events, queued, consumers, payloads) ==
    /\ events \subseteq PushEvents
    /\ DOMAIN consumers = Queues
    /\ \A p \in payloads : PayloadOK(p) /\ \E e \in events : e.id = p.id
    /\ \A p, r \in payloads : (p.session = r.session /\ p.id = r.id) => p = r
    /\ \A d \in queued :
          /\ EventOK(d) /\ \E e \in events : e.id = d.id
          /\ \A s : ~Reached(payloads, d.queue, d.id, s)
          /\ consumers[d.queue] # Resting => consumers[d.queue].event.id # d.id
    /\ \A c, d \in queued : (c.queue = d.queue /\ c.id = d.id) => c = d
    /\ \A q \in Queues : consumers[q] # Resting =>
          /\ ConsumerOK(q, consumers[q], payloads)
          /\ \E e \in events : e.id = consumers[q].event.id

PushIInv == PushOK(published, inbound, consumer, Handed)

LEMMA PushPrimed ==
    ASSUME PushOK(published', inbound', consumer', Handed')
    PROVE  PushIInv'
  BY DEF PushIInv, PushOK, PayloadOK, EventOK, ConsumerOK, Via, Meant, Mentioned, Reached,
         Queues, Resting

(* A session is not reached by two ways. *)
LEMMA OneWay ==
    ASSUME NEW q, NEW r, NEW i, NEW u, Via(q, i), Via(r, i), Meant(q, i, u), Meant(r, i, u)
    PROVE  q = r
  BY PushDAssumption DEF Via, Meant

LEMMA ConsumerTo ==
    ASSUME PushIInv, NEW q \in Queues, NEW c, consumer' = [consumer EXCEPT ![q] = c]
    PROVE  /\ DOMAIN consumer' = Queues
           /\ consumer'[q] = c
           /\ \A r \in Queues : r # q => consumer'[r] = consumer[r]
  BY DEF PushIInv, PushOK

LEMMA ConsumerStays ==
    ASSUME NEW P, NEW R, R \subseteq P, NEW q, NEW c, ConsumerOK(q, c, P)
    PROVE  ConsumerOK(q, c, R)
  BY DEF ConsumerOK, Reached

(* Payloads are taken out, and consumers give up. *)
LEMMA FewerKeeps ==
    ASSUME PushIInv, UNCHANGED <<published, inbound>>, Handed' \subseteq Handed,
           DOMAIN consumer' = Queues,
           \A q \in Queues : consumer'[q] = consumer[q] \/ consumer'[q] = Resting
    PROVE  PushIInv'
<1>1. \A d \in inbound :
         /\ \A s : ~Reached(Handed', d.queue, d.id, s)
         /\ consumer'[d.queue] # Resting => consumer'[d.queue].event.id # d.id
  BY SMT DEF PushIInv, PushOK, EventOK, Reached
<1>2. \A q \in Queues : consumer'[q] # Resting =>
         /\ ConsumerOK(q, consumer'[q], Handed')
         /\ \E e \in published' : e.id = consumer'[q].event.id
  BY ConsumerStays, SMT DEF PushIInv, PushOK
<1>3. \A p \in Handed' : PayloadOK(p) /\ \E e \in published' : e.id = p.id
  BY DEF PushIInv, PushOK
<1>4. \A p, r \in Handed' : (p.session = r.session /\ p.id = r.id) => p = r
  BY DEF PushIInv, PushOK
<1>5. \A d \in inbound' : EventOK(d) /\ \E e \in published' : e.id = d.id
  BY DEF PushIInv, PushOK
<1>6. /\ published' \subseteq PushEvents
      /\ \A c, d \in inbound' : (c.queue = d.queue /\ c.id = d.id) => c = d
  BY DEF PushIInv, PushOK
<1>7. PushOK(published', inbound', consumer', Handed')
  BY <1>1, <1>2, <1>3, <1>4, <1>5, <1>6 DEF PushOK
<1> QED
  BY <1>7, PushPrimed

LEMMA PublishEventKeeps ==
    ASSUME PushIInv, NEW e \in PushEvents, PublishEvent(e)
    PROVE  PushIInv'
<1>1. /\ e \notin published /\ published' = published \cup {e}
      /\ inbound' = inbound \cup PublicationsOf(e)
      /\ UNCHANGED consumer /\ Handed' = Handed
  BY DEF PublishEvent, Handed
<1>2. \A d \in published : d.id # e.id
  BY <1>1, PushDAssumption DEF PushIInv, PushOK
<1>3. \A d \in PublicationsOf(e) : EventOK(d) /\ d.id = e.id
  <2>1. CASE e.kind = "message"
    <3>1. \A u : Mentioned(u, e.id) <=> u \in e.mentions
      BY <2>1, PushDAssumption DEF Mentioned
    <3>2. Via("message", e.id) /\ Via("mass", e.id)
      BY <2>1 DEF Via
    <3> QED
      BY <2>1, <3>1, <3>2, SMT DEF PublicationsOf, message_sent, mass_mention_message_sent, EventOK, Queues
  <2>2. CASE e.kind # "message"
    <3>1. Via(e.kind, e.id)
      BY DEF Via
    <3> QED
      BY <2>2, <3>1, PushDAssumption, SMT DEF PublicationsOf, friend_request_received,
         friend_request_accepted, generic_message, ack_message, dm_call_updated, EventOK, Queues
  <2> QED
    BY <2>1, <2>2
<1>4. \A c, d \in PublicationsOf(e) : c.queue = d.queue => c = d
  BY PushDAssumption, SMT DEF PublicationsOf, message_sent, mass_mention_message_sent,
     friend_request_received, friend_request_accepted, generic_message, ack_message, dm_call_updated
<1>5. \A d \in PublicationsOf(e) :
         /\ \A s : ~Reached(Handed, d.queue, d.id, s)
         /\ consumer[d.queue] # Resting => consumer[d.queue].event.id # d.id
  BY <1>2, <1>3, SMT DEF PushIInv, PushOK, Reached, EventOK
<1>6. \A c, d \in inbound' : (c.queue = d.queue /\ c.id = d.id) => c = d
  BY <1>1, <1>2, <1>3, <1>4, SMT DEF PushIInv, PushOK
<1>7. PushOK(published', inbound', consumer', Handed')
  BY <1>1, <1>3, <1>5, <1>6 DEF PushIInv, PushOK
<1> QED
  BY <1>7, PushPrimed

(* A consumer takes up work that nobody else has done. *)
LEMMA ConsumerWorks ==
    ASSUME PushIInv, NEW q \in Queues, DOMAIN consumer' = Queues,
           \A r \in Queues : r # q => consumer'[r] = consumer[r],
           published' = published, inbound' \subseteq inbound, Handed' = Handed,
           ConsumerOK(q, consumer'[q], Handed),
           \E e \in published : e.id = consumer'[q].event.id,
           \A d \in inbound' : d.queue = q => consumer'[q].event.id # d.id
    PROVE  PushIInv'
<1>2. \A d \in inbound' :
         /\ EventOK(d) /\ \E e \in published' : e.id = d.id
         /\ \A s : ~Reached(Handed', d.queue, d.id, s)
  BY DEF PushIInv, PushOK
<1>3. \A d \in inbound' : consumer'[d.queue] # Resting => consumer'[d.queue].event.id # d.id
  BY DEF PushIInv, PushOK, EventOK
<1>4. \A r \in Queues : consumer'[r] # Resting =>
         /\ ConsumerOK(r, consumer'[r], Handed')
         /\ \E e \in published' : e.id = consumer'[r].event.id
  BY SMT DEF PushIInv, PushOK
<1>5. /\ published' \subseteq PushEvents
      /\ \A p \in Handed' : PayloadOK(p) /\ \E e \in published' : e.id = p.id
      /\ \A p, r \in Handed' : (p.session = r.session /\ p.id = r.id) => p = r
      /\ \A a, d \in inbound' : (a.queue = d.queue /\ a.id = d.id) => a = d
  BY DEF PushIInv, PushOK
<1>6. PushOK(published', inbound', consumer', Handed')
  BY <1>2, <1>3, <1>4, <1>5 DEF PushOK
<1> QED
  BY <1>6, PushPrimed

LEMMA SubscribedOnce ==
    ASSUME NEW users
    PROVE  /\ \A x \in Subscribed(users) : x = <<x[1], x[2]>> /\ UserOf[x[1]] \in users
           /\ \A x, y \in Subscribed(users) : x[1] = y[1] => x = y
  BY SMT DEF Subscribed

LEMMA ConsumeKeeps ==
    ASSUME PushIInv, NEW q \in Queues, NEW e \in inbound, consume_event(q, e)
    PROVE  PushIInv'
<1> DEFINE c == [event |-> e, members |-> Work(e).members, sessions |-> Work(e).sessions]
<1>1. /\ e.queue = q /\ inbound' = inbound \ {e} /\ consumer' = [consumer EXCEPT ![q] = c]
      /\ published' = published /\ Handed' = Handed
  BY DEF consume_event, Handed
<1>2. /\ EventOK(e) /\ \A s : ~Reached(Handed, q, e.id, s)
      /\ \E d \in published : d.id = e.id
  BY <1>1 DEF PushIInv, PushOK
<1>3. \/ q \in {"dm_call", "mass"} /\ Work(e).sessions = {}
      \/ /\ q \notin {"dm_call", "mass", "message"} /\ Work(e).members = {}
         /\ \E users : Work(e).sessions \subseteq Subscribed(users)
      \/ q = "message" /\ Work(e).members = {} /\ Work(e).sessions = Subscribed(e.users)
  BY <1>1 DEF Work, Queues, MessageConsumer, FRReceivedConsumer, FRAcceptedConsumer,
     GenericConsumer, AckConsumer
<1>4. /\ \A x \in Work(e).sessions : x = <<x[1], x[2]>> /\ UserOf[x[1]] \notin Work(e).members
      /\ \A x \in Work(e).sessions : q = "message" => UserOf[x[1]] \in e.users
      /\ \A x, y \in Work(e).sessions : x[1] = y[1] => x = y
  BY <1>3, SubscribedOnce, SMT
<1>5. \A x \in Work(e).sessions : Meant(q, e.id, UserOf[x[1]])
  BY <1>1, <1>2, <1>3, <1>4 DEF Meant, EventOK
<1>6. c.event = e /\ c.members = Work(e).members /\ c.sessions = Work(e).sessions
  OBVIOUS
<1>7. c = [event |-> c.event, members |-> c.members, sessions |-> c.sessions]
  OBVIOUS
<1> HIDE DEF c
<1>8. ConsumerOK(q, c, Handed)
  BY <1>1, <1>2, <1>4, <1>5, <1>6, <1>7 DEF ConsumerOK
<1>9. \A d \in inbound' : d.queue = q => c.event.id # d.id
  BY <1>1, <1>6 DEF PushIInv, PushOK
<1>10. /\ DOMAIN consumer' = Queues /\ consumer'[q] = c
       /\ \A r \in Queues : r # q => consumer'[r] = consumer[r]
  BY <1>1, ConsumerTo
<1>11. inbound' \subseteq inbound /\ \E d \in published : d.id = c.event.id
  BY <1>1, <1>2, <1>6
<1> QED
  BY <1>1, <1>8, <1>9, <1>10, <1>11, ConsumerWorks, SMT

(* The next members are looked up. *)
LEMMA LookUpKeeps ==
    ASSUME PushIInv, NEW q \in Queues, NEW chunk, NEW users, users \subseteq chunk,
           chunk \subseteq consumer[q].members, consumer[q] # Resting, DOMAIN consumer' = Queues,
           consumer'[q] = [consumer[q] EXCEPT !.members = @ \ chunk, !.sessions = Subscribed(users)],
           \A r \in Queues : r # q => consumer'[r] = consumer[r],
           \A u \in users : Meant(q, consumer[q].event.id, u),
           UNCHANGED <<published, inbound, outbound, notified>>
    PROVE  PushIInv'
<1> DEFINE old == consumer[q]
           c == [old EXCEPT !.members = @ \ chunk, !.sessions = Subscribed(users)]
<1>1. ConsumerOK(q, old, Handed) /\ \E e \in published : e.id = old.event.id
  BY DEF PushIInv, PushOK
<1>2. /\ c.event = old.event /\ c.members = old.members \ chunk /\ c.sessions = Subscribed(users)
      /\ c = [event |-> c.event, members |-> c.members, sessions |-> c.sessions]
  <2>1. old = [event |-> old.event, members |-> old.members, sessions |-> old.sessions]
    BY <1>1 DEF ConsumerOK
  <2> QED
    BY <2>1
<1>3. consumer'[q] = c
  OBVIOUS
<1> HIDE DEF c
<1>4. \A x \in Subscribed(users) :
         /\ x = <<x[1], x[2]>> /\ UserOf[x[1]] \in chunk
         /\ Meant(q, old.event.id, UserOf[x[1]])
         /\ ~Reached(Handed, q, old.event.id, x[1])
  BY <1>1, SubscribedOnce DEF ConsumerOK
<1>5. ConsumerOK(q, c, Handed)
  BY <1>1, <1>2, <1>4, SubscribedOnce, SMT DEF ConsumerOK
<1>6. \A d \in inbound' : d.queue = q => c.event.id # d.id
  BY <1>2, SMT DEF PushIInv, PushOK
<1>7. Handed' = Handed
  BY DEF Handed
<1> QED
  BY <1>1, <1>2, <1>3, <1>5, <1>6, <1>7, ConsumerWorks, SMT

LEMMA NextCalleeKeeps ==
    ASSUME PushIInv, NEW u, NextCallee(u)
    PROVE  PushIInv'
<1> DEFINE callee == {u}
<1>1. "dm_call" \in Queues /\ consumer["dm_call"] # Resting /\ callee \subseteq consumer["dm_call"].members
  BY SMT DEF Queues, NextCallee, Resting
<1>2. \A v \in callee : Meant("dm_call", consumer["dm_call"].event.id, v)
  BY DEF Meant
<1>3. /\ DOMAIN consumer' = Queues
      /\ consumer'["dm_call"] =
            [consumer["dm_call"] EXCEPT !.members = @ \ callee, !.sessions = Subscribed(callee)]
      /\ \A r \in Queues : r # "dm_call" => consumer'[r] = consumer[r]
  BY <1>1, ConsumerTo DEF NextCallee
<1>4. UNCHANGED <<published, inbound, outbound, notified>>
  BY DEF NextCallee
<1> HIDE DEF callee
<1> QED
  BY <1>1, <1>2, <1>3, <1>4, LookUpKeeps

LEMMA ChunkKeeps ==
    ASSUME PushIInv, NEW chunk \in SUBSET PUsers, MassMentionChunk(chunk)
    PROVE  PushIInv'
<1> DEFINE e == consumer["mass"].event
<1>1. "mass" \in Queues /\ consumer["mass"] # Resting /\ chunk \subseteq consumer["mass"].members
  BY SMT DEF Queues, MassMentionChunk, Resting
<1>2. EventOK(e) /\ e.queue = "mass"
  BY <1>1 DEF PushIInv, PushOK, ConsumerOK
<1>3. /\ ChunkTargets(e, chunk) \subseteq chunk
      /\ \A u \in ChunkTargets(e, chunk) : Meant("mass", e.id, u)
  BY <1>2 DEF ChunkTargets, EventOK, Meant
<1>4. /\ DOMAIN consumer' = Queues
      /\ consumer'["mass"] = [consumer["mass"] EXCEPT
            !.members = @ \ chunk, !.sessions = Subscribed(ChunkTargets(e, chunk))]
      /\ \A r \in Queues : r # "mass" => consumer'[r] = consumer[r]
  BY <1>1, ConsumerTo DEF MassMentionChunk
<1>5. UNCHANGED <<published, inbound, outbound, notified>>
  BY DEF MassMentionChunk
<1> QED
  BY <1>1, <1>3, <1>4, <1>5, LookUpKeeps

LEMMA PublishMessageKeeps ==
    ASSUME PushIInv, NEW q \in Queues, NEW x, publish_message(q, x)
    PROVE  PushIInv'
<1> DEFINE old == consumer[q]
           c == [old EXCEPT !.sessions = @ \ {x}]
           p == PayloadToService(q, x)
<1>1. old # Resting /\ x \in old.sessions
  BY SMT DEF publish_message, Resting
<1>2. ConsumerOK(q, old, Handed) /\ \E e \in published : e.id = old.event.id
  BY <1>1 DEF PushIInv, PushOK
<1>3. /\ Handed' = Handed \cup {p} /\ consumer' = [consumer EXCEPT ![q] = c]
      /\ UNCHANGED <<published, inbound>>
  BY DEF publish_message, Handed
<1>4. /\ c.event = old.event /\ c.members = old.members /\ c.sessions = old.sessions \ {x}
      /\ c = [event |-> c.event, members |-> c.members, sessions |-> c.sessions]
  <2>1. old = [event |-> old.event, members |-> old.members, sessions |-> old.sessions]
    BY <1>2 DEF ConsumerOK
  <2> QED
    BY <2>1, SMT
<1>5. /\ p.session = x[1] /\ p.via = q /\ p.id = old.event.id
      /\ p = [session |-> p.session, token |-> p.token, id |-> p.id, via |-> p.via, extras |-> p.extras]
  BY DEF PayloadToService
<1> HIDE DEF c, p
<1>6. /\ DOMAIN consumer' = Queues /\ consumer'[q] = c
      /\ \A r \in Queues : r # q => consumer'[r] = consumer[r]
  BY <1>3, ConsumerTo
<1>7. PayloadOK(p)
  BY <1>1, <1>2, <1>5 DEF PayloadOK, ConsumerOK, EventOK
<1>8. \A r \in Handed : r.session = x[1] => r.id # p.id
  <2> SUFFICES ASSUME NEW r \in Handed, r.session = x[1], r.id = p.id PROVE FALSE
    OBVIOUS
  <2>1. r.via # q
    BY <1>1, <1>2, <1>5 DEF ConsumerOK, Reached
  <2>2. PayloadOK(r)
    BY DEF PushIInv, PushOK
  <2> QED
    BY <1>5, <1>7, <2>1, <2>2, OneWay DEF PayloadOK
<1>9. ConsumerOK(q, c, Handed')
  <2>1. \A y \in c.sessions : y \in old.sessions /\ y[1] # x[1]
    BY <1>1, <1>2, <1>4 DEF ConsumerOK
  <2>2. \A s : s # x[1] /\ ~Reached(Handed, q, c.event.id, s) => ~Reached(Handed', q, c.event.id, s)
    BY <1>3, <1>5 DEF Reached
  <2>3. \A s : UserOf[s] \in c.members => s # x[1]
    BY <1>1, <1>2, <1>4 DEF ConsumerOK
  <2> QED
    BY <1>2, <1>4, <2>1, <2>2, <2>3 DEF ConsumerOK
<1>10. \A r \in Queues : r # q /\ consumer[r] # Resting => ConsumerOK(r, consumer[r], Handed')
  <2> SUFFICES ASSUME NEW r \in Queues, r # q, consumer[r] # Resting
               PROVE  ConsumerOK(r, consumer[r], Handed')
    OBVIOUS
  <2>1. \A i, s : ~Reached(Handed, r, i, s) => ~Reached(Handed', r, i, s)
    BY <1>3, <1>5 DEF Reached
  <2> QED
    BY <2>1 DEF PushIInv, PushOK, ConsumerOK
<1>11. \A d \in inbound :
          /\ \A s : ~Reached(Handed', d.queue, d.id, s)
          /\ consumer'[d.queue] # Resting => consumer'[d.queue].event.id # d.id
  <2> SUFFICES ASSUME NEW d \in inbound
               PROVE  /\ \A s : ~Reached(Handed', d.queue, d.id, s)
                      /\ consumer'[d.queue] # Resting => consumer'[d.queue].event.id # d.id
    OBVIOUS
  <2>1. EventOK(d) /\ d.queue \in Queues /\ \A s : ~Reached(Handed, d.queue, d.id, s)
    BY DEF PushIInv, PushOK, EventOK
  <2>2. consumer[d.queue] # Resting => consumer[d.queue].event.id # d.id
    BY DEF PushIInv, PushOK
  <2>3. d.queue = q => old.event.id # d.id
    BY <1>1, <2>2
  <2> QED
    BY <1>3, <1>4, <1>5, <1>6, <2>1, <2>2, <2>3, SMT DEF Reached
<1>12. /\ published' \subseteq PushEvents
       /\ \A r \in Handed' : PayloadOK(r) /\ \E e \in published' : e.id = r.id
       /\ \A a, d \in inbound' : (a.queue = d.queue /\ a.id = d.id) => a = d
       /\ \A d \in inbound' : EventOK(d) /\ \E e \in published' : e.id = d.id
  BY <1>2, <1>3, <1>5, <1>7 DEF PushIInv, PushOK
<1>13. \A a, r \in Handed' : (a.session = r.session /\ a.id = r.id) => a = r
  BY <1>3, <1>5, <1>8, SMT DEF PushIInv, PushOK
<1>14. \A r \in Queues : consumer'[r] # Resting =>
          /\ ConsumerOK(r, consumer'[r], Handed')
          /\ \E e \in published' : e.id = consumer'[r].event.id
  BY <1>2, <1>3, <1>4, <1>6, <1>9, <1>10 DEF PushIInv, PushOK
<1>15. PushOK(published', inbound', consumer', Handed')
  BY <1>3, <1>6, <1>11, <1>12, <1>13, <1>14 DEF PushOK
<1> QED
  BY <1>15, PushPrimed

LEMMA PushStepKeeps == PushIInv /\ [PushNext]_pushVars => PushIInv'
<1> SUFFICES ASSUME PushIInv, [PushNext]_pushVars PROVE PushIInv'
  OBVIOUS
<1>1. CASE \E e \in PushEvents : PublishEvent(e)
  BY <1>1, PublishEventKeeps
<1>2. CASE \E q \in Queues : \E e \in inbound : consume_event(q, e)
  BY <1>2, ConsumeKeeps
<1>3. CASE \E q \in Queues : \E x \in consumer[q].sessions : publish_message(q, x)
  BY <1>3, PublishMessageKeeps
<1>4. CASE (\E u \in PUsers : NextCallee(u)) \/ \E chunk \in SUBSET PUsers : MassMentionChunk(chunk)
  BY <1>4, NextCalleeKeeps, ChunkKeeps
<1>5. CASE \E q \in Queues : Finish(q)
  <2>1. PICK q \in Queues : Finish(q)
    BY <1>5
  <2>2. /\ DOMAIN consumer' = Queues /\ consumer'[q] = Resting
        /\ \A r \in Queues : r # q => consumer'[r] = consumer[r]
    BY <2>1, ConsumerTo DEF Finish
  <2>3. UNCHANGED <<published, inbound>> /\ Handed' = Handed
    BY <2>1 DEF Finish, Handed
  <2> QED
    BY <2>2, <2>3, FewerKeeps
<1>6. CASE RestartPushD
  <2>1. UNCHANGED <<published, inbound>> /\ Handed' = Handed
    BY <1>6 DEF RestartPushD, Handed
  <2>2. DOMAIN consumer' = Queues /\ \A q \in Queues : consumer'[q] = Resting
    BY <1>6 DEF RestartPushD
  <2> QED
    BY <2>1, <2>2, FewerKeeps
<1>7. CASE \/ \E p \in outbound, o \in {"accepted", "refused", "failed"} : Deliver(p, o)
           \/ \E p \in refused : remove_push_subscription_by_session_id(p)
           \/ \E s \in Sessions : Rotate(s) \/ subscribe(s) \/ unsubscribe(s)
           \/ \E u \in PUsers : ComesOnline(u)
           \/ UNCHANGED pushVars
  <2>1. UNCHANGED <<published, inbound, consumer>> /\ Handed' \subseteq Handed
    BY <1>7 DEF Deliver, remove_push_subscription_by_session_id, Rotate, subscribe, unsubscribe,
       ComesOnline, pushVars, Handed
  <2>2. DOMAIN consumer' = Queues
    BY <2>1 DEF PushIInv, PushOK
  <2> QED
    BY <2>1, <2>2, FewerKeeps
<1> QED
  BY <1>1, <1>2, <1>3, <1>4, <1>5, <1>6, <1>7 DEF PushNext

LEMMA PushInitOK == PushInit => PushIInv
  BY DEF PushInit, PushIInv, PushOK, Handed

(* A session is notified of an event at most once, for any users, sessions *)
(* and events: whether it is reached by the queue of the messages or that  *)
(* of the mass mentions is settled by whom the message names.              *)
THEOREM AlwaysNotifiedOnce == PushSpec => []NotifiedOnce
<1>1. PushIInv => NotifiedOnce
  BY DEF PushIInv, PushOK, NotifiedOnce, Handed
<1> QED
  BY <1>1, PushInitOK, PushStepKeeps, PTL DEF PushSpec
=============================================================================

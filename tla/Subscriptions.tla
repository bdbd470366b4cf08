---------------------------- MODULE Subscriptions ----------------------------
(***************************************************************************)
(* The mirror of subscriptions.  Earth Nexus, an external service, owns     *)
(* them; delta keeps a copy in the document of each user.  A background     *)
(* task refreshes stale copies in batches, and a route refreshes the one of *)
(* its caller.  Each refresh asks first and writes later.                   *)
(***************************************************************************)
EXTENDS Naturals, FiniteSets

CONSTANTS
    Subscribers,      \* the users
    Place,            \* Place[u]: where u comes in the collection
    Tiers,            \* tiers Nexus sells
    NexusOnly,        \* of those, tiers that delta does not know
    Refreshers,       \* callers of the refresh route
    BATCH_SIZE,       \* users per tick
    refresh_interval, \* age, in ticks, after which a copy is stale
    MaxChanges,       \* bound on changes at Nexus
    MaxFailures       \* bound on failed calls and writes

ASSUME SubscriptionsAssumption ==
    /\ Place \in [Subscribers -> Nat]
    /\ \A u, v \in Subscribers : Place[u] = Place[v] => u = v
    /\ NexusOnly \subseteq Tiers /\ "none" \notin Tiers
    /\ BATCH_SIZE \in Nat \ {0} /\ refresh_interval \in Nat \ {0}
    /\ MaxChanges \in Nat /\ MaxFailures \in Nat

VARIABLES
    nexus,     \* the tier of each user at Nexus, "none" without a subscription
    mirror,    \* the copies: tier, age of the last refresh, Stripe ids
    task,      \* users left in the batch, and the answer about to be written
    calls,     \* the answer each call of the route is about to write
    changes, failures, \* how often Nexus changed, and calls failed
    said       \* history: tiers Nexus gave for each user

subscriptionVars == <<nexus, mirror, task, calls, changes, failures, said>>

Never == refresh_interval + 1
Answers == Tiers \cup {"none"}
Nothing == [asked |-> FALSE]
Answer(u) == [asked |-> TRUE, user |-> u, answer |-> nexus[u]]

nexus_tier_to_company(t) == IF t \in NexusOnly \cup {"none"} THEN "Free" ELSE t

SubscriptionsInit ==
    /\ nexus \in [Subscribers -> Answers]
    /\ mirror = [u \in Subscribers |-> [tier |-> nexus_tier_to_company(nexus[u]), age |-> Never,
                                  customer |-> TRUE]]
    /\ task = [batch |-> {}, got |-> Nothing]
    /\ calls = [r \in Refreshers |-> Nothing]
    /\ changes = 0 /\ failures = 0
    /\ said = [u \in Subscribers |-> {nexus_tier_to_company(nexus[u])}]

SubscriptionsTypeOK ==
    /\ nexus \in [Subscribers -> Answers]
    /\ mirror \in [Subscribers -> [tier : Tiers \cup {"Free"}, age : 0..Never, customer : BOOLEAN]]
    /\ task = [batch |-> task.batch, got |-> task.got] /\ task.batch \subseteq Subscribers
    /\ calls = [r \in Refreshers |-> calls[r]]
    /\ said \in [Subscribers -> SUBSET (Tiers \cup {"Free"})]

------------------------------------------------------------------------------
(* Nexus: renewals, payment failures, cancellations. *)
NexusChanges(u, t) ==
    /\ changes < MaxChanges /\ t # nexus[u]
    /\ nexus' = [nexus EXCEPT ![u] = t]
    /\ changes' = changes + 1
    /\ said' = [said EXCEPT ![u] = @ \cup {nexus_tier_to_company(t)}]
    /\ UNCHANGED <<mirror, task, calls, failures>>

------------------------------------------------------------------------------
(* refresh_user_subscription_from_nexus, its two writes.  A subscription     *)
(* replaces the whole of the copy; none resets its tier.                    *)
Refreshed(u, answer) ==
    IF answer = "none" THEN [mirror[u] EXCEPT !.tier = "Free", !.age = 0]
    ELSE [tier |-> nexus_tier_to_company(answer), age |-> 0, customer |-> FALSE]

Write(u, answer) == mirror' = [mirror EXCEPT ![u] = Refreshed(u, answer)]

\* BUG VARIANT: a call that failed is taken for an answer without subscription.
FailureIsNone == "none"

(* What a failed call leaves to be written: nothing. *)
OnFailure == "skip"

Fails == failures < MaxFailures /\ failures' = failures + 1

------------------------------------------------------------------------------
(* The task. *)

\* BUG VARIANT: the batch is not limited to stale copies.
StaleAny(u) == TRUE

Stale(u) == mirror[u].age > refresh_interval

Before(v, u) == Place[v] < Place[u]

(* tick: the first stale users of the collection, and the time that went by *)
(* since the last one.                                                      *)
tick ==
    LET stale == {u \in Subscribers : Stale(u)} IN
    /\ task.batch = {}
    /\ task' = [task EXCEPT !.batch =
          {u \in stale : Cardinality({v \in stale : Before(v, u)}) < BATCH_SIZE}]
    /\ mirror' = [u \in Subscribers |-> [mirror[u] EXCEPT !.age = IF @ < Never THEN @ + 1 ELSE @]]
    /\ UNCHANGED <<nexus, calls, changes, failures, said>>

NextUp(u) == u \in task.batch /\ \A v \in task.batch : ~Before(v, u)
Passed(u) == task' = [batch |-> task.batch \ {u}, got |-> Nothing]

TaskAsks(u) ==
    /\ NextUp(u) /\ task.got = Nothing
    /\ task' = [task EXCEPT !.got = Answer(u)]
    /\ UNCHANGED <<nexus, mirror, calls, changes, failures, said>>

TaskWrites(u) ==
    /\ NextUp(u) /\ task.got # Nothing
    /\ Write(u, task.got.answer)
    /\ Passed(u)
    /\ UNCHANGED <<nexus, calls, changes, failures, said>>

(* The call or the write fails: logged, and on to the next user. *)
TaskFails(u) ==
    /\ NextUp(u) /\ Fails
    /\ IF OnFailure = "skip" THEN UNCHANGED mirror ELSE Write(u, OnFailure)
    /\ Passed(u)
    /\ UNCHANGED <<nexus, calls, changes, said>>

TaskStep == tick \/ \E u \in Subscribers : TaskAsks(u) \/ TaskWrites(u) \/ TaskFails(u)

------------------------------------------------------------------------------
(* POST users/@me/subscription-refresh. *)
refresh(r, u) ==
    /\ calls[r] = Nothing
    /\ calls' = [calls EXCEPT ![r] = Answer(u)]
    /\ UNCHANGED <<nexus, mirror, task, changes, failures, said>>

RefreshWrites(r) ==
    /\ calls[r] # Nothing
    /\ Write(calls[r].user, calls[r].answer)
    /\ calls' = [calls EXCEPT ![r] = Nothing]
    /\ UNCHANGED <<nexus, task, changes, failures, said>>

RefreshFails(r) ==
    /\ calls[r] # Nothing /\ Fails
    /\ calls' = [calls EXCEPT ![r] = Nothing]
    /\ UNCHANGED <<nexus, mirror, task, changes, said>>

SubscriptionsNext ==
    \/ \E u \in Subscribers, t \in Answers : NexusChanges(u, t)
    \/ TaskStep
    \/ \E r \in Refreshers : (\E u \in Subscribers : refresh(r, u)) \/ RefreshWrites(r) \/ RefreshFails(r)

SubscriptionsSafe == SubscriptionsInit /\ [][SubscriptionsNext]_subscriptionVars

(* An answer under way is one that Nexus gave for that user. *)
Given(a, u) == a.answer \in Answers /\ nexus_tier_to_company(a.answer) \in said[u]
AnswersGiven ==
    /\ \A u \in Subscribers : nexus_tier_to_company(nexus[u]) \in said[u]
    /\ task.batch = {} => task.got = Nothing
    /\ task.got # Nothing => \A u \in Subscribers : NextUp(u) => Given(task.got, u)
    /\ \A r \in Refreshers : calls[r] # Nothing => calls[r].user \in Subscribers
                                                   /\ Given(calls[r], calls[r].user)

------------------------------------------------------------------------------
(* The mirror as an eventually consistent copy of what Nexus says. *)
Mirrored == INSTANCE Replica WITH
    Key <- Subscribers, Value <- Tiers \cup {"Free"},
    truth <- [u \in Subscribers |-> nexus_tier_to_company(nexus[u])],
    given <- said,
    copy <- [u \in Subscribers |-> mirror[u].tier]

(* Every step of task, route and Nexus is a step of the copy or none: a      *)
(* copy is only ever given a tier that Nexus gave for this user, so that an *)
(* outage downgrades nobody (a failed call skips the write).                *)
MirrorIsReplica == Mirrored!Safe

(* Once Nexus has settled on a tier and answers, the copy agrees with it    *)
(* for good, whatever overtaken answers were written meanwhile (each copy   *)
(* grows stale and is fetched again), given that an interval has ticks      *)
(* enough for all users.                                                    *)
MirrorSettles == Mirrored!Follows

\* Refuted by TLC (see the known divergences in README.md):
(* A refresh keeps the Stripe customer of the copy (a returning subscriber   *)
(* does not get a fresh one on next checkout).                              *)
CustomerKept == \A u \in Subscribers : mirror[u].customer
=============================================================================

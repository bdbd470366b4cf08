------------------------------ MODULE MCTasks ------------------------------
(***************************************************************************)
(* Instances for TLC of what must come to an end: a worker of the unread     *)
(* counts commits what is queued, the subscriptions of two users follow     *)
(* Nexus (a batch of one, one refresh on demand, one failure), and gifbox   *)
(* serves three callers with one slot, two of which ask the same.  They     *)
(* share nothing; a behaviour exercises one.                                *)
(***************************************************************************)
EXTENDS Unreads, Subscriptions, Coalesced, TLC

CONSTANTS a, u1, u2, t1, t2, t3, r1

VARIABLE part   \* which of them this behaviour exercises

(* A message that mentions a user, and one to everyone. *)
MCKinds == {<<{u1}, FALSE>>, <<{}, TRUE>>}

MCPlace == u1 :> 1 @@ u2 :> 2

(* A search, and a later page of what is featured. *)
MCGifQueries == {[path |-> "search", text |-> "a", limit |-> 1, position |-> ""],
                 [path |-> "featured", text |-> "", limit |-> 1, position |-> "p2"]}
MCIds == {unique_key(q) : q \in GifQueries}

TasksInit ==
    /\ UnreadsInit /\ SubscriptionsInit /\ GifInit
    /\ part \in {"unreads", "subscriptions", "gifs"}
    /\ part # "subscriptions" => \A u \in Subscribers : nexus[u] = "Pro"
    /\ \A t \in {t1, t2} : query[t].path = "search"
    /\ part # "gifs" => query[t3].path = "search"

TasksNext ==
    /\ UNCHANGED part
    /\ \/ part = "unreads" /\ UnreadsNext /\ UNCHANGED <<subscriptionVars, gifVars>>
       \/ part = "subscriptions" /\ SubscriptionsNext /\ UNCHANGED <<unreadVars, gifVars>>
       \/ part = "gifs" /\ GifNext /\ UNCHANGED <<unreadVars, subscriptionVars>>

(* A worker's loop goes on, and an await that is ready is polled. *)
TasksSpec ==
    /\ TasksInit /\ [][TasksNext]_<<unreadVars, subscriptionVars, gifVars, part>>
    /\ \A w \in UWorkers : /\ WF_unreadVars(part = "unreads" /\ WorkerStep(w))
                           /\ SF_unreadVars(part = "unreads" /\ FindDueTasks(w))
    /\ WF_subscriptionVars(part = "subscriptions" /\ TaskStep)
    /\ \A r \in Refreshers : WF_subscriptionVars(part = "subscriptions" /\ RefreshWrites(r))
    /\ \A t \in Callers : WF_gifVars(part = "gifs" /\ Progress(t) /\ UNCHANGED <<query, caches, given>>)
=============================================================================

------------------------------ MODULE Coalesced ------------------------------
(***************************************************************************)
(* CoalescionService with the feature "queue" and no bound on the queue, as  *)
(* gifbox configures it: of the callers with one id one runs, and the       *)
(* others wait for its result; no more than max_concurrent run, and the     *)
(* rest queue up.                                                           *)
(*                                                                         *)
(* Each lock is held for one look or one write only, so callers come        *)
(* between.  A caller may vanish at any await: its client disconnects or    *)
(* its function panics.                                                     *)
(***************************************************************************)
EXTENDS Naturals, Sequences, FiniteSets

CONSTANTS
    Callers,         \* callers of execute, each calls once
    Ids,             \* ids of functions
    Nobody,          \* no caller
    max_concurrent

ASSUME CoalescedAssumption == Nobody \notin Callers /\ max_concurrent \in Nat \ {0}

VARIABLES
    watchers,  \* watchers[i]: whose run the receiver stored for i belongs to
    queue,     \* ids in the queue, in order
    queued,    \* queued[i]: whose receiver the queue stores for i
    call,      \* what each caller is at
    filled,      \* channels that hold a value
    answer,    \* answer[t]: whose run gave the result of t, Nobody when it is an error
    dropped,   \* history: callers that vanished
    doubled    \* history: ids queued by two callers at once

coalescedVars == <<watchers, queue, queued, call, filled, answer, dropped, doubled>>

At(t) == call[t].op
Goto(t, op) == call' = [call EXCEPT ![t].op = op]
RunOf(t) == <<"run", t>>
QueueOf(t) == <<"queue", t>>

CoalescedInit ==
    /\ watchers = [i \in Ids |-> Nobody]
    /\ queue = <<>> /\ queued = [i \in Ids |-> Nobody]
    /\ call \in [Callers -> {[op |-> "idle", id |-> i, on |-> RunOf(Nobody), queues |-> FALSE] : i \in Ids}]
    /\ filled = {} /\ answer = [t \in Callers |-> Nobody]
    /\ dropped = {} /\ doubled = {}

Ops == {"idle", "look", "look_queue", "enqueue", "spin", "shift", "insert", "run", "remove", "wait",
        "done", "failed", "gone"}

CoalescedTypeOK ==
    /\ watchers \in [Ids -> Callers \cup {Nobody}] /\ queued \in [Ids -> Callers \cup {Nobody}]
    /\ \A i \in 1..Len(queue) : queue[i] \in Ids
    /\ \A t \in Callers : call[t].op \in Ops /\ call[t].id \in Ids
    /\ answer \in [Callers -> Callers \cup {Nobody}]

Watched == {i \in Ids : watchers[i] # Nobody}

------------------------------------------------------------------------------
(* A look at the watchers: wait, queue up, or run. *)
execute(t) ==
    LET i == call[t].id IN
    /\ At(t) = "look"
    /\ call' = [call EXCEPT ![t] =
          IF watchers[i] # Nobody THEN [@ EXCEPT !.op = "wait", !.on = RunOf(watchers[i])]
          ELSE IF Cardinality(Watched) >= max_concurrent THEN [@ EXCEPT !.op = "look_queue"]
          ELSE [@ EXCEPT !.op = "insert"]]
    /\ UNCHANGED <<watchers, queue, queued, filled, answer, dropped, doubled>>

LookQueue(t) ==
    LET i == call[t].id IN
    /\ At(t) = "look_queue"
    /\ call' = [call EXCEPT ![t] =
          IF queued[i] # Nobody THEN [@ EXCEPT !.op = "wait", !.on = QueueOf(queued[i])]
          ELSE [@ EXCEPT !.op = "enqueue"]]
    /\ UNCHANGED <<watchers, queue, queued, filled, answer, dropped, doubled>>

(* Inserting an id that is there already keeps its place and replaces the   *)
(* receiver.                                                                *)
Enqueue(t) ==
    LET i == call[t].id IN
    /\ At(t) = "enqueue"
    /\ queue' = IF queued[i] = Nobody THEN Append(queue, i) ELSE queue
    /\ queued' = [queued EXCEPT ![i] = t]
    /\ doubled' = IF \E s \in Callers \ {t} : call[s].id = i /\ At(s) \in {"spin", "shift"}
                  THEN doubled \cup {i} ELSE doubled
    /\ call' = [call EXCEPT ![t].op = "spin", ![t].queues = TRUE]
    /\ UNCHANGED <<watchers, filled, answer, dropped>>

(* The loop: a slot is free and the id is the first of the queue. *)
Spin(t) ==
    /\ At(t) = "spin"
    /\ Cardinality(Watched) < max_concurrent
    /\ queue # <<>> /\ Head(queue) = call[t].id
    /\ Goto(t, "shift")
    /\ UNCHANGED <<watchers, queue, queued, filled, answer, dropped, doubled>>

shift_remove(t) ==
    LET i == call[t].id
        Others(j) == j # i
    IN
    /\ At(t) = "shift"
    /\ queue' = SelectSeq(queue, Others) /\ queued' = [queued EXCEPT ![i] = Nobody]
    /\ Goto(t, "insert")
    /\ UNCHANGED <<watchers, filled, answer, dropped, doubled>>

------------------------------------------------------------------------------
(* insert_and_execute. *)
InsertWatcher(t) ==
    /\ At(t) = "insert"
    /\ watchers' = [watchers EXCEPT ![call[t].id] = t]
    /\ Goto(t, "run")
    /\ UNCHANGED <<queue, queued, filled, answer, dropped, doubled>>

(* The function ends, with what was asked for or with an error of its own. *)
Run(t) ==
    /\ At(t) = "run"
    /\ \E result \in {t, Nobody} : answer' = [answer EXCEPT ![t] = result]
    /\ filled' = filled \cup {RunOf(t)}
    /\ Goto(t, "remove")
    /\ UNCHANGED <<watchers, queue, queued, dropped, doubled>>

Unwatch(i) == [watchers EXCEPT ![i] = Nobody]

\* BUG VARIANT: only the callers who found the run are told.
ChannelsOfRun(t) == {RunOf(t)}

(* A caller that came out of the queue tells those who found it there, too. *)
Channels(t) == IF call[t].queues THEN {RunOf(t), QueueOf(t)} ELSE {RunOf(t)}

RemoveWatcher(t) ==
    /\ At(t) = "remove"
    /\ watchers' = Unwatch(call[t].id)
    /\ filled' = filled \cup Channels(t)
    /\ Goto(t, "done")
    /\ UNCHANGED <<queue, queued, answer, dropped, doubled>>

------------------------------------------------------------------------------
(* wait_for: the value, or an error when the sender is gone without one. *)
wait_for(t) ==
    LET on == call[t].on IN
    /\ At(t) = "wait"
    /\ \/ /\ on \in filled
          /\ answer' = [answer EXCEPT ![t] = answer[on[2]]]
          /\ Goto(t, "done")
       \/ /\ on \notin filled /\ At(on[2]) = "gone"
          /\ Goto(t, "failed")
          /\ UNCHANGED answer
    /\ UNCHANGED <<watchers, queue, queued, filled, dropped, doubled>>

(* The future of a caller is dropped, or its function panics. *)
Vanish(t) ==
    /\ At(t) \notin {"idle", "done", "failed", "gone"}
    /\ Goto(t, "gone")
    /\ dropped' = dropped \cup {t}
    /\ UNCHANGED <<watchers, queue, queued, filled, answer, doubled>>

Progress(t) ==
    \/ execute(t) \/ LookQueue(t) \/ Enqueue(t) \/ Spin(t) \/ shift_remove(t)
    \/ InsertWatcher(t) \/ Run(t) \/ RemoveWatcher(t) \/ wait_for(t)

------------------------------------------------------------------------------
(* A watcher belongs to a run that is going on, so that nobody waits for one *)
(* that is over and no slot stays taken; what a vanished caller leaves is   *)
(* the exception.                                                           *)
WatchersAreRunning ==
    \A i \in Ids : watchers[i] \notin dropped \cup {Nobody}
        => At(watchers[i]) \in {"run", "remove"} /\ call[watchers[i]].id = i

(* Every call comes to an end, waiting for a run, in the queue or running,  *)
(* unless a caller vanished (what it leaves blocks the queue or the slots)  *)
(* or two callers queued the same id (the first to run takes the id out of  *)
(* the queue, and the other looks for it there for ever).                   *)
CallersServed ==
    \A t \in Callers :
        (At(t) = "look") ~> (At(t) \in {"done", "failed"} \/ dropped # {} \/ doubled # {})

-----------------------------------------------------------------------------
(***************************************************************************)
(* gifbox: searches, categories and featured GIFs of Tenor, an external      *)
(* service, through caches and the coalescion service.                      *)
(***************************************************************************)
CONSTANTS
    GifQueries  \* [path, text, limit, position]; position "" is the first page

VARIABLES
    query,   \* query[t]: what t asks
    caches,  \* caches[path][id]: the answer stored under id, or NoAnswer
    given    \* given[t]: what t was answered

gifVars == <<coalescedVars, query, caches, given>>

NoAnswer == [page |-> "none", limit |-> 0]
Paths == {"search", "categories", "featured"}

(* unique_key: that of a search is without the limit. *)
unique_key(q) ==
    <<q.path, q.text, q.position, IF q.path = "featured" THEN q.limit ELSE 0>>

(* What Tenor is asked for: the position is sent when it is empty, so that   *)
(* it is the first page always.                                             *)
request(q) == [page |-> "", limit |-> q.limit]

GifInit ==
    /\ CoalescedInit
    /\ query \in [Callers -> GifQueries]
    /\ \A t \in Callers : call[t].id = unique_key(query[t])
    /\ caches = [p \in Paths |-> [i \in Ids |-> NoAnswer]]
    /\ given = [t \in Callers |-> NoAnswer]

GifTypeOK == CoalescedTypeOK /\ \A t \in Callers : query[t] \in GifQueries

(* The cache a handler looks its key up in; featured looks whether the key  *)
(* is among the categories.                                                 *)
Cached(q) ==
    IF q.path = "featured" /\ caches["categories"][unique_key(q)] = NoAnswer THEN NoAnswer
    ELSE caches[q.path][unique_key(q)]

(* search, categories, featured: from the cache, or on to the service. *)
Begin(t) ==
    LET hit == Cached(query[t]) IN
    /\ At(t) = "idle"
    /\ Goto(t, IF hit = NoAnswer THEN "look" ELSE "done")
    /\ given' = [given EXCEPT ![t] = hit]
    /\ UNCHANGED <<watchers, queue, queued, filled, answer, dropped, doubled, query, caches>>

(* Everybody who got an answer stores it, nobody an error. *)
Store(t) ==
    LET response == request(query[answer[t]]) IN
    /\ At(t) = "done" /\ answer[t] # Nobody /\ given[t] = NoAnswer
    /\ given' = [given EXCEPT ![t] = response]
    /\ caches' = [caches EXCEPT ![query[t].path][call[t].id] = response]
    /\ UNCHANGED <<coalescedVars, query>>

Expires(p, i) ==
    /\ caches[p][i] # NoAnswer
    /\ caches' = [caches EXCEPT ![p][i] = NoAnswer]
    /\ UNCHANGED <<coalescedVars, query, given>>

GifNext ==
    \/ \E t \in Callers : \/ Begin(t) \/ Store(t)
                          \/ Progress(t) /\ UNCHANGED <<query, caches, given>>
                          \/ Vanish(t) /\ UNCHANGED <<query, caches, given>>
    \/ \E p \in Paths, i \in Ids : Expires(p, i)

\* Refuted by TLC (see the known divergences in README.md):
(* A caller is given the page and the number of results it asked for: the    *)
(* position is the value for getting the next page of results, the limit    *)
(* the amount of results to respond with.                                   *)
AnswersAsAsked ==
    \A t \in Callers : given[t] # NoAnswer =>
        given[t] = [page |-> query[t].position, limit |-> query[t].limit]
=============================================================================

---------------------------- MODULE BrokerQueue ----------------------------
(***************************************************************************)
(* The per-device queues of the messaging broker (core/database/broker):   *)
(* queue_offline_message counts a push against the sender's budgets and    *)
(* appends to the device's Redis list, drain_offline_queue reads the list  *)
(* and deletes it.  Both are several Redis commands, so pushes, drains and *)
(* key expiry interleave.  push_sync_envelope and drain_sync_envelopes     *)
(* have the same shape, with the source device's counter alone as budget.  *)
(***************************************************************************)
EXTENDS Integers, Sequences, FiniteSets, Functions

CONSTANTS
    Pushes,         \* push calls; each carries a message of its own
    Drains,         \* drain calls
    Queues,         \* queue keys: one per device session
    TargetOf,       \* the queue of each push and each drain
    Counters,       \* rate-limit counters
    CountersOf,     \* the counters a push is charged to
    Limit,          \* RATE_LIMIT_*: accepted pushes per counter and window
    MaxDepth,       \* OFFLINE_QUEUE_MAX_DEPTH
    MaxConcurrent   \* bound: pushes in progress at a time

ASSUME QueueAssumptions ==
    /\ IsFiniteSet(Pushes)
    /\ TargetOf \in [Pushes \cup Drains -> Queues]
    /\ CountersOf \in [Pushes -> SUBSET Counters]
    /\ Limit \in [Counters -> Nat]
    /\ MaxDepth \in Nat
    /\ MaxConcurrent \in Nat \ {0}

VARIABLES
    queue,      \* the Redis list of each queue key
    lasting,    \* queue keys whose EXPIRE has been set
    count,      \* rate counters; 0 when the key is absent
    windowed,   \* counters whose EXPIRE has been set
    push,       \* where each push is
    over,       \* whether a push found a counter over its limit
    first,      \* counters a push found at 1 after its INCR
    was_empty,  \* whether a push read depth 0
    drain,      \* where each drain is
    got,        \* what a drain has read
    before,     \* the drains that had returned when a drain began
    accepted,   \* pushes let through since the counter's window began
    expired     \* messages whose queue key expired or was deleted

queueVars == <<queue, lasting, expired>>
pushVars == <<count, windowed, push, over, first, was_empty, accepted>>
drainVars == <<drain, got, before>>
brokerQueueVars == <<queueVars, pushVars, drainVars>>

InFlight == {p \in Pushes : push[p] \in {"counted", "granted", "appended"}}
Content(s) == {s[i] : i \in 1..Len(s)}

TypeOK ==
    /\ queue \in [Queues -> Seq(Pushes)]
    /\ lasting \subseteq Queues
    /\ count \in [Counters -> Nat]
    /\ windowed \subseteq Counters
    /\ push \in [Pushes -> {"idle", "counted", "granted", "appended", "ok", "err"}]
    /\ over \in [Pushes -> BOOLEAN]
    /\ first \in [Pushes -> SUBSET Counters]
    /\ was_empty \in [Pushes -> BOOLEAN]
    /\ drain \in [Drains -> {"idle", "read", "done"}]
    /\ got \in [Drains -> Seq(Pushes)]
    /\ before \in [Drains -> SUBSET Drains]
    /\ accepted \in [Counters -> Nat]
    /\ expired \subseteq Pushes
    /\ \A q \in lasting : queue[q] # <<>>
    /\ \A k \in windowed : count[k] > 0

QueueInit ==
    /\ queue = [q \in Queues |-> <<>>]
    /\ lasting = {}
    /\ count = [k \in Counters |-> 0]
    /\ windowed = {}
    /\ push = [p \in Pushes |-> "idle"]
    /\ over = [p \in Pushes |-> FALSE]
    /\ first = [p \in Pushes |-> {}]
    /\ was_empty = [p \in Pushes |-> FALSE]
    /\ drain = [d \in Drains |-> "idle"]
    /\ got = [d \in Drains |-> <<>>]
    /\ before = [d \in Drains |-> {}]
    /\ accepted = [k \in Counters |-> 0]
    /\ expired = {}

-----------------------------------------------------------------------------
(* queue_offline_message *)
PushStep(p, from, to) ==
    /\ push[p] = from
    /\ push' = [push EXCEPT ![p] = to]
    /\ UNCHANGED drainVars

(* A message over OFFLINE_QUEUE_MAX_MESSAGE_BYTES is refused before anything. *)
PushTooLarge(p) ==
    /\ PushStep(p, "idle", "err")
    /\ UNCHANGED <<queueVars, count, windowed, over, first, was_empty, accepted>>

(* The read pipeline: INCR of the counters, ... *)
OverLimitOffByOne(p, c) == \E k \in CountersOf[p] : c[k] > Limit[k] + 1

OverLimit(p, c) == \E k \in CountersOf[p] : c[k] > Limit[k]

PushCount(p) ==
    LET c == [k \in Counters |-> IF k \in CountersOf[p] THEN count[k] + 1 ELSE count[k]]
    IN
    /\ Cardinality(InFlight) < MaxConcurrent
    /\ PushStep(p, "idle", "counted")
    /\ count' = c
    /\ over' = [over EXCEPT ![p] = OverLimit(p, c)]
    /\ first' = [first EXCEPT ![p] = {k \in CountersOf[p] : c[k] = 1}]
    /\ accepted' = [k \in Counters |->
           IF k \in CountersOf[p] /\ ~OverLimit(p, c) THEN accepted[k] + 1 ELSE accepted[k]]
    /\ UNCHANGED <<queueVars, windowed, was_empty>>

(* ... then LLEN.  The limits are checked on the values of this pipeline. *)
Full(depth) == depth >= MaxDepth

PushDepth(p) ==
    LET depth == Len(queue[TargetOf[p]]) IN
    /\ PushStep(p, "counted", IF over[p] \/ Full(depth) THEN "err" ELSE "granted")
    /\ was_empty' = [was_empty EXCEPT ![p] = depth = 0]
    /\ UNCHANGED <<queueVars, count, windowed, over, first, accepted>>

(* The write pipeline: EXPIRE of the counters found at 1 (without effect on a
   key that is gone) and RPUSH, ... *)
PushAppend(p) ==
    /\ PushStep(p, "granted", "appended")
    /\ windowed' = windowed \cup {k \in first[p] : count[k] > 0}
    /\ queue' = [queue EXCEPT ![TargetOf[p]] = Append(@, p)]
    /\ UNCHANGED <<lasting, expired, count, over, first, was_empty, accepted>>

(* ... then EXPIRE of a queue found empty. *)
PushExpire(p) ==
    /\ PushStep(p, "appended", "ok")
    /\ lasting' = IF was_empty[p] /\ queue[TargetOf[p]] # <<>>
                  THEN lasting \cup {TargetOf[p]} ELSE lasting
    /\ UNCHANGED <<queue, expired, count, windowed, over, first, was_empty, accepted>>

(* The write pipeline does not reach Redis: InternalError. *)
PushLost(p) ==
    /\ PushStep(p, "granted", "err")
    /\ UNCHANGED <<queueVars, count, windowed, over, first, was_empty, accepted>>

-----------------------------------------------------------------------------
(* drain_offline_queue: LRANGE, ... *)
DrainRead(d) ==
    /\ drain[d] = "idle"
    /\ got' = [got EXCEPT ![d] = queue[TargetOf[d]]]
    /\ drain' = [drain EXCEPT ![d] = IF queue[TargetOf[d]] = <<>> THEN "done" ELSE "read"]
    /\ before' = [before EXCEPT ![d] = {e \in Drains : drain[e] = "done"}]
    /\ UNCHANGED <<queueVars, pushVars>>

(* ... then DEL when something was read. *)
DrainDelete(d) ==
    /\ drain[d] = "read"
    /\ drain' = [drain EXCEPT ![d] = "done"]
    /\ queue' = [queue EXCEPT ![TargetOf[d]] = <<>>]
    /\ lasting' = lasting \ {TargetOf[d]}
    /\ UNCHANGED <<expired, pushVars, got, before>>

(* DEL of a queue key: its device is evicted, pruned or forgotten. *)
DropQueue(q) ==
    /\ queue' = [queue EXCEPT ![q] = <<>>]
    /\ lasting' = lasting \ {q}
    /\ expired' = expired \cup Content(queue[q])

-----------------------------------------------------------------------------
(* Redis removes a key whose time to live has passed. *)
ExpireQueue(q) ==
    /\ q \in lasting
    /\ DropQueue(q)
    /\ UNCHANGED <<pushVars, drainVars>>

ExpireCounter(k) ==
    /\ k \in windowed
    /\ count' = [count EXCEPT ![k] = 0]
    /\ windowed' = windowed \ {k}
    /\ accepted' = [accepted EXCEPT ![k] = 0]
    /\ UNCHANGED <<queueVars, push, over, first, was_empty, drainVars>>

QueueNext ==
    \/ \E p \in Pushes :
          \/ PushTooLarge(p) \/ PushCount(p) \/ PushDepth(p)
          \/ PushAppend(p) \/ PushExpire(p) \/ PushLost(p)
    \/ \E d \in Drains : DrainRead(d) \/ DrainDelete(d)
    \/ \E q \in Queues : ExpireQueue(q)
    \/ \E k \in Counters : ExpireCounter(k)

QueueSpec == QueueInit /\ [][QueueNext]_brokerQueueVars

-----------------------------------------------------------------------------
(* "Maximum offline messages a sender may queue ... per window": the counters
   let no more than their limit through before they expire, whatever the
   interleaving and whichever of the recipient's devices the pushes go to. *)
RateRespected == \A k \in Counters : accepted[k] <= Limit[k]

(* The depth check and the RPUSH are apart, so concurrent pushes overshoot
   OFFLINE_QUEUE_MAX_DEPTH; by no more than the pushes in progress. *)
GrantedTo(q) == {p \in Pushes : push[p] = "granted" /\ TargetOf[p] = q}

OvershootBounded ==
    \A q \in Queues :
        Len(queue[q]) + Cardinality(GrantedTo(q)) <= MaxDepth + MaxConcurrent - 1

(* "a second drain immediately after will return an empty list": a drain that
   begins after another returned gives back none of its messages. *)
NoRedelivery ==
    \A d \in Drains : \A e \in before[d] :
        Content(got[d]) \cap Content(got[e]) = {}

-----------------------------------------------------------------------------
\* Refuted by TLC (see the known divergences in README.md):
(* "Returns the messages and deletes that session's queue atomically": every
   message queued with success is in the queue or returned by a drain, unless
   the queue's time to live passed. *)
NoMessageLost ==
    \A p \in Pushes :
        push[p] = "ok" =>
            \/ p \in expired
            \/ p \in Content(queue[TargetOf[p]])
            \/ \E d \in Drains : p \in Content(got[d])

-----------------------------------------------------------------------------
(***************************************************************************)
(* The broker's sync queue of one device: other devices of the same user     *)
(* push envelopes, the device drains them.  A push is two Redis pipelines,   *)
(* a drain two commands; keys expire.  Each device has one hourly counter.  *)
(***************************************************************************)
CONSTANTS
    Sources,                       \* the sessions that push
    Drainers,                      \* drains by the destination, at a time
    SYNC_MAX_ENVELOPES_PER_QUEUE,
    SYNC_RATE_LIMIT_PER_HOUR,
    MaxEnvelopes,                  \* bound on the envelopes
    MaxExpiries,                   \* bound on keys expiring
    MaxDrains                      \* bound on the drains

ASSUME SyncAssumption ==
    {SYNC_MAX_ENVELOPES_PER_QUEUE, SYNC_RATE_LIMIT_PER_HOUR, MaxEnvelopes, MaxExpiries, MaxDrains}
        \subseteq Nat

VARIABLES
    syncQueue,      \* the list of the destination, and whether it has a time to live
    rate,       \* rate[s]: the counter of s, and whether it has one
    pushing,    \* pushing[s]: the push of s between its two pipelines
    draining,   \* draining[d]: what a drain has read
    taken,      \* envelopes whose push was answered with Ok
    delivered,  \* the envelopes drained, in order
    gone,       \* history: expired, or pushed while a drain was between its commands
    syncBounds

syncVars == <<syncQueue, rate, pushing, draining, taken, delivered, gone, syncBounds>>

NoPush == [at |-> "none"]
NoDrain == [at |-> "none"]

SyncInit ==
    /\ syncQueue = [list |-> <<>>, ttl |-> FALSE]
    /\ rate = [s \in Sources |-> [count |-> 0, ttl |-> FALSE]]
    /\ pushing = [s \in Sources |-> NoPush]
    /\ draining = [d \in Drainers |-> NoDrain]
    /\ taken = 0 /\ delivered = <<>> /\ gone = {}
    /\ syncBounds = [expiries |-> 0, drains |-> 0]

SyncTypeOK ==
    /\ syncQueue.ttl \in BOOLEAN /\ Range(syncQueue.list) \subseteq 1 .. MaxEnvelopes
    /\ taken \in 0 .. MaxEnvelopes /\ gone \subseteq 1 .. taken
    /\ \A s \in Sources : rate[s].count \in Nat

(* POST devices/sync/push: to another device of the user.  Pushes far over   *)
(* the limit, which only count, are left out.                               *)
sync_push(s) ==
    /\ pushing[s] = NoPush /\ rate[s].count <= SYNC_RATE_LIMIT_PER_HOUR
    /\ pushing' = [pushing EXCEPT ![s] = [at |-> "read"]]
    /\ UNCHANGED <<syncQueue, rate, draining, taken, delivered, gone, syncBounds>>

(* INCR and LLEN; a push over a limit is refused, and has been counted. *)
ReadPipeline(s) ==
    LET n == rate[s].count + 1
        depth == Len(syncQueue.list)
        goes == n <= SYNC_RATE_LIMIT_PER_HOUR /\ depth < SYNC_MAX_ENVELOPES_PER_QUEUE
    IN
    /\ pushing[s].at = "read"
    /\ rate' = [rate EXCEPT ![s].count = n]
    /\ pushing' = [pushing EXCEPT ![s] = IF goes THEN [at |-> "write", first |-> (n = 1),
                                                       empty |-> (depth = 0)]
                                         ELSE NoPush]
    /\ UNCHANGED <<syncQueue, draining, taken, delivered, gone, syncBounds>>

(* EXPIRE of the counter if it was the first, RPUSH, EXPIRE of the list if   *)
(* it was empty.                                                            *)
push_sync_envelope(s) ==
    LET r == pushing[s]
        e == taken + 1
    IN
    /\ r.at = "write" /\ taken < MaxEnvelopes
    /\ taken' = e
    /\ rate' = [rate EXCEPT ![s].ttl = @ \/ (r.first /\ rate[s].count > 0)]
    /\ syncQueue' = [list |-> Append(syncQueue.list, e), ttl |-> (syncQueue.ttl \/ r.empty)]
    /\ gone' = IF \E d \in Drainers : draining[d] # NoDrain THEN gone \cup {e} ELSE gone
    /\ pushing' = [pushing EXCEPT ![s] = NoPush]
    /\ UNCHANGED <<draining, delivered, syncBounds>>

(* The push is cut off between its pipelines. *)
PushFails(s) ==
    /\ pushing[s] # NoPush
    /\ pushing' = [pushing EXCEPT ![s] = NoPush]
    /\ UNCHANGED <<syncQueue, rate, draining, taken, delivered, gone, syncBounds>>

------------------------------------------------------------------------------
\* BUG VARIANT: the range ends one too early.
AllButLast(list) == IF list = <<>> THEN list ELSE SubSeq(list, 1, Len(list) - 1)

(* LRANGE 0 -1. *)
lrange(list) == list

(* GET devices/sync/drain. *)
sync_drain(d) ==
    /\ draining[d] = NoDrain /\ syncQueue.list # <<>> /\ syncBounds.drains < MaxDrains
    /\ draining' = [draining EXCEPT ![d] = [at |-> "read", list |-> lrange(syncQueue.list)]]
    /\ syncBounds' = [syncBounds EXCEPT !.drains = @ + 1]
    /\ UNCHANGED <<syncQueue, rate, pushing, taken, delivered, gone>>

(* The list is deleted and what was read returned.  What another drain has   *)
(* returned before is not noted twice.                                      *)
drain_sync_envelopes(d) ==
    /\ draining[d] # NoDrain
    /\ syncQueue' = [list |-> <<>>, ttl |-> FALSE]
    /\ delivered' = delivered \o SelectSeq(draining[d].list, LAMBDA e : e \notin Range(delivered))
    /\ draining' = [draining EXCEPT ![d] = NoDrain]
    /\ UNCHANGED <<rate, pushing, taken, gone, syncBounds>>

(* DEL fails: an error is answered and the list stays. *)
DrainFails(d) ==
    /\ draining[d] # NoDrain
    /\ draining' = [draining EXCEPT ![d] = NoDrain]
    /\ UNCHANGED <<syncQueue, rate, pushing, taken, delivered, gone, syncBounds>>

Expires ==
    /\ syncBounds.expiries < MaxExpiries
    /\ syncBounds' = [syncBounds EXCEPT !.expiries = @ + 1]

QueueExpires ==
    /\ syncQueue.ttl /\ Expires
    /\ gone' = gone \cup Range(syncQueue.list)
    /\ syncQueue' = [list |-> <<>>, ttl |-> FALSE]
    /\ UNCHANGED <<rate, pushing, draining, taken, delivered>>

HourEnds(s) ==
    /\ rate[s].ttl /\ Expires
    /\ rate' = [rate EXCEPT ![s] = [count |-> 0, ttl |-> FALSE]]
    /\ UNCHANGED <<syncQueue, pushing, draining, taken, delivered, gone>>

SyncNext ==
    \/ \E s \in Sources : \/ sync_push(s) \/ ReadPipeline(s) \/ push_sync_envelope(s)
                          \/ PushFails(s) \/ HourEnds(s)
    \/ \E d \in Drainers : sync_drain(d) \/ drain_sync_envelopes(d) \/ DrainFails(d)
    \/ QueueExpires

------------------------------------------------------------------------------
(* Every envelope whose push was answered with Ok is queued, or the device   *)
(* gets it, and gets them in the order they were pushed.  Excepted are       *)
(* envelopes that expired, and those pushed between a drain's LRANGE and its *)
(* DEL, which deletes them unread although the drain is called atomic.      *)
EnvelopesAccounted ==
    /\ \A e \in 1 .. taken :
          e \in Range(syncQueue.list) \cup Range(delivered) \cup gone
            \cup UNION {Range(draining[d].list) : d \in {x \in Drainers : draining[x] # NoDrain}}
    /\ \A i, j \in DOMAIN delivered :
          i < j => delivered[i] < delivered[j] \/ {delivered[i], delivered[j]} \cap gone # {}
=============================================================================

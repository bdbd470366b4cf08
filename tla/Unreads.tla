------------------------------ MODULE Unreads -------------------------------
(***************************************************************************)
(* What a user has read in one channel: the channel_unreads documents, and *)
(* the debounced workers that write them.                                  *)
(*                                                                         *)
(* Requests push events to a bounded queue that several workers of one     *)
(* process share.  A worker keeps what it pops as one delayed task per     *)
(* key (an acknowledgement per user, the new messages per channel) and     *)
(* commits a task when it is due.  A task is an ordinary value of the      *)
(* worker: a worker that panics takes its tasks along.                     *)
(***************************************************************************)
EXTENDS Integers, Sequences, FiniteSets, SequencesExt

CONSTANTS
    UUsers,                       \* users of the channel
    UWorkers,                     \* ack::worker tasks (WORKER_COUNT)
    Process,                      \* the key of the channel's new messages
    MaxSent,                      \* bound on the messages sent
    Kinds,                        \* what a message may mention: users, and whether
                                  \* also everyone or a role
    MaxRare,                      \* bound on the rare events of a behaviour
    QueueCapacity,                \* slots of the queue Q
    Expire,                       \* rounds after which a task runs in any case
    process_message_delay_limit   \* messages that may delay a task

ASSUME UnreadsAssumption ==
    /\ Process \notin UUsers
    /\ Kinds \subseteq (SUBSET UUsers) \X BOOLEAN
    /\ {MaxSent, MaxRare, QueueCapacity, Expire, process_message_delay_limit} \subseteq Nat

VARIABLES
    sent,      \* the messages sent: the users each one mentions, and whether
               \* it mentions everyone or a role
    Q,         \* the queue of events
    tasks,     \* tasks[w][k]: the delayed task worker w has for key k
    worker,    \* worker[w]: where w is in its loop, and what it holds
    unread,    \* unread[u]: the document of user u for the channel
    marking,   \* marking[u]: a request of u to mark the server as read
    exists,    \* whether the channel exists
    rare,      \* rare events so far: servers marked as read, deletions, failures
    acked,     \* acked[u]: the newest message the client of u acknowledged
    settled,   \* mentions pulled by an acknowledgement, or lost to an error
    excused    \* users whose acknowledgements were lost, or with two holders at once

unreadVars == <<sent, Q, tasks, worker, unread, marking, exists, rare, acked, settled, excused>>

Keys == UUsers \cup {Process}
NoTask == [events |-> <<>>, age |-> 0]
NoUnread == [found |-> FALSE, last_id |-> 0, mentions |-> <<>>]
Draining == [at |-> "drain"]

AckMessage(u, m) == [key |-> u, id |-> m]
ProcessMessage(m) == [key |-> Process, id |-> m]

UnreadsInit ==
    /\ sent = <<>> /\ Q = <<>> /\ exists = TRUE /\ rare = 0
    /\ tasks = [w \in UWorkers |-> [k \in Keys |-> NoTask]]
    /\ worker = [w \in UWorkers |-> Draining]
    /\ unread = [u \in UUsers |-> NoUnread]
    /\ marking = [u \in UUsers |-> -1]
    /\ acked = [u \in UUsers |-> 0]
    /\ settled = {} /\ excused = {}

UnreadsTypeOK ==
    /\ Len(sent) <= MaxSent /\ Len(Q) <= QueueCapacity
    /\ \A u \in UUsers : /\ unread[u].last_id \in 0 .. MaxSent
                         /\ marking[u] \in -1 .. MaxSent
    /\ settled \subseteq UUsers \X (1 .. MaxSent) /\ excused \subseteq UUsers

------------------------------------------------------------------------------
(* DelayedTask.  Its age counts the rounds of the worker since it was first *)
(* seen: a round sleeps for a second, and a task whose age is Expire (the   *)
(* EXPIRE_CONSTANT) runs however lately it changed.                         *)
NewTask(e) == [events |-> <<e>>, age |-> 0]

\* BUG VARIANT: a change also restarts the time a task may take at most.
DelayRestarts(t) == [t EXCEPT !.age = 0]

(* Only last_updated moves. *)
Delay(t) == t

Grow(t) == IF t = NoTask \/ t.age = Expire THEN t ELSE [t EXCEPT !.age = @ + 1]

run_immediately(t) == [t EXCEPT !.age = Expire]

(* should_run: what has expired, and any task that has not changed lately. *)
DueSets(w) ==
    LET held == {k \in Keys : tasks[w][k] # NoTask} IN
    {due \in SUBSET held : \A k \in held : tasks[w][k].age = Expire => k \in due}

------------------------------------------------------------------------------
Rare == rare < MaxRare /\ rare' = rare + 1

Mentioned(m) == sent[m].mentions
Mentions(e) == IF e.key = Process THEN {<<u, e.id>> : u \in Mentioned(e.id)} ELSE {}

(* try_push drops the event when the queue is full. *)
HasRoom == Len(Q) < QueueCapacity

(* Message::send queues the users the message mentions. *)
send(to, mass) ==
    /\ exists /\ Len(sent) < MaxSent
    /\ sent' = Append(sent, [mentions |-> to, mass |-> mass])
    /\ Q' = IF HasRoom THEN Append(Q, ProcessMessage(Len(sent) + 1)) ELSE Q
    /\ settled' = IF HasRoom THEN settled
                  ELSE settled \cup {<<u, Len(sent) + 1>> : u \in to}
    /\ UNCHANGED <<tasks, worker, unread, marking, exists, rare, acked, excused>>

(* PUT ack: a client acknowledges the newest message it shows, and may do  *)
(* so again and again.                                                     *)
ack(u, m) ==
    /\ exists
    /\ m \in 1 .. Len(sent) /\ m >= acked[u]
    /\ acked' = [acked EXCEPT ![u] = m]
    /\ Q' = IF HasRoom THEN Append(Q, AckMessage(u, m)) ELSE Q
    /\ excused' = IF HasRoom THEN excused ELSE excused \cup {u}
    /\ UNCHANGED <<sent, tasks, worker, unread, marking, exists, rare, settled>>

(* acknowledge_channels deletes the document, and then inserts one whose   *)
(* marker is newer than any message.                                       *)
acknowledge_channels(u) ==
    /\ exists /\ marking[u] = -1 /\ Rare
    /\ marking' = [marking EXCEPT ![u] = Len(sent)]
    /\ unread' = [unread EXCEPT ![u] = NoUnread]
    /\ settled' = settled \cup {<<u, m>> : m \in ToSet(unread[u].mentions)}
    /\ excused' = excused \cup {u}
    /\ UNCHANGED <<sent, Q, tasks, worker, exists, acked>>

(* The insert fails when a worker has upserted a document in between. *)
InsertMarker(u) ==
    /\ marking[u] >= 0
    /\ unread' = IF unread[u].found THEN unread
                 ELSE [unread EXCEPT ![u] = [found |-> TRUE, last_id |-> marking[u],
                                             mentions |-> <<>>]]
    /\ marking' = [marking EXCEPT ![u] = -1]
    /\ UNCHANGED <<sent, Q, tasks, worker, exists, rare, acked, settled, excused>>

(* The channel and its unreads are deleted. *)
delete_channel ==
    /\ exists /\ sent # <<>> /\ Rare
    /\ exists' = FALSE
    /\ unread' = [u \in UUsers |-> NoUnread]
    /\ settled' = settled \cup {<<u, m>> : u \in UUsers, m \in DOMAIN sent}
    /\ excused' = UUsers
    /\ UNCHANGED <<sent, Q, tasks, worker, marking, acked>>

------------------------------------------------------------------------------
(* The worker goes on with the due tasks it has not committed yet, and     *)
(* then with the queue.                                                    *)
Resume(keys) == IF keys = {} THEN Draining ELSE [at |-> "commit", keys |-> keys]

(* The queue is empty: the worker sleeps, and looks for due tasks. *)
FindDueTasks(w) ==
    /\ worker[w] = Draining /\ Q = <<>>
    /\ \E k \in Keys : tasks[w][k] # NoTask
    /\ \E due \in DueSets(w) : worker' = [worker EXCEPT ![w] = Resume(due)]
    /\ tasks' = [tasks EXCEPT ![w] = [k \in Keys |-> Grow(tasks[w][k])]]
    /\ UNCHANGED <<sent, Q, unread, marking, exists, rare, acked, settled, excused>>

Resumed(w) == [worker EXCEPT ![w] = Resume(worker[w].keys)]

(* One due task after the other is removed from the map, in the order of a  *)
(* hash map.                                                                *)
WithoutTask(w, k) ==
    /\ worker[w].at = "commit" /\ k \in worker[w].keys
    /\ tasks' = [tasks EXCEPT ![w][k] = NoTask]

Pull(n, m) == LET Newer(x) == x > m IN SelectSeq(n, Newer)

(* acknowledge_message: one update that pulls the mentions and sets the     *)
(* marker.  The document fetched before it only decides whether the user's  *)
(* devices are told, which is left out.  A failing read or write ends the   *)
(* task.                                                                    *)
AcknowledgeMessage(w, u) ==
    LET m == Head(tasks[w][u].events).id
        left == Pull(unread[u].mentions, m)
    IN
    /\ WithoutTask(w, u)
    /\ \/ /\ unread' = [unread EXCEPT ![u] = [found |-> TRUE, last_id |-> m, mentions |-> left]]
          /\ settled' = settled \cup
                {<<u, x>> : x \in ToSet(unread[u].mentions) \ ToSet(left)}
          /\ UNCHANGED <<rare, excused>>
       \/ /\ Rare
          /\ excused' = excused \cup {u}
          /\ UNCHANGED <<unread, settled>>
    /\ worker' = [worker EXCEPT ![w] = Resume(worker[w].keys \ {u})]
    /\ UNCHANGED <<sent, Q, marking, exists, acked>>

(* The users the messages of the task mention are collected first. *)
TakeMessages(w) ==
    /\ WithoutTask(w, Process)
    /\ worker' = [worker EXCEPT ![w] =
          LET es == tasks[w][Process].events IN
          [at |-> "mention", keys |-> worker[w].keys \ {Process}, events |-> es,
           users |-> UNION {Mentioned(es[i].id) : i \in DOMAIN es}]]
    /\ UNCHANGED <<sent, Q, unread, marking, exists, rare, acked, settled, excused>>

(* add_mention_to_unread for one of the users found in the task's messages. *)
AddMention(w) ==
    /\ worker[w].at = "mention"
    /\ \E u \in worker[w].users :
          LET ids == [i \in DOMAIN worker[w].events |-> worker[w].events[i].id]
              Names(x) == u \in Mentioned(x)
          IN /\ unread' = [unread EXCEPT ![u] =
                   [@ EXCEPT !.found = TRUE, !.mentions = @ \o SelectSeq(ids, Names)]]
             /\ worker' = [worker EXCEPT ![w].users = @ \ {u}]
    /\ UNCHANGED <<sent, Q, tasks, marking, exists, rare, acked, settled, excused>>

MentionsOf(es) == UNION {Mentions(es[i]) : i \in DOMAIN es}

(* A failing write ends the task where it stands. *)
AddMentionFails(w) ==
    /\ worker[w].at = "mention" /\ worker[w].users # {} /\ Rare
    /\ settled' = settled \cup
          (MentionsOf(worker[w].events) \cap (worker[w].users \X DOMAIN sent))
    /\ worker' = Resumed(w)
    /\ UNCHANGED <<sent, Q, tasks, unread, marking, exists, acked, excused>>

(* The notifications are handed to the message broker; for a mass mention  *)
(* the channel is fetched first, and the worker panics when it is gone.    *)
PushMessages(w) ==
    LET es == worker[w].events
        panics == ~exists /\ \E i \in DOMAIN es : sent[es[i].id].mass
    IN
    /\ worker[w].at = "mention" /\ worker[w].users = {}
    /\ worker' = IF panics THEN [worker EXCEPT ![w] = [at |-> "dead"]] ELSE Resumed(w)
    /\ tasks' = IF panics THEN [tasks EXCEPT ![w] = [k \in Keys |-> NoTask]] ELSE tasks
    /\ settled' = IF panics THEN settled \cup MentionsOf(tasks[w][Process].events)
                  ELSE settled
    /\ UNCHANGED <<sent, Q, unread, marking, exists, rare, acked, excused>>

\* BUG VARIANT: a new message takes the place of the ones not committed yet.
MergeTakesNew(t, e) ==
    IF t = NoTask THEN NewTask(e) ELSE Delay([t EXCEPT !.events = <<e>>])

(* A popped event joins the task of its key.  An acknowledgement replaces   *)
(* the one held; a message is added, a mass mention makes the task due, and *)
(* a task with many messages is delayed no further.                         *)
Merge(t, e) ==
    IF t = NoTask THEN NewTask(e)
    ELSE IF e.key # Process THEN Delay([t EXCEPT !.events = <<e>>])
    ELSE LET es == Append(t.events, e) IN
         IF sent[e.id].mass THEN run_immediately([t EXCEPT !.events = es])
         ELSE IF Len(es) < process_message_delay_limit
              THEN Delay([t EXCEPT !.events = es])
              ELSE [t EXCEPT !.events = es]

Pop(w) ==
    /\ worker[w] = Draining /\ Q # <<>>
    /\ LET e == Head(Q) IN
       /\ Q' = Tail(Q)
       /\ tasks' = [tasks EXCEPT ![w][e.key] = Merge(@, e)]
       /\ excused' = IF e.key # Process /\ \E v \in UWorkers \ {w} : tasks[v][e.key] # NoTask
                   THEN excused \cup {e.key} ELSE excused
    /\ UNCHANGED <<sent, worker, unread, marking, exists, rare, acked, settled>>

WorkerStep(w) ==
    \/ FindDueTasks(w) \/ \E u \in UUsers : AcknowledgeMessage(w, u)
    \/ TakeMessages(w) \/ AddMention(w) \/ AddMentionFails(w)
    \/ PushMessages(w) \/ Pop(w)

UnreadsNext ==
    \/ \E kind \in Kinds : send(kind[1], kind[2])
    \/ \E u \in UUsers :
          \/ \E m \in 1 .. MaxSent : ack(u, m)
          \/ acknowledge_channels(u) \/ InsertMarker(u)
    \/ delete_channel
    \/ \E w \in UWorkers : WorkerStep(w)

------------------------------------------------------------------------------
Queued(u, m) == \E i \in DOMAIN Q : Q[i] = ProcessMessage(m)
Delayed(u, m) == \E w \in UWorkers : ProcessMessage(m) \in ToSet(tasks[w][Process].events)
InHand(u, m) == \E w \in UWorkers : /\ worker[w].at = "mention"
                                    /\ u \in worker[w].users
                                    /\ ProcessMessage(m) \in ToSet(worker[w].events)

(* No mention vanishes: the mention of a user is queued, delayed, being     *)
(* written or recorded in the user's unread document, until it is pulled by *)
(* an acknowledgement (acknowledge_message, acknowledge_channels) or lost   *)
(* to a full queue, a failed write, a panic or the deletion of the channel. *)
MentionsKept ==
    \A m \in DOMAIN sent : \A u \in Mentioned(m) :
        \/ Queued(u, m) \/ Delayed(u, m) \/ InHand(u, m)
        \/ m \in ToSet(unread[u].mentions)
        \/ <<u, m>> \in settled

(* The newest acknowledgement of a client is what the read marker ends at:  *)
(* it is queued, delayed or written (ack::worker replaces the one it holds  *)
(* by a newer one), unless it was lost to a full queue, a failed write or   *)
(* the deletion of the channel, two workers held acknowledgements of the    *)
(* user at once, or the user marked the whole server as read.               *)
AckKept ==
    \A u \in UUsers \ excused : acked[u] > 0 =>
        LET newest == AckMessage(u, acked[u]) IN
        \/ newest \in ToSet(Q)
        \/ \E w \in UWorkers : newest \in ToSet(tasks[w][u].events)
        \/ unread[u].last_id = acked[u]

(* Every delayed task is committed, however often the user acknowledges     *)
(* again in the meantime: DelayedTask::delay does not move first_seen.      *)
TasksCommitted ==
    \A w \in UWorkers : \A k \in Keys : tasks[w][k] # NoTask ~> tasks[w][k] = NoTask

\* Refuted by TLC (see the known divergences in README.md):
(* No worker panics (handle_ack_event expects the channel of a mass mention *)
(* to be in the database when the delayed task runs).                       *)
NoWorkerDies == \A w \in UWorkers : worker[w].at # "dead"
=============================================================================

--------------------------- MODULE DirectMessages ---------------------------
(***************************************************************************)
(* Direct messages: who may open one, the channel of a pair of users, and    *)
(* the workers that note its last message and show it again.                *)
(*                                                                         *)
(* Opening looks for the pair's channel and inserts one when there is none.  *)
(* A message is sent, then its id is pushed to a queue; several workers      *)
(* take from it, keep one delayed task per channel and commit it later.  A   *)
(* task may be due at any time after it was taken.                          *)
(***************************************************************************)
EXTENDS Integers, Sequences, FiniteSets, FiniteSetsExt

CONSTANTS
    DmUsers,      \* users
    DmBots,       \* those of them that are bots
    DmStatuses,   \* statuses relations change to
    DmRequests,   \* requests to open a channel, under way at a time
    DmWorkers,    \* last_message_id::worker tasks
    MaxDms,       \* bound on the channels
    MaxMessages,  \* bound on the messages
    MaxChanges,   \* bound on changes of relations, servers and errors
    DmCapacity    \* slots of the queue

Statuses == {"None", "Friend", "Outgoing", "Incoming", "Blocked", "BlockedOther"}

ASSUME DmAssumption ==
    /\ DmBots \subseteq DmUsers /\ DmStatuses \subseteq Statuses
    /\ {MaxDms, MaxMessages, MaxChanges, DmCapacity} \subseteq Nat

VARIABLES
    relations,   \* relations[u][t]: the status in the document of u
    sharing,     \* pairs with a server in common
    dms,         \* the channels in the order they were inserted
    opening,     \* what each request to open a channel is at
    written,     \* written[m]: the channel of message m; ids grow with time
    unqueued,    \* messages sent and not pushed to the queue yet
    lastQ,       \* the queue
    lastTask,    \* lastTask[w][d]: the id in the task of w for d, or 0
    dmChanges,
    raced,       \* history: pairs for which two requests found no channel
    excusedDms   \* history: channels of events lost, or that overtook others

directVars == <<relations, sharing, dms, opening, written, unqueued, lastQ, lastTask,
            dmChanges, raced, excusedDms>>

Closed == [op |-> "none"]
Dms == 1 .. Len(dms)
MessagesOf(d) == {m \in 1 .. Len(written) : written[m] = d}
Newest(d) == IF MessagesOf(d) = {} THEN 0 ELSE Max(MessagesOf(d))

DirectInit ==
    /\ relations = [u \in DmUsers |-> [t \in DmUsers |-> "None"]]
    /\ sharing = {} /\ dms = <<>> /\ written = <<>> /\ unqueued = {} /\ lastQ = <<>>
    /\ opening = [q \in DmRequests |-> Closed]
    /\ lastTask = [w \in DmWorkers |-> [d \in 1 .. MaxDms |-> 0]]
    /\ dmChanges = 0 /\ raced = {} /\ excusedDms = {}

DirectTypeOK ==
    /\ relations \in [DmUsers -> [DmUsers -> Statuses]]
    /\ \A d \in Dms : /\ dms[d].recipients \in SUBSET DmUsers
                      /\ dms[d].last_message_id \in 0 .. Len(written)
    /\ Len(lastQ) <= DmCapacity

------------------------------------------------------------------------------
(* Who may write to whom. *)

(* The relation as permissions see it. *)
user_relationship(u, t) == IF u = t THEN "User" ELSE relations[u][t]

fetch_mutual_server_ids(u, t) == sharing \cap {{u, t}}
fetch_mutual_channel_ids(u, t) == {d \in Dms : u # t /\ {u, t} \subseteq dms[d].recipients}

has_mutual_connection(u, t) ==
    fetch_mutual_server_ids(u, t) # {} \/ fetch_mutual_channel_ids(u, t) # {}

calculate_user_permissions(u, t) ==
    LET r == user_relationship(u, t)
        All == {"Access", "ViewProfile", "SendMessage"}
    IN IF u = t \/ r = "Friend" THEN All
       ELSE IF r \in {"Blocked", "BlockedOther"} THEN {"Access"}
       ELSE IF has_mutual_connection(u, t)
            THEN {"Access", "ViewProfile"}
                     \cup (IF {u, t} \cap DmBots # {} THEN {"SendMessage"} ELSE {})
       ELSE IF r \in {"Incoming", "Outgoing"} THEN {"Access"} ELSE {}

(* The relation, or the servers, of two users change. *)
Relate(u, t, status) ==
    /\ u # t /\ dmChanges < MaxChanges /\ dmChanges' = dmChanges + 1
    /\ relations' = [relations EXCEPT ![u][t] = status]
    /\ UNCHANGED <<sharing, dms, opening, written, unqueued, lastQ, lastTask, raced, excusedDms>>

Share(u, t) ==
    /\ u # t /\ dmChanges < MaxChanges /\ dmChanges' = dmChanges + 1
    /\ sharing' = IF {u, t} \in sharing THEN sharing \ {{u, t}} ELSE sharing \cup {{u, t}}
    /\ UNCHANGED <<relations, dms, opening, written, unqueued, lastQ, lastTask, raced, excusedDms>>

------------------------------------------------------------------------------
(* GET users/<target>/dm. *)

\* BUG VARIANT: only a channel that is shown is found.
FindActive(u, t) == {d \in Dms : dms[d].recipients = {u, t} /\ dms[d].active}

(* A channel of both users, or the saved messages of one. *)
find_direct_message_channel(u, t) == {d \in Dms : dms[d].recipients = {u, t}}

(* Channel::create_dm answers with the channel found; otherwise it is about  *)
(* to insert one.                                                           *)
create_dm(q, u, t) ==
    LET others == {p \in DmRequests : opening[p] # Closed /\ opening[p].pair = {u, t}} IN
    /\ find_direct_message_channel(u, t) = {}
    /\ opening' = [opening EXCEPT ![q] = [op |-> "insert", pair |-> {u, t}]]
    /\ raced' = IF others # {} THEN raced \cup {{u, t}} ELSE raced

open_dm(q, u, t) ==
    /\ opening[q] = Closed
    /\ "SendMessage" \in calculate_user_permissions(u, t)
    /\ create_dm(q, u, t)
    /\ UNCHANGED <<relations, sharing, dms, written, unqueued, lastQ, lastTask,
                   dmChanges, excusedDms>>

insert_dm(q) ==
    /\ opening[q] # Closed /\ Len(dms) < MaxDms
    /\ dms' = Append(dms, [recipients |-> opening[q].pair, active |-> TRUE, shut |-> FALSE,
                           last_message_id |-> 0])
    /\ opening' = [opening EXCEPT ![q] = Closed]
    /\ UNCHANGED <<relations, sharing, written, unqueued, lastQ, lastTask,
                   dmChanges, raced, excusedDms>>

OpenFails(q) ==
    /\ opening[q] # Closed
    /\ opening' = [opening EXCEPT ![q] = Closed]
    /\ UNCHANGED <<relations, sharing, dms, written, unqueued, lastQ, lastTask,
                   dmChanges, raced, excusedDms>>

(* DELETE channels/<id> hides a direct message; saved messages stay.  shut   *)
(* notes that nothing was written since.                                    *)
close_dm(d) ==
    /\ Cardinality(dms[d].recipients) = 2
    /\ dms' = [dms EXCEPT ![d].active = FALSE, ![d].shut = TRUE]
    /\ UNCHANGED <<relations, sharing, opening, written, unqueued, lastQ, lastTask,
                   dmChanges, raced, excusedDms>>

------------------------------------------------------------------------------
(* Messages. *)

send_dm(d) ==
    /\ Len(written) < MaxMessages
    /\ written' = Append(written, d)
    /\ unqueued' = unqueued \cup {Len(written) + 1}
    /\ dms' = [dms EXCEPT ![d].shut = FALSE]
    /\ UNCHANGED <<relations, sharing, opening, lastQ, lastTask, dmChanges, raced, excusedDms>>

(* last_message_id::queue: try_push drops the event when the queue is full.  *)
(* Requests may push in another order than that of their messages' ids.     *)
queue_last(m) ==
    LET d == written[m]
        full == Len(lastQ) >= DmCapacity
        late == \E n \in MessagesOf(d) \ unqueued : n > m
    IN
    /\ m \in unqueued
    /\ unqueued' = unqueued \ {m}
    /\ lastQ' = IF full THEN lastQ ELSE Append(lastQ, m)
    /\ excusedDms' = IF full \/ late THEN excusedDms \cup {d} ELSE excusedDms
    /\ UNCHANGED <<relations, sharing, dms, opening, written, lastTask, dmChanges, raced>>

\* BUG VARIANT: a task that exists keeps the id it has.
KeepId(old, m) == IF old = 0 THEN m ELSE old

(* The task of the channel takes the newer event's id, or is created. *)
TaskId(old, m) == m

PopLast(w) ==
    LET m == Head(lastQ)
        d == written[m]
    IN
    /\ lastQ # <<>>
    /\ lastQ' = Tail(lastQ)
    /\ lastTask' = [lastTask EXCEPT ![w][d] = TaskId(@, m)]
    /\ excusedDms' = IF \E v \in DmWorkers \ {w} : lastTask[v][d] # 0
                     THEN excusedDms \cup {d} ELSE excusedDms
    /\ UNCHANGED <<relations, sharing, dms, opening, written, unqueued, dmChanges, raced>>

(* A due task is committed; a direct message is active again. *)
CommitLast(w, d) ==
    /\ lastTask[w][d] # 0
    /\ dms' = [dms EXCEPT ![d].last_message_id = lastTask[w][d],
                          ![d].active = @ \/ Cardinality(dms[d].recipients) = 2]
    /\ lastTask' = [lastTask EXCEPT ![w][d] = 0]
    /\ UNCHANGED <<relations, sharing, opening, written, unqueued, lastQ, dmChanges, raced, excusedDms>>

(* The update fails: the task is gone. *)
CommitFails(w, d) ==
    /\ lastTask[w][d] # 0 /\ dmChanges < MaxChanges /\ dmChanges' = dmChanges + 1
    /\ lastTask' = [lastTask EXCEPT ![w][d] = 0]
    /\ excusedDms' = excusedDms \cup {d}
    /\ UNCHANGED <<relations, sharing, dms, opening, written, unqueued, lastQ, raced>>

DirectNext ==
    \/ \E u, t \in DmUsers :
          \/ \E status \in DmStatuses : Relate(u, t, status)
          \/ Share(u, t)
          \/ \E q \in DmRequests : open_dm(q, u, t)
    \/ \E q \in DmRequests : insert_dm(q) \/ OpenFails(q)
    \/ \E d \in Dms : close_dm(d) \/ send_dm(d)
    \/ \E m \in unqueued : queue_last(m)
    \/ \E w \in DmWorkers : PopLast(w) \/ \E d \in Dms : CommitLast(w, d) \/ CommitFails(w, d)

DirectSpec == DirectInit /\ [][DirectNext]_directVars

------------------------------------------------------------------------------
(* Two users have one direct message, and a user one channel for saved       *)
(* messages, whoever opens it and however often.  create_dm looks before it  *)
(* inserts: only requests that both looked before either inserted make two. *)
OneDirectMessage ==
    \A d, e \in Dms : dms[d].recipients = dms[e].recipients =>
        d = e \/ dms[d].recipients \in raced

(* When nothing is queued or held for a channel, its last_message_id is its  *)
(* newest message, and a direct message that was written in since it was     *)
(* closed is shown.  Excepted are channels an event of which was dropped or  *)
(* failed, was queued after a newer one, or was taken by a worker while      *)
(* another had a task for the channel: each worker commits on its own.      *)
LastMessageSettles ==
    \A d \in Dms \ excusedDms :
        (/\ MessagesOf(d) \cap (unqueued \cup {lastQ[i] : i \in DOMAIN lastQ}) = {}
         /\ \A w \in DmWorkers : lastTask[w][d] = 0)
        => /\ dms[d].last_message_id = Newest(d)
           /\ (Newest(d) > 0 /\ ~dms[d].shut) => dms[d].active
=============================================================================

------------------------------ MODULE Presence ------------------------------
(***************************************************************************)
(* User presence: core/presence, as bonfire's client task drives it.  Each *)
(* connection of a user adds a session to three Redis sets one command at  *)
(* a time (create_session), broadcasts "online" when it saw no session     *)
(* before its own, and takes the session out again, one command at a time, *)
(* when the socket closes (delete_session).  The process may crash; on     *)
(* start it runs clear_region before it accepts connections.               *)
(***************************************************************************)
EXTENDS Naturals

CONSTANTS
    Users,
    Slots,            \* connections a user may open: one per slot
    MaxCrashes,       \* bound: crashes of the bonfire process
    MaxRefusals       \* bound: calls that get no Redis connection

ASSUME PresenceBounds == MaxCrashes \in Nat /\ MaxRefusals \in Nat

VARIABLES
    sessions,   \* the Redis set of each user's sessions
    online,     \* ONLINE_SET
    region,     \* the set of "user:session" strings under REGION_KEY
    pc,         \* where each connection's task is
    is_first,   \* was_empty of its create_session
    is_last,    \* is_empty of its delete_session
    dead,       \* connections that ended in a crash, at the pc they were at
    seen,       \* the last presence broadcast about each user
    node,       \* "up", "down", or "clearing": inside clear_region
    todo,       \* sessions clear_region has listed and not dealt with yet
    current,    \* the one whose deletion is half done, if any: a set
    skipped,    \* the ones whose deletion got no Redis connection
    crashes, refusals

vars == <<sessions, online, region, pc, is_first, is_last, dead, seen, node,
          todo, current, skipped, crashes, refusals>>

redis == <<sessions, online, region>>
clearing == <<node, todo, current>>

Conns == Users \X Slots
UserOf(c) == c[1]

Creating == {"c_session", "c_online", "c_region", "c_notify"}
Deleting == {"d_region", "d_count", "d_online", "d_notify"}

TypeOK ==
    /\ sessions \in [Users -> SUBSET Conns]
    /\ online \subseteq Users
    /\ region \subseteq Conns
    /\ pc \in [Conns -> {"new", "up", "gone"} \cup Creating \cup Deleting]
    /\ is_first \in [Conns -> BOOLEAN]
    /\ is_last \in [Conns -> BOOLEAN]
    /\ dead \subseteq Conns
    /\ seen \in [Users -> {"online", "offline"}]
    /\ node \in {"up", "down", "clearing"}
    /\ todo \subseteq Conns
    /\ current \subseteq todo
    /\ skipped \subseteq Conns
    /\ node # "clearing" => todo = {}
    /\ crashes \in 0..MaxCrashes
    /\ refusals \in 0..MaxRefusals

Init ==
    /\ sessions = [u \in Users |-> {}]
    /\ online = {}
    /\ region = {}
    /\ pc = [c \in Conns |-> "new"]
    /\ is_first = [c \in Conns |-> FALSE]
    /\ is_last = [c \in Conns |-> FALSE]
    /\ dead = {}
    /\ seen = [u \in Users |-> "offline"]
    /\ node = "up"
    /\ todo = {}
    /\ current = {}
    /\ skipped = {}
    /\ crashes = 0
    /\ refusals = 0

IsOnline(u) == sessions[u] # {}
FilterOnline(users) == online \cap users

-----------------------------------------------------------------------------
(* A step of the task of connection c, from one await to the next. *)
Task(c, from, to) ==
    /\ node = "up"
    /\ c \notin dead
    /\ pc[c] = from
    /\ pc' = [pc EXCEPT ![c] = to]
    /\ UNCHANGED <<dead, clearing, skipped, crashes>>

AddSession(c) == [sessions EXCEPT ![UserOf(c)] = @ \cup {c}]
RemoveSession(c) == [sessions EXCEPT ![UserOf(c)] = @ \ {c}]

(* create_session *)
CreateCount(c) ==
    /\ Task(c, "new", "c_session")
    /\ is_first' = [is_first EXCEPT ![c] = sessions[UserOf(c)] = {}]
    /\ UNCHANGED <<sessions, online, region, is_last, seen, refusals>>

CreateSession(c) ==
    /\ Task(c, "c_session", "c_online")
    /\ sessions' = AddSession(c)
    /\ UNCHANGED <<online, region, is_first, is_last, seen, refusals>>

CreateOnline(c) ==
    /\ Task(c, "c_online", "c_region")
    /\ online' = online \cup {UserOf(c)}
    /\ UNCHANGED <<sessions, region, is_first, is_last, seen, refusals>>

CreateRegion(c) ==
    /\ Task(c, "c_region", "c_notify")
    /\ region' = region \cup {c}
    /\ UNCHANGED <<sessions, online, is_first, is_last, seen, refusals>>

(* No Redis connection: (false, 0), and the client carries on. *)
CreateRefused(c) ==
    /\ refusals < MaxRefusals
    /\ Task(c, "new", "up")
    /\ refusals' = refusals + 1
    /\ UNCHANGED <<sessions, online, region, is_first, is_last, seen>>

(* broadcast_presence_change(true), by the client that was first *)
NotifyOnline(c) ==
    /\ Task(c, "c_notify", "up")
    /\ seen' = IF is_first[c] THEN [seen EXCEPT ![UserOf(c)] = "online"] ELSE seen
    /\ UNCHANGED <<sessions, online, region, is_first, is_last, refusals>>

(* delete_session_internal, once the socket's two halves have ended *)
DeleteSession(c) ==
    /\ Task(c, "up", "d_region")
    /\ sessions' = RemoveSession(c)
    /\ UNCHANGED <<online, region, is_first, is_last, seen, refusals>>

DeleteRegion(c) ==
    /\ Task(c, "d_region", "d_count")
    /\ region' = region \ {c}
    /\ UNCHANGED <<sessions, online, is_first, is_last, seen, refusals>>

DeleteCount(c) ==
    /\ Task(c, "d_count", IF sessions[UserOf(c)] = {} THEN "d_online" ELSE "d_notify")
    /\ is_last' = [is_last EXCEPT ![c] = sessions[UserOf(c)] = {}]
    /\ UNCHANGED <<sessions, online, region, is_first, seen, refusals>>

DeleteOnline(c) ==
    /\ Task(c, "d_online", "d_notify")
    /\ online' = online \ {UserOf(c)}
    /\ UNCHANGED <<sessions, region, is_first, is_last, seen, refusals>>

DeleteRefused(c) ==
    /\ refusals < MaxRefusals
    /\ Task(c, "up", "gone")
    /\ refusals' = refusals + 1
    /\ UNCHANGED <<sessions, online, region, is_first, is_last, seen>>

(* broadcast_presence_change(false), by the client that was last *)
NotifyOffline(c) ==
    /\ Task(c, "d_notify", "gone")
    /\ seen' = IF is_last[c] THEN [seen EXCEPT ![UserOf(c)] = "offline"] ELSE seen
    /\ UNCHANGED <<sessions, online, region, is_first, is_last, refusals>>

-----------------------------------------------------------------------------
Crash ==
    /\ node # "down"
    /\ crashes < MaxCrashes
    /\ node' = "down"
    /\ crashes' = crashes + 1
    /\ dead' = dead \cup {c \in Conns : pc[c] \notin {"new", "gone"}}
    /\ todo' = {} /\ current' = {}
    /\ UNCHANGED <<redis, pc, is_first, is_last, seen, skipped, refusals>>

(* clear_region lists the region's sessions, deletes each and drops the key;
   main accepts nobody meanwhile. *)
Clear ==
    /\ UNCHANGED <<pc, is_first, is_last, dead, seen, crashes>>
    /\ UNCHANGED <<skipped, refusals>>

ClearList ==
    /\ node = "down"
    /\ node' = "clearing"
    /\ todo' = region
    /\ UNCHANGED <<redis, current>> /\ Clear

(* delete_session_internal with skip_region: the session, ... *)
ClearSession(c) ==
    /\ node = "clearing" /\ current = {} /\ c \in todo
    /\ current' = {c}
    /\ sessions' = RemoveSession(c)
    /\ UNCHANGED <<online, region, node, todo>> /\ Clear

(* ... then the user when no session is left.  The result is dropped: nothing
   is broadcast. *)
ClearOnline(c) ==
    /\ c \in current
    /\ current' = {} /\ todo' = todo \ {c}
    /\ online' = IF sessions[UserOf(c)] = {} THEN online \ {UserOf(c)} ELSE online
    /\ UNCHANGED <<sessions, region, node>> /\ Clear

(* Nor does it notice a deletion that got no Redis connection. *)
ClearRefused(c) ==
    /\ node = "clearing" /\ current = {} /\ c \in todo
    /\ refusals < MaxRefusals
    /\ refusals' = refusals + 1
    /\ todo' = todo \ {c}
    /\ skipped' = skipped \cup {c}
    /\ UNCHANGED <<redis, pc, is_first, is_last, dead, seen, node, current, crashes>>

ClearDoneEarly ==
    /\ node = "clearing" /\ current = {}
    /\ node' = "up"
    /\ region' = {} /\ todo' = {}
    /\ UNCHANGED <<sessions, online, current>> /\ Clear

ClearDone ==
    /\ node = "clearing" /\ todo = {}
    /\ node' = "up"
    /\ region' = {}
    /\ UNCHANGED <<sessions, online, todo, current>> /\ Clear

Step(c) ==
    \/ CreateCount(c) \/ CreateSession(c) \/ CreateOnline(c) \/ CreateRegion(c)
    \/ NotifyOnline(c)
    \/ DeleteRegion(c) \/ DeleteCount(c) \/ DeleteOnline(c) \/ NotifyOffline(c)

Next ==
    \/ \E c \in Conns :
          Step(c) \/ DeleteSession(c) \/ CreateRefused(c) \/ DeleteRefused(c)
          \/ ClearSession(c) \/ ClearOnline(c) \/ ClearRefused(c)
    \/ Crash \/ ClearList \/ ClearDone

Spec == Init /\ [][Next]_vars

-----------------------------------------------------------------------------
(* Between the SREM of its session and the SREM from ONLINE_SET. *)
MidDelete(u) ==
    \E c \in Conns : UserOf(c) = u /\ pc[c] \in {"d_region", "d_count", "d_online"}

(* What filter_online may overstate: a user listed in ONLINE_SET without any
   session has a delete_session under way, or one that a crash cut short; and
   until clear_region is through, sessions it has still to deal with, or one
   it failed to. *)
OnlineBacked ==
    \A u \in online :
        \/ IsOnline(u)
        \/ MidDelete(u)
        \/ node = "down" /\ \E c \in region : UserOf(c) = u
        \/ node = "clearing" /\ \E c \in todo : UserOf(c) = u
        \/ \E c \in skipped : UserOf(c) = u

(* A session in Redis whose connection crashed or ended. *)
Stale(c) == c \in sessions[UserOf(c)] /\ (c \in dead \/ pc[c] = "gone")

(* What stays online for good: while the process runs, the session of a
   connection that crashed or whose delete_session was refused is listed in
   the region, where the next clear_region finds it.  clear_region has dropped
   the listing of the others: sessions whose deletion it was refused a
   connection for, and those of connections that crashed between the SADD of
   the session and the SADD of its region entry, which it never sees. *)
StaleSessionsListed ==
    node = "up" =>
        \A c \in Conns : Stale(c) =>
            c \in region \/ c \in skipped \/ pc[c] \in {"c_online", "c_region"}

(* "If this was the last session, notify other users that we just went
   offline": while the process never crashes, a user whose every connection
   has ended through delete_session is offline to is_online and to
   filter_online, and the last broadcast about them said so, though each
   connection decided on its own count of the sessions what to do. *)
AllGoneIsOffline ==
    \A u \in Users :
        (/\ crashes = 0 /\ refusals = 0
         /\ \A c \in Conns : UserOf(c) = u => pc[c] \in {"new", "c_session", "gone"})
        => ~IsOnline(u) /\ u \notin FilterOnline({u}) /\ seen[u] = "offline"
=============================================================================

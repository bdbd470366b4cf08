---------------------------- MODULE Relationships ----------------------------
(***************************************************************************)
(* Friendships and blocks between users.                                   *)
(*                                                                         *)
(* What u is to v and what v is to u are two entries in two user           *)
(* documents.  A request reads the caller's document when it is            *)
(* authenticated and the target's document when its route resolves the     *)
(* target.  It decides on those two copies and then writes the target's    *)
(* document and its caller's, in that order, with two separate updates.    *)
(* Nothing orders the requests of two users.                               *)
(***************************************************************************)
EXTENDS Naturals, FiniteSets

CONSTANTS
    RUsers,                  \* the users whose relations are followed
    RSlots,                  \* requests that may be in flight at once
    outgoing_friend_requests \* the caller's limit on requests sent

ASSUME RelationshipAssumption == outgoing_friend_requests \in Nat

VARIABLES
    rel,    \* rel[u][v]: the status of v in u's document
    call,   \* call[s]: the request in slot s
    stale   \* pairs whose entries no longer come from one fresh request

relVars == <<rel, call, stale>>

Status == {"None", "Friend", "Outgoing", "Incoming", "Blocked", "BlockedOther"}
RelOps == {"add_friend", "remove_friend", "block_user", "unblock_user"}
Stages == {"idle", "target", "decide", "write_target", "write_self"}

NoCall == [at |-> "idle"]

Pair(u, v) == {u, v}
Others(u) == RUsers \ {u}

(* What the two documents may say of one pair when they agree. *)
Agreeing ==
    {<<"None", "None">>, <<"Friend", "Friend">>,
     <<"Outgoing", "Incoming">>, <<"Incoming", "Outgoing">>,
     <<"Blocked", "BlockedOther">>, <<"BlockedOther", "Blocked">>,
     <<"Blocked", "Blocked">>}

RelInit ==
    /\ rel = [u \in RUsers |-> [v \in RUsers |-> "None"]]
    /\ call = [s \in RSlots |-> NoCall]
    /\ stale = {}

RelTypeOK ==
    /\ rel \in [RUsers -> [RUsers -> Status]]
    /\ stale \subseteq {Pair(u, v) : u, v \in RUsers}
    /\ \A s \in RSlots :
          /\ call[s].at \in Stages
          /\ call[s].at \in {"target", "decide"} => call[s].op \in RelOps /\ call[s].own \in Status

------------------------------------------------------------------------------
(* The request guard fetches the caller's document; the copy is what every *)
(* later decision about the caller's side uses.                            *)
Authenticate(s, u, v, op) ==
    /\ call[s].at = "idle"
    /\ u # v
    /\ call' = [call EXCEPT ![s] =
                   [at |-> "target", op |-> op, by |-> u, to |-> v,
                    own |-> rel[u][v],
                    sent |-> Cardinality({w \in Others(u) :
                                             rel[u][w] = "Outgoing"})]]
    /\ UNCHANGED <<rel, stale>>

(* The route resolves the target, whose document it now holds as well. *)
ResolveTarget(s) ==
    /\ call[s].at = "target"
    /\ call' = [call EXCEPT ![s] =
                   [at |-> "decide", op |-> @.op, by |-> @.by, to |-> @.to,
                    own |-> @.own, sent |-> @.sent,
                    other |-> rel[@.to][@.by]]]
    /\ UNCHANGED <<rel, stale>>

(* The statuses a request sets: <<caller's entry, target's entry>>.  An    *)
(* empty set is a request that is answered with an error.                  *)
add_friend(own, sent) ==
    CASE own = "Incoming" -> {<<"Friend", "Friend">>}
      [] own = "None" /\ sent < outgoing_friend_requests ->
            {<<"Outgoing", "Incoming">>}
      [] OTHER -> {}

remove_friend(own) ==
    IF own \in {"Friend", "Outgoing", "Incoming"}
    THEN {<<"None", "None">>} ELSE {}

block_user(own) ==
    CASE own = "Blocked" -> {}
      [] own = "BlockedOther" -> {<<"Blocked", "Blocked">>}
      [] OTHER -> {<<"Blocked", "BlockedOther">>}

unblock_user(own, other) ==
    CASE own = "Blocked" /\ other = "Blocked" -> {<<"BlockedOther", "Blocked">>}
      [] own = "Blocked" /\ other = "BlockedOther" -> {<<"None", "None">>}
      [] OTHER -> {}

Outcome(c) ==
    CASE c.op = "add_friend" -> add_friend(c.own, c.sent)
      [] c.op = "remove_friend" -> remove_friend(c.own)
      [] c.op = "block_user" -> block_user(c.own)
      [] OTHER -> unblock_user(c.own, c.other)

Decide(s) ==
    LET c == call[s] IN
    /\ c.at = "decide"
    /\ call' = [call EXCEPT ![s] =
          IF Outcome(c) = {} THEN NoCall
          ELSE LET o == CHOOSE x \in Outcome(c) : TRUE IN
               [at |-> "write_target", by |-> c.by, to |-> c.to,
                own |-> c.own, other |-> c.other, set |-> o]]
    /\ UNCHANGED <<rel, stale>>

------------------------------------------------------------------------------
(* A write is stale when an entry it was decided on has changed since. *)
StaleWrite(c) ==
    \/ c.at = "write_target" /\ <<rel[c.by][c.to], rel[c.to][c.by]>> # <<c.own, c.other>>
    \/ c.at = "write_self"   /\ <<rel[c.by][c.to], rel[c.to][c.by]>> # <<c.own, c.set[2]>>

(* target.set_relationship: the first update of apply_relationship. *)
WriteTarget(s) ==
    LET c == call[s] IN
    /\ c.at = "write_target"
    /\ rel' = [rel EXCEPT ![c.to][c.by] = c.set[2]]
    /\ call' = [call EXCEPT ![s].at = "write_self"]
    /\ stale' = IF StaleWrite(c) THEN stale \cup {Pair(c.by, c.to)} ELSE stale

\* BUG VARIANT: the caller's document is given the target's status.
WriteSelfSwapped(s) ==
    LET c == call[s] IN
    /\ c.at = "write_self"
    /\ rel' = [rel EXCEPT ![c.by][c.to] = c.set[2]]
    /\ call' = [call EXCEPT ![s] = NoCall]
    /\ stale' = IF StaleWrite(c) THEN stale \cup {Pair(c.by, c.to)}
                               ELSE stale \ {Pair(c.by, c.to)}

(* self.set_relationship: the second update.  The request is answered; when *)
(* it was fresh both entries are now its own.                              *)
WriteSelf(s) ==
    LET c == call[s] IN
    /\ c.at = "write_self"
    /\ rel' = [rel EXCEPT ![c.by][c.to] = c.set[1]]
    /\ call' = [call EXCEPT ![s] = NoCall]
    /\ stale' = IF StaleWrite(c) THEN stale \cup {Pair(c.by, c.to)}
                               ELSE stale \ {Pair(c.by, c.to)}

(* Either update may fail; the request is then abandoned where it stands. *)
WriteFails(s) ==
    LET c == call[s] IN
    /\ c.at \in {"write_target", "write_self"}
    /\ call' = [call EXCEPT ![s] = NoCall]
    /\ stale' = IF c.at = "write_self" THEN stale \cup {Pair(c.by, c.to)} ELSE stale
    /\ UNCHANGED rel

RelNext ==
    \E s \in RSlots :
        \/ \E u, v \in RUsers, op \in RelOps : Authenticate(s, u, v, op)
        \/ ResolveTarget(s)
        \/ Decide(s)
        \/ WriteTarget(s)
        \/ WriteSelf(s)
        \/ WriteFails(s)

RelSpec == RelInit /\ [][RelNext]_relVars

------------------------------------------------------------------------------
Between(u, v) == {s \in RSlots : call[s].at # "idle" /\ {call[s].by, call[s].to} = {u, v}}

(* The two user documents tell the same story about a pair: friends on     *)
(* both sides, a request sent here and received there, a block here and a  *)
(* BlockedOther there (add_friend, remove_friend, block_user and           *)
(* unblock_user with apply_relationship).  Only a request that decided on  *)
(* entries another request has since rewritten, or whose second update     *)
(* failed, can leave them apart, and the next fresh request of either user *)
(* that is accepted mends the pair.                                        *)
SettledPairsAgree ==
    \A u \in RUsers, v \in RUsers :
        \/ u = v
        \/ {u, v} \in stale
        \/ \E s \in Between(u, v) : call[s].at = "write_self"
        \/ <<rel[u][v], rel[v][u]>> \in Agreeing

(* A block set by block_user is lifted only by its owner: the blocker's    *)
(* entry changes only in the second half of one of the blocker's own       *)
(* requests.  A request of the blocked user can rewrite it only when it    *)
(* was decided on entries that have changed since.                         *)
OnlyBlockerLifts ==
    [][\A u, v \in RUsers :
          (rel[u][v] = "Blocked" /\ rel'[u][v] # "Blocked") =>
              \/ {u, v} \in stale \cup stale'
              \/ \E s \in Between(u, v) :
                     call[s].by = u /\ call[s].at = "write_self"]_relVars

(* Nobody is made a friend who did not take part: when an entry becomes    *)
(* Friend it was Outgoing or Incoming before, so one of the two asked and  *)
(* the other accepted.  A request that was withdrawn, declined or answered *)
(* by a block is turned into a friendship only by a stale write, or by a   *)
(* request that read the pair while another had written half of it.        *)
FriendsByConsent ==
    [][\A u, v \in RUsers :
          (rel[u][v] # "Friend" /\ rel'[u][v] = "Friend") =>
              \/ {u, v} \in stale \cup stale'
              \/ rel[u][v] \in {"Outgoing", "Incoming"}
              \/ \E s \in Between(u, v) :
                     call[s].at = "write_self" /\ call'[s] = call[s]]_relVars
=============================================================================

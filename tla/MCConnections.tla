--------------------------- MODULE MCConnections ---------------------------
(***************************************************************************)
(* What a websocket connection leaves behind: the presence of one user     *)
(* with three connections, and the calls of two users: in two channels of  *)
(* a server, one on LiveKit and one peer to peer, and in a group; and the  *)
(* sessions of a stream with an audience of two; and the cache and the     *)
(* subscriptions of one connection, of a bot or a user, who owns a server, *)
(* is a member of it with or without a role, or joins it.  They share no   *)
(* key, so a behaviour exercises one of them.                              *)
(***************************************************************************)
EXTENDS Presence, Voice, Gateway, TLC

CONSTANTS p, u1, u2, s1, s2, s3, a, b, g, c1, c2

VARIABLE part   \* which of them this behaviour exercises

OneUser == {p}
ThreeSlots == {s1, s2, s3}
TwoCallers == {u1, u2}
TwoRequests == {s1, s2}
TwoChannels == {a, b}
ThreeChannels == {a, b, g}
OneChannel == {a}
OneBot == {u2}
CallSymmetry == Permutations(TwoRequests)

Holding(role) == [who |-> Me, role |-> role]
Starting(owner, member, open, group, robot) ==
    [owner |-> owner, member |-> member, open |-> open, channel |-> c1,
     group |-> group, bot |-> robot]
Beginnings ==
    {Starting(Me, Holding(FALSE), FALSE, {Other}, FALSE),
     Starting(Other, Holding(FALSE), TRUE, {Me, Other}, FALSE),
     Starting(Other, Holding(TRUE), FALSE, {Other}, TRUE),
     Starting(Other, Nil, TRUE, {Other}, TRUE)}

ConnectionsInit ==
    /\ Init /\ VoiceInit /\ StreamsInit /\ GatewayInit
    /\ part \in {"presence", "calls", "stream", "gateway"}
    /\ part # "gateway" => bot /\ base.member = Nil

ConnectionsNext ==
    /\ UNCHANGED part
    /\ \/ part = "presence" /\ Next /\ UNCHANGED <<vvars, svars, gvars>>
       \/ part = "calls" /\ VoiceNext /\ UNCHANGED <<vars, svars, gvars>>
       \/ part = "stream" /\ StreamsNext /\ UNCHANGED <<vars, vvars, gvars>>
       \/ part = "gateway" /\ GatewayNext /\ UNCHANGED <<vars, vvars, svars>>

ConnectionsSpec ==
    ConnectionsInit /\ [][ConnectionsNext]_<<vars, vvars, svars, gvars, part>>
=============================================================================

----------------------------- MODULE MCServers -----------------------------
(***************************************************************************)
(* What belongs to a server: its roles and members (an owner, a      *)
(* privileged user, a moderator and a member, two roles and two more that    *)
(* can be created); its                                                      *)
(* channels (two ids, room for one channel, two requests at a time, until   *)
(* something is added to a channel that is being deleted); the              *)
(* bots invited to two servers; and the commands of two bots in one channel. *)
(* They share no state here; a behaviour exercises one of them.             *)
(***************************************************************************)
EXTENDS ServerRoles, ServerChannels, Bots, SequencesExt, TLC

CONSTANTS o, pr, a, b, r1, r2, r3, r4, c1

VARIABLE part   \* which of them this behaviour exercises

MCPermission == {"ManagePermissions", "ManageRole", "AssignRoles", "TimeoutMembers",
                 "MuteMembers", "DeafenMembers", "ViewChannel", "Speak", "Listen"}

Allow(s) == [allow |-> s, deny |-> {}]

Deny(s) == [allow |-> {}, deny |-> s]

MCOverrides == {NoOverride, Deny({"ManageRole", "ViewChannel"}),
                Allow({"TimeoutMembers", "Speak", "ViewChannel"})}

MCDefaultValues == {{"ViewChannel", "ManageRole", "Speak"}}

(* Every two roles come in either order. *)
MCTies == {(r1 :> 1) @@ (r2 :> 2) @@ (r3 :> 3) @@ (r4 :> 4),
           (r1 :> 4) @@ (r2 :> 3) @@ (r3 :> 2) @@ (r4 :> 1)}

Nothing == [roles |-> Keep, timeout |-> Keep, can_publish |-> Keep, can_receive |-> Keep]

MCDataMemberEdit ==
    {[Nothing EXCEPT !.roles = s] : s \in {{}, {r2}, {r1, r2}}}
    \cup {[Nothing EXCEPT !.timeout = TRUE], [Nothing EXCEPT !.timeout = FALSE],
          [Nothing EXCEPT !.can_publish = FALSE],
          [Nothing EXCEPT !.can_publish = Clear], [Nothing EXCEPT !.can_receive = FALSE]}

Plain(s) == [roles |-> s, timeout |-> FALSE, can_publish |-> TRUE, can_receive |-> TRUE]

Role(k, v) == [state |-> "whole", rank |-> k, permissions |-> v]

Moderation == {"ManagePermissions", "ManageRole", "AssignRoles", "TimeoutMembers",
               "MuteMembers"}

Server(first, second, ra, rb) ==
    [roles |-> (r1 :> first) @@ (r2 :> second) @@ [r \in Roles |-> NoRole],
     default_permissions |-> {"ViewChannel", "Speak"},
     members |-> (o :> Plain({})) @@ (pr :> Plain({})) @@ (a :> Plain(ra)) @@ (b :> Plain(rb)),
     channels |-> [c \in Channels |->
                     [default_permissions |-> NoOverride,
                      role_permissions |-> [r \in Roles |-> NoOverride]]]]

(* A moderator above a member; a moderator below an unused role; roles that
   disagree; and two roles of one rank, as a deletion and a creation leave them. *)
MCInitialServers ==
    {Server(Role(0, Allow(Moderation)), Role(1, Deny({"ManageRole", "Speak"})), {r1}, {r2}),
     Server(Role(0, Allow({"ManageRole"})), Role(1, Allow(Moderation)), {r2}, {}),
     Server(Role(0, Deny({"Speak"})), Role(1, Allow(Moderation \ {"TimeoutMembers"})),
            {r1, r2}, {r2}),
     Server(Role(1, Allow(Moderation)), Role(1, Deny({"ManagePermissions"})), {r1, r2}, {r2})}

ServersInit ==
    /\ Init /\ ChannelsInit /\ BotsInit /\ InteractionsInit
    /\ part \in {"roles", "channels", "bots", "commands"}
    /\ part # "roles" => members[b].roles = {}

ServersNext ==
    /\ UNCHANGED part
    /\ \/ part = "roles" /\ Next /\ UNCHANGED <<channelVars, botVars, commandVars>>
       \/ part = "channels" /\ late = {} /\ ChannelsNext /\ UNCHANGED <<vars, botVars, commandVars>>
       \/ part = "bots" /\ BotsNext /\ UNCHANGED <<vars, channelVars, commandVars>>
       \/ part = "commands" /\ InteractionsNext /\ UNCHANGED <<vars, channelVars, botVars>>

ServersSpec ==
    ServersInit /\ [][ServersNext]_<<vars, channelVars, botVars, commandVars, part>>

ServersSymmetry == Permutations(Requests) \cup Permutations(BotServers) \cup Permutations(BotIds)

-----------------------------------------------------------------------------
(* The loop of calculate_server_permissions over the role overrides, as the code
   has it: sorted by descending rank, one apply after the other. *)
RoleLoop(u, tie) ==
    LET low == SetToSortSeq(Own(u), LAMBDA r, s : Above(ranks, tie, s, r))
    IN  FoldLeft(LAMBDA acc, r : apply(acc, roles[r].permissions), default_permissions, low)

(* What the loop over a member's role overrides leaves is, permission by permission,
   what the highest role to mention it says. *)
LoopAgrees ==
    \A u \in Users, tie \in Ties :
        RoleLoop(u, tie) = ApplyAll(default_permissions,
                                    [r \in Own(u) |-> roles[r].permissions], ranks, tie)

(* However a permission is worked out, the answer is the same: the loop over *)
(* the roles as it is coded, the rule that the highest role to mention a     *)
(* permission decides, and the bulk calculator of mass mentions.  (The other *)
(* parts leave the roles as they are.)                                      *)
CalculatorsAgree == part = "roles" => LoopAgrees /\ BulkAgrees
=============================================================================

------------------------------ MODULE MCSocial ------------------------------
(***************************************************************************)
(* The relations of two users, the life of one group of three, the names     *)
(* and sessions of two accounts (names that differ in case only, two        *)
(* discriminators, three requests at a time), and three edits of a         *)
(* channel, a group or a webhook.                                           *)
(* They share no state, so a behaviour exercises one of them and leaves the *)
(* others in their initial state.  A group that a write decided on old       *)
(* facts has changed is not followed further.  Requests are named like the   *)
(* group's users, so that one symmetry set serves all.                      *)
(***************************************************************************)
EXTENDS Relationships, Groups, Accounts, ChannelEdits, TLC

CONSTANTS a, b, g1, g2, g3, s1, s2, u1, u2

VARIABLE part   \* which of them this behaviour exercises

TwoUsers == {a, b}
ThreeUsers == {g1, g2, g3}
TwoSlots == {s1, s2}
Symmetry == Permutations(TwoUsers) \cup Permutations(ThreeUsers)
            \cup Permutations(TwoSlots)

MCLower == [n \in Usernames |-> IF n = "Ann" THEN "ann" ELSE n]
MCFirstNames == [u \in AUsers |-> IF u = u1 THEN "bob" ELSE "none"]

\* The edits.  Names, texts and permissions are numbers below 10, files are
\* 11 and 12, and the last two edits ask for nothing a route looks at.
MCEdit(sets, remove) == [sets |-> sets, remove |-> remove]
MCChangeData ==
    {MCEdit("name" :> 1, {}), MCEdit("description" :> 2, {"voice"}),
     MCEdit("icon" :> 11, {}), MCEdit("icon" :> 12, {"description"}),
     MCEdit("icon" :> 12, {"icon"}), MCEdit(<<>>, {"icon"}),
     MCEdit("voice" :> 64, {"icon"}), MCEdit("voice" :> 16, {}),
     MCEdit(<<>>, {}), MCEdit("permissions" :> 3, {})}

SocialInit ==
    /\ RelInit /\ GroupInit /\ AccountsInit /\ EditsInit
    /\ part \in {"relations", "group", "accounts", "edits"}
    /\ part # "edits" => kind = "text"

SocialNext ==
    /\ UNCHANGED part
    /\ \/ part = "relations" /\ RelNext /\ UNCHANGED <<groupVars, accountVars, editVars>>
       \/ part = "group" /\ ~misled /\ GroupNext /\ UNCHANGED <<relVars, accountVars, editVars>>
       \/ part = "accounts" /\ AccountsNext /\ UNCHANGED <<relVars, groupVars, editVars>>
       \/ part = "edits" /\ EditsNext /\ UNCHANGED <<relVars, groupVars, accountVars>>

SocialSpec ==
    SocialInit /\ [][SocialNext]_<<relVars, groupVars, accountVars, editVars, part>>
=============================================================================

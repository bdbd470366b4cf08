------------------------------- MODULE Replica -------------------------------
(***************************************************************************)
(* What a mirror of an external value promises: it holds, for every key, a  *)
(* value the owner gave at some time, and the owner's value for good once   *)
(* that is settled.                                                         *)
(***************************************************************************)
CONSTANTS Key, Value

VARIABLES
    truth,  \* truth[k]: the owner's value
    given,  \* given[k]: the values the owner has had
    copy    \* copy[k]: the mirror's value

replicaVars == <<truth, given, copy>>

Init ==
    /\ truth \in [Key -> Value]
    /\ given = [k \in Key |-> {truth[k]}]
    /\ copy = truth

(* The owner changes its mind. *)
Change(k, v) ==
    /\ truth' = [truth EXCEPT ![k] = v]
    /\ given' = [given EXCEPT ![k] = @ \cup {v}]
    /\ UNCHANGED copy

(* The mirror takes over a value, not always the newest. *)
Take(k, v) ==
    /\ v \in given[k]
    /\ copy' = [copy EXCEPT ![k] = v]
    /\ UNCHANGED <<truth, given>>

Next == \E k \in Key, v \in Value : Change(k, v) \/ Take(k, v)

Safe == Init /\ [][Next]_replicaVars

Follows ==
    \A k \in Key, v \in Value : <>[](truth[k] = v) => <>[](copy[k] = v)
=============================================================================

------------------------------ MODULE MCBroker ------------------------------
(***************************************************************************)
(* The parts of the direct-message broker: the offline queues, the relay     *)
(* with its device registry, the channel epochs, the sync queue of one       *)
(* device, and the direct-message channels it serves, of a user and a bot    *)
(* (two requests, two workers, two messages).  They share no state, so a     *)
(* behaviour exercises one of them and leaves the others in their initial    *)
(* state.  Sessions, sources, purges and requests are named like drains, so  *)
(* that one symmetry set serves all.                                        *)
(***************************************************************************)
EXTENDS BrokerQueue, DmRelay, DirectMessages, TLC

CONSTANTS p1, p2, p3, d1, d2, q1, global, pair

VARIABLE part   \* which of them this behaviour exercises

(* One sender with a budget of its own and one per recipient; a device of   *)
(* one recipient.                                                           *)
MCTargetOf == (p1 :> q1) @@ (p2 :> q1) @@ (p3 :> q1)
              @@ (d1 :> q1) @@ (d2 :> q1)
MCTarget == [x \in Pushes \cup Drains |-> MCTargetOf[x]]
MCCountersOf == [p \in Pushes |-> Counters]
MCLimit == [k \in Counters |-> IF k = global THEN 3 ELSE 2]

Symmetry == Permutations(Drains)

BrokerInit ==
    /\ QueueInit /\ DmInit /\ EpochInit /\ SyncInit /\ DirectInit
    /\ part \in {"queue", "relay", "epoch", "sync", "direct"}

BrokerNext ==
    /\ UNCHANGED part
    /\ \/ /\ part = "queue" /\ QueueNext
          /\ UNCHANGED <<dmVars, epochVars, syncVars, directVars>>
       \/ /\ part = "relay" /\ DmNext
          /\ UNCHANGED <<brokerQueueVars, epochVars, syncVars, directVars>>
       \/ /\ part = "epoch" /\ EpochNext
          /\ UNCHANGED <<brokerQueueVars, dmVars, syncVars, directVars>>
       \/ /\ part = "sync" /\ SyncNext
          /\ UNCHANGED <<brokerQueueVars, dmVars, epochVars, directVars>>
       \/ /\ part = "direct" /\ DirectNext
          /\ UNCHANGED <<brokerQueueVars, dmVars, epochVars, syncVars>>

BrokerSpec ==
    /\ BrokerInit
    /\ [][BrokerNext]_<<brokerQueueVars, dmVars, epochVars, syncVars, directVars, part>>
=============================================================================

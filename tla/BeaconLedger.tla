---------------------------- MODULE BeaconLedger ----------------------------
(***************************************************************************)
(* The beacon documents of the API: what owners register, change and        *)
(* delete, and the downloads peers report.  A document's id is its owner     *)
(* and the hash of the file.  A document is read and later written, and      *)
(* requests interleave between.                                             *)
(***************************************************************************)
EXTENDS Integers

CONSTANTS
    BeaconIds,     \* ids: an owner and a file
    LRequests,     \* requests under way at a time
    MaxDownloads,  \* bound on the downloads of a beacon
    NoBeacon       \* stands for no document

Modes == {"Ephemeral", "AlwaysOnline", "Custom"}

Beacon == [status : {"Active", "Deleted", "Expired"}, expiry_mode : Modes,
           expires_at : BOOLEAN, download_count : 0 .. MaxDownloads]

ASSUME LedgerAssumption == MaxDownloads \in Nat /\ NoBeacon \notin Beacon

VARIABLES
    ledger,     \* the documents
    lreq,       \* what each request is at
    downloads   \* history: downloads recorded of each beacon

ledgerVars == <<ledger, lreq, downloads>>

Ready0 == [op |-> "none"]

LedgerInit ==
    /\ ledger = [b \in BeaconIds |-> NoBeacon]
    /\ lreq = [q \in LRequests |-> Ready0]
    /\ downloads = [b \in BeaconIds |-> 0]

LedgerTypeOK == ledger \in [BeaconIds -> Beacon \cup {NoBeacon}]

LReq(q, r) == lreq' = [lreq EXCEPT ![q] = r]

\* BUG VARIANT: the document registered replaces the counters too.
InsertReplaces(b, doc) == [ledger EXCEPT ![b] = doc]

(* The upsert sets what the registration has; the counter is set on insert   *)
(* only, and a deadline that is None is not written.                        *)
insert_beacon(b, doc) ==
    [ledger EXCEPT ![b] = IF @ = NoBeacon THEN doc
                          ELSE [doc EXCEPT !.download_count = ledger[b].download_count,
                                           !.expires_at = @ \/ ledger[b].expires_at]]

(* POST beacons: Custom needs a deadline, the other modes have none. *)
register_beacon(b, mode) ==
    /\ ledger' = insert_beacon(b, [status |-> "Active", expiry_mode |-> mode,
                                   expires_at |-> (mode = "Custom"), download_count |-> 0])
    /\ UNCHANGED <<lreq, downloads>>

(* PATCH, DELETE and seen read the document first. *)
fetch_beacon(q, b, op) ==
    /\ lreq[q] = Ready0 /\ ledger[b] # NoBeacon
    /\ LReq(q, [op |-> op, id |-> b, mode |-> ledger[b].expiry_mode])
    /\ UNCHANGED <<ledger, downloads>>

(* What PATCH refuses: Custom without a deadline, and a deadline alone for a *)
(* beacon that was not read as Custom.                                      *)
DeadlineFits(r, mode, deadline) ==
    /\ mode = {"Custom"} => deadline
    /\ (mode = {} /\ deadline) => r.mode = "Custom"

(* PATCH writes the fields it was given; status is Active or Expired, also   *)
(* of a beacon that was deleted.  A deadline that comes with another mode    *)
(* is ignored.                                                              *)
Patched(doc, mode, deadline, status) ==
    [doc EXCEPT !.expiry_mode = IF mode = {} THEN @ ELSE CHOOSE m \in mode : TRUE,
                !.expires_at = @ \/ (deadline /\ mode \subseteq {"Custom"}),
                !.status = IF status = {} THEN @ ELSE CHOOSE s \in status : TRUE]

update_beacon(q, mode, deadline, status) ==
    LET r == lreq[q] IN
    /\ r.op = "update" /\ DeadlineFits(r, mode, deadline)
    /\ ledger' = [ledger EXCEPT ![r.id] = Patched(@, mode, deadline, status)]
    /\ LReq(q, Ready0)
    /\ UNCHANGED downloads

delete_beacon(q) ==
    /\ lreq[q].op = "delete"
    /\ ledger' = [ledger EXCEPT ![lreq[q].id].status = "Deleted"]
    /\ LReq(q, Ready0)
    /\ UNCHANGED downloads

(* $inc of the count, and the time. *)
record_beacon_download(b) == [ledger EXCEPT ![b].download_count = @ + 1]

(* POST seen: whatever the status. *)
record_beacon_seen(q) ==
    LET b == lreq[q].id IN
    /\ lreq[q].op = "seen" /\ downloads[b] < MaxDownloads
    /\ ledger' = record_beacon_download(b)
    /\ downloads' = [downloads EXCEPT ![b] = @ + 1]
    /\ LReq(q, Ready0)

(* The request is refused, or a call fails. *)
LedgerFails(q) ==
    /\ lreq[q] # Ready0
    /\ LReq(q, Ready0)
    /\ UNCHANGED <<ledger, downloads>>

LedgerNext ==
    \/ \E b \in BeaconIds, m \in Modes : register_beacon(b, m)
    \/ \E q \in LRequests :
          \/ \E b \in BeaconIds, op \in {"update", "delete", "seen"} : fetch_beacon(q, b, op)
          \/ \E mode \in {{}} \cup {{m} : m \in Modes}, d \in BOOLEAN,
                status \in {{}, {"Active"}, {"Expired"}} : update_beacon(q, mode, d, status)
          \/ delete_beacon(q) \/ record_beacon_seen(q) \/ LedgerFails(q)

LedgerSpec == LedgerInit /\ [][LedgerNext]_ledgerVars

------------------------------------------------------------------------------
(* The ledger keeps its word whatever requests interleave: the counter of a  *)
(* beacon is the number of downloads recorded since it was first registered  *)
(* ("the owner shouldn't be able to roll their own counters back by          *)
(* re-registering", insert_beacon), through deletion and re-registration;    *)
(* and a beacon in the mode Custom has a deadline.                          *)
LedgerKept ==
    \A b \in BeaconIds : ledger[b] # NoBeacon =>
        /\ ledger[b].download_count = downloads[b]
        /\ ledger[b].expiry_mode = "Custom" => ledger[b].expires_at
=============================================================================

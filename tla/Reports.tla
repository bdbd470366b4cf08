------------------------------ MODULE Reports -------------------------------
(***************************************************************************)
(* Reports to the moderation team: POST safety/report marks the files of    *)
(* the reported content, saves snapshots of it and then the report; two      *)
(* moderators close reports and write the audit log.  Every call may fail.  *)
(***************************************************************************)
EXTENDS Integers, Sequences, FiniteSets

CONSTANTS
    Contents,    \* contents that may be reported: "message", "server", "user"
    Evidence,    \* files
    FilesOf,     \* FilesOf[c]: files of each content
    ReportIds,   \* reports, each id used once
    Moderators,  \* privileged users
    NoReport     \* stands for no report

Report == [content : SUBSET Contents, status : {"Created", "Resolved", "Rejected"}]

ASSUME ReportsAssumption == FilesOf \in [Contents -> SUBSET Evidence] /\ NoReport \notin Report

VARIABLES
    present,    \* contents that still exist
    reported,   \* files with the reported flag
    snapshots,  \* <<report, content>>
    reports,    \* reports[r]: the document: content, message_id and status
    filing,     \* filing[r]: what the request that files r has left to do
    triage,     \* triage[m]: the report moderator m closes, and how
    audit,      \* audit[r]: the entries of the log about r
    cut         \* history: reports whose closing overlapped or failed half way

reportVars == <<present, reported, snapshots, reports, filing, triage, audit, cut>>

NotBegun == [at |-> "new"]
Over == [at |-> "over"]
NoTriage == [at |-> "none"]

ReportsInit ==
    /\ present = Contents /\ reported = {} /\ snapshots = {} /\ cut = {}
    /\ reports = [r \in ReportIds |-> NoReport]
    /\ filing = [r \in ReportIds |-> NotBegun]
    /\ triage = [m \in Moderators |-> NoTriage]
    /\ audit = [r \in ReportIds |-> <<>>]

ReportsTypeOK ==
    /\ reported \subseteq Evidence /\ snapshots \subseteq ReportIds \X Contents
    /\ reports \in [ReportIds -> Report \cup {NoReport}]

Filing(r, f) == filing' = [filing EXCEPT ![r] = f]

------------------------------------------------------------------------------
(* SnapshotContent: the files of a message, a server or a user. *)
generate_from(contents) == UNION {FilesOf[c] : c \in contents}

(* The content exists and is not the reporter's own; a report of a user may  *)
(* name a message as its context, which is left out when it is gone.        *)
report_content(r, c, context) ==
    LET contents == {c} \cup (context \cap present) IN
    /\ filing[r] = NotBegun /\ c \in present
    /\ context \subseteq {"message"} /\ (context # {} => c = "user")
    /\ Filing(r, [at |-> "mark", content |-> contents, files |-> generate_from(contents),
                  left |-> contents])
    /\ UNCHANGED <<present, reported, snapshots, reports, triage, audit, cut>>

mark_attachment_as_reported_by(r) ==
    /\ filing[r].at = "mark"
    /\ IF filing[r].files = {}
       THEN Filing(r, [filing[r] EXCEPT !.at = "save"]) /\ UNCHANGED reported
       ELSE \E f \in filing[r].files :
               /\ reported' = reported \cup {f}
               /\ Filing(r, [filing[r] EXCEPT !.files = @ \ {f}])
    /\ UNCHANGED <<present, snapshots, reports, triage, audit, cut>>

insert_snapshot(r) ==
    /\ filing[r].at = "save"
    /\ \E c \in filing[r].left :
          /\ snapshots' = snapshots \cup {<<r, c>>}
          /\ Filing(r, [filing[r] EXCEPT !.left = @ \ {c}])
    /\ UNCHANGED <<present, reported, reports, triage, audit, cut>>

\* BUG VARIANT: the report is saved while a snapshot may be missing.
ReadyAtOnce(f) == f.at = "save"

(* All the snapshots are saved. *)
Ready(f) == f.at = "save" /\ f.left = {}

insert_report(r) ==
    /\ Ready(filing[r])
    /\ reports' = [reports EXCEPT ![r] = [content |-> filing[r].content, status |-> "Created"]]
    /\ Filing(r, Over)
    /\ UNCHANGED <<present, reported, snapshots, triage, audit, cut>>

FilingFails(r) ==
    /\ filing[r].at \in {"mark", "save"}
    /\ Filing(r, Over)
    /\ UNCHANGED <<present, reported, snapshots, reports, triage, audit, cut>>

(* The content is deleted. *)
ContentDeleted(c) ==
    /\ c \in present
    /\ present' = present \ {c}
    /\ UNCHANGED <<reported, snapshots, reports, filing, triage, audit, cut>>

------------------------------------------------------------------------------
Closing(r) == {m \in Moderators : triage[m] # NoTriage /\ triage[m].id = r}

(* The report is fetched and its status set, whatever it was. *)
update_report_status(m, r, status) ==
    /\ triage[m] = NoTriage /\ reports[r] # NoReport /\ Len(audit[r]) < 2
    /\ reports' = [reports EXCEPT ![r].status = status]
    /\ triage' = [triage EXCEPT ![m] = [at |-> "log", id |-> r, status |-> status]]
    /\ cut' = IF Closing(r) = {} THEN cut ELSE cut \cup {r}
    /\ UNCHANGED <<present, reported, snapshots, filing, audit>>

resolve_report(m, r) == update_report_status(m, r, "Resolved")
reject_report(m, r) == update_report_status(m, r, "Rejected")

(* The entry's action: ResolveReport or RejectReport. *)
Entry(t) == t.status

insert_audit_log(m) ==
    LET t == triage[m] IN
    /\ t # NoTriage
    /\ audit' = [audit EXCEPT ![t.id] = Append(@, Entry(t))]
    /\ triage' = [triage EXCEPT ![m] = NoTriage]
    /\ UNCHANGED <<present, reported, snapshots, reports, filing, cut>>

TriageFails(m) ==
    /\ triage[m] # NoTriage
    /\ cut' = cut \cup {triage[m].id}
    /\ triage' = [triage EXCEPT ![m] = NoTriage]
    /\ UNCHANGED <<present, reported, snapshots, reports, filing, audit>>

ReportsNext ==
    \/ \E r \in ReportIds :
          \/ \E c \in Contents, context \in SUBSET {"message"} : report_content(r, c, context)
          \/ mark_attachment_as_reported_by(r) \/ insert_snapshot(r) \/ insert_report(r)
          \/ FilingFails(r)
          \/ \E m \in Moderators : resolve_report(m, r) \/ reject_report(m, r)
    \/ \E m \in Moderators : insert_audit_log(m) \/ TriageFails(m)
    \/ \E c \in Contents : ContentDeleted(c)

ReportsSpec == ReportsInit /\ [][ReportsNext]_reportVars

------------------------------------------------------------------------------
(* A report a moderator can see has all of its evidence, also when the       *)
(* content was deleted while it was filed or a call of the request failed:   *)
(* every snapshot is saved and every file is marked before the report is.   *)
(* A closed report's last entry in the audit log is how it was closed,       *)
(* unless two moderators closed it at once or the log could not be written. *)
ReportsAccounted ==
    \A r \in ReportIds : reports[r] # NoReport =>
        /\ \A c \in reports[r].content : <<r, c>> \in snapshots /\ FilesOf[c] \subseteq reported
        /\ (r \notin cut /\ Closing(r) = {}) =>
              IF reports[r].status = "Created" THEN audit[r] = <<>>
              ELSE audit[r] # <<>> /\ audit[r][Len(audit[r])] = reports[r].status
=============================================================================

------------------------------ MODULE MCCrond ------------------------------
(***************************************************************************)
(* What comes and goes and is cleaned up by crond: the members of a server  *)
(* (an owner and a user, two requests in flight at a time, and time for a  *)
(* timeout to be set, changed, to end and to be pruned), and stored files  *)
(* (two uploads, of contents of which the second is what the first looks   *)
(* like without its metadata).  The two share nothing; a behaviour         *)
(* exercises one.                                                          *)
(***************************************************************************)
EXTENDS ServerMembers, Attachments

CONSTANTS o, a, q1, q2, c1, c2

VARIABLE part   \* which of them this behaviour exercises

MCUsers == {o, a}

MCProcessed == [c \in {c1, c2} |-> c2]

CrondInit == Init /\ FilesInit /\ part \in {"members", "files"}

CrondNext ==
    /\ UNCHANGED part
    /\ \/ part = "members" /\ Next /\ UNCHANGED fileVars
       \/ part = "files" /\ FilesNext /\ UNCHANGED vars

(* file_deletion goes on by itself *)
CrondSpec ==
    /\ CrondInit /\ [][CrondNext]_<<vars, fileVars, part>>
    /\ WF_fileVars(part = "files" /\ DeletionTask)
=============================================================================

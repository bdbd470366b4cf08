---------------------------- MODULE Attachments ----------------------------
(***************************************************************************)
(* Stored files: autumn writes them (upload_file), delta puts them to use  *)
(* and marks them as deleted, crond removes what is marked and marks what  *)
(* nobody used.  A file record names a hash entry and the entry an object  *)
(* in S3 that is encrypted under the entry's nonce (`iv`); uploads of the  *)
(* same content share entry and object.  Each database or S3 call is a     *)
(* step of its own: the three services run concurrently.                   *)
(***************************************************************************)
EXTENDS Naturals, FiniteSets

CONSTANTS
    FileIds,     \* ids of files; each is drawn by one upload (nanoid)
    Contents,    \* sha256 of what is uploaded: id and path of a hash entry
    Processed,   \* sha256 after strip_metadata: [Contents -> Contents]
    Parents,     \* messages, users, servers ... that use files
    UseSlots,    \* calls of find_and_use_attachment in progress
    MaxRestarts, \* bound on the restarts of crond
    NoContent,   \* no upload, no deletion in progress
    NoParent,    \* `used_for` is absent
    NoFile,      \* no record with this id
    NoNonce,     \* no entry, or no object
    Empty        \* iv: String::new(), "file is not uploaded yet"

File ==
    [hash : Contents, used_for : Parents \cup {NoParent}, deleted : BOOLEAN,
     reported : BOOLEAN, old : BOOLEAN]

ASSUME ProcessedAssumption == Processed \in [Contents -> Contents]
ASSUME MaxRestartsAssumption == MaxRestarts \in Nat
ASSUME ContentlessAssumption ==
    /\ NoNonce \notin FileIds /\ Empty \notin FileIds /\ NoNonce # Empty
    /\ NoFile \notin FileIds \cup File /\ NoContent \notin Contents /\ NoParent \notin Parents

VARIABLES
    files,    \* collection `attachments`: [FileIds -> File or NoFile]
    hashes,   \* collection `attachment_hashes`: the iv of each entry, NoNonce without one
    objects,  \* S3: the nonce each object is encrypted under, NoNonce without one
    upload,   \* upload_file, one call for each file id
    use,      \* find_and_use_attachment, between its read and its write
    deletion, \* crond's file_deletion task
    prune,    \* crond's prune_dangling_files task: what it fetched, and filtered
    restarts, \* how often crond was restarted
    raced     \* history: entries handled by two parties at once, or half deleted

fileVars ==
    <<files, hashes, objects, upload, use, deletion, prune, restarts, raced>>

Steps == {"idle", "link", "reserve", "send", "commit", "insert", "done"}
Tasks == {"asleep", "count", "fetch", "erase", "forget", "finish", "remove", "stopped"}

FilesTypeOK ==
    /\ files \in [FileIds -> File \cup {NoFile}]
    /\ hashes \in [Contents -> FileIds \cup {Empty, NoNonce}]
    /\ objects \in [Contents -> FileIds \cup {NoNonce}]
    /\ upload \in [FileIds -> [step : Steps, content : Contents \cup {NoContent}]]
    /\ use \in [UseSlots -> [file : FileIds \cup {NoFile}, parent : Parents \cup {NoParent}]]
    /\ deletion \in [step : Tasks, todo : SUBSET FileIds,
                     file : FileIds \cup {NoFile}, entry : Contents \cup {NoContent}]
    /\ prune \in [ids : SUBSET FileIds, filtered : BOOLEAN]
    /\ raced \subseteq Contents
    /\ restarts \in 0 .. MaxRestarts

Exists(f) == files[f] # NoFile
Deleted(f) == Exists(f) /\ files[f].deleted /\ ~files[f].reported

\* fetch_attachment_hash: find_one returns any entry with this id or this
\* processed hash.
Found(c) == {e \in Contents : hashes[e] # NoNonce /\ (e = c \/ Processed[e] = c)}

\* The nonce of the entry decrypts its object.
Decrypts(e) == hashes[e] \in FileIds /\ hashes[e] = objects[e]

InFlight(c) == {f \in FileIds : upload[f].content = c
                    /\ upload[f].step \in {"link", "reserve", "send", "commit", "insert"}}

\* crond has counted the references of the entry and goes on to delete it.
Erasing(c) == deletion.step \in {"fetch", "erase", "forget"} /\ deletion.entry = c

\* The entry is not filled in yet, or its object is gone and it goes next.
HalfWay(e) == hashes[e] = Empty \/ (deletion.step = "forget" /\ deletion.entry = e)

NoPrune == [ids |-> {}, filtered |-> FALSE]
NoUse == [file |-> NoFile, parent |-> NoParent]
Asleep == [step |-> "asleep", todo |-> {}, file |-> NoFile, entry |-> NoContent]

FilesInit ==
    /\ files = [f \in FileIds |-> NoFile]
    /\ hashes = [c \in Contents |-> NoNonce]
    /\ objects = [c \in Contents |-> NoNonce]
    /\ upload = [f \in FileIds |-> [step |-> "idle", content |-> NoContent]]
    /\ use = [s \in UseSlots |-> NoUse]
    /\ deletion = Asleep
    /\ prune = NoPrune
    /\ raced = {}
    /\ restarts = 0

-----------------------------------------------------------------------------
(* autumn: upload_file *)

Go(f, step) == upload' = [upload EXCEPT ![f].step = step]
End(f) == upload' = [upload EXCEPT ![f] = [step |-> "done", content |-> NoContent]]

\* BUG VARIANT of upload_file: an entry is linked whether its object is in
\* place or not.
LinkUnfinished(f, c) ==
    /\ upload[f].step = "idle"
    /\ \/ /\ Found(c) = {}
          /\ upload' = [upload EXCEPT ![f] = [step |-> "reserve", content |-> c]]
       \/ \E e \in Found(c) :
            upload' = [upload EXCEPT ![f] = [step |-> "link", content |-> e]]
    /\ UNCHANGED <<files, hashes, objects, use, deletion, prune, restarts, raced>>

\* The checks on size, type and metadata pass and the entry is looked up.  An
\* entry whose object is in place is linked under its own id; one without is
\* taken over by this upload.
upload_file(f, c) ==
    /\ upload[f].step = "idle"
    /\ \/ /\ Found(c) = {}
          /\ upload' = [upload EXCEPT ![f] = [step |-> "reserve", content |-> c]]
          /\ UNCHANGED raced
       \/ \E e \in Found(c) :
            \/ /\ hashes[e] # Empty
               /\ upload' = [upload EXCEPT ![f] = [step |-> "link", content |-> e]]
               /\ UNCHANGED raced
            \/ /\ hashes[e] = Empty
               /\ upload' = [upload EXCEPT ![f] = [step |-> "send", content |-> c]]
               /\ raced' = IF e # c \/ InFlight(c) # {} THEN raced \cup {c, e} ELSE raced
    /\ UNCHANGED <<files, hashes, objects, use, deletion, prune, restarts>>

\* The id of an entry is unique: the second of two inserts fails.
insert_attachment_hash(f) ==
    LET c == upload[f].content IN
    /\ upload[f].step = "reserve"
    /\ \/ /\ hashes[c] = NoNonce
          /\ hashes' = [hashes EXCEPT ![c] = Empty]
          /\ Go(f, "send")
       \/ /\ hashes[c] # NoNonce
          /\ End(f)
          /\ UNCHANGED hashes
    /\ UNCHANGED <<files, objects, use, deletion, prune, restarts, raced>>

\* The nonce is random: the id of the upload stands for it.
upload_to_s3(f) ==
    /\ upload[f].step = "send"
    /\ objects' = [objects EXCEPT ![upload[f].content] = f]
    /\ Go(f, "commit")
    /\ UNCHANGED <<files, hashes, use, deletion, prune, restarts, raced>>

\* An update_one that matches no entry succeeds.
set_attachment_hash_nonce(f) ==
    LET c == upload[f].content IN
    /\ upload[f].step = "commit"
    /\ hashes' = IF hashes[c] = NoNonce THEN hashes ELSE [hashes EXCEPT ![c] = f]
    /\ Go(f, "insert")
    /\ UNCHANGED <<files, objects, use, deletion, prune, restarts, raced>>

insert_attachment(f) ==
    LET c == upload[f].content IN
    /\ upload[f].step \in {"link", "insert"}
    /\ files' = [files EXCEPT ![f] =
            [hash |-> c, used_for |-> NoParent, deleted |-> FALSE,
             reported |-> FALSE, old |-> FALSE]]
    /\ raced' = IF Erasing(c) THEN raced \cup {c} ELSE raced
    /\ End(f)
    /\ UNCHANGED <<hashes, objects, use, deletion, prune, restarts>>

\* Malware, an S3 or database error, or autumn stops.
UploadFails(f) ==
    /\ upload[f].step \in {"reserve", "send", "commit", "insert"}
    /\ End(f)
    /\ UNCHANGED <<files, hashes, objects, use, deletion, prune, restarts, raced>>

\* An hour passes after the upload.
Age(f) ==
    /\ Exists(f)
    /\ ~files[f].old
    /\ files' = [files EXCEPT ![f].old = TRUE]
    /\ UNCHANGED <<hashes, objects, upload, use, deletion, prune, restarts, raced>>

-----------------------------------------------------------------------------
(* delta: a file is used, released, reported *)

\* find_and_use_attachment reads a record without used_for; `deleted` is not
\* looked at.
find_attachment(s, f, p) ==
    /\ use[s].file = NoFile
    /\ Exists(f)
    /\ files[f].used_for = NoParent
    /\ use' = [use EXCEPT ![s] = [file |-> f, parent |-> p]]
    /\ UNCHANGED <<files, hashes, objects, upload, deletion, prune, restarts, raced>>

\* ... and writes the parent by id alone.
use_attachment(s) ==
    LET f == use[s].file IN
    /\ f # NoFile
    /\ files' = IF Exists(f) THEN [files EXCEPT ![f].used_for = use[s].parent] ELSE files
    /\ use' = [use EXCEPT ![s] = NoUse]
    /\ UNCHANGED <<hashes, objects, upload, deletion, prune, restarts, raced>>

\* The parent drops the file, or is deleted itself.
mark_attachment_as_deleted(f) ==
    /\ Exists(f)
    /\ files[f].used_for # NoParent
    /\ files' = [files EXCEPT ![f].deleted = TRUE]
    /\ UNCHANGED <<hashes, objects, upload, use, deletion, prune, restarts, raced>>

mark_attachment_as_reported(f) ==
    /\ Exists(f)
    /\ files[f].used_for # NoParent
    /\ files' = [files EXCEPT ![f].reported = TRUE]
    /\ UNCHANGED <<hashes, objects, upload, use, deletion, prune, restarts, raced>>

-----------------------------------------------------------------------------
(* crond: file_deletion *)

fetch_deleted_attachments ==
    LET todo == {f \in FileIds : Deleted(f)} IN
    /\ deletion.step = "asleep"
    /\ todo # {}
    /\ deletion' = [deletion EXCEPT !.step = "count", !.todo = todo]
    /\ UNCHANGED <<files, hashes, objects, upload, use, prune, restarts, raced>>

References(c) == {f \in FileIds : Exists(f) /\ files[f].hash = c}

\* The next file of the list.  With no other reference its entry goes too.
count_file_hash_references(f) ==
    LET c == files[f].hash IN
    /\ deletion.step = "count"
    /\ f \in deletion.todo
    /\ deletion' = [deletion EXCEPT !.file = f, !.entry = c,
            !.step = IF Cardinality(References(c)) <= 1 THEN "fetch" ELSE "remove"]
    /\ UNCHANGED <<files, hashes, objects, upload, use, prune, restarts, raced>>

\* A missing entry is an error: the task ends and with it crond (try_join!).
\* An entry found by its processed hash may be another file's.
fetch_attachment_hash ==
    /\ deletion.step = "fetch"
    /\ \/ /\ Found(deletion.entry) = {}
          /\ deletion' = [deletion EXCEPT !.step = "stopped"]
          /\ prune' = NoPrune
          /\ UNCHANGED raced
       \/ \E e \in Found(deletion.entry) :
            /\ deletion' = [deletion EXCEPT !.step = "erase", !.entry = e]
            /\ raced' = IF e # deletion.entry THEN raced \cup {e, deletion.entry} ELSE raced
            /\ UNCHANGED prune
    /\ UNCHANGED <<files, hashes, objects, upload, use, restarts>>

Overtaken(c) == IF InFlight(c) # {} THEN raced \cup {c} ELSE raced

delete_from_s3 ==
    LET c == deletion.entry IN
    /\ deletion.step = "erase"
    /\ objects' = [objects EXCEPT ![c] = NoNonce]
    /\ deletion' = [deletion EXCEPT !.step = "forget"]
    /\ raced' = Overtaken(c)
    /\ UNCHANGED <<files, hashes, upload, use, prune, restarts>>

delete_attachment_hash ==
    LET c == deletion.entry IN
    /\ deletion.step = "forget"
    /\ hashes' = [hashes EXCEPT ![c] = NoNonce]
    /\ deletion' = [deletion EXCEPT !.step = "finish"]
    /\ raced' = Overtaken(c)
    /\ UNCHANGED <<files, objects, upload, use, prune, restarts>>

\* Nothing is left of an entry: what happened to it is over.
Fresh(c) == hashes[c] = NoNonce /\ objects[c] = NoNonce /\ InFlight(c) = {}

\* BUG VARIANT of delete_attachment: a file whose entry stays is passed over.
SkipShared ==
    LET f == deletion.file
        todo == deletion.todo \ {f}
    IN
    /\ deletion.step \in {"remove", "finish"}
    /\ files' = IF deletion.step = "finish" THEN [files EXCEPT ![f] = NoFile] ELSE files
    /\ deletion' = IF todo = {} THEN Asleep ELSE [Asleep EXCEPT !.step = "count", !.todo = todo]
    /\ UNCHANGED <<hashes, objects, upload, use, prune, restarts, raced>>

delete_attachment ==
    LET f == deletion.file
        todo == deletion.todo \ {f}
    IN
    /\ deletion.step \in {"remove", "finish"}
    /\ files' = [files EXCEPT ![f] = NoFile]
    /\ deletion' = IF todo = {} THEN Asleep ELSE [Asleep EXCEPT !.step = "count", !.todo = todo]
    /\ raced' = {c \in raced : ~Fresh(c) \/ References(c) \ {f} # {}}
    /\ UNCHANGED <<hashes, objects, upload, use, prune, restarts>>

-----------------------------------------------------------------------------
(* crond: prune_dangling_files *)

\* Every file that nothing uses, of whatever age.
fetch_dangling_files ==
    LET dangling == {f \in FileIds : /\ Exists(f) /\ ~files[f].deleted
                                     /\ files[f].used_for = NoParent} IN
    /\ deletion.step # "stopped"
    /\ prune = NoPrune
    /\ dangling # {}
    /\ prune' = [ids |-> dangling, filtered |-> FALSE]
    /\ UNCHANGED <<files, hashes, objects, upload, use, deletion, restarts, raced>>

\* The hour is measured once the answer is there.  Nothing old: nothing is marked.
filter_by_age ==
    LET aged == {f \in prune.ids : Exists(f) => files[f].old} IN
    /\ prune.ids # {}
    /\ ~prune.filtered
    /\ prune' = IF aged = {} THEN NoPrune ELSE [ids |-> aged, filtered |-> TRUE]
    /\ UNCHANGED <<files, hashes, objects, upload, use, deletion, restarts, raced>>

mark_attachments_as_deleted ==
    /\ prune.filtered
    /\ files' = [f \in FileIds |-> IF f \in prune.ids /\ Exists(f)
                    THEN [files[f] EXCEPT !.deleted = TRUE] ELSE files[f]]
    /\ prune' = NoPrune
    /\ UNCHANGED <<hashes, objects, upload, use, deletion, restarts, raced>>

\* crond stops between two calls, or has ended by an error, and is started
\* again.  An entry may be left without its object, a file without its entry.
Restart ==
    /\ deletion.step # "asleep" \/ prune # NoPrune
    /\ restarts < MaxRestarts
    /\ restarts' = restarts + 1
    /\ deletion' = Asleep
    /\ prune' = NoPrune
    /\ raced' = IF deletion.step \in {"forget", "finish"}
                THEN raced \cup {deletion.entry} ELSE raced
    /\ UNCHANGED <<files, hashes, objects, upload, use>>

-----------------------------------------------------------------------------
Autumn(f) ==
    \/ \E c \in Contents : upload_file(f, c)
    \/ insert_attachment_hash(f)
    \/ upload_to_s3(f)
    \/ set_attachment_hash_nonce(f)
    \/ insert_attachment(f)
    \/ UploadFails(f)
    \/ Age(f)

Delta ==
    \/ \E s \in UseSlots, f \in FileIds, p \in Parents : find_attachment(s, f, p)
    \/ \E s \in UseSlots : use_attachment(s)
    \/ \E f \in FileIds : mark_attachment_as_deleted(f)
    \/ \E f \in FileIds : mark_attachment_as_reported(f)

DeletionTask ==
    \/ fetch_deleted_attachments
    \/ \E f \in deletion.todo : count_file_hash_references(f)
    \/ fetch_attachment_hash
    \/ delete_from_s3
    \/ delete_attachment_hash
    \/ delete_attachment

FilesNext ==
    \/ \E f \in FileIds : Autumn(f)
    \/ Delta
    \/ DeletionTask
    \/ fetch_dangling_files
    \/ filter_by_age
    \/ mark_attachments_as_deleted
    \/ Restart

\* The task is a loop over awaited calls that answer: it goes on by itself.
FilesSpec == FilesInit /\ [][FilesNext]_fileVars /\ WF_fileVars(DeletionTask)

-----------------------------------------------------------------------------
(* Properties *)

\* fetch_file looks the entry up by the file's hash, as an id or as a processed
\* hash, and takes whichever the database returns.  The file's own entry is
\* there with an object that its nonce decrypts, until crond erases it for the
\* last file that refers to it; any other entry that can be returned decrypts
\* its object too, except while it is half way: an upload has reserved it and
\* not filled it in, or crond has deleted its object and not yet the entry.
\* Only entries that an upload and crond, or two uploads, handled at once (or
\* crond left half deleted) can fail this.
FilesReadable ==
    \A f \in FileIds :
        Exists(f) =>
            \/ files[f].hash \in raced
            \/ deletion.file = f
            \/ /\ Decrypts(files[f].hash)
               /\ \A e \in Found(files[f].hash) \ raced : Decrypts(e) \/ HalfWay(e)

\* A file marked as deleted and not reported is removed in the end, when the
\* calls of file_deletion answer and crond is started again after it stopped.
\* Each `?` of the task, and the `expect` on a record without a hash, ends
\* crond.  The one that occurs although every call answers is that of
\* fetch_attachment_hash on a missing entry: only an entry that was raced for
\* or left half deleted stops crond so.
DeletedIsRemoved ==
    \A f \in FileIds :
        Deleted(f) ~> \/ ~Deleted(f)
                      \/ deletion.step = "stopped" /\ deletion.entry \in raced

\* file_deletion: "No other files reference this file on disk anymore" when its
\* object and its entry are deleted.
NoOtherReference ==
    deletion.step \in {"erase", "forget"} => References(deletion.entry) \subseteq {deletion.file}
=============================================================================

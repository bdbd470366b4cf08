---------------------------- MODULE Migrations -----------------------------
(***************************************************************************)
(* What delta does to the database when it starts (migrate_database): a    *)
(* database that does not exist is created, one that does is brought to    *)
(* LATEST_REVISION by the scripts its recorded revision asks for.  The     *)
(* revision is written once, at the end; every command before it is a step *)
(* of its own, at which the process can stop, panic (an expect or unwrap)  *)
(* or be overtaken by another instance that starts meanwhile.  Of the data *)
(* only what a second run can damage is kept; a rewrite of anything else   *)
(* is listed and passed over.                                              *)
(***************************************************************************)
EXTENDS Naturals, Sequences, FiniteSets

CONSTANTS
    Revisions,      \* the revisions that databases are found at
    Instances,      \* processes that run migrate_database
    MaxStarts,      \* bound on how often an instance is started
    NoRevision      \* the collection `migrations` is empty

LATEST_REVISION == 50

ASSUME RevisionsAssumption == Revisions \subseteq 0 .. LATEST_REVISION
ASSUME MaxStartsAssumption == MaxStarts \in Nat
ASSUME NoRevisionAssumption == NoRevision \notin Nat

VARIABLES
    db,         \* the database
    inst,       \* [Instances -> the run in progress]
    starts,     \* how often an instance was started
    first,      \* history: what the first instance found
    mishandled  \* history: choices that revision 13 read when it had changed them
                \* already, or passed over

migrationVars == <<db, inst, starts, first, mishandled>>

-----------------------------------------------------------------------------
(* The commands, each with the revision whose script contains it *)

Create(rev, col) == [rev |-> rev, op |-> "create", col |-> col, names |-> {}]
TryCreate(rev, col) == [rev |-> rev, op |-> "try_create", col |-> col, names |-> {}]
Index(rev, col, names) == [rev |-> rev, op |-> "index", col |-> col, names |-> names]
Drop(rev, col, names) == [rev |-> rev, op |-> "drop", col |-> col, names |-> names]
TryDrop(rev, col, names) == [rev |-> rev, op |-> "try_drop", col |-> col, names |-> names]
Rewrite(rev, col) == [rev |-> rev, op |-> "rewrite", col |-> col, names |-> {}]
Do(rev, op) == [rev |-> rev, op |-> op, col |-> "", names |-> {}]

Scripts1to7 ==
    <<Rewrite(1, "messages"), Rewrite(1, "attachments"), Create(2, "servers"),
      Rewrite(3, "messages"), Create(3, "channel_unreads"), Create(3, "user_settings"),
      Create(4, "server_members"), Create(4, "server_bans"), Create(4, "channel_invites"),
      Do(5, "pair_defaults"), Index(6, "messages", {"content"}), Create(7, "bots")>>

Scripts8to11 ==
    <<Drop(8, "accounts", {"email", "email_normalised"}),
      Rewrite(8, "sessions"), Rewrite(8, "accounts"), Rewrite(9, "channels"),
      Rewrite(10, "servers"), Rewrite(10, "channels")>>

Scripts11to13 ==
    <<Index(11, "messages", {"channel"}),
      Index(11, "channel_unreads", {"compound_id", "user_id"}),
      Index(11, "server_members", {"compound_id", "user_id"}),
      Index(12, "messages", {"channel_id_compound"})>>

Wipe13 == <<Do(13, "wipe_servers"), Do(13, "wipe_channels")>>

Scripts14to22 ==
    <<Rewrite(14, "messages"), Rewrite(15, "accounts"), Rewrite(16, "accounts"),
      Create(16, "emojis"), Index(16, "emojis", {"parent_id"}), Rewrite(17, "server_members"),
      TryDrop(18, "messages", {"channel"}), Index(18, "messages", {"author"}),
      Create(19, "safety_reports"), Create(19, "safety_snapshots"),
      Index(20, "safety_snapshots", {"report_id"}), Create(21, "safety_strikes"),
      Rewrite(22, "safety_strikes")>>

Discriminators23 == <<Do(23, "drop_username"), Do(23, "discriminators")>>

Scripts24to25 ==
    <<TryCreate(24, "channel_webhooks"), Do(24, "username_index"), Rewrite(25, "webhooks"),
      TryCreate(25, "ratelimit_events"), Index(25, "ratelimit_events", {"compound_key"})>>

Invites26 == <<Do(26, "insert_invites"), Do(26, "delete_invites")>>

Scripts27to30 ==
    <<Index(27, "messages", {"channel_pinned_compound"}), TryCreate(28, "attachment_hashes"),
      Index(28, "attachments", {"hash"}), Index(28, "attachment_hashes", {"processed_hash"}),
      Index(30, "attachments", {"used_for_id"})>>

Scripts31to49 ==
    <<Do(31, "webhook_creators"), Rewrite(32, "sessions"), Create(40, "policy_changes"),
      Rewrite(40, "users"), Rewrite(43, "servers"), Rewrite(46, "channels"),
      Do(48, "add_defaults"), Rewrite(49, "servers")>>

run_migrations ==
    Scripts1to7 \o Scripts8to11 \o Scripts11to13 \o Wipe13 \o Scripts14to22
        \o Discriminators23 \o Scripts24to25 \o Invites26 \o Scripts27to30 \o Scripts31to49

create_database ==
    <<Create(0, "accounts"), Create(0, "users"), Create(0, "channels"), Create(0, "messages"),
      Create(0, "servers"), Create(0, "server_members"), Create(0, "server_bans"),
      Create(0, "channel_invites"), Create(0, "channel_unreads"), Create(0, "channel_webhooks"),
      Create(0, "migrations"), Create(0, "attachments"), Create(0, "attachment_hashes"),
      Create(0, "user_settings"), Create(0, "policy_changes"), Create(0, "safety_reports"),
      Create(0, "safety_snapshots"), Create(0, "safety_strikes"), Create(0, "bots"),
      Create(0, "ratelimit_events"), Create(0, "pubsub"), Do(0, "username_index"),
      Index(0, "messages", {"content", "channel_id_compound", "author", "channel_pinned_compound"}),
      Index(0, "channel_unreads", {"compound_id", "user_id"}),
      Index(0, "server_members", {"compound_id", "user_id"}),
      Index(0, "attachments", {"hash", "used_for_id"}),
      Index(0, "attachment_hashes", {"processed_hash"}), Do(0, "save_revision"),
      Index(0, "ratelimit_events", {"compound_key"})>>

Range(s) == {s[i] : i \in DOMAIN s}

\* The index on usernames alone was unique before revision 23.
UniqueUsername == <<"users", "unique_username">>
UsernameIndexes == {<<"users", "username">>, <<"users", "username_discriminator">>}

-----------------------------------------------------------------------------
(* What a command does to the database *)

\* What a server allows by default (before revision 13 a pair of numbers), a
\* channel's override of it, and the state of users, invites and webhooks.
ServerDefaults == {"none", "pair_send", "pair_nosend", "num_send", "num_nosend"}
ChannelDefaults == {"unset", "int_send", "int_nosend", "block_send"}

Ok(d) == {[ok |-> TRUE, db |-> d]}
Panic(d) == {[ok |-> FALSE, db |-> d]}

WithCollection(d, col) == [d EXCEPT !.cols = @ \cup {col}]

\* Creating a collection that exists is an error or not, by MongoDB version.
CreateCollection(c, d) ==
    Ok(WithCollection(d, c.col)) \cup (IF c.col \in d.cols THEN Panic(d) ELSE {})

\* An error of these two, whatever its cause, is passed over (ok, is_err).
TryCreateCollection(c, d) == Ok(WithCollection(d, c.col)) \cup Ok(d)
TryDropIndexes(c, d) == Ok([d EXCEPT !.idx = @ \ {c.col} \X c.names]) \cup Ok(d)

CreateIndexes(c, d) == Ok([WithCollection(d, c.col) EXCEPT !.idx = @ \cup {c.col} \X c.names])

\* No index is dropped unless all of them exist.
DropIndexes(c, d) ==
    IF {c.col} \X c.names \subseteq d.idx THEN Ok([d EXCEPT !.idx = @ \ {c.col} \X c.names])
    ELSE Panic(d)

DropUsername(d) ==
    LET named == {UniqueUsername, <<"users", "username">>} IN
    IF named \cap d.idx # {} THEN Ok([d EXCEPT !.idx = @ \ named]) ELSE Panic(d)

\* Names are claimed by their exact spelling: two that differ in case alone can
\* draw the same discriminator.
Discriminators(d) == Ok([d EXCEPT !.users = "tagged"]) \cup Ok([d EXCEPT !.users = "clash"])

\* The unique index ignores case.
UsernameIndex(d) ==
    IF d.users = "clash" \/ UniqueUsername \in d.idx THEN Panic(d)
    ELSE Ok([d EXCEPT !.idx = @ \cup UsernameIndexes])

\* Only a pair is read: a number looks like a default without SendMessage.  The
\* loop ends at the first error of its cursor as it does at the last server.
WipeServer(d) ==
    Ok([d EXCEPT !.server = IF @ = "pair_send" THEN "num_send" ELSE "num_nosend"]) \cup Ok(d)

\* Only a number is read: an override looks like a channel without a default.
\* This loop ends at an error, too.
WipeChannel(d) ==
    Ok([d EXCEPT !.channel = IF @ = "int_nosend" THEN "block_send" ELSE "unset"]) \cup Ok(d)

\* BUG VARIANT of AddDefaults: the permissions of voice replace the others.
SetDefaults(d) == Ok([d EXCEPT !.server = "num_nosend"])

\* The permissions of voice are added to a number, bit by bit; a pair has none.
AddDefaults(d) ==
    IF d.server \in {"pair_send", "pair_nosend"} THEN Panic(d)
    ELSE Ok([d EXCEPT !.server = IF @ = "num_send" THEN @ ELSE "num_nosend"])

\* insert_many fails on the ids that an earlier run has inserted.
InsertInvites(d) ==
    IF "old" \notin d.invites THEN Ok(d)
    ELSE IF "new" \in d.invites THEN Panic(d)
    ELSE Ok([d EXCEPT !.invites = {"old", "new"}])

\* A webhook without its channel is deleted.  The document of a channel does
\* not decode as the script's own, externally tagged, Channel.
WebhookCreators(d) == IF d.webhooks = "live" THEN Panic(d) ELSE Ok([d EXCEPT !.webhooks = "none"])

SaveRevision(d) ==
    IF d.revision # NoRevision THEN Panic(d) ELSE Ok([d EXCEPT !.revision = LATEST_REVISION])

Outcomes(c, d) ==
    CASE c.op = "create" -> CreateCollection(c, d)
      [] c.op = "try_create" -> TryCreateCollection(c, d)
      [] c.op = "index" -> CreateIndexes(c, d)
      [] c.op = "drop" -> DropIndexes(c, d)
      [] c.op = "try_drop" -> TryDropIndexes(c, d)
      [] c.op = "pair_defaults" -> Ok([d EXCEPT !.server = "pair_nosend"])
      [] c.op = "wipe_servers" -> WipeServer(d)
      [] c.op = "wipe_channels" -> WipeChannel(d)
      [] c.op = "add_defaults" -> AddDefaults(d)
      [] c.op = "drop_username" -> DropUsername(d)
      [] c.op = "discriminators" -> Discriminators(d)
      [] c.op = "username_index" -> UsernameIndex(d)
      [] c.op = "insert_invites" -> InsertInvites(d)
      [] c.op = "delete_invites" -> Ok([d EXCEPT !.invites = @ \ {"old"}])
      [] c.op = "webhook_creators" -> WebhookCreators(d)
      [] c.op = "save_revision" -> SaveRevision(d)

-----------------------------------------------------------------------------
(* The databases that delta can find *)

Before(rev, op) == {c \in Range(run_migrations) : c.rev < rev /\ c.op = op}

Collections(rev) ==
    {"accounts", "users", "channels", "messages", "attachments", "migrations", "pubsub"}
        \cup {c.col : c \in Before(rev, "create") \cup Before(rev, "try_create")
                              \cup Before(rev, "index")}

Indexes(rev) ==
    LET of(c) == {c.col} \X c.names IN
    (UNION {of(c) : c \in Before(rev, "index")} \ UNION {of(c) : c \in Before(rev, "try_drop")})
        \cup (IF rev <= 8 THEN {"accounts"} \X {"email", "email_normalised"} ELSE {})
        \cup (IF rev <= 23 THEN {UniqueUsername} ELSE {})
        \cup (IF rev > 24 THEN UsernameIndexes ELSE {})

\* A database that the scripts up to a revision have brought to its form, with
\* what its users made of it since.
AtRevision(rev) ==
    [cols : {Collections(rev)}, idx : {Indexes(rev)}, revision : {rev},
     server : IF rev <= 5 THEN {"none"} ELSE IF rev <= 13 THEN {"pair_send", "pair_nosend"}
              ELSE {"num_send", "num_nosend"},
     channel : IF rev <= 13 THEN {"unset", "int_send", "int_nosend"} ELSE {"unset", "block_send"},
     users : IF rev <= 23 THEN {"plain"} ELSE {"tagged"},
     invites : IF rev <= 26 THEN {{}, {"old"}} ELSE {{}},
     webhooks : IF rev <= 24 THEN {"none"} ELSE IF rev <= 31 THEN {"none", "orphan", "live"}
                ELSE {"none"}]

Absent ==
    [cols |-> {}, idx |-> {}, revision |-> NoRevision, server |-> "none", channel |-> "unset",
     users |-> "tagged", invites |-> {}, webhooks |-> "none"]

Off == [status |-> "off", plan |-> "scripts", from |-> 0, pc |-> 1]

MigrationsInit ==
    /\ db \in {Absent} \cup UNION {AtRevision(rev) : rev \in Revisions}
    /\ inst = [i \in Instances |-> Off]
    /\ starts = 0
    /\ first = [revision |-> db.revision, server |-> db.server, channel |-> db.channel]
    /\ mishandled = {}

-----------------------------------------------------------------------------
Plan(name) == IF name = "create" THEN create_database ELSE run_migrations

\* The next command from position pc that the recorded revision asks for.
NextCommand(name, from, pc) ==
    LET todo == {k \in pc .. Len(Plan(name)) :
                    /\ name = "scripts" => from <= Plan(name)[k].rev
                    /\ Plan(name)[k].op # "rewrite"} IN
    IF todo = {} THEN Len(Plan(name)) + 1 ELSE CHOOSE k \in todo : \A l \in todo : k <= l

Running(i) == inst[i].status = "running"

Begin(i, name, from) ==
    inst' = [inst EXCEPT ![i] = [status |-> "running", plan |-> name, from |-> from,
                                 pc |-> NextCommand(name, from, 1)]]

\* The container is started, or again after its process ended.
migrate_database(i) ==
    /\ inst[i].status \in {"off", "panicked"}
    /\ starts < MaxStarts
    /\ starts' = starts + 1
    /\ \/ /\ db.cols = {}
          /\ Begin(i, "create", 0)
       \/ /\ db.cols # {}
          /\ db.revision # NoRevision
          /\ Begin(i, "scripts", db.revision)
       \/ /\ db.cols # {}
          /\ db.revision = NoRevision
          /\ inst' = [inst EXCEPT ![i] = [Off EXCEPT !.status = "panicked"]]
    /\ UNCHANGED <<db, first, mishandled>>

\* Revision 13 meets a default it has written before, or leaves one as it is.
Mishandles(c, before, after) ==
    (IF c.op = "wipe_servers" /\ (before.server \in {"num_send", "num_nosend"} \/ after = before)
     THEN {"server"} ELSE {})
    \cup (IF c.op = "wipe_channels" /\ (before.channel = "block_send" \/ after = before)
          THEN {"channel"} ELSE {})

\* One awaited command of a script, or of create_database.
Command(i) ==
    /\ Running(i)
    /\ inst[i].pc <= Len(Plan(inst[i].plan))
    /\ \E o \in Outcomes(Plan(inst[i].plan)[inst[i].pc], db) :
        /\ db' = o.db
        /\ mishandled' = mishandled \cup Mishandles(Plan(inst[i].plan)[inst[i].pc], db, o.db)
        /\ inst' = IF o.ok
                   THEN [inst EXCEPT ![i].pc = NextCommand(inst[i].plan, inst[i].from, @ + 1)]
                   ELSE [inst EXCEPT ![i] = [Off EXCEPT !.status = "panicked"]]
    /\ UNCHANGED <<starts, first>>

\* The end of migrate_database in scripts.rs: LATEST_REVISION.max(revision) is
\* written.  create_database ends without.
Complete(i) ==
    /\ Running(i)
    /\ inst[i].pc > Len(Plan(inst[i].plan))
    /\ db' = IF inst[i].plan = "create" THEN db ELSE [db EXCEPT !.revision = LATEST_REVISION]
    /\ inst' = [inst EXCEPT ![i].status = "done"]
    /\ UNCHANGED <<starts, first, mishandled>>

\* The process stops, or panics at a command that the database refuses.
Stop(i) ==
    /\ Running(i)
    /\ inst' = [inst EXCEPT ![i] = Off]
    /\ UNCHANGED <<db, starts, first, mishandled>>

MigrationsNext ==
    \E i \in Instances : migrate_database(i) \/ Command(i) \/ Complete(i) \/ Stop(i)

MigrationsSpec == MigrationsInit /\ [][MigrationsNext]_migrationVars

MigrationsTypeOK ==
    /\ db.revision \in 0 .. LATEST_REVISION \cup {NoRevision}
    /\ db.server \in ServerDefaults
    /\ db.channel \in ChannelDefaults
    /\ db.users \in {"plain", "tagged", "clash"}
    /\ db.invites \subseteq {"old", "new"}
    /\ db.webhooks \in {"none", "orphan", "live"}
    /\ \A i \in Instances :
        /\ inst[i].status \in {"off", "running", "done", "panicked"}
        /\ inst[i].pc \in 1 .. Len(Plan(inst[i].plan)) + 1
    /\ starts \in 0 .. MaxStarts
    /\ mishandled \subseteq {"server", "channel"}

-----------------------------------------------------------------------------
(* Properties *)

\* Whether members may send messages by default, in a server and in a channel,
\* is the same after a migration as before, however often it was cut short and
\* started again, and however many instances ran at once.  A choice is lost
\* only in a database from before revision 13, when that script came back to
\* what it had converted, or its cursor failed; and even then no server gets
\* SendMessage that did not have it, and no channel a block.
ChoicesKept ==
    LET sends == first.server \in {"pair_send", "num_send"}
        blocks == first.channel \in {"int_nosend", "block_send"}
    IN
    /\ first.revision \notin 0 .. 13 => mishandled = {}
    /\ \A i \in Instances :
        inst[i].status = "done" =>
            /\ db.server = "num_send" => sends
            /\ sends => db.server = "num_send" \/ "server" \in mishandled
            /\ db.channel = "block_send" => blocks
            /\ blocks => db.channel = "block_send" \/ "channel" \in mishandled

=============================================================================

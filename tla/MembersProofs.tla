--------------------------- MODULE MembersProofs ----------------------------
(***************************************************************************)
(* Proofs about ServerMembers and about the reactions of ChannelMessages,  *)
(* for every set of users, requests and emojis: the owner stays a member,  *)
(* a ban keeps its user out, and a client shows what the message has.      *)
(* The invariants about members are inductive together with what the       *)
(* requests in flight carry: none that removes, bans or edits is aimed at  *)
(* the owner, and every join of a banned user that is past its look at the *)
(* bans is overtaken.                                                      *)
(***************************************************************************)
EXTENDS ServerMembers, ChannelMessages, TLAPS

(* Leaves go to Zenon unless they name another prover. *)
USE Zenon

(* Requests that would take a record away, slate it, or write to it. *)
Aimed == Going \cup {"remove", "ban", "timeout", "roles"}

OwnerSafe ==
    /\ \A q \in Requests : req[q].op \in Aimed => req[q].user # Owner
    /\ rec[Owner].pending_deletion_at = 0
    /\ Owner \notin bans
    /\ server = "up" /\ ~ Deleting => rec[Owner].exists

Marked ==
    /\ server = "none" => bans = {} /\ \A q \in Requests : req[q] = Idle
    /\ \A q \in Requests :
          req[q].op \in Joining /\ req[q].user \in bans => req[q].overtaken

IInv == TypeOK /\ OwnerSafe /\ Marked

-----------------------------------------------------------------------------
LEMMA StepTyped ==
    ASSUME req \in [Requests -> Request], NEW q \in Requests, NEW r \in Request, Step(q, r)
    PROVE  /\ req' \in [Requests -> Request]
           /\ req'[q] = r
           /\ \A p \in Requests : p # q => req'[p] = req[p]
  BY DEF Step

LEMMA RequestFields ==
    ASSUME NEW r \in Request
    PROVE  /\ r.op \in Joining \cup {"join_ban"} =>
                r \in [op : Joining \cup {"join_ban"}, user : Users, overtaken : BOOLEAN]
           /\ r.op \in Going \cup {"remove"} =>
                r \in [op : Going \cup {"remove"}, user : Users,
                       why : {"leave", "kick", "ban"}, at : Timeouts, overtaken : BOOLEAN]
           /\ r.op \in {"ban", "unban"} => r \in [op : {"ban", "unban"}, user : Users]
           /\ r.op = "timeout" => r \in [op : {"timeout"}, user : Users, value : Timeouts]
           /\ r.op = "roles" => r \in [op : {"roles"}, user : Users, value : BOOLEAN]
  BY SMT DEF Request, Going, Joining, Idle

(* Marking a request as overtaken changes nothing else in it. *)
LEMMA OvertakenTyped ==
    ASSUME NEW r \in Request, r.op \in Going \cup Joining \cup {"join_ban"},
           NEW s, s = [r EXCEPT !.overtaken = TRUE]
    PROVE  /\ s \in Request
           /\ s.op = r.op /\ s.user = r.user /\ s.overtaken = TRUE
           /\ s.op = "slate" => s.at = r.at
<1>1. CASE r.op \in Joining \cup {"join_ban"}
  <2>1. r \in [op : Joining \cup {"join_ban"}, user : Users, overtaken : BOOLEAN]
    BY <1>1, RequestFields
  <2>2. s \in [op : Joining \cup {"join_ban"}, user : Users, overtaken : BOOLEAN]
    BY <2>1
  <2> QED
    BY <2>1, <2>2 DEF Request, Joining
<1>2. CASE r.op \in Going
  <2> DEFINE S == [op : Going \cup {"remove"}, user : Users,
                   why : {"leave", "kick", "ban"}, at : Timeouts, overtaken : BOOLEAN]
  <2>1. r \in S
    BY <1>2, RequestFields
  <2>2. s \in S
    BY <2>1
  <2>3. s \in Request
    BY <2>2 DEF Request
  <2>4. s.op = r.op /\ s.user = r.user /\ s.overtaken = TRUE /\ s.at = r.at
    BY <2>1
  <2> QED
    BY <2>3, <2>4
<1> QED
  BY <1>1, <1>2

(* What Overtake does to the requests. *)
LEMMA OvertakeTyped ==
    ASSUME req \in [Requests -> Request], NEW q \in Requests, NEW users, NEW ops,
           ops \subseteq Going \cup Joining \cup {"join_ban"}, Overtake(q, users, ops)
    PROVE  /\ req' \in [Requests -> Request]
           /\ req'[q] = Idle
           /\ \A p \in Requests \ {q} :
                /\ req'[p].op = req[p].op
                /\ req'[p].user = req[p].user
                /\ req[p].op \notin ops => req'[p] = req[p]
                /\ req[p].op = "slate" => req'[p].at = req[p].at
           /\ \A p \in Requests \ {q} :
                req[p].op \in ops =>
                   /\ req[p].overtaken => req'[p].overtaken
                   /\ req[p].user \in users => req'[p].overtaken
<1> DEFINE mark(p) == [req[p] EXCEPT !.overtaken = TRUE]
<1>1. \A p \in Requests : req'[p] = IF p = q THEN Idle
                                  ELSE IF req[p].op \in ops /\ req[p].user \in users
                                       THEN mark(p) ELSE req[p]
  BY DEF Overtake
<1>2. \A p \in Requests :
         req[p].op \in ops =>
           /\ mark(p) \in Request
           /\ mark(p).op = req[p].op /\ mark(p).user = req[p].user
           /\ mark(p).overtaken = TRUE
           /\ mark(p).op = "slate" => mark(p).at = req[p].at
  BY OvertakenTyped
<1>3. Idle \in Request
  BY DEF Request
<1> HIDE DEF mark
<1>4. req' \in [Requests -> Request]
  BY <1>1, <1>2, <1>3 DEF Overtake, mark
<1> QED
  BY <1>1, <1>2, <1>4, SMT

-----------------------------------------------------------------------------
(* The invariant is preserved.                                             *)

Deletions == {"delete_members", "delete_bans", "delete_server"}

(* What request q may go on with. *)
Sound(q, r) ==
    /\ r \in Request
    /\ r.op = "slate" => r.at # 0
    /\ r.op \in Aimed => r.user # Owner
    /\ r.op \in Joining /\ r.user \in bans => r.overtaken
    /\ req[q].op \in Deletions => r.op \in Deletions

(* A step of one request that adds no ban and leaves the owner's record.   *)
LEMMA StepKeeps ==
    ASSUME IInv, NEW q \in Requests, NEW r, Step(q, r), Sound(q, r),
           server # "none", server' = server, clock' = clock, bans' \subseteq bans,
           rec' \in [Users -> Record],
           \A u \in Users : rec'[u].exists \/ rec'[u] = NoRecord,
           rec'[Owner].pending_deletion_at = 0,
           rec[Owner].exists => rec'[Owner].exists \/ r.op \in Deletions
    PROVE  IInv'
<1>1. /\ req' \in [Requests -> Request]
      /\ req'[q] = r
      /\ \A p \in Requests : p # q => req'[p] = req[p]
  BY StepTyped DEF IInv, TypeOK, Sound
<1>2. TypeOK'
  BY <1>1 DEF IInv, TypeOK, Sound
<1>3. Deleting => Deleting'
  BY <1>1 DEF Deleting, Deletions, Sound
<1>4. r.op \in Deletions => Deleting'
  BY <1>1 DEF Deleting, Deletions
<1>5. OwnerSafe'
  BY <1>1, <1>3, <1>4 DEF IInv, OwnerSafe, Sound
<1>6. Marked'
  BY <1>1 DEF IInv, Marked, Sound
<1> QED
  BY <1>2, <1>5, <1>6 DEF IInv

(* A request that only reads and goes on. *)
LEMMA ReadKeeps ==
    ASSUME IInv, NEW q \in Requests, NEW r, Step(q, r), Sound(q, r), server # "none",
           UNCHANGED <<server, rec, bans, clock>>
    PROVE  IInv'
  BY StepKeeps DEF IInv, TypeOK, OwnerSafe

LEMMA OwnerIsUser == Owner \in Users
  BY MembersAssumption

LEMMA RouteKeeps ==
    ASSUME IInv, NEW q \in Requests, req[q] = Idle, Route(q)
    PROVE  IInv'
<1> USE DEF Sound, Request, Aimed, Going, Joining, Deletions, Idle
<1>1. ASSUME NEW u \in Users, join(q, u) \/ join_official_server(q, u)
      PROVE  IInv'
  <2>1. Sound(q, Join(u, "join_ban"))
    BY SMT DEF Join
  <2> QED
    BY <1>1, <2>1, ReadKeeps DEF join, join_official_server
<1>2. ASSUME NEW u \in Users, leave(q, u)
      PROVE  IInv'
  <2>1. Sound(q, Remove(u, "leave"))
    BY <1>2, MembersAssumption, SMT DEF Remove, leave, Timeouts
  <2> QED
    BY <1>2, <2>1, ReadKeeps DEF leave
<1>3. ASSUME NEW u \in Users, NEW t \in Users, kick(q, u, t)
      PROVE  IInv'
  <2>1. Sound(q, Remove(t, "kick"))
    BY <1>3, MembersAssumption, SMT DEF Remove, kick, Timeouts
  <2> QED
    BY <1>3, <2>1, ReadKeeps DEF kick
<1>4. ASSUME NEW u \in Users, NEW t \in Users, ban(q, u, t)
      PROVE  IInv'
  <2> DEFINE r == IF IsMember(t) THEN Remove(t, "ban") ELSE [op |-> "ban", user |-> t]
  <2>1. Sound(q, Remove(t, "ban")) /\ Sound(q, [op |-> "ban", user |-> t])
    BY <1>4, MembersAssumption, SMT DEF Remove, ban, Timeouts
  <2>2. Sound(q, r)
    BY <2>1, SMT
  <2>3. Step(q, r) /\ server = "up" /\ UNCHANGED <<server, rec, bans, clock>>
    BY <1>4 DEF ban
  <2> QED
    BY <2>2, <2>3, ReadKeeps, SMT
<1>5. ASSUME NEW u \in Users, NEW t \in Users, unban(q, u, t)
      PROVE  IInv'
  <2>1. Sound(q, [op |-> "unban", user |-> t])
    BY SMT
  <2> QED
    BY <1>5, <2>1, ReadKeeps DEF unban
<1>6. ASSUME NEW u \in Users, NEW t \in Users \ {Owner},
             NEW until \in {0} \cup (clock + 1 .. MaxTime - 1), edit_timeout(q, u, t, until)
      PROVE  IInv'
  <2>1. until \in Timeouts
    BY MembersAssumption, SMT DEF IInv, TypeOK, Time, Timeouts
  <2>2. Sound(q, [op |-> "timeout", user |-> t, value |-> until])
    BY <2>1, SMT
  <2> QED
    BY <1>6, <2>2, ReadKeeps DEF edit_timeout
<1>7. ASSUME NEW t \in Users \ {Owner}, NEW given \in BOOLEAN, edit_roles(q, t, given)
      PROVE  IInv'
  <2>1. Sound(q, [op |-> "roles", user |-> t, value |-> given])
    BY SMT
  <2> QED
    BY <1>7, <2>1, ReadKeeps DEF edit_roles
<1>8. ASSUME delete_server(q)
      PROVE  IInv'
  <2>1. Sound(q, [op |-> "delete_members"])
    OBVIOUS
  <2> QED
    BY <1>8, <2>1, ReadKeeps DEF delete_server
<1> QED
  BY <1>1, <1>2, <1>3, <1>4, <1>5, <1>6, <1>7, <1>8 DEF Route

(* The invariant when q ends by overtaking others and the owner's record stays. *)
LEMMA OvertakeKeeps ==
    ASSUME IInv, NEW q \in Requests, NEW users, NEW ops,
           ops \subseteq Going \cup Joining \cup {"join_ban"}, Overtake(q, users, ops),
           server # "none", server' \in {server, "gone"}, clock' = clock, bans' \subseteq Users,
           Owner \notin bans',
           \A p \in Requests : req[p].op \in Joining /\ req[p].user \in bans' \ bans =>
                                req[p].op \in ops /\ req[p].user \in users,
           rec' \in [Users -> Record],
           \A u \in Users : rec'[u].exists \/ rec'[u] = NoRecord,
           rec'[Owner] = rec[Owner],
           req[q].op \in Deletions => server' = "gone"
    PROVE  IInv'
<1>1. /\ req' \in [Requests -> Request]
      /\ req'[q] = Idle
      /\ \A p \in Requests \ {q} :
           /\ req'[p].op = req[p].op
           /\ req'[p].user = req[p].user
           /\ req[p].op \notin ops => req'[p] = req[p]
           /\ req[p].op = "slate" => req'[p].at = req[p].at
      /\ \A p \in Requests \ {q} :
           req[p].op \in ops =>
              /\ req[p].overtaken => req'[p].overtaken
              /\ req[p].user \in users => req'[p].overtaken
  BY OvertakeTyped DEF IInv, TypeOK
<1>2. Idle.op = "idle"
  BY DEF Idle
<1>3. TypeOK'
  BY <1>1, <1>2, SMT DEF IInv, TypeOK
<1>4. Deleting /\ server' = "up" => Deleting'
  BY <1>1 DEF Deleting, Deletions
<1>5. \A p \in Requests : req'[p].op \in Aimed => req'[p].user # Owner
  <2> TAKE p \in Requests
  <2>1. CASE p = q
    BY <1>1, <1>2, <2>1 DEF Aimed, Going
  <2>2. CASE p # q
    <3>1. req'[p].op = req[p].op /\ req'[p].user = req[p].user
      BY <1>1, <2>2
    <3> QED
      BY <3>1 DEF IInv, OwnerSafe
  <2> QED
    BY <2>1, <2>2
<1>6. OwnerSafe'
  BY <1>4, <1>5 DEF IInv, OwnerSafe
<1>7. ASSUME NEW p \in Requests, req'[p].op \in Joining, req'[p].user \in bans'
      PROVE  req'[p].overtaken
  <2>1. p # q
    BY <1>1, <1>2, <1>7 DEF Joining
  <2>2. req'[p].op = req[p].op
    BY <1>1, <2>1
  <2>3. CASE req[p].op \in ops
    <3>1. /\ req'[p].user = req[p].user
          /\ req[p].overtaken => req'[p].overtaken
          /\ req[p].user \in users => req'[p].overtaken
      BY <1>1, <2>1, <2>3
    <3>2. CASE req[p].user \in bans
      BY <1>7, <2>2, <3>1, <3>2 DEF IInv, Marked
    <3>3. CASE req[p].user \notin bans
      BY <1>7, <2>2, <3>1, <3>3
    <3> QED
      BY <3>2, <3>3
  <2>4. CASE req[p].op \notin ops
    <3>1. req'[p] = req[p]
      BY <1>1, <2>1, <2>4
    <3>2. req[p].op \in Joining /\ req[p].user \in bans'
      BY <1>7, <3>1
    <3>3. req[p].user \in bans
      BY <2>4, <3>2
    <3>4. req[p].overtaken
      BY <3>2, <3>3 DEF IInv, Marked
    <3> QED
      BY <3>1, <3>4
  <2> QED
    BY <2>3, <2>4
<1>8. Marked'
  BY <1>7 DEF Marked
<1> QED
  BY <1>3, <1>6, <1>8 DEF IInv

(* The ends of a removal. *)
LEMMA RemovedSound ==
    ASSUME IInv, NEW q \in Requests, req[q].op \in Going, Removed(q)
    PROVE  \E r : Step(q, r) /\ Sound(q, r)
<1>1. req[q].user \in Users /\ req[q].user # Owner
  BY RequestFields, SMT DEF IInv, TypeOK, OwnerSafe, Aimed
<1>2. Sound(q, Idle)
  BY DEF Sound, Request, Idle, Aimed, Going, Joining, Deletions
<1>3. Sound(q, [op |-> "ban", user |-> req[q].user])
  BY <1>1 DEF Sound, Request, Aimed, Going, Joining, Deletions
<1> QED
  BY <1>2, <1>3 DEF Removed

LEMMA RecordTyped ==
    /\ NoRecord \in Record /\ NewRecord \in Record
    /\ NewRecord.exists /\ NewRecord.pending_deletion_at = 0 /\ ~ NewRecord.moderator
    /\ ~ NoRecord.exists /\ NoRecord.pending_deletion_at = 0
<1>1. 0 \in Timeouts
  BY MembersAssumption, SMT DEF Timeouts
<1> QED
  BY <1>1 DEF NoRecord, NewRecord, Record

LEMMA JoinKeeps ==
    ASSUME IInv, NEW q \in Requests, server # "none",
           \/ CreateCheckBan(q) \/ CreateCheckMember(q) \/ FindSlated(q)
           \/ MergeMember(q) \/ InsertMember(q)
    PROVE  IInv'
<1> DEFINE u == req[q].user
           J == [op : Joining \cup {"join_ban"}, user : Users, overtaken : BOOLEAN]
<1>1. req[q] \in J /\ u \in Users
  BY RequestFields, SMT DEF IInv, TypeOK, Joining, CreateCheckBan, CreateCheckMember, FindSlated,
                       MergeMember, InsertMember
<1>2. Sound(q, Idle)
  BY <1>1 DEF Sound, Request, Idle, Aimed, Going, Joining, Deletions
<1>3. ASSUME NEW op \in Joining, u \in bans => req[q].overtaken
      PROVE  Sound(q, [req[q] EXCEPT !.op = op])
  <2>1. [req[q] EXCEPT !.op = op] \in J
    BY <1>1
  <2>2. [req[q] EXCEPT !.op = op] \in Request
    BY <2>1 DEF Request
  <2> QED
    BY <1>1, <1>3, <2>2 DEF Sound, Aimed, Going, Joining, Deletions
<1>4. CASE CreateCheckBan(q)
  <2> DEFINE j == [req[q] EXCEPT !.op = "join_member", !.overtaken = TRUE]
  <2>1. CASE u \in bans
    <3>1. j.op = "join_member" /\ j.user = u /\ j.overtaken = TRUE
      BY <1>1
    <3>2. j \in J
      BY <1>1 DEF Joining
    <3>3. j \in Request
      BY <3>2 DEF Request
    <3>4. Sound(q, j)
      BY <1>1, <3>1, <3>3 DEF Sound, Aimed, Going, Joining, Deletions
    <3>5. Step(q, Idle) \/ Step(q, j)
      BY <1>4, <2>1 DEF CreateCheckBan
    <3> QED
      BY <1>2, <1>4, <3>4, <3>5, ReadKeeps DEF CreateCheckBan
  <2>2. CASE u \notin bans
    <3>1. Sound(q, [req[q] EXCEPT !.op = "join_member"])
      BY <1>3, <2>2 DEF Joining
    <3> QED
      BY <1>4, <2>2, <3>1, ReadKeeps DEF CreateCheckBan
  <2> QED
    BY <2>1, <2>2
<1>5. CASE CreateCheckMember(q)
  <2>1. Sound(q, [req[q] EXCEPT !.op = "join_find"])
    BY <1>3, <1>5 DEF Joining, IInv, Marked, CreateCheckMember
  <2>2. Step(q, Idle) \/ Step(q, [req[q] EXCEPT !.op = "join_find"])
    BY <1>5 DEF CreateCheckMember
  <2> QED
    BY <1>2, <1>5, <2>1, <2>2, ReadKeeps DEF CreateCheckMember
<1>6. CASE FindSlated(q)
  <2> DEFINE op == IF rec[u].pending_deletion_at # 0 THEN "join_merge" ELSE "join_insert"
  <2>1. op \in Joining
    BY DEF Joining
  <2>2. u \in bans => req[q].overtaken
    BY <1>6 DEF Joining, IInv, Marked, FindSlated
  <2>3. Step(q, [req[q] EXCEPT !.op = op])
    BY <1>6 DEF FindSlated
  <2> HIDE DEF op
  <2>4. Sound(q, [req[q] EXCEPT !.op = op])
    BY <1>3, <2>1, <2>2
  <2> QED
    BY <1>6, <2>3, <2>4, ReadKeeps DEF FindSlated
<1>7. CASE MergeMember(q)
  <2>1. rec' \in [Users -> Record]
    BY <1>1, <1>7, MembersAssumption, SMT DEF MergeMember, IInv, TypeOK, Record, Timeouts
  <2>2. \A v \in Users : rec'[v].exists \/ rec'[v] = NoRecord
    <3> TAKE v \in Users
    <3>1. rec[v] \in Record /\ (rec[v].exists \/ rec[v] = NoRecord)
      BY DEF IInv, TypeOK
    <3>2. rec'[v] = rec[v] \/ rec'[v] = [rec[v] EXCEPT !.pending_deletion_at = 0]
      BY <1>7 DEF MergeMember, IInv, TypeOK
    <3>3. [rec[v] EXCEPT !.pending_deletion_at = 0].exists = rec[v].exists
      BY <3>1 DEF Record
    <3>4. [NoRecord EXCEPT !.pending_deletion_at = 0] = NoRecord
      BY SMT DEF NoRecord
    <3> QED
      BY <3>1, <3>2, <3>3, <3>4
  <2>3. rec'[Owner].pending_deletion_at = 0 /\ rec'[Owner].exists = rec[Owner].exists
    BY <1>1, <1>7, OwnerIsUser DEF MergeMember, IInv, TypeOK, OwnerSafe, Record
  <2> QED
    BY <1>2, <1>7, <2>1, <2>2, <2>3, StepKeeps DEF MergeMember
<1>8. CASE InsertMember(q)
  <2>1. /\ rec' \in [Users -> Record]
        /\ \A v \in Users : rec'[v].exists \/ rec'[v] = NoRecord
        /\ rec'[Owner].pending_deletion_at = 0
        /\ rec[Owner].exists => rec'[Owner].exists
    BY <1>1, <1>8, RecordTyped, OwnerIsUser DEF InsertMember, IInv, TypeOK, OwnerSafe
  <2> QED
    BY <1>2, <1>8, <2>1, StepKeeps DEF InsertMember
<1> QED
  BY <1>4, <1>5, <1>6, <1>7, <1>8

LEMMA RemovalKeeps ==
    ASSUME IInv, NEW q \in Requests, server # "none",
           SoftDeleteRead(q) \/ SlateMember(q) \/ EraseMember(q)
    PROVE  IInv'
<1> DEFINE u == req[q].user
           R == [op : Going \cup {"remove"}, user : Users,
                 why : {"leave", "kick", "ban"}, at : Timeouts, overtaken : BOOLEAN]
<1>1. req[q] \in R /\ u \in Users /\ u # Owner
  BY RequestFields, SMT DEF IInv, TypeOK, OwnerSafe, Aimed, Going, SoftDeleteRead, SlateMember, EraseMember
<1>2. rec[u] \in Record /\ rec \in [Users -> Record] /\ rec[Owner] \in Record
  BY <1>1, OwnerIsUser DEF IInv, TypeOK
<1>3. CASE SoftDeleteRead(q)
  <2>1. CASE ~ IsMember(u)
    <3>1. Sound(q, Idle)
      BY <1>3 DEF Sound, Request, Idle, Aimed, Going, Joining, Deletions, SoftDeleteRead
    <3> QED
      BY <1>3, <2>1, <3>1, ReadKeeps DEF SoftDeleteRead
  <2>2. CASE IsMember(u) /\ in_timeout(u)
    <3> DEFINE r == [req[q] EXCEPT !.op = "slate", !.at = rec[u].timeout]
    <3>1. rec[u].timeout \in Timeouts /\ rec[u].timeout # 0
      BY <1>2, <2>2, MembersAssumption, SMT DEF Record, in_timeout, IInv, TypeOK, Time, Timeouts
    <3>2. r \in R /\ r.op = "slate" /\ r.user = u /\ r.at # 0
      BY <1>1, <3>1 DEF Going
    <3>3. r \in Request
      BY <3>2 DEF Request
    <3>4. req[q].op = "remove"
      BY <1>3 DEF SoftDeleteRead
    <3>5. Sound(q, r)
      BY <1>1, <3>2, <3>3, <3>4 DEF Sound, Joining, Deletions
    <3>6. Step(q, r)
      BY <1>3, <2>2 DEF SoftDeleteRead
    <3> QED
      BY <1>3, <3>5, <3>6, ReadKeeps DEF SoftDeleteRead
  <2>3. CASE IsMember(u) /\ ~ in_timeout(u)
    <3> DEFINE r == [req[q] EXCEPT !.op = "erase"]
    <3>1. r \in R /\ r.op = "erase" /\ r.user = u
      BY <1>1 DEF Going
    <3>2. r \in Request
      BY <3>1 DEF Request
    <3>3. req[q].op = "remove"
      BY <1>3 DEF SoftDeleteRead
    <3>4. Sound(q, r)
      BY <1>1, <3>1, <3>2, <3>3 DEF Sound, Joining, Deletions
    <3>5. Step(q, r)
      BY <1>3, <2>3 DEF SoftDeleteRead
    <3> QED
      BY <1>3, <3>4, <3>5, ReadKeeps DEF SoftDeleteRead
  <2> QED
    BY <2>1, <2>2, <2>3
<1>4. CASE SlateMember(q)
  <2> DEFINE w == [rec[u] EXCEPT !.pending_deletion_at = req[q].at, !.moderator = FALSE]
  <2>1. w \in Record
    BY <1>1, <1>2 DEF Record
  <2>2. rec[u].exists => w.exists
    BY <1>2 DEF Record
  <2>3. rec' = [rec EXCEPT ![u] = IF rec[u].exists THEN w ELSE rec[u]]
    BY <1>2, <1>4 DEF SlateMember
  <2> HIDE DEF w
  <2>4. rec' \in [Users -> Record] /\ rec'[Owner] = rec[Owner]
    BY <1>1, <1>2, <2>1, <2>3, OwnerIsUser
  <2>5. ASSUME NEW v \in Users
        PROVE  rec'[v].exists \/ rec'[v] = NoRecord
    <3>1. rec'[v] = rec[v] \/ (rec[u].exists /\ rec'[v] = w)
      BY <1>2, <2>3
    <3> QED
      BY <2>2, <3>1 DEF IInv, TypeOK
  <2>6. PICK r : Step(q, r) /\ Sound(q, r)
    BY <1>4, RemovedSound DEF SlateMember, Going
  <2> QED
    BY <1>4, <2>4, <2>5, <2>6, StepKeeps DEF SlateMember, IInv, OwnerSafe
<1>5. CASE EraseMember(q)
  <2>1. rec' \in [Users -> Record] /\ rec'[Owner] = rec[Owner]
    BY <1>1, <1>2, <1>5, RecordTyped, OwnerIsUser DEF EraseMember
  <2>2. \A v \in Users : rec'[v].exists \/ rec'[v] = NoRecord
    BY <1>2, <1>5 DEF EraseMember, IInv, TypeOK
  <2>3. PICK r : Step(q, r) /\ Sound(q, r)
    BY <1>5, RemovedSound DEF EraseMember, Going
  <2> QED
    BY <1>5, <2>1, <2>2, <2>3, StepKeeps DEF EraseMember, IInv, OwnerSafe
<1> QED
  BY <1>3, <1>4, <1>5

LEMMA BanKeeps ==
    ASSUME IInv, NEW q \in Requests, server # "none", InsertBan(q) \/ DeleteBan(q)
    PROVE  IInv'
<1> DEFINE u == req[q].user
<1>1. u \in Users /\ req[q].op \notin Deletions
  BY RequestFields, SMT DEF IInv, TypeOK, InsertBan, DeleteBan, Deletions
<1>2. CASE InsertBan(q)
  <2>1. u # Owner
    BY <1>2 DEF InsertBan, IInv, OwnerSafe, Aimed
  <2>2. bans' \subseteq Users /\ Owner \notin bans' /\ bans' \ bans \subseteq {u}
    BY <1>1, <1>2, <2>1 DEF InsertBan, IInv, TypeOK, OwnerSafe
  <2>3. Overtake(q, {u}, Joining) /\ server' = server /\ clock' = clock /\ rec' = rec
    BY <1>2 DEF InsertBan
  <2>4. /\ rec' \in [Users -> Record]
        /\ \A v \in Users : rec'[v].exists \/ rec'[v] = NoRecord
    BY <2>3 DEF IInv, TypeOK
  <2> QED
    BY <1>1, <2>2, <2>3, <2>4, OvertakeKeeps, SMT
<1>3. CASE DeleteBan(q)
  <2>1. Sound(q, Idle)
    BY <1>1 DEF Sound, Request, Idle, Aimed, Going, Joining
  <2> QED
    BY <1>3, <2>1, StepKeeps DEF DeleteBan, IInv, TypeOK, OwnerSafe
<1> QED
  BY <1>2, <1>3

LEMMA EditKeeps ==
    ASSUME IInv, NEW q \in Requests, server # "none", update_member(q)
    PROVE  IInv'
<1> DEFINE t == req[q].user
           touch == \/ rec[t].touched
                    \/ rec[t].pending_deletion_at # 0
                    \/ \E p \in Requests : req[p].op \in Going /\ req[p].user = t
           muted == [rec[t] EXCEPT !.timeout = req[q].value, !.touched = touch]
           given == [rec[t] EXCEPT !.moderator = req[q].value, !.touched = touch]
           edited == IF req[q].op = "timeout" THEN muted ELSE given
<1>1. t \in Users /\ t # Owner /\ req[q].op \notin Deletions
  BY RequestFields, SMT DEF IInv, TypeOK, OwnerSafe, update_member, Deletions, Aimed
<1>2. rec \in [Users -> Record] /\ rec[t] \in Record /\ touch \in BOOLEAN
  BY <1>1 DEF IInv, TypeOK
<1>3. rec' = [rec EXCEPT ![t] = IF rec[t].exists THEN edited ELSE rec[t]]
  BY DEF update_member
<1>4. req[q].op = "timeout" => muted \in Record
  <2> HIDE DEF touch
  <2> SUFFICES ASSUME req[q].op = "timeout"
               PROVE  muted \in Record
    OBVIOUS
  <2>1. req[q].value \in Timeouts
    BY RequestFields, SMT DEF IInv, TypeOK
  <2> QED
    BY <1>2, <2>1 DEF Record
<1>5. req[q].op # "timeout" => given \in Record
  <2> HIDE DEF touch
  <2> SUFFICES ASSUME req[q].op # "timeout"
               PROVE  given \in Record
    OBVIOUS
  <2>1. req[q].op = "roles"
    BY DEF update_member
  <2>2. req[q].value \in BOOLEAN
    BY <2>1, RequestFields, SMT DEF IInv, TypeOK
  <2> QED
    BY <1>2, <2>2 DEF Record
<1>6. muted.exists = rec[t].exists /\ given.exists = rec[t].exists
  <2> HIDE DEF touch
  <2> QED
    BY <1>2 DEF Record
<1> HIDE DEF muted, given, touch
<1>7. rec' \in [Users -> Record]
  BY <1>2, <1>3, <1>4, <1>5
<1>8. rec'[Owner] = rec[Owner]
  BY <1>1, <1>2, <1>3, OwnerIsUser
<1>9. ASSUME NEW v \in Users
      PROVE  rec'[v].exists \/ rec'[v] = NoRecord
  <2>1. \/ rec'[v] = rec[v]
        \/ rec[t].exists /\ rec'[v] = muted
        \/ rec[t].exists /\ rec'[v] = given
    BY <1>2, <1>3
  <2> QED
    BY <1>6, <2>1 DEF IInv, TypeOK
<1>10. /\ Overtake(q, {t}, Going)
       /\ server' = server /\ bans' = bans /\ clock' = clock
  BY DEF update_member
<1> QED
  BY <1>1, <1>7, <1>8, <1>9, <1>10, OvertakeKeeps DEF IInv, TypeOK, OwnerSafe

LEMMA DeletionKeeps ==
    ASSUME IInv, NEW q \in Requests, server # "none",
           DeleteMembers(q) \/ DeleteBans(q) \/ DeleteDocument(q)
    PROVE  IInv'
<1> USE RecordTyped, OwnerIsUser
<1>1. CASE DeleteMembers(q)
  <2>1. Sound(q, [op |-> "delete_bans"])
    BY DEF Sound, Request, Aimed, Going, Joining, Deletions
  <2> QED
    BY <1>1, <2>1, StepKeeps DEF DeleteMembers, Deletions
<1>2. CASE DeleteBans(q)
  <2>1. Sound(q, [op |-> "delete_server"])
    BY DEF Sound, Request, Aimed, Going, Joining, Deletions
  <2> QED
    BY <1>2, <2>1, StepKeeps DEF DeleteBans, Deletions, IInv, TypeOK, OwnerSafe
<1>3. CASE DeleteDocument(q)
  <2>1. /\ Overtake(q, Users, Joining \cup {"join_ban"})
        /\ server' = "gone" /\ rec' = rec /\ bans' = bans /\ clock' = clock
    BY <1>3 DEF DeleteDocument
  <2> QED
    BY <2>1, OvertakeKeeps DEF IInv, TypeOK, OwnerSafe
<1> QED
  BY <1>1, <1>2, <1>3

LEMMA NoneIsQuiet ==
    ASSUME IInv, NEW q \in Requests, Continue(q)
    PROVE  server # "none"
<1>1. req[q] # Idle
  <2>1. req[q].op \in {"join_ban", "join_member", "join_find", "join_merge", "join_insert", "remove",
                       "slate", "erase", "ban", "unban", "timeout", "roles", "delete_members",
                       "delete_bans", "delete_server"}
    BY DEF Continue, CreateCheckBan, CreateCheckMember, FindSlated, MergeMember, InsertMember,
           SoftDeleteRead, SlateMember, EraseMember, InsertBan, DeleteBan, update_member,
           DeleteMembers, DeleteBans, DeleteDocument
  <2> QED
    BY <2>1, SMT DEF Idle
<1> QED
  BY <1>1 DEF IInv, Marked

LEMMA CreateKeeps ==
    ASSUME IInv, create_server
    PROVE  IInv'
<1> USE RecordTyped, OwnerIsUser
<1>1. TypeOK'
  BY DEF IInv, TypeOK, create_server
<1>2. OwnerSafe'
  BY DEF IInv, TypeOK, OwnerSafe, create_server, Deleting
<1>3. Marked'
  BY DEF IInv, Marked, create_server
<1> QED
  BY <1>1, <1>2, <1>3 DEF IInv

LEMMA PruneKeeps ==
    ASSUME IInv, remove_dangling_members
    PROVE  IInv'
<1> USE RecordTyped, OwnerIsUser
<1>1. rec'[Owner] = rec[Owner]
  BY SMT DEF remove_dangling_members, IInv, OwnerSafe
<1>2. TypeOK'
  BY DEF IInv, TypeOK, remove_dangling_members
<1>3. OwnerSafe'
  BY <1>1 DEF IInv, OwnerSafe, remove_dangling_members, Deleting
<1>4. Marked'
  BY DEF IInv, Marked, remove_dangling_members
<1> QED
  BY <1>2, <1>3, <1>4 DEF IInv

LEMMA TickKeeps ==
    ASSUME IInv, Tick \/ UNCHANGED vars
    PROVE  IInv'
<1>1. clock' \in Time /\ UNCHANGED <<server, rec, bans, req>>
  BY MembersAssumption, SMT DEF IInv, TypeOK, Time, Tick, vars
<1> QED
  BY <1>1 DEF IInv, TypeOK, OwnerSafe, Marked, Deleting

LEMMA InitHolds == Init => IInv
<1> SUFFICES ASSUME Init PROVE IInv
  OBVIOUS
<1> USE RecordTyped, OwnerIsUser
<1>1. TypeOK
  BY MembersAssumption, SMT DEF Init, TypeOK, Request, Idle, Time
<1>2. OwnerSafe
  BY DEF Init, OwnerSafe, Idle, Aimed, Going
<1>3. Marked
  BY DEF Init, Marked
<1> QED
  BY <1>1, <1>2, <1>3 DEF IInv

LEMMA StepHolds == IInv /\ [Next]_vars => IInv'
<1> SUFFICES ASSUME IInv, [Next]_vars PROVE IInv'
  OBVIOUS
<1>1. ASSUME NEW q \in Requests, Continue(q)
      PROVE  IInv'
  <2>1. server # "none"
    BY <1>1, NoneIsQuiet
  <2> QED
    BY <1>1, <2>1, JoinKeeps, RemovalKeeps, BanKeeps, EditKeeps, DeletionKeeps DEF Continue
<1> QED
  BY <1>1, RouteKeeps, CreateKeeps, PruneKeeps, TickKeeps DEF Next

-----------------------------------------------------------------------------
(* The theorems.                                                           *)

(* The types hold in every run, and soft_delete_member always finds the
   timeout that it unwraps. *)
THEOREM MembersTypeCorrect == Spec => []TypeOK
<1>1. IInv => TypeOK
  BY DEF IInv
<1> QED
  BY <1>1, InitHolds, StepHolds, PTL DEF Spec

(* A server that is up and not being deleted has its owner as a member, not
   banned, whatever the other users and requests do. *)
THEOREM OwnerAlwaysStays == Spec => []OwnerStays
<1>1. IInv => OwnerStays
  BY DEF IInv, OwnerSafe, OwnerStays, IsMember
<1> QED
  BY <1>1, InitHolds, StepHolds, PTL DEF Spec

(* The step by which a user becomes a member is the last one of their join, or
   the creation of their server. *)
LEMMA EntryIsJoin ==
    ASSUME IInv, [Next]_vars, NEW u \in Users, ~ IsMember(u), IsMember(u)'
    PROVE  \/ create_server
           \/ \E q \in Requests : req[q].op \in Joining /\ req[q].user = u
<1> USE DEF IsMember
<1>1. ASSUME NEW q \in Requests, MergeMember(q) \/ InsertMember(q)
      PROVE  req[q].op \in Joining /\ req[q].user = u
  BY <1>1 DEF MergeMember, InsertMember, Joining, IInv, TypeOK
<1>2. ASSUME NEW q \in Requests, SlateMember(q)
      PROVE  FALSE
  <2> DEFINE t == req[q].user
             w == [rec[t] EXCEPT !.pending_deletion_at = req[q].at, !.moderator = FALSE]
  <2>1. req[q].at # 0
    BY <1>2 DEF SlateMember, IInv, TypeOK
  <2>2. rec \in [Users -> Record] /\ t \in Users
    BY <1>2, RequestFields DEF SlateMember, IInv, TypeOK, Going
  <2>3. w.pending_deletion_at = req[q].at
    BY <2>2 DEF Record
  <2>4. rec'[u] = rec[u] \/ rec'[u] = w
    BY <1>2, <2>2 DEF SlateMember
  <2> QED
    BY <2>1, <2>3, <2>4
<1>3. ASSUME NEW q \in Requests, update_member(q)
      PROVE  FALSE
  <2> DEFINE t == req[q].user
  <2>1. rec \in [Users -> Record] /\ rec[u] \in Record
    BY DEF IInv, TypeOK
  <2>2. rec'[u].exists = rec[u].exists /\ rec'[u].pending_deletion_at = rec[u].pending_deletion_at
    BY <1>3, <2>1, SMT DEF update_member, Record
  <2> QED
    BY <2>2
<1>4. ASSUME NEW q \in Requests, EraseMember(q) \/ DeleteMembers(q)
      PROVE  FALSE
  BY <1>4, RecordTyped DEF EraseMember, DeleteMembers, IInv, TypeOK
<1>5. ASSUME remove_dangling_members
      PROVE  FALSE
  BY <1>5, RecordTyped DEF remove_dangling_members
<1>6. ASSUME UNCHANGED rec
      PROVE  FALSE
  BY <1>6
<1>7. ASSUME NEW q \in Requests, Route(q)
      PROVE  UNCHANGED rec
  BY <1>7 DEF Route, join, join_official_server, leave, kick, ban, unban, edit_timeout,
              edit_roles, delete_server
<1>8. ASSUME NEW q \in Requests,
             \/ CreateCheckBan(q) \/ CreateCheckMember(q) \/ FindSlated(q) \/ SoftDeleteRead(q)
             \/ InsertBan(q) \/ DeleteBan(q) \/ DeleteBans(q) \/ DeleteDocument(q)
      PROVE  UNCHANGED rec
  BY <1>8 DEF CreateCheckBan, CreateCheckMember, FindSlated, SoftDeleteRead, InsertBan,
              DeleteBan, DeleteBans, DeleteDocument
<1>9. Tick \/ UNCHANGED vars => UNCHANGED rec
  BY DEF Tick, vars
<1> QED
  BY <1>1, <1>2, <1>3, <1>4, <1>5, <1>6, <1>7, <1>8, <1>9 DEF Next, Continue

(* A banned user becomes a member only through a join whose look at the bans
   came before the ban was inserted, or failed. *)
THEOREM BanAlwaysKeepsOut == Spec => BanKeepsOut
<1> DEFINE Kept == \A u \in Users :
          u \in bans /\ ~ IsMember(u) /\ IsMember(u)' =>
            \E q \in Requests : req[q].op \in Joining /\ req[q].user = u /\ req[q].overtaken
<1>1. IInv /\ [Next]_vars => Kept
  <2> SUFFICES ASSUME IInv, [Next]_vars, NEW u \in Users,
                      u \in bans, ~ IsMember(u), IsMember(u)'
               PROVE  \E q \in Requests : /\ req[q].op \in Joining
                                          /\ req[q].user = u /\ req[q].overtaken
    OBVIOUS
  <2>1. ~ create_server
    BY DEF create_server, IInv, Marked
  <2>2. PICK q \in Requests : req[q].op \in Joining /\ req[q].user = u
    BY <2>1, EntryIsJoin
  <2> QED
    BY <2>2 DEF IInv, Marked
<1>2. IInv /\ [Next]_vars => [Kept]_vars
  BY <1>1
<1> QED
  BY <1>2, InitHolds, StepHolds, PTL DEF Spec, BanKeepsOut

-----------------------------------------------------------------------------
(***************************************************************************)
(* Reactions.  At most one request works on an emoji that is not disturbed, *)
(* and its stage says what the document and the client have of the emoji.  *)
(***************************************************************************)
Reacts == UNION {[D -> SUBSET RUsers] : D \in SUBSET Emojis}

Docs == [reactions : Reacts, pinned : BOOLEAN, exists : BOOLEAN]

Work(ops, es, todos) == [op : ops, e : es, todo : todos]
UserWork(ops, todos) == [op : ops, e : Emojis, u : RUsers, todo : todos]

CreateTodos == {<<"insert">>}
ReactTodos == {<<"publish", "write">>, <<"write">>}
UnreactTodos == {<<"publish", "write">>, <<"publish", "unset">>, <<"write">>, <<"unset">>}
ClearAllTodos == {<<"write", "publish">>, <<"publish">>}
PinTodos == {<<"write", "publish", "notify">>, <<"publish", "notify">>, <<"notify">>}
DeleteTodos == {<<"mark", "write", "publish">>, <<"write", "publish">>, <<"publish">>}

Handlings ==
    {Unused} \cup Work({"create"}, Emojis, CreateTodos)
    \cup UserWork({"react"}, ReactTodos) \cup UserWork({"unreact"}, UnreactTodos)
    \cup Work({"clear"}, Emojis, ReactTodos) \cup Work({"clearall"}, {"all"}, ClearAllTodos)
    \cup Work({"pin", "unpin"}, {"all"}, PinTodos) \cup Work({"delete"}, {"all"}, DeleteTodos)

MsgShape ==
    /\ message \in Docs /\ shown \in Docs /\ handling \in [RRequests -> Handlings]
    /\ disturbed \subseteq Emojis \cup {"all"}

Flying(r) == handling[r].op # "none"

Calm == "all" \notin disturbed

(* Requests that meet did so in the open. *)
Apart ==
    \A r, s \in RRequests : r # s /\ Flying(r) /\ Flying(s) =>
        /\ handling[r].e # "all" /\ handling[s].e # "all"
        /\ handling[r].e = handling[s].e => handling[r].e \in disturbed

Stored(e) == By(message.reactions, e)
Seen(e) == By(shown.reactions, e)
Stocked(e) == e \in DOMAIN message.reactions => Stored(e) # {}
InStep(e) == Seen(e) = Stored(e) /\ Stocked(e)

(* What a request at work on e has done of its work. *)
Stage(q, e) ==
    /\ q.op \in {"create", "pin", "unpin"} => InStep(e)
    /\ q.op = "react" =>
          /\ Stocked(e)
          /\ Seen(e) = IF q.todo = <<"write">> THEN Stored(e) \cup {q.u} ELSE Stored(e)
    /\ q.op = "unreact" =>
          /\ Stocked(e) /\ q.u \in Stored(e)
          /\ q.todo \in {<<"unset">>, <<"publish", "unset">>} <=> Stored(e) = {q.u}
          /\ Seen(e) = IF q.todo \in {<<"write">>, <<"unset">>} THEN Stored(e) \ {q.u} ELSE Stored(e)
    /\ q.op = "clear" =>
          /\ Stocked(e)
          /\ Seen(e) = IF q.todo = <<"write">> THEN {} ELSE Stored(e)
    /\ q.op \in {"clearall", "delete"} =>
          IF q.todo = <<"publish">> THEN e \notin DOMAIN message.reactions ELSE InStep(e)

Tracked(e) ==
    /\ \A r \in RRequests : Meets(handling[r], e) => Stage(handling[r], e)
    /\ ~Busy(e) => InStep(e)

(* A message that requests work on is there, until its deletion is written. *)
There ==
    /\ \A r \in RRequests : handling[r].op \notin {"none", "create"} =>
          /\ shown.exists
          /\ message.exists <=> ~(handling[r].op = "delete" /\ handling[r].todo = <<"publish">>)
    /\ (\A r \in RRequests : handling[r].op # "delete") => (shown.exists <=> message.exists)

MsgIInv ==
    /\ MsgShape
    /\ Calm => Apart /\ There /\ \A e \in Emojis \ disturbed : Tracked(e)

-----------------------------------------------------------------------------
(* What a step makes of a document, emoji by emoji. *)
LEMMA EmptyReacts == DOMAIN <<>> = {} /\ <<>> \in Reacts /\ \A e : By(<<>>, e) = {}
<1>1. DOMAIN <<>> = {}
  BY SMT
<1>2. <<>> \in [{} -> SUBSET RUsers]
  BY SMT
<1>3. <<>> \in Reacts
  BY <1>2 DEF Reacts
<1> QED
  BY <1>1, <1>3 DEF By

LEMMA ReactsTyped ==
    ASSUME NEW f \in Reacts
    PROVE  /\ DOMAIN f \subseteq Emojis
           /\ \A e \in DOMAIN f : f[e] \subseteq RUsers
           /\ \A e : By(f, e) \subseteq RUsers
           /\ f = [x \in DOMAIN f |-> f[x]]
BY DEF Reacts, By

(* g is f but for the users of e, who are us. *)
Edited(g, f, e, us) ==
    /\ g \in Reacts /\ By(g, e) = us
    /\ \A d : d # e => By(g, d) = By(f, d) /\ (d \in DOMAIN g <=> d \in DOMAIN f)

LEMMA WithFacts ==
    ASSUME NEW f \in Reacts, NEW e \in Emojis, NEW us \in SUBSET RUsers,
           NEW g, g = With(f, e, us)
    PROVE  Edited(g, f, e, us) /\ e \in DOMAIN g
<1>2. PICK D : D = DOMAIN f \cup {e}
  OBVIOUS
<1>3. D \in SUBSET Emojis /\ \A x \in DOMAIN f : f[x] \in SUBSET RUsers
  BY <1>2, ReactsTyped
<1>4. g = [x \in D |-> IF x = e THEN us ELSE f[x]]
  BY <1>2 DEF With
<1>5. g \in [D -> SUBSET RUsers]
  BY <1>2, <1>3, <1>4
<1>6. g \in Reacts
  BY <1>3, <1>5 DEF Reacts
<1>7. DOMAIN g = D /\ g[e] = us /\ \A x \in DOMAIN f : x # e => g[x] = f[x]
  BY <1>2, <1>4
<1>8. By(g, e) = us /\ e \in DOMAIN g
  BY <1>2, <1>7 DEF By
<1>9. ASSUME NEW x, x # e PROVE By(g, x) = By(f, x) /\ (x \in DOMAIN g <=> x \in DOMAIN f)
  BY <1>2, <1>7, <1>9 DEF By
<1> QED
  BY <1>6, <1>8, <1>9 DEF Edited

LEMMA WithoutFacts ==
    ASSUME NEW f \in Reacts, NEW e, NEW g, g = Without(f, e)
    PROVE  Edited(g, f, e, {}) /\ e \notin DOMAIN g
<1>2. PICK D : D = DOMAIN f \ {e}
  OBVIOUS
<1>3. D \in SUBSET Emojis /\ \A x \in DOMAIN f : f[x] \in SUBSET RUsers
  BY <1>2, ReactsTyped
<1>4. g = [x \in D |-> f[x]]
  BY <1>2 DEF Without
<1>5. g \in [D -> SUBSET RUsers]
  BY <1>2, <1>3, <1>4
<1>6. g \in Reacts
  BY <1>3, <1>5 DEF Reacts
<1>7. DOMAIN g = D /\ \A x \in D : g[x] = f[x]
  BY <1>4
<1>8. By(g, e) = {} /\ e \notin DOMAIN g
  BY <1>2, <1>7 DEF By
<1>9. ASSUME NEW x, x # e PROVE By(g, x) = By(f, x) /\ (x \in DOMAIN g <=> x \in DOMAIN f)
  BY <1>2, <1>7, <1>9 DEF By
<1> QED
  BY <1>6, <1>8, <1>9 DEF Edited

(* m is n but for the users of e, who are us. *)
Differs(m, n, e, us) ==
    m \in Docs /\ m.exists = n.exists /\ Edited(m.reactions, n.reactions, e, us)

WithReactions(m, f) == [m EXCEPT !.reactions = f]

LEMMA DocWith ==
    ASSUME NEW m \in Docs, NEW f \in Reacts, NEW n, n = WithReactions(m, f)
    PROVE  n \in Docs /\ n.exists = m.exists /\ n.reactions = f
<1>1. n.exists = m.exists /\ n.reactions = f /\ n.pinned = m.pinned
  BY DEF Docs, WithReactions
<1> QED
  BY <1>1 DEF Docs, WithReactions

LEMMA ApplyReact ==
    ASSUME NEW m \in Docs, m.exists, NEW q, q.op = "react",
           NEW e \in Emojis, e = q.e, NEW u \in RUsers, u = q.u,
           NEW us, us = By(m.reactions, e) \cup {u}, NEW n, n = Apply(q, m)
    PROVE  Differs(n, m, e, us) /\ e \in DOMAIN n.reactions
<1>1. PICK f : f = m.reactions
  OBVIOUS
<1>2. f \in Reacts /\ us \in SUBSET RUsers
  BY <1>1, ReactsTyped DEF Docs
<1>3. PICK g : g = With(f, e, us)
  OBVIOUS
<1>4. n = WithReactions(m, g)
  BY <1>1, <1>3, SMT DEF Apply, AddToSet, Docs, WithReactions
<1>5. Edited(g, f, e, us) /\ e \in DOMAIN g
  BY <1>2, <1>3, WithFacts
<1>6. g \in Reacts
  BY <1>5 DEF Edited
<1>7. n \in Docs /\ n.exists = m.exists /\ n.reactions = g
  BY <1>4, <1>6, DocWith
<1> QED
  BY <1>1, <1>5, <1>7 DEF Differs

LEMMA ApplyUnreact ==
    ASSUME NEW m \in Docs, m.exists, NEW q, q.op = "unreact",
           NEW e \in Emojis, e = q.e, NEW u \in RUsers, u = q.u,
           NEW us, us = By(m.reactions, e) \ {u}, NEW n, n = Apply(q, m)
    PROVE  Differs(n, m, e, us)
           /\ (e \in DOMAIN n.reactions <=> e \in DOMAIN m.reactions)
<1>1. PICK f : f = m.reactions
  OBVIOUS
<1>2. f \in Reacts
  BY <1>1 DEF Docs
<1>3. PICK g : g = PullFrom(f, e, u)
  OBVIOUS
<1>4. n = WithReactions(m, g)
  BY <1>1, <1>3, SMT DEF Apply, Docs, WithReactions
<1>5. Edited(g, f, e, us) /\ (e \in DOMAIN g <=> e \in DOMAIN f)
  <2>1. CASE e \in DOMAIN f
    <3>1. us = f[e] \ {u}
      BY <1>1, <2>1 DEF By
    <3>2. us \in SUBSET RUsers
      BY <1>2, <2>1, <3>1, ReactsTyped
    <3>3. g = With(f, e, us)
      BY <1>3, <2>1, <3>1 DEF PullFrom
    <3> QED
      BY <1>2, <2>1, <3>2, <3>3, WithFacts
  <2>2. CASE e \notin DOMAIN f
    BY <1>1, <1>2, <1>3, <2>2 DEF PullFrom, By, Edited
  <2> QED
    BY <2>1, <2>2
<1>6. g \in Reacts
  BY <1>5 DEF Edited
<1>7. n \in Docs /\ n.exists = m.exists /\ n.reactions = g
  BY <1>4, <1>6, DocWith
<1> QED
  BY <1>1, <1>5, <1>7 DEF Differs

LEMMA UnsetFacts ==
    ASSUME NEW m \in Docs, NEW e, NEW g, g = Without(m.reactions, e),
           NEW n, n = WithReactions(m, g)
    PROVE  Differs(n, m, e, {}) /\ e \notin DOMAIN n.reactions
<1>1. PICK f : f = m.reactions
  OBVIOUS
<1>2. f \in Reacts /\ g = Without(f, e)
  BY <1>1 DEF Docs
<1>3. Edited(g, f, e, {}) /\ e \notin DOMAIN g
  BY <1>2, WithoutFacts
<1>4. g \in Reacts
  BY <1>3 DEF Edited
<1>5. n \in Docs /\ n.exists = m.exists /\ n.reactions = g
  <2>1. n.exists = m.exists /\ n.reactions = g /\ n.pinned = m.pinned
    BY DEF Docs, WithReactions
  <2> QED
    BY <1>4, <2>1 DEF Docs, WithReactions
<1> QED
  BY <1>1, <1>3, <1>5 DEF Differs

LEMMA ApplyClear ==
    ASSUME NEW m \in Docs, m.exists, NEW q, q.op = "clear", NEW e, e = q.e,
           NEW n, n = Apply(q, m)
    PROVE  Differs(n, m, e, {}) /\ e \notin DOMAIN n.reactions
<1>1. PICK g : g = Without(m.reactions, e)
  OBVIOUS
<1>2. n = WithReactions(m, g)
  BY <1>1, SMT DEF Apply, WithReactions, Docs
<1> QED
  BY <1>1, <1>2, UnsetFacts

LEMMA NoMessageTyped == NoMessage \in Docs /\ ~NoMessage.exists /\ DOMAIN NoMessage.reactions = {}
                        /\ \A e : By(NoMessage.reactions, e) = {}
<1>1. NoMessage.reactions = <<>> /\ NoMessage.exists = FALSE /\ NoMessage.pinned = FALSE
  BY DEF NoMessage
<1> QED
  BY <1>1, EmptyReacts DEF NoMessage, Docs

(* The steps that touch every emoji, or none. *)
LEMMA ApplyAllOps ==
    ASSUME NEW m \in Docs, m.exists, NEW q, NEW n, n = Apply(q, m)
    PROVE  /\ q.op = "clearall" => n \in Docs /\ n.exists /\ n.reactions = <<>>
           /\ q.op \in {"pin", "unpin"} => n \in Docs /\ n.exists /\ n.reactions = m.reactions
           /\ q.op = "delete" => n = NoMessage
<1>1. CASE q.op = "clearall"
  <2>1. PICK f : f = <<>>
    OBVIOUS
  <2>2. n = WithReactions(m, f)
    BY <1>1, <2>1, SMT DEF Apply, WithReactions
  <2>3. f \in Reacts
    BY <2>1, EmptyReacts
  <2>4. n \in Docs /\ n.exists = m.exists /\ n.reactions = f
    BY <2>2, <2>3, DocWith
  <2> QED
    BY <1>1, <2>1, <2>4
<1>2. CASE q.op \in {"pin", "unpin"}
  <2>1. PICK b \in BOOLEAN : n = [m EXCEPT !.pinned = b]
    <3>1. q.op = "pin" => n = [m EXCEPT !.pinned = TRUE]
      BY SMT DEF Apply
    <3>2. q.op = "unpin" => n = [m EXCEPT !.pinned = FALSE]
      BY SMT DEF Apply
    <3> QED
      BY <1>2, <3>1, <3>2
  <2>2. n.exists = m.exists /\ n.reactions = m.reactions /\ n.pinned = b
    BY <2>1 DEF Docs
  <2> QED
    BY <1>2, <2>1, <2>2 DEF Docs
<1>3. CASE q.op = "delete"
  BY <1>3, SMT DEF Apply
<1> QED
  BY <1>1, <1>2, <1>3

-----------------------------------------------------------------------------
(* Requests and their steps. *)
LEMMA Kinds ==
    ASSUME NEW h \in Handlings
    PROVE  \/ h = Unused /\ h.op = "none"
           \/ h.op = "create" /\ h \in Work({"create"}, Emojis, CreateTodos)
           \/ h.op = "react" /\ h \in UserWork({"react"}, ReactTodos)
           \/ h.op = "unreact" /\ h \in UserWork({"unreact"}, UnreactTodos)
           \/ h.op = "clear" /\ h \in Work({"clear"}, Emojis, ReactTodos)
           \/ h.op = "clearall" /\ h \in Work({"clearall"}, {"all"}, ClearAllTodos)
           \/ h.op \in {"pin", "unpin"} /\ h \in Work({"pin", "unpin"}, {"all"}, PinTodos)
           \/ h.op = "delete" /\ h \in Work({"delete"}, {"all"}, DeleteTodos)
<1>1. Unused.op = "none"
  BY SMT DEF Unused
<1>2. \A O, E, T : \A x \in Work(O, E, T) : x.op \in O
  BY DEF Work
<1>3. \A O, T : \A x \in UserWork(O, T) : x.op \in O
  BY DEF UserWork
<1> QED
  BY <1>1, <1>2, <1>3 DEF Handlings

LEMMA Fields ==
    ASSUME NEW h \in Handlings
    PROVE  /\ h.op \in {"create", "react", "unreact", "clear"} => h.e \in Emojis
           /\ h.op \in {"clearall", "pin", "unpin", "delete"} => h.e = "all"
           /\ h.op \in {"react", "unreact"} => h.u \in RUsers
           /\ h.op = "create" => h.todo \in CreateTodos
           /\ h.op \in {"react", "clear"} => h.todo \in ReactTodos
           /\ h.op = "unreact" => h.todo \in UnreactTodos
           /\ h.op = "clearall" => h.todo \in ClearAllTodos
           /\ h.op \in {"pin", "unpin"} => h.todo \in PinTodos
           /\ h.op = "delete" => h.todo \in DeleteTodos
<1>1. \A O, E, T : \A x \in Work(O, E, T) : x.e \in E /\ x.todo \in T
  BY DEF Work
<1>2. \A O, T : \A x \in UserWork(O, T) : x.e \in Emojis /\ x.u \in RUsers /\ x.todo \in T
  BY DEF UserWork
<1> QED
  BY <1>1, <1>2, Kinds, SMT

LEMMA Tuples ==
    /\ \A a : Head(<<a>>) = a /\ Len(<<a>>) = 1 /\ <<a>> # <<>>
    /\ \A a, b : Head(<<a, b>>) = a /\ Len(<<a, b>>) # 1 /\ Tail(<<a, b>>) = <<b>>
    /\ \A a, b, c : Head(<<a, b, c>>) = a /\ Len(<<a, b, c>>) # 1 /\ Tail(<<a, b, c>>) = <<b, c>>
BY SMT

Kept(n, h) == n.op = h.op /\ n.e = h.e /\ (h.op \in {"react", "unreact"} => n.u = h.u)

Shorter(n, h, t) == Len(h.todo) # 1 /\ Tail(h.todo) = t /\ n = Rest(h)
Resumed(n, h, t) == n.op = h.op /\ n.e = h.e /\ n.todo = t
ResumedBy(n, h, t) == Resumed(n, h, t) /\ n.u = h.u

LEMMA RestWork ==
    ASSUME NEW O, NEW E, NEW T, NEW h \in Work(O, E, T), NEW t \in T, NEW n, Shorter(n, h, t)
    PROVE  n \in Work(O, E, T) /\ Resumed(n, h, t)
<1>1. n = [h EXCEPT !.todo = t]
  BY DEF Rest, Shorter
<1>2. n.op = h.op /\ n.e = h.e /\ n.todo = t
  BY <1>1 DEF Work
<1> QED
  BY <1>1, <1>2 DEF Work, Resumed

LEMMA RestUserWork ==
    ASSUME NEW O, NEW T, NEW h \in UserWork(O, T), NEW t \in T, NEW n, Shorter(n, h, t)
    PROVE  n \in UserWork(O, T) /\ ResumedBy(n, h, t)
<1>1. n = [h EXCEPT !.todo = t]
  BY DEF Rest, Shorter
<1>2. n.op = h.op /\ n.e = h.e /\ n.u = h.u /\ n.todo = t
  BY <1>1 DEF UserWork
<1> QED
  BY <1>1, <1>2 DEF UserWork, Resumed, ResumedBy

(* A request with more than one step left keeps all but the first of them. *)
Goes(h, t) ==
    \A n : n = Rest(h) => n \in Handlings /\ Kept(n, h) /\ n.todo = t

Fits(h, t) ==
    \/ h.op \in {"react", "clear"} /\ t \in ReactTodos
    \/ h.op = "unreact" /\ t \in UnreactTodos
    \/ h.op = "clearall" /\ t \in ClearAllTodos
    \/ h.op \in {"pin", "unpin"} /\ t \in PinTodos
    \/ h.op = "delete" /\ t \in DeleteTodos

LEMMA GoesOn ==
    ASSUME NEW h \in Handlings, NEW t, Len(h.todo) # 1, Tail(h.todo) = t, Fits(h, t)
    PROVE  Goes(h, t)
<1> SUFFICES ASSUME NEW n, n = Rest(h) PROVE n \in Handlings /\ Kept(n, h) /\ n.todo = t
  BY DEF Goes
<1>s. Shorter(n, h, t)
  BY DEF Shorter
<1>1. CASE h.op = "react"
  <2>o. PICK O : O = {"react"}
    OBVIOUS
  <2>t. PICK T : T = ReactTodos
    OBVIOUS
  <2>1. h \in UserWork(O, T) /\ t \in T
    BY <1>1, Kinds, <2>o, <2>t, SMT DEF Fits
  <2>2. n \in UserWork(O, T) /\ ResumedBy(n, h, t)
    BY <2>1, <1>s, RestUserWork
  <2> QED
    BY <2>2, <2>o, <2>t DEF Handlings, Kept, Resumed, ResumedBy
<1>2. CASE h.op = "unreact"
  <2>o. PICK O : O = {"unreact"}
    OBVIOUS
  <2>t. PICK T : T = UnreactTodos
    OBVIOUS
  <2>1. h \in UserWork(O, T) /\ t \in T
    BY <1>2, Kinds, <2>o, <2>t, SMT DEF Fits
  <2>2. n \in UserWork(O, T) /\ ResumedBy(n, h, t)
    BY <2>1, <1>s, RestUserWork
  <2> QED
    BY <2>2, <2>o, <2>t DEF Handlings, Kept, Resumed, ResumedBy
<1>3. CASE h.op = "clear"
  <2>o. PICK O : O = {"clear"}
    OBVIOUS
  <2>t. PICK T : T = ReactTodos
    OBVIOUS
  <2>e. PICK E : E = Emojis
    OBVIOUS
  <2>1. h \in Work(O, E, T) /\ t \in T
    BY <1>3, Kinds, <2>o, <2>t, <2>e, SMT DEF Fits
  <2>2. n \in Work(O, E, T) /\ Resumed(n, h, t)
    BY <2>1, <1>s, RestWork
  <2> QED
    BY <1>3, <2>2, <2>o, <2>t, <2>e DEF Handlings, Kept, Resumed, ResumedBy
<1>4. CASE h.op = "clearall"
  <2>o. PICK O : O = {"clearall"}
    OBVIOUS
  <2>t. PICK T : T = ClearAllTodos
    OBVIOUS
  <2>e. PICK E : E = {"all"}
    OBVIOUS
  <2>1. h \in Work(O, E, T) /\ t \in T
    BY <1>4, Kinds, <2>o, <2>t, <2>e, SMT DEF Fits
  <2>2. n \in Work(O, E, T) /\ Resumed(n, h, t)
    BY <2>1, <1>s, RestWork
  <2> QED
    BY <1>4, <2>2, <2>o, <2>t, <2>e DEF Handlings, Kept, Resumed, ResumedBy
<1>5. CASE h.op \in {"pin", "unpin"}
  <2>o. PICK O : O = {"pin", "unpin"}
    OBVIOUS
  <2>t. PICK T : T = PinTodos
    OBVIOUS
  <2>e. PICK E : E = {"all"}
    OBVIOUS
  <2>1. h \in Work(O, E, T) /\ t \in T
    BY <1>5, Kinds, <2>o, <2>t, <2>e, SMT DEF Fits
  <2>2. n \in Work(O, E, T) /\ Resumed(n, h, t)
    BY <2>1, <1>s, RestWork
  <2> QED
    BY <1>5, <2>2, <2>o, <2>t, <2>e DEF Handlings, Kept, Resumed, ResumedBy
<1>6. CASE h.op = "delete"
  <2>o. PICK O : O = {"delete"}
    OBVIOUS
  <2>t. PICK T : T = DeleteTodos
    OBVIOUS
  <2>e. PICK E : E = {"all"}
    OBVIOUS
  <2>1. h \in Work(O, E, T) /\ t \in T
    BY <1>6, Kinds, <2>o, <2>t, <2>e, SMT DEF Fits
  <2>2. n \in Work(O, E, T) /\ Resumed(n, h, t)
    BY <2>1, <1>s, RestWork
  <2> QED
    BY <1>6, <2>2, <2>o, <2>t, <2>e DEF Handlings, Kept, Resumed, ResumedBy
<1> QED
  BY <1>1, <1>2, <1>3, <1>4, <1>5, <1>6 DEF Fits

LEMMA RestPublish ==
    ASSUME NEW h \in Handlings, h.todo # <<>>, Head(h.todo) = "publish"
    PROVE  \/ h.op \in {"react", "clear"} /\ h.todo = <<"publish", "write">> /\ Goes(h, <<"write">>)
           \/ h.op = "unreact" /\ h.todo = <<"publish", "write">> /\ Goes(h, <<"write">>)
           \/ h.op = "unreact" /\ h.todo = <<"publish", "unset">> /\ Goes(h, <<"unset">>)
           \/ h.op \in {"clearall", "delete"} /\ h.todo = <<"publish">>
           \/ h.op \in {"pin", "unpin"} /\ Goes(h, <<"notify">>)
<1> USE DEF ReactTodos, UnreactTodos, ClearAllTodos, PinTodos, DeleteTodos, CreateTodos
<1>1. CASE h.op \in {"react", "clear"}
  <2>1. h.todo = <<"publish", "write">>
    BY <1>1, Fields, Tuples, SMT
  <2>t. PICK t : t = <<"write">>
    OBVIOUS
  <2>2. Len(h.todo) # 1 /\ Tail(h.todo) = t /\ t \in ReactTodos
    BY <2>1, <2>t, Tuples
  <2>3. Goes(h, t)
    BY <1>1, <2>2, GoesOn DEF Fits
  <2> QED
    BY <1>1, <2>1, <2>3, <2>t
<1>2. CASE h.op = "unreact"
  <2>1. h.todo = <<"publish", "write">> \/ h.todo = <<"publish", "unset">>
    BY <1>2, Fields, Tuples, SMT
  <2>3. CASE h.todo = <<"publish", "write">>
    <3>t. PICK t : t = <<"write">>
      OBVIOUS
    <3>2. Len(h.todo) # 1 /\ Tail(h.todo) = t /\ t \in UnreactTodos
      BY <2>3, <3>t, Tuples
    <3>3. Goes(h, t)
      BY <1>2, <3>2, GoesOn DEF Fits
    <3> QED
      BY <1>2, <2>3, <3>3, <3>t
  <2>4. CASE h.todo = <<"publish", "unset">>
    <3>t. PICK t : t = <<"unset">>
      OBVIOUS
    <3>2. Len(h.todo) # 1 /\ Tail(h.todo) = t /\ t \in UnreactTodos
      BY <2>4, <3>t, Tuples
    <3>3. Goes(h, t)
      BY <1>2, <3>2, GoesOn DEF Fits
    <3> QED
      BY <1>2, <2>4, <3>3, <3>t
  <2> QED
    BY <2>1, <2>3, <2>4
<1>3. CASE h.op \in {"clearall", "delete"}
  BY <1>3, Fields, Tuples, SMT
<1>4. CASE h.op \in {"pin", "unpin"}
  <2>1. h.todo = <<"publish", "notify">>
    BY <1>4, Fields, Tuples, SMT
  <2>t. PICK t : t = <<"notify">>
    OBVIOUS
  <2>2. Len(h.todo) # 1 /\ Tail(h.todo) = t /\ t \in PinTodos
    BY <2>1, <2>t, Tuples
  <2>3. Goes(h, t)
    BY <1>4, <2>2, GoesOn DEF Fits
  <2> QED
    BY <1>4, <2>3, <2>t
<1>5. h.op # "create" /\ h.op # "none"
  BY Fields, Kinds, Tuples, SMT DEF Unused
<1> QED
  BY <1>1, <1>2, <1>3, <1>4, <1>5, Kinds

LEMMA RestWrite ==
    ASSUME NEW h \in Handlings, h.todo # <<>>, Head(h.todo) = "write"
    PROVE  \/ h.op \in {"react", "unreact", "clear"} /\ h.todo = <<"write">>
           \/ /\ h.op \in {"clearall", "delete"} /\ h.todo = <<"write", "publish">>
              /\ Goes(h, <<"publish">>)
           \/ h.op \in {"pin", "unpin"} /\ Goes(h, <<"publish", "notify">>)
<1> USE DEF ReactTodos, UnreactTodos, ClearAllTodos, PinTodos, DeleteTodos, CreateTodos
<1>1. CASE h.op \in {"react", "unreact", "clear"}
  BY <1>1, Fields, Tuples, SMT
<1>2. CASE h.op \in {"clearall", "delete"}
  <2>1. h.todo = <<"write", "publish">>
    BY <1>2, Fields, Tuples, SMT
  <2>t. PICK t : t = <<"publish">>
    OBVIOUS
  <2>2. Len(h.todo) # 1 /\ Tail(h.todo) = t /\ t \in ClearAllTodos /\ t \in DeleteTodos
    BY <2>1, <2>t, Tuples
  <2>3. Goes(h, t)
    BY <1>2, <2>2, GoesOn DEF Fits
  <2> QED
    BY <1>2, <2>1, <2>3, <2>t
<1>3. CASE h.op \in {"pin", "unpin"}
  <2>1. h.todo = <<"write", "publish", "notify">>
    BY <1>3, Fields, Tuples, SMT
  <2>t. PICK t : t = <<"publish", "notify">>
    OBVIOUS
  <2>2. Len(h.todo) # 1 /\ Tail(h.todo) = t /\ t \in PinTodos
    BY <2>1, <2>t, Tuples, SMT
  <2>3. Goes(h, t)
    BY <1>3, <2>2, GoesOn DEF Fits
  <2> QED
    BY <1>3, <2>3, <2>t
<1>4. h.op # "create" /\ h.op # "none"
  BY Fields, Kinds, Tuples, SMT DEF Unused
<1> QED
  BY <1>1, <1>2, <1>3, <1>4, Kinds

LEMMA RestOther ==
    ASSUME NEW h \in Handlings, h.todo # <<>>
    PROVE  /\ Head(h.todo) = "unset" => h.op = "unreact" /\ h.todo = <<"unset">>
           /\ Head(h.todo) = "notify" => h.op \in {"pin", "unpin"} /\ h.todo = <<"notify">>
           /\ Head(h.todo) = "mark" => /\ h.op = "delete" /\ h.todo = <<"mark", "write", "publish">>
                                       /\ Goes(h, <<"write", "publish">>)
           /\ h.todo = <<"insert">> => h.op = "create"
<1> USE DEF ReactTodos, UnreactTodos, ClearAllTodos, PinTodos, DeleteTodos, CreateTodos
<1>1. /\ Head(h.todo) = "unset" => h.op = "unreact" /\ h.todo = <<"unset">>
      /\ Head(h.todo) = "notify" => h.op \in {"pin", "unpin"} /\ h.todo = <<"notify">>
      /\ Head(h.todo) = "mark" => h.op = "delete" /\ h.todo = <<"mark", "write", "publish">>
  BY Fields, Kinds, Tuples, SMT DEF Unused
<1>2. h.todo = <<"insert">> => h.op = "create"
  BY Fields, Kinds, Tuples, SMT DEF Unused
<1>3. ASSUME h.op = "delete", h.todo = <<"mark", "write", "publish">>
      PROVE  Goes(h, <<"write", "publish">>)
  <2>t. PICK t : t = <<"write", "publish">>
    OBVIOUS
  <2>2. Len(h.todo) # 1 /\ Tail(h.todo) = t /\ t \in DeleteTodos
    BY <1>3, <2>t, Tuples, SMT
  <2>3. Goes(h, t)
    BY <1>3, <2>2, GoesOn DEF Fits
  <2> QED
    BY <2>3, <2>t
<1> QED
  BY <1>1, <1>2, <1>3

-----------------------------------------------------------------------------
(* A request that goes on or ends, and the emojis it does not touch. *)
Same(e) ==
    /\ Stored(e)' = Stored(e) /\ Seen(e)' = Seen(e)
    /\ e \in DOMAIN message'.reactions <=> e \in DOMAIN message.reactions

LEMMA SameStage ==
    ASSUME NEW e, Same(e)
    PROVE  /\ InStep(e) => InStep(e)'
           /\ \A q : Stage(q, e) => Stage(q, e)'
<1>1. (Stocked(e)' <=> Stocked(e)) /\ (InStep(e)' <=> InStep(e))
  BY DEF Same, InStep, Stocked
<1>2. /\ Stored(e)' = Stored(e) /\ Seen(e)' = Seen(e)
      /\ e \in DOMAIN message'.reactions <=> e \in DOMAIN message.reactions
  BY DEF Same
<1>3. ASSUME NEW q, Stage(q, e) PROVE Stage(q, e)'
  BY <1>1, <1>2, <1>3 DEF Stage
<1> QED
  BY <1>1, <1>3

Continues(r, q) == q = Unused \/ Kept(q, handling[r])

(* What a step that leaves request r as q makes of the emojis. *)
Effect(r, q) ==
    \A e \in Emojis \ disturbed' :
        /\ ~Meets(handling[r], e) => Same(e)
        /\ Meets(handling[r], e) /\ Stage(handling[r], e) =>
              IF q = Unused THEN InStep(e)' ELSE Stage(q, e)'

LEMMA UnusedMeets == Unused.op = "none" /\ \A e : ~Meets(Unused, e)
<1>1. Unused.op = "none"
  BY SMT DEF Unused
<1> QED
  BY <1>1 DEF Meets

LEMMA KeptMeets ==
    ASSUME NEW q, NEW h, Kept(q, h)
    PROVE  \A e : Meets(q, e) <=> Meets(h, e)
BY DEF Kept, Meets

(* Nobody else works on what r works on, if that is not disturbed. *)
LEMMA Alone ==
    ASSUME Apart, NEW r \in RRequests, NEW e \in Emojis \ disturbed, Meets(handling[r], e),
           NEW x \in RRequests, x # r
    PROVE  ~Meets(handling[x], e)
<1>1. e # "all"
  BY ChannelMessagesAssumption
<1> QED
  BY <1>1 DEF Apart, Meets, Flying

LEMMA Moves ==
    ASSUME MsgIInv, NEW r \in RRequests, NEW q \in Handlings, Flying(r), Continues(r, q),
           handling' = [handling EXCEPT ![r] = q],
           disturbed \subseteq disturbed', disturbed' \subseteq Emojis \cup {"all"},
           message' \in Docs, shown' \in Docs,
           Calm' => There' /\ Effect(r, q)
    PROVE  MsgIInv'
<1>1. MsgShape /\ MsgShape'
  BY DEF MsgIInv, MsgShape
<1>2. handling'[r] = q /\ \A x \in RRequests : x # r => handling'[x] = handling[x]
  BY <1>1 DEF MsgShape
<1> SUFFICES ASSUME Calm' PROVE Apart' /\ \A e \in (Emojis \ disturbed)' : Tracked(e)'
  BY <1>1 DEF MsgIInv, Calm
<1>3. Calm /\ Apart /\ Effect(r, q) /\ \A e \in Emojis \ disturbed : Tracked(e)
  BY DEF MsgIInv, Calm
<1>4. Apart'
  <2> SUFFICES ASSUME NEW x \in RRequests, NEW y \in RRequests, x # y, Flying(x)', Flying(y)'
               PROVE  /\ handling'[x].e # "all" /\ handling'[y].e # "all"
                      /\ handling'[x].e = handling'[y].e => handling'[x].e \in disturbed'
    BY DEF Apart
  <2>1. \A z \in RRequests : Flying(z)' => Flying(z) /\ handling'[z].e = handling[z].e
    BY <1>2, UnusedMeets DEF Flying, Continues, Kept
  <2>2. Flying(x) /\ Flying(y) /\ handling'[x].e = handling[x].e /\ handling'[y].e = handling[y].e
    BY <2>1
  <2>3. /\ handling[x].e # "all" /\ handling[y].e # "all"
        /\ handling[x].e = handling[y].e => handling[x].e \in disturbed
    BY <1>3, <2>2 DEF Apart
  <2> QED
    BY <2>2, <2>3, SMT
<1>5. ASSUME NEW e \in (Emojis \ disturbed)' PROVE Tracked(e)'
  <2>0. e \in Emojis \ disturbed
    BY <1>5
  <2>1. CASE Meets(handling[r], e)
    <3>1. \A x \in RRequests : x # r => ~Meets(handling'[x], e)
      BY <1>2, <1>3, <2>0, <2>1, Alone
    <3>2. Stage(handling[r], e)
      BY <1>3, <2>0, <2>1 DEF Tracked
    <3>3. IF q = Unused THEN InStep(e)' ELSE Stage(q, e)'
      BY <1>3, <1>5, <2>1, <3>2 DEF Effect
    <3>4. CASE q = Unused
      BY <1>2, <3>1, <3>3, <3>4, UnusedMeets DEF Tracked
    <3>5. CASE q # Unused
      <4>1. Meets(handling'[r], e)
        BY <1>2, <2>1, <3>5, KeptMeets DEF Continues
      <4>2. Stage(handling[r], e)'
        BY <1>2, <3>3, <3>5 DEF Stage
      <4> QED
        BY <3>1, <4>1, <4>2 DEF Tracked, Busy
    <3> QED
      BY <3>4, <3>5
  <2>2. CASE ~Meets(handling[r], e)
    <3>1. ~Meets(handling'[r], e)
      BY <1>2, <2>2, KeptMeets, UnusedMeets DEF Continues
    <3>2. Same(e) /\ Tracked(e)
      BY <1>3, <1>5, <2>0, <2>2 DEF Effect
    <3>3. ASSUME NEW x \in RRequests, Meets(handling'[x], e) PROVE Stage(handling[x], e)'
      <4>1. x # r /\ handling'[x] = handling[x]
        BY <1>2, <3>1, <3>3
      <4>2. PICK h : h = handling[x]
        OBVIOUS
      <4>3. Stage(h, e)
        BY <3>2, <3>3, <4>1, <4>2 DEF Tracked
      <4>4. Stage(h, e)'
        BY <3>2, <4>3, SameStage
      <4> QED
        BY <4>1, <4>2, <4>4 DEF Stage
    <3>4. ASSUME ~Busy(e)' PROVE InStep(e)'
      <4>1. ~Busy(e)
        BY <1>2, <2>2, <3>4 DEF Busy
      <4> QED
        BY <3>2, <4>1, SameStage DEF Tracked
    <3> QED
      BY <3>3, <3>4 DEF Tracked
  <2> QED
    BY <2>1, <2>2
<1> QED
  BY <1>4, <1>5

(* A message stays there while requests go on. *)
LEMMA ThereKept ==
    ASSUME MsgShape, There, NEW r \in RRequests, NEW q \in Handlings, Flying(r), Continues(r, q),
           handling' = [handling EXCEPT ![r] = q],
           message'.exists <=> message.exists, shown'.exists <=> shown.exists,
           handling[r].op = "delete" =>
               q # Unused /\ message.exists /\ q.todo # <<"publish">>
    PROVE  There'
<1>2. handling'[r] = q /\ \A x \in RRequests : x # r => handling'[x] = handling[x]
  BY DEF MsgShape
<1>3. q = Unused \/ (q.op = handling[r].op)
  BY DEF Continues, Kept
<1>4. ASSUME NEW x \in RRequests, handling'[x].op \notin {"none", "create"}
      PROVE  /\ shown'.exists
             /\ message'.exists <=> ~(handling'[x].op = "delete" /\ handling'[x].todo = <<"publish">>)
  <2>1. CASE x = r
    <3>1. q # Unused /\ handling'[x].op = handling[r].op
      BY <1>2, <1>3, <1>4, <2>1, UnusedMeets
    <3>2. /\ shown.exists
          /\ message.exists <=> ~(handling[r].op = "delete" /\ handling[r].todo = <<"publish">>)
      BY <1>4, <3>1 DEF There
    <3> QED
      BY <1>2, <2>1, <3>1, <3>2
  <2>2. CASE x # r
    BY <1>2, <1>4, <2>2 DEF There
  <2> QED
    BY <2>1, <2>2
<1>5. ASSUME \A x \in RRequests : handling'[x].op # "delete"
      PROVE  shown'.exists <=> message'.exists
  <2>1. \A x \in RRequests : handling[x].op # "delete"
    BY <1>2, <1>3, <1>5
  <2> QED
    BY <2>1 DEF There
<1> QED
  BY <1>4, <1>5 DEF There

-----------------------------------------------------------------------------
(* A request that starts.  If it meets another, that is disturbed. *)
Met(r, q) == {x.e : x \in {y \in {handling[z] : z \in RRequests \ {r}} : Meets(y, q.e)}}

LEMMA StartMeets ==
    ASSUME MsgShape, NEW r \in RRequests, NEW q \in Handlings, q.op # "none", Start(r, q), Calm',
           NEW x \in RRequests, x # r, Flying(x)
    PROVE  /\ handling[x].e # "all" /\ q.e # "all"
           /\ handling[x].e = q.e => q.e \in disturbed'
<1>1. disturbed' = disturbed \cup
          (IF Met(r, q) = {} THEN {} ELSE IF "all" \in Met(r, q) THEN {"all"} ELSE {q.e})
  BY DEF Start, Met
<1>2. Meets(handling[x], q.e) => handling[x].e \in Met(r, q)
  BY DEF Met
<1>3. handling[x].e = "all" \/ q.e = "all" \/ handling[x].e = q.e => Meets(handling[x], q.e)
  BY DEF Meets, Flying
<1> QED
  BY <1>1, <1>2, <1>3 DEF Calm

LEMMA Starts ==
    ASSUME MsgIInv, NEW r \in RRequests, NEW q \in Handlings, q.op # "none", Start(r, q),
           message' = message, shown' = shown,
           message.exists \/ q.op = "create",
           q.op = "delete" => q.todo # <<"publish">>,
           \A e \in Emojis : Meets(q, e) /\ InStep(e) => Stage(q, e)
    PROVE  MsgIInv'
<1>0. handling[r] = Unused /\ Calm /\ handling' = [handling EXCEPT ![r] = q]
  BY DEF Start, Calm
<1>1. MsgShape /\ Apart /\ There /\ \A e \in Emojis \ disturbed : Tracked(e)
  BY <1>0 DEF MsgIInv
<1>2. handling'[r] = q /\ \A x \in RRequests : x # r => handling'[x] = handling[x]
  BY <1>0, <1>1 DEF MsgShape
<1>3. MsgShape'
  <2>1. q.e \in Emojis \cup {"all"}
    BY Fields, Kinds
  <2>2. disturbed' \subseteq disturbed \cup {"all", q.e}
    BY DEF Start
  <2>3. handling' \in [RRequests -> Handlings]
    BY <1>0, <1>1 DEF MsgShape
  <2> QED
    BY <1>1, <2>1, <2>2, <2>3 DEF MsgShape
<1> SUFFICES ASSUME Calm' PROVE Apart' /\ There' /\ \A e \in (Emojis \ disturbed)' : Tracked(e)'
  BY <1>3 DEF MsgIInv
<1>4. disturbed \subseteq disturbed'
  BY DEF Start
<1>5. \A x \in RRequests : x # r /\ Flying(x) =>
          /\ handling[x].e # "all" /\ q.e # "all"
          /\ handling[x].e = q.e => q.e \in disturbed'
  BY <1>1, StartMeets
<1>6. Apart'
  <2> SUFFICES ASSUME NEW x \in RRequests, NEW y \in RRequests, x # y, Flying(x)', Flying(y)'
               PROVE  /\ handling'[x].e # "all" /\ handling'[y].e # "all"
                      /\ handling'[x].e = handling'[y].e => handling'[x].e \in disturbed'
    BY DEF Apart
  <2>1. \A z \in RRequests : z # r => (Flying(z)' <=> Flying(z)) /\ handling'[z].e = handling[z].e
    BY <1>2 DEF Flying
  <2>2. CASE x = r
    BY <1>2, <1>5, <2>1, <2>2
  <2>3. CASE y = r
    BY <1>2, <1>5, <2>1, <2>3
  <2>4. CASE x # r /\ y # r
    <3>1. /\ handling[x].e # "all" /\ handling[y].e # "all"
          /\ handling[x].e = handling[y].e => handling[x].e \in disturbed
      BY <1>1, <2>1, <2>4 DEF Apart
    <3> QED
      BY <1>4, <2>1, <2>4, <3>1
  <2> QED
    BY <2>2, <2>3, <2>4
<1>7. There'
  <2>1. ASSUME NEW x \in RRequests PROVE handling[x].op # "delete"
    <3>1. handling[x] \in Handlings
      BY <1>1 DEF MsgShape
    <3>2. handling[x].op = "delete" => handling[x].e = "all"
      BY <3>1, Fields
    <3> QED
      BY <1>0, <1>5, <3>2, UnusedMeets DEF Flying
  <2>2. shown.exists <=> message.exists
    BY <1>1, <2>1 DEF There
  <2>3. ASSUME NEW x \in RRequests, handling'[x].op \notin {"none", "create"}
        PROVE  /\ shown'.exists
               /\ message'.exists <=> ~(handling'[x].op = "delete" /\ handling'[x].todo = <<"publish">>)
    <3>1. CASE x = r
      BY <1>2, <2>2, <2>3, <3>1
    <3>2. CASE x # r
      BY <1>1, <1>2, <2>3, <3>2 DEF There
    <3> QED
      BY <3>1, <3>2
  <2> QED
    BY <2>2, <2>3 DEF There
<1>8. ASSUME NEW e \in (Emojis \ disturbed)' PROVE Tracked(e)'
  <2>0. e \in Emojis \ disturbed /\ Tracked(e) /\ e # "all" /\ e \notin disturbed'
    BY <1>1, <1>4, <1>8, ChannelMessagesAssumption
  <2>s. Same(e)
    BY DEF Same, Stored, Seen
  <2>1. CASE Meets(q, e)
    <3>1. \A x \in RRequests : x # r => ~Meets(handling[x], e)
      BY <1>5, <2>0, <2>1 DEF Meets, Flying
    <3>2. ~Busy(e)
      BY <1>0, <3>1, UnusedMeets DEF Busy
    <3>3. Stage(q, e)
      BY <2>0, <2>1, <3>2 DEF Tracked
    <3>4. Stage(q, e)'
      BY <2>s, <3>3, SameStage
    <3>5. Stage(handling[r], e)'
      BY <1>2, <3>4 DEF Stage
    <3> QED
      BY <1>2, <2>1, <3>1, <3>5 DEF Tracked, Busy
  <2>2. CASE ~Meets(q, e)
    <3>3. ASSUME NEW x \in RRequests, Meets(handling'[x], e) PROVE Stage(handling[x], e)'
      <4>1. x # r /\ handling'[x] = handling[x]
        BY <1>2, <2>2, <3>3
      <4>2. PICK h : h = handling[x]
        OBVIOUS
      <4>3. Stage(h, e)
        BY <2>0, <3>3, <4>1, <4>2 DEF Tracked
      <4>4. Stage(h, e)'
        BY <2>s, <4>3, SameStage
      <4> QED
        BY <4>1, <4>2, <4>4 DEF Stage
    <3>4. ASSUME ~Busy(e)' PROVE InStep(e)'
      <4>1. ~Busy(e)
        BY <1>0, <1>2, <3>4, UnusedMeets DEF Busy
      <4> QED
        BY <2>0, <2>s, <4>1, SameStage DEF Tracked
    <3> QED
      BY <3>3, <3>4 DEF Tracked
  <2> QED
    BY <2>1, <2>2
<1> QED
  BY <1>6, <1>7, <1>8

-----------------------------------------------------------------------------
(* The steps of a request. *)
LEMMA StepFacts ==
    ASSUME MsgShape, NEW r \in RRequests, NEW step, At(r, step), NEW h, h = handling[r]
    PROVE  /\ h \in Handlings /\ h.todo # <<>> /\ Head(h.todo) = step /\ Flying(r)
           /\ Done(r) => \A q : q = Rest(h) => handling' = [handling EXCEPT ![r] = q]
<1>1. h \in Handlings /\ h.todo # <<>> /\ Head(h.todo) = step
  BY DEF MsgShape, At
<1>2. Unused.todo = <<>>
  BY SMT DEF Unused
<1>3. Flying(r)
  BY <1>1, <1>2, Kinds DEF Flying
<1>4. ASSUME Done(r), NEW q, q = Rest(h) PROVE handling' = [handling EXCEPT ![r] = q]
  <2>1. handling' = [handling EXCEPT ![r] = Rest(handling[r])]
    BY <1>4 DEF Done
  <2> QED
    BY <1>4, <2>1
<1> QED
  BY <1>1, <1>3, <1>4

LEMMA ApplyDocs ==
    ASSUME NEW m \in Docs, NEW h \in Handlings, h.op \notin {"none", "create"}, NEW n, n = Apply(h, m)
    PROVE  n \in Docs
<1>0. CASE ~m.exists
  BY <1>0 DEF Apply
<1>1. CASE m.exists /\ h.op = "react"
  <2>1. PICK e \in Emojis, u \in RUsers : e = h.e /\ u = h.u
    BY <1>1, Fields
  <2>2. PICK us : us = By(m.reactions, e) \cup {u}
    OBVIOUS
  <2> QED
    BY <1>1, <2>1, <2>2, ApplyReact DEF Differs
<1>2. CASE m.exists /\ h.op = "unreact"
  <2>1. PICK e \in Emojis, u \in RUsers : e = h.e /\ u = h.u
    BY <1>2, Fields
  <2>2. PICK us : us = By(m.reactions, e) \ {u}
    OBVIOUS
  <2> QED
    BY <1>2, <2>1, <2>2, ApplyUnreact DEF Differs
<1>3. CASE m.exists /\ h.op = "clear"
  BY <1>3, ApplyClear DEF Differs
<1>4. CASE m.exists /\ h.op \in {"clearall", "pin", "unpin", "delete"}
  BY <1>4, ApplyAllOps, NoMessageTyped
<1> QED
  BY <1>0, <1>1, <1>2, <1>3, <1>4, Kinds

(* The emojis other than the one that a document differs in. *)
LEMMA ShownDiffers ==
    ASSUME message' = message, NEW e, NEW us, Differs(shown', shown, e, us)
    PROVE  /\ \A d : d # e => Same(d)
           /\ Stored(e)' = Stored(e) /\ Seen(e)' = us /\ (Stocked(e)' <=> Stocked(e))
BY DEF Differs, Edited, Same, Stored, Seen, Stocked

LEMMA StoredDiffers ==
    ASSUME shown' = shown, NEW e, NEW us, Differs(message', message, e, us)
    PROVE  /\ \A d : d # e => Same(d)
           /\ Stored(e)' = us /\ Seen(e)' = Seen(e)
           /\ Stocked(e)' <=> (e \in DOMAIN message'.reactions => us # {})
BY DEF Differs, Edited, Same, Stored, Seen, Stocked

(* The effect of a step of a request on one emoji. *)
LEMMA EffectOne ==
    ASSUME NEW r \in RRequests, NEW q, Flying(r), NEW e \in Emojis, e = handling[r].e,
           \A d : d # e => Same(d),
           Stage(handling[r], e) => IF q = Unused THEN InStep(e)' ELSE Stage(q, e)'
    PROVE  Effect(r, q)
<1>1. ASSUME NEW d \in Emojis \ disturbed', ~Meets(handling[r], d) PROVE Same(d)
  BY <1>1 DEF Meets, Flying
<1>2. ASSUME NEW d \in Emojis \ disturbed', Meets(handling[r], d) PROVE d = e
  BY <1>2, ChannelMessagesAssumption DEF Meets
<1> QED
  BY <1>1, <1>2 DEF Effect

(* The effect of a step of a request on all. *)
LEMMA EffectAll ==
    ASSUME NEW r \in RRequests, NEW q, Flying(r), handling[r].e = "all",
           \A e \in Emojis : Stage(handling[r], e) => IF q = Unused THEN InStep(e)' ELSE Stage(q, e)'
    PROVE  Effect(r, q)
BY DEF Effect, Meets, Flying

LEMMA TodosDiffer ==
    /\ <<"write">> # <<"publish", "write">> /\ <<"write">> # <<"unset">>
    /\ <<"write">> # <<"publish", "unset">> /\ <<"publish", "write">> # <<"unset">>
    /\ <<"publish", "write">> # <<"publish", "unset">> /\ <<"unset">> # <<"publish", "unset">>
    /\ <<"publish">> # <<"write", "publish">> /\ <<"publish">> # <<"mark", "write", "publish">>
BY SMT

(* While nothing was disturbed as a whole, a request finds the message. *)
LEMMA Present ==
    ASSUME There, NEW r \in RRequests, Flying(r), handling[r].op # "create"
    PROVE  /\ shown.exists
           /\ message.exists <=> ~(handling[r].op = "delete" /\ handling[r].todo = <<"publish">>)
BY DEF There, Flying

(* The events of the requests on one emoji. *)
LEMMA PublishOne ==
    ASSUME MsgShape, There, NEW r \in RRequests, NEW h \in Handlings, h = handling[r], Flying(r),
           h.op \in {"react", "unreact", "clear"}, NEW q, Kept(q, h), q # Unused,
           \/ h.todo = <<"publish", "write">> /\ q.todo = <<"write">>
           \/ h.op = "unreact" /\ h.todo = <<"publish", "unset">> /\ q.todo = <<"unset">>,
           message' = message, shown' = Apply(h, shown)
    PROVE  Effect(r, q) /\ (shown'.exists <=> shown.exists)
<1>1. shown.exists /\ shown \in Docs
  BY Present DEF MsgShape
<1>2. PICK e \in Emojis : e = h.e
  BY Fields
<1>3. CASE h.op = "react"
  <2>1. PICK u \in RUsers : u = h.u
    BY <1>3, Fields
  <2>2. PICK us : us = Seen(e) \cup {u}
    OBVIOUS
  <2>3. Differs(shown', shown, e, us)
    BY <1>1, <1>2, <1>3, <2>1, <2>2, ApplyReact DEF Seen
  <2>4. /\ \A d : d # e => Same(d)
        /\ Stored(e)' = Stored(e) /\ Seen(e)' = us /\ (Stocked(e)' <=> Stocked(e))
    BY <2>3, ShownDiffers
  <2>5. ASSUME Stage(h, e) PROVE Stage(q, e)'
    <3>1. h.todo = <<"publish", "write">> /\ q.todo = <<"write">> /\ q.op = "react" /\ q.u = u
      BY <1>3, <2>1 DEF Kept
    <3>2. Stocked(e) /\ Seen(e) = Stored(e)
      BY <1>3, <2>5, <3>1, TodosDiffer DEF Stage
    <3> QED
      BY <2>2, <2>4, <3>1, <3>2 DEF Stage
  <2>6. Effect(r, q)
    BY <1>2, <2>4, <2>5, EffectOne
  <2> QED
    BY <2>3, <2>6 DEF Differs
<1>4. CASE h.op = "unreact"
  <2>1. PICK u \in RUsers : u = h.u
    BY <1>4, Fields
  <2>2. PICK us : us = Seen(e) \ {u}
    OBVIOUS
  <2>3. Differs(shown', shown, e, us)
    BY <1>1, <1>2, <1>4, <2>1, <2>2, ApplyUnreact DEF Seen
  <2>4. /\ \A d : d # e => Same(d)
        /\ Stored(e)' = Stored(e) /\ Seen(e)' = us /\ (Stocked(e)' <=> Stocked(e))
    BY <2>3, ShownDiffers
  <2>5. ASSUME Stage(h, e) PROVE Stage(q, e)'
    <3>1. q.op = "unreact" /\ q.u = u
      BY <1>4, <2>1 DEF Kept
    <3>2. /\ Stocked(e) /\ u \in Stored(e) /\ Seen(e) = Stored(e)
          /\ h.todo = <<"publish", "unset">> <=> Stored(e) = {u}
      BY <1>4, <2>1, <2>5, TodosDiffer DEF Stage
    <3>3. q.todo \in {<<"write">>, <<"unset">>}
          /\ (q.todo \in {<<"unset">>, <<"publish", "unset">>} <=> Stored(e) = {u})
      BY <3>2, TodosDiffer
    <3> QED
      BY <2>2, <2>4, <3>1, <3>2, <3>3 DEF Stage
  <2>6. Effect(r, q)
    BY <1>2, <2>4, <2>5, EffectOne
  <2> QED
    BY <2>3, <2>6 DEF Differs
<1>5. CASE h.op = "clear"
  <2>1. PICK us : us = {}
    OBVIOUS
  <2>3. Differs(shown', shown, e, us)
    BY <1>1, <1>2, <1>5, <2>1, ApplyClear
  <2>4. /\ \A d : d # e => Same(d)
        /\ Stored(e)' = Stored(e) /\ Seen(e)' = us /\ (Stocked(e)' <=> Stocked(e))
    BY <2>3, ShownDiffers
  <2>5. ASSUME Stage(h, e) PROVE Stage(q, e)'
    <3>1. q.todo = <<"write">> /\ q.op = "clear"
      BY <1>5 DEF Kept
    <3>2. Stocked(e)
      BY <1>5, <2>5 DEF Stage
    <3> QED
      BY <2>1, <2>4, <3>1, <3>2 DEF Stage
  <2>6. Effect(r, q)
    BY <1>2, <2>4, <2>5, EffectOne
  <2> QED
    BY <2>3, <2>6 DEF Differs
<1> QED
  BY <1>3, <1>4, <1>5

(* The writes of the requests on one emoji, which end them. *)
LEMMA WriteOne ==
    ASSUME MsgShape, There, NEW r \in RRequests, NEW h \in Handlings, h = handling[r], Flying(r),
           h.op \in {"react", "unreact", "clear"}, h.todo = <<"write">>,
           shown' = shown, message' = Apply(h, message)
    PROVE  Effect(r, Unused) /\ (message'.exists <=> message.exists)
<1>1. message.exists /\ message \in Docs
  BY Present DEF MsgShape
<1>2. PICK e \in Emojis : e = h.e
  BY Fields
<1>q. PICK q : q = Unused
  OBVIOUS
<1>3. CASE h.op = "react"
  <2>1. PICK u \in RUsers : u = h.u
    BY <1>3, Fields
  <2>2. PICK us : us = Stored(e) \cup {u}
    OBVIOUS
  <2>3. Differs(message', message, e, us)
    BY <1>1, <1>2, <1>3, <2>1, <2>2, ApplyReact DEF Stored
  <2>4. /\ \A d : d # e => Same(d)
        /\ Stored(e)' = us /\ Seen(e)' = Seen(e)
        /\ Stocked(e)' <=> (e \in DOMAIN message'.reactions => us # {})
    BY <2>3, StoredDiffers
  <2>5. ASSUME Stage(h, e) PROVE InStep(e)'
    <3>1. Seen(e) = Stored(e) \cup {u}
      BY <1>3, <2>1, <2>5 DEF Stage
    <3> QED
      BY <2>2, <2>4, <3>1 DEF InStep
  <2>6. Effect(r, q)
    BY <1>q, <1>2, <2>4, <2>5, EffectOne
  <2> QED
    BY <1>q, <2>3, <2>6 DEF Differs
<1>4. CASE h.op = "unreact"
  <2>1. PICK u \in RUsers : u = h.u
    BY <1>4, Fields
  <2>2. PICK us : us = Stored(e) \ {u}
    OBVIOUS
  <2>3. Differs(message', message, e, us)
    BY <1>1, <1>2, <1>4, <2>1, <2>2, ApplyUnreact DEF Stored
  <2>4. /\ \A d : d # e => Same(d)
        /\ Stored(e)' = us /\ Seen(e)' = Seen(e)
        /\ Stocked(e)' <=> (e \in DOMAIN message'.reactions => us # {})
    BY <2>3, StoredDiffers
  <2>5. ASSUME Stage(h, e) PROVE InStep(e)'
    <3>1. Seen(e) = Stored(e) \ {u} /\ u \in Stored(e) /\ Stored(e) # {u}
      BY <1>4, <2>1, <2>5, TodosDiffer DEF Stage
    <3>2. us # {}
      BY <2>2, <3>1
    <3> QED
      BY <2>2, <2>4, <3>1, <3>2 DEF InStep
  <2>6. Effect(r, q)
    BY <1>q, <1>2, <2>4, <2>5, EffectOne
  <2> QED
    BY <1>q, <2>3, <2>6 DEF Differs
<1>5. CASE h.op = "clear"
  <2>1. PICK us : us = {}
    OBVIOUS
  <2>3. Differs(message', message, e, us) /\ e \notin DOMAIN message'.reactions
    BY <1>1, <1>2, <1>5, <2>1, ApplyClear
  <2>4. /\ \A d : d # e => Same(d)
        /\ Stored(e)' = us /\ Seen(e)' = Seen(e)
        /\ Stocked(e)' <=> (e \in DOMAIN message'.reactions => us # {})
    BY <2>3, StoredDiffers
  <2>5. ASSUME Stage(h, e) PROVE InStep(e)'
    <3>1. Seen(e) = {}
      BY <1>5, <2>5 DEF Stage
    <3> QED
      BY <2>1, <2>3, <2>4, <3>1 DEF InStep
  <2>6. Effect(r, q)
    BY <1>q, <1>2, <2>4, <2>5, EffectOne
  <2> QED
    BY <1>q, <2>3, <2>6 DEF Differs
<1> QED
  BY <1>3, <1>4, <1>5

(* The last user of an emoji takes it away. *)
LEMMA UnsetOne ==
    ASSUME MsgShape, NEW r \in RRequests, NEW h \in Handlings, h = handling[r], Flying(r),
           h.op = "unreact", h.todo = <<"unset">>,
           shown' = shown, message' = [message EXCEPT !.reactions = Without(@, h.e)]
    PROVE  message' \in Docs /\ Effect(r, Unused) /\ (message'.exists <=> message.exists)
<1>2. PICK e \in Emojis : e = h.e
  BY Fields
<1>q. PICK q : q = Unused
  OBVIOUS
<1>1. PICK g : g = Without(message.reactions, e)
  OBVIOUS
<1>3. message \in Docs /\ message' = WithReactions(message, g)
  BY <1>1, <1>2 DEF WithReactions, MsgShape
<1>u. PICK us : us = {}
  OBVIOUS
<1>4. Differs(message', message, e, us) /\ e \notin DOMAIN message'.reactions
  BY <1>1, <1>3, <1>u, UnsetFacts
<1>5. /\ \A d : d # e => Same(d)
      /\ Stored(e)' = us /\ Seen(e)' = Seen(e)
      /\ Stocked(e)' <=> (e \in DOMAIN message'.reactions => us # {})
  BY <1>4, StoredDiffers
<1>6. ASSUME Stage(h, e) PROVE InStep(e)'
  <2>1. Seen(e) = {}
    BY <1>6, TodosDiffer DEF Stage
  <2> QED
    BY <1>u, <1>4, <1>5, <2>1 DEF InStep
<1>7. Effect(r, q)
  BY <1>q, <1>2, <1>5, <1>6, EffectOne
<1> QED
  BY <1>q, <1>4, <1>7 DEF Differs

(* Steps that leave the reactions as they are. *)
LEMMA Leaves ==
    ASSUME NEW r \in RRequests, Flying(r), NEW h, h = handling[r], NEW q,
           \A e : Same(e),
           \/ h.op \in {"create", "pin", "unpin"} /\ (q = Unused \/ q.op = h.op)
           \/ /\ h.op = "delete" /\ h.todo # <<"publish">>
              /\ q # Unused /\ q.op = "delete" /\ q.todo # <<"publish">>
    PROVE  Effect(r, q)
<1>1. ASSUME NEW e \in Emojis, Stage(h, e) PROVE IF q = Unused THEN InStep(e)' ELSE Stage(q, e)'
  <2>1. InStep(e)
    BY <1>1 DEF Stage
  <2>2. InStep(e)'
    BY <2>1, SameStage
  <2> QED
    BY <2>2 DEF Stage
<1> QED
  BY <1>1 DEF Effect

(* The writes of the requests on all emojis. *)
LEMMA WriteAll ==
    ASSUME MsgShape, Apart, There, NEW r \in RRequests, NEW h \in Handlings, h = handling[r], Flying(r),
           h.op \in {"clearall", "delete"}, h.todo = <<"write", "publish">>,
           NEW q \in Handlings, Kept(q, h), q.todo = <<"publish">>, q # Unused,
           handling' = [handling EXCEPT ![r] = q],
           shown' = shown, message' = Apply(h, message)
    PROVE  There' /\ Effect(r, q)
<1>1. message.exists /\ message \in Docs /\ shown.exists
  BY Present, TodosDiffer DEF MsgShape
<1>2. h.e = "all" /\ q.op = h.op
  BY Fields DEF Kept
<1>3. DOMAIN message'.reactions = {} /\ (h.op = "clearall" => message'.exists) /\ (h.op = "delete" => ~message'.exists)
  BY <1>1, ApplyAllOps, NoMessageTyped, EmptyReacts
<1>4. ASSUME NEW e \in Emojis PROVE Stage(q, e)'
  BY <1>2, <1>3 DEF Stage
<1>5. Effect(r, q)
  BY <1>2, <1>4, EffectAll
<1>6. handling'[r] = q /\ \A x \in RRequests : x # r => handling'[x] = handling[x]
  BY DEF MsgShape
<1>7. \A x \in RRequests : x # r => handling[x].op = "none"
  BY <1>2 DEF Apart, Flying
<1>8. There'
  BY <1>1, <1>2, <1>3, <1>6, <1>7 DEF There
<1> QED
  BY <1>5, <1>8

(* The events of the requests on all emojis, which end them. *)
LEMMA PublishAll ==
    ASSUME MsgShape, Apart, There, NEW r \in RRequests, NEW h \in Handlings, h = handling[r], Flying(r),
           h.op \in {"clearall", "delete"}, h.todo = <<"publish">>,
           handling' = [handling EXCEPT ![r] = Unused],
           message' = message, shown' = Apply(h, shown)
    PROVE  There' /\ Effect(r, Unused)
<1>1. shown.exists /\ shown \in Docs /\ (message.exists <=> h.op # "delete")
  BY Present DEF MsgShape
<1>2. h.e = "all"
  BY Fields
<1>3. /\ \A e : By(shown'.reactions, e) = {}
      /\ (h.op = "clearall" => shown'.exists) /\ (h.op = "delete" => ~shown'.exists)
  BY <1>1, ApplyAllOps, NoMessageTyped, EmptyReacts
<1>q. PICK q : q = Unused
  OBVIOUS
<1>4. ASSUME NEW e \in Emojis, Stage(h, e) PROVE InStep(e)'
  <2>1. e \notin DOMAIN message.reactions
    BY <1>4 DEF Stage
  <2>2. Stored(e)' = {} /\ Seen(e)' = {} /\ Stocked(e)'
    BY <1>3, <2>1 DEF Stored, Seen, Stocked, By
  <2> QED
    BY <2>2 DEF InStep
<1>5. Effect(r, q)
  BY <1>q, <1>2, <1>4, EffectAll
<1>6. handling'[r] = Unused /\ \A x \in RRequests : x # r => handling'[x] = handling[x]
  BY DEF MsgShape
<1>7. \A x \in RRequests : x # r => handling[x].op = "none"
  BY <1>2 DEF Apart, Flying
<1>8. There'
  BY <1>1, <1>3, <1>6, <1>7, UnusedMeets DEF There
<1> QED
  BY <1>q, <1>5, <1>8

-----------------------------------------------------------------------------
LEMMA PublishKeeps ==
    ASSUME MsgIInv, NEW r \in RRequests, Publish(r)
    PROVE  MsgIInv'
<1>p. PICK step : step = "publish"
  OBVIOUS
<1>h. PICK h : h = handling[r]
  OBVIOUS
<1>q. PICK q : q = Rest(h)
  OBVIOUS
<1>0. MsgShape /\ At(r, step) /\ Done(r)
  BY <1>p DEF MsgIInv, Publish
<1>1. /\ h \in Handlings /\ h.todo # <<>> /\ Head(h.todo) = "publish" /\ Flying(r)
      /\ handling' = [handling EXCEPT ![r] = q]
  BY <1>p, <1>h, <1>q, <1>0, StepFacts
<1>2. /\ message' = message /\ shown' = Apply(h, shown) /\ disturbed' = disturbed
      /\ message \in Docs /\ shown \in Docs /\ disturbed \subseteq Emojis \cup {"all"}
  BY <1>h, <1>0 DEF Publish, MsgShape
<1>3. Calm' => Apart /\ There
  BY <1>2 DEF MsgIInv, Calm
<1>4. CASE h.op \in {"react", "unreact", "clear"}
  <2>1. /\ q \in Handlings /\ Kept(q, h)
        /\ \/ h.todo = <<"publish", "write">> /\ q.todo = <<"write">>
           \/ h.op = "unreact" /\ h.todo = <<"publish", "unset">> /\ q.todo = <<"unset">>
    BY <1>1, <1>q, <1>4, RestPublish DEF Goes
  <2>2. q # Unused /\ Continues(r, q)
    BY <1>h, <1>4, <2>1, UnusedMeets DEF Continues, Kept
  <2>3. shown' \in Docs
    BY <1>1, <1>2, <1>4, ApplyDocs
  <2>4. ASSUME Calm' PROVE There' /\ Effect(r, q)
    <3>1. Effect(r, q) /\ (shown'.exists <=> shown.exists)
      BY <1>h, <1>0, <1>1, <1>2, <1>3, <1>4, <2>1, <2>2, <2>4, PublishOne
    <3>2. There'
      BY <1>h, <1>0, <1>1, <1>2, <1>3, <1>4, <2>1, <2>2, <2>4, <3>1, ThereKept
    <3> QED
      BY <3>1, <3>2
  <2> QED
    BY <1>1, <1>2, <2>1, <2>2, <2>3, <2>4, Moves
<1>5. CASE h.op \in {"clearall", "delete"}
  <2>1. h.todo = <<"publish">>
    BY <1>1, <1>5, RestPublish
  <2>b. Len(h.todo) = 1
    BY <2>1, Tuples
  <2>2. q = Unused /\ q \in Handlings /\ Continues(r, q)
    BY <1>q, <2>b DEF Rest, Continues, Handlings
  <2>3. shown' \in Docs
    BY <1>1, <1>2, <1>5, ApplyDocs
  <2>4. ASSUME Calm' PROVE There' /\ Effect(r, q)
    BY <1>h, <1>0, <1>1, <1>2, <1>3, <1>5, <2>1, <2>2, <2>4, PublishAll
  <2> QED
    BY <1>1, <1>2, <2>2, <2>3, <2>4, Moves
<1>6. CASE h.op \in {"pin", "unpin"}
  <2>1. q \in Handlings /\ Kept(q, h)
    BY <1>1, <1>q, <1>6, RestPublish DEF Goes
  <2>2. q # Unused /\ Continues(r, q)
    BY <1>h, <1>6, <2>1, UnusedMeets DEF Continues, Kept
  <2>3. shown' \in Docs
    BY <1>1, <1>2, <1>6, ApplyDocs
  <2>4. ASSUME Calm' PROVE There' /\ Effect(r, q)
    <3>1. shown'.reactions = shown.reactions /\ shown'.exists /\ shown.exists
      BY <1>h, <1>1, <1>2, <1>3, <1>6, <2>4, Present, ApplyAllOps
    <3>2. \A e : Same(e)
      BY <1>2, <3>1 DEF Same, Stored, Seen
    <3>3. Effect(r, q)
      BY <1>h, <1>1, <1>6, <2>1, <3>2, Leaves DEF Kept
    <3>4. There'
      BY <1>h, <1>0, <1>1, <1>2, <1>3, <1>6, <2>1, <2>2, <2>4, <3>1, ThereKept
    <3> QED
      BY <3>3, <3>4
  <2> QED
    BY <1>1, <1>2, <2>1, <2>2, <2>3, <2>4, Moves
<1> QED
  BY <1>1, <1>4, <1>5, <1>6, RestPublish

LEMMA WriteKeeps ==
    ASSUME MsgIInv, NEW r \in RRequests, Write(r)
    PROVE  MsgIInv'
<1>p. PICK step : step = "write"
  OBVIOUS
<1>h. PICK h : h = handling[r]
  OBVIOUS
<1>q. PICK q : q = Rest(h)
  OBVIOUS
<1>0. MsgShape /\ At(r, step) /\ Done(r)
  BY <1>p DEF MsgIInv, Write
<1>1. /\ h \in Handlings /\ h.todo # <<>> /\ Head(h.todo) = "write" /\ Flying(r)
      /\ handling' = [handling EXCEPT ![r] = q]
  BY <1>p, <1>h, <1>q, <1>0, StepFacts
<1>2. /\ shown' = shown /\ message' = Apply(h, message) /\ disturbed' = disturbed
      /\ message \in Docs /\ shown \in Docs /\ disturbed \subseteq Emojis \cup {"all"}
  BY <1>h, <1>0 DEF Write, MsgShape
<1>3. Calm' => Apart /\ There
  BY <1>2 DEF MsgIInv, Calm
<1>4. CASE h.op \in {"react", "unreact", "clear"}
  <2>1. h.todo = <<"write">>
    BY <1>1, <1>4, RestWrite
  <2>b. Len(h.todo) = 1
    BY <2>1, Tuples
  <2>2. q = Unused /\ q \in Handlings /\ Continues(r, q)
    BY <1>q, <2>b DEF Rest, Continues, Handlings
  <2>3. message' \in Docs
    BY <1>1, <1>2, <1>4, ApplyDocs
  <2>4. ASSUME Calm' PROVE There' /\ Effect(r, q)
    <3>1. Effect(r, q) /\ (message'.exists <=> message.exists)
      BY <1>h, <1>0, <1>1, <1>2, <1>3, <1>4, <2>1, <2>2, <2>4, WriteOne
    <3>2. There'
      BY <1>h, <1>0, <1>1, <1>2, <1>3, <1>4, <2>1, <2>2, <2>4, <3>1, ThereKept
    <3> QED
      BY <3>1, <3>2
  <2> QED
    BY <1>1, <1>2, <2>2, <2>3, <2>4, Moves
<1>5. CASE h.op \in {"clearall", "delete"}
  <2>1. /\ q \in Handlings /\ Kept(q, h) /\ q.todo = <<"publish">>
        /\ h.todo = <<"write", "publish">>
    BY <1>1, <1>q, <1>5, RestWrite DEF Goes
  <2>2. q # Unused /\ Continues(r, q)
    BY <1>h, <1>5, <2>1, UnusedMeets DEF Continues, Kept
  <2>3. message' \in Docs
    BY <1>1, <1>2, <1>5, ApplyDocs
  <2>4. ASSUME Calm' PROVE There' /\ Effect(r, q)
    BY <1>h, <1>0, <1>1, <1>2, <1>3, <1>5, <2>1, <2>2, <2>4, WriteAll
  <2> QED
    BY <1>1, <1>2, <2>1, <2>2, <2>3, <2>4, Moves
<1>6. CASE h.op \in {"pin", "unpin"}
  <2>1. q \in Handlings /\ Kept(q, h)
    BY <1>1, <1>q, <1>6, RestWrite DEF Goes
  <2>2. q # Unused /\ Continues(r, q)
    BY <1>h, <1>6, <2>1, UnusedMeets DEF Continues, Kept
  <2>3. message' \in Docs
    BY <1>1, <1>2, <1>6, ApplyDocs
  <2>4. ASSUME Calm' PROVE There' /\ Effect(r, q)
    <3>1. message'.reactions = message.reactions /\ message'.exists /\ message.exists
      BY <1>h, <1>1, <1>2, <1>3, <1>6, <2>4, Present, ApplyAllOps
    <3>2. \A e : Same(e)
      BY <1>2, <3>1 DEF Same, Stored, Seen
    <3>3. Effect(r, q)
      BY <1>h, <1>1, <1>6, <2>1, <3>2, Leaves DEF Kept
    <3>4. There'
      BY <1>h, <1>0, <1>1, <1>2, <1>3, <1>6, <2>1, <2>2, <2>4, <3>1, ThereKept
    <3> QED
      BY <3>3, <3>4
  <2> QED
    BY <1>1, <1>2, <2>1, <2>2, <2>3, <2>4, Moves
<1> QED
  BY <1>1, <1>4, <1>5, <1>6, RestWrite

LEMMA UnsetKeeps ==
    ASSUME MsgIInv, NEW r \in RRequests, Unset(r)
    PROVE  MsgIInv'
<1>p. PICK step : step = "unset"
  OBVIOUS
<1>h. PICK h : h = handling[r]
  OBVIOUS
<1>q. PICK q : q = Rest(h)
  OBVIOUS
<1>0. MsgShape /\ At(r, step) /\ Done(r)
  BY <1>p DEF MsgIInv, Unset
<1>1. /\ h \in Handlings /\ h.todo # <<>> /\ Head(h.todo) = "unset" /\ Flying(r)
      /\ handling' = [handling EXCEPT ![r] = q]
  BY <1>p, <1>h, <1>q, <1>0, StepFacts
<1>2. /\ shown' = shown /\ disturbed' = disturbed
      /\ message' = [message EXCEPT !.reactions = Without(@, h.e)]
      /\ message \in Docs /\ shown \in Docs /\ disturbed \subseteq Emojis \cup {"all"}
  BY <1>h, <1>0 DEF Unset, MsgShape
<1>3. Calm' => There
  BY <1>2 DEF MsgIInv, Calm
<1>4. h.op = "unreact" /\ h.todo = <<"unset">>
  BY <1>1, RestOther
<1>b. Len(h.todo) = 1
  BY <1>4, Tuples
<1>5. q = Unused /\ q \in Handlings /\ Continues(r, q)
  BY <1>q, <1>b DEF Rest, Continues, Handlings
<1>6. message' \in Docs /\ Effect(r, q) /\ (message'.exists <=> message.exists)
  BY <1>h, <1>0, <1>1, <1>2, <1>4, <1>5, UnsetOne
<1>7. Calm' => There'
  BY <1>h, <1>0, <1>1, <1>2, <1>3, <1>4, <1>5, <1>6, ThereKept
<1> QED
  BY <1>1, <1>2, <1>5, <1>6, <1>7, Moves

(* Steps that leave the document and the client as they are. *)
LEMMA OtherKeeps ==
    ASSUME MsgIInv, NEW r \in RRequests, MarkAttachments(r) \/ Notify(r) \/ InsertEmoji(r)
    PROVE  MsgIInv'
<1>h. PICK h : h = handling[r]
  OBVIOUS
<1>0. MsgShape
  BY DEF MsgIInv
<1>2. /\ shown' = shown /\ disturbed' = disturbed /\ message' = message
      /\ message \in Docs /\ shown \in Docs /\ disturbed \subseteq Emojis \cup {"all"}
  BY <1>0 DEF MarkAttachments, Notify, InsertEmoji, MsgShape
<1>3. Calm' => There
  BY <1>2 DEF MsgIInv, Calm
<1>4. \A e : Same(e)
  BY <1>2 DEF Same, Stored, Seen
<1>5. PICK q \in Handlings :
          /\ h \in Handlings /\ Flying(r) /\ Continues(r, q) /\ handling' = [handling EXCEPT ![r] = q]
          /\ \/ h.op \in {"create", "pin", "unpin"} /\ (q = Unused \/ q.op = h.op)
             \/ /\ h.op = "delete" /\ h.todo # <<"publish">>
                /\ q # Unused /\ q.op = "delete" /\ q.todo # <<"publish">>
  <2>1. CASE MarkAttachments(r)
    <3>p. PICK step : step = "mark"
      OBVIOUS
    <3>q. PICK q : q = Rest(h)
      OBVIOUS
    <3>0. At(r, step) /\ Done(r)
      BY <2>1, <3>p DEF MarkAttachments
    <3>1. /\ h \in Handlings /\ h.todo # <<>> /\ Head(h.todo) = "mark" /\ Flying(r)
          /\ handling' = [handling EXCEPT ![r] = q]
      BY <3>p, <3>q, <3>0, <1>h, <1>0, StepFacts
    <3>2. h.op = "delete" /\ h.todo = <<"mark", "write", "publish">> /\ Goes(h, <<"write", "publish">>)
      BY <3>1, RestOther
    <3>3. q \in Handlings /\ Kept(q, h) /\ q.todo = <<"write", "publish">>
      BY <3>q, <3>2 DEF Goes
    <3>4. q # Unused /\ Continues(r, q) /\ q.op = "delete"
      BY <1>h, <3>2, <3>3, UnusedMeets DEF Continues, Kept
    <3> QED
      BY <3>1, <3>2, <3>3, <3>4, TodosDiffer
  <2>2. CASE Notify(r)
    <3>p. PICK step : step = "notify"
      OBVIOUS
    <3>q. PICK q : q = Rest(h)
      OBVIOUS
    <3>0. At(r, step) /\ Done(r)
      BY <2>2, <3>p DEF Notify
    <3>1. /\ h \in Handlings /\ h.todo # <<>> /\ Head(h.todo) = "notify" /\ Flying(r)
          /\ handling' = [handling EXCEPT ![r] = q]
      BY <3>p, <3>q, <3>0, <1>h, <1>0, StepFacts
    <3>2. h.op \in {"pin", "unpin"} /\ Len(h.todo) = 1
      BY <3>1, RestOther, Tuples
    <3>3. q = Unused /\ q \in Handlings /\ Continues(r, q)
      BY <3>q, <3>2 DEF Rest, Continues, Handlings
    <3> QED
      BY <3>1, <3>2, <3>3
  <2>3. CASE InsertEmoji(r)
    <3>1. h \in Handlings /\ h.todo = <<"insert">> /\ h.todo # <<>>
      BY <1>h, <1>0, <2>3, Tuples DEF InsertEmoji, MsgShape
    <3>2. h.op = "create" /\ Flying(r)
      BY <1>h, <3>1, RestOther DEF Flying
    <3>3. handling' = [handling EXCEPT ![r] = Unused] /\ Unused \in Handlings /\ Continues(r, Unused)
      BY <2>3 DEF InsertEmoji, Handlings, Continues
    <3> QED
      BY <3>1, <3>2, <3>3
  <2> QED
    BY <2>1, <2>2, <2>3
<1>6. Effect(r, q)
  BY <1>h, <1>4, <1>5, Leaves
<1>7. ASSUME Calm' PROVE There'
  <2>1. handling[r].op = "delete" => q # Unused /\ message.exists /\ q.todo # <<"publish">>
    BY <1>h, <1>3, <1>5, <1>7, Present
  <2> QED
    BY <1>0, <1>2, <1>3, <1>5, <1>7, <2>1, ThereKept
<1> QED
  BY <1>2, <1>5, <1>6, <1>7, Moves

LEMMA FailKeeps ==
    ASSUME MsgIInv, NEW r \in RRequests, WriteFails(r)
    PROVE  MsgIInv'
<1>p. PICK step \in {"write", "unset"} : At(r, step)
  BY DEF WriteFails
<1>h. PICK h : h = handling[r]
  OBVIOUS
<1>q. PICK q : q = Unused
  OBVIOUS
<1>0. MsgShape
  BY DEF MsgIInv
<1>1. h \in Handlings /\ Flying(r)
  BY <1>p, <1>h, <1>0, StepFacts
<1>2. /\ shown' = shown /\ message' = message /\ disturbed' = disturbed \cup {h.e}
      /\ handling' = [handling EXCEPT ![r] = q]
      /\ message \in Docs /\ shown \in Docs /\ disturbed \subseteq Emojis \cup {"all"}
  BY <1>h, <1>q, <1>0 DEF WriteFails, MsgShape
<1>3. h.e \in Emojis \cup {"all"} /\ (h.op = "delete" => h.e = "all")
  BY <1>1, <1>h, Fields, Kinds DEF Flying
<1>4. q \in Handlings /\ Continues(r, q)
  BY <1>q DEF Continues, Handlings
<1>5. Calm' => There /\ h.e # "all"
  BY <1>2 DEF MsgIInv, Calm
<1>6. ASSUME Calm' PROVE Effect(r, q)
  <2>1. \A e \in Emojis \ disturbed' : ~Meets(h, e)
    BY <1>2, <1>5, <1>6, ChannelMessagesAssumption DEF Meets
  <2>2. \A e : Same(e)
    BY <1>2 DEF Same, Stored, Seen
  <2> QED
    BY <1>h, <2>1, <2>2 DEF Effect
<1>7. Calm' => There'
  BY <1>h, <1>0, <1>1, <1>2, <1>3, <1>4, <1>5, ThereKept
<1>8. disturbed \subseteq disturbed' /\ disturbed' \subseteq Emojis \cup {"all"}
  BY <1>2, <1>3
<1> QED
  BY <1>1, <1>2, <1>4, <1>6, <1>7, <1>8, Moves

-----------------------------------------------------------------------------
(* The requests that start. *)
LEMMA LastIsOnly ==
    ASSUME MsgShape, NEW e, NEW u \in Stored(e)
    PROVE  LastOne(e) <=> Stored(e) = {u}
<1>1. e \in DOMAIN message.reactions /\ Stored(e) = Reactions[e]
  BY DEF Stored, By, Reactions
<1>2. Stored(e) \subseteq RUsers
  BY ReactsTyped DEF MsgShape, Docs, Stored
<1> QED
  BY <1>1, <1>2 DEF LastOne

LEMMA ReactStarts ==
    ASSUME MsgIInv, NEW r \in RRequests, NEW e \in Emojis, NEW u \in RUsers,
           add_reaction(r, u, e) \/ remove_reaction(r, u, e)
    PROVE  MsgIInv'
<1>0. MsgShape
  BY DEF MsgIInv
<1>1. CASE add_reaction(r, u, e)
  <2>1. PICK q : q = [op |-> "react", e |-> e, u |-> u, todo |-> <<"publish", "write">>]
    OBVIOUS
  <2>2. q.op = "react" /\ q.e = e /\ q.u = u /\ q.todo = <<"publish", "write">>
    BY <2>1
  <2>3. q \in Handlings
    BY <2>1 DEF Handlings, UserWork, ReactTodos
  <2>4. Start(r, q) /\ message' = message /\ shown' = shown /\ message.exists
    BY <1>1, <2>1 DEF add_reaction
  <2>5. ASSUME NEW d \in Emojis, Meets(q, d), InStep(d) PROVE Stage(q, d)
    BY <2>2, <2>5, TodosDiffer DEF Stage, InStep
  <2> QED
    BY <2>2, <2>3, <2>4, <2>5, Starts
<1>2. CASE remove_reaction(r, u, e)
  <2>0. PICK last \in {"unset", "write"} : last = IF LastOne(e) THEN "unset" ELSE "write"
    OBVIOUS
  <2>1. PICK q : q = [op |-> "unreact", e |-> e, u |-> u, todo |-> <<"publish", last>>]
    OBVIOUS
  <2>2. q.op = "unreact" /\ q.e = e /\ q.u = u /\ q.todo = <<"publish", last>>
    BY <2>1
  <2>3. q \in Handlings
    <3>1. <<"publish", last>> \in UnreactTodos
      BY <2>0 DEF UnreactTodos
    <3> QED
      BY <2>1, <3>1 DEF Handlings, UserWork
  <2>4. Start(r, q) /\ message' = message /\ shown' = shown /\ message.exists /\ u \in Stored(e)
    BY <1>2, <2>0, <2>1 DEF remove_reaction, Stored, Reactions
  <2>5. LastOne(e) <=> Stored(e) = {u}
    BY <1>0, <2>4, LastIsOnly
  <2>6. /\ q.todo \in {<<"unset">>, <<"publish", "unset">>} <=> Stored(e) = {u}
        /\ q.todo \notin {<<"write">>, <<"unset">>}
    <3>1. q.todo = <<"publish", "unset">> \/ q.todo = <<"publish", "write">>
      BY <2>0, <2>2
    <3>2. q.todo = <<"publish", "unset">> <=> LastOne(e)
      BY <2>0, <2>2, TodosDiffer
    <3> QED
      BY <2>5, <3>1, <3>2, TodosDiffer
  <2>7. ASSUME NEW d \in Emojis, Meets(q, d), InStep(d) PROVE Stage(q, d)
    <3>1. d = e
      BY <2>2, <2>7, ChannelMessagesAssumption DEF Meets
    <3> QED
      BY <2>2, <2>4, <2>6, <2>7, <3>1 DEF Stage, InStep
  <2> QED
    BY <2>2, <2>3, <2>4, <2>7, Starts
<1> QED
  BY <1>1, <1>2

LEMMA ClearStarts ==
    ASSUME MsgIInv, NEW r \in RRequests, NEW e \in Emojis,
           clear_reaction(r, e) \/ create_emoji(r, e)
    PROVE  MsgIInv'
<1>1. CASE clear_reaction(r, e)
  <2>1. PICK q : q = [op |-> "clear", e |-> e, todo |-> <<"publish", "write">>]
    OBVIOUS
  <2>2. q.op = "clear" /\ q.e = e /\ q.todo = <<"publish", "write">>
    BY <2>1
  <2>3. q \in Handlings
    BY <2>1 DEF Handlings, Work, ReactTodos
  <2>4. Start(r, q) /\ message' = message /\ shown' = shown /\ message.exists
    BY <1>1, <2>1 DEF clear_reaction
  <2>5. ASSUME NEW d \in Emojis, Meets(q, d), InStep(d) PROVE Stage(q, d)
    BY <2>2, <2>5, TodosDiffer DEF Stage, InStep
  <2> QED
    BY <2>2, <2>3, <2>4, <2>5, Starts
<1>2. CASE create_emoji(r, e)
  <2>1. PICK q : q = [op |-> "create", e |-> e, todo |-> <<"insert">>]
    OBVIOUS
  <2>2. q.op = "create"
    BY <2>1
  <2>3. q \in Handlings
    BY <2>1 DEF Handlings, Work, CreateTodos
  <2>4. Start(r, q) /\ message' = message /\ shown' = shown
    BY <1>2, <2>1 DEF create_emoji
  <2>5. ASSUME NEW d \in Emojis, Meets(q, d), InStep(d) PROVE Stage(q, d)
    BY <2>2, <2>5 DEF Stage
  <2> QED
    BY <2>2, <2>3, <2>4, <2>5, Starts
<1> QED
  BY <1>1, <1>2

LEMMA UpdateStarts ==
    ASSUME MsgIInv, NEW r \in RRequests, NEW op, NEW todo, Update(r, op, todo),
           \/ op = "clearall" /\ todo = <<"write", "publish">>
           \/ op \in {"pin", "unpin"} /\ todo = <<"write", "publish", "notify">>
           \/ op = "delete" /\ todo \in {<<"mark", "write", "publish">>, <<"write", "publish">>}
    PROVE  MsgIInv'
<1>1. PICK q : q = [op |-> op, e |-> "all", todo |-> todo]
  OBVIOUS
<1>2. q.op = op /\ q.e = "all" /\ q.todo = todo
  BY <1>1
<1>3. q \in Handlings
  BY <1>1 DEF Handlings, Work, ClearAllTodos, PinTodos, DeleteTodos
<1>4. Start(r, q) /\ message' = message /\ shown' = shown /\ message.exists
  BY <1>1 DEF Update
<1>5. op \in {"clearall", "delete"} => q.todo # <<"publish">>
  BY <1>2, TodosDiffer
<1>6. ASSUME NEW d \in Emojis, Meets(q, d), InStep(d) PROVE Stage(q, d)
  BY <1>2, <1>5, <1>6 DEF Stage
<1> QED
  BY <1>2, <1>3, <1>4, <1>5, <1>6, Starts

LEMMA MessagesStart ==
    ASSUME MessagesInit
    PROVE  MsgIInv
<1>0. message = shown /\ message = [NoMessage EXCEPT !.exists = TRUE]
  BY DEF MessagesInit, Sent
<1>1. message = shown /\ message.reactions = <<>> /\ message.exists
  BY <1>0, SMT DEF NoMessage
<1>2. message \in Docs /\ shown \in Docs
  BY <1>0, NoMessageTyped DEF Docs
<1>3. handling \in [RRequests -> Handlings] /\ \A r \in RRequests : handling[r] = Unused
  BY DEF MessagesInit, Handlings
<1>4. MsgShape /\ Apart
  BY <1>2, <1>3, UnusedMeets DEF MsgShape, Apart, Flying, MessagesInit
<1>5. There
  BY <1>1, <1>3, UnusedMeets DEF There
<1>6. ASSUME NEW e PROVE Tracked(e)
  BY <1>1, <1>3, UnusedMeets, EmptyReacts DEF Tracked, InStep, Stocked, Stored, Seen
<1> QED
  BY <1>4, <1>5, <1>6 DEF MsgIInv

LEMMA MessagesRest ==
    ASSUME MsgIInv, UNCHANGED <<message, handling, shown, disturbed>>
    PROVE  MsgIInv'
<1>1. ASSUME NEW e PROVE Same(e)
  BY DEF Same, Stored, Seen
<1>2. ASSUME NEW e, Tracked(e) PROVE Tracked(e)'
  <2>1. ASSUME NEW r \in RRequests, Meets(handling[r], e)' PROVE Stage(handling[r], e)'
    <3>1. PICK h : h = handling[r]
      OBVIOUS
    <3>2. Stage(h, e)
      BY <1>2, <2>1, <3>1 DEF Tracked
    <3>3. Stage(h, e)'
      BY <1>1, <3>2, SameStage
    <3> QED
      BY <3>1, <3>3 DEF Stage
  <2>2. ~Busy(e)' => ~Busy(e)
    BY DEF Busy
  <2> QED
    BY <1>1, <1>2, <2>1, <2>2, SameStage DEF Tracked
<1>3. MsgShape' <=> MsgShape
  BY DEF MsgShape
<1>4. (Calm' <=> Calm) /\ (Apart' <=> Apart) /\ (There' <=> There)
  BY DEF Calm, Apart, There, Flying
<1> QED
  BY <1>2, <1>3, <1>4 DEF MsgIInv

LEMMA MessagesStep ==
    ASSUME MsgIInv, [MessagesNext]_msgVars
    PROVE  MsgIInv'
<1>1. CASE UNCHANGED msgVars
  BY <1>1, MessagesRest DEF msgVars
<1>2. CASE MessagesNext
  <2> PICK r \in RRequests :
        \/ \E e \in Emojis :
              \/ \E u \in RUsers : add_reaction(r, u, e) \/ remove_reaction(r, u, e)
              \/ clear_reaction(r, e)
        \/ clear_reactions(r) \/ message_pin(r) \/ message_unpin(r)
        \/ delete(r) \/ bulk_delete(r)
        \/ \E e \in CustomEmojis : create_emoji(r, e) \/ delete_emoji(e)
        \/ InsertEmoji(r) \/ Publish(r) \/ Write(r) \/ Unset(r)
        \/ MarkAttachments(r) \/ Notify(r) \/ WriteFails(r)
    BY <1>2 DEF MessagesNext
  <2>1. CASE \E e \in Emojis : \E u \in RUsers : add_reaction(r, u, e) \/ remove_reaction(r, u, e)
    BY <2>1, ReactStarts
  <2>2. CASE \E e \in Emojis : clear_reaction(r, e)
    BY <2>2, ClearStarts
  <2>3. ASSUME NEW op, NEW todo, Update(r, op, todo),
               \/ op = "clearall" /\ todo = <<"write", "publish">>
               \/ op \in {"pin", "unpin"} /\ todo = <<"write", "publish", "notify">>
               \/ op = "delete" /\ todo \in {<<"mark", "write", "publish">>, <<"write", "publish">>}
        PROVE  MsgIInv'
    BY <2>3, UpdateStarts
  <2>4. CASE clear_reactions(r) \/ message_pin(r) \/ message_unpin(r) \/ delete(r) \/ bulk_delete(r)
    <3>1. \E op, todo :
              /\ Update(r, op, todo)
              /\ \/ op = "clearall" /\ todo = <<"write", "publish">>
                 \/ op \in {"pin", "unpin"} /\ todo = <<"write", "publish", "notify">>
                 \/ op = "delete" /\ todo \in {<<"mark", "write", "publish">>, <<"write", "publish">>}
      BY <2>4 DEF clear_reactions, message_pin, message_unpin, delete, bulk_delete
    <3> QED
      BY <2>3, <3>1
  <2>5. CASE \E e \in CustomEmojis : create_emoji(r, e)
    BY <2>5, ClearStarts, ChannelMessagesAssumption
  <2>6. CASE \E e \in CustomEmojis : delete_emoji(e)
    BY <2>6, MessagesRest DEF delete_emoji
  <2>7. CASE InsertEmoji(r) \/ MarkAttachments(r) \/ Notify(r)
    BY <2>7, OtherKeeps
  <2> QED
    BY <2>1, <2>2, <2>4, <2>5, <2>6, <2>7, PublishKeeps, WriteKeeps, UnsetKeeps, FailKeeps
<1> QED
  BY <1>1, <1>2

(* A client that follows the events shows the reactions that are stored,   *)
(* for any number of users, emojis and requests: add_reaction,             *)
(* remove_reaction, clear_reaction and the routes on the whole message, in *)
(* any interleaving of their events and writes, but for emojis that two    *)
(* requests worked on at once or whose write failed.                       *)
THEOREM ShownAlwaysStored == MessagesSpec => []ShownIsStored
<1>1. MessagesInit => MsgIInv
  BY MessagesStart
<1>2. MsgIInv /\ [MessagesNext]_msgVars => MsgIInv'
  BY MessagesStep
<1>3. MsgIInv => ShownIsStored
  <2> SUFFICES ASSUME MsgIInv, NEW e \in Emojis, disturbed \cap {e, "all"} = {}, ~Busy(e)
               PROVE  /\ By(shown.reactions, e) = By(Reactions, e)
                      /\ e \in DOMAIN Reactions => Reactions[e] # {}
    BY DEF ShownIsStored
  <2>1. Calm /\ e \in Emojis \ disturbed
    BY DEF Calm
  <2>2. InStep(e)
    BY <2>1 DEF MsgIInv, Tracked
  <2> QED
    BY <2>2 DEF InStep, Stocked, Stored, Seen, Reactions, By
<1> QED
  BY <1>1, <1>2, <1>3, PTL DEF MessagesSpec

=============================================================================

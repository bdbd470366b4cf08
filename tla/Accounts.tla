------------------------------ MODULE Accounts ------------------------------
(***************************************************************************)
(* Accounts of users: onboarding, names and discriminators, bans, and the    *)
(* official server that everybody joins.                                    *)
(*                                                                         *)
(* A handle is a name and a discriminator; names that differ in case are    *)
(* one.  Requests read, decide and write in separate calls to the database, *)
(* which may fail.  Sessions and the disabled flag belong to authifier, an  *)
(* external library.                                                        *)
(***************************************************************************)
EXTENDS Integers, FiniteSets

CONSTANTS
    AUsers,          \* accounts
    Usernames,       \* usernames that pass validate_username
    Lower,           \* Lower[n]: n in lower case
    Discriminators,  \* DISCRIMINATOR_SEARCH_SPACE
    FirstNames,      \* FirstNames[u]: the name u has when we start, or "none"
    ARequests        \* requests, each served once

NoName == "none"

ASSUME AccountsAssumption ==
    /\ NoName \notin Usernames
    /\ FirstNames \in [AUsers -> Usernames \cup {NoName}]
    /\ Discriminators \subseteq Nat /\ 1 \in Discriminators
    /\ \A u, v \in AUsers : u # v /\ FirstNames[u] # NoName /\ FirstNames[v] # NoName
                              => Lower[FirstNames[u]] # Lower[FirstNames[v]]

VARIABLES
    handles,    \* documents of users: username, discriminator
    banned,     \* users with the flag Banned
    ratelimit_events, \* ratelimit_events[u]: discriminator changes of this day
    disabled,   \* accounts that are disabled
    signedIn,   \* users with a session
    official,   \* members of the official server
    stage,      \* what each request is at
    departed,   \* history: users who left the official server
    changed,    \* history: random discriminators given to a user that day
    crossed     \* history: users with requests of this kind that overlapped or failed

accountVars == <<handles, banned, ratelimit_events, disabled, signedIn, official, stage, departed,
                 changed, crossed>>

Unborn == [username |-> NoName, discriminator |-> 0]
Idle == [op |-> "idle"]
Over == [op |-> "over"]

AccountsInit ==
    /\ handles = [u \in AUsers |-> [username |-> FirstNames[u],
                                    discriminator |-> IF FirstNames[u] = NoName THEN 0 ELSE 1]]
    /\ banned = {} /\ disabled = {} /\ signedIn = AUsers
    /\ ratelimit_events = [u \in AUsers |-> 0]
    /\ official = {u \in AUsers : FirstNames[u] # NoName}
    /\ stage = [q \in ARequests |-> Idle]
    /\ departed = {} /\ changed = [u \in AUsers |-> 0]
    /\ crossed = {}

AccountsTypeOK ==
    /\ \A u \in AUsers : /\ handles[u].username \in Usernames \cup {NoName}
                         /\ handles[u].discriminator \in Discriminators \cup {0}
    /\ banned \subseteq AUsers /\ disabled \subseteq AUsers /\ signedIn \subseteq AUsers
    /\ official \subseteq AUsers
    /\ ratelimit_events \in [AUsers -> Nat]

To(q, next) == stage' = [stage EXCEPT ![q] = next]
Exists(u) == handles[u] # Unborn

------------------------------------------------------------------------------
(* Names. *)
fetch_discriminators_in_use(n) ==
    {handles[u].discriminator : u \in {v \in AUsers : Exists(v) /\ Lower[handles[v].username] = Lower[n]}}

Available(n) == Discriminators \ fetch_discriminators_in_use(n)

(* The unique index on username and discriminator, which ignores case. *)
username_discriminator(u, n, d) ==
    \A v \in AUsers \ {u} :
        ~Exists(v) \/ Lower[handles[v].username] # Lower[n] \/ handles[v].discriminator # d

(* POST onboard/complete: User::create with any free discriminator. *)
complete(q, u, n) ==
    /\ stage[q] = Idle /\ u \in signedIn /\ ~Exists(u)
    /\ \E d \in Available(n) : To(q, [op |-> "insert", u |-> u, n |-> n, d |-> d])
    /\ UNCHANGED <<handles, banned, ratelimit_events, disabled, signedIn, official, departed,
                   changed, crossed>>

insert_user(q) ==
    LET s == stage[q] IN
    /\ s.op = "insert"
    /\ IF ~Exists(s.u) /\ username_discriminator(s.u, s.n, s.d)
       THEN /\ handles' = [handles EXCEPT ![s.u] = [username |-> s.n, discriminator |-> s.d]]
            /\ To(q, [op |-> "join", u |-> s.u])
       ELSE To(q, Over) /\ UNCHANGED handles
    /\ UNCHANGED <<banned, ratelimit_events, disabled, signedIn, official, departed, changed, crossed>>

(* PATCH users/@me/username, on the copy of the user that came with the     *)
(* request.  Only a change of case keeps the discriminator without asking.  *)
change_username(q, u, n) ==
    LET mine == handles[u]
        same == Lower[mine.username] = Lower[n]
    IN
    /\ stage[q] = Idle /\ u \in signedIn /\ Exists(u)
    /\ IF same THEN To(q, [op |-> "recase", u |-> u, n |-> n])
       ELSE /\ Available(n) # {}
            /\ To(q, IF mine.discriminator \in Available(n)
                     THEN [op |-> "rename", u |-> u, n |-> n, d |-> mine.discriminator]
                     ELSE [op |-> "limit", u |-> u, n |-> n, free |-> Available(n)])
    /\ UNCHANGED <<handles, banned, ratelimit_events, disabled, signedIn, official, departed,
                   changed, crossed>>

has_ratelimited(u) == ratelimit_events[u] >= 1

CheckLimit(q) ==
    LET s == stage[q] IN
    /\ s.op = "limit"
    /\ To(q, IF has_ratelimited(s.u) THEN Over ELSE [s EXCEPT !.op = "event"])
    /\ crossed' = IF \E p \in ARequests \ {q} : stage[p].op = "event" /\ stage[p].u = s.u
                  THEN crossed \cup {s.u} ELSE crossed
    /\ UNCHANGED <<handles, banned, ratelimit_events, disabled, signedIn, official, departed, changed>>

(* RatelimitEvent::create, and a choice among what was free. *)
insert_ratelimit_event(q) ==
    LET s == stage[q] IN
    /\ s.op = "event"
    /\ ratelimit_events' = [ratelimit_events EXCEPT ![s.u] = @ + 1]
    /\ \E d \in s.free : To(q, [op |-> "rename", u |-> s.u, n |-> s.n, d |-> d])
    /\ UNCHANGED <<handles, banned, disabled, signedIn, official, departed, changed, crossed>>

(* The write of update_username; a duplicate is refused by the index. *)
update_username(q) ==
    LET s == stage[q]
        d == IF s.op = "recase" THEN handles[s.u].discriminator ELSE s.d
    IN
    /\ s.op \in {"rename", "recase"}
    /\ IF username_discriminator(s.u, s.n, d)
       THEN /\ handles' = [handles EXCEPT ![s.u] = [username |-> s.n, discriminator |-> d]]
            /\ changed' = IF d # handles[s.u].discriminator THEN [changed EXCEPT ![s.u] = @ + 1]
                          ELSE changed
       ELSE UNCHANGED <<handles, changed>>
    /\ To(q, Over)
    /\ UNCHANGED <<banned, ratelimit_events, disabled, signedIn, official, departed, crossed>>

------------------------------------------------------------------------------
(* Bans.  The account is disabled, its sessions go, then the flag is set.   *)
\* BUG VARIANT: the flag comes first.
FlagFirst == [ban |-> "flag", flag |-> "disable", disable |-> "sessions", sessions |-> "over"]

BanSteps == [ban |-> "disable", disable |-> "sessions", sessions |-> "flag", flag |-> "over"]

Punishing == {"ban", "disable", "sessions", "flag", "enable", "unflag", "login"}
Overlap(u) ==
    IF \E q \in ARequests : stage[q].op \in Punishing /\ stage[q].u = u
    THEN crossed \cup {u} ELSE crossed

ban_user(q, u) ==
    /\ stage[q] = Idle /\ Exists(u)
    /\ To(q, [op |-> BanSteps.ban, u |-> u])
    /\ crossed' = Overlap(u)
    /\ UNCHANGED <<handles, banned, ratelimit_events, disabled, signedIn, official, departed, changed>>

ban(q) ==
    LET s == stage[q] IN
    /\ s.op \in {"disable", "sessions", "flag"}
    /\ disabled' = IF s.op = "disable" THEN disabled \cup {s.u} ELSE disabled
    /\ signedIn' = IF s.op = "sessions" THEN signedIn \ {s.u} ELSE signedIn
    /\ banned' = IF s.op = "flag" THEN banned \cup {s.u} ELSE banned
    /\ To(q, [op |-> BanSteps[s.op], u |-> s.u])
    /\ UNCHANGED <<handles, ratelimit_events, official, departed, changed, crossed>>

unsuspend_user(q, u) ==
    /\ stage[q] = Idle /\ Exists(u)
    /\ To(q, [op |-> "enable", u |-> u])
    /\ crossed' = Overlap(u)
    /\ UNCHANGED <<handles, banned, ratelimit_events, disabled, signedIn, official, departed, changed>>

unsuspend(q) ==
    LET s == stage[q] IN
    /\ s.op \in {"enable", "unflag"}
    /\ disabled' = IF s.op = "enable" THEN disabled \ {s.u} ELSE disabled
    /\ banned' = IF s.op = "unflag" THEN banned \ {s.u} ELSE banned
    /\ To(q, IF s.op = "enable" THEN [s EXCEPT !.op = "unflag"] ELSE Over)
    /\ UNCHANGED <<handles, ratelimit_events, signedIn, official, departed, changed, crossed>>

(* authifier: a login checks the account, and creates the session later. *)
Login(q, u) ==
    /\ stage[q] = Idle /\ u \notin disabled \cup signedIn
    /\ To(q, [op |-> "login", u |-> u])
    /\ crossed' = Overlap(u)
    /\ UNCHANGED <<handles, banned, ratelimit_events, disabled, signedIn, official, departed, changed>>

LogIn(q) ==
    /\ stage[q].op = "login"
    /\ signedIn' = signedIn \cup {stage[q].u}
    /\ To(q, Over)
    /\ UNCHANGED <<handles, banned, ratelimit_events, disabled, official, departed, changed, crossed>>

------------------------------------------------------------------------------
(* The official server: at the end of onboarding, and by a backfill that    *)
(* goes through all users.                                                  *)
join_official_server(u) == official' = official \cup {u}

ensure_official_membership(q) ==
    /\ stage[q].op = "join"
    /\ join_official_server(stage[q].u)
    /\ To(q, Over)
    /\ UNCHANGED <<handles, banned, ratelimit_events, disabled, signedIn, departed, changed, crossed>>

backfill_official_server(u) ==
    /\ Exists(u) /\ u \notin official
    /\ join_official_server(u)
    /\ UNCHANGED <<handles, banned, ratelimit_events, disabled, signedIn, stage, departed, changed,
                   crossed>>

LeaveOfficial(u) ==
    /\ u \in official \cap signedIn
    /\ official' = official \ {u} /\ departed' = departed \cup {u}
    /\ UNCHANGED <<handles, banned, ratelimit_events, disabled, signedIn, stage, changed, crossed>>

(* A call fails and the handler returns. *)
AccountCallFails(q) ==
    LET s == stage[q] IN
    /\ s.op \notin {"idle", "over"}
    /\ To(q, Over)
    /\ crossed' = IF s.op = "unflag" THEN crossed \cup {s.u} ELSE crossed
    /\ UNCHANGED <<handles, banned, ratelimit_events, disabled, signedIn, official, departed, changed>>

AccountsNext ==
    \/ \E q \in ARequests :
          \/ \E u \in AUsers :
                \/ \E n \in Usernames : complete(q, u, n) \/ change_username(q, u, n)
                \/ ban_user(q, u) \/ unsuspend_user(q, u) \/ Login(q, u)
          \/ insert_user(q) \/ CheckLimit(q) \/ insert_ratelimit_event(q) \/ update_username(q)
          \/ ban(q) \/ unsuspend(q) \/ LogIn(q)
          \/ ensure_official_membership(q)
          \/ AccountCallFails(q)
    \/ \E u \in AUsers : backfill_official_server(u) \/ LeaveOfficial(u)

AccountsSpec == AccountsInit /\ [][AccountsNext]_accountVars

------------------------------------------------------------------------------
(* No two users share a handle up to case, whatever names are taken or      *)
(* changed at once: what was free when it was looked up may be taken when   *)
(* it is written, and the index refuses it then.                            *)
HandlesUnique ==
    \A u, v \in AUsers : u # v /\ Exists(u) /\ Exists(v) =>
        \/ Lower[handles[u].username] # Lower[handles[v].username]
        \/ handles[u].discriminator # handles[v].discriminator

(* A user has one event of the day, and one new discriminator for it, unless  *)
(* two changes passed the check together; an event may be spent in vain.    *)
ChangesLimited ==
    \A u \in AUsers : u \notin crossed => changed[u] <= ratelimit_events[u] /\ ratelimit_events[u] <= 1

(* Who is flagged as banned has a disabled account and no session, also     *)
(* after a ban that failed half way: the flag is the last step.  The cases  *)
(* left are an unsuspension under way or failed half way, and a login or an *)
(* unsuspension that overlapped with the ban.                               *)
BannedIsOut ==
    \A u \in banned \ crossed :
        \/ u \in disabled /\ u \notin signedIn
        \/ \E q \in ARequests : stage[q].op = "unflag" /\ stage[q].u = u

\* Refuted by TLC (see the known divergences in README.md):
(* Nobody is put back into the official server after leaving. *)
NobodyPutBack == official \cap departed = {}

(* Accounts stay what they are to others, whatever requests interleave or    *)
(* fail: handles are unique (update_username), and the banned are out.      *)
AccountsKept == HandlesUnique /\ BannedIsOut
=============================================================================

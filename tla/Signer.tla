------------------------------- MODULE Signer -------------------------------
(***************************************************************************)
(* The signer (app.py): tokens that an admin issues and that devices claim *)
(* with a key, and the codes of e-mail MFA, both kept in SQLite.  Flask    *)
(* serves requests concurrently.  verify_mfa_code and                      *)
(* insert_claim_and_update_token are transactions; what the handlers do    *)
(* around them is not.  One user stands for all: codes of different users  *)
(* do not meet.                                                            *)
(***************************************************************************)
EXTENDS Integers, Sequences, FiniteSets

CONSTANTS
    Uuids,                 \* uuids of token_rows
    MaxClaims,              \* `maxClaims` of a token: any integer an admin sends
    TOKEN_TTL_SECONDS,
    EMAIL_MFA_CODE_TTL,
    EMAIL_MFA_MAX_ATTEMPTS,
    EMAIL_MFA_RATE_LIMIT,
    EMAIL_MFA_RATE_WINDOW,
    Workers,                \* requests served at a time
    MaxSignerTime,                \* bound on the clock
    MaxCodes,               \* bound on the codes stored
    MaxRestartsOfSigner,    \* bound on the restarts
    NoRow                 \* no row; no request

ASSUME SignerAssumption ==
    /\ {TOKEN_TTL_SECONDS, EMAIL_MFA_CODE_TTL, EMAIL_MFA_MAX_ATTEMPTS,
        EMAIL_MFA_RATE_LIMIT, EMAIL_MFA_RATE_WINDOW, MaxSignerTime, MaxCodes,
        MaxRestartsOfSigner} \subseteq Nat
    /\ MaxClaims \in Int

VARIABLES
    clock,
    token_rows, \* table `tokens`: [Uuids -> row or NoRow]
    json,       \* tokens.json of earlier runs: the rows it holds
    claims,     \* table `claims`: how many rows each token has
    codes,      \* table `email_mfa_codes`, in the order of `id`
    enabled,    \* table `email_mfa`
    work,       \* [Workers -> the handler between two of its steps]
    reboots,    \* restarts of the signer
    wins        \* history: when each code was accepted

signerVars == <<clock, token_rows, json, claims, codes, enabled, work, reboots, wins>>

Row(expires, count, used) == [expiresTs |-> expires, claimCount |-> count, used |-> used]
Rows == [expiresTs : Nat, claimCount : Nat, used : BOOLEAN]

Idle == [at |-> "idle", token |-> NoRow]

SignerTypeOK ==
    /\ clock \in 0 .. MaxSignerTime
    /\ token_rows \in [Uuids -> Rows \cup {NoRow}]
    /\ json \in [Uuids -> Rows \cup {NoRow}]
    /\ claims \in [Uuids -> Nat]
    /\ codes \in Seq([created : Nat, attempts : 0 .. EMAIL_MFA_MAX_ATTEMPTS, used : BOOLEAN])
    /\ enabled \in BOOLEAN
    /\ work \in [Workers -> [at : {"idle", "persist", "store", "enable"},
                             token : Uuids \cup {NoRow}]]
    /\ reboots \in 0 .. MaxRestartsOfSigner
    /\ wins \in Seq(Seq(Nat)) /\ Len(wins) = Len(codes)

\* The JSON files, when there are any, hold tokens that nobody has claimed yet.
SignerInit ==
    /\ clock = 0
    /\ \E old \in SUBSET Uuids :
        json = [t \in Uuids |-> IF t \in old THEN Row(TOKEN_TTL_SECONDS, 0, FALSE) ELSE NoRow]
    /\ token_rows = json
    /\ claims = [t \in Uuids |-> 0]
    /\ codes = <<>>
    /\ enabled = FALSE
    /\ work = [w \in Workers |-> Idle]
    /\ reboots = 0
    /\ wins = <<>>

SignerTick ==
    /\ clock < MaxSignerTime
    /\ clock' = clock + 1
    /\ UNCHANGED <<token_rows, json, claims, codes, enabled, work, reboots, wins>>

-----------------------------------------------------------------------------
(* Tokens *)

token(t) ==
    /\ token_rows[t] = NoRow /\ claims[t] = 0
    /\ token_rows' = [token_rows EXCEPT ![t] = Row(clock + TOKEN_TTL_SECONDS, 0, FALSE)]
    /\ UNCHANGED <<clock, json, claims, codes, enabled, work, reboots, wins>>

\* The row is read and found good, and so is the signature.
claim(w, t) ==
    /\ work[w] = Idle
    /\ token_rows[t] # NoRow
    /\ ~token_rows[t].used
    /\ clock <= token_rows[t].expiresTs
    /\ work' = [work EXCEPT ![w] = [at |-> "persist", token |-> t]]
    /\ UNCHANGED <<clock, token_rows, json, claims, codes, enabled, reboots, wins>>

\* Neither the row's `used` nor its expiry is looked at again.  The transaction
\* may be rolled back.
insert_claim_and_update_token(w) ==
    LET t == work[w].token
        count == token_rows[t].claimCount + 1
    IN
    /\ work[w].at = "persist"
    /\ \/ /\ claims' = [claims EXCEPT ![t] = @ + 1]
          /\ token_rows' = [token_rows EXCEPT ![t].claimCount = count,
                                             ![t].used = @ \/ count >= MaxClaims]
       \/ UNCHANGED <<claims, token_rows>>
    /\ work' = [work EXCEPT ![w] = Idle]
    /\ UNCHANGED <<clock, json, codes, enabled, reboots, wins>>

-----------------------------------------------------------------------------
(* E-mail MFA *)

\* created_at > now - EMAIL_MFA_RATE_WINDOW
InWindow(now) == {i \in DOMAIN codes : codes[i].created + EMAIL_MFA_RATE_WINDOW > now}

check_rate_limit == Cardinality(InWindow(clock)) < EMAIL_MFA_RATE_LIMIT

\* The request for a code to enable MFA with, or to answer a challenge with once
\* it is enabled, passes check_rate_limit.
email_mfa_enable(w) ==
    /\ work[w] = Idle
    /\ check_rate_limit
    /\ work' = [work EXCEPT ![w].at = "store"]
    /\ UNCHANGED <<clock, token_rows, json, claims, codes, enabled, reboots, wins>>

email_mfa_challenge(w) == enabled /\ email_mfa_enable(w)

\* The code is stored whether or not it can be mailed.
store_mfa_code(w) ==
    /\ work[w].at = "store"
    /\ Len(codes) < MaxCodes
    /\ codes' = Append(codes, [created |-> clock, attempts |-> 0, used |-> FALSE])
    /\ wins' = Append(wins, <<>>)
    /\ work' = [work EXCEPT ![w] = Idle]
    /\ UNCHANGED <<clock, token_rows, json, claims, enabled, reboots>>

Unused == {i \in DOMAIN codes : ~codes[i].used}
Newest == CHOOSE i \in Unused : \A j \in Unused : j <= i

Expired(i) == clock > codes[i].created + EMAIL_MFA_CODE_TTL

\* One more attempt, which uses the code up when it is right.
Attempted(code, right) == [code EXCEPT !.attempts = @ + 1, !.used = right]

\* BUG VARIANT: a right answer leaves the code unused.
AcceptUnspent(w, i, next) ==
    LET n == Newest IN
    /\ Unused # {}
    /\ \/ /\ Expired(n) \/ codes[n].attempts >= EMAIL_MFA_MAX_ATTEMPTS
          /\ codes' = [codes EXCEPT ![n].used = TRUE]
          /\ UNCHANGED <<wins, work>>
       \/ /\ ~Expired(n) /\ codes[n].attempts < EMAIL_MFA_MAX_ATTEMPTS
          /\ codes' = [codes EXCEPT ![n].attempts = @ + 1]
          /\ wins' = IF i = n THEN [wins EXCEPT ![n] = Append(@, clock)] ELSE wins
          /\ work' = IF i = n THEN [work EXCEPT ![w].at = next] ELSE work
    /\ UNCHANGED <<clock, token_rows, json, claims, enabled, reboots>>

\* verify_mfa_code with the code i, for a caller that goes on to `next` when it
\* is right.  The answer is compared with the newest unused code alone.
verify_mfa_code(w, i, next) ==
    LET n == Newest IN
    /\ Unused # {}
    /\ \/ /\ Expired(n) \/ codes[n].attempts >= EMAIL_MFA_MAX_ATTEMPTS
          /\ codes' = [codes EXCEPT ![n].used = TRUE]
          /\ UNCHANGED <<wins, work>>
       \/ /\ ~Expired(n) /\ codes[n].attempts < EMAIL_MFA_MAX_ATTEMPTS
          /\ codes' = [codes EXCEPT ![n] = Attempted(@, i = n)]
          /\ wins' = IF i = n THEN [wins EXCEPT ![n] = Append(@, clock)] ELSE wins
          /\ work' = IF i = n THEN [work EXCEPT ![w].at = next] ELSE work
    /\ UNCHANGED <<clock, token_rows, json, claims, enabled, reboots>>

\* 0 is an answer that is no code at all.
email_mfa_enable_verify(w) ==
    /\ work[w] = Idle
    /\ \E i \in DOMAIN codes \cup {0} : verify_mfa_code(w, i, "enable")

email_mfa_challenge_verify(w) ==
    /\ work[w] = Idle
    /\ \E i \in DOMAIN codes \cup {0} : verify_mfa_code(w, i, "idle")

\* ... the insert that follows a right code.
Enable(w) ==
    /\ work[w].at = "enable"
    /\ enabled' = TRUE
    /\ work' = [work EXCEPT ![w] = Idle]
    /\ UNCHANGED <<clock, token_rows, json, claims, codes, reboots, wins>>

email_mfa_disable ==
    /\ enabled
    /\ enabled' = FALSE
    /\ UNCHANGED <<clock, token_rows, json, claims, codes, work, reboots, wins>>

-----------------------------------------------------------------------------
\* The signer is started again: init_db leaves the tables as they are, and
\* migrate_json_to_sqlite replaces the rows that the JSON files hold.
migrate_json_to_sqlite ==
    /\ reboots < MaxRestartsOfSigner
    /\ reboots' = reboots + 1
    /\ token_rows' = [t \in Uuids |-> IF json[t] = NoRow THEN token_rows[t] ELSE json[t]]
    /\ work' = [w \in Workers |-> Idle]
    /\ UNCHANGED <<clock, json, claims, codes, enabled, wins>>

TokensNext ==
    \/ SignerTick
    \/ \E t \in Uuids : token(t) \/ \E w \in Workers : claim(w, t)
    \/ \E w \in Workers : insert_claim_and_update_token(w)
    \/ migrate_json_to_sqlite

CodesNext ==
    \/ SignerTick
    \/ \E w \in Workers :
        \/ email_mfa_enable(w)
        \/ email_mfa_challenge(w)
        \/ store_mfa_code(w)
        \/ email_mfa_enable_verify(w)
        \/ email_mfa_challenge_verify(w)
        \/ Enable(w)
    \/ email_mfa_disable
    \/ migrate_json_to_sqlite

SignerNext == TokensNext \/ CodesNext

SignerSpec == SignerInit /\ [][SignerNext]_signerVars

-----------------------------------------------------------------------------
(* Properties *)

\* However answers to enable and to challenge requests interleave, a code is
\* accepted at most once, and in its time to live; it is then spent, although
\* an older code may be the newest unused one again.
CodeWinsOnce ==
    \A i \in DOMAIN codes :
        /\ Len(wins[i]) <= 1
        /\ \A k \in DOMAIN wins[i] :
            codes[i].used /\ wins[i][k] <= codes[i].created + EMAIL_MFA_CODE_TTL

\* A token gives no more keys than `maxClaims`, and one where that is zero or
\* less (`used` is set by the first claim), but for the claims in progress
\* when the last of them is taken; one that tokens.json holds may give as many
\* again after every restart.
ClaimsBounded ==
    \A t \in Uuids :
        claims[t] <= ((IF MaxClaims > 0 THEN MaxClaims ELSE 1) + Cardinality(Workers) - 1)
                        * (IF json[t] = NoRow THEN 1 ELSE reboots + 1)

\* migrate_json_to_sqlite: "import them to SQLite to preserve state".
UsedStaysUsed ==
    [][\A t \in Uuids :
        (token_rows[t] # NoRow /\ token_rows[t].used) => token_rows'[t].used]_signerVars
=============================================================================

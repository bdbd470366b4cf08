----------------------------- MODULE Ratelimits -----------------------------
(***************************************************************************)
(* One bucket of core/ratelimits: the guard of a request reads the entry,    *)
(* asks what remains, deducts one and saves the entry.  Nothing is locked   *)
(* in between, and each of the three reads the wall clock for itself, which *)
(* may be set back.                                                         *)
(***************************************************************************)
EXTENDS Naturals, FiniteSets

CONSTANTS
    Guarded,     \* requests that pass the guard
    limit,       \* resolve_bucket_limit of the bucket
    window,      \* the ten seconds of a bucket
    MaxClock,    \* bound: the clock
    MaxSetBack   \* bound: how often the clock is set back

ASSUME RatelimitsAssumption ==
    limit \in Nat \ {0} /\ window \in Nat \ {0} /\ MaxClock \in Nat /\ MaxSetBack \in Nat

VARIABLES
    wall_clock,
    bucket,      \* the saved entry, or NoEntry
    guard,       \* the entry each request holds and what it is at
    let_in,    \* history: requests admitted, with the reset of their window
    overlapped,  \* history: two requests were inside the guard at once
    set_back     \* history: how often the clock was set back

ratelimitVars == <<wall_clock, bucket, guard, let_in, overlapped, set_back>>

(* Entry, and the entry that is not there yet. *)
NoBucket == [used |-> 0, reset |-> 0]
Outside == [at |-> "outside", entry |-> NoBucket]

RatelimitsInit ==
    /\ wall_clock = 1
    /\ bucket = NoBucket
    /\ guard = [r \in Guarded |-> Outside]
    /\ let_in = {} /\ overlapped = FALSE /\ set_back = 0

RatelimitsTypeOK ==
    /\ wall_clock \in 1..MaxClock /\ set_back \in 0..MaxSetBack
    /\ bucket.used \in Nat /\ bucket.reset \in Nat
    /\ \A r \in Guarded : guard[r].at \in
          {"outside", "remaining", "deduct", "save", "admitted", "refused", "answered"}
    /\ overlapped \in BOOLEAN

Inside(r) == guard[r].at \in {"remaining", "deduct", "save"}

TimePasses ==
    /\ wall_clock < MaxClock /\ wall_clock' = wall_clock + 1
    /\ UNCHANGED <<bucket, guard, let_in, overlapped, set_back>>

SetBack ==
    /\ wall_clock > 1 /\ set_back < MaxSetBack
    /\ wall_clock' = wall_clock - 1 /\ set_back' = set_back + 1
    /\ UNCHANGED <<bucket, guard, let_in, overlapped>>

(* Entry::from. *)
EntryFrom(saved) == IF saved = NoBucket THEN [used |-> 0, reset |-> wall_clock + window] ELSE saved

(* The first time the guard is asked for a request. *)
enter_guard(r) ==
    /\ guard[r].at = "outside"
    /\ guard' = [guard EXCEPT ![r] = [at |-> "remaining", entry |-> EntryFrom(bucket)]]
    /\ overlapped' = (overlapped \/ \E s \in Guarded : Inside(s))
    /\ UNCHANGED <<wall_clock, bucket, let_in, set_back>>

\* BUG VARIANT: what remains is reckoned anew from the reset on, not after it.
get_remaining_early(entry) == IF wall_clock >= entry.reset THEN limit ELSE limit - entry.used

(* The subtraction wraps below zero, which is not zero. *)
get_remaining(entry) == IF wall_clock > entry.reset THEN limit ELSE limit - entry.used

CheckRemaining(r) ==
    /\ guard[r].at = "remaining"
    /\ guard' = [guard EXCEPT ![r].at = IF get_remaining(guard[r].entry) = 0 THEN "refused" ELSE "deduct"]
    /\ UNCHANGED <<wall_clock, bucket, let_in, overlapped, set_back>>

deduct(r) ==
    /\ guard[r].at = "deduct"
    /\ guard' = [guard EXCEPT ![r] =
          [at |-> "save",
           entry |-> LET e == guard[r].entry IN
                     IF wall_clock > e.reset THEN [used |-> 1, reset |-> wall_clock + window]
                     ELSE [e EXCEPT !.used = @ + 1]]]
    /\ UNCHANGED <<wall_clock, bucket, let_in, overlapped, set_back>>

save(r) ==
    /\ guard[r].at = "save"
    /\ bucket' = guard[r].entry
    /\ let_in' = let_in \cup {<<r, guard[r].entry.reset>>}
    /\ guard' = [guard EXCEPT ![r].at = "admitted"]
    /\ UNCHANGED <<wall_clock, overlapped, set_back>>

(* The response asks the guard again, and is given what the request keeps:   *)
(* nothing is deducted twice.                                               *)
on_response(r) ==
    /\ guard[r].at \in {"admitted", "refused"}
    /\ guard' = [guard EXCEPT ![r].at = "answered"]
    /\ UNCHANGED <<wall_clock, bucket, let_in, overlapped, set_back>>

RatelimitsNext ==
    \/ TimePasses \/ SetBack
    \/ \E r \in Guarded : enter_guard(r) \/ CheckRemaining(r) \/ deduct(r) \/ save(r) \/ on_response(r)

RatelimitsSpec == RatelimitsInit /\ [][RatelimitsNext]_ratelimitVars

AdmittedUntil(t) == {r \in Guarded : <<r, t>> \in let_in}

(* The bucket never counts more than its limit, so that what remains is      *)
(* never taken below zero, unless the clock was set back between the two    *)
(* looks at it; and it admits no more requests in a window than its limit,  *)
(* unless requests overlapped and one overwrote the count of another.       *)
LimitHolds ==
    set_back = 0 =>
        /\ bucket.used <= limit
        /\ ~overlapped =>
              \A t \in 0..(MaxClock + window) : Cardinality(AdmittedUntil(t)) <= limit
=============================================================================

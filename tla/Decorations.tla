----------------------------- MODULE Decorations -----------------------------
(***************************************************************************)
(* The marketplace of profile decorations: submission, review, purchase     *)
(* and wearing.  The coins move in Earth Nexus, an external ledger that     *)
(* remembers every transfer by its idempotency key.                         *)
(*                                                                         *)
(* A request is a sequence of database and ledger calls; others run between *)
(* them, and each call may fail.                                            *)
(***************************************************************************)
EXTENDS Integers, FiniteSets

CONSTANTS
    Buyers,         \* users who purchase and wear decorations
    DecorationIds,  \* decorations, each of a creator who is no buyer
    SlotOf,         \* SlotOf[d]: the category of d
    Offers,         \* what may be asked: [is_free, price_coins]
    MaxVersion,     \* bound on the versions of the animation of a decoration
    DRequests       \* requests of buyers and moderators, each served once

ASSUME DecorationsAssumption ==
    /\ Offers \subseteq [is_free : BOOLEAN, price_coins : Nat] /\ MaxVersion \in Nat

VARIABLES
    decoration,  \* the documents
    purchases,   \* purchases[<<u, d>>]: documents in decoration_purchases
    ledger,      \* ledger[<<u, d>>]: coins of the transfer known by this key, 0 for none
    moves,       \* moves[<<u, d>>]: how often coins went from u for d
    wearing,     \* active_decorations of the buyers
    serving,     \* what each request is at
    set_offer,   \* history: the offer the moderator left
    reviewed,    \* history: the version the last approval was given to
    overtaken,   \* history: decorations updated between review and decision
    disturbed_wear \* history: buyers with requests that crossed or failed

decorationVars == <<decoration, purchases, ledger, moves, wearing, serving, set_offer, reviewed,
                    overtaken, disturbed_wear>>

Pairs == Buyers \X DecorationIds
Waiting == [op |-> "waiting"]
Served == [op |-> "served"]
Decoration(status, offer) ==
    [status |-> status, offer |-> offer, version |-> 1, active_users_count |-> 0,
     download_count |-> 0]

(* Some decorations are on offer already. *)
DecorationsInit ==
    \E start \in [DecorationIds -> {"None", "Approved"}], offer \in Offers :
    /\ decoration = [d \in DecorationIds |-> Decoration(start[d], offer)]
    /\ set_offer = [d \in DecorationIds |-> offer] /\ reviewed = [d \in DecorationIds |-> 1]
    /\ purchases = [p \in Pairs |-> 0] /\ ledger = [p \in Pairs |-> 0]
    /\ moves = [p \in Pairs |-> 0]
    /\ wearing = [u \in Buyers |-> {}]
    /\ serving = [q \in DRequests |-> Waiting]
    /\ overtaken = {} /\ disturbed_wear = {}

DecorationsTypeOK ==
    /\ \A d \in DecorationIds :
          /\ decoration[d].status \in {"None", "Pending", "Approved", "Rejected"}
          /\ decoration[d].offer \in Offers
          /\ decoration[d].active_users_count \in Int
    /\ purchases \in [Pairs -> Nat] /\ ledger \in [Pairs -> Nat] /\ moves \in [Pairs -> Nat]
    /\ wearing \in [Buyers -> SUBSET DecorationIds]

Goes(q, next) == serving' = [serving EXCEPT ![q] = next]
Paid(d) == ~decoration[d].offer.is_free /\ decoration[d].offer.price_coins > 0

(* fetch_decoration: the counters are unsigned, a document with a negative  *)
(* one is not read.                                                         *)
fetch_decoration(d) == decoration[d].status # "None" /\ decoration[d].active_users_count >= 0

------------------------------------------------------------------------------
(* Creators and moderators. *)
studio_submit_decoration(d, offer) ==
    /\ decoration[d].status = "None"
    /\ decoration' = [decoration EXCEPT ![d] = Decoration("Pending", offer)]
    /\ UNCHANGED <<purchases, ledger, moves, wearing, serving, set_offer, reviewed, overtaken,
                   disturbed_wear>>

(* A new animation goes back to review, a new offer does not. *)
update_decoration_content(d, new, offer) ==
    [decoration[d] EXCEPT !.version = IF new THEN @ + 1 ELSE @, !.offer = offer,
                          !.status = IF new THEN "Pending" ELSE @]

update_decoration(d, new, offer) ==
    /\ fetch_decoration(d)
    /\ new => decoration[d].version < MaxVersion
    /\ decoration' = [decoration EXCEPT ![d] = update_decoration_content(d, new, offer)]
    /\ overtaken' =
          IF new /\ \E q \in DRequests : serving[q].op = "moderate" /\ serving[q].d = d
          THEN overtaken \cup {d} ELSE overtaken
    /\ UNCHANGED <<purchases, ledger, moves, wearing, serving, set_offer, reviewed, disturbed_wear>>

(* A moderator looks at a decoration, and decides. *)
Look(q, d) ==
    /\ serving[q] = Waiting
    /\ fetch_decoration(d)
    /\ Goes(q, [op |-> "moderate", d |-> d, seen |-> decoration[d].version])
    /\ UNCHANGED <<decoration, purchases, ledger, moves, wearing, set_offer, reviewed, overtaken,
                   disturbed_wear>>

update_decoration_status(d, status, offer) ==
    [decoration EXCEPT ![d].status = status, ![d].offer = offer]

moderate_decoration(q, status, offer) ==
    LET d == serving[q].d IN
    /\ serving[q].op = "moderate"
    /\ decoration' = update_decoration_status(d, status, offer)
    /\ set_offer' = [set_offer EXCEPT ![d] = offer]
    /\ reviewed' = IF status = "Approved" THEN [reviewed EXCEPT ![d] = serving[q].seen]
                   ELSE reviewed
    /\ Goes(q, Served)
    /\ UNCHANGED <<purchases, ledger, moves, wearing, overtaken, disturbed_wear>>

------------------------------------------------------------------------------
(* POST decorations/<id>/purchase. *)
purchase_decoration(q, u, d) ==
    /\ serving[q] = Waiting
    /\ fetch_decoration(d) /\ decoration[d].status = "Approved" /\ Paid(d)
    /\ purchases[<<u, d>>] = 0
    /\ Goes(q, [op |-> "transfer", u |-> u, d |-> d, coins |-> decoration[d].offer.price_coins])
    /\ UNCHANGED <<decoration, purchases, ledger, moves, wearing, set_offer, reviewed, overtaken,
                   disturbed_wear>>

\* BUG VARIANT: every call carries a key of its own.
TransferUnkeyed(u, d, coins) == <<"moved", coins>>

(* Nexus: a key it knows is answered without moving coins, and refused when *)
(* the amount is another one.                                               *)
Transfer(u, d, coins) ==
    IF ledger[<<u, d>>] = 0 THEN <<"moved", coins>>
    ELSE IF ledger[<<u, d>>] = coins THEN <<"known", coins>>
    ELSE <<"conflict", ledger[<<u, d>>]>>

(* The transfer goes through (answered or not), or is refused for want of   *)
(* funds or as a conflict.                                                  *)
transfer_coins(q, answered) ==
    LET s == serving[q]
        outcome == Transfer(s.u, s.d, s.coins)
    IN
    /\ s.op = "transfer"
    /\ ledger' = [ledger EXCEPT ![<<s.u, s.d>>] = outcome[2]]
    /\ moves' = IF outcome[1] = "moved" THEN [moves EXCEPT ![<<s.u, s.d>>] = @ + 1] ELSE moves
    /\ Goes(q, IF answered /\ outcome[1] # "conflict"
               THEN [op |-> "record", u |-> s.u, d |-> s.d] ELSE Served)
    /\ UNCHANGED <<decoration, purchases, wearing, set_offer, reviewed, overtaken, disturbed_wear>>

TransferRefused(q) ==
    /\ serving[q].op = "transfer"
    /\ Goes(q, Served)
    /\ UNCHANGED <<decoration, purchases, ledger, moves, wearing, set_offer, reviewed, overtaken,
                   disturbed_wear>>

insert_decoration_purchase(q) ==
    LET s == serving[q] IN
    /\ s.op = "record"
    /\ purchases' = [purchases EXCEPT ![<<s.u, s.d>>] = @ + 1]
    /\ Goes(q, [op |-> "count", d |-> s.d])
    /\ UNCHANGED <<decoration, ledger, moves, wearing, set_offer, reviewed, overtaken, disturbed_wear>>

CountDownload(q) ==
    /\ serving[q].op = "count"
    /\ decoration' = [decoration EXCEPT ![serving[q].d].download_count = @ + 1]
    /\ Goes(q, Served)
    /\ UNCHANGED <<purchases, ledger, moves, wearing, set_offer, reviewed, overtaken, disturbed_wear>>

------------------------------------------------------------------------------
(* POST and DELETE decorations/<id>/equip, on the copy of the user that the *)
(* request arrived with.                                                    *)
WearOps == {"wear", "drop_old", "add_new"}
Crosses(u) == \E q \in DRequests : serving[q].op \in WearOps /\ serving[q].u = u
Crossing(u) == IF Crosses(u) THEN disturbed_wear \cup {u} ELSE disturbed_wear

equip_decoration(q, u, d) ==
    /\ serving[q] = Waiting
    /\ fetch_decoration(d) /\ decoration[d].status = "Approved"
    /\ Paid(d) => purchases[<<u, d>>] > 0
    /\ LET old == {x \in wearing[u] : SlotOf[x] = SlotOf[d]} IN
       Goes(q, [op |-> "wear", u |-> u, list |-> (wearing[u] \ old) \cup {d},
                out |-> old \ {d}, in |-> {d} \ old])
    /\ disturbed_wear' = Crossing(u)
    /\ UNCHANGED <<decoration, purchases, ledger, moves, wearing, set_offer, reviewed, overtaken>>

unequip_decoration(q, u, d) ==
    /\ serving[q] = Waiting
    /\ d \in wearing[u]
    /\ Goes(q, [op |-> "wear", u |-> u, list |-> wearing[u] \ {d}, out |-> {d}, in |-> {}])
    /\ disturbed_wear' = Crossing(u)
    /\ UNCHANGED <<decoration, purchases, ledger, moves, wearing, set_offer, reviewed, overtaken>>

UpdateUser(q) ==
    LET s == serving[q] IN
    /\ s.op = "wear"
    /\ wearing' = [wearing EXCEPT ![s.u] = s.list]
    /\ Goes(q, [s EXCEPT !.op = "drop_old"])
    /\ UNCHANGED <<decoration, purchases, ledger, moves, set_offer, reviewed, overtaken, disturbed_wear>>

(* The counter of what is put on; what is worn already is not counted. *)
Counters(s) ==
    [d \in DecorationIds |->
        [decoration[d] EXCEPT !.active_users_count = IF d \in s.in THEN @ + 1 ELSE @]]

DecrementOld(q) ==
    LET s == serving[q] IN
    /\ s.op = "drop_old"
    /\ decoration' = [d \in DecorationIds |->
          [decoration[d] EXCEPT !.active_users_count = IF d \in s.out THEN @ - 1 ELSE @]]
    /\ Goes(q, [s EXCEPT !.op = "add_new"])
    /\ UNCHANGED <<purchases, ledger, moves, wearing, set_offer, reviewed, overtaken, disturbed_wear>>

IncrementNew(q) ==
    /\ serving[q].op = "add_new"
    /\ decoration' = Counters(serving[q])
    /\ Goes(q, Served)
    /\ UNCHANGED <<purchases, ledger, moves, wearing, set_offer, reviewed, overtaken, disturbed_wear>>

(* A database call fails and the handler returns; a failed decrement is    *)
(* ignored.                                                                *)
DecorationCallFails(q) ==
    LET s == serving[q] IN
    /\ s.op \in {"record", "count", "wear", "drop_old", "add_new"}
    /\ Goes(q, IF s.op = "drop_old" THEN [s EXCEPT !.op = "add_new"] ELSE Served)
    /\ disturbed_wear' = IF s.op \in {"drop_old", "add_new"}
                         THEN disturbed_wear \cup {s.u} ELSE disturbed_wear
    /\ UNCHANGED <<decoration, purchases, ledger, moves, wearing, set_offer, reviewed, overtaken>>

DecorationsNext ==
    \/ \E d \in DecorationIds, offer \in Offers :
          \/ studio_submit_decoration(d, offer)
          \/ \E new \in BOOLEAN : update_decoration(d, new, offer)
    \/ \E q \in DRequests :
          \/ \E d \in DecorationIds : Look(q, d)
          \/ \E s \in {"Approved", "Rejected"}, offer \in Offers : moderate_decoration(q, s, offer)
          \/ \E u \in Buyers, d \in DecorationIds :
                \/ purchase_decoration(q, u, d)
                \/ equip_decoration(q, u, d)
                \/ unequip_decoration(q, u, d)
          \/ \E answered \in BOOLEAN : transfer_coins(q, answered)
          \/ TransferRefused(q)
          \/ insert_decoration_purchase(q)
          \/ CountDownload(q)
          \/ UpdateUser(q) \/ DecrementOld(q) \/ IncrementNew(q)
          \/ DecorationCallFails(q)

DecorationsSpec == DecorationsInit /\ [][DecorationsNext]_decorationVars

------------------------------------------------------------------------------
(* However often a purchase is retried, doubled or cut off: coins leave a   *)
(* buyer for a decoration at most once, and who owns it has paid (the       *)
(* transfer precedes the record, under a key of buyer and decoration).      *)
PaidOnce == \A p \in Pairs : moves[p] <= 1 /\ (purchases[p] > 0 => moves[p] = 1)

(* What is approved was reviewed in this version, unless the creator        *)
(* replaced the animation between the moderator's look and decision (the    *)
(* update sends it back to review, the decision does not look again).       *)
ApprovedWasReviewed ==
    \A d \in DecorationIds :
        decoration[d].status = "Approved" /\ decoration[d].version # reviewed[d] => d \in overtaken

(* Unless requests of one buyer crossed or failed half way, the counter of  *)
(* a decoration never goes below zero, where the document could not be read *)
(* again, and is the number of those who wear it whenever no equip or       *)
(* unequip is under way.                                                    *)
WearersCounted ==
    disturbed_wear = {} =>
        \A d \in DecorationIds :
            /\ decoration[d].active_users_count >= 0
            /\ (\A q \in DRequests : serving[q].op \notin WearOps)
                  => decoration[d].active_users_count
                        = Cardinality({u \in Buyers : d \in wearing[u]})

\* Refuted by TLC (see the known divergences in README.md):
(* Who has paid and does not own can have the purchase replayed (a failure  *)
(* after the transfer is recoverable: the key is deterministic, so a replay *)
(* is safe).                                                                *)
ReplayIsSafe ==
    \A u \in Buyers, d \in DecorationIds :
        (moves[<<u, d>>] > 0 /\ purchases[<<u, d>>] = 0 /\ Paid(d))
            => Transfer(u, d, decoration[d].offer.price_coins)[1] = "known"

\* Refuted by TLC (see the known divergences in README.md):
(* The offer of an approved decoration is the one its moderator left (the   *)
(* moderator sets the final price).                                         *)
FinalPriceIsModerators ==
    \A d \in DecorationIds :
        decoration[d].status = "Approved" => decoration[d].offer = set_offer[d]
=============================================================================

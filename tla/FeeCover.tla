------------------------------- MODULE FeeCover -------------------------------
(***************************************************************************)
(* The marketplace fee cover: a buyer's bid is quoted as covered, becomes  *)
(* a promise that reserves campaign budget once the bid is on the ledger,  *)
(* and a refund once a broker has settled it.                              *)
(* lfg_core/fee_cover_store.py is the state, one operation per sqlite      *)
(* transaction; the actors are the status poll of each bid, the settlement *)
(* sweep, a recovery that runs beside it (service start, or                *)
(* scripts/recover_fee_cover_refunds.py), operators, and the archive's     *)
(* listener.                                                               *)
(*                                                                         *)
(* A refund is paid in numbered attempts.  Each has one payout whose       *)
(* deadline was recorded with the claim; that a payout found nowhere past  *)
(* its deadline can never land is the result of PinnedTxProofs.            *)
(***************************************************************************)
EXTENDS Integers, FiniteSets, FiniteSetsExt

CONSTANTS
    Offers,            \* bound: the bids quoted as covered
    Campaigns,         \* bound: 1 .. n, the campaigns that may be started
    Budgets, Covers,   \* drops a campaign may spend, and promise per bid
    MaxAttempts,       \* bound: payouts of one refund
    MaxFaults,         \* bound: crashes and failed calls
    MaxClock,          \* bound: at most 3, how far time runs
    Sweep, Beside,     \* the two tasks that are not the poll of an offer
    None,
    SpanningRecovery   \* TRUE iff a recovery pass may outlive the claim it listed

ASSUME FeeCoverAssumption ==
    /\ Campaigns \subseteq Nat \ {0} /\ IsFiniteSet(Offers)
    /\ Budgets \subseteq Nat \ {0} /\ Covers \subseteq Nat \ {0}
    /\ MaxAttempts \in Nat /\ MaxFaults \in Nat /\ MaxClock \in 0 .. 3
    /\ SpanningRecovery \in BOOLEAN
    /\ Sweep # Beside /\ {Sweep, Beside} \cap Offers = {} /\ None \notin Offers

VARIABLES
    live,      \* the live campaign, 0 if none
    budget,    \* budget_drops per campaign, 0 until it is started
    cover,     \* the live campaign's promise on one bid
    quote,     \* fee_cover_quotes: state and outcome
    session,   \* the BidSession in memory
    bid,       \* the bid on the ledger
    clock,     \* per bid: 1 its expiry, 2 ten minutes later, 3 a day later
    indexed,   \* the history archive holds the event that closed the bid
    cursor,    \* how far on clock the archive is validated
    promise, refund,   \* fee_cover_promises, fee_cover_refunds
    tx,        \* per offer and attempt: the payout
    job,       \* what each task is in the middle of
    faults

campaign == <<live, budget, cover>>
market   == <<bid, clock, indexed, cursor>>
vars == <<campaign, quote, session, market, promise, refund, tx, job, faults>>

Tasks    == Offers \cup {Sweep, Beside}
Attempts == 1 .. MaxAttempts
OnLedger == {"open", "sold", "cancelled"}    \* the bid validated
Idle == [step |-> "idle", offer |-> None, seen |-> 0]
Steps == {"evaluate", "record", "close promised", "close uncovered",   \* a promise
          "certified",                                                 \* a release
          "claimed", "sent",                                           \* a payout
          "recover", "recover past", "requeue"}                        \* a recovery

TypeOK ==
    /\ live \in Campaigns \cup {0} /\ cover \in Covers
    /\ budget \in [Campaigns -> Budgets \cup {0}]
    /\ quote \in [Offers -> {"none", "pending", "promised", "uncovered", "dead", "abandoned"}]
    /\ session \in [Offers -> {"none", "live", "done"}]
    /\ bid \in [Offers -> OnLedger \cup {"none", "asked", "lapsed"}]
    /\ clock \in [Offers -> 0 .. 3] /\ cursor \in [Offers -> 0 .. 2]
    /\ indexed \in [Offers -> BOOLEAN]
    /\ promise \in [Offers -> [state : {"none", "open", "filled", "released", "declined"},
                               campaign : Campaigns \cup {0}, drops : Covers \cup {0}]]
    /\ refund \in [Offers -> [state : {"none", "owed", "submitted", "confirmed", "failed",
                                       "declined"},
                              drops : Nat, attempt : 0 .. MaxAttempts]]
    /\ \A o \in Offers : refund[o].drops <= promise[o].drops
    /\ tx \in [Offers -> [Attempts -> {"unsent", "live", "landed", "dead"}]]
    /\ job \in [Tasks -> {Idle} \cup [step : Steps, offer : Offers, seen : Nat]]
    /\ faults \in 0 .. MaxFaults

Init ==
    /\ live = 0 /\ budget = [c \in Campaigns |-> 0] /\ cover \in Covers
    /\ quote = [o \in Offers |-> "none"] /\ session = [o \in Offers |-> "none"]
    /\ bid = [o \in Offers |-> "none"] /\ clock = [o \in Offers |-> 0]
    /\ indexed = [o \in Offers |-> FALSE] /\ cursor = [o \in Offers |-> 0]
    /\ promise = [o \in Offers |-> [state |-> "none", campaign |-> 0, drops |-> 0]]
    /\ refund = [o \in Offers |-> [state |-> "none", drops |-> 0, attempt |-> 0]]
    /\ tx = [o \in Offers |-> [a \in Attempts |-> "unsent"]]
    /\ job = [t \in Tasks |-> Idle]
    /\ faults = 0

Fault == faults < MaxFaults /\ faults' = faults + 1
At(t, step, o) == job[t].step = step /\ job[t].offer = o
Goto(t, step, o, seen) == job' = [job EXCEPT ![t] = [step |-> step, offer |-> o, seen |-> seen]]
Leave(t) == job' = [job EXCEPT ![t] = Idle]

-----------------------------------------------------------------------------
(* Campaigns. *)

(* committed_drops: what open promises and refunds that may be paid reserve. *)
Reserved(o, c) ==
    IF promise[o].campaign # c THEN 0
    ELSE IF promise[o].state = "open" THEN promise[o].drops
    ELSE IF refund[o].state \in {"owed", "submitted", "confirmed"} THEN refund[o].drops
    ELSE 0
Committed(c) == MapThenSumSet(LAMBDA o : Reserved(o, c), Offers)
Headroom(c, drops) == Committed(c) + drops <= budget[c]

StartCampaign(b, k) ==
    /\ live = 0
    /\ \E c \in Campaigns :
         /\ budget[c] = 0 /\ \A d \in Campaigns : d < c => budget[d] # 0
         /\ live' = c /\ budget' = [budget EXCEPT ![c] = b] /\ cover' = k
    /\ UNCHANGED <<quote, session, market, promise, refund, tx, job, faults>>

UpdateCampaign(b, k) ==
    /\ live # 0
    /\ budget' = [budget EXCEPT ![live] = b] /\ cover' = k
    /\ UNCHANGED <<live, quote, session, market, promise, refund, tx, job, faults>>

(* stop_campaign, or ends_at passes. *)
StopCampaign ==
    /\ live # 0 /\ live' = 0
    /\ UNCHANGED <<budget, cover, quote, session, market, promise, refund, tx, job, faults>>

-----------------------------------------------------------------------------
(* The bid on the ledger, and the archive that follows it. *)

(* POST /api/market/bid: the quote reserves nothing. *)
QuoteBid(o) ==
    /\ quote[o] = "none" /\ live # 0 /\ Headroom(live, cover)
    /\ quote' = [quote EXCEPT ![o] = "pending"]
    /\ session' = [session EXCEPT ![o] = "live"]
    /\ bid' = [bid EXCEPT ![o] = "asked"]
    /\ UNCHANGED <<campaign, clock, indexed, cursor, promise, refund, tx, job, faults>>

(* The bid validates, or never will: refused, lapsed, failed, signed by
   another account.  Before its expiry a broker may settle it; its owner may
   cancel it at any time. *)
BidMoves(o) ==
    /\ \/ bid[o] = "asked" /\ bid' = [bid EXCEPT ![o] = "open"]
       \/ bid[o] = "open" /\ clock[o] = 0 /\ bid' = [bid EXCEPT ![o] = "sold"]
       \/ bid[o] = "open" /\ bid' = [bid EXCEPT ![o] = "cancelled"]
    /\ UNCHANGED <<campaign, quote, session, clock, indexed, cursor, promise, refund, tx, job,
                   faults>>

BidLapses(o) ==
    /\ bid[o] = "asked" /\ bid' = [bid EXCEPT ![o] = "lapsed"]
    /\ UNCHANGED <<campaign, quote, session, clock, indexed, cursor, promise, refund, tx, job,
                   faults>>

TimePasses(o) ==
    /\ bid[o] \in OnLedger /\ clock[o] < MaxClock
    /\ clock' = [clock EXCEPT ![o] = @ + 1]
    /\ UNCHANGED <<campaign, quote, session, bid, indexed, cursor, promise, refund, tx, job,
                   faults>>

(* _record_history *)
Index(o) ==
    /\ bid[o] \in {"sold", "cancelled"} /\ ~indexed[o]
    /\ indexed' = [indexed EXCEPT ![o] = TRUE]
    /\ UNCHANGED <<campaign, quote, session, bid, clock, cursor, promise, refund, tx, job, faults>>

(* ArchiveBatch.flush: the cursor may run ahead of the derived events, by
   seconds: never by the ten minutes of EXPIRY_RELEASE_MARGIN_SECONDS. *)
FlushCursor(o) ==
    /\ cursor[o] < 2 /\ cursor[o] < clock[o]
    /\ cursor[o] = 1 /\ bid[o] = "sold" => indexed[o]
    /\ cursor' = [cursor EXCEPT ![o] = @ + 1]
    /\ UNCHANGED <<campaign, quote, session, bid, clock, indexed, promise, refund, tx, job, faults>>

-----------------------------------------------------------------------------
(* From the quote to the promise: the poll of the live session and the
   sweep's reconciler both end in _fee_cover_record_promise. *)

(* advance_bid_session of the live session, called by the poll or by
   _advance_quoted_bid_sessions: the row is handed over once. *)
AdvanceSession(o) ==
    /\ session[o] = "live"
    /\ session' = [session EXCEPT ![o] = "done"]
    /\ \/ bid[o] \in OnLedger /\ Goto(o, "evaluate", o, 0) /\ UNCHANGED faults
       \/ bid[o] = "lapsed" /\ UNCHANGED <<job, faults>>
       \/ UNCHANGED job /\ Fault                   \* the lookup gave up
    /\ UNCHANGED <<campaign, quote, market, promise, refund, tx>>

(* Mutant: a failed session is believed. *)
SeesDeadBidInSession(o) == bid[o] = "lapsed" \/ session[o] = "done"

MayReconcile(o) == quote[o] = "pending" /\ session[o] # "live"
SeesDeadBid(o) == bid[o] = "lapsed"

(* _reconcile_fee_cover_quote: what the ledger or the wallet provider says. *)
Reconcile(o) ==
    /\ job[Sweep] = Idle /\ MayReconcile(o)
    /\ \/ bid[o] \in OnLedger /\ Goto(Sweep, "evaluate", o, 0) /\ UNCHANGED quote
       \/ SeesDeadBid(o) /\ quote' = [quote EXCEPT ![o] = "dead"] /\ UNCHANGED job
    /\ UNCHANGED <<campaign, session, market, promise, refund, tx, faults>>

(* The attempt failed, and the bid expired a day ago. *)
Abandon(o) ==
    /\ job[Sweep] = Idle /\ MayReconcile(o) /\ clock[o] = 3 /\ Fault
    /\ quote' = [quote EXCEPT ![o] = "abandoned"]
    /\ UNCHANGED <<campaign, session, market, promise, refund, tx, job>>

(* _fee_cover_evaluate: no campaign, or a listing that no longer qualifies. *)
Evaluate(t, o) ==
    /\ At(t, "evaluate", o)
    /\ \/ Goto(t, "close uncovered", o, 0)
       \/ live # 0 /\ Goto(t, "record", o, live)
    /\ UNCHANGED <<campaign, quote, session, market, promise, refund, tx, faults>>

NewPromise(o, state) ==
    promise' = [promise EXCEPT ![o] = [state |-> state, campaign |-> live, drops |-> cover]]

(* record_promise: the campaign is read again under the write lock; a bid
   may be declined for reasons of its own (minimum, wallet cap, clearing). *)
RecordPromise(t, o) ==
    /\ At(t, "record", o)
    /\ \/ promise[o].state # "none" /\ Goto(t, "close promised", o, 0) /\ UNCHANGED promise
       \/ /\ promise[o].state = "none" /\ job[t].seen # live
          /\ Goto(t, "close uncovered", o, 0) /\ UNCHANGED promise
       \/ /\ promise[o].state = "none" /\ job[t].seen = live
          /\ Headroom(live, cover) /\ NewPromise(o, "open")
          /\ Goto(t, "close promised", o, 0)
       \/ /\ promise[o].state = "none" /\ job[t].seen = live
          /\ NewPromise(o, "declined") /\ Goto(t, "close promised", o, 0)
    /\ UNCHANGED <<campaign, quote, session, market, refund, tx, faults>>

CloseQuote(t, o) ==
    /\ \E outcome \in {"promised", "uncovered"} :
         /\ \/ outcome = "promised" /\ At(t, "close promised", o)
            \/ outcome = "uncovered" /\ At(t, "close uncovered", o)
         /\ quote' = [quote EXCEPT ![o] = IF @ = "pending" THEN outcome ELSE @]
    /\ Leave(t)
    /\ UNCHANGED <<campaign, session, market, promise, refund, tx, faults>>

(* A step of it raises: the quote stays pending. *)
PromiseWriteFails(t, o) ==
    /\ job[t].offer = o
    /\ job[t].step \in {"evaluate", "record", "close promised", "close uncovered"}
    /\ Leave(t) /\ Fault
    /\ UNCHANGED <<campaign, quote, session, market, promise, refund, tx>>

-----------------------------------------------------------------------------
(* From the promise to the refund. *)

(* settle_promise: a fill is taken from the validated accept; what is
   refunded is at most the promise, or nothing. *)
Settle(o) ==
    /\ promise[o].state = "open" /\ bid[o] = "sold" /\ indexed[o]
    /\ promise' = [promise EXCEPT ![o].state = "filled"]
    /\ \/ \E d \in 1 .. promise[o].drops :
            refund' = [refund EXCEPT ![o] = [@ EXCEPT !.state = "owed", !.drops = d]]
       \/ refund' = [refund EXCEPT ![o].state = "declined"]
    /\ UNCHANGED <<campaign, quote, session, market, tx, job, faults>>

ReleasePromise(o) ==
    promise' = [promise EXCEPT ![o].state = IF @ = "open" THEN "released" ELSE @]

(* _release_reason: no accept, and a cancel. *)
ReleaseCancelled(o) ==
    /\ job[Sweep] = Idle
    /\ promise[o].state = "open" /\ indexed[o] /\ bid[o] = "cancelled"
    /\ ReleasePromise(o)
    /\ UNCHANGED <<campaign, quote, session, market, refund, tx, job, faults>>

(* Mutant: the archive is trusted as soon as it is past the expiry. *)
ArchivePastAtOnce(o) == cursor[o] >= 1

(* archive_blocker at the expiry and the margin *)
ArchivePast(o) == cursor[o] = 2

(* ... no accept, no cancel, past the expiry, and the archive knows ... *)
Certify(o) ==
    /\ job[Sweep] = Idle
    /\ promise[o].state = "open" /\ ~indexed[o] /\ clock[o] >= 1 /\ ArchivePast(o)
    /\ Goto(Sweep, "certified", o, 0)
    /\ UNCHANGED <<campaign, quote, session, market, promise, refund, tx, faults>>

(* ... and still no accept. *)
ReleaseExpired(o) ==
    /\ At(Sweep, "certified", o) /\ Leave(Sweep)
    /\ IF indexed[o] /\ bid[o] = "sold" THEN UNCHANGED promise ELSE ReleasePromise(o)
    /\ UNCHANGED <<campaign, quote, session, market, refund, tx, faults>>

-----------------------------------------------------------------------------
(* From the refund to the payout. *)
SetRefund(o, from, to) ==
    refund' = [refund EXCEPT ![o].state = IF @ \in from THEN to ELSE @]

(* Mutant: a refund that was returned counts as given up. *)
ClaimForPayoutOnce(o) ==
    /\ job[Sweep] = Idle
    /\ refund[o].state = "owed" /\ refund[o].attempt = 0 /\ MaxAttempts > 0
    /\ refund' = [refund EXCEPT ![o] = [@ EXCEPT !.state = "submitted",
                                                 !.attempt = refund[o].attempt + 1]]
    /\ Goto(Sweep, "claimed", o, refund[o].attempt + 1)
    /\ UNCHANGED <<campaign, quote, session, market, promise, tx, faults>>

(* claim_for_payout: one conditional write records the deadline. *)
ClaimForPayout(o) ==
    /\ job[Sweep] = Idle
    /\ refund[o].state = "owed" /\ refund[o].attempt < MaxAttempts
    /\ refund' = [refund EXCEPT ![o] = [@ EXCEPT !.state = "submitted",
                                                 !.attempt = refund[o].attempt + 1]]
    /\ Goto(Sweep, "claimed", o, refund[o].attempt + 1)
    /\ UNCHANGED <<campaign, quote, session, market, promise, tx, faults>>

(* send_fee_cover_refund: past its deadline the transaction cannot land. *)
SendRefund(o) ==
    /\ At(Sweep, "claimed", o) /\ Goto(Sweep, "sent", o, job[Sweep].seen)
    /\ tx' = [tx EXCEPT ![o][job[Sweep].seen] = IF @ = "unsent" THEN "live" ELSE @]
    /\ UNCHANGED <<campaign, quote, session, market, promise, refund, faults>>

(* ClaimNotSubmitted: nothing was sent, and nothing will be. *)
ReturnToOwed(o) ==
    /\ At(Sweep, "claimed", o) /\ Leave(Sweep) /\ Fault
    /\ job[Sweep].seen < MaxAttempts
    /\ SetRefund(o, {"submitted"}, "owed")
    /\ tx' = [tx EXCEPT ![o][job[Sweep].seen] = "dead"]
    /\ UNCHANGED <<campaign, quote, session, market, promise>>

PayoutLands(o, a) ==
    /\ tx[o][a] = "live" /\ tx' = [tx EXCEPT ![o][a] = "landed"]
    /\ UNCHANGED <<campaign, quote, session, market, promise, refund, job, faults>>

(* It fails, or its deadline passes, sent or not. *)
PayoutDies(o, a) ==
    /\ a <= refund[o].attempt
    /\ tx[o][a] \in {"unsent", "live"} /\ tx' = [tx EXCEPT ![o][a] = "dead"]
    /\ UNCHANGED <<campaign, quote, session, market, promise, refund, job, faults>>

(* Mutant: an unknown outcome is retried. *)
RecordPayoutRetried(o) ==
    LET fate == tx[o][job[Sweep].seen] IN
    /\ At(Sweep, "sent", o) /\ Leave(Sweep)
    /\ \/ fate = "landed" /\ SetRefund(o, {"submitted", "failed"}, "confirmed")
       \/ fate = "dead" /\ SetRefund(o, {"submitted"}, "failed")
       \/ SetRefund(o, {"submitted"}, "owed")
    /\ UNCHANGED <<campaign, quote, session, market, promise, tx, faults>>

(* record_payout by the payer: confirmed overrides failed, and an unknown
   outcome leaves the row for recovery. *)
RecordPayout(o) ==
    LET fate == tx[o][job[Sweep].seen] IN
    /\ At(Sweep, "sent", o) /\ Leave(Sweep)
    /\ \/ fate = "landed" /\ SetRefund(o, {"submitted", "failed"}, "confirmed")
       \/ fate = "dead" /\ SetRefund(o, {"submitted"}, "failed")
       \/ UNCHANGED refund
    /\ UNCHANGED <<campaign, quote, session, market, promise, tx, faults>>

(* recover_refunds: the rows and the validated ledger are read first ... *)
RecoverRead(t, o) ==
    /\ job[t] = Idle /\ refund[o].state = "submitted"
    /\ LET past == tx[o][refund[o].attempt] \in {"landed", "dead"} IN
       Goto(t, IF past THEN "recover past" ELSE "recover", o, refund[o].attempt)
    /\ UNCHANGED <<campaign, quote, session, market, promise, refund, tx, faults>>

(* find_fee_cover_payment: the account's history from a claim on. *)
FoundSince(o, claim) == \E a \in claim .. MaxAttempts : tx[o][a] = "landed"

(* ... then the account is scanned from the row's claim on. *)
RecoverFound(t, o) ==
    /\ At(t, "recover", o) \/ At(t, "recover past", o)
    /\ FoundSince(o, job[t].seen) /\ SetRefund(o, {"submitted", "failed"}, "confirmed") /\ Leave(t)
    /\ UNCHANGED <<campaign, quote, session, market, promise, tx, faults>>

(* Mutant: absence is a failure before the deadline too. *)
RecoverAbsentEarly(t, o) ==
    /\ At(t, "recover", o) \/ At(t, "recover past", o)
    /\ ~FoundSince(o, job[t].seen) /\ Leave(t)
    /\ SetRefund(o, {"submitted"}, "failed")
    /\ UNCHANGED <<campaign, quote, session, market, promise, tx, faults>>

RecoverAbsent(t, o) ==
    /\ At(t, "recover", o) \/ At(t, "recover past", o)
    /\ ~FoundSince(o, job[t].seen) /\ Leave(t)
    /\ IF At(t, "recover past", o)
          /\ (SpanningRecovery \/ refund[o].attempt = job[t].seen)
       THEN SetRefund(o, {"submitted"}, "failed")
       ELSE UNCHANGED refund
    /\ UNCHANGED <<campaign, quote, session, market, promise, tx, faults>>

(* --requeue: the script scans once more, then writes. *)
RequeueScan(o) ==
    /\ job[Beside] = Idle
    /\ refund[o].state = "failed" /\ ~FoundSince(o, refund[o].attempt)
    /\ refund[o].attempt < MaxAttempts
    /\ Goto(Beside, "requeue", o, 0)
    /\ UNCHANGED <<campaign, quote, session, market, promise, refund, tx, faults>>

(* requeue_failed *)
Requeue(o) ==
    /\ At(Beside, "requeue", o) /\ Leave(Beside)
    /\ IF Headroom(promise[o].campaign, refund[o].drops)
       THEN SetRefund(o, {"failed"}, "owed")
       ELSE UNCHANGED refund
    /\ UNCHANGED <<campaign, quote, session, market, promise, tx, faults>>

-----------------------------------------------------------------------------
(* The service restarts: sessions and everything in progress are gone. *)
Crash ==
    /\ Fault
    /\ session' = [o \in Offers |-> "none"]
    /\ job' = [t \in Tasks |-> Idle]
    /\ UNCHANGED <<campaign, quote, market, promise, refund, tx>>

Finalize(t, o) == Evaluate(t, o) \/ RecordPromise(t, o) \/ CloseQuote(t, o)
Recovery(t, o) == RecoverRead(t, o) \/ RecoverFound(t, o) \/ RecoverAbsent(t, o)
Release(o) == ReleaseCancelled(o) \/ Certify(o) \/ ReleaseExpired(o)
PayRefund(o) == ClaimForPayout(o) \/ SendRefund(o) \/ RecordPayout(o)

Ledger(o) == \/ BidMoves(o) \/ BidLapses(o) \/ TimePasses(o)
             \/ \E a \in Attempts : PayoutLands(o, a) \/ PayoutDies(o, a)
Archive(o) == Index(o) \/ FlushCursor(o)

Next ==
    \/ \E b \in Budgets, k \in Covers : StartCampaign(b, k) \/ UpdateCampaign(b, k)
    \/ StopCampaign
    \/ Crash
    \/ \E o \in Offers :
         \/ QuoteBid(o) \/ Ledger(o) \/ Archive(o)
         \/ AdvanceSession(o) \/ Reconcile(o) \/ Abandon(o)
         \/ \E t \in {o, Sweep} : Finalize(t, o) \/ PromiseWriteFails(t, o)
         \/ Settle(o) \/ Release(o)
         \/ PayRefund(o) \/ ReturnToOwed(o) \/ RequeueScan(o) \/ Requeue(o)
         \/ \E t \in {Sweep, Beside} : Recovery(t, o)

Spec == Init /\ [][Next]_vars

(* Every two minutes the sweep does all of its work on every row; signing
   requests lapse, the listener follows the ledger, payouts end.  What can
   only happen finitely often shares one condition. *)
Fairness ==
    \A o \in Offers :
      /\ WF_vars(\/ BidLapses(o) \/ Index(o) \/ AdvanceSession(o)
                 \/ Finalize(o, o) \/ Finalize(Sweep, o) \/ Settle(o) \/ ReleaseExpired(o)
                 \/ SendRefund(o) \/ RecordPayout(o)
                 \/ \E a \in Attempts : PayoutLands(o, a) \/ PayoutDies(o, a))
      /\ SF_vars(Reconcile(o)) /\ SF_vars(ClaimForPayout(o)) /\ SF_vars(RecoverRead(Sweep, o))
      /\ \A t \in {Sweep, Beside} : WF_vars(RecoverFound(t, o) \/ RecoverAbsent(t, o))

FairSpec == Spec /\ Fairness

-----------------------------------------------------------------------------
(* No refund is paid twice, whatever crashes, recoveries and requeues come
   between its claims. *)
PaidOnce == \A o \in Offers : Cardinality({a \in Attempts : tx[o][a] = "landed"}) <= 1

(* requeue_failed: "A failed payout can never validate later".  And a
   confirmed refund was paid. *)
VerdictsAreFinal ==
    \A o \in Offers :
      /\ refund[o].state = "failed" =>
           \A a \in 1 .. refund[o].attempt : tx[o][a] = "dead"
      /\ refund[o].state = "confirmed" => FoundSince(o, 1)

(* A promise is never given back while its bid was sold: the archive's lag
   is allowed for. *)
SoldIsNeverReleased == \A o \in Offers : promise[o].state = "released" => bid[o] # "sold"

(* What a closed quote records is true: "promised" has its promise, and only
   a bid that can never be on the ledger is dead. *)
QuoteTellsTheTruth ==
    \A o \in Offers :
      /\ quote[o] = "promised" => promise[o].state # "none"
      /\ quote[o] = "dead" => bid[o] = "lapsed"

(* The buyer's cover survives failed writes, lost sessions and restarts:
   every quote gets its answer, every covered sale is decided, and every
   refund owed is paid or parked. *)
CoverIsHonoured ==
    \A o \in Offers :
      /\ quote[o] = "pending" ~> quote[o] # "pending"
      /\ promise[o].state = "open" /\ bid[o] = "sold"
           ~> refund[o].state \in {"confirmed", "failed", "declined"}
=============================================================================

--------------------------- MODULE FeeCoverProofs ---------------------------
(***************************************************************************)
(* Proofs about FeeCover, for any number of bids, campaigns, attempts and  *)
(* faults.                                                                 *)
(*                                                                         *)
(* The argument for the refund.  Every attempt before the current one is   *)
(* dead and none after it was sent (Sound), so only the current one can    *)
(* have landed.  The row says "owed" or "failed" only when that one is     *)
(* dead too, because the payer and a recovery know of their own attempt    *)
(* what they claim (TasksKnow).                                            *)
(*                                                                         *)
(* The argument for the promise.  A release needs a cancel, or the         *)
(* archive's word once it is past the bid's expiry: by then a sale would   *)
(* be in it (LedgerKnows, ReleaseKnows), and no sale can follow.           *)
(*                                                                         *)
(* The argument for the budget.  A step reserves for one bid at most, so   *)
(* what is committed, a sum over the bids, moves by what that bid reserves *)
(* (CommittedMoves), and each step that reserves has checked (ReserveStep),*)
(* but the one that confirms a failed refund, which cannot occur.          *)
(***************************************************************************)
EXTENDS FeeCover, FiniteSetTheorems, TLAPS

(* A recovery pass does not outlive the claim it listed: without it the code
   may write off an attempt that is still open (the run fee_cover_spanning).
   Only the theorems about the payouts rest on it. *)
OneClaimPerPass == SpanningRecovery = FALSE

-----------------------------------------------------------------------------
(* The types, but for a refund's bound.                                    *)

Quotes == {"none", "pending", "promised", "uncovered", "dead", "abandoned"}
Bids == OnLedger \cup {"none", "asked", "lapsed"}
Promises == [state : {"none", "open", "filled", "released", "declined"},
             campaign : Campaigns \cup {0}, drops : Covers \cup {0}]
Refunds == [state : {"none", "owed", "submitted", "confirmed", "failed", "declined"},
            drops : Nat, attempt : 0 .. MaxAttempts]
Fates == {"unsent", "live", "landed", "dead"}
Jobs == {Idle} \cup [step : Steps, offer : Offers, seen : Nat]

MarketTypes ==
    /\ live \in Campaigns \cup {0} /\ cover \in Covers
    /\ budget \in [Campaigns -> Budgets \cup {0}]
    /\ quote \in [Offers -> Quotes]
    /\ session \in [Offers -> {"none", "live", "done"}]
    /\ bid \in [Offers -> Bids]
    /\ clock \in [Offers -> 0 .. 3] /\ cursor \in [Offers -> 0 .. 2]
    /\ indexed \in [Offers -> BOOLEAN]
    /\ faults \in 0 .. MaxFaults

RefundTypes ==
    /\ promise \in [Offers -> Promises] /\ refund \in [Offers -> Refunds]
    /\ tx \in [Offers -> [Attempts -> Fates]]
    /\ job \in [Tasks -> Jobs]

-----------------------------------------------------------------------------
(* The invariant. *)

(* A promise that is not settled has no refund yet. *)
UnsettledIsUnpaid ==
    \A o \in Offers : promise[o].state \in {"none", "open"} =>
        refund[o] = [state |-> "none", drops |-> 0, attempt |-> 0]
WithinPromise == \A o \in Offers : refund[o].drops <= promise[o].drops

(* Of a row r and its payouts x, only the current attempt may have landed or
   may still, and the row says of it what is true. *)
Sound(r, x) ==
    /\ \A a \in Attempts :
         /\ a < r.attempt => x[a] = "dead"
         /\ a > r.attempt => x[a] = "unsent"
    /\ r.state \in {"owed", "failed"} /\ r.attempt # 0 => x[r.attempt] = "dead"
    /\ r.state \in {"submitted", "confirmed", "failed"} => r.attempt # 0
    /\ r.state = "confirmed" => x[r.attempt] = "landed"
RowIsTrue == \A o \in Offers : Sound(refund[o], tx[o])

(* The payer's attempt is the current one, unsent until it sends it. *)
PayerKnows(j, r, x) ==
    /\ j.step \in {"claimed", "sent"} => j.seen = r.attempt /\ r.attempt # 0
    /\ j.step = "claimed" => x[r.attempt] \in {"unsent", "dead"}

(* A recovery that saw its attempt's deadline pass knows that it is decided. *)
RecoveryKnows(j, r, x) ==
    /\ j.step \in {"recover", "recover past"} => j.seen \in 1 .. r.attempt
    /\ j.step = "recover past" => x[j.seen] \in {"landed", "dead"}

TasksKnow ==
    \A o \in Offers :
        /\ job[Sweep].offer = o => PayerKnows(job[Sweep], refund[o], tx[o])
        /\ \A t \in {Sweep, Beside} :
             job[t].offer = o => RecoveryKnows(job[t], refund[o], tx[o])

TypeInv == MarketTypes /\ RefundTypes /\ UnsettledIsUnpaid /\ WithinPromise
PayInv ==
    /\ RefundTypes /\ UnsettledIsUnpaid /\ WithinPromise
    /\ RowIsTrue /\ TasksKnow

(* What the archive's cursor and the quote say of a bid. *)
LedgerKnows ==
    \A o \in Offers :
        /\ cursor[o] <= clock[o]
        /\ cursor[o] = 2 /\ bid[o] = "sold" => indexed[o]
        /\ quote[o] = "none" => bid[o] = "none"
        /\ quote[o] = "dead" => bid[o] = "lapsed"

(* What a release rests on. *)
ReleaseKnows ==
    \A o \in Offers :
        /\ At(Sweep, "certified", o) => cursor[o] = 2
        /\ promise[o].state = "released" =>
             bid[o] = "cancelled" \/ (bid[o] # "sold" /\ clock[o] >= 1)

(* The promise comes before the quote that says it was made. *)
CloseKnows ==
    \A o \in Offers :
        /\ \A t \in Tasks : At(t, "close promised", o) => promise[o].state # "none"
        /\ quote[o] = "promised" => promise[o].state # "none"

PromiseInv == MarketTypes /\ RefundTypes /\ LedgerKnows /\ ReleaseKnows /\ CloseKnows

-----------------------------------------------------------------------------
(* Steps that pay nothing. *)

(* Everything that is done for one bid. *)
Step(o) ==
    \/ QuoteBid(o) \/ Ledger(o) \/ Archive(o)
    \/ AdvanceSession(o) \/ Reconcile(o) \/ Abandon(o)
    \/ \E t \in {o, Sweep} : Finalize(t, o) \/ PromiseWriteFails(t, o)
    \/ Settle(o) \/ Release(o)
    \/ PayRefund(o) \/ ReturnToOwed(o) \/ RequeueScan(o) \/ Requeue(o)
    \/ \E t \in {Sweep, Beside} : Recovery(t, o)

Pays(o) ==
    \/ \E a \in Attempts : PayoutLands(o, a) \/ PayoutDies(o, a)
    \/ PayRefund(o) \/ ReturnToOwed(o) \/ Requeue(o)
    \/ \E t \in {Sweep, Beside} : Recovery(t, o)

(* A step is one for one bid, or one for a campaign, or a restart. *)
LEMMA NextSteps ==
  ASSUME [Next]_vars
  PROVE  \/ \E o \in Offers : Step(o)
         \/ \E b \in Budgets, k \in Covers : StartCampaign(b, k) \/ UpdateCampaign(b, k)
         \/ StopCampaign \/ Crash \/ UNCHANGED vars
BY DEF Next, Step

(* The steps of the bid, its clock and the archive. *)
Market(o) == QuoteBid(o) \/ BidMoves(o) \/ BidLapses(o) \/ TimePasses(o) \/ Index(o) \/ FlushCursor(o)

(* Only the steps of the bid, its clock and the archive move them. *)
LEMMA MarketMoves ==
  ASSUME [Next]_vars, \A o \in Offers : ~Market(o)
  PROVE  UNCHANGED market
<1>1. ASSUME NEW o \in Offers, Step(o)
      PROVE  UNCHANGED market
  BY <1>1 DEF Market, Step, Ledger, PayoutLands, PayoutDies,
     Archive, AdvanceSession, Reconcile, Abandon, Finalize, Evaluate,
     RecordPromise, CloseQuote, PromiseWriteFails, Settle, Release, ReleaseCancelled, Certify,
     ReleaseExpired, PayRefund, ClaimForPayout, SendRefund, RecordPayout, ReturnToOwed,
     RequeueScan, Requeue, Recovery, RecoverRead, RecoverFound, RecoverAbsent
<1> QED BY <1>1, NextSteps DEF StartCampaign, UpdateCampaign, StopCampaign, Crash, vars, market

(* The types outside the promises and the refunds. *)
LEMMA MarketTypeStep ==
  ASSUME MarketTypes, [Next]_vars
  PROVE  MarketTypes'
<1>1. ASSUME NEW o \in Offers, Step(o)
      PROVE  UNCHANGED campaign
  BY <1>1 DEF Step, QuoteBid, Ledger, BidMoves, BidLapses, TimePasses, PayoutLands, PayoutDies,
     Archive, Index, FlushCursor, AdvanceSession, Reconcile, Abandon, Finalize, Evaluate,
     RecordPromise, CloseQuote, PromiseWriteFails, Settle, Release, ReleaseCancelled, Certify,
     ReleaseExpired, PayRefund, ClaimForPayout, SendRefund, RecordPayout, ReturnToOwed,
     RequeueScan, Requeue, Recovery, RecoverRead, RecoverFound, RecoverAbsent
<1>2. live' \in Campaigns \cup {0} /\ cover' \in Covers /\ budget' \in [Campaigns -> Budgets \cup {0}]
  <2>1. CASE UNCHANGED campaign
    BY <2>1 DEF MarketTypes, campaign
  <2>2. CASE \E b \in Budgets, k \in Covers : StartCampaign(b, k) \/ UpdateCampaign(b, k)
    BY <2>2 DEF MarketTypes, StartCampaign, UpdateCampaign
  <2>3. CASE StopCampaign
    BY <2>3 DEF MarketTypes, StopCampaign
  <2> QED BY <1>1, <2>1, <2>2, <2>3, NextSteps DEF Crash, vars, campaign
<1>3. quote' \in [Offers -> Quotes]
  <2>1. ASSUME NEW o \in Offers, Step(o)
        PROVE  quote' = quote \/ \E q \in Quotes : quote' = [quote EXCEPT ![o] = q]
    <3>1. CASE QuoteBid(o) \/ Reconcile(o) \/ Abandon(o)
      BY <3>1 DEF QuoteBid, Reconcile, Abandon, Quotes
    <3>2. ASSUME NEW t, CloseQuote(t, o)
          PROVE  \E q \in Quotes : quote' = [quote EXCEPT ![o] = q]
      <4>1. quote[o] \in Quotes
        BY DEF MarketTypes
      <4>2. \E q \in {"promised", "uncovered"} :
              quote' = [quote EXCEPT ![o] = IF quote[o] = "pending" THEN q ELSE quote[o]]
        BY <3>2 DEF CloseQuote
      <4> QED BY <4>1, <4>2 DEF Quotes
    <3>3. CASE ~(QuoteBid(o) \/ Reconcile(o) \/ Abandon(o)) /\ ~\E t \in {o, Sweep} : CloseQuote(t, o)
      BY <2>1, <3>3 DEF Step, Ledger, BidMoves, BidLapses, TimePasses, PayoutLands, PayoutDies,
         Archive, Index, FlushCursor, AdvanceSession, Finalize, Evaluate,
         RecordPromise, PromiseWriteFails, Settle, Release, ReleaseCancelled, Certify,
         ReleaseExpired, PayRefund, ClaimForPayout, SendRefund, RecordPayout, ReturnToOwed,
         RequeueScan, Requeue, Recovery, RecoverRead, RecoverFound, RecoverAbsent
    <3> QED BY <3>1, <3>2, <3>3
  <2>2. CASE ~\E o \in Offers : Step(o)
    <3>1. quote' = quote
      BY <2>2, NextSteps DEF StartCampaign, UpdateCampaign, StopCampaign, Crash, vars
    <3> QED BY <3>1 DEF MarketTypes
  <2> QED BY <2>1, <2>2 DEF MarketTypes
<1>4. session' \in [Offers -> {"none", "live", "done"}]
  <2>1. ASSUME NEW o \in Offers, Step(o)
        PROVE  session' = session \/ \E q \in {"live", "done"} : session' = [session EXCEPT ![o] = q]
    BY <2>1 DEF Step, QuoteBid, Ledger, BidMoves, BidLapses, TimePasses, PayoutLands, PayoutDies,
       Archive, Index, FlushCursor, AdvanceSession, Reconcile, Abandon, Finalize, Evaluate,
       RecordPromise, CloseQuote, PromiseWriteFails, Settle, Release, ReleaseCancelled, Certify,
       ReleaseExpired, PayRefund, ClaimForPayout, SendRefund, RecordPayout, ReturnToOwed,
       RequeueScan, Requeue, Recovery, RecoverRead, RecoverFound, RecoverAbsent
  <2> QED BY <2>1, NextSteps DEF MarketTypes, StartCampaign, UpdateCampaign, StopCampaign, Crash, vars
<1>5. /\ bid' \in [Offers -> Bids]
      /\ clock' \in [Offers -> 0 .. 3] /\ cursor' \in [Offers -> 0 .. 2]
      /\ indexed' \in [Offers -> BOOLEAN]
  <2>1. ASSUME \A o \in Offers : ~Market(o)
        PROVE  UNCHANGED market
    BY <2>1, MarketMoves
  <2>2. ASSUME NEW o \in Offers, QuoteBid(o) \/ BidMoves(o) \/ BidLapses(o)
        PROVE  UNCHANGED <<clock, cursor, indexed>> /\ bid' \in [Offers -> Bids]
    <3>1. /\ UNCHANGED <<clock, cursor, indexed>>
          /\ \E b \in Bids : bid' = [bid EXCEPT ![o] = b]
      BY <2>2 DEF QuoteBid, BidMoves, BidLapses, Bids, OnLedger
    <3> QED BY <3>1 DEF MarketTypes
  <2>3. ASSUME NEW o \in Offers, TimePasses(o) \/ FlushCursor(o) \/ Index(o)
        PROVE  /\ bid' = bid /\ indexed' \in [Offers -> BOOLEAN]
               /\ clock' \in [Offers -> 0 .. 3] /\ cursor' \in [Offers -> 0 .. 2]
    <3>1. CASE Index(o)
      BY <3>1 DEF MarketTypes, Index
    <3>2. CASE TimePasses(o)
      <4>1. clock[o] + 1 \in 0 .. 3
        BY <3>2, FeeCoverAssumption DEF MarketTypes, TimePasses
      <4> QED BY <3>2, <4>1 DEF MarketTypes, TimePasses
    <3>3. CASE FlushCursor(o)
      <4>1. cursor[o] + 1 \in 0 .. 2
        BY <3>3 DEF MarketTypes, FlushCursor
      <4> QED BY <3>3, <4>1 DEF MarketTypes, FlushCursor
    <3> QED BY <2>3, <3>1, <3>2, <3>3
  <2>4. CASE UNCHANGED market
    BY <2>4 DEF MarketTypes, market
  <2> QED BY <2>1, <2>2, <2>3, <2>4 DEF MarketTypes, Market
<1>6. faults' \in 0 .. MaxFaults
  <2>1. ASSUME NEW o \in Offers, Step(o)
        PROVE  faults' = faults \/ Fault
    BY <2>1 DEF Step, QuoteBid, Ledger, BidMoves, BidLapses, TimePasses, PayoutLands, PayoutDies,
       Archive, Index, FlushCursor, AdvanceSession, Reconcile, Abandon, Finalize, Evaluate,
       RecordPromise, CloseQuote, PromiseWriteFails, Settle, Release, ReleaseCancelled, Certify,
       ReleaseExpired, PayRefund, ClaimForPayout, SendRefund, RecordPayout, ReturnToOwed,
       RequeueScan, Requeue, Recovery, RecoverRead, RecoverFound, RecoverAbsent
  <2>2. faults' = faults \/ Fault
    BY <2>1, NextSteps DEF StartCampaign, UpdateCampaign, StopCampaign, Crash, vars
  <2> QED BY <2>2, FeeCoverAssumption DEF MarketTypes, Fault
<1> QED BY <1>2, <1>3, <1>4, <1>5, <1>6 DEF MarketTypes

-----------------------------------------------------------------------------
(* A step that pays nothing leaves the payouts, and no refund begins but by
   settling an open promise. *)
PaySteps == {"claimed", "sent", "recover", "recover past"}

(* The payouts and the tasks that know of them. *)
LEMMA Quiet ==
  ASSUME RefundTypes, live \in Nat, [Next]_vars, \A o \in Offers : ~Pays(o)
  PROVE  /\ tx' = tx
         /\ refund' = refund \/ \E o \in Offers : Settle(o)
         /\ \A t \in Tasks : job'[t] = job[t] \/ job'[t].step \notin PaySteps
         /\ job' \in [Tasks -> Jobs]
<1> DEFINE Moved == \/ UNCHANGED job
                    \/ \E t \in Tasks : Leave(t)
                    \/ \E t \in Tasks, st \in Steps \ PaySteps, o \in Offers, n \in Nat : Goto(t, st, o, n)
                    \/ job' = [t \in Tasks |-> Idle]
<1>1. Moved => /\ \A t \in Tasks : job'[t] = job[t] \/ job'[t].step \notin PaySteps
               /\ job' \in [Tasks -> Jobs]
  <2>1. job \in [Tasks -> Jobs] /\ Idle \in Jobs /\ Idle.step \notin PaySteps
    BY DEF RefundTypes, Jobs, Idle, PaySteps
  <2>2. ASSUME NEW t \in Tasks, Leave(t)
        PROVE  /\ \A u \in Tasks : job'[u] = job[u] \/ job'[u].step \notin PaySteps
               /\ job' \in [Tasks -> Jobs]
    BY <2>1, <2>2 DEF Leave
  <2>3. ASSUME NEW t \in Tasks, NEW st \in Steps \ PaySteps, NEW o \in Offers,
               NEW n \in Nat, Goto(t, st, o, n)
        PROVE  /\ \A u \in Tasks : job'[u] = job[u] \/ job'[u].step \notin PaySteps
               /\ job' \in [Tasks -> Jobs]
    <3>1. [step |-> st, offer |-> o, seen |-> n] \in Jobs
      BY DEF Jobs
    <3> QED BY <2>1, <2>3, <3>1 DEF Goto
  <2> QED BY <2>1, <2>2, <2>3
<1>2. ASSUME NEW o \in Offers, Step(o)
      PROVE  tx' = tx /\ (refund' = refund \/ Settle(o))
  BY <1>2 DEF Step, Pays, QuoteBid, Ledger, BidMoves, BidLapses, TimePasses,
     Archive, Index, FlushCursor, AdvanceSession, Reconcile, Abandon, Finalize, Evaluate,
     RecordPromise, CloseQuote, PromiseWriteFails, Settle, Release, ReleaseCancelled, Certify,
     ReleaseExpired, RequeueScan
<1>3. ASSUME NEW o \in Offers, Step(o)
      PROVE  Moved
  <2>1. CASE Certify(o) \/ ReleaseExpired(o) \/ RequeueScan(o) \/ AdvanceSession(o) \/ Reconcile(o)
    BY <2>1 DEF Certify, ReleaseExpired, RequeueScan, AdvanceSession, Reconcile, Tasks, Steps,
       PaySteps
  <2>2. ASSUME NEW t \in {o, Sweep}, Finalize(t, o) \/ PromiseWriteFails(t, o)
        PROVE  Moved
    BY <2>2 DEF Finalize, Evaluate, RecordPromise, CloseQuote, PromiseWriteFails, Tasks, Steps,
       PaySteps
  <2>3. CASE QuoteBid(o) \/ BidMoves(o) \/ BidLapses(o) \/ TimePasses(o) \/ Archive(o) \/ Abandon(o)
             \/ Settle(o) \/ ReleaseCancelled(o)
    BY <2>3 DEF QuoteBid, BidMoves, BidLapses, TimePasses, Archive, Index, FlushCursor, Abandon,
       Settle, ReleaseCancelled
  <2> QED BY <1>3, <2>1, <2>2, <2>3 DEF Step, Pays, Ledger, Release
<1>4. Moved
  BY <1>3, NextSteps DEF StartCampaign, UpdateCampaign, StopCampaign, Crash, vars
<1> HIDE DEF Moved
<1>5. tx' = tx /\ (refund' = refund \/ \E o \in Offers : Settle(o))
  BY <1>2, NextSteps DEF StartCampaign, UpdateCampaign, StopCampaign, Crash, vars
<1> QED BY <1>1, <1>4, <1>5

-----------------------------------------------------------------------------
(* The promise. *)

(* A promise is made once, and settled or released once. *)
LEMMA PromiseMoves ==
  ASSUME MarketTypes, RefundTypes, [Next]_vars
  PROVE  /\ promise' \in [Offers -> Promises]
         /\ \A o \in Offers :
              \/ promise'[o] = promise[o]
              \/ promise[o].state = "none" /\ promise'[o].state \in {"open", "declined"}
              \/ /\ promise[o].state = "open" /\ promise'[o].state \in {"filled", "released"}
                 /\ promise'[o].drops = promise[o].drops
<1>1. promise \in [Offers -> Promises] /\ cover \in Covers /\ live \in Campaigns \cup {0}
  BY DEF RefundTypes, MarketTypes
<1> DEFINE Goal == /\ promise' \in [Offers -> Promises]
                   /\ \A o \in Offers :
                        \/ promise'[o] = promise[o]
                        \/ promise[o].state = "none" /\ promise'[o].state \in {"open", "declined"}
                        \/ /\ promise[o].state = "open" /\ promise'[o].state \in {"filled", "released"}
                           /\ promise'[o].drops = promise[o].drops
<1>2. ASSUME NEW o \in Offers, NEW t, RecordPromise(t, o)
      PROVE  Goal
  <2>1. CASE promise' = promise
    BY <1>1, <2>1
  <2>2. ASSUME NEW st \in {"open", "declined"}, NewPromise(o, st), promise[o].state = "none"
        PROVE  Goal
    <3>1. [state |-> st, campaign |-> live, drops |-> cover] \in Promises
      BY <1>1 DEF Promises
    <3> QED BY <1>1, <2>2, <3>1 DEF NewPromise
  <2> QED BY <1>2, <2>1, <2>2 DEF RecordPromise
<1>3. ASSUME NEW o \in Offers, Settle(o)
      PROVE  Goal
  <2>1. promise[o].state = "open" /\ promise' = [promise EXCEPT ![o].state = "filled"]
    BY <1>3 DEF Settle
  <2> QED BY <1>1, <2>1 DEF Promises
<1>4. ASSUME NEW o \in Offers, ReleaseCancelled(o) \/ ReleaseExpired(o)
      PROVE  Goal
  <2>1. promise' = promise \/ promise' = [promise EXCEPT ![o].state = IF @ = "open" THEN "released" ELSE @]
    BY <1>4 DEF ReleaseCancelled, ReleaseExpired, ReleasePromise
  <2> QED BY <1>1, <2>1 DEF Promises
<1>5. ASSUME NEW o \in Offers, Step(o), ~Settle(o), ~ReleaseCancelled(o), ~ReleaseExpired(o),
             \A t \in {o, Sweep} : ~RecordPromise(t, o)
      PROVE  promise' = promise
  BY <1>5 DEF Step, QuoteBid, Ledger, BidMoves, BidLapses, TimePasses, PayoutLands, PayoutDies,
     Archive, Index, FlushCursor, AdvanceSession, Reconcile, Abandon, Finalize, Evaluate,
     CloseQuote, PromiseWriteFails, Release, Certify,
     PayRefund, ClaimForPayout, SendRefund, RecordPayout, ReturnToOwed,
     RequeueScan, Requeue, Recovery, RecoverRead, RecoverFound, RecoverAbsent
<1>6. (\A o \in Offers : ~Step(o)) => promise' = promise
  BY NextSteps DEF StartCampaign, UpdateCampaign, StopCampaign, Crash, vars
<1> QED BY <1>1, <1>2, <1>3, <1>4, <1>5, <1>6

(* What is promised is a number of drops. *)
LEMMA DropsAreNat ==
  ASSUME NEW q \in Promises
  PROVE  q.drops \in Nat
<1>1. q.drops \in Covers \cup {0}
  BY DEF Promises
<1>2. Covers \subseteq Nat
  BY FeeCoverAssumption
<1>3. CASE q.drops = 0
  BY <1>3
<1>4. CASE q.drops \in Covers
  BY <1>2, <1>4, Zenon
<1> QED BY <1>1, <1>3, <1>4, Zenon

(* Settling decides the refund of a promise that had none. *)
LEMMA SettleIs ==
  ASSUME RefundTypes, UnsettledIsUnpaid, NEW o \in Offers, Settle(o)
  PROVE  /\ promise[o].state = "open" /\ promise[o].drops \in Nat
         /\ promise'[o].state = "filled" /\ promise'[o].drops = promise[o].drops
         /\ \A p \in Offers \ {o} : refund'[p] = refund[p] /\ promise'[p] = promise[p]
         /\ refund[o].attempt = 0 /\ UNCHANGED <<tx, job>>
         /\ refund' \in [Offers -> Refunds]
         /\ \E d \in 0 .. promise[o].drops, st \in {"owed", "declined"} :
              refund'[o] = [state |-> st, drops |-> d, attempt |-> 0]
<1>1. /\ promise[o].state = "open" /\ promise' = [promise EXCEPT ![o].state = "filled"]
      /\ \/ \E d \in 1 .. promise[o].drops :
               refund' = [refund EXCEPT ![o] = [refund[o] EXCEPT !.state = "owed", !.drops = d]]
         \/ refund' = [refund EXCEPT ![o].state = "declined"]
      /\ UNCHANGED <<tx, job>>
  BY DEF Settle
<1>2. refund[o] = [state |-> "none", drops |-> 0, attempt |-> 0]
  BY <1>1 DEF UnsettledIsUnpaid
<1>3. /\ refund \in [Offers -> Refunds] /\ promise \in [Offers -> Promises]
      /\ promise[o].drops \in Nat
  <2>1. refund \in [Offers -> Refunds] /\ promise \in [Offers -> Promises]
    BY DEF RefundTypes
  <2>2. promise[o].drops \in Nat
    BY <2>1, DropsAreNat
  <2> QED BY <2>1, <2>2
<1>4. \E d \in 0 .. promise[o].drops, st \in {"owed", "declined"} :
        refund' = [refund EXCEPT ![o] = [state |-> st, drops |-> d, attempt |-> 0]]
  <2>1. CASE refund' = [refund EXCEPT ![o].state = "declined"]
    <3>1. [refund[o] EXCEPT !.state = "declined"] = [state |-> "declined", drops |-> 0, attempt |-> 0]
      BY <1>2
    <3>2. 0 \in 0 .. promise[o].drops
      BY <1>3
    <3> QED BY <2>1, <3>1, <3>2
  <2>2. ASSUME NEW d \in 1 .. promise[o].drops,
               refund' = [refund EXCEPT ![o] = [refund[o] EXCEPT !.state = "owed", !.drops = d]]
        PROVE  \E e \in 0 .. promise[o].drops, st \in {"owed", "declined"} :
                 refund' = [refund EXCEPT ![o] = [state |-> st, drops |-> e, attempt |-> 0]]
    <3>1. [refund[o] EXCEPT !.state = "owed", !.drops = d] = [state |-> "owed", drops |-> d, attempt |-> 0]
      <4>1. [[state |-> "none", drops |-> 0, attempt |-> 0] EXCEPT !.state = "owed"]
              = [state |-> "owed", drops |-> 0, attempt |-> 0]
        OBVIOUS
      <4>2. [[state |-> "owed", drops |-> 0, attempt |-> 0] EXCEPT !.drops = d]
              = [state |-> "owed", drops |-> d, attempt |-> 0]
        OBVIOUS
      <4> QED BY <1>2, <4>1, <4>2
    <3>2. d \in 0 .. promise[o].drops
      BY <1>3
    <3> QED BY <2>2, <3>1, <3>2
  <2> QED BY <1>1, <2>1, <2>2
<1>5. PICK d \in 0 .. promise[o].drops, st \in {"owed", "declined"} :
        refund' = [refund EXCEPT ![o] = [state |-> st, drops |-> d, attempt |-> 0]]
  BY <1>4
<1>6. [state |-> st, drops |-> d, attempt |-> 0] \in Refunds
  BY <1>3, FeeCoverAssumption DEF Refunds
<1>7. /\ refund'[o] = [state |-> st, drops |-> d, attempt |-> 0] /\ refund' \in [Offers -> Refunds]
      /\ \A p \in Offers \ {o} : refund'[p] = refund[p] /\ promise'[p] = promise[p]
  <2>1. \A p \in Offers \ {o} : promise'[p] = promise[p]
    BY <1>1, <1>3
  <2>2. refund'[o] = [state |-> st, drops |-> d, attempt |-> 0] /\ refund' \in [Offers -> Refunds]
    BY <1>3, <1>5, <1>6
  <2>3. \A p \in Offers \ {o} : refund'[p] = refund[p]
    BY <1>3, <1>5
  <2> QED BY <2>1, <2>2, <2>3
<1>8. promise'[o].state = "filled" /\ promise'[o].drops = promise[o].drops
  <2>1. promise'[o] = [promise[o] EXCEPT !.state = "filled"] /\ promise[o] \in Promises
    BY <1>1, <1>3
  <2> QED BY <2>1 DEF Promises
<1>9. \E e \in 0 .. promise[o].drops, s \in {"owed", "declined"} :
        refund'[o] = [state |-> s, drops |-> e, attempt |-> 0]
  BY <1>7
<1>10. refund[o].attempt = 0
  BY <1>2
<1> QED BY <1>1, <1>3, <1>7, <1>8, <1>9, <1>10

(* Steps that pay nothing keep the types ... *)
LEMMA QuietTypes ==
  ASSUME TypeInv, [Next]_vars, \A o \in Offers : ~Pays(o)
  PROVE  /\ RefundTypes' /\ UnsettledIsUnpaid' /\ WithinPromise'
         /\ tx' = tx
         /\ refund' = refund \/ \E o \in Offers : Settle(o)
         /\ \A t \in Tasks : job'[t] = job[t] \/ job'[t].step \notin PaySteps
<1>1. /\ tx' = tx /\ job' \in [Tasks -> Jobs]
      /\ refund' = refund \/ \E o \in Offers : Settle(o)
      /\ \A t \in Tasks : job'[t] = job[t] \/ job'[t].step \notin PaySteps
  <2>1. live \in Nat
    BY FeeCoverAssumption DEF TypeInv, MarketTypes
  <2> QED BY <2>1, Quiet DEF TypeInv
<1>2. /\ promise' \in [Offers -> Promises]
      /\ \A o \in Offers :
           \/ promise'[o] = promise[o]
           \/ promise[o].state = "none" /\ promise'[o].state \in {"open", "declined"}
           \/ /\ promise[o].state = "open" /\ promise'[o].state \in {"filled", "released"}
              /\ promise'[o].drops = promise[o].drops
  BY PromiseMoves DEF TypeInv
<1>3. CASE refund' = refund
  <2>1. RefundTypes'
    BY <1>1, <1>2, <1>3 DEF TypeInv, RefundTypes
  <2>2. UnsettledIsUnpaid'
    BY <1>1, <1>2, <1>3 DEF TypeInv, UnsettledIsUnpaid
  <2>3. WithinPromise'
    <3> SUFFICES ASSUME NEW o \in Offers
                 PROVE  refund'[o].drops <= promise'[o].drops
      BY DEF WithinPromise
    <3>1. CASE promise[o].state = "none"
      <4>1. refund[o].drops = 0
        BY <3>1 DEF TypeInv, UnsettledIsUnpaid
      <4>2. promise'[o].drops \in Nat
        <5>1. promise'[o] \in Promises
          BY <1>2
        <5> QED BY <5>1, DropsAreNat
      <4> QED BY <1>3, <4>1, <4>2
    <3> QED BY <1>2, <1>3, <3>1 DEF TypeInv, WithinPromise
  <2> QED BY <1>1, <1>3, <2>1, <2>2, <2>3
<1>4. ASSUME NEW o \in Offers, Settle(o)
      PROVE  RefundTypes' /\ UnsettledIsUnpaid' /\ WithinPromise'
  <2>1. /\ promise[o].drops \in Nat
        /\ promise'[o].state = "filled" /\ promise'[o].drops = promise[o].drops
        /\ \A p \in Offers \ {o} : refund'[p] = refund[p] /\ promise'[p] = promise[p]
        /\ refund' \in [Offers -> Refunds]
        /\ \E d \in 0 .. promise[o].drops, st \in {"owed", "declined"} :
             refund'[o] = [state |-> st, drops |-> d, attempt |-> 0]
    BY <1>4, SettleIs DEF TypeInv
  <2>2. RefundTypes'
    BY <1>1, <1>2, <2>1 DEF TypeInv, RefundTypes
  <2>3. refund'[o].drops <= promise'[o].drops
    BY <2>1
  <2> QED BY <2>1, <2>2, <2>3 DEF TypeInv, UnsettledIsUnpaid, WithinPromise
<1> QED BY <1>1, <1>3, <1>4

(* ... and the invariant of the payouts. *)
LEMMA QuietStep ==
  ASSUME PayInv, MarketTypes, [Next]_vars, \A o \in Offers : ~Pays(o)
  PROVE  PayInv'
<1>1. /\ RefundTypes' /\ UnsettledIsUnpaid' /\ WithinPromise'
      /\ tx' = tx
      /\ refund' = refund \/ \E o \in Offers : Settle(o)
      /\ \A t \in Tasks : job'[t] = job[t] \/ job'[t].step \notin PaySteps
  BY QuietTypes DEF TypeInv, PayInv
<1>2. Sweep \in Tasks /\ Beside \in Tasks
  BY DEF Tasks
<1>3. CASE refund' = refund
  <2>1. RowIsTrue'
    BY <1>1, <1>3 DEF PayInv, RowIsTrue
  <2>2. TasksKnow'
    BY <1>1, <1>2, <1>3 DEF PayInv, TasksKnow, PayerKnows, RecoveryKnows, PaySteps
  <2> QED BY <1>1, <2>1, <2>2 DEF PayInv
<1>4. ASSUME NEW o \in Offers, Settle(o)
      PROVE  PayInv'
  <2>1. /\ refund[o].attempt = 0 /\ job' = job
        /\ \A p \in Offers \ {o} : refund'[p] = refund[p]
        /\ \E d \in 0 .. promise[o].drops, st \in {"owed", "declined"} :
             refund'[o] = [state |-> st, drops |-> d, attempt |-> 0]
    BY <1>4, SettleIs DEF PayInv
  <2>2. RowIsTrue'
    BY <1>1, <2>1 DEF PayInv, RowIsTrue, Sound
  <2>3. TasksKnow'
    <3> SUFFICES ASSUME NEW p \in Offers
                 PROVE  /\ job[Sweep].offer = p => PayerKnows(job[Sweep], refund'[p], tx[p])
                        /\ \A t \in {Sweep, Beside} :
                             job[t].offer = p => RecoveryKnows(job[t], refund'[p], tx[p])
      BY <1>1, <2>1 DEF TasksKnow
    <3>1. /\ job[Sweep].offer = p => PayerKnows(job[Sweep], refund[p], tx[p])
          /\ \A t \in {Sweep, Beside} : job[t].offer = p => RecoveryKnows(job[t], refund[p], tx[p])
      BY DEF PayInv, TasksKnow
    <3>2. refund'[p].attempt = refund[p].attempt
      BY <2>1
    <3> QED BY <3>1, <3>2 DEF PayerKnows, RecoveryKnows
  <2> QED BY <1>1, <2>2, <2>3 DEF PayInv
<1> QED BY <1>1, <1>3, <1>4

-----------------------------------------------------------------------------
(* The refund. *)

(* What a step that pays has to show of the one bid it is about. *)
LEMMA PayFrame ==
  ASSUME PayInv, NEW o \in Offers,
         UNCHANGED promise, promise[o].state \notin {"none", "open"} \/ refund'[o] = refund[o],
         refund' \in [Offers -> Refunds], tx' \in [Offers -> [Attempts -> Fates]], job' \in [Tasks -> Jobs],
         \A p \in Offers \ {o} : refund'[p] = refund[p] /\ tx'[p] = tx[p],
         refund'[o].drops = refund[o].drops, Sound(refund'[o], tx'[o]),
         refund'[o].attempt >= refund[o].attempt,
         \A a \in Attempts : tx[o][a] \in {"landed", "dead"} => tx'[o][a] = tx[o][a],
         job'[Sweep].offer = o => PayerKnows(job'[Sweep], refund'[o], tx'[o]),
         \A t \in {Sweep, Beside} :
            \/ job'[t] = job[t]
            \/ job'[t].step \notin PaySteps
            \/ job'[t].offer = o /\ RecoveryKnows(job'[t], refund'[o], tx'[o])
  PROVE  PayInv'
<1>1. RefundTypes' /\ UnsettledIsUnpaid' /\ WithinPromise'
  BY DEF PayInv, RefundTypes, UnsettledIsUnpaid, WithinPromise
<1>2. RowIsTrue'
  BY DEF PayInv, RowIsTrue
<1>3. ASSUME NEW p \in Offers, job'[Sweep].offer = p
      PROVE  PayerKnows(job'[Sweep], refund'[p], tx'[p])
  <2>1. CASE p = o
    BY <1>3, <2>1
  <2>2. CASE p # o /\ job'[Sweep] = job[Sweep]
    BY <1>3, <2>2 DEF PayInv, TasksKnow
  <2>3. CASE p # o /\ job'[Sweep].step \notin PaySteps
    BY <2>3 DEF PayerKnows, PaySteps
  <2> QED BY <1>3, <2>1, <2>2, <2>3
<1>4. ASSUME NEW p \in Offers, NEW t \in {Sweep, Beside}, job'[t].offer = p
      PROVE  RecoveryKnows(job'[t], refund'[p], tx'[p])
  <2>1. CASE job'[t].step \notin PaySteps
    BY <2>1 DEF RecoveryKnows, PaySteps
  <2>2. CASE job'[t].offer = o /\ RecoveryKnows(job'[t], refund'[o], tx'[o])
    BY <1>4, <2>2
  <2>3. CASE job'[t] = job[t]
    <3>1. RecoveryKnows(job[t], refund[p], tx[p])
      BY <1>4, <2>3 DEF PayInv, TasksKnow
    <3>2. CASE p # o
      BY <2>3, <3>1, <3>2
    <3>3. CASE p = o
      <4>1. refund[o].attempt \in 0 .. MaxAttempts /\ refund'[o].attempt \in 0 .. MaxAttempts
        BY DEF PayInv, RefundTypes, Refunds
      <4>2. \A n \in 1 .. refund[o].attempt : n \in Attempts /\ n \in 1 .. refund'[o].attempt
        BY <4>1, FeeCoverAssumption DEF Attempts
      <4> QED BY <2>3, <3>1, <3>3, <4>2 DEF RecoveryKnows
    <3> QED BY <3>2, <3>3
  <2> QED BY <2>1, <2>2, <2>3
<1> QED BY <1>1, <1>2, <1>3, <1>4 DEF PayInv, TasksKnow

(* What is known of one bid before a step that pays. *)
LEMMA PayKnown ==
  ASSUME PayInv, NEW o \in Offers
  PROVE  /\ refund \in [Offers -> Refunds] /\ tx \in [Offers -> [Attempts -> Fates]]
         /\ job \in [Tasks -> Jobs]
         /\ Sweep \in Tasks /\ Beside \in Tasks /\ Sweep # Beside
         /\ Idle \in Jobs /\ Idle.step = "idle" /\ Idle.offer \notin Offers
         /\ refund[o].attempt \in Nat /\ refund[o].attempt \in 0 .. MaxAttempts
         /\ refund[o].attempt # 0 => refund[o].attempt \in Attempts
         /\ refund[o].state # "none" \/ refund[o].attempt # 0 => promise[o].state \notin {"none", "open"}
         /\ Sound(refund[o], tx[o])
         /\ job[Sweep].offer = o => PayerKnows(job[Sweep], refund[o], tx[o])
         /\ \A t \in {Sweep, Beside} : job[t].offer = o => RecoveryKnows(job[t], refund[o], tx[o])
<1>1. /\ refund \in [Offers -> Refunds] /\ tx \in [Offers -> [Attempts -> Fates]]
      /\ job \in [Tasks -> Jobs]
  BY DEF PayInv, RefundTypes
<1>2. Sweep \in Tasks /\ Beside \in Tasks /\ Sweep # Beside
  BY FeeCoverAssumption DEF Tasks
<1>3. Idle \in Jobs /\ Idle.step = "idle" /\ Idle.offer \notin Offers
  BY FeeCoverAssumption DEF Jobs, Idle
<1>4. /\ refund[o].attempt \in Nat /\ refund[o].attempt \in 0 .. MaxAttempts
      /\ refund[o].attempt # 0 => refund[o].attempt \in Attempts
  BY <1>1, FeeCoverAssumption DEF Refunds, Attempts
<1>5. /\ refund[o].state # "none" \/ refund[o].attempt # 0 => promise[o].state \notin {"none", "open"}
      /\ Sound(refund[o], tx[o])
  BY DEF PayInv, UnsettledIsUnpaid, RowIsTrue
<1>6. /\ job[Sweep].offer = o => PayerKnows(job[Sweep], refund[o], tx[o])
      /\ \A t \in {Sweep, Beside} : job[t].offer = o => RecoveryKnows(job[t], refund[o], tx[o])
  BY DEF PayInv, TasksKnow
<1> QED BY <1>1, <1>2, <1>3, <1>4, <1>5, <1>6

(* A claim opens the next attempt: all before it are dead. *)
LEMMA ClaimStep ==
  ASSUME PayInv, NEW o \in Offers, ClaimForPayout(o)
  PROVE  PayInv'
<1> DEFINE n == refund[o].attempt + 1
<1>k. /\ refund \in [Offers -> Refunds] /\ tx \in [Offers -> [Attempts -> Fates]]
      /\ job \in [Tasks -> Jobs]
      /\ Sweep \in Tasks /\ Beside \in Tasks /\ Sweep # Beside
      /\ refund[o].attempt \in Nat
      /\ refund[o].state # "none" => promise[o].state \notin {"none", "open"}
      /\ Sound(refund[o], tx[o])
  BY PayKnown
<1>1. /\ refund[o].state = "owed" /\ refund[o].attempt < MaxAttempts
      /\ refund' = [refund EXCEPT ![o] = [refund[o] EXCEPT !.state = "submitted", !.attempt = n]]
      /\ job' = [job EXCEPT ![Sweep] = [step |-> "claimed", offer |-> o, seen |-> n]]
      /\ tx' = tx /\ UNCHANGED promise
  <2>1. refund[o].state = "owed" /\ refund[o].attempt < MaxAttempts /\ tx' = tx /\ UNCHANGED promise
    BY DEF ClaimForPayout
  <2>2. refund' = [refund EXCEPT ![o] = [refund[o] EXCEPT !.state = "submitted", !.attempt = refund[o].attempt + 1]]
    BY <1>k DEF ClaimForPayout
  <2>3. job' = [job EXCEPT ![Sweep] = [step |-> "claimed", offer |-> o, seen |-> refund[o].attempt + 1]]
    BY DEF ClaimForPayout, Goto
  <2> QED BY <2>1, <2>2, <2>3
<1>2. n \in Nat /\ n \in Attempts /\ n \in 0 .. MaxAttempts /\ n # 0 /\ refund[o].attempt < n
  BY <1>k, <1>1, FeeCoverAssumption DEF Attempts
<1>3. tx[o][n] = "unsent" /\ \A a \in Attempts : a < n => tx[o][a] = "dead"
  <2>1. tx[o][n] = "unsent"
    BY <1>k, <1>2 DEF Sound
  <2>2. ASSUME NEW a \in Attempts, a < n
        PROVE  tx[o][a] = "dead"
    <3>1. a < refund[o].attempt \/ (a = refund[o].attempt /\ refund[o].attempt # 0)
      BY <1>k, <2>2 DEF Attempts
    <3> QED BY <1>k, <1>1, <3>1 DEF Sound
  <2> QED BY <2>1, <2>2
<1> HIDE DEF n
<1>4. /\ refund' \in [Offers -> Refunds]
      /\ refund'[o].state = "submitted" /\ refund'[o].attempt = n
      /\ refund'[o].drops = refund[o].drops
      /\ \A p \in Offers \ {o} : refund'[p] = refund[p]
  <2> DEFINE r == [refund[o] EXCEPT !.state = "submitted", !.attempt = n]
  <2>1. refund[o] \in Refunds
    BY <1>k
  <2>2. r \in Refunds /\ r.state = "submitted" /\ r.attempt = n /\ r.drops = refund[o].drops
    BY <1>2, <2>1 DEF Refunds
  <2>3. refund' = [refund EXCEPT ![o] = r]
    BY <1>1
  <2> HIDE DEF r
  <2> QED BY <1>k, <2>2, <2>3
<1>5. /\ job' \in [Tasks -> Jobs] /\ job'[Beside] = job[Beside]
      /\ job'[Sweep] = [step |-> "claimed", offer |-> o, seen |-> n]
  <2>1. [step |-> "claimed", offer |-> o, seen |-> n] \in Jobs
    BY <1>2 DEF Jobs, Steps
  <2> QED BY <1>k, <1>1, <2>1
<1>6. Sound(refund'[o], tx'[o])
  <2>1. \A a \in Attempts : a > n => a > refund[o].attempt
    BY <1>k, <1>2 DEF Attempts
  <2> QED BY <1>k, <1>1, <1>2, <1>3, <1>4, <2>1 DEF Sound
<1>7. PayerKnows(job'[Sweep], refund'[o], tx'[o]) /\ RecoveryKnows(job'[Sweep], refund'[o], tx'[o])
  BY <1>1, <1>2, <1>3, <1>4, <1>5 DEF PayerKnows, RecoveryKnows
<1>8. \A p \in Offers \ {o} : tx'[p] = tx[p]
  BY <1>1
<1>9. refund'[o].attempt >= refund[o].attempt
  BY <1>k, <1>2, <1>4
<1> QED BY <1>k, <1>1, <1>4, <1>5, <1>6, <1>7, <1>8, <1>9, PayFrame

(* A verdict changes the row, or finds it moved on. *)
LEMMA SetRefundIs ==
  ASSUME NEW o \in Offers, refund \in [Offers -> Refunds], NEW from, NEW to, SetRefund(o, from, to)
  PROVE  UNCHANGED refund \/ (refund[o].state \in from /\ refund' = [refund EXCEPT ![o].state = to])
<1>1. [refund EXCEPT ![o].state = refund[o].state] = refund
  <2>1. [refund[o] EXCEPT !.state = refund[o].state] = refund[o]
    BY DEF Refunds
  <2> QED BY <2>1
<1> QED BY <1>1 DEF SetRefund

(* A task is done with a bid, and leaves the row as it is. *)
LEMMA LeaveStep ==
  ASSUME PayInv, NEW t \in {Sweep, Beside}, Leave(t), UNCHANGED <<promise, refund, tx>>
  PROVE  PayInv'
<1>1. /\ job \in [Tasks -> Jobs] /\ Idle \in Jobs /\ Idle.step = "idle" /\ Idle.offer \notin Offers
      /\ Sweep \in Tasks /\ Beside \in Tasks
  BY FeeCoverAssumption DEF PayInv, RefundTypes, Jobs, Idle, Tasks
<1>2. /\ job' \in [Tasks -> Jobs] /\ \A u \in {Sweep, Beside} : job'[u] = job[u] \/ job'[u] = Idle
  BY <1>1 DEF Leave
<1>3. RefundTypes' /\ UnsettledIsUnpaid' /\ WithinPromise' /\ RowIsTrue'
  BY <1>2 DEF PayInv, RefundTypes, UnsettledIsUnpaid, WithinPromise, RowIsTrue
<1>4. TasksKnow'
  BY <1>1, <1>2 DEF PayInv, TasksKnow
<1> QED BY <1>3, <1>4 DEF PayInv

(* A verdict on the current attempt, by the payer or by a recovery: it is
   true, also when the verdict kills the attempt (ReturnToOwed). *)
LEMMA VerdictStep ==
  ASSUME PayInv, NEW o \in Offers, NEW t \in {Sweep, Beside}, Leave(t), UNCHANGED promise,
         NEW to \in {"owed", "failed", "confirmed"},
         refund[o].state \in {"submitted", "failed"}, refund' = [refund EXCEPT ![o].state = to],
         tx' = tx \/ (t = Sweep /\ tx[o][refund[o].attempt] # "landed"
                                /\ tx' = [tx EXCEPT ![o][refund[o].attempt] = "dead"]),
         tx'[o][refund[o].attempt] = IF to = "confirmed" THEN "landed" ELSE "dead"
  PROVE  PayInv'
<1> DEFINE n == refund[o].attempt
<1>k. /\ refund \in [Offers -> Refunds] /\ tx \in [Offers -> [Attempts -> Fates]]
      /\ job \in [Tasks -> Jobs]
      /\ Sweep \in Tasks /\ Beside \in Tasks /\ Sweep # Beside
      /\ Idle \in Jobs /\ Idle.step = "idle" /\ Idle.offer \notin Offers
      /\ n \in Nat /\ (n # 0 => n \in Attempts)
      /\ promise[o].state \notin {"none", "open"}
      /\ Sound(refund[o], tx[o])
      /\ job[Sweep].offer = o => PayerKnows(job[Sweep], refund[o], tx[o])
  BY PayKnown
<1>n. n # 0 /\ n \in Attempts
  BY <1>k DEF Sound
<1> HIDE DEF n
<1>1. /\ job' \in [Tasks -> Jobs] /\ job'[t] = Idle
      /\ \A u \in {Sweep, Beside} \ {t} : job'[u] = job[u]
  BY <1>k DEF Leave
<1>2. /\ refund' \in [Offers -> Refunds] /\ \A p \in Offers \ {o} : refund'[p] = refund[p]
      /\ refund'[o].drops = refund[o].drops /\ refund'[o].attempt = n /\ refund'[o].state = to
  <2>1. /\ refund[o] \in Refunds /\ [refund[o] EXCEPT !.state = to] \in Refunds
        /\ [refund[o] EXCEPT !.state = to].drops = refund[o].drops
        /\ [refund[o] EXCEPT !.state = to].attempt = refund[o].attempt
        /\ [refund[o] EXCEPT !.state = to].state = to
    <3>1. refund[o] \in Refunds
      BY <1>k
    <3> QED BY <3>1 DEF Refunds
  <2>2. refund' = [refund EXCEPT ![o] = [refund[o] EXCEPT !.state = to]]
    OBVIOUS
  <2> QED BY <1>k, <2>1, <2>2 DEF n
<1>3. /\ tx' \in [Offers -> [Attempts -> Fates]] /\ \A p \in Offers \ {o} : tx'[p] = tx[p]
      /\ \A c \in Attempts \ {n} : tx'[o][c] = tx[o][c]
      /\ tx'[o][n] = IF to = "confirmed" THEN "landed" ELSE "dead"
      /\ tx[o][n] \in {"landed", "dead"} => tx'[o][n] = tx[o][n]
  <2>1. tx'[o][n] = IF to = "confirmed" THEN "landed" ELSE "dead"
    BY DEF n
  <2>2. CASE tx' = tx
    BY <1>k, <2>1, <2>2
  <2>3. CASE tx[o][n] # "landed" /\ tx' = [tx EXCEPT ![o][n] = "dead"]
    <3>1. tx' = [tx EXCEPT ![o] = [tx[o] EXCEPT ![n] = "dead"]]
      BY <2>3
    <3>2. [tx[o] EXCEPT ![n] = "dead"] \in [Attempts -> Fates]
      BY <1>k DEF Fates
    <3>3. tx'[o] = [tx[o] EXCEPT ![n] = "dead"]
      BY <1>k, <3>1
    <3>4. tx'[o][n] = "dead"
      BY <1>k, <1>n, <3>3
    <3> QED BY <1>k, <1>n, <2>1, <2>3, <3>1, <3>2, <3>3, <3>4
  <2> QED BY <2>2, <2>3 DEF n
<1>4. Sound(refund'[o], tx'[o])
  BY <1>k, <1>n, <1>2, <1>3 DEF Sound, n
<1>5. job'[Sweep].offer = o => PayerKnows(job'[Sweep], refund'[o], tx'[o])
  <2>1. CASE t = Sweep
    BY <1>k, <1>1, <2>1
  <2>2. CASE t = Beside
    BY <1>k, <1>1, <1>2, <2>2 DEF PayerKnows, n
  <2> QED BY <2>1, <2>2
<1>6. \A u \in {Sweep, Beside} : job'[u] = job[u] \/ job'[u].step \notin PaySteps
  BY <1>k, <1>1 DEF PaySteps
<1>7. refund'[o].attempt >= refund[o].attempt
  BY <1>k, <1>2 DEF n
<1>8. \A c \in Attempts : tx[o][c] \in {"landed", "dead"} => tx'[o][c] = tx[o][c]
  BY <1>3
<1> QED BY <1>k, <1>1, <1>2, <1>3, <1>4, <1>5, <1>6, <1>7, <1>8, PayFrame

(* A payout lands or dies: it is of the current attempt. *)
LEMMA PayoutStep ==
  ASSUME PayInv, NEW o \in Offers, NEW a \in Attempts, PayoutLands(o, a) \/ PayoutDies(o, a)
  PROVE  PayInv'
<1>k. /\ refund \in [Offers -> Refunds] /\ tx \in [Offers -> [Attempts -> Fates]]
      /\ job \in [Tasks -> Jobs]
      /\ refund[o].attempt \in Nat
      /\ refund[o].attempt # 0 => promise[o].state \notin {"none", "open"}
      /\ Sound(refund[o], tx[o])
      /\ job[Sweep].offer = o => PayerKnows(job[Sweep], refund[o], tx[o])
  BY PayKnown
<1>1. /\ UNCHANGED <<refund, promise, job>> /\ tx[o][a] \in {"unsent", "live"}
      /\ PayoutLands(o, a) => tx[o][a] = "live"
      /\ \E f \in {"landed", "dead"} : tx' = [tx EXCEPT ![o] = [tx[o] EXCEPT ![a] = f]]
      /\ PayoutDies(o, a) => a <= refund[o].attempt /\ tx' = [tx EXCEPT ![o] = [tx[o] EXCEPT ![a] = "dead"]]
  BY DEF PayoutLands, PayoutDies
<1>2. a = refund[o].attempt /\ refund[o].state \notin {"owed", "failed", "confirmed"}
  <2>1. ~(a < refund[o].attempt) /\ ~(a > refund[o].attempt)
    BY <1>k, <1>1 DEF Sound, Attempts
  <2>2. a = refund[o].attempt /\ a # 0
    BY <1>k, <2>1 DEF Attempts
  <2> QED BY <1>k, <1>1, <2>2 DEF Sound
<1>3. /\ tx' \in [Offers -> [Attempts -> Fates]] /\ \A p \in Offers \ {o} : tx'[p] = tx[p]
      /\ \A c \in Attempts \ {a} : tx'[o][c] = tx[o][c]
  BY <1>k, <1>1 DEF Fates
<1>4. Sound(refund'[o], tx'[o])
  BY <1>k, <1>1, <1>2, <1>3 DEF Sound
<1>5. job'[Sweep].offer = o => PayerKnows(job'[Sweep], refund'[o], tx'[o])
  <2>1. tx[o][a] = "live" \/ tx'[o][a] = "dead"
    BY <1>k, <1>1
  <2> QED BY <1>k, <1>1, <1>2, <2>1 DEF PayerKnows
<1>6. refund'[o].attempt >= refund[o].attempt
  BY <1>k, <1>1
<1>7. \A c \in Attempts : tx[o][c] \in {"landed", "dead"} => tx'[o][c] = tx[o][c]
  BY <1>1, <1>3
<1> QED BY <1>k, <1>1, <1>3, <1>4, <1>5, <1>6, <1>7, PayFrame

(* The payer sends its attempt. *)
LEMMA SendStep ==
  ASSUME PayInv, NEW o \in Offers, SendRefund(o)
  PROVE  PayInv'
<1> DEFINE n == refund[o].attempt
<1>k. /\ refund \in [Offers -> Refunds] /\ tx \in [Offers -> [Attempts -> Fates]]
      /\ job \in [Tasks -> Jobs]
      /\ Sweep \in Tasks /\ Beside \in Tasks /\ Sweep # Beside
      /\ n \in Nat /\ (n # 0 => n \in Attempts)
      /\ Sound(refund[o], tx[o])
      /\ job[Sweep].offer = o => PayerKnows(job[Sweep], refund[o], tx[o])
  BY PayKnown
<1>1. /\ UNCHANGED <<refund, promise>> /\ At(Sweep, "claimed", o)
      /\ tx' = [tx EXCEPT ![o][job[Sweep].seen] = IF @ = "unsent" THEN "live" ELSE @]
      /\ job' = [job EXCEPT ![Sweep] = [step |-> "sent", offer |-> o, seen |-> job[Sweep].seen]]
  BY DEF SendRefund, Goto
<1>2. /\ job[Sweep].seen = n /\ n # 0 /\ n \in Attempts /\ tx[o][n] \in {"unsent", "dead"}
  BY <1>k, <1>1 DEF At, PayerKnows
<1>3. /\ tx' \in [Offers -> [Attempts -> Fates]] /\ \A p \in Offers \ {o} : tx'[p] = tx[p]
      /\ \A c \in Attempts \ {n} : tx'[o][c] = tx[o][c]
      /\ tx'[o][n] = IF tx[o][n] = "unsent" THEN "live" ELSE tx[o][n]
  BY <1>k, <1>1, <1>2 DEF Fates
<1>4. Sound(refund'[o], tx'[o])
  BY <1>k, <1>1, <1>2, <1>3 DEF Sound
<1>5. /\ job' \in [Tasks -> Jobs] /\ job'[Beside] = job[Beside]
      /\ job'[Sweep] = [step |-> "sent", offer |-> o, seen |-> n]
  <2>1. [step |-> "sent", offer |-> o, seen |-> n] \in Jobs
    BY <1>k DEF Jobs, Steps
  <2> QED BY <1>k, <1>1, <1>2, <2>1
<1>6. PayerKnows(job'[Sweep], refund'[o], tx'[o]) /\ RecoveryKnows(job'[Sweep], refund'[o], tx'[o])
  BY <1>1, <1>2, <1>5 DEF PayerKnows, RecoveryKnows
<1>7. refund'[o].attempt >= refund[o].attempt /\ refund' \in [Offers -> Refunds]
      /\ \A p \in Offers \ {o} : refund'[p] = refund[p]
  BY <1>k, <1>1
<1>8. \A c \in Attempts : tx[o][c] \in {"landed", "dead"} => tx'[o][c] = tx[o][c]
  BY <1>2, <1>3
<1>9. refund'[o] = refund[o] /\ UNCHANGED promise /\ refund'[o].drops = refund[o].drops
  BY <1>1
<1> HIDE DEF n
<1> QED BY <1>3, <1>4, <1>5, <1>6, <1>7, <1>8, <1>9, PayFrame

(* The payer gives up before it sends, and finds the row moved on. *)
LEMMA KillStep ==
  ASSUME PayInv, NEW o \in Offers, Leave(Sweep), UNCHANGED <<promise, refund>>,
         refund[o].attempt # 0, tx[o][refund[o].attempt] = "unsent",
         tx' = [tx EXCEPT ![o][refund[o].attempt] = "dead"]
  PROVE  PayInv'
<1> DEFINE n == refund[o].attempt
<1>k. /\ refund \in [Offers -> Refunds] /\ tx \in [Offers -> [Attempts -> Fates]]
      /\ job \in [Tasks -> Jobs]
      /\ Sweep \in Tasks /\ Beside \in Tasks /\ Sweep # Beside
      /\ Idle \in Jobs /\ Idle.step = "idle" /\ Idle.offer \notin Offers
      /\ n \in Nat /\ n \in Attempts /\ tx[o][n] = "unsent"
      /\ Sound(refund[o], tx[o])
  BY PayKnown
<1>1. /\ job' \in [Tasks -> Jobs] /\ job'[Sweep] = Idle /\ job'[Beside] = job[Beside]
  BY <1>k DEF Leave
<1>2. /\ tx' \in [Offers -> [Attempts -> Fates]] /\ \A p \in Offers \ {o} : tx'[p] = tx[p]
      /\ \A c \in Attempts \ {n} : tx'[o][c] = tx[o][c]
      /\ tx'[o][n] = "dead"
  <2>1. tx' = [tx EXCEPT ![o] = [tx[o] EXCEPT ![n] = "dead"]]
    OBVIOUS
  <2>2. [tx[o] EXCEPT ![n] = "dead"] \in [Attempts -> Fates]
    BY <1>k DEF Fates
  <2>3. tx'[o] = [tx[o] EXCEPT ![n] = "dead"]
    BY <1>k, <2>1
  <2> QED BY <1>k, <2>1, <2>2, <2>3
<1>3. Sound(refund'[o], tx'[o])
  BY <1>k, <1>2 DEF Sound
<1>4. /\ refund'[o].attempt >= refund[o].attempt
      /\ refund' \in [Offers -> Refunds] /\ \A p \in Offers \ {o} : refund'[p] = refund[p]
  BY <1>k
<1>5. \A c \in Attempts : tx[o][c] \in {"landed", "dead"} => tx'[o][c] = tx[o][c]
  BY <1>k, <1>2
<1>6. Idle.step \notin PaySteps
  BY <1>k DEF PaySteps
<1> HIDE DEF n
<1> QED BY <1>k, <1>1, <1>2, <1>3, <1>4, <1>5, <1>6, PayFrame

(* The payer records what became of its attempt, or returns the row. *)
LEMMA PayerStep ==
  ASSUME PayInv, NEW o \in Offers, RecordPayout(o) \/ ReturnToOwed(o)
  PROVE  PayInv'
<1> DEFINE n == refund[o].attempt
<1>k. /\ refund \in [Offers -> Refunds] /\ tx \in [Offers -> [Attempts -> Fates]]
      /\ job[Sweep].offer = o => PayerKnows(job[Sweep], refund[o], tx[o])
      /\ Sound(refund[o], tx[o]) /\ (n # 0 => n \in Attempts)
  BY PayKnown
<1>1. CASE RecordPayout(o)
  <2>1. /\ At(Sweep, "sent", o) /\ Leave(Sweep) /\ UNCHANGED <<promise, tx>>
        /\ \/ /\ tx[o][job[Sweep].seen] = "landed"
              /\ SetRefund(o, {"submitted", "failed"}, "confirmed")
           \/ tx[o][job[Sweep].seen] = "dead" /\ SetRefund(o, {"submitted"}, "failed")
           \/ UNCHANGED refund
    BY <1>1 DEF RecordPayout
  <2>2. job[Sweep].seen = n
    BY <1>k, <2>1 DEF At, PayerKnows
  <2>3. CASE UNCHANGED refund
    BY <2>1, <2>3, LeaveStep
  <2>4. CASE tx[o][n] = "landed" /\ SetRefund(o, {"submitted", "failed"}, "confirmed") /\ ~UNCHANGED refund
    <3>1. refund[o].state \in {"submitted", "failed"} /\ refund' = [refund EXCEPT ![o].state = "confirmed"]
      BY <1>k, <2>4, SetRefundIs
    <3> QED BY <2>1, <2>4, <3>1, VerdictStep
  <2>5. CASE tx[o][n] = "dead" /\ SetRefund(o, {"submitted"}, "failed") /\ ~UNCHANGED refund
    <3>1. refund[o].state \in {"submitted"} /\ refund' = [refund EXCEPT ![o].state = "failed"]
      BY <1>k, <2>5, SetRefundIs
    <3> QED BY <2>1, <2>5, <3>1, VerdictStep
  <2> QED BY <2>1, <2>2, <2>3, <2>4, <2>5
<1>2. CASE ReturnToOwed(o)
  <2>1. /\ At(Sweep, "claimed", o) /\ Leave(Sweep) /\ UNCHANGED promise
        /\ tx' = [tx EXCEPT ![o][job[Sweep].seen] = "dead"] /\ SetRefund(o, {"submitted"}, "owed")
    BY <1>2 DEF ReturnToOwed
  <2>2. /\ job[Sweep].seen = n /\ n # 0 /\ tx[o][n] \in {"unsent", "dead"}
    BY <1>k, <2>1 DEF At, PayerKnows
  <2>3. tx' = [tx EXCEPT ![o][n] = "dead"] /\ tx'[o][n] = "dead"
    BY <1>k, <2>1, <2>2
  <2>4. CASE refund[o].state \in {"submitted"} /\ refund' = [refund EXCEPT ![o].state = "owed"]
    BY <2>1, <2>2, <2>3, <2>4, VerdictStep
  <2>5. CASE UNCHANGED refund
    <3>1. CASE tx[o][n] = "dead"
      <4>1. tx' = tx
        <5>1. [tx[o] EXCEPT ![n] = "dead"] = tx[o]
          BY <1>k, <2>2, <3>1
        <5> QED BY <1>k, <2>3, <5>1
      <4> QED BY <2>1, <2>5, <4>1, LeaveStep
    <3>2. CASE tx[o][n] = "unsent"
      BY <1>k, <2>1, <2>2, <2>3, <2>5, <3>2, KillStep
    <3> QED BY <2>2, <3>1, <3>2
  <2> QED BY <1>k, <2>1, <2>4, <2>5, SetRefundIs
<1> QED BY <1>1, <1>2

(* A failed row is requeued: its attempts are dead. *)
LEMMA RequeueStep ==
  ASSUME PayInv, NEW o \in Offers, Requeue(o)
  PROVE  PayInv'
<1>k. refund \in [Offers -> Refunds] /\ Sound(refund[o], tx[o])
  BY PayKnown
<1>1. /\ Leave(Beside) /\ UNCHANGED <<promise, tx>>
      /\ SetRefund(o, {"failed"}, "owed") \/ UNCHANGED refund
  BY DEF Requeue
<1>2. CASE UNCHANGED refund
  BY <1>1, <1>2, LeaveStep
<1>3. CASE refund[o].state = "failed" /\ refund' = [refund EXCEPT ![o].state = "owed"]
  <2>1. tx[o][refund[o].attempt] = "dead"
    BY <1>k, <1>3 DEF Sound
  <2> QED BY <1>1, <1>3, <2>1, VerdictStep
<1> QED BY <1>k, <1>1, <1>2, <1>3, SetRefundIs

(* A recovery reads a row and the ledger. *)
LEMMA ReadStep ==
  ASSUME PayInv, NEW o \in Offers, NEW t \in {Sweep, Beside}, RecoverRead(t, o)
  PROVE  PayInv'
<1> DEFINE n == refund[o].attempt
           j(st) == [step |-> st, offer |-> o, seen |-> n]
<1>k. /\ refund \in [Offers -> Refunds] /\ tx \in [Offers -> [Attempts -> Fates]]
      /\ job \in [Tasks -> Jobs]
      /\ Sweep \in Tasks /\ Beside \in Tasks /\ Sweep # Beside
      /\ n \in Nat
      /\ Sound(refund[o], tx[o])
      /\ job[Sweep].offer = o => PayerKnows(job[Sweep], refund[o], tx[o])
  BY PayKnown
<1>1. UNCHANGED <<promise, refund, tx>> /\ refund[o].state = "submitted"
  BY DEF RecoverRead
<1>2. n \in 1 .. n
  BY <1>k, <1>1 DEF Sound
<1>3. /\ refund'[o].attempt >= refund[o].attempt /\ refund' \in [Offers -> Refunds]
      /\ tx' \in [Offers -> [Attempts -> Fates]]
  BY <1>k, <1>1
<1>4. PICK st \in {"recover", "recover past"} :
        /\ job' = [job EXCEPT ![t] = [step |-> st, offer |-> o, seen |-> refund[o].attempt]]
        /\ st = "recover past" => tx[o][refund[o].attempt] \in {"landed", "dead"}
  <2>1. CASE tx[o][refund[o].attempt] \in {"landed", "dead"}
    <3>1. job' = [job EXCEPT ![t] = [step |-> "recover past", offer |-> o, seen |-> refund[o].attempt]]
      BY <2>1 DEF RecoverRead, Goto
    <3> QED BY <2>1, <3>1
  <2>2. CASE tx[o][refund[o].attempt] \notin {"landed", "dead"}
    <3>1. job' = [job EXCEPT ![t] = [step |-> "recover", offer |-> o, seen |-> refund[o].attempt]]
      BY <2>2 DEF RecoverRead, Goto
    <3> QED BY <3>1
  <2> QED BY <2>1, <2>2
<1>5. /\ j(st) \in Jobs /\ j(st).step = st /\ j(st).offer = o /\ j(st).seen = n
      /\ job' = [job EXCEPT ![t] = j(st)] /\ (st = "recover past" => tx[o][n] \in {"landed", "dead"})
      /\ st \notin {"claimed", "sent"}
  BY <1>k, <1>4 DEF Jobs, Steps
<1>6. RecoveryKnows(j(st), refund[o], tx[o]) /\ PayerKnows(j(st), refund[o], tx[o])
  BY <1>2, <1>5 DEF RecoveryKnows, PayerKnows
<1> HIDE DEF j
<1>7. /\ job' \in [Tasks -> Jobs] /\ job'[t] = j(st)
      /\ \A u \in {Sweep, Beside} \ {t} : job'[u] = job[u]
  BY <1>k, <1>5
<1>8. job'[Sweep].offer = o => PayerKnows(job'[Sweep], refund'[o], tx'[o])
  BY <1>k, <1>1, <1>6, <1>7
<1>9. \A u \in {Sweep, Beside} :
        job'[u] = job[u] \/ (job'[u].offer = o /\ RecoveryKnows(job'[u], refund'[o], tx'[o]))
  BY <1>1, <1>5, <1>6, <1>7
<1>10. /\ Sound(refund'[o], tx'[o]) /\ refund'[o] = refund[o] /\ UNCHANGED promise
       /\ \A p \in Offers \ {o} : refund'[p] = refund[p] /\ tx'[p] = tx[p]
       /\ \A a \in Attempts : tx[o][a] \in {"landed", "dead"} => tx'[o][a] = tx[o][a]
  BY <1>k, <1>1
<1> HIDE DEF n
<1> QED BY <1>7, <1>8, <1>3, <1>9, <1>10, PayFrame

(* A recovery finds the payout, or concludes from its absence. *)
LEMMA RecoveryStep ==
  ASSUME PayInv, OneClaimPerPass, NEW o \in Offers, NEW t \in {Sweep, Beside}, Recovery(t, o)
  PROVE  PayInv'
<1> DEFINE n == refund[o].attempt
<1>k. /\ refund \in [Offers -> Refunds] /\ tx \in [Offers -> [Attempts -> Fates]]
      /\ job \in [Tasks -> Jobs]
      /\ Sweep \in Tasks /\ Beside \in Tasks /\ Sweep # Beside
      /\ n \in Nat /\ n \in 0 .. MaxAttempts /\ (n # 0 => n \in Attempts)
      /\ n # 0 => promise[o].state \notin {"none", "open"}
      /\ Sound(refund[o], tx[o])
      /\ job[Sweep].offer = o => PayerKnows(job[Sweep], refund[o], tx[o])
      /\ job[t].offer = o => RecoveryKnows(job[t], refund[o], tx[o])
  BY PayKnown
<1>1. CASE RecoverRead(t, o)
  BY <1>1, ReadStep
<1>2. CASE RecoverFound(t, o) \/ RecoverAbsent(t, o)
  <2>1. /\ At(t, "recover", o) \/ At(t, "recover past", o)
        /\ Leave(t) /\ UNCHANGED <<promise, tx>>
        /\ RecoverFound(t, o) => FoundSince(o, job[t].seen) /\ SetRefund(o, {"submitted", "failed"}, "confirmed")
    BY <1>2 DEF RecoverFound, RecoverAbsent
  <2>2. job[t].seen \in 1 .. n /\ n # 0 /\ job[t].seen \in Attempts
    <3>1. job[t].seen \in 1 .. n
      BY <1>k, <2>1 DEF At, RecoveryKnows
    <3>2. n \in 0 .. MaxAttempts
      BY <1>k
    <3> HIDE DEF n
    <3> QED BY <3>1, <3>2, FeeCoverAssumption DEF Attempts
  <2>3. CASE RecoverFound(t, o)
    <3>1. PICK a \in job[t].seen .. MaxAttempts : tx[o][a] = "landed"
      BY <2>1, <2>3 DEF FoundSince
    <3>2. a \in Attempts
      BY <2>2, FeeCoverAssumption DEF Attempts
    <3>3. a = n
      BY <1>k, <3>1, <3>2 DEF Sound, Attempts
    <3>4. CASE UNCHANGED refund
      BY <2>1, <3>4, LeaveStep
    <3>5. CASE refund[o].state \in {"submitted", "failed"} /\ refund' = [refund EXCEPT ![o].state = "confirmed"]
      BY <2>1, <3>1, <3>3, <3>5, VerdictStep
    <3> QED BY <1>k, <2>1, <2>3, <3>4, <3>5, SetRefundIs
  <2>4. CASE RecoverAbsent(t, o)
    <3>1. \/ UNCHANGED refund
          \/ /\ At(t, "recover past", o) /\ n = job[t].seen /\ ~FoundSince(o, job[t].seen)
             /\ SetRefund(o, {"submitted"}, "failed")
      BY <2>4 DEF RecoverAbsent, OneClaimPerPass
    <3>2. UNCHANGED refund \/ tx[o][n] = "dead"
      <4>1. CASE /\ At(t, "recover past", o) /\ n = job[t].seen /\ ~FoundSince(o, job[t].seen)
        <5>1. tx[o][n] \in {"landed", "dead"}
          BY <1>k, <4>1 DEF At, RecoveryKnows
        <5>2. n \in n .. MaxAttempts
          BY <1>k, FeeCoverAssumption
        <5> QED BY <4>1, <5>1, <5>2 DEF FoundSince
      <4> QED BY <3>1, <4>1
    <3>3. CASE UNCHANGED refund
      BY <2>1, <3>3, LeaveStep
    <3>4. CASE refund[o].state \in {"submitted"} /\ refund' = [refund EXCEPT ![o].state = "failed"]
                 /\ tx[o][n] = "dead"
      BY <2>1, <3>4, VerdictStep
    <3> QED BY <1>k, <3>1, <3>2, <3>3, <3>4, SetRefundIs
  <2> QED BY <1>2, <2>3, <2>4
<1> QED BY <1>1, <1>2 DEF Recovery

-----------------------------------------------------------------------------
(* The invariants hold. *)

(* Nothing has happened yet. *)
LEMMA InvInit ==
  ASSUME Init
  PROVE  PromiseInv /\ PayInv
<1>1. MarketTypes
  BY FeeCoverAssumption DEF Init, MarketTypes, Quotes, Bids
<1>2. RefundTypes
  <2>1. promise \in [Offers -> Promises] /\ refund \in [Offers -> Refunds]
    BY FeeCoverAssumption DEF Init, Promises, Refunds
  <2>2. tx \in [Offers -> [Attempts -> Fates]] /\ job \in [Tasks -> Jobs]
    BY DEF Init, Fates, Jobs
  <2> QED BY <2>1, <2>2 DEF RefundTypes
<1>3. UnsettledIsUnpaid /\ WithinPromise
  BY DEF Init, UnsettledIsUnpaid, WithinPromise
<1>4. RowIsTrue
  BY FeeCoverAssumption DEF Init, RowIsTrue, Sound, Attempts
<1>5. \A t \in Tasks : job[t] = Idle /\ Idle.step = "idle" /\ Idle.offer \notin Offers
  BY FeeCoverAssumption DEF Init, Idle
<1>6. TasksKnow
  BY <1>5 DEF TasksKnow, Tasks
<1>7. LedgerKnows
  BY DEF Init, LedgerKnows
<1>8. ReleaseKnows /\ CloseKnows
  <2>1. \A o \in Offers : promise[o].state = "none" /\ quote[o] = "none"
    BY DEF Init
  <2>2. Sweep \in Tasks
    BY DEF Tasks
  <2> QED BY <1>5, <2>1, <2>2 DEF ReleaseKnows, CloseKnows, At
<1> QED BY <1>1, <1>2, <1>3, <1>4, <1>6, <1>7, <1>8 DEF PayInv, PromiseInv

(* The payouts, whatever the step. *)
LEMMA PayStep ==
  ASSUME PayInv, MarketTypes, OneClaimPerPass, [Next]_vars
  PROVE  PayInv'
<1>1. ASSUME NEW o \in Offers, Pays(o)
      PROVE  PayInv'
  <2>1. CASE \E a \in Attempts : PayoutLands(o, a) \/ PayoutDies(o, a)
    BY <2>1, PayoutStep
  <2>2. CASE PayRefund(o) \/ ReturnToOwed(o)
    BY <2>2, ClaimStep, SendStep, PayerStep DEF PayRefund
  <2>3. CASE Requeue(o)
    BY <2>3, RequeueStep
  <2>4. CASE \E t \in {Sweep, Beside} : Recovery(t, o)
    BY <2>4, RecoveryStep
  <2> QED BY <1>1, <2>1, <2>2, <2>3, <2>4 DEF Pays
<1>2. CASE \A o \in Offers : ~Pays(o)
  BY <1>2, QuietStep
<1> QED BY <1>1, <1>2

(* The types do not rest on what a recovery may conclude. *)
LEMMA PaysTypes ==
  ASSUME TypeInv, NEW o \in Offers, Pays(o)
  PROVE  RefundTypes' /\ UnsettledIsUnpaid' /\ WithinPromise'
<1>t. /\ refund \in [Offers -> Refunds] /\ tx \in [Offers -> [Attempts -> Fates]]
      /\ job \in [Tasks -> Jobs]
      /\ Sweep \in Tasks /\ Beside \in Tasks /\ Idle \in Jobs
  BY DEF TypeInv, RefundTypes, Tasks, Jobs
<1>1. /\ promise' = promise
      /\ \/ refund' = refund
         \/ /\ refund[o].state \in {"owed", "submitted", "failed"}
            /\ \E st \in {"owed", "submitted", "confirmed", "failed"}, n \in 0 .. MaxAttempts :
                 refund' = [refund EXCEPT ![o] = [state |-> st, drops |-> refund[o].drops, attempt |-> n]]
  <2>1. ASSUME NEW from, NEW st \in {"owed", "confirmed", "failed"}, SetRefund(o, from, st),
               from \subseteq {"submitted", "failed"}
        PROVE  \/ refund' = refund
               \/ /\ refund[o].state \in {"owed", "submitted", "failed"}
                  /\ \E n \in 0 .. MaxAttempts :
                       refund' = [refund EXCEPT ![o] = [state |-> st, drops |-> refund[o].drops, attempt |-> n]]
    <3>1. refund[o] \in Refunds
      BY <1>t
    <3>2. /\ [refund[o] EXCEPT !.state = st]
               = [state |-> st, drops |-> refund[o].drops, attempt |-> refund[o].attempt]
          /\ refund[o].attempt \in 0 .. MaxAttempts
      BY <3>1 DEF Refunds
    <3>3. CASE refund[o].state \in from /\ refund' = [refund EXCEPT ![o].state = st]
      <4>1. refund' = [refund EXCEPT ![o] = [refund[o] EXCEPT !.state = st]]
        BY <3>3
      <4> QED BY <2>1, <3>2, <3>3, <4>1
    <3> QED BY <1>t, <2>1, <3>3, SetRefundIs
  <2>2. CASE ClaimForPayout(o)
    <3>1. /\ refund[o].state = "owed" /\ refund[o].attempt < MaxAttempts
          /\ refund' = [refund EXCEPT ![o] = [refund[o] EXCEPT !.state = "submitted",
                                                               !.attempt = refund[o].attempt + 1]]
          /\ promise' = promise
      BY <2>2, <1>t DEF ClaimForPayout
    <3>2. refund[o] \in Refunds
      BY <1>t
    <3>3. refund[o].attempt + 1 \in 0 .. MaxAttempts
      BY <3>1, <3>2, FeeCoverAssumption DEF Refunds
    <3> DEFINE m == refund[o].attempt + 1
    <3> HIDE DEF m
    <3>4. [refund[o] EXCEPT !.state = "submitted", !.attempt = m]
            = [state |-> "submitted", drops |-> refund[o].drops, attempt |-> m]
      <4> DEFINE r == [state |-> "submitted", drops |-> refund[o].drops, attempt |-> refund[o].attempt]
      <4>1. [refund[o] EXCEPT !.state = "submitted"] = r
        BY <3>2 DEF Refunds
      <4>2. [r EXCEPT !.attempt = m] = [state |-> "submitted", drops |-> refund[o].drops, attempt |-> m]
        OBVIOUS
      <4> QED BY <4>1, <4>2
    <3>5. refund' = [refund EXCEPT ![o] = [refund[o] EXCEPT !.state = "submitted", !.attempt = m]]
      BY <3>1 DEF m
    <3>6. m \in 0 .. MaxAttempts
      BY <3>3 DEF m
    <3>7. refund' = [refund EXCEPT ![o] = [state |-> "submitted", drops |-> refund[o].drops, attempt |-> m]]
      BY <3>4, <3>5
    <3> QED BY <3>1, <3>6, <3>7
  <2>3. CASE SendRefund(o) \/ \E a \in Attempts : PayoutLands(o, a) \/ PayoutDies(o, a)
    BY <2>3 DEF SendRefund, PayoutLands, PayoutDies
  <2>4. CASE RecordPayout(o) \/ ReturnToOwed(o) \/ Requeue(o)
    <3>1. /\ promise' = promise
          /\ \/ refund' = refund
             \/ \E st \in {"owed", "confirmed", "failed"}, from \in SUBSET {"submitted", "failed"} :
                  SetRefund(o, from, st)
      BY <2>4 DEF RecordPayout, ReturnToOwed, Requeue
    <3> QED BY <2>1, <3>1
  <2>5. CASE \E t \in {Sweep, Beside} : Recovery(t, o)
    <3>1. /\ promise' = promise
          /\ \/ refund' = refund
             \/ \E st \in {"owed", "confirmed", "failed"}, from \in SUBSET {"submitted", "failed"} :
                  SetRefund(o, from, st)
      BY <2>5 DEF Recovery, RecoverRead, RecoverFound, RecoverAbsent
    <3> QED BY <2>1, <3>1
  <2> QED BY <2>2, <2>3, <2>4, <2>5 DEF Pays, PayRefund
<1>2. tx' \in [Offers -> [Attempts -> Fates]]
  <2>1. \/ tx' = tx
        \/ \E a : tx' = [tx EXCEPT ![o] = [tx[o] EXCEPT ![a] = "dead"]]
        \/ \E a : tx' = [tx EXCEPT ![o] = [tx[o] EXCEPT ![a] = "landed"]]
        \/ \E a : tx' = [tx EXCEPT ![o] = [tx[o] EXCEPT ![a] = IF tx[o][a] = "unsent" THEN "live" ELSE tx[o][a]]]
    <3>1. CASE SendRefund(o) \/ ReturnToOwed(o) \/ \E a \in Attempts : PayoutLands(o, a) \/ PayoutDies(o, a)
      BY <3>1 DEF SendRefund, ReturnToOwed, PayoutLands, PayoutDies
    <3>2. CASE ClaimForPayout(o) \/ RecordPayout(o) \/ Requeue(o) \/ \E t \in {Sweep, Beside} : Recovery(t, o)
      BY <3>2 DEF ClaimForPayout, RecordPayout, Requeue, Recovery, RecoverRead, RecoverFound,
         RecoverAbsent
    <3> QED BY <3>1, <3>2 DEF Pays, PayRefund
  <2>2. \A a, f \in Fates : [tx[o] EXCEPT ![a] = f] \in [Attempts -> Fates]
    BY <1>t
  <2>3. ASSUME NEW a
        PROVE  [tx[o] EXCEPT ![a] = IF tx[o][a] = "unsent" THEN "live" ELSE tx[o][a]] \in [Attempts -> Fates]
    <3>1. CASE a \in Attempts
      BY <1>t, <3>1 DEF Fates
    <3>2. CASE a \notin Attempts
      BY <1>t, <3>2 DEF Fates
    <3> QED BY <3>1, <3>2
  <2>4. ASSUME NEW a, NEW f \in {"dead", "landed"}
        PROVE  [tx[o] EXCEPT ![a] = f] \in [Attempts -> Fates]
    BY <1>t DEF Fates
  <2> QED BY <1>t, <2>1, <2>3, <2>4
<1>3. job' \in [Tasks -> Jobs]
  <2>1. ASSUME NEW t \in Tasks, NEW st \in Steps, NEW n \in Nat, Goto(t, st, o, n)
        PROVE  job' \in [Tasks -> Jobs]
    <3>1. [step |-> st, offer |-> o, seen |-> n] \in Jobs
      BY DEF Jobs
    <3> QED BY <1>t, <2>1, <3>1 DEF Goto
  <2>2. ASSUME NEW t \in Tasks, Leave(t)
        PROVE  job' \in [Tasks -> Jobs]
    BY <1>t, <2>2 DEF Leave
  <2>3. refund[o].attempt \in Nat /\ refund[o].attempt + 1 \in Nat
    BY <1>t, FeeCoverAssumption DEF Refunds
  <2>4. CASE ClaimForPayout(o)
    BY <1>t, <2>1, <2>3, <2>4 DEF ClaimForPayout, Steps
  <2>5. CASE SendRefund(o)
    <3>1. job[Sweep].seen \in Nat
      BY <1>t, <2>5 DEF SendRefund, At, Jobs, Idle
    <3> QED BY <1>t, <2>1, <2>5, <3>1 DEF SendRefund, Steps
  <2>6. CASE \E a \in Attempts : PayoutLands(o, a) \/ PayoutDies(o, a)
    BY <1>t, <2>6 DEF PayoutLands, PayoutDies
  <2>7. CASE RecordPayout(o) \/ ReturnToOwed(o) \/ Requeue(o)
    BY <1>t, <2>2, <2>7 DEF RecordPayout, ReturnToOwed, Requeue
  <2>8. ASSUME NEW t \in {Sweep, Beside}, Recovery(t, o)
        PROVE  job' \in [Tasks -> Jobs]
    <3>1. CASE RecoverRead(t, o)
      <4>1. Goto(t, "recover past", o, refund[o].attempt) \/ Goto(t, "recover", o, refund[o].attempt)
        BY <3>1 DEF RecoverRead
      <4> QED BY <1>t, <2>1, <2>3, <4>1 DEF Steps
    <3>2. CASE RecoverFound(t, o) \/ RecoverAbsent(t, o)
      BY <1>t, <2>2, <3>2 DEF RecoverFound, RecoverAbsent
    <3> QED BY <2>8, <3>1, <3>2 DEF Recovery
  <2> QED BY <2>4, <2>5, <2>6, <2>7, <2>8 DEF Pays, PayRefund
<1>4. /\ refund' \in [Offers -> Refunds]
      /\ \A p \in Offers : refund'[p].drops = refund[p].drops
      /\ \A p \in Offers : refund'[p] = refund[p] \/ (p = o /\ refund[o].state # "none")
  <2>1. CASE refund' = refund
    BY <1>t, <2>1
  <2>2. ASSUME NEW st \in {"owed", "submitted", "confirmed", "failed"}, NEW n \in 0 .. MaxAttempts,
               refund[o].state \in {"owed", "submitted", "failed"},
               refund' = [refund EXCEPT ![o] = [state |-> st, drops |-> refund[o].drops, attempt |-> n]]
        PROVE  /\ refund' \in [Offers -> Refunds]
               /\ \A p \in Offers : refund'[p].drops = refund[p].drops
               /\ \A p \in Offers : refund'[p] = refund[p] \/ (p = o /\ refund[o].state # "none")
    <3>1. refund[o] \in Refunds
      BY <1>t
    <3>2. [state |-> st, drops |-> refund[o].drops, attempt |-> n] \in Refunds
      BY <3>1 DEF Refunds
    <3>3. refund' \in [Offers -> Refunds]
      BY <1>t, <2>2, <3>2
    <3>4. refund'[o].drops = refund[o].drops /\ \A p \in Offers \ {o} : refund'[p] = refund[p]
      BY <1>t, <2>2
    <3> QED BY <2>2, <3>3, <3>4
  <2> QED BY <1>1, <2>1, <2>2
<1>5. RefundTypes'
  BY <1>1, <1>2, <1>3, <1>4 DEF TypeInv, RefundTypes
<1> QED BY <1>1, <1>4, <1>5 DEF TypeInv, UnsettledIsUnpaid, WithinPromise

(* The types, whatever the step. *)
LEMMA TypeStep ==
  ASSUME TypeInv, [Next]_vars
  PROVE  TypeInv'
<1>1. MarketTypes'
  BY MarketTypeStep DEF TypeInv
<1>2. RefundTypes' /\ UnsettledIsUnpaid' /\ WithinPromise'
  BY QuietTypes, PaysTypes
<1> QED BY <1>1, <1>2 DEF TypeInv

(* The types hold. *)
LEMMA TypeInvariant == Spec => []TypeInv
<1>1. Init => TypeInv
  BY InvInit DEF PromiseInv, PayInv, TypeInv
<1> QED BY <1>1, TypeStep, PTL DEF Spec

(* Every variable has its type, and no refund exceeds its promise. *)
THEOREM TypeCorrect == Spec => []TypeOK
<1>1. TypeInv => TypeOK
  BY DEF TypeInv, MarketTypes, RefundTypes, WithinPromise, TypeOK, Quotes, Bids, Promises, Refunds,
     Fates, Jobs
<1> QED BY <1>1, TypeInvariant, PTL

(* What the rows and the tasks say of the payouts is true. *)
LEMMA PayInvariant == OneClaimPerPass => (Spec => []PayInv)
<1> SUFFICES ASSUME OneClaimPerPass
             PROVE  Spec => []PayInv
  OBVIOUS
<1>1. Init => PayInv
  BY InvInit
<1>2. TypeInv /\ PayInv /\ [Next]_vars => PayInv'
  BY PayStep DEF TypeInv
<1> QED BY <1>1, <1>2, TypeInvariant, PTL DEF Spec

(* No refund is paid twice: only the current attempt can have landed. *)
THEOREM RefundPaidOnce == OneClaimPerPass => (Spec => []PaidOnce)
<1>1. ASSUME PayInv
      PROVE  PaidOnce
  <2> SUFFICES ASSUME NEW o \in Offers
               PROVE  Cardinality({a \in Attempts : tx[o][a] = "landed"}) <= 1
    BY DEF PaidOnce
  <2>1. Sound(refund[o], tx[o]) /\ refund[o].attempt \in Nat
    BY <1>1, PayKnown
  <2>2. {a \in Attempts : tx[o][a] = "landed"} \subseteq {refund[o].attempt}
    <3> SUFFICES ASSUME NEW a \in Attempts, tx[o][a] = "landed"
                 PROVE  a = refund[o].attempt
      OBVIOUS
    <3> QED BY <2>1 DEF Sound, Attempts
  <2> DEFINE L == {a \in Attempts : tx[o][a] = "landed"}
             m == refund[o].attempt
  <2>3. IsFiniteSet({m}) /\ Cardinality({m}) = 1
    BY FS_Singleton
  <2>4. Cardinality(L) <= Cardinality({m})
    BY <2>2, <2>3, FS_Subset, Zenon
  <2> HIDE DEF L, m
  <2>5. Cardinality(L) <= 1
    BY <2>3, <2>4
  <2> QED BY <2>5 DEF L
<1>2. PayInv => PaidOnce
  BY <1>1
<1> QED BY <1>2, PayInvariant, PTL

(* A failed payout can never validate later, and a confirmed one did. *)
THEOREM VerdictsHold == OneClaimPerPass => (Spec => []VerdictsAreFinal)
<1>1. ASSUME PayInv
      PROVE  VerdictsAreFinal
  <2> SUFFICES ASSUME NEW o \in Offers
               PROVE  /\ refund[o].state = "failed" =>
                           \A a \in 1 .. refund[o].attempt : tx[o][a] = "dead"
                      /\ refund[o].state = "confirmed" => FoundSince(o, 1)
    BY DEF VerdictsAreFinal
  <2>1. /\ Sound(refund[o], tx[o]) /\ refund[o].attempt \in Nat
        /\ refund[o].attempt \in 0 .. MaxAttempts
        /\ refund[o].attempt # 0 => refund[o].attempt \in Attempts
    BY <1>1, PayKnown
  <2>2. ASSUME refund[o].state = "failed", NEW a \in 1 .. refund[o].attempt
        PROVE  tx[o][a] = "dead"
    <3>1. a \in Attempts /\ (a < refund[o].attempt \/ a = refund[o].attempt)
      BY <2>1, FeeCoverAssumption DEF Attempts
    <3> QED BY <2>1, <2>2, <3>1 DEF Sound
  <2>3. ASSUME refund[o].state = "confirmed"
        PROVE  FoundSince(o, 1)
    BY <2>1, <2>3 DEF Sound, FoundSince, Attempts
  <2> QED BY <2>2, <2>3
<1>2. PayInv => VerdictsAreFinal
  BY <1>1
<1> QED BY <1>2, PayInvariant, PTL

-----------------------------------------------------------------------------
(* The promise and the quote. *)

(* Where the quote, the tasks and a release move. *)
LEMMA QuoteMoves ==
  ASSUME MarketTypes, [Next]_vars, NEW p \in Offers
  PROVE  \/ quote'[p] = quote[p]
         \/ QuoteBid(p) /\ quote'[p] = "pending"
         \/ quote'[p] = "dead" /\ bid[p] = "lapsed"
         \/ quote'[p] = "promised" /\ \E t \in Tasks : At(t, "close promised", p)
         \/ quote'[p] \in {"uncovered", "abandoned"}
<1>t. quote \in [Offers -> Quotes]
  BY DEF MarketTypes
<1> DEFINE Goal == \/ quote'[p] = quote[p]
                   \/ QuoteBid(p) /\ quote'[p] = "pending"
                   \/ quote'[p] = "dead" /\ bid[p] = "lapsed"
                   \/ quote'[p] = "promised" /\ \E t \in Tasks : At(t, "close promised", p)
                   \/ quote'[p] \in {"uncovered", "abandoned"}
<1>1. ASSUME NEW o \in Offers, QuoteBid(o) \/ Reconcile(o) \/ Abandon(o)
      PROVE  Goal
  <2>1. CASE QuoteBid(o)
    <3>1. quote' = [quote EXCEPT ![o] = "pending"]
      BY <2>1 DEF QuoteBid
    <3> QED BY <1>t, <2>1, <3>1
  <2>2. CASE Reconcile(o)
    BY <1>t, <2>2 DEF Reconcile, SeesDeadBid
  <2>3. CASE Abandon(o)
    BY <1>t, <2>3 DEF Abandon
  <2> QED BY <1>1, <2>1, <2>2, <2>3
<1>2. ASSUME NEW o \in Offers, NEW t \in {o, Sweep}, CloseQuote(t, o)
      PROVE  Goal
  <2>1. PICK q \in {"promised", "uncovered"} :
          /\ q = "promised" => At(t, "close promised", o)
          /\ quote' = [quote EXCEPT ![o] = IF quote[o] = "pending" THEN q ELSE quote[o]]
    BY <1>2 DEF CloseQuote
  <2>2. t \in Tasks
    BY DEF Tasks
  <2>3. CASE p # o
    BY <1>t, <2>1, <2>3
  <2>4. CASE p = o
    <3>1. quote'[p] = quote[p] \/ quote'[p] = q
      BY <1>t, <2>1, <2>4
    <3> QED BY <2>1, <2>2, <2>4, <3>1
  <2> QED BY <2>3, <2>4
<1>3. ASSUME NEW o \in Offers, Step(o), ~(QuoteBid(o) \/ Reconcile(o) \/ Abandon(o)),
             ~\E t \in {o, Sweep} : CloseQuote(t, o)
      PROVE  quote' = quote
  BY <1>3 DEF Step, Ledger, BidMoves, BidLapses, TimePasses, PayoutLands, PayoutDies,
     Archive, Index, FlushCursor, AdvanceSession, Finalize, Evaluate,
     RecordPromise, PromiseWriteFails, Settle, Release, ReleaseCancelled, Certify,
     ReleaseExpired, PayRefund, ClaimForPayout, SendRefund, RecordPayout, ReturnToOwed,
     RequeueScan, Requeue, Recovery, RecoverRead, RecoverFound, RecoverAbsent
<1>4. (~\E o \in Offers : Step(o)) => quote' = quote
  BY NextSteps DEF StartCampaign, UpdateCampaign, StopCampaign, Crash, vars
<1> QED BY <1>1, <1>2, <1>3, <1>4

(* Only the sweep gives a promise back. *)
LEMMA ReleaseMoves ==
  ASSUME RefundTypes, [Next]_vars, NEW p \in Offers,
         promise'[p].state = "released", promise[p].state # "released"
  PROVE  ReleaseCancelled(p) \/ ReleaseExpired(p)
<1>t. promise \in [Offers -> Promises]
  BY DEF RefundTypes
<1>1. ASSUME NEW o \in Offers, NEW t \in {o, Sweep}, RecordPromise(t, o)
      PROVE  FALSE
  <2>1. \/ promise' = promise
        \/ \E st \in {"open", "declined"} :
             promise' = [promise EXCEPT ![o] = [state |-> st, campaign |-> live, drops |-> cover]]
    BY <1>1 DEF RecordPromise, NewPromise
  <2>2. ASSUME NEW st \in {"open", "declined"},
               promise' = [promise EXCEPT ![o] = [state |-> st, campaign |-> live, drops |-> cover]]
        PROVE  FALSE
    BY <1>t, <2>2
  <2> QED BY <2>1, <2>2
<1>2. ASSUME NEW o \in Offers, Settle(o)
      PROVE  FALSE
  <2>1. promise' = [promise EXCEPT ![o].state = "filled"]
    BY <1>2 DEF Settle
  <2> QED BY <1>t, <2>1 DEF Promises
<1>3. ASSUME NEW o \in Offers, Release(o), o # p
      PROVE  FALSE
  <2>1. \/ promise' = promise
        \/ promise' = [promise EXCEPT ![o].state = IF @ = "open" THEN "released" ELSE @]
    BY <1>3 DEF Release, ReleaseCancelled, Certify, ReleaseExpired, ReleasePromise
  <2> QED BY <1>t, <1>3, <2>1
<1>4. ~Certify(p)
  BY DEF Certify
<1>5. ASSUME NEW o \in Offers, Step(o), ~Settle(o), ~Release(o),
             \A t \in {o, Sweep} : ~RecordPromise(t, o)
      PROVE  promise' = promise
  BY <1>5 DEF Step, QuoteBid, Ledger, BidMoves, BidLapses, TimePasses, PayoutLands, PayoutDies,
     Archive, Index, FlushCursor, AdvanceSession, Reconcile, Abandon, Finalize, Evaluate,
     CloseQuote, PromiseWriteFails,
     PayRefund, ClaimForPayout, SendRefund, RecordPayout, ReturnToOwed,
     RequeueScan, Requeue, Recovery, RecoverRead, RecoverFound, RecoverAbsent
<1>6. (\A o \in Offers : ~Step(o)) => promise' = promise
  BY NextSteps DEF StartCampaign, UpdateCampaign, StopCampaign, Crash, vars
<1> QED BY <1>1, <1>2, <1>3, <1>4, <1>5, <1>6 DEF Release

(* Who comes to certify a release, or to close a quote as promised. *)
LEMMA JobMoves ==
  ASSUME MarketTypes, RefundTypes, [Next]_vars, NEW u \in Tasks
  PROVE  \/ job'[u] = job[u]
         \/ job'[u].step \notin {"certified", "close promised"}
         \/ u = Sweep /\ job'[u].step = "certified" /\ Certify(job'[u].offer)
         \/ job'[u].step = "close promised" /\ promise'[job'[u].offer].state # "none"
<1> DEFINE Goal == \/ job'[u] = job[u]
                   \/ job'[u].step \notin {"certified", "close promised"}
                   \/ u = Sweep /\ job'[u].step = "certified" /\ Certify(job'[u].offer)
                   \/ job'[u].step = "close promised" /\ promise'[job'[u].offer].state # "none"
<1>t. job \in [Tasks -> Jobs] /\ promise \in [Offers -> Promises] /\ Sweep \in Tasks /\ Beside \in Tasks
  BY DEF RefundTypes, Tasks
<1>1. ASSUME NEW t \in Tasks, Leave(t)
      PROVE  Goal
  BY <1>t, <1>1 DEF Leave, Idle
<1>2. ASSUME NEW t \in Tasks, NEW st \in Steps \ {"certified", "close promised"}, NEW o,
             NEW n, Goto(t, st, o, n)
      PROVE  Goal
  BY <1>t, <1>2 DEF Goto
<1>3. ASSUME NEW o \in Offers, Certify(o)
      PROVE  Goal
  BY <1>t, <1>3 DEF Certify, Goto
<1>4. ASSUME NEW o \in Offers, NEW t \in {o, Sweep}, RecordPromise(t, o)
      PROVE  Goal
  <2>1. t \in Tasks
    BY DEF Tasks
  <2>2. CASE Goto(t, "close uncovered", o, 0)
    BY <1>2, <2>1, <2>2 DEF Steps
  <2>3. CASE Goto(t, "close promised", o, 0) /\ promise'[o].state # "none"
    BY <1>t, <2>1, <2>3 DEF Goto
  <2>4. Goto(t, "close uncovered", o, 0) \/ (Goto(t, "close promised", o, 0) /\ promise'[o].state # "none")
    <3>1. \/ Goto(t, "close uncovered", o, 0)
          \/ Goto(t, "close promised", o, 0) /\ promise[o].state # "none" /\ promise' = promise
          \/ Goto(t, "close promised", o, 0) /\ \E st \in {"open", "declined"} : NewPromise(o, st)
      BY <1>4 DEF RecordPromise
    <3>2. ASSUME NEW st \in {"open", "declined"}, NewPromise(o, st)
          PROVE  promise'[o].state # "none"
      <4>1. promise'[o] = [state |-> st, campaign |-> live, drops |-> cover]
        BY <1>t, <3>2 DEF NewPromise
      <4> QED BY <4>1
    <3> QED BY <3>1, <3>2
  <2> QED BY <2>2, <2>3, <2>4
<1>5. ASSUME NEW o \in Offers, NEW t \in {o, Sweep},
             Evaluate(t, o) \/ CloseQuote(t, o) \/ PromiseWriteFails(t, o)
      PROVE  Goal
  <2>1. t \in Tasks
    BY DEF Tasks
  <2> QED BY <1>1, <1>2, <1>5, <2>1 DEF Evaluate, CloseQuote, PromiseWriteFails, Steps
<1>6. ASSUME NEW o \in Offers, AdvanceSession(o) \/ Reconcile(o)
      PROVE  Goal
  <2>1. o \in Tasks
    BY DEF Tasks
  <2> QED BY <1>t, <1>2, <1>6, <2>1 DEF AdvanceSession, Reconcile, Steps
<1>7. ASSUME NEW o \in Offers, ReleaseExpired(o) \/ PayRefund(o) \/ ReturnToOwed(o) \/ RequeueScan(o) \/ Requeue(o)
      PROVE  Goal
  <2>1. CASE ReleaseExpired(o) \/ ReturnToOwed(o) \/ Requeue(o) \/ RecordPayout(o)
    BY <1>t, <1>1, <2>1 DEF ReleaseExpired, ReturnToOwed, Requeue, RecordPayout
  <2>2. CASE RequeueScan(o) \/ SendRefund(o) \/ ClaimForPayout(o)
    BY <1>t, <1>2, <2>2 DEF RequeueScan, SendRefund, ClaimForPayout, Steps
  <2> QED BY <1>7, <2>1, <2>2 DEF PayRefund
<1>8. ASSUME NEW o \in Offers, NEW t \in {Sweep, Beside}, Recovery(t, o)
      PROVE  Goal
  <2>1. CASE RecoverRead(t, o)
    <3>1. Goto(t, "recover past", o, refund[o].attempt) \/ Goto(t, "recover", o, refund[o].attempt)
      BY <2>1 DEF RecoverRead
    <3> QED BY <1>t, <1>2, <3>1 DEF Steps
  <2>2. CASE RecoverFound(t, o) \/ RecoverAbsent(t, o)
    BY <1>t, <1>1, <2>2 DEF RecoverFound, RecoverAbsent
  <2> QED BY <1>8, <2>1, <2>2 DEF Recovery
<1>9. ASSUME NEW o \in Offers, QuoteBid(o) \/ Ledger(o) \/ Archive(o) \/ Abandon(o) \/ Settle(o) \/ ReleaseCancelled(o)
      PROVE  Goal
  BY <1>9 DEF QuoteBid, Ledger, BidMoves, BidLapses, TimePasses, PayoutLands, PayoutDies, Archive,
     Index, FlushCursor, Abandon, Settle, ReleaseCancelled
<1>10. CASE \A o \in Offers : ~Step(o)
  <2>1. UNCHANGED job \/ job' = [t \in Tasks |-> Idle]
    BY <1>10, NextSteps DEF StartCampaign, UpdateCampaign, StopCampaign, Crash, vars
  <2>2. Idle.step \notin {"certified", "close promised"}
    BY DEF Idle
  <2>3. CASE job' = [t \in Tasks |-> Idle]
    <3>1. job'[u] = Idle
      BY <2>3, Zenon
    <3> QED BY <2>2, <3>1
  <2>4. CASE job' = job
    BY <2>4
  <2> QED BY <2>1, <2>3, <2>4
<1> HIDE DEF Goal
<1>11. ASSUME NEW o \in Offers, Step(o)
       PROVE  Goal
  BY <1>3, <1>4, <1>5, <1>6, <1>7, <1>8, <1>9, <1>11 DEF Step, Finalize, Release
<1> QED BY <1>10, <1>11 DEF Goal

(* Past the margin the archive holds every sale. *)
LEMMA LedgerStep ==
  ASSUME MarketTypes, LedgerKnows, [Next]_vars
  PROVE  LedgerKnows'
<1>t. /\ bid \in [Offers -> Bids] /\ clock \in [Offers -> 0 .. 3] /\ cursor \in [Offers -> 0 .. 2]
      /\ indexed \in [Offers -> BOOLEAN] /\ quote \in [Offers -> Quotes]
  BY DEF MarketTypes
<1>1. ASSUME NEW o \in Offers, Market(o)
      PROVE  LedgerKnows'
  <2>1. CASE QuoteBid(o)
    BY <1>t, <2>1 DEF QuoteBid, LedgerKnows
  <2>2. CASE BidMoves(o)
    BY <1>t, <2>2 DEF BidMoves, LedgerKnows
  <2>3. CASE BidLapses(o)
    BY <1>t, <2>3 DEF BidLapses, LedgerKnows
  <2>4. CASE TimePasses(o)
    BY <1>t, <2>4 DEF TimePasses, LedgerKnows
  <2>5. CASE Index(o)
    BY <1>t, <2>5 DEF Index, LedgerKnows
  <2>6. CASE FlushCursor(o)
    BY <1>t, <2>6 DEF FlushCursor, LedgerKnows
  <2> QED BY <1>1, <2>1, <2>2, <2>3, <2>4, <2>5, <2>6 DEF Market
<1>2. ASSUME \A o \in Offers : ~Market(o)
      PROVE  LedgerKnows'
  <2>1. UNCHANGED market
    BY <1>2, MarketMoves
  <2>2. \A o \in Offers : \/ quote'[o] = quote[o]
                          \/ quote'[o] = "dead" /\ bid[o] = "lapsed"
                          \/ quote'[o] \notin {"none", "dead"}
    BY <1>2, QuoteMoves DEF Market
  <2> QED BY <2>1, <2>2 DEF LedgerKnows, market
<1> QED BY <1>1, <1>2

(* A release rests on a cancel, or on the certified archive. *)
LEMMA ReleaseStep ==
  ASSUME MarketTypes, RefundTypes, LedgerKnows, ReleaseKnows, [Next]_vars
  PROVE  ReleaseKnows'
<1>t. /\ bid \in [Offers -> Bids] /\ clock \in [Offers -> 0 .. 3] /\ cursor \in [Offers -> 0 .. 2]
      /\ promise \in [Offers -> Promises]
  BY DEF MarketTypes, RefundTypes
<1>1. ASSUME NEW o \in Offers
      PROVE  /\ cursor[o] = 2 => cursor'[o] = 2
             /\ bid[o] = "cancelled" /\ quote[o] # "none" => bid'[o] = "cancelled"
             /\ clock[o] >= 1 => clock'[o] >= 1
             /\ clock[o] >= 1 /\ bid[o] # "sold" => bid'[o] # "sold"
  <2>1. ASSUME NEW p \in Offers, Market(p)
        PROVE  /\ cursor[o] = 2 => cursor'[o] = 2
               /\ bid[o] = "cancelled" /\ quote[o] # "none" => bid'[o] = "cancelled"
               /\ clock[o] >= 1 => clock'[o] >= 1
               /\ clock[o] >= 1 /\ bid[o] # "sold" => bid'[o] # "sold"
    BY <1>t, <2>1 DEF Market, QuoteBid, BidMoves, BidLapses, TimePasses, Index, FlushCursor
  <2>2. CASE \A p \in Offers : ~Market(p)
    BY <2>2, MarketMoves DEF market
  <2> QED BY <2>1, <2>2
<1>2. ASSUME NEW o \in Offers, At(Sweep, "certified", o)'
      PROVE  cursor'[o] = 2
  <2>1. At(Sweep, "certified", o) \/ Certify(o)
    BY <1>2, JobMoves DEF At, Tasks
  <2> QED BY <1>1, <2>1 DEF ReleaseKnows, Certify, ArchivePast
<1>3. ASSUME NEW o \in Offers, promise'[o].state = "released", promise[o].state # "released"
      PROVE  bid'[o] = "cancelled" \/ (bid'[o] # "sold" /\ clock'[o] >= 1)
  <2>1. ReleaseCancelled(o) \/ ReleaseExpired(o)
    BY <1>3, ReleaseMoves
  <2>2. CASE ReleaseCancelled(o)
    BY <2>2 DEF ReleaseCancelled, market
  <2>3. CASE ReleaseExpired(o)
    <3>1. UNCHANGED market /\ At(Sweep, "certified", o) /\ ~(indexed[o] /\ bid[o] = "sold")
      BY <1>3, <2>3 DEF ReleaseExpired
    <3>2. cursor[o] = 2 /\ cursor[o] <= clock[o]
      BY <3>1 DEF ReleaseKnows, LedgerKnows
    <3>3. bid[o] # "sold" /\ clock[o] >= 1
      BY <1>t, <3>1, <3>2 DEF LedgerKnows
    <3> QED BY <3>1, <3>3 DEF market
  <2> QED BY <2>1, <2>2, <2>3
<1>4. ASSUME NEW o \in Offers, promise[o].state = "released"
      PROVE  bid'[o] = "cancelled" \/ (bid'[o] # "sold" /\ clock'[o] >= 1)
  <2>1. bid[o] = "cancelled" => quote[o] # "none"
    BY DEF LedgerKnows
  <2> QED BY <1>1, <1>4, <2>1 DEF ReleaseKnows
<1> QED BY <1>2, <1>3, <1>4 DEF ReleaseKnows

(* A quote is closed as promised only after its promise was made. *)
LEMMA CloseStep ==
  ASSUME MarketTypes, RefundTypes, CloseKnows, [Next]_vars
  PROVE  CloseKnows'
<1>1. \A o \in Offers : promise[o].state # "none" => promise'[o].state # "none"
  BY PromiseMoves
<1>2. ASSUME NEW o \in Offers, NEW t \in Tasks, At(t, "close promised", o)'
      PROVE  promise'[o].state # "none"
  BY <1>1, <1>2, JobMoves DEF At, CloseKnows
<1>3. ASSUME NEW o \in Offers, quote'[o] = "promised"
      PROVE  promise'[o].state # "none"
  <2>1. quote[o] = "promised" \/ \E t \in Tasks : At(t, "close promised", o)
    BY <1>3, QuoteMoves DEF Quotes
  <2> QED BY <1>1, <2>1 DEF CloseKnows
<1> QED BY <1>2, <1>3 DEF CloseKnows

(* The promises and the quotes, whatever the step. *)
LEMMA PromiseInvariant == Spec => []PromiseInv
<1>1. Init => PromiseInv
  BY InvInit
<1>2. TypeInv /\ TypeInv' /\ PromiseInv /\ [Next]_vars => PromiseInv'
  BY LedgerStep, ReleaseStep, CloseStep DEF PromiseInv, TypeInv
<1> QED BY <1>1, <1>2, TypeInvariant, PTL DEF Spec

(* A promise is never given back while its bid was sold. *)
THEOREM SoldStaysPromised == Spec => []SoldIsNeverReleased
<1>1. PromiseInv => SoldIsNeverReleased
  BY DEF PromiseInv, ReleaseKnows, SoldIsNeverReleased
<1> QED BY <1>1, PromiseInvariant, PTL

(* What a closed quote records is true. *)
THEOREM QuotesAreTrue == Spec => []QuoteTellsTheTruth
<1>1. PromiseInv => QuoteTellsTheTruth
  BY DEF PromiseInv, LedgerKnows, CloseKnows, QuoteTellsTheTruth
<1> QED BY <1>1, PromiseInvariant, PTL

-----------------------------------------------------------------------------
(* The budget: sums over the bids. *)

(* Induction over the numbers, for one set: the least number it lacks has a
   predecessor in it. *)
LEMMA EveryNumber ==
  ASSUME NEW Q, 0 \in Q, \A n \in Nat : n \in Q => n + 1 \in Q
  PROVE  Nat \subseteq Q
<1> SUFFICES ASSUME NEW k \in Nat \ Q
             PROVE  FALSE
  OBVIOUS
<1> DEFINE R == Nat \ Q
<1>1. IsWellFoundedOn(OpToRel(<, Nat), Nat)
  BY NatLessThanWellFounded, Zenon
<1>2. PICK n \in R : \A m \in R : ~ (<<m, n>> \in OpToRel(<, Nat))
  BY <1>1, WFMin, Zenon
<1>3. OpToRel(<, Nat) = {r \in Nat \X Nat : r[1] < r[2]}
  BY Zenon DEF OpToRel
<1>4. \A m \in R : ~ (m < n)
  BY <1>2, <1>3
<1>5. n - 1 \in Nat /\ n - 1 \in Q
  BY <1>4
<1> QED BY <1>5

(* g is the running sum of F that MapThenSumSet computes over S. *)
Picked(s) == CHOOSE x \in s : TRUE
Sums(g, F, S) ==
    g = [s \in SUBSET S |-> IF s = {} THEN 0 ELSE F[Picked(s)] + g[s \ {Picked(s)}]]

(* It exists, because S is finite. *)
LEMMA SumExists ==
  ASSUME NEW S, IsFiniteSet(S), NEW F
  PROVE  \E g : Sums(g, F, S)
<1> DEFINE Level(n) == {s \in SUBSET S : Cardinality(s) <= n}
           Rule(g, s) == IF s = {} THEN 0 ELSE F[Picked(s)] + g[s \ {Picked(s)}]
           Q == {n \in Nat : \E g : \A s \in Level(n) : g[s] = Rule(g, s)}
<1>1. \A s \in SUBSET S : IsFiniteSet(s) /\ Cardinality(s) \in Nat
  BY FS_Subset, FS_CardinalityType
<1>2. \A s \in SUBSET S : s # {} =>
        /\ s \ {Picked(s)} \in SUBSET S
        /\ Cardinality(s \ {Picked(s)}) = Cardinality(s) - 1
  <2> SUFFICES ASSUME NEW s \in SUBSET S, s # {}
               PROVE  Cardinality(s \ {Picked(s)}) = Cardinality(s) - 1
    OBVIOUS
  <2>1. Picked(s) \in s
    BY DEF Picked
  <2> QED BY <1>1, <2>1, FS_RemoveElement
<1>3. 0 \in Q
  <2> DEFINE g0 == [s \in SUBSET S |-> 0]
  <2>1. \A s \in Level(0) : s = {}
    BY <1>1, FS_EmptySet
  <2>2. \A s \in Level(0) : g0[s] = Rule(g0, s)
    BY <2>1
  <2> HIDE DEF g0
  <2> QED BY <2>2
<1>4. ASSUME NEW n \in Nat, n \in Q
      PROVE  n + 1 \in Q
  <2>1. PICK g : \A s \in Level(n) : g[s] = Rule(g, s)
    BY <1>4
  <2> DEFINE h == [s \in Level(n + 1) |-> Rule(g, s)]
  <2>2. ASSUME NEW s \in Level(n + 1)
        PROVE  h[s] = Rule(h, s)
    <3>1. CASE s = {}
      BY <3>1
    <3>2. CASE s # {}
      <4> DEFINE r == s \ {Picked(s)}
      <4>1. r \in Level(n) /\ r \in Level(n + 1)
        BY <1>1, <1>2, <3>2
      <4>2. h[r] = g[r]
        BY <2>1, <4>1
      <4> QED BY <3>2, <4>2
    <3> QED BY <3>1, <3>2
  <2> HIDE DEF h
  <2>3. \E f : \A s \in Level(n + 1) : f[s] = Rule(f, s)
    <3> WITNESS h
    <3> QED BY <2>2
  <2> HIDE DEF Level, Rule
  <2> QED BY <2>3
<1>5. Cardinality(S) \in Q
  <2> HIDE DEF Q
  <2> QED BY <1>1, <1>3, <1>4, EveryNumber
<1>6. Level(Cardinality(S)) = SUBSET S
  BY FS_Subset
<1>7. PICK g : \A s \in SUBSET S : g[s] = Rule(g, s)
  BY <1>5, <1>6
<1> DEFINE f == [s \in SUBSET S |-> g[s]]
<1>8. \A s \in SUBSET S : f[s] = Rule(f, s)
  BY <1>2, <1>7
<1>9. f = [s \in SUBSET S |-> f[s]]
  OBVIOUS
<1> HIDE DEF f
<1>10. f = [s \in SUBSET S |-> Rule(f, s)]
  BY <1>8, <1>9
<1> QED BY <1>10 DEF Sums

(* Two sums that differ in one term. *)
LEMMA SumsDiffer ==
  ASSUME NEW S, IsFiniteSet(S), NEW F, NEW H, NEW g, NEW h, Sums(g, F, S), Sums(h, H, S),
         \A x \in S : F[x] \in Nat /\ H[x] \in Nat,
         NEW o, \A x \in S \ {o} : H[x] = F[x]
  PROVE  /\ g[S] \in Nat /\ h[S] \in Nat
         /\ h[S] = IF o \in S THEN (g[S] - F[o]) + H[o] ELSE g[S]
<1> DEFINE Good(s) == /\ g[s] \in Nat /\ h[s] \in Nat
                      /\ h[s] = IF o \in s THEN (g[s] - F[o]) + H[o] ELSE g[s]
           Q == {n \in Nat : \A s \in SUBSET S : Cardinality(s) <= n => Good(s)}
<1>1. \A s \in SUBSET S : IsFiniteSet(s) /\ Cardinality(s) \in Nat
  BY FS_Subset, FS_CardinalityType
<1>2. ASSUME NEW s \in SUBSET S
      PROVE  /\ s = {} => g[s] = 0 /\ h[s] = 0
             /\ s # {} => /\ g[s] = F[Picked(s)] + g[s \ {Picked(s)}]
                          /\ h[s] = H[Picked(s)] + h[s \ {Picked(s)}]
  <2>1. g[s] = IF s = {} THEN 0 ELSE F[Picked(s)] + g[s \ {Picked(s)}]
    BY Zenon DEF Sums
  <2>2. h[s] = IF s = {} THEN 0 ELSE H[Picked(s)] + h[s \ {Picked(s)}]
    BY Zenon DEF Sums
  <2> QED BY <2>1, <2>2
<1>3. 0 \in Q
  <2>1. ASSUME NEW s \in SUBSET S, Cardinality(s) <= 0
        PROVE  Good(s)
    <3>1. s = {}
      BY <1>1, <2>1, FS_EmptySet
    <3> QED BY <1>2, <3>1
  <2> QED BY <2>1
<1>4. ASSUME NEW n \in Nat, n \in Q
      PROVE  n + 1 \in Q
  <2>1. ASSUME NEW s \in SUBSET S, Cardinality(s) <= n + 1
        PROVE  Good(s)
    <3>1. CASE s = {}
      <4>1. g[s] = 0 /\ h[s] = 0 /\ o \notin s
        BY <1>2, <3>1
      <4> QED BY <4>1
    <3>2. CASE s # {}
      <4> DEFINE p == Picked(s)
                 r == s \ {p}
      <4>1. p \in s /\ p \in S
        BY <3>2 DEF Picked
      <4>2. r \in SUBSET S /\ Cardinality(r) <= n
        BY <1>1, <2>1, <4>1, FS_RemoveElement
      <4>3. Good(r)
        BY <1>4, <4>2
      <4>4. g[s] = F[p] + g[r] /\ h[s] = H[p] + h[r]
        BY <1>2, <3>2
      <4>5. F[p] \in Nat /\ H[p] \in Nat
        BY <4>1
      <4> HIDE DEF p
      <4>6. CASE p = o
        BY <4>1, <4>3, <4>4, <4>5, <4>6
      <4>7. CASE p # o
        <5>1. H[p] = F[p] /\ (o \in s <=> o \in r)
          BY <4>1, <4>7
        <5>2. o \in r => F[o] \in Nat /\ H[o] \in Nat
          BY <4>2
        <5> HIDE DEF r
        <5> QED BY <4>3, <4>4, <4>5, <5>1, <5>2
      <4> QED BY <4>6, <4>7
    <3> QED BY <3>1, <3>2
  <2> HIDE DEF Good
  <2> QED BY <1>4, <2>1
<1>5. Cardinality(S) \in Q
  <2> HIDE DEF Q
  <2> QED BY <1>1, <1>3, <1>4, EveryNumber
<1> QED BY <1>1, <1>5

(* What is committed is such a sum, before a step and after it. *)
LEMMA CommittedIs ==
  ASSUME NEW c
  PROVE  /\ \E g : Sums(g, [o \in Offers |-> Reserved(o, c)], Offers) /\ Committed(c) = g[Offers]
         /\ \E g : Sums(g, [o \in Offers |-> Reserved(o, c)'], Offers) /\ Committed(c)' = g[Offers]
<1> DEFINE F == [o \in Offers |-> Reserved(o, c)]
           H == [o \in Offers |-> Reserved(o, c)']
           Before(g) == [s \in SUBSET Offers |->
                         IF s = {} THEN 0
                         ELSE Reserved(CHOOSE x \in s : TRUE, c) + g[s \ {CHOOSE x \in s : TRUE}]]
           After(g) == [s \in SUBSET Offers |->
                         IF s = {} THEN 0
                         ELSE Reserved(CHOOSE x \in s : TRUE, c)' + g[s \ {CHOOSE x \in s : TRUE}]]
<1>1. \A s \in SUBSET Offers : s # {} => Picked(s) \in Offers
  BY DEF Picked
<1>2. \A g : Sums(g, F, Offers) <=> g = Before(g)
  BY <1>1 DEF Sums, Picked
<1>3. \A g : Sums(g, H, Offers) <=> g = After(g)
  BY <1>1 DEF Sums, Picked
<1>4. Committed(c) = (CHOOSE g : g = Before(g))[Offers]
  BY DEF Committed, MapThenSumSet, MapThenFoldSet
<1>5. Committed(c)' = (CHOOSE g : g = After(g))[Offers]
  BY DEF Committed, MapThenSumSet, MapThenFoldSet
<1>6. (\E g : Sums(g, F, Offers)) /\ (\E g : Sums(g, H, Offers))
  BY SumExists, FeeCoverAssumption
<1> HIDE DEF F, H, Before, After
<1>7. (\E g : g = Before(g)) /\ (\E g : g = After(g))
  BY <1>2, <1>3, <1>6, Zenon
<1> DEFINE f == CHOOSE g : g = Before(g)
           h == CHOOSE g : g = After(g)
<1>8. f = Before(f) /\ h = After(h)
  BY <1>7, Zenon
<1>9. Committed(c) = f[Offers] /\ Committed(c)' = h[Offers]
  BY <1>4, <1>5, Zenon
<1> HIDE DEF f, h
<1>10. \E k : Sums(k, F, Offers) /\ Committed(c) = k[Offers]
  BY <1>2, <1>8, <1>9
<1>11. \E k : Sums(k, H, Offers) /\ Committed(c)' = k[Offers]
  BY <1>3, <1>8, <1>9
<1> QED BY <1>10, <1>11 DEF F, H

(* What a bid reserves is a number of drops. *)
LEMMA ReservedIsNat ==
  ASSUME RefundTypes, NEW o \in Offers, NEW c
  PROVE  Reserved(o, c) \in Nat
<1>1. promise[o].drops \in Nat /\ refund[o].drops \in Nat
  <2>1. promise[o] \in Promises /\ refund[o] \in Refunds
    BY DEF RefundTypes
  <2> QED BY <2>1, DropsAreNat DEF Refunds
<1> QED BY <1>1 DEF Reserved

(* A step for one bid changes what is committed by what that bid reserves. *)
LEMMA CommittedMoves ==
  ASSUME RefundTypes, RefundTypes', NEW c, NEW o \in Offers,
         \A p \in Offers \ {o} : Reserved(p, c)' = Reserved(p, c)
  PROVE  /\ Committed(c) \in Nat /\ Committed(c)' \in Nat
         /\ Committed(c)' = (Committed(c) - Reserved(o, c)) + Reserved(o, c)'
<1> DEFINE F == [p \in Offers |-> Reserved(p, c)]
           H == [p \in Offers |-> Reserved(p, c)']
<1>1. PICK g : Sums(g, F, Offers) /\ Committed(c) = g[Offers]
  BY CommittedIs
<1>2. PICK h : Sums(h, H, Offers) /\ Committed(c)' = h[Offers]
  BY CommittedIs
<1>3. \A p \in Offers : Reserved(p, c) \in Nat
  BY ReservedIsNat
<1>4. \A p \in Offers : Reserved(p, c)' \in Nat
  <2> SUFFICES ASSUME NEW p \in Offers PROVE Reserved(p, c)' \in Nat
    OBVIOUS
  <2>1. promise'[p].drops \in Nat /\ refund'[p].drops \in Nat
    <3>1. promise'[p] \in Promises /\ refund'[p] \in Refunds
      BY DEF RefundTypes
    <3> QED BY <3>1, DropsAreNat DEF Refunds
  <2> QED BY <2>1 DEF Reserved
<1>5. /\ \A p \in Offers : F[p] \in Nat /\ H[p] \in Nat
      /\ \A p \in Offers \ {o} : H[p] = F[p]
      /\ F[o] = Reserved(o, c) /\ H[o] = Reserved(o, c)'
  BY <1>3, <1>4
<1>6. IsFiniteSet(Offers)
  BY FeeCoverAssumption
<1> HIDE DEF F, H
<1>7. /\ g[Offers] \in Nat /\ h[Offers] \in Nat
      /\ h[Offers] = IF o \in Offers THEN (g[Offers] - F[o]) + H[o] ELSE g[Offers]
  BY <1>1, <1>2, <1>5, <1>6, SumsDiffer
<1> QED BY <1>1, <1>2, <1>5, <1>7

(* No bid reserves more: nothing more is committed. *)
LEMMA CommittedStays ==
  ASSUME RefundTypes, UNCHANGED <<promise, refund>>, NEW c
  PROVE  Committed(c) \in Nat /\ Committed(c)' = Committed(c)
<1>1. RefundTypes => \A p \in Offers : Reserved(p, c) \in Nat
  BY ReservedIsNat
<1>2. [o \in Offers |-> Reserved(o, c)'] = [o \in Offers |-> Reserved(o, c)]
  BY DEF Reserved
<1> DEFINE F == [p \in Offers |-> Reserved(p, c)]
<1>3. PICK g : Sums(g, F, Offers) /\ Committed(c) = g[Offers]
  BY CommittedIs
<1>4. PICK h : Sums(h, F, Offers) /\ Committed(c)' = h[Offers]
  BY <1>2, CommittedIs
<1>5. /\ \A p \in Offers : F[p] \in Nat
      /\ IsFiniteSet(Offers)
  BY <1>1, FeeCoverAssumption
<1> HIDE DEF F
<1>6. None \notin Offers
  BY FeeCoverAssumption
<1>7. g[Offers] \in Nat /\ h[Offers] = g[Offers]
  BY <1>3, <1>4, <1>5, <1>6, SumsDiffer
<1> QED BY <1>3, <1>4, <1>7

-----------------------------------------------------------------------------
(* The budget: what each step reserves. *)

Holding == {"owed", "submitted", "confirmed"}

(* A refund comes to be reserved again by a requeue only, which checks. *)
LEMMA PaysHold ==
  ASSUME PayInv, NEW o \in Offers, Pays(o)
  PROVE  /\ UNCHANGED <<promise, budget>>
         /\ \A p \in Offers \ {o} : refund'[p] = refund[p]
         /\ refund'[o].drops = refund[o].drops
         /\ \/ refund'[o].state \notin Holding \/ refund[o].state \in Holding
            \/ Headroom(promise[o].campaign, refund[o].drops)
<1> DEFINE n == refund[o].attempt
           Goal == /\ \A p \in Offers \ {o} : refund'[p] = refund[p]
                   /\ refund'[o].drops = refund[o].drops
                   /\ \/ refund'[o].state \notin Holding \/ refund[o].state \in Holding
                      \/ Headroom(promise[o].campaign, refund[o].drops)
<1>k. /\ refund \in [Offers -> Refunds]
      /\ n \in Nat /\ n \in 0 .. MaxAttempts
      /\ Sound(refund[o], tx[o])
      /\ job[Sweep].offer = o => PayerKnows(job[Sweep], refund[o], tx[o])
      /\ \A t \in {Sweep, Beside} : job[t].offer = o => RecoveryKnows(job[t], refund[o], tx[o])
  BY PayKnown
<1>r. refund[o] \in Refunds
  BY <1>k
<1>1. UNCHANGED <<promise, budget>>
  BY DEF Pays, PayoutLands, PayoutDies, PayRefund, ClaimForPayout, SendRefund, RecordPayout,
     ReturnToOwed, Requeue, Recovery, RecoverRead, RecoverFound, RecoverAbsent, campaign
<1>2. ASSUME UNCHANGED refund PROVE Goal
  BY <1>k, <1>2
<1>3. ASSUME NEW to, refund' = [refund EXCEPT ![o].state = to],
             to \notin Holding \/ refund[o].state \in Holding
                \/ Headroom(promise[o].campaign, refund[o].drops)
      PROVE  Goal
  BY <1>k, <1>r, <1>3 DEF Refunds
<1> SUFFICES Goal
  BY <1>1
<1>f. refund[o].state = "failed" => n # 0 /\ n \in Attempts /\ tx[o][n] = "dead"
  BY <1>k, FeeCoverAssumption DEF Sound, Attempts
<1> HIDE DEF Goal
<1>4. CASE \/ \E a \in Attempts : PayoutLands(o, a) \/ PayoutDies(o, a)
           \/ SendRefund(o) \/ \E t \in {Sweep, Beside} : RecoverRead(t, o)
  <2>1. UNCHANGED refund
    BY <1>4 DEF PayoutLands, PayoutDies, SendRefund, RecoverRead
  <2> QED BY <1>2, <2>1
<1>5. CASE ClaimForPayout(o)
  <2>1. /\ refund[o].state = "owed"
        /\ refund' = [refund EXCEPT ![o] = [refund[o] EXCEPT !.state = "submitted",
                                                             !.attempt = refund[o].attempt + 1]]
    BY <1>5 DEF ClaimForPayout
  <2>2. [refund[o] EXCEPT !.state = "submitted", !.attempt = refund[o].attempt + 1].drops = refund[o].drops
    BY <1>r DEF Refunds
  <2>3. refund'[o].drops = refund[o].drops /\ \A p \in Offers \ {o} : refund'[p] = refund[p]
    BY <1>k, <2>1, <2>2
  <2> QED BY <2>1, <2>3 DEF Holding, Goal
<1>6. CASE RecordPayout(o)
  <2>1. /\ At(Sweep, "sent", o)
        /\ \/ /\ tx[o][job[Sweep].seen] = "landed"
              /\ SetRefund(o, {"submitted", "failed"}, "confirmed")
           \/ SetRefund(o, {"submitted"}, "failed")
           \/ UNCHANGED refund
    BY <1>6 DEF RecordPayout
  <2>2. job[Sweep].seen = n
    BY <1>k, <2>1 DEF At, PayerKnows
  <2>3. CASE UNCHANGED refund
    BY <1>2, <2>3
  <2>4. CASE ~UNCHANGED refund /\ tx[o][n] = "landed" /\ SetRefund(o, {"submitted", "failed"}, "confirmed")
    <3>1. refund[o].state \in {"submitted", "failed"} /\ refund' = [refund EXCEPT ![o].state = "confirmed"]
      BY <1>k, <2>4, SetRefundIs
    <3>2. refund[o].state = "submitted"
      BY <1>f, <2>4, <3>1
    <3> QED BY <1>3, <3>1, <3>2 DEF Holding
  <2>5. CASE ~UNCHANGED refund /\ SetRefund(o, {"submitted"}, "failed")
    <3>1. refund' = [refund EXCEPT ![o].state = "failed"]
      BY <1>k, <2>5, SetRefundIs
    <3> QED BY <1>3, <3>1 DEF Holding
  <2> QED BY <2>1, <2>2, <2>3, <2>4, <2>5
<1>7. CASE ReturnToOwed(o)
  <2>1. UNCHANGED refund
        \/ (refund[o].state \in {"submitted"} /\ refund' = [refund EXCEPT ![o].state = "owed"])
    BY <1>k, <1>7, SetRefundIs DEF ReturnToOwed
  <2> QED BY <1>2, <1>3, <2>1 DEF Holding
<1>8. CASE Requeue(o)
  <2>1. UNCHANGED refund \/ (SetRefund(o, {"failed"}, "owed") /\ Headroom(promise[o].campaign, refund[o].drops))
    BY <1>8 DEF Requeue
  <2>2. UNCHANGED refund
        \/ (refund' = [refund EXCEPT ![o].state = "owed"] /\ Headroom(promise[o].campaign, refund[o].drops))
    BY <1>k, <2>1, SetRefundIs
  <2> QED BY <1>2, <1>3, <2>2
<1>9. ASSUME NEW t \in {Sweep, Beside}, RecoverFound(t, o)
      PROVE  Goal
  <2>1. /\ At(t, "recover", o) \/ At(t, "recover past", o)
        /\ FoundSince(o, job[t].seen) /\ SetRefund(o, {"submitted", "failed"}, "confirmed")
    BY <1>9 DEF RecoverFound
  <2>2. PICK a \in job[t].seen .. MaxAttempts : tx[o][a] = "landed"
    BY <2>1 DEF FoundSince
  <2>3. job[t].seen \in 1 .. n
    BY <1>k, <2>1 DEF At, RecoveryKnows
  <2>4. a \in Attempts
    BY <1>k, <2>2, <2>3, FeeCoverAssumption DEF Attempts
  <2>5. a = n
    BY <1>k, <2>2, <2>4 DEF Sound, Attempts
  <2>6. UNCHANGED refund
        \/ (refund[o].state \in {"submitted", "failed"} /\ refund' = [refund EXCEPT ![o].state = "confirmed"])
    BY <1>k, <2>1, SetRefundIs
  <2>7. refund[o].state # "failed"
    BY <1>f, <2>2, <2>5
  <2> QED BY <1>2, <1>3, <2>6, <2>7 DEF Holding
<1>10. ASSUME NEW t \in {Sweep, Beside}, RecoverAbsent(t, o)
       PROVE  Goal
  <2>1. UNCHANGED refund \/ SetRefund(o, {"submitted"}, "failed")
    BY <1>10 DEF RecoverAbsent
  <2>2. UNCHANGED refund \/ refund' = [refund EXCEPT ![o].state = "failed"]
    BY <1>k, <2>1, SetRefundIs
  <2> QED BY <1>2, <1>3, <2>2 DEF Holding
<1> QED BY <1>4, <1>5, <1>6, <1>7, <1>8, <1>9, <1>10 DEF Pays, PayRefund, Recovery

(* What a step for one bid adds to what is committed was checked. *)
LEMMA ReserveStep ==
  ASSUME TypeInv, TypeInv', PayInv, NEW o \in Offers, Step(o), [Next]_vars,
         NEW c \in Campaigns, Committed(c)' > Committed(c)
  PROVE  Committed(c)' <= budget'[c]
<1>t. /\ RefundTypes /\ RefundTypes' /\ c \in Nat \ {0}
      /\ promise \in [Offers -> Promises] /\ refund \in [Offers -> Refunds]
      /\ promise[o].drops \in Nat /\ refund[o].drops \in Nat
  <2>1. /\ RefundTypes /\ RefundTypes' /\ c \in Nat \ {0}
        /\ promise \in [Offers -> Promises] /\ refund \in [Offers -> Refunds]
    BY FeeCoverAssumption DEF TypeInv, RefundTypes
  <2>2. promise[o].drops \in Nat /\ refund[o].drops \in Nat
    BY <2>1, DropsAreNat DEF Refunds
  <2> QED BY <2>1, <2>2
<1>n. budget \in [Campaigns -> Nat]
  <2>1. budget \in [Campaigns -> Budgets \cup {0}] /\ Budgets \cup {0} \subseteq Nat
    BY FeeCoverAssumption DEF TypeInv, MarketTypes
  <2> QED BY <2>1
<1>m. ASSUME \A p \in Offers \ {o} : promise'[p] = promise[p] /\ refund'[p] = refund[p]
      PROVE  /\ Committed(c) \in Nat
             /\ Committed(c)' = (Committed(c) - Reserved(o, c)) + Reserved(o, c)'
             /\ Reserved(o, c) \in Nat
             /\ ~ (Reserved(o, c)' <= Reserved(o, c))
  <2>1. \A p \in Offers \ {o} : Reserved(p, c)' = Reserved(p, c)
    BY <1>m DEF Reserved
  <2>2. /\ Committed(c) \in Nat
        /\ Committed(c)' = (Committed(c) - Reserved(o, c)) + Reserved(o, c)'
    BY <1>t, <2>1, CommittedMoves
  <2>3. Reserved(o, c) \in Nat
    BY <1>t, ReservedIsNat
  <2>4. Reserved(o, c)' \in Nat
    <3>1. promise'[o].drops \in Nat /\ refund'[o].drops \in Nat
      <4>1. promise'[o] \in Promises /\ refund'[o] \in Refunds
        BY <1>t DEF RefundTypes
      <4> QED BY <4>1, DropsAreNat DEF Refunds
    <3> QED BY <3>1 DEF Reserved
  <2> QED BY <2>2, <2>3, <2>4
<1>1. CASE Pays(o)
  <2>1. /\ UNCHANGED <<promise, budget>>
        /\ \A p \in Offers \ {o} : refund'[p] = refund[p]
        /\ refund'[o].drops = refund[o].drops
        /\ \/ refund'[o].state \notin Holding \/ refund[o].state \in Holding
           \/ Headroom(promise[o].campaign, refund[o].drops)
    BY <1>1, PaysHold
  <2>2. /\ Committed(c) \in Nat /\ Reserved(o, c) \in Nat
        /\ Committed(c)' = (Committed(c) - Reserved(o, c)) + Reserved(o, c)'
        /\ ~ (Reserved(o, c)' <= Reserved(o, c))
    BY <1>m, <2>1
  <2>3. /\ promise[o].campaign = c /\ refund'[o].state \in Holding /\ refund[o].state \notin Holding
        /\ Reserved(o, c) = 0 /\ Reserved(o, c)' = refund[o].drops
    BY <1>t, <2>1, <2>2 DEF Reserved, Holding
  <2>4. Committed(c) + refund[o].drops <= budget[c]
    BY <2>1, <2>3 DEF Headroom
  <2> QED BY <1>t, <2>1, <2>2, <2>3, <2>4
<1>2. ASSUME NEW t, RecordPromise(t, o)
      PROVE  Committed(c)' <= budget'[c]
  <2>1. /\ UNCHANGED <<budget, refund>>
        /\ \/ UNCHANGED promise
           \/ promise[o].state = "none" /\ Headroom(live, cover) /\ NewPromise(o, "open")
           \/ promise[o].state = "none" /\ NewPromise(o, "declined")
    BY <1>2 DEF RecordPromise, campaign
  <2>2. /\ \A p \in Offers \ {o} : promise'[p] = promise[p] /\ refund'[p] = refund[p]
        /\ NewPromise(o, "open") => promise'[o] = [state |-> "open", campaign |-> live, drops |-> cover]
        /\ NewPromise(o, "declined") => promise'[o] = [state |-> "declined", campaign |-> live, drops |-> cover]
    BY <1>t, <2>1 DEF NewPromise
  <2>3. /\ Committed(c) \in Nat /\ Reserved(o, c) \in Nat
        /\ Committed(c)' = (Committed(c) - Reserved(o, c)) + Reserved(o, c)'
        /\ ~ (Reserved(o, c)' <= Reserved(o, c))
    BY <1>m, <2>2
  <2>4. promise' # promise
    BY <2>1, <2>3 DEF Reserved
  <2>5. promise[o].state = "none" /\ refund[o] = [state |-> "none", drops |-> 0, attempt |-> 0]
    BY <2>1, <2>4 DEF TypeInv, UnsettledIsUnpaid
  <2>6. Reserved(o, c) = 0
    BY <2>5 DEF Reserved
  <2>7. /\ live = c /\ Headroom(live, cover) /\ Reserved(o, c)' = cover
    BY <2>1, <2>2, <2>3, <2>4, <2>5, <2>6 DEF Reserved
  <2>8. cover \in Nat
    BY FeeCoverAssumption DEF TypeInv, MarketTypes
  <2>9. Committed(c) + cover <= budget[c]
    BY <2>7 DEF Headroom
  <2> QED BY <2>1, <2>3, <2>6, <2>7, <2>8, <2>9
<1>3. CASE Settle(o)
  <2>1. /\ promise[o].state = "open"
        /\ promise'[o].state = "filled" /\ promise' = [promise EXCEPT ![o].state = "filled"]
        /\ \A p \in Offers \ {o} : refund'[p] = refund[p] /\ promise'[p] = promise[p]
        /\ \E d \in 0 .. promise[o].drops, st \in {"owed", "declined"} :
             refund'[o] = [state |-> st, drops |-> d, attempt |-> 0]
    BY <1>3, SettleIs DEF TypeInv, Settle
  <2>2. promise'[o].campaign = promise[o].campaign
    BY <1>t, <2>1 DEF Promises
  <2>3. ~ (Reserved(o, c)' <= Reserved(o, c))
    BY <1>m, <2>1
  <2>4. Reserved(o, c)' <= Reserved(o, c)
    BY <1>t, <2>1, <2>2 DEF Reserved
  <2> QED BY <2>3, <2>4
<1>4. CASE ReleaseCancelled(o) \/ ReleaseExpired(o)
  <2>1. /\ UNCHANGED refund
        /\ promise' = promise \/ promise' = [promise EXCEPT ![o].state = IF @ = "open" THEN "released" ELSE @]
    BY <1>4 DEF ReleaseCancelled, ReleaseExpired, ReleasePromise
  <2>2. /\ \A p \in Offers \ {o} : promise'[p] = promise[p] /\ refund'[p] = refund[p]
        /\ promise'[o] = promise[o]
           \/ (promise[o].state = "open" /\ promise'[o].state = "released")
           \/ (promise'[o].state = promise[o].state /\ promise'[o].campaign = promise[o].campaign
               /\ promise'[o].drops = promise[o].drops)
    BY <1>t, <2>1 DEF Promises
  <2>3. ~ (Reserved(o, c)' <= Reserved(o, c)) /\ Reserved(o, c) \in Nat
    BY <1>m, <2>2
  <2>4. promise[o].state = "open" => refund[o].state = "none"
    BY DEF TypeInv, UnsettledIsUnpaid
  <2>5. Reserved(o, c)' <= Reserved(o, c)
    BY <1>t, <2>1, <2>2, <2>3, <2>4 DEF Reserved
  <2> QED BY <2>3, <2>5
<1>5. CASE /\ ~Pays(o) /\ ~Settle(o) /\ ~ReleaseCancelled(o) /\ ~ReleaseExpired(o)
           /\ \A t \in {o, Sweep} : ~RecordPromise(t, o)
  <2>1. UNCHANGED <<promise, refund>>
    BY <1>5 DEF Step, Pays, QuoteBid, Ledger, BidMoves, BidLapses, TimePasses, PayoutLands, PayoutDies,
     Archive, Index, FlushCursor, AdvanceSession, Reconcile, Abandon, Finalize, Evaluate,
     CloseQuote, PromiseWriteFails, Release, Certify, RequeueScan
  <2>2. Committed(c)' = Committed(c) /\ Committed(c) \in Nat
    BY <1>t, <2>1, CommittedStays
  <2> QED BY <2>2
<1> QED BY <1>1, <1>2, <1>3, <1>4, <1>5

(* No step reserves more of a campaign than its budget.  An operator may lower
   the budget under what is promised; nothing is added then, by a promise, a
   requeue or a confirmation that comes late. *)
AddsWithinBudget ==
    \A c \in Campaigns : Committed(c)' > Committed(c) => Committed(c)' <= budget'[c]

(* record_promise and requeue_failed check the budget; record_payout and
   recover_refunds, which may turn a failed refund into a confirmed one, need
   not, because no failed payout lands (VerdictsHold). *)
THEOREM BudgetHolds == OneClaimPerPass => (Spec => [][AddsWithinBudget]_vars)
<1> SUFFICES ASSUME OneClaimPerPass
             PROVE  Spec => [][AddsWithinBudget]_vars
  OBVIOUS
<1>1. ASSUME TypeInv, TypeInv', PayInv, [Next]_vars
      PROVE  AddsWithinBudget
  <2> SUFFICES ASSUME NEW c \in Campaigns, Committed(c)' > Committed(c)
               PROVE  Committed(c)' <= budget'[c]
    BY DEF AddsWithinBudget
  <2>1. CASE \E o \in Offers : Step(o)
    BY <1>1, <2>1, ReserveStep
  <2>2. CASE ~ \E o \in Offers : Step(o)
    <3>1. UNCHANGED <<promise, refund>>
      BY <1>1, <2>2, NextSteps DEF StartCampaign, UpdateCampaign, StopCampaign, Crash, vars
    <3>2. Committed(c)' = Committed(c) /\ Committed(c) \in Nat
      BY <1>1, <3>1, CommittedStays DEF TypeInv
    <3> QED BY <3>2
  <2> QED BY <2>1, <2>2
<1>2. TypeInv /\ TypeInv' /\ PayInv /\ [Next]_vars => [AddsWithinBudget]_vars
  BY <1>1
<1>3. Spec => []PayInv
  BY PayInvariant
<1> QED BY <1>2, <1>3, TypeInvariant, PTL DEF Spec
=============================================================================

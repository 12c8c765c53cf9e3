---------------------------- MODULE ClosetMarket -----------------------------
(***************************************************************************)
(* The two settlement machines of lfg_core/closet_market_flow.py over the  *)
(* book: a bid's escrow from the user's EscrowCreate to its return, and a  *)
(* fill from its funds to the mirrored Closets.  The 2-minute sweep and    *)
(* the inline kicks of lfg_service/app.py call advance_bid and settle_fill *)
(* at any time, under a lock per order and per fill.                       *)
(*                                                                         *)
(* Each backend transaction is a tag (phase, row).  The intent is written, *)
(* the transaction is sent, its outcome is recorded: three commits with    *)
(* crashes between them.  What a memo scan may conclude about a tag is     *)
(* what PinnedTxProofs proves of the protocol: "absent" only when no       *)
(* transaction of the tag can land any more.                               *)
(***************************************************************************)
EXTENDS ClosetBook

CONSTANTS
    MaxFaults,     \* bound: crashes, lost transactions and unclear outcomes
    LaggingReads   \* TRUE iff get_escrow may be answered by a server that
                   \* does not have the EscrowCreate yet

ASSUME MarketAssumption == MaxFaults \in Nat /\ LaggingReads \in BOOLEAN

VARIABLES
    clock,    \* per bid: 0, 1 FINISH_GUARD before CancelAfter, 2 past it, 3 past the slack
    escrow,   \* per bid, on the ledger
    signed,   \* the user's EscrowCreate of a bid, or Payment of a take fill
    tx,       \* per tag: transactions that may still land, and that landed
    job,      \* where advance_bid / settle_fill is on each row
    faults

vars == <<book, clock, escrow, signed, tx, job, faults>>

Rows == Bids \cup Fills
Tags == {<<p, b>> : p \in BidPhases \ {"none"}, b \in Bids}
          \cup {<<p, f>> : p \in FillPhases \ {"none"}, f \in Fills}

TypeOK ==
    /\ BookTypeOK
    /\ clock \in [Bids -> 0 .. 3]
    /\ escrow \in [Bids -> {"none", "locked", "finished", "returned"}]
    /\ signed \in [Rows -> {"waiting", "full", "short", "dead"}]
    /\ tx \in [Tags -> [live : Nat, landed : Nat]]
    /\ job \in [Asks \cup Rows -> {"idle", "cross", "begun", "sent", "refused"}]
    /\ faults \in 0 .. MaxFaults

Init ==
    /\ BookInit
    /\ clock = [b \in Bids |-> 0]
    /\ escrow = [b \in Bids |-> "none"]
    /\ signed = [r \in Rows |-> "waiting"]
    /\ tx = [t \in Tags |-> [live |-> 0, landed |-> 0]]
    /\ job = [r \in Asks \cup Rows |-> "idle"]
    /\ faults = 0

Fault == faults < MaxFaults /\ faults' = faults + 1
SetJob(r, where) == job' = [job EXCEPT ![r] = where]
Landed(p, r) == tx[<<p, r>>].landed > 0
PaidIn(f) == IF fills[f].bid = 0 THEN signed[f] \in {"full", "short"} ELSE Landed("finish", f)

-----------------------------------------------------------------------------
(* The ledger. *)

(* The user's transaction: asked for with the row, it carries a deadline long
   before CancelAfter, and until then it may be signed and land. *)
Asked(r) == \/ r \in Bids /\ bids[r].state # "none"
            \/ r \in Fills /\ fills[r].state # "none" /\ fills[r].bid = 0

UserTxLands(r) ==
    /\ Asked(r) /\ signed[r] = "waiting"
    /\ IF r \in Bids
       THEN /\ signed' = [signed EXCEPT ![r] = "full"]
            /\ escrow' = [escrow EXCEPT ![r] = "locked"]
       ELSE /\ \E how \in {"full", "short"} : signed' = [signed EXCEPT ![r] = how]
            /\ UNCHANGED escrow
    /\ UNCHANGED <<book, clock, tx, job, faults>>

(* It fails, or its deadline passes. *)
UserTxDies(r) ==
    /\ Asked(r) /\ signed[r] = "waiting"
    /\ signed' = [signed EXCEPT ![r] = "dead"]
    /\ UNCHANGED <<book, clock, escrow, tx, job, faults>>

TimePasses(b) ==
    /\ signed[b] \in {"full", "dead"}
    /\ clock[b] < 3
    /\ clock' = [clock EXCEPT ![b] = @ + 1]
    /\ UNCHANGED <<book, escrow, signed, tx, job, faults>>

BidOf(t) == IF t[2] \in Bids THEN t[2] ELSE fills[t[2]].bid

(* An EscrowFinish needs the escrow and fails after CancelAfter, an
   EscrowCancel fails before it; ledger time lags the wall clock by less than
   the slack. *)
CanSucceed(t) ==
    CASE t[1] \in {"finish", "cancel_finish"} -> escrow[BidOf(t)] = "locked" /\ clock[BidOf(t)] < 3
      [] t[1] = "cancel" -> escrow[BidOf(t)] = "locked" /\ clock[BidOf(t)] >= 2
      [] OTHER -> TRUE

TxLands(t) ==
    /\ tx[t].live > 0
    /\ CanSucceed(t)
    /\ tx' = [tx EXCEPT ![t].live = @ - 1, ![t].landed = @ + 1]
    /\ escrow' = CASE t[1] \in {"finish", "cancel_finish"} ->
                        [escrow EXCEPT ![BidOf(t)] = "finished"]
                   [] t[1] = "cancel" -> [escrow EXCEPT ![BidOf(t)] = "returned"]
                   [] OTHER -> escrow
    /\ UNCHANGED <<book, clock, signed, job, faults>>

(* It fails, or its LastLedgerSequence passes. *)
TxDies(t) ==
    /\ tx[t].live > 0
    /\ tx' = [tx EXCEPT ![t].live = @ - 1]
    /\ IF CanSucceed(t) THEN Fault ELSE UNCHANGED faults
    /\ UNCHANGED <<book, clock, escrow, signed, job>>

(* After CancelAfter anyone may cancel the escrow. *)
AnyoneCancels(b) ==
    /\ escrow[b] = "locked"
    /\ clock[b] >= 2
    /\ escrow' = [escrow EXCEPT ![b] = "returned"]
    /\ UNCHANGED <<book, clock, signed, tx, job, faults>>

(* What get_escrow may answer. *)
SeenGone(b)   == escrow[b] # "locked" \/ LaggingReads
SeenLocked(b) == escrow[b] = "locked"

-----------------------------------------------------------------------------
(* Owners and the economy: the handlers of lfg_service/app.py, up to the
   transaction that creates or changes the row. *)
SettlementUnchanged == UNCHANGED <<clock, escrow, signed, tx, faults>>

PlaceAsk(a, o, p) == CreateAsk(a, o, p) /\ SetJob(a, "cross") /\ SettlementUnchanged
WithdrawAsk(a) == CancelAsk(a) /\ UNCHANGED job /\ SettlementUnchanged
PlaceBid(b, o, p) == CreatePendingBid(b, o, p) /\ UNCHANGED job /\ SettlementUnchanged
WithdrawBid(b) == BeginCancelBid(b, "user") /\ UNCHANGED job /\ SettlementUnchanged
SellIntoBid(b, o) == FillBid(b, o) /\ UNCHANGED job /\ SettlementUnchanged
BuyAsk(f, a, o) == CreateTakeFill(f, a, o) /\ UNCHANGED job /\ SettlementUnchanged
ConsumeUnit(o) == UseUnit(o) /\ UNCHANGED job /\ SettlementUnchanged

LoseCloset(o) ==
    /\ DeleteCloset(o) /\ Fault
    /\ UNCHANGED <<clock, escrow, signed, tx, job>>

OwnerStep(o) ==
    \/ \E a \in Asks, p \in Prices : PlaceAsk(a, o, p)
    \/ \E b \in Bids, p \in Prices : PlaceBid(b, o, p)
    \/ \E b \in Bids : SellIntoBid(b, o)
    \/ \E f \in Fills, a \in Asks : BuyAsk(f, a, o)
    \/ ConsumeUnit(o)
    \/ LoseCloset(o)

(* The second transaction of create_ask's handler and of the open branches
   of advance_bid. *)
RoomForFill == Fresh(Fills, fills) # {}      \* the bound on fills is not reached

CrossStep(r) ==
    /\ job[r] = "cross"
    /\ SetJob(r, "idle")
    /\ IF r \in Asks
       THEN CrossAsk(r) \/ (UNCHANGED book /\ (RoomForFill => ~\E b \in Bids : Crosses(r, b)))
       ELSE CrossBid(r) \/ (UNCHANGED book /\ (RoomForFill => ~\E a \in Asks : Crosses(a, r)))
    /\ UNCHANGED <<clock, escrow, signed, tx, faults>>

(* The task dies, or the process does: what it held in memory is gone. *)
Crash(r) ==
    /\ job[r] # "idle"
    /\ SetJob(r, "idle") /\ Fault
    /\ UNCHANGED <<book, clock, escrow, signed, tx>>

-----------------------------------------------------------------------------
(* Sending a transaction: intent, submission, outcome. *)
SetPhase(r, p) ==
    IF r \in Bids THEN bids' = [bids EXCEPT ![r].phase = p] /\ UNCHANGED fills
    ELSE fills' = [fills EXCEPT ![r].phase = p] /\ UNCHANGED bids
Phase(r) == IF r \in Bids THEN bids[r].phase ELSE fills[r].phase

(* _begin_order_phase, _begin_fill_phase *)
Begin(r, p) ==
    /\ SetPhase(r, p) /\ SetJob(r, "begun")
    /\ UNCHANGED <<active, held, asks, clock, escrow, signed, tx, faults>>

Submit(r) ==
    /\ job[r] = "begun"
    /\ tx' = [tx EXCEPT ![<<Phase(r), r>>].live = @ + 1]
    /\ SetJob(r, "sent")
    /\ UNCHANGED <<book, clock, escrow, signed, faults>>

(* TxNotSubmitted, or a pre-submit simulation that rejects: nothing was sent
   and the intent is cleared.  A rejected finish goes on to look at the
   escrow, as a failed one does. *)
NotSubmitted(r) ==
    /\ job[r] = "begun"
    /\ SetPhase(r, "none")
    /\ IF CanSucceed(<<Phase(r), r>>) THEN Fault ELSE UNCHANGED faults
    /\ \/ SetJob(r, "idle")
       \/ Phase(r) = "finish" /\ SetJob(r, "refused")
    /\ UNCHANGED <<active, held, asks, clock, escrow, signed, tx>>

(* Mutant: the reason is written where the state belongs. *)
FinalCancelStateReason(b) == bids[b].reason

FinalCancelState(b) == IF bids[b].reason = "expired" THEN "expired" ELSE "cancelled"

(* Mutant: a finished escrow is taken for a returned one. *)
BidPhaseDoneEarly(b) ==
    /\ bids' = [bids EXCEPT ![b].phase = "none", ![b].state = FinalCancelState(b)]
    /\ UNCHANGED fills

(* A bid's phase is known to have landed. *)
BidPhaseDone(b) ==
    /\ bids' = IF bids[b].phase = "cancel_finish"
               THEN [bids EXCEPT ![b].phase = "none", ![b].finished = TRUE]
               ELSE [bids EXCEPT ![b].phase = "none", ![b].state = FinalCancelState(b)]
    /\ UNCHANGED fills

(* A fill's phase is known to have landed.  state is the one it rolls back
   to after "indeterminate" (_PHASE_ROLLBACK). *)
FillPhaseDone(f) ==
    /\ fills' = [fills EXCEPT ![f] =
         CASE fills[f].phase = "finish" -> [@ EXCEPT !.phase = "none", !.state = "funded"]
           [] fills[f].phase = "refund" -> [@ EXCEPT !.phase = "none", !.state = "refunded"]
           [] fills[f].phase = "forward" ->
                [@ EXCEPT !.phase = "none", !.state = "asset_moved", !.forwarded = TRUE]
           [] OTHER -> [@ EXCEPT !.phase = "none", !.state = "asset_moved", !.overshot = TRUE]]
    /\ UNCHANGED bids

PhaseDone(r) == IF r \in Bids THEN BidPhaseDone(r) ELSE FillPhaseDone(r)

(* _apply_order_outcome, _apply_fill_outcome *)
Confirmed(r) ==
    /\ job[r] = "sent"
    /\ Landed(Phase(r), r)
    /\ PhaseDone(r) /\ SetJob(r, "idle")
    /\ UNCHANGED <<active, held, asks, clock, escrow, signed, tx, faults>>

Rejected(r) ==
    /\ job[r] = "sent"
    /\ tx[<<Phase(r), r>>].live = 0 /\ ~Landed(Phase(r), r)
    /\ SetPhase(r, "none")
    /\ SetJob(r, IF Phase(r) = "finish" THEN "refused" ELSE "idle")
    /\ UNCHANGED <<active, held, asks, clock, escrow, signed, tx, faults>>

Unknown(r) ==
    /\ job[r] = "sent"
    /\ IF r \in Fills THEN fills' = [fills EXCEPT ![r].state = "indeterminate"] /\ UNCHANGED bids
       ELSE UNCHANGED <<bids, fills>>
    /\ SetJob(r, "idle") /\ Fault
    /\ UNCHANGED <<active, held, asks, clock, escrow, signed, tx>>

(* _phase_outcome and what follows: an intent found on the row is resolved
   before anything else. *)
RollbackForward == [finish |-> "funded", forward |-> "asset_moved",    \* mutant
                    overshoot |-> "asset_moved", refund |-> "refund_pending"]

Rollback == [finish |-> "funds_pending", forward |-> "asset_moved",
             overshoot |-> "asset_moved", refund |-> "refund_pending"]

Resolve(r) ==
    /\ job[r] = "idle" /\ Phase(r) # "none"
    /\ r \in Bids => bids[r].state = "cancelling"
    /\ \/ Landed(Phase(r), r) /\ PhaseDone(r)
       \/ /\ tx[<<Phase(r), r>>].live = 0 /\ ~Landed(Phase(r), r)
          /\ IF r \in Bids THEN SetPhase(r, "none")
             ELSE /\ fills' = [fills EXCEPT ![r].phase = "none",
                                            ![r].state = Rollback[fills[r].phase]]
                  /\ UNCHANGED bids
    /\ UNCHANGED <<active, held, asks, clock, escrow, signed, tx, job, faults>>

-----------------------------------------------------------------------------
(* advance_bid *)

(* The tracked EscrowCreate validated, or its escrow was found by Condition. *)
OpenBid(b) ==
    /\ job[b] = "idle"
    /\ signed[b] = "full" /\ SeenLocked(b)
    /\ MarkBidOpen(b) /\ SetJob(b, "cross")
    /\ UNCHANGED <<clock, escrow, signed, tx, faults>>

(* _cancel_unopened_unless_found: the deadline passed before a lookup that
   covers it, and there is no escrow. *)
CancelUnopened(b) ==
    /\ job[b] = "idle" /\ bids[b].state = "pending_escrow"
    /\ signed[b] \in {"full", "dead"} /\ escrow[b] # "locked"
    /\ bids' = [bids EXCEPT ![b].state = "cancelled", ![b].reason = "unopened"]
    /\ UNCHANGED <<active, held, asks, fills, clock, escrow, signed, tx, job, faults>>

AdvanceOpen(b) ==
    /\ job[b] = "idle" /\ bids[b].state = "open"
    /\ IF clock[b] < 3
       THEN CrossBid(b)
       ELSE BeginCancelBid(b, "expired")
    /\ UNCHANGED <<clock, escrow, signed, tx, job, faults>>

AdvanceCancelling(b) ==
    /\ job[b] = "idle" /\ bids[b].state = "cancelling" /\ bids[b].phase = "none"
    /\ \/ bids[b].finished /\ Begin(b, "cancel_refund")
       \/ ~bids[b].finished /\ SeenLocked(b) /\ clock[b] = 3 /\ Begin(b, "cancel")
       \/ ~bids[b].finished /\ SeenLocked(b) /\ clock[b] < 3 /\ Begin(b, "cancel_finish")
       \/ /\ ~bids[b].finished /\ SeenGone(b)
          /\ bids' = [bids EXCEPT ![b].state = FinalCancelState(b)]
          /\ UNCHANGED <<active, held, asks, fills, clock, escrow, signed, tx, job, faults>>

BidStep(b) == OpenBid(b) \/ CancelUnopened(b) \/ AdvanceOpen(b) \/ AdvanceCancelling(b)

-----------------------------------------------------------------------------
(* settle_fill *)
Ready(f, state) == job[f] = "idle" /\ fills[f].phase = "none" /\ fills[f].state = state
LedgerUnchanged == UNCHANGED <<clock, escrow, signed, tx, faults>>

(* Mutant: a lapsed request fails the fill though its payment may still land. *)
TakeFundsLapsed(f) ==
    /\ Ready(f, "funds_pending") /\ fills[f].bid = 0
    /\ \/ signed[f] = "full" /\ ClaimAskForPayment(f)
       \/ /\ signed[f] # "full"
          /\ fills' = [fills EXCEPT ![f].state = IF signed[f] = "short" THEN "refund_pending"
                                                 ELSE "failed"]
          /\ UNCHANGED <<active, held, asks, bids>>
    /\ UNCHANGED job /\ LedgerUnchanged

(* _take_funds: the payment is found, or cannot arrive any more. *)
TakeFunds(f) ==
    /\ Ready(f, "funds_pending") /\ fills[f].bid = 0
    /\ \/ signed[f] = "full" /\ ClaimAskForPayment(f)
       \/ /\ signed[f] \in {"short", "dead"}
          /\ fills' = [fills EXCEPT ![f].state = IF signed[f] = "short" THEN "refund_pending"
                                                 ELSE "failed"]
          /\ UNCHANGED <<active, held, asks, bids>>
    /\ UNCHANGED job /\ LedgerUnchanged

(* Mutant: nobody looks at CancelAfter. *)
EscrowFundsLate(f) ==
    /\ Ready(f, "funds_pending") /\ fills[f].bid # 0
    /\ \/ Blocked(f) /\ AbortUnfundedFill(f, "none", "none") /\ UNCHANGED job /\ LedgerUnchanged
       \/ ~Blocked(f) /\ clock[fills[f].bid] = 0 /\ Begin(f, "finish")

(* _escrow_funds, up to the finish it sends ... *)
EscrowFunds(f) ==
    /\ Ready(f, "funds_pending") /\ fills[f].bid # 0
    /\ \/ Blocked(f) /\ AbortUnfundedFill(f, "none", "none") /\ UNCHANGED job /\ LedgerUnchanged
       \/ /\ ~Blocked(f) /\ clock[fills[f].bid] >= 1
          /\ AbortUnfundedFill(f, "cancelling", "expired") /\ UNCHANGED job /\ LedgerUnchanged
       \/ ~Blocked(f) /\ clock[fills[f].bid] = 0 /\ Begin(f, "finish")

(* ... and after a finish that failed. *)
FinishRefused(f) ==
    /\ job[f] = "refused"
    /\ \/ SeenGone(fills[f].bid) /\ AbortUnfundedFill(f, "expired", "none")
       \/ /\ SeenLocked(fills[f].bid) /\ clock[fills[f].bid] >= 2
          /\ AbortUnfundedFill(f, "cancelling", "expired")
       \/ SeenLocked(fills[f].bid) /\ clock[fills[f].bid] < 2 /\ UNCHANGED book
    /\ SetJob(f, "idle") /\ LedgerUnchanged

Move(f) == Ready(f, "funded") /\ MoveAsset(f) /\ UNCHANGED job /\ LedgerUnchanged

(* _pay: forward, then the overshoot, then paid. *)
Pay(f) ==
    /\ Ready(f, "asset_moved")
    /\ \/ ~fills[f].forwarded /\ Begin(f, "forward")
       \/ fills[f].forwarded /\ fills[f].over /\ ~fills[f].overshot /\ Begin(f, "overshoot")
       \/ /\ fills[f].forwarded /\ (fills[f].over => fills[f].overshot)
          /\ fills' = [fills EXCEPT ![f].state = "paid"]
          /\ UNCHANGED <<active, held, asks, bids, job>> /\ LedgerUnchanged

Refund(f) == Ready(f, "refund_pending") /\ Begin(f, "refund")

(* _mirror: a side whose sync fails or must wait is left for the sweep. *)
Mirror(f) ==
    /\ Ready(f, "paid")
    /\ \E side \in {"seller", "buyer"} \ fills[f].mirrored : MarkSideMirrored(f, side)
    /\ UNCHANGED job /\ LedgerUnchanged

FillStep(f) == TakeFunds(f) \/ EscrowFunds(f) \/ FinishRefused(f) \/ Move(f) \/ Pay(f)
                 \/ Refund(f) \/ Mirror(f)

Handler(r) == \/ Resolve(r) \/ Submit(r) \/ NotSubmitted(r) \/ Confirmed(r) \/ Rejected(r)
              \/ r \in Bids /\ BidStep(r)
              \/ r \in Fills /\ FillStep(r)

-----------------------------------------------------------------------------
Next ==
    \/ \E o \in Owners : OwnerStep(o)
    \/ \E a \in Asks : WithdrawAsk(a)
    \/ \E b \in Bids : WithdrawBid(b)
    \/ \E r \in Rows : UserTxLands(r) \/ UserTxDies(r)
    \/ \E b \in Bids : TimePasses(b) \/ AnyoneCancels(b)
    \/ \E t \in Tags : TxLands(t) \/ TxDies(t)
    \/ \E r \in Asks \cup Rows : Crash(r)
    \/ \E r \in Asks \cup Bids : CrossStep(r)
    \/ \E r \in Rows : Handler(r) \/ Unknown(r)

Spec == Init /\ [][Next]_vars

(* The sweep visits every order and fill that needs attention every two
   minutes, and the ledger decides every transaction by its deadline. *)
Fairness ==
    /\ \A r \in Rows : WF_vars(Handler(r)) /\ WF_vars(UserTxDies(r))
    /\ \A r \in Asks \cup Bids : WF_vars(CrossStep(r))
    /\ \A t \in Tags : WF_vars(TxLands(t) \/ TxDies(t))

FairSpec == Spec /\ Fairness

(* The app wallet pays a fill's parties only out of money it received for
   that fill, and either the seller or the buyer back, never both. *)
PayoutsAreFunded ==
    \A f \in Fills :
      /\ Landed("forward", f) \/ Landed("overshoot", f) \/ Landed("refund", f) => PaidIn(f)
      /\ ~(Landed("forward", f) /\ Landed("refund", f))

(* audit_rows: a settled fill left no money behind, and a fill that failed
   never took any. *)
TerminalFillsAreBalanced ==
    \A f \in Fills :
      /\ fills[f].state = "mirrored" =>
           PaidIn(f) /\ Landed("forward", f) /\ (fills[f].over => Landed("overshoot", f))
      /\ fills[f].state = "refunded" => PaidIn(f) /\ Landed("refund", f)
      /\ fills[f].state = "failed" => ~PaidIn(f)

(* A bid that ended without a sale has its BRIX back with its owner. *)
EndedBidIsHome ==
    \A b \in Bids : bids[b].state \in {"cancelled", "expired"} =>
      /\ escrow[b] # "locked"
      /\ Landed("cancel_finish", b) => Landed("cancel_refund", b)

(* audit_rows: nobody has promised more units than they hold, unless their
   Closet was deleted under them. *)
PromisesAreHeld == \A o \in active : Encumbrance(o) <= held[o]

(* An order is being bought by at most one funded fill. *)
Buying == {"funded", "asset_moved", "paid", "mirrored"}
OneSalePerOrder ==
    \A f, g \in Fills : f # g /\ fills[f].state \in Buying /\ fills[g].state \in Buying =>
      /\ fills[f].ask = 0 \/ fills[f].ask # fills[g].ask
      /\ fills[f].bid = 0 \/ fills[f].bid # fills[g].bid

(* Every fill reaches a terminal state, and no bid waits for ever for its
   escrow or to give it back: the sweep's retries and the deadline guards
   leave no state that nobody works on. *)
Waiting(b) == bids[b].state \in {"pending_escrow", "cancelling"}
OrdersEnd ==
    /\ \A f \in Fills : fills[f].state # "none" ~> fills[f].state \in Terminal
    /\ \A b \in Bids : Waiting(b) ~> ~Waiting(b)
=============================================================================

------------------------------ MODULE PinnedTx ------------------------------
(***************************************************************************)
(* The write-ahead protocol by which the backend sends one money-moving    *)
(* transaction of a durable row: a phase of a Closet Market fill (finish,  *)
(* forward, overshoot, refund) or of a bid (cancel, cancel_finish,         *)
(* cancel_refund).  Every attempt of the phase carries the same memo tag   *)
(* and must succeed on the ledger at most once, although the process may   *)
(* die at any point, a submission may be answered by "unknown", and every  *)
(* read may be served by an endpoint that lags the validated ledger.       *)
(*                                                                         *)
(* Code: lfg_core/closet_market_flow.py (_begin_fill_phase, _submit,       *)
(* _apply_fill_outcome, _phase_outcome, _resolve_fill_phase and the        *)
(* _order_ twins) over lfg_core/xrpl_ops.py (_submit_app_tx,               *)
(* find_app_txs_by_memo).  One driver runs at a time: settle_fill and      *)
(* advance_bid hold the row's owner_lock.                                  *)
(***************************************************************************)
EXTENDS Integers, FiniteSets

CONSTANTS
    Margin,        \* CLOSET_MARKET_LEDGER_MARGIN: deadline minus the index read
    Slack,         \* _CLAIM_SCAN_LEDGER_SLACK: how far below the deadline a scan starts
    Horizon,       \* bound: no ledger after this one is validated
    MaxAttempts,   \* bound: how many transactions the row may ever sign
    OneServerPerScan  \* TRUE iff every page of a scan is answered by one server

ASSUME ConstantsAssumption ==
    /\ Margin \in Nat \ {0}
    /\ Slack \in Nat
    /\ Margin <= Slack
    /\ Horizon \in Nat
    /\ MaxAttempts \in Nat
    /\ OneServerPerScan \in BOOLEAN

VARIABLES
    validated,   \* the network's last validated ledger
    pool,        \* signed transactions of the tag that reached the network
    landed,      \* those validated with tesSUCCESS, with their ledger
    failed,      \* those validated with another result
    intent,      \* the row's pending_phase is set
    deadline,    \* the row's pending_lls
    done,        \* the row's hash field is set (its phase is complete)
    pc,          \* what the driver is about to do
    mine,        \* the transaction the driver signed and is waiting for
    index        \* the validated index the driver read before its scan

row     == <<intent, deadline, done>>
network == <<validated, pool, landed, failed>>
driver  == <<pc, mine, index>>
pinnedVars == <<network, row, driver>>

Tx     == [id : 1 .. MaxAttempts, lls : Nat]
Payments == [id : 1 .. MaxAttempts, at : 0 .. Horizon]
NoTx   == [id |-> 0, lls |-> 0]
Ids(S) == {t.id : t \in S}
Lower(a, b) == IF a <= b THEN a ELSE b

PinnedTypeOK ==
    /\ validated \in 0 .. Horizon
    /\ pool \in SUBSET Tx
    /\ landed \in SUBSET Payments
    /\ failed \in SUBSET (1 .. MaxAttempts)
    /\ intent \in BOOLEAN
    /\ deadline \in Nat
    /\ done \in BOOLEAN
    /\ pc \in {"idle", "begun", "sent", "scanning"}
    /\ mine \in Tx \cup {NoTx}
    /\ index \in Nat

PinnedInit ==
    /\ validated = 0 /\ pool = {} /\ landed = {} /\ failed = {}
    /\ intent = FALSE /\ deadline = 0 /\ done = FALSE
    /\ pc = "idle" /\ mine = NoTx /\ index = 0

-----------------------------------------------------------------------------
(* The network.  A transaction that reached it may be validated in any      *)
(* later ledger up to its LastLedgerSequence, or never.                     *)

Open == {t \in pool : t.id \notin Ids(landed) \cup failed}

CloseLedger ==
    /\ validated < Horizon
    /\ validated' = validated + 1
    /\ \E ok \in SUBSET Open, tec \in SUBSET Open :
         /\ ok \cap tec = {}
         /\ \A t \in ok \cup tec : t.lls >= validated'
         /\ landed' = landed \cup {[id |-> t.id, at |-> validated'] : t \in ok}
         /\ failed' = failed \cup Ids(tec)
    /\ UNCHANGED <<pool, row, driver>>

(* What a server answers as "validated" may lag the network by any amount. *)
Views == 0 .. validated

-----------------------------------------------------------------------------
(* The driver: _begin_*_phase, _submit, _apply_*_outcome.                   *)

(* _begin_*_phase: the intent and its deadline are durable before anything
   is signed.  A read that fails (None) changes nothing. *)
Begin ==
    /\ pc = "idle" /\ ~intent /\ ~done
    /\ \E idx \in Views : idx + Margin < Horizon /\ deadline' = idx + Margin
    /\ intent' = TRUE
    /\ pc' = "begun"
    /\ UNCHANGED <<network, done, mine, index>>

(* TxNotSubmitted (the second index read failed): the intent is cleared. *)
NotSubmitted ==
    /\ pc = "begun"
    /\ intent' = FALSE
    /\ pc' = "idle"
    /\ UNCHANGED <<network, deadline, done, mine, index>>

(* The pinned LastLedgerSequence of an attempt built on the index cur.
   Mutant: the deadline recorded with the intent does not bound it. *)
PinnedLlsUnbounded(cur) == cur + Margin

PinnedLls(cur) == Lower(cur + Margin, deadline)

(* _submit_app_tx signs once and hands the transaction to the network.  From
   here on it may land whether or not this process lives. *)
PinnedSubmit ==
    /\ pc = "begun"
    /\ Cardinality(pool) < MaxAttempts
    /\ \E cur \in Views, id \in 1 .. MaxAttempts \ Ids(pool) :
         LET t == [id |-> id, lls |-> PinnedLls(cur)] IN
           /\ pool' = pool \cup {t}
           /\ mine' = t
    /\ pc' = "sent"
    /\ UNCHANGED <<validated, landed, failed, row, index>>

(* tesSUCCESS was validated and this process saw it: the hash is recorded. *)
Confirmed ==
    /\ pc = "sent" /\ mine.id \in Ids(landed)
    /\ intent' = FALSE /\ done' = TRUE
    /\ pc' = "idle"
    /\ UNCHANGED <<network, deadline, mine, index>>

(* Mutant: whatever is not a confirmation is taken for a failure. *)
RejectedUnlessConfirmed ==
    /\ pc \in {"begun", "sent"}
    /\ intent' = FALSE
    /\ pc' = "idle"
    /\ UNCHANGED <<network, deadline, done, mine, index>>

(* A definitive failure: cleared, to be retried.  Either the pre-submit
   simulation rejected the transaction, or the ledger did. *)
Rejected ==
    /\ pc = "begun" \/ (pc = "sent" /\ mine.id \in failed)
    /\ intent' = FALSE
    /\ pc' = "idle"
    /\ UNCHANGED <<network, deadline, done, mine, index>>

(* "unknown": the intent stays, with the deadline of the tx that left. *)
Unknown ==
    /\ pc = "sent"
    /\ deadline' = mine.lls
    /\ pc' = "idle"
    /\ UNCHANGED <<network, intent, done, mine, index>>

(* The process exits, or the task is cancelled, at any await. *)
Crash ==
    /\ pc # "idle"
    /\ pc' = "idle"
    /\ UNCHANGED <<network, row, mine, index>>

-----------------------------------------------------------------------------
(* _phase_outcome and what its callers do with the verdict.                 *)

(* The validated index is read before the scan. *)
ReadIndex ==
    /\ pc = "idle" /\ intent
    /\ index' \in Views
    /\ pc' = "scanning"
    /\ UNCHANGED <<network, row, mine>>

(* find_app_txs_by_memo: account_tx answers newest first, from the ledger
   deadline - Slack up to the newest ledger of the server that answered the
   first page. *)
Found(first) ==
    {t \in landed : deadline - Slack <= t.at /\ t.at <= first}

(* Mutant: the answer is trusted however far its server is behind. *)
CoversAlways(best) == TRUE

(* The scan raises unless some page reported a ledger_index_max that reaches
   the deadline; best is the largest reported by any page. *)
Covers(best) == best >= deadline

ScanAnswers == {v \in Views \X Views :
                  v[1] <= v[2] /\ (OneServerPerScan => v[1] = v[2])}

(* "landed": the hash is recorded. *)
ScanLanded ==
    /\ pc = "scanning"
    /\ \E v \in ScanAnswers : Covers(v[2]) /\ Found(v[1]) # {}
    /\ intent' = FALSE /\ done' = TRUE
    /\ pc' = "idle"
    /\ UNCHANGED <<network, deadline, mine, index>>

(* Mutant: the intent is not dropped. *)
ScanAbsentKeepsIntent ==
    /\ pc = "scanning"
    /\ index > deadline
    /\ \E v \in ScanAnswers : Covers(v[2]) /\ Found(v[1]) = {}
    /\ pc' = "idle"
    /\ UNCHANGED <<network, row, mine, index>>

(* "absent": the intent is dropped and the phase will be sent afresh. *)
ScanAbsent ==
    /\ pc = "scanning"
    /\ index > deadline
    /\ \E v \in ScanAnswers : Covers(v[2]) /\ Found(v[1]) = {}
    /\ intent' = FALSE
    /\ pc' = "idle"
    /\ UNCHANGED <<network, deadline, done, mine, index>>

(* "wait": the scan raised or the deadline has not passed; try again later. *)
ScanWait ==
    /\ pc = "scanning"
    /\ \E v \in ScanAnswers :
         \/ ~Covers(v[2])
         \/ Found(v[1]) = {} /\ index <= deadline
    /\ pc' = "idle"
    /\ UNCHANGED <<network, row, mine, index>>

-----------------------------------------------------------------------------
PinnedNext ==
    \/ CloseLedger
    \/ Begin \/ NotSubmitted \/ PinnedSubmit \/ Confirmed \/ Rejected \/ Unknown
    \/ Crash
    \/ ReadIndex \/ ScanLanded \/ ScanAbsent \/ ScanWait

PinnedSpec == PinnedInit /\ [][PinnedNext]_pinnedVars

(* Fairness.  Ledgers keep closing; the sweep keeps resolving a recorded
   intent; and an endpoint that is in sync is asked again and again, however
   often the process restarts in between (hence strong fairness). *)
ReadFresh   == ReadIndex /\ index' = validated
ScanIsFresh == index > deadline /\ (ScanLanded \/ ScanAbsent)
PinnedFairness ==
    /\ WF_pinnedVars(CloseLedger)
    /\ WF_pinnedVars(NotSubmitted \/ Unknown \/ Rejected \/ Confirmed)
    /\ WF_pinnedVars(ScanLanded \/ ScanAbsent \/ ScanWait)
    /\ SF_pinnedVars(ReadFresh)
    /\ SF_pinnedVars(ScanIsFresh)

FairPinned == PinnedSpec /\ PinnedFairness

-----------------------------------------------------------------------------
(* At most one transaction of the tag ever succeeds on the ledger: the same
   forward, refund or finish is never paid twice. *)
AtMostOnce == \A t, u \in landed : t = u

(* The row never claims a payment the ledger has not made. *)
DoneMeansLanded == done => landed # {}

(* A transaction that landed, or still can, is never forgotten: until its
   hash is recorded the intent that will find it is durable. *)
CanStillLand(t) == t.id \notin failed /\ t.lls > validated
Possible == {t \in pool : t.id \in Ids(landed) \/ CanStillLand(t)}
NeverForgotten == Possible # {} => intent \/ done

(* The protocol implements the promise of OncePayment. *)
Once == INSTANCE OncePayment WITH paid <- landed, recorded <- done
PaysOnce == Once!Spec

(* An intent never blocks its row for ever: it is confirmed or dropped. *)
IntentResolves == intent ~> ~intent
=============================================================================

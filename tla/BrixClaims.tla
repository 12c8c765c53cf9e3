------------------------------ MODULE BrixClaims -----------------------------
(***************************************************************************)
(* BRIX claims: a wallet's unclaimed accruals are bound to a claim, paid   *)
(* by one Payment of the distributor, and released only when that payment  *)
(* definitively failed.  Recovery resolves the claims a crash left open.   *)
(*                                                                         *)
(* Code: lfg_core/brix_drip.py (open_claim, record_submission,             *)
(* settle_claim, recover), _claim_one_wallet in lfg_service/app.py, and    *)
(* send_brix_claim / find_claim_payment in lfg_core/xrpl_ops.py.  Requests *)
(* of one wallet may overlap (single claims, claim-all jobs); recovery     *)
(* runs at service startup and from a script, also beside a running        *)
(* service.  A claim's amount is the number of accrual rows it bound, so   *)
(* the model keeps the rows.  Rows arrive from the job of BrixAccrual.     *)
(***************************************************************************)
EXTENDS Integers, FiniteSets

CONSTANTS
    Wallets, Requests,
    Keys,           \* the accrual rows of the run: (epoch, token) pairs
    MaxClaims,      \* bound: claims ever opened
    Horizon,        \* bound: no ledger after this one is validated
    MaxLag,         \* bound: how many ledgers an endpoint's answer may lag
    Margin,         \* BRIX_CLAIM_LEDGER_MARGIN
    Generous,       \* 10 * Margin: the provisional deadline of open_claim
    Slack,          \* _CLAIM_SCAN_LEDGER_SLACK
    MonotoneReads,  \* TRUE iff recovery's scan is answered by a server that
                    \* has at least the ledger its index read reported
    None

ASSUME ConstantsAssumption ==
    /\ MaxClaims \in Nat /\ Horizon \in Nat /\ MaxLag \in Nat
    /\ Margin \in Nat /\ Generous \in Nat /\ Slack \in Nat
    /\ Generous <= Slack
    /\ MonotoneReads \in BOOLEAN
    /\ None \notin Wallets

VARIABLES
    rows,         \* brix_accruals: each row's owner, None while it is not there
    bound,        \* brix_accruals.claim_id, 0 when NULL
    claims,       \* brix_claims
    validated, pool, landed, failed,  \* the ledger and the payouts sent to it
    req,          \* the claim requests in flight
    rec           \* the recovery pass, if one is running

db        == <<bound, claims>>
payouts   == <<validated, pool, landed, failed>>
claimVars == <<rows, db, payouts, req, rec>>

ClaimIds == 1 .. MaxClaims
OpenStates == {"pending", "submitted"}
Lower(a, b) == IF a <= b THEN a ELSE b
Views == {v \in 0 .. validated : v + MaxLag >= validated}

NoClaim   == [wallet |-> None, covers |-> {}, state |-> "none", lls |-> 0]
Opened    == {c \in ClaimIds : claims[c].state # "none"}
OpenOf(w) == {c \in Opened : claims[c].wallet = w /\ claims[c].state \in OpenStates}
Claimable(w) == {k \in Keys : rows[k] = w /\ bound[k] = 0}
Idle   == [pc |-> "idle", wallet |-> None, claim |-> 0, lls |-> 0]
NoRec  == [pc |-> "idle", index |-> 0, found |-> {}, absent |-> {}, todo |-> {}]

ClaimRow == [wallet : Wallets \cup {None}, covers : SUBSET Keys,
             state : {"none", "pending", "submitted", "confirmed", "failed"}, lls : Nat]
RequestState == [pc : {"idle", "ready", "opened", "sent", "recorded"},
                 wallet : Wallets \cup {None}, claim : 0 .. MaxClaims, lls : Nat]
RecoveryState == [pc : {"idle", "indexed", "scanning", "settling"}, index : Nat,
                  found : SUBSET ClaimIds, absent : SUBSET ClaimIds,
                  todo : SUBSET [claim : ClaimIds, lls : Nat]]

ClaimTypeOK ==
    /\ rows \in [Keys -> Wallets \cup {None}]
    /\ bound \in [Keys -> 0 .. MaxClaims]
    /\ claims \in [ClaimIds -> ClaimRow]
    /\ validated \in Nat
    /\ pool \subseteq [claim : ClaimIds, lls : Nat]
    /\ landed \subseteq [claim : ClaimIds, at : Nat]
    /\ failed \subseteq ClaimIds
    /\ req \in [Requests -> RequestState]
    /\ rec \in RecoveryState

ClaimInit ==
    /\ rows = [k \in Keys |-> None] /\ bound = [k \in Keys |-> 0]
    /\ claims = [c \in ClaimIds |-> NoClaim]
    /\ validated = 0 /\ pool = {} /\ landed = {} /\ failed = {}
    /\ req = [r \in Requests |-> Idle] /\ rec = NoRec

-----------------------------------------------------------------------------
(* record_accruals: the nightly job adds a row for its holder. *)
Accrue ==
    /\ \E k \in Keys, w \in Wallets :
         rows[k] = None /\ rows' = [rows EXCEPT ![k] = w]
    /\ UNCHANGED <<db, payouts, req, rec>>

(* The ledger: a payout that was sent validates, with success or not, in
   some ledger up to its LastLedgerSequence, or never. *)

Settled == {l.claim : l \in landed} \cup failed
LiveTx  == {t \in pool : t.claim \notin Settled /\ t.lls > validated}

CloseLedger ==
    /\ validated < Horizon
    /\ validated' = validated + 1
    /\ \E ok \in SUBSET LiveTx, tec \in SUBSET LiveTx :
         /\ ok \cap tec = {}
         /\ landed' = landed \cup {[claim |-> t.claim, at |-> validated'] : t \in ok}
         /\ failed' = failed \cup {t.claim : t \in tec}
    /\ UNCHANGED <<rows, db, pool, req, rec>>

-----------------------------------------------------------------------------
(* A claim request, _claim_one_wallet.                                      *)

(* The provisional deadline is read before the claim exists. *)
ReadProvisional(r, w) ==
    /\ req[r].pc = "idle"
    /\ \E idx \in Views :
         req' = [req EXCEPT ![r] = [pc |-> "ready", wallet |-> w, claim |-> 0,
                                    lls |-> idx + Generous]]
    /\ UNCHANGED <<rows, db, payouts, rec>>

(* open_claim: one transaction checks, inserts and binds. *)
MayOpen(w) == OpenOf(w) = {} /\ Claimable(w) # {}

OpenClaim(r) ==
    /\ req[r].pc = "ready"
    /\ MayOpen(req[r].wallet)
    /\ \E c \in ClaimIds :
         /\ claims[c].state = "none" /\ \A d \in ClaimIds : d < c => d \in Opened
         /\ claims' = [claims EXCEPT ![c] =
              [wallet |-> req[r].wallet, covers |-> Claimable(req[r].wallet),
               state |-> "pending", lls |-> req[r].lls]]
         /\ bound' = [k \in Keys |-> IF k \in Claimable(req[r].wallet) THEN c ELSE bound[k]]
         /\ req' = [req EXCEPT ![r].pc = "opened", ![r].claim = c]
    /\ UNCHANGED <<rows, payouts, rec>>

(* ClaimInFlight or NothingToClaim. *)
OpenRefused(r) ==
    /\ req[r].pc = "ready"
    /\ ~MayOpen(req[r].wallet)
    /\ req' = [req EXCEPT ![r] = Idle]
    /\ UNCHANGED <<rows, db, payouts, rec>>

(* settle_claim(c, "failed"): the only outcome that unbinds accruals. *)
SettleFailed(c) ==
    /\ claims' = [claims EXCEPT ![c].state = "failed"]
    /\ bound' = [k \in Keys |-> IF bound[k] = c THEN 0 ELSE bound[k]]

(* Mutant: the stored deadline does not bound the payout. *)
PinnedLlsUnbounded(r, cur) == cur + Margin

(* The distributor's payout is signed with a pinned LastLedgerSequence that
   never exceeds the deadline the claim already stores. *)
PinnedLls(r, cur) == Lower(cur + Margin, req[r].lls)

SendPayout(r) ==
    /\ req[r].pc = "opened"
    /\ \E cur \in Views :
         LET lls == PinnedLls(r, cur) IN
           /\ pool' = pool \cup {[claim |-> req[r].claim, lls |-> lls]}
           /\ req' = [req EXCEPT ![r].pc = "sent", ![r].lls = lls]
    /\ UNCHANGED <<rows, db, validated, landed, failed, rec>>

(* ClaimNotSubmitted, or a payout the pre-submit simulation rejects: nothing
   reached the ledger and the accruals are released. *)
NotSubmitted(r) ==
    /\ req[r].pc = "opened"
    /\ SettleFailed(req[r].claim)
    /\ req' = [req EXCEPT ![r] = Idle]
    /\ UNCHANGED <<rows, payouts, rec>>

(* The unique index: one open claim per wallet. *)
IndexAllows(c) == OpenOf(claims[c].wallet) \subseteq {c}

(* Any other exception before a payout exists: the claim stays open, with a
   fresh generous deadline when one can be read. *)
UnexpectedError(r) ==
    /\ req[r].pc = "opened"
    /\ \E lls \in {v + Generous : v \in Views} \cup {claims[req[r].claim].lls} :
         claims' = IF IndexAllows(req[r].claim)
                   THEN [claims EXCEPT ![req[r].claim].state = "submitted",
                                       ![req[r].claim].lls = lls]
                   ELSE claims
    /\ req' = [req EXCEPT ![r] = Idle]
    /\ UNCHANGED <<rows, bound, payouts, rec>>

(* record_submission commits first; it reopens the claim whatever its state,
   unless the unique index raises, which ends the request. *)
RecordSubmission(r) ==
    /\ req[r].pc = "sent"
    /\ IF IndexAllows(req[r].claim)
       THEN /\ claims' = [claims EXCEPT ![req[r].claim].state = "submitted",
                                        ![req[r].claim].lls = req[r].lls]
            /\ req' = [req EXCEPT ![r].pc = "recorded", ![r].lls = 0]
       ELSE /\ req' = [req EXCEPT ![r] = Idle]
            /\ UNCHANGED claims
    /\ UNCHANGED <<rows, bound, payouts, rec>>

(* Mutant: an unknown outcome is settled as confirmed. *)
SettleOutcomeOptimistic(r) ==
    /\ req[r].pc = "recorded"
    /\ LET c == req[r].claim IN
         \/ claims' = [claims EXCEPT ![c].state = "confirmed"] /\ UNCHANGED bound
         \/ c \in failed /\ SettleFailed(c)
    /\ req' = [req EXCEPT ![r] = Idle]
    /\ UNCHANGED <<rows, payouts, rec>>

(* settle_claim with the payout's outcome.  "unknown" is possible whatever
   the ledger did, and leaves the claim open. *)
SettleOutcome(r) ==
    /\ req[r].pc = "recorded"
    /\ LET c == req[r].claim IN
         \/ /\ \E l \in landed : l.claim = c
            /\ claims' = [claims EXCEPT ![c].state = "confirmed"]
            /\ UNCHANGED bound
         \/ c \in failed /\ SettleFailed(c)
         \/ /\ claims' = IF IndexAllows(c)
                         THEN [claims EXCEPT ![c].state = "submitted"] ELSE claims
            /\ UNCHANGED bound
    /\ req' = [req EXCEPT ![r] = Idle]
    /\ UNCHANGED <<rows, payouts, rec>>

(* The service dies or the task is cancelled.  A signed payout lives on. *)
RequestCrash(r) ==
    /\ req[r].pc # "idle"
    /\ req' = [req EXCEPT ![r] = Idle]
    /\ UNCHANGED <<rows, db, payouts, rec>>

-----------------------------------------------------------------------------
(* Recovery, _recover_from_chain.                                           *)

(* The validated index is read first. *)
RecoverIndex ==
    /\ rec.pc = "idle"
    /\ \E idx \in Views : rec' = [NoRec EXCEPT !.pc = "indexed", !.index = idx]
    /\ UNCHANGED <<rows, db, payouts, req>>

OpenSnapshot == {[claim |-> c, lls |-> claims[c].lls] :
                   c \in {d \in Opened : claims[d].state \in OpenStates}}

RecoverList ==
    /\ rec.pc = "indexed"
    /\ rec' = [rec EXCEPT !.pc = "scanning", !.todo = OpenSnapshot]
    /\ UNCHANGED <<rows, db, payouts, req>>

(* Both loops walk the claims in claim_id order. *)
First(S) == {s \in S : \A t \in S : s.claim <= t.claim}

(* find_claim_payment: the distributor's payouts from lls - Slack up to the
   newest ledger of the server that answers. *)
ScanViews == {v \in Views : MonotoneReads => v >= rec.index}
Visible(s, v) == \E l \in landed : l.claim = s.claim /\ s.lls - Slack <= l.at /\ l.at <= v

RecoverScan ==
    /\ rec.pc = "scanning"
    /\ \E s \in First(rec.todo) :
         /\ rec' \in
              { [rec EXCEPT !.todo = @ \ {s}] }         \* the lookup raised
              \cup {[rec EXCEPT !.todo = @ \ {s}, !.found = @ \cup {s.claim}] :
                      v \in {u \in ScanViews : Visible(s, u)}}
              \cup {[rec EXCEPT !.todo = @ \ {s}, !.absent = @ \cup {s.claim}] :
                      v \in {u \in ScanViews : ~Visible(s, u)}}
    /\ UNCHANGED <<rows, db, payouts, req>>

(* recover: its own SELECT of the open claims, then one commit per claim. *)
RecoverSelect ==
    /\ rec.pc = "scanning" /\ rec.todo = {}
    /\ rec' = [rec EXCEPT !.pc = "settling", !.todo = OpenSnapshot]
    /\ UNCHANGED <<rows, db, payouts, req>>

(* Mutant: absence alone fails a claim, before its deadline has passed. *)
RecoverSettleEarly ==
    /\ rec.pc = "settling"
    /\ \E s \in First(rec.todo) :
         /\ rec' = [rec EXCEPT !.todo = @ \ {s}]
         /\ CASE s.claim \in rec.found ->
                   claims' = [claims EXCEPT ![s.claim].state = "confirmed"] /\ UNCHANGED bound
              [] s.claim \in rec.absent \ rec.found -> SettleFailed(s.claim)
              [] OTHER -> UNCHANGED db
    /\ UNCHANGED <<rows, payouts, req>>

(* Found -> confirmed.  Looked up and absent, with the index past the row's
   deadline -> failed.  Anything else is left alone. *)
RecoverSettle ==
    /\ rec.pc = "settling"
    /\ \E s \in First(rec.todo) :
         /\ rec' = [rec EXCEPT !.todo = @ \ {s}]
         /\ CASE s.claim \in rec.found ->
                   claims' = [claims EXCEPT ![s.claim].state = "confirmed"] /\ UNCHANGED bound
              [] s.claim \in rec.absent \ rec.found /\ rec.index > s.lls -> SettleFailed(s.claim)
              [] OTHER -> UNCHANGED db
    /\ UNCHANGED <<rows, payouts, req>>

RecoverEnd ==
    /\ \/ rec.pc = "settling" /\ rec.todo = {}
       \/ rec.pc # "idle"                        \* the process died
    /\ rec' = NoRec
    /\ UNCHANGED <<rows, db, payouts, req>>

-----------------------------------------------------------------------------
Request == \E r \in Requests :
             \/ \E w \in Wallets : ReadProvisional(r, w)
             \/ OpenClaim(r) \/ OpenRefused(r) \/ SendPayout(r) \/ NotSubmitted(r)
             \/ UnexpectedError(r) \/ RecordSubmission(r) \/ SettleOutcome(r) \/ RequestCrash(r)
Recover == RecoverIndex \/ RecoverList \/ RecoverScan \/ RecoverSelect \/ RecoverSettle
             \/ RecoverEnd

ClaimNext == Accrue \/ CloseLedger \/ Request \/ Recover

ClaimSpec == ClaimInit /\ [][ClaimNext]_claimVars

-----------------------------------------------------------------------------
(* No accrual row is paid by two payouts: "a double-claim structurally
   impossible". *)
PaidFor(l) == claims[l.claim].covers
NoDoublePay ==
    \A l, m \in landed : l # m => l.claim # m.claim /\ PaidFor(l) \cap PaidFor(m) = {}

(* The audit's accruals_match_claims: a confirmed claim was paid, and the
   rows it paid are bound to it for good. *)
ConfirmedIsBacked ==
    \A c \in ClaimIds : claims[c].state = "confirmed" =>
        /\ \E l \in landed : l.claim = c
        /\ {k \in Keys : bound[k] = c} = claims[c].covers

(* A payout that landed, or can still land, keeps its rows bound, so that no
   later claim can be opened for them. *)
CanLand(t) == t \in LiveTx \/ \E l \in landed : l.claim = t.claim
PayoutHoldsRows ==
    \A t \in pool : CanLand(t) => \A k \in claims[t.claim].covers : bound[k] = t.claim
=============================================================================

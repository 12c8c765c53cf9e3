--------------------------- MODULE SponsoredMint ----------------------------
(***************************************************************************)
(* One wallet's free mint and the LFGO burn the project owes for it.       *)
(*                                                                         *)
(* Sessions of the wallet, on several surfaces at once, ask for the        *)
(* wallet's only claim.  The claim is a reversible promise until the       *)
(* signed mint it journals is forwarded; from then on its outcome decides. *)
(* A restart loses the sessions and reconciles the claim before it serves. *)
(* The mint and the debt are recorded in one transaction; leased workers   *)
(* discharge the debt with one signed burn at a time.                      *)
(*                                                                         *)
(* A transaction is named by who signed it: mint s is the one session s    *)
(* prepared, burn b the b-th of the obligation.  Time is the deadline of   *)
(* each: a transaction that did not land may expire at any moment, and     *)
(* the deadline of one that landed may have passed at any moment.          *)
(***************************************************************************)
EXTENDS Integers

CONSTANTS
    MaxSessions,      \* bound: mint sessions of the wallet
    MaxWorkers,       \* burn workers: the service's, and another process's
    MaxBurns,         \* bound: burns signed for the obligation
    MaxFaults,        \* bound: crashes, lost or refused transactions, failing writes
    LookupsMayFail    \* the one exact-hash lookup at a mint's expiry may fail

ASSUME SponsoredAssumption ==
    /\ MaxSessions \in Nat /\ MaxWorkers \in Nat /\ MaxBurns \in Nat
    /\ MaxFaults \in Nat /\ LookupsMayFail \in BOOLEAN

Sessions == 1 .. MaxSessions
Workers == 1 .. MaxWorkers
Burns == 1 .. MaxBurns
None == 0

VARIABLES
    claim,     \* free_mint_claims: status, session, the journaled mint
    sess,      \* the sessions and their requests, in memory
    cancelled, \* the sessions cancelled while their handler is at the claim
    phase,     \* "recovering" until the startup sweep is done, then "up"
    ready,     \* _sponsored_recovery_ready
    mint,      \* the signed mints and what the ledger did with them
    burn,      \* free_mint_burns: status, the journaled burn, the lease
    burnTx,    \* the signed burns and what the ledger did with them
    worker,    \* each burn worker's position and what it leased
    faults

memory == <<sess, cancelled>>
mintVars == <<claim, memory, phase, ready, mint>>
burnVars == <<burnTx, worker>>
vars == <<mintVars, burn, burnVars, faults>>

TxStates == {"unsigned", "signed", "sent", "landed", "failed", "expired"}

TypeOK ==
    /\ ready \in BOOLEAN
    /\ claim \in [status : {"none", "reserved", "minting", "minted", "offered", "released"},
                  session : Sessions \cup {None}, signed : Sessions \cup {None}]
    /\ sess \in [Sessions -> [pc : {"new", "asked", "rebinding", "reserving", "committed",
                                    "admitted", "composing", "prepared", "journaled",
                                    "forwarded", "submitted", "minted", "ended"},
                              seen : Sessions \cup {None},
                              tx : Sessions \cup {None}]]
    /\ cancelled \subseteq Sessions
    /\ phase \in {"recovering", "up"}
    /\ mint \in [Sessions -> TxStates]
    /\ burn \in [status : {"none", "pending", "submitting", "indeterminate", "burned"},
                 signed : Burns \cup {None}, lease : Workers \cup {None}]
    /\ burn.status = "submitting" <=> burn.lease # None
    /\ burnTx \in [Burns -> TxStates]
    /\ worker \in [Workers -> [pc : {"idle", "leased", "saved", "sent",
                                     "reconciling", "absent", "expired"},
                               signed : Burns \cup {None}]]
    /\ faults \in 0 .. MaxFaults

Init ==
    /\ claim = [status |-> "none", session |-> None, signed |-> None]
    /\ sess = [s \in Sessions |-> [pc |-> "new", seen |-> None, tx |-> None]]
    /\ cancelled = {}
    /\ phase = "up" /\ ready = TRUE
    /\ mint = [s \in Sessions |-> "unsigned"]
    /\ burn = [status |-> "none", signed |-> None, lease |-> None]
    /\ burnTx = [b \in Burns |-> "unsigned"]
    /\ worker = [w \in Workers |-> [pc |-> "idle", signed |-> None]]
    /\ faults = 0

Fault == faults < MaxFaults /\ faults' = faults + 1

-----------------------------------------------------------------------------
(* Admission, as far as the claim is concerned.                            *)

At(s, pc) == sess[s].pc = pc
Goto(s, pc) == sess' = [sess EXCEPT ![s].pc = pc] /\ UNCHANGED cancelled
End(s) == Goto(s, "ended")

(* Its state is not terminal. *)
Live(s) == sess[s].pc \notin {"new", "ended"} /\ s \notin cancelled

(* The claim is bound to session s and still reversible. *)
Reserved(s) == claim.status = "reserved" /\ claim.session = s

(* release_reservation: only a reservation, and only its own session's. *)
Released(s) == IF Reserved(s) THEN [claim EXCEPT !.status = "released"] ELSE claim

(* release_sponsored_reservation swallows a failing write. *)
Release(s) ==
    \/ claim' = Released(s) /\ UNCHANGED faults
    \/ Reserved(s) /\ Fault /\ UNCHANGED claim

(* A session is inserted.  The one-active-session rule is per user and
   surface, not per wallet.  Without readiness the request is a paid mint. *)
Request(s) ==
    /\ phase = "up" /\ ready /\ At(s, "new")
    /\ \A t \in Sessions : t < s => ~At(t, "new")
    /\ Goto(s, "asked")
    /\ UNCHANGED <<claim, phase, ready, mint, burn, burnVars, faults>>

(* Mutant: the orphan's session is not looked at. *)
LookForOrphanAnyway(s) ==
    /\ At(s, "asked")
    /\ sess' = [sess EXCEPT ![s] =
                  [@ EXCEPT !.pc = IF claim.status = "reserved" THEN "rebinding" ELSE "reserving",
                            !.seen = claim.session]]
    /\ UNCHANGED cancelled
    /\ UNCHANGED <<claim, phase, ready, mint, burn, burnVars, faults>>

(* The wallet's reversible promise, if the session that holds it is over. *)
LookForOrphan(s) ==
    LET orphaned == /\ claim.status = "reserved"
                    /\ claim.session # None => ~Live(claim.session)
    IN  /\ At(s, "asked")
        /\ sess' = [sess EXCEPT ![s] =
                      [@ EXCEPT !.pc = IF orphaned THEN "rebinding" ELSE "reserving",
                                !.seen = claim.session]]
        /\ UNCHANGED cancelled
        /\ UNCHANGED <<claim, phase, ready, mint, burn, burnVars, faults>>

(* rebind_reservation: compare and set on the session that was seen. *)
Rebind(s) ==
    /\ At(s, "rebinding")
    /\ IF Reserved(sess[s].seen)
       THEN claim' = [claim EXCEPT !.session = s] /\ Goto(s, "committed")
       ELSE Goto(s, "reserving") /\ UNCHANGED claim
    /\ UNCHANGED <<phase, ready, mint, burn, burnVars, faults>>

(* reserve_if_eligible: a wallet has one claim for ever, a released one is
   acquired anew with an empty journal.  Refused, also by the campaign, its
   cap or the eligibility archive, the mint is a paid one. *)
Reserve(s) ==
    /\ At(s, "reserving")
    /\ \/ /\ claim.status \in {"none", "released"}
          /\ claim' = [status |-> "reserved", session |-> s, signed |-> None]
          /\ Goto(s, "committed")
       \/ End(s) /\ UNCHANGED claim
    /\ UNCHANGED <<phase, ready, mint, burn, burnVars, faults>>

(* MintSession.cancel, legal while the session awaits payment.  It does not
   know yet that it is sponsored while its handler is at the claim. *)
Cancel(s) ==
    /\ \/ /\ sess[s].pc \in {"asked", "rebinding", "reserving", "committed"}
          /\ s \notin cancelled /\ cancelled' = cancelled \cup {s}
          /\ UNCHANGED <<claim, sess, faults>>
       \/ At(s, "admitted") /\ End(s) /\ Release(s)
    /\ UNCHANGED <<phase, ready, mint, burn, burnVars>>

(* The handler resumes after the claim's transaction. *)
Admit(s) ==
    /\ At(s, "committed")
    /\ \/ s \notin cancelled /\ Goto(s, "admitted") /\ UNCHANGED <<claim, faults>>
       \/ s \in cancelled /\ End(s) /\ Release(s)
    /\ UNCHANGED <<phase, ready, mint, burn, burnVars>>

-----------------------------------------------------------------------------
(* run_mint_session and mint_one_unit of a sponsored session.              *)

(* claim_for_session: a complete journal is resumed, not composed again. *)
Start(s) ==
    /\ At(s, "admitted") /\ Reserved(s)
    /\ sess' = [sess EXCEPT ![s] =
                  [@ EXCEPT !.pc = IF claim.signed = None THEN "composing" ELSE "journaled",
                            !.tx = claim.signed]]
    /\ UNCHANGED cancelled
    /\ UNCHANGED <<claim, phase, ready, mint, burn, burnVars, faults>>

(* prepare_sponsored_mint signs, and sends nothing. *)
Prepare(s) ==
    /\ At(s, "composing")
    /\ mint' = [mint EXCEPT ![s] = "signed"]
    /\ sess' = [sess EXCEPT ![s] = [@ EXCEPT !.pc = "prepared", !.tx = s]]
    /\ UNCHANGED cancelled
    /\ UNCHANGED <<claim, phase, ready, burn, burnVars, faults>>

(* record_mint_prepared. *)
Journal(s) ==
    /\ At(s, "prepared") /\ Reserved(s) /\ claim.signed = None
    /\ claim' = [claim EXCEPT !.signed = sess[s].tx]
    /\ Goto(s, "journaled")
    /\ UNCHANGED <<phase, ready, mint, burn, burnVars, faults>>

(* Composition, preparation or a write fails before the boundary: the finally
   of run_mint_session gives the promise back. *)
Fail(s) ==
    /\ sess[s].pc \in {"composing", "prepared", "journaled"}
    /\ Fault
    /\ claim' = Released(s) /\ End(s)
    /\ UNCHANGED <<phase, ready, mint, burn, burnVars>>

(* mark_mint_forwarded, the irreversible boundary.  Raised after its commit,
   the store refuses the release that follows. *)
Forward(s) ==
    /\ At(s, "journaled") /\ Reserved(s) /\ claim.signed = sess[s].tx
    /\ claim' = [claim EXCEPT !.status = "minting"]
    /\ \/ Goto(s, "forwarded") /\ UNCHANGED faults
       \/ End(s) /\ Fault
    /\ UNCHANGED <<phase, ready, mint, burn, burnVars>>

(* A transaction is handed to the ledger; after its deadline it is refused. *)
Sent(txs, n) == [txs EXCEPT ![n] = IF @ = "signed" THEN "sent" ELSE @]

(* submit_sponsored_mint forwards exactly the journaled transaction. *)
Submit(s) ==
    /\ At(s, "forwarded")
    /\ mint' = Sent(mint, sess[s].tx)
    /\ Goto(s, "submitted")
    /\ UNCHANGED <<claim, phase, ready, burn, burnVars, faults>>

(* record_minted_and_enqueue_burn: the mint and its debt, in one transaction. *)
RecordMinted ==
    /\ claim' = [claim EXCEPT !.status = "minted"]
    /\ burn' = IF burn.status = "none" THEN [burn EXCEPT !.status = "pending"] ELSE burn

(* reset_validated_mint_failure: the promise is restored, its journal emptied. *)
Restored == [claim EXCEPT !.status = "reserved", !.signed = None]

MintConfirmed(s) ==
    /\ At(s, "submitted") /\ mint[sess[s].tx] = "landed"
    /\ \/ RecordMinted /\ Goto(s, "minted") /\ UNCHANGED faults
       \/ Fault /\ End(s) /\ UNCHANGED <<claim, burn>>
    /\ UNCHANGED <<phase, ready, mint, burnVars>>

MintFailed(s) ==
    /\ At(s, "submitted") /\ mint[sess[s].tx] = "failed"
    /\ End(s)
    /\ \/ claim' = Restored /\ UNCHANGED faults
       \/ Fault /\ UNCHANGED claim
    /\ UNCHANGED <<phase, ready, mint, burn, burnVars>>

(* Mutant: an unknown outcome is a failed one. *)
MintUnclearFails(s) ==
    /\ At(s, "submitted")
    /\ \/ mint[sess[s].tx] = "expired" /\ UNCHANGED faults
       \/ Fault
    /\ End(s)
    /\ claim' = Restored
    /\ UNCHANGED <<phase, ready, mint, burn, burnVars>>

(* The outcome stays unknown: recovery work, the claim is not given back. *)
MintUnclear(s) ==
    /\ At(s, "submitted")
    /\ \/ mint[sess[s].tx] = "expired" /\ UNCHANGED faults
       \/ Fault
    /\ End(s)
    /\ UNCHANGED <<claim, phase, ready, mint, burn, burnVars>>

(* record_offer, after the delivery offer; a failed one leaves the claim minted. *)
Offer(s) ==
    /\ At(s, "minted")
    /\ End(s)
    /\ \/ claim' = [claim EXCEPT !.status = "offered"] /\ UNCHANGED faults
       \/ Fault /\ UNCHANGED claim
    /\ UNCHANGED <<phase, ready, mint, burn, burnVars>>

-----------------------------------------------------------------------------
(* Restart: the sessions are gone, the startup sweep runs before the site. *)

Crash ==
    /\ Fault
    /\ phase' = "recovering" /\ ready' = FALSE
    /\ sess' = [s \in Sessions |->
                  IF At(s, "new") THEN sess[s]
                  ELSE [sess[s] EXCEPT !.pc = "ended"]]
    /\ cancelled' = {}
    /\ UNCHANGED <<claim, mint, burn, burnVars>>

Recovering == phase = "recovering" /\ claim.status = "minting"

(* reconcile_sponsored_mint or the replay finds the exact hash validated. *)
RecoverLanded ==
    /\ Recovering /\ mint[claim.signed] = "landed"
    /\ RecordMinted
    /\ UNCHANGED <<memory, phase, ready, mint, burnVars, faults>>

RecoverFailed ==
    /\ Recovering /\ mint[claim.signed] = "failed"
    /\ claim' = Restored
    /\ UNCHANGED <<memory, phase, ready, mint, burn, burnVars, faults>>

(* prove_expiry: past the deadline, a lookup without an answer is absence. *)
LooksAbsent == IF LookupsMayFail THEN {"expired", "landed"} ELSE {"expired"}

RecoverExpired ==
    /\ Recovering /\ mint[claim.signed] \in LooksAbsent
    /\ claim' = Restored
    /\ UNCHANGED <<memory, phase, ready, mint, burn, burnVars, faults>>

(* Before the deadline exactly the persisted transaction is sent again. *)
RecoverReplay ==
    /\ Recovering /\ mint[claim.signed] = "signed"
    /\ mint' = Sent(mint, claim.signed)
    /\ UNCHANGED <<claim, memory, phase, ready, burn, burnVars, faults>>

(* The outcome stays unknown: the site serves, without sponsorship. *)
RecoverUnclear ==
    /\ Recovering
    /\ phase' = "up"
    /\ UNCHANGED <<claim, memory, ready, mint, burn, burnVars, faults>>

(* Every claim is classified; a missing offer is made, or fails again. *)
RecoverDone ==
    /\ phase = "recovering" /\ claim.status # "minting"
    /\ phase' = "up" /\ ready' = TRUE
    /\ \/ UNCHANGED claim
       \/ claim.status = "minted" /\ claim' = [claim EXCEPT !.status = "offered"]
    /\ UNCHANGED <<memory, mint, burn, burnVars, faults>>

(* The ledger includes a mint, refuses it by its rules, or its deadline passes. *)
LedgerMint(n) ==
    /\ \/ mint[n] = "sent" /\ mint' = [mint EXCEPT ![n] = "landed"] /\ UNCHANGED faults
       \/ mint[n] = "sent" /\ mint' = [mint EXCEPT ![n] = "failed"] /\ Fault
       \/ /\ mint[n] \in {"signed", "sent"}
          /\ mint' = [mint EXCEPT ![n] = "expired"] /\ UNCHANGED faults
    /\ UNCHANGED <<claim, memory, phase, ready, burn, burnVars>>

-----------------------------------------------------------------------------
(* sponsored_burn.process_one.                                             *)

Leases(w) == burn.status = "submitting" /\ burn.lease = w

(* _finish: compare and set on the lease; a worker that lost it changes
   nothing.  retire empties the journal. *)
Finish(w, status, retire) ==
    /\ burn' = IF Leases(w)
               THEN [status |-> status, signed |-> IF retire THEN None ELSE burn.signed,
                     lease |-> None]
               ELSE burn
    /\ worker' = [worker EXCEPT ![w] = [pc |-> "idle", signed |-> None]]

(* _acquire: what was left submitting or unknown is reconciled first. *)
Lease(w) ==
    /\ burn' = [burn EXCEPT !.status = "submitting", !.lease = w]
    /\ worker' = [worker EXCEPT ![w] =
                    [pc |-> IF burn.status = "pending" THEN "leased" ELSE "reconciling",
                     signed |-> burn.signed]]
    /\ UNCHANGED <<mintVars, burnTx>>

(* Mutant: an unknown outcome is left to the operator. *)
AcquirePending(w) ==
    /\ worker[w].pc = "idle" /\ burn.status = "pending"
    /\ Lease(w) /\ UNCHANGED faults

Acquire(w) ==
    /\ worker[w].pc = "idle" /\ burn.status \in {"pending", "indeterminate"}
    /\ Lease(w) /\ UNCHANGED faults

(* The lease of a worker that died has run out. *)
Reclaim(w) ==
    /\ worker[w].pc = "idle" /\ burn.status = "submitting"
    /\ worker[burn.lease].pc = "idle"
    /\ Lease(w) /\ UNCHANGED faults

(* The lease runs out under a worker that still works: its heartbeat failed,
   or it waits for the account's submission lock, where there is none. *)
LeaseLapses(w) ==
    /\ worker[w].pc = "idle" /\ burn.status = "submitting"
    /\ worker[burn.lease].pc # "idle"
    /\ Lease(w) /\ Fault

(* submission_coordinator: one signs and submits for the account at a time. *)
HoldsAccount(v) == worker[v].pc \in {"saved", "sent"}

(* prepare_sponsored_burn, then _save_preparation: what was signed is sent
   only once this lease has journaled it. *)
PrepareBurn(w) ==
    /\ worker[w].pc = "leased" /\ \A v \in Workers : ~HoldsAccount(v)
    /\ IF Leases(w) /\ burn.signed = None
       THEN \E b \in Burns :
              /\ burnTx[b] = "unsigned" /\ \A c \in Burns : c < b => burnTx[c] # "unsigned"
              /\ burnTx' = [burnTx EXCEPT ![b] = "signed"]
              /\ burn' = [burn EXCEPT !.signed = b]
              /\ worker' = [worker EXCEPT ![w] = [pc |-> "saved", signed |-> b]]
       ELSE worker' = [worker EXCEPT ![w].pc = "idle"] /\ UNCHANGED <<burn, burnTx>>
    /\ UNCHANGED <<mintVars, faults>>

PrepareBurnFails(w) ==
    /\ worker[w].pc = "leased" /\ \A v \in Workers : ~HoldsAccount(v)
    /\ Finish(w, "pending", FALSE) /\ Fault
    /\ UNCHANGED <<mintVars, burnTx>>

(* submit_sponsored_burn forwards exactly the journaled transaction. *)
SubmitBurn(w) ==
    /\ worker[w].pc = "saved"
    /\ burnTx' = Sent(burnTx, worker[w].signed)
    /\ worker' = [worker EXCEPT ![w].pc = "sent"]
    /\ UNCHANGED <<mintVars, burn, faults>>

BurnConfirmed(w) ==
    /\ worker[w].pc = "sent" /\ burnTx[worker[w].signed] = "landed"
    /\ Finish(w, "burned", FALSE)
    /\ UNCHANGED <<mintVars, burnTx, faults>>

BurnFailed(w) ==
    /\ worker[w].pc = "sent" /\ burnTx[worker[w].signed] = "failed"
    /\ Finish(w, "pending", TRUE)
    /\ UNCHANGED <<mintVars, burnTx, faults>>

BurnUnclear(w) ==
    /\ worker[w].pc = "sent"
    /\ \/ burnTx[worker[w].signed] = "expired" /\ UNCHANGED faults
       \/ Fault
    /\ Finish(w, "indeterminate", FALSE)
    /\ UNCHANGED <<mintVars, burnTx>>

(* find_sponsored_burn over the whole history: a match is true, but the
   server may lag, and then reports absence. *)
Found(w) == \E b \in Burns : burnTx[b] = "landed" /\ worker[w].signed \in {None, b}

Scan(w) ==
    /\ worker[w].pc = "reconciling"
    /\ \/ Found(w) /\ Finish(w, "burned", FALSE)
       \/ worker[w].signed = None /\ Finish(w, "pending", FALSE)
       \/ /\ worker[w].signed # None
          /\ worker' = [worker EXCEPT ![w].pc = "absent"] /\ UNCHANGED burn
    /\ UNCHANGED <<mintVars, burnTx, faults>>

(* sponsored_burn_identity_expired: a validated ledger past the deadline, also
   of a transaction that landed after the scan. *)
ProveExpiry(w) ==
    /\ worker[w].pc = "absent"
    /\ burnTx[worker[w].signed] \in {"landed", "failed", "expired"}
    /\ worker' = [worker EXCEPT ![w].pc = "expired"]
    /\ UNCHANGED <<mintVars, burn, burnTx, faults>>

(* Mutant: the first scan's absence is taken for the second's. *)
RescanSkipped(w) ==
    /\ worker[w].pc = "expired"
    /\ Finish(w, "pending", TRUE)
    /\ UNCHANGED <<mintVars, burnTx, faults>>

(* The second scan, of a range the server must cover up to the deadline. *)
Rescan(w) ==
    /\ worker[w].pc = "expired"
    /\ \/ Found(w) /\ Finish(w, "burned", FALSE)
       \/ ~Found(w) /\ Finish(w, "pending", TRUE)
    /\ UNCHANGED <<mintVars, burnTx, faults>>

(* A scan that fails, is incomplete or malformed, or a deadline not passed. *)
Undecided(w) ==
    /\ worker[w].pc \in {"reconciling", "absent", "expired"}
    /\ Finish(w, "indeterminate", FALSE)
    /\ UNCHANGED <<mintVars, burnTx, faults>>

WorkerDies(w) ==
    /\ worker[w].pc # "idle" /\ Fault
    /\ worker' = [worker EXCEPT ![w] = [pc |-> "idle", signed |-> None]]
    /\ UNCHANGED <<mintVars, burn, burnTx>>

(* An orphaned burn, signed but with nobody left to send it, expires as a
   matter of course; every other failure to land is a fault. *)
LedgerBurn(b) ==
    /\ \/ burnTx[b] = "sent" /\ burnTx' = [burnTx EXCEPT ![b] = "landed"] /\ UNCHANGED faults
       \/ burnTx[b] = "sent" /\ burnTx' = [burnTx EXCEPT ![b] = "failed"] /\ Fault
       \/ /\ burnTx[b] \in {"signed", "sent"} /\ burnTx' = [burnTx EXCEPT ![b] = "expired"]
          /\ IF burnTx[b] = "signed" /\ \A w \in Workers : ~HoldsAccount(w)
             THEN UNCHANGED faults ELSE Fault
    /\ UNCHANGED <<mintVars, burn, worker>>

-----------------------------------------------------------------------------
Session(s) ==
    \/ Request(s) \/ LookForOrphan(s) \/ Rebind(s) \/ Reserve(s) \/ Cancel(s) \/ Admit(s)
    \/ Start(s) \/ Prepare(s) \/ Journal(s) \/ Fail(s) \/ Forward(s) \/ Submit(s)
    \/ MintConfirmed(s) \/ MintFailed(s) \/ MintUnclear(s) \/ Offer(s)

Recovery ==
    \/ RecoverLanded \/ RecoverFailed \/ RecoverExpired \/ RecoverReplay
    \/ RecoverUnclear \/ RecoverDone

Worker(w) ==
    \/ Acquire(w) \/ Reclaim(w) \/ LeaseLapses(w) \/ PrepareBurn(w) \/ PrepareBurnFails(w)
    \/ SubmitBurn(w) \/ BurnConfirmed(w) \/ BurnFailed(w) \/ BurnUnclear(w)
    \/ Scan(w) \/ ProveExpiry(w) \/ Rescan(w) \/ Undecided(w) \/ WorkerDies(w)

Next ==
    \/ \E s \in Sessions : Session(s) \/ LedgerMint(s)
    \/ \E w \in Workers : Worker(w)
    \/ \E b \in Burns : LedgerBurn(b)
    \/ Crash \/ Recovery

(* A worker's loop runs on, here or in the other process; a scan that fails
   is repeated until it completes; the ledger decides what it was sent and
   passes every deadline. *)
Fairness ==
    /\ SF_vars(\E w \in Workers : Acquire(w) \/ Reclaim(w))
    /\ SF_vars(\E w \in Workers : PrepareBurn(w))
    /\ WF_vars(\E w \in Workers : SubmitBurn(w))
    /\ WF_vars(\E w \in Workers : BurnConfirmed(w) \/ BurnFailed(w) \/ BurnUnclear(w))
    /\ SF_vars(\E w \in Workers : Scan(w))
    /\ SF_vars(\E w \in Workers : ProveExpiry(w))
    /\ SF_vars(\E w \in Workers : Rescan(w))
    /\ WF_vars(\E b \in Burns : LedgerBurn(b))

Spec == Init /\ [][Next]_vars
FairSpec == Spec /\ Fairness

-----------------------------------------------------------------------------
(* A session past its start is the one the claim is bound to, at the stage
   and with the mint the session believes: no other session, cancelled
   handler or recovery takes the promise from under it. *)
HolderOwnsClaim ==
    \A s \in Sessions :
        /\ sess[s].pc \in {"composing", "prepared"} => Reserved(s) /\ claim.signed = None
        /\ At(s, "journaled") => Reserved(s) /\ claim.signed = sess[s].tx
        /\ sess[s].pc \in {"forwarded", "submitted"} =>
             claim = [status |-> "minting", session |-> s, signed |-> sess[s].tx]

(* A wallet's free mint succeeds at most once, whatever is retried, restarted
   or recovered. *)
OneFreeMint ==
    \A m, n \in Sessions : mint[m] = "landed" /\ mint[n] = "landed" => m = n

(* The debt is burned at most once, never without a mint, and what the
   obligation calls burned has landed. *)
BurnedOnce ==
    /\ \A b, c \in Burns : burnTx[b] = "landed" /\ burnTx[c] = "landed" => b = c
    /\ \A b \in Burns : burnTx[b] = "landed" => \E n \in Sessions : mint[n] = "landed"
    /\ burn.status = "burned" => \E b \in Burns : burnTx[b] = "landed"

(* The debt of a mint is burned in the end. *)
DebtIsBurned == burn.status = "pending" ~> burn.status = "burned"
=============================================================================

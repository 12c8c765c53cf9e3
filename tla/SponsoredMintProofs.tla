------------------------ MODULE SponsoredMintProofs ------------------------
(***************************************************************************)
(* Proofs about SponsoredMint, for any number of sessions, workers, burns  *)
(* and faults.                                                             *)
(***************************************************************************)
EXTENDS SponsoredMint, TLAPS

(* The assumption on finding 4: a lookup at a mint's expiry tells the truth. *)
TrueLookups == LookupsMayFail = FALSE

-----------------------------------------------------------------------------
(* The types of the rows and of the processes.                             *)

Claims == [status : {"none", "reserved", "minting", "minted", "offered", "released"},
           session : Sessions \cup {None}, signed : Sessions \cup {None}]
SessionStates == [pc : {"new", "asked", "rebinding", "reserving", "committed",
                        "admitted", "composing", "prepared", "journaled",
                        "forwarded", "submitted", "minted", "ended"},
                  seen : Sessions \cup {None}, tx : Sessions \cup {None}]
Debts == [status : {"none", "pending", "submitting", "indeterminate", "burned"},
          signed : Burns \cup {None}, lease : Workers \cup {None}]
WorkerStates == [pc : {"idle", "leased", "saved", "sent", "reconciling", "absent", "expired"},
                 signed : Burns \cup {None}]

-----------------------------------------------------------------------------
(* The strengthening of OneFreeMint.                                       *)

BeforeMint == {"new", "asked", "rebinding", "reserving", "committed", "admitted", "composing"}
Admitted   == {"admitted", "composing", "prepared", "journaled", "forwarded", "submitted",
               "minted"}

(* Whatever may land is what the claim has journaled, past its boundary. *)
SentIsClaimed ==
    \A n \in Sessions : mint[n] \in {"sent", "landed"} =>
        claim.signed = n /\ claim.status \in {"minting", "minted", "offered"}

(* The claim that is minting has a journal, and so has its session. *)
JournalExists ==
    /\ claim.status = "minting" => claim.signed # None
    /\ \A s \in Sessions : sess[s].pc \in {"prepared", "journaled"} => sess[s].tx # None

(* What an orphan's finder may rely on: the holder it saw is over. *)
OrphanIsOver ==
    /\ \A s \in Sessions : sess[s].pc \in Admitted => s \notin cancelled
    /\ \A s \in Sessions : At(s, "rebinding") /\ sess[s].seen # None =>
         ~Live(sess[s].seen) /\ ~At(sess[s].seen, "new")
    /\ claim.session # None => ~At(claim.session, "new")

(* A session that made its offer has its mint recorded. *)
OfferAfterMint == \A s \in Sessions : At(s, "minted") => claim.status \in {"minted", "offered"}

(* The startup sweep runs alone. *)
SweepIsAlone == phase = "recovering" => \A s \in Sessions : sess[s].pc \in {"new", "ended"}

(* A session signs once. *)
SignsOnce == \A s \in Sessions : sess[s].pc \in BeforeMint => mint[s] = "unsigned"

ClaimInv ==
    /\ TypeOK /\ HolderOwnsClaim /\ JournalExists
    /\ OrphanIsOver /\ OfferAfterMint /\ SweepIsAlone /\ SignsOnce

-----------------------------------------------------------------------------
(* The strengthening of BurnedOnce.                                        *)

(* Whatever may land is the burn the obligation has journaled. *)
SignedIsJournaled ==
    \A b \in Burns : burnTx[b] \in {"signed", "sent", "landed"} => burn.signed = b

(* A debt has its mint, and nothing is signed without a debt. *)
DebtHasMint ==
    /\ burn.status # "none" => \E n \in Sessions : mint[n] = "landed"
    /\ burn.status = "none" => burn.signed = None

(* While it holds the lease a worker knows the journal, and a burn whose
   deadline it has seen pass is decided. *)
WorkerKnows ==
    \A w \in Workers :
        /\ Leases(w) /\ worker[w].pc \notin {"idle", "leased"} => burn.signed = worker[w].signed
        /\ worker[w].pc \in {"saved", "sent", "absent", "expired"} => worker[w].signed # None
        /\ worker[w].pc = "expired" => burnTx[worker[w].signed] \in {"landed", "failed", "expired"}

BurnedHasLanded == burn.status = "burned" => \E b \in Burns : burnTx[b] = "landed"

BurnInv == SignedIsJournaled /\ DebtHasMint /\ WorkerKnows /\ BurnedHasLanded
-----------------------------------------------------------------------------
(* Type correctness, variable by variable.                                 *)

LEMMA WorkerStepsAside ==
  ASSUME NEW w \in Workers, Worker(w)
  PROVE  UNCHANGED mintVars
BY DEF Worker, Acquire, Reclaim, LeaseLapses, Lease, PrepareBurn, PrepareBurnFails, SubmitBurn,
   BurnConfirmed, BurnFailed, BurnUnclear, Scan, ProveExpiry, Rescan, Undecided, WorkerDies

LEMMA ClaimType ==
  ASSUME claim \in Claims, sess \in [Sessions -> SessionStates], [Next]_vars
  PROVE  claim' \in Claims
<1> USE DEF Claims, SessionStates
<1>1. ASSUME NEW s \in Sessions, Session(s)
      PROVE  claim' \in Claims
  <2>1. CASE Request(s) \/ LookForOrphan(s) \/ Start(s) \/ Prepare(s) \/ Submit(s) \/ MintUnclear(s)
    BY <2>1 DEF Request, LookForOrphan, Start, Prepare, Submit, MintUnclear
  <2>2. CASE Rebind(s) \/ Reserve(s) \/ Journal(s) \/ Forward(s)
    BY <2>2 DEF Rebind, Reserve, Journal, Forward
  <2>3. CASE Cancel(s) \/ Admit(s) \/ Fail(s)
    BY <2>3 DEF Cancel, Admit, Fail, Release, Released
  <2>4. CASE MintConfirmed(s) \/ MintFailed(s) \/ Offer(s)
    BY <2>4 DEF MintConfirmed, MintFailed, Offer, RecordMinted, Restored
  <2> QED BY <1>1, <2>1, <2>2, <2>3, <2>4 DEF Session
<1>2. CASE Recovery
  BY <1>2 DEF Recovery, RecoverLanded, RecoverFailed, RecoverExpired, RecoverReplay,
     RecoverUnclear, RecoverDone, RecordMinted, Restored
<1>3. ASSUME NEW w \in Workers, Worker(w)
      PROVE  claim' = claim
  BY <1>3, WorkerStepsAside DEF mintVars
<1> QED BY <1>1, <1>2, <1>3 DEF Next, LedgerMint, LedgerBurn, Crash, vars, mintVars

LEMMA SessionType ==
  ASSUME claim \in Claims, sess \in [Sessions -> SessionStates], cancelled \subseteq Sessions,
         [Next]_vars
  PROVE  sess' \in [Sessions -> SessionStates] /\ cancelled' \subseteq Sessions
<1> USE DEF Claims, SessionStates
<1>1. ASSUME NEW s \in Sessions, Session(s)
      PROVE  sess' \in [Sessions -> SessionStates] /\ cancelled' \subseteq Sessions
  <2>a. ASSUME NEW r \in SessionStates, sess' = [sess EXCEPT ![s] = r], UNCHANGED cancelled
        PROVE  sess' \in [Sessions -> SessionStates] /\ cancelled' \subseteq Sessions
    BY <2>a
  <2>1. CASE LookForOrphan(s)
    <3> DEFINE r(pc) == [sess[s] EXCEPT !.pc = pc, !.seen = claim.session]
    <3>1. \A pc \in {"rebinding", "reserving"} : r(pc) \in SessionStates
      OBVIOUS
    <3>2. \E pc \in {"rebinding", "reserving"} : sess' = [sess EXCEPT ![s] = r(pc)]
      BY <2>1 DEF LookForOrphan
    <3>3. UNCHANGED cancelled
      BY <2>1 DEF LookForOrphan
    <3> HIDE DEF r
    <3> QED BY <2>a, <3>1, <3>2, <3>3
  <2>2. CASE Start(s)
    <3> DEFINE r(pc) == [sess[s] EXCEPT !.pc = pc, !.tx = claim.signed]
    <3>1. \A pc \in {"composing", "journaled"} : r(pc) \in SessionStates
      OBVIOUS
    <3>2. \E pc \in {"composing", "journaled"} : sess' = [sess EXCEPT ![s] = r(pc)]
      BY <2>2 DEF Start
    <3>3. UNCHANGED cancelled
      BY <2>2 DEF Start
    <3> HIDE DEF r
    <3> QED BY <2>a, <3>1, <3>2, <3>3
  <2>3. CASE Prepare(s)
    <3>1. sess[s] \in SessionStates
      OBVIOUS
    <3>2. [sess[s] EXCEPT !.pc = "prepared", !.tx = s] \in SessionStates
      BY <3>1
    <3> QED BY <2>a, <2>3, <3>2 DEF Prepare
  <2>4. CASE Cancel(s)
    BY <2>4 DEF Cancel, End, Goto
  <2>5. ASSUME ~LookForOrphan(s), ~Start(s), ~Prepare(s), ~Cancel(s)
        PROVE  \E pc \in {"asked", "reserving", "committed", "admitted", "journaled",
                           "forwarded", "submitted", "minted", "ended"} : Goto(s, pc)
    BY <1>1, <2>5 DEF Session, Request, Rebind, Reserve, Admit, Journal, Fail, Forward,
       Submit, MintConfirmed, MintFailed, MintUnclear, Offer, End
  <2> QED BY <2>1, <2>2, <2>3, <2>4, <2>5 DEF Goto
<1>2. CASE Crash
  BY <1>2 DEF Crash
<1>3. CASE Recovery
  BY <1>3 DEF Recovery, RecoverLanded, RecoverFailed, RecoverExpired, RecoverReplay,
     RecoverUnclear, RecoverDone, memory
<1>4. ASSUME NEW w \in Workers, Worker(w)
      PROVE  UNCHANGED memory
  BY <1>4, WorkerStepsAside DEF mintVars
<1> QED BY <1>1, <1>2, <1>3, <1>4 DEF Next, LedgerMint, LedgerBurn, vars, mintVars, memory

LEMMA LedgerType ==
  ASSUME mint \in [Sessions -> TxStates], burnTx \in [Burns -> TxStates], [Next]_vars
  PROVE  mint' \in [Sessions -> TxStates] /\ burnTx' \in [Burns -> TxStates]
<1> USE DEF TxStates, Sent
<1>1. ASSUME NEW s \in Sessions, Session(s)
      PROVE  mint' \in [Sessions -> TxStates] /\ UNCHANGED burnTx
  BY <1>1 DEF Session, Request, LookForOrphan, Rebind, Reserve, Cancel, Admit, Start, Prepare,
     Journal, Fail, Forward, Submit, MintConfirmed, MintFailed, MintUnclear, Offer, burnVars
<1>2. CASE Recovery
  BY <1>2 DEF Recovery, RecoverLanded, RecoverFailed, RecoverExpired, RecoverReplay,
     RecoverUnclear, RecoverDone, burnVars
<1>3. ASSUME NEW w \in Workers, Worker(w)
      PROVE  UNCHANGED mint /\ burnTx' \in [Burns -> TxStates]
  <2>1. UNCHANGED mint
    BY <1>3, WorkerStepsAside DEF mintVars
  <2>2. CASE PrepareBurn(w)
    <3>1. UNCHANGED burnTx \/ \E b \in Burns : burnTx' = [burnTx EXCEPT ![b] = "signed"]
      BY <2>2 DEF PrepareBurn
    <3> QED BY <2>1, <3>1
  <2>3. CASE SubmitBurn(w)
    <3>1. burnTx' = [burnTx EXCEPT ![worker[w].signed] = IF @ = "signed" THEN "sent" ELSE @]
      BY <2>3 DEF SubmitBurn
    <3> QED BY <2>1, <3>1
  <2>4. CASE ~PrepareBurn(w) /\ ~SubmitBurn(w)
    <3>1. UNCHANGED burnTx
      BY <1>3, <2>4 DEF Worker, Acquire, Reclaim, LeaseLapses, Lease, PrepareBurnFails,
         BurnConfirmed, BurnFailed, BurnUnclear, Scan, ProveExpiry, Rescan, Undecided, WorkerDies
    <3> QED BY <2>1, <3>1
  <2> QED BY <2>1, <2>2, <2>3, <2>4
<1> QED BY <1>1, <1>2, <1>3 DEF Next, LedgerMint, LedgerBurn, Crash, vars, mintVars, burnVars

LEMMA DebtType ==
  ASSUME burn \in Debts, burn.status = "submitting" <=> burn.lease # None,
         worker \in [Workers -> WorkerStates], [Next]_vars
  PROVE  /\ burn' \in Debts /\ (burn'.status = "submitting" <=> burn'.lease # None)
         /\ worker' \in [Workers -> WorkerStates]
<1> USE DEF Debts, WorkerStates
<1>1. ASSUME NEW s \in Sessions, Session(s)
      PROVE  (UNCHANGED burn \/ RecordMinted) /\ UNCHANGED worker
  BY <1>1 DEF Session, Request, LookForOrphan, Rebind, Reserve, Cancel, Admit, Start, Prepare,
     Journal, Fail, Forward, Submit, MintConfirmed, MintFailed, MintUnclear, Offer, burnVars
<1>2. CASE Recovery
  <2>1. (UNCHANGED burn \/ RecordMinted) /\ UNCHANGED worker
    BY <1>2 DEF Recovery, RecoverLanded, RecoverFailed, RecoverExpired, RecoverReplay,
       RecoverUnclear, RecoverDone, burnVars
  <2> QED BY <2>1 DEF RecordMinted
<1>3. ASSUME NEW w \in Workers, Worker(w)
      PROVE  /\ burn' \in Debts /\ (burn'.status = "submitting" <=> burn'.lease # None)
             /\ worker' \in [Workers -> WorkerStates]
  <2>1. CASE Acquire(w) \/ Reclaim(w) \/ LeaseLapses(w)
    <3>1. Lease(w) /\ w # None
      BY <2>1 DEF Acquire, Reclaim, LeaseLapses, Workers, None
    <3>2. burn' \in Debts /\ (burn'.status = "submitting" <=> burn'.lease # None)
      BY <3>1 DEF Lease
    <3>3. worker' \in [Workers -> WorkerStates]
      BY <3>1 DEF Lease
    <3> QED BY <3>2, <3>3
  <2>2. CASE PrepareBurn(w)
    BY <2>2 DEF PrepareBurn, Leases
  <2>3. CASE SubmitBurn(w) \/ ProveExpiry(w) \/ WorkerDies(w)
    BY <2>3 DEF SubmitBurn, ProveExpiry, WorkerDies
  <2>4. ASSUME NEW st \in {"pending", "indeterminate", "burned"}, NEW r \in BOOLEAN,
               Finish(w, st, r)
        PROVE  /\ burn' \in Debts /\ (burn'.status = "submitting" <=> burn'.lease # None)
               /\ worker' \in [Workers -> WorkerStates]
    BY <2>4 DEF Finish, Leases
  <2>5. CASE \/ PrepareBurnFails(w) \/ BurnConfirmed(w) \/ BurnFailed(w) \/ BurnUnclear(w)
             \/ Rescan(w) \/ Undecided(w)
    BY <2>4, <2>5 DEF PrepareBurnFails, BurnConfirmed, BurnFailed, BurnUnclear, Rescan, Undecided
  <2>6. CASE Scan(w)
    <3>1. CASE UNCHANGED burn
      BY <2>6, <3>1, <2>4 DEF Scan
    <3> QED BY <2>6, <2>4 DEF Scan
  <2> QED BY <1>3, <2>1, <2>2, <2>3, <2>5, <2>6 DEF Worker
<1> QED BY <1>1, <1>2, <1>3 DEF Next, LedgerMint, LedgerBurn, Crash, RecordMinted, vars, burnVars

LEMMA RestType ==
  ASSUME phase \in {"recovering", "up"}, ready \in BOOLEAN, faults \in 0 .. MaxFaults, [Next]_vars
  PROVE  /\ phase' \in {"recovering", "up"} /\ ready' \in BOOLEAN
         /\ faults' \in 0 .. MaxFaults
<1>1. phase' \in {"recovering", "up"} /\ ready' \in BOOLEAN
  <2>1. ASSUME NEW s \in Sessions, Session(s)
        PROVE  UNCHANGED <<phase, ready>>
    BY <2>1 DEF Session, Request, LookForOrphan, Rebind, Reserve, Cancel, Admit, Start, Prepare,
       Journal, Fail, Forward, Submit, MintConfirmed, MintFailed, MintUnclear, Offer
  <2>2. ASSUME NEW w \in Workers, Worker(w)
        PROVE  UNCHANGED <<phase, ready>>
    BY <2>2, WorkerStepsAside DEF mintVars
  <2> QED BY <2>1, <2>2 DEF Next, Crash, LedgerMint, LedgerBurn, Recovery, RecoverLanded,
             RecoverFailed, RecoverExpired, RecoverReplay, RecoverUnclear, RecoverDone,
             vars, mintVars
<1>2. UNCHANGED faults \/ Fault
  <2>1. ASSUME NEW s \in Sessions, Session(s)
        PROVE  UNCHANGED faults \/ Fault
    BY <2>1 DEF Session, Request, LookForOrphan, Rebind, Reserve, Cancel, Release, Admit, Start,
       Prepare, Journal, Fail, Forward, Submit, MintConfirmed, MintFailed, MintUnclear, Offer
  <2>2. ASSUME NEW w \in Workers, Worker(w)
        PROVE  UNCHANGED faults \/ Fault
    BY <2>2 DEF Worker, Acquire, Reclaim, LeaseLapses, PrepareBurn, PrepareBurnFails, SubmitBurn,
       BurnConfirmed, BurnFailed, BurnUnclear, Scan, ProveExpiry, Rescan, Undecided, WorkerDies
  <2> QED BY <2>1, <2>2 DEF Next, Crash, LedgerMint, LedgerBurn, Recovery, RecoverLanded,
             RecoverFailed, RecoverExpired, RecoverReplay, RecoverUnclear, RecoverDone, vars
<1> QED BY <1>1, <1>2, SponsoredAssumption DEF Fault

LEMMA TypeStep ==
  ASSUME TypeOK, [Next]_vars
  PROVE  TypeOK'
<1>1. /\ claim \in Claims /\ sess \in [Sessions -> SessionStates] /\ cancelled \subseteq Sessions
      /\ burn \in Debts /\ worker \in [Workers -> WorkerStates]
  BY DEF TypeOK, Claims, SessionStates, Debts, WorkerStates
<1>2. /\ claim' \in Claims /\ sess' \in [Sessions -> SessionStates] /\ cancelled' \subseteq Sessions
      /\ burn' \in Debts /\ worker' \in [Workers -> WorkerStates]
      /\ burn'.status = "submitting" <=> burn'.lease # None
  BY <1>1, ClaimType, SessionType, DebtType DEF TypeOK
<1>3. mint' \in [Sessions -> TxStates] /\ burnTx' \in [Burns -> TxStates]
  BY LedgerType DEF TypeOK
<1>4. /\ phase' \in {"recovering", "up"} /\ ready' \in BOOLEAN
      /\ faults' \in 0 .. MaxFaults
  BY RestType DEF TypeOK
<1> QED BY <1>2, <1>3, <1>4 DEF TypeOK, Claims, SessionStates, Debts, WorkerStates

(* Every row, session and worker keeps its type, whatever the bounds. *)
THEOREM TypeCorrect == Spec => []TypeOK
<1>1. Init => TypeOK
  BY SponsoredAssumption DEF Init, TypeOK, TxStates, None
<1>2. TypeOK /\ [Next]_vars => TypeOK'
  BY TypeStep
<1> QED BY <1>1, <1>2, PTL DEF Spec

-----------------------------------------------------------------------------
(* What a step of a session leaves alone.                                  *)

LEMMA Stages ==
  ASSUME TypeOK, NEW s \in Sessions
  PROVE  /\ LookForOrphan(s) => sess'[s].pc \in {"rebinding", "reserving"}
         /\ Start(s) => \/ sess'[s].pc = "composing"
                        \/ sess'[s].pc = "journaled" /\ sess'[s].tx # None
         /\ Prepare(s) => sess'[s].pc = "prepared" /\ sess'[s].tx = s
         /\ Cancel(s) => sess' = sess \/ sess'[s].pc = "ended"
<1>1. sess[s] \in SessionStates /\ sess \in [Sessions -> SessionStates]
  BY DEF TypeOK, SessionStates
<1>2. LookForOrphan(s) => sess'[s].pc \in {"rebinding", "reserving"}
  BY <1>1 DEF LookForOrphan, SessionStates
<1>3. Start(s) => \/ sess'[s].pc = "composing"
                  \/ sess'[s].pc = "journaled" /\ sess'[s].tx # None
  BY <1>1 DEF Start, SessionStates
<1>4. Prepare(s) => sess'[s].pc = "prepared" /\ sess'[s].tx = s
  BY <1>1 DEF Prepare, SessionStates
<1>5. Cancel(s) => sess' = sess \/ sess'[s].pc = "ended"
  BY <1>1 DEF Cancel, End, Goto, SessionStates
<1> QED BY <1>2, <1>3, <1>4, <1>5

LEMMA SessionStep ==
  ASSUME TypeOK, NEW s \in Sessions, Session(s)
  PROVE  /\ phase' = phase /\ sess[s].pc # "ended" /\ sess'[s].pc # "new"
         /\ \A t \in Sessions \ {s} : sess'[t] = sess[t]
         /\ cancelled' \in {cancelled, cancelled \cup {s}}
<1>1. sess \in [Sessions -> SessionStates]
  BY DEF TypeOK, SessionStates
<1>2. CASE LookForOrphan(s) \/ Start(s) \/ Prepare(s)
  <2>1. /\ phase' = phase /\ sess[s].pc # "ended" /\ cancelled' = cancelled
        /\ \E r : sess' = [sess EXCEPT ![s] = r]
    BY <1>2 DEF LookForOrphan, Start, Prepare, At
  <2>2. sess'[s].pc # "new"
    BY <1>2, Stages
  <2> QED BY <1>1, <2>1, <2>2
<1>3. CASE Cancel(s)
  BY <1>1, <1>3 DEF Cancel, At, End, Goto, SessionStates
<1>4. CASE ~(LookForOrphan(s) \/ Start(s) \/ Prepare(s) \/ Cancel(s))
  <2>1. /\ phase' = phase /\ sess[s].pc # "ended"
        /\ \E pc \in {"asked", "reserving", "committed", "admitted", "journaled",
                       "forwarded", "submitted", "minted", "ended"} : Goto(s, pc)
    BY <1>4 DEF Session, Request, Rebind, Reserve, Admit, Journal, Fail, Forward,
       Submit, MintConfirmed, MintFailed, MintUnclear, Offer, End, At
  <2> QED BY <1>1, <2>1 DEF Goto, SessionStates
<1> QED BY <1>2, <1>3, <1>4

(* The stages at which a session has the claim to itself. *)
Holding == {"composing", "prepared", "journaled", "forwarded", "submitted"}

LEMMA NobodyElseMovesIt ==
  ASSUME ClaimInv, NEW s \in Sessions, Session(s), NEW t \in Sessions, t # s,
         sess[t].pc \in Holding \cup {"minted"}
  PROVE  /\ sess[t].pc \in Holding => claim' = claim
         /\ sess[t].pc = "minted" => claim'.status \in {"minted", "offered"}
<1>1. /\ claim \in Claims /\ t # None
      /\ sess[t].pc \in Holding => claim.status \in {"reserved", "minting"} /\ claim.session = t
      /\ sess[t].pc = "minted" => claim.status \in {"minted", "offered"}
  <2>1. claim \in Claims
    BY DEF ClaimInv, TypeOK, Claims
  <2>2. t # None
    BY DEF Sessions, None
  <2> QED BY <2>1, <2>2 DEF ClaimInv, HolderOwnsClaim, OfferAfterMint, Holding, Reserved, At
<1>2. CASE Rebind(s)
  <2>1. sess[s].seen # t
    <3>1. t \notin cancelled /\ sess[t].pc \notin {"new", "ended"}
      BY DEF ClaimInv, OrphanIsOver, Holding, Admitted
    <3>2. Live(t)
      BY <3>1 DEF Live
    <3> QED BY <1>1, <1>2, <3>2 DEF ClaimInv, OrphanIsOver, Rebind
  <2> QED BY <1>1, <1>2, <2>1 DEF Rebind, Reserved, Holding
<1>3. CASE Request(s) \/ LookForOrphan(s) \/ Start(s) \/ Prepare(s) \/ Submit(s) \/ MintUnclear(s)
  BY <1>1, <1>3 DEF Request, LookForOrphan, Start, Prepare, Submit, MintUnclear
<1>4. CASE Reserve(s) \/ Journal(s) \/ Forward(s)
  BY <1>1, <1>4 DEF Reserve, Journal, Forward, Reserved, Holding
<1>5. CASE Cancel(s) \/ Admit(s) \/ Fail(s)
  BY <1>1, <1>5 DEF Cancel, Admit, Fail, Release, Released, Reserved, Holding
<1>6. CASE MintConfirmed(s) \/ MintFailed(s) \/ Offer(s)
  <2>1. ~Offer(s) => claim.status = "minting" /\ claim.session = s
    BY <1>6 DEF MintConfirmed, MintFailed, ClaimInv, HolderOwnsClaim, At
  <2>2. Offer(s) => claim.status \in {"minted", "offered"}
    BY DEF Offer, ClaimInv, OfferAfterMint
  <2>3. CASE Offer(s)
    BY <1>1, <2>2, <2>3 DEF Offer, Claims
  <2> QED BY <1>1, <1>6, <2>1, <2>3
<1> QED BY <1>2, <1>3, <1>4, <1>5, <1>6 DEF Session

-----------------------------------------------------------------------------
(* Each part of ClaimInv is kept.                                           *)

LEMMA HolderStep ==
  ASSUME ClaimInv, NEW s \in Sessions, Session(s)
  PROVE  HolderOwnsClaim'
<1> SUFFICES ASSUME NEW t \in Sessions
             PROVE  /\ sess'[t].pc \in {"composing", "prepared"} =>
                         claim'.status = "reserved" /\ claim'.session = t /\ claim'.signed = None
                    /\ sess'[t].pc = "journaled" =>
                         claim'.status = "reserved" /\ claim'.session = t /\ claim'.signed = sess'[t].tx
                    /\ sess'[t].pc \in {"forwarded", "submitted"} =>
                         claim' = [status |-> "minting", session |-> t, signed |-> sess'[t].tx]
  BY DEF HolderOwnsClaim, At, Reserved
<1>1. claim \in Claims /\ sess \in [Sessions -> SessionStates]
  BY DEF ClaimInv, TypeOK, Claims, SessionStates
<1>2. CASE t # s
  <2>1. sess'[t] = sess[t]
    BY <1>2, SessionStep DEF ClaimInv
  <2>2. sess[t].pc \in Holding => claim' = claim
    BY <1>2, NobodyElseMovesIt
  <2> QED BY <2>1, <2>2 DEF ClaimInv, HolderOwnsClaim, Holding, At, Reserved
<1>3. CASE t = s
  <2>1. CASE Start(s)
    BY <1>1, <1>3, <2>1 DEF Start, Reserved, Claims, SessionStates
  <2>2. CASE Prepare(s)
    BY <1>1, <1>3, <2>2 DEF Prepare, ClaimInv, HolderOwnsClaim, At, Reserved, SessionStates
  <2>3. CASE Journal(s)
    BY <1>1, <1>3, <2>3 DEF Journal, Goto, Reserved, Claims, SessionStates
  <2>4. CASE Forward(s)
    <3>1. claim' = [status |-> "minting", session |-> s, signed |-> sess[s].tx]
      BY <1>1, <2>4 DEF Forward, Reserved, Claims
    <3>2. sess'[s].pc \in {"forwarded", "ended"} /\ sess'[s].tx = sess[s].tx
      BY <1>1, <2>4 DEF Forward, End, Goto, SessionStates
    <3> QED BY <1>3, <3>1, <3>2
  <2>5. CASE Submit(s)
    <3>1. claim' = claim /\ sess'[s].pc = "submitted" /\ sess'[s].tx = sess[s].tx
      BY <1>1, <2>5 DEF Submit, Goto, SessionStates
    <3> QED BY <1>3, <2>5, <3>1 DEF Submit, ClaimInv, HolderOwnsClaim, At
  <2>6. CASE ~(Start(s) \/ Prepare(s) \/ Journal(s) \/ Forward(s) \/ Submit(s))
    <3>1. CASE LookForOrphan(s)
      BY <1>3, <3>1, Stages DEF ClaimInv
    <3>2. CASE Cancel(s)
      BY <1>1, <1>3, <3>2 DEF Cancel, At, End, Goto, SessionStates
    <3>3. CASE ~(LookForOrphan(s) \/ Cancel(s))
      <4>1. \E pc \in {"asked", "reserving", "committed", "admitted", "minted", "ended"} :
              Goto(s, pc)
        BY <2>6, <3>3 DEF Session, Request, Rebind, Reserve, Admit, Fail, MintConfirmed,
           MintFailed, MintUnclear, Offer, End
      <4> QED BY <1>1, <1>3, <4>1 DEF Goto, SessionStates
    <3> QED BY <3>1, <3>2, <3>3
  <2> QED BY <2>1, <2>2, <2>3, <2>4, <2>5, <2>6
<1> QED BY <1>2, <1>3

LEMMA SentStep ==
  ASSUME ClaimInv, SentIsClaimed, NEW s \in Sessions, Session(s)
  PROVE  SentIsClaimed'
<1> SUFFICES ASSUME NEW n \in Sessions, mint'[n] \in {"sent", "landed"}
             PROVE  claim'.signed = n /\ claim'.status \in {"minting", "minted", "offered"}
  BY DEF SentIsClaimed
<1>1. claim \in Claims /\ mint \in [Sessions -> TxStates]
  BY DEF ClaimInv, TypeOK, Claims
<1>2. CASE Submit(s)
  <2>1. claim' = claim /\ claim.signed = sess[s].tx /\ claim.status = "minting"
    BY <1>2 DEF Submit, ClaimInv, HolderOwnsClaim, At
  <2>2. mint[n] \in {"sent", "landed"} \/ n = sess[s].tx
    BY <1>1, <1>2 DEF Submit, Sent
  <2> QED BY <2>1, <2>2 DEF SentIsClaimed
<1>3. CASE ~Submit(s)
  <2>1. mint[n] \in {"sent", "landed"}
    <3>1. mint' = mint \/ mint' = [mint EXCEPT ![s] = "signed"]
      BY <1>3 DEF Session, Request, LookForOrphan, Rebind, Reserve, Cancel, Admit, Start, Prepare,
         Journal, Fail, Forward, MintConfirmed, MintFailed, MintUnclear, Offer
    <3> QED BY <1>1, <3>1
  <2>2. claim.signed = n /\ claim.status \in {"minting", "minted", "offered"}
    BY <2>1 DEF SentIsClaimed
  <2>3. CASE MintConfirmed(s) \/ Offer(s)
    BY <1>1, <2>2, <2>3 DEF MintConfirmed, RecordMinted, Offer, Claims
  <2>4. CASE MintFailed(s)
    <3>1. claim.signed = sess[s].tx /\ mint[sess[s].tx] = "failed"
      BY <2>4 DEF MintFailed, ClaimInv, HolderOwnsClaim, At
    <3> QED BY <2>1, <2>2, <3>1
  <2>5. CASE ~(MintConfirmed(s) \/ Offer(s) \/ MintFailed(s))
    <3>1. claim' = claim
      BY <1>3, <2>2, <2>5 DEF Session, Request, LookForOrphan, Rebind, Reserve, Cancel, Admit,
         Start, Prepare, Journal, Fail, Forward, MintUnclear, Release, Released, Reserved
    <3> QED BY <2>2, <3>1
  <2> QED BY <2>3, <2>4, <2>5
<1> QED BY <1>2, <1>3

LEMMA JournalStep ==
  ASSUME ClaimInv, NEW s \in Sessions, Session(s)
  PROVE  JournalExists'
<1>1. claim \in Claims /\ sess \in [Sessions -> SessionStates] /\ s # None
  <2>1. s # None
    BY DEF Sessions, None
  <2> QED BY <2>1 DEF ClaimInv, TypeOK, Claims, SessionStates
<1>2. claim'.status = "minting" => claim'.signed # None
  <2>1. CASE Forward(s)
    BY <1>1, <2>1 DEF Forward, ClaimInv, JournalExists, At, Claims
  <2>2. CASE ~Forward(s)
    <3>1. claim' = claim \/ claim'.status # "minting"
      <4>1. CASE Rebind(s) \/ Reserve(s) \/ Journal(s)
        BY <1>1, <4>1 DEF Rebind, Reserve, Journal, Reserved, Claims
      <4>2. CASE Cancel(s) \/ Admit(s) \/ Fail(s)
        BY <1>1, <4>2 DEF Cancel, Admit, Fail, Release, Released, Claims
      <4>3. CASE MintConfirmed(s) \/ MintFailed(s) \/ Offer(s)
        BY <1>1, <4>3 DEF MintConfirmed, MintFailed, Offer, RecordMinted, Restored, Claims
      <4>4. CASE Request(s) \/ LookForOrphan(s) \/ Start(s) \/ Prepare(s) \/ Submit(s) \/ MintUnclear(s)
        BY <4>4 DEF Request, LookForOrphan, Start, Prepare, Submit, MintUnclear
      <4> QED BY <2>2, <4>1, <4>2, <4>3, <4>4 DEF Session
    <3> QED BY <3>1 DEF ClaimInv, JournalExists
  <2> QED BY <2>1, <2>2
<1>3. ASSUME NEW t \in Sessions, sess'[t].pc \in {"prepared", "journaled"}
      PROVE  sess'[t].tx # None
  <2>1. CASE t # s
    <3>1. sess'[t] = sess[t]
      BY <2>1, SessionStep DEF ClaimInv
    <3> QED BY <1>3, <3>1 DEF ClaimInv, JournalExists
  <2>2. CASE t = s
    <3>1. CASE Start(s) \/ Prepare(s)
      BY <1>1, <1>3, <2>2, <3>1, Stages DEF ClaimInv
    <3>2. CASE ~(Start(s) \/ Prepare(s))
      <4>1. CASE LookForOrphan(s) \/ Cancel(s)
        BY <1>3, <2>2, <4>1, Stages DEF ClaimInv, JournalExists
      <4>2. CASE Journal(s)
        BY <1>1, <2>2, <4>2 DEF Journal, Goto, At, ClaimInv, JournalExists, SessionStates
      <4>3. CASE ~(LookForOrphan(s) \/ Cancel(s) \/ Journal(s))
        <5>1. \E pc \in {"asked", "reserving", "committed", "admitted", "forwarded", "submitted",
                         "minted", "ended"} : Goto(s, pc)
          BY <3>2, <4>3 DEF Session, Request, Rebind, Reserve, Admit, Fail, Forward, Submit,
             MintConfirmed, MintFailed, MintUnclear, Offer, End
        <5> QED BY <1>1, <1>3, <2>2, <5>1 DEF Goto, SessionStates
      <4> QED BY <4>1, <4>2, <4>3
    <3> QED BY <3>1, <3>2
  <2> QED BY <2>1, <2>2
<1> QED BY <1>2, <1>3 DEF JournalExists

LEMMA OfferStep ==
  ASSUME ClaimInv, NEW s \in Sessions, Session(s)
  PROVE  OfferAfterMint'
<1> SUFFICES ASSUME NEW t \in Sessions, sess'[t].pc = "minted"
             PROVE  claim'.status \in {"minted", "offered"}
  BY DEF OfferAfterMint, At
<1>1. claim \in Claims /\ sess \in [Sessions -> SessionStates]
  BY DEF ClaimInv, TypeOK, Claims, SessionStates
<1>2. CASE t # s
  <2>1. sess'[t] = sess[t]
    BY <1>2, SessionStep DEF ClaimInv
  <2> QED BY <1>2, <2>1, NobodyElseMovesIt
<1>3. CASE t = s
  <2>1. CASE LookForOrphan(s) \/ Cancel(s) \/ Start(s) \/ Prepare(s)
    BY <1>3, <2>1, Stages DEF Cancel, At, ClaimInv
  <2>2. CASE MintConfirmed(s)
    BY <1>1, <1>3, <2>2 DEF MintConfirmed, RecordMinted, End, Goto, Claims, SessionStates
  <2>3. CASE ~(LookForOrphan(s) \/ Cancel(s) \/ Start(s) \/ Prepare(s) \/ MintConfirmed(s))
    <3>1. \E pc \in {"asked", "reserving", "committed", "admitted", "journaled", "forwarded",
                     "submitted", "ended"} : Goto(s, pc)
      BY <2>3 DEF Session, Request, Rebind, Reserve, Admit, Journal, Fail, Forward, Submit,
         MintFailed, MintUnclear, Offer, End
    <3> QED BY <1>1, <1>3, <3>1 DEF Goto, SessionStates
  <2> QED BY <2>1, <2>2, <2>3
<1> QED BY <1>2, <1>3

LEMMA OrphanStep ==
  ASSUME ClaimInv, NEW s \in Sessions, Session(s)
  PROVE  OrphanIsOver'
<1>1. claim \in Claims /\ sess \in [Sessions -> SessionStates] /\ s # None
  <2>1. s # None
    BY DEF Sessions, None
  <2> QED BY <2>1 DEF ClaimInv, TypeOK, Claims, SessionStates
<1>2. /\ sess[s].pc # "ended" /\ sess'[s].pc # "new"
      /\ \A t \in Sessions \ {s} : sess'[t] = sess[t]
      /\ cancelled' \in {cancelled, cancelled \cup {s}}
  BY SessionStep DEF ClaimInv
<1>3. ASSUME NEW t \in Sessions, sess'[t].pc \in Admitted
      PROVE  t \notin cancelled'
  <2>1. CASE t # s
    BY <1>2, <1>3, <2>1 DEF ClaimInv, OrphanIsOver
  <2>2. CASE t = s
    <3>1. CASE Cancel(s)
      <4>1. sess[s].pc \in {"asked", "rebinding", "reserving", "committed"} \/ sess'[s].pc = "ended"
        BY <1>1, <3>1 DEF Cancel, End, Goto, SessionStates
      <4>2. sess' = sess \/ sess'[s].pc = "ended"
        BY <3>1, Stages DEF ClaimInv
      <4> QED BY <1>3, <2>2, <4>1, <4>2 DEF Admitted
    <3>2. CASE Admit(s)
      BY <1>1, <1>3, <2>2, <3>2 DEF Admit, End, Goto, Admitted, SessionStates
    <3>3. CASE ~(Cancel(s) \/ Admit(s))
      <4>1. cancelled' = cancelled
        BY <3>3 DEF Session, Request, LookForOrphan, Rebind, Reserve, Start, Prepare, Journal, Fail,
           Forward, Submit, MintConfirmed, MintFailed, MintUnclear, Offer, End, Goto
      <4>2. sess[s].pc \in Admitted
        <5>1. CASE LookForOrphan(s)
          BY <1>3, <2>2, <5>1, Stages DEF Admitted, ClaimInv
        <5>2. CASE Request(s) \/ Rebind(s) \/ Reserve(s)
          BY <1>1, <1>3, <2>2, <5>2 DEF Request, Rebind, Reserve, End, Goto, Admitted, SessionStates
        <5>3. CASE ~(LookForOrphan(s) \/ Request(s) \/ Rebind(s) \/ Reserve(s))
          BY <3>3, <5>3 DEF Session, Start, Prepare, Journal, Fail, Forward, Submit, MintConfirmed,
             MintFailed, MintUnclear, Offer, At, Admitted
        <5> QED BY <5>1, <5>2, <5>3
      <4> QED BY <2>2, <4>1, <4>2 DEF ClaimInv, OrphanIsOver
    <3> QED BY <3>1, <3>2, <3>3
  <2> QED BY <2>1, <2>2
<1>4. ASSUME NEW t \in Sessions, ~Live(t), ~At(t, "new")
      PROVE  sess'[t].pc # "new" /\ (sess'[t].pc = "ended" \/ t \in cancelled')
  BY <1>2, <1>4 DEF Live, At
<1>5. claim.session # None => claim.session \in Sessions /\ ~At(claim.session, "new")
  BY <1>1 DEF ClaimInv, OrphanIsOver, Claims
<1>6. ASSUME NEW t \in Sessions, sess'[t].pc = "rebinding", sess'[t].seen # None
      PROVE  /\ sess'[sess'[t].seen].pc # "new"
             /\ sess'[sess'[t].seen].pc = "ended" \/ sess'[t].seen \in cancelled'
  <2>1. /\ sess'[t].seen \in Sessions
        /\ ~Live(sess'[t].seen) /\ ~At(sess'[t].seen, "new")
    <3>1. CASE t = s /\ LookForOrphan(s)
      BY <1>1, <1>5, <1>6, <3>1 DEF LookForOrphan, At, SessionStates
    <3>2. CASE ~(t = s /\ LookForOrphan(s))
      <4>1. sess'[t] = sess[t]
        <5>1. CASE t # s
          BY <1>2, <5>1
        <5>2. CASE t = s
          <6>1. CASE Start(s) \/ Prepare(s)
            BY <1>6, <5>2, <6>1, Stages DEF ClaimInv
          <6>2. CASE Cancel(s)
            BY <1>6, <5>2, <6>2, Stages DEF ClaimInv
          <6>3. CASE ~(Start(s) \/ Prepare(s) \/ Cancel(s))
            <7>1. \E pc \in {"asked", "reserving", "committed", "admitted", "journaled",
                             "forwarded", "submitted", "minted", "ended"} : Goto(s, pc)
              BY <3>2, <5>2, <6>3 DEF Session, Request, Rebind, Reserve, Admit, Journal, Fail,
                 Forward, Submit, MintConfirmed, MintFailed, MintUnclear, Offer, End
            <7> QED BY <1>1, <1>6, <5>2, <7>1 DEF Goto, At, SessionStates
          <6> QED BY <6>1, <6>2, <6>3
        <5> QED BY <5>1, <5>2
      <4> QED BY <1>1, <1>6, <4>1 DEF ClaimInv, OrphanIsOver, At, SessionStates
    <3> QED BY <3>1, <3>2
  <2> QED BY <1>4, <1>6, <2>1
<1>7. claim'.session # None => sess'[claim'.session].pc # "new"
  <2>1. claim'.session \in {claim.session, s}
    <3>1. CASE Rebind(s) \/ Reserve(s) \/ Journal(s) \/ Forward(s)
      BY <1>1, <3>1 DEF Rebind, Reserve, Journal, Forward, Claims
    <3>2. CASE Cancel(s) \/ Admit(s) \/ Fail(s)
      BY <1>1, <3>2 DEF Cancel, Admit, Fail, Release, Released, Claims
    <3>3. CASE MintConfirmed(s) \/ MintFailed(s) \/ Offer(s)
      BY <1>1, <3>3 DEF MintConfirmed, MintFailed, Offer, RecordMinted, Restored, Claims
    <3>4. CASE Request(s) \/ LookForOrphan(s) \/ Start(s) \/ Prepare(s) \/ Submit(s) \/ MintUnclear(s)
      BY <3>4 DEF Request, LookForOrphan, Start, Prepare, Submit, MintUnclear
    <3> QED BY <3>1, <3>2, <3>3, <3>4 DEF Session
  <2> QED BY <1>2, <1>5, <2>1 DEF At
<1> QED BY <1>3, <1>6, <1>7 DEF OrphanIsOver, Live, At

LEMMA SignStep ==
  ASSUME ClaimInv, NEW s \in Sessions, Session(s)
  PROVE  SignsOnce'
<1> SUFFICES ASSUME NEW t \in Sessions, sess'[t].pc \in BeforeMint
             PROVE  mint'[t] = "unsigned"
  BY DEF SignsOnce
<1>1. sess \in [Sessions -> SessionStates] /\ mint \in [Sessions -> TxStates]
  BY DEF ClaimInv, TypeOK, SessionStates
<1>2. CASE Prepare(s)
  <2>1. t # s
    BY <1>2, Stages DEF BeforeMint, ClaimInv
  <2>2. sess'[t] = sess[t]
    BY <2>1, SessionStep DEF ClaimInv
  <2> QED BY <1>1, <1>2, <2>1, <2>2 DEF Prepare, ClaimInv, SignsOnce
<1>3. CASE ~Prepare(s)
  <2>1. mint[t] = "unsigned" => mint'[t] = "unsigned"
    <3>1. CASE Submit(s)
      BY <1>1, <3>1 DEF Submit, Sent
    <3>2. CASE ~Submit(s)
      <4>1. mint' = mint
        BY <1>3, <3>2 DEF Session, Request, LookForOrphan, Rebind, Reserve, Cancel, Admit, Start,
           Journal, Fail, Forward, MintConfirmed, MintFailed, MintUnclear, Offer
      <4> QED BY <4>1
    <3> QED BY <3>1, <3>2
  <2>2. sess[t].pc \in BeforeMint
    <3>1. CASE t # s
      <4>1. sess'[t] = sess[t]
        BY <3>1, SessionStep DEF ClaimInv
      <4> QED BY <4>1
    <3>2. CASE t = s
      <4>1. CASE Request(s) \/ LookForOrphan(s) \/ Rebind(s) \/ Reserve(s) \/ Cancel(s) \/ Admit(s)
                 \/ Start(s)
        BY <3>2, <4>1 DEF Request, LookForOrphan, Rebind, Reserve, Cancel, Admit, Start, At, BeforeMint
      <4>2. CASE Journal(s) \/ Fail(s) \/ Forward(s) \/ Submit(s) \/ MintConfirmed(s)
                 \/ MintFailed(s) \/ MintUnclear(s) \/ Offer(s)
        <5>1. \E pc \in {"journaled", "forwarded", "submitted", "minted", "ended"} : Goto(s, pc)
          BY <4>2 DEF Journal, Fail, Forward, Submit, MintConfirmed, MintFailed, MintUnclear, Offer, End
        <5> QED BY <1>1, <3>2, <5>1 DEF Goto, BeforeMint, SessionStates
      <4> QED BY <1>3, <4>1, <4>2 DEF Session
    <3> QED BY <3>1, <3>2
  <2> QED BY <2>1, <2>2 DEF ClaimInv, SignsOnce
<1> QED BY <1>2, <1>3

LEMMA SweepStep ==
  ASSUME ClaimInv, NEW s \in Sessions, Session(s)
  PROVE  SweepIsAlone'
<1>1. phase = "up"
  <2>1. CASE Request(s)
    BY <2>1 DEF Request
  <2>2. CASE ~Request(s)
    <3>1. sess[s].pc \notin {"new", "ended"}
      BY <2>2 DEF Session, LookForOrphan, Rebind, Reserve, Cancel, Admit, Start, Prepare, Journal,
         Fail, Forward, Submit, MintConfirmed, MintFailed, MintUnclear, Offer, At
    <3> QED BY <3>1 DEF ClaimInv, TypeOK, SweepIsAlone
  <2> QED BY <2>1, <2>2
<1> QED BY <1>1, SessionStep DEF ClaimInv, SweepIsAlone

(* With no session under way, the sweep's claim is not another's. *)
LEMMA RecoveryStep ==
  ASSUME ClaimInv, Recovery
  PROVE  ClaimInv' /\ (TrueLookups /\ SentIsClaimed => SentIsClaimed')
<1>1. /\ claim \in Claims /\ mint \in [Sessions -> TxStates]
      /\ phase = "recovering" /\ UNCHANGED memory
  BY DEF ClaimInv, TypeOK, Claims, Recovery, RecoverLanded, RecoverFailed, RecoverExpired,
     RecoverReplay, RecoverUnclear, RecoverDone, Recovering
<1>2. /\ \A s \in Sessions : sess[s].pc \in {"new", "ended"}
      /\ claim.status = "minting" => claim.signed \in Sessions
  BY <1>1 DEF ClaimInv, SweepIsAlone, JournalExists, Claims
<1>3. TypeOK'
  <2>1. Next
    BY DEF Next
  <2> QED BY <2>1, TypeStep DEF ClaimInv
<1>4. HolderOwnsClaim' /\ OfferAfterMint' /\ SweepIsAlone'
  BY <1>1, <1>2 DEF HolderOwnsClaim, OfferAfterMint, SweepIsAlone, At, memory
<1>5. \/ claim' = claim
      \/ claim' \in {[claim EXCEPT !.status = "minted"], [claim EXCEPT !.status = "offered"], Restored}
  BY DEF Recovery, RecoverLanded, RecoverFailed, RecoverExpired, RecoverReplay, RecoverUnclear,
     RecoverDone, RecordMinted
<1>6. JournalExists'
  <2>1. claim'.status = "minting" => claim'.signed # None
    BY <1>1, <1>5 DEF ClaimInv, JournalExists, Restored, Claims
  <2> QED BY <1>1, <1>2, <2>1 DEF JournalExists, memory
<1>7. OrphanIsOver'
  <2>1. claim'.session = claim.session
    BY <1>1, <1>5 DEF Restored, Claims
  <2> QED BY <1>1, <2>1 DEF ClaimInv, OrphanIsOver, Live, At, memory
<1>8. SignsOnce' /\ (TrueLookups /\ SentIsClaimed => SentIsClaimed')
  <2>1. CASE RecoverReplay
    <3>1. /\ claim.signed \in Sessions /\ mint' = [mint EXCEPT ![claim.signed] = "sent"]
          /\ mint[claim.signed] = "signed" /\ claim' = claim /\ claim.status = "minting"
      BY <1>2, <2>1 DEF RecoverReplay, Recovering, Sent
    <3>2. SentIsClaimed => SentIsClaimed'
      BY <1>1, <3>1 DEF SentIsClaimed
    <3>3. SignsOnce'
      BY <1>1, <3>1 DEF ClaimInv, SignsOnce, memory
    <3> QED BY <3>2, <3>3
  <2>2. CASE ~RecoverReplay
    <3>1. mint' = mint
      BY <2>2 DEF Recovery, RecoverLanded, RecoverFailed, RecoverExpired, RecoverUnclear, RecoverDone
    <3>2. SignsOnce'
      BY <1>1, <3>1 DEF ClaimInv, SignsOnce, memory
    <3>3. CASE RecoverFailed \/ RecoverExpired
      <4>1. TrueLookups => claim.status = "minting" /\ mint[claim.signed] \in {"failed", "expired"}
        BY <3>3 DEF RecoverFailed, RecoverExpired, Recovering, LooksAbsent, TrueLookups
      <4>2. TrueLookups /\ SentIsClaimed => \A n \in Sessions : mint[n] \notin {"sent", "landed"}
        BY <1>2, <4>1 DEF SentIsClaimed
      <4> QED BY <3>1, <3>2, <4>2 DEF SentIsClaimed
    <3>4. CASE RecoverLanded \/ RecoverUnclear \/ RecoverDone
      <4>1. claim'.signed = claim.signed
        BY <1>1, <3>4 DEF RecoverLanded, RecoverUnclear, RecoverDone, RecordMinted, Claims
      <4>2. claim'.status \in {claim.status, "minted", "offered"}
        BY <1>1, <3>4 DEF RecoverLanded, RecoverUnclear, RecoverDone, RecordMinted, Claims
      <4> QED BY <3>1, <3>2, <4>1, <4>2 DEF SentIsClaimed
    <3> QED BY <2>2, <3>3, <3>4 DEF Recovery
  <2> QED BY <2>1, <2>2
<1> QED BY <1>3, <1>4, <1>6, <1>7, <1>8 DEF ClaimInv

LEMMA CrashStep ==
  ASSUME ClaimInv, Crash
  PROVE  ClaimInv' /\ (SentIsClaimed => SentIsClaimed')
<1>1. sess \in [Sessions -> SessionStates] /\ claim \in Claims
  BY DEF ClaimInv, TypeOK, SessionStates, Claims
<1>2. /\ \A s \in Sessions : sess'[s].pc \in {"new", "ended"} /\ (sess'[s].pc = "new" <=> sess[s].pc = "new")
      /\ UNCHANGED <<claim, mint>>
  BY <1>1 DEF Crash, At, SessionStates
<1>3. TypeOK'
  <2>1. Next
    BY DEF Next
  <2> QED BY <2>1, TypeStep DEF ClaimInv
<1>4. HolderOwnsClaim' /\ OfferAfterMint' /\ SweepIsAlone' /\ JournalExists' /\ (SentIsClaimed => SentIsClaimed')
  BY <1>2 DEF ClaimInv, HolderOwnsClaim, OfferAfterMint, SweepIsAlone, SentIsClaimed, JournalExists, At
<1>5. OrphanIsOver'
  <2>1. claim.session # None => claim.session \in Sessions
    BY <1>1 DEF Claims
  <2> QED BY <1>2, <2>1 DEF ClaimInv, OrphanIsOver, Admitted, At
<1>6. SignsOnce'
  BY <1>2 DEF ClaimInv, SignsOnce, BeforeMint
<1> QED BY <1>3, <1>4, <1>5, <1>6 DEF ClaimInv

LEMMA LedgerMintStep ==
  ASSUME ClaimInv, NEW n \in Sessions, LedgerMint(n)
  PROVE  ClaimInv' /\ (SentIsClaimed => SentIsClaimed')
<1>1. /\ mint \in [Sessions -> TxStates] /\ UNCHANGED <<claim, sess, cancelled, phase>>
      /\ \E st \in {"landed", "failed", "expired"} : mint' = [mint EXCEPT ![n] = st]
      /\ mint'[n] = "landed" => mint[n] = "sent"
      /\ mint[n] # "unsigned"
  BY DEF ClaimInv, TypeOK, LedgerMint, memory, TxStates
<1>2. TypeOK'
  <2>1. Next
    BY DEF Next
  <2> QED BY <2>1, TypeStep DEF ClaimInv
<1>3. SignsOnce' /\ (SentIsClaimed => SentIsClaimed')
  BY <1>1 DEF ClaimInv, SentIsClaimed, SignsOnce
<1>4. HolderOwnsClaim' /\ OfferAfterMint' /\ SweepIsAlone' /\ JournalExists' /\ OrphanIsOver'
  BY <1>1 DEF ClaimInv, HolderOwnsClaim, OfferAfterMint, SweepIsAlone, JournalExists, OrphanIsOver,
     Live, At, Reserved
<1> QED BY <1>2, <1>3, <1>4 DEF ClaimInv

LEMMA ClaimStep ==
  ASSUME ClaimInv, [Next]_vars
  PROVE  ClaimInv' /\ (TrueLookups /\ SentIsClaimed => SentIsClaimed')
<1>1. TypeOK'
  BY TypeStep DEF ClaimInv
<1>2. ASSUME NEW s \in Sessions, Session(s)
      PROVE  ClaimInv' /\ (SentIsClaimed => SentIsClaimed')
  BY <1>1, <1>2, HolderStep, SentStep, JournalStep, OrphanStep, OfferStep, SweepStep, SignStep DEF ClaimInv
<1>3. CASE UNCHANGED mintVars
  BY <1>1, <1>3 DEF mintVars, memory, ClaimInv, HolderOwnsClaim, SentIsClaimed, JournalExists,
     OrphanIsOver, OfferAfterMint, SweepIsAlone, SignsOnce, Live, At, Reserved
<1>4. ASSUME NEW b \in Burns, LedgerBurn(b)
      PROVE  UNCHANGED mintVars
  BY <1>4 DEF LedgerBurn
<1> QED BY <1>2, <1>3, <1>4, RecoveryStep, CrashStep, LedgerMintStep, WorkerStepsAside DEF Next, vars

LEMMA ClaimInvariant == Spec => []ClaimInv
<1>1. Init => ClaimInv
  <2>1. Init => TypeOK
    BY SponsoredAssumption DEF Init, TypeOK, TxStates, None
  <2>2. Init => HolderOwnsClaim /\ JournalExists /\ OfferAfterMint /\ SweepIsAlone /\ SignsOnce
    BY DEF Init, HolderOwnsClaim, JournalExists, OfferAfterMint, SweepIsAlone, SignsOnce, At
  <2>3. Init => OrphanIsOver
    BY DEF Init, OrphanIsOver, Admitted, At
  <2> QED BY <2>1, <2>2, <2>3 DEF ClaimInv
<1>2. ClaimInv /\ [Next]_vars => ClaimInv'
  BY ClaimStep
<1> QED BY <1>1, <1>2, PTL DEF Spec

(* A session past its start has the wallet's claim to itself: neither another
   session's rebind nor a cancel's release takes it. *)
THEOREM PromiseHasOneHolder == Spec => []HolderOwnsClaim
<1>1. ClaimInv => HolderOwnsClaim
  BY DEF ClaimInv
<1> QED BY <1>1, ClaimInvariant, PTL

(* A wallet's free mint lands at most once, whatever fails, restarts or is
   recovered, if the lookup at its expiry does not fail. *)
THEOREM NeverTwoFreeMints ==
  ASSUME TrueLookups
  PROVE  Spec => []OneFreeMint
<1>1. Init => SentIsClaimed
  BY DEF Init, SentIsClaimed
<1>2. ClaimInv /\ SentIsClaimed /\ [Next]_vars => SentIsClaimed'
  BY ClaimStep
<1>3. SentIsClaimed => OneFreeMint
  BY DEF SentIsClaimed, OneFreeMint
<1> QED BY <1>1, <1>2, <1>3, ClaimInvariant, PTL DEF Spec

-----------------------------------------------------------------------------
(* The debt.                                                               *)

LEMMA LandedMintStays ==
  ASSUME ClaimInv, [Next]_vars, NEW n \in Sessions, mint[n] = "landed"
  PROVE  mint'[n] = "landed"
<1>1. mint \in [Sessions -> TxStates]
  BY DEF ClaimInv, TypeOK
<1>2. ASSUME NEW s \in Sessions, Session(s)
      PROVE  mint'[n] = "landed"
  <2>1. CASE Prepare(s)
    <3>1. mint[s] = "unsigned"
      BY <2>1 DEF Prepare, ClaimInv, SignsOnce, BeforeMint, At
    <3> QED BY <1>1, <2>1, <3>1 DEF Prepare
  <2>2. CASE Submit(s)
    BY <1>1, <2>2 DEF Submit, Sent
  <2>3. CASE ~(Prepare(s) \/ Submit(s))
    <3>1. mint' = mint
      BY <1>2, <2>3 DEF Session, Request, LookForOrphan, Rebind, Reserve, Cancel, Admit, Start,
         Journal, Fail, Forward, MintConfirmed, MintFailed, MintUnclear, Offer
    <3> QED BY <3>1
  <2> QED BY <2>1, <2>2, <2>3
<1>3. CASE Recovery
  <2>1. mint' = mint \/ mint' = Sent(mint, claim.signed)
    BY <1>3 DEF Recovery, RecoverLanded, RecoverFailed, RecoverExpired, RecoverReplay, RecoverUnclear,
       RecoverDone
  <2> QED BY <1>1, <2>1 DEF Sent
<1>4. ASSUME NEW m \in Sessions, LedgerMint(m)
      PROVE  mint'[n] = "landed"
  BY <1>1, <1>4 DEF LedgerMint
<1>5. ASSUME NEW w \in Workers, Worker(w)
      PROVE  mint' = mint
  BY <1>5, WorkerStepsAside DEF mintVars
<1> QED BY <1>2, <1>3, <1>4, <1>5 DEF Next, LedgerBurn, Crash, vars, mintVars

(* The debt arises with its mint. *)
LEMMA DebtArises ==
  ASSUME ClaimInv, (\E s \in Sessions : Session(s)) \/ Recovery
  PROVE  /\ UNCHANGED burnVars
         /\ \/ burn' = burn
            \/ /\ burn.status = "none" /\ burn' = [burn EXCEPT !.status = "pending"]
               /\ \E n \in Sessions : mint[n] = "landed"
<1>1. ASSUME NEW s \in Sessions, MintConfirmed(s)
      PROVE  sess[s].tx \in Sessions
  <2>1. claim = [status |-> "minting", session |-> s, signed |-> sess[s].tx]
    BY <1>1 DEF MintConfirmed, ClaimInv, HolderOwnsClaim, At
  <2>2. claim \in Claims
    BY DEF ClaimInv, TypeOK, Claims
  <2> QED BY <2>1, <2>2 DEF ClaimInv, JournalExists, Claims
<1>2. ASSUME NEW s \in Sessions, MintConfirmed(s)
      PROVE  /\ UNCHANGED burnVars
             /\ \/ burn' = burn
                \/ /\ burn.status = "none" /\ burn' = [burn EXCEPT !.status = "pending"]
                   /\ \E n \in Sessions : mint[n] = "landed"
  BY <1>1, <1>2 DEF MintConfirmed, RecordMinted, burnVars
<1>3. ASSUME NEW s \in Sessions, Session(s), ~MintConfirmed(s)
      PROVE  UNCHANGED <<burn, burnVars>>
  BY <1>3 DEF Session, Request, LookForOrphan, Rebind, Reserve, Cancel, Admit, Start, Prepare,
     Journal, Fail, Forward, Submit, MintFailed, MintUnclear, Offer
<1>4. CASE RecoverLanded
  <2>1. claim.signed \in Sessions /\ mint[claim.signed] = "landed"
    BY <1>4 DEF RecoverLanded, Recovering, ClaimInv, TypeOK, JournalExists
  <2> QED BY <1>4, <2>1 DEF RecoverLanded, RecordMinted
<1>5. CASE Recovery /\ ~RecoverLanded
  BY <1>5 DEF Recovery, RecoverFailed, RecoverExpired, RecoverReplay, RecoverUnclear, RecoverDone
<1> QED BY <1>2, <1>3, <1>4, <1>5

(* A worker is finished with the debt: it is burned with its burn landed, and
   its journal emptied only when nothing signed can land any more. *)
LEMMA FinishStep ==
  ASSUME ClaimInv, BurnInv, NEW w \in Workers,
         NEW st \in {"pending", "indeterminate", "burned"}, NEW r \in BOOLEAN,
         Finish(w, st, r), UNCHANGED <<mint, burnTx>>,
         Leases(w) /\ st = "burned" => \E b \in Burns : burnTx[b] = "landed",
         Leases(w) /\ r => \A b \in Burns : burnTx[b] \notin {"signed", "sent", "landed"}
  PROVE  BurnInv'
<1>1. burn \in Debts /\ worker \in [Workers -> WorkerStates]
  BY DEF ClaimInv, TypeOK, Debts, WorkerStates
<1>2. /\ worker'[w].pc = "idle"
      /\ \A v \in Workers \ {w} : worker'[v] = worker[v]
  BY <1>1 DEF Finish
<1>3. CASE Leases(w)
  <2>1. /\ burn'.status = st /\ burn'.signed = (IF r THEN None ELSE burn.signed) /\ burn.status # "none"
        /\ \A v \in Workers : ~(burn'.status = "submitting" /\ burn'.lease = v)
    BY <1>1, <1>3 DEF Finish, Leases
  <2>2. SignedIsJournaled' /\ DebtHasMint' /\ BurnedHasLanded'
    BY <1>3, <2>1 DEF BurnInv, SignedIsJournaled, DebtHasMint, BurnedHasLanded
  <2>3. WorkerKnows'
    BY <1>2, <2>1 DEF BurnInv, WorkerKnows, Leases
  <2> QED BY <2>2, <2>3 DEF BurnInv
<1>4. CASE ~Leases(w)
  <2>1. burn' = burn
    BY <1>4 DEF Finish
  <2>2. SignedIsJournaled' /\ DebtHasMint' /\ BurnedHasLanded'
    BY <2>1 DEF BurnInv, SignedIsJournaled, DebtHasMint, BurnedHasLanded
  <2>3. WorkerKnows'
    BY <1>2, <2>1 DEF BurnInv, WorkerKnows, Leases
  <2> QED BY <2>2, <2>3 DEF BurnInv
<1> QED BY <1>3, <1>4

LEMMA WorkerStep ==
  ASSUME ClaimInv, BurnInv, NEW w \in Workers, Worker(w)
  PROVE  BurnInv'
<1>1. /\ burn \in Debts /\ worker \in [Workers -> WorkerStates] /\ burnTx \in [Burns -> TxStates]
  BY DEF ClaimInv, TypeOK, Debts, WorkerStates
<1>2. mint' = mint
  BY WorkerStepsAside DEF mintVars
<1>3. /\ worker[w].pc \in {"saved", "sent", "absent", "expired"} => worker[w].signed \in Burns
      /\ Leases(w) /\ worker[w].pc \notin {"idle", "leased"} => burn.signed = worker[w].signed
  BY <1>1 DEF BurnInv, WorkerKnows, WorkerStates
<1>4. CASE Acquire(w) \/ Reclaim(w) \/ LeaseLapses(w)
  <2>1. /\ Lease(w) /\ burn.status \in {"pending", "indeterminate", "submitting"}
    BY <1>4 DEF Acquire, Reclaim, LeaseLapses
  <2>2. /\ burn'.status = "submitting" /\ burn'.lease = w /\ burn'.signed = burn.signed /\ burnTx' = burnTx
        /\ worker'[w].pc \in {"leased", "reconciling"} /\ worker'[w].signed = burn.signed
        /\ \A v \in Workers \ {w} : worker'[v] = worker[v]
    BY <1>1, <2>1 DEF Lease, Debts, WorkerStates
  <2>3. SignedIsJournaled' /\ DebtHasMint' /\ BurnedHasLanded'
    BY <1>2, <2>1, <2>2 DEF BurnInv, SignedIsJournaled, DebtHasMint, BurnedHasLanded
  <2>4. WorkerKnows'
    BY <2>2 DEF BurnInv, WorkerKnows, Leases
  <2> QED BY <2>3, <2>4 DEF BurnInv
<1>5. CASE PrepareBurn(w)
  <2>1. CASE Leases(w) /\ burn.signed = None
    <3>1. PICK b \in Burns : /\ burnTx[b] = "unsigned" /\ burnTx' = [burnTx EXCEPT ![b] = "signed"]
                             /\ burn' = [burn EXCEPT !.signed = b]
                             /\ worker' = [worker EXCEPT ![w] = [pc |-> "saved", signed |-> b]]
      BY <1>5, <2>1 DEF PrepareBurn
    <3>2. /\ burn'.status = "submitting" /\ burn'.lease = w /\ burn'.signed = b /\ b # None
          /\ worker'[w].pc = "saved" /\ worker'[w].signed = b
          /\ \A v \in Workers \ {w} : worker'[v] = worker[v]
          /\ \A c \in Burns \ {b} : burnTx'[c] = burnTx[c]
      <4>1. b # None
        BY DEF Burns, None
      <4> QED BY <1>1, <2>1, <3>1, <4>1 DEF Leases, Debts, WorkerStates
    <3>3. \A c \in Burns : burnTx[c] \notin {"signed", "sent", "landed"}
      <4>1. \A c \in Burns : c # None
        BY DEF Burns, None
      <4> QED BY <2>1, <4>1 DEF BurnInv, SignedIsJournaled
    <3>4. SignedIsJournaled'
      BY <3>2, <3>3 DEF SignedIsJournaled
    <3>5. DebtHasMint' /\ BurnedHasLanded'
      BY <1>2, <2>1, <3>2 DEF BurnInv, DebtHasMint, BurnedHasLanded, Leases
    <3>6. WorkerKnows'
      BY <1>1, <3>1, <3>2 DEF BurnInv, WorkerKnows, Leases, WorkerStates
    <3> QED BY <3>4, <3>5, <3>6 DEF BurnInv
  <2>2. CASE ~(Leases(w) /\ burn.signed = None)
    <3>1. /\ UNCHANGED <<burn, burnTx>> /\ worker'[w].pc = "idle"
          /\ \A v \in Workers \ {w} : worker'[v] = worker[v]
      BY <1>1, <1>5, <2>2 DEF PrepareBurn, WorkerStates
    <3>2. SignedIsJournaled' /\ DebtHasMint' /\ BurnedHasLanded'
      BY <1>2, <3>1 DEF BurnInv, SignedIsJournaled, DebtHasMint, BurnedHasLanded
    <3>3. WorkerKnows'
      BY <3>1 DEF BurnInv, WorkerKnows, Leases
    <3> QED BY <3>2, <3>3 DEF BurnInv
  <2> QED BY <2>1, <2>2
<1>6. CASE SubmitBurn(w)
  <2>1. /\ worker'[w].pc = "sent" /\ worker'[w].signed = worker[w].signed /\ worker[w].pc = "saved"
        /\ \A v \in Workers \ {w} : worker'[v] = worker[v]
        /\ burn' = burn
    BY <1>1, <1>6 DEF SubmitBurn, WorkerStates
  <2>2. \A b \in Burns : burnTx'[b] = burnTx[b] \/ (burnTx[b] = "signed" /\ burnTx'[b] = "sent")
    BY <1>1, <1>6 DEF SubmitBurn, Sent
  <2>3. SignedIsJournaled' /\ DebtHasMint'
    BY <1>2, <2>1, <2>2 DEF BurnInv, SignedIsJournaled, DebtHasMint
  <2>4. BurnedHasLanded'
    BY <2>1, <2>2 DEF BurnInv, BurnedHasLanded
  <2>5. WorkerKnows'
    BY <1>1, <1>3, <2>1, <2>2 DEF BurnInv, WorkerKnows, Leases, WorkerStates
  <2> QED BY <2>3, <2>4, <2>5 DEF BurnInv
<1>7. CASE BurnConfirmed(w)
  BY <1>2, <1>3, <1>7, FinishStep DEF BurnConfirmed
<1>8. CASE BurnFailed(w)
  <2>1. worker[w].pc = "sent" /\ burnTx[worker[w].signed] = "failed"
    BY <1>8 DEF BurnFailed
  <2>2. Leases(w) => \A b \in Burns : burnTx[b] \notin {"signed", "sent", "landed"}
    BY <1>3, <2>1 DEF BurnInv, SignedIsJournaled
  <2> QED BY <1>2, <1>8, <2>2, FinishStep DEF BurnFailed
<1>9. CASE PrepareBurnFails(w) \/ BurnUnclear(w) \/ Undecided(w)
  <2>1. PICK st \in {"pending", "indeterminate"} : Finish(w, st, FALSE) /\ UNCHANGED burnTx
    BY <1>9 DEF PrepareBurnFails, BurnUnclear, Undecided
  <2> QED BY <1>2, <2>1, FinishStep
<1>10. CASE Scan(w) \/ ProveExpiry(w)
  <2>1. CASE \E pc \in {"absent", "expired"} : worker' = [worker EXCEPT ![w].pc = pc] /\ UNCHANGED burn
    <3>1. /\ worker[w].pc \in {"reconciling", "absent"} /\ worker[w].signed # None /\ burnTx' = burnTx
          /\ worker'[w].pc = "expired" => burnTx[worker[w].signed] \in {"landed", "failed", "expired"}
      BY <1>1, <1>3, <1>10, <2>1 DEF Scan, ProveExpiry, BurnInv, WorkerKnows, Finish, WorkerStates
    <3>2. /\ worker'[w].signed = worker[w].signed /\ worker'[w].pc \in {"absent", "expired"}
          /\ \A v \in Workers \ {w} : worker'[v] = worker[v]
      BY <1>1, <2>1 DEF WorkerStates
    <3>3. SignedIsJournaled' /\ DebtHasMint' /\ BurnedHasLanded'
      BY <1>2, <2>1, <3>1 DEF BurnInv, SignedIsJournaled, DebtHasMint, BurnedHasLanded
    <3>4. WorkerKnows'
      BY <1>3, <2>1, <3>1, <3>2 DEF BurnInv, WorkerKnows, Leases
    <3> QED BY <3>3, <3>4 DEF BurnInv
  <2>2. CASE ~\E pc \in {"absent", "expired"} : worker' = [worker EXCEPT ![w].pc = pc] /\ UNCHANGED burn
    <3>1. /\ UNCHANGED burnTx
          /\ \/ Found(w) /\ Finish(w, "burned", FALSE)
             \/ Finish(w, "pending", FALSE)
      BY <1>10, <2>2 DEF Scan, ProveExpiry
    <3> QED BY <1>2, <3>1, FinishStep DEF Found
  <2> QED BY <2>1, <2>2
<1>11. CASE Rescan(w)
  <2>1. CASE Found(w) /\ Finish(w, "burned", FALSE)
    BY <1>2, <1>11, <2>1, FinishStep DEF Rescan, Found
  <2>2. CASE ~Found(w) /\ Finish(w, "pending", TRUE)
    <3>1. worker[w].pc = "expired" /\ burnTx[worker[w].signed] \in {"failed", "expired"}
      BY <1>3, <1>11, <2>2 DEF Rescan, Found, BurnInv, WorkerKnows
    <3>2. Leases(w) => \A b \in Burns : burnTx[b] \notin {"signed", "sent", "landed"}
      BY <1>3, <3>1 DEF BurnInv, SignedIsJournaled
    <3> QED BY <1>2, <1>11, <2>2, <3>2, FinishStep DEF Rescan
  <2> QED BY <1>11, <2>1, <2>2 DEF Rescan
<1>12. CASE WorkerDies(w)
  <2>1. /\ UNCHANGED <<burn, burnTx>> /\ worker'[w].pc = "idle"
        /\ \A v \in Workers \ {w} : worker'[v] = worker[v]
    BY <1>1, <1>12 DEF WorkerDies
  <2>2. SignedIsJournaled' /\ DebtHasMint' /\ BurnedHasLanded'
    BY <1>2, <2>1 DEF BurnInv, SignedIsJournaled, DebtHasMint, BurnedHasLanded
  <2>3. WorkerKnows'
    BY <2>1 DEF BurnInv, WorkerKnows, Leases
  <2> QED BY <2>2, <2>3 DEF BurnInv
<1> QED BY <1>4, <1>5, <1>6, <1>7, <1>8, <1>9, <1>10, <1>11, <1>12 DEF Worker

LEMMA DebtStep ==
  ASSUME ClaimInv, BurnInv, [Next]_vars
  PROVE  BurnInv'
<1>1. \A n \in Sessions : mint[n] = "landed" => mint'[n] = "landed"
  BY LandedMintStays
<1>2. /\ burn \in Debts /\ burnTx \in [Burns -> TxStates]
      /\ \A w \in Workers : worker[w].signed \in Burns \cup {None}
  BY DEF ClaimInv, TypeOK, Debts
<1>3. CASE UNCHANGED <<burn, burnVars>>
  <2>1. SignedIsJournaled' /\ BurnedHasLanded' /\ WorkerKnows'
    BY <1>3 DEF burnVars, BurnInv, SignedIsJournaled, BurnedHasLanded, WorkerKnows, Leases
  <2>2. DebtHasMint'
    BY <1>1, <1>3 DEF BurnInv, DebtHasMint
  <2> QED BY <2>1, <2>2 DEF BurnInv
<1>4. CASE (\E s \in Sessions : Session(s)) \/ Recovery
  <2>1. CASE UNCHANGED <<burn, burnVars>>
    BY <1>3, <2>1
  <2>2. CASE ~UNCHANGED <<burn, burnVars>>
    <3>1. /\ UNCHANGED burnVars
          /\ burn.status = "none" /\ burn' = [burn EXCEPT !.status = "pending"]
          /\ \E n \in Sessions : mint[n] = "landed"
      BY <1>4, <2>2, DebtArises
    <3>2. burn'.status = "pending" /\ burn'.signed = burn.signed
      BY <1>2, <3>1 DEF Debts
    <3>3. SignedIsJournaled' /\ BurnedHasLanded' /\ WorkerKnows'
      BY <3>1, <3>2 DEF burnVars, BurnInv, SignedIsJournaled, BurnedHasLanded, WorkerKnows, Leases
    <3>4. DebtHasMint'
      BY <1>1, <3>1, <3>2 DEF DebtHasMint
    <3> QED BY <3>3, <3>4 DEF BurnInv
  <2> QED BY <2>1, <2>2
<1>5. ASSUME NEW b \in Burns, LedgerBurn(b)
      PROVE  BurnInv'
  <2>1. /\ UNCHANGED <<burn, worker>>
        /\ \A c \in Burns \ {b} : burnTx'[c] = burnTx[c]
        /\ burnTx[b] \in {"signed", "sent"} /\ burnTx'[b] \in {"landed", "failed", "expired"}
    BY <1>2, <1>5 DEF LedgerBurn
  <2>2. SignedIsJournaled'
    BY <2>1 DEF BurnInv, SignedIsJournaled
  <2>3. BurnedHasLanded'
    BY <2>1 DEF BurnInv, BurnedHasLanded
  <2>4. WorkerKnows'
    BY <1>2, <2>1 DEF BurnInv, WorkerKnows, Leases
  <2>5. DebtHasMint'
    BY <1>1, <2>1 DEF BurnInv, DebtHasMint
  <2> QED BY <2>2, <2>3, <2>4, <2>5 DEF BurnInv
<1>6. ASSUME NEW n \in Sessions, LedgerMint(n)
      PROVE  UNCHANGED <<burn, burnVars>>
  BY <1>6 DEF LedgerMint
<1>7. CASE Crash
  BY <1>3, <1>7 DEF Crash
<1> QED BY <1>3, <1>4, <1>5, <1>6, <1>7, WorkerStep DEF Next, vars

(* The debt of a free mint is burned at most once, never without the mint, and
   recorded as burned only when its burn has landed; whatever leases lapse,
   workers die and scans miss. *)
THEOREM DebtBurnedOnce == Spec => []BurnedOnce
<1>1. Init => BurnInv
  BY DEF Init, BurnInv, SignedIsJournaled, DebtHasMint, WorkerKnows, BurnedHasLanded, Leases
<1>2. ClaimInv /\ BurnInv /\ [Next]_vars => BurnInv'
  BY DebtStep
<1>3. BurnInv => BurnedOnce
  <2> SUFFICES ASSUME BurnInv PROVE BurnedOnce
    OBVIOUS
  <2>1. \A b \in Burns : b # None
    BY DEF Burns, None
  <2> QED BY <2>1 DEF BurnInv, SignedIsJournaled, DebtHasMint, BurnedHasLanded, BurnedOnce
<1> QED BY <1>1, <1>2, <1>3, ClaimInvariant, PTL DEF Spec
=============================================================================

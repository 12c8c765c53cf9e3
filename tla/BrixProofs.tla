------------------------------ MODULE BrixProofs -----------------------------
(***************************************************************************)
(* BRIX, for any number of days, tokens, wallets, requests and claims:     *)
(* the nightly walk never advances past an epoch it has not accrued and    *)
(* never accrues one that is not closed; no accrual row is paid twice and  *)
(* a confirmed claim is backed by its payout and its rows.                 *)
(*                                                                         *)
(* The accrual.  While the job runs, its epoch is the one after the        *)
(* cursor and lies before today (Walk); once its rows are committed, what  *)
(* is unpaid of it is tolerated, whatever an earlier, interrupted night    *)
(* had already written.                                                    *)
(*                                                                         *)
(* The claims.  A payout that landed or can still land (or will be         *)
(* signed by a request that is about to send it) keeps the rows of its     *)
(* claim bound and its claim unfailed (Holds): rows are released only by a *)
(* definitive failure, or by a recovery whose index passed the deadline    *)
(* and whose scan saw at least that index.  The deadline stored with a     *)
(* claim, and every copy of it a recovery holds, bounds the payout         *)
(* (DeadlineBounds) and is low enough for the scan's window to include it  *)
(* (ScanReaches).                                                          *)
(***************************************************************************)
EXTENDS BrixAccrual, BrixClaims, FiniteSetTheorems, TLAPS

-----------------------------------------------------------------------------
(* The accrual.                                                             *)

(* Where the job stands. *)
Walk ==
    /\ job.pc # "idle" =>
         job.epoch = cursor + 1 /\ job.epoch <= job.last /\ job.last < today
    /\ job.pc = "written" => ~MustDefer(Unpaid(job.epoch))

AccrualInv == AccrualTypeOK /\ AccruedBehindCursor /\ Walk

(* A part of what was tolerated is tolerated. *)

LEMMA FewerIsTolerated ==
    ASSUME NEW U, U \subseteq Tokens, NEW V, V \subseteq U, ~MustDefer(U)
    PROVE  ~MustDefer(V)
<1>1. IsFiniteSet(Tokens)
    BY AccrualAssumption
<1>2. IsFiniteSet(U)
    BY <1>1, FS_Subset
<1>3. IsFiniteSet(V) /\ Cardinality(V) <= Cardinality(U)
    BY <1>2, FS_Subset
<1>4. /\ Cardinality(U) \in Nat /\ Cardinality(V) \in Nat /\ Cardinality(Tokens) \in Nat
      /\ DeferDen \in Nat
    BY <1>1, <1>2, <1>3, FS_CardinalityType, AccrualAssumption
<1>5. \A c, d, n \in Nat : c <= d => c * n <= d * n
    OBVIOUS
<1>6. Cardinality(V) * DeferDen <= Cardinality(U) * DeferDen
    BY <1>3, <1>4, <1>5
<1>7. /\ Cardinality(V) * DeferDen \in Nat /\ Cardinality(U) * DeferDen \in Nat
    BY <1>4
<1> QED
    BY <1>4, <1>6, <1>7 DEF MustDefer

(* Rows are only ever added: what is unpaid of an epoch only shrinks. *)
LEMMA UnpaidShrinks ==
    ASSUME closeState' = closeState, NEW e \in Days,
           \A t \in Tokens : Row(<<e, t>>) => Row(<<e, t>>)'
    PROVE  Unpaid(e)' \subseteq Unpaid(e)
BY DEF Unpaid, Payable

LEMMA InitAccrual == AccrualInit => AccrualInv
<1> SUFFICES ASSUME AccrualInit PROVE AccrualInv
    OBVIOUS
<1>1. AccrualTypeOK
    BY AccrualAssumption DEF AccrualInit, AccrualTypeOK, EpochKeys, Days
<1>2. \A e \in Days : ~(e <= cursor)
    BY DEF AccrualInit, Days
<1>3. \A k \in EpochKeys : ~Row(k)
    BY DEF AccrualInit, Row
<1> QED
    BY <1>1, <1>2, <1>3 DEF AccrualInit, AccrualInv, AccruedBehindCursor, Walk

(* The commit of an epoch's accruals. *)
LEMMA WriteStep == AccrualInv /\ JobWrite => AccrualInv'
<1> SUFFICES ASSUME AccrualInv, JobWrite PROVE AccrualInv'
    OBVIOUS
<1> USE DEF AccrualInv, AccrualTypeOK
<1>1. PICK unknown \in SUBSET Tokens :
        /\ ~MustDefer(unknown)
        /\ accruals' = [k \in EpochKeys |->
              IF k[1] = job.epoch /\ k[2] \in Payable(job.epoch) \ unknown /\ ~Row(k)
              THEN closeState[k] ELSE accruals[k]]
    BY DEF JobWrite
<1>2. /\ job' = [job EXCEPT !.pc = "written"] /\ job.pc = "walking"
      /\ UNCHANGED <<today, closeState, cursor>>
    BY DEF JobWrite
<1>3. /\ job.epoch = cursor + 1 /\ job.epoch <= job.last /\ job.last < today
      /\ job.epoch \in Days
    BY <1>2, AccrualAssumption DEF Walk, Days
<1>4. \A k \in EpochKeys : accruals'[k] \in Holders \cup {NoOwner}
    <2> SUFFICES ASSUME NEW k \in EpochKeys PROVE accruals'[k] \in Holders \cup {NoOwner}
        OBVIOUS
    <2>1. CASE k[1] = job.epoch /\ k[2] \in Payable(job.epoch) \ unknown /\ ~Row(k)
        <3>1. k = <<job.epoch, k[2]>>
            BY <2>1 DEF EpochKeys
        <3>2. closeState[k] # Listed
            BY <2>1, <3>1 DEF Payable
        <3>3. closeState[k] \in Holders \cup {Listed}
            OBVIOUS
        <3> QED BY <2>1, <3>2, <3>3, <1>1
    <2>2. CASE ~(k[1] = job.epoch /\ k[2] \in Payable(job.epoch) \ unknown /\ ~Row(k))
        BY <2>2, <1>1
    <2> QED BY <2>1, <2>2
<1>5. AccrualTypeOK'
    <2>1. accruals' \in [EpochKeys -> Holders \cup {NoOwner}]
        BY <1>1, <1>4
    <2> QED BY <2>1, <1>2
<1>6. \A k \in EpochKeys : Row(k) => Row(k)'
    BY <1>1 DEF Row
<1>7. \A e \in Days : Unpaid(e)' \subseteq Unpaid(e)
    BY <1>2, <1>6, UnpaidShrinks DEF EpochKeys
<1>8. \A e \in Days : Unpaid(e) \subseteq Tokens
    BY DEF Unpaid, Payable
<1>9. ~MustDefer(Unpaid(job.epoch))'
    <2>1. Unpaid(job.epoch)' \subseteq unknown
        <3> SUFFICES ASSUME NEW t \in Unpaid(job.epoch)', t \notin unknown PROVE FALSE
            OBVIOUS
        <3>1. job'.epoch = job.epoch /\ closeState' = closeState
            BY <1>2
        <3>2. PICK k \in EpochKeys : k = <<job.epoch, t>>
            BY <1>3, <3>1 DEF Unpaid, Payable, EpochKeys
        <3>3. t \in Payable(job.epoch) /\ accruals'[k] = NoOwner
            BY <3>1, <3>2 DEF Unpaid, Payable, Row
        <3>4. ~Row(k)
            BY <3>3, <1>6 DEF Row
        <3>5. accruals'[k] = closeState[k]
            BY <3>2, <3>3, <3>4, <1>1
        <3>6. closeState[k] # NoOwner
            BY <3>2, <3>3, AccrualAssumption DEF Payable
        <3> QED BY <3>3, <3>5, <3>6
    <2>2. job'.epoch = job.epoch
        BY <1>2
    <2> QED BY <2>1, <2>2, <1>1, FewerIsTolerated DEF MustDefer
<1>10. AccruedBehindCursor'
    <2>1. ASSUME NEW e \in Days, e <= cursor' PROVE ~MustDefer(Unpaid(e))'
        <3>1. ~MustDefer(Unpaid(e))
            BY <2>1, <1>2 DEF AccruedBehindCursor
        <3> QED BY <3>1, <1>7, <1>8, FewerIsTolerated DEF MustDefer
    <2>2. ASSUME NEW k \in EpochKeys, Row(k)' PROVE k[1] <= cursor' + 1 /\ k[1] < today'
        <3>1. CASE Row(k)
            BY <3>1, <1>2 DEF AccruedBehindCursor
        <3>2. CASE ~Row(k)
            <4>1. k[1] = job.epoch
                BY <3>2, <2>2, <1>1 DEF Row
            <4> QED BY <4>1, <1>2, <1>3
        <3> QED BY <3>1, <3>2
    <2> QED BY <2>1, <2>2 DEF AccruedBehindCursor
<1>11. Walk'
    BY <1>2, <1>3, <1>9 DEF Walk
<1> QED
    BY <1>5, <1>10, <1>11

LEMMA NextAccrual == AccrualInv /\ [AccrualNext]_accrualVars => AccrualInv'
<1> SUFFICES ASSUME AccrualInv, [AccrualNext]_accrualVars PROVE AccrualInv'
    OBVIOUS
<1> USE DEF AccrualInv, AccrualTypeOK
<1>1. ASSUME UNCHANGED <<closeState, accruals>>
      PROVE  /\ \A e \in Days : Unpaid(e)' = Unpaid(e)
             /\ \A k \in EpochKeys : Row(k)' = Row(k)
    BY <1>1 DEF Unpaid, Payable, Row
<1>2. CASE MidnightPasses
    <2>1. /\ today' = today + 1 /\ today <= LastDay
          /\ UNCHANGED <<closeState, cursor, job, accruals>>
        BY <1>2 DEF MidnightPasses
    <2>2. AccrualTypeOK'
        BY <2>1, AccrualAssumption
    <2>3. AccruedBehindCursor' /\ Walk'
        BY <2>1, <1>1, AccrualAssumption DEF AccruedBehindCursor, Walk, MustDefer, EpochKeys, Days
    <2> QED BY <2>2, <2>3
<1>3. CASE JobStart
    <2>1. /\ cursor < today - 1 /\ UNCHANGED <<today, closeState, cursor, accruals>>
          /\ job' = [pc |-> "walking", epoch |-> cursor + 1, last |-> today - 1]
        BY <1>3 DEF JobStart
    <2>2. AccrualTypeOK'
        BY <2>1, AccrualAssumption
    <2>3. AccruedBehindCursor' /\ Walk'
        BY <2>1, <1>1, AccrualAssumption DEF AccruedBehindCursor, Walk, MustDefer
    <2> QED BY <2>2, <2>3
<1>4. CASE JobDefer \/ JobCrash
    <2>1. job' = [job EXCEPT !.pc = "idle"] /\ UNCHANGED <<today, closeState, cursor, accruals>>
        BY <1>4 DEF JobDefer, JobCrash
    <2> QED BY <2>1, <1>1 DEF AccruedBehindCursor, Walk, MustDefer
<1>5. CASE JobAdvance
    <2>1. /\ job.pc = "written" /\ cursor' = job.epoch
          /\ job' = IF job.epoch < job.last
                    THEN [job EXCEPT !.pc = "walking", !.epoch = @ + 1]
                    ELSE [job EXCEPT !.pc = "idle"]
          /\ UNCHANGED <<today, closeState, accruals>>
        BY <1>5 DEF JobAdvance
    <2>2. AccrualTypeOK'
        <3>1. cursor' \in 0 .. LastDay
            BY <2>1
        <3>2. CASE job.epoch < job.last
            <4>1. job.epoch + 1 \in 0 .. LastDay
                BY <3>2, AccrualAssumption
            <4> QED BY <2>1, <3>1, <3>2, <4>1
        <3>3. CASE ~(job.epoch < job.last)
            BY <2>1, <3>1, <3>3
        <3> QED BY <3>2, <3>3
    <2>3. ASSUME NEW e \in Days, e <= cursor' PROVE ~MustDefer(Unpaid(e))'
        <3>1. e <= cursor \/ e = job.epoch
            BY <2>1, <2>3 DEF Walk, Days
        <3>2. ~MustDefer(Unpaid(e))
            BY <2>1, <3>1, <2>3 DEF Walk, AccruedBehindCursor
        <3> QED BY <3>2, <2>1, <1>1 DEF MustDefer
    <2>4. \A k \in EpochKeys : Row(k)' => k[1] <= cursor' + 1 /\ k[1] < today'
        BY <2>1, <1>1 DEF Walk, AccruedBehindCursor, EpochKeys, Days
    <2>5. Walk'
        BY <2>1 DEF Walk
    <2> QED BY <2>2, <2>3, <2>4, <2>5 DEF AccruedBehindCursor
<1>6. CASE JobWrite
    BY <1>6, WriteStep
<1>7. CASE UNCHANGED accrualVars
    <2>1. UNCHANGED <<today, closeState, cursor, job, accruals>>
        BY <1>7 DEF accrualVars
    <2> QED BY <2>1 DEF AccruedBehindCursor, Walk, MustDefer, Unpaid, Payable, Row
<1> QED
    BY <1>2, <1>3, <1>4, <1>5, <1>6, <1>7 DEF AccrualNext

(* Type correctness of the cursor, the job and the accrual accruals. *)
THEOREM AccrualTypeCorrect == AccrualSpec => []AccrualTypeOK
<1>1. AccrualInv => AccrualTypeOK
    BY DEF AccrualInv
<1> QED BY <1>1, InitAccrual, NextAccrual, PTL DEF AccrualSpec

(* The cursor never passes an epoch that was not accrued, and no row is of a
   day that is not closed: run_archive_accrual neither loses nor anticipates
   anybody's day, whatever nights are missed, deferred or interrupted. *)
THEOREM NoEpochSkipped == AccrualSpec => []AccruedBehindCursor
<1>1. AccrualInv => AccruedBehindCursor
    BY DEF AccrualInv
<1> QED BY <1>1, InitAccrual, NextAccrual, PTL DEF AccrualSpec

(* A row appears for the holder its token had at the close of a day that is
   over, and does not change again. *)
RowsAppearOnce ==
    \A k \in EpochKeys : accruals'[k] # accruals[k] =>
        /\ accruals[k] = NoOwner
        /\ accruals'[k] = closeState[k] /\ accruals'[k] \in Holders
        /\ k[1] < today

(* What BrixClaims' Accrue takes from the nightly job: record_accruals writes
   a row once, to its holder, and no night, repeated or caught up, rewrites
   or removes it. *)
THEOREM RowsAreWrittenOnce == AccrualSpec => [][RowsAppearOnce]_accrualVars
<1>1. ASSUME AccrualInv, AccrualNext, NEW k \in EpochKeys, accruals'[k] # accruals[k]
      PROVE  /\ accruals[k] = NoOwner
             /\ accruals'[k] = closeState[k] /\ accruals'[k] \in Holders
             /\ k[1] < today
    <2>1. CASE JobWrite
        <3>1. /\ k[1] = job.epoch /\ k[2] \in Payable(job.epoch) /\ ~Row(k)
              /\ accruals'[k] = closeState[k]
            BY <1>1, <2>1 DEF JobWrite
        <3>2. closeState[k] # Listed /\ closeState[k] \in Holders
            <4>1. k = <<job.epoch, k[2]>>
                BY <3>1 DEF EpochKeys
            <4>2. closeState[k] \in Holders \cup {Listed}
                BY <1>1 DEF AccrualInv, AccrualTypeOK
            <4> QED BY <3>1, <4>1, <4>2 DEF Payable
        <3>3. job.epoch < today
            BY <1>1, <2>1 DEF JobWrite, AccrualInv, AccrualTypeOK, Walk
        <3> QED BY <3>1, <3>2, <3>3 DEF Row
    <2>2. CASE ~JobWrite
        BY <1>1, <2>2 DEF AccrualNext, MidnightPasses, JobStart, JobDefer, JobAdvance, JobCrash
    <2> QED BY <2>1, <2>2
<1>2. AccrualInv /\ [AccrualNext]_accrualVars => [RowsAppearOnce]_accrualVars
    BY <1>1 DEF RowsAppearOnce
<1> QED BY <1>2, InitAccrual, NextAccrual, PTL DEF AccrualSpec

-----------------------------------------------------------------------------
(* The claims.                                                              *)

Busy(r) == req[r].pc \in {"opened", "sent", "recorded"}

(* Each claim is paid by at most one transaction, sent by its one request. *)
OnePayout ==
    /\ \A t, u \in pool : t.claim = u.claim => t = u
    /\ \A t \in pool : claims[t.claim].state # "none"
    /\ \A l \in landed :
         /\ l.at <= validated
         /\ l.claim \notin failed
         /\ \E t \in pool : t.claim = l.claim /\ l.at <= t.lls
    /\ \A l, m \in landed : l.claim = m.claim => l = m

OneRequest ==
    /\ \A r \in Requests : Busy(r) => req[r].claim \in Opened
    /\ \A r, q \in Requests : Busy(r) /\ Busy(q) /\ req[r].claim = req[q].claim => r = q
    /\ \A r \in Requests : req[r].pc = "opened" =>
         \A t \in pool : t.claim # req[r].claim
    /\ \A r \in Requests : req[r].pc = "sent" =>
         [claim |-> req[r].claim, lls |-> req[r].lls] \in pool

(* The stored deadline, and recovery's copies of it, bound the payout ... *)
DeadlineBounds ==
    /\ \A t \in pool : t.lls <= claims[t.claim].lls
    /\ \A r \in Requests : req[r].pc = "opened" => req[r].lls <= claims[req[r].claim].lls
    /\ \A s \in rec.todo :
         /\ s.claim \in Opened
         /\ \A t \in pool : t.claim = s.claim => t.lls <= s.lls
         /\ \A r \in Requests :
              req[r].pc = "opened" /\ req[r].claim = s.claim => req[r].lls <= s.lls

(* ... and sit within Generous of the ledger it landed in. *)
ScanReaches ==
    /\ \A r \in Requests : req[r].pc = "ready" => req[r].lls <= validated + Generous
    /\ \A c \in ClaimIds : claims[c].lls <= validated + Generous
    /\ \A s \in rec.todo : s.lls <= validated + Generous
    /\ \A l \in landed : claims[l.claim].lls < l.at + Generous
    /\ \A l \in landed, s \in rec.todo : s.claim = l.claim => s.lls < l.at + Generous

(* Who may still pay a claim holds its rows. *)
HasRows(c) == claims[c].state # "failed" /\ \A k \in claims[c].covers : bound[k] = c
Holds ==
    /\ \A t \in pool : CanLand(t) => HasRows(t.claim)
    /\ \A r \in Requests :
         req[r].pc = "opened" /\ req[r].lls > validated => HasRows(req[r].claim)

(* A bound row is one its claim covers. *)
BoundIsCovered ==
    \A k \in Keys : bound[k] # 0 => bound[k] \in Opened /\ k \in claims[bound[k]].covers

(* What recovery knows. *)
RecoveryKnows ==
    /\ rec.index <= validated
    /\ \A c \in rec.found : \E l \in landed : l.claim = c
    /\ \A c \in rec.absent : \A l \in landed : l.claim = c => l.at > rec.index

IInv ==
    /\ ClaimTypeOK
    /\ OnePayout /\ OneRequest /\ DeadlineBounds /\ ScanReaches
    /\ Holds /\ BoundIsCovered /\ RecoveryKnows
    /\ ConfirmedIsBacked

-----------------------------------------------------------------------------
(* The record types are small: expand them wherever ClaimTypeOK is. *)
USE DEF ClaimRow, RequestState, RecoveryState

LEMMA InitIInv == ClaimInit => IInv
<1> SUFFICES ASSUME ClaimInit PROVE IInv
  OBVIOUS
<1>1. ClaimTypeOK
  BY ConstantsAssumption DEF ClaimInit, ClaimTypeOK, NoClaim, Idle, NoRec, ClaimIds
<1>2. OnePayout /\ OneRequest /\ DeadlineBounds
  BY DEF ClaimInit, OnePayout, OneRequest, DeadlineBounds, Busy, Idle, NoRec
<1>3. ScanReaches
  BY ConstantsAssumption DEF ClaimInit, ScanReaches, Idle, NoRec, NoClaim
<1>4. Holds /\ BoundIsCovered /\ RecoveryKnows /\ ConfirmedIsBacked
  BY DEF ClaimInit, Holds, BoundIsCovered, RecoveryKnows, ConfirmedIsBacked, Idle, NoRec, NoClaim
<1> QED BY <1>1, <1>2, <1>3, <1>4 DEF IInv

LEMMA AccrueStep ==
  ASSUME IInv, Accrue
  PROVE  IInv'
<1> USE DEF IInv
<1>1. UNCHANGED <<bound, claims, validated, pool, landed, failed, req, rec>>
  BY DEF Accrue, db, payouts
<1>2. ClaimTypeOK'
  BY <1>1 DEF Accrue, ClaimTypeOK
<1>3. OnePayout' /\ OneRequest' /\ DeadlineBounds' /\ ScanReaches'
  BY <1>1 DEF OnePayout, OneRequest, Busy, Opened, DeadlineBounds, ScanReaches
<1>4. Holds' /\ BoundIsCovered' /\ RecoveryKnows' /\ ConfirmedIsBacked'
  BY <1>1 DEF Holds, HasRows, CanLand, LiveTx, Settled, BoundIsCovered, Opened,
              RecoveryKnows, ConfirmedIsBacked
<1> QED BY <1>2, <1>3, <1>4

LEMMA CloseLedgerStep ==
  ASSUME IInv, CloseLedger
  PROVE  IInv'
<1> USE DEF IInv
<1>1. PICK ok \in SUBSET LiveTx, tec \in SUBSET LiveTx :
        /\ ok \cap tec = {}
        /\ landed' = landed \cup {[claim |-> t.claim, at |-> validated'] : t \in ok}
        /\ failed' = failed \cup {t.claim : t \in tec}
  BY DEF CloseLedger
<1>2. /\ validated' = validated + 1
      /\ UNCHANGED <<rows, bound, claims, pool, req, rec>>
  BY DEF CloseLedger, db
<1>3. /\ \A t \in pool : t.claim \in ClaimIds /\ t.lls \in Nat
      /\ \A c \in ClaimIds : claims[c].lls \in Nat
      /\ \A l \in landed : l.claim \in ClaimIds /\ l.at \in Nat
      /\ validated \in Nat
  BY DEF ClaimTypeOK
<1>4. ASSUME NEW t \in LiveTx
      PROVE  /\ t \in pool /\ t.lls >= validated + 1
             /\ t.claim \notin failed /\ \A l \in landed : l.claim # t.claim
  BY <1>3 DEF LiveTx, Settled
<1>5. ASSUME NEW l \in landed', l \notin landed
      PROVE  \E t \in ok : l.claim = t.claim /\ l.at = validated + 1
  BY <1>1, <1>2, <1>5
<1>6. ClaimTypeOK'
  <2>1. landed' \subseteq [claim : ClaimIds, at : Nat]
    BY <1>1, <1>2, <1>3, <1>4 DEF ClaimTypeOK
  <2>2. failed' \subseteq ClaimIds
    BY <1>1, <1>3, <1>4 DEF ClaimTypeOK
  <2> QED BY <1>2, <1>3, <2>1, <2>2 DEF ClaimTypeOK
<1>7. OnePayout'
  <2>1. \A t \in pool : claims[t.claim].state # "none"
    BY DEF OnePayout
  <2>2. ASSUME NEW l \in landed'
        PROVE  /\ l.at <= validated'
               /\ l.claim \notin failed'
               /\ \E t \in pool : t.claim = l.claim /\ l.at <= t.lls
    <3>1. CASE l \in landed
      BY <1>1, <1>2, <1>3, <1>4, <3>1 DEF OnePayout
    <3>2. CASE l \notin landed
      <4>1. PICK t \in ok : l.claim = t.claim /\ l.at = validated + 1
        BY <1>5, <3>2
      <4>2. \A u \in tec : u.claim # t.claim
        BY <1>1, <1>4 DEF OnePayout
      <4> QED BY <1>1, <1>2, <1>3, <1>4, <4>1, <4>2
    <3> QED BY <3>1, <3>2
  <2>3. ASSUME NEW l \in landed', NEW m \in landed', l.claim = m.claim, l \notin landed
        PROVE  l = m
    <3>1. PICK t \in ok : l = [claim |-> t.claim, at |-> validated']
      BY <1>1, <2>3
    <3>2. m \notin landed
      BY <1>4, <2>3, <3>1
    <3>3. PICK u \in ok : m = [claim |-> u.claim, at |-> validated']
      BY <1>1, <3>2
    <3> QED BY <2>3, <3>1, <3>3
  <2> QED BY <1>2, <2>1, <2>2, <2>3 DEF OnePayout
<1>8. OneRequest' /\ DeadlineBounds' /\ BoundIsCovered'
  BY <1>2 DEF OneRequest, Busy, Opened, DeadlineBounds, BoundIsCovered
<1>9. ScanReaches'
  <2>1. \A r \in Requests : req[r].lls \in Nat
    BY DEF ClaimTypeOK
  <2>2. \A s \in rec.todo : s.lls \in Nat /\ s.claim \in ClaimIds
    BY DEF ClaimTypeOK
  <2>3. \A l \in landed' : l \in landed \/ (l.at = validated + 1 /\ l.claim \in ClaimIds)
    BY <1>3, <1>4, <1>5
  <2>4. \A l \in landed' : claims[l.claim].lls < l.at + Generous
    BY <1>3, <2>3, ConstantsAssumption DEF ScanReaches
  <2>5. \A l \in landed', s \in rec.todo : s.claim = l.claim => s.lls < l.at + Generous
    BY <1>3, <2>2, <2>3, ConstantsAssumption DEF ScanReaches
  <2> QED
    BY <1>2, <1>3, <2>1, <2>2, <2>4, <2>5, ConstantsAssumption DEF ScanReaches
<1>10. ASSUME NEW t \in pool, CanLand(t)' PROVE CanLand(t)
  <2>1. CASE t \in LiveTx'
    BY <1>1, <1>2, <1>3, <2>1 DEF LiveTx, Settled, CanLand
  <2>2. CASE \E l \in landed' : l.claim = t.claim
    BY <1>4, <1>5, <2>2 DEF CanLand, OnePayout
  <2> QED BY <1>10, <2>1, <2>2 DEF CanLand
<1>11. Holds'
  <2>1. \A r \in Requests : req[r].lls \in Nat
    BY DEF ClaimTypeOK
  <2> QED BY <1>2, <1>3, <1>10, <2>1 DEF Holds, HasRows
<1>12. RecoveryKnows'
  <2>1. rec.index \in Nat /\ rec.index <= validated
    BY DEF ClaimTypeOK, RecoveryKnows
  <2> QED BY <1>1, <1>2, <1>3, <1>5, <2>1 DEF RecoveryKnows
<1>13. ConfirmedIsBacked'
  BY <1>1, <1>2 DEF ConfirmedIsBacked
<1> QED BY <1>6, <1>7, <1>8, <1>9, <1>11, <1>12, <1>13

-----------------------------------------------------------------------------
(* The request's steps. *)

(* A request that reads, is refused or dies changes only itself. *)
LEMMA RequestOnlyStep ==
  ASSUME IInv, NEW r \in Requests,
         (\E w \in Wallets : ReadProvisional(r, w)) \/ OpenRefused(r) \/ RequestCrash(r)
  PROVE  IInv'
<1> USE DEF IInv
<1>1. UNCHANGED <<rows, bound, claims, validated, pool, landed, failed, rec>>
  BY DEF ReadProvisional, OpenRefused, RequestCrash, db, payouts
<1>2. /\ \A q \in Requests : q # r => req'[q] = req[q]
      /\ req'[r].pc \in {"idle", "ready"}
      /\ req'[r].lls \in Nat
      /\ req'[r].pc = "ready" => req'[r].lls <= validated + Generous
      /\ ClaimTypeOK'
  <2>1. CASE \E w \in Wallets : ReadProvisional(r, w)
    <3>1. PICK w \in Wallets, idx \in Views :
            req' = [req EXCEPT ![r] = [pc |-> "ready", wallet |-> w, claim |-> 0,
                                       lls |-> idx + Generous]]
      BY <2>1 DEF ReadProvisional
    <3>2. idx + Generous \in Nat /\ idx + Generous <= validated + Generous
      BY ConstantsAssumption DEF Views, ClaimTypeOK
    <3> QED BY <1>1, <3>1, <3>2, ConstantsAssumption DEF ClaimTypeOK
  <2>2. CASE OpenRefused(r) \/ RequestCrash(r)
    <3>1. Idle \in RequestState
      BY ConstantsAssumption DEF Idle
    <3> QED BY <1>1, <2>2, <3>1 DEF OpenRefused, RequestCrash, ClaimTypeOK, Idle
  <2> QED BY <2>1, <2>2
<1>3. OnePayout' /\ BoundIsCovered' /\ RecoveryKnows' /\ ConfirmedIsBacked'
  BY <1>1 DEF OnePayout, BoundIsCovered, Opened, RecoveryKnows, ConfirmedIsBacked
<1>4. OneRequest' /\ DeadlineBounds'
  BY <1>1, <1>2 DEF OneRequest, DeadlineBounds, Busy, Opened
<1>5. ScanReaches'
  BY <1>1, <1>2 DEF ScanReaches
<1>6. Holds'
  BY <1>1, <1>2 DEF Holds, HasRows, CanLand, LiveTx, Settled
<1> QED BY <1>2, <1>3, <1>4, <1>5, <1>6

LEMMA OpenClaimStep ==
  ASSUME IInv, NEW r \in Requests, OpenClaim(r)
  PROVE  IInv'
<1> USE DEF IInv
<1> DEFINE w == req[r].wallet
           F == Claimable(w)
<1>1. PICK c \in ClaimIds :
        /\ claims[c].state = "none"
        /\ claims' = [claims EXCEPT ![c] =
             [wallet |-> w, covers |-> F, state |-> "pending", lls |-> req[r].lls]]
        /\ bound' = [k \in Keys |-> IF k \in F THEN c ELSE bound[k]]
        /\ req' = [req EXCEPT ![r].pc = "opened", ![r].claim = c]
  BY DEF OpenClaim
<1>2. UNCHANGED <<rows, validated, pool, landed, failed, rec>> /\ req[r].pc = "ready"
  BY DEF OpenClaim, payouts
<1>3. /\ c \in Nat /\ c # 0 /\ c \in 0 .. MaxClaims /\ w \in Wallets \cup {None} /\ F \in SUBSET Keys
      /\ req[r].lls \in Nat /\ c \notin Opened
      /\ \A k \in F : bound[k] = 0
  BY <1>1, ConstantsAssumption DEF ClaimTypeOK, ClaimIds, Claimable, Opened
<1>4. /\ claims'[c] = [wallet |-> w, covers |-> F, state |-> "pending", lls |-> req[r].lls]
      /\ \A d \in ClaimIds : d # c => claims'[d] = claims[d]
      /\ req'[r].pc = "opened" /\ req'[r].claim = c /\ req'[r].lls = req[r].lls
      /\ \A q \in Requests : q # r => req'[q] = req[q]
  BY <1>1 DEF ClaimTypeOK
<1>5. ClaimTypeOK'
  <2>1. claims' \in [ClaimIds -> ClaimRow]
    BY <1>1, <1>3 DEF ClaimTypeOK
  <2>2. req' \in [Requests -> RequestState]
    <3> DEFINE new == [req[r] EXCEPT !.pc = "opened", !.claim = c]
    <3>1. req[r] \in RequestState /\ req' = [req EXCEPT ![r] = new]
      BY <1>1 DEF ClaimTypeOK
    <3>2. new \in RequestState
      BY <1>3, <3>1
    <3> QED BY <3>1, <3>2 DEF ClaimTypeOK
  <2>3. bound' \in [Keys -> 0 .. MaxClaims]
    BY <1>1, <1>3 DEF ClaimTypeOK
  <2> QED BY <1>2, <2>1, <2>2, <2>3 DEF ClaimTypeOK
<1>6. /\ \A t \in pool : t.claim # c /\ t.claim \in ClaimIds
      /\ \A l \in landed : l.claim # c /\ l.claim \in ClaimIds
      /\ \A s \in rec.todo : s.claim # c /\ s.claim \in ClaimIds
      /\ \A q \in Requests : Busy(q) => req[q].claim # c /\ req[q].claim \in ClaimIds
      /\ \A k \in Keys : bound[k] # c
  BY <1>1, <1>3 DEF ClaimTypeOK, OnePayout, DeadlineBounds, OneRequest, BoundIsCovered, Opened
<1>7. Opened' = Opened \cup {c}
  BY <1>4 DEF Opened
<1>8. OnePayout'
  BY <1>2, <1>4, <1>6 DEF OnePayout
<1>9. OneRequest'
  BY <1>2, <1>4, <1>6, <1>7 DEF OneRequest, Busy
<1>10. DeadlineBounds'
  <2>1. ASSUME NEW t \in pool PROVE t.lls <= claims'[t.claim].lls
    BY <1>4, <1>6, <2>1 DEF DeadlineBounds
  <2>2. ASSUME NEW q \in Requests, req'[q].pc = "opened"
        PROVE  req'[q].lls <= claims'[req'[q].claim].lls
    <3>1. CASE q = r
      BY <1>3, <1>4, <3>1
    <3>2. CASE q # r
      BY <1>4, <1>6, <2>2, <3>2 DEF DeadlineBounds, Busy
    <3> QED BY <3>1, <3>2
  <2>3. ASSUME NEW s \in rec.todo
        PROVE  /\ s.claim \in Opened'
               /\ \A t \in pool : t.claim = s.claim => t.lls <= s.lls
               /\ \A q \in Requests :
                    req'[q].pc = "opened" /\ req'[q].claim = s.claim => req'[q].lls <= s.lls
    BY <1>4, <1>6, <1>7, <2>3 DEF DeadlineBounds
  <2> QED BY <1>2, <2>1, <2>2, <2>3 DEF DeadlineBounds
<1>11. ScanReaches'
  BY <1>2, <1>4, <1>6 DEF ScanReaches
<1>12. /\ \A d \in ClaimIds : d # c /\ HasRows(d) => HasRows(d)'
       /\ HasRows(c)'
  <2>1. \A k \in Keys : bound'[k] = IF k \in F THEN c ELSE bound[k]
    BY <1>1
  <2>2. \A d \in ClaimIds : claims[d].covers \in SUBSET Keys
    BY DEF ClaimTypeOK
  <2>3. \A d \in ClaimIds : d # 0
    BY ConstantsAssumption DEF ClaimIds
  <2>4. ASSUME NEW d \in ClaimIds, d # c, HasRows(d) PROVE HasRows(d)'
    <3>1. \A k \in claims[d].covers : k \in Keys /\ bound[k] = d /\ bound'[k] = d
      BY <1>3, <2>1, <2>2, <2>3, <2>4 DEF HasRows
    <3> QED BY <1>4, <2>4, <3>1 DEF HasRows
  <2>5. HasRows(c)'
    BY <1>3, <1>4, <2>1 DEF HasRows
  <2> QED BY <2>4, <2>5
<1>13. Holds'
  <2>1. ASSUME NEW t \in pool, CanLand(t)' PROVE HasRows(t.claim)'
    BY <1>2, <1>6, <1>12, <2>1 DEF Holds, CanLand, LiveTx, Settled
  <2>2. ASSUME NEW q \in Requests, req'[q].pc = "opened", req'[q].lls > validated'
        PROVE  HasRows(req[q].claim)' \/ q = r
    BY <1>2, <1>4, <1>6, <1>12, <2>2 DEF Holds, Busy
  <2> QED BY <1>2, <1>4, <1>12, <2>1, <2>2 DEF Holds, HasRows
<1>14. BoundIsCovered'
  BY <1>1, <1>3, <1>4, <1>6, <1>7 DEF BoundIsCovered, Opened
<1>15. RecoveryKnows'
  BY <1>2 DEF RecoveryKnows
<1>16. ConfirmedIsBacked'
  <2>1. ASSUME NEW d \in ClaimIds, claims'[d].state = "confirmed"
        PROVE  /\ \E l \in landed' : l.claim = d
               /\ {k \in Keys : bound'[k] = d} = claims'[d].covers
    <3>1. d # c /\ claims[d].state = "confirmed" /\ claims'[d] = claims[d] /\ d # 0
      BY <1>4, <2>1, ConstantsAssumption DEF ClaimIds
    <3>2. \A k \in Keys : bound'[k] = d <=> bound[k] = d
      BY <1>1, <1>3, <3>1
    <3> QED BY <1>2, <3>1, <3>2 DEF ConfirmedIsBacked
  <2> QED BY <2>1 DEF ConfirmedIsBacked
<1> QED BY <1>5, <1>8, <1>9, <1>10, <1>11, <1>13, <1>14, <1>15, <1>16

LEMMA SendPayoutStep ==
  ASSUME IInv, NEW r \in Requests, SendPayout(r)
  PROVE  IInv'
<1> USE DEF IInv
<1> DEFINE c == req[r].claim
<1>1. PICK cur \in Views :
        /\ pool' = pool \cup {[claim |-> c, lls |-> PinnedLls(r, cur)]}
        /\ req' = [req EXCEPT ![r].pc = "sent", ![r].lls = PinnedLls(r, cur)]
  BY DEF SendPayout
<1> DEFINE lls == PinnedLls(r, cur)
           tx == [claim |-> c, lls |-> lls]
<1>2. /\ UNCHANGED <<rows, bound, claims, validated, landed, failed, rec>>
      /\ req[r].pc = "opened"
  BY DEF SendPayout, db
<1>3. lls \in Nat /\ lls <= req[r].lls /\ req[r].lls \in Nat
  BY ConstantsAssumption DEF PinnedLls, Lower, Views, ClaimTypeOK
<1>4. /\ c \in Opened /\ c \in ClaimIds
      /\ \A t \in pool : t.claim # c
      /\ \A q \in Requests : Busy(q) /\ req[q].claim = c => q = r
  BY <1>2 DEF OneRequest, Busy, Opened
<1>5. \A l \in landed : l.claim # c
  BY <1>4 DEF OnePayout
<1>6. /\ req'[r].pc = "sent" /\ req'[r].claim = c /\ req'[r].lls = lls
      /\ \A q \in Requests : q # r => req'[q] = req[q]
  BY <1>1 DEF ClaimTypeOK
<1>7. ClaimTypeOK'
  <2>1. req' \in [Requests -> RequestState]
    <3> DEFINE new == [req[r] EXCEPT !.pc = "sent", !.lls = lls]
    <3>1. req[r] \in RequestState /\ req' = [req EXCEPT ![r] = new]
      BY <1>1 DEF ClaimTypeOK
    <3>2. new \in RequestState
      BY <1>3, <3>1
    <3> QED BY <3>1, <3>2 DEF ClaimTypeOK
  <2> QED BY <1>1, <1>2, <1>3, <1>4, <2>1 DEF ClaimTypeOK
<1>8. OnePayout'
  BY <1>1, <1>2, <1>4 DEF OnePayout, Opened
<1>9. OneRequest'
  <2>1. \A q \in Requests : Busy(q)' => Busy(q) /\ req'[q].claim = req[q].claim
    BY <1>2, <1>6 DEF Busy
  <2>2. ASSUME NEW q \in Requests, req'[q].pc = "opened", NEW t \in pool'
        PROVE  t.claim # req'[q].claim
    <3>1. q # r /\ req[q].pc = "opened" /\ req'[q] = req[q]
      BY <1>6, <2>2
    <3>2. req[q].claim # c
      BY <1>4, <3>1 DEF Busy
    <3> QED BY <1>1, <3>1, <3>2 DEF OneRequest
  <2>3. ASSUME NEW q \in Requests, req'[q].pc = "sent"
        PROVE  [claim |-> req'[q].claim, lls |-> req'[q].lls] \in pool'
    <3>1. CASE q = r
      <4>1. [claim |-> req'[q].claim, lls |-> req'[q].lls] = tx
        BY <1>6, <3>1
      <4> QED BY <1>1, <4>1
    <3>2. CASE q # r
      <4>1. req'[q] = req[q] /\ req[q].pc = "sent"
        BY <1>6, <2>3, <3>2
      <4>2. [claim |-> req[q].claim, lls |-> req[q].lls] \in pool
        BY <4>1 DEF OneRequest
      <4>3. [claim |-> req'[q].claim, lls |-> req'[q].lls]
              = [claim |-> req[q].claim, lls |-> req[q].lls]
        BY <4>1
      <4> QED BY <1>1, <4>2, <4>3
    <3> QED BY <3>1, <3>2
  <2> QED BY <1>2, <2>1, <2>2, <2>3 DEF OneRequest, Opened
<1>10. DeadlineBounds'
  <2>1. lls <= claims[c].lls /\ \A s \in rec.todo : s.claim = c => lls <= s.lls
    <3>1. claims[c].lls \in Nat /\ \A s \in rec.todo : s.lls \in Nat
      BY <1>4 DEF ClaimTypeOK
    <3> QED BY <1>2, <1>3, <3>1 DEF DeadlineBounds
  <2>2. \A t \in pool' : t \in pool \/ t = tx
    BY <1>1
  <2> QED BY <1>2, <1>6, <2>1, <2>2 DEF DeadlineBounds, Opened
<1>11. ScanReaches'
  BY <1>2, <1>6 DEF ScanReaches
<1>12. Holds'
  <2>1. ASSUME NEW t \in pool', CanLand(t)' PROVE HasRows(t.claim)'
    <3>1. CASE t \in pool
      BY <1>2, <2>1, <3>1 DEF Holds, CanLand, LiveTx, Settled, HasRows
    <3>2. CASE t = tx
      <4>1. lls > validated
        BY <1>2, <1>5, <2>1, <3>2 DEF CanLand, LiveTx
      <4>2. req[r].lls > validated
        BY <1>3, <4>1 DEF ClaimTypeOK
      <4> QED BY <1>2, <3>2, <4>2 DEF Holds, HasRows
    <3> QED BY <1>1, <3>1, <3>2
  <2> QED BY <1>2, <1>6, <2>1 DEF Holds, HasRows
<1>13. BoundIsCovered' /\ RecoveryKnows' /\ ConfirmedIsBacked'
  BY <1>2 DEF BoundIsCovered, Opened, RecoveryKnows, ConfirmedIsBacked
<1> QED BY <1>7, <1>8, <1>9, <1>10, <1>11, <1>12, <1>13

(* Every write to an existing claim: it keeps the claim's rows and wallet, a
   deadline that still bounds its payout, and releases the rows only when
   nobody can pay the claim any more.                                       *)
NobodyPays(c) ==
    /\ \A t \in pool : t.claim = c => ~CanLand(t)
    /\ \A q \in Requests : req'[q].pc = "opened" /\ req'[q].claim = c => req[q].lls <= validated

RequestsOnlyAdvance ==
    /\ req' \in [Requests -> RequestState]
    /\ \A q \in Requests :
         \/ req'[q] = req[q]
         \/ req'[q].pc = "idle"
         \/ req'[q].pc = "recorded" /\ req[q].pc = "sent" /\ req'[q].claim = req[q].claim

RecoveryOnlyShrinks ==
    /\ rec' \in RecoveryState
    /\ rec'.index = rec.index /\ rec'.found = rec.found /\ rec'.absent = rec.absent
    /\ rec'.todo \subseteq rec.todo

GoodDeadline(c, lls) ==
    /\ lls \in Nat /\ lls <= validated + Generous
    /\ \A t \in pool : t.claim = c => t.lls <= lls
    /\ \A q \in Requests : req'[q].pc = "opened" /\ req'[q].claim = c => req'[q].lls <= lls
    /\ \A l \in landed : l.claim = c => lls < l.at + Generous

WritesClaim(c, state, lls) ==
    claims' = [claims EXCEPT ![c].state = state, ![c].lls = lls]

LEMMA ClaimWriteStep ==
  ASSUME IInv, UNCHANGED <<rows, payouts>>, RequestsOnlyAdvance, RecoveryOnlyShrinks,
         NEW c \in Opened,
         NEW state \in {"pending", "submitted", "confirmed", "failed"}, NEW lls,
         WritesClaim(c, state, lls), GoodDeadline(c, lls),
         state = "confirmed" /\ claims[c].state # "confirmed" => \E l \in landed : l.claim = c,
         \/ bound' = bound /\ (state = "failed" => claims[c].state = "failed")
         \/ /\ bound' = [k \in Keys |-> IF bound[k] = c THEN 0 ELSE bound[k]]
            /\ state = "failed" /\ NobodyPays(c)
  PROVE  IInv'
<1> USE DEF IInv
<1>1. UNCHANGED <<rows, validated, pool, landed, failed>>
  BY DEF payouts
<1>2. /\ c \in ClaimIds /\ claims[c] \in ClaimRow /\ c # 0 /\ c \in 0 .. MaxClaims
      /\ claims'[c] = [claims[c] EXCEPT !.state = state, !.lls = lls]
      /\ \A d \in ClaimIds : d # c => claims'[d] = claims[d]
  BY ConstantsAssumption DEF WritesClaim, ClaimTypeOK, Opened, ClaimIds
<1>3. /\ claims'[c].covers = claims[c].covers /\ claims'[c].state = state
      /\ claims'[c].lls = lls /\ lls \in Nat
  BY <1>2 DEF GoodDeadline
<1>4. Opened' = Opened
  BY <1>2, <1>3 DEF Opened
<1>5. ClaimTypeOK'
  <2>1. claims' \in [ClaimIds -> ClaimRow]
    <3> DEFINE new == [claims[c] EXCEPT !.state = state, !.lls = lls]
    <3>1. new \in ClaimRow
      BY <1>2, <1>3
    <3>2. claims' = [claims EXCEPT ![c] = new]
      BY <1>2 DEF WritesClaim, ClaimTypeOK
    <3> QED BY <3>1, <3>2 DEF ClaimTypeOK
  <2>2. bound' \in [Keys -> 0 .. MaxClaims]
    BY ConstantsAssumption DEF ClaimTypeOK
  <2> QED BY <1>1, <2>1, <2>2 DEF ClaimTypeOK, RequestsOnlyAdvance, RecoveryOnlyShrinks
<1>6. OnePayout'
  <2>1. \A t \in pool : claims'[t.claim].state # "none"
    <3>1. TAKE t \in pool
    <3>2. t.claim \in ClaimIds /\ claims[t.claim].state # "none"
      BY DEF ClaimTypeOK, OnePayout
    <3> QED BY <1>2, <1>3, <3>2
  <2> QED BY ONLY OnePayout, <1>1, <2>1 DEF OnePayout
<1>7. \A q \in Requests : /\ Busy(q)' => Busy(q) /\ req'[q].claim = req[q].claim
                          /\ req'[q].pc \in {"ready", "opened", "sent"} => req'[q] = req[q]
  BY DEF RequestsOnlyAdvance, Busy
<1>8. OneRequest'
  BY <1>1, <1>4, <1>7 DEF OneRequest, Busy
<1>9. DeadlineBounds'
  <2>1. ASSUME NEW t \in pool PROVE t.lls <= claims'[t.claim].lls
    <3>1. t.claim \in ClaimIds
      BY DEF ClaimTypeOK
    <3> QED BY <1>2, <1>3, <3>1 DEF DeadlineBounds, GoodDeadline
  <2>2. ASSUME NEW q \in Requests, req'[q].pc = "opened"
        PROVE  /\ req'[q] = req[q]
               /\ req'[q].lls <= claims'[req'[q].claim].lls
    <3>1. req'[q] = req[q] /\ req[q].claim \in ClaimIds
      BY <1>7, <2>2 DEF OneRequest, Busy, Opened
    <3>2. CASE req[q].claim = c
      BY <1>3, <2>2, <3>1, <3>2 DEF GoodDeadline
    <3>3. CASE req[q].claim # c
      BY <1>2, <2>2, <3>1, <3>3 DEF DeadlineBounds
    <3> QED BY <3>1, <3>2, <3>3
  <2> QED
    BY <1>1, <1>4, <2>1, <2>2 DEF DeadlineBounds, RecoveryOnlyShrinks
<1>10. ScanReaches'
  BY <1>1, <1>2, <1>3, <1>7 DEF ScanReaches, GoodDeadline, RecoveryOnlyShrinks, ClaimTypeOK
<1>11. ASSUME NEW d \in ClaimIds, HasRows(d),
              d = c => state # "failed"
       PROVE  HasRows(d)'
  <2>1. CASE d = c
    BY <1>3, <1>11, <2>1 DEF HasRows, ClaimTypeOK
  <2>2. CASE d # c
    <3>1. \A k \in claims[d].covers : k \in Keys /\ bound[k] = d
      BY <1>11 DEF HasRows, ClaimTypeOK
    <3> QED BY <1>2, <1>11, <2>2, <3>1 DEF HasRows
  <2> QED BY <2>1, <2>2
<1>12. Holds'
  <2>1. ASSUME NEW t \in pool, CanLand(t)' PROVE HasRows(t.claim)'
    <3>1. CanLand(t) /\ t.claim \in ClaimIds
      BY <1>1, <2>1 DEF CanLand, LiveTx, Settled, ClaimTypeOK
    <3>2. HasRows(t.claim)
      BY <3>1 DEF Holds
    <3>3. t.claim = c => state # "failed"
      BY <3>1, <3>2 DEF NobodyPays, HasRows
    <3> QED BY <1>11, <3>1, <3>2, <3>3
  <2>2. ASSUME NEW q \in Requests, req'[q].pc = "opened", req'[q].lls > validated'
        PROVE  HasRows(req[q].claim)' /\ req'[q].claim = req[q].claim
    <3>1. req'[q] = req[q] /\ req[q].claim \in ClaimIds
      BY <1>7, <2>2 DEF OneRequest, Busy, Opened
    <3>2. req[q].lls \in Nat /\ validated \in Nat
      BY DEF ClaimTypeOK
    <3>4. HasRows(req[q].claim)
      BY <1>1, <2>2, <3>1 DEF Holds
    <3>3. req[q].claim = c => state # "failed"
      BY <1>1, <2>2, <3>1, <3>2, <3>4 DEF NobodyPays, HasRows
    <3> QED BY <1>11, <3>1, <3>3, <3>4
  <2>3. ASSUME NEW q \in Requests, req'[q].pc = "opened", req'[q].lls > validated'
        PROVE  HasRows(req[q].claim)'
    BY <2>2, <2>3
  <2> QED BY <1>1, <2>1, <2>2 DEF Holds, HasRows
<1>13. BoundIsCovered'
  <2>1. ASSUME NEW k \in Keys, bound'[k] # 0
        PROVE  bound'[k] = bound[k]
    BY <2>1
  <2>2. \A d \in Opened : claims'[d].covers = claims[d].covers
    BY <1>2, <1>3 DEF Opened
  <2> QED BY <1>4, <2>1, <2>2 DEF BoundIsCovered
<1>14. RecoveryKnows'
  BY <1>1 DEF RecoveryKnows, RecoveryOnlyShrinks
<1>15. ConfirmedIsBacked'
  <2>1. ASSUME NEW d \in ClaimIds, claims'[d].state = "confirmed"
        PROVE  /\ \E l \in landed' : l.claim = d
               /\ {k \in Keys : bound'[k] = d} = claims'[d].covers
    <3>1. CASE d # c
      <4>1. claims'[d] = claims[d] /\ d # 0
        BY <1>2, <3>1, ConstantsAssumption DEF ClaimIds
      <4>2. \A k \in Keys : bound'[k] = d <=> bound[k] = d
        BY <3>1, <4>1
      <4> QED BY <1>1, <2>1, <4>1, <4>2 DEF ConfirmedIsBacked
    <3>2. CASE d = c
      <4>1. state = "confirmed" /\ bound' = bound
        BY <1>3, <2>1, <3>2
      <4>2. \E l \in landed : l.claim = c
        BY <1>2, <4>1 DEF ConfirmedIsBacked
      <4>3. PICK t \in pool : t.claim = c /\ CanLand(t)
        BY <4>2 DEF OnePayout, CanLand
      <4>4. \A k \in claims[c].covers : k \in Keys /\ bound[k] = c
        BY <1>2, <4>3 DEF Holds, HasRows
      <4>5. \A k \in Keys : bound[k] = c => k \in claims[c].covers
        BY <1>2 DEF BoundIsCovered
      <4> QED BY <1>1, <1>3, <3>2, <4>1, <4>2, <4>4, <4>5
    <3> QED BY <3>1, <3>2
  <2> QED BY <2>1 DEF ConfirmedIsBacked
<1> QED BY <1>5, <1>6, <1>8, <1>9, <1>10, <1>12, <1>13, <1>14, <1>15

(* The requests' writes. *)
LEMMA SettledIsDone ==
  ASSUME ClaimTypeOK, OnePayout, NEW c \in failed, NEW t \in pool, t.claim = c
  PROVE  ~CanLand(t)
BY DEF CanLand, LiveTx, Settled, OnePayout

LEMMA IdleIsARequest == Idle \in RequestState
BY ConstantsAssumption DEF Idle

LEMMA EndsRequest ==
  ASSUME IInv, NEW r \in Requests, req' = [req EXCEPT ![r] = Idle]
  PROVE  /\ RequestsOnlyAdvance
         /\ \A q \in Requests : req'[q].pc = "opened" => q # r /\ req'[q] = req[q]
BY IdleIsARequest DEF IInv, ClaimTypeOK, RequestsOnlyAdvance, Idle

LEMMA NobodyElseSends ==
  ASSUME IInv, NEW r \in Requests, req' = [req EXCEPT ![r] = Idle], Busy(r)
  PROVE  \A q \in Requests : req'[q].pc = "opened" => req'[q].claim # req[r].claim
<1> SUFFICES ASSUME NEW q \in Requests, req'[q].pc = "opened"
             PROVE  req'[q].claim # req[r].claim
  OBVIOUS
<1>1. q # r /\ req'[q] = req[q]
  BY EndsRequest
<1>2. Busy(q)
  BY <1>1 DEF Busy
<1> QED BY <1>1, <1>2 DEF IInv, OneRequest

LEMMA RecoveryUnchanged ==
  ASSUME IInv, UNCHANGED rec
  PROVE  RecoveryOnlyShrinks
BY DEF IInv, ClaimTypeOK, RecoveryOnlyShrinks

(* A claim keeps a good deadline as long as its own request, if it has not
   sent yet, is the one that writes. *)
LEMMA OldDeadline ==
  ASSUME IInv, RequestsOnlyAdvance, NEW c \in ClaimIds
  PROVE  GoodDeadline(c, claims[c].lls)
<1>1. claims[c].lls \in Nat /\ claims[c].lls <= validated + Generous
  BY DEF IInv, ClaimTypeOK, ScanReaches
<1>2. \A q \in Requests : req'[q].pc = "opened" => req'[q] = req[q]
  BY DEF RequestsOnlyAdvance
<1> QED BY <1>1, <1>2 DEF IInv, GoodDeadline, DeadlineBounds, ScanReaches

LEMMA NotSubmittedStep ==
  ASSUME IInv, NEW r \in Requests, NotSubmitted(r)
  PROVE  IInv'
<1> DEFINE c == req[r].claim
<1>1. /\ req[r].pc = "opened" /\ SettleFailed(c)
      /\ req' = [req EXCEPT ![r] = Idle] /\ UNCHANGED <<rows, payouts, rec>>
  BY DEF NotSubmitted
<1>2. c \in Opened /\ c \in ClaimIds
  BY <1>1 DEF IInv, OneRequest, Busy, Opened
<1>3. RequestsOnlyAdvance /\ RecoveryOnlyShrinks
  BY <1>1, EndsRequest, RecoveryUnchanged
<1>4. NobodyPays(c)
  <2>1. \A t \in pool : t.claim # c
    BY <1>1 DEF IInv, OneRequest
  <2>2. \A q \in Requests : req'[q].pc = "opened" => req'[q].claim # c
    BY <1>1, NobodyElseSends DEF Busy
  <2> QED BY <2>1, <2>2 DEF NobodyPays
<1>5. WritesClaim(c, "failed", claims[c].lls)
  BY <1>1, <1>2 DEF SettleFailed, WritesClaim, IInv, ClaimTypeOK
<1>6. GoodDeadline(c, claims[c].lls)
  BY <1>2, <1>3, OldDeadline
<1> QED BY <1>1, <1>2, <1>3, <1>4, <1>5, <1>6, ClaimWriteStep DEF SettleFailed

LEMMA UnexpectedErrorStep ==
  ASSUME IInv, NEW r \in Requests, UnexpectedError(r)
  PROVE  IInv'
<1> DEFINE c == req[r].claim
<1>1. PICK lls \in {v + Generous : v \in Views} \cup {claims[c].lls} :
        claims' = IF IndexAllows(c)
                  THEN [claims EXCEPT ![c].state = "submitted", ![c].lls = lls] ELSE claims
  BY DEF UnexpectedError
<1>2. /\ req[r].pc = "opened" /\ req' = [req EXCEPT ![r] = Idle]
      /\ UNCHANGED <<rows, bound, payouts, rec>>
  BY DEF UnexpectedError
<1>3. c \in Opened /\ c \in ClaimIds
  BY <1>2 DEF IInv, OneRequest, Busy, Opened
<1>4. RequestsOnlyAdvance /\ RecoveryOnlyShrinks
  BY <1>2, EndsRequest, RecoveryUnchanged
<1>5. GoodDeadline(c, claims[c].lls)
  BY <1>3, <1>4, OldDeadline
<1>6. GoodDeadline(c, lls)
  <2>1. lls \in Nat /\ lls <= validated + Generous
    BY <1>1, <1>5, ConstantsAssumption DEF Views, IInv, ClaimTypeOK, GoodDeadline
  <2>2. \A t \in pool : t.claim # c
    BY <1>2 DEF IInv, OneRequest
  <2>3. \A l \in landed : l.claim # c
    BY <2>2 DEF IInv, OnePayout
  <2>4. \A q \in Requests : req'[q].pc = "opened" => req'[q].claim # c
    BY <1>2, NobodyElseSends DEF Busy
  <2> QED BY <2>1, <2>2, <2>3, <2>4 DEF GoodDeadline
<1>7. CASE IndexAllows(c)
  <2>1. WritesClaim(c, "submitted", lls)
    BY <1>1, <1>7 DEF WritesClaim
  <2> QED BY <1>2, <1>3, <1>4, <1>6, <2>1, ClaimWriteStep
<1>8. CASE ~IndexAllows(c)
  <2>1. /\ WritesClaim(c, claims[c].state, claims[c].lls)
        /\ claims[c].state \in {"pending", "submitted", "confirmed", "failed"}
    BY <1>1, <1>3, <1>8 DEF WritesClaim, IInv, ClaimTypeOK, Opened
  <2> QED BY <1>2, <1>3, <1>4, <1>5, <2>1, ClaimWriteStep
<1> QED BY <1>7, <1>8

LEMMA RecordSubmissionStep ==
  ASSUME IInv, NEW r \in Requests, RecordSubmission(r)
  PROVE  IInv'
<1> DEFINE c == req[r].claim
           lls == req[r].lls
<1>1. req[r].pc = "sent" /\ UNCHANGED <<rows, bound, payouts, rec>>
  BY DEF RecordSubmission
<1>2. c \in Opened /\ c \in ClaimIds /\ lls \in Nat
  BY <1>1 DEF IInv, OneRequest, Busy, Opened, ClaimTypeOK
<1>3. RecoveryOnlyShrinks
  BY <1>1, RecoveryUnchanged
<1>4. CASE IndexAllows(c)
  <2>1. /\ req' = [req EXCEPT ![r].pc = "recorded", ![r].lls = 0]
        /\ WritesClaim(c, "submitted", lls)
    BY <1>4 DEF RecordSubmission, WritesClaim
  <2>2. RequestsOnlyAdvance
    <3> DEFINE new == [req[r] EXCEPT !.pc = "recorded", !.lls = 0]
    <3>1. req[r] \in RequestState /\ req' = [req EXCEPT ![r] = new]
      BY <2>1 DEF IInv, ClaimTypeOK
    <3>2. new \in RequestState /\ new.pc = "recorded" /\ new.claim = c
      BY <3>1
    <3> QED BY <1>1, <3>1, <3>2 DEF IInv, ClaimTypeOK, RequestsOnlyAdvance
  <2>3. [claim |-> c, lls |-> lls] \in pool
    BY <1>1 DEF IInv, OneRequest
  <2>4. \A t \in pool : t.claim = c => t.lls = lls
    BY <2>3 DEF IInv, OnePayout
  <2>5. lls <= claims[c].lls
    BY <2>3 DEF IInv, DeadlineBounds
  <2>6. \A q \in Requests : req'[q].pc = "opened" => req'[q].claim # c
    BY <1>1, <2>2 DEF IInv, OneRequest, Busy, RequestsOnlyAdvance
  <2>7. GoodDeadline(c, lls)
    <3>1. GoodDeadline(c, claims[c].lls) /\ claims[c].lls \in Nat
      BY <1>2, <2>2, OldDeadline DEF IInv, ClaimTypeOK
    <3>2. \A l \in landed : l.at \in Nat
      BY DEF IInv, ClaimTypeOK
    <3>3. validated \in Nat /\ Generous \in Nat
      BY ConstantsAssumption DEF IInv, ClaimTypeOK
    <3> QED BY <1>2, <2>4, <2>5, <2>6, <3>1, <3>2, <3>3 DEF GoodDeadline
  <2> QED BY <1>1, <1>2, <1>3, <2>1, <2>2, <2>7, ClaimWriteStep
<1>5. CASE ~IndexAllows(c)
  <2>1. req' = [req EXCEPT ![r] = Idle] /\ claims' = claims
    BY <1>5 DEF RecordSubmission
  <2>2. RequestsOnlyAdvance
    BY <2>1, EndsRequest
  <2>3. /\ WritesClaim(c, claims[c].state, claims[c].lls)
        /\ claims[c].state \in {"pending", "submitted", "confirmed", "failed"}
    BY <1>2, <2>1 DEF WritesClaim, IInv, ClaimTypeOK, Opened
  <2>4. GoodDeadline(c, claims[c].lls)
    BY <1>2, <2>2, OldDeadline
  <2> QED BY <1>1, <1>2, <1>3, <2>2, <2>3, <2>4, ClaimWriteStep
<1> QED BY <1>4, <1>5

LEMMA SettleOutcomeStep ==
  ASSUME IInv, NEW r \in Requests, SettleOutcome(r)
  PROVE  IInv'
<1> DEFINE c == req[r].claim
           old == claims[c].state
           lls == claims[c].lls
<1>1. /\ req[r].pc = "recorded" /\ req' = [req EXCEPT ![r] = Idle]
      /\ UNCHANGED <<rows, payouts, rec>>
  BY DEF SettleOutcome
<1>2. c \in Opened /\ c \in ClaimIds /\ old \in {"pending", "submitted", "confirmed", "failed"}
  BY <1>1 DEF IInv, OneRequest, Busy, Opened, ClaimTypeOK
<1>3. RequestsOnlyAdvance /\ RecoveryOnlyShrinks
  BY <1>1, EndsRequest, RecoveryUnchanged
<1>4. GoodDeadline(c, lls)
  BY <1>2, <1>3, OldDeadline
<1>5. CASE /\ \E l \in landed : l.claim = c
           /\ claims' = [claims EXCEPT ![c].state = "confirmed"] /\ UNCHANGED bound
  <2>1. WritesClaim(c, "confirmed", lls)
    BY <1>2, <1>5 DEF WritesClaim, IInv, ClaimTypeOK
  <2> QED BY <1>1, <1>2, <1>3, <1>4, <1>5, <2>1, ClaimWriteStep
<1>6. CASE c \in failed /\ SettleFailed(c)
  <2>1. WritesClaim(c, "failed", lls)
    BY <1>2, <1>6 DEF WritesClaim, SettleFailed, IInv, ClaimTypeOK
  <2>2. NobodyPays(c)
    <3>1. \A t \in pool : t.claim = c => ~CanLand(t)
      BY <1>6, SettledIsDone DEF IInv
    <3>2. \A q \in Requests : req'[q].pc = "opened" => req'[q].claim # c
      BY <1>1, NobodyElseSends DEF Busy
    <3> QED BY <3>1, <3>2 DEF NobodyPays
  <2> QED BY <1>1, <1>2, <1>3, <1>4, <1>6, <2>1, <2>2, ClaimWriteStep DEF SettleFailed
<1>7. CASE /\ claims' = IF IndexAllows(c)
                        THEN [claims EXCEPT ![c].state = "submitted"] ELSE claims
           /\ UNCHANGED bound
  <2>1. WritesClaim(c, "submitted", lls) \/ WritesClaim(c, old, lls)
    BY <1>2, <1>7 DEF WritesClaim, IInv, ClaimTypeOK
  <2>2. CASE WritesClaim(c, "submitted", lls)
    BY <1>1, <1>2, <1>3, <1>4, <1>7, <2>2, ClaimWriteStep
  <2>3. CASE WritesClaim(c, old, lls)
    BY <1>1, <1>2, <1>3, <1>4, <1>7, <2>3, ClaimWriteStep
  <2> QED BY <2>1, <2>2, <2>3
<1> QED BY <1>5, <1>6, <1>7 DEF SettleOutcome

-----------------------------------------------------------------------------
(* Recovery's steps. *)

(* Only the recovery pass moves, and what it holds is still right. *)
LEMMA RecoveryOnlyStep ==
  ASSUME IInv, UNCHANGED <<rows, db, payouts, req>>, rec' \in RecoveryState,
         RecoveryKnows', rec'.todo \subseteq rec.todo \cup OpenSnapshot
  PROVE  IInv'
<1> USE DEF IInv
<1>1. UNCHANGED <<rows, bound, claims, validated, pool, landed, failed, req>>
  BY DEF db, payouts
<1>2. ClaimTypeOK'
  BY <1>1 DEF ClaimTypeOK
<1>3. ASSUME NEW s \in OpenSnapshot
      PROVE  s.claim \in Opened /\ s.claim \in ClaimIds /\ s.lls = claims[s.claim].lls
  BY DEF OpenSnapshot, Opened
<1>4. OnePayout' /\ OneRequest' /\ BoundIsCovered' /\ ConfirmedIsBacked'
  BY <1>1 DEF OnePayout, OneRequest, Busy, Opened, BoundIsCovered, ConfirmedIsBacked
<1>5. DeadlineBounds'
  BY <1>1, <1>3 DEF DeadlineBounds, Opened
<1>6. ScanReaches'
  BY <1>1, <1>3 DEF ScanReaches
<1>7. Holds'
  BY <1>1 DEF Holds, HasRows, CanLand, LiveTx, Settled
<1> QED BY <1>2, <1>4, <1>5, <1>6, <1>7

LEMMA OpenSnapshotType ==
  ASSUME ClaimTypeOK
  PROVE  OpenSnapshot \subseteq [claim : ClaimIds, lls : Nat]
BY DEF OpenSnapshot, Opened, ClaimTypeOK

LEMMA RecoverReadStep ==
  ASSUME IInv, RecoverIndex \/ RecoverList \/ RecoverSelect \/ RecoverEnd
  PROVE  IInv'
<1>1. UNCHANGED <<rows, db, payouts, req>>
  BY DEF RecoverIndex, RecoverList, RecoverSelect, RecoverEnd
<1>2. UNCHANGED <<validated, landed>>
  BY <1>1 DEF payouts
<1>3. NoRec \in RecoveryState
  BY DEF NoRec
<1>4. CASE RecoverIndex
  <2>1. PICK idx \in Views : rec' = [NoRec EXCEPT !.pc = "indexed", !.index = idx]
    BY <1>4 DEF RecoverIndex
  <2>2. idx \in Nat /\ idx <= validated
    BY DEF Views, IInv, ClaimTypeOK
  <2>3. /\ rec' \in RecoveryState /\ rec'.todo = {} /\ rec'.index = idx
        /\ rec'.found = {} /\ rec'.absent = {}
    BY <1>3, <2>1, <2>2 DEF NoRec
  <2>4. RecoveryKnows'
    BY <1>2, <2>2, <2>3 DEF RecoveryKnows
  <2> QED BY <1>1, <2>3, <2>4, RecoveryOnlyStep
<1>5. CASE RecoverList \/ RecoverSelect
  <2>1. /\ rec' \in RecoveryState /\ rec'.todo = OpenSnapshot /\ rec'.index = rec.index
        /\ rec'.found = rec.found /\ rec'.absent = rec.absent
    BY <1>5, OpenSnapshotType DEF RecoverList, RecoverSelect, IInv, ClaimTypeOK
  <2>2. RecoveryKnows'
    BY <1>2, <2>1 DEF RecoveryKnows, IInv
  <2> QED BY <1>1, <2>1, <2>2, RecoveryOnlyStep
<1>6. CASE RecoverEnd
  <2>1. rec' = NoRec
    BY <1>6 DEF RecoverEnd
  <2>2. RecoveryKnows' /\ rec'.todo = {}
    BY <1>2, <2>1 DEF RecoveryKnows, NoRec, IInv, ClaimTypeOK
  <2> QED BY <1>1, <1>3, <2>1, <2>2, RecoveryOnlyStep
<1> QED BY <1>4, <1>5, <1>6

(* An absent answer from a server that has the index's ledger rules out
   every ledger up to the index: the payout could not be below the window. *)
LEMMA RecoverScanStep ==
  ASSUME IInv, MonotoneReads, RecoverScan
  PROVE  IInv'
<1>1. PICK s \in First(rec.todo) :
        rec' \in { [rec EXCEPT !.todo = @ \ {s}] }
              \cup {[rec EXCEPT !.todo = @ \ {s}, !.found = @ \cup {s.claim}] :
                      v \in {u \in ScanViews : Visible(s, u)}}
              \cup {[rec EXCEPT !.todo = @ \ {s}, !.absent = @ \cup {s.claim}] :
                      v \in {u \in ScanViews : ~Visible(s, u)}}
  BY DEF RecoverScan
<1>2. UNCHANGED <<rows, db, payouts, req>> /\ UNCHANGED <<validated, landed>>
  BY DEF RecoverScan, payouts
<1>3. s \in rec.todo /\ s.claim \in ClaimIds /\ s.lls \in Nat /\ rec \in RecoveryState
  BY DEF First, IInv, ClaimTypeOK
<1>4. CASE rec' = [rec EXCEPT !.todo = @ \ {s}]
  <2>1. rec' \in RecoveryState /\ rec'.todo \subseteq rec.todo
    BY <1>3, <1>4
  <2>2. RecoveryKnows'
    BY <1>2, <1>3, <1>4 DEF RecoveryKnows, IInv
  <2> QED BY <1>2, <2>1, <2>2, RecoveryOnlyStep
<1>5. ASSUME NEW v \in ScanViews, Visible(s, v),
             rec' = [rec EXCEPT !.todo = @ \ {s}, !.found = @ \cup {s.claim}]
      PROVE  IInv'
  <2>1. rec' \in RecoveryState /\ rec'.todo \subseteq rec.todo
    BY <1>3, <1>5
  <2>2. RecoveryKnows'
    BY <1>2, <1>3, <1>5 DEF RecoveryKnows, Visible, IInv
  <2> QED BY <1>2, <2>1, <2>2, RecoveryOnlyStep
<1>6. ASSUME NEW v \in ScanViews, ~Visible(s, v),
             rec' = [rec EXCEPT !.todo = @ \ {s}, !.absent = @ \cup {s.claim}]
      PROVE  IInv'
  <2>1. rec' \in RecoveryState /\ rec'.todo \subseteq rec.todo
    BY <1>3, <1>6
  <2>2. v >= rec.index /\ v \in Nat /\ rec.index \in Nat
    BY <1>3 DEF ScanViews, Views, IInv, ClaimTypeOK
  <2>3. ASSUME NEW l \in landed, l.claim = s.claim PROVE l.at > rec.index
    <3>1. l.at \in Nat /\ s.lls < l.at + Generous
      BY <1>3, <2>3 DEF IInv, ClaimTypeOK, ScanReaches
    <3>2. s.lls - Slack <= l.at
      BY <1>3, <3>1, ConstantsAssumption
    <3>3. ~(l.at <= v)
      BY <1>6, <2>3, <3>2 DEF Visible
    <3> QED BY <2>2, <3>1, <3>3
  <2>4. RecoveryKnows'
    <3>1. rec'.absent = rec.absent \cup {s.claim} /\ rec'.index = rec.index
          /\ rec'.found = rec.found
      BY <1>3, <1>6
    <3> QED BY <1>2, <2>3, <3>1 DEF RecoveryKnows, IInv
  <2> QED BY <1>2, <2>1, <2>4, RecoveryOnlyStep
<1> QED BY <1>1, <1>4, <1>5, <1>6

LEMMA RecoverSettleStep ==
  ASSUME IInv, RecoverSettle
  PROVE  IInv'
<1>1. PICK s \in First(rec.todo) :
        /\ rec' = [rec EXCEPT !.todo = @ \ {s}]
        /\ CASE s.claim \in rec.found ->
                  claims' = [claims EXCEPT ![s.claim].state = "confirmed"] /\ UNCHANGED bound
             [] s.claim \in rec.absent \ rec.found /\ rec.index > s.lls -> SettleFailed(s.claim)
             [] OTHER -> UNCHANGED db
  BY DEF RecoverSettle
<1> DEFINE c == s.claim
           lls == claims[c].lls
<1>2. UNCHANGED <<rows, payouts, req>>
  BY DEF RecoverSettle
<1>3. /\ s \in rec.todo /\ c \in Opened /\ c \in ClaimIds /\ s.lls \in Nat
      /\ claims[c].state \in {"pending", "submitted", "confirmed", "failed"}
  BY DEF First, IInv, ClaimTypeOK, DeadlineBounds, Opened
<1>4. RequestsOnlyAdvance
  BY <1>2 DEF RequestsOnlyAdvance, IInv, ClaimTypeOK
<1>5. RecoveryOnlyShrinks
  <2>1. rec \in RecoveryState
    BY DEF IInv, ClaimTypeOK
  <2> QED BY <1>1, <2>1 DEF RecoveryOnlyShrinks
<1>6. GoodDeadline(c, lls)
  BY <1>3, <1>4, OldDeadline
<1>7. CASE c \in rec.found
  <2>1. WritesClaim(c, "confirmed", lls) /\ bound' = bound
    BY <1>1, <1>3, <1>7 DEF WritesClaim, IInv, ClaimTypeOK
  <2>2. \E l \in landed : l.claim = c
    BY <1>7 DEF IInv, RecoveryKnows
  <2> QED BY <1>2, <1>3, <1>4, <1>5, <1>6, <2>1, <2>2, ClaimWriteStep
<1>8. CASE c \notin rec.found /\ c \in rec.absent /\ rec.index > s.lls
  <2>1. SettleFailed(c)
    BY <1>1, <1>8
  <2>2. WritesClaim(c, "failed", lls)
    BY <1>3, <2>1 DEF WritesClaim, SettleFailed, IInv, ClaimTypeOK
  <2>3. /\ rec.index \in Nat /\ validated \in Nat /\ rec.index <= validated
        /\ \A t \in pool : t.lls \in Nat
        /\ \A q \in Requests : req[q].lls \in Nat
        /\ \A l \in landed : l.at \in Nat
    BY DEF IInv, ClaimTypeOK, RecoveryKnows
  <2>4. ASSUME NEW t \in pool, t.claim = c PROVE ~CanLand(t)
    <3>1. t.lls <= s.lls
      BY <1>3, <2>4 DEF IInv, DeadlineBounds
    <3>2. t \notin LiveTx
      BY <1>3, <1>8, <2>3, <3>1 DEF LiveTx
    <3>3. ASSUME NEW l \in landed, l.claim = c PROVE FALSE
      <4>1. PICK u \in pool : u.claim = c /\ l.at <= u.lls
        BY <3>3 DEF IInv, OnePayout
      <4>2. u.lls <= s.lls
        BY <1>3, <4>1 DEF IInv, DeadlineBounds
      <4>3. l.at > rec.index
        BY <1>8, <3>3 DEF IInv, RecoveryKnows
      <4> QED BY <1>3, <1>8, <2>3, <4>1, <4>2, <4>3
    <3> QED BY <2>4, <3>2, <3>3 DEF CanLand
  <2>5. NobodyPays(c)
    <3>1. ASSUME NEW q \in Requests, req'[q].pc = "opened", req'[q].claim = c
          PROVE  req[q].lls <= validated
      <4>1. req[q].lls <= s.lls
        BY <1>2, <1>3, <3>1 DEF IInv, DeadlineBounds
      <4> QED BY <1>3, <1>8, <2>3, <4>1
    <3> QED BY <2>4, <3>1 DEF NobodyPays
  <2> QED BY <1>2, <1>3, <1>4, <1>5, <1>6, <2>1, <2>2, <2>5, ClaimWriteStep DEF SettleFailed
<1>9. CASE c \notin rec.found /\ ~(c \in rec.absent /\ rec.index > s.lls)
  <2>1. bound' = bound /\ claims' = claims
    BY <1>1, <1>9 DEF db
  <2>2. WritesClaim(c, claims[c].state, lls)
    BY <1>3, <2>1 DEF WritesClaim, IInv, ClaimTypeOK
  <2> QED BY <1>2, <1>3, <1>4, <1>5, <1>6, <2>1, <2>2, ClaimWriteStep
<1> QED BY <1>7, <1>8, <1>9

-----------------------------------------------------------------------------
LEMMA NextIInv ==
  ASSUME MonotoneReads, IInv, [ClaimNext]_claimVars
  PROVE  IInv'
<1>1. CASE Accrue
  BY <1>1, AccrueStep
<1>2. CASE CloseLedger
  BY <1>2, CloseLedgerStep
<1>3. CASE Request
  BY <1>3, RequestOnlyStep, OpenClaimStep, SendPayoutStep, NotSubmittedStep,
     UnexpectedErrorStep, RecordSubmissionStep, SettleOutcomeStep DEF Request
<1>4. CASE Recover
  BY <1>4, RecoverReadStep, RecoverScanStep, RecoverSettleStep DEF Recover
<1>5. CASE UNCHANGED claimVars
  BY <1>5 DEF claimVars, db, payouts, IInv, ClaimTypeOK, OnePayout, OneRequest, Busy, Opened,
              DeadlineBounds, ScanReaches, Holds, HasRows, CanLand, LiveTx, Settled,
              BoundIsCovered, RecoveryKnows, ConfirmedIsBacked
<1> QED BY <1>1, <1>2, <1>3, <1>4, <1>5 DEF ClaimNext

LEMMA IInvSafety == IInv => ClaimTypeOK /\ NoDoublePay /\ ConfirmedIsBacked /\ PayoutHoldsRows
<1> SUFFICES ASSUME IInv PROVE NoDoublePay /\ PayoutHoldsRows
  BY DEF IInv
<1>1. ASSUME NEW l \in landed, NEW k \in PaidFor(l) PROVE bound[k] = l.claim
  <2>1. PICK t \in pool : t.claim = l.claim
    BY DEF IInv, OnePayout
  <2>2. CanLand(t)
    BY <2>1 DEF CanLand
  <2> QED BY <2>1, <2>2 DEF IInv, Holds, HasRows, PaidFor
<1>2. NoDoublePay
  BY <1>1 DEF NoDoublePay, IInv, OnePayout
<1>3. PayoutHoldsRows
  BY DEF PayoutHoldsRows, IInv, Holds, HasRows
<1> QED BY <1>2, <1>3

(* The state of the claims engine is well formed, and everything its safety
   rests on (who may still pay a claim holds its rows) is invariant, for the
   code of open_claim, send_brix_claim, settle_claim and recover. *)
THEOREM InductiveInvariant == ASSUME MonotoneReads PROVE ClaimSpec => []IInv
<1>1. IInv /\ [ClaimNext]_claimVars => IInv'
  BY NextIInv
<1> QED BY <1>1, InitIInv, PTL DEF ClaimSpec

(* brix_drip.py's "a double-claim structurally impossible": however requests,
   crashes, late ledgers and recovery interleave, no accrual row is paid by
   two payouts, provided recovery's scan is not answered by a server behind
   the one that gave it the validated index. *)
THEOREM NeverClaimedTwice == ASSUME MonotoneReads PROVE ClaimSpec => []NoDoublePay
BY InductiveInvariant, IInvSafety, PTL

(* settle_claim and recover write "confirmed" only for a payout on the ledger
   and keep exactly the rows it covered bound to it. *)
THEOREM ConfirmedClaimsArePaid == ASSUME MonotoneReads PROVE ClaimSpec => []ConfirmedIsBacked
BY InductiveInvariant, IInvSafety, PTL

(* settle_claim("failed") and recover release no row whose payout landed or
   can still land. *)
THEOREM RowsStayBound == ASSUME MonotoneReads PROVE ClaimSpec => []PayoutHoldsRows
BY InductiveInvariant, IInvSafety, PTL

(* The claim tables, the ledger, the requests and the recovery pass keep
   their types through every step of the claims code. *)
THEOREM TypeCorrect == ASSUME MonotoneReads PROVE ClaimSpec => []ClaimTypeOK
BY InductiveInvariant, IInvSafety, PTL
=============================================================================

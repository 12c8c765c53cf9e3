---------------------------- MODULE BrixAccrual ----------------------------
(***************************************************************************)
(* The nightly BRIX accrual: one row per unlisted live token per closed    *)
(* UTC day, decided from the history archive, with a cursor that lets a    *)
(* missed or deferred night be caught up by the next one.                  *)
(*                                                                         *)
(* Code: lfg_core/brix_drip.py (run_archive_accrual, accrue_epoch,         *)
(* evaluate_epoch, record_accruals).  What an epoch's close looked like is *)
(* fixed (the archive replays it); what the job knows of it on a given     *)
(* night is not.  BrixClaims pays the rows out.                            *)
(***************************************************************************)
EXTENDS Integers, FiniteSets

CONSTANTS
    Holders, Tokens,
    LastDay,        \* bound: the days of the run are 1 .. LastDay
    DeferDen,       \* 1 / UNKNOWN_DEFER_FRACTION
    Listed, NoOwner

ASSUME AccrualAssumption ==
    /\ LastDay \in Nat
    /\ DeferDen \in Nat
    /\ IsFiniteSet(Tokens)
    /\ Listed \notin Holders /\ NoOwner \notin Holders

VARIABLES
    today,        \* UTC day; the epochs before it are closed
    closeState,   \* each epoch's close: a token's holder, or Listed
    cursor,       \* brix_meta.last_accrued_epoch (0: the day before the first)
    job,          \* the nightly job
    accruals      \* brix_accruals: <<epoch, token>> -> owner

accrualVars == <<today, closeState, cursor, job, accruals>>

Days      == 1 .. LastDay
EpochKeys == Days \X Tokens
Row(k)    == accruals[k] # NoOwner

AccrualTypeOK ==
    /\ today \in 1 .. LastDay + 1 /\ cursor \in 0 .. LastDay
    /\ closeState \in [EpochKeys -> Holders \cup {Listed}]
    /\ job \in [pc : {"idle", "walking", "written"}, epoch : 0 .. LastDay, last : 0 .. LastDay]
    /\ accruals \in [EpochKeys -> Holders \cup {NoOwner}]

AccrualInit ==
    /\ today = 1 /\ cursor = 0
    /\ closeState \in [EpochKeys -> Holders \cup {Listed}]
    /\ job = [pc |-> "idle", epoch |-> 0, last |-> 0]
    /\ accruals = [k \in EpochKeys |-> NoOwner]

-----------------------------------------------------------------------------
(* The nightly job, run_archive_accrual.                                    *)

MidnightPasses ==
    /\ today <= LastDay
    /\ today' = today + 1
    /\ UNCHANGED <<closeState, cursor, job, accruals>>

(* Mutant: the walk never reaches yesterday. *)
JobStartLate ==
    /\ job.pc = "idle" /\ cursor < today - 2
    /\ job' = [pc |-> "walking", epoch |-> cursor + 1, last |-> today - 2]
    /\ UNCHANGED <<today, closeState, cursor, accruals>>

(* epochs_to_accrue: from the day after the cursor up to yesterday. *)
JobStart ==
    /\ job.pc = "idle" /\ cursor < today - 1
    /\ job' = [pc |-> "walking", epoch |-> cursor + 1, last |-> today - 1]
    /\ UNCHANGED <<today, closeState, cursor, accruals>>

(* evaluate_epoch: unknown listing state never pays, and too much of it
   defers the epoch. *)
Payable(e) == {t \in Tokens : closeState[<<e, t>>] # Listed}
MustDefer(unknown) == Cardinality(unknown) * DeferDen > Cardinality(Tokens)

(* Mutant: the cursor moves past a deferred epoch. *)
JobDeferSkips ==
    /\ job.pc = "walking"
    /\ cursor' = job.epoch
    /\ job' = [job EXCEPT !.pc = "idle"]
    /\ UNCHANGED <<today, closeState, accruals>>

(* An epoch the archive cannot certify, or whose listing state is mostly
   unknown, stops the walk; the cursor stays behind it. *)
JobDefer ==
    /\ job.pc = "walking"
    /\ job' = [job EXCEPT !.pc = "idle"]
    /\ UNCHANGED <<today, closeState, cursor, accruals>>

(* record_accruals: INSERT OR IGNORE on (epoch, token), committed. *)
JobWrite ==
    /\ job.pc = "walking"
    /\ \E unknown \in SUBSET Tokens :
         /\ ~MustDefer(unknown)
         /\ accruals' = [k \in EpochKeys |->
              IF k[1] = job.epoch /\ k[2] \in Payable(job.epoch) \ unknown /\ ~Row(k)
              THEN closeState[k] ELSE accruals[k]]
    /\ job' = [job EXCEPT !.pc = "written"]
    /\ UNCHANGED <<today, closeState, cursor>>

(* set_meta(LAST_ACCRUED_EPOCH), a commit of its own; then the next epoch. *)
JobAdvance ==
    /\ job.pc = "written"
    /\ cursor' = job.epoch
    /\ job' = IF job.epoch < job.last
              THEN [job EXCEPT !.pc = "walking", !.epoch = @ + 1]
              ELSE [job EXCEPT !.pc = "idle"]
    /\ UNCHANGED <<today, closeState, accruals>>

JobCrash ==
    /\ job.pc # "idle"
    /\ job' = [job EXCEPT !.pc = "idle"]
    /\ UNCHANGED <<today, closeState, cursor, accruals>>

-----------------------------------------------------------------------------
AccrualNext == MidnightPasses \/ JobStart \/ JobDefer \/ JobWrite \/ JobAdvance \/ JobCrash

AccrualSpec == AccrualInit /\ [][AccrualNext]_accrualVars

(* Cron starts the job every night, a started job runs on, and the archive
   is certified and rederived sooner or later however often it defers. *)
AccrualFairness ==
    /\ WF_accrualVars(MidnightPasses) /\ WF_accrualVars(JobStart)
    /\ SF_accrualVars(JobWrite) /\ SF_accrualVars(JobAdvance)

FairAccrual == AccrualSpec /\ AccrualFairness

-----------------------------------------------------------------------------
(* Epochs are accrued in order, and one the cursor has passed lost at most
   the tolerated fraction of its tokens to unknown listing state. *)
Unpaid(e) == {t \in Payable(e) : ~Row(<<e, t>>)}
AccruedBehindCursor ==
    /\ \A e \in Days : e <= cursor => ~MustDefer(Unpaid(e))
    /\ \A k \in EpochKeys : Row(k) => k[1] <= cursor + 1 /\ k[1] < today

(* Every closed epoch is accrued in the end, whatever nights were missed. *)
EveryEpochAccrues == today > LastDay ~> cursor = LastDay
=============================================================================

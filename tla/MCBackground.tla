---------------------------- MODULE MCBackground ----------------------------
(* What the service must bring to an end without a user: a paid bulk job,  *)
(* a phase with an intent, the nightly accrual.  They share nothing, so in *)
(* a behavior one of them is at work and the two others are through.       *)
EXTENDS MCMinting, PinnedTx, BrixAccrual

VARIABLE atWork

PinnedThrough ==
    /\ validated = Horizon /\ pool = {} /\ landed = {} /\ failed = {}
    /\ intent = FALSE /\ deadline = 0 /\ done = FALSE
    /\ pc = "idle" /\ mine = NoTx /\ index = 0

AccrualThrough ==
    /\ today = LastDay + 1 /\ cursor = LastDay
    /\ closeState = [k \in EpochKeys |-> Listed]
    /\ job = [pc |-> "idle", epoch |-> 0, last |-> 0]
    /\ accruals = [k \in EpochKeys |-> NoOwner]

BackgroundInit ==
    /\ Init  \* no bulk job is paid yet
    /\ \/ atWork = "bulk"  /\ PinnedThrough /\ AccrualThrough
       \/ atWork = "phase" /\ PinnedInit /\ AccrualThrough
       \/ atWork = "night" /\ PinnedThrough /\ AccrualInit

BackgroundNext ==
    \/ atWork = "bulk"  /\ MintingStep /\ UNCHANGED <<pinnedVars, accrualVars, atWork>>
    \/ atWork = "phase" /\ PinnedNext  /\ UNCHANGED <<vars, accrualVars, atWork>>
    \/ atWork = "night" /\ AccrualNext /\ UNCHANGED <<vars, pinnedVars, atWork>>

BackgroundSpec ==
    /\ BackgroundInit
    /\ [][BackgroundNext]_<<vars, pinnedVars, accrualVars, atWork>>
    /\ Fairness /\ PinnedFairness /\ AccrualFairness
=============================================================================

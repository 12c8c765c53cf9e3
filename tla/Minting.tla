------------------------------ MODULE Minting -------------------------------
(***************************************************************************)
(* Paid minting: single sessions and bulk jobs, from the reservation of    *)
(* headroom through the payment watch and the units to the last release.   *)
(*                                                                         *)
(* A bulk job keeps a record on disk and is resumed after a restart; a     *)
(* single session lives in memory only.  Headroom is the store they both   *)
(* reserve from.  Sponsored sessions and burn-to-mint jobs are not part    *)
(* of this module.                                                         *)
(*                                                                         *)
(* Code: lfg_core/bulk_mint_flow.py, mint_flow.py, payment_ledger.py,      *)
(* mint_credits.py, the mint handlers of lfg_service/app.py.  Every action *)
(* is what the event loop runs between two awaits.                         *)
(***************************************************************************)
EXTENDS Headroom, Sequences

CONSTANTS
    Bulk, Single,      \* the claimants, by kind
    UnitMaxAttempts,   \* _UNIT_MAX_ATTEMPTS
    MaxFaults,         \* bound: failing writes, reads and unknown outcomes
    MaxCrashes         \* bound: restarts

NoToken == <<"none">>

\* A token is named by its claimant, the unit it is minted for and a number.
ASSUME MintingAssumption ==
    /\ Claimant = Bulk \cup Single /\ Bulk \cap Single = {}
    /\ \A c \in Claimant : Wanted[c] = 1..Cardinality(Wanted[c])
    /\ \A c \in Single : Wanted[c] = {1}
    /\ Token \subseteq Claimant \X Nat \X Nat /\ NoToken \notin Token
    /\ Owner = [t \in Token |-> t[1]]
    /\ UnitMaxAttempts \in Nat /\ MaxFaults \in Nat /\ MaxCrashes \in Nat

VARIABLES
    mem,       \* the live object of each session or job, with its task
    disk,      \* the record of each bulk job
    paid,      \* the payment of each: unasked, asked, landed, claimed
    credits,   \* mint_credits, by the unit that caused them
    flying,    \* mints submitted and not yet decided by the ledger
    faults, crashes

mvars == <<mem, disk, paid, credits, flying, faults, crashes>>
vars  == <<hvars, mvars>>

Terminal  == {"done", "failed", "timeout", "cancelled", "offer_ready", "gone"}
Resumable == {"awaiting", "fulfilling"}
Steps     == {"none", "admitting", "preparing", "waiting", "closing", "unit",
              "flying", "offering", "ended"}
UnitRows  == [st : {"pending", "minted", "offered", "failed"},
              nft : Token \cup {NoToken}]

\* Mutant: one unit too many.
FreshOneMore(n) == [u \in 1..(n + 1) |-> [st |-> "pending", nft |-> NoToken]]

Fresh(n) == [u \in 1..n |-> [st |-> "pending", nft |-> NoToken]]

\* A session before it is started; step names the await its task is in.
NoSession == [step |-> "none", st |-> "awaiting", units |-> Fresh(0), cur |-> 1,
              tries |-> 0, tok |-> NoToken, did |-> FALSE, stale |-> FALSE,
              holds |-> FALSE, backing |-> FALSE]
NoRecord == [st |-> "none", units |-> Fresh(0)]

Settled(m)  == \A u \in DOMAIN m.units : m.units[u].st \in {"offered", "failed"}
Minted(m)   == {m.units[u].nft : u \in DOMAIN m.units} \ {NoToken}
Pending(m)  == {u \in DOMAIN m.units : m.units[u].st = "pending"}

\* The unit the loop comes to at or after k; one past the last at its end.
NextUnit(m, k) ==
    CHOOSE n \in 1..(Len(m.units) + 1) :
        /\ n >= k \/ n = Len(m.units) + 1
        /\ n <= Len(m.units) => m.units[n].st \in {"pending", "minted"}
        /\ \A i \in k..(n - 1) : i <= Len(m.units) => m.units[i].st \in {"offered", "failed"}

TypeOK ==
    /\ HeadroomTypeOK
    /\ \A j \in Claimant :
        /\ mem[j].step \in Steps
        /\ mem[j].st \in Terminal \cup {"awaiting", "fulfilling"}
        /\ \A u \in DOMAIN mem[j].units : mem[j].units[u] \in UnitRows
        /\ Len(mem[j].units) <= Cardinality(Wanted[j])
        /\ mem[j].tok \in Token \cup {NoToken}
    /\ \A j \in Bulk : disk[j].st \in Terminal \cup Resumable \cup {"none"}
    /\ paid \in [Claimant -> {"unasked", "asked", "landed", "claimed"}]
    /\ credits \in [Claimant \X UNION {Wanted[c] : c \in Claimant} -> Nat]
    /\ flying \in SUBSET Token

Init ==
    /\ HeadroomInit
    /\ mem = [j \in Claimant |-> NoSession]
    /\ disk = [j \in Bulk |-> NoRecord]
    /\ paid = [j \in Claimant |-> "unasked"]
    /\ credits = [cu \in Claimant \X UNION {Wanted[c] : c \in Claimant} |-> 0]
    /\ flying = {}
    /\ faults = 0 /\ crashes = 0

-----------------------------------------------------------------------------
(* Writes that may fail.  None of them raises: the step goes on.           *)

\* Of the outcomes in oks, each FALSE is one fault.
Spend(oks) ==
    /\ faults' = faults + Cardinality({i \in DOMAIN oks : ~oks[i]})
    /\ faults' <= MaxFaults

\* persist: the whole record, or a flag that the one on disk is behind.
Persist(j, m, ok) ==
    IF j \in Bulk
    THEN /\ mem' = [mem EXCEPT ![j] = [m EXCEPT !.stale = ~ok]]
         /\ disk' = IF ok THEN [disk EXCEPT ![j] = [st |-> m.st, units |-> m.units]]
                    ELSE disk
    ELSE /\ mem' = [mem EXCEPT ![j] = m] /\ UNCHANGED disk

InMemory(j, m) == mem' = [mem EXCEPT ![j] = m] /\ UNCHANGED disk

\* release_job_headroom, settle_headroom of a session that has not minted.
GiveBack(j, ok) == IF ok THEN Release(j) ELSE UNCHANGED store

LedgerUnchanged == UNCHANGED <<indexed, minted, flying>>

-----------------------------------------------------------------------------
(* Admission.                                                              *)

\* The session is inserted, then reserves in a thread.
Insert(j) ==
    /\ j \in Single /\ mem[j].step = "none"
    /\ InMemory(j, [NoSession EXCEPT !.step = "admitting", !.units = Fresh(1)])
    /\ LedgerUnchanged
    /\ UNCHANGED <<store, lost, paid, credits, faults, crashes>>

\* A bulk job reserves before it is inserted and takes what it gets.  A store
\* error grants nothing, which leaves everything as it is.
Reserve(j) ==
    /\ mem[j].step = IF j \in Bulk THEN "none" ELSE "admitting"
    /\ TryReserve(j)
    /\ LET granted == Cardinality({s \in slots' : s[1] = j})
           up == [mem[j] EXCEPT !.step = "preparing", !.units = Fresh(granted),
                                !.holds = TRUE] IN
        \/ granted > 0 /\ InMemory(j, up)
        \/ granted = 0 /\ j \in Bulk /\ UNCHANGED <<mem, disk>>
        \/ /\ granted = 0 /\ j \in Single
           /\ InMemory(j, [mem[j] EXCEPT !.step = "ended",
                        !.st = IF @ = "awaiting" THEN "failed" ELSE @])
    /\ LedgerUnchanged
    /\ UNCHANGED <<lost, paid, credits, faults, crashes>>

\* The pre-flight or the payload refuses, or the handler itself is cancelled.
Refuse(j) ==
    /\ mem[j].step = "preparing"
    /\ \E ok \in BOOLEAN :
        /\ Spend(<<ok>>)
        /\ GiveBack(j, ok)
        /\ InMemory(j, [mem[j] EXCEPT !.step = "ended", !.holds = ~ok,
                                      !.st = IF @ = "awaiting" THEN "failed" ELSE @])
    /\ LedgerUnchanged
    /\ UNCHANGED <<lost, paid, credits, crashes>>

\* The payment request exists.  A job cancelled meanwhile goes no further; a
\* bulk job needs its record before anyone watches for the money.
Prepared(j) ==
    /\ mem[j].step = "preparing"
    /\ \E ok \in BOOLEAN :
        /\ Spend(<<ok>>)
        /\ \/ /\ mem[j].st # "awaiting"
              /\ IF j \in Single THEN GiveBack(j, ok) ELSE ok /\ UNCHANGED store
              /\ InMemory(j, [mem[j] EXCEPT !.step = "ended"])
              /\ UNCHANGED paid
           \/ /\ mem[j].st = "awaiting" /\ (ok \/ j \in Bulk)
              /\ IF ok
                 THEN /\ Persist(j, [mem[j] EXCEPT !.step = "waiting"], TRUE)
                      /\ paid' = [paid EXCEPT ![j] = "asked"]
                      /\ UNCHANGED store
                 ELSE /\ Release(j)
                      /\ InMemory(j, [mem[j] EXCEPT !.step = "ended", !.st = "failed"])
                      /\ UNCHANGED paid
    /\ LedgerUnchanged
    /\ UNCHANGED <<lost, credits, crashes>>

-----------------------------------------------------------------------------
(* The payment, its watch, and the cancel that races it.                   *)

Survives(j) == j \in Bulk /\ disk[j].st \in Resumable

\* The owner signs, at any time before the last watch is over; a payment after
\* that is for the record of late signatures, which is not modelled.
Pay(j) ==
    /\ paid[j] = "asked" /\ (mem[j].step = "waiting" \/ Survives(j))
    /\ paid' = [paid EXCEPT ![j] = "landed"]
    /\ LedgerUnchanged
    /\ UNCHANGED <<store, lost, mem, disk, credits, faults, crashes>>

\* The watch sees the payment and claims it in the ledger of consumed ones;
\* the websocket is closed, with an await, before the wait returns.
Claim(j) ==
    /\ mem[j].step = "waiting" /\ paid[j] = "landed"
    /\ paid' = [paid EXCEPT ![j] = "claimed"]
    /\ InMemory(j, [mem[j] EXCEPT !.step = "closing"])
    /\ LedgerUnchanged
    /\ UNCHANGED <<store, lost, credits, faults, crashes>>

Fulfil(m) == [m EXCEPT !.step = "unit", !.st = "fulfilling", !.cur = NextUnit(m, 1),
                       !.tries = 0, !.did = FALSE]

\* Paid: a bulk job persists PAID and FULFILLING in one stride.
WaitReturns(j) ==
    /\ mem[j].step = "closing"
    /\ \E ok \in BOOLEAN :
        Spend(<<ok>>) /\ (ok \/ j \in Bulk) /\ Persist(j, Fulfil(mem[j]), ok)
    /\ LedgerUnchanged
    /\ UNCHANGED <<store, lost, paid, credits, crashes>>

\* Mutant: only the watch is believed.
NeverClaimedHere(j) == FALSE

\* find_claimed: a miss is no proof, since a claim of the process before the
\* restart is hidden from the watch.
ClaimedHere(j) == j \in Bulk /\ paid[j] = "claimed"

\* The window is over.
WaitTimesOut(j) ==
    /\ mem[j].step = "waiting"
    /\ \E gave, wrote \in BOOLEAN :
        \/ /\ ClaimedHere(j) /\ gave
           /\ Spend(<<wrote>>)
           /\ Persist(j, Fulfil(mem[j]), wrote)
           /\ UNCHANGED store
        \/ /\ ~ClaimedHere(j) /\ (wrote \/ j \in Bulk)
           /\ Spend(<<gave, wrote>>)
           /\ GiveBack(j, gave)
           /\ Persist(j, [mem[j] EXCEPT !.step = "ended", !.st = "timeout", !.holds = ~gave],
                      wrote)
        \/ /\ j \in Bulk /\ gave /\ ~wrote   \* the ledger cannot be read
           /\ Spend(<<FALSE>>)
           /\ Persist(j, [mem[j] EXCEPT !.step = "ended"], TRUE)
           /\ UNCHANGED store
    /\ LedgerUnchanged
    /\ UNCHANGED <<lost, paid, credits, crashes>>

\* _refuse_cancel_if_paid: before a payload exists there is nothing to read;
\* after that only an unclaimed payment refuses.
CancelCheck(j) ==
    /\ mem[j].step # "none" /\ mem[j].st = "awaiting" /\ ~mem[j].backing
    /\ paid[j] # "landed"
    /\ InMemory(j, [mem[j] EXCEPT !.backing = TRUE])
    /\ LedgerUnchanged
    /\ UNCHANGED <<store, lost, paid, credits, faults, crashes>>

CancelRefused(j) == mem[j].st # "awaiting" \/ ClaimedHere(j)

\* cancel(), after the history read: one synchronous step.  The record is
\* deleted or overwritten; if the disk refuses both it stays as it was.
CancelCommit(j) ==
    /\ mem[j].backing
    /\ \E gave, wrote \in BOOLEAN :
        \/ /\ CancelRefused(j) /\ gave /\ wrote
           /\ InMemory(j, [mem[j] EXCEPT !.backing = FALSE])
           /\ UNCHANGED <<store, faults>>
        \/ /\ ~CancelRefused(j) /\ (wrote \/ (j \in Bulk /\ disk[j] # NoRecord))
           /\ Spend(<<gave, wrote>>)
           /\ IF mem[j].holds THEN GiveBack(j, gave) ELSE gave /\ UNCHANGED store
           /\ mem' = [mem EXCEPT ![j].st = "cancelled", ![j].backing = FALSE,
                      ![j].holds = @ /\ ~gave,
                      ![j].step = IF @ \in {"waiting", "closing"} THEN "ended" ELSE @]
           /\ disk' = IF wrote /\ j \in Bulk THEN [disk EXCEPT ![j] = NoRecord] ELSE disk
    /\ LedgerUnchanged
    /\ UNCHANGED <<lost, paid, credits, crashes>>

-----------------------------------------------------------------------------
(* The units of a paid session.                                            *)

\* The job's record is behind and a unit was delivered since: no further unit
\* before a write goes through.
Paused(j) == mem[j].stale /\ mem[j].did /\ mem[j].cur <= Len(mem[j].units)

RetryPersist(j) ==
    /\ mem[j].step = "unit" /\ Paused(j)
    /\ \E ok \in BOOLEAN :
        /\ Spend(<<ok>>)
        /\ Persist(j, IF ok THEN mem[j] ELSE [mem[j] EXCEPT !.step = "ended"], ok)
    /\ LedgerUnchanged
    /\ UNCHANGED <<store, lost, paid, credits, crashes>>

AtUnit(j, st) ==
    /\ mem[j].step = "unit" /\ ~Paused(j) /\ mem[j].cur <= Len(mem[j].units)
    /\ mem[j].units[mem[j].cur].st = st

TokenFor(j) ==
    LET u == mem[j].cur
        free == {t \in Token \ (flying \cup minted) : t[1] = j /\ t[2] = u} IN
    IF free = {} THEN NoToken ELSE CHOOSE t \in free : \A s \in free : t[3] <= s[3]

MaySubmit(j) == j \in Single \/ (mem[j].tries < UnitMaxAttempts /\ Held(j) >= 1)

Submit(j) ==
    /\ AtUnit(j, "pending") /\ MaySubmit(j)
    /\ TokenFor(j) # NoToken
    /\ flying' = flying \cup {TokenFor(j)}
    /\ InMemory(j, [mem[j] EXCEPT !.step = "flying", !.tok = TokenFor(j)])
    /\ UNCHANGED <<store, indexed, minted, lost, paid, credits, faults, crashes>>

\* The reservation cannot be read: never minted under, costs an attempt.
HeldUnread(j) ==
    /\ j \in Bulk /\ AtUnit(j, "pending") /\ mem[j].tries < UnitMaxAttempts
    /\ Spend(<<FALSE>>)
    /\ InMemory(j, [mem[j] EXCEPT !.tries = @ + 1])
    /\ LedgerUnchanged
    /\ UNCHANGED <<store, lost, paid, credits, crashes>>

\* Anything else that raises, the numbering of editions for one: after the
\* payment a job is parked, never failed; a single session fails.
Raise(j) ==
    /\ mem[j].step = "unit" /\ ~Paused(j)
    /\ \E gave, wrote \in BOOLEAN :
        /\ Spend(<<FALSE, gave, wrote>>)
        /\ IF j \in Bulk
           THEN /\ gave /\ UNCHANGED store
                /\ Persist(j, [mem[j] EXCEPT !.step = "ended"], wrote)
           ELSE /\ wrote /\ GiveBack(j, gave)
                /\ InMemory(j, [mem[j] EXCEPT !.step = "ended", !.st = "failed",
                                              !.holds = ~gave])
    /\ LedgerUnchanged
    /\ UNCHANGED <<lost, paid, credits, crashes>>

\* Mutant: the record is written before the unit is marked.
MintConfirmedLate(j) ==
    /\ mem[j].step = "flying" /\ mem[j].tok \in minted
    /\ Retire(mem[j].tok)
    /\ disk' = IF j \in Bulk THEN [disk EXCEPT ![j] = [st |-> mem[j].st, units |-> mem[j].units]]
               ELSE disk
    /\ mem' = [mem EXCEPT ![j].step = "offering", ![j].tok = NoToken,
                ![j].units[mem[j].cur] = [st |-> "minted", nft |-> mem[j].tok]]
    /\ LedgerUnchanged
    /\ UNCHANGED <<lost, paid, credits, faults, crashes>>

\* _on_mint, _on_paid_mint: the unit is recorded first, then its slot becomes
\* a pending row.  A single session keeps its flag for a second try.
MintConfirmed(j) ==
    /\ mem[j].step = "flying" /\ mem[j].tok \in minted
    /\ \E wrote, retired \in BOOLEAN :
        /\ Spend(<<wrote, retired>>) /\ (wrote \/ j \in Bulk)
        /\ IF retired THEN Retire(mem[j].tok) ELSE UNCHANGED store
        /\ Persist(j, [mem[j] EXCEPT
                        !.step = "offering", !.tok = NoToken, !.holds = j \in Bulk \/ ~retired,
                        !.units[mem[j].cur] = [st |-> "minted", nft |-> mem[j].tok]], wrote)
    /\ LedgerUnchanged
    /\ UNCHANGED <<lost, paid, credits, crashes>>

\* Mutant: failed attempts are not counted.
NoMintUncounted(j, unknown) ==
    /\ mem[j].step = "flying" /\ j \in Bulk /\ ~unknown
    /\ mem[j].tok \notin flying \cup minted
    /\ InMemory(j, [mem[j] EXCEPT !.step = "unit", !.tok = NoToken])
    /\ LedgerUnchanged
    /\ UNCHANGED <<store, lost, paid, credits, faults, crashes>>

\* mint_one_unit gives no token: a bulk unit is tried again, a single session
\* fails and settles.  An unknown outcome takes the same way as a failed one,
\* so the mint that is still about loses its slot or meets a second one.
NoMint(j, unknown) ==
    /\ mem[j].step = "flying"
    /\ unknown \/ mem[j].tok \notin flying \cup minted
    /\ \E gave \in BOOLEAN :
        /\ Spend(<<gave, ~unknown>>)
        /\ IF j \in Bulk
           THEN /\ gave /\ UNCHANGED store
                /\ InMemory(j, [mem[j] EXCEPT !.step = "unit", !.tok = NoToken,
                                              !.tries = @ + 1])
           ELSE /\ GiveBack(j, gave)
                /\ InMemory(j, [mem[j] EXCEPT !.step = "ended", !.tok = NoToken,
                                              !.st = "failed", !.holds = ~gave])
    /\ lost' = (lost \/ unknown)
    /\ LedgerUnchanged
    /\ UNCHANGED <<paid, credits, crashes>>

\* The unit is done with, or left as it is: on to the next.
Onward(j, m, ok) ==
    Persist(j, [m EXCEPT !.step = "unit", !.did = TRUE, !.tries = 0,
                         !.cur = NextUnit(m, m.cur + 1)], ok)

\* After the mint, or at a unit minted before: the offer is folded, adopted,
\* created or fails, which leaves the unit for the last pass.
Offer(j) ==
    /\ j \in Bulk /\ (mem[j].step = "offering" \/ AtUnit(j, "minted"))
    /\ \E offered, wrote \in BOOLEAN :
        /\ Spend(<<offered, wrote>>)
        /\ Onward(j, IF offered THEN [mem[j] EXCEPT !.units[mem[j].cur].st = "offered"]
                     ELSE mem[j], wrote)
    /\ LedgerUnchanged
    /\ UNCHANGED <<store, lost, paid, credits, crashes>>

\* A single session ends with its offer and settles again if it has to.
EndSession(j) ==
    /\ j \in Single /\ mem[j].step = "offering"
    /\ \E offered, retired \in BOOLEAN :
        /\ Spend(<<offered, retired>>) /\ (retired \/ mem[j].holds)
        /\ IF mem[j].holds /\ retired THEN Retire(mem[j].units[1].nft) ELSE UNCHANGED store
        /\ InMemory(j, [mem[j] EXCEPT !.step = "ended", !.holds = @ /\ ~retired,
                                      !.st = IF offered THEN "offer_ready" ELSE "failed"])
    /\ LedgerUnchanged
    /\ UNCHANGED <<lost, paid, credits, crashes>>

\* Attempts or reservation used up: a durable credit instead, and the slot
\* back.  A credit that cannot be written leaves the unit for a restart.
Credit(j) ==
    /\ AtUnit(j, "pending") /\ ~MaySubmit(j)
    /\ \E credited, wrote \in BOOLEAN :
        /\ Spend(<<credited, wrote>>)
        /\ IF credited
           THEN /\ credits' = [credits EXCEPT ![<<j, mem[j].cur>>] = @ + 1]
                /\ ReleaseOne(j)
                /\ Onward(j, [mem[j] EXCEPT !.units[mem[j].cur].st = "failed"], wrote)
           ELSE /\ UNCHANGED <<credits, store>>
                /\ Onward(j, mem[j], wrote)
    /\ LedgerUnchanged
    /\ UNCHANGED <<lost, paid, crashes>>

\* The hand-over of some unit failed when it was minted.
HandoverMissed(j) == Minted(mem[j]) \ handed # {}

\* Every unit that has its token has an offer too.
Reoffered(m) == [m EXCEPT !.units =
    [u \in DOMAIN @ |-> IF @[u].st = "minted" THEN [@[u] EXCEPT !.st = "offered"] ELSE @[u]]]

\* The last re-offer pass, the events, and the end: done only with every unit
\* settled, every event out and the record written; otherwise left to resume.
Finish(j) ==
    /\ j \in Bulk /\ mem[j].step = "unit" /\ mem[j].cur > Len(mem[j].units)
    /\ \E offered, published, gave, wrote \in BOOLEAN :
        LET m == IF offered THEN Reoffered(mem[j]) ELSE mem[j]
            done == Settled(m) /\ published IN
        /\ Spend(<<offered, published, gave, wrote>>)
        /\ IF done THEN GiveBack(j, gave) ELSE gave /\ UNCHANGED store
        /\ lost' = (lost \/ (done /\ gave /\ HandoverMissed(j)))
        /\ Persist(j, [m EXCEPT !.step = "ended", !.did = FALSE,
                                !.st = IF done /\ wrote THEN "done" ELSE @], wrote)
    /\ LedgerUnchanged
    /\ UNCHANGED <<paid, credits, crashes>>

-----------------------------------------------------------------------------
(* The process.                                                            *)

\* Mutant: every unit of a survivor keeps a slot.
SlotsForAll(j, n) == {j} \X Wanted[j]

\* The slots rebuild writes for a survivor: a number, so any of the right size.
SlotsFor(j, n) ==
    CHOOSE S \in SUBSET ({j} \X Wanted[j]) :
        Cardinality(S) = n /\ (S \subseteq HeldBy(j) \/ HeldBy(j) \subseteq S)

\* What a restart cannot know: a mint on its way, a mint or an end that did
\* not reach the record, a slot nobody resumes whose mint is not pending.
Unrecorded(j) ==
    \/ mem[j].step = "flying"
    \/ j \in Bulk /\ mem[j].stale
    \/ Survives(j) /\ mem[j].st \in Terminal
    \/ ~Survives(j) /\ HandoverMissed(j)

\* The process dies; the next one rebuilds the reservations and resumes the
\* records before it serves.  A rebuild that fails leaves the store as it is.
Restart ==
    /\ crashes < MaxCrashes /\ crashes' = crashes + 1
    /\ mem' = [j \in Claimant |->
        IF mem[j].step = "none" THEN NoSession
        ELSE IF ~Survives(j) THEN [NoSession EXCEPT !.step = "ended", !.st = "gone"]
        ELSE LET m == [NoSession EXCEPT !.st = disk[j].st, !.units = disk[j].units,
                                        !.holds = TRUE] IN
             IF m.st = "awaiting" THEN [m EXCEPT !.step = "waiting"] ELSE Fulfil(m)]
    /\ \E ok \in BOOLEAN :
        /\ Spend(<<ok>>)
        /\ IF ok THEN Rebuild(UNION {SlotsFor(j, Cardinality(Pending(disk[j]))) :
                                        j \in {b \in Bulk : Survives(b)}},
                              UNION {Minted(disk[j]) : j \in {b \in Bulk : Survives(b)}})
           ELSE UNCHANGED store
    /\ lost' = (lost \/ \E j \in Claimant : Unrecorded(j))
    /\ LedgerUnchanged
    /\ UNCHANGED <<disk, paid, credits>>

\* The ledger decides a submitted mint, the listener sees it.
Land(t) ==
    /\ t \in flying /\ Mint(t) /\ flying' = flying \ {t}
    /\ UNCHANGED <<store, indexed, lost, mem, disk, paid, credits, faults, crashes>>

Expire(t) ==
    /\ t \in flying /\ flying' = flying \ {t}
    /\ UNCHANGED <<hvars, mem, disk, paid, credits, faults, crashes>>

Listen(t) == Index(t) /\ UNCHANGED <<store, minted, lost, mvars>>

-----------------------------------------------------------------------------
Task(j) ==
    \/ Reserve(j) \/ Refuse(j) \/ Prepared(j)
    \/ Claim(j) \/ WaitReturns(j) \/ WaitTimesOut(j)
    \/ RetryPersist(j) \/ Submit(j) \/ HeldUnread(j) \/ Raise(j) \/ MintConfirmed(j)
    \/ \E unknown \in BOOLEAN : NoMint(j, unknown)
    \/ Offer(j) \/ EndSession(j) \/ Credit(j) \/ Finish(j)

Next ==
    \/ \E j \in Claimant :
        Insert(j) \/ Task(j) \/ Pay(j) \/ CancelCheck(j) \/ CancelCommit(j)
    \/ \E t \in Token : Land(t) \/ Expire(t) \/ Listen(t)
    \/ Restart

Spec == Init /\ [][Next]_vars

\* The task of a bulk job runs on, and the ledger decides what was submitted.
Fairness ==
    /\ \A j \in Bulk : WF_vars(mem[j].step # "none" /\ Task(j))
    /\ WF_vars(\E t \in Token : Land(t) \/ Expire(t))

FairSpec == Spec /\ Fairness

-----------------------------------------------------------------------------
(* While nobody has lost track of a unit, sessions and jobs use the store  *)
(* of reservations as it asks to be used: nothing is minted without a      *)
(* slot, no slot is given back for a mint that is not yet pending, and a   *)
(* restart keeps what it must.                                             *)
UsesHeadroomWell == HeadroomSpec

(* Money a bulk job claimed is never dropped: its record can be resumed,   *)
(* or every unit of it has become a token or a credit.  This is what       *)
(* find_claimed, the refused cancel and the PAID exception path are for.   *)
PaidIsHonoured ==
    \A j \in Bulk : paid[j] = "claimed" =>
        \/ disk[j].st \in Resumable
        \/ /\ disk[j].st = "done"
           /\ \A u \in DOMAIN disk[j].units :
                disk[j].units[u].nft \in minted \/ credits[<<j, u>>] > 0

(* A unit is settled once: it never becomes two tokens, two credits, or a  *)
(* token and a credit, unless an unknown outcome was taken for a failure   *)
(* or the process died while a record was behind.                          *)
SettledOnce ==
    lost \/ \A j \in Claimant : \A u \in Wanted[j] :
        Cardinality({t \in minted : t[1] = j /\ t[2] = u}) + credits[<<j, u>>] <= 1

(* The same without the excuse, as the comments on the retry and on the    *)
(* resume have it.                                                         *)
MintedOnce ==
    \A j \in Claimant : \A u \in Wanted[j] :
        Cardinality({t \in minted : t[1] = j /\ t[2] = u}) <= 1

(* A claimed bulk payment is worked off: every unit is settled, or the job *)
(* is parked with its record for a restart.                                *)
PaidIsWorkedOff ==
    \A j \in Bulk : paid[j] = "claimed" ~>
        mem[j].step = "ended" /\ disk[j].st \in {"done", "fulfilling", "awaiting"}
=============================================================================

------------------------------ MODULE Headroom ------------------------------
(***************************************************************************)
(* The store of headroom reservations that keeps the collection within     *)
(* MAX_COLLECTION_SIZE although the index of minted tokens lags the        *)
(* ledger.  Every admitted unit is to be counted in one place at every     *)
(* moment: as a reserved slot, as a pending row, or in the index.          *)
(*                                                                         *)
(* Code: lfg_core/headroom.py, lfg_core/supply.py.  Each operation is one  *)
(* BEGIN IMMEDIATE transaction of the app database; the index is another   *)
(* database, written by the listener's process at any time.  The actions   *)
(* say what the store does; the guards of Next are what the callers owe    *)
(* it, and Minting shows that they pay.                                    *)
(***************************************************************************)
EXTENDS Integers, FiniteSets

CONSTANTS
    Claimant,   \* jobs ("bulk:<id>") and single sessions ("mint:<id>")
    Token,      \* identities of the tokens that may ever be minted
    Owner,      \* the claimant for which a token is minted
    Wanted,     \* the slots a claimant asks for, one per unit
    Max         \* MAX_COLLECTION_SIZE, less what is indexed when the model starts

ASSUME HeadroomAssumption ==
    /\ Owner \in [Token -> Claimant]
    /\ Max \in Nat
    /\ \A c \in Claimant : IsFiniteSet(Wanted[c])

VARIABLES
    slots,     \* headroom_reservations: <<claimant, slot>>; the column counts them
    pending,   \* headroom_pending
    handed,    \* history: the tokens that were ever entered in headroom_pending
    indexed,   \* onchain_nfts, as far as the listener has come
    minted,    \* tokens on the ledger
    lost       \* history: some caller lost track of a unit

store == <<slots, pending, handed>>
hvars == <<store, indexed, minted, lost>>

HeldBy(c)   == {s \in slots : s[1] = c}
Held(c)     == Cardinality(HeldBy(c))
Unhanded(c) == {t \in minted \ handed : Owner[t] = c}

HeadroomTypeOK ==
    /\ slots \in SUBSET (UNION {{c} \X Wanted[c] : c \in Claimant})
    /\ pending \in SUBSET Token
    /\ handed \in SUBSET Token
    /\ indexed \in SUBSET minted
    /\ minted \in SUBSET Token
    /\ lost \in BOOLEAN

HeadroomInit ==
    /\ slots = {} /\ pending = {} /\ handed = {}
    /\ indexed = {} /\ minted = {}
    /\ lost = FALSE

-----------------------------------------------------------------------------
(* The transactions of the store.                                          *)

\* Mutant: the supply is read before the prune.
AvailableReadFirst(seen) ==
    Max - Cardinality(seen) - Cardinality(slots) - Cardinality(pending \ indexed)

\* What is left for new grants: the index is pruned against first and counted
\* second, so the prune may have seen less of it (`seen`) than the count does.
Available(seen) ==
    Max - Cardinality(indexed) - Cardinality(slots) - Cardinality(pending \ seen)

\* try_reserve: tops the claimant's row up as far as the room goes.
TryReserve(c) ==
    \E seen \in SUBSET indexed :
        \E new \in SUBSET (({c} \X Wanted[c]) \ slots) :
            /\ \/ Cardinality(new) = Available(seen)
               \/ /\ Cardinality(new) <= Available(seen)
                  /\ new = ({c} \X Wanted[c]) \ slots
               \/ /\ Available(seen) <= 0
                  /\ new = {}
            /\ slots' = slots \cup new
            /\ pending' = pending \ seen
            /\ UNCHANGED handed

Release(c) ==
    /\ slots' = slots \ HeldBy(c)
    /\ UNCHANGED <<pending, handed>>

\* One unit less; which of the claimant's slots it was is not recorded.
DropSlot(c) ==
    IF HeldBy(c) = {} THEN slots' = slots
    ELSE slots' = slots \ {CHOOSE s \in HeldBy(c) : TRUE}

ReleaseOne(c) == DropSlot(c) /\ UNCHANGED <<pending, handed>>

\* retire_to_pending: inserts the row, decrements only if it is new.
Retire(t) ==
    /\ IF t \in pending THEN slots' = slots ELSE DropSlot(Owner[t])
    /\ pending' = pending \cup {t}
    /\ handed' = handed \cup {t}

\* rebuild: rows that no surviving job backs are dropped, the others hold what
\* their records still need, recorded mints are entered again.
Rebuild(keep, recorded) ==
    /\ slots' = keep
    /\ pending' = pending \cup recorded
    /\ handed' = handed \cup recorded

-----------------------------------------------------------------------------
Mint(t) ==
    /\ t \notin minted
    /\ minted' = minted \cup {t}

Index(t) ==
    /\ t \in minted \ indexed
    /\ indexed' = indexed \cup {t}

(* What a caller may do, while none has lost track of a unit.              *)
ReserveStep(c) == TryReserve(c) /\ UNCHANGED <<indexed, minted, lost>>

ReleaseStep(c) ==
    /\ Unhanded(c) = {}
    /\ Release(c)
    /\ UNCHANGED <<indexed, minted, lost>>

ReleaseOneStep(c) ==
    /\ Cardinality(Unhanded(c)) < Held(c)
    /\ ReleaseOne(c)
    /\ UNCHANGED <<indexed, minted, lost>>

MintStep(t) ==
    /\ Cardinality(Unhanded(Owner[t])) < Held(Owner[t])
    /\ Mint(t)
    /\ UNCHANGED <<store, indexed, lost>>

RetireStep(t) ==
    /\ t \in minted \ handed
    /\ Retire(t)
    /\ UNCHANGED <<indexed, minted, lost>>

IndexStep(t) == Index(t) /\ UNCHANGED <<store, minted, lost>>

\* A restart keeps a slot for each unit that still needs one and enters each
\* recorded mint whose hand-over was cut short, which frees a slot.
RebuildStep(keep, recorded) ==
    /\ keep \subseteq slots
    /\ recorded \subseteq minted
    /\ \A c \in Claimant :
        LET entered == {t \in recorded \ handed : Owner[t] = c}
            kept    == {s \in keep : s[1] = c} IN
        /\ Cardinality(kept) + Cardinality(entered) <= Held(c)
        /\ Unhanded(c) \subseteq entered
    /\ Rebuild(keep, recorded)
    /\ UNCHANGED <<indexed, minted, lost>>

LoseTrack == lost' = TRUE

HeadroomNext ==
    \/ \E c \in Claimant : ReserveStep(c) \/ ReleaseStep(c) \/ ReleaseOneStep(c)
    \/ \E t \in Token : MintStep(t) \/ RetireStep(t) \/ IndexStep(t)
    \/ \E keep \in SUBSET slots, recorded \in SUBSET minted : RebuildStep(keep, recorded)
    \/ LoseTrack

HeadroomSpec == HeadroomInit /\ [][HeadroomNext]_hvars

(* While nobody has lost track of a unit, no more tokens are minted than   *)
(* the collection holds, however far the index is behind.                  *)
NoOvershoot == lost \/ Cardinality(minted) <= Max
=============================================================================

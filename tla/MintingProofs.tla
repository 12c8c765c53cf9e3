---------------------------- MODULE MintingProofs ----------------------------
(***************************************************************************)
(* For any claimants, units, tokens, faults, restarts and collection size. *)
(*                                                                         *)
(* The store.  A token that was handed over stays counted: its pending     *)
(* row goes only when the index has it (Counted).  What is granted and     *)
(* what was handed over fit in Max together (Room): a grant is measured    *)
(* against the index, the slots and the pending rows that were not pruned, *)
(* and those cover every token handed over; a hand-over pays with a slot.  *)
(* The tokens not handed over yet are at most the slots of their claimant  *)
(* (SlotPerMint), so they fit too.  Summing over claimants needs no        *)
(* induction: an injection per claimant gives one for all (Spread).        *)
(*                                                                         *)
(* The callers, always (Orderly): a row of a unit, in memory or on disk,   *)
(* is true of the ledger and of the credits, a session is where its step   *)
(* says, and a record whose payment was claimed can be resumed or is done. *)
(* While nobody has lost track of a unit (Tracked): every token is the one *)
(* its unit names or the one waited for, a credit belongs to a unit given  *)
(* up, and there is a slot for each unit to come and for each token not    *)
(* handed over.  Each step of a session is then one that the store's       *)
(* contract allows, or one that loses track (Stays); the other sessions    *)
(* see nothing of it (OtherBooks).                                         *)
(***************************************************************************)
EXTENDS Minting, FiniteSetTheorems, FunctionTheorems, SequenceTheorems,
        WellFoundedInduction, TLAPS

Shape ==
    /\ slots \in SUBSET (UNION {{c} \X Wanted[c] : c \in Claimant})
    /\ IsFiniteSet(slots)
    /\ minted \in SUBSET Token
    /\ IsFiniteSet(minted)
    /\ pending \subseteq handed
    /\ handed \subseteq minted
    /\ indexed \subseteq minted

Counted     == handed \subseteq pending \cup indexed
SlotPerMint == \A c \in Claimant : Cardinality(Unhanded(c)) <= Held(c)
Room        == Cardinality(slots) + Cardinality(handed) <= Max

Kept == Shape /\ Counted /\ SlotPerMint /\ Room

(* A smaller finite set maps one to one into a larger one. *)
LEMMA SmallerInjects ==
    ASSUME NEW S, NEW T, IsFiniteSet(S), IsFiniteSet(T), Cardinality(S) <= Cardinality(T)
    PROVE  ExistsInjection(S, T)
<1> DEFINE n == Cardinality(S)
           m == Cardinality(T)
<1>1. n \in Nat /\ m \in Nat /\ ExistsBijection(1..n, S) /\ ExistsBijection(1..m, T)
    BY FS_CardinalityType
<1>2. ExistsBijection(S, 1..n)
    BY <1>1, Fun_ExistsBijSymmetric
<1>3. ExistsInjection(S, 1..n) /\ ExistsInjection(1..m, T)
    BY <1>1, <1>2 DEF ExistsInjection, ExistsBijection, Bijection
<1>4. ExistsInjection(1..n, 1..m)
    BY <1>1, Fun_NatInjLeq
<1> QED
    BY <1>3, <1>4, Fun_ExistsInjTransitive

\* The members of the domain of f that f puts in class c.
Class(f, c) == {x \in DOMAIN f : f[x] = c}

(* If each class of S is no larger than the same class of T, then S is no  *)
(* larger than T.                                                          *)
LEMMA Spread ==
    ASSUME NEW S, NEW T, IsFiniteSet(S), IsFiniteSet(T), NEW C,
           NEW f \in [S -> C], NEW g \in [T -> C],
           \A c \in C : Cardinality(Class(f, c)) <= Cardinality(Class(g, c))
    PROVE  Cardinality(S) <= Cardinality(T)
<1> USE DEF Class
<1> DEFINE In(c) == {s \in S : f[s] = c}
           Out(c) == {t \in T : g[t] = c}
           h == [c \in C |-> CHOOSE i : i \in Injection(In(c), Out(c))]
           F == [s \in S |-> h[f[s]][s]]
<1>1. ASSUME NEW c \in C PROVE h[c] \in Injection(In(c), Out(c))
    <2>1. IsFiniteSet(In(c)) /\ IsFiniteSet(Out(c))
        BY FS_Subset
    <2>2. Injection(In(c), Out(c)) # {}
        BY <2>1, SmallerInjects DEF ExistsInjection
    <2> QED
        BY <2>2
<1>2. ASSUME NEW s \in S PROVE F[s] \in T /\ g[F[s]] = f[s]
    <2>1. h[f[s]] \in [In(f[s]) -> Out(f[s])]
        BY <1>1 DEF Injection
    <2>2. h[f[s]][s] \in Out(f[s])
        BY <2>1
    <2> QED
        BY <2>2
<1>3. ASSUME NEW s \in S, NEW r \in S, F[s] = F[r] PROVE s = r
    <2>1. f[s] = f[r]
        BY <1>2, <1>3
    <2>2. h[f[s]] \in [In(f[s]) -> Out(f[s])] /\ IsInjective(h[f[s]])
        BY <1>1 DEF Injection
    <2>3. h[f[s]][s] = h[f[s]][r]
        BY <1>3, <2>1
    <2> QED
        BY <2>1, <2>2, <2>3 DEF IsInjective
<1>4. F \in Injection(S, T)
    BY <1>2, <1>3 DEF Injection, IsInjective
<1> QED
    BY <1>4, FS_Injection

-----------------------------------------------------------------------------
LEMMA Sizes ==
    ASSUME Shape
    PROVE  /\ \A c \in Claimant : /\ IsFiniteSet(HeldBy(c)) /\ Held(c) \in Nat
                                /\ IsFiniteSet(Unhanded(c))
                                /\ Cardinality(Unhanded(c)) \in Nat
           /\ IsFiniteSet(handed) /\ IsFiniteSet(pending) /\ IsFiniteSet(indexed)
           /\ Cardinality(slots) \in Nat /\ Cardinality(handed) \in Nat
           /\ Cardinality(minted) \in Nat
           /\ Max \in Nat /\ Owner \in [Token -> Claimant]
<1>1. \A c \in Claimant : HeldBy(c) \in SUBSET slots /\ Unhanded(c) \in SUBSET minted
    BY DEF HeldBy, Unhanded
<1>2. pending \in SUBSET minted /\ handed \in SUBSET minted /\ indexed \in SUBSET minted
    BY DEF Shape
<1>3. IsFiniteSet(slots) /\ IsFiniteSet(minted)
    BY DEF Shape
<1>4. \A c \in Claimant : IsFiniteSet(HeldBy(c)) /\ IsFiniteSet(Unhanded(c))
    BY <1>1, <1>3, FS_Subset
<1>5. IsFiniteSet(handed) /\ IsFiniteSet(pending) /\ IsFiniteSet(indexed)
    BY <1>2, <1>3, FS_Subset
<1> QED
    BY <1>3, <1>4, <1>5, FS_CardinalityType, HeadroomAssumption DEF Held

(* The size of a union, and of one without overlap. *)
LEMMA UnionSize ==
    ASSUME NEW S, NEW T, IsFiniteSet(S), IsFiniteSet(T)
    PROVE  /\ IsFiniteSet(S \cup T) /\ Cardinality(S \cup T) \in Nat
           /\ Cardinality(S) \in Nat /\ Cardinality(T) \in Nat
           /\ Cardinality(S \cup T) <= Cardinality(S) + Cardinality(T)
           /\ S \cap T = {} => Cardinality(S \cup T) = Cardinality(S) + Cardinality(T)
<1>1. IsFiniteSet(S \cap T)
    BY FS_Intersection
<1>2. Cardinality(S \cap T) \in Nat /\ Cardinality(S) \in Nat /\ Cardinality(T) \in Nat
    BY <1>1, FS_CardinalityType
<1>3. IsFiniteSet(S \cup T)
      /\ Cardinality(S \cup T) = Cardinality(S) + Cardinality(T) - Cardinality(S \cap T)
    BY FS_Union
<1>4. S \cap T = {} => Cardinality(S \cap T) = 0
    BY FS_EmptySet
<1> QED
    BY <1>2, <1>3, <1>4, FS_CardinalityType

(* Tokens that, claimant by claimant, are no more than some slots. *)
LEMMA ClassesFit ==
    ASSUME NEW S \in SUBSET Token, IsFiniteSet(S),
           NEW T \in SUBSET (UNION {{c} \X Wanted[c] : c \in Claimant}), IsFiniteSet(T)
    PROVE  (\A c \in Claimant :
               Cardinality({t \in S : Owner[t] = c}) <= Cardinality({s \in T : s[1] = c}))
           => Cardinality(S) <= Cardinality(T)
<1> DEFINE f == [t \in S |-> Owner[t]]
           g == [s \in T |-> s[1]]
<1>1. f \in [S -> Claimant] /\ g \in [T -> Claimant]
    BY HeadroomAssumption
<1>2. \A c \in Claimant : Class(f, c) = {t \in S : Owner[t] = c}
                            /\ Class(g, c) = {s \in T : s[1] = c}
    BY DEF Class
<1> HIDE DEF f, g
<1>3. (\A c \in Claimant : Cardinality(Class(f, c)) <= Cardinality(Class(g, c)))
      => Cardinality(S) <= Cardinality(T)
    BY <1>1, Spread
<1> QED
    BY <1>2, <1>3

(* The invariant is enough: what waits to be handed over fits in the slots. *)
LEMMA Fits == ASSUME Kept PROVE Cardinality(minted) <= Max
<1> USE DEF Kept
<1> DEFINE left == minted \ handed
<1>1. IsFiniteSet(left) /\ IsFiniteSet(slots)
    BY FS_Difference DEF Shape
<1>2. left \in SUBSET Token /\ slots \in SUBSET (UNION {{c} \X Wanted[c] : c \in Claimant})
    BY DEF Shape
<1>3. ASSUME NEW c \in Claimant
      PROVE  Cardinality({t \in left : Owner[t] = c}) <= Cardinality({s \in slots : s[1] = c})
    <2>1. {t \in left : Owner[t] = c} = Unhanded(c) /\ {s \in slots : s[1] = c} = HeldBy(c)
        BY DEF Unhanded, HeldBy
    <2> QED
        BY <2>1 DEF SlotPerMint, Held
<1>4. Cardinality(left) <= Cardinality(slots)
    <2> HIDE DEF left
    <2> QED BY <1>1, <1>2, <1>3, ClassesFit
<1>5. Cardinality(left) = Cardinality(minted) - Cardinality(handed)
    <2>1. minted \cap handed = handed
        BY DEF Shape
    <2> QED
        BY <2>1, FS_Difference, ZenonT(40) DEF Shape
<1> QED
    BY <1>4, <1>5, Sizes DEF Room

LEMMA DropSlotCosts ==
    ASSUME Shape, NEW c \in Claimant, DropSlot(c)
    PROVE  /\ slots' \subseteq slots
           /\ \A d \in Claimant : d # c => HeldBy(d)' = HeldBy(d)
           /\ IF HeldBy(c) = {} THEN slots' = slots
              ELSE /\ Cardinality(slots') = Cardinality(slots) - 1
                   /\ Held(c)' = Held(c) - 1
<1>1. CASE HeldBy(c) = {}
    BY <1>1 DEF DropSlot, HeldBy
<1>2. CASE HeldBy(c) # {}
    <2> DEFINE s == CHOOSE x \in HeldBy(c) : TRUE
    <2>1. s \in HeldBy(c) /\ slots' = slots \ {s}
        BY <1>2 DEF DropSlot
    <2>2. s \in slots /\ s[1] = c
        BY <2>1 DEF HeldBy
    <2> HIDE DEF s
    <2>3. HeldBy(c)' = HeldBy(c) \ {s} /\ \A d \in Claimant : d # c => HeldBy(d)' = HeldBy(d)
        BY <2>1, <2>2 DEF HeldBy
    <2>4. Cardinality(slots') = Cardinality(slots) - 1
        BY <2>1, <2>2, FS_RemoveElement DEF Shape
    <2>5. Held(c)' = Held(c) - 1
        BY <2>1, <2>3, Sizes, FS_RemoveElement DEF Held
    <2> QED
        BY <1>2, <2>1, <2>3, <2>4, <2>5
<1> QED
    BY <1>1, <1>2

-----------------------------------------------------------------------------
(* A grant: measured against a count that covers every token handed over.  *)
LEMMA ReserveKeeps ==
    ASSUME Kept, NEW c \in Claimant, ReserveStep(c)
    PROVE  Kept'
<1> USE DEF Kept
<1>1. PICK seen \in SUBSET indexed, new \in SUBSET (({c} \X Wanted[c]) \ slots) :
        /\ \/ Cardinality(new) = Available(seen)
           \/ Cardinality(new) <= Available(seen)
           \/ new = {}
        /\ slots' = slots \cup new
        /\ pending' = pending \ seen
        /\ UNCHANGED <<handed, indexed, minted>>
    BY DEF ReserveStep, TryReserve
<1>2. IsFiniteSet(new) /\ Cardinality(new) \in Nat
    <2>1. IsFiniteSet({c}) /\ IsFiniteSet(Wanted[c])
        BY HeadroomAssumption, FS_Singleton
    <2>2. IsFiniteSet({c} \X Wanted[c])
        BY <2>1, FS_Product
    <2>3. new \in SUBSET ({c} \X Wanted[c])
        OBVIOUS
    <2> QED
        BY <2>2, <2>3, FS_Subset, FS_CardinalityType
<1>3. IsFiniteSet(slots') /\ Cardinality(slots') = Cardinality(slots) + Cardinality(new)
    <2>1. slots \cap new = {}
        OBVIOUS
    <2> QED
        BY <1>1, <1>2, <2>1, UnionSize DEF Shape
<1>4. Shape'
    <2>1. slots' \in SUBSET (UNION {{d} \X Wanted[d] : d \in Claimant})
        BY <1>1 DEF Shape
    <2> QED
        BY <1>1, <1>3, <2>1 DEF Shape
<1>5. Counted'
    BY <1>1 DEF Counted, Shape
<1>6. SlotPerMint'
    <2> SUFFICES ASSUME NEW d \in Claimant PROVE Cardinality(Unhanded(d)') <= Held(d)'
        BY DEF SlotPerMint
    <2>1. Unhanded(d)' = Unhanded(d)
        BY <1>1 DEF Unhanded
    <2>2. HeldBy(d) \in SUBSET (HeldBy(d)')
        BY <1>1 DEF HeldBy
    <2>3. HeldBy(d)' \in SUBSET (slots')
        BY DEF HeldBy
    <2>4. Held(d) <= Held(d)' /\ Held(d)' \in Nat
        BY <1>3, <2>2, <2>3, FS_Subset, FS_CardinalityType DEF Held
    <2> QED
        BY <2>1, <2>4, Sizes DEF SlotPerMint
<1>7. Room'
    <2>1. CASE new = {}
        BY <1>1, <2>1 DEF Room
    <2>2. CASE Cardinality(new) = Available(seen) \/ Cardinality(new) <= Available(seen)
        <3> DEFINE kept == pending \ seen
        <3>1. IsFiniteSet(kept) /\ Cardinality(kept) \in Nat /\ Cardinality(indexed) \in Nat
            BY Sizes, FS_Difference, FS_CardinalityType
        <3>2. /\ IsFiniteSet(kept \cup indexed) /\ Cardinality(kept \cup indexed) \in Nat
              /\ Cardinality(kept \cup indexed) <= Cardinality(kept) + Cardinality(indexed)
            <4> HIDE DEF kept
            <4> QED
                BY <3>1, Sizes, UnionSize
        <3>3. handed \in SUBSET (kept \cup indexed)
            BY DEF Counted
        <3>4. Cardinality(handed) <= Cardinality(kept) + Cardinality(indexed)
            <4>2. Cardinality(handed) <= Cardinality(kept \cup indexed)
                BY <3>2, <3>3, FS_Subset
            <4> HIDE DEF kept
            <4> QED
                BY <3>1, <3>2, <4>2, Sizes
        <3>5. Cardinality(new) <= Max - Cardinality(indexed) - Cardinality(slots) - Cardinality(kept)
            <4>1. Available(seen) = Max - Cardinality(indexed) - Cardinality(slots) - Cardinality(kept)
                BY DEF Available
            <4>2. Available(seen) \in Int
                <5> HIDE DEF kept
                <5> QED BY <3>1, <4>1, Sizes
            <4> HIDE DEF kept
            <4> QED
                BY <1>2, <2>2, <4>1, <4>2
        <3> HIDE DEF kept
        <3> QED
            BY <1>1, <1>2, <1>3, <3>1, <3>4, <3>5, Sizes DEF Room
    <2> QED
        BY <1>1, <2>1, <2>2
<1> QED
    BY <1>4, <1>5, <1>6, <1>7

(* Slots given back: of a claimant that needs them no longer.              *)
LEMMA ReleaseKeeps ==
    ASSUME Kept, NEW c \in Claimant, ReleaseStep(c)
    PROVE  Kept'
<1> USE DEF Kept
<1>1. /\ slots' = slots \ HeldBy(c) /\ Unhanded(c) = {}
      /\ UNCHANGED <<pending, handed, indexed, minted>>
    BY DEF ReleaseStep, Release
<1>2. IsFiniteSet(slots') /\ Cardinality(slots') <= Cardinality(slots) /\ Cardinality(slots') \in Nat
    <2>1. slots' \in SUBSET slots
        BY <1>1
    <2> QED
        BY <2>1, FS_Subset, FS_CardinalityType DEF Shape
<1>3. Shape'
    BY <1>1, <1>2 DEF Shape
<1>4. Counted'
    BY <1>1 DEF Counted
<1>5. SlotPerMint'
    <2> SUFFICES ASSUME NEW d \in Claimant PROVE Cardinality(Unhanded(d)') <= Held(d)'
        BY DEF SlotPerMint
    <2>1. Unhanded(d)' = Unhanded(d)
        BY <1>1 DEF Unhanded
    <2>2. CASE d # c
        <3>1. HeldBy(d)' = HeldBy(d)
            BY <1>1, <2>2 DEF HeldBy
        <3> QED
            BY <2>1, <3>1 DEF SlotPerMint, Held
    <2>3. CASE d = c
        <3>1. Held(d)' \in Nat
            BY <1>3, Sizes, FS_Subset, FS_CardinalityType, <1>2 DEF Held, HeldBy
        <3>2. Cardinality(Unhanded(d)') = 0
            BY <1>1, <2>1, <2>3, FS_EmptySet
        <3> QED
            BY <3>1, <3>2
    <2> QED
        BY <2>2, <2>3
<1>6. Room'
    BY <1>1, <1>2, Sizes DEF Room
<1> QED
    BY <1>3, <1>4, <1>5, <1>6

LEMMA ReleaseOneKeeps ==
    ASSUME Kept, NEW c \in Claimant, ReleaseOneStep(c)
    PROVE  Kept'
<1> USE DEF Kept
<1>1. /\ DropSlot(c) /\ Cardinality(Unhanded(c)) < Held(c)
      /\ UNCHANGED <<pending, handed, indexed, minted>>
    BY DEF ReleaseOneStep, ReleaseOne
<1>2. slots' \subseteq slots /\ IsFiniteSet(slots') /\ Cardinality(slots') <= Cardinality(slots)
      /\ Cardinality(slots') \in Nat
    <2>1. slots' \in SUBSET slots
        BY <1>1, DropSlotCosts
    <2> QED
        BY <2>1, FS_Subset, FS_CardinalityType DEF Shape
<1>3. Shape'
    BY <1>1, <1>2 DEF Shape
<1>4. Counted'
    BY <1>1 DEF Counted
<1>5. SlotPerMint'
    <2> SUFFICES ASSUME NEW d \in Claimant PROVE Cardinality(Unhanded(d)') <= Held(d)'
        BY DEF SlotPerMint
    <2>1. Unhanded(d)' = Unhanded(d)
        BY <1>1 DEF Unhanded
    <2>2. CASE d # c
        BY <1>1, <2>1, <2>2, DropSlotCosts DEF SlotPerMint, Held
    <2>3. CASE d = c
        <3>1. HeldBy(c) # {}
            BY <1>1, Sizes, FS_EmptySet DEF Held
        <3>2. Held(c)' = Held(c) - 1
            BY <1>1, <3>1, DropSlotCosts
        <3> QED
            BY <1>1, <2>1, <2>3, <3>2, Sizes
    <2> QED
        BY <2>2, <2>3
<1>6. Room'
    BY <1>1, <1>2, Sizes DEF Room
<1> QED
    BY <1>3, <1>4, <1>5, <1>6

(* A mint spends no slot yet: its claimant has one to spare.               *)
LEMMA MintKeeps ==
    ASSUME Kept, NEW t \in Token, MintStep(t)
    PROVE  Kept'
<1> USE DEF Kept
<1>1. /\ Cardinality(Unhanded(Owner[t])) < Held(Owner[t])
      /\ minted' = minted \cup {t} /\ t \notin minted
      /\ UNCHANGED <<slots, pending, handed, indexed>>
    BY DEF MintStep, Mint, store
<1>2. Shape'
    BY <1>1, FS_AddElement DEF Shape
<1>3. Counted'
    BY <1>1 DEF Counted
<1>4. SlotPerMint'
    <2> SUFFICES ASSUME NEW d \in Claimant PROVE Cardinality(Unhanded(d)') <= Held(d)'
        BY DEF SlotPerMint
    <2>1. HeldBy(d)' = HeldBy(d)
        BY <1>1 DEF HeldBy
    <2>2. CASE d # Owner[t]
        <3>1. Unhanded(d)' = Unhanded(d)
            BY <1>1, <2>2 DEF Unhanded
        <3> QED
            BY <2>1, <3>1 DEF SlotPerMint, Held
    <2>3. CASE d = Owner[t]
        <3>1. Unhanded(d)' = Unhanded(d) \cup {t} /\ t \notin Unhanded(d)
            BY <1>1, <2>3 DEF Unhanded, Shape
        <3>2. Cardinality(Unhanded(d)') = Cardinality(Unhanded(d)) + 1
            BY <3>1, Sizes, FS_AddElement
        <3> QED
            BY <1>1, <2>1, <2>3, <3>2, Sizes DEF Held
    <2> QED
        BY <2>2, <2>3
<1>5. Room'
    BY <1>1 DEF Room
<1> QED
    BY <1>2, <1>3, <1>4, <1>5

(* A hand-over pays for its pending row with a slot of the same claimant.  *)
LEMMA RetireKeeps ==
    ASSUME Kept, NEW t \in Token, RetireStep(t)
    PROVE  Kept'
<1> USE DEF Kept
<1> DEFINE c == Owner[t]
<1>1. /\ t \in minted /\ t \notin handed /\ t \notin pending
      /\ DropSlot(c)
      /\ pending' = pending \cup {t} /\ handed' = handed \cup {t}
      /\ UNCHANGED <<indexed, minted>>
    BY DEF RetireStep, Retire, Shape
<1>2. c \in Claimant
    BY Sizes
<1> HIDE DEF c
<1>3. /\ IsFiniteSet(slots') /\ slots' \subseteq slots
      /\ Cardinality(slots') = Cardinality(slots) - 1 /\ Held(c)' = Held(c) - 1
    <2>1. t \in Unhanded(c)
        BY <1>1 DEF Unhanded, c
    <2>2. Cardinality(Unhanded(c)) # 0
        BY <1>2, <2>1, Sizes, FS_EmptySet
    <2>3. HeldBy(c) # {}
        BY <1>2, <2>2, Sizes, FS_EmptySet DEF SlotPerMint, Held
    <2>4. slots' \in SUBSET slots
        BY <1>1, <1>2, DropSlotCosts
    <2> QED
        BY <1>1, <1>2, <2>3, <2>4, DropSlotCosts, FS_Subset DEF Shape
<1>4. Shape'
    BY <1>1, <1>3 DEF Shape
<1>5. Counted'
    BY <1>1 DEF Counted
<1>6. SlotPerMint'
    <2> SUFFICES ASSUME NEW d \in Claimant PROVE Cardinality(Unhanded(d)') <= Held(d)'
        BY DEF SlotPerMint
    <2>1. CASE d # c
        <3>1. Unhanded(d)' = Unhanded(d)
            BY <1>1, <2>1 DEF Unhanded, c
        <3>2. HeldBy(d)' = HeldBy(d)
            BY <1>1, <1>2, <2>1, DropSlotCosts
        <3> QED
            BY <3>1, <3>2 DEF SlotPerMint, Held
    <2>2. CASE d = c
        <3>1. Unhanded(d)' = Unhanded(d) \ {t} /\ t \in Unhanded(d)
            BY <1>1, <2>2 DEF Unhanded, c
        <3>2. Cardinality(Unhanded(d)') = Cardinality(Unhanded(d)) - 1
            BY <3>1, Sizes, FS_RemoveElement
        <3> QED
            BY <1>3, <2>2, <3>2, Sizes DEF SlotPerMint
    <2> QED
        BY <2>1, <2>2
<1>7. Room'
    <2>1. Cardinality(handed') = Cardinality(handed) + 1
        BY <1>1, Sizes, FS_AddElement
    <2> QED
        BY <1>3, <2>1, Sizes DEF Room
<1> QED
    BY <1>4, <1>5, <1>6, <1>7

LEMMA IndexKeeps ==
    ASSUME Kept, NEW t \in Token, IndexStep(t)
    PROVE  Kept'
<1>1. indexed' = indexed \cup {t} /\ t \in minted /\ UNCHANGED <<slots, pending, handed, minted>>
    BY DEF IndexStep, Index, store
<1>2. \A d \in Claimant : Unhanded(d)' = Unhanded(d) /\ Held(d)' = Held(d)
    BY <1>1 DEF Unhanded, Held, HeldBy
<1> QED
    BY <1>1, <1>2 DEF Kept, Shape, Counted, SlotPerMint, Room

(* A restart: what is entered and what is kept fit in what was held.       *)
LEMMA RebuildKeeps ==
    ASSUME Kept, NEW keep \in SUBSET slots, NEW recorded \in SUBSET minted,
           RebuildStep(keep, recorded)
    PROVE  Kept'
<1> USE DEF Kept
<1> DEFINE new == recorded \ handed
           Entered(d) == {t \in new : Owner[t] = d}
           KeptOf(d) == {s \in keep : s[1] = d}
<1>1. /\ slots' = keep /\ pending' = pending \cup recorded /\ handed' = handed \cup recorded
      /\ UNCHANGED <<indexed, minted>>
      /\ \A d \in Claimant : /\ Cardinality(KeptOf(d)) + Cardinality(Entered(d)) <= Held(d)
                             /\ Unhanded(d) \subseteq Entered(d)
    BY DEF RebuildStep, Rebuild
<1>2. /\ IsFiniteSet(keep) /\ IsFiniteSet(slots \ keep) /\ IsFiniteSet(new)
      /\ Cardinality(keep) \in Nat /\ Cardinality(slots \ keep) \in Nat /\ Cardinality(new) \in Nat
      /\ Cardinality(slots \ keep) = Cardinality(slots) - Cardinality(keep)
    <2>1. new \in SUBSET minted /\ slots \cap keep = keep /\ keep \in SUBSET slots
        OBVIOUS
    <2> HIDE DEF new
    <2>2. IsFiniteSet(slots) /\ IsFiniteSet(minted)
        BY DEF Shape
    <2>3. IsFiniteSet(keep) /\ IsFiniteSet(new)
        BY <2>1, <2>2, FS_Subset
    <2>4. IsFiniteSet(slots \ keep)
          /\ Cardinality(slots \ keep) = Cardinality(slots) - Cardinality(slots \cap keep)
        BY <2>2, FS_Difference
    <2> QED
        BY <2>1, <2>3, <2>4, FS_CardinalityType
<1>3. Shape'
    BY <1>1, <1>2 DEF Shape
<1>4. Counted'
    BY <1>1 DEF Counted
<1>5. ASSUME NEW d \in Claimant PROVE Unhanded(d)' = {}
    BY <1>1 DEF Unhanded
<1>6. SlotPerMint'
    <2> SUFFICES ASSUME NEW d \in Claimant PROVE Cardinality(Unhanded(d)') <= Held(d)'
        BY DEF SlotPerMint
    <2>1. HeldBy(d)' \in SUBSET keep
        BY <1>1 DEF HeldBy
    <2>2. Held(d)' \in Nat
        BY <1>2, <2>1, FS_Subset, FS_CardinalityType DEF Held
    <2> QED
        BY <1>5, <2>2, FS_EmptySet
<1>7. Cardinality(new) <= Cardinality(slots \ keep)
    <2> DEFINE rest == slots \ keep
    <2>2. ASSUME NEW d \in Claimant
          PROVE  Cardinality({t \in new : Owner[t] = d}) <= Cardinality({s \in rest : s[1] = d})
        <3>1. {t \in new : Owner[t] = d} = Entered(d)
            OBVIOUS
        <3>2. {s \in rest : s[1] = d} = HeldBy(d) \ KeptOf(d) /\ HeldBy(d) \cap KeptOf(d) = KeptOf(d)
            BY DEF HeldBy
        <3>3. KeptOf(d) \in SUBSET keep /\ Entered(d) \in SUBSET new
            OBVIOUS
        <3>4. Cardinality(KeptOf(d)) \in Nat /\ Cardinality(Entered(d)) \in Nat
            <4> HIDE DEF KeptOf, Entered, new
            <4> QED BY <1>2, <3>3, FS_Subset, FS_CardinalityType
        <3>5. Cardinality(HeldBy(d) \ KeptOf(d)) = Held(d) - Cardinality(KeptOf(d))
            <4> HIDE DEF KeptOf
            <4> QED BY <3>2, Sizes, FS_Difference DEF Held
        <3> HIDE DEF KeptOf, Entered, new, rest
        <3>6. Cardinality(KeptOf(d)) + Cardinality(Entered(d)) <= Held(d) /\ Held(d) \in Nat
            BY <1>1, Sizes
        <3>7. Cardinality(Entered(d)) <= Cardinality(HeldBy(d) \ KeptOf(d))
            BY <3>4, <3>5, <3>6
        <3> QED
            BY <3>1, <3>2, <3>7
    <2>3. IsFiniteSet(rest) /\ IsFiniteSet(new)
        BY <1>2
    <2>4. new \in SUBSET Token /\ rest \in SUBSET (UNION {{d} \X Wanted[d] : d \in Claimant})
        BY DEF Shape
    <2> HIDE DEF new, rest
    <2>5. Cardinality(new) <= Cardinality(rest)
        BY <2>2, <2>3, <2>4, ClassesFit
    <2> QED
        BY <2>5 DEF rest
<1>8. Room'
    <2>1. handed' = handed \cup new /\ handed \cap new = {}
        BY <1>1
    <2> HIDE DEF new
    <2>2. Cardinality(handed') = Cardinality(handed) + Cardinality(new)
        BY <1>2, <2>1, Sizes, UnionSize
    <2> QED
        BY <1>1, <1>2, <1>7, <2>2, Sizes DEF Room
<1> QED
    BY <1>3, <1>4, <1>6, <1>8

-----------------------------------------------------------------------------
LEMMA InitKept == HeadroomInit => Kept
<1> SUFFICES ASSUME HeadroomInit PROVE Kept
    OBVIOUS
<1>1. IsFiniteSet({}) /\ Cardinality({}) = 0
    BY FS_EmptySet
<1>2. \A c \in Claimant : HeldBy(c) = {} /\ Unhanded(c) = {}
    BY DEF HeadroomInit, HeldBy, Unhanded
<1>3. Shape
    BY <1>1 DEF HeadroomInit, Shape
<1>4. SlotPerMint
    BY <1>1, <1>2 DEF SlotPerMint, Held
<1> QED
    BY <1>1, <1>3, <1>4, HeadroomAssumption DEF HeadroomInit, Kept, Counted, Room

LEMMA KeptStep == (lost \/ Kept) /\ [HeadroomNext]_hvars => (lost \/ Kept)'
<1> SUFFICES ASSUME lost \/ Kept, [HeadroomNext]_hvars PROVE lost' \/ Kept'
    OBVIOUS
<1>1. CASE UNCHANGED hvars
    <2>1. UNCHANGED <<slots, pending, handed, indexed, minted, lost>>
        BY <1>1 DEF hvars, store
    <2>2. \A d \in Claimant : Unhanded(d)' = Unhanded(d) /\ Held(d)' = Held(d)
        BY <2>1 DEF Unhanded, Held, HeldBy
    <2> QED
        BY <2>1, <2>2 DEF Kept, Shape, Counted, SlotPerMint, Room
<1>2. CASE LoseTrack
    BY <1>2 DEF LoseTrack
<1>3. ASSUME NEW c \in Claimant, ReserveStep(c) PROVE lost' \/ Kept'
    BY <1>3, ReserveKeeps DEF ReserveStep
<1>4. ASSUME NEW c \in Claimant, ReleaseStep(c) PROVE lost' \/ Kept'
    BY <1>4, ReleaseKeeps DEF ReleaseStep
<1>5. ASSUME NEW c \in Claimant, ReleaseOneStep(c) PROVE lost' \/ Kept'
    BY <1>5, ReleaseOneKeeps DEF ReleaseOneStep
<1>6. ASSUME NEW t \in Token, MintStep(t) PROVE lost' \/ Kept'
    BY <1>6, MintKeeps DEF MintStep
<1>7. ASSUME NEW t \in Token, RetireStep(t) PROVE lost' \/ Kept'
    BY <1>7, RetireKeeps DEF RetireStep
<1>8. ASSUME NEW t \in Token, IndexStep(t) PROVE lost' \/ Kept'
    BY <1>8, IndexKeeps DEF IndexStep
<1>9. ASSUME NEW keep \in SUBSET slots, NEW recorded \in SUBSET minted,
             RebuildStep(keep, recorded)
      PROVE  lost' \/ Kept'
    BY <1>9, RebuildKeeps DEF RebuildStep
<1> QED
    BY <1>1, <1>2, <1>3, <1>4, <1>5, <1>6, <1>7, <1>8, <1>9 DEF HeadroomNext

(* In every reachable state, unless somebody lost track of a unit, every   *)
(* admitted unit is counted: once handed over it is pending or indexed,    *)
(* before that it has a slot, and all of it fits in the collection.        *)
THEOREM CountedOnce == HeadroomSpec => [](lost \/ Kept)
<1>1. HeadroomInit => lost \/ Kept
    BY InitKept
<1> QED
    BY <1>1, KeptStep, PTL DEF HeadroomSpec

(* No more tokens are minted than the collection holds.                    *)
THEOREM CapHolds == HeadroomSpec => []NoOvershoot
<1>1. lost \/ Kept => NoOvershoot
    BY Fits DEF NoOvershoot
<1> QED
    BY <1>1, CountedOnce, PTL

-----------------------------------------------------------------------------
(* What holds of the callers of the store.                                 *)

Memory == [step : Steps, st : Terminal \cup Resumable, units : Seq(UnitRows),
           cur : Nat \ {0}, tries : Nat, tok : Token \cup {NoToken},
           did : BOOLEAN, stale : BOOLEAN, holds : BOOLEAN, backing : BOOLEAN]
Records == [st : Terminal \cup Resumable \cup {"none"}, units : Seq(UnitRows)]
CreditKeys == Claimant \X UNION {Wanted[c] : c \in Claimant}

Typed ==
    /\ HeadroomTypeOK
    /\ mem \in [Claimant -> Memory] /\ disk \in [Bulk -> Records]
    /\ \A j \in Claimant : Len(mem[j].units) <= Cardinality(Wanted[j])
    /\ \A j \in Bulk : Len(disk[j].units) <= Cardinality(Wanted[j])
    /\ paid \in [Claimant -> {"unasked", "asked", "landed", "claimed"}]
    /\ credits \in [CreditKeys -> Nat]
    /\ flying \in SUBSET Token

\* A row says what became of its unit: its token is on the ledger, and a unit
\* given up has its credit.
TrueRows(j, us, mints, credit) ==
    \A u \in DOMAIN us :
        /\ us[u].st \in {"pending", "failed"} => us[u].nft = NoToken
        /\ us[u].st \in {"minted", "offered"} =>
            us[u].nft \in mints /\ us[u].nft[1] = j /\ us[u].nft[2] = u
        /\ us[u].st = "failed" => j \in Bulk /\ credit[<<j, u>>] > 0
Untouched(us) == \A u \in DOMAIN us : us[u].st = "pending"

\* The memory of a session is where its step says.
InOrder(j, m) ==
    /\ m.step = "none" => m.st = "awaiting" /\ Len(m.units) = 0 /\ ~m.backing
    /\ m.step = "admitting" => j \in Single
    /\ m.step \in {"waiting", "closing"} => m.st = "awaiting"
    /\ m.step \in {"admitting", "preparing"} => m.st \in {"awaiting", "cancelled"}
    /\ m.step \in {"unit", "flying", "offering"} => m.st = "fulfilling"
    /\ m.st = "awaiting" \/ m.step \in {"admitting", "preparing"} => Untouched(m.units)
    /\ j \in Single /\ m.step \in {"unit", "flying"} => Untouched(m.units)
    /\ m.step = "flying" =>
        /\ m.tok \in Token /\ m.tok[1] = j /\ m.tok[2] = m.cur
        /\ m.cur \in DOMAIN m.units /\ m.units[m.cur].st = "pending"
    /\ m.step = "offering" => m.cur \in DOMAIN m.units /\ m.units[m.cur].st = "minted"
    /\ m.st = "gone" => m.step = "ended" /\ ~m.backing

RecordInOrder(d) ==
    /\ d.st = "awaiting" => Untouched(d.units)
    /\ d.st = "done" => \A u \in DOMAIN d.units : d.units[u].st \in {"offered", "failed"}

SoundAt(j, m, d, pay, mints, credit) ==
    /\ InOrder(j, m) /\ TrueRows(j, m.units, mints, credit)
    /\ j \in Bulk =>
        /\ RecordInOrder(d) /\ TrueRows(j, d.units, mints, credit)
        /\ m.step \in {"none", "preparing"} => d.st \notin Resumable
        /\ m.step \in {"waiting", "closing"} => d.st \in Resumable
        /\ pay = "claimed" => d.st \in {"awaiting", "fulfilling", "done"}

Sound(j) == SoundAt(j, mem[j], disk[j], paid[j], minted, credits)

Orderly == Typed /\ \A j \in Claimant : Sound(j)

\* What the ledger, the store and the credits hold of a claimant.
Tokens(j)     == {t \in minted : t[1] = j}
ForUnit(T, u) == {t \in T : t[2] = u}
Books(j) == [made |-> Tokens(j),
             told |-> {t \in handed : t[1] = j},
             sent |-> {t \in flying : t[1] = j},
             owed |-> [u \in Wanted[j] |-> credits[<<j, u>>]],
             held |-> Held(j)]

\* The mint a session waits for.
Aloft(m) == IF m.step = "flying" THEN {m.tok} ELSE {}

OnTheWay(m, b) ==
    b.sent \subseteq Aloft(m) /\ b.sent \cap b.made = {} /\ Aloft(m) \cap b.told = {}

\* Each token is the one its unit says it has, or the one waited for; a unit
\* given up has one credit and the others none.
Accounted(j, m, b) ==
    /\ \A t \in b.made : t \in Aloft(m) \/ (t[2] \in DOMAIN m.units /\ m.units[t[2]].nft = t)
    /\ \A u \in Wanted[j] :
        \/ b.owed[u] = 0
        \/ b.owed[u] = 1 /\ u \in DOMAIN m.units /\ m.units[u].st = "failed"

\* What is left of a session nobody resumed.
Closed(j, b) ==
    /\ b.made \subseteq b.told
    /\ \A u \in Wanted[j] : Cardinality(ForUnit(b.made, u)) + b.owed[u] <= 1

\* A single session that may settle again did not hand its token over.
FlagIsTrue(j, m, b) ==
    j \in Single /\ m.step = "offering" /\ m.holds => m.units[1].nft \notin b.told

\* There is a slot for each unit to come and for each token not handed over.
Backed(m, b) ==
    m.st \notin Terminal /\ m.step # "admitting" =>
        Cardinality((b.made \ b.told) \ Aloft(m)) + Cardinality(Pending(m)) <= b.held

Tracks(j, m, b) ==
    /\ OnTheWay(m, b)
    /\ IF m.st = "gone" THEN Closed(j, b) ELSE Accounted(j, m, b)
    /\ FlagIsTrue(j, m, b) /\ Backed(m, b)

\* A record that is not known to be behind is not.
Current(m, d) ==
    ~m.stale /\ d.st \in Resumable /\ m.st \notin Terminal => d.units = m.units

Tracked(j) == Tracks(j, mem[j], Books(j)) /\ (j \in Bulk => Current(mem[j], disk[j]))

Sure == lost \/ (Kept /\ \A j \in Claimant : Tracked(j))

IInv == Orderly /\ Sure

-----------------------------------------------------------------------------
(* Choices: each is made from what there is.                               *)

\* A set of numbers has a least one.
LEMMA LeastOf ==
    ASSUME NEW S \in SUBSET Nat, S # {}
    PROVE  \E n \in S : \A k \in S : n <= k
<1>1. IsWellFoundedOn(OpToRel(<, Nat), Nat)
    BY NatLessThanWellFounded, Zenon
<1>2. PICK n \in S : \A k \in S : ~ (<<k, n>> \in OpToRel(<, Nat))
    BY <1>1, WFMin, Zenon
<1>3. OpToRel(<, Nat) = {r \in Nat \X Nat : r[1] < r[2]}
    BY Zenon DEF OpToRel
<1>4. \A k \in S : ~ (k < n)
    BY <1>2, <1>3
<1> QED
    BY <1>4

LEMMA NextUnitIs ==
    ASSUME NEW m \in Memory, NEW k \in Nat \ {0}
    PROVE  NextUnit(m, k) \in Nat \ {0}
<1> DEFINE us == m.units
           n0 == Len(us) + 1
           Open == {n \in 1..Len(us) : n >= k /\ us[n].st \in {"pending", "minted"}}
           Good(n) == /\ n >= k \/ n = n0
                      /\ n <= Len(us) => us[n].st \in {"pending", "minted"}
                      /\ \A i \in k..(n - 1) : i <= Len(us) => us[i].st \in {"offered", "failed"}
<1>1. us \in Seq(UnitRows) /\ Len(us) \in Nat /\ \A i \in 1..Len(us) : us[i] \in UnitRows
    BY DEF Memory
<1>2. \A i \in 1..Len(us) : us[i].st \in {"pending", "minted", "offered", "failed"}
    BY <1>1 DEF UnitRows
<1> HIDE DEF us
<1>3. \E n \in 1..n0 : Good(n)
    <2>1. CASE Open = {}
        <3>1. \A i \in k..Len(us) : us[i].st \in {"offered", "failed"}
            BY <1>1, <1>2, <2>1
        <3>2. Good(n0)
            BY <1>1, <3>1
        <3> QED
            BY <1>1, <3>2
    <2>2. CASE Open # {}
        <3>1. Open \in SUBSET Nat
            BY <1>1
        <3>2. PICK n \in Open : \A i \in Open : n <= i
            <4> HIDE DEF Open
            <4> QED BY <2>2, <3>1, LeastOf
        <3>3. \A i \in k..(n - 1) : i <= Len(us) => us[i].st \in {"offered", "failed"}
            BY <1>1, <1>2, <3>2
        <3> QED
            BY <1>1, <3>2, <3>3
    <2> QED
        BY <2>1, <2>2
<1>4. NextUnit(m, k) = CHOOSE n \in 1..n0 : Good(n)
    BY DEF NextUnit, us
<1> HIDE DEF Good
<1>5. NextUnit(m, k) \in 1..n0
    BY <1>3, <1>4
<1> QED
    BY <1>1, <1>5

LEMMA TokenIs ==
    ASSUME NEW t \in Token
    PROVE  /\ t # NoToken /\ t[1] \in Claimant /\ t[2] \in Nat /\ t[3] \in Nat
           /\ Owner[t] = t[1]
<1>1. t \in Claimant \X Nat \X Nat /\ t # NoToken /\ Owner[t] = t[1]
    BY MintingAssumption
<1> QED
    BY <1>1

LEMMA TokenForIs ==
    ASSUME NEW j, TokenFor(j) # NoToken
    PROVE  /\ TokenFor(j) \in Token /\ TokenFor(j) \notin flying \cup minted
           /\ TokenFor(j)[1] = j /\ TokenFor(j)[2] = mem[j].cur
<1> DEFINE free == {t \in Token \ (flying \cup minted) : t[1] = j /\ t[2] = mem[j].cur}
           numbers == {t[3] : t \in free}
<1>1. free # {} /\ TokenFor(j) = CHOOSE t \in free : \A s \in free : t[3] <= s[3]
    BY DEF TokenFor
<1>2. numbers \in SUBSET Nat /\ numbers # {}
    BY <1>1, TokenIs
<1>3. PICK n \in numbers : \A k \in numbers : n <= k
    <2> HIDE DEF numbers
    <2> QED BY <1>2, LeastOf
<1>4. \E t \in free : \A s \in free : t[3] <= s[3]
    BY <1>3
<1> HIDE DEF numbers
<1>5. TokenFor(j) \in free
    <2> HIDE DEF free
    <2> QED BY <1>1, <1>4
<1> QED
    BY <1>5

\* Any number of members can be picked from a finite set.
LEMMA SomeOf ==
    ASSUME NEW S, IsFiniteSet(S), NEW n \in Nat, n <= Cardinality(S)
    PROVE  \E T \in SUBSET S : IsFiniteSet(T) /\ Cardinality(T) = n
<1> DEFINE k == Cardinality(S)
<1>1. k \in Nat /\ ExistsBijection(1..k, S)
    BY FS_CardinalityType
<1>2. PICK f : f \in Bijection(1..k, S)
    BY <1>1 DEF ExistsBijection
<1> DEFINE T == {f[i] : i \in 1..n}
           g == [i \in 1..n |-> f[i]]
<1> HIDE DEF k
<1>3. f \in [1..k -> S] /\ \A a, b \in 1..k : f[a] = f[b] => a = b
    BY <1>2 DEF Bijection, Injection, IsInjective
<1>4. n <= k
    BY DEF k
<1>5. T \in SUBSET S /\ g \in [1..n -> T]
    BY <1>1, <1>3, <1>4
<1>6. \A a, b \in 1..n : g[a] = g[b] => a = b
    BY <1>1, <1>3, <1>4
<1>7. \A x \in T : \E i \in 1..n : g[i] = x
    OBVIOUS
<1>8. g \in Bijection(1..n, T)
    <2> HIDE DEF g, T
    <2> QED BY <1>5, <1>6, <1>7 DEF Bijection, Injection, Surjection, IsInjective
<1> HIDE DEF g, T
<1>9. ExistsBijection(1..n, T)
    BY <1>8 DEF ExistsBijection
<1>10. IsFiniteSet(T) /\ Cardinality(T) = n
    BY <1>9, FS_CountingElements, FS_NatBijection
<1> QED
    BY <1>5, <1>10

\* The room of a claimant: one slot for each unit.
LEMMA Places ==
    ASSUME NEW j \in Claimant
    PROVE  /\ IsFiniteSet({j} \X Wanted[j]) /\ Cardinality({j} \X Wanted[j]) = Cardinality(Wanted[j])
           /\ Cardinality(Wanted[j]) \in Nat /\ Wanted[j] = 1..Cardinality(Wanted[j])
           /\ j \in Single => Cardinality(Wanted[j]) = 1
<1>1. IsFiniteSet(Wanted[j]) /\ Cardinality(Wanted[j]) \in Nat
    BY HeadroomAssumption, FS_CardinalityType
<1>2. IsFiniteSet({j}) /\ Cardinality({j}) = 1
    BY FS_Singleton
<1>3. IsFiniteSet({j} \X Wanted[j])
      /\ Cardinality({j} \X Wanted[j]) = Cardinality({j}) * Cardinality(Wanted[j])
    BY <1>1, <1>2, FS_Product
<1>4. j \in Single => Cardinality(Wanted[j]) = 1
    BY MintingAssumption, FS_Singleton
<1> QED
    BY <1>1, <1>2, <1>3, <1>4, MintingAssumption

LEMMA HeldIs ==
    ASSUME HeadroomTypeOK, NEW j \in Claimant
    PROVE  /\ HeldBy(j) \subseteq {j} \X Wanted[j] /\ IsFiniteSet(HeldBy(j)) /\ Held(j) \in Nat
<1>1. HeldBy(j) \in SUBSET ({j} \X Wanted[j])
    BY DEF HeldBy, HeadroomTypeOK
<1> QED
    BY <1>1, Places, FS_Subset, FS_CardinalityType DEF Held

LEMMA SlotsForIs ==
    ASSUME HeadroomTypeOK, NEW j \in Claimant, NEW n \in Nat, n <= Cardinality(Wanted[j])
    PROVE  /\ SlotsFor(j, n) \in SUBSET ({j} \X Wanted[j])
           /\ IsFiniteSet(SlotsFor(j, n)) /\ Cardinality(SlotsFor(j, n)) = n
           /\ n <= Held(j) => SlotsFor(j, n) \subseteq HeldBy(j)
<1> DEFINE all == {j} \X Wanted[j]
           h == HeldBy(j)
           Good(S) == Cardinality(S) = n /\ (S \subseteq h \/ h \subseteq S)
<1>1. /\ IsFiniteSet(all) /\ n <= Cardinality(all) /\ h \in SUBSET all /\ IsFiniteSet(h)
      /\ Cardinality(h) \in Nat /\ Cardinality(all) \in Nat /\ Held(j) = Cardinality(h)
    BY Places, HeldIs DEF Held
<1> HIDE DEF all, h
<1>2. \E S \in SUBSET all : Good(S)
    <2>1. CASE n <= Cardinality(h)
        <3>1. PICK T \in SUBSET h : Cardinality(T) = n
            BY <1>1, <2>1, SomeOf
        <3> QED
            BY <1>1, <3>1
    <2>2. CASE n > Cardinality(h)
        <3> DEFINE rest == all \ h
        <3>1. all \cap h = h
            BY <1>1
        <3>2. IsFiniteSet(rest) /\ Cardinality(rest) = Cardinality(all) - Cardinality(h)
            <4>1. IsFiniteSet(rest)
                  /\ Cardinality(rest) = Cardinality(all) - Cardinality(all \cap h)
                BY <1>1, FS_Difference
            <4> QED
                BY <3>1, <4>1
        <3>3. n - Cardinality(h) \in Nat /\ n - Cardinality(h) <= Cardinality(rest)
            BY <1>1, <2>2, <3>2
        <3>4. PICK T \in SUBSET rest : IsFiniteSet(T) /\ Cardinality(T) = n - Cardinality(h)
            <4> HIDE DEF rest
            <4> QED BY <3>2, <3>3, SomeOf
        <3>5. h \cap T = {}
            BY <3>4
        <3>6. Cardinality(h \cup T) = Cardinality(h) + Cardinality(T)
            BY <1>1, <3>4, <3>5, UnionSize
        <3>7. h \cup T \in SUBSET all /\ Cardinality(h \cup T) = n
            BY <1>1, <3>4, <3>6
        <3> QED
            BY <3>7
    <2> QED
        BY <1>1, <2>1, <2>2
<1>3. SlotsFor(j, n) = CHOOSE S \in SUBSET all : Good(S)
    BY DEF SlotsFor, all, h
<1> HIDE DEF Good
<1>4. SlotsFor(j, n) \in SUBSET all /\ Good(SlotsFor(j, n))
    BY <1>2, <1>3
<1>5. IsFiniteSet(SlotsFor(j, n))
    BY <1>1, <1>4, FS_Subset
<1>6. n <= Held(j) => SlotsFor(j, n) \subseteq h
    <2> SUFFICES ASSUME n <= Cardinality(h), h \subseteq SlotsFor(j, n) PROVE SlotsFor(j, n) \subseteq h
        BY <1>1, <1>4 DEF Good
    <2>1. h \in SUBSET SlotsFor(j, n)
        OBVIOUS
    <2>2. Cardinality(h) <= Cardinality(SlotsFor(j, n))
          /\ (Cardinality(h) = Cardinality(SlotsFor(j, n)) => SlotsFor(j, n) = h)
        BY <1>5, <2>1, FS_Subset
    <2> QED
        BY <1>1, <1>4, <2>2 DEF Good
<1> QED
    BY <1>4, <1>5, <1>6 DEF Good, all, h
-----------------------------------------------------------------------------
(* Types.                                                                  *)

\* The transactions of the store keep its type.
LEMMA StoreTyped ==
    ASSUME HeadroomTypeOK, NEW j \in Claimant,
           \/ TryReserve(j) \/ Release(j) \/ ReleaseOne(j) \/ UNCHANGED store
           \/ \E t \in Token : Retire(t),
           minted \subseteq minted', minted' \subseteq Token,
           indexed' \subseteq minted', lost' \in BOOLEAN
    PROVE  HeadroomTypeOK'
<1> USE DEF HeadroomTypeOK
<1>1. \A c \in Claimant : DropSlot(c) => slots' \subseteq slots
    BY DEF DropSlot
<1>2. CASE TryReserve(j)
    BY <1>2 DEF TryReserve
<1>3. CASE Release(j)
    BY <1>3 DEF Release
<1>4. CASE ReleaseOne(j)
    BY <1>1, <1>4 DEF ReleaseOne
<1>5. CASE UNCHANGED store
    BY <1>5 DEF store
<1>6. ASSUME NEW t \in Token, Retire(t) PROVE HeadroomTypeOK'
    <2>1. Owner[t] \in Claimant
        BY TokenIs
    <2>2. slots' \subseteq slots /\ pending' = pending \cup {t} /\ handed' = handed \cup {t}
        BY <1>1, <1>6, <2>1 DEF Retire
    <2> QED
        BY <2>2
<1> QED
    BY <1>2, <1>3, <1>4, <1>5, <1>6

LEMMA UnitsAre ==
    ASSUME NEW us \in Seq(UnitRows)
    PROVE  /\ Len(us) \in Nat /\ DOMAIN us = 1..Len(us)
           /\ \A u \in 1..Len(us) :
                /\ us[u] \in UnitRows /\ us[u].nft \in Token \cup {NoToken}
                /\ us[u].st \in {"pending", "minted", "offered", "failed"}
<1>1. \A u \in 1..Len(us) : us[u] \in UnitRows
    BY ElementOfSeq
<1> QED
    BY <1>1, LenProperties DEF UnitRows

LEMMA FreshIs ==
    ASSUME NEW n \in Nat
    PROVE  /\ Fresh(n) \in Seq(UnitRows) /\ Len(Fresh(n)) = n /\ Untouched(Fresh(n))
           /\ \A u \in 1..n : Fresh(n)[u] = [st |-> "pending", nft |-> NoToken]
<1>1. [st |-> "pending", nft |-> NoToken] \in UnitRows
    BY DEF UnitRows
<1> DEFINE f == Fresh(n)
<1>2. f \in [1..n -> UnitRows] /\ \A u \in 1..n : f[u] = [st |-> "pending", nft |-> NoToken]
    BY <1>1 DEF Fresh
<1> HIDE DEF f
<1>3. f \in Seq(UnitRows)
    BY <1>2, SeqDef
<1>4. DOMAIN f = 1..n /\ DOMAIN f = 1..Len(f) /\ Len(f) \in Nat
    BY <1>2, <1>3, LenProperties
<1>5. Len(f) = n
    BY <1>4
<1>6. Untouched(f)
    BY <1>2, <1>4 DEF Untouched
<1> QED
    BY <1>2, <1>3, <1>5, <1>6 DEF f

\* One row of the units replaced.
LEMMA RowReplaced ==
    ASSUME NEW us \in Seq(UnitRows), NEW i \in DOMAIN us, NEW r \in UnitRows
    PROVE  LET vs == [us EXCEPT ![i] = r] IN
           /\ vs \in Seq(UnitRows) /\ Len(vs) = Len(us) /\ DOMAIN vs = DOMAIN us
           /\ vs[i] = r /\ \A u \in DOMAIN us : u # i => vs[u] = us[u]
<1>1. DOMAIN us = 1..Len(us)
    BY UnitsAre
<1>2. [us EXCEPT ![i] = r] \in Seq(UnitRows) /\ Len([us EXCEPT ![i] = r]) = Len(us)
    BY <1>1, ExceptSeq
<1> QED
    BY <1>2

LEMMA RowsMapped ==
    ASSUME NEW us \in Seq(UnitRows), NEW vs,
           DOMAIN vs = DOMAIN us, vs \in [DOMAIN us -> UnitRows]
    PROVE  vs \in Seq(UnitRows) /\ Len(vs) = Len(us)
<1>1. DOMAIN us = 1..Len(us) /\ Len(us) \in Nat
    BY UnitsAre
<1>2. vs \in [1..Len(us) -> UnitRows]
    BY <1>1
<1>3. vs \in Seq(UnitRows)
    BY <1>1, <1>2, SeqDef
<1>4. DOMAIN vs = 1..Len(vs) /\ Len(vs) \in Nat
    BY <1>3, LenProperties
<1> QED
    BY <1>1, <1>3, <1>4

-----------------------------------------------------------------------------
(* A step of one session or job, and what the others see of it.            *)

\* The session goes on as m, its record reads d.
Settles(j, m, d) ==
    /\ mem' = [mem EXCEPT ![j] = m]
    /\ IF j \in Bulk THEN disk' = [disk EXCEPT ![j] = d] ELSE disk' = disk

Sized(j, m, d) ==
    /\ m \in Memory /\ Len(m.units) <= Cardinality(Wanted[j])
    /\ j \in Bulk => d \in Records /\ Len(d.units) <= Cardinality(Wanted[j])

LEMMA KindOf ==
    /\ Bulk \subseteq Claimant /\ Single \subseteq Claimant
    /\ \A j \in Claimant : j \in Single <=> j \notin Bulk
BY MintingAssumption

LEMMA UnitsWanted ==
    ASSUME NEW j \in Claimant, NEW us \in Seq(UnitRows), Len(us) <= Cardinality(Wanted[j])
    PROVE  DOMAIN us \subseteq Wanted[j]
<1> DEFINE n == Cardinality(Wanted[j])
<1>1. n \in Nat /\ Wanted[j] = 1..n
    BY Places
<1>2. DOMAIN us = 1..Len(us) /\ Len(us) \in Nat /\ Len(us) <= n
    BY UnitsAre
<1> HIDE DEF n
<1> QED
    BY <1>1, <1>2

LEMMA RowsStayTrue ==
    ASSUME NEW j \in Claimant, NEW us \in Seq(UnitRows), Len(us) <= Cardinality(Wanted[j]),
           NEW mints, NEW credit \in [CreditKeys -> Nat], TrueRows(j, us, mints, credit),
           NEW more, mints \subseteq more,
           NEW others \in [CreditKeys -> Nat],
           \A u \in Wanted[j] : others[<<j, u>>] >= credit[<<j, u>>]
    PROVE  TrueRows(j, us, more, others)
<1>1. DOMAIN us \subseteq Wanted[j]
    BY UnitsWanted
<1>2. \A u \in Wanted[j] : credit[<<j, u>>] \in Nat /\ others[<<j, u>>] \in Nat
    BY DEF CreditKeys
<1>3. \A u \in DOMAIN us : credit[<<j, u>>] > 0 => others[<<j, u>>] > 0
    BY <1>1, <1>2
<1> QED
    BY <1>3 DEF TrueRows

LEMMA RowOf ==
    ASSUME Orderly, NEW j \in Claimant
    PROVE  /\ Sized(j, mem[j], disk[j])
           /\ mem[j].units \in Seq(UnitRows)
           /\ j \in Bulk => disk[j].units \in Seq(UnitRows)
           /\ SoundAt(j, mem[j], disk[j], paid[j], minted, credits)
BY DEF Orderly, Typed, Memory, Records, Sized, Sound

\* What nobody touches stays true.
LEMMA SoundElsewhere ==
    ASSUME Orderly, NEW k \in Claimant,
           mem'[k] = mem[k], k \in Bulk => disk'[k] = disk[k], paid'[k] = paid[k],
           minted \subseteq minted', credits' \in [CreditKeys -> Nat],
           \A u \in Wanted[k] : credits'[<<k, u>>] = credits[<<k, u>>]
    PROVE  Sound(k)'
<1>1. credits \in [CreditKeys -> Nat] /\ \A u \in Wanted[k] : credits'[<<k, u>>] >= credits[<<k, u>>]
    BY DEF Orderly, Typed, CreditKeys
<1>2. TrueRows(k, mem[k].units, minted', credits')
    <2>1. /\ mem[k].units \in Seq(UnitRows) /\ Len(mem[k].units) <= Cardinality(Wanted[k])
          /\ TrueRows(k, mem[k].units, minted, credits)
        BY RowOf DEF Sized, SoundAt
    <2> QED
        BY <1>1, <2>1, RowsStayTrue
<1>3. ASSUME k \in Bulk PROVE TrueRows(k, disk[k].units, minted', credits')
    <2>1. /\ disk[k].units \in Seq(UnitRows) /\ Len(disk[k].units) <= Cardinality(Wanted[k])
          /\ TrueRows(k, disk[k].units, minted, credits)
        BY <1>3, RowOf DEF Sized, SoundAt
    <2> QED
        BY <1>1, <2>1, RowsStayTrue
<1>4. SoundAt(k, mem[k], disk[k], paid[k], minted', credits')
    BY <1>2, <1>3, RowOf DEF SoundAt
<1>5. CASE k \in Bulk
    BY <1>4, <1>5 DEF Sound
<1>6. CASE k \notin Bulk
    BY <1>4, <1>6 DEF Sound, SoundAt
<1> QED
    BY <1>5, <1>6

LEMMA SessionStep ==
    ASSUME Orderly, NEW j \in Claimant, NEW m, NEW d, Settles(j, m, d), Sized(j, m, d),
           HeadroomTypeOK', minted \subseteq minted', flying' \in SUBSET Token,
           paid' \in [Claimant -> {"unasked", "asked", "landed", "claimed"}],
           credits' \in [CreditKeys -> Nat],
           \A k \in Claimant \ {j} :
               /\ paid'[k] = paid[k]
               /\ \A u \in Wanted[k] : credits'[<<k, u>>] = credits[<<k, u>>],
           SoundAt(j, m, d, paid'[j], minted', credits')
    PROVE  Orderly' /\ mem'[j] = m /\ (j \in Bulk => disk'[j] = d)
           /\ \A k \in Claimant \ {j} : mem'[k] = mem[k] /\ (k \in Bulk => disk'[k] = disk[k])
<1>1. mem \in [Claimant -> Memory] /\ disk \in [Bulk -> Records]
    BY DEF Orderly, Typed
<1>2. mem'[j] = m /\ (j \in Bulk => disk'[j] = d)
    BY <1>1 DEF Settles
<1>3. ASSUME NEW k \in Claimant \ {j} PROVE mem'[k] = mem[k] /\ (k \in Bulk => disk'[k] = disk[k])
    BY <1>1, KindOf DEF Settles
<1>4. \A k \in Claimant \ {j} : Sound(k)'
    BY <1>3, SoundElsewhere
<1>5. Sound(j)'
    <2>1. CASE j \in Bulk
        BY <1>2, <2>1 DEF Sound
    <2>2. CASE j \notin Bulk
        BY <1>2, <2>2 DEF Sound, SoundAt
    <2> QED
        BY <2>1, <2>2
<1>6. mem' \in [Claimant -> Memory] /\ disk' \in [Bulk -> Records]
    BY <1>1 DEF Settles, Sized
<1>7. \A k \in Claimant : Len(mem'[k].units) <= Cardinality(Wanted[k])
    BY <1>2, <1>3 DEF Sized, Orderly, Typed
<1>8. \A k \in Bulk : Len(disk'[k].units) <= Cardinality(Wanted[k])
    <2>1. \A k \in Bulk : k \in Claimant
        BY KindOf
    <2> QED
        BY <1>2, <1>3, <2>1 DEF Sized, Orderly, Typed
<1>9. Typed'
    BY <1>6, <1>7, <1>8 DEF Typed
<1> QED
    BY <1>2, <1>3, <1>4, <1>5, <1>9 DEF Orderly

LEMMA InMemoryIs ==
    ASSUME Orderly, NEW j \in Claimant, NEW m, InMemory(j, m)
    PROVE  Settles(j, m, disk[j])
<1>1. disk \in [Bulk -> Records]
    BY DEF Orderly, Typed
<1>2. j \in Bulk => disk = [disk EXCEPT ![j] = disk[j]]
    BY <1>1
<1> QED
    BY <1>2 DEF InMemory, Settles

\* The memory of a job after an attempt to write its record, and the record.
Marked(j, m, ok) == IF j \in Bulk THEN [m EXCEPT !.stale = ~ok] ELSE m
Written(j, m, ok) == IF ok THEN [st |-> m.st, units |-> m.units] ELSE disk[j]

LEMMA PersistIs ==
    ASSUME Orderly, NEW j \in Claimant, NEW m, NEW ok \in BOOLEAN, Persist(j, m, ok)
    PROVE  Settles(j, Marked(j, m, ok), Written(j, m, ok))
<1>1. disk \in [Bulk -> Records]
    BY DEF Orderly, Typed
<1>2. j \in Bulk => disk = [disk EXCEPT ![j] = disk[j]]
    BY <1>1
<1>3. CASE j \in Bulk
    BY <1>2, <1>3 DEF Persist, Settles, Marked, Written
<1>4. CASE j \notin Bulk
    BY <1>4 DEF Persist, Settles, Marked
<1> QED
    BY <1>3, <1>4

\* A step that leaves the ledger and the credits alone.
LEMMA QuietStep ==
    ASSUME Orderly, NEW j \in Claimant, NEW m, NEW d, Settles(j, m, d), Sized(j, m, d),
           HeadroomTypeOK', UNCHANGED <<minted, flying, credits>>,
           paid' \in [Claimant -> {"unasked", "asked", "landed", "claimed"}],
           \A k \in Claimant \ {j} : paid'[k] = paid[k],
           SoundAt(j, m, d, paid'[j], minted, credits)
    PROVE  Orderly' /\ mem'[j] = m /\ (j \in Bulk => disk'[j] = d)
           /\ \A k \in Claimant \ {j} : mem'[k] = mem[k] /\ (k \in Bulk => disk'[k] = disk[k])
<1>1. flying' \in SUBSET Token /\ credits' \in [CreditKeys -> Nat]
    BY DEF Orderly, Typed
<1>2. SoundAt(j, m, d, paid'[j], minted', credits')
    OBVIOUS
<1>3. minted \subseteq minted' /\ \A k \in Claimant \ {j} :
         paid'[k] = paid[k] /\ \A u \in Wanted[k] : credits'[<<k, u>>] = credits[<<k, u>>]
    OBVIOUS
<1> QED
    BY <1>1, <1>2, <1>3, SessionStep

LEMMA StoreKeepsType ==
    ASSUME Orderly, NEW j \in Claimant,
           \/ TryReserve(j) \/ Release(j) \/ ReleaseOne(j) \/ UNCHANGED store
           \/ \E ok : GiveBack(j, ok)
           \/ \E t \in Token : Retire(t),
           UNCHANGED <<minted, indexed>>, lost' \in BOOLEAN
    PROVE  HeadroomTypeOK'
<1>1. /\ HeadroomTypeOK /\ minted' \subseteq Token /\ minted \subseteq minted'
      /\ indexed' \subseteq minted'
    BY DEF Orderly, Typed, HeadroomTypeOK
<1>2. \/ TryReserve(j) \/ Release(j) \/ ReleaseOne(j) \/ UNCHANGED store
      \/ \E t \in Token : Retire(t)
    BY DEF GiveBack
<1> QED
    BY <1>1, <1>2, StoreTyped

LEMMA PlainIs ==
    ASSUME Orderly
    PROVE  /\ paid \in [Claimant -> {"unasked", "asked", "landed", "claimed"}]
           /\ lost \in BOOLEAN /\ HeadroomTypeOK
BY DEF Orderly, Typed, HeadroomTypeOK

LEMMA NoSessionIs ==
    /\ NoSession \in Memory /\ Len(NoSession.units) = 0 /\ NoSession.units = Fresh(0)
    /\ Fresh(0) \in Seq(UnitRows) /\ DOMAIN Fresh(0) = {}
    /\ NoSession.step = "none" /\ NoSession.st = "awaiting" /\ ~NoSession.backing
    /\ ~NoSession.stale /\ ~NoSession.holds
<1>1. Fresh(0) \in Seq(UnitRows) /\ Len(Fresh(0)) = 0 /\ DOMAIN Fresh(0) = {}
    BY FreshIs, UnitsAre
<1>2. NoSession \in Memory
    BY <1>1 DEF NoSession, Memory, Steps, Resumable
<1> QED
    BY <1>1, <1>2 DEF NoSession

LEMMA InsertSound ==
    ASSUME Orderly, NEW j \in Claimant, Insert(j)
    PROVE  Orderly'
<1> DEFINE m == [NoSession EXCEPT !.step = "admitting", !.units = Fresh(1)]
<1>1. /\ j \in Single /\ j \notin Bulk /\ Settles(j, m, disk[j])
      /\ UNCHANGED <<store, indexed, minted, lost, flying, paid, credits>>
    BY InMemoryIs, KindOf DEF Insert, LedgerUnchanged
<1>2. Fresh(1) \in Seq(UnitRows) /\ Len(Fresh(1)) = 1 /\ Untouched(Fresh(1)) /\ Cardinality(Wanted[j]) = 1
      /\ DOMAIN Fresh(1) = 1..1 /\ \A u \in 1..1 : Fresh(1)[u] = [st |-> "pending", nft |-> NoToken]
    BY <1>1, FreshIs, Places, UnitsAre
<1>3. Sized(j, m, disk[j])
    <2>1. m \in Memory
        BY <1>2, NoSessionIs DEF Memory, Steps
    <2>2. m.units = Fresh(1)
        BY NoSessionIs DEF Memory
    <2> HIDE DEF m
    <2>3. Len(m.units) = 1 /\ Cardinality(Wanted[j]) = 1
        BY <1>2, <2>2
    <2>4. 1 <= Cardinality(Wanted[j])
        BY <2>3
    <2> QED
        BY <1>1, <2>1, <2>3, <2>4 DEF Sized
<1>4. InOrder(j, m)
    BY <1>1, <1>2, NoSessionIs DEF InOrder, Memory
<1>5. TrueRows(j, m.units, minted, credits)
    BY <1>2, NoSessionIs DEF TrueRows, Memory
<1>6. SoundAt(j, m, disk[j], paid'[j], minted, credits)
    BY <1>1, <1>4, <1>5 DEF SoundAt
<1> QED
    BY <1>1, <1>3, <1>6, PlainIs, StoreKeepsType, QuietStep

LEMMA ReserveSound ==
    ASSUME Orderly, NEW j \in Claimant, Reserve(j)
    PROVE  Orderly'
<1> DEFINE granted == Cardinality({s \in slots' : s[1] = j})
           up == [mem[j] EXCEPT !.step = "preparing", !.units = Fresh(granted), !.holds = TRUE]
           no == [mem[j] EXCEPT !.step = "ended",
                        !.st = IF @ = "awaiting" THEN "failed" ELSE @]
<1>1. /\ TryReserve(j) /\ UNCHANGED <<indexed, minted, lost, flying, paid, credits>>
      /\ mem[j].step = IF j \in Bulk THEN "none" ELSE "admitting"
      /\ \/ InMemory(j, up)
         \/ UNCHANGED <<mem, disk>>
         \/ j \in Single /\ InMemory(j, no)
    BY DEF Reserve, LedgerUnchanged
<1>2. HeadroomTypeOK'
    BY <1>1, PlainIs, StoreKeepsType
<1>3. granted \in Nat /\ granted <= Cardinality(Wanted[j])
    <2>1. {s \in slots' : s[1] = j} \in SUBSET ({j} \X Wanted[j])
        BY <1>2 DEF HeadroomTypeOK
    <2> QED
        BY <2>1, Places, FS_Subset, FS_CardinalityType
<1> HIDE DEF granted
<1>4. /\ Fresh(granted) \in Seq(UnitRows) /\ Len(Fresh(granted)) = granted /\ Untouched(Fresh(granted))
      /\ DOMAIN Fresh(granted) = 1..granted
      /\ \A u \in 1..granted : Fresh(granted)[u] = [st |-> "pending", nft |-> NoToken]
    BY <1>3, FreshIs, UnitsAre
<1>5. CASE InMemory(j, up)
    <2>1. Settles(j, up, disk[j])
        BY <1>5, InMemoryIs
    <2>2. Sized(j, up, disk[j])
        BY <1>3, <1>4, RowOf DEF Sized, Memory, Steps
    <2>3. InOrder(j, up)
        BY <1>1, <1>4, RowOf, KindOf DEF InOrder, SoundAt, Sized, Memory
    <2>4. TrueRows(j, up.units, minted, credits)
        <3>1. up.units = Fresh(granted)
            BY RowOf DEF Sized, Memory
        <3> QED BY <1>4, <3>1 DEF TrueRows
    <2>5. SoundAt(j, up, disk[j], paid'[j], minted, credits)
        BY <1>1, <2>3, <2>4, RowOf DEF SoundAt, Sized, Memory
    <2> QED
        BY <1>1, <1>2, <2>1, <2>2, <2>5, PlainIs, QuietStep
<1>6. CASE UNCHANGED <<mem, disk>>
    BY <1>1, <1>2, <1>6 DEF Orderly, Typed, Sound
<1>7. CASE j \in Single /\ InMemory(j, no)
    <2>1. Settles(j, no, disk[j])
        BY <1>7, InMemoryIs
    <2>2. Sized(j, no, disk[j])
        BY RowOf, ZenonT(40) DEF Sized, Memory, Steps, Terminal
    <2>3. SoundAt(j, no, disk[j], paid'[j], minted, credits)
        BY <1>1, <1>7, RowOf, KindOf DEF SoundAt, InOrder, Sized, Memory
    <2> QED
        BY <1>1, <1>2, <2>1, <2>2, <2>3, PlainIs, QuietStep
<1> QED
    BY <1>1, <1>5, <1>6, <1>7

LEMMA RefuseSound ==
    ASSUME Orderly, NEW j \in Claimant, Refuse(j)
    PROVE  Orderly'
<1>1. PICK ok \in BOOLEAN :
        /\ mem[j].step = "preparing" /\ GiveBack(j, ok)
        /\ InMemory(j, [mem[j] EXCEPT !.step = "ended", !.holds = ~ok,
                                      !.st = IF @ = "awaiting" THEN "failed" ELSE @])
        /\ UNCHANGED <<indexed, minted, flying, lost, paid, credits>>
    BY DEF Refuse, LedgerUnchanged
<1> DEFINE m == [mem[j] EXCEPT !.step = "ended", !.holds = ~ok,
                               !.st = IF @ = "awaiting" THEN "failed" ELSE @]
<1>2. Settles(j, m, disk[j])
    BY <1>1, InMemoryIs
<1>3. Sized(j, m, disk[j])
    BY RowOf, ZenonT(40) DEF Sized, Memory, Steps, Terminal
<1>4. SoundAt(j, m, disk[j], paid'[j], minted, credits)
    BY <1>1, RowOf DEF SoundAt, InOrder, Sized, Memory
<1>5. HeadroomTypeOK'
    BY <1>1, PlainIs, StoreKeepsType
<1> QED
    BY <1>1, <1>2, <1>3, <1>4, <1>5, PlainIs, QuietStep

\* The payment request, or the end of it.
LEMMA PreparedIs ==
    ASSUME NEW j, Prepared(j)
    PROVE  /\ mem[j].step = "preparing"
           /\ UNCHANGED <<indexed, minted, flying, lost, credits>>
           /\ \/ /\ mem[j].st # "awaiting" /\ UNCHANGED paid
                 /\ InMemory(j, [mem[j] EXCEPT !.step = "ended"])
                 /\ UNCHANGED store \/ (j \in Single /\ Release(j))
              \/ /\ mem[j].st = "awaiting" /\ UNCHANGED store
                 /\ Persist(j, [mem[j] EXCEPT !.step = "waiting"], TRUE)
                 /\ paid' = [paid EXCEPT ![j] = "asked"]
              \/ /\ mem[j].st = "awaiting" /\ UNCHANGED paid /\ Release(j)
                 /\ InMemory(j, [mem[j] EXCEPT !.step = "ended", !.st = "failed"])
BY DEF Prepared, LedgerUnchanged, GiveBack

LEMMA PreparedSound ==
    ASSUME Orderly, NEW j \in Claimant, Prepared(j)
    PROVE  Orderly'
<1>1. /\ mem[j].step = "preparing"
      /\ UNCHANGED <<indexed, minted, flying, lost, credits>>
    BY PreparedIs
<1>2. HeadroomTypeOK'
    BY <1>1, PreparedIs, PlainIs, StoreKeepsType
<1>3. ASSUME mem[j].st # "awaiting", UNCHANGED paid,
             InMemory(j, [mem[j] EXCEPT !.step = "ended"])
      PROVE  Orderly'
    <2> DEFINE m == [mem[j] EXCEPT !.step = "ended"]
    <2>1. Settles(j, m, disk[j])
        BY <1>3, InMemoryIs
    <2>2. Sized(j, m, disk[j])
        BY RowOf DEF Sized, Memory, Steps
    <2>3. SoundAt(j, m, disk[j], paid'[j], minted, credits)
        BY <1>1, <1>3, RowOf DEF SoundAt, InOrder, Sized, Memory
    <2> QED
        BY <1>1, <1>2, <1>3, <2>1, <2>2, <2>3, PlainIs, QuietStep
<1>4. ASSUME mem[j].st = "awaiting",
             Persist(j, [mem[j] EXCEPT !.step = "waiting"], TRUE),
             paid' = [paid EXCEPT ![j] = "asked"]
      PROVE  Orderly'
    <2> DEFINE w == [mem[j] EXCEPT !.step = "waiting"]
               m == Marked(j, w, TRUE)
               d == Written(j, w, TRUE)
    <2>1. Settles(j, m, d)
        BY <1>4, PersistIs
    <2>2. Sized(j, m, d)
        BY RowOf DEF Sized, Memory, Steps, Records, Marked, Written
    <2>3. m.step = "waiting" /\ m.st = "awaiting" /\ m.units = mem[j].units
          /\ d.st = "awaiting" /\ d.units = mem[j].units
        BY <1>4, RowOf DEF Sized, Memory, Marked, Written
    <2>4. paid'[j] = "asked" /\ \A k \in Claimant \ {j} : paid'[k] = paid[k]
        BY <1>4, PlainIs
    <2> HIDE DEF m, d
    <2>5. SoundAt(j, m, d, paid'[j], minted, credits)
        BY <1>1, <1>4, <2>3, <2>4, RowOf DEF SoundAt, InOrder, RecordInOrder, Resumable
    <2>6. paid' \in [Claimant -> {"unasked", "asked", "landed", "claimed"}]
        BY <1>4, PlainIs
    <2> QED
        BY <1>1, <1>2, <2>1, <2>2, <2>4, <2>5, <2>6, QuietStep
<1>5. ASSUME mem[j].st = "awaiting", UNCHANGED paid,
             InMemory(j, [mem[j] EXCEPT !.step = "ended", !.st = "failed"])
      PROVE  Orderly'
    <2> DEFINE m == [mem[j] EXCEPT !.step = "ended", !.st = "failed"]
    <2>1. Settles(j, m, disk[j])
        BY <1>5, InMemoryIs
    <2>2. Sized(j, m, disk[j])
        BY RowOf DEF Sized, Memory, Steps, Terminal
    <2>3. SoundAt(j, m, disk[j], paid'[j], minted, credits)
        BY <1>1, <1>5, RowOf DEF SoundAt, InOrder, Sized, Memory
    <2> QED
        BY <1>1, <1>2, <1>5, <2>1, <2>2, <2>3, PlainIs, QuietStep
<1> QED
    BY <1>3, <1>4, <1>5, PreparedIs

LEMMA PaySound ==
    ASSUME Orderly, NEW j \in Claimant, Pay(j)
    PROVE  Orderly'
<1>1. /\ paid[j] = "asked" /\ paid' = [paid EXCEPT ![j] = "landed"]
      /\ UNCHANGED <<slots, pending, handed, indexed, minted, flying, lost, mem, disk, credits>>
    BY DEF Pay, LedgerUnchanged, store
<1>2. paid' \in [Claimant -> {"unasked", "asked", "landed", "claimed"}]
      /\ \A k \in Claimant : paid'[k] = "claimed" => paid[k] = "claimed"
    BY <1>1, PlainIs
<1>3. Typed'
    BY <1>1, <1>2 DEF Orderly, Typed, HeadroomTypeOK
<1>4. \A k \in Claimant : Sound(k)'
    BY <1>1, <1>2 DEF Orderly, Sound, SoundAt
<1> QED
    BY <1>3, <1>4 DEF Orderly

LEMMA ClaimSound ==
    ASSUME Orderly, NEW j \in Claimant, Claim(j)
    PROVE  Orderly'
<1> DEFINE m == [mem[j] EXCEPT !.step = "closing"]
<1>1. /\ mem[j].step = "waiting" /\ paid' = [paid EXCEPT ![j] = "claimed"]
      /\ InMemory(j, m) /\ UNCHANGED <<store, indexed, minted, flying, lost, credits>>
    BY DEF Claim, LedgerUnchanged
<1>2. Settles(j, m, disk[j])
    BY <1>1, InMemoryIs
<1>3. Sized(j, m, disk[j])
    BY RowOf DEF Sized, Memory, Steps
<1>4. paid' \in [Claimant -> {"unasked", "asked", "landed", "claimed"}]
      /\ \A k \in Claimant \ {j} : paid'[k] = paid[k]
    BY <1>1, PlainIs
<1>5. SoundAt(j, m, disk[j], paid'[j], minted, credits)
    BY <1>1, RowOf DEF SoundAt, InOrder, Sized, Memory, Resumable
<1>6. HeadroomTypeOK'
    BY <1>1, PlainIs, StoreKeepsType
<1> QED
    BY <1>1, <1>2, <1>3, <1>4, <1>5, <1>6, QuietStep

LEMMA FulfilIs ==
    ASSUME NEW m \in Memory
    PROVE  /\ Fulfil(m) \in Memory /\ Fulfil(m).units = m.units
           /\ Fulfil(m).step = "unit" /\ Fulfil(m).st = "fulfilling"
           /\ Fulfil(m).stale = m.stale
<1>1. NextUnit(m, 1) \in Nat \ {0}
    BY NextUnitIs
<1> QED
    BY <1>1 DEF Fulfil, Memory, Steps, Resumable

\* A job that starts on its units, its record written or not.
LEMMA FulfilStep ==
    ASSUME Orderly, NEW j \in Claimant, NEW ok \in BOOLEAN,
           mem[j].step \in {"waiting", "closing"}, Persist(j, Fulfil(mem[j]), ok),
           UNCHANGED <<store, indexed, minted, flying, lost, paid, credits>>
    PROVE  Orderly'
<1> DEFINE w == Fulfil(mem[j])
           m == Marked(j, w, ok)
           d == Written(j, w, ok)
<1>1. Settles(j, m, d)
    BY PersistIs
<1>2. w \in Memory /\ w.units = mem[j].units /\ w.step = "unit" /\ w.st = "fulfilling"
    BY FulfilIs, RowOf DEF Sized
<1> HIDE DEF w
<1>3. m \in Memory /\ m.units = mem[j].units /\ m.step = "unit" /\ m.st = "fulfilling"
    BY <1>2 DEF Memory, Marked
<1>4. \/ d = disk[j]
      \/ d \in Records /\ d.st = "fulfilling" /\ d.units = mem[j].units
    BY <1>2 DEF Written, Records, Memory
<1> HIDE DEF m, d
<1>5. Sized(j, m, d)
    BY <1>3, <1>4, RowOf DEF Sized
<1>6. InOrder(j, m)
    BY <1>3, RowOf DEF SoundAt, InOrder
<1>7. SoundAt(j, m, d, paid'[j], minted, credits)
    BY <1>3, <1>4, <1>6, RowOf DEF SoundAt, RecordInOrder, Resumable
<1>8. HeadroomTypeOK'
    BY PlainIs, StoreKeepsType
<1> QED
    BY <1>1, <1>5, <1>7, <1>8, PlainIs, QuietStep

LEMMA WaitReturnsSound ==
    ASSUME Orderly, NEW j \in Claimant, WaitReturns(j)
    PROVE  Orderly'
BY FulfilStep DEF WaitReturns, LedgerUnchanged

LEMMA WaitTimesOutIs ==
    ASSUME NEW j, WaitTimesOut(j)
    PROVE  /\ mem[j].step = "waiting"
           /\ UNCHANGED <<indexed, minted, flying, lost, paid, credits>>
           /\ \E gave, wrote \in BOOLEAN :
               \/ Persist(j, Fulfil(mem[j]), wrote) /\ UNCHANGED store
               \/ /\ ~ClaimedHere(j) /\ GiveBack(j, gave)
                  /\ Persist(j, [mem[j] EXCEPT !.step = "ended", !.st = "timeout",
                                               !.holds = ~gave], wrote)
               \/ /\ Persist(j, [mem[j] EXCEPT !.step = "ended"], TRUE) /\ UNCHANGED store
                  /\ j \in Bulk
BY DEF WaitTimesOut, LedgerUnchanged

LEMMA WaitTimesOutSound ==
    ASSUME Orderly, NEW j \in Claimant, WaitTimesOut(j)
    PROVE  Orderly'
<1>1. mem[j].step = "waiting" /\ UNCHANGED <<indexed, minted, flying, lost, paid, credits>>
    BY WaitTimesOutIs
<1>2. ASSUME NEW wrote \in BOOLEAN, Persist(j, Fulfil(mem[j]), wrote), UNCHANGED store
      PROVE  Orderly'
    BY <1>1, <1>2, FulfilStep
<1>3. ASSUME NEW gave \in BOOLEAN, NEW wrote \in BOOLEAN, ~ClaimedHere(j), GiveBack(j, gave),
             Persist(j, [mem[j] EXCEPT !.step = "ended", !.st = "timeout", !.holds = ~gave], wrote)
      PROVE  Orderly'
    <2> DEFINE w == [mem[j] EXCEPT !.step = "ended", !.st = "timeout", !.holds = ~gave]
               m == Marked(j, w, wrote)
               d == Written(j, w, wrote)
    <2>1. Settles(j, m, d)
        BY <1>3, PersistIs
    <2>2. /\ m \in Memory /\ m.units = mem[j].units /\ m.step = "ended" /\ m.st = "timeout"
        BY RowOf, ZenonT(40) DEF Sized, Memory, Steps, Terminal, Marked
    <2>3. d = disk[j] \/ (d \in Records /\ d.st = "timeout" /\ d.units = mem[j].units)
        BY RowOf DEF Sized, Memory, Records, Terminal, Written
    <2> HIDE DEF m, d
    <2>4. Sized(j, m, d)
        BY <2>2, <2>3, RowOf DEF Sized
    <2>5. InOrder(j, m)
        BY <2>2, RowOf DEF InOrder
    <2>6. j \in Bulk => paid[j] # "claimed"
        BY <1>3 DEF ClaimedHere
    <2>7. SoundAt(j, m, d, paid'[j], minted, credits)
        BY <1>1, <2>2, <2>3, <2>5, <2>6, RowOf DEF SoundAt, RecordInOrder
    <2>8. HeadroomTypeOK'
        BY <1>1, <1>3, PlainIs, StoreKeepsType
    <2> QED
        BY <1>1, <2>1, <2>4, <2>7, <2>8, PlainIs, QuietStep
<1>4. ASSUME Persist(j, [mem[j] EXCEPT !.step = "ended"], TRUE), UNCHANGED store, j \in Bulk
      PROVE  Orderly'
    <2> DEFINE w == [mem[j] EXCEPT !.step = "ended"]
               m == Marked(j, w, TRUE)
               d == Written(j, w, TRUE)
    <2>1. Settles(j, m, d)
        BY <1>4, PersistIs
    <2>2. mem[j].st = "awaiting" /\ Untouched(mem[j].units)
        BY <1>1, RowOf DEF SoundAt, InOrder
    <2>3. /\ m \in Memory /\ m.units = mem[j].units /\ m.step = "ended" /\ m.st = "awaiting"
          /\ d \in Records /\ d.units = mem[j].units /\ d.st = "awaiting"
        BY <2>2, RowOf DEF Sized, Memory, Steps, Records, Marked, Written
    <2> HIDE DEF m, d
    <2>4. Sized(j, m, d)
        BY <2>3, RowOf DEF Sized
    <2>5. InOrder(j, m)
        BY <2>2, <2>3 DEF InOrder
    <2>7. SoundAt(j, m, d, paid'[j], minted, credits)
        BY <1>1, <2>2, <2>3, <2>5, RowOf DEF SoundAt, RecordInOrder
    <2>8. HeadroomTypeOK'
        BY <1>1, <1>4, PlainIs, StoreKeepsType
    <2> QED
        BY <1>1, <2>1, <2>4, <2>7, <2>8, PlainIs, QuietStep
<1> QED
    BY <1>2, <1>3, <1>4, WaitTimesOutIs

LEMMA CancelCheckSound ==
    ASSUME Orderly, NEW j \in Claimant, CancelCheck(j)
    PROVE  Orderly'
<1> DEFINE m == [mem[j] EXCEPT !.backing = TRUE]
<1>1. /\ mem[j].step # "none" /\ mem[j].st = "awaiting" /\ InMemory(j, m)
      /\ UNCHANGED <<store, indexed, minted, flying, lost, paid, credits>>
    BY DEF CancelCheck, LedgerUnchanged
<1>2. Settles(j, m, disk[j])
    BY <1>1, InMemoryIs
<1>3. Sized(j, m, disk[j])
    BY RowOf DEF Sized, Memory
<1>4. SoundAt(j, m, disk[j], paid'[j], minted, credits)
    BY <1>1, RowOf DEF SoundAt, InOrder, Sized, Memory
<1>5. HeadroomTypeOK'
    BY <1>1, PlainIs, StoreKeepsType
<1> QED
    BY <1>1, <1>2, <1>3, <1>4, <1>5, PlainIs, QuietStep

\* The memory of a session that was cancelled.
Cancelled(m, gave) ==
    [m EXCEPT !.st = "cancelled", !.backing = FALSE, !.holds = @ /\ ~gave,
              !.step = IF @ \in {"waiting", "closing"} THEN "ended" ELSE @]

LEMMA CancelCommitIs ==
    ASSUME Orderly, NEW j \in Claimant, CancelCommit(j)
    PROVE  /\ UNCHANGED <<indexed, minted, flying, lost, paid, credits>> /\ mem[j].backing
           /\ \/ InMemory(j, [mem[j] EXCEPT !.backing = FALSE]) /\ UNCHANGED store
              \/ \E gave, wrote \in BOOLEAN :
                  /\ mem[j].st = "awaiting" /\ (j \in Bulk => paid[j] # "claimed")
                  /\ IF mem[j].holds THEN GiveBack(j, gave) ELSE gave /\ UNCHANGED store
                  /\ Settles(j, Cancelled(mem[j], gave), IF wrote THEN NoRecord ELSE disk[j])
<1>1. UNCHANGED <<indexed, minted, flying, lost, paid, credits>> /\ mem[j].backing
    BY DEF CancelCommit, LedgerUnchanged
<1>2. PICK gave \in BOOLEAN, wrote \in BOOLEAN :
        \/ InMemory(j, [mem[j] EXCEPT !.backing = FALSE]) /\ UNCHANGED store
        \/ /\ ~CancelRefused(j)
           /\ IF mem[j].holds THEN GiveBack(j, gave) ELSE gave /\ UNCHANGED store
           /\ mem' = [mem EXCEPT ![j].st = "cancelled", ![j].backing = FALSE,
                      ![j].holds = @ /\ ~gave,
                      ![j].step = IF @ \in {"waiting", "closing"} THEN "ended" ELSE @]
           /\ disk' = IF wrote /\ j \in Bulk THEN [disk EXCEPT ![j] = NoRecord] ELSE disk
    BY DEF CancelCommit
<1>3. ~CancelRefused(j) => mem[j].st = "awaiting" /\ (j \in Bulk => paid[j] # "claimed")
    BY DEF CancelRefused, ClaimedHere
<1>4. mem \in [Claimant -> Memory] /\ disk \in [Bulk -> Records]
    BY DEF Orderly, Typed
<1>5. ASSUME mem' = [mem EXCEPT ![j].st = "cancelled", ![j].backing = FALSE,
                      ![j].holds = @ /\ ~gave,
                      ![j].step = IF @ \in {"waiting", "closing"} THEN "ended" ELSE @],
             disk' = IF wrote /\ j \in Bulk THEN [disk EXCEPT ![j] = NoRecord] ELSE disk
      PROVE  Settles(j, Cancelled(mem[j], gave), IF wrote THEN NoRecord ELSE disk[j])
    <2>1. mem' = [mem EXCEPT ![j] = Cancelled(mem[j], gave)]
        BY <1>4, <1>5 DEF Cancelled, Memory
    <2>2. j \in Bulk => disk = [disk EXCEPT ![j] = disk[j]]
        BY <1>4
    <2> QED
        BY <1>5, <2>1, <2>2 DEF Settles
<1> QED
    BY <1>1, <1>2, <1>3, <1>5

LEMMA NoRecordIs == NoRecord \in Records /\ Len(NoRecord.units) = 0 /\ NoRecord.st = "none"
                    /\ DOMAIN NoRecord.units = {}
BY NoSessionIs DEF NoRecord, Records

LEMMA CancelCommitSound ==
    ASSUME Orderly, NEW j \in Claimant, CancelCommit(j)
    PROVE  Orderly'
<1>1. UNCHANGED <<indexed, minted, flying, lost, paid, credits>> /\ mem[j].backing
    BY CancelCommitIs
<1>2. ASSUME InMemory(j, [mem[j] EXCEPT !.backing = FALSE]), UNCHANGED store PROVE Orderly'
    <2> DEFINE m == [mem[j] EXCEPT !.backing = FALSE]
    <2>2. Settles(j, m, disk[j])
        BY <1>2, InMemoryIs
    <2>3. Sized(j, m, disk[j])
        BY RowOf DEF Sized, Memory
    <2>4. SoundAt(j, m, disk[j], paid'[j], minted, credits)
        BY <1>1, RowOf DEF SoundAt, InOrder, Sized, Memory
    <2>5. HeadroomTypeOK'
        BY <1>1, <1>2, PlainIs, StoreKeepsType
    <2> QED
        BY <1>1, <2>2, <2>3, <2>4, <2>5, PlainIs, QuietStep
<1>3. ASSUME NEW gave \in BOOLEAN, NEW wrote \in BOOLEAN,
             mem[j].st = "awaiting", j \in Bulk => paid[j] # "claimed",
             IF mem[j].holds THEN GiveBack(j, gave) ELSE gave /\ UNCHANGED store,
             Settles(j, Cancelled(mem[j], gave), IF wrote THEN NoRecord ELSE disk[j])
      PROVE  Orderly'
    <2> DEFINE m == Cancelled(mem[j], gave)
               d == IF wrote THEN NoRecord ELSE disk[j]
    <2>1. /\ m \in Memory /\ m.units = mem[j].units /\ m.st = "cancelled" /\ ~m.backing
          /\ m.step = IF mem[j].step \in {"waiting", "closing"} THEN "ended" ELSE mem[j].step
        BY RowOf, ZenonT(40) DEF Sized, Memory, Steps, Terminal, Cancelled
    <2>2. d = disk[j] \/ (d = NoRecord)
        OBVIOUS
    <2>3. Settles(j, m, d)
        BY <1>3
    <2> HIDE DEF m, d
    <2>4. Sized(j, m, d)
        <3> DEFINE c == Cardinality(Wanted[j])
        <3>1. c \in Nat
            BY Places
        <3> HIDE DEF c
        <3>2. 0 <= c
            BY <3>1
        <3> QED
            BY <2>1, <2>2, <3>2, RowOf, NoRecordIs DEF Sized, c
    <2>5. InOrder(j, m)
        <3>1. InOrder(j, mem[j]) /\ mem[j].step \in Steps
            BY RowOf DEF SoundAt, Sized, Memory
        <3>2. mem[j].step \in {"admitting", "preparing", "waiting", "closing", "ended"}
              /\ Untouched(mem[j].units) /\ (mem[j].step = "admitting" => j \in Single)
            BY <1>1, <1>3, <3>1 DEF InOrder, Steps
        <3> QED
            BY <2>1, <3>2 DEF InOrder
    <2>6. SoundAt(j, m, d, paid'[j], minted, credits)
        BY <1>1, <1>3, <2>1, <2>2, <2>5, RowOf, NoRecordIs DEF SoundAt, RecordInOrder, TrueRows, Resumable
    <2>7. HeadroomTypeOK'
        BY <1>1, <1>3, PlainIs, StoreKeepsType
    <2> QED
        BY <1>1, <2>3, <2>4, <2>6, <2>7, PlainIs, QuietStep
<1> QED
    BY <1>2, <1>3, CancelCommitIs

\* A step on the units of a paid session, its record written or not.
LEMMA WorkStep ==
    ASSUME Orderly, NEW j \in Claimant, NEW w \in Memory, NEW ok \in BOOLEAN, Persist(j, w, ok),
           Len(w.units) <= Cardinality(Wanted[j]),
           HeadroomTypeOK', UNCHANGED <<minted, flying, paid>>,
           credits' \in [CreditKeys -> Nat],
           \A k \in Claimant \ {j} : \A u \in Wanted[k] : credits'[<<k, u>>] = credits[<<k, u>>],
           \A u \in Wanted[j] : credits'[<<j, u>>] >= credits[<<j, u>>],
           InOrder(j, w), TrueRows(j, w.units, minted, credits'),
           w.step \in {"unit", "flying", "offering", "ended"},
           \/ w.st = "fulfilling"
           \/ w.st = "done" /\ \A u \in DOMAIN w.units : w.units[u].st \in {"offered", "failed"}
    PROVE  Orderly'
<1> DEFINE m == Marked(j, w, ok)
           d == Written(j, w, ok)
<1>1. Settles(j, m, d)
    BY PersistIs
<1>2. /\ m \in Memory /\ m.units = w.units /\ m.step = w.step /\ m.st = w.st
      /\ m.cur = w.cur /\ m.tok = w.tok /\ m.backing = w.backing
    BY DEF Marked, Memory
<1>3. d = disk[j] \/ (d \in Records /\ d.units = w.units /\ d.st = w.st)
    BY DEF Written, Records, Memory
<1> HIDE DEF m, d
<1>4. Sized(j, m, d)
    BY <1>2, <1>3, RowOf DEF Sized
<1>5. InOrder(j, m)
    BY <1>2 DEF InOrder
<1>6. j \in Bulk => TrueRows(j, disk[j].units, minted, credits')
    <2>1. j \in Bulk => /\ disk[j].units \in Seq(UnitRows) /\ Len(disk[j].units) <= Cardinality(Wanted[j])
                        /\ TrueRows(j, disk[j].units, minted, credits)
        BY RowOf DEF Sized, SoundAt
    <2>2. credits \in [CreditKeys -> Nat]
        BY DEF Orderly, Typed
    <2> QED
        BY <2>1, <2>2, RowsStayTrue
<1>7. /\ j \in Bulk => RecordInOrder(disk[j])
      /\ j \in Bulk /\ paid[j] = "claimed" => disk[j].st \in {"awaiting", "fulfilling", "done"}
    BY RowOf DEF SoundAt
<1>8. SoundAt(j, m, d, paid'[j], minted, credits')
    <2>1. j \in Bulk => RecordInOrder(d) /\ TrueRows(j, d.units, minted, credits')
        BY <1>3, <1>6, <1>7 DEF RecordInOrder
    <2>2. j \in Bulk /\ paid[j] = "claimed" => d.st \in {"awaiting", "fulfilling", "done"}
        BY <1>3, <1>7
    <2> QED
        BY <1>2, <1>5, <2>1, <2>2 DEF SoundAt
<1>9. flying' \in SUBSET Token /\ minted \subseteq minted'
      /\ paid' \in [Claimant -> {"unasked", "asked", "landed", "claimed"}]
    BY DEF Orderly, Typed
<1>10. SoundAt(j, m, d, paid'[j], minted', credits')
    BY <1>8
<1>11. \A k \in Claimant \ {j} :
        paid'[k] = paid[k] /\ \A u \in Wanted[k] : credits'[<<k, u>>] = credits[<<k, u>>]
    OBVIOUS
<1> QED
    BY <1>1, <1>4, <1>9, <1>10, <1>11, SessionStep

LEMMA CreditsIs ==
    ASSUME Orderly, UNCHANGED credits
    PROVE  /\ credits' \in [CreditKeys -> Nat]
           /\ \A k \in Claimant : \A u \in Wanted[k] :
                credits'[<<k, u>>] = credits[<<k, u>>] /\ credits'[<<k, u>>] >= credits[<<k, u>>]
BY DEF Orderly, Typed, CreditKeys

\* The units of a session at work.
LEMMA AtWork ==
    ASSUME Orderly, NEW j \in Claimant
    PROVE  /\ mem[j] \in Memory /\ mem[j].units \in Seq(UnitRows)
           /\ Len(mem[j].units) <= Cardinality(Wanted[j])
           /\ DOMAIN mem[j].units = 1..Len(mem[j].units) /\ DOMAIN mem[j].units \subseteq Wanted[j]
           /\ InOrder(j, mem[j]) /\ TrueRows(j, mem[j].units, minted, credits)
           /\ mem[j].cur \in Nat \ {0} /\ mem[j].cur + 1 \in Nat \ {0}
<1>1. Sized(j, mem[j], disk[j]) /\ mem[j].units \in Seq(UnitRows)
      /\ SoundAt(j, mem[j], disk[j], paid[j], minted, credits)
    BY RowOf
<1>2. mem[j] \in Memory /\ Len(mem[j].units) <= Cardinality(Wanted[j])
    BY <1>1 DEF Sized
<1>3. DOMAIN mem[j].units = 1..Len(mem[j].units) /\ DOMAIN mem[j].units \subseteq Wanted[j]
    BY <1>1, <1>2, UnitsAre, UnitsWanted
<1>4. mem[j].cur \in Nat \ {0} /\ mem[j].cur + 1 \in Nat \ {0}
    BY <1>2 DEF Memory
<1> QED
    BY <1>1, <1>2, <1>3, <1>4 DEF SoundAt

LEMMA RetryPersistSound ==
    ASSUME Orderly, NEW j \in Claimant, RetryPersist(j)
    PROVE  Orderly'
<1>1. PICK ok \in BOOLEAN :
        /\ mem[j].step = "unit"
        /\ Persist(j, IF ok THEN mem[j] ELSE [mem[j] EXCEPT !.step = "ended"], ok)
        /\ UNCHANGED <<store, indexed, minted, flying, lost, paid, credits>>
    BY DEF RetryPersist, LedgerUnchanged
<1> DEFINE w == IF ok THEN mem[j] ELSE [mem[j] EXCEPT !.step = "ended"]
<1>2. w \in Memory /\ w.units = mem[j].units /\ w.st = "fulfilling" /\ w.step \in {"unit", "ended"}
      /\ (ok => w = mem[j])
    BY <1>1, AtWork DEF Memory, Steps, InOrder
<1>3. HeadroomTypeOK'
    BY <1>1, PlainIs, StoreKeepsType
<1>4. Persist(j, w, ok)
    BY <1>1
<1> HIDE DEF w
<1>5. InOrder(j, w)
    BY <1>1, <1>2, AtWork DEF InOrder
<1>6. TrueRows(j, w.units, minted, credits')
    BY <1>1, <1>2, AtWork
<1> QED
    BY <1>1, <1>2, <1>3, <1>4, <1>5, <1>6, AtWork, CreditsIs, WorkStep

LEMMA SubmitSound ==
    ASSUME Orderly, NEW j \in Claimant, Submit(j)
    PROVE  Orderly'
<1> DEFINE m == [mem[j] EXCEPT !.step = "flying", !.tok = TokenFor(j)]
<1>1. /\ AtUnit(j, "pending") /\ TokenFor(j) # NoToken /\ flying' = flying \cup {TokenFor(j)}
      /\ InMemory(j, m) /\ UNCHANGED <<store, indexed, minted, lost, paid, credits>>
    BY DEF Submit
<1>2. /\ TokenFor(j) \in Token /\ TokenFor(j)[1] = j /\ TokenFor(j)[2] = mem[j].cur
    BY <1>1, TokenForIs
<1>3. /\ mem[j].step = "unit" /\ mem[j].cur \in DOMAIN mem[j].units
      /\ mem[j].units[mem[j].cur].st = "pending"
    BY <1>1, AtWork DEF AtUnit
<1>4. Settles(j, m, disk[j])
    BY <1>1, InMemoryIs
<1>5. /\ m \in Memory /\ m.units = mem[j].units /\ m.step = "flying" /\ m.st = "fulfilling"
      /\ m.cur = mem[j].cur /\ m.tok = TokenFor(j)
    <2>1. mem[j] \in Memory /\ mem[j].st = "fulfilling"
        BY <1>3, AtWork DEF InOrder
    <2>2. TokenFor(j) \in Token
        BY <1>2
    <2> QED
        BY <2>1, <2>2 DEF Memory, Steps
<1> HIDE DEF m
<1>6. InOrder(j, m)
    BY <1>2, <1>3, <1>5, AtWork DEF InOrder
<1>7. Sized(j, m, disk[j])
    BY <1>5, RowOf DEF Sized
<1>8. SoundAt(j, m, disk[j], paid'[j], minted', credits')
    BY <1>1, <1>5, <1>6, RowOf DEF SoundAt
<1>9. HeadroomTypeOK'
    BY <1>1, PlainIs, StoreKeepsType
<1>10. flying' \in SUBSET Token /\ minted \subseteq minted'
       /\ paid' \in [Claimant -> {"unasked", "asked", "landed", "claimed"}]
       /\ credits' \in [CreditKeys -> Nat]
    BY <1>1, <1>2 DEF Orderly, Typed
<1>11. \A k \in Claimant \ {j} :
        paid'[k] = paid[k] /\ \A u \in Wanted[k] : credits'[<<k, u>>] = credits[<<k, u>>]
    BY <1>1
<1> QED
    BY <1>4, <1>7, <1>8, <1>9, <1>10, <1>11, SessionStep

LEMMA HeldUnreadSound ==
    ASSUME Orderly, NEW j \in Claimant, HeldUnread(j)
    PROVE  Orderly'
<1> DEFINE m == [mem[j] EXCEPT !.tries = @ + 1]
<1>1. /\ mem[j].step = "unit" /\ InMemory(j, m)
      /\ UNCHANGED <<store, indexed, minted, flying, lost, paid, credits>>
    BY DEF HeldUnread, LedgerUnchanged, AtUnit
<1>2. Settles(j, m, disk[j])
    BY <1>1, InMemoryIs
<1>3. Sized(j, m, disk[j])
    BY RowOf, SMTT(30) DEF Sized, Memory
<1>4. SoundAt(j, m, disk[j], paid'[j], minted, credits)
    BY <1>1, RowOf DEF SoundAt, InOrder, Sized, Memory
<1>5. HeadroomTypeOK'
    BY <1>1, PlainIs, StoreKeepsType
<1> QED
    BY <1>1, <1>2, <1>3, <1>4, <1>5, PlainIs, QuietStep

\* The raise: a job is parked, a session fails.
LEMMA RaiseIs ==
    ASSUME NEW j, Raise(j)
    PROVE  /\ mem[j].step = "unit" /\ UNCHANGED <<indexed, minted, flying, lost, paid, credits>>
           /\ \E gave, wrote \in BOOLEAN :
               \/ /\ j \in Bulk /\ UNCHANGED store
                  /\ Persist(j, [mem[j] EXCEPT !.step = "ended"], wrote)
               \/ /\ j \notin Bulk /\ GiveBack(j, gave)
                  /\ InMemory(j, [mem[j] EXCEPT !.step = "ended", !.st = "failed", !.holds = ~gave])
BY DEF Raise, LedgerUnchanged

LEMMA RaiseSound ==
    ASSUME Orderly, NEW j \in Claimant, Raise(j)
    PROVE  Orderly'
<1>1. mem[j].step = "unit" /\ UNCHANGED <<indexed, minted, flying, lost, paid, credits>>
    BY RaiseIs
<1>2. ASSUME NEW wrote \in BOOLEAN, UNCHANGED store,
             Persist(j, [mem[j] EXCEPT !.step = "ended"], wrote)
      PROVE  Orderly'
    <2> DEFINE w == [mem[j] EXCEPT !.step = "ended"]
    <2>1. w \in Memory /\ w.units = mem[j].units /\ w.st = "fulfilling" /\ w.step = "ended"
        BY <1>1, AtWork DEF Memory, Steps, InOrder
    <2>2. Persist(j, w, wrote)
        BY <1>2
    <2>3. HeadroomTypeOK'
        BY <1>1, <1>2, PlainIs, StoreKeepsType
    <2> HIDE DEF w
    <2>4. InOrder(j, w)
        BY <2>1 DEF InOrder
    <2> QED
        BY <1>1, <2>1, <2>2, <2>3, <2>4, AtWork, CreditsIs, WorkStep
<1>3. ASSUME NEW gave \in BOOLEAN, GiveBack(j, gave), j \notin Bulk,
             InMemory(j, [mem[j] EXCEPT !.step = "ended", !.st = "failed", !.holds = ~gave])
      PROVE  Orderly'
    <2> DEFINE m == [mem[j] EXCEPT !.step = "ended", !.st = "failed", !.holds = ~gave]
    <2>1. Settles(j, m, disk[j])
        BY <1>3, InMemoryIs
    <2>2. Sized(j, m, disk[j])
        BY RowOf, ZenonT(40) DEF Sized, Memory, Steps, Terminal
    <2>3. SoundAt(j, m, disk[j], paid'[j], minted, credits)
        BY <1>1, <1>3, RowOf DEF SoundAt, InOrder, Sized, Memory
    <2>4. HeadroomTypeOK'
        BY <1>1, <1>3, PlainIs, StoreKeepsType
    <2> QED
        BY <1>1, <2>1, <2>2, <2>3, <2>4, PlainIs, QuietStep
<1> QED
    BY <1>2, <1>3, RaiseIs

\* The memory after the mint of its current unit.
Confirmed(j, retired) ==
    [mem[j] EXCEPT !.step = "offering", !.tok = NoToken, !.holds = j \in Bulk \/ ~retired,
                   !.units[mem[j].cur] = [st |-> "minted", nft |-> mem[j].tok]]

LEMMA ConfirmedIs ==
    ASSUME Orderly, NEW j \in Claimant, mem[j].step = "flying", NEW retired \in BOOLEAN
    PROVE  LET w == Confirmed(j, retired) IN
           /\ w \in Memory /\ w.step = "offering" /\ w.st = "fulfilling"
           /\ w.cur = mem[j].cur /\ w.holds = (j \in Bulk \/ ~retired) /\ w.stale = mem[j].stale
           /\ Len(w.units) = Len(mem[j].units) /\ DOMAIN w.units = DOMAIN mem[j].units
           /\ w.units[w.cur] = [st |-> "minted", nft |-> mem[j].tok]
           /\ \A u \in DOMAIN mem[j].units : u # w.cur => w.units[u] = mem[j].units[u]
<1> DEFINE r == [st |-> "minted", nft |-> mem[j].tok]
           us == [mem[j].units EXCEPT ![mem[j].cur] = r]
           w == Confirmed(j, retired)
<1>1. /\ mem[j].cur \in DOMAIN mem[j].units /\ mem[j].tok \in Token /\ mem[j].st = "fulfilling"
    BY AtWork DEF InOrder
<1>2. r \in UnitRows
    BY <1>1 DEF UnitRows
<1>3. /\ us \in Seq(UnitRows) /\ Len(us) = Len(mem[j].units) /\ DOMAIN us = DOMAIN mem[j].units
      /\ us[mem[j].cur] = r /\ \A u \in DOMAIN mem[j].units : u # mem[j].cur => us[u] = mem[j].units[u]
    <2> HIDE DEF r
    <2> QED BY <1>1, <1>2, AtWork, RowReplaced
<1>4. w = [mem[j] EXCEPT !.step = "offering", !.tok = NoToken, !.holds = j \in Bulk \/ ~retired,
                         !.units = us]
    BY DEF Confirmed
<1> HIDE DEF us
<1>5. w \in Memory /\ w.units = us /\ w.step = "offering" /\ w.st = "fulfilling" /\ w.cur = mem[j].cur
      /\ w.holds = (j \in Bulk \/ ~retired) /\ w.stale = mem[j].stale
    BY <1>1, <1>3, <1>4, AtWork DEF Memory, Steps
<1> HIDE DEF w, r
<1> QED
    BY <1>3, <1>5 DEF w, r

LEMMA MintConfirmedIs ==
    ASSUME NEW j, MintConfirmed(j)
    PROVE  /\ mem[j].step = "flying" /\ mem[j].tok \in minted
           /\ UNCHANGED <<indexed, minted, flying, lost, paid, credits>>
           /\ \E wrote, retired \in BOOLEAN :
               /\ IF retired THEN Retire(mem[j].tok) ELSE UNCHANGED store
               /\ Persist(j, Confirmed(j, retired), wrote)
BY DEF MintConfirmed, LedgerUnchanged, Confirmed

LEMMA MintConfirmedSound ==
    ASSUME Orderly, NEW j \in Claimant, MintConfirmed(j)
    PROVE  Orderly'
<1>1. /\ mem[j].step = "flying" /\ mem[j].tok \in minted
      /\ UNCHANGED <<indexed, minted, flying, lost, paid, credits>>
    BY MintConfirmedIs
<1>2. PICK wrote \in BOOLEAN, retired \in BOOLEAN :
        /\ IF retired THEN Retire(mem[j].tok) ELSE UNCHANGED store
        /\ Persist(j, Confirmed(j, retired), wrote)
    BY MintConfirmedIs
<1> DEFINE w == Confirmed(j, retired)
<1>3. /\ w \in Memory /\ w.step = "offering" /\ w.st = "fulfilling" /\ w.cur = mem[j].cur
      /\ Len(w.units) = Len(mem[j].units) /\ DOMAIN w.units = DOMAIN mem[j].units
      /\ w.units[w.cur].st = "minted" /\ w.units[w.cur].nft = mem[j].tok
      /\ \A u \in DOMAIN mem[j].units : u # w.cur => w.units[u] = mem[j].units[u]
    <2>1. /\ w \in Memory /\ w.step = "offering" /\ w.st = "fulfilling" /\ w.cur = mem[j].cur
          /\ Len(w.units) = Len(mem[j].units) /\ DOMAIN w.units = DOMAIN mem[j].units
          /\ w.units[w.cur] = [st |-> "minted", nft |-> mem[j].tok]
          /\ \A u \in DOMAIN mem[j].units : u # w.cur => w.units[u] = mem[j].units[u]
        BY <1>1, ConfirmedIs, Zenon
    <2> HIDE DEF w
    <2> QED
        BY <2>1
<1>4. Persist(j, w, wrote)
    BY <1>2
<1> HIDE DEF w
<1>5. mem[j].tok \in Token /\ mem[j].tok[1] = j /\ mem[j].tok[2] = mem[j].cur
      /\ mem[j].cur \in DOMAIN mem[j].units
    BY <1>1, AtWork DEF InOrder
<1>6. HeadroomTypeOK'
    BY <1>1, <1>2, <1>5, PlainIs, StoreKeepsType
<1>7. InOrder(j, w)
    BY <1>3, <1>5 DEF InOrder
<1>8. TrueRows(j, w.units, minted, credits')
    <2> SUFFICES ASSUME NEW u \in DOMAIN mem[j].units
                 PROVE  /\ w.units[u].st \in {"pending", "failed"} => w.units[u].nft = NoToken
                        /\ w.units[u].st \in {"minted", "offered"} =>
                            w.units[u].nft \in minted /\ w.units[u].nft[1] = j /\ w.units[u].nft[2] = u
                        /\ w.units[u].st = "failed" => j \in Bulk /\ credits'[<<j, u>>] > 0
        BY <1>3 DEF TrueRows
    <2>1. CASE u = w.cur
        BY <1>1, <1>3, <1>5, <2>1
    <2>2. CASE u # w.cur
        <3>1. w.units[u] = mem[j].units[u] /\ credits' = credits
            BY <1>1, <1>3, <2>2
        <3> QED
            BY <3>1, AtWork DEF TrueRows
    <2> QED
        BY <2>1, <2>2
<1>9. Len(w.units) <= Cardinality(Wanted[j])
    BY <1>3, AtWork
<1> QED
    BY <1>1, <1>3, <1>4, <1>6, <1>7, <1>8, <1>9, CreditsIs, WorkStep

LEMMA NoMintIs ==
    ASSUME NEW j, NEW unknown \in BOOLEAN, NoMint(j, unknown)
    PROVE  /\ mem[j].step = "flying" /\ (unknown \/ mem[j].tok \notin flying \cup minted)
           /\ UNCHANGED <<indexed, minted, flying, paid, credits>> /\ lost' = (lost \/ unknown)
           /\ \E gave \in BOOLEAN :
               \/ /\ j \in Bulk /\ UNCHANGED store
                  /\ InMemory(j, [mem[j] EXCEPT !.step = "unit", !.tok = NoToken, !.tries = @ + 1])
               \/ /\ j \notin Bulk /\ GiveBack(j, gave)
                  /\ InMemory(j, [mem[j] EXCEPT !.step = "ended", !.tok = NoToken,
                                                !.st = "failed", !.holds = ~gave])
BY DEF NoMint, LedgerUnchanged

LEMMA NoMintSound ==
    ASSUME Orderly, NEW j \in Claimant, NEW unknown \in BOOLEAN, NoMint(j, unknown)
    PROVE  Orderly'
<1>1. /\ mem[j].step = "flying" /\ UNCHANGED <<indexed, minted, flying, paid, credits>>
      /\ lost' = (lost \/ unknown) /\ lost' \in BOOLEAN
    BY NoMintIs, PlainIs
<1>2. ASSUME UNCHANGED store, j \in Bulk,
             InMemory(j, [mem[j] EXCEPT !.step = "unit", !.tok = NoToken, !.tries = @ + 1])
      PROVE  Orderly'
    <2> DEFINE m == [mem[j] EXCEPT !.step = "unit", !.tok = NoToken, !.tries = @ + 1]
    <2>1. Settles(j, m, disk[j])
        BY <1>2, InMemoryIs
    <2>2. Sized(j, m, disk[j])
        <3>1. m \in Memory /\ m.units = mem[j].units
            <4>1. mem[j] \in Memory /\ mem[j].tries + 1 \in Nat
                BY AtWork DEF Memory
            <4> QED
                BY <4>1 DEF Memory, Steps
        <3> HIDE DEF m
        <3> QED
            BY <3>1, RowOf DEF Sized
    <2>3. SoundAt(j, m, disk[j], paid'[j], minted, credits)
        BY <1>1, <1>2, KindOf, RowOf DEF SoundAt, InOrder, Sized, Memory
    <2>4. HeadroomTypeOK'
        BY <1>1, <1>2, StoreKeepsType
    <2> QED
        BY <1>1, <2>1, <2>2, <2>3, <2>4, PlainIs, QuietStep
<1>3. ASSUME NEW gave \in BOOLEAN, GiveBack(j, gave), j \notin Bulk,
             InMemory(j, [mem[j] EXCEPT !.step = "ended", !.tok = NoToken,
                                        !.st = "failed", !.holds = ~gave])
      PROVE  Orderly'
    <2> DEFINE m == [mem[j] EXCEPT !.step = "ended", !.tok = NoToken,
                                   !.st = "failed", !.holds = ~gave]
    <2>1. Settles(j, m, disk[j])
        BY <1>3, InMemoryIs
    <2>2. Sized(j, m, disk[j])
        BY RowOf, ZenonT(40) DEF Sized, Memory, Steps, Terminal
    <2>3. SoundAt(j, m, disk[j], paid'[j], minted, credits)
        BY <1>1, <1>3, RowOf DEF SoundAt, InOrder, Sized, Memory
    <2>4. HeadroomTypeOK'
        BY <1>1, <1>3, StoreKeepsType
    <2> QED
        BY <1>1, <2>1, <2>2, <2>3, <2>4, PlainIs, QuietStep
<1> QED
    BY <1>2, <1>3, NoMintIs

\* On to the next unit, whatever became of this one.
OnwardFrom(m) == [m EXCEPT !.step = "unit", !.did = TRUE, !.tries = 0,
                           !.cur = NextUnit(m, m.cur + 1)]

LEMMA OnwardIs ==
    ASSUME NEW m \in Memory
    PROVE  /\ OnwardFrom(m) \in Memory /\ OnwardFrom(m).units = m.units
           /\ OnwardFrom(m).step = "unit" /\ OnwardFrom(m).st = m.st
<1>1. m.cur + 1 \in Nat \ {0}
    BY DEF Memory
<1>2. NextUnit(m, m.cur + 1) \in Nat \ {0}
    BY <1>1, NextUnitIs
<1> QED
    BY <1>2 DEF OnwardFrom, Memory, Steps

LEMMA OnwardStep ==
    ASSUME Orderly, NEW j \in Bulk, NEW m \in Memory, NEW ok \in BOOLEAN, Onward(j, m, ok),
           m.st = "fulfilling",
           Len(m.units) <= Cardinality(Wanted[j]),
           HeadroomTypeOK', UNCHANGED <<minted, flying, paid>>,
           credits' \in [CreditKeys -> Nat],
           \A k \in Claimant \ {j} : \A u \in Wanted[k] : credits'[<<k, u>>] = credits[<<k, u>>],
           \A u \in Wanted[j] : credits'[<<j, u>>] >= credits[<<j, u>>],
           TrueRows(j, m.units, minted, credits')
    PROVE  Orderly'
<1> DEFINE w == OnwardFrom(m)
<1>1. j \in Claimant /\ j \notin Single
    BY KindOf
<1>2. w \in Memory /\ w.units = m.units /\ w.step = "unit" /\ w.st = "fulfilling"
    BY OnwardIs
<1>3. Persist(j, w, ok)
    BY DEF Onward, OnwardFrom
<1> HIDE DEF w
<1>4. InOrder(j, w)
    BY <1>1, <1>2 DEF InOrder
<1> QED
    BY <1>1, <1>2, <1>3, <1>4, WorkStep

\* The current unit of a session gets another state.
RowSet(j, s) == [mem[j] EXCEPT !.units[mem[j].cur].st = s]

LEMMA RowSetIs ==
    ASSUME Orderly, NEW j \in Claimant, mem[j].cur \in DOMAIN mem[j].units,
           NEW s \in {"offered", "failed"}
    PROVE  LET w == RowSet(j, s) IN
           /\ w \in Memory /\ w.step = mem[j].step /\ w.st = mem[j].st /\ w.cur = mem[j].cur
           /\ w.stale = mem[j].stale
           /\ w.units \in Seq(UnitRows)
           /\ Len(w.units) = Len(mem[j].units) /\ DOMAIN w.units = DOMAIN mem[j].units
           /\ w.units[w.cur].st = s /\ w.units[w.cur].nft = mem[j].units[w.cur].nft
           /\ \A u \in DOMAIN mem[j].units : u # w.cur => w.units[u] = mem[j].units[u]
<1> DEFINE c == mem[j].cur
           r == [mem[j].units[c] EXCEPT !.st = s]
           us == [mem[j].units EXCEPT ![c] = r]
           w == RowSet(j, s)
<1>1. mem[j].units[c] \in UnitRows /\ mem[j] \in Memory
    BY AtWork, UnitsAre
<1>2. r \in UnitRows /\ r.st = s /\ r.nft = mem[j].units[c].nft
    BY <1>1 DEF UnitRows
<1>3. w = [mem[j] EXCEPT !.units = us]
    BY DEF RowSet
<1> HIDE DEF r
<1>4. /\ us \in Seq(UnitRows) /\ Len(us) = Len(mem[j].units) /\ DOMAIN us = DOMAIN mem[j].units
      /\ us[c] = r /\ \A u \in DOMAIN mem[j].units : u # c => us[u] = mem[j].units[u]
    BY <1>2, AtWork, RowReplaced
<1> HIDE DEF us, w
<1>5. w \in Memory /\ w.units = us /\ w.step = mem[j].step /\ w.st = mem[j].st /\ w.cur = mem[j].cur
      /\ w.stale = mem[j].stale
    BY <1>1, <1>3, <1>4 DEF Memory
<1> QED
    BY <1>2, <1>4, <1>5 DEF w

LEMMA OfferIs ==
    ASSUME NEW j, Offer(j)
    PROVE  /\ j \in Bulk /\ (mem[j].step = "offering" \/ AtUnit(j, "minted"))
           /\ UNCHANGED <<store, indexed, minted, flying, lost, paid, credits>>
           /\ \E offered, wrote \in BOOLEAN :
                Onward(j, IF offered THEN RowSet(j, "offered") ELSE mem[j], wrote)
BY DEF Offer, LedgerUnchanged, RowSet

LEMMA OfferFrom ==
    ASSUME Orderly, NEW j \in Claimant, Offer(j)
    PROVE  /\ mem[j].cur \in DOMAIN mem[j].units /\ mem[j].units[mem[j].cur].st = "minted"
           /\ mem[j].st = "fulfilling" /\ mem[j].step \in {"unit", "offering"}
<1>1. mem[j].step = "offering" \/ AtUnit(j, "minted")
    BY OfferIs
<1>2. CASE mem[j].step = "offering"
    BY <1>2, AtWork DEF InOrder
<1>3. CASE AtUnit(j, "minted")
    <2>1. mem[j].step = "unit" /\ mem[j].cur <= Len(mem[j].units)
          /\ mem[j].units[mem[j].cur].st = "minted"
        BY <1>3 DEF AtUnit
    <2>2. mem[j].cur \in DOMAIN mem[j].units
        BY <2>1, AtWork
    <2> QED
        BY <2>1, <2>2, AtWork DEF InOrder
<1> QED
    BY <1>1, <1>2, <1>3

LEMMA OfferSound ==
    ASSUME Orderly, NEW j \in Claimant, Offer(j)
    PROVE  Orderly'
<1>1. j \in Bulk /\ UNCHANGED <<store, indexed, minted, flying, lost, paid, credits>>
    BY OfferIs
<1>2. PICK offered \in BOOLEAN, wrote \in BOOLEAN :
        Onward(j, IF offered THEN RowSet(j, "offered") ELSE mem[j], wrote)
    BY OfferIs
<1>3. HeadroomTypeOK'
    BY <1>1, PlainIs, StoreKeepsType
<1>4. CASE offered
    <2> DEFINE m == RowSet(j, "offered")
    <2>1. /\ m \in Memory /\ m.st = "fulfilling"
          /\ m.cur = mem[j].cur
          /\ Len(m.units) = Len(mem[j].units) /\ DOMAIN m.units = DOMAIN mem[j].units
          /\ m.units[m.cur].st = "offered" /\ m.units[m.cur].nft = mem[j].units[m.cur].nft
          /\ \A u \in DOMAIN mem[j].units : u # m.cur => m.units[u] = mem[j].units[u]
        BY OfferFrom, RowSetIs
    <2>2. Onward(j, m, wrote)
        BY <1>2, <1>4
    <2> HIDE DEF m
    <2>3. TrueRows(j, m.units, minted, credits')
        <3>1. /\ mem[j].cur \in DOMAIN mem[j].units /\ mem[j].units[mem[j].cur].st = "minted"
              /\ credits' = credits
            BY <1>1, OfferFrom
        <3>2. TrueRows(j, mem[j].units, minted, credits)
            BY AtWork
        <3> QED
            BY <2>1, <3>1, <3>2 DEF TrueRows
    <2>4. Len(m.units) <= Cardinality(Wanted[j])
        BY <2>1, AtWork
    <2> QED
        BY <1>1, <1>3, <2>1, <2>2, <2>3, <2>4, CreditsIs, OnwardStep
<1>5. CASE ~offered
    <2>1. Onward(j, mem[j], wrote)
        BY <1>2, <1>5
    <2>2. TrueRows(j, mem[j].units, minted, credits')
        BY <1>1, AtWork
    <2> QED
        BY <1>1, <1>3, <2>1, <2>2, OfferFrom, AtWork, CreditsIs, OnwardStep
<1> QED
    BY <1>4, <1>5

LEMMA EndSessionIs ==
    ASSUME NEW j, EndSession(j)
    PROVE  /\ j \in Single /\ mem[j].step = "offering"
           /\ UNCHANGED <<indexed, minted, flying, lost, paid, credits>>
           /\ \E offered, retired \in BOOLEAN :
               /\ retired \/ mem[j].holds
               /\ IF mem[j].holds /\ retired THEN Retire(mem[j].units[1].nft) ELSE UNCHANGED store
               /\ InMemory(j, [mem[j] EXCEPT !.step = "ended", !.holds = @ /\ ~retired,
                                             !.st = IF offered THEN "offer_ready" ELSE "failed"])
BY DEF EndSession, LedgerUnchanged

\* A single session has one unit.
LEMMA OneUnit ==
    ASSUME Orderly, NEW j \in Single, NEW u \in DOMAIN mem[j].units
    PROVE  u = 1
<1>1. Len(mem[j].units) <= 1
    BY AtWork, Places, KindOf, ZenonT(40)
<1> QED
    BY <1>1, AtWork, KindOf

LEMMA EndSessionSound ==
    ASSUME Orderly, NEW j \in Claimant, EndSession(j)
    PROVE  Orderly'
<1>1. /\ j \in Single /\ j \notin Bulk /\ mem[j].step = "offering"
      /\ UNCHANGED <<indexed, minted, flying, lost, paid, credits>>
    BY EndSessionIs, KindOf
<1>2. PICK offered \in BOOLEAN, retired \in BOOLEAN :
        /\ IF mem[j].holds /\ retired THEN Retire(mem[j].units[1].nft) ELSE UNCHANGED store
        /\ InMemory(j, [mem[j] EXCEPT !.step = "ended", !.holds = @ /\ ~retired,
                                      !.st = IF offered THEN "offer_ready" ELSE "failed"])
    BY EndSessionIs
<1> DEFINE m == [mem[j] EXCEPT !.step = "ended", !.holds = @ /\ ~retired,
                               !.st = IF offered THEN "offer_ready" ELSE "failed"]
<1>3. Settles(j, m, disk[j])
    BY <1>2, InMemoryIs
<1>4. /\ m \in Memory /\ m.units = mem[j].units /\ m.step = "ended"
      /\ m.st \in {"offer_ready", "failed"}
    BY AtWork, ZenonT(40) DEF Memory, Steps, Terminal
<1> HIDE DEF m
<1>5. Sized(j, m, disk[j])
    BY <1>4, RowOf DEF Sized
<1>6. InOrder(j, m)
    BY <1>4 DEF InOrder
<1>7. SoundAt(j, m, disk[j], paid'[j], minted, credits)
    BY <1>1, <1>4, <1>6, AtWork DEF SoundAt
<1>8. mem[j].units[1].nft \in Token
    <2>1. mem[j].cur = 1 /\ mem[j].cur \in DOMAIN mem[j].units /\ mem[j].units[mem[j].cur].st = "minted"
        BY <1>1, AtWork, OneUnit DEF InOrder
    <2>2. mem[j].units[1].nft \in minted
        BY <2>1, AtWork DEF TrueRows
    <2> QED
        BY <2>2 DEF Orderly, Typed, HeadroomTypeOK
<1>9. HeadroomTypeOK'
    BY <1>1, <1>2, <1>8, PlainIs, StoreKeepsType
<1> QED
    BY <1>1, <1>3, <1>5, <1>7, <1>9, PlainIs, QuietStep

LEMMA CreditIs ==
    ASSUME NEW j, Credit(j)
    PROVE  /\ AtUnit(j, "pending") /\ ~MaySubmit(j) /\ j \notin Single
           /\ UNCHANGED <<indexed, minted, flying, lost, paid>>
           /\ \E wrote \in BOOLEAN :
               \/ /\ credits' = [credits EXCEPT ![<<j, mem[j].cur>>] = @ + 1]
                  /\ ReleaseOne(j)
                  /\ Onward(j, RowSet(j, "failed"), wrote)
               \/ UNCHANGED <<credits, store>> /\ Onward(j, mem[j], wrote)
BY DEF Credit, LedgerUnchanged, RowSet, MaySubmit

LEMMA AtUnitIs ==
    ASSUME Orderly, NEW j \in Claimant, NEW s, AtUnit(j, s)
    PROVE  /\ mem[j].step = "unit" /\ mem[j].st = "fulfilling"
           /\ mem[j].cur \in DOMAIN mem[j].units /\ mem[j].cur \in Wanted[j]
           /\ mem[j].units[mem[j].cur].st = s
<1>1. mem[j].step = "unit" /\ mem[j].cur <= Len(mem[j].units) /\ mem[j].units[mem[j].cur].st = s
    BY DEF AtUnit
<1>2. mem[j].cur \in DOMAIN mem[j].units
    BY <1>1, AtWork
<1>3. mem[j].cur \in Wanted[j]
    BY <1>2, AtWork
<1> QED
    BY <1>1, <1>2, <1>3, AtWork DEF InOrder

LEMMA CreditSound ==
    ASSUME Orderly, NEW j \in Claimant, Credit(j)
    PROVE  Orderly'
<1>1. /\ AtUnit(j, "pending") /\ j \in Bulk
      /\ UNCHANGED <<indexed, minted, flying, lost, paid>>
    BY CreditIs, KindOf
<1>2. ASSUME NEW wrote \in BOOLEAN, credits' = [credits EXCEPT ![<<j, mem[j].cur>>] = @ + 1],
             ReleaseOne(j), Onward(j, RowSet(j, "failed"), wrote)
      PROVE  Orderly'
    <2> DEFINE m == RowSet(j, "failed")
               c == mem[j].cur
    <2>1. /\ m \in Memory /\ m.st = "fulfilling" /\ m.cur = c
          /\ Len(m.units) = Len(mem[j].units) /\ DOMAIN m.units = DOMAIN mem[j].units
          /\ m.units[c].st = "failed" /\ m.units[c].nft = mem[j].units[c].nft
          /\ \A u \in DOMAIN mem[j].units : u # c => m.units[u] = mem[j].units[u]
        BY <1>1, AtUnitIs, RowSetIs
    <2>2. Onward(j, m, wrote)
        BY <1>2
    <2> HIDE DEF m
    <2>3. <<j, c>> \in CreditKeys /\ credits \in [CreditKeys -> Nat]
        BY <1>1, AtUnitIs DEF CreditKeys, Orderly, Typed
    <2>4. credits' \in [CreditKeys -> Nat] /\ credits'[<<j, c>>] = credits[<<j, c>>] + 1
          /\ \A x \in CreditKeys : x # <<j, c>> => credits'[x] = credits[x]
        BY <1>2, <2>3
    <2>5. \A k \in Claimant : \A u \in Wanted[k] : <<k, u>> \in CreditKeys
        BY DEF CreditKeys
    <2>6. \A k \in Claimant \ {j} : \A u \in Wanted[k] : credits'[<<k, u>>] = credits[<<k, u>>]
        BY <2>4, <2>5
    <2>7. \A u \in Wanted[j] : credits'[<<j, u>>] >= credits[<<j, u>>]
        BY <2>3, <2>4, <2>5
    <2>8. /\ mem[j].units[c].st = "pending" /\ mem[j].units[c].nft = NoToken
          /\ c \in DOMAIN mem[j].units
        <3>1. mem[j].units[c].st = "pending" /\ c \in DOMAIN mem[j].units
            BY <1>1, AtUnitIs
        <3>2. TrueRows(j, mem[j].units, minted, credits)
            BY AtWork
        <3> QED
            BY <3>1, <3>2 DEF TrueRows
    <2>9. TrueRows(j, mem[j].units, minted, credits')
        BY <2>3, <2>4, <2>7, AtWork, RowsStayTrue
    <2>10. credits'[<<j, c>>] > 0
        BY <2>3, <2>4
    <2>11. TrueRows(j, m.units, minted, credits')
        BY <1>1, <2>1, <2>8, <2>9, <2>10 DEF TrueRows
    <2>12. HeadroomTypeOK'
        BY <1>1, <1>2, PlainIs, StoreKeepsType
    <2>13. Len(m.units) <= Cardinality(Wanted[j])
        BY <2>1, AtWork
    <2> QED
        BY <1>1, <2>1, <2>2, <2>4, <2>6, <2>7, <2>11, <2>12, <2>13, OnwardStep
<1>3. ASSUME NEW wrote \in BOOLEAN, UNCHANGED <<credits, store>>, Onward(j, mem[j], wrote)
      PROVE  Orderly'
    <2>1. TrueRows(j, mem[j].units, minted, credits')
        BY <1>3, AtWork
    <2>2. HeadroomTypeOK'
        BY <1>1, <1>3, PlainIs, StoreKeepsType
    <2> QED
        BY <1>1, <1>3, <2>1, <2>2, AtUnitIs, AtWork, CreditsIs, OnwardStep
<1> QED
    BY <1>2, <1>3, CreditIs

LEMMA ReofferedIs ==
    ASSUME Orderly, NEW j \in Claimant
    PROVE  LET w == Reoffered(mem[j]) IN
           /\ w \in Memory /\ w.step = mem[j].step /\ w.st = mem[j].st /\ w.stale = mem[j].stale
           /\ w.units \in Seq(UnitRows)
           /\ Len(w.units) = Len(mem[j].units) /\ DOMAIN w.units = DOMAIN mem[j].units
           /\ \A u \in DOMAIN mem[j].units :
                /\ w.units[u].nft = mem[j].units[u].nft
                /\ \/ w.units[u].st = mem[j].units[u].st
                   \/ mem[j].units[u].st = "minted" /\ w.units[u].st = "offered"
<1> DEFINE vs == mem[j].units
           us == [u \in DOMAIN vs |-> IF vs[u].st = "minted" THEN [vs[u] EXCEPT !.st = "offered"]
                                      ELSE vs[u]]
           w == Reoffered(mem[j])
<1>1. vs \in Seq(UnitRows) /\ mem[j] \in Memory /\ \A u \in DOMAIN vs : vs[u] \in UnitRows
    BY AtWork, UnitsAre
<1>2. w = [mem[j] EXCEPT !.units = us]
    BY DEF Reoffered
<1> HIDE DEF vs
<1>3. /\ us \in [DOMAIN vs -> UnitRows] /\ DOMAIN us = DOMAIN vs
      /\ \A u \in DOMAIN vs : /\ us[u].nft = vs[u].nft
                              /\ us[u].st = vs[u].st \/ (vs[u].st = "minted" /\ us[u].st = "offered")
    BY <1>1 DEF UnitRows
<1> HIDE DEF us, w
<1>4. us \in Seq(UnitRows) /\ Len(us) = Len(vs)
    BY <1>1, <1>3, RowsMapped
<1>5. w \in Memory /\ w.units = us /\ w.step = mem[j].step /\ w.st = mem[j].st
      /\ w.stale = mem[j].stale
    BY <1>1, <1>2, <1>4 DEF Memory
<1> QED
    BY <1>3, <1>4, <1>5 DEF w, vs

LEMMA FinishIs ==
    ASSUME NEW j, Finish(j)
    PROVE  /\ j \in Bulk /\ mem[j].step = "unit"
           /\ UNCHANGED <<indexed, minted, flying, paid, credits>>
           /\ \E offered, published, gave, wrote \in BOOLEAN :
                LET m == IF offered THEN Reoffered(mem[j]) ELSE mem[j]
                    done == Settled(m) /\ published IN
                /\ IF done THEN GiveBack(j, gave) ELSE gave /\ UNCHANGED store
                /\ lost' = (lost \/ (done /\ gave /\ HandoverMissed(j)))
                /\ Persist(j, [m EXCEPT !.step = "ended", !.did = FALSE,
                                        !.st = IF done /\ wrote THEN "done" ELSE @], wrote)
<1>1. /\ j \in Bulk /\ mem[j].step = "unit"
      /\ UNCHANGED <<indexed, minted, flying, paid, credits>>
    BY DEF Finish, LedgerUnchanged
<1>2. PICK offered \in BOOLEAN, published \in BOOLEAN, gave \in BOOLEAN, wrote \in BOOLEAN :
        LET m == IF offered THEN Reoffered(mem[j]) ELSE mem[j]
            done == Settled(m) /\ published IN
        /\ Spend(<<offered, published, gave, wrote>>)
        /\ IF done THEN GiveBack(j, gave) ELSE gave /\ UNCHANGED store
        /\ lost' = (lost \/ (done /\ gave /\ HandoverMissed(j)))
        /\ Persist(j, [m EXCEPT !.step = "ended", !.did = FALSE,
                                !.st = IF done /\ wrote THEN "done" ELSE @], wrote)
    BY Zenon DEF Finish
<1> QED
    BY <1>1, <1>2

\* The memory of a job at its end.
Ended(m, done) == [m EXCEPT !.step = "ended", !.did = FALSE, !.st = IF done THEN "done" ELSE @]

LEMMA FinishFrom ==
    ASSUME Orderly, NEW j \in Claimant, Finish(j)
    PROVE  \E m \in {mem[j], Reoffered(mem[j])} : \E done, gave, wrote \in BOOLEAN :
               /\ done => Settled(m)
               /\ IF done THEN GiveBack(j, gave) ELSE UNCHANGED store
               /\ lost' = (lost \/ (done /\ gave /\ HandoverMissed(j)))
               /\ Persist(j, Ended(m, done /\ wrote), wrote)
<1>1. PICK offered \in BOOLEAN, published \in BOOLEAN, gave \in BOOLEAN, wrote \in BOOLEAN :
        LET m == IF offered THEN Reoffered(mem[j]) ELSE mem[j]
            done == Settled(m) /\ published IN
        /\ IF done THEN GiveBack(j, gave) ELSE gave /\ UNCHANGED store
        /\ lost' = (lost \/ (done /\ gave /\ HandoverMissed(j)))
        /\ Persist(j, [m EXCEPT !.step = "ended", !.did = FALSE,
                                !.st = IF done /\ wrote THEN "done" ELSE @], wrote)
    BY FinishIs
<1> DEFINE m == IF offered THEN Reoffered(mem[j]) ELSE mem[j]
           done == Settled(m) /\ published
<1>2. m \in {mem[j], Reoffered(mem[j])} /\ done \in BOOLEAN /\ (done => Settled(m))
    OBVIOUS
<1>3. /\ IF done THEN GiveBack(j, gave) ELSE UNCHANGED store
      /\ lost' = (lost \/ (done /\ gave /\ HandoverMissed(j)))
      /\ Persist(j, Ended(m, done /\ wrote), wrote)
    BY <1>1 DEF Ended
<1> HIDE DEF m, done
<1> QED
    BY <1>2, <1>3

LEMMA EndedIs ==
    ASSUME NEW m \in Memory, NEW done \in BOOLEAN
    PROVE  /\ Ended(m, done) \in Memory /\ Ended(m, done).units = m.units
           /\ Ended(m, done).step = "ended"
           /\ Ended(m, done).st = (IF done THEN "done" ELSE m.st)
           /\ Ended(m, done).stale = m.stale
BY DEF Ended, Memory, Steps, Terminal

LEMMA FinishSound ==
    ASSUME Orderly, NEW j \in Claimant, Finish(j)
    PROVE  Orderly'
<1>1. /\ j \in Bulk /\ mem[j].step = "unit" /\ mem[j].st = "fulfilling"
      /\ UNCHANGED <<indexed, minted, flying, paid, credits>>
    BY FinishIs, AtWork DEF InOrder
<1>2. PICK m \in {mem[j], Reoffered(mem[j])}, done \in BOOLEAN, gave \in BOOLEAN, wrote \in BOOLEAN :
        /\ done => Settled(m)
        /\ IF done THEN GiveBack(j, gave) ELSE UNCHANGED store
        /\ lost' = (lost \/ (done /\ gave /\ HandoverMissed(j)))
        /\ Persist(j, Ended(m, done /\ wrote), wrote)
    BY FinishFrom
<1>3. /\ m \in Memory /\ m.st = "fulfilling" /\ Len(m.units) <= Cardinality(Wanted[j])
      /\ TrueRows(j, m.units, minted, credits)
    <2>1. CASE m = mem[j]
        BY <1>1, <2>1, AtWork
    <2>2. CASE m = Reoffered(mem[j])
        <3>1. /\ m \in Memory /\ m.st = mem[j].st
              /\ Len(m.units) = Len(mem[j].units) /\ DOMAIN m.units = DOMAIN mem[j].units
              /\ \A u \in DOMAIN mem[j].units :
                    /\ m.units[u].nft = mem[j].units[u].nft
                    /\ \/ m.units[u].st = mem[j].units[u].st
                       \/ mem[j].units[u].st = "minted" /\ m.units[u].st = "offered"
            BY <2>2, ReofferedIs
        <3>2. TrueRows(j, mem[j].units, minted, credits) /\ Len(mem[j].units) <= Cardinality(Wanted[j])
            BY AtWork
        <3>3. TrueRows(j, m.units, minted, credits)
            BY <3>1, <3>2 DEF TrueRows
        <3> QED
            BY <1>1, <3>1, <3>2, <3>3
    <2> QED
        BY <2>1, <2>2
<1> DEFINE w == Ended(m, done /\ wrote)
<1>4. /\ w \in Memory /\ w.units = m.units /\ w.step = "ended"
      /\ w.st = (IF done /\ wrote THEN "done" ELSE "fulfilling")
    BY <1>3, EndedIs
<1>5. Persist(j, w, wrote)
    BY <1>2
<1> HIDE DEF w
<1>6. InOrder(j, w)
    BY <1>4 DEF InOrder
<1>7. HeadroomTypeOK'
    <2>1. lost' \in BOOLEAN
        BY <1>2, PlainIs
    <2> QED
        BY <1>1, <1>2, <2>1, StoreKeepsType
<1>8. \/ w.st = "fulfilling"
      \/ w.st = "done" /\ \A u \in DOMAIN w.units : w.units[u].st \in {"offered", "failed"}
    BY <1>2, <1>4 DEF Settled
<1>9. TrueRows(j, w.units, minted, credits') /\ Len(w.units) <= Cardinality(Wanted[j])
    BY <1>1, <1>3, <1>4
<1> QED
    BY <1>1, <1>4, <1>5, <1>6, <1>7, <1>8, <1>9, CreditsIs, WorkStep

\* What the ledger and its listener do.
LEMMA LedgerSound ==
    ASSUME Orderly, NEW t \in Token, Land(t) \/ Expire(t) \/ Listen(t)
    PROVE  Orderly'
<1>1. /\ UNCHANGED <<slots, pending, handed, mem, disk, paid, credits>>
      /\ minted \subseteq minted' /\ minted' \subseteq minted \cup {t} /\ flying' \subseteq flying
      /\ indexed' \subseteq indexed \cup minted /\ lost' = lost
    BY DEF Land, Expire, Listen, Mint, Index, store, hvars, mvars
<1>2. Typed'
    BY <1>1 DEF Orderly, Typed, HeadroomTypeOK
<1>3. credits' \in [CreditKeys -> Nat]
    BY <1>1 DEF Orderly, Typed
<1>4. \A k \in Claimant : Sound(k)'
    BY <1>1, <1>3, SoundElsewhere
<1> QED
    BY <1>2, <1>4 DEF Orderly

-----------------------------------------------------------------------------
(* The restart.                                                            *)

\* What a record is resumed as.
Resumed(d) ==
    LET m == [NoSession EXCEPT !.st = d.st, !.units = d.units, !.holds = TRUE] IN
    IF m.st = "awaiting" THEN [m EXCEPT !.step = "waiting"] ELSE Fulfil(m)

Gone == [NoSession EXCEPT !.step = "ended", !.st = "gone"]

LEMMA ResumedIs ==
    ASSUME NEW d \in Records, d.st \in Resumable
    PROVE  /\ Resumed(d) \in Memory /\ Resumed(d).units = d.units /\ Resumed(d).st = d.st
           /\ d.st = "awaiting" => Resumed(d).step = "waiting"
           /\ d.st = "fulfilling" => Resumed(d).step = "unit"
           /\ ~Resumed(d).stale
<1> DEFINE m == [NoSession EXCEPT !.st = d.st, !.units = d.units, !.holds = TRUE]
<1>1. m \in Memory /\ m.units = d.units /\ m.st = d.st /\ ~m.stale
    BY NoSessionIs DEF Memory, Records, Resumable
<1>2. Resumed(d) = IF m.st = "awaiting" THEN [m EXCEPT !.step = "waiting"] ELSE Fulfil(m)
    BY DEF Resumed
<1> HIDE DEF m
<1>3. CASE d.st = "awaiting"
    BY <1>1, <1>2, <1>3 DEF Memory, Steps
<1>4. CASE d.st = "fulfilling"
    BY <1>1, <1>2, <1>4, FulfilIs
<1> QED
    BY <1>3, <1>4 DEF Resumable

LEMMA GoneIs ==
    /\ Gone \in Memory /\ Gone.step = "ended" /\ Gone.st = "gone" /\ ~Gone.backing
    /\ Gone.units = Fresh(0) /\ Gone.tok = NoToken
<1>1. Gone.tok = NoSession.tok
    BY NoSessionIs DEF Gone, Memory
<1>2. NoSession.tok = NoToken
    BY DEF NoSession
<1> QED
    BY <1>1, <1>2, NoSessionIs DEF Gone, Memory, Steps, Terminal

LEMMA RestartIs ==
    ASSUME Restart
    PROVE  /\ UNCHANGED <<indexed, minted, flying, disk, paid, credits>>
           /\ lost' = (lost \/ \E j \in Claimant : Unrecorded(j))
           /\ mem' = [j \in Claimant |->
                IF mem[j].step = "none" THEN NoSession
                ELSE IF ~Survives(j) THEN Gone ELSE Resumed(disk[j])]
           /\ \/ UNCHANGED store
              \/ Rebuild(UNION {SlotsFor(j, Cardinality(Pending(disk[j]))) :
                                   j \in {b \in Bulk : Survives(b)}},
                         UNION {Minted(disk[j]) : j \in {b \in Bulk : Survives(b)}})
BY DEF Restart, LedgerUnchanged, Gone, Resumed

\* The units of a record that are pending, and those that have a token.
LEMMA RecordSizes ==
    ASSUME Orderly, NEW j \in Bulk
    PROVE  /\ Pending(disk[j]) \subseteq Wanted[j] /\ IsFiniteSet(Pending(disk[j]))
           /\ Cardinality(Pending(disk[j])) \in Nat
           /\ Cardinality(Pending(disk[j])) <= Cardinality(Wanted[j])
           /\ Minted(disk[j]) \subseteq minted /\ \A t \in Minted(disk[j]) : t[1] = j
<1>1. /\ j \in Claimant /\ disk[j].units \in Seq(UnitRows)
      /\ Len(disk[j].units) <= Cardinality(Wanted[j])
      /\ TrueRows(j, disk[j].units, minted, credits)
    BY RowOf, KindOf DEF Sized, SoundAt
<1>2. DOMAIN disk[j].units \subseteq Wanted[j]
      /\ \A u \in DOMAIN disk[j].units : disk[j].units[u].st \in {"pending", "minted", "offered", "failed"}
    BY <1>1, UnitsAre, UnitsWanted
<1>3. Pending(disk[j]) \in SUBSET Wanted[j]
    BY <1>2 DEF Pending
<1>4. IsFiniteSet(Wanted[j])
    BY <1>1, HeadroomAssumption
<1>5. /\ IsFiniteSet(Pending(disk[j])) /\ Cardinality(Pending(disk[j])) \in Nat
      /\ Cardinality(Pending(disk[j])) <= Cardinality(Wanted[j])
    BY <1>3, <1>4, FS_Subset, FS_CardinalityType
<1>6. ASSUME NEW t \in Minted(disk[j]) PROVE t \in minted /\ t[1] = j
    <2>1. PICK u \in DOMAIN disk[j].units : t = disk[j].units[u].nft /\ t # NoToken
        BY DEF Minted
    <2> QED
        BY <1>1, <1>2, <2>1 DEF TrueRows
<1> QED
    BY <1>3, <1>5, <1>6

LEMMA RestartSound ==
    ASSUME Orderly, Restart
    PROVE  Orderly'
<1>1. /\ UNCHANGED <<indexed, minted, flying, disk, paid, credits>>
      /\ lost' = (lost \/ \E j \in Claimant : Unrecorded(j))
      /\ mem' = [j \in Claimant |->
                IF mem[j].step = "none" THEN NoSession
                ELSE IF ~Survives(j) THEN Gone ELSE Resumed(disk[j])]
    BY RestartIs
<1>2. ASSUME NEW j \in Claimant
      PROVE  /\ mem'[j] \in Memory /\ Len(mem'[j].units) <= Cardinality(Wanted[j])
             /\ Sound(j)'
    <2>1. SoundAt(j, mem[j], disk[j], paid[j], minted, credits) /\ 0 <= Cardinality(Wanted[j])
          /\ Sized(j, mem[j], disk[j])
        <3> DEFINE n == Cardinality(Wanted[j])
        <3>1. n \in Nat
            BY Places
        <3> HIDE DEF n
        <3>2. 0 <= n
            BY <3>1
        <3> QED
            BY <3>2, RowOf DEF n
    <2>2. CASE mem[j].step = "none"
        <3>1. mem'[j] = NoSession
            BY <1>1, <2>2
        <3>2. InOrder(j, NoSession) /\ TrueRows(j, NoSession.units, minted, credits)
            BY NoSessionIs DEF InOrder, Untouched, TrueRows
        <3>3. SoundAt(j, NoSession, disk[j], paid[j], minted, credits)
            BY <2>1, <2>2, <3>2, NoSessionIs DEF SoundAt
        <3>4. Sound(j)'
            BY <1>1, <3>1, <3>3 DEF Sound
        <3> QED
            BY <2>1, <3>1, <3>4, NoSessionIs
    <2>3. CASE mem[j].step # "none" /\ ~Survives(j)
        <3>1. mem'[j] = Gone
            BY <1>1, <2>3
        <3>2. InOrder(j, Gone) /\ TrueRows(j, Gone.units, minted, credits)
            BY GoneIs, NoSessionIs DEF InOrder, Untouched, TrueRows
        <3>3. SoundAt(j, Gone, disk[j], paid[j], minted, credits)
            BY <2>1, <3>2, GoneIs DEF SoundAt
        <3>4. Sound(j)'
            BY <1>1, <3>1, <3>3 DEF Sound
        <3> QED
            BY <2>1, <3>1, <3>4, NoSessionIs, GoneIs
    <2>4. CASE mem[j].step # "none" /\ Survives(j)
        <3> DEFINE m == Resumed(disk[j])
        <3>1. mem'[j] = m /\ j \in Bulk /\ j \notin Single /\ disk[j].st \in Resumable
            BY <1>1, <2>4, KindOf DEF Survives
        <3>2. disk[j] \in Records /\ Len(disk[j].units) <= Cardinality(Wanted[j])
            BY <2>1, <3>1 DEF Sized
        <3>3. /\ m \in Memory /\ m.units = disk[j].units /\ m.st = disk[j].st
              /\ disk[j].st = "awaiting" => m.step = "waiting"
              /\ disk[j].st = "fulfilling" => m.step = "unit"
            BY <3>1, <3>2, ResumedIs
        <3> HIDE DEF m
        <3>4. InOrder(j, m)
            <4>1. m.st = "awaiting" => Untouched(m.units)
                BY <2>1, <3>1, <3>3 DEF SoundAt, RecordInOrder
            <4>2. \/ m.st = "awaiting" /\ m.step = "waiting"
                  \/ m.st = "fulfilling" /\ m.step = "unit"
                BY <3>1, <3>3 DEF Resumable
            <4> QED
                BY <3>1, <4>1, <4>2 DEF InOrder
        <3>5. m.step \in {"waiting", "unit"}
            BY <3>1, <3>3 DEF Resumable
        <3>6. SoundAt(j, m, disk[j], paid[j], minted, credits)
            BY <2>1, <3>1, <3>3, <3>4, <3>5 DEF SoundAt
        <3>7. Sound(j)'
            BY <1>1, <3>1, <3>6 DEF Sound
        <3> QED
            BY <3>1, <3>2, <3>3, <3>7
    <2> QED
        BY <2>2, <2>3, <2>4
<1>3. HeadroomTypeOK'
    <2>1. HeadroomTypeOK /\ lost' \in BOOLEAN
        BY <1>1, PlainIs
    <2>2. CASE UNCHANGED store
        BY <1>1, <2>1, <2>2 DEF HeadroomTypeOK, store
    <2>3. ASSUME Rebuild(UNION {SlotsFor(j, Cardinality(Pending(disk[j]))) :
                                   j \in {b \in Bulk : Survives(b)}},
                         UNION {Minted(disk[j]) : j \in {b \in Bulk : Survives(b)}})
          PROVE  HeadroomTypeOK'
        <3>1. \A j \in Bulk : SlotsFor(j, Cardinality(Pending(disk[j]))) \subseteq {j} \X Wanted[j]
            BY <2>1, KindOf, RecordSizes, SlotsForIs
        <3>2. slots' \in SUBSET (UNION {{c} \X Wanted[c] : c \in Claimant})
            BY <2>3, <3>1, KindOf DEF Rebuild
        <3>3. pending' \subseteq pending \cup minted /\ handed' \subseteq handed \cup minted
            BY <2>3, RecordSizes DEF Rebuild
        <3> QED
            BY <1>1, <2>1, <3>2, <3>3 DEF HeadroomTypeOK
    <2> QED
        BY <2>2, <2>3, RestartIs
<1>4. Typed'
    <2>1. mem' \in [Claimant -> Memory]
        BY <1>1, <1>2
    <2> QED
        BY <1>1, <1>2, <1>3, <2>1 DEF Orderly, Typed
<1> QED
    BY <1>2, <1>4 DEF Orderly
-----------------------------------------------------------------------------
LEMMA OrderlyInit == Init => Orderly
<1> SUFFICES ASSUME Init PROVE Orderly
    OBVIOUS
<1>1. /\ mem = [j \in Claimant |-> NoSession] /\ disk = [j \in Bulk |-> NoRecord]
      /\ paid = [j \in Claimant |-> "unasked"]
      /\ credits = [cu \in CreditKeys |-> 0] /\ flying = {}
      /\ slots = {} /\ pending = {} /\ handed = {} /\ indexed = {} /\ minted = {} /\ lost = FALSE
    BY DEF Init, HeadroomInit, CreditKeys
<1>2. \A j \in Claimant : 0 <= Cardinality(Wanted[j])
    <2> TAKE j \in Claimant
    <2> DEFINE n == Cardinality(Wanted[j])
    <2>1. n \in Nat
        BY Places
    <2> HIDE DEF n
    <2>2. 0 <= n
        BY <2>1
    <2> QED
        BY <2>2 DEF n
<1>3. Typed
    BY <1>1, <1>2, NoSessionIs, NoRecordIs, KindOf DEF Typed, HeadroomTypeOK
<1>4. ASSUME NEW j \in Claimant PROVE Sound(j)
    <2>1. InOrder(j, NoSession) /\ TrueRows(j, NoSession.units, minted, credits)
        BY NoSessionIs DEF InOrder, Untouched, TrueRows
    <2>2. j \in Bulk => disk[j] = NoRecord
        BY <1>1
    <2>3. mem[j] = NoSession /\ paid[j] = "unasked"
        BY <1>1
    <2>4. NoSession.step = "none"
        BY NoSessionIs
    <2> QED
        BY <2>1, <2>2, <2>3, <2>4, NoRecordIs DEF Sound, SoundAt, RecordInOrder, TrueRows, Resumable
<1> QED
    BY <1>3, <1>4 DEF Orderly

LEMMA OrderlyKept == Orderly /\ [Next]_vars => Orderly'
<1> SUFFICES ASSUME Orderly, [Next]_vars PROVE Orderly'
    OBVIOUS
<1>1. CASE UNCHANGED vars
    BY <1>1 DEF vars, hvars, mvars, store, Orderly, Typed, HeadroomTypeOK, Sound
<1>2. ASSUME NEW j \in Claimant, Insert(j) \/ Pay(j) \/ CancelCheck(j) \/ CancelCommit(j)
      PROVE  Orderly'
    BY <1>2, InsertSound, PaySound, CancelCheckSound, CancelCommitSound
<1>3. ASSUME NEW j \in Claimant, Task(j) PROVE Orderly'
    BY <1>3, ReserveSound, RefuseSound, PreparedSound, ClaimSound, WaitReturnsSound,
       WaitTimesOutSound, RetryPersistSound, SubmitSound, HeldUnreadSound, RaiseSound,
       MintConfirmedSound, NoMintSound, OfferSound, EndSessionSound, CreditSound, FinishSound
       DEF Task
<1>4. ASSUME NEW t \in Token, Land(t) \/ Expire(t) \/ Listen(t) PROVE Orderly'
    BY <1>4, LedgerSound
<1>5. CASE Restart
    BY <1>5, RestartSound
<1> QED
    BY <1>1, <1>2, <1>3, <1>4, <1>5 DEF Next

(* Whatever fails and whenever the process dies, every variable has its    *)
(* type: a job never has more units than were asked for.                   *)
THEOREM TypeCorrect == Spec => []TypeOK
<1>1. Orderly => TypeOK
    <2> SUFFICES ASSUME Orderly PROVE TypeOK
        OBVIOUS
    <2>1. HeadroomTypeOK /\ paid \in [Claimant -> {"unasked", "asked", "landed", "claimed"}]
          /\ credits \in [CreditKeys -> Nat] /\ flying \in SUBSET Token
        BY DEF Orderly, Typed
    <2>2. ASSUME NEW j \in Claimant
          PROVE  /\ mem[j].step \in Steps /\ mem[j].st \in Terminal \cup {"awaiting", "fulfilling"}
                 /\ \A u \in DOMAIN mem[j].units : mem[j].units[u] \in UnitRows
                 /\ Len(mem[j].units) <= Cardinality(Wanted[j])
                 /\ mem[j].tok \in Token \cup {NoToken}
        <3>1. mem[j] \in Memory /\ Len(mem[j].units) <= Cardinality(Wanted[j])
            BY AtWork
        <3>2. \A u \in DOMAIN mem[j].units : mem[j].units[u] \in UnitRows
            BY AtWork, UnitsAre
        <3> QED
            BY <3>1, <3>2 DEF Memory, Resumable
    <2>3. \A j \in Bulk : disk[j].st \in Terminal \cup Resumable \cup {"none"}
        BY DEF Orderly, Typed, Records
    <2> QED
        BY <2>1, <2>2, <2>3 DEF TypeOK, CreditKeys
<1> QED
    BY <1>1, OrderlyInit, OrderlyKept, PTL DEF Spec

(* Money a bulk job claimed is never dropped, whichever write fails and    *)
(* however the cancel and the end of the window race the payment: its      *)
(* record can be resumed, or every unit is a token or a credit.            *)
THEOREM MoneyHonoured == Spec => []PaidIsHonoured
<1>1. Orderly => PaidIsHonoured
    <2> SUFFICES ASSUME Orderly, NEW j \in Bulk, paid[j] = "claimed", disk[j].st \notin Resumable
                 PROVE  /\ disk[j].st = "done"
                        /\ \A u \in DOMAIN disk[j].units :
                            disk[j].units[u].nft \in minted \/ credits[<<j, u>>] > 0
        BY DEF PaidIsHonoured
    <2>1. SoundAt(j, mem[j], disk[j], paid[j], minted, credits)
        BY RowOf, KindOf
    <2>2. disk[j].st = "done"
        BY <2>1 DEF SoundAt, Resumable
    <2>3. ASSUME NEW u \in DOMAIN disk[j].units
          PROVE  disk[j].units[u].nft \in minted \/ credits[<<j, u>>] > 0
        <3>1. disk[j].units[u].st \in {"offered", "failed"}
            BY <2>1, <2>2 DEF SoundAt, RecordInOrder
        <3> QED
            BY <2>1, <3>1 DEF SoundAt, TrueRows
    <2> QED
        BY <2>2, <2>3
<1> QED
    BY <1>1, OrderlyInit, OrderlyKept, PTL DEF Spec

-----------------------------------------------------------------------------
(* Nobody has lost track: what the books say, and who sees them change.    *)

\* While nobody has lost track, and after a step that keeps it so.
Known  == Orderly /\ ~lost /\ Kept /\ \A j \in Claimant : Tracked(j)
Stays  == [HeadroomNext]_hvars /\ (lost' \/ \A j \in Claimant : Tracked(j)')

LEMMA BooksAre ==
    ASSUME Orderly, Kept, NEW j \in Claimant
    PROVE  /\ Books(j).made = Tokens(j) /\ Books(j).told = {t \in handed : t[1] = j}
           /\ Books(j).sent = {t \in flying : t[1] = j}
           /\ Books(j).held = Held(j) /\ Held(j) \in Nat
           /\ \A u \in Wanted[j] : Books(j).owed[u] = credits[<<j, u>>] /\ credits[<<j, u>>] \in Nat
           /\ Tokens(j) \subseteq Token /\ IsFiniteSet(Tokens(j))
           /\ Books(j).told \subseteq Tokens(j)
           /\ Unhanded(j) = Tokens(j) \ Books(j).told
           /\ IsFiniteSet(Unhanded(j)) /\ Cardinality(Unhanded(j)) \in Nat
<1>1. /\ minted \subseteq Token /\ IsFiniteSet(minted) /\ handed \subseteq minted
      /\ credits \in [CreditKeys -> Nat]
    BY DEF Orderly, Typed, HeadroomTypeOK, Kept, Shape
<1>2. Tokens(j) \in SUBSET minted
    BY DEF Tokens
<1>3. IsFiniteSet(Tokens(j))
    BY <1>1, <1>2, FS_Subset
<1>4. \A t \in minted : Owner[t] = t[1]
    BY <1>1, TokenIs
<1>5. Unhanded(j) = Tokens(j) \ {t \in handed : t[1] = j}
    BY <1>4 DEF Unhanded, Tokens
<1>6. \A u \in Wanted[j] : <<j, u>> \in CreditKeys
    BY DEF CreditKeys
<1>7. Unhanded(j) \in SUBSET Tokens(j)
    BY <1>5
<1>8. IsFiniteSet(Unhanded(j)) /\ Cardinality(Unhanded(j)) \in Nat
    BY <1>3, <1>7, FS_Subset, FS_CardinalityType
<1>9. Held(j) \in Nat
    BY PlainIs, HeldIs
<1>10. {t \in handed : t[1] = j} \subseteq Tokens(j)
    BY <1>1 DEF Tokens
<1> QED
    BY <1>1, <1>2, <1>3, <1>5, <1>6, <1>8, <1>9, <1>10 DEF Books

\* What each transaction of the store does to the books.
LEMMA StoreStep ==
    ASSUME Orderly, Kept, NEW j \in Claimant,
           \/ TryReserve(j) \/ Release(j) \/ ReleaseOne(j) \/ UNCHANGED store
           \/ \E t \in Token : t[1] = j /\ Retire(t)
    PROVE  \A k \in Claimant \ {j} :
              HeldBy(k)' = HeldBy(k) /\ {t \in handed' : t[1] = k} = {t \in handed : t[1] = k}
<1> SUFFICES ASSUME NEW k \in Claimant \ {j}
             PROVE  /\ HeldBy(k)' = HeldBy(k)
                    /\ {t \in handed' : t[1] = k} = {t \in handed : t[1] = k}
    OBVIOUS
<1>1. DropSlot(j) => HeldBy(k)' = HeldBy(k)
    BY DropSlotCosts DEF Kept
<1>2. CASE TryReserve(j)
    BY <1>2 DEF TryReserve, HeldBy
<1>3. CASE Release(j)
    BY <1>3 DEF Release, HeldBy
<1>4. CASE ReleaseOne(j)
    BY <1>1, <1>4 DEF ReleaseOne
<1>5. CASE UNCHANGED store
    BY <1>5 DEF store, HeldBy
<1>6. ASSUME NEW t \in Token, t[1] = j, Retire(t)
      PROVE  /\ HeldBy(k)' = HeldBy(k)
             /\ {s \in handed' : s[1] = k} = {s \in handed : s[1] = k}
    <2>1. handed' = handed \cup {t} /\ (slots' = slots \/ DropSlot(j))
        BY <1>6, TokenIs DEF Retire
    <2>2. slots' = slots => HeldBy(k)' = HeldBy(k)
        BY DEF HeldBy
    <2> QED
        BY <1>1, <1>6, <2>1, <2>2
<1> QED
    BY <1>2, <1>3, <1>4, <1>5, <1>6

\* A step of one claimant, of which the others see nothing.
LEMMA TrackedStep ==
    ASSUME Known, NEW j \in Claimant, NEW m, NEW d, Settles(j, m, d),
           \A k \in Claimant \ {j} : Books(k)' = Books(k),
           Tracks(j, m, Books(j)'), j \in Bulk => Current(m, d)
    PROVE  \A k \in Claimant : Tracked(k)'
<1>1. mem \in [Claimant -> Memory] /\ disk \in [Bulk -> Records]
    BY DEF Known, Orderly, Typed
<1>2. mem'[j] = m /\ (j \in Bulk => disk'[j] = d)
    BY <1>1 DEF Settles
<1>3. ASSUME NEW k \in Claimant \ {j} PROVE Tracked(k)'
    <2>1. mem'[k] = mem[k] /\ (k \in Bulk => disk'[k] = disk[k])
        BY <1>1, KindOf DEF Settles
    <2>2. Tracked(k)
        BY DEF Known
    <2> QED
        BY <2>1, <2>2 DEF Tracked
<1>4. Tracked(j)'
    BY <1>2 DEF Tracked
<1> QED
    BY <1>3, <1>4

LEMMA OtherBooks ==
    ASSUME Orderly, Kept, NEW j \in Claimant, UNCHANGED minted,
           \A t \in flying' \cup flying : t[1] # j => t \in flying /\ t \in flying',
           \A k \in Claimant \ {j} : \A u \in Wanted[k] : credits'[<<k, u>>] = credits[<<k, u>>],
           \/ TryReserve(j) \/ Release(j) \/ ReleaseOne(j) \/ UNCHANGED store
           \/ \E t \in Token : t[1] = j /\ Retire(t)
    PROVE  \A k \in Claimant \ {j} : Books(k)' = Books(k)
<1> TAKE k \in Claimant \ {j}
<1>1. HeldBy(k)' = HeldBy(k) /\ {t \in handed' : t[1] = k} = {t \in handed : t[1] = k}
    BY StoreStep
<1>2. {t \in flying' : t[1] = k} = {t \in flying : t[1] = k}
    OBVIOUS
<1>3. Tokens(k)' = Tokens(k)
    BY DEF Tokens
<1>4. Held(k)' = Held(k)
    BY <1>1 DEF Held
<1>5. [u \in Wanted[k] |-> credits'[<<k, u>>]] = [u \in Wanted[k] |-> credits[<<k, u>>]]
    OBVIOUS
<1> QED
    BY <1>1, <1>2, <1>3, <1>4, <1>5 DEF Books

\* The same for a step in memory, and for one with an attempt to write.
LEMMA InMemoryTracked ==
    ASSUME Known, NEW j \in Claimant, NEW m, InMemory(j, m),
           \A k \in Claimant \ {j} : Books(k)' = Books(k), Tracks(j, m, Books(j)'),
           j \in Single \/ m.st \in Terminal
              \/ (m.units = mem[j].units /\ m.stale = mem[j].stale /\ mem[j].st \notin Terminal)
              \/ disk[j].st \notin Resumable
    PROVE  \A k \in Claimant : Tracked(k)'
<1>1. Settles(j, m, disk[j])
    BY InMemoryIs DEF Known
<1>2. j \in Bulk => Current(m, disk[j])
    BY KindOf DEF Known, Tracked, Current
<1> QED
    BY <1>1, <1>2, TrackedStep

LEMMA PersistTracked ==
    ASSUME Known, NEW j \in Claimant, NEW w \in Memory, NEW ok \in BOOLEAN, Persist(j, w, ok),
           \A k \in Claimant \ {j} : Books(k)' = Books(k), Tracks(j, w, Books(j)')
    PROVE  \A k \in Claimant : Tracked(k)'
<1> DEFINE m == Marked(j, w, ok)
           d == Written(j, w, ok)
<1>1. Settles(j, m, d)
    BY PersistIs DEF Known
<1>2. /\ m.units = w.units /\ m.step = w.step /\ m.st = w.st /\ m.tok = w.tok /\ m.holds = w.holds
      /\ j \in Bulk => m.stale = ~ok
    BY DEF Marked, Memory
<1>3. ok => d.units = w.units
    BY DEF Written
<1> HIDE DEF m, d
<1>4. Aloft(m) = Aloft(w) /\ Pending(m) = Pending(w)
    BY <1>2 DEF Aloft, Pending
<1>5. Tracks(j, m, Books(j)')
    BY <1>2, <1>4 DEF Tracks, OnTheWay, Accounted, FlagIsTrue, Backed
<1>6. j \in Bulk => Current(m, d)
    BY <1>2, <1>3 DEF Current
<1> QED
    BY <1>1, <1>5, <1>6, TrackedStep

-----------------------------------------------------------------------------
(* Steps that make no token and give none away.                            *)

LEMMA SameBooks ==
    ASSUME UNCHANGED <<store, minted, flying, credits>>, NEW k \in Claimant
    PROVE  Books(k)' = Books(k)
BY DEF Books, Tokens, Held, HeldBy, store

LEMMA QuietTracks ==
    ASSUME NEW j, NEW m, NEW w, NEW b, Tracks(j, m, b), w.units = m.units,
           Aloft(w) = Aloft(m), w.st # "gone", m.st # "gone",
           w.step = "offering" => m.step = "offering" /\ w.holds = m.holds,
           w.st \in Terminal \/ (m.st \notin Terminal /\ m.step # "admitting")
    PROVE  Tracks(j, w, b)
BY DEF Tracks, OnTheWay, Accounted, FlagIsTrue, Backed, Pending

\* The session moves on in memory, or writes that it did.
LEMMA QuietMemory ==
    ASSUME Known, NEW j \in Claimant, NEW w, InMemory(j, w),
           UNCHANGED <<store, indexed, minted, flying, lost, credits>>,
           w.units = mem[j].units, w.stale = mem[j].stale,
           Aloft(w) = Aloft(mem[j]), w.st # "gone", mem[j].st # "gone",
           w.step = "offering" => mem[j].step = "offering" /\ w.holds = mem[j].holds,
           w.st \in Terminal \/ (mem[j].st \notin Terminal /\ mem[j].step # "admitting")
    PROVE  Stays
<1>1. \A k \in Claimant : Books(k)' = Books(k)
    BY SameBooks
<1>2. Tracks(j, mem[j], Books(j))
    BY DEF Known, Tracked
<1>3. Tracks(j, w, Books(j)')
    BY <1>1, <1>2, QuietTracks
<1>4. \A k \in Claimant : Tracked(k)'
    BY <1>1, <1>3, InMemoryTracked
<1> QED
    BY <1>4 DEF Stays, hvars

LEMMA QuietPersist ==
    ASSUME Known, NEW j \in Claimant, NEW w \in Memory, NEW ok \in BOOLEAN, Persist(j, w, ok),
           UNCHANGED <<store, indexed, minted, flying, lost, credits>>,
           w.units = mem[j].units,
           Aloft(w) = Aloft(mem[j]), w.st # "gone", mem[j].st # "gone", w.step # "offering",
           w.st \in Terminal \/ (mem[j].st \notin Terminal /\ mem[j].step # "admitting")
    PROVE  Stays
<1>1. \A k \in Claimant : Books(k)' = Books(k)
    BY SameBooks
<1>2. Tracks(j, mem[j], Books(j))
    BY DEF Known, Tracked
<1>3. Tracks(j, w, Books(j)')
    BY <1>1, <1>2, QuietTracks
<1>4. \A k \in Claimant : Tracked(k)'
    BY <1>1, <1>3, PersistTracked
<1> QED
    BY <1>4 DEF Stays, hvars

\* A session that has not begun its units has nothing on the books.
LEMMA NothingMade ==
    ASSUME Known, NEW j \in Claimant, Untouched(mem[j].units), mem[j].st # "gone",
           mem[j].step = "flying" => mem[j].tok \notin minted
    PROVE  /\ Tokens(j) = {} /\ Unhanded(j) = {} /\ Books(j).told = {}
           /\ \A u \in Wanted[j] : Books(j).owed[u] = 0 /\ credits[<<j, u>>] = 0
<1>1. Accounted(j, mem[j], Books(j)) /\ Orderly /\ Kept
    BY DEF Known, Tracked, Tracks
<1>2. /\ TrueRows(j, mem[j].units, minted, credits)
      /\ Books(j).made = Tokens(j) /\ Books(j).told \subseteq Tokens(j)
      /\ Unhanded(j) = Tokens(j) \ Books(j).told /\ Tokens(j) \subseteq Token
      /\ \A u \in Wanted[j] : Books(j).owed[u] = credits[<<j, u>>]
    BY <1>1, AtWork, BooksAre
<1>3. ASSUME NEW t \in Tokens(j) PROVE FALSE
    <2>1. t \in minted /\ t # NoToken
        BY <1>2, TokenIs DEF Tokens
    <2>2. t \notin Aloft(mem[j])
        BY <2>1 DEF Aloft
    <2>3. t[2] \in DOMAIN mem[j].units /\ mem[j].units[t[2]].nft = t
        BY <1>1, <1>2, <2>2 DEF Accounted
    <2> QED
        BY <1>2, <2>1, <2>3 DEF Untouched, TrueRows
<1>4. ASSUME NEW u \in Wanted[j] PROVE Books(j).owed[u] = 0
    BY <1>1 DEF Accounted, Untouched
<1> QED
    BY <1>2, <1>3, <1>4

LEMMA NothingBooked ==
    ASSUME Known, NEW j \in Claimant, Untouched(mem[j].units), mem[j].st # "gone",
           mem[j].step = "flying" => mem[j].tok \notin flying \cup minted,
           UNCHANGED <<minted, flying, credits, handed>>
    PROVE  /\ Unhanded(j) = {}
           /\ Books(j)'.made = {} /\ Books(j)'.told = {} /\ Books(j)'.sent = {}
           /\ \A u \in Wanted[j] : Books(j)'.owed[u] = 0
<1>1. /\ Tokens(j) = {} /\ Unhanded(j) = {} /\ Books(j).told = {}
      /\ \A u \in Wanted[j] : Books(j).owed[u] = 0
    BY NothingMade
<1>2. Tracks(j, mem[j], Books(j)) /\ Orderly /\ Kept
    BY DEF Known, Tracked
<1>3. Books(j).sent = {}
    <2>1. Books(j).sent \subseteq Aloft(mem[j])
        BY <1>2 DEF Tracks, OnTheWay
    <2> QED
        BY <1>2, <2>1, BooksAre DEF Aloft
<1>4. /\ Books(j)'.made = Books(j).made /\ Books(j)'.told = Books(j).told
      /\ Books(j)'.sent = Books(j).sent
      /\ \A u \in Wanted[j] : Books(j)'.owed[u] = Books(j).owed[u]
    BY DEF Books, Tokens
<1>5. Books(j).made = {}
    BY <1>1, <1>2, BooksAre
<1> QED
    BY <1>1, <1>3, <1>4, <1>5

LEMMA EmptyTracks ==
    ASSUME NEW j \in Claimant, NEW w, NEW b, b.made = {}, b.told = {}, b.sent = {},
           \A u \in Wanted[j] : b.owed[u] = 0,
           w.step \notin {"flying", "offering"}, w.st # "gone",
           \/ w.st \in Terminal \/ w.step = "admitting"
           \/ Cardinality(Pending(w)) \in Nat /\ Cardinality(Pending(w)) <= b.held
    PROVE  Tracks(j, w, b)
<1>1. Aloft(w) = {}
    BY DEF Aloft
<1>2. (b.made \ b.told) \ Aloft(w) = {}
    OBVIOUS
<1>3. Cardinality({}) = 0
    BY FS_EmptySet
<1>4. Backed(w, b)
    <2> DEFINE n == Cardinality(Pending(w))
    <2>1. CASE n \in Nat /\ n <= b.held
        <3> HIDE DEF n
        <3>1. 0 + n <= b.held
            BY <2>1
        <3> QED
            BY <1>2, <1>3, <3>1 DEF Backed, n
    <2> QED
        BY <2>1 DEF Backed
<1> QED
    BY <1>1, <1>4 DEF Tracks, OnTheWay, Accounted, FlagIsTrue

\* It ends there: its slots are given back, or stay for a while.
LEMMA Closes ==
    ASSUME Known, NEW j \in Claimant, NEW w, NEW d, Settles(j, w, d),
           UNCHANGED <<indexed, minted, flying, lost, credits>>, UNCHANGED store \/ Release(j),
           Untouched(mem[j].units), mem[j].st # "gone",
           mem[j].step = "flying" => mem[j].tok \notin flying \cup minted,
           w.step \notin {"flying", "offering"}, w.st \in Terminal, w.st # "gone"
    PROVE  Stays
<1>1. handed' = handed
    BY DEF store, Release
<1>2. /\ Unhanded(j) = {}
      /\ Books(j)'.made = {} /\ Books(j)'.told = {} /\ Books(j)'.sent = {}
      /\ \A u \in Wanted[j] : Books(j)'.owed[u] = 0
    BY <1>1, NothingBooked
<1>3. [HeadroomNext]_hvars
    BY <1>2 DEF HeadroomNext, ReleaseStep, hvars
<1>4. Tracks(j, w, Books(j)')
    BY <1>2, EmptyTracks
<1>5. \A k \in Claimant \ {j} : Books(k)' = Books(k)
    BY OtherBooks DEF Known
<1>6. j \in Bulk => Current(w, d)
    BY DEF Current
<1> QED
    BY <1>3, <1>4, <1>5, <1>6, TrackedStep DEF Stays

LEMMA InsertStays ==
    ASSUME Known, NEW j \in Claimant, Insert(j)
    PROVE  Stays
<1> DEFINE w == [NoSession EXCEPT !.step = "admitting", !.units = Fresh(1)]
<1>1. /\ j \in Single /\ mem[j].step = "none" /\ InMemory(j, w)
      /\ UNCHANGED <<store, indexed, minted, lost, flying, credits>>
    BY DEF Insert, LedgerUnchanged
<1>2. w.step = "admitting" /\ w.st = "awaiting"
    BY NoSessionIs DEF Memory
<1> HIDE DEF w
<1>3. Untouched(mem[j].units) /\ mem[j].st # "gone"
    BY <1>1, AtWork DEF Known, InOrder, Untouched
<1>4. /\ Books(j)'.made = {} /\ Books(j)'.told = {} /\ Books(j)'.sent = {}
      /\ \A u \in Wanted[j] : Books(j)'.owed[u] = 0
    BY <1>1, <1>3, NothingBooked DEF store
<1>5. Tracks(j, w, Books(j)')
    BY <1>2, <1>4, EmptyTracks
<1>6. \A k \in Claimant : Books(k)' = Books(k)
    BY <1>1, SameBooks
<1>7. \A k \in Claimant : Tracked(k)'
    BY <1>1, <1>5, <1>6, InMemoryTracked
<1> QED
    BY <1>1, <1>7 DEF Stays, hvars

LEMMA ReserveStays ==
    ASSUME Known, NEW j \in Claimant, Reserve(j)
    PROVE  Stays
<1> DEFINE granted == Cardinality({s \in slots' : s[1] = j})
           up == [mem[j] EXCEPT !.step = "preparing", !.units = Fresh(granted), !.holds = TRUE]
           no == [mem[j] EXCEPT !.step = "ended",
                        !.st = IF @ = "awaiting" THEN "failed" ELSE @]
<1>1. /\ TryReserve(j) /\ UNCHANGED <<indexed, minted, lost, flying, paid, credits>>
      /\ mem[j].step = IF j \in Bulk THEN "none" ELSE "admitting"
      /\ \/ InMemory(j, up)
         \/ UNCHANGED <<mem, disk>> /\ j \in Bulk
         \/ j \in Single /\ InMemory(j, no)
    BY DEF Reserve, LedgerUnchanged
<1>2. [HeadroomNext]_hvars
    BY <1>1 DEF HeadroomNext, ReserveStep
<1>3. /\ InOrder(j, mem[j]) /\ mem[j] \in Memory /\ mem[j].units \in Seq(UnitRows)
      /\ DOMAIN mem[j].units = 1..Len(mem[j].units) /\ Orderly /\ Kept
    BY AtWork DEF Known
<1>4. /\ Untouched(mem[j].units) /\ mem[j].st \in {"awaiting", "cancelled"}
      /\ mem[j].step \in {"none", "admitting"}
      /\ mem[j].step = "none" => mem[j].st = "awaiting" /\ DOMAIN mem[j].units = {}
    BY <1>1, <1>3 DEF InOrder, Untouched
<1>5. handed' = handed
    BY <1>1 DEF TryReserve
<1>6. /\ Books(j)'.made = {} /\ Books(j)'.told = {} /\ Books(j)'.sent = {}
      /\ \A u \in Wanted[j] : Books(j)'.owed[u] = 0
    <2>1. UNCHANGED <<minted, flying, credits, handed>>
        BY <1>1, <1>5
    <2>2. mem[j].step # "flying" /\ mem[j].st # "gone" /\ Untouched(mem[j].units)
        BY <1>4
    <2> QED
        BY <2>1, <2>2, NothingBooked
<1>7. \A k \in Claimant \ {j} : Books(k)' = Books(k)
    BY <1>1, <1>3, OtherBooks
<1>8. granted \in Nat /\ Books(j)'.held = granted
    <2>1. HeadroomTypeOK'
        BY <1>1, <1>3, PlainIs, StoreKeepsType
    <2>2. {s \in slots' : s[1] = j} \in SUBSET ({j} \X Wanted[j])
        BY <2>1 DEF HeadroomTypeOK
    <2>3. granted \in Nat
        BY <2>2, Places, FS_Subset, FS_CardinalityType
    <2> QED
        BY <2>3 DEF Books, Held, HeldBy
<1> HIDE DEF granted
<1>9. j \in Bulk => disk[j].st \notin Resumable
    BY <1>1, <1>3, RowOf DEF SoundAt
<1>10. CASE InMemory(j, up)
    <2>1. up.step = "preparing" /\ up.units = Fresh(granted) /\ up.st = mem[j].st
        BY <1>3 DEF Memory
    <2> HIDE DEF up
    <2>2. Pending(up) = 1..granted
        BY <1>8, <2>1, FreshIs, UnitsAre, SMTT(30) DEF Pending
    <2>3. Cardinality(Pending(up)) = granted
        BY <1>8, <2>2, FS_Interval
    <2>4. Cardinality(Pending(up)) \in Nat /\ Cardinality(Pending(up)) <= Books(j)'.held
        BY <1>8, <2>3
    <2>5. up.step \notin {"flying", "offering"} /\ up.st # "gone"
        BY <1>4, <2>1
    <2>6. Tracks(j, up, Books(j)')
        BY <1>6, <2>4, <2>5, EmptyTracks
    <2>7. \A k \in Claimant : Tracked(k)'
        BY <1>7, <1>9, <1>10, <2>6, KindOf, InMemoryTracked
    <2> QED
        BY <1>2, <2>7 DEF Stays
<1>11. CASE UNCHANGED <<mem, disk>> /\ j \in Bulk
    <2>1. mem[j].step = "none" /\ DOMAIN mem[j].units = {}
        BY <1>1, <1>4, <1>11
    <2>2. Cardinality(Pending(mem[j])) = 0
        <3>1. Pending(mem[j]) = {}
            BY <2>1 DEF Pending
        <3> QED
            BY <3>1, FS_EmptySet
    <2>3. Tracks(j, mem[j], Books(j)')
        <3>1. Cardinality(Pending(mem[j])) \in Nat /\ Cardinality(Pending(mem[j])) <= Books(j)'.held
            BY <1>8, <2>2
        <3>2. mem[j].step \notin {"flying", "offering"} /\ mem[j].st # "gone"
            BY <1>4, <2>1
        <3> QED
            BY <1>6, <3>1, <3>2, EmptyTracks
    <2>4. InMemory(j, mem[j])
        <3>1. mem \in [Claimant -> Memory]
            BY <1>3 DEF Orderly, Typed
        <3> QED
            BY <1>11, <3>1 DEF InMemory
    <2>5. \A k \in Claimant : Tracked(k)'
        BY <1>7, <1>9, <1>11, <2>3, <2>4, InMemoryTracked
    <2> QED
        BY <1>2, <2>5 DEF Stays
<1>12. CASE j \in Single /\ InMemory(j, no)
    <2>1. no.step = "ended" /\ no.st \in {"failed", "cancelled"}
        <3>1. mem[j] \in Memory
            BY <1>3
        <3> QED
            BY <1>4, <3>1 DEF Memory
    <2> HIDE DEF no
    <2>2. Tracks(j, no, Books(j)')
        BY <1>6, <2>1, EmptyTracks DEF Terminal
    <2>3. \A k \in Claimant : Tracked(k)'
        BY <1>7, <1>12, <2>2, InMemoryTracked
    <2> QED
        BY <1>2, <2>3 DEF Stays
<1> QED
    BY <1>1, <1>10, <1>11, <1>12

LEMMA RefuseStays ==
    ASSUME Known, NEW j \in Claimant, Refuse(j)
    PROVE  Stays
<1>1. PICK ok \in BOOLEAN :
        /\ mem[j].step = "preparing" /\ GiveBack(j, ok)
        /\ InMemory(j, [mem[j] EXCEPT !.step = "ended", !.holds = ~ok,
                                      !.st = IF @ = "awaiting" THEN "failed" ELSE @])
        /\ UNCHANGED <<indexed, minted, flying, lost, credits>>
    BY DEF Refuse, LedgerUnchanged
<1> DEFINE w == [mem[j] EXCEPT !.step = "ended", !.holds = ~ok,
                               !.st = IF @ = "awaiting" THEN "failed" ELSE @]
<1>2. Settles(j, w, disk[j])
    BY <1>1, InMemoryIs DEF Known
<1>3. InOrder(j, mem[j]) /\ mem[j] \in Memory
    BY AtWork DEF Known
<1>4. Untouched(mem[j].units) /\ mem[j].st \in {"awaiting", "cancelled"}
    BY <1>1, <1>3 DEF InOrder
<1>5. w.step = "ended" /\ w.st \in {"failed", "cancelled"}
    BY <1>3, <1>4 DEF Memory
<1> HIDE DEF w
<1>6. UNCHANGED store \/ Release(j)
    BY <1>1 DEF GiveBack
<1>7. w.st \in Terminal
    BY <1>5 DEF Terminal
<1> QED
    BY <1>1, <1>2, <1>4, <1>5, <1>6, <1>7, Closes

LEMMA PreparedStays ==
    ASSUME Known, NEW j \in Claimant, Prepared(j)
    PROVE  Stays
<1>1. /\ mem[j].step = "preparing"
      /\ UNCHANGED <<indexed, minted, flying, lost, credits>>
    BY PreparedIs
<1>2. /\ mem[j] \in Memory /\ Untouched(mem[j].units) /\ mem[j].st \in {"awaiting", "cancelled"}
    BY <1>1, AtWork DEF Known, InOrder
<1>3. ASSUME mem[j].st # "awaiting", InMemory(j, [mem[j] EXCEPT !.step = "ended"]),
             UNCHANGED store \/ Release(j)
      PROVE  Stays
    <2> DEFINE w == [mem[j] EXCEPT !.step = "ended"]
    <2>1. Settles(j, w, disk[j])
        BY <1>3, InMemoryIs DEF Known
    <2>2. w.step = "ended" /\ w.st = "cancelled"
        BY <1>2, <1>3 DEF Memory
    <2> HIDE DEF w
    <2> QED
        BY <1>1, <1>2, <1>3, <2>1, <2>2, Closes DEF Terminal
<1>4. ASSUME mem[j].st = "awaiting", UNCHANGED store,
             Persist(j, [mem[j] EXCEPT !.step = "waiting"], TRUE)
      PROVE  Stays
    <2> DEFINE w == [mem[j] EXCEPT !.step = "waiting"]
    <2>1. Persist(j, w, TRUE)
        BY <1>4
    <2>2. w \in Memory /\ w.units = mem[j].units /\ w.step = "waiting" /\ w.st = "awaiting"
        BY <1>2, <1>4 DEF Memory, Steps
    <2> HIDE DEF w
    <2>3. Aloft(w) = Aloft(mem[j])
        BY <1>1, <2>2 DEF Aloft
    <2> QED
        BY <1>1, <1>4, <2>1, <2>2, <2>3, QuietPersist DEF Terminal
<1>5. ASSUME InMemory(j, [mem[j] EXCEPT !.step = "ended", !.st = "failed"]), Release(j)
      PROVE  Stays
    <2> DEFINE w == [mem[j] EXCEPT !.step = "ended", !.st = "failed"]
    <2>1. Settles(j, w, disk[j])
        BY <1>5, InMemoryIs DEF Known
    <2>2. w.step = "ended" /\ w.st = "failed"
        BY <1>2 DEF Memory
    <2> HIDE DEF w
    <2> QED
        BY <1>1, <1>2, <1>5, <2>1, <2>2, Closes DEF Terminal
<1> QED
    BY <1>3, <1>4, <1>5, PreparedIs

LEMMA ClaimStays ==
    ASSUME Known, NEW j \in Claimant, Claim(j)
    PROVE  Stays
<1> DEFINE w == [mem[j] EXCEPT !.step = "closing"]
<1>1. /\ mem[j].step = "waiting" /\ InMemory(j, w)
      /\ UNCHANGED <<store, indexed, minted, flying, lost, credits>>
    BY DEF Claim, LedgerUnchanged
<1>2. mem[j] \in Memory /\ mem[j].st = "awaiting"
    BY <1>1, AtWork DEF Known, InOrder
<1>3. w.units = mem[j].units /\ w.stale = mem[j].stale /\ w.step = "closing" /\ w.st = "awaiting"
    BY <1>2 DEF Memory
<1> HIDE DEF w
<1>4. Aloft(w) = Aloft(mem[j])
    BY <1>1, <1>3 DEF Aloft
<1> QED
    BY <1>1, <1>2, <1>3, <1>4, QuietMemory DEF Terminal

LEMMA FulfilStays ==
    ASSUME Known, NEW j \in Claimant, NEW ok \in BOOLEAN,
           mem[j].step \in {"waiting", "closing"}, Persist(j, Fulfil(mem[j]), ok),
           UNCHANGED <<store, indexed, minted, flying, lost, credits>>
    PROVE  Stays
<1>1. mem[j] \in Memory /\ mem[j].st = "awaiting"
    BY AtWork DEF Known, InOrder
<1> DEFINE w == Fulfil(mem[j])
<1>2. w \in Memory /\ w.units = mem[j].units /\ w.step = "unit" /\ w.st = "fulfilling"
    BY <1>1, FulfilIs
<1>3. Persist(j, w, ok)
    OBVIOUS
<1> HIDE DEF w
<1>4. Aloft(w) = Aloft(mem[j])
    BY <1>2 DEF Aloft
<1> QED
    BY <1>1, <1>2, <1>3, <1>4, QuietPersist DEF Terminal

LEMMA WaitReturnsStays ==
    ASSUME Known, NEW j \in Claimant, WaitReturns(j)
    PROVE  Stays
BY FulfilStays DEF WaitReturns, LedgerUnchanged

LEMMA WaitTimesOutStays ==
    ASSUME Known, NEW j \in Claimant, WaitTimesOut(j)
    PROVE  Stays
<1>1. mem[j].step = "waiting" /\ UNCHANGED <<indexed, minted, flying, lost, credits>>
    BY WaitTimesOutIs
<1>2. mem[j] \in Memory /\ mem[j].st = "awaiting" /\ Untouched(mem[j].units)
    BY <1>1, AtWork DEF Known, InOrder
<1>3. ASSUME NEW wrote \in BOOLEAN, Persist(j, Fulfil(mem[j]), wrote), UNCHANGED store
      PROVE  Stays
    BY <1>1, <1>3, FulfilStays
<1>4. ASSUME NEW gave \in BOOLEAN, NEW wrote \in BOOLEAN, GiveBack(j, gave),
             Persist(j, [mem[j] EXCEPT !.step = "ended", !.st = "timeout", !.holds = ~gave], wrote)
      PROVE  Stays
    <2> DEFINE v == [mem[j] EXCEPT !.step = "ended", !.st = "timeout", !.holds = ~gave]
               w == Marked(j, v, wrote)
               d == Written(j, v, wrote)
    <2>1. Settles(j, w, d)
        BY <1>4, PersistIs DEF Known
    <2>2. w.step = "ended" /\ w.st = "timeout"
        BY <1>2 DEF Memory, Marked
    <2> HIDE DEF w, d
    <2>3. UNCHANGED store \/ Release(j)
        BY <1>4 DEF GiveBack
    <2> QED
        BY <1>1, <1>2, <2>1, <2>2, <2>3, Closes DEF Terminal
<1>5. ASSUME Persist(j, [mem[j] EXCEPT !.step = "ended"], TRUE), UNCHANGED store
      PROVE  Stays
    <2> DEFINE w == [mem[j] EXCEPT !.step = "ended"]
    <2>1. Persist(j, w, TRUE)
        BY <1>5
    <2>2. w \in Memory /\ w.units = mem[j].units /\ w.step = "ended" /\ w.st = "awaiting"
        BY <1>2 DEF Memory, Steps
    <2> HIDE DEF w
    <2>3. Aloft(w) = Aloft(mem[j])
        BY <1>1, <2>2 DEF Aloft
    <2> QED
        BY <1>1, <1>2, <1>5, <2>1, <2>2, <2>3, QuietPersist DEF Terminal
<1> QED
    BY <1>3, <1>4, <1>5, WaitTimesOutIs

LEMMA CancelCheckStays ==
    ASSUME Known, NEW j \in Claimant, CancelCheck(j)
    PROVE  Stays
<1> DEFINE w == [mem[j] EXCEPT !.backing = TRUE]
<1>1. /\ mem[j].step # "none" /\ mem[j].st = "awaiting" /\ InMemory(j, w)
      /\ UNCHANGED <<store, indexed, minted, flying, lost, credits>>
    BY DEF CancelCheck, LedgerUnchanged
<1>2. mem[j] \in Memory /\ Tracks(j, mem[j], Books(j))
    BY AtWork DEF Known, Tracked
<1>3. /\ w.units = mem[j].units /\ w.stale = mem[j].stale /\ w.step = mem[j].step
      /\ w.st = mem[j].st /\ w.tok = mem[j].tok /\ w.holds = mem[j].holds
    BY <1>2 DEF Memory
<1> HIDE DEF w
<1>4. Aloft(w) = Aloft(mem[j]) /\ Pending(w) = Pending(mem[j])
    BY <1>3 DEF Aloft, Pending
<1>5. \A k \in Claimant : Books(k)' = Books(k)
    BY <1>1, SameBooks
<1>6. Tracks(j, w, Books(j)')
    BY <1>2, <1>3, <1>4, <1>5 DEF Tracks, OnTheWay, Accounted, FlagIsTrue, Backed
<1>7. \A k \in Claimant : Tracked(k)'
    BY <1>1, <1>3, <1>5, <1>6, InMemoryTracked DEF Terminal
<1> QED
    BY <1>1, <1>7 DEF Stays, hvars

LEMMA CancelCommitStays ==
    ASSUME Known, NEW j \in Claimant, CancelCommit(j)
    PROVE  Stays
<1>1. UNCHANGED <<indexed, minted, flying, lost, credits>> /\ mem[j].backing /\ Orderly
    BY CancelCommitIs DEF Known
<1>2. mem[j] \in Memory /\ InOrder(j, mem[j]) /\ mem[j].step \in Steps
    BY AtWork DEF Known, Memory
<1>3. ASSUME InMemory(j, [mem[j] EXCEPT !.backing = FALSE]), UNCHANGED store PROVE Stays
    <2> DEFINE w == [mem[j] EXCEPT !.backing = FALSE]
    <2>1. /\ w.units = mem[j].units /\ w.stale = mem[j].stale /\ w.step = mem[j].step
          /\ w.st = mem[j].st /\ w.tok = mem[j].tok /\ w.holds = mem[j].holds
        BY <1>2 DEF Memory
    <2>2. InMemory(j, w)
        BY <1>3
    <2> HIDE DEF w
    <2>3. Aloft(w) = Aloft(mem[j]) /\ Pending(w) = Pending(mem[j])
        BY <2>1 DEF Aloft, Pending
    <2>4. \A k \in Claimant : Books(k)' = Books(k)
        BY <1>1, <1>3, SameBooks
    <2>5. Tracks(j, mem[j], Books(j))
        BY DEF Known, Tracked
    <2>6. Tracks(j, w, Books(j)')
        BY <2>1, <2>3, <2>4, <2>5 DEF Tracks, OnTheWay, Accounted, FlagIsTrue, Backed
    <2>7. w.st \in Terminal \/ (w.units = mem[j].units /\ w.stale = mem[j].stale /\ mem[j].st \notin Terminal)
        BY <2>1
    <2>8. \A k \in Claimant : Tracked(k)'
        BY <2>2, <2>4, <2>6, <2>7, InMemoryTracked
    <2> QED
        BY <1>1, <1>3, <2>8 DEF Stays, hvars
<1>4. ASSUME NEW gave \in BOOLEAN, NEW d, mem[j].st = "awaiting",
             IF mem[j].holds THEN GiveBack(j, gave) ELSE gave /\ UNCHANGED store,
             Settles(j, Cancelled(mem[j], gave), d)
      PROVE  Stays
    <2> DEFINE w == Cancelled(mem[j], gave)
    <2>1. /\ w.st = "cancelled"
          /\ w.step = IF mem[j].step \in {"waiting", "closing"} THEN "ended" ELSE mem[j].step
        BY <1>2 DEF Memory, Cancelled
    <2>2. Settles(j, w, d)
        BY <1>4
    <2> HIDE DEF w
    <2>3. mem[j].step \in {"admitting", "preparing", "waiting", "closing", "ended"}
          /\ Untouched(mem[j].units)
        BY <1>1, <1>2, <1>4 DEF InOrder, Steps
    <2>4. UNCHANGED store \/ Release(j)
        BY <1>4 DEF GiveBack
    <2>5. w.step \notin {"flying", "offering"} /\ w.st \in Terminal
        BY <2>1, <2>3 DEF Terminal
    <2> QED
        BY <1>1, <1>4, <2>1, <2>2, <2>3, <2>4, <2>5, Closes
<1> QED
    BY <1>1, <1>3, <1>4, CancelCommitIs

LEMMA RetryPersistStays ==
    ASSUME Known, NEW j \in Claimant, RetryPersist(j)
    PROVE  Stays
<1>1. PICK ok \in BOOLEAN :
        /\ mem[j].step = "unit"
        /\ Persist(j, IF ok THEN mem[j] ELSE [mem[j] EXCEPT !.step = "ended"], ok)
        /\ UNCHANGED <<store, indexed, minted, flying, lost, credits>>
    BY DEF RetryPersist, LedgerUnchanged
<1> DEFINE w == IF ok THEN mem[j] ELSE [mem[j] EXCEPT !.step = "ended"]
<1>2. /\ w \in Memory /\ w.units = mem[j].units /\ w.st = "fulfilling" /\ mem[j].st = "fulfilling"
      /\ w.step \in {"unit", "ended"}
    BY <1>1, AtWork DEF Known, Memory, Steps, InOrder
<1>3. Persist(j, w, ok)
    BY <1>1
<1> HIDE DEF w
<1>4. Aloft(w) = Aloft(mem[j])
    BY <1>1, <1>2 DEF Aloft
<1> QED
    BY <1>1, <1>2, <1>3, <1>4, QuietPersist DEF Terminal

LEMMA HeldUnreadStays ==
    ASSUME Known, NEW j \in Claimant, HeldUnread(j)
    PROVE  Stays
<1> DEFINE w == [mem[j] EXCEPT !.tries = @ + 1]
<1>1. /\ mem[j].step = "unit" /\ InMemory(j, w)
      /\ UNCHANGED <<store, indexed, minted, flying, lost, credits>>
    BY DEF HeldUnread, LedgerUnchanged, AtUnit
<1>2. mem[j] \in Memory /\ mem[j].st = "fulfilling"
    BY <1>1, AtWork DEF Known, InOrder
<1>3. w.units = mem[j].units /\ w.stale = mem[j].stale /\ w.step = "unit" /\ w.st = "fulfilling"
    BY <1>1, <1>2 DEF Memory
<1> HIDE DEF w
<1>4. Aloft(w) = Aloft(mem[j])
    BY <1>1, <1>3 DEF Aloft
<1> QED
    BY <1>1, <1>2, <1>3, <1>4, QuietMemory DEF Terminal

LEMMA RaiseStays ==
    ASSUME Known, NEW j \in Claimant, Raise(j)
    PROVE  Stays
<1>1. mem[j].step = "unit" /\ UNCHANGED <<indexed, minted, flying, lost, credits>>
    BY RaiseIs
<1>2. /\ mem[j] \in Memory /\ mem[j].st = "fulfilling"
      /\ j \notin Bulk => Untouched(mem[j].units)
    BY <1>1, AtWork, KindOf DEF Known, InOrder
<1>3. ASSUME NEW wrote \in BOOLEAN, UNCHANGED store,
             Persist(j, [mem[j] EXCEPT !.step = "ended"], wrote)
      PROVE  Stays
    <2> DEFINE w == [mem[j] EXCEPT !.step = "ended"]
    <2>1. w \in Memory /\ w.units = mem[j].units /\ w.st = "fulfilling" /\ w.step = "ended"
        BY <1>2 DEF Memory, Steps
    <2>2. Persist(j, w, wrote)
        BY <1>3
    <2> HIDE DEF w
    <2>3. Aloft(w) = Aloft(mem[j])
        BY <1>1, <2>1 DEF Aloft
    <2> QED
        BY <1>1, <1>2, <1>3, <2>1, <2>2, <2>3, QuietPersist DEF Terminal
<1>4. ASSUME NEW gave \in BOOLEAN, GiveBack(j, gave), j \notin Bulk,
             InMemory(j, [mem[j] EXCEPT !.step = "ended", !.st = "failed", !.holds = ~gave])
      PROVE  Stays
    <2> DEFINE w == [mem[j] EXCEPT !.step = "ended", !.st = "failed", !.holds = ~gave]
    <2>1. Settles(j, w, disk[j])
        BY <1>4, InMemoryIs DEF Known
    <2>2. w.step = "ended" /\ w.st = "failed"
        BY <1>2 DEF Memory
    <2> HIDE DEF w
    <2>3. UNCHANGED store \/ Release(j)
        BY <1>4 DEF GiveBack
    <2> QED
        BY <1>1, <1>2, <1>4, <2>1, <2>2, <2>3, Closes DEF Terminal
<1> QED
    BY <1>3, <1>4, RaiseIs

\* An attempt that made no token; taken for one that did not, it loses track.
LEMMA NoMintStays ==
    ASSUME Known, NEW j \in Claimant, NEW unknown \in BOOLEAN, NoMint(j, unknown)
    PROVE  Stays
<1>1. /\ mem[j].step = "flying" /\ UNCHANGED <<indexed, minted, flying, credits>>
      /\ lost' = (lost \/ unknown)
    BY NoMintIs
<1>2. CASE unknown
    BY <1>1, <1>2 DEF Stays, HeadroomNext, LoseTrack
<1>3. ASSUME ~unknown PROVE mem[j].tok \notin flying \cup minted /\ lost' = lost
    <2>1. mem[j].tok \notin flying \cup minted
        BY <1>3, NoMintIs
    <2>2. lost \in BOOLEAN
        BY PlainIs DEF Known
    <2>3. lost' = lost
        BY <1>1, <1>3, <2>2
    <2> QED
        BY <2>1, <2>3
<1>4. /\ mem[j] \in Memory /\ mem[j].st = "fulfilling" /\ Orderly /\ Kept
      /\ j \notin Bulk => Untouched(mem[j].units)
    BY <1>1, AtWork, KindOf DEF Known, InOrder
<1>5. ASSUME ~unknown, UNCHANGED store,
             InMemory(j, [mem[j] EXCEPT !.step = "unit", !.tok = NoToken, !.tries = @ + 1])
      PROVE  Stays
    <2> DEFINE w == [mem[j] EXCEPT !.step = "unit", !.tok = NoToken, !.tries = @ + 1]
    <2>1. w.units = mem[j].units /\ w.step = "unit" /\ w.st = "fulfilling" /\ w.stale = mem[j].stale
        BY <1>4 DEF Memory
    <2>2. InMemory(j, w)
        BY <1>5
    <2> HIDE DEF w
    <2>3. Aloft(w) = {} /\ Aloft(mem[j]) = {mem[j].tok} /\ Pending(w) = Pending(mem[j])
        BY <1>1, <2>1 DEF Aloft, Pending
    <2>4. \A k \in Claimant : Books(k)' = Books(k)
        BY <1>1, <1>5, SameBooks
    <2> DEFINE b == Books(j)
    <2>5. /\ Tracks(j, mem[j], b) /\ mem[j].tok \notin b.sent /\ mem[j].tok \notin b.made
        <3>1. mem[j].tok \notin flying \cup minted
            BY <1>3, <1>5
        <3>2. b.sent \subseteq flying /\ b.made \subseteq minted
            BY DEF Books, Tokens
        <3> QED
            BY <3>1, <3>2 DEF Known, Tracked
    <2> HIDE DEF b
    <2>6. b.sent \subseteq {} /\ (b.made \ b.told) \ Aloft(w) = (b.made \ b.told) \ Aloft(mem[j])
        BY <2>3, <2>5 DEF Tracks, OnTheWay
    <2>7. Accounted(j, w, b)
        BY <1>4, <2>1, <2>3, <2>5 DEF Tracks, Accounted
    <2>8. Backed(w, b)
        <3>1. Cardinality((b.made \ b.told) \ Aloft(mem[j])) + Cardinality(Pending(mem[j])) <= b.held
            BY <1>1, <1>4, <2>5 DEF Tracks, Backed, Terminal
        <3> QED
            BY <2>3, <2>6, <3>1 DEF Backed
    <2>9. Tracks(j, w, b)
        BY <2>1, <2>3, <2>6, <2>7, <2>8 DEF Tracks, OnTheWay, FlagIsTrue
    <2>10. Tracks(j, w, Books(j)')
        BY <2>4, <2>9 DEF b
    <2>11. \A k \in Claimant : Tracked(k)'
        BY <1>4, <2>1, <2>2, <2>4, <2>10, InMemoryTracked DEF Terminal
    <2> QED
        BY <1>1, <1>3, <1>5, <2>11 DEF Stays, hvars
<1>6. ASSUME ~unknown, NEW gave \in BOOLEAN, GiveBack(j, gave), j \notin Bulk,
             InMemory(j, [mem[j] EXCEPT !.step = "ended", !.tok = NoToken,
                                        !.st = "failed", !.holds = ~gave])
      PROVE  Stays
    <2> DEFINE w == [mem[j] EXCEPT !.step = "ended", !.tok = NoToken,
                                   !.st = "failed", !.holds = ~gave]
    <2>1. Settles(j, w, disk[j])
        BY <1>6, InMemoryIs DEF Known
    <2>2. w.step = "ended" /\ w.st = "failed"
        BY <1>4 DEF Memory
    <2> HIDE DEF w
    <2>3. UNCHANGED store \/ Release(j)
        BY <1>6 DEF GiveBack
    <2> QED
        BY <1>1, <1>3, <1>4, <1>6, <2>1, <2>2, <2>3, Closes DEF Terminal
<1> QED
    BY <1>2, <1>5, <1>6, NoMintIs

LEMMA SubmitStays ==
    ASSUME Known, NEW j \in Claimant, Submit(j)
    PROVE  Stays
<1> DEFINE t == TokenFor(j)
           w == [mem[j] EXCEPT !.step = "flying", !.tok = t]
           b == Books(j)
           a == Books(j)'
<1>1. /\ AtUnit(j, "pending") /\ TokenFor(j) # NoToken /\ flying' = flying \cup {t}
      /\ InMemory(j, w) /\ UNCHANGED <<store, indexed, minted, lost, credits>>
    BY DEF Submit
<1>2. t \in Token /\ t[1] = j /\ t \notin flying \cup minted
    BY <1>1, TokenForIs
<1>3. mem[j] \in Memory /\ mem[j].step = "unit" /\ mem[j].st = "fulfilling" /\ Orderly /\ Kept
    BY <1>1, AtUnitIs, AtWork DEF Known
<1>4. /\ w.units = mem[j].units /\ w.step = "flying" /\ w.st = "fulfilling" /\ w.tok = t
      /\ w.stale = mem[j].stale
    BY <1>3 DEF Memory
<1> HIDE DEF w, t
<1>5. Aloft(w) = {t} /\ Aloft(mem[j]) = {} /\ Pending(w) = Pending(mem[j])
    BY <1>3, <1>4 DEF Aloft, Pending
<1>6. /\ a.made = b.made /\ a.told = b.told /\ a.held = b.held /\ a.sent = b.sent \cup {t}
      /\ a.owed = b.owed
    BY <1>1, <1>2 DEF Books, Tokens, Held, HeldBy, store
<1>7. Tracks(j, mem[j], b) /\ t \notin b.made /\ b.told \subseteq b.made
      /\ b.sent \cap b.made = {}
    <2>1. Tracks(j, mem[j], b)
        BY DEF Known, Tracked
    <2>2. t \notin b.made /\ b.told \subseteq b.made
        BY <1>2, <1>3, BooksAre, ZenonT(40) DEF Tokens
    <2> QED
        BY <2>1, <2>2 DEF Tracks, OnTheWay
<1>8. \A k \in Claimant \ {j} : Books(k)' = Books(k)
    BY <1>1, <1>2, <1>3, OtherBooks
<1> HIDE DEF a, b
<1>9. (a.made \ a.told) \ Aloft(w) = (b.made \ b.told) \ Aloft(mem[j])
    BY <1>5, <1>6, <1>7
<1>10. OnTheWay(w, a) /\ Accounted(j, w, a) /\ FlagIsTrue(j, w, a)
    BY <1>3, <1>4, <1>5, <1>6, <1>7 DEF Tracks, OnTheWay, Accounted, FlagIsTrue
<1>11. Backed(w, a)
    <2>1. Cardinality((b.made \ b.told) \ Aloft(mem[j])) + Cardinality(Pending(mem[j])) <= b.held
        BY <1>3, <1>7 DEF Tracks, Backed, Terminal
    <2> QED
        BY <1>5, <1>6, <1>9, <2>1 DEF Backed
<1>12. Tracks(j, w, Books(j)')
    BY <1>4, <1>10, <1>11 DEF Tracks, a
<1>13. \A k \in Claimant : Tracked(k)'
    BY <1>1, <1>3, <1>4, <1>8, <1>12, InMemoryTracked DEF Terminal
<1> QED
    BY <1>1, <1>13 DEF Stays, hvars

LEMMA PayStays ==
    ASSUME Known, NEW j \in Claimant, Pay(j)
    PROVE  Stays
<1>1. UNCHANGED <<store, indexed, minted, lost, mem, disk, credits, flying>>
    BY DEF Pay, LedgerUnchanged
<1>2. \A k \in Claimant : Books(k)' = Books(k)
    BY <1>1, SameBooks
<1> QED
    BY <1>1, <1>2 DEF Stays, hvars, Known, Tracked

-----------------------------------------------------------------------------
(* Steps that make a token, hand it over or settle a unit.                 *)

LEMMA MintConfirmedStays ==
    ASSUME Known, NEW j \in Claimant, MintConfirmed(j)
    PROVE  Stays
<1> DEFINE t == mem[j].tok
           c == mem[j].cur
           b == Books(j)
           a == Books(j)'
           rest == (b.made \ b.told) \ {t}
           P == Pending(mem[j])
<1>1. /\ mem[j].step = "flying" /\ t \in minted
      /\ UNCHANGED <<indexed, minted, flying, lost, credits>>
    BY MintConfirmedIs
<1>2. PICK wrote \in BOOLEAN, retired \in BOOLEAN :
        /\ IF retired THEN Retire(t) ELSE UNCHANGED store
        /\ Persist(j, Confirmed(j, retired), wrote)
    BY MintConfirmedIs
<1> DEFINE w == Confirmed(j, retired)
<1>3. /\ w \in Memory /\ w.step = "offering" /\ w.st = "fulfilling"
      /\ w.holds = (j \in Bulk \/ ~retired) /\ DOMAIN w.units = DOMAIN mem[j].units
      /\ w.units[c].st = "minted" /\ w.units[c].nft = t
      /\ \A u \in DOMAIN mem[j].units : u # c => w.units[u] = mem[j].units[u]
    <2>1. /\ w \in Memory /\ w.step = "offering" /\ w.st = "fulfilling" /\ w.cur = mem[j].cur
          /\ w.holds = (j \in Bulk \/ ~retired) /\ DOMAIN w.units = DOMAIN mem[j].units
          /\ w.units[w.cur] = [st |-> "minted", nft |-> mem[j].tok]
          /\ \A u \in DOMAIN mem[j].units : u # w.cur => w.units[u] = mem[j].units[u]
        BY <1>1, ConfirmedIs, Zenon DEF Known
    <2> HIDE DEF w
    <2> QED
        BY <2>1
<1>4. Persist(j, w, wrote)
    BY <1>2
<1> HIDE DEF w
<1>5. /\ t \in Token /\ t[1] = j /\ t[2] = c /\ c \in DOMAIN mem[j].units
      /\ mem[j].units[c].st = "pending" /\ mem[j].units[c].nft = NoToken
      /\ mem[j].st = "fulfilling" /\ DOMAIN mem[j].units \subseteq Wanted[j]
      /\ Orderly /\ Kept /\ t # NoToken
    <2>1. /\ InOrder(j, mem[j]) /\ TrueRows(j, mem[j].units, minted, credits)
          /\ DOMAIN mem[j].units \subseteq Wanted[j] /\ Orderly /\ Kept
        BY AtWork DEF Known
    <2>2. /\ t \in Token /\ t[1] = j /\ t[2] = c /\ c \in DOMAIN mem[j].units
          /\ mem[j].units[c].st = "pending" /\ mem[j].st = "fulfilling"
        BY <1>1, <2>1 DEF InOrder
    <2> HIDE DEF t, c
    <2> QED
        BY <2>1, <2>2, TokenIs DEF TrueRows
<1>6. /\ Tracks(j, mem[j], b) /\ b.made = Tokens(j) /\ t \in b.made /\ b.told \subseteq b.made
      /\ IsFiniteSet(b.made) /\ b.held = Held(j) /\ b.held \in Nat
    BY <1>1, <1>5, BooksAre DEF Known, Tracked, Tokens
<1>7. Aloft(mem[j]) = {t} /\ Aloft(w) = {}
    BY <1>1, <1>3 DEF Aloft
<1>8. b.sent = {} /\ t \notin b.told
    BY <1>6, <1>7 DEF Tracks, OnTheWay
<1>9. Cardinality(rest) + Cardinality(P) <= b.held
    BY <1>1, <1>5, <1>6, <1>7 DEF Tracks, Backed, Terminal
<1>10. /\ a.made = b.made /\ a.sent = b.sent /\ a.owed = b.owed
       /\ retired => a.told = b.told \cup {t} /\ t \notin handed
       /\ ~retired => a.told = b.told /\ a.held = b.held
    <2>1. a.made = b.made /\ a.sent = b.sent /\ a.owed = b.owed
        BY <1>1 DEF Books, Tokens
    <2>2. retired => a.told = b.told \cup {t}
        BY <1>2, <1>5 DEF Books, Retire
    <2>3. t \notin handed
        BY <1>5, <1>8 DEF Books
    <2>4. ~retired => a.told = b.told /\ a.held = b.held
        BY <1>2 DEF Books, Held, HeldBy, store
    <2> QED
        BY <2>1, <2>2, <2>3, <2>4
<1>11. retired => a.held \in Nat /\ a.held + 1 >= b.held
    <2> SUFFICES ASSUME retired PROVE a.held \in Nat /\ a.held + 1 >= b.held
        OBVIOUS
    <2>1. a.held = Held(j)'
        BY DEF Books
    <2>2. DropSlot(j) \/ slots' = slots
        BY <1>2, <1>5, TokenIs DEF Retire
    <2>3. Held(j)' = Held(j) \/ (Held(j)' = Held(j) - 1 /\ HeldBy(j) # {})
        BY <1>5, <2>2, DropSlotCosts DEF Kept, Held, HeldBy
    <2>4. IsFiniteSet(HeldBy(j)) /\ (HeldBy(j) # {} => Held(j) # 0)
        BY <1>5, PlainIs, HeldIs, FS_EmptySet DEF Held
    <2> QED
        BY <1>6, <2>1, <2>3, <2>4
<1>12. [HeadroomNext]_hvars
    <2>1. CASE retired
        <3>1. RetireStep(t)
            BY <1>1, <1>2, <1>10, <2>1 DEF RetireStep
        <3> QED
            BY <1>5, <3>1 DEF HeadroomNext
    <2>2. CASE ~retired
        BY <1>1, <1>2, <2>2 DEF hvars
    <2> QED
        BY <2>1, <2>2
<1>13. \A k \in Claimant \ {j} : Books(k)' = Books(k)
    <2>1. UNCHANGED store \/ \E s \in Token : s[1] = j /\ Retire(s)
        BY <1>2, <1>5
    <2> QED
        BY <1>1, <1>5, <2>1, OtherBooks
<1>14. /\ IsFiniteSet(rest) /\ Cardinality(rest) \in Nat
       /\ IsFiniteSet(P) /\ Cardinality(P) \in Nat /\ c \in P
    <2>1. rest \in SUBSET b.made
        OBVIOUS
    <2>2. P \in SUBSET Wanted[j] /\ c \in P
        BY <1>5 DEF Pending
    <2>3. IsFiniteSet(Wanted[j])
        BY HeadroomAssumption
    <2> HIDE DEF rest, P
    <2> QED
        BY <1>6, <2>1, <2>2, <2>3, FS_Subset, FS_CardinalityType
<1>15. Pending(w) = P \ {c} /\ Cardinality(Pending(w)) = Cardinality(P) - 1
    <2>1. Pending(w) = P \ {c}
        BY <1>3 DEF Pending
    <2>2. IsFiniteSet(P) /\ c \in P
        BY <1>14
    <2> HIDE DEF P, c
    <2>3. Cardinality(P \ {c}) = Cardinality(P) - 1
        BY <2>2, FS_RemoveElement
    <2> QED
        BY <2>1, <2>3
<1> HIDE DEF a, b, P
<1>16. OnTheWay(w, a)
    BY <1>7, <1>8, <1>10 DEF OnTheWay
<1>17. Accounted(j, w, a)
    <2>1. Accounted(j, mem[j], b)
        BY <1>5, <1>6 DEF Tracks
    <2>2. ASSUME NEW x \in a.made PROVE x[2] \in DOMAIN w.units /\ w.units[x[2]].nft = x
        <3>1. CASE x = t
            BY <1>3, <1>5, <3>1
        <3>2. CASE x # t
            <4>1. x[2] \in DOMAIN mem[j].units /\ mem[j].units[x[2]].nft = x
                BY <1>7, <1>10, <2>1, <2>2, <3>2 DEF Accounted
            <4>2. x # NoToken
                BY <1>6, <1>5, <1>10, <2>2, TokenIs, BooksAre
            <4> QED
                BY <1>3, <1>5, <4>1, <4>2
        <3> QED
            BY <3>1, <3>2
    <2> QED
        BY <1>3, <1>5, <1>10, <2>1, <2>2 DEF Accounted
<1>18. FlagIsTrue(j, w, a)
    <2> SUFFICES ASSUME j \in Single, w.holds PROVE w.units[1].nft \notin a.told
        BY DEF FlagIsTrue
    <2>1. ~retired /\ c = 1
        BY <1>3, <1>5, KindOf, OneUnit
    <2> QED
        BY <1>3, <1>8, <1>10, <2>1
<1>19. Backed(w, a)
    <2>1. CASE retired
        <3>1. (a.made \ a.told) \ Aloft(w) = rest
            BY <1>7, <1>10, <2>1
        <3>2. Cardinality(rest) + Cardinality(Pending(w)) <= a.held
            <4> HIDE DEF rest
            <4> QED BY <1>6, <1>9, <1>11, <1>14, <1>15, <2>1
        <3> QED
            BY <3>1, <3>2 DEF Backed
    <2>2. CASE ~retired
        <3>1. (a.made \ a.told) \ Aloft(w) = rest \cup {t}
            BY <1>6, <1>7, <1>8, <1>10, <2>2
        <3>2. t \notin rest
            OBVIOUS
        <3>3. Cardinality(rest \cup {t}) = Cardinality(rest) + 1
            <4> HIDE DEF rest
            <4> QED BY <1>14, <3>2, FS_AddElement
        <3>4. Cardinality(rest \cup {t}) + Cardinality(Pending(w)) <= a.held
            <4> HIDE DEF rest
            <4> QED BY <1>6, <1>9, <1>10, <1>14, <1>15, <2>2, <3>3
        <3> QED
            BY <3>1, <3>4 DEF Backed
    <2> QED
        BY <2>1, <2>2
<1>20. Tracks(j, w, Books(j)')
    BY <1>3, <1>16, <1>17, <1>18, <1>19 DEF Tracks, a
<1>21. \A k \in Claimant : Tracked(k)'
    BY <1>3, <1>4, <1>13, <1>20, PersistTracked
<1> QED
    BY <1>12, <1>21 DEF Stays

\* Offers change nothing of the books.
LEMMA OfferedTracks ==
    ASSUME NEW j, NEW m, NEW w, NEW b, Tracks(j, m, b),
           Aloft(w) = Aloft(m), m.st # "gone", w.st # "gone", w.step # "offering",
           DOMAIN w.units = DOMAIN m.units,
           \A u \in DOMAIN m.units :
               /\ w.units[u].nft = m.units[u].nft
               /\ \/ w.units[u].st = m.units[u].st
                  \/ m.units[u].st = "minted" /\ w.units[u].st = "offered",
           w.st \in Terminal \/ (m.st \notin Terminal /\ m.step # "admitting")
    PROVE  Tracks(j, w, b)
<1>1. Pending(w) = Pending(m)
    BY DEF Pending
<1>2. Accounted(j, w, b)
    <2>1. Accounted(j, m, b)
        BY DEF Tracks
    <2> QED
        BY <2>1 DEF Accounted
<1> QED
    BY <1>1, <1>2 DEF Tracks, OnTheWay, FlagIsTrue, Backed

LEMMA OfferStays ==
    ASSUME Known, NEW j \in Claimant, Offer(j)
    PROVE  Stays
<1>1. UNCHANGED <<store, indexed, minted, flying, lost, credits>>
    BY OfferIs
<1>2. PICK offered \in BOOLEAN, wrote \in BOOLEAN :
        Onward(j, IF offered THEN RowSet(j, "offered") ELSE mem[j], wrote)
    BY OfferIs
<1>3. /\ mem[j].cur \in DOMAIN mem[j].units /\ mem[j].units[mem[j].cur].st = "minted"
      /\ mem[j].st = "fulfilling" /\ mem[j].step \in {"unit", "offering"}
    BY OfferFrom DEF Known
<1> DEFINE m == IF offered THEN RowSet(j, "offered") ELSE mem[j]
           w == OnwardFrom(m)
<1>4. /\ m \in Memory /\ m.st = "fulfilling" /\ DOMAIN m.units = DOMAIN mem[j].units
      /\ \A u \in DOMAIN mem[j].units :
            /\ m.units[u].nft = mem[j].units[u].nft
            /\ \/ m.units[u].st = mem[j].units[u].st
               \/ mem[j].units[u].st = "minted" /\ m.units[u].st = "offered"
    <2>1. CASE ~offered
        BY <1>3, <2>1, AtWork DEF Known
    <2>2. CASE offered
        <3> DEFINE v == RowSet(j, "offered")
        <3>1. /\ v \in Memory /\ v.st = mem[j].st /\ v.cur = mem[j].cur
              /\ DOMAIN v.units = DOMAIN mem[j].units
              /\ v.units[v.cur].st = "offered" /\ v.units[v.cur].nft = mem[j].units[v.cur].nft
              /\ \A u \in DOMAIN mem[j].units : u # v.cur => v.units[u] = mem[j].units[u]
            BY <1>3, RowSetIs DEF Known
        <3>2. m = v
            BY <2>2
        <3> HIDE DEF m, v
        <3>3. ASSUME NEW u \in DOMAIN mem[j].units
              PROVE  /\ m.units[u].nft = mem[j].units[u].nft
                     /\ \/ m.units[u].st = mem[j].units[u].st
                        \/ mem[j].units[u].st = "minted" /\ m.units[u].st = "offered"
            BY <1>3, <3>1, <3>2
        <3> QED
            BY <1>3, <3>1, <3>2, <3>3
    <2> QED
        BY <2>1, <2>2
<1>5. w \in Memory /\ w.units = m.units /\ w.step = "unit" /\ w.st = "fulfilling"
    <2> HIDE DEF m
    <2> QED BY <1>4, OnwardIs
<1>6. Persist(j, w, wrote)
    BY <1>2 DEF Onward, OnwardFrom
<1> HIDE DEF m, w
<1>7. Aloft(w) = Aloft(mem[j])
    BY <1>3, <1>5 DEF Aloft
<1>8. \A k \in Claimant : Books(k)' = Books(k)
    BY <1>1, SameBooks
<1>9. Tracks(j, mem[j], Books(j))
    BY DEF Known, Tracked
<1>10. mem[j].st \notin Terminal /\ mem[j].step # "admitting" /\ mem[j].st # "gone"
    BY <1>3 DEF Terminal
<1>11. Tracks(j, w, Books(j))
    BY <1>4, <1>5, <1>7, <1>9, <1>10, OfferedTracks
<1>12. \A k \in Claimant : Tracked(k)'
    BY <1>5, <1>6, <1>8, <1>11, PersistTracked
<1> QED
    BY <1>1, <1>12 DEF Stays, hvars

LEMMA EndSessionStays ==
    ASSUME Known, NEW j \in Claimant, EndSession(j)
    PROVE  Stays
<1> DEFINE t == mem[j].units[1].nft
           b == Books(j)
           a == Books(j)'
<1>1. /\ j \in Single /\ mem[j].step = "offering"
      /\ UNCHANGED <<indexed, minted, flying, lost, credits>>
    BY EndSessionIs
<1>2. PICK offered \in BOOLEAN, retired \in BOOLEAN :
        /\ IF mem[j].holds /\ retired THEN Retire(t) ELSE UNCHANGED store
        /\ InMemory(j, [mem[j] EXCEPT !.step = "ended", !.holds = @ /\ ~retired,
                                      !.st = IF offered THEN "offer_ready" ELSE "failed"])
    BY EndSessionIs
<1> DEFINE w == [mem[j] EXCEPT !.step = "ended", !.holds = @ /\ ~retired,
                               !.st = IF offered THEN "offer_ready" ELSE "failed"]
<1>3. w.units = mem[j].units /\ w.step = "ended" /\ w.st \in {"offer_ready", "failed"}
    BY AtWork DEF Known, Memory
<1>4. InMemory(j, w)
    BY <1>2
<1> HIDE DEF w
<1>5. /\ Tracks(j, mem[j], b) /\ Orderly /\ Kept /\ mem[j].st = "fulfilling"
    BY <1>1, AtWork DEF Known, Tracked, InOrder
<1>6. t \in minted /\ t \in Token /\ t[1] = j
    <2>1. mem[j].cur = 1 /\ mem[j].cur \in DOMAIN mem[j].units /\ mem[j].units[mem[j].cur].st = "minted"
        BY <1>1, <1>5, AtWork, OneUnit DEF InOrder
    <2>2. 1 \in DOMAIN mem[j].units /\ mem[j].units[1].st = "minted"
        BY <2>1
    <2>3. TrueRows(j, mem[j].units, minted, credits)
        BY <1>5, AtWork
    <2>4. t \in minted /\ t[1] = j
        BY <2>2, <2>3 DEF TrueRows
    <2> QED
        BY <1>5, <2>4 DEF Orderly, Typed, HeadroomTypeOK
<1>7. mem[j].holds => t \notin handed
    <2>1. mem[j].holds => t \notin b.told
        BY <1>1, <1>5 DEF Tracks, FlagIsTrue
    <2> QED
        BY <1>6, <2>1 DEF Books
<1>8. Retire(t) \/ UNCHANGED store
    BY <1>2
<1>9. [HeadroomNext]_hvars
    <2>1. CASE mem[j].holds /\ retired
        <3>1. RetireStep(t)
            BY <1>1, <1>2, <1>6, <1>7, <2>1 DEF RetireStep
        <3> QED
            BY <1>6, <3>1 DEF HeadroomNext
    <2>2. CASE ~(mem[j].holds /\ retired)
        BY <1>1, <1>2, <2>2 DEF hvars
    <2> QED
        BY <2>1, <2>2
<1>10. \A k \in Claimant \ {j} : Books(k)' = Books(k)
    <2>1. UNCHANGED store \/ \E s \in Token : s[1] = j /\ Retire(s)
        BY <1>6, <1>8
    <2> QED
        BY <1>1, <1>5, <2>1, OtherBooks
<1>11. a.made = b.made /\ a.sent = b.sent /\ a.owed = b.owed
    BY <1>1 DEF Books, Tokens
<1> HIDE DEF a, b
<1>12. Aloft(w) = {} /\ Aloft(mem[j]) = {}
    BY <1>1, <1>3 DEF Aloft
<1>13. w.st \in Terminal /\ w.st # "gone" /\ w.step # "offering"
    BY <1>3 DEF Terminal
<1>14. Tracks(j, w, a)
    <2>1. Accounted(j, mem[j], b) /\ OnTheWay(mem[j], b)
        BY <1>5 DEF Tracks
    <2>2. Accounted(j, w, a)
        BY <1>3, <1>11, <1>12, <2>1 DEF Accounted
    <2>3. OnTheWay(w, a)
        BY <1>11, <1>12, <2>1 DEF OnTheWay
    <2> QED
        BY <1>13, <2>2, <2>3 DEF Tracks, FlagIsTrue, Backed
<1>15. Tracks(j, w, Books(j)')
    BY <1>14 DEF a
<1>16. \A k \in Claimant : Tracked(k)'
    BY <1>1, <1>4, <1>10, <1>15, InMemoryTracked
<1> QED
    BY <1>9, <1>16 DEF Stays

LEMMA CreditStays ==
    ASSUME Known, NEW j \in Claimant, Credit(j)
    PROVE  Stays
<1> DEFINE c == mem[j].cur
           b == Books(j)
           a == Books(j)'
           rest == b.made \ b.told
           P == Pending(mem[j])
<1>1. /\ AtUnit(j, "pending") /\ j \in Bulk /\ UNCHANGED <<indexed, minted, flying, lost>>
    BY CreditIs, KindOf
<1>2. /\ mem[j].step = "unit" /\ mem[j].st = "fulfilling" /\ c \in DOMAIN mem[j].units
      /\ c \in Wanted[j] /\ mem[j].units[c].st = "pending" /\ mem[j].units[c].nft = NoToken
      /\ mem[j] \in Memory /\ DOMAIN mem[j].units \subseteq Wanted[j] /\ Orderly /\ Kept
    <2>1. /\ mem[j].step = "unit" /\ mem[j].st = "fulfilling" /\ c \in DOMAIN mem[j].units
          /\ c \in Wanted[j] /\ mem[j].units[c].st = "pending"
        BY <1>1, AtUnitIs DEF Known
    <2>2. /\ TrueRows(j, mem[j].units, minted, credits) /\ mem[j] \in Memory
          /\ DOMAIN mem[j].units \subseteq Wanted[j] /\ Orderly /\ Kept
        BY AtWork DEF Known
    <2> HIDE DEF c
    <2> QED
        BY <2>1, <2>2 DEF TrueRows
<1>3. /\ Tracks(j, mem[j], b) /\ Aloft(mem[j]) = {} /\ b.held = Held(j) /\ Held(j) \in Nat
      /\ b.made \subseteq Token /\ Unhanded(j) = rest /\ Cardinality(rest) \in Nat
      /\ \A u \in Wanted[j] : b.owed[u] = credits[<<j, u>>]
    <2>1. /\ b.held = Held(j) /\ Held(j) \in Nat
          /\ b.made \subseteq Token /\ Unhanded(j) = rest /\ Cardinality(rest) \in Nat
          /\ \A u \in Wanted[j] : b.owed[u] = credits[<<j, u>>]
        BY <1>2, BooksAre
    <2>2. Tracks(j, mem[j], b) /\ Aloft(mem[j]) = {}
        BY <1>2 DEF Known, Tracked, Aloft
    <2> QED
        BY <2>1, <2>2
<1>4. IsFiniteSet(P) /\ Cardinality(P) \in Nat /\ c \in P /\ Cardinality(P) # 0
    <2>1. P \in SUBSET Wanted[j] /\ c \in P
        BY <1>2 DEF Pending
    <2>2. IsFiniteSet(Wanted[j])
        BY HeadroomAssumption
    <2> HIDE DEF P
    <2>3. IsFiniteSet(P) /\ Cardinality(P) \in Nat
        BY <2>1, <2>2, FS_Subset, FS_CardinalityType
    <2>4. Cardinality(P) # 0
        BY <2>1, <2>3, FS_EmptySet
    <2> QED
        BY <2>1, <2>3, <2>4
<1>5. Cardinality(rest) + Cardinality(P) <= b.held
    <2>1. rest \ Aloft(mem[j]) = rest
        BY <1>3
    <2>2. Cardinality(rest \ Aloft(mem[j])) + Cardinality(P) <= b.held
        BY <1>2, <1>3 DEF Tracks, Backed, Terminal
    <2> QED
        BY <2>1, <2>2
<1>6. ASSUME NEW wrote \in BOOLEAN, UNCHANGED <<credits, store>>, Onward(j, mem[j], wrote)
      PROVE  Stays
    <2> DEFINE w == OnwardFrom(mem[j])
    <2>1. w \in Memory /\ w.units = mem[j].units /\ w.step = "unit" /\ w.st = "fulfilling"
        BY <1>2, OnwardIs
    <2>2. Persist(j, w, wrote)
        BY <1>6 DEF Onward, OnwardFrom
    <2> HIDE DEF w
    <2>3. Aloft(w) = Aloft(mem[j])
        BY <1>3, <2>1 DEF Aloft
    <2> QED
        BY <1>1, <1>2, <1>6, <2>1, <2>2, <2>3, QuietPersist DEF Terminal
<1>7. ASSUME NEW wrote \in BOOLEAN, credits' = [credits EXCEPT ![<<j, mem[j].cur>>] = @ + 1],
             ReleaseOne(j), Onward(j, RowSet(j, "failed"), wrote)
      PROVE  Stays
    <2> DEFINE m == RowSet(j, "failed")
               w == OnwardFrom(m)
    <2>1. /\ m \in Memory /\ m.st = "fulfilling" /\ DOMAIN m.units = DOMAIN mem[j].units
          /\ m.units[c].st = "failed" /\ m.units[c].nft = NoToken
          /\ \A u \in DOMAIN mem[j].units : u # c => m.units[u] = mem[j].units[u]
        BY <1>2, RowSetIs DEF Known
    <2>2. w \in Memory /\ w.units = m.units /\ w.step = "unit" /\ w.st = "fulfilling"
        <3> HIDE DEF m
        <3> QED BY <2>1, OnwardIs
    <2>3. Persist(j, w, wrote)
        BY <1>7 DEF Onward, OnwardFrom
    <2> HIDE DEF m, w
    <2>4. <<j, c>> \in CreditKeys /\ credits \in [CreditKeys -> Nat]
          /\ \A k \in Claimant : \A u \in Wanted[k] : <<k, u>> \in CreditKeys
        BY <1>2 DEF CreditKeys, Orderly, Typed
    <2>5. credits'[<<j, c>>] = credits[<<j, c>>] + 1
          /\ \A x \in CreditKeys : x # <<j, c>> => credits'[x] = credits[x]
        BY <1>7, <2>4
    <2>6. \A k \in Claimant \ {j} : \A u \in Wanted[k] : credits'[<<k, u>>] = credits[<<k, u>>]
        BY <2>4, <2>5
    <2>7. \A k \in Claimant \ {j} : Books(k)' = Books(k)
        BY <1>1, <1>2, <1>7, <2>6, OtherBooks
    <2>8. [HeadroomNext]_hvars
        <3>1. Cardinality(Unhanded(j)) < Held(j)
            <4> HIDE DEF rest, P
            <4> QED BY <1>3, <1>4, <1>5
        <3>2. ReleaseOneStep(j)
            BY <1>1, <1>7, <3>1 DEF ReleaseOneStep
        <3> QED
            BY <3>2 DEF HeadroomNext
    <2>9. /\ a.made = b.made /\ a.sent = b.sent /\ a.told = b.told
          /\ \A u \in Wanted[j] : a.owed[u] = IF u = c THEN b.owed[u] + 1 ELSE b.owed[u]
        <3>1. a.made = b.made /\ a.sent = b.sent /\ a.told = b.told
            BY <1>1, <1>7 DEF Books, Tokens, ReleaseOne
        <3>2. ASSUME NEW u \in Wanted[j]
              PROVE  a.owed[u] = IF u = c THEN b.owed[u] + 1 ELSE b.owed[u]
            <4>1. a.owed[u] = credits'[<<j, u>>]
                BY DEF Books
            <4> HIDE DEF a
            <4> QED
                BY <1>3, <2>4, <2>5, <4>1
        <3> QED
            BY <3>1, <3>2
    <2>10. a.held \in Nat /\ a.held + 1 >= b.held
        <3>1. a.held = Held(j)'
            BY DEF Books
        <3>2. Held(j)' = Held(j) \/ (Held(j)' = Held(j) - 1 /\ HeldBy(j) # {})
            BY <1>2, <1>7, DropSlotCosts DEF ReleaseOne, Kept, Held, HeldBy
        <3>3. HeldBy(j) # {} => Held(j) # 0
            BY <1>2, PlainIs, HeldIs, FS_EmptySet DEF Held
        <3> HIDE DEF a
        <3> QED
            BY <1>3, <3>1, <3>2, <3>3
    <2>11. Pending(w) = P \ {c} /\ Cardinality(Pending(w)) = Cardinality(P) - 1
        <3>1. Pending(w) = P \ {c}
            BY <1>2, <2>1, <2>2 DEF Pending
        <3> HIDE DEF P, c
        <3>2. Cardinality(P \ {c}) = Cardinality(P) - 1
            BY <1>4, FS_RemoveElement
        <3> QED
            BY <3>1, <3>2
    <2>12. Aloft(w) = {}
        BY <2>2 DEF Aloft
    <2> HIDE DEF a, b, P
    <2>13. Accounted(j, mem[j], b) /\ OnTheWay(mem[j], b)
        BY <1>2, <1>3 DEF Tracks
    <2>14. Accounted(j, w, a)
        <3>1. ASSUME NEW x \in a.made PROVE x[2] \in DOMAIN w.units /\ w.units[x[2]].nft = x
            <4>1. x[2] \in DOMAIN mem[j].units /\ mem[j].units[x[2]].nft = x
                BY <1>3, <2>9, <2>13, <3>1 DEF Accounted
            <4>2. x # NoToken
                BY <1>3, <2>9, <3>1, TokenIs
            <4> QED
                BY <1>2, <2>1, <2>2, <4>1, <4>2
        <3>2. ASSUME NEW u \in Wanted[j]
              PROVE  \/ a.owed[u] = 0
                     \/ a.owed[u] = 1 /\ u \in DOMAIN w.units /\ w.units[u].st = "failed"
            <4>1. CASE u = c
                <5>1. b.owed[u] = 0
                    BY <1>2, <2>13, <4>1 DEF Accounted
                <5>2. a.owed[u] = 1
                    BY <2>9, <4>1, <5>1
                <5> QED
                    BY <1>2, <2>1, <2>2, <4>1, <5>2
            <4>2. CASE u # c
                BY <2>1, <2>2, <2>9, <2>13, <4>2 DEF Accounted
            <4> QED
                BY <4>1, <4>2
        <3> QED
            BY <3>1, <3>2 DEF Accounted
    <2>15. OnTheWay(w, a)
        BY <1>3, <2>9, <2>12, <2>13 DEF OnTheWay
    <2>16. Backed(w, a)
        <3>1. (a.made \ a.told) \ Aloft(w) = rest
            BY <2>9, <2>12
        <3>2. Cardinality(rest) + Cardinality(Pending(w)) <= a.held
            <4> HIDE DEF rest
            <4> QED BY <1>3, <1>4, <1>5, <2>10, <2>11
        <3> QED
            BY <3>1, <3>2 DEF Backed
    <2>17. Tracks(j, w, Books(j)')
        BY <2>2, <2>14, <2>15, <2>16 DEF Tracks, FlagIsTrue, a
    <2>18. \A k \in Claimant : Tracked(k)'
        BY <2>2, <2>3, <2>7, <2>17, PersistTracked
    <2> QED
        BY <2>8, <2>18 DEF Stays
<1> QED
    BY <1>6, <1>7, CreditIs

\* Without a mint under way, a session knows every token made for it.
LEMMA TokensAreKnown ==
    ASSUME Known, NEW j \in Claimant, mem[j].step # "flying", mem[j].st # "gone"
    PROVE  Tokens(j) \subseteq Minted(mem[j])
<1>1. Accounted(j, mem[j], Books(j)) /\ Aloft(mem[j]) = {} /\ Orderly /\ Kept
    BY DEF Known, Tracked, Tracks, Aloft
<1>2. Books(j).made = Tokens(j) /\ Tokens(j) \subseteq Token
    BY <1>1, BooksAre
<1>3. ASSUME NEW t \in Tokens(j) PROVE t \in Minted(mem[j])
    <2>1. t[2] \in DOMAIN mem[j].units /\ mem[j].units[t[2]].nft = t
        BY <1>1, <1>2, <1>3 DEF Accounted
    <2>2. t # NoToken
        BY <1>2, TokenIs
    <2> QED
        BY <2>1, <2>2 DEF Minted
<1> QED
    BY <1>3

\* The end of a job: what it had left is given back only when every token was
\* handed over, or else it has lost track.
LEMMA FinishStays ==
    ASSUME Known, NEW j \in Claimant, Finish(j)
    PROVE  Stays
<1> DEFINE b == Books(j)
           a == Books(j)'
<1>1. /\ j \in Bulk /\ mem[j].step = "unit" /\ mem[j].st = "fulfilling"
      /\ UNCHANGED <<indexed, minted, flying, credits>> /\ lost \in BOOLEAN /\ ~lost
      /\ Orderly /\ Kept /\ mem[j] \in Memory /\ Tracks(j, mem[j], b)
    <2>1. j \in Bulk /\ mem[j].step = "unit" /\ UNCHANGED <<indexed, minted, flying, credits>>
        BY FinishIs
    <2>2. lost \in BOOLEAN /\ ~lost /\ Orderly /\ Kept /\ Tracks(j, mem[j], b)
        BY PlainIs DEF Known, Tracked
    <2>3. mem[j] \in Memory /\ mem[j].st = "fulfilling"
        BY <2>1, <2>2, AtWork DEF InOrder
    <2> QED
        BY <2>1, <2>2, <2>3
<1>2. PICK m \in {mem[j], Reoffered(mem[j])}, done \in BOOLEAN, gave \in BOOLEAN, wrote \in BOOLEAN :
        /\ done => Settled(m)
        /\ IF done THEN GiveBack(j, gave) ELSE UNCHANGED store
        /\ lost' = (lost \/ (done /\ gave /\ HandoverMissed(j)))
        /\ Persist(j, Ended(m, done /\ wrote), wrote)
    BY <1>1, FinishFrom
<1> DEFINE w == Ended(m, done /\ wrote)
<1>3. /\ m \in Memory /\ m.st = "fulfilling" /\ DOMAIN m.units = DOMAIN mem[j].units
      /\ \A u \in DOMAIN mem[j].units :
            /\ m.units[u].nft = mem[j].units[u].nft
            /\ \/ m.units[u].st = mem[j].units[u].st
               \/ mem[j].units[u].st = "minted" /\ m.units[u].st = "offered"
    <2>1. CASE m = mem[j]
        BY <1>1, <2>1
    <2>2. CASE m = Reoffered(mem[j])
        BY <1>1, <2>2, ReofferedIs
    <2> QED
        BY <2>1, <2>2
<1>4. /\ w \in Memory /\ w.units = m.units /\ w.step = "ended"
      /\ w.st = (IF done /\ wrote THEN "done" ELSE "fulfilling")
    BY <1>3, EndedIs
<1>5. Persist(j, w, wrote)
    BY <1>2
<1> HIDE DEF w
<1>6. Aloft(w) = {} /\ Aloft(mem[j]) = {}
    BY <1>1, <1>4 DEF Aloft
<1>7. Tracks(j, w, b)
    <2>1. mem[j].st \notin Terminal /\ mem[j].step # "admitting" /\ mem[j].st # "gone"
          /\ w.st # "gone"
        BY <1>1, <1>4 DEF Terminal
    <2> QED
        BY <1>1, <1>3, <1>4, <1>6, <2>1, OfferedTracks, ZenonT(40)
<1>8. CASE lost'
    BY <1>8 DEF Stays, HeadroomNext, LoseTrack
<1>9. CASE ~lost' /\ UNCHANGED store
    <2>1. \A k \in Claimant : Books(k)' = Books(k)
        BY <1>1, <1>9, SameBooks
    <2>2. \A k \in Claimant : Tracked(k)'
        BY <1>4, <1>5, <1>7, <2>1, PersistTracked
    <2>3. lost' = lost
        BY <1>1, <1>2, <1>9
    <2> QED
        BY <1>1, <1>9, <2>2, <2>3 DEF Stays, hvars
<1>10. CASE ~lost' /\ done /\ gave
    <2>1. Release(j) /\ ~HandoverMissed(j)
        BY <1>2, <1>10 DEF GiveBack
    <2>2. Unhanded(j) = {} /\ b.made \ b.told = {}
        <3>1. Tokens(j) \subseteq Minted(mem[j])
            BY <1>1, TokensAreKnown
        <3>2. Minted(mem[j]) \subseteq handed
            BY <2>1 DEF HandoverMissed
        <3>3. Unhanded(j) = Tokens(j) \ b.told /\ b.made = Tokens(j) /\ b.told = {t \in handed : t[1] = j}
            BY <1>1, BooksAre
        <3> HIDE DEF b
        <3> QED
            BY <3>1, <3>2, <3>3 DEF Tokens
    <2>3. lost' = lost
        BY <1>1, <1>2, <1>10
    <2>4. [HeadroomNext]_hvars
        BY <1>1, <2>1, <2>2, <2>3 DEF HeadroomNext, ReleaseStep
    <2>5. \A k \in Claimant \ {j} : Books(k)' = Books(k)
        BY <1>1, <2>1, OtherBooks
    <2>6. /\ a.made = b.made /\ a.sent = b.sent /\ a.told = b.told /\ a.owed = b.owed /\ a.held = 0
        <3>1. HeldBy(j)' = {}
            BY <2>1 DEF Release, HeldBy
        <3>2. Held(j)' = 0
            BY <3>1, FS_EmptySet DEF Held
        <3> QED
            BY <1>1, <2>1, <3>2 DEF Books, Tokens, Release
    <2> HIDE DEF a, b
    <2>7. Backed(w, a)
        <3>1. (a.made \ a.told) \ Aloft(w) = {} /\ Pending(w) = {}
            BY <1>2, <1>4, <1>10, <2>2, <2>6 DEF Pending, Settled
        <3>2. Cardinality({}) = 0
            BY FS_EmptySet
        <3> QED
            BY <2>6, <3>1, <3>2 DEF Backed
    <2>8. Tracks(j, w, a)
        BY <1>4, <1>7, <2>6, <2>7 DEF Tracks, OnTheWay, Accounted, Closed, FlagIsTrue
    <2>9. Tracks(j, w, Books(j)')
        BY <2>8 DEF a
    <2>10. \A k \in Claimant : Tracked(k)'
        BY <1>4, <1>5, <2>5, <2>9, PersistTracked
    <2> QED
        BY <2>4, <2>10 DEF Stays
<1> QED
    BY <1>2, <1>8, <1>9, <1>10 DEF GiveBack

-----------------------------------------------------------------------------
(* The ledger, and what a unit comes to.                                   *)

LEMMA OneAtMost ==
    ASSUME NEW S, NEW x, S \subseteq {x}
    PROVE  Cardinality(S) \in Nat /\ Cardinality(S) <= 1
<1>1. Cardinality({}) = 0 /\ Cardinality({x}) = 1
    BY FS_EmptySet, FS_Singleton
<1>2. CASE S = {}
    BY <1>1, <1>2
<1>3. CASE S = {x}
    BY <1>1, <1>3
<1> QED
    BY <1>2, <1>3

\* A unit is one token or one credit, or nothing yet.
LEMMA SettledAt ==
    ASSUME Known, NEW j \in Claimant, NEW u \in Wanted[j]
    PROVE  Cardinality(ForUnit(Tokens(j), u)) + credits[<<j, u>>] <= 1
<1> DEFINE m == mem[j]
           b == Books(j)
           F == ForUnit(Tokens(j), u)
           n == credits[<<j, u>>]
<1>1. /\ Orderly /\ Kept /\ Tracks(j, m, b)
      /\ b.made = Tokens(j) /\ b.owed[u] = n /\ n \in Nat /\ Tokens(j) \subseteq Token
    <2>1. Orderly /\ Kept /\ Tracks(j, m, b)
        BY DEF Known, Tracked
    <2> QED
        BY <2>1, BooksAre
<1>2. InOrder(j, m) /\ TrueRows(j, m.units, minted, credits)
    BY <1>1, AtWork
<1>3. CASE m.st = "gone"
    BY <1>1, <1>3 DEF Tracks, Closed
<1>4. CASE m.st # "gone"
    <2>1. Accounted(j, m, b)
        BY <1>1, <1>4 DEF Tracks
    <2>2. n = 0 \/ (n = 1 /\ u \in DOMAIN m.units /\ m.units[u].st = "failed")
        BY <1>1, <2>1 DEF Accounted
    <2>3. ASSUME NEW t \in F
          PROVE  /\ t \in Token /\ t[2] = u
                 /\ (m.step = "flying" /\ t = m.tok) \/ (u \in DOMAIN m.units /\ m.units[u].nft = t)
        BY <1>1, <2>1 DEF ForUnit, Accounted, Aloft
    <2>4. CASE m.step = "flying" /\ m.tok[2] = u
        <3>1. m.units[u].st = "pending" /\ m.units[u].nft = NoToken
            BY <1>2, <2>4 DEF InOrder, TrueRows
        <3>2. F \subseteq {m.tok}
            BY <2>3, <3>1, TokenIs
        <3> HIDE DEF F
        <3>3. n = 0
            BY <2>2, <3>1
        <3> HIDE DEF n
        <3>4. Cardinality(F) \in Nat /\ Cardinality(F) <= 1
            BY <3>2, OneAtMost
        <3> QED
            BY <3>3, <3>4 DEF F, n
    <2>5. CASE ~(m.step = "flying" /\ m.tok[2] = u)
        <3>1. \A t \in F : m.units[u].nft = t /\ u \in DOMAIN m.units /\ t \in Token
            BY <2>3, <2>5
        <3>2. F \subseteq {m.units[u].nft}
            BY <3>1
        <3>3. n = 1 => F = {}
            <4>1. n = 1 => m.units[u].nft = NoToken
                BY <1>2, <2>2 DEF TrueRows
            <4> HIDE DEF F, n
            <4> QED
                BY <3>1, <4>1, TokenIs
        <3> HIDE DEF F
        <3>4. Cardinality(F) \in Nat /\ Cardinality(F) <= 1 /\ (n = 1 => Cardinality(F) = 0)
            BY <3>2, <3>3, OneAtMost, FS_EmptySet
        <3> HIDE DEF n
        <3>5. n = 0 \/ n = 1
            BY <2>2
        <3> QED
            BY <3>4, <3>5 DEF F, n
    <2> QED
        BY <2>4, <2>5
<1> QED
    BY <1>3, <1>4

\* A mint is for a unit that is still pending, and so has a slot.
LEMMA LandStays ==
    ASSUME Known, NEW t \in Token, Land(t)
    PROVE  Stays
<1> DEFINE j == t[1]
           m == mem[j]
           b == Books(j)
           a == Books(j)'
           P == Pending(m)
           rest == b.made \ b.told
<1>1. /\ t \in flying /\ t \notin minted /\ minted' = minted \cup {t} /\ flying' = flying \ {t}
      /\ UNCHANGED <<store, indexed, lost, mem, disk, credits>> /\ Mint(t)
    BY DEF Land, Mint
<1>2. j \in Claimant /\ Owner[t] = j
    BY TokenIs
<1> HIDE DEF j
<1>3. /\ Orderly /\ Kept /\ Tracks(j, m, b)
      /\ b.made = Tokens(j) /\ b.sent = {s \in flying : s[1] = j} /\ b.held = Held(j)
      /\ Held(j) \in Nat /\ Unhanded(j) = rest /\ Cardinality(rest) \in Nat
    <2>1. Orderly /\ Kept /\ Tracks(j, m, b)
        BY <1>2 DEF Known, Tracked
    <2> QED
        BY <1>2, <2>1, BooksAre
<1>4. Aloft(m) = {t} /\ m.step = "flying"
    <2>1. t \in b.sent /\ b.sent \subseteq Aloft(m)
        BY <1>1, <1>3 DEF Tracks, OnTheWay, j
    <2> HIDE DEF b, m
    <2> QED
        BY <2>1 DEF Aloft
<1>5. /\ m.st = "fulfilling" /\ m.cur \in DOMAIN m.units /\ m.units[m.cur].st = "pending"
      /\ DOMAIN m.units \subseteq Wanted[j]
    <2>1. InOrder(j, m) /\ DOMAIN m.units \subseteq Wanted[j]
        BY <1>2, <1>3, AtWork
    <2> QED
        BY <1>4, <2>1 DEF InOrder
<1>6. /\ a.made = b.made \cup {t} /\ a.sent = b.sent \ {t} /\ a.told = b.told
      /\ a.owed = b.owed /\ a.held = b.held
    <2>1. a.made = b.made \cup {t} /\ a.sent = b.sent \ {t}
        BY <1>1 DEF Books, Tokens, j
    <2>2. a.told = b.told /\ a.owed = b.owed /\ a.held = b.held
        BY <1>1 DEF Books, Held, HeldBy, store
    <2> QED
        BY <2>1, <2>2
<1>7. t \notin b.made
    BY <1>1, <1>3 DEF Tokens
<1> HIDE DEF a
<1>8. Cardinality(rest) < Held(j)
    <2>1. P \in SUBSET Wanted[j] /\ m.cur \in P
        BY <1>5 DEF Pending
    <2>2. IsFiniteSet(Wanted[j])
        BY <1>2, HeadroomAssumption
    <2> HIDE DEF P
    <2>3. IsFiniteSet(P) /\ Cardinality(P) \in Nat
        BY <2>1, <2>2, FS_Subset, FS_CardinalityType
    <2>4. Cardinality(P) # 0
        BY <2>1, <2>3, FS_EmptySet
    <2>5. rest \ Aloft(m) = rest
        BY <1>4, <1>7
    <2>6. Cardinality(rest \ Aloft(m)) + Cardinality(P) <= b.held
        BY <1>3, <1>5, <1>4 DEF Tracks, Backed, Terminal, P
    <2>7. b.held = Held(j) /\ Held(j) \in Nat /\ Cardinality(rest) \in Nat
        BY <1>3
    <2> HIDE DEF rest, b, m
    <2>8. Cardinality(rest) + Cardinality(P) <= Held(j)
        BY <2>5, <2>6, <2>7
    <2> QED
        BY <2>3, <2>4, <2>7, <2>8
<1>9. [HeadroomNext]_hvars
    <2>1. MintStep(t)
        BY <1>1, <1>2, <1>3, <1>8 DEF MintStep
    <2> QED
        BY <2>1 DEF HeadroomNext
<1>10. Tracks(j, m, a)
    <2>1. OnTheWay(m, a)
        BY <1>3, <1>4, <1>6 DEF Tracks, OnTheWay
    <2>2. Accounted(j, m, a)
        BY <1>3, <1>4, <1>5, <1>6 DEF Tracks, Accounted
    <2>3. (a.made \ a.told) \ Aloft(m) = (b.made \ b.told) \ Aloft(m)
        BY <1>4, <1>6
    <2>4. Backed(m, a)
        BY <1>3, <1>6, <2>3 DEF Tracks, Backed
    <2> QED
        BY <1>4, <1>5, <2>1, <2>2, <2>4 DEF Tracks, FlagIsTrue
<1>11. \A k \in Claimant \ {j} : Books(k)' = Books(k)
    <2> TAKE k \in Claimant \ {j}
    <2>1. Tokens(k)' = Tokens(k) /\ {s \in flying' : s[1] = k} = {s \in flying : s[1] = k}
        BY <1>1 DEF Tokens, j
    <2>2. Held(k)' = Held(k)
        BY <1>1 DEF Held, HeldBy, store
    <2> QED
        BY <1>1, <2>1, <2>2 DEF Books, store
<1>12. ASSUME NEW k \in Claimant PROVE Tracked(k)'
    <2>1. mem'[k] = mem[k] /\ disk'[k] = disk[k] /\ Tracked(k)
        BY <1>1 DEF Known
    <2>2. CASE k = j
        BY <1>10, <2>1, <2>2 DEF Tracked, a
    <2>3. CASE k # j
        BY <1>11, <2>1, <2>3 DEF Tracked
    <2> QED
        BY <2>2, <2>3
<1> QED
    BY <1>9, <1>12 DEF Stays

LEMMA ExpireStays ==
    ASSUME Known, NEW t \in Token, Expire(t)
    PROVE  Stays
<1>1. flying' \subseteq flying /\ UNCHANGED <<hvars, store, minted, lost, mem, disk, credits>>
    BY DEF Expire, hvars
<1>2. ASSUME NEW k \in Claimant PROVE Tracked(k)'
    <2> DEFINE b == Books(k)
               a == Books(k)'
    <2>1. mem'[k] = mem[k] /\ disk'[k] = disk[k] /\ Tracked(k)
        BY <1>1 DEF Known
    <2>2. /\ a.made = b.made /\ a.sent \subseteq b.sent /\ a.told = b.told
          /\ a.owed = b.owed /\ a.held = b.held
        BY <1>1 DEF Books, Tokens, Held, HeldBy, store
    <2>3. Tracks(k, mem[k], b)
        BY <2>1 DEF Tracked
    <2> HIDE DEF a, b
    <2>4. Tracks(k, mem[k], a)
        BY <2>2, <2>3 DEF Tracks, OnTheWay, Accounted, Closed, FlagIsTrue, Backed
    <2> QED
        BY <2>1, <2>4 DEF Tracked, a
<1> QED
    BY <1>1, <1>2 DEF Stays

LEMMA ListenStays ==
    ASSUME Known, NEW t \in Token, Listen(t)
    PROVE  Stays
<1>1. UNCHANGED <<store, minted, lost, mem, disk, credits, flying>> /\ Index(t)
    BY DEF Listen, mvars
<1>2. \A k \in Claimant : Tracked(k)'
    BY <1>1, SameBooks DEF Known, Tracked
<1>3. IndexStep(t)
    BY <1>1 DEF IndexStep
<1> QED
    BY <1>2, <1>3 DEF Stays, HeadroomNext

-----------------------------------------------------------------------------
(* The restart, while it loses track of nothing.                           *)

\* What a session leaves behind: a record that says all, or nothing to say.
LEMMA LeftBehind ==
    ASSUME Known, NEW k \in Claimant, ~Unrecorded(k)
    PROVE  /\ Books(k).sent = {}
           /\ Survives(k) =>
                /\ k \in Bulk /\ disk[k] \in Records /\ disk[k].st \in Resumable
                /\ mem[k].step # "flying" /\ mem[k].st # "gone" /\ mem[k].st \notin Terminal
                /\ disk[k].units = mem[k].units /\ Tokens(k) \subseteq Minted(disk[k])
                /\ Cardinality(Unhanded(k)) + Cardinality(Pending(disk[k])) <= Held(k)
           /\ ~Survives(k) => Unhanded(k) = {}
<1> DEFINE m == mem[k]
           b == Books(k)
<1>1. /\ Orderly /\ Kept /\ Tracks(k, m, b) /\ (k \in Bulk => Current(m, disk[k]))
      /\ b.made = Tokens(k) /\ b.told = {t \in handed : t[1] = k} /\ b.held = Held(k)
      /\ Unhanded(k) = b.made \ b.told
    <2>1. Orderly /\ Kept /\ Tracks(k, m, b) /\ (k \in Bulk => Current(m, disk[k]))
        BY DEF Known, Tracked
    <2> QED
        BY <2>1, BooksAre
<1>2. Aloft(m) = {} /\ m.step # "flying"
    BY DEF Unrecorded, Aloft
<1>3. b.sent = {}
    BY <1>1, <1>2 DEF Tracks, OnTheWay
<1>4. ASSUME Survives(k)
      PROVE  /\ k \in Bulk /\ disk[k] \in Records /\ disk[k].st \in Resumable
             /\ m.st \notin Terminal /\ m.st # "gone" /\ disk[k].units = m.units
             /\ Tokens(k) \subseteq Minted(disk[k])
             /\ Cardinality(Unhanded(k)) + Cardinality(Pending(disk[k])) <= Held(k)
    <2>1. k \in Bulk /\ disk[k].st \in Resumable
        BY <1>4 DEF Survives
    <2>2. disk[k] \in Records
        BY <1>1, <2>1 DEF Orderly, Typed
    <2>3. m.st \notin Terminal /\ m.st # "gone" /\ ~m.stale
        BY <1>4, <2>1 DEF Unrecorded, Terminal
    <2>4. disk[k].units = m.units
        BY <1>1, <2>1, <2>3 DEF Current
    <2>5. Minted(disk[k]) = Minted(m) /\ Pending(disk[k]) = Pending(m)
        BY <2>4 DEF Minted, Pending
    <2>6. Tokens(k) \subseteq Minted(m)
        BY <1>2, <2>3, TokensAreKnown
    <2>7. m.step # "admitting"
        BY <1>1, <2>1, AtWork, KindOf DEF InOrder
    <2>8. Cardinality((b.made \ b.told) \ Aloft(m)) + Cardinality(Pending(m)) <= b.held
        BY <1>1, <2>3, <2>7 DEF Tracks, Backed
    <2>9. (b.made \ b.told) \ Aloft(m) = Unhanded(k)
        BY <1>1, <1>2
    <2> HIDE DEF m, b
    <2>10. Cardinality(Unhanded(k)) + Cardinality(Pending(disk[k])) <= Held(k)
        BY <1>1, <2>5, <2>8, <2>9
    <2> QED
        BY <2>1, <2>2, <2>3, <2>4, <2>5, <2>6, <2>10
<1>5. ASSUME ~Survives(k) PROVE Unhanded(k) = {}
    <2>1. CASE m.st = "gone"
        BY <1>1, <2>1 DEF Tracks, Closed
    <2>2. CASE m.st # "gone"
        <3>1. Tokens(k) \subseteq Minted(m) /\ Minted(m) \subseteq handed
            BY <1>2, <1>5, <2>2, TokensAreKnown DEF Unrecorded, HandoverMissed
        <3> QED
            BY <1>1, <3>1 DEF Tokens
    <2> QED
        BY <2>1, <2>2
<1> QED
    BY <1>2, <1>3, <1>4, <1>5

\* The slots and the recorded tokens of the survivors.
Survivors == {b \in Bulk : Survives(b)}
Keep      == UNION {SlotsFor(j, Cardinality(Pending(disk[j]))) : j \in Survivors}
Recorded  == UNION {Minted(disk[j]) : j \in Survivors}

LEMMA RebuiltFor ==
    ASSUME Known, NEW k \in Claimant, \A j \in Claimant : ~Unrecorded(j)
    PROVE  /\ {s \in Keep : s[1] = k} =
                IF Survives(k) THEN SlotsFor(k, Cardinality(Pending(disk[k]))) ELSE {}
           /\ {t \in Recorded : t[1] = k} = IF Survives(k) THEN Minted(disk[k]) ELSE {}
           /\ Survives(k) =>
                LET S == SlotsFor(k, Cardinality(Pending(disk[k]))) IN
                /\ S \subseteq HeldBy(k) /\ Cardinality(S) = Cardinality(Pending(disk[k]))
                /\ Minted(disk[k]) \subseteq minted
                /\ Cardinality(Pending(disk[k])) \in Nat
<1>1. Orderly /\ Kept /\ HeadroomTypeOK
    BY PlainIs DEF Known
<1>2. ASSUME NEW j \in Survivors
      PROVE  LET n == Cardinality(Pending(disk[j]))
                 S == SlotsFor(j, n) IN
             /\ j \in Claimant /\ Survives(j) /\ n \in Nat
             /\ S \subseteq {j} \X Wanted[j] /\ S \subseteq HeldBy(j) /\ Cardinality(S) = n
             /\ Minted(disk[j]) \subseteq minted /\ \A t \in Minted(disk[j]) : t[1] = j
    <2> DEFINE n == Cardinality(Pending(disk[j]))
               S == SlotsFor(j, n)
    <2>1. j \in Bulk /\ j \in Claimant /\ Survives(j)
        BY KindOf DEF Survivors
    <2>2. /\ n \in Nat /\ n <= Cardinality(Wanted[j])
          /\ Minted(disk[j]) \subseteq minted /\ \A t \in Minted(disk[j]) : t[1] = j
        BY <1>1, <2>1, RecordSizes
    <2>3. Cardinality(Unhanded(j)) + n <= Held(j)
        BY <2>1, LeftBehind
    <2>4. Cardinality(Unhanded(j)) \in Nat /\ Held(j) \in Nat
        BY <1>1, <2>1, BooksAre
    <2> HIDE DEF n
    <2>5. n <= Held(j)
        BY <2>2, <2>3, <2>4
    <2>6. S \subseteq {j} \X Wanted[j] /\ S \subseteq HeldBy(j) /\ Cardinality(S) = n
        BY <1>1, <2>1, <2>2, <2>5, SlotsForIs
    <2> HIDE DEF S
    <2>7. /\ j \in Claimant /\ Survives(j) /\ n \in Nat
          /\ S \subseteq {j} \X Wanted[j] /\ S \subseteq HeldBy(j) /\ Cardinality(S) = n
          /\ Minted(disk[j]) \subseteq minted /\ \A t \in Minted(disk[j]) : t[1] = j
        BY <2>1, <2>2, <2>6
    <2> QED
        BY <2>7 DEF n, S
<1>3. CASE Survives(k)
    <2> DEFINE S == SlotsFor(k, Cardinality(Pending(disk[k])))
    <2>1. k \in Survivors
        BY <1>3 DEF Survives, Survivors
    <2>2. {s \in Keep : s[1] = k} = S
        BY <1>2, <2>1 DEF Keep
    <2>3. {t \in Recorded : t[1] = k} = Minted(disk[k])
        BY <1>2, <2>1 DEF Recorded
    <2> QED
        BY <1>2, <1>3, <2>1, <2>2, <2>3
<1>4. CASE ~Survives(k)
    <2>1. k \notin Survivors
        BY <1>4 DEF Survivors
    <2>2. {s \in Keep : s[1] = k} = {}
        BY <1>2, <2>1 DEF Keep
    <2>3. {t \in Recorded : t[1] = k} = {}
        BY <1>2, <2>1 DEF Recorded
    <2> QED
        BY <1>4, <2>2, <2>3
<1> QED
    BY <1>3, <1>4

\* The rebuild keeps to what is asked of a restart.
LEMMA RebuildIsAsked ==
    ASSUME Known, \A j \in Claimant : ~Unrecorded(j), Rebuild(Keep, Recorded),
           UNCHANGED <<indexed, minted, lost>>
    PROVE  HeadroomNext
<1>1. Orderly /\ Kept /\ minted \subseteq Token /\ handed \subseteq minted
    BY PlainIs DEF Known, HeadroomTypeOK, Kept, Shape
<1>2. Keep \in SUBSET slots
    <2> SUFFICES ASSUME NEW j \in Survivors
                 PROVE  SlotsFor(j, Cardinality(Pending(disk[j]))) \subseteq slots
        BY DEF Keep
    <2>1. j \in Claimant /\ Survives(j)
        BY KindOf DEF Survivors
    <2> QED
        BY <2>1, RebuiltFor DEF HeldBy
<1>3. Recorded \in SUBSET minted
    <2> SUFFICES ASSUME NEW j \in Survivors PROVE Minted(disk[j]) \subseteq minted
        BY DEF Recorded
    <2>1. j \in Claimant /\ Survives(j)
        BY KindOf DEF Survivors
    <2> QED
        BY <2>1, RebuiltFor
<1>4. ASSUME NEW c \in Claimant
      PROVE  LET entered == {t \in Recorded \ handed : Owner[t] = c}
                 kept    == {s \in Keep : s[1] = c} IN
             /\ Cardinality(kept) + Cardinality(entered) <= Held(c)
             /\ Unhanded(c) \subseteq entered
    <2> DEFINE entered == {t \in Recorded \ handed : Owner[t] = c}
               kept == {s \in Keep : s[1] = c}
    <2>1. \A t \in Recorded : Owner[t] = t[1]
        BY <1>1, <1>3, TokenIs
    <2>2. entered = {t \in Recorded : t[1] = c} \ handed
        BY <2>1
    <2>3. /\ Held(c) \in Nat /\ Unhanded(c) = Tokens(c) \ Books(c).told
          /\ Books(c).told = {t \in handed : t[1] = c} /\ IsFiniteSet(Unhanded(c))
          /\ Cardinality(Unhanded(c)) \in Nat
        BY <1>1, BooksAre
    <2>4. CASE ~Survives(c)
        <3>1. kept = {} /\ entered = {} /\ Unhanded(c) = {}
            BY <2>2, <2>4, RebuiltFor, LeftBehind
        <3> HIDE DEF kept, entered
        <3>2. Cardinality(kept) = 0 /\ Cardinality(entered) = 0
            BY <3>1, FS_EmptySet
        <3>3. Cardinality(kept) + Cardinality(entered) <= Held(c)
            BY <2>3, <3>2
        <3> QED
            BY <3>1, <3>3 DEF kept, entered
    <2>5. CASE Survives(c)
        <3> DEFINE n == Cardinality(Pending(disk[c]))
        <3>1. /\ Cardinality(kept) = n /\ n \in Nat /\ entered = Minted(disk[c]) \ handed
              /\ Cardinality(Unhanded(c)) + n <= Held(c)
              /\ Tokens(c) \subseteq Minted(disk[c]) /\ Minted(disk[c]) \subseteq minted
              /\ \A t \in Minted(disk[c]) : t[1] = c
            <4>1. /\ Cardinality(kept) = n /\ n \in Nat /\ Minted(disk[c]) \subseteq minted
                  /\ {t \in Recorded : t[1] = c} = Minted(disk[c])
                BY <2>5, RebuiltFor
            <4>2. Cardinality(Unhanded(c)) + n <= Held(c) /\ Tokens(c) \subseteq Minted(disk[c])
                BY <2>5, LeftBehind
            <4> QED
                BY <2>2, <4>1, <4>2
        <3>2. entered = Unhanded(c)
            BY <2>3, <3>1 DEF Tokens
        <3> HIDE DEF kept, entered, n
        <3>3. Cardinality(entered) = Cardinality(Unhanded(c))
            BY <3>2
        <3>4. /\ Cardinality(kept) = n /\ n \in Nat /\ Cardinality(Unhanded(c)) + n <= Held(c)
              /\ Cardinality(Unhanded(c)) \in Nat /\ Held(c) \in Nat
            BY <2>3, <3>1
        <3>5. Cardinality(kept) + Cardinality(entered) <= Held(c)
            BY <3>3, <3>4
        <3> QED
            BY <3>2, <3>5 DEF kept, entered
    <2> QED
        BY <2>4, <2>5
<1>5. RebuildStep(Keep, Recorded)
    BY <1>2, <1>3, <1>4 DEF RebuildStep
<1> QED
    BY <1>2, <1>3, <1>5 DEF HeadroomNext

\* The books after the restart: the tokens and credits are as they were, the
\* slots and the hand-overs as they were or as the records have them.
LEMMA RestartBooks ==
    ASSUME Known, \A j \in Claimant : ~Unrecorded(j), NEW k \in Claimant,
           UNCHANGED <<minted, flying, credits>>,
           UNCHANGED store \/ Rebuild(Keep, Recorded)
    PROVE  LET b == Books(k)
               a == Books(k)' IN
           /\ a.made = b.made /\ a.sent = {} /\ a.owed = b.owed /\ a.held \in Nat
           /\ b.told \subseteq a.told /\ b.made = Tokens(k)
           /\ Survives(k) => Cardinality(a.made \ a.told) + Cardinality(Pending(disk[k])) <= a.held
           /\ ~Survives(k) => a.told = b.told /\ b.made \subseteq b.told
<1> DEFINE b == Books(k)
           a == Books(k)'
<1>1. Orderly /\ Kept /\ HeadroomTypeOK
    BY PlainIs DEF Known
<1>2. a.made = b.made /\ a.sent = b.sent /\ a.owed = b.owed
    BY DEF Books, Tokens
<1>3. /\ b.sent = {} /\ b.made = Tokens(k) /\ b.told = {t \in handed : t[1] = k}
      /\ Unhanded(k) = b.made \ b.told /\ b.held = Held(k) /\ Held(k) \in Nat
    BY <1>1, BooksAre, LeftBehind
<1>4. a.told = {t \in handed' : t[1] = k} /\ a.held = Held(k)'
    BY DEF Books
<1>5. ~Survives(k) => b.made \subseteq b.told
    BY <1>3, LeftBehind
<1> HIDE DEF a, b
<1>6. CASE UNCHANGED store
    <2>1. handed' = handed /\ Held(k)' = Held(k)
        BY <1>6 DEF store, Held, HeldBy
    <2>2. a.told = b.told /\ a.held = b.held
        BY <1>3, <1>4, <2>1
    <2>3. Survives(k) => Cardinality(Unhanded(k)) + Cardinality(Pending(disk[k])) <= Held(k)
        BY LeftBehind
    <2>4. Survives(k) => Cardinality(a.made \ a.told) + Cardinality(Pending(disk[k])) <= a.held
        BY <1>2, <1>3, <2>2, <2>3
    <2> QED
        BY <1>2, <1>3, <1>5, <2>2, <2>4 DEF a, b
<1>7. CASE Rebuild(Keep, Recorded)
    <2>1. slots' = Keep /\ handed' = handed \cup Recorded
        BY <1>7 DEF Rebuild
    <2>2. HeldBy(k)' = {s \in Keep : s[1] = k}
        BY <2>1 DEF HeldBy
    <2>3. a.told = b.told \cup {t \in Recorded : t[1] = k}
        BY <1>3, <1>4, <2>1
    <2>4. CASE Survives(k)
        <3> DEFINE n == Cardinality(Pending(disk[k]))
                   S == SlotsFor(k, n)
        <3>1. HeldBy(k)' = S /\ Cardinality(S) = n /\ n \in Nat
            BY <2>2, <2>4, RebuiltFor
        <3>2. a.held = n
            BY <1>4, <3>1 DEF Held
        <3>3. Tokens(k) \subseteq Minted(disk[k]) /\ {t \in Recorded : t[1] = k} = Minted(disk[k])
            BY <2>4, LeftBehind, RebuiltFor
        <3>4. a.made \ a.told = {}
            BY <1>2, <1>3, <2>3, <3>3
        <3> HIDE DEF n
        <3>5. Cardinality(a.made \ a.told) + n <= a.held
            <4>1. Cardinality(a.made \ a.told) = 0
                BY <3>4, FS_EmptySet
            <4> QED
                BY <3>1, <3>2, <4>1
        <3> QED
            BY <1>2, <1>3, <2>3, <2>4, <3>1, <3>2, <3>5 DEF a, b, n
    <2>5. CASE ~Survives(k)
        <3>1. HeldBy(k)' = {} /\ {t \in Recorded : t[1] = k} = {}
            BY <2>2, <2>5, RebuiltFor
        <3>2. a.held = 0
            BY <1>4, <3>1, FS_EmptySet DEF Held
        <3> QED
            BY <1>2, <1>3, <1>5, <2>3, <2>5, <3>1, <3>2 DEF a, b
    <2> QED
        BY <2>4, <2>5
<1> QED
    BY <1>6, <1>7

LEMMA RestartStays ==
    ASSUME Known, Restart
    PROVE  Stays
<1>1. /\ UNCHANGED <<indexed, minted, flying, disk, credits>>
      /\ lost' = (lost \/ \E j \in Claimant : Unrecorded(j)) /\ ~lost /\ lost \in BOOLEAN
      /\ mem' = [j \in Claimant |->
            IF mem[j].step = "none" THEN NoSession
            ELSE IF ~Survives(j) THEN Gone ELSE Resumed(disk[j])]
      /\ UNCHANGED store \/ Rebuild(Keep, Recorded)
    BY RestartIs, PlainIs DEF Known, Keep, Recorded, Survivors
<1>2. CASE lost'
    BY <1>2 DEF Stays, HeadroomNext, LoseTrack
<1>3. CASE ~lost'
    <2>1. lost' = lost /\ \A j \in Claimant : ~Unrecorded(j)
        BY <1>1, <1>3
    <2>2. [HeadroomNext]_hvars
        BY <1>1, <2>1, RebuildIsAsked DEF hvars
    <2>3. ASSUME NEW k \in Claimant PROVE Tracked(k)'
        <3> DEFINE m == mem[k]
                   w == mem'[k]
                   b == Books(k)
                   a == Books(k)'
        <3>1. /\ Orderly /\ InOrder(k, m) /\ Tracks(k, m, b) /\ Kept
              /\ k \in Bulk => disk'[k] = disk[k] /\ SoundAt(k, m, disk[k], paid[k], minted, credits)
            BY <1>1, AtWork, RowOf DEF Known, Tracked
        <3>2. /\ a.made = b.made /\ a.sent = {} /\ a.owed = b.owed /\ a.held \in Nat
              /\ b.told \subseteq a.told /\ b.made = Tokens(k)
              /\ Survives(k) =>
                    Cardinality(a.made \ a.told) + Cardinality(Pending(disk[k])) <= a.held
              /\ ~Survives(k) => a.told = b.told /\ b.made \subseteq b.told
            BY <1>1, <2>1, RestartBooks
        <3>3. w = IF m.step = "none" THEN NoSession
                  ELSE IF ~Survives(k) THEN Gone ELSE Resumed(disk[k])
            BY <1>1
        <3>4. CASE m.step = "none"
            <4>1. ~Survives(k) /\ w = NoSession /\ Untouched(m.units) /\ m.st # "gone"
                BY <3>1, <3>3, <3>4 DEF Survives, SoundAt, InOrder
            <4>2. Tokens(k) = {} /\ \A u \in Wanted[k] : b.owed[u] = 0
                BY <3>4, <4>1, NothingMade
            <4>3. b.told = {}
                BY <3>4, <4>1, NothingMade
            <4>4. Pending(w) = {} /\ Cardinality({}) = 0
                BY <4>1, NoSessionIs, FS_EmptySet DEF Pending
            <4>5. w.step = "none" /\ w.st = "awaiting"
                BY <4>1, NoSessionIs
            <4> HIDE DEF a, b, w, m
            <4>6. Tracks(k, w, a)
                BY <3>2, <4>1, <4>2, <4>3, <4>4, <4>5, EmptyTracks
            <4>7. k \in Bulk => Current(w, disk'[k])
                BY <3>1, <4>1 DEF Survives, Current
            <4> QED
                BY <4>6, <4>7 DEF Tracked, a, w
        <3>5. CASE m.step # "none" /\ ~Survives(k)
            <4>1. w = Gone /\ w.st = "gone" /\ w.step = "ended"
                BY <3>3, <3>5, GoneIs
            <4>2. ASSUME NEW u \in Wanted[k]
                  PROVE  Cardinality(ForUnit(a.made, u)) + a.owed[u] <= 1
                <5>1. b.owed[u] = credits[<<k, u>>]
                    BY <3>1, BooksAre
                <5>2. Cardinality(ForUnit(Tokens(k), u)) + credits[<<k, u>>] <= 1
                    BY SettledAt
                <5> HIDE DEF a, b
                <5> QED
                    BY <3>2, <5>1, <5>2
            <4> HIDE DEF a, b, w, m
            <4>3. Tracks(k, w, a)
                BY <3>2, <3>5, <4>1, <4>2 DEF Tracks, OnTheWay, Aloft, Closed, FlagIsTrue, Backed,
                   Terminal
            <4>4. k \in Bulk => Current(w, disk'[k])
                BY <4>1 DEF Current, Terminal
            <4> QED
                BY <4>3, <4>4 DEF Tracked, a, w
        <3>6. CASE m.step # "none" /\ Survives(k)
            <4>1. /\ k \in Bulk /\ disk[k] \in Records /\ disk[k].st \in Resumable
                  /\ m.step # "flying" /\ m.st # "gone" /\ disk[k].units = m.units
                BY <2>1, <3>6, LeftBehind
            <4>2. /\ w.units = m.units /\ w.st \in Resumable /\ w.step \in {"waiting", "unit"}
                  /\ w = Resumed(disk[k])
                BY <3>3, <3>6, <4>1, ResumedIs DEF Resumable
            <4>3. Aloft(w) = {} /\ Aloft(m) = {} /\ w.st # "gone"
                BY <4>1, <4>2 DEF Aloft, Resumable
            <4>4. Pending(w) = Pending(disk[k])
                BY <4>1, <4>2 DEF Pending
            <4> HIDE DEF a, b, w, m
            <4>5. Accounted(k, m, b)
                BY <3>1, <4>1 DEF Tracks
            <4>6. Accounted(k, w, a)
                BY <3>2, <4>2, <4>3, <4>5 DEF Accounted
            <4>7. OnTheWay(w, a)
                BY <3>2, <4>3 DEF OnTheWay
            <4>8. Backed(w, a)
                <5>1. (a.made \ a.told) \ Aloft(w) = a.made \ a.told
                    BY <4>3
                <5> QED
                    BY <3>2, <3>6, <4>4, <5>1 DEF Backed
            <4>9. Tracks(k, w, a)
                BY <4>2, <4>3, <4>6, <4>7, <4>8 DEF Tracks, FlagIsTrue
            <4>10. Current(w, disk'[k])
                BY <3>1, <4>1, <4>2 DEF Current
            <4> QED
                BY <4>9, <4>10 DEF Tracked, a, w
        <3> QED
            BY <3>4, <3>5, <3>6
    <2> QED
        BY <2>2, <2>3 DEF Stays
<1> QED
    BY <1>2, <1>3

-----------------------------------------------------------------------------
(* All steps together.                                                     *)

LEMMA SureInit == Init => IInv /\ HeadroomInit
<1> SUFFICES ASSUME Init PROVE IInv /\ HeadroomInit
    OBVIOUS
<1>1. /\ mem = [j \in Claimant |-> NoSession] /\ credits = [cu \in CreditKeys |-> 0]
      /\ flying = {} /\ slots = {} /\ pending = {} /\ handed = {} /\ indexed = {} /\ minted = {}
      /\ HeadroomInit
    BY DEF Init, HeadroomInit, CreditKeys
<1>2. Kept
    BY <1>1, InitKept
<1>3. ASSUME NEW j \in Claimant PROVE Tracked(j)
    <2> DEFINE b == Books(j)
    <2>1. b.made = {} /\ b.told = {} /\ b.sent = {} /\ \A u \in Wanted[j] : b.owed[u] = 0
        <3>1. \A u \in Wanted[j] : <<j, u>> \in CreditKeys
            BY DEF CreditKeys
        <3> QED
            BY <1>1, <3>1 DEF Books, Tokens
    <2>2. b.held = 0
        <3>1. HeldBy(j) = {}
            BY <1>1 DEF HeldBy
        <3>2. Held(j) = 0
            BY <3>1, FS_EmptySet DEF Held
        <3> QED
            BY <3>2 DEF Books
    <2> HIDE DEF b
    <2>3. mem[j] = NoSession /\ Pending(NoSession) = {} /\ Cardinality({}) = 0
        BY <1>1, NoSessionIs, FS_EmptySet DEF Pending
    <2>4. Tracks(j, NoSession, b)
        <3>1. Cardinality(Pending(NoSession)) \in Nat /\ Cardinality(Pending(NoSession)) <= b.held
            BY <2>2, <2>3
        <3>2. NoSession.step \notin {"flying", "offering"} /\ NoSession.st # "gone"
            BY NoSessionIs
        <3> QED
            BY <2>1, <3>1, <3>2, EmptyTracks
    <2>5. j \in Bulk => disk[j] = NoRecord
        BY DEF Init
    <2>6. NoRecord.st \notin Resumable
        BY NoRecordIs DEF Resumable
    <2> QED
        BY <2>3, <2>4, <2>5, <2>6 DEF Tracked, Current, b
<1> QED
    BY <1>1, <1>2, <1>3, OrderlyInit DEF IInv, Sure

\* Who has lost track does not find it again.
LEMMA LostForGood == Orderly /\ lost /\ [Next]_vars => lost'
<1> SUFFICES ASSUME Orderly, lost, [Next]_vars PROVE lost'
    OBVIOUS
<1>1. CASE UNCHANGED vars
    BY <1>1 DEF vars, hvars
<1>2. ASSUME NEW j \in Claimant, Insert(j) \/ Pay(j) \/ CancelCheck(j) \/ CancelCommit(j)
      PROVE  lost'
    BY <1>2 DEF Insert, Pay, CancelCheck, CancelCommit
<1>3. ASSUME NEW j \in Claimant, Task(j) PROVE lost'
    <2>1. CASE Reserve(j) \/ Refuse(j) \/ Prepared(j) \/ Claim(j)
        BY <2>1 DEF Reserve, Refuse, Prepared, Claim
    <2>2. CASE WaitReturns(j) \/ WaitTimesOut(j) \/ RetryPersist(j) \/ Submit(j)
        BY <2>2 DEF WaitReturns, WaitTimesOut, RetryPersist, Submit
    <2>3. CASE HeldUnread(j) \/ Raise(j) \/ MintConfirmed(j)
        BY <2>3 DEF HeldUnread, Raise, MintConfirmed
    <2>4. CASE \E unknown \in BOOLEAN : NoMint(j, unknown)
        BY <2>4 DEF NoMint
    <2>5. CASE Offer(j) \/ EndSession(j) \/ Credit(j)
        BY <2>5 DEF Offer, EndSession, Credit
    <2>6. CASE Finish(j)
        BY <2>6, FinishFrom
    <2> QED
        BY <1>3, <2>1, <2>2, <2>3, <2>4, <2>5, <2>6 DEF Task
<1>4. ASSUME NEW t \in Token, Land(t) \/ Expire(t) \/ Listen(t) PROVE lost'
    BY <1>4 DEF Land, Expire, Listen, hvars
<1>5. CASE Restart
    BY <1>5, RestartIs
<1> QED
    BY <1>1, <1>2, <1>3, <1>4, <1>5 DEF Next

LEMMA EachStays == Known /\ [Next]_vars => Stays
<1> SUFFICES ASSUME Known, [Next]_vars PROVE Stays
    OBVIOUS
<1>1. CASE UNCHANGED vars
    <2>1. UNCHANGED <<hvars, store, minted, flying, credits, mem, disk>>
        BY <1>1 DEF vars, hvars, mvars
    <2> QED
        BY <2>1, SameBooks DEF Stays, Known, Tracked
<1>2. ASSUME NEW j \in Claimant, Insert(j) \/ Pay(j) \/ CancelCheck(j) \/ CancelCommit(j)
      PROVE  Stays
    BY <1>2, InsertStays, PayStays, CancelCheckStays, CancelCommitStays
<1>3. ASSUME NEW j \in Claimant, Task(j) PROVE Stays
    BY <1>3, ReserveStays, RefuseStays, PreparedStays, ClaimStays, WaitReturnsStays,
       WaitTimesOutStays, RetryPersistStays, SubmitStays, HeldUnreadStays, RaiseStays,
       MintConfirmedStays, NoMintStays, OfferStays, EndSessionStays, CreditStays, FinishStays
       DEF Task
<1>4. ASSUME NEW t \in Token, Land(t) \/ Expire(t) \/ Listen(t) PROVE Stays
    BY <1>4, LandStays, ExpireStays, ListenStays
<1>5. CASE Restart
    BY <1>5, RestartStays
<1> QED
    BY <1>1, <1>2, <1>3, <1>4, <1>5 DEF Next

LEMMA SureStep == IInv /\ [Next]_vars => IInv' /\ [HeadroomNext]_hvars
<1> SUFFICES ASSUME IInv, [Next]_vars PROVE IInv' /\ [HeadroomNext]_hvars
    OBVIOUS
<1>1. Orderly /\ Orderly' /\ lost \in BOOLEAN /\ lost' \in BOOLEAN
    <2>1. Orderly /\ Orderly'
        BY OrderlyKept DEF IInv
    <2> QED
        BY <2>1 DEF Orderly, Typed, HeadroomTypeOK
<1>2. CASE lost
    <2>1. lost' = TRUE
        BY <1>1, <1>2, LostForGood
    <2> QED
        BY <1>1, <2>1 DEF IInv, Sure, HeadroomNext, LoseTrack
<1>3. CASE ~lost
    <2>1. Known
        BY <1>1, <1>3 DEF IInv, Sure, Known
    <2>2. [HeadroomNext]_hvars /\ (lost' \/ \A j \in Claimant : Tracked(j)')
        BY <2>1, EachStays DEF Stays
    <2>3. lost' \/ Kept'
        BY <2>1, <2>2, KeptStep DEF Known
    <2> QED
        BY <1>1, <2>2, <2>3 DEF IInv, Sure
<1> QED
    BY <1>2, <1>3

(* The strengthening: the rows of memory and record are true of the ledger *)
(* and the credits, and while nobody has lost track every token is known   *)
(* to the session it was minted for, and every unit to come and every      *)
(* token not handed over has a slot.                                       *)
THEOREM InductiveInvariant == Spec => []IInv
<1>1. IInv /\ [Next]_vars => IInv'
    BY SureStep
<1>2. Init => IInv
    BY SureInit
<1> QED
    BY <1>1, <1>2, PTL DEF Spec

(* Sessions and jobs ask of the store only what its contract allows, until *)
(* one of them loses track of a unit: nothing is minted without a slot, no *)
(* slot is given back for a token not handed over, and a restart enters    *)
(* every such token again.                                                 *)
THEOREM KeepsTheContract == Spec => UsesHeadroomWell
<1>1. IInv /\ [Next]_vars => [HeadroomNext]_hvars
    BY SureStep
<1>2. Init => HeadroomInit
    BY SureInit
<1> QED
    BY <1>1, <1>2, InductiveInvariant, PTL DEF Spec, UsesHeadroomWell, HeadroomSpec

(* So the sessions and jobs together never mint past the collection.       *)
THEOREM CapHoldsForMinting == Spec => []NoOvershoot
BY KeepsTheContract, CapHolds, PTL DEF UsesHeadroomWell

(* A unit is settled once, however often its job is tried, parked and      *)
(* resumed: it comes to one token or to one credit.                        *)
THEOREM UnitsSettledOnce == Spec => []SettledOnce
<1>1. IInv => SettledOnce
    <2> SUFFICES ASSUME IInv, ~lost, NEW j \in Claimant, NEW u \in Wanted[j]
                 PROVE  Cardinality({t \in minted : t[1] = j /\ t[2] = u}) + credits[<<j, u>>] <= 1
        BY DEF SettledOnce
    <2>1. Known
        BY DEF IInv, Sure, Known
    <2>2. ForUnit(Tokens(j), u) = {t \in minted : t[1] = j /\ t[2] = u}
        BY DEF ForUnit, Tokens
    <2>3. Cardinality(ForUnit(Tokens(j), u)) + credits[<<j, u>>] <= 1
        BY <2>1, SettledAt
    <2> QED
        BY <2>2, <2>3
<1> QED
    BY <1>1, InductiveInvariant, PTL
=============================================================================

------------------------- MODULE ClosetMarketProofs --------------------------
(***************************************************************************)
(* Proofs about ClosetMarket, for any owners, orders, fills, prices and    *)
(* faults.  The invariant follows a fill through its stages: what its row  *)
(* says, which of its transactions may exist, whose money came in, and     *)
(* which orders it keeps from every other fill.                            *)
(***************************************************************************)
EXTENDS ClosetMarket, FiniteSetTheorems, TLAPS

\* The stage a fill is at, also while its last outcome is unknown.
At(r) == IF r.state = "indeterminate" THEN Rollback[r.phase] ELSE r.state

Ended      == {"cancelled", "expired"}
Early      == {"funds_pending", "funded"}
PaidStages == {"funded", "asset_moved", "paid", "mirrored", "refund_pending", "refunded"}
Moved      == {"asset_moved", "paid", "mirrored"}

\* A fill's row, and where its task can be.
FillShape(r, j) ==
    /\ r.state = "none" => r = NoFill
    /\ r.state = "indeterminate" => r.phase # "none" /\ j = "idle"
    /\ r.phase # "none" => r.state \in {"indeterminate", Rollback[r.phase]}
    /\ j \in {"begun", "sent"} => r.phase # "none"
    /\ j = "refused" => r.state = "funds_pending" /\ r.phase = "none" /\ r.bid # 0
    /\ r.phase = "finish" => r.bid # 0
    /\ r.phase = "forward" => ~r.forwarded
    /\ r.phase = "overshoot" => r.forwarded /\ r.over /\ ~r.overshot
    /\ r.forwarded \/ r.overshot => At(r) \in Moved
    /\ r.state \in {"paid", "mirrored"} => r.forwarded /\ (r.over => r.overshot)

BidShape(r, j) ==
    /\ r.phase # "none" => r.state = "cancelling"
    /\ j \in {"begun", "sent"} => r.phase # "none"
    /\ r.finished => r.state \in {"cancelling"} \cup Ended
    /\ r.phase \in {"cancel", "cancel_finish"} => ~r.finished
    /\ r.phase = "cancel_refund" => r.finished

\* What the row r says of its phase p: that it landed ...
Says(p, r) ==
    \/ p = "finish" /\ fills[r].bid # 0 /\ At(fills[r]) \in PaidStages
    \/ p = "forward" /\ fills[r].forwarded
    \/ p = "overshoot" /\ fills[r].overshot
    \/ p = "refund" /\ fills[r].state = "refunded"
    \/ p = "cancel_finish" /\ bids[r].finished
    \/ p = "cancel_refund" /\ bids[r].finished /\ bids[r].state \in Ended

\* ... or that it is over.
Over(p, r) == Says(p, r) \/ (p \in {"cancel", "cancel_refund"} /\ bids[r].state \in Ended)

\* At most one transaction of a phase ever exists, none that the row's intent
\* does not guard, and the row tells what landed.
TagOK(p, r) ==
    LET t == tx[<<p, r>>] IN
    /\ t.live + t.landed <= 1
    /\ t.live > 0 => Phase(r) = p /\ job[r] \in {"idle", "sent"}
    /\ t.landed > 0 => Over(p, r) \/ (Phase(r) = p /\ job[r] # "begun")
    /\ Says(p, r) => t.landed > 0

\* A fill: its row, its transactions, and whose money came in.
FillInv(f) ==
    /\ FillShape(fills[f], job[f])
    /\ \A p \in FillPhases \ {"none"} : TagOK(p, f)
    /\ fills[f].bid = 0 /\ At(fills[f]) \in PaidStages => signed[f] \in {"full", "short"}
    /\ fills[f].bid = 0 /\ fills[f].state = "failed" => signed[f] = "dead"
    /\ Landed("finish", f) => escrow[fills[f].bid] = "finished"

\* A bid: its row, its transactions, and where its escrow is.
BidInv(b) ==
    /\ BidShape(bids[b], job[b])
    /\ \A p \in BidPhases \ {"none"} : TagOK(p, b)
    /\ signed[b] = "waiting" => escrow[b] = "none"
    /\ bids[b].state \notin {"none", "pending_escrow"} => signed[b] # "waiting"
    /\ Landed("cancel_finish", b) => escrow[b] = "finished"
    /\ Landed("cancel", b) => escrow[b] = "returned"

\* Rows refer to rows and owners that exist.
Known ==
    /\ \A a \in Asks : asks[a].state # "none" => asks[a].owner \in Owners
    /\ \A b \in Bids : bids[b].state # "none" => bids[b].owner \in Owners
    /\ \A f \in Fills : fills[f].state # "none" =>
        /\ fills[f].seller \in Owners /\ fills[f].buyer \in Owners
        /\ fills[f].ask = 0 => fills[f].bid # 0
        /\ fills[f].ask # 0 => /\ asks[fills[f].ask].state # "none"
                               /\ asks[fills[f].ask].owner = fills[f].seller

\* A fill keeps its orders to itself: from the match on, and an ask it takes
\* from the payment on.
HasBid(r) == r.bid # 0 /\ At(r) \in {"funds_pending"} \cup Buying
HasAsk(r) == r.ask # 0 /\ (At(r) \in Buying \/ (At(r) = "funds_pending" /\ r.bid # 0))

ClaimsOK ==
    /\ \A f \in Fills : HasBid(fills[f]) =>
        bids[fills[f].bid].state = IF At(fills[f]) \in Early THEN "matched" ELSE "filled"
    /\ \A f \in Fills : HasAsk(fills[f]) =>
        asks[fills[f].ask].state = IF At(fills[f]) \in Early THEN "matched" ELSE "filled"
    /\ \A f, g \in Fills : f # g =>
        /\ HasBid(fills[f]) /\ HasBid(fills[g]) => fills[f].bid # fills[g].bid
        /\ HasAsk(fills[f]) /\ HasAsk(fills[g]) => fills[f].ask # fills[g].ask

IInv ==
    /\ TypeOK
    /\ \A f \in Fills : FillInv(f)
    /\ \A b \in Bids : BidInv(b)
    /\ Known /\ ClaimsOK /\ PromisesAreHeld

\* While get_escrow is answered by a server that has the escrow.
EndedIsUnlocked ==
    \A b \in Bids : bids[b].state \in Ended => escrow[b] # "locked"

-----------------------------------------------------------------------------
(* Facts about the data.                                                   *)

FPhase == FillPhases \ {"none"}
BPhase == BidPhases \ {"none"}

LEMMA TagIs ==
  /\ \A p, r : <<p, r>> \in Tags <=> (p \in FPhase /\ r \in Fills) \/ (p \in BPhase /\ r \in Bids)
  /\ \A t \in Tags : t = <<t[1], t[2]>>
  /\ FPhase \cap BPhase = {}
  BY DEF Tags, FPhase, BPhase, FillPhases, BidPhases

LEMMA RowsApart ==
  /\ \A f \in Fills : f \notin Bids /\ f \notin Asks /\ f \in Rows
  /\ \A b \in Bids : b \notin Fills /\ b \notin Asks /\ b \in Rows
  /\ 0 \notin Asks \cup Rows
  /\ \A f \in Fills : Phase(f) = fills[f].phase
  /\ \A b \in Bids : Phase(b) = bids[b].phase
  BY BookAssumption DEF Rows, Phase

LEMMA RollbackIs ==
  /\ Rollback["finish"] = "funds_pending" /\ Rollback["refund"] = "refund_pending"
  /\ Rollback["forward"] = "asset_moved" /\ Rollback["overshoot"] = "asset_moved"
  BY DEF Rollback

LEMMA PromisingIs ==
  ASSUME NEW r \in Fill, r.state = "indeterminate" => r.phase # "none"
  PROVE  Promising(r) <=> At(r) \in Early
  BY RollbackIs DEF Promising, At, Early, Fill, FillPhases

\* A row whose intent is open does not say yet that it landed.
LEMMA FillNotYet ==
  ASSUME NEW f \in Fills, fills[f] \in Fill, NEW p \in FPhase,
         FillShape(fills[f], job[f]), fills[f].phase = p
  PROVE  ~Over(p, f)
  BY RollbackIs DEF Over, Says, FillShape, At, PaidStages, FPhase, FillPhases

LEMMA BidNotYet ==
  ASSUME NEW b \in Bids, bids[b] \in Bid, NEW p \in BPhase,
         BidShape(bids[b], job[b]), bids[b].phase = p
  PROVE  ~Over(p, b)
  BY DEF Over, Says, BidShape, BPhase, BidPhases, Ended

-----------------------------------------------------------------------------
(* What a step leaves alone.                                               *)

\* A fill whose row, task and transactions a step does not touch.
LEMMA FillFrame ==
  ASSUME NEW f \in Fills, FillInv(f), fills'[f] = fills[f], job'[f] = job[f],
         signed[f] # "waiting" => signed'[f] = signed[f],
         \A p \in FPhase : tx'[<<p, f>>] = tx[<<p, f>>],
         fills[f].bid # 0 /\ escrow[fills[f].bid] = "finished"
            => escrow'[fills[f].bid] = "finished"
  PROVE  FillInv(f)'
<1>1. \A p \in FPhase : TagOK(p, f)'
  <2> SUFFICES ASSUME NEW p \in FPhase PROVE TagOK(p, f)'
    OBVIOUS
  <2>1. TagOK(p, f)
    BY DEF FillInv, FPhase
  <2>. QED BY <2>1, RowsApart DEF TagOK, Over, Says, Phase, FPhase, FillPhases
<1>2. "finish" \in FPhase
  BY DEF FPhase, FillPhases
<1>3. Landed("finish", f)' => escrow'[fills'[f].bid] = "finished"
  <2>1. Landed("finish", f)' <=> Landed("finish", f)
    BY <1>2 DEF Landed
  <2>2. Landed("finish", f) => fills[f].bid # 0
    BY <1>2, RowsApart DEF FillInv, TagOK, Landed, Over, Says, FillShape, FPhase
  <2>. QED BY <2>1, <2>2 DEF FillInv
<1>. QED BY <1>1, <1>3 DEF FillInv, FPhase

LEMMA BidFrame ==
  ASSUME NEW b \in Bids, BidInv(b), bids'[b] = bids[b], job'[b] = job[b],
         signed'[b] = signed[b], escrow'[b] = escrow[b],
         \A p \in BPhase : tx'[<<p, b>>] = tx[<<p, b>>]
  PROVE  BidInv(b)'
<1>1. \A p \in BPhase : TagOK(p, b)'
  <2> SUFFICES ASSUME NEW p \in BPhase PROVE TagOK(p, b)'
    OBVIOUS
  <2>1. TagOK(p, b)
    BY DEF BidInv, BPhase
  <2>. QED BY <2>1, RowsApart DEF TagOK, Over, Says, Phase, BPhase, BidPhases
<1>2. "cancel_finish" \in BPhase /\ "cancel" \in BPhase
  BY DEF BPhase, BidPhases
<1>. QED BY <1>1, <1>2 DEF BidInv, Landed, BPhase

\* No fill takes orders that it had not, and who has an order finds it as before.
LEMMA ClaimsFrame ==
  ASSUME ClaimsOK,
         \A f \in Fills :
            /\ fills'[f].ask = fills[f].ask /\ fills'[f].bid = fills[f].bid
            /\ HasBid(fills'[f]) => /\ HasBid(fills[f])
                                    /\ At(fills'[f]) \in Early <=> At(fills[f]) \in Early
                                    /\ bids'[fills[f].bid].state = bids[fills[f].bid].state
            /\ HasAsk(fills'[f]) => /\ HasAsk(fills[f])
                                    /\ At(fills'[f]) \in Early <=> At(fills[f]) \in Early
                                    /\ asks'[fills[f].ask].state = asks[fills[f].ask].state
  PROVE  ClaimsOK'
<1>1. ASSUME NEW f \in Fills, HasBid(fills'[f])
      PROVE  bids'[fills'[f].bid].state = IF At(fills'[f]) \in Early THEN "matched" ELSE "filled"
  BY <1>1 DEF ClaimsOK
<1>2. ASSUME NEW f \in Fills, HasAsk(fills'[f])
      PROVE  asks'[fills'[f].ask].state = IF At(fills'[f]) \in Early THEN "matched" ELSE "filled"
  BY <1>2 DEF ClaimsOK
<1>3. ASSUME NEW f \in Fills, NEW g \in Fills, f # g
      PROVE  /\ HasBid(fills'[f]) /\ HasBid(fills'[g]) => fills'[f].bid # fills'[g].bid
             /\ HasAsk(fills'[f]) /\ HasAsk(fills'[g]) => fills'[f].ask # fills'[g].ask
  BY <1>3 DEF ClaimsOK
<1>. QED BY <1>1, <1>2, <1>3 DEF ClaimsOK

\* The promises of an owner, by kind.
AskProm(o)  == {a \in Asks : asks[a].owner = o /\ asks[a].state \in {"open", "matched"}}
FillProm(o) == {f \in Fills : fills[f].seller = o /\ fills[f].ask = 0 /\ Promising(fills[f])}

LEMMA PromisesCount ==
  ASSUME NEW o
  PROVE  /\ Encumbrance(o) = Cardinality(AskProm(o)) + Cardinality(FillProm(o))
         /\ IsFiniteSet(AskProm(o)) /\ IsFiniteSet(FillProm(o))
         /\ Cardinality(AskProm(o)) \in Nat /\ Cardinality(FillProm(o)) \in Nat
<1>1. AskProm(o) \in SUBSET Asks /\ FillProm(o) \in SUBSET Fills
  BY DEF AskProm, FillProm
<1>2. IsFiniteSet(AskProm(o)) /\ IsFiniteSet(FillProm(o))
  BY <1>1, FS_Subset, BookAssumption
<1>3. Cardinality(AskProm(o)) \in Nat /\ Cardinality(FillProm(o)) \in Nat
  BY <1>2, FS_CardinalityType
<1>. QED BY <1>2, <1>3 DEF Encumbrance, AskProm, FillProm

LEMMA PromisesShrink ==
  ASSUME NEW o, AskProm(o)' \subseteq AskProm(o), FillProm(o)' \subseteq FillProm(o)
  PROVE  /\ Encumbrance(o)' <= Encumbrance(o)
         /\ Encumbrance(o)' \in Nat /\ Encumbrance(o) \in Nat
<1>1. /\ Cardinality(AskProm(o)') <= Cardinality(AskProm(o))
      /\ Cardinality(FillProm(o)') <= Cardinality(FillProm(o))
      /\ Cardinality(AskProm(o)') \in Nat /\ Cardinality(FillProm(o)') \in Nat
  <2>1. IsFiniteSet(AskProm(o)) /\ IsFiniteSet(FillProm(o))
    BY PromisesCount
  <2>2. IsFiniteSet(AskProm(o)') /\ IsFiniteSet(FillProm(o)')
    BY <2>1, FS_Subset
  <2>. QED BY <2>1, <2>2, FS_Subset, FS_CardinalityType
<1>2. Encumbrance(o)' = Cardinality(AskProm(o)') + Cardinality(FillProm(o)')
  BY DEF Encumbrance, AskProm, FillProm
<1>. QED BY <1>1, <1>2, PromisesCount

\* A set of promises that loses one is smaller by one at least, and one that
\* gains one is larger by one at most.
LEMMA OneLess ==
  ASSUME NEW S, NEW T, IsFiniteSet(S), T \subseteq S, NEW x \in S, x \notin T
  PROVE  Cardinality(T) <= Cardinality(S) - 1
<1>1. IsFiniteSet(S \ {x}) /\ Cardinality(S \ {x}) = Cardinality(S) - 1
  BY FS_RemoveElement
<1>2. T \subseteq S \ {x}
  OBVIOUS
<1>. QED BY <1>1, <1>2, FS_Subset

LEMMA OneMore ==
  ASSUME NEW S, NEW x, IsFiniteSet(S)
  PROVE  IsFiniteSet(S \cup {x}) /\ Cardinality(S \cup {x}) <= Cardinality(S) + 1
<1>1. Cardinality(S) \in Nat
  BY FS_CardinalityType
<1>2. IsFiniteSet(S \cup {x}) /\ Cardinality(S \cup {x}) \in {Cardinality(S), Cardinality(S) + 1}
  BY FS_AddElement
<1>. QED BY <1>1, <1>2

LEMMA OneLessPromise ==
  ASSUME NEW o, AskProm(o)' \subseteq AskProm(o), FillProm(o)' \subseteq FillProm(o),
         \/ \E a \in AskProm(o) : a \notin AskProm(o)'
         \/ \E f \in FillProm(o) : f \notin FillProm(o)'
  PROVE  /\ Encumbrance(o)' <= Encumbrance(o) - 1
         /\ Encumbrance(o)' \in Nat /\ Encumbrance(o) \in Nat
<1>1. /\ IsFiniteSet(AskProm(o)) /\ IsFiniteSet(FillProm(o))
      /\ IsFiniteSet(AskProm(o)') /\ IsFiniteSet(FillProm(o)')
  BY PromisesCount, FS_Subset
<1>2. /\ Cardinality(AskProm(o)') <= Cardinality(AskProm(o))
      /\ Cardinality(FillProm(o)') <= Cardinality(FillProm(o))
      /\ Cardinality(AskProm(o)') \in Nat /\ Cardinality(FillProm(o)') \in Nat
  BY <1>1, FS_Subset, FS_CardinalityType
<1>3. \/ Cardinality(AskProm(o)') <= Cardinality(AskProm(o)) - 1
      \/ Cardinality(FillProm(o)') <= Cardinality(FillProm(o)) - 1
  BY <1>1, OneLess
<1>4. Encumbrance(o)' = Cardinality(AskProm(o)') + Cardinality(FillProm(o)')
  BY DEF Encumbrance, AskProm, FillProm
<1>. QED BY <1>2, <1>3, <1>4, PromisesCount

LEMMA OneMorePromise ==
  ASSUME NEW o, NEW x,
         \/ AskProm(o)' \subseteq AskProm(o) \cup {x} /\ FillProm(o)' \subseteq FillProm(o)
         \/ AskProm(o)' \subseteq AskProm(o) /\ FillProm(o)' \subseteq FillProm(o) \cup {x}
  PROVE  /\ Encumbrance(o)' <= Encumbrance(o) + 1
         /\ Encumbrance(o)' \in Nat /\ Encumbrance(o) \in Nat
<1>1. /\ IsFiniteSet(AskProm(o)) /\ IsFiniteSet(FillProm(o))
      /\ Cardinality(AskProm(o)) \in Nat /\ Cardinality(FillProm(o)) \in Nat
  BY PromisesCount
<1>2. /\ IsFiniteSet(AskProm(o) \cup {x}) /\ Cardinality(AskProm(o) \cup {x}) <= Cardinality(AskProm(o)) + 1
      /\ IsFiniteSet(FillProm(o) \cup {x}) /\ Cardinality(FillProm(o) \cup {x}) <= Cardinality(FillProm(o)) + 1
  BY <1>1, OneMore
<1>3. /\ Cardinality(AskProm(o)') \in Nat /\ Cardinality(FillProm(o)') \in Nat
      /\ \/ /\ Cardinality(AskProm(o)') <= Cardinality(AskProm(o) \cup {x})
            /\ Cardinality(FillProm(o)') <= Cardinality(FillProm(o))
         \/ /\ Cardinality(AskProm(o)') <= Cardinality(AskProm(o))
            /\ Cardinality(FillProm(o)') <= Cardinality(FillProm(o) \cup {x})
  BY <1>1, <1>2, FS_Subset, FS_CardinalityType
<1>4. /\ Cardinality(AskProm(o) \cup {x}) \in Nat /\ Cardinality(FillProm(o) \cup {x}) \in Nat
  BY <1>2, FS_CardinalityType
<1>5. Encumbrance(o)' = Cardinality(AskProm(o)') + Cardinality(FillProm(o)')
  BY DEF Encumbrance, AskProm, FillProm
<1>. QED BY <1>1, <1>2, <1>3, <1>4, <1>5, PromisesCount

\* Nobody promises more than before, and nobody loses a unit or gains a Closet.
LEMMA PromisesFrame ==
  ASSUME PromisesAreHeld, active' \subseteq active,
         \A o \in active' : held[o] \in Nat /\ held'[o] \in Nat /\ held[o] <= held'[o],
         \A a \in Asks : asks'[a].state \in {"open", "matched"} =>
            asks'[a].owner = asks[a].owner /\ asks[a].state \in {"open", "matched"},
         \A f \in Fills : fills'[f].ask = 0 /\ Promising(fills'[f]) =>
            fills[f].ask = 0 /\ fills'[f].seller = fills[f].seller /\ Promising(fills[f])
  PROVE  PromisesAreHeld'
<1>1. ASSUME NEW o \in active' PROVE Encumbrance(o)' <= held'[o]
  <2>1. AskProm(o)' \subseteq AskProm(o)
    BY DEF AskProm
  <2>2. FillProm(o)' \subseteq FillProm(o)
    BY DEF FillProm
  <2>3. Encumbrance(o)' <= Encumbrance(o) /\ Encumbrance(o)' \in Nat /\ Encumbrance(o) \in Nat
    BY <2>1, <2>2, PromisesShrink
  <2>4. Encumbrance(o) <= held[o]
    BY <1>1 DEF PromisesAreHeld
  <2>. QED BY <1>1, <2>3, <2>4
<1>. QED BY <1>1 DEF PromisesAreHeld

LEMMA BookFrame ==
  ASSUME IInv, UNCHANGED book
  PROVE  Known' /\ ClaimsOK' /\ PromisesAreHeld'
<1>1. Known'
  BY DEF IInv, Known, book
<1>2. ClaimsOK'
  BY DEF IInv, ClaimsOK, book
<1>3. PromisesAreHeld'
  BY DEF IInv, PromisesAreHeld, Encumbrance, book
<1>. QED BY <1>1, <1>2, <1>3

-----------------------------------------------------------------------------
(* The ledger.                                                             *)

LEMMA UserTxLandsKeeps ==
  ASSUME IInv, NEW r \in Rows, UserTxLands(r)
  PROVE  IInv'
<1>1. /\ signed[r] = "waiting" /\ UNCHANGED <<book, clock, tx, job, faults>>
      /\ fills' = fills /\ bids' = bids
  BY DEF UserTxLands, book
<1>2. TypeOK
  BY DEF IInv
<1>3. CASE r \in Bids
  <2>1. /\ signed' = [signed EXCEPT ![r] = "full"] /\ escrow' = [escrow EXCEPT ![r] = "locked"]
        /\ escrow[r] = "none"
    BY <1>1, <1>3 DEF UserTxLands, IInv, BidInv
  <2>2. TypeOK'
    BY <1>1, <1>2, <2>1 DEF TypeOK, BookTypeOK, book, Rows
  <2>3. ASSUME NEW f \in Fills PROVE FillInv(f)'
    <3>1. signed'[f] = signed[f]
      BY <1>2, <1>3, <2>1, RowsApart DEF TypeOK
    <3>2. fills[f].bid # 0 => fills[f].bid \in Bids
      BY <1>2 DEF TypeOK, BookTypeOK, Fill
    <3>3. fills[f].bid # 0 /\ escrow[fills[f].bid] = "finished" => escrow'[fills[f].bid] = "finished"
      BY <1>2, <2>1, <3>2 DEF TypeOK
    <3>. QED BY <1>1, <3>1, <3>3, FillFrame DEF IInv
  <2>4. ASSUME NEW b \in Bids PROVE BidInv(b)'
    <3>1. CASE b = r
      <4>1. ~Landed("cancel_finish", b) /\ ~Landed("cancel", b)
        BY <2>1, <3>1 DEF IInv, BidInv
      <4>2. \A p \in BPhase : TagOK(p, b)'
        BY <1>1 DEF IInv, BidInv, TagOK, Over, Says, Phase, BPhase
      <4>. QED BY <1>1, <1>2, <2>1, <3>1, <4>1, <4>2 DEF IInv, BidInv, Landed, TypeOK, BPhase
    <3>2. CASE b # r
      <4>1. signed'[b] = signed[b] /\ escrow'[b] = escrow[b]
        BY <1>2, <2>1, <3>2 DEF TypeOK, Rows
      <4>. QED BY <1>1, <4>1, BidFrame DEF IInv
    <3>. QED BY <3>1, <3>2
  <2>. QED BY <1>1, <2>2, <2>3, <2>4, BookFrame DEF IInv
<1>4. CASE r \in Fills
  <2>1. /\ \E how \in {"full", "short"} : signed' = [signed EXCEPT ![r] = how]
        /\ escrow' = escrow
    BY <1>4, RowsApart DEF UserTxLands
  <2>2. TypeOK'
    BY <1>1, <1>2, <2>1 DEF TypeOK, BookTypeOK, book, Rows
  <2>3. \A x \in Rows : x # r => signed'[x] = signed[x]
    BY <1>2, <2>1 DEF TypeOK
  <2>4. ASSUME NEW f \in Fills PROVE FillInv(f)'
    <3>1. signed[f] # "waiting" => signed'[f] = signed[f]
      BY <1>1, <2>3 DEF Rows
    <3>. QED BY <1>1, <2>1, <3>1, FillFrame DEF IInv
  <2>5. ASSUME NEW b \in Bids PROVE BidInv(b)'
    <3>1. signed'[b] = signed[b]
      BY <1>4, <2>3, RowsApart
    <3>. QED BY <1>1, <2>1, <3>1, BidFrame DEF IInv
  <2>. QED BY <1>1, <2>2, <2>4, <2>5, BookFrame DEF IInv
<1>. QED BY <1>3, <1>4 DEF Rows

LEMMA UserTxDiesKeeps ==
  ASSUME IInv, NEW r \in Rows, UserTxDies(r)
  PROVE  IInv'
<1>1. /\ signed[r] = "waiting" /\ signed' = [signed EXCEPT ![r] = "dead"]
      /\ UNCHANGED <<book, clock, escrow, tx, job, faults>>
      /\ fills' = fills /\ bids' = bids
  BY DEF UserTxDies, book
<1>2. TypeOK
  BY DEF IInv
<1>3. TypeOK'
  BY <1>1, <1>2 DEF TypeOK, BookTypeOK, book, Rows
<1>4. \A x \in Rows : x # r => signed'[x] = signed[x]
  BY <1>1, <1>2 DEF TypeOK
<1>5. ASSUME NEW f \in Fills PROVE FillInv(f)'
  <2>1. signed[f] # "waiting" => signed'[f] = signed[f]
    BY <1>1, <1>4 DEF Rows
  <2>. QED BY <1>1, <2>1, FillFrame DEF IInv
<1>6. ASSUME NEW b \in Bids PROVE BidInv(b)'
  <2>1. CASE b = r
    <3>1. \A p \in BPhase : TagOK(p, b)'
      BY <1>1 DEF IInv, BidInv, TagOK, Over, Says, Phase, BPhase
    <3>2. BidInv(b) /\ signed'[b] = "dead"
      BY <1>1, <1>2, <2>1 DEF IInv, TypeOK
    <3>. QED BY <1>1, <3>1, <3>2 DEF BidInv, Landed, BPhase
  <2>2. CASE b # r
    <3>1. signed'[b] = signed[b]
      BY <1>4, <2>2 DEF Rows
    <3>. QED BY <1>1, <3>1, BidFrame DEF IInv
  <2>. QED BY <2>1, <2>2
<1>. QED BY <1>1, <1>3, <1>5, <1>6, BookFrame DEF IInv

LEMMA TimePassesKeeps ==
  ASSUME IInv, NEW b \in Bids, TimePasses(b)
  PROVE  IInv'
<1>1. /\ clock[b] < 3 /\ clock' = [clock EXCEPT ![b] = @ + 1]
      /\ UNCHANGED <<book, escrow, signed, tx, job, faults>>
      /\ fills' = fills /\ bids' = bids
  BY DEF TimePasses, book
<1>2. TypeOK'
  BY <1>1 DEF IInv, TypeOK, BookTypeOK, book
<1>3. \A f \in Fills : FillInv(f)'
  BY <1>1, FillFrame DEF IInv
<1>4. \A c \in Bids : BidInv(c)'
  BY <1>1, BidFrame DEF IInv
<1>. QED BY <1>1, <1>2, <1>3, <1>4, BookFrame DEF IInv

LEMMA AnyoneCancelsKeeps ==
  ASSUME IInv, NEW b \in Bids, AnyoneCancels(b)
  PROVE  IInv'
<1>1. /\ escrow[b] = "locked" /\ escrow' = [escrow EXCEPT ![b] = "returned"]
      /\ UNCHANGED <<book, clock, signed, tx, job, faults>>
      /\ fills' = fills /\ bids' = bids
  BY DEF AnyoneCancels, book
<1>2. TypeOK /\ \A c \in Bids : c # b => escrow'[c] = escrow[c]
  BY <1>1 DEF IInv, TypeOK
<1>3. TypeOK'
  BY <1>1 DEF IInv, TypeOK, BookTypeOK, book
<1>4. ASSUME NEW f \in Fills PROVE FillInv(f)'
  <2>1. fills[f].bid # 0 => fills[f].bid \in Bids
    BY <1>2 DEF TypeOK, BookTypeOK, Fill
  <2>. QED BY <1>1, <1>2, <2>1, FillFrame DEF IInv
<1>5. ASSUME NEW c \in Bids PROVE BidInv(c)'
  <2>1. CASE c = b
    <3>1. \A p \in BPhase : TagOK(p, b)'
      BY <1>1 DEF IInv, BidInv, TagOK, Over, Says, Phase, BPhase
    <3>2. BidInv(b) /\ escrow'[b] = "returned"
      BY <1>1, <1>2 DEF IInv, TypeOK
    <3>. QED BY <1>1, <2>1, <3>1, <3>2 DEF BidInv, Landed, BPhase
  <2>2. CASE c # b
    BY <1>1, <1>2, <2>2, BidFrame DEF IInv
  <2>. QED BY <2>1, <2>2
<1>. QED BY <1>1, <1>3, <1>4, <1>5, BookFrame DEF IInv

\* A step that changes the transactions of one tag changes no other tag.
LEMMA TagChange ==
  ASSUME TypeOK, NEW p, NEW r, <<p, r>> \in Tags, NEW v, tx' = [tx EXCEPT ![<<p, r>>] = v]
  PROVE  /\ tx'[<<p, r>>] = v
         /\ \A q, s : <<q, s>> \in Tags /\ (q # p \/ s # r) => tx'[<<q, s>>] = tx[<<q, s>>]
  BY DEF TypeOK

\* It lands or dies: the row and its task see nothing of it.
LEMMA DecidedTags ==
  ASSUME IInv, NEW p, NEW r, <<p, r>> \in Tags, tx[<<p, r>>].live > 0,
         UNCHANGED <<fills, bids, job>>,
         \/ tx' = [tx EXCEPT ![<<p, r>>].live = @ - 1, ![<<p, r>>].landed = @ + 1]
         \/ tx' = [tx EXCEPT ![<<p, r>>].live = @ - 1]
  PROVE  /\ tx' \in [Tags -> [live : Nat, landed : Nat]]
         /\ \A q, s : <<q, s>> \in Tags => TagOK(q, s)'
         /\ \A q, s : <<q, s>> \in Tags /\ (q # p \/ s # r) => tx'[<<q, s>>] = tx[<<q, s>>]
<1>1. TypeOK /\ tx[<<p, r>>] \in [live : Nat, landed : Nat]
  BY DEF IInv, TypeOK
<1>2. \A q, s : <<q, s>> \in Tags => TagOK(q, s)
  BY TagIs DEF IInv, FillInv, BidInv, FPhase, BPhase
<1>3. /\ tx[<<p, r>>].live = 1 /\ tx[<<p, r>>].landed = 0
      /\ Phase(r) = p /\ job[r] \in {"idle", "sent"} /\ ~Says(p, r)
  BY <1>1, <1>2 DEF TagOK
<1>4. tx'[<<p, r>>].live = 0 /\ tx'[<<p, r>>].landed \in {0, 1}
      /\ tx' \in [Tags -> [live : Nat, landed : Nat]]
  BY <1>1, <1>3 DEF TypeOK
<1>5. \A q, s : <<q, s>> \in Tags /\ (q # p \/ s # r) => tx'[<<q, s>>] = tx[<<q, s>>]
  BY <1>1 DEF TypeOK
<1>6. ASSUME NEW q, NEW s, <<q, s>> \in Tags PROVE TagOK(q, s)'
  <2>1. (Says(q, s)' <=> Says(q, s)) /\ (Over(q, s)' <=> Over(q, s)) /\ Phase(s)' = Phase(s)
    BY DEF Says, Over, Phase
  <2>2. CASE q = p /\ s = r
    BY <1>3, <1>4, <2>1, <2>2 DEF TagOK
  <2>3. CASE q # p \/ s # r
    BY <1>2, <1>5, <1>6, <2>1, <2>3 DEF TagOK
  <2>. QED BY <2>2, <2>3
<1>. QED BY <1>4, <1>5, <1>6

LEMMA TxLandsKeeps ==
  ASSUME IInv, NEW t \in Tags, TxLands(t)
  PROVE  IInv'
<1> DEFINE p == t[1]
           r == t[2]
<1>1. t = <<p, r>> /\ ((p \in FPhase /\ r \in Fills) \/ (p \in BPhase /\ r \in Bids))
  BY TagIs
<1>2. /\ tx[t].live > 0 /\ CanSucceed(t)
      /\ tx' = [tx EXCEPT ![t].live = @ - 1, ![t].landed = @ + 1]
      /\ UNCHANGED <<book, clock, signed, job, faults>> /\ fills' = fills /\ bids' = bids
  BY DEF TxLands, book
<1>3. /\ tx' \in [Tags -> [live : Nat, landed : Nat]]
      /\ \A q, s : <<q, s>> \in Tags => TagOK(q, s)'
      /\ \A q, s : <<q, s>> \in Tags /\ (q # p \/ s # r) => tx'[<<q, s>>] = tx[<<q, s>>]
  <2>1. <<p, r>> \in Tags /\ tx[<<p, r>>].live > 0
    BY <1>1, <1>2
  <2>2. tx' = [tx EXCEPT ![<<p, r>>].live = @ - 1, ![<<p, r>>].landed = @ + 1]
    BY <1>1, <1>2
  <2> HIDE DEF p, r
  <2>. QED BY ONLY IInv, <1>2, <2>1, <2>2, DecidedTags
<1>4. TypeOK
  BY DEF IInv
<1>5. /\ escrow' \in [Bids -> {"none", "locked", "finished", "returned"}]
      /\ \A b \in Bids : \/ escrow'[b] = escrow[b]
                         \/ escrow[b] = "locked" /\ escrow'[b] \in {"finished", "returned"}
      /\ p = "finish" => BidOf(t) = fills[r].bid /\ escrow'[fills[r].bid] = "finished"
      /\ p = "cancel_finish" => escrow'[r] = "finished"
      /\ p = "cancel" => escrow'[r] = "returned"
  <2>1. CASE p \in {"finish", "cancel_finish"}
    <3>1. escrow[BidOf(t)] = "locked" /\ escrow' = [escrow EXCEPT ![BidOf(t)] = "finished"]
      BY <1>2, <2>1 DEF TxLands, CanSucceed
    <3>2. CASE p = "finish"
      <4>1. r \in Fills /\ BidOf(t) = fills[r].bid
        BY <1>1, <3>2, RowsApart DEF BidOf, FPhase, BPhase, FillPhases, BidPhases
      <4>2. fills[r].phase = "finish"
        BY <1>1, <1>2, <3>2, <4>1, RowsApart DEF IInv, FillInv, TagOK, FPhase
      <4>3. fills[r].bid \in Bids
        BY <1>4, <4>1, <4>2 DEF IInv, FillInv, FillShape, TypeOK, BookTypeOK, Fill
      <4>. QED BY <1>4, <3>1, <3>2, <4>1, <4>3 DEF TypeOK
    <3>3. CASE p = "cancel_finish"
      <4>1. r \in Bids /\ BidOf(t) = r
        BY <1>1, <3>3, RowsApart DEF BidOf, FPhase, BPhase, FillPhases, BidPhases
      <4>. QED BY <1>4, <3>1, <3>3, <4>1 DEF TypeOK
    <3>. QED BY <2>1, <3>2, <3>3
  <2>2. CASE p = "cancel"
    <3>1. escrow[BidOf(t)] = "locked" /\ escrow' = [escrow EXCEPT ![BidOf(t)] = "returned"]
      BY <1>2, <2>2 DEF TxLands, CanSucceed
    <3>2. r \in Bids /\ BidOf(t) = r
      BY <1>1, <2>2, RowsApart DEF BidOf, FPhase, BPhase, FillPhases, BidPhases
    <3>. QED BY <1>4, <2>2, <3>1, <3>2 DEF TypeOK
  <2>3. CASE p \notin {"finish", "cancel_finish", "cancel"}
    BY <1>2, <1>4, <2>3 DEF TxLands, TypeOK
  <2>. QED BY <2>1, <2>2, <2>3
<1>6. TypeOK'
  BY <1>2, <1>3, <1>4, <1>5 DEF TypeOK, BookTypeOK, book
<1>7. ASSUME NEW f \in Fills PROVE FillInv(f)'
  <2>1. \A q \in FPhase : TagOK(q, f)'
    BY <1>3, TagIs
  <2>2. Landed("finish", f)' => escrow'[fills[f].bid] = "finished"
    <3>1. CASE p = "finish" /\ r = f
      BY <1>5, <3>1
    <3>2. CASE p # "finish" \/ r # f
      <4>1. <<"finish", f>> \in Tags
        BY TagIs DEF FPhase, FillPhases
      <4>2. Landed("finish", f)' => Landed("finish", f)
        BY <1>3, <3>2, <4>1 DEF Landed
      <4>3. Landed("finish", f) => fills[f].bid # 0 /\ escrow[fills[f].bid] = "finished"
        BY <4>1, RowsApart DEF IInv, FillInv, TagOK, Landed, Over, Says, FillShape, FPhase, FillPhases
      <4>4. fills[f].bid \in Bids \cup {0}
        BY <1>4 DEF TypeOK, BookTypeOK, Fill
      <4>. QED BY <1>5, <4>2, <4>3, <4>4
    <3>. QED BY <3>1, <3>2
  <2>. QED BY <1>2, <2>1, <2>2 DEF IInv, FillInv, FPhase
<1>8. ASSUME NEW b \in Bids PROVE BidInv(b)'
  <2>1. \A q \in BPhase : TagOK(q, b)'
    BY <1>3, TagIs
  <2>2. \A q \in {"cancel", "cancel_finish"} : Landed(q, b)' => Landed(q, b) \/ (p = q /\ r = b)
    BY <1>3, TagIs DEF Landed, BPhase, BidPhases
  <2>. QED BY <1>2, <1>5, <2>1, <2>2 DEF IInv, BidInv, BPhase
<1>. QED BY <1>2, <1>6, <1>7, <1>8, BookFrame DEF IInv

LEMMA TxDiesKeeps ==
  ASSUME IInv, NEW t \in Tags, TxDies(t)
  PROVE  IInv'
<1> DEFINE p == t[1]
           r == t[2]
<1>1. t = <<p, r>>
  BY TagIs
<1>2. /\ tx[t].live > 0 /\ tx' = [tx EXCEPT ![t].live = @ - 1]
      /\ UNCHANGED <<book, clock, escrow, signed, job>> /\ fills' = fills /\ bids' = bids
      /\ faults' \in {faults, faults + 1} /\ (faults' = faults \/ faults < MaxFaults)
  BY DEF TxDies, book, Fault
<1>3. /\ tx' \in [Tags -> [live : Nat, landed : Nat]]
      /\ \A q, s : <<q, s>> \in Tags => TagOK(q, s)'
      /\ \A q, s : <<q, s>> \in Tags /\ (q # p \/ s # r) => tx'[<<q, s>>] = tx[<<q, s>>]
  BY <1>1, <1>2, DecidedTags, ZenonT(30)
<1>4. TypeOK'
  BY <1>2, <1>3, MarketAssumption DEF IInv, TypeOK, BookTypeOK, book
<1>5. \A q, s : <<q, s>> \in Tags => (Landed(q, s)' => Landed(q, s))
  <2>1. tx'[t].landed = tx[t].landed
    BY <1>2 DEF IInv, TypeOK
  <2>. QED BY <1>1, <1>3, <2>1 DEF Landed
<1>6. ASSUME NEW f \in Fills PROVE FillInv(f)'
  <2>1. \A q \in FPhase : TagOK(q, f)'
    BY <1>3, TagIs
  <2>2. Landed("finish", f)' => Landed("finish", f)
    BY <1>5, TagIs DEF FPhase, FillPhases
  <2>. QED BY <1>2, <2>1, <2>2 DEF IInv, FillInv, FPhase
<1>7. ASSUME NEW b \in Bids PROVE BidInv(b)'
  <2>1. \A q \in BPhase : TagOK(q, b)'
    BY <1>3, TagIs
  <2>2. \A q \in {"cancel", "cancel_finish"} : Landed(q, b)' => Landed(q, b)
    BY <1>5, TagIs DEF BPhase, BidPhases
  <2>. QED BY <1>2, <2>1, <2>2 DEF IInv, BidInv, BPhase
<1>. QED BY <1>2, <1>4, <1>6, <1>7, BookFrame DEF IInv

-----------------------------------------------------------------------------
(* Steps of one row.                                                       *)

\* A fill's row after a step that gives it no order and no promise.
Follows(r2, r1) ==
    /\ r2.ask = r1.ask /\ r2.bid = r1.bid /\ r2.seller = r1.seller /\ r2.buyer = r1.buyer
    /\ r1.state # "none"
    /\ HasBid(r2) => HasBid(r1) /\ (At(r2) \in Early <=> At(r1) \in Early)
    /\ HasAsk(r2) => HasAsk(r1) /\ (At(r2) \in Early <=> At(r1) \in Early)
    /\ r1.ask = 0 /\ At(r2) \in Early => At(r1) \in Early

OnlyFill(f) ==
    /\ \A g \in Fills : g # f => fills'[g] = fills[g]
    /\ \A x \in Asks \cup Rows : x # f => job'[x] = job[x]
    /\ \A q, s : <<q, s>> \in Tags /\ s # f => tx'[<<q, s>>] = tx[<<q, s>>]
    /\ UNCHANGED <<escrow, signed>>

OnlyBid(b) ==
    /\ \A c \in Bids : c # b => bids'[c] = bids[c]
    /\ \A x \in Asks \cup Rows : x # b => job'[x] = job[x]
    /\ \A q, s : <<q, s>> \in Tags /\ s # b => tx'[<<q, s>>] = tx[<<q, s>>]
    /\ UNCHANGED <<escrow, signed>>

LEMMA OtherRows ==
  ASSUME IInv
  PROVE  /\ \A f \in Fills : OnlyFill(f) /\ UNCHANGED bids =>
                (\A b \in Bids : BidInv(b)') /\ (\A g \in Fills : g # f => FillInv(g)')
         /\ \A b \in Bids : OnlyBid(b) /\ UNCHANGED fills =>
                (\A f \in Fills : FillInv(f)') /\ (\A c \in Bids : c # b => BidInv(c)')
<1>1. ASSUME NEW f \in Fills, OnlyFill(f), NEW g \in Fills, g # f PROVE FillInv(g)'
  <2>1. \A p \in FPhase : tx'[<<p, g>>] = tx[<<p, g>>]
    BY <1>1, TagIs DEF OnlyFill
  <2>. QED BY <1>1, <2>1, RowsApart, FillFrame DEF OnlyFill, IInv
<1>2. ASSUME NEW f \in Fills, OnlyFill(f), UNCHANGED bids, NEW b \in Bids PROVE BidInv(b)'
  <2>1. \A p \in BPhase : tx'[<<p, b>>] = tx[<<p, b>>]
    BY <1>2, TagIs, RowsApart DEF OnlyFill
  <2>. QED BY <1>2, <2>1, RowsApart, BidFrame DEF OnlyFill, IInv
<1>3. ASSUME NEW b \in Bids, OnlyBid(b), UNCHANGED fills, NEW f \in Fills PROVE FillInv(f)'
  <2>1. \A p \in FPhase : tx'[<<p, f>>] = tx[<<p, f>>]
    BY <1>3, TagIs, RowsApart DEF OnlyBid
  <2>. QED BY <1>3, <2>1, RowsApart, FillFrame DEF OnlyBid, IInv
<1>4. ASSUME NEW b \in Bids, OnlyBid(b), NEW c \in Bids, c # b PROVE BidInv(c)'
  <2>1. \A p \in BPhase : tx'[<<p, c>>] = tx[<<p, c>>]
    BY <1>4, TagIs DEF OnlyBid
  <2>. QED BY <1>4, <2>1, RowsApart, BidFrame DEF OnlyBid, IInv
<1>. QED BY <1>1, <1>2, <1>3, <1>4

LEMMA FillStepKeeps ==
  ASSUME IInv, TypeOK', NEW f \in Fills, OnlyFill(f), UNCHANGED <<active, held, asks, bids>>,
         FillInv(f)', Follows(fills'[f], fills[f])
  PROVE  IInv'
<1>1. (\A b \in Bids : BidInv(b)') /\ (\A g \in Fills : FillInv(g)')
  BY OtherRows
<1>2. \A g \in Fills : g # f => fills'[g] = fills[g]
  BY DEF OnlyFill
<1>3. Known'
  BY <1>2 DEF Known, IInv, Follows
<1>4. ClaimsOK'
  <2>1. ASSUME NEW g \in Fills
        PROVE  /\ fills'[g].ask = fills[g].ask /\ fills'[g].bid = fills[g].bid
               /\ HasBid(fills'[g]) => HasBid(fills[g]) /\ (At(fills'[g]) \in Early <=> At(fills[g]) \in Early)
               /\ HasAsk(fills'[g]) => HasAsk(fills[g]) /\ (At(fills'[g]) \in Early <=> At(fills[g]) \in Early)
    BY <1>2 DEF Follows
  <2>. QED BY <2>1, ClaimsFrame DEF IInv
<1>5. PromisesAreHeld'
  <2>1. ASSUME NEW g \in Fills
        PROVE  /\ fills'[g].seller = fills[g].seller /\ fills'[g].ask = fills[g].ask
               /\ fills[g].ask = 0 /\ Promising(fills'[g]) => Promising(fills[g])
    <3>1. CASE g # f
      BY <1>2, <3>1
    <3>2. CASE g = f
      <4>1. Promising(fills[f]) <=> At(fills[f]) \in Early
        BY PromisingIs DEF IInv, FillInv, FillShape, TypeOK, BookTypeOK
      <4>2. Promising(fills'[f]) <=> At(fills'[f]) \in Early
        BY PromisingIs DEF FillInv, FillShape, TypeOK, BookTypeOK
      <4>. QED BY <3>2, <4>1, <4>2 DEF Follows
    <3>. QED BY <3>1, <3>2
  <2>2. \A o \in active' : held[o] \in Nat /\ held'[o] \in Nat /\ held[o] <= held'[o]
    BY DEF IInv, TypeOK, BookTypeOK
  <2>. QED BY <2>1, <2>2, PromisesFrame DEF IInv
<1>. QED BY <1>1, <1>3, <1>4, <1>5 DEF IInv

LEMMA BidStepKeeps ==
  ASSUME IInv, TypeOK', NEW b \in Bids, OnlyBid(b), UNCHANGED <<active, held, asks, fills>>,
         BidInv(b)', bids'[b].state # "none" => bids'[b].owner \in Owners,
         bids[b].state \in {"matched", "filled"} => bids'[b].state = bids[b].state
  PROVE  IInv'
<1>1. (\A f \in Fills : FillInv(f)') /\ (\A c \in Bids : BidInv(c)')
  BY OtherRows
<1>2. \A c \in Bids : c # b => bids'[c] = bids[c]
  BY DEF OnlyBid
<1>3. Known'
  BY <1>2 DEF Known, IInv
<1>4. ClaimsOK'
  <2>1. ASSUME NEW f \in Fills, HasBid(fills[f])
        PROVE  bids'[fills[f].bid].state = bids[fills[f].bid].state
    <3>1. fills[f].bid \in Bids /\ bids[fills[f].bid].state \in {"matched", "filled"}
      BY <2>1 DEF HasBid, IInv, TypeOK, BookTypeOK, Fill, ClaimsOK
    <3>. QED BY <1>2, <3>1
  <2>. QED BY <2>1, ClaimsFrame DEF IInv
<1>5. PromisesAreHeld'
  BY DEF IInv, PromisesAreHeld, Encumbrance
<1>. QED BY <1>1, <1>3, <1>4, <1>5 DEF IInv

\* What the invariant says of one fill and of one bid, unfolded.
LEMMA FillIs ==
  ASSUME IInv, NEW f \in Fills
  PROVE  /\ TypeOK /\ fills[f] \in Fill /\ f \in Rows /\ f \in Asks \cup Rows /\ f \notin Bids
         /\ FillInv(f) /\ FillShape(fills[f], job[f]) /\ Phase(f) = fills[f].phase
         /\ \A p \in FPhase : TagOK(p, f) /\ <<p, f>> \in Tags
         /\ \A p \in FPhase : tx[<<p, f>>] \in [live : Nat, landed : Nat]
         /\ job[f] \in {"idle", "cross", "begun", "sent", "refused"}
<1>1. TypeOK
  BY DEF IInv
<1>2. \A p \in FPhase : <<p, f>> \in Tags
  BY TagIs
<1>. QED BY <1>1, <1>2, RowsApart DEF IInv, FillInv, FPhase, TypeOK, BookTypeOK

LEMMA BidIs ==
  ASSUME IInv, NEW b \in Bids
  PROVE  /\ TypeOK /\ bids[b] \in Bid /\ b \in Rows /\ b \in Asks \cup Rows /\ b \notin Fills
         /\ BidInv(b) /\ BidShape(bids[b], job[b]) /\ Phase(b) = bids[b].phase
         /\ \A p \in BPhase : TagOK(p, b) /\ <<p, b>> \in Tags
         /\ \A p \in BPhase : tx[<<p, b>>] \in [live : Nat, landed : Nat]
         /\ job[b] \in {"idle", "cross", "begun", "sent", "refused"}
<1>1. TypeOK
  BY DEF IInv
<1>2. \A p \in BPhase : <<p, b>> \in Tags
  BY TagIs
<1>. QED BY <1>1, <1>2, RowsApart DEF IInv, BidInv, BPhase, TypeOK, BookTypeOK

LEMMA BeginFillKeeps ==
  ASSUME IInv, NEW f \in Fills, NEW p \in FPhase, Begin(f, p),
         job[f] = "idle", fills[f].phase = "none", fills[f].state = Rollback[p],
         p = "finish" => fills[f].bid # 0,
         p = "forward" => ~fills[f].forwarded,
         p = "overshoot" => fills[f].forwarded /\ fills[f].over /\ ~fills[f].overshot
  PROVE  IInv'
<1>1. /\ fills' = [fills EXCEPT ![f].phase = p] /\ job' = [job EXCEPT ![f] = "begun"]
      /\ UNCHANGED <<bids, active, held, asks, clock, escrow, signed, tx, faults>>
  BY RowsApart DEF Begin, SetPhase, SetJob
<1>2. TypeOK'
  <2>1. [fills[f] EXCEPT !.phase = p] \in Fill
    BY FillIs DEF Fill, FPhase
  <2>2. fills' \in [Fills -> Fill] /\ job' \in [Asks \cup Rows -> {"idle", "cross", "begun", "sent", "refused"}]
    BY <1>1, <2>1, FillIs DEF TypeOK, BookTypeOK
  <2>. QED BY <1>1, <2>2, FillIs DEF TypeOK, BookTypeOK
<1>3. /\ fills'[f] = [fills[f] EXCEPT !.phase = p] /\ job'[f] = "begun"
      /\ OnlyFill(f)
  BY <1>1, FillIs DEF TypeOK, BookTypeOK, OnlyFill
<1>4. /\ fills[f] \in Fill /\ fills'[f].phase = p /\ fills'[f].state = fills[f].state
      /\ fills'[f].ask = fills[f].ask /\ fills'[f].bid = fills[f].bid
      /\ fills'[f].seller = fills[f].seller /\ fills'[f].buyer = fills[f].buyer
      /\ fills'[f].forwarded = fills[f].forwarded /\ fills'[f].overshot = fills[f].overshot
      /\ fills'[f].over = fills[f].over
      /\ fills[f].state \in {"funds_pending", "asset_moved", "refund_pending"}
      /\ At(fills'[f]) = At(fills[f]) /\ At(fills[f]) = fills[f].state
  BY <1>3, FillIs, RollbackIs DEF Fill, At, FPhase, FillPhases
<1>5. FillShape(fills'[f], job'[f])
  BY <1>3, <1>4, FillIs, RollbackIs DEF FillShape, FPhase, FillPhases
<1>6. ASSUME NEW q \in FPhase PROVE TagOK(q, f)'
  <2>1. TagOK(q, f) /\ q # "none" /\ Phase(f) = "none" /\ Phase(f)' = p
    BY <1>4, FillIs, RowsApart DEF Phase, FPhase
  <2>2. (Says(q, f)' <=> Says(q, f)) /\ (Over(q, f)' <=> Over(q, f))
    BY <1>1, <1>4 DEF Says, Over, FPhase, FillPhases
  <2>3. tx[<<q, f>>].live = 0
    BY <2>1, FillIs DEF TagOK
  <2>. QED BY <1>1, <2>1, <2>2, <2>3 DEF TagOK
<1>7. FillInv(f)'
  BY <1>1, <1>4, <1>5, <1>6, FillIs DEF FillInv, Landed, FPhase
<1>8. Follows(fills'[f], fills[f])
  BY <1>4 DEF Follows, HasBid, HasAsk
<1>. QED BY <1>1, <1>2, <1>3, <1>7, <1>8, FillStepKeeps

LEMMA BeginBidKeeps ==
  ASSUME IInv, NEW b \in Bids, NEW p \in BPhase, Begin(b, p),
         job[b] = "idle", bids[b].phase = "none", bids[b].state = "cancelling",
         p = "cancel_refund" <=> bids[b].finished
  PROVE  IInv'
<1>1. /\ bids' = [bids EXCEPT ![b].phase = p] /\ job' = [job EXCEPT ![b] = "begun"]
      /\ UNCHANGED <<fills, active, held, asks, clock, escrow, signed, tx, faults>>
  BY DEF Begin, SetPhase, SetJob
<1>2. TypeOK'
  <2>1. [bids[b] EXCEPT !.phase = p] \in Bid
    BY BidIs DEF Bid, BPhase
  <2>2. bids' \in [Bids -> Bid] /\ job' \in [Asks \cup Rows -> {"idle", "cross", "begun", "sent", "refused"}]
    BY <1>1, <2>1, BidIs DEF TypeOK, BookTypeOK
  <2>. QED BY <1>1, <2>2, BidIs DEF TypeOK, BookTypeOK
<1>3. bids'[b] = [bids[b] EXCEPT !.phase = p] /\ job'[b] = "begun" /\ OnlyBid(b)
  BY <1>1, BidIs DEF TypeOK, BookTypeOK, OnlyBid
<1>4. /\ bids[b] \in Bid /\ bids'[b].phase = p /\ bids'[b].state = bids[b].state
      /\ bids'[b].owner = bids[b].owner /\ bids'[b].finished = bids[b].finished
  BY <1>3, BidIs DEF Bid
<1>5. BidShape(bids'[b], job'[b])
  BY <1>3, <1>4, BidIs DEF BidShape, BPhase, BidPhases
<1>6. ASSUME NEW q \in BPhase PROVE TagOK(q, b)'
  <2>1. TagOK(q, b) /\ q # "none" /\ Phase(b) = "none" /\ Phase(b)' = p
    BY <1>4, BidIs, RowsApart DEF Phase, BPhase
  <2>2. (Says(q, b)' <=> Says(q, b)) /\ (Over(q, b)' <=> Over(q, b))
    BY <1>1, <1>4 DEF Says, Over, BPhase, BidPhases
  <2>3. tx[<<q, b>>].live = 0
    BY <2>1, BidIs DEF TagOK
  <2>. QED BY <1>1, <2>1, <2>2, <2>3 DEF TagOK
<1>7. BidInv(b)'
  BY <1>1, <1>4, <1>5, <1>6, BidIs DEF BidInv, Landed, BPhase
<1>8. bids'[b].owner \in Owners
  BY <1>4 DEF IInv, Known
<1>. QED BY <1>1, <1>2, <1>3, <1>4, <1>7, <1>8, BidStepKeeps

LEMMA SubmitKeeps ==
  ASSUME IInv, NEW r \in Rows, Submit(r)
  PROVE  IInv'
<1> DEFINE p == Phase(r)
<1>1. /\ job[r] = "begun" /\ job' = [job EXCEPT ![r] = "sent"]
      /\ tx' = [tx EXCEPT ![<<p, r>>].live = @ + 1]
      /\ UNCHANGED <<book, clock, escrow, signed, faults>> /\ fills' = fills /\ bids' = bids
  BY DEF Submit, SetJob, book
<1>2. p # "none" /\ <<p, r>> \in Tags /\ TagOK(p, r)
  <2>1. CASE r \in Fills
    <3>1. p = fills[r].phase /\ p \in FPhase
      BY <1>1, <2>1, FillIs DEF FillShape, Fill, FPhase
    <3>. QED BY <2>1, <3>1, FillIs DEF FPhase
  <2>2. CASE r \in Bids
    <3>1. p = bids[r].phase /\ p \in BPhase
      BY <1>1, <2>2, BidIs DEF BidShape, Bid, BPhase
    <3>. QED BY <2>2, <3>1, BidIs DEF BPhase
  <2>. QED BY <2>1, <2>2 DEF Rows
<1>3. ~Over(p, r) /\ ~Says(p, r)
  <2>1. CASE r \in Fills
    <3>1. p = fills[r].phase /\ p \in FPhase
      BY <1>1, <2>1, FillIs DEF FillShape, Fill, FPhase
    <3>. QED BY <2>1, <3>1, FillIs, FillNotYet DEF Over
  <2>2. CASE r \in Bids
    <3>1. p = bids[r].phase /\ p \in BPhase
      BY <1>1, <2>2, BidIs DEF BidShape, Bid, BPhase
    <3>. QED BY <2>2, <3>1, BidIs, BidNotYet DEF Over
  <2>. QED BY <2>1, <2>2 DEF Rows
<1>4. TypeOK /\ tx[<<p, r>>] \in [live : Nat, landed : Nat]
  BY <1>2 DEF IInv, TypeOK
<1>5. tx[<<p, r>>].live = 0 /\ tx[<<p, r>>].landed = 0
  BY <1>1, <1>2, <1>3, <1>4 DEF TagOK
<1>6. /\ tx' \in [Tags -> [live : Nat, landed : Nat]]
      /\ tx'[<<p, r>>].live = 1 /\ tx'[<<p, r>>].landed = 0
      /\ \A q, s : <<q, s>> \in Tags /\ (q # p \/ s # r) => tx'[<<q, s>>] = tx[<<q, s>>]
  <2> HIDE DEF p
  <2>. QED BY <1>1, <1>2, <1>4, <1>5 DEF TypeOK
<1>7. TypeOK'
  BY <1>1, <1>4, <1>6 DEF TypeOK, BookTypeOK, book, Rows
<1>8. job'[r] = "sent" /\ \A x \in Asks \cup Rows : x # r => job'[x] = job[x]
  BY <1>1, <1>4 DEF TypeOK, Rows
<1>9. ASSUME NEW q, <<q, r>> \in Tags PROVE TagOK(q, r)' /\ (Landed(q, r)' <=> Landed(q, r))
  <2>1. TagOK(q, r)
    BY <1>9, TagIs, FillIs, BidIs
  <2>2. (Says(q, r)' <=> Says(q, r)) /\ (Over(q, r)' <=> Over(q, r)) /\ Phase(r)' = Phase(r)
    BY <1>1 DEF Says, Over, Phase
  <2>3. CASE q = p
    BY <1>3, <1>5, <1>6, <1>8, <2>2, <2>3 DEF TagOK, Landed
  <2>4. CASE q # p
    <3>1. tx'[<<q, r>>] = tx[<<q, r>>]
      BY <1>6, <1>9, <2>4
    <3>. QED BY <1>1, <1>8, <2>1, <2>2, <2>4, <3>1 DEF TagOK, Landed
  <2>. QED BY <2>3, <2>4
<1>10. CASE r \in Fills
  <2>1. OnlyFill(r)
    BY <1>1, <1>6, <1>8 DEF OnlyFill
  <2>2. FillShape(fills'[r], job'[r])
    BY <1>1, <1>8, <1>10, FillIs DEF FillShape
  <2>3. \A q \in FPhase : TagOK(q, r)' /\ (Landed(q, r)' <=> Landed(q, r))
    BY <1>9, <1>10, TagIs
  <2>4. FillInv(r)'
    BY <1>1, <1>10, <2>2, <2>3, FillIs DEF FillInv, FPhase, FillPhases
  <2>. QED BY <1>1, <1>7, <1>10, <2>1, <2>4, OtherRows, BookFrame DEF IInv
<1>11. CASE r \in Bids
  <2>1. OnlyBid(r)
    BY <1>1, <1>6, <1>8 DEF OnlyBid
  <2>2. BidShape(bids'[r], job'[r])
    BY <1>1, <1>8, <1>11, BidIs DEF BidShape
  <2>3. \A q \in BPhase : TagOK(q, r)' /\ (Landed(q, r)' <=> Landed(q, r))
    BY <1>9, <1>11, TagIs
  <2>4. BidInv(r)'
    BY <1>1, <1>11, <2>2, <2>3, BidIs DEF BidInv, BPhase, BidPhases
  <2>. QED BY <1>1, <1>7, <1>11, <2>1, <2>4, OtherRows, BookFrame DEF IInv
<1>. QED BY <1>10, <1>11 DEF Rows

JobPlaces == {"idle", "cross", "begun", "sent", "refused"}

\* What a fill's row says of a phase, and a bid's.
FSays(p, r) ==
    \/ p = "finish" /\ r.bid # 0 /\ At(r) \in PaidStages
    \/ p = "forward" /\ r.forwarded
    \/ p = "overshoot" /\ r.overshot
    \/ p = "refund" /\ r.state = "refunded"

BSays(p, r) ==
    \/ p = "cancel_finish" /\ r.finished
    \/ p = "cancel_refund" /\ r.finished /\ r.state \in Ended
BOver(p, r) == BSays(p, r) \/ (p \in {"cancel", "cancel_refund"} /\ r.state \in Ended)

JobStep(r, j) ==
    /\ job' \in [Asks \cup Rows -> JobPlaces]
    /\ job'[r] = j /\ \A x \in Asks \cup Rows : x # r => job'[x] = job[x]

LEMMA SetJobIs ==
  ASSUME TypeOK, NEW r \in Asks \cup Rows, NEW j \in JobPlaces,
         SetJob(r, j) \/ (UNCHANGED job /\ j = job[r])
  PROVE  JobStep(r, j)
  BY DEF TypeOK, SetJob, JobStep, JobPlaces

\* A step that writes a fill's row and moves its task, and signs nothing.
LEMMA FillRowKeeps ==
  ASSUME IInv, NEW f \in Fills, NEW r \in Fill, NEW j \in JobPlaces,
         fills' = [fills EXCEPT ![f] = r], JobStep(f, j),
         UNCHANGED <<bids, active, held, asks, clock, escrow, signed, tx>>,
         faults' \in 0 .. MaxFaults,
         FillShape(r, j), Follows(r, fills[f]),
         \A p \in FPhase :
            /\ tx[<<p, f>>].live > 0 => r.phase = p /\ j \in {"idle", "sent"}
            /\ tx[<<p, f>>].landed > 0 => FSays(p, r) \/ (r.phase = p /\ j # "begun")
            /\ FSays(p, r) => tx[<<p, f>>].landed > 0,
         r.bid = 0 /\ At(r) \in PaidStages => signed[f] \in {"full", "short"},
         r.bid = 0 /\ r.state = "failed" => signed[f] = "dead"
  PROVE  IInv'
<1>1. fills'[f] = r /\ fills' \in [Fills -> Fill] /\ \A g \in Fills : g # f => fills'[g] = fills[g]
  BY FillIs DEF TypeOK, BookTypeOK
<1>2. TypeOK'
  BY <1>1, FillIs DEF TypeOK, BookTypeOK, JobStep, JobPlaces
<1>3. OnlyFill(f)
  BY <1>1 DEF OnlyFill, JobStep
<1>4. ASSUME NEW p \in FPhase PROVE TagOK(p, f)'
  <2>1. TagOK(p, f) /\ Phase(f)' = r.phase /\ job'[f] = j
    BY <1>1, FillIs, RowsApart DEF Phase, JobStep
  <2>2. (Says(p, f)' <=> FSays(p, r)) /\ (Over(p, f)' <=> FSays(p, r))
    BY <1>1 DEF Says, FSays, Over, FPhase, FillPhases
  <2>. QED BY <2>1, <2>2 DEF TagOK
<1>5. FillInv(f)'
  <2>1. r.bid = fills[f].bid
    BY DEF Follows
  <2>. QED BY <1>1, <1>4, <2>1, FillIs DEF FillInv, Landed, FPhase, JobStep
<1>. QED BY <1>1, <1>2, <1>3, <1>5, FillStepKeeps

LEMMA BidRowKeeps ==
  ASSUME IInv, NEW b \in Bids, NEW r \in Bid, NEW j \in JobPlaces,
         bids' = [bids EXCEPT ![b] = r], JobStep(b, j),
         UNCHANGED <<fills, active, held, asks, clock, escrow, signed, tx>>,
         faults' \in 0 .. MaxFaults,
         BidShape(r, j), r.state # "none" => r.owner \in Owners,
         bids[b].state \in {"matched", "filled"} => r.state = bids[b].state,
         \A p \in BPhase :
            /\ tx[<<p, b>>].live > 0 => r.phase = p /\ j \in {"idle", "sent"}
            /\ tx[<<p, b>>].landed > 0 => BOver(p, r) \/ (r.phase = p /\ j # "begun")
            /\ BSays(p, r) => tx[<<p, b>>].landed > 0,
         r.state \notin {"none", "pending_escrow"} => signed[b] # "waiting"
  PROVE  IInv'
<1>1. bids'[b] = r /\ bids' \in [Bids -> Bid] /\ \A c \in Bids : c # b => bids'[c] = bids[c]
  BY BidIs DEF TypeOK, BookTypeOK
<1>2. TypeOK'
  BY <1>1, BidIs DEF TypeOK, BookTypeOK, JobStep, JobPlaces
<1>3. OnlyBid(b)
  BY <1>1 DEF OnlyBid, JobStep
<1>4. ASSUME NEW p \in BPhase PROVE TagOK(p, b)'
  <2>1. TagOK(p, b) /\ Phase(b)' = r.phase /\ job'[b] = j
    BY <1>1, BidIs, RowsApart DEF Phase, JobStep
  <2>2. (Says(p, b)' <=> BSays(p, r)) /\ (Over(p, b)' <=> BOver(p, r))
    BY <1>1 DEF Says, BSays, BOver, Over, BPhase, BidPhases
  <2>. QED BY <2>1, <2>2 DEF TagOK
<1>5. BidInv(b)'
  BY <1>1, <1>4, BidIs DEF BidInv, Landed, BPhase, JobStep
<1>. QED BY <1>1, <1>2, <1>3, <1>5, BidStepKeeps

\* The tag conditions above, read off a row that does not change.
LEMMA FillTagsRead ==
  ASSUME IInv, NEW f \in Fills, NEW p \in FPhase
  PROVE  /\ tx[<<p, f>>].live \in Nat /\ tx[<<p, f>>].landed \in Nat
         /\ tx[<<p, f>>].live + tx[<<p, f>>].landed <= 1
         /\ tx[<<p, f>>].live > 0 => fills[f].phase = p /\ job[f] \in {"idle", "sent"}
         /\ tx[<<p, f>>].landed > 0 => FSays(p, fills[f]) \/ (fills[f].phase = p /\ job[f] # "begun")
         /\ FSays(p, fills[f]) => tx[<<p, f>>].landed > 0
         /\ Landed(p, f) <=> tx[<<p, f>>].landed > 0
<1>1. TagOK(p, f) /\ Phase(f) = fills[f].phase /\ tx[<<p, f>>] \in [live : Nat, landed : Nat]
  BY FillIs
<1>2. (Says(p, f) <=> FSays(p, fills[f])) /\ (Over(p, f) <=> FSays(p, fills[f]))
  BY DEF Says, FSays, Over, FPhase, FillPhases
<1>. QED BY <1>1, <1>2 DEF TagOK, Landed

LEMMA BidTagsRead ==
  ASSUME IInv, NEW b \in Bids, NEW p \in BPhase
  PROVE  /\ tx[<<p, b>>].live \in Nat /\ tx[<<p, b>>].landed \in Nat
         /\ tx[<<p, b>>].live + tx[<<p, b>>].landed <= 1
         /\ tx[<<p, b>>].live > 0 => bids[b].phase = p /\ job[b] \in {"idle", "sent"}
         /\ tx[<<p, b>>].landed > 0 => BOver(p, bids[b]) \/ (bids[b].phase = p /\ job[b] # "begun")
         /\ BSays(p, bids[b]) => tx[<<p, b>>].landed > 0
         /\ Landed(p, b) <=> tx[<<p, b>>].landed > 0
<1>1. TagOK(p, b) /\ Phase(b) = bids[b].phase /\ tx[<<p, b>>] \in [live : Nat, landed : Nat]
  BY BidIs
<1>2. (Says(p, b) <=> BSays(p, bids[b])) /\ (Over(p, b) <=> BOver(p, bids[b]))
  BY DEF Says, BSays, BOver, Over, BPhase, BidPhases
<1>. QED BY <1>1, <1>2 DEF TagOK, Landed

\* A fill's row with its intent cleared and nothing in the air, and a bid's.
LEMMA FillCleared ==
  ASSUME IInv, NEW f \in Fills, NEW j \in JobPlaces, fills[f].phase # "none",
         \A p \in FPhase : p = fills[f].phase => tx[<<p, f>>].live = 0 /\ tx[<<p, f>>].landed = 0,
         fills' = [fills EXCEPT ![f] = [fills[f] EXCEPT !.phase = "none",
                                                        !.state = Rollback[fills[f].phase]]],
         JobStep(f, j), j = "idle" \/ (j = "refused" /\ fills[f].phase = "finish"),
         UNCHANGED <<bids, active, held, asks, clock, escrow, signed, tx>>,
         faults' \in 0 .. MaxFaults
  PROVE  IInv'
<1> DEFINE o == fills[f]
           r == [o EXCEPT !.phase = "none", !.state = Rollback[o.phase]]
<1>1. o \in Fill /\ FillShape(o, job[f]) /\ o.phase \in FPhase
  BY FillIs DEF Fill, FPhase
<1>2. /\ Rollback[o.phase] \in {"funds_pending", "asset_moved", "refund_pending"}
      /\ At(o) = Rollback[o.phase] /\ o.state # "none"
  BY <1>1, RollbackIs DEF FillShape, At, FPhase, FillPhases
<1>3. /\ r.phase = "none" /\ r.state = Rollback[o.phase] /\ r.ask = o.ask /\ r.bid = o.bid
      /\ r.seller = o.seller /\ r.buyer = o.buyer /\ r.over = o.over
      /\ r.forwarded = o.forwarded /\ r.overshot = o.overshot /\ r \in Fill
      /\ At(r) = At(o)
  BY <1>1, <1>2, ZenonT(30) DEF Fill, At, FillStates, FillPhases
<1>4. FillShape(r, j)
  BY <1>1, <1>2, <1>3, RollbackIs DEF FillShape, FPhase, FillPhases
<1>5. Follows(r, o)
  BY <1>2, <1>3 DEF Follows, HasBid, HasAsk
<1>6. ASSUME NEW p \in FPhase
      PROVE  /\ tx[<<p, f>>].live > 0 => r.phase = p /\ j \in {"idle", "sent"}
             /\ tx[<<p, f>>].landed > 0 => FSays(p, r) \/ (r.phase = p /\ j # "begun")
             /\ FSays(p, r) => tx[<<p, f>>].landed > 0
  <2>1. FSays(p, r) <=> FSays(p, o)
    BY <1>2, <1>3, <1>1, RollbackIs DEF FSays, FillShape, FPhase, FillPhases
  <2>. QED BY <2>1, FillTagsRead
<1>7. /\ r.bid = 0 /\ At(r) \in PaidStages => signed[f] \in {"full", "short"}
      /\ r.state # "failed"
  BY <1>2, <1>3, FillIs DEF FillInv
<1> HIDE DEF r
<1>. QED BY <1>3, <1>4, <1>5, <1>6, <1>7, FillRowKeeps DEF r

LEMMA BidCleared ==
  ASSUME IInv, NEW b \in Bids, bids[b].phase # "none",
         \A p \in BPhase : p = bids[b].phase => tx[<<p, b>>].live = 0 /\ tx[<<p, b>>].landed = 0,
         bids' = [bids EXCEPT ![b].phase = "none"], JobStep(b, "idle"),
         UNCHANGED <<fills, active, held, asks, clock, escrow, signed, tx>>,
         faults' \in 0 .. MaxFaults
  PROVE  IInv'
<1> DEFINE o == bids[b]
           r == [o EXCEPT !.phase = "none"]
<1>1. o \in Bid /\ BidShape(o, job[b]) /\ o.phase \in BPhase
  BY BidIs DEF Bid, BPhase
<1>2. r.phase = "none" /\ r.state = o.state /\ r.owner = o.owner /\ r.finished = o.finished /\ r \in Bid
  BY <1>1 DEF Bid, BidPhases
<1>3. BidShape(r, "idle") /\ o.state = "cancelling"
  BY <1>1, <1>2 DEF BidShape, BPhase, BidPhases
<1>4. ASSUME NEW p \in BPhase
      PROVE  /\ tx[<<p, b>>].live > 0 => r.phase = p
             /\ tx[<<p, b>>].landed > 0 => BOver(p, r)
             /\ BSays(p, r) => tx[<<p, b>>].landed > 0
  <2>1. (BSays(p, r) <=> BSays(p, o)) /\ (BOver(p, r) <=> BOver(p, o))
    BY <1>2 DEF BSays, BOver
  <2>. QED BY <2>1, BidTagsRead
<1>5. signed[b] # "waiting" /\ r.owner \in Owners
  BY <1>2, <1>3, BidIs DEF BidInv, IInv, Known
<1>6. bids' = [bids EXCEPT ![b] = r]
  OBVIOUS
<1>7. "idle" \in JobPlaces
  BY DEF JobPlaces
<1> HIDE DEF r
<1>. QED BY <1>2, <1>3, <1>4, <1>5, <1>6, <1>7, BidRowKeeps

\* A fill's phase landed, and a bid's.
LEMMA FillDoneKeeps ==
  ASSUME IInv, NEW f \in Fills, fills[f].phase # "none", Landed(Phase(f), f),
         job[f] # "begun", PhaseDone(f), JobStep(f, "idle"),
         UNCHANGED <<active, held, asks, clock, escrow, signed, tx, faults>>
  PROVE  IInv'
<1> DEFINE o == fills[f]
<1>1. o \in Fill /\ FillShape(o, job[f]) /\ o.phase \in FPhase /\ faults \in 0 .. MaxFaults
  BY FillIs DEF Fill, FPhase, TypeOK
<1>2. tx[<<o.phase, f>>].landed > 0 /\ tx[<<o.phase, f>>].live = 0
  BY <1>1, FillIs, FillTagsRead
<1> DEFINE s == CASE o.phase = "finish" -> "funded"
                  [] o.phase = "refund" -> "refunded"
                  [] OTHER -> "asset_moved"
           r == [o EXCEPT !.phase = "none", !.state = s,
                          !.forwarded = @ \/ o.phase = "forward",
                          !.overshot = @ \/ o.phase = "overshoot"]
<1>3. fills' = [fills EXCEPT ![f] = r] /\ UNCHANGED bids
  <2>1. FillPhaseDone(f)
    BY FillIs DEF PhaseDone
  <2>2. CASE o.phase = "finish"
    <3>1. fills' = [fills EXCEPT ![f] = [o EXCEPT !.phase = "none", !.state = "funded"]]
      BY <2>1, <2>2 DEF FillPhaseDone
    <3>2. r = [o EXCEPT !.phase = "none", !.state = "funded"]
      BY <1>1, <2>2 DEF Fill
    <3>. QED BY <2>1, <3>1, <3>2 DEF FillPhaseDone
  <2>3. CASE o.phase = "refund"
    <3>1. fills' = [fills EXCEPT ![f] = [o EXCEPT !.phase = "none", !.state = "refunded"]]
      BY <2>1, <2>3 DEF FillPhaseDone
    <3>2. r = [o EXCEPT !.phase = "none", !.state = "refunded"]
      BY <1>1, <2>3 DEF Fill
    <3>. QED BY <2>1, <3>1, <3>2 DEF FillPhaseDone
  <2>4. CASE o.phase = "forward"
    <3>1. fills' = [fills EXCEPT ![f] = [o EXCEPT !.phase = "none", !.state = "asset_moved",
                                                  !.forwarded = TRUE]]
      BY <2>1, <2>4 DEF FillPhaseDone
    <3>2. r = [o EXCEPT !.phase = "none", !.state = "asset_moved", !.forwarded = TRUE]
      BY <1>1, <2>4 DEF Fill
    <3>. QED BY <2>1, <3>1, <3>2 DEF FillPhaseDone
  <2>5. CASE o.phase = "overshoot"
    <3>1. fills' = [fills EXCEPT ![f] = [o EXCEPT !.phase = "none", !.state = "asset_moved",
                                                  !.overshot = TRUE]]
      BY <2>1, <2>5 DEF FillPhaseDone
    <3>2. r = [o EXCEPT !.phase = "none", !.state = "asset_moved", !.overshot = TRUE]
      BY <1>1, <2>5 DEF Fill
    <3>. QED BY <2>1, <3>1, <3>2 DEF FillPhaseDone
  <2>. QED BY <1>1, <2>2, <2>3, <2>4, <2>5 DEF FPhase, FillPhases
<1>4. /\ r.phase = "none" /\ r.state = s /\ At(r) = s /\ r \in Fill
      /\ r.ask = o.ask /\ r.bid = o.bid /\ r.seller = o.seller /\ r.buyer = o.buyer /\ r.over = o.over
      /\ r.forwarded = (o.forwarded \/ o.phase = "forward")
      /\ r.overshot = (o.overshot \/ o.phase = "overshoot")
  BY <1>1, ZenonT(30) DEF Fill, At, FillStates, FillPhases
<1>5. /\ o.phase = "finish" => s = "funded" /\ At(o) = "funds_pending" /\ o.bid # 0
      /\ o.phase = "refund" => s = "refunded" /\ At(o) = "refund_pending"
      /\ o.phase \in {"forward", "overshoot"} => s = "asset_moved" /\ At(o) = "asset_moved"
      /\ o.phase \in {"finish", "refund", "forward", "overshoot"} /\ o.state # "none"
      /\ ~(o.forwarded /\ o.phase \in {"finish", "refund"})
      /\ ~(o.overshot /\ o.phase \in {"finish", "refund"})
  BY <1>1, RollbackIs DEF FillShape, At, FPhase, FillPhases, Moved
<1> HIDE DEF s, r, o
<1>6. FillShape(r, "idle")
  BY <1>1, <1>4, <1>5 DEF FillShape, Moved
<1>7. Follows(r, o)
  BY <1>4, <1>5 DEF Follows, HasBid, HasAsk, Early, Buying
<1>8. ASSUME NEW p \in FPhase
      PROVE  /\ tx[<<p, f>>].live > 0 => r.phase = p
             /\ tx[<<p, f>>].landed > 0 => FSays(p, r)
             /\ FSays(p, r) => tx[<<p, f>>].landed > 0
  <2>1. CASE p = o.phase
    <3>1. FSays(p, r)
      BY <1>4, <1>5, <2>1 DEF FSays, PaidStages
    <3>. QED BY <1>2, <2>1, <3>1
  <2>2. CASE p # o.phase
    <3>1. o.state # "refunded" /\ (r.state = "refunded" => o.phase = "refund")
      BY <1>1, <1>4, <1>5, RollbackIs DEF FillShape
    <3>2. At(r) \in PaidStages /\ (o.phase # "finish" => At(o) \in PaidStages)
      BY <1>4, <1>5 DEF PaidStages
    <3>3. FSays(p, r) <=> FSays(p, o)
      BY <1>4, <2>2, <3>1, <3>2 DEF FSays
    <3>. QED BY <2>2, <3>3, FillTagsRead DEF o
  <2>. QED BY <2>1, <2>2
<1>9. r.bid = 0 /\ At(r) \in PaidStages => signed[f] \in {"full", "short"}
  BY <1>4, <1>5, FillIs, ZenonT(30) DEF FillInv, PaidStages, o
<1>10. r.state # "failed" /\ "idle" \in JobPlaces
  BY <1>4, <1>5 DEF JobPlaces
<1>. QED BY <1>1, <1>3, <1>4, <1>6, <1>7, <1>8, <1>9, <1>10, FillRowKeeps DEF o

LEMMA BidDoneKeeps ==
  ASSUME IInv, NEW b \in Bids, bids[b].phase # "none", Landed(Phase(b), b),
         job[b] # "begun", PhaseDone(b), JobStep(b, "idle"),
         UNCHANGED <<active, held, asks, clock, escrow, signed, tx, faults>>
  PROVE  IInv'
<1> DEFINE o == bids[b]
           r == IF o.phase = "cancel_finish" THEN [o EXCEPT !.phase = "none", !.finished = TRUE]
                ELSE [o EXCEPT !.phase = "none", !.state = FinalCancelState(b)]
<1>1. o \in Bid /\ BidShape(o, job[b]) /\ o.phase \in BPhase /\ faults \in 0 .. MaxFaults
  BY BidIs DEF Bid, BPhase, TypeOK
<1>2. tx[<<o.phase, b>>].landed > 0 /\ tx[<<o.phase, b>>].live = 0
  BY <1>1, BidIs, BidTagsRead
<1>3. bids' = [bids EXCEPT ![b] = r] /\ UNCHANGED fills
  BY BidIs DEF PhaseDone, BidPhaseDone
<1>4. FinalCancelState(b) \in Ended
  BY DEF FinalCancelState, Ended
<1>5. /\ r.phase = "none" /\ r.owner = o.owner /\ r \in Bid /\ o.state = "cancelling"
      /\ o.phase = "cancel_finish" => r.state = o.state /\ r.finished /\ ~o.finished
      /\ o.phase = "cancel" => r.state \in Ended /\ r.finished = o.finished /\ ~o.finished
      /\ o.phase = "cancel_refund" => r.state \in Ended /\ r.finished = o.finished /\ o.finished
      /\ o.phase \in {"cancel", "cancel_finish", "cancel_refund"}
  BY <1>1, <1>4 DEF Bid, BidShape, BPhase, BidPhases, OrderStates, Ended
<1> HIDE DEF r
<1>6. BidShape(r, "idle")
  BY <1>5 DEF BidShape
<1>7. ASSUME NEW p \in BPhase
      PROVE  /\ tx[<<p, b>>].live > 0 => r.phase = p
             /\ tx[<<p, b>>].landed > 0 => BOver(p, r)
             /\ BSays(p, r) => tx[<<p, b>>].landed > 0
  <2>1. CASE p = o.phase
    <3>1. BOver(p, r)
      BY <1>5, <2>1 DEF BOver, BSays
    <3>. QED BY <1>2, <2>1, <3>1
  <2>2. CASE p # o.phase
    <3>1. (BSays(p, r) => BSays(p, o)) /\ (BOver(p, o) => BOver(p, r))
      BY <1>5, <2>2 DEF BOver, BSays, Ended
    <3>. QED BY <2>2, <3>1, BidTagsRead
  <2>. QED BY <2>1, <2>2
<1>8. signed[b] # "waiting" /\ r.owner \in Owners
  BY <1>5, BidIs DEF BidInv, IInv, Known
<1>9. "idle" \in JobPlaces
  BY DEF JobPlaces
<1>. QED BY <1>1, <1>3, <1>5, <1>6, <1>7, <1>8, <1>9, BidRowKeeps

LEMMA ConfirmedKeeps ==
  ASSUME IInv, NEW r \in Rows, Confirmed(r)
  PROVE  IInv'
<1>1. /\ job[r] = "sent" /\ Landed(Phase(r), r) /\ PhaseDone(r) /\ SetJob(r, "idle")
      /\ UNCHANGED <<active, held, asks, clock, escrow, signed, tx, faults>>
  BY DEF Confirmed
<1>2. JobStep(r, "idle")
  BY <1>1, SetJobIs DEF IInv, JobPlaces, Rows
<1>3. CASE r \in Fills
  <2>1. fills[r].phase # "none"
    BY <1>1, <1>3, FillIs DEF FillShape
  <2>. QED BY <1>1, <1>2, <1>3, <2>1, FillDoneKeeps
<1>4. CASE r \in Bids
  <2>1. bids[r].phase # "none"
    BY <1>1, <1>4, BidIs DEF BidShape
  <2>. QED BY <1>1, <1>2, <1>4, <2>1, BidDoneKeeps
<1>. QED BY <1>3, <1>4 DEF Rows

LEMMA ResolveKeeps ==
  ASSUME IInv, NEW r \in Rows, Resolve(r)
  PROVE  IInv'
<1>1. /\ job[r] = "idle" /\ Phase(r) # "none"
      /\ UNCHANGED <<active, held, asks, clock, escrow, signed, tx, job, faults>>
  BY DEF Resolve
<1>2. JobStep(r, "idle") /\ faults' \in 0 .. MaxFaults
  BY <1>1, SetJobIs DEF IInv, JobPlaces, Rows, TypeOK
<1>3. CASE Landed(Phase(r), r) /\ PhaseDone(r)
  <2>1. CASE r \in Fills
    BY <1>1, <1>2, <1>3, <2>1, FillIs, FillDoneKeeps
  <2>2. CASE r \in Bids
    BY <1>1, <1>2, <1>3, <2>2, BidIs, BidDoneKeeps
  <2>. QED BY <2>1, <2>2 DEF Rows
<1>4. CASE /\ tx[<<Phase(r), r>>].live = 0 /\ ~Landed(Phase(r), r)
           /\ IF r \in Bids THEN SetPhase(r, "none")
              ELSE /\ fills' = [fills EXCEPT ![r].phase = "none",
                                             ![r].state = Rollback[fills[r].phase]]
                   /\ UNCHANGED bids
  <2>1. CASE r \in Fills
    <3>1. Phase(r) = fills[r].phase
      BY <2>1, FillIs
    <3>2. \A p \in FPhase : p = fills[r].phase => tx[<<p, r>>].live = 0 /\ tx[<<p, r>>].landed = 0
      BY <1>4, <2>1, <3>1, FillTagsRead
    <3>3. fills' = [fills EXCEPT ![r] = [fills[r] EXCEPT !.phase = "none",
                                                         !.state = Rollback[fills[r].phase]]]
          /\ UNCHANGED bids
      BY <1>4, <2>1, RowsApart
    <3>4. "idle" \in JobPlaces
      BY DEF JobPlaces
    <3>. QED BY <1>1, <1>2, <2>1, <3>1, <3>2, <3>3, <3>4, FillCleared
  <2>2. CASE r \in Bids
    <3>1. Phase(r) = bids[r].phase
      BY <2>2, BidIs
    <3>2. \A p \in BPhase : p = bids[r].phase => tx[<<p, r>>].live = 0 /\ tx[<<p, r>>].landed = 0
      BY <1>4, <2>2, <3>1, BidTagsRead
    <3>3. bids' = [bids EXCEPT ![r].phase = "none"] /\ UNCHANGED fills
      BY <1>4, <2>2 DEF SetPhase
    <3>. QED BY <1>1, <1>2, <2>2, <3>1, <3>2, <3>3, BidCleared
  <2>. QED BY <2>1, <2>2 DEF Rows
<1>. QED BY <1>3, <1>4 DEF Resolve

\* A transaction that was not sent, or that is known to have failed: the intent
\* is cleared.
LEMMA ClearedKeeps ==
  ASSUME IInv, NEW r \in Rows, NEW j \in {"idle", "refused"}, job[r] \in {"begun", "sent"},
         job[r] = "sent" => tx[<<Phase(r), r>>].live = 0 /\ ~Landed(Phase(r), r),
         SetPhase(r, "none"), JobStep(r, j), j = "refused" => Phase(r) = "finish",
         UNCHANGED <<active, held, asks, clock, escrow, signed, tx>>,
         faults' \in 0 .. MaxFaults
  PROVE  IInv'
<1>1. j \in JobPlaces
  BY DEF JobPlaces
<1>2. CASE r \in Fills
  <2> DEFINE o == fills[r]
  <2>1. /\ o \in Fill /\ o.phase \in FPhase /\ Phase(r) = o.phase /\ FillShape(o, job[r])
        /\ o.state = Rollback[o.phase]
    BY <1>2, FillIs DEF FillShape, Fill, FPhase
  <2>2. ~FSays(o.phase, o)
    BY <2>1, RollbackIs DEF FSays, FillShape, At, PaidStages, FPhase, FillPhases
  <2>3. \A p \in FPhase : p = o.phase => tx[<<p, r>>].live = 0 /\ tx[<<p, r>>].landed = 0
    <3> SUFFICES ASSUME NEW p \in FPhase, p = o.phase
                 PROVE  tx[<<p, r>>].live = 0 /\ tx[<<p, r>>].landed = 0
      OBVIOUS
    <3>1. CASE job[r] = "begun"
      BY <1>2, <2>2, <3>1, FillTagsRead
    <3>2. CASE job[r] = "sent"
      BY <1>2, <2>1, <3>2, FillTagsRead
    <3>. QED BY <3>1, <3>2
  <2>4. /\ fills' = [fills EXCEPT ![r] = [o EXCEPT !.phase = "none", !.state = Rollback[o.phase]]]
        /\ UNCHANGED bids
    <3>1. [o EXCEPT !.phase = "none"] = [o EXCEPT !.phase = "none", !.state = Rollback[o.phase]]
      BY <2>1 DEF Fill
    <3>2. fills' = [fills EXCEPT ![r] = [o EXCEPT !.phase = "none"]] /\ UNCHANGED bids
      BY <1>2, RowsApart DEF SetPhase
    <3>. QED BY <3>1, <3>2
  <2>5. o.phase # "none" /\ (j = "idle" \/ (j = "refused" /\ o.phase = "finish"))
    BY <2>1 DEF FPhase
  <2> HIDE DEF o
  <2>. QED BY <1>1, <1>2, <2>3, <2>4, <2>5, FillCleared DEF o
<1>3. CASE r \in Bids
  <2> DEFINE o == bids[r]
  <2>1. o \in Bid /\ o.phase \in BPhase /\ Phase(r) = o.phase /\ BidShape(o, job[r])
    BY <1>3, BidIs DEF BidShape, Bid, BPhase
  <2>2. j = "idle"
    BY <2>1 DEF BPhase, BidPhases
  <2>3. ~BOver(o.phase, o)
    BY <2>1 DEF BOver, BSays, BidShape, Ended, BPhase, BidPhases
  <2>4. \A p \in BPhase : p = o.phase => tx[<<p, r>>].live = 0 /\ tx[<<p, r>>].landed = 0
    <3> SUFFICES ASSUME NEW p \in BPhase, p = o.phase
                 PROVE  tx[<<p, r>>].live = 0 /\ tx[<<p, r>>].landed = 0
      OBVIOUS
    <3>1. CASE job[r] = "begun"
      BY <1>3, <2>3, <3>1, BidTagsRead
    <3>2. CASE job[r] = "sent"
      BY <1>3, <2>1, <3>2, BidTagsRead
    <3>. QED BY <3>1, <3>2
  <2>5. bids' = [bids EXCEPT ![r].phase = "none"] /\ UNCHANGED fills
    BY <1>3 DEF SetPhase
  <2>6. o.phase # "none"
    BY <2>1 DEF BPhase
  <2>. QED BY <1>3, <2>2, <2>4, <2>5, <2>6, BidCleared
<1>. QED BY <1>2, <1>3 DEF Rows

LEMMA NotSubmittedKeeps ==
  ASSUME IInv, NEW r \in Rows, NotSubmitted(r)
  PROVE  IInv'
<1>1. PICK j \in {"idle", "refused"} : SetJob(r, j) /\ (j = "refused" => Phase(r) = "finish")
  BY DEF NotSubmitted
<1>2. JobStep(r, j) /\ faults' \in 0 .. MaxFaults
  BY <1>1, SetJobIs, MarketAssumption DEF IInv, JobPlaces, Rows, TypeOK, NotSubmitted, Fault
<1>. QED BY <1>1, <1>2, ClearedKeeps DEF NotSubmitted

LEMMA RejectedKeeps ==
  ASSUME IInv, NEW r \in Rows, Rejected(r)
  PROVE  IInv'
<1>1. PICK j \in {"idle", "refused"} : SetJob(r, j) /\ (j = "refused" => Phase(r) = "finish")
  BY DEF Rejected
<1>2. JobStep(r, j) /\ faults' \in 0 .. MaxFaults
  BY <1>1, SetJobIs DEF IInv, JobPlaces, Rows, TypeOK, Rejected
<1>. QED BY <1>1, <1>2, ClearedKeeps DEF Rejected

LEMMA FaultCounted ==
  ASSUME TypeOK, Fault
  PROVE  faults' \in 0 .. MaxFaults
  BY MarketAssumption DEF TypeOK, Fault

\* A row whose task stops where it is.
LEMMA StoppedKeeps ==
  ASSUME IInv, NEW r \in Asks \cup Rows, JobStep(r, "idle"),
         UNCHANGED <<book, clock, escrow, signed, tx>>, faults' \in 0 .. MaxFaults
  PROVE  IInv'
<1>1. UNCHANGED <<fills, bids, active, held, asks, clock, escrow, signed, tx>>
  BY DEF book
<1>2. TypeOK'
  BY <1>1 DEF IInv, TypeOK, BookTypeOK, JobStep, JobPlaces
<1>3. ASSUME NEW f \in Fills PROVE FillInv(f)'
  <2>1. FillShape(fills'[f], job'[f])
    BY <1>1, FillIs DEF FillShape, JobStep
  <2>2. ASSUME NEW p \in FPhase PROVE TagOK(p, f)'
    BY <1>1, FillIs DEF TagOK, Says, Over, Phase, JobStep
  <2>. QED BY <1>1, <2>1, <2>2, FillIs DEF FillInv, Landed, FPhase
<1>4. ASSUME NEW b \in Bids PROVE BidInv(b)'
  <2>1. BidShape(bids'[b], job'[b])
    BY <1>1, BidIs DEF BidShape, JobStep
  <2>2. ASSUME NEW p \in BPhase PROVE TagOK(p, b)'
    BY <1>1, BidIs DEF TagOK, Says, Over, Phase, JobStep
  <2>. QED BY <1>1, <2>1, <2>2, BidIs DEF BidInv, Landed, BPhase
<1>. QED BY <1>2, <1>3, <1>4, BookFrame DEF IInv

LEMMA CrashKeeps ==
  ASSUME IInv, NEW r \in Asks \cup Rows, Crash(r)
  PROVE  IInv'
  BY SetJobIs, FaultCounted, StoppedKeeps DEF IInv, Crash, JobPlaces

LEMMA UnknownKeeps ==
  ASSUME IInv, NEW r \in Rows, Unknown(r)
  PROVE  IInv'
<1>1. /\ job[r] = "sent" /\ JobStep(r, "idle") /\ faults' \in 0 .. MaxFaults
      /\ UNCHANGED <<active, held, asks, clock, escrow, signed, tx>>
  BY SetJobIs, FaultCounted DEF IInv, Unknown, JobPlaces, Rows
<1>2. CASE r \notin Fills
  BY <1>1, <1>2, StoppedKeeps DEF Unknown, book, Rows
<1>3. CASE r \in Fills
  <2> DEFINE o == fills[r]
             n == [o EXCEPT !.state = "indeterminate"]
  <2>1. fills' = [fills EXCEPT ![r] = n] /\ UNCHANGED bids
    BY <1>3 DEF Unknown
  <2>2. /\ o \in Fill /\ o.phase \in FPhase /\ FillShape(o, job[r])
        /\ o.state = Rollback[o.phase] /\ o.state # "none" /\ o.state # "indeterminate"
        /\ o.state \in {"funds_pending", "asset_moved", "refund_pending"}
    BY <1>1, <1>3, FillIs, RollbackIs DEF FillShape, Fill, FPhase, FillPhases
  <2>3. /\ n \in Fill /\ n.phase = o.phase /\ n.state = "indeterminate" /\ n.ask = o.ask /\ n.bid = o.bid
        /\ n.seller = o.seller /\ n.buyer = o.buyer /\ n.over = o.over
        /\ n.forwarded = o.forwarded /\ n.overshot = o.overshot
        /\ At(n) = At(o)
    BY <2>2 DEF Fill, At, FillStates
  <2> HIDE DEF n, o
  <2>4. FillShape(n, "idle") /\ Follows(n, o)
    BY <2>2, <2>3 DEF FillShape, Follows, HasBid, HasAsk, FPhase
  <2>5. ASSUME NEW p \in FPhase
        PROVE  /\ tx[<<p, r>>].live > 0 => n.phase = p
               /\ tx[<<p, r>>].landed > 0 => FSays(p, n) \/ n.phase = p
               /\ FSays(p, n) => tx[<<p, r>>].landed > 0
    <3>1. FSays(p, n) <=> FSays(p, o)
      BY <2>2, <2>3 DEF FSays
    <3>. QED BY <1>3, <2>3, <3>1, FillTagsRead DEF o
  <2>6. n.bid = 0 /\ At(n) \in PaidStages => signed[r] \in {"full", "short"}
    BY <1>3, <2>3, FillIs, ZenonT(30) DEF FillInv, o
  <2>7. n.state # "failed" /\ "idle" \in JobPlaces
    BY <2>3 DEF JobPlaces
  <2>. QED BY <1>1, <1>3, <2>1, <2>3, <2>4, <2>5, <2>6, <2>7, FillRowKeeps DEF o
<1>. QED BY <1>2, <1>3

-----------------------------------------------------------------------------
(* advance_bid                                                             *)

LEMMA CancelUnopenedKeeps ==
  ASSUME IInv, NEW b \in Bids, CancelUnopened(b)
  PROVE  IInv'
<1> DEFINE o == bids[b]
           r == [o EXCEPT !.state = "cancelled", !.reason = "unopened"]
<1>1. /\ job[b] = "idle" /\ o.state = "pending_escrow" /\ signed[b] # "waiting"
      /\ bids' = [bids EXCEPT ![b] = r]
      /\ UNCHANGED <<fills, active, held, asks, clock, escrow, signed, tx, job, faults>>
  BY BidIs DEF CancelUnopened
<1>2. JobStep(b, "idle") /\ faults' \in 0 .. MaxFaults /\ "idle" \in JobPlaces
  BY <1>1, SetJobIs DEF IInv, JobPlaces, Rows, TypeOK
<1>3. o \in Bid /\ BidShape(o, job[b])
  BY BidIs
<1>4. /\ r \in Bid /\ r.state = "cancelled" /\ r.owner = o.owner /\ r.phase = o.phase
      /\ r.finished = o.finished /\ o.phase = "none" /\ ~o.finished
  BY <1>1, <1>3 DEF Bid, BidShape, OrderStates, Ended
<1> HIDE DEF r
<1>5. BidShape(r, "idle") /\ r.owner \in Owners
  BY <1>1, <1>4 DEF BidShape, IInv, Known
<1>6. ASSUME NEW p \in BPhase
      PROVE  /\ tx[<<p, b>>].live > 0 => r.phase = p
             /\ tx[<<p, b>>].landed > 0 => BOver(p, r)
             /\ BSays(p, r) => tx[<<p, b>>].landed > 0
  <2>1. ~BOver(p, o) /\ ~BSays(p, r)
    BY <1>1, <1>4 DEF BOver, BSays, Ended
  <2>. QED BY <1>4, <2>1, BidTagsRead DEF BPhase
<1>. QED BY <1>1, <1>2, <1>4, <1>5, <1>6, BidRowKeeps

\* A bid's row moves on before its escrow is being returned.
LEMMA BidMovesKeeps ==
  ASSUME IInv, NEW b \in Bids, NEW r \in Bid, NEW j \in {"idle", "cross", "refused"},
         bids[b].phase = "none", bids[b].state \notin {"matched", "filled"},
         bids[b].finished => r.state \in {"cancelling"} \cup Ended,
         BOver("cancel", bids[b]) => r.state \in Ended,
         r.state \in Ended /\ bids[b].finished => Landed("cancel_refund", b),
         bids' = [bids EXCEPT ![b] = r], JobStep(b, j),
         r.phase = "none", r.finished = bids[b].finished,
         r.state # "none" => r.owner \in Owners,
         r.state \notin {"none", "pending_escrow"} => signed[b] # "waiting",
         UNCHANGED <<fills, active, held, asks, clock, escrow, signed, tx, faults>>
  PROVE  IInv'
<1> DEFINE o == bids[b]
<1>1. o \in Bid /\ BidShape(o, job[b]) /\ faults' \in 0 .. MaxFaults /\ j \in JobPlaces
  BY BidIs DEF TypeOK, JobPlaces
<1>2. BidShape(r, j)
  BY <1>1 DEF BidShape
<1>3. ASSUME NEW p \in BPhase
      PROVE  /\ tx[<<p, b>>].live > 0 => r.phase = p /\ j \in {"idle", "sent"}
             /\ tx[<<p, b>>].landed > 0 => BOver(p, r) \/ (r.phase = p /\ j # "begun")
             /\ BSays(p, r) => tx[<<p, b>>].landed > 0
  <2>1. ~(tx[<<p, b>>].live > 0) /\ (tx[<<p, b>>].landed > 0 => BOver(p, o))
    BY BidTagsRead DEF BPhase
  <2>2. BOver(p, o) => BOver(p, r)
    BY DEF BOver, BSays
  <2>3. BSays(p, r) => BSays(p, o) \/ (p = "cancel_refund" /\ Landed(p, b))
    BY DEF BSays
  <2>. QED BY <2>1, <2>2, <2>3, BidTagsRead
<1>. QED BY <1>1, <1>2, <1>3, BidRowKeeps

LEMMA OpenBidKeeps ==
  ASSUME IInv, NEW b \in Bids, OpenBid(b)
  PROVE  IInv'
<1> DEFINE o == bids[b]
           r == [o EXCEPT !.state = "open"]
<1>1. /\ job[b] = "idle" /\ o.state = "pending_escrow" /\ signed[b] = "full"
      /\ bids' = [bids EXCEPT ![b] = r] /\ JobStep(b, "cross")
      /\ UNCHANGED <<fills, active, held, asks, clock, escrow, signed, tx, faults>>
  BY BidIs, SetJobIs DEF OpenBid, MarkBidOpen, JobPlaces
<1>2. o \in Bid /\ BidShape(o, job[b])
  BY BidIs
<1>3. /\ r \in Bid /\ r.state = "open" /\ r.owner = o.owner /\ r.phase = "none"
      /\ ~o.finished /\ r.finished = o.finished /\ o.phase = "none" /\ r.owner \in Owners
  BY <1>1, <1>2 DEF Bid, BidShape, OrderStates, Ended, IInv, Known
<1> HIDE DEF r
<1>4. ~BOver("cancel", o) /\ r.state \notin Ended
  BY <1>1, <1>3 DEF BOver, BSays, Ended
<1>. QED BY <1>1, <1>3, <1>4, BidMovesKeeps

LEMMA BeginCancelBidKeeps ==
  ASSUME IInv, NEW b \in Bids, NEW why \in {"user", "expired"}, BeginCancelBid(b, why),
         UNCHANGED <<job, clock, escrow, signed, tx, faults>>
  PROVE  IInv'
<1> DEFINE o == bids[b]
           r == [o EXCEPT !.state = "cancelling", !.reason = why]
<1>1. /\ o.state = "open" /\ bids' = [bids EXCEPT ![b] = r]
      /\ UNCHANGED <<fills, active, held, asks, clock, escrow, signed, tx, faults>>
  BY BidIs DEF BeginCancelBid
<1>2. o \in Bid /\ BidShape(o, job[b]) /\ JobStep(b, job[b]) /\ signed[b] # "waiting"
  BY <1>1, BidIs, SetJobIs DEF JobPlaces, BidInv
<1>3. /\ r \in Bid /\ r.state = "cancelling" /\ r.owner = o.owner /\ r.phase = "none"
      /\ ~o.finished /\ r.finished = o.finished /\ o.phase = "none" /\ r.owner \in Owners
      /\ job[b] \in {"idle", "cross", "refused"}
  BY <1>1, <1>2, BidIs DEF Bid, BidShape, OrderStates, Ended, IInv, Known
<1> HIDE DEF r
<1>4. ~BOver("cancel", o) /\ r.state \notin Ended
  BY <1>1, <1>3 DEF BOver, BSays, Ended
<1>. QED BY <1>1, <1>2, <1>3, <1>4, BidMovesKeeps

LEMMA AdvanceCancellingKeeps ==
  ASSUME IInv, NEW b \in Bids, AdvanceCancelling(b)
  PROVE  IInv'
<1> DEFINE o == bids[b]
<1>1. job[b] = "idle" /\ o.state = "cancelling" /\ o.phase = "none"
  BY DEF AdvanceCancelling
<1>2. CASE \/ o.finished /\ Begin(b, "cancel_refund")
           \/ ~o.finished /\ Begin(b, "cancel")
           \/ ~o.finished /\ Begin(b, "cancel_finish")
  <2>1. {"cancel_refund", "cancel", "cancel_finish"} \subseteq BPhase
    BY DEF BPhase, BidPhases
  <2>. QED BY <1>1, <1>2, <2>1, BeginBidKeeps
<1>3. CASE /\ ~o.finished
           /\ bids' = [bids EXCEPT ![b].state = FinalCancelState(b)]
           /\ UNCHANGED <<active, held, asks, fills, clock, escrow, signed, tx, job, faults>>
  <2> DEFINE r == [o EXCEPT !.state = FinalCancelState(b)]
  <2>1. bids' = [bids EXCEPT ![b] = r]
    BY <1>3
  <2>2. o \in Bid /\ BidShape(o, job[b]) /\ JobStep(b, "idle") /\ signed[b] # "waiting"
    BY <1>1, <1>3, BidIs, SetJobIs DEF JobPlaces, BidInv
  <2>3. FinalCancelState(b) \in Ended
    BY DEF FinalCancelState, Ended
  <2>4. /\ r \in Bid /\ r.state \in Ended /\ r.owner = o.owner /\ r.phase = "none"
        /\ r.finished = o.finished /\ r.owner \in Owners
    BY <1>1, <2>2, <2>3 DEF Bid, OrderStates, Ended, IInv, Known
  <2> HIDE DEF r
  <2>. QED BY <1>1, <1>3, <2>1, <2>2, <2>4, BidMovesKeeps
<1>. QED BY <1>2, <1>3 DEF AdvanceCancelling

LEMMA PlaceBidKeeps ==
  ASSUME IInv, NEW b \in Bids, NEW o \in Owners, NEW p \in Prices, PlaceBid(b, o, p)
  PROVE  IInv'
<1> DEFINE r == [NoBid EXCEPT !.state = "pending_escrow", !.owner = o, !.price = p]
<1>1. /\ bids[b].state = "none" /\ bids' = [bids EXCEPT ![b] = r]
      /\ UNCHANGED <<fills, active, held, asks, job, clock, escrow, signed, tx, faults>>
  BY DEF PlaceBid, CreatePendingBid, Fresh, SettlementUnchanged
<1>2. bids[b] \in Bid /\ BidShape(bids[b], job[b]) /\ JobStep(b, job[b])
  BY <1>1, BidIs, SetJobIs DEF JobPlaces
<1>3. /\ r \in Bid /\ r.state = "pending_escrow" /\ r.owner = o /\ r.phase = "none" /\ ~r.finished
  <2>1. p \in 0 .. MaxPrice
    BY BookAssumption DEF BookAssumption
  <2>. QED BY <2>1 DEF Bid, NoBid, OrderStates, BidPhases
<1>4. /\ bids[b].phase = "none" /\ bids[b].finished = FALSE
      /\ job[b] \in {"idle", "cross", "refused"}
  BY <1>1, <1>2, BidIs DEF BidShape, Ended, Bid
<1>5. r.finished = FALSE
  BY DEF NoBid
<1> HIDE DEF r
<1>6. ~BOver("cancel", bids[b]) /\ r.state \notin Ended
  BY <1>1, <1>3 DEF BOver, BSays, Ended
<1>. QED BY <1>1, <1>2, <1>3, <1>4, <1>5, <1>6, BidMovesKeeps

-----------------------------------------------------------------------------
(* settle_fill                                                             *)

LEMMA ReadyIs ==
  ASSUME IInv, NEW f \in Fills, NEW s \in FillStates \ {"none", "indeterminate"}, Ready(f, s)
  PROVE  /\ fills[f] \in Fill /\ fills[f].state = s /\ fills[f].phase = "none" /\ At(fills[f]) = s
         /\ job[f] = "idle"
         /\ \A p \in FPhase : /\ tx[<<p, f>>].live = 0
                              /\ tx[<<p, f>>].landed > 0 <=> FSays(p, fills[f])
<1>1. fills[f] \in Fill /\ fills[f].state = s /\ fills[f].phase = "none" /\ job[f] = "idle"
  BY FillIs DEF Ready
<1>2. ASSUME NEW p \in FPhase
      PROVE  tx[<<p, f>>].live = 0 /\ (tx[<<p, f>>].landed > 0 <=> FSays(p, fills[f]))
  BY <1>1, FillTagsRead DEF FPhase
<1>. QED BY <1>1, <1>2 DEF At

LEMMA RefundKeeps ==
  ASSUME IInv, NEW f \in Fills, Refund(f)
  PROVE  IInv'
<1>1. "refund_pending" \in FillStates \ {"none", "indeterminate"} /\ "refund" \in FPhase
  BY DEF FillStates, FPhase, FillPhases
<1>. QED BY <1>1, RollbackIs, BeginFillKeeps DEF Refund, Ready

\* A fill at rest that moves to a stage where it owes or has what it had.
LEMMA FillMovesKeeps ==
  ASSUME IInv, NEW f \in Fills, NEW r \in Fill, NEW s \in FillStates \ {"none", "indeterminate"},
         Ready(f, s), fills' = [fills EXCEPT ![f] = r],
         r.state \notin {"none", "indeterminate", "refunded"}, r.phase = "none",
         r.ask = fills[f].ask, r.bid = fills[f].bid, r.seller = fills[f].seller,
         r.buyer = fills[f].buyer, r.over = fills[f].over,
         r.forwarded = fills[f].forwarded, r.overshot = fills[f].overshot,
         s # "refunded", Follows(r, fills[f]),
         r.bid # 0 => (r.state \in PaidStages <=> s \in PaidStages),
         r.forwarded \/ r.overshot => r.state \in Moved,
         r.state \in {"paid", "mirrored"} => r.forwarded /\ (r.over => r.overshot),
         r.bid = 0 /\ r.state \in PaidStages => signed[f] \in {"full", "short"},
         r.bid = 0 /\ r.state = "failed" => signed[f] = "dead",
         UNCHANGED <<bids, active, held, asks, clock, escrow, signed, tx, job, faults>>
  PROVE  IInv'
<1> DEFINE o == fills[f]
<1>1. /\ o \in Fill /\ o.state = s /\ At(o) = s /\ JobStep(f, "idle")
      /\ faults' \in 0 .. MaxFaults /\ "idle" \in JobPlaces
  BY ReadyIs, FillIs, SetJobIs DEF JobPlaces, TypeOK
<1>2. At(r) = r.state
  BY DEF At
<1>3. FillShape(r, "idle")
  BY <1>2 DEF FillShape
<1>4. \A p \in FPhase : FSays(p, r) <=> FSays(p, o)
  BY <1>1, <1>2 DEF FSays
<1>5. ASSUME NEW p \in FPhase
      PROVE  /\ tx[<<p, f>>].live > 0 => r.phase = p
             /\ tx[<<p, f>>].landed > 0 => FSays(p, r)
             /\ FSays(p, r) => tx[<<p, f>>].landed > 0
  BY <1>4, ReadyIs
<1>. QED BY <1>1, <1>2, <1>3, <1>5, FillRowKeeps

LEMMA PayKeeps ==
  ASSUME IInv, NEW f \in Fills, Pay(f)
  PROVE  IInv'
<1> DEFINE o == fills[f]
           r == [o EXCEPT !.state = "paid"]
<1>1. Ready(f, "asset_moved") /\ "asset_moved" \in FillStates \ {"none", "indeterminate"}
  BY DEF Pay, FillStates
<1>2. o \in Fill /\ o.state = "asset_moved" /\ o.phase = "none" /\ At(o) = "asset_moved" /\ job[f] = "idle"
  BY <1>1, ReadyIs
<1>3. CASE ~o.forwarded /\ Begin(f, "forward")
  <2>1. "forward" \in FPhase
    BY DEF FPhase, FillPhases
  <2>. QED BY <1>2, <1>3, <2>1, RollbackIs, BeginFillKeeps
<1>4. CASE o.forwarded /\ o.over /\ ~o.overshot /\ Begin(f, "overshoot")
  <2>1. "overshoot" \in FPhase
    BY DEF FPhase, FillPhases
  <2>. QED BY <1>2, <1>4, <2>1, RollbackIs, BeginFillKeeps
<1>5. CASE /\ o.forwarded /\ (o.over => o.overshot)
           /\ fills' = [fills EXCEPT ![f].state = "paid"]
           /\ UNCHANGED <<active, held, asks, bids, job>> /\ LedgerUnchanged
  <2>1. fills' = [fills EXCEPT ![f] = r] /\ UNCHANGED <<bids, active, held, asks, clock, escrow, signed, tx, job, faults>>
    BY <1>5 DEF LedgerUnchanged
  <2>2. /\ r \in Fill /\ r.state = "paid" /\ r.phase = "none" /\ r.ask = o.ask /\ r.bid = o.bid
        /\ r.seller = o.seller /\ r.buyer = o.buyer /\ r.over = o.over
        /\ r.forwarded = o.forwarded /\ r.overshot = o.overshot /\ At(r) = "paid"
    BY <1>2 DEF Fill, FillStates, At
  <2> HIDE DEF r
  <2>3. Follows(r, o)
    BY <1>2, <2>2 DEF Follows, HasBid, HasAsk, Buying, Early
  <2>4. r.bid = 0 => signed[f] \in {"full", "short"}
    BY <1>2, <2>2, FillIs, ZenonT(30) DEF FillInv, PaidStages
  <2>. QED BY <1>1, <1>2, <1>5, <2>1, <2>2, <2>3, <2>4, FillMovesKeeps DEF PaidStages, Moved
<1>. QED BY <1>3, <1>4, <1>5 DEF Pay

LEMMA MirrorKeeps ==
  ASSUME IInv, NEW f \in Fills, Mirror(f)
  PROVE  IInv'
<1> DEFINE o == fills[f]
<1>1. Ready(f, "paid") /\ "paid" \in FillStates \ {"none", "indeterminate"}
  BY DEF Mirror, FillStates
<1>2. o \in Fill /\ o.state = "paid" /\ o.phase = "none" /\ At(o) = "paid" /\ FillShape(o, job[f])
  BY <1>1, ReadyIs, FillIs
<1>3. PICK side \in {"seller", "buyer"} : MarkSideMirrored(f, side)
  BY DEF Mirror
<1> DEFINE s == IF o.mirrored \cup {side} = {"seller", "buyer"} THEN "mirrored" ELSE "paid"
           r == [o EXCEPT !.mirrored = @ \cup {side}, !.state = s]
<1>4. fills' = [fills EXCEPT ![f] = r] /\ UNCHANGED <<bids, active, held, asks, clock, escrow, signed, tx, job, faults>>
  <2>1. UNCHANGED <<bids, active, held, asks, clock, escrow, signed, tx, job, faults>>
    BY <1>3 DEF Mirror, MarkSideMirrored, LedgerUnchanged
  <2>2. r = [o EXCEPT !.mirrored = @ \cup {side},
                      !.state = IF o.mirrored \cup {side} = {"seller", "buyer"} /\ @ = "paid" THEN "mirrored" ELSE @]
    BY <1>2
  <2>. QED BY <1>3, <2>1, <2>2 DEF MarkSideMirrored
<1>5. /\ r \in Fill /\ r.state \in {"paid", "mirrored"} /\ r.phase = "none" /\ r.ask = o.ask /\ r.bid = o.bid
      /\ r.seller = o.seller /\ r.buyer = o.buyer /\ r.over = o.over
      /\ r.forwarded = o.forwarded /\ r.overshot = o.overshot /\ At(r) = r.state
  BY <1>2 DEF Fill, FillStates, At
<1> HIDE DEF r
<1>6. Follows(r, o)
  BY <1>2, <1>5 DEF Follows, HasBid, HasAsk, Buying, Early
<1>7. r.bid = 0 => signed[f] \in {"full", "short"}
  BY <1>2, <1>5, FillIs, ZenonT(30) DEF FillInv, PaidStages
<1>8. r.forwarded /\ (r.over => r.overshot)
  BY <1>2, <1>5 DEF FillShape
<1>. QED BY <1>1, <1>4, <1>5, <1>6, <1>7, <1>8, FillMovesKeeps DEF PaidStages, Moved

-----------------------------------------------------------------------------
(* Steps of several rows.                                                  *)

\* A fill at rest, or not made yet, that goes to another stage at rest.
LEMMA FillMoved ==
  ASSUME IInv, NEW f \in Fills, NEW r \in Fill, fills'[f] = r,
         fills[f].phase = "none", fills[f].state \notin {"indeterminate", "refunded"},
         job'[f] \in {"idle", "cross"}, UNCHANGED <<escrow, signed, tx>>,
         r.state \notin {"none", "indeterminate", "refunded"}, r.phase = "none",
         fills[f].state = "none" \/ r.bid = fills[f].bid,
         r.forwarded = fills[f].forwarded, r.overshot = fills[f].overshot,
         r.bid # 0 => (r.state \in PaidStages <=> fills[f].state \in PaidStages),
         r.forwarded \/ r.overshot => r.state \in Moved,
         r.state \in {"paid", "mirrored"} => r.forwarded /\ (r.over => r.overshot),
         r.bid = 0 /\ r.state \in PaidStages => signed[f] \in {"full", "short"},
         r.bid = 0 /\ r.state = "failed" => signed[f] = "dead"
  PROVE  FillInv(f)'
<1> DEFINE o == fills[f]
<1>1. o \in Fill /\ At(o) = o.state /\ At(r) = r.state /\ FillShape(o, job[f])
  BY FillIs DEF At
<1>2. FillShape(r, job'[f])
  BY <1>1 DEF FillShape
<1>3. o.state = "none" => o.bid = 0
  BY <1>1 DEF FillShape, NoFill
<1>4. \A p \in FPhase : FSays(p, r) <=> FSays(p, o)
  BY <1>1, <1>3 DEF FSays, PaidStages
<1>5. ASSUME NEW p \in FPhase
      PROVE  TagOK(p, f)' /\ (Landed(p, f)' <=> FSays(p, o)) /\ (Landed(p, f) <=> FSays(p, o))
  <2>1. /\ tx[<<p, f>>].live = 0 /\ tx[<<p, f>>].landed \in Nat
        /\ tx[<<p, f>>].live + tx[<<p, f>>].landed <= 1
        /\ tx[<<p, f>>].landed > 0 <=> FSays(p, o)
    BY FillTagsRead DEF FPhase
  <2>2. (Says(p, f)' <=> FSays(p, r)) /\ (Over(p, f)' <=> FSays(p, r))
    BY DEF Says, FSays, Over, FPhase, FillPhases
  <2>. QED BY <1>4, <2>1, <2>2 DEF TagOK, Landed
<1>6. "finish" \in FPhase
  BY DEF FPhase, FillPhases
<1>7. Landed("finish", f)' => escrow'[r.bid] = "finished"
  <2>1. SUFFICES ASSUME Landed("finish", f)' PROVE escrow'[r.bid] = "finished"
    OBVIOUS
  <2>2. Landed("finish", f) /\ FSays("finish", o)
    BY <1>5, <1>6, <2>1
  <2>3. r.bid = o.bid
    BY <1>3, <2>2 DEF FSays
  <2>. QED BY <2>2, <2>3, FillIs DEF FillInv
<1>. QED BY <1>1, <1>2, <1>5, <1>7 DEF FillInv, FPhase

\* A bid whose escrow nobody is returning, and whose task does not start to.
LEMMA BidAtRest ==
  ASSUME IInv, NEW b \in Bids, bids[b].state \in {"open", "matched"},
         bids'[b].phase = bids[b].phase, bids'[b].finished = bids[b].finished,
         job'[b] \in {job[b], "idle"}, UNCHANGED <<escrow, signed, tx>>
  PROVE  BidInv(b)'
<1>1. bids[b] \in Bid /\ BidShape(bids[b], job[b]) /\ bids[b].phase = "none" /\ bids[b].finished = FALSE
  BY BidIs DEF BidShape, Bid, Ended
<1>2. BidShape(bids'[b], job'[b])
  BY <1>1 DEF BidShape
<1>3. ASSUME NEW p \in BPhase PROVE TagOK(p, b)' /\ ~Landed(p, b)'
  <2>1. ~BOver(p, bids[b]) /\ ~Says(p, b)'
    BY <1>1 DEF BOver, BSays, Says, Ended, BPhase, BidPhases
  <2>2. /\ tx[<<p, b>>].live = 0 /\ tx[<<p, b>>].landed = 0
    BY <1>1, <2>1, BidTagsRead DEF BPhase
  <2>. QED BY <2>1, <2>2 DEF TagOK, Landed
<1>4. signed[b] # "waiting"
  BY BidIs DEF BidInv
<1>. QED BY <1>2, <1>3, <1>4, BidIs DEF BidInv, BPhase, BidPhases

LEMMA RowsKeep ==
  ASSUME IInv, UNCHANGED <<escrow, signed, tx>>,
         \A f \in Fills : (fills'[f] = fills[f] /\ job'[f] = job[f]) \/ FillInv(f)',
         \A b \in Bids : \/ bids'[b] = bids[b] /\ job'[b] = job[b]
                         \/ /\ bids[b].state \in {"open", "matched"}
                            /\ bids'[b].phase = bids[b].phase
                            /\ bids'[b].finished = bids[b].finished
                            /\ job'[b] \in {job[b], "idle"}
  PROVE  (\A f \in Fills : FillInv(f)') /\ (\A b \in Bids : BidInv(b)')
<1>1. ASSUME NEW f \in Fills, fills'[f] = fills[f], job'[f] = job[f] PROVE FillInv(f)'
  BY <1>1, FillFrame DEF IInv
<1>2. ASSUME NEW b \in Bids, bids'[b] = bids[b], job'[b] = job[b] PROVE BidInv(b)'
  BY <1>2, BidFrame DEF IInv
<1>. QED BY <1>1, <1>2, BidAtRest

LEMMA KnownFrame ==
  ASSUME TypeOK, Known,
         \A a \in Asks : asks[a].state # "none" =>
            asks'[a].state # "none" /\ asks'[a].owner = asks[a].owner,
         \A a \in Asks : asks'[a].state # "none" => asks'[a].owner \in Owners,
         \A b \in Bids : bids'[b].state # "none" => bids'[b].owner \in Owners,
         \A f \in Fills : fills'[f].state # "none" =>
            \/ /\ fills[f].state # "none"
               /\ fills'[f].seller = fills[f].seller /\ fills'[f].buyer = fills[f].buyer
               /\ fills'[f].ask = fills[f].ask /\ fills'[f].bid = fills[f].bid
            \/ /\ fills'[f].seller \in Owners /\ fills'[f].buyer \in Owners
               /\ fills'[f].ask = 0 => fills'[f].bid # 0
               /\ fills'[f].ask # 0 => /\ fills'[f].ask \in Asks
                                       /\ asks[fills'[f].ask].state # "none"
                                       /\ asks[fills'[f].ask].owner = fills'[f].seller
  PROVE  Known'
<1>1. ASSUME NEW f \in Fills, fills'[f].state # "none"
      PROVE  /\ fills'[f].seller \in Owners /\ fills'[f].buyer \in Owners
             /\ fills'[f].ask = 0 => fills'[f].bid # 0
             /\ fills'[f].ask # 0 => /\ asks'[fills'[f].ask].state # "none"
                                     /\ asks'[fills'[f].ask].owner = fills'[f].seller
  <2>1. fills[f].ask # 0 => fills[f].ask \in Asks
    BY DEF TypeOK, BookTypeOK, Fill
  <2>. QED BY <1>1, <2>1 DEF Known
<1>. QED BY <1>1 DEF Known

\* One fill takes, keeps or gives up its orders; the others keep theirs.
LEMMA ClaimsOfOne ==
  ASSUME ClaimsOK, NEW f \in Fills,
         \A g \in Fills : g # f => fills'[g] = fills[g],
         HasBid(fills'[f]) =>
            bids'[fills'[f].bid].state = IF At(fills'[f]) \in Early THEN "matched" ELSE "filled",
         HasAsk(fills'[f]) =>
            asks'[fills'[f].ask].state = IF At(fills'[f]) \in Early THEN "matched" ELSE "filled",
         \A g \in Fills : g # f /\ HasBid(fills[g]) =>
            /\ HasBid(fills'[f]) => fills'[f].bid # fills[g].bid
            /\ bids'[fills[g].bid].state = bids[fills[g].bid].state,
         \A g \in Fills : g # f /\ HasAsk(fills[g]) =>
            /\ HasAsk(fills'[f]) => fills'[f].ask # fills[g].ask
            /\ asks'[fills[g].ask].state = asks[fills[g].ask].state
  PROVE  ClaimsOK'
<1>1. ASSUME NEW g \in Fills, HasBid(fills'[g])
      PROVE  bids'[fills'[g].bid].state = IF At(fills'[g]) \in Early THEN "matched" ELSE "filled"
  BY <1>1 DEF ClaimsOK
<1>2. ASSUME NEW g \in Fills, HasAsk(fills'[g])
      PROVE  asks'[fills'[g].ask].state = IF At(fills'[g]) \in Early THEN "matched" ELSE "filled"
  BY <1>2 DEF ClaimsOK
<1>3. ASSUME NEW g \in Fills, NEW h \in Fills, g # h
      PROVE  /\ HasBid(fills'[g]) /\ HasBid(fills'[h]) => fills'[g].bid # fills'[h].bid
             /\ HasAsk(fills'[g]) /\ HasAsk(fills'[h]) => fills'[g].ask # fills'[h].ask
  <2>1. CASE g # f /\ h # f
    BY <1>3, <2>1 DEF ClaimsOK
  <2>2. CASE g = f
    BY <1>3, <2>2
  <2>3. CASE h = f
    BY <1>3, <2>3
  <2>. QED BY <2>1, <2>2, <2>3
<1>. QED BY <1>1, <1>2, <1>3 DEF ClaimsOK

\* Whoever holds an order holds it matched or filled, and alone.
LEMMA HeldOrders ==
  ASSUME IInv, NEW g \in Fills
  PROVE  /\ HasBid(fills[g]) => /\ fills[g].bid \in Bids
                                /\ bids[fills[g].bid].state \in {"matched", "filled"}
         /\ HasAsk(fills[g]) => /\ fills[g].ask \in Asks
                                /\ asks[fills[g].ask].state \in {"matched", "filled"}
         /\ \A f \in Fills : f # g =>
               /\ HasBid(fills[f]) /\ HasBid(fills[g]) => fills[f].bid # fills[g].bid
               /\ HasAsk(fills[f]) /\ HasAsk(fills[g]) => fills[f].ask # fills[g].ask
  BY FillIs DEF IInv, ClaimsOK, HasBid, HasAsk, Fill

\* The table of asks, and of bids, with one state rewritten.
SetAsk(a, s) ==
    asks' = [x \in Asks |-> IF x = a THEN [asks[x] EXCEPT !.state = s] ELSE asks[x]]
SetBid(b, s) ==
    bids' = [x \in Bids |-> IF x = b THEN [bids[x] EXCEPT !.state = s] ELSE bids[x]]
SetBidFor(b, s, y) ==
    bids' = [x \in Bids |-> IF x = b THEN [bids[x] EXCEPT !.state = s, !.reason = y]
                            ELSE bids[x]]

LEMMA AsksRewritten ==
  ASSUME asks \in [Asks -> Ask], NEW a, NEW s \in OrderStates, SetAsk(a, s)
  PROVE  /\ asks' \in [Asks -> Ask]
         /\ \A x \in Asks : /\ asks'[x].owner = asks[x].owner
                            /\ x # a => asks'[x] = asks[x]
                            /\ x = a => asks'[x].state = s
<1>1. ASSUME NEW x \in Asks
      PROVE  /\ asks[x] \in Ask /\ [asks[x] EXCEPT !.state = s] \in Ask
             /\ [asks[x] EXCEPT !.state = s].state = s
             /\ [asks[x] EXCEPT !.state = s].owner = asks[x].owner
  BY DEF Ask
<1>. QED BY <1>1 DEF SetAsk

LEMMA BidsRewritten ==
  ASSUME bids \in [Bids -> Bid], NEW b, NEW s \in OrderStates,
         NEW y \in {"none", "unopened", "user", "expired", "no_closet", "undeliverable"},
         SetBidFor(b, s, y) \/ SetBid(b, s)
  PROVE  /\ bids' \in [Bids -> Bid]
         /\ \A x \in Bids : /\ bids'[x].owner = bids[x].owner
                            /\ bids'[x].phase = bids[x].phase
                            /\ bids'[x].finished = bids[x].finished
                            /\ x # b => bids'[x] = bids[x]
                            /\ x = b => bids'[x].state = s
<1> DEFINE r(x) == [bids[x] EXCEPT !.state = s, !.reason = y]
           q(x) == [bids[x] EXCEPT !.state = s]
<1>1. ASSUME NEW x \in Bids
      PROVE  /\ r(x) \in Bid /\ r(x).state = s /\ r(x).owner = bids[x].owner
             /\ r(x).phase = bids[x].phase /\ r(x).finished = bids[x].finished
             /\ q(x) \in Bid /\ q(x).state = s /\ q(x).owner = bids[x].owner
             /\ q(x).phase = bids[x].phase /\ q(x).finished = bids[x].finished
  BY DEF Bid
<1>2. \/ bids' = [x \in Bids |-> IF x = b THEN r(x) ELSE bids[x]]
      \/ bids' = [x \in Bids |-> IF x = b THEN q(x) ELSE bids[x]]
  BY DEF SetBid, SetBidFor
<1> HIDE DEF r, q
<1>. QED BY <1>1, <1>2

\* abort_unfunded_fill: the fill lets its orders go.
LEMMA AbortKeeps ==
  ASSUME IInv, NEW f \in Fills, fills[f].state = "funds_pending", fills[f].phase = "none",
         fills[f].bid # 0,
         NEW bidState \in {"none", "cancelling", "expired"}, NEW why \in {"none", "expired"},
         AbortUnfundedFill(f, bidState, why), JobStep(f, "idle"), LedgerUnchanged
  PROVE  IInv'
<1> DEFINE o == fills[f]
           r == [o EXCEPT !.state = "failed"]
<1>1. /\ o \in Fill /\ o.ask \in Asks \cup {0} /\ o.bid \in Bids /\ At(o) = "funds_pending"
      /\ FillShape(o, job[f]) /\ HasBid(o) /\ (o.ask # 0 => HasAsk(o))
  BY FillIs DEF Fill, At, HasBid, HasAsk
<1>2. /\ r \in Fill /\ r.state = "failed" /\ r.phase = "none" /\ r.ask = o.ask /\ r.bid = o.bid
      /\ r.seller = o.seller /\ r.buyer = o.buyer /\ r.over = o.over
      /\ r.forwarded = o.forwarded /\ r.overshot = o.overshot
      /\ At(r) = "failed" /\ ~HasBid(r) /\ ~HasAsk(r) /\ ~Promising(r)
  BY <1>1 DEF Fill, FillStates, At, HasBid, HasAsk, Buying, Promising
<1>3. /\ fills' = [fills EXCEPT ![f] = r] /\ UNCHANGED <<active, held, clock, escrow, signed, tx, faults>>
  BY DEF AbortUnfundedFill, LedgerUnchanged
<1>4. fills'[f] = r /\ fills' \in [Fills -> Fill] /\ \A g \in Fills : g # f => fills'[g] = fills[g]
  BY <1>2, <1>3, FillIs DEF TypeOK, BookTypeOK
<1> HIDE DEF r
<1>5. asks \in [Asks -> Ask] /\ bids \in [Bids -> Bid]
  BY FillIs DEF TypeOK, BookTypeOK
<1>6. /\ bids[o.bid].state = "matched"
      /\ o.ask # 0 => asks[o.ask].state = "matched"
  BY <1>1 DEF IInv, ClaimsOK, Early
<1> DEFINE to == IF held[o.seller] < 1 THEN "cancelled" ELSE "open"
<1>7. SetAsk(o.ask, to)
  BY <1>6, RowsApart DEF AbortUnfundedFill, SetAsk
<1>8. /\ asks' \in [Asks -> Ask]
      /\ \A x \in Asks : /\ asks'[x].owner = asks[x].owner
                         /\ x # o.ask => asks'[x] = asks[x]
                         /\ x = o.ask => asks'[x].state \in {"open", "cancelled"}
  <2>1. to \in OrderStates /\ to \in {"open", "cancelled"}
    BY DEF OrderStates
  <2> HIDE DEF to, o
  <2>. QED BY <1>5, <1>7, <2>1, AsksRewritten
<1>9. /\ bids' \in [Bids -> Bid]
      /\ \A x \in Bids : /\ bids'[x].owner = bids[x].owner
                         /\ bids'[x].phase = bids[x].phase /\ bids'[x].finished = bids[x].finished
                         /\ x # o.bid => bids'[x] = bids[x]
  <2>1. PICK s \in OrderStates, y \in {"none", "expired", "no_closet"} :
          bids' = [x \in Bids |-> IF x = o.bid /\ bids[x].state = "matched"
                                  THEN [bids[x] EXCEPT !.state = s,
                                                       !.reason = IF y = "none" THEN @ ELSE y]
                                  ELSE bids[x]]
    BY DEF AbortUnfundedFill, OrderStates
  <2> DEFINE z == IF y = "none" THEN bids[o.bid].reason ELSE y
  <2>2. SetBidFor(o.bid, s, z)
    BY <1>6, <2>1 DEF SetBidFor
  <2>3. z \in {"none", "unopened", "user", "expired", "no_closet", "undeliverable"}
    BY <1>1, <1>5 DEF Bid
  <2> HIDE DEF z, o
  <2>. QED BY <1>5, <2>2, <2>3, BidsRewritten
<1>10. TypeOK'
  BY <1>3, <1>4, <1>8, <1>9, FillIs DEF TypeOK, BookTypeOK, JobStep, JobPlaces
<1>11. FillInv(f)'
  BY <1>1, <1>2, <1>3, <1>4, FillMoved DEF JobStep, FillShape, Moved, PaidStages
<1>12. (\A g \in Fills : FillInv(g)') /\ (\A b \in Bids : BidInv(b)')
  <2>1. \A g \in Fills : g # f => job'[g] = job[g]
    BY DEF JobStep, Rows
  <2>2. \A b \in Bids : job'[b] = job[b]
    BY RowsApart DEF JobStep, Rows
  <2>3. \A g \in Fills : (fills'[g] = fills[g] /\ job'[g] = job[g]) \/ FillInv(g)'
    BY <1>4, <1>11, <2>1
  <2>4. \A b \in Bids : \/ bids'[b] = bids[b] /\ job'[b] = job[b]
                        \/ /\ bids[b].state \in {"open", "matched"}
                           /\ bids'[b].phase = bids[b].phase
                           /\ bids'[b].finished = bids[b].finished
                           /\ job'[b] \in {job[b], "idle"}
    BY <1>6, <1>9, <2>2
  <2>. QED BY <1>3, <2>3, <2>4, RowsKeep
<1>13. Known'
  <2>1. \A x \in Asks : /\ asks[x].state # "none" =>
                              asks'[x].state # "none" /\ asks'[x].owner = asks[x].owner
                        /\ asks'[x].state # "none" => asks'[x].owner \in Owners
    BY <1>6, <1>8, RowsApart DEF IInv, Known
  <2>2. \A x \in Bids : bids'[x].state # "none" => bids'[x].owner \in Owners
    BY <1>6, <1>9 DEF IInv, Known
  <2>3. \A g \in Fills : fills'[g].state # "none" =>
          /\ fills[g].state # "none" /\ fills'[g].ask = fills[g].ask /\ fills'[g].bid = fills[g].bid
          /\ fills'[g].seller = fills[g].seller /\ fills'[g].buyer = fills[g].buyer
    BY <1>2, <1>4
  <2>. QED BY <2>1, <2>2, <2>3, KnownFrame DEF IInv
<1>14. ClaimsOK'
  <2>1. \A g \in Fills : g # f /\ HasBid(fills[g]) => bids'[fills[g].bid].state = bids[fills[g].bid].state
    BY <1>1, <1>9, HeldOrders
  <2>2. \A g \in Fills : g # f /\ HasAsk(fills[g]) => asks'[fills[g].ask].state = asks[fills[g].ask].state
    BY <1>1, <1>8, HeldOrders, RowsApart
  <2>. QED BY <1>2, <1>4, <2>1, <2>2, ClaimsOfOne DEF IInv
<1>15. PromisesAreHeld'
  <2>1. \A x \in Asks : asks'[x].state \in {"open", "matched"} =>
            asks'[x].owner = asks[x].owner /\ asks[x].state \in {"open", "matched"}
    BY <1>6, <1>8, RowsApart
  <2>2. \A g \in Fills : fills'[g].ask = 0 /\ Promising(fills'[g]) =>
            fills[g].ask = 0 /\ fills'[g].seller = fills[g].seller /\ Promising(fills[g])
    BY <1>2, <1>4
  <2>3. \A p \in active' : held[p] \in Nat /\ held'[p] \in Nat /\ held[p] <= held'[p]
    BY <1>3, FillIs DEF TypeOK, BookTypeOK
  <2>. QED BY <1>3, <2>1, <2>2, <2>3, PromisesFrame DEF IInv
<1>. QED BY <1>10, <1>12, <1>13, <1>14, <1>15 DEF IInv

LEMMA EscrowFundsKeeps ==
  ASSUME IInv, NEW f \in Fills, EscrowFunds(f)
  PROVE  IInv'
<1>1. /\ fills[f].state = "funds_pending" /\ fills[f].phase = "none" /\ fills[f].bid # 0 /\ job[f] = "idle"
  BY DEF EscrowFunds, Ready
<1>2. ASSUME NEW s \in {"none", "cancelling", "expired"}, NEW why \in {"none", "expired"},
             AbortUnfundedFill(f, s, why) /\ UNCHANGED job /\ LedgerUnchanged
      PROVE  IInv'
  <2>1. JobStep(f, "idle")
    BY <1>1, <1>2, FillIs, SetJobIs DEF JobPlaces
  <2>. QED BY <1>1, <1>2, <2>1, AbortKeeps
<1>3. CASE Begin(f, "finish")
  <2>1. "finish" \in FPhase
    BY DEF FPhase, FillPhases
  <2>. QED BY <1>1, <1>3, <2>1, RollbackIs, BeginFillKeeps
<1>. QED BY <1>2, <1>3 DEF EscrowFunds

LEMMA FinishRefusedKeeps ==
  ASSUME IInv, NEW f \in Fills, FinishRefused(f)
  PROVE  IInv'
<1>1. /\ fills[f].state = "funds_pending" /\ fills[f].phase = "none" /\ fills[f].bid # 0
      /\ JobStep(f, "idle") /\ LedgerUnchanged
  BY FillIs, SetJobIs DEF FinishRefused, FillShape, JobPlaces
<1>2. CASE UNCHANGED book
  <2>1. faults' \in 0 .. MaxFaults
    BY <1>1, FillIs DEF LedgerUnchanged, TypeOK
  <2>. QED BY <1>1, <1>2, <2>1, FillIs, StoppedKeeps DEF LedgerUnchanged
<1>3. ASSUME NEW s \in {"none", "cancelling", "expired"}, NEW why \in {"none", "expired"},
             AbortUnfundedFill(f, s, why)
      PROVE  IInv'
  BY <1>1, <1>3, AbortKeeps
<1>. QED BY <1>2, <1>3 DEF FinishRefused

\* claim_ask_for_payment, when the ask is still there.
LEMMA ClaimAskKeeps ==
  ASSUME IInv, NEW f \in Fills, Ready(f, "funds_pending"), fills[f].bid = 0, signed[f] = "full",
         asks[fills[f].ask].state = "open",
         asks' = [asks EXCEPT ![fills[f].ask].state = "matched"],
         fills' = [fills EXCEPT ![f].state = "funded"],
         UNCHANGED <<active, held, bids, job>>, LedgerUnchanged
  PROVE  IInv'
<1> DEFINE o == fills[f]
           r == [o EXCEPT !.state = "funded"]
<1>1. /\ o \in Fill /\ o.state = "funds_pending" /\ o.phase = "none" /\ At(o) = "funds_pending"
      /\ job[f] = "idle" /\ FillShape(o, job[f])
  BY FillIs DEF Ready, At
<1>2. o.ask # 0 /\ o.ask \in Asks /\ asks[o.ask].owner = o.seller
  BY <1>1 DEF IInv, Known, Fill
<1>3. /\ r \in Fill /\ r.state = "funded" /\ r.phase = "none" /\ r.ask = o.ask /\ r.bid = o.bid
      /\ r.seller = o.seller /\ r.buyer = o.buyer /\ r.over = o.over
      /\ r.forwarded = o.forwarded /\ r.overshot = o.overshot
      /\ At(r) = "funded" /\ ~HasBid(r)
  BY <1>1 DEF Fill, FillStates, At, HasBid
<1>4. fills' = [fills EXCEPT ![f] = r]
  OBVIOUS
<1>5. fills'[f] = r /\ fills' \in [Fills -> Fill] /\ \A g \in Fills : g # f => fills'[g] = fills[g]
  BY <1>3, <1>4, FillIs DEF TypeOK, BookTypeOK
<1> HIDE DEF r
<1>6. asks \in [Asks -> Ask] /\ "matched" \in OrderStates
  BY FillIs DEF TypeOK, BookTypeOK, OrderStates
<1>7. SetAsk(o.ask, "matched")
  BY <1>2, <1>6 DEF SetAsk
<1>8. /\ asks' \in [Asks -> Ask]
      /\ \A x \in Asks : /\ asks'[x].owner = asks[x].owner
                         /\ x # o.ask => asks'[x] = asks[x]
                         /\ x = o.ask => asks'[x].state = "matched"
  <2> HIDE DEF o
  <2>. QED BY <1>6, <1>7, AsksRewritten
<1>9. UNCHANGED <<active, held, bids, job, clock, escrow, signed, tx, faults>>
  BY DEF LedgerUnchanged
<1>10. TypeOK'
  BY <1>5, <1>8, <1>9, FillIs, ZenonT(30) DEF TypeOK, BookTypeOK
<1>11. FillInv(f)'
  BY <1>1, <1>3, <1>5, <1>9, FillMoved DEF FillShape, Moved
<1>12. (\A g \in Fills : FillInv(g)') /\ (\A b \in Bids : BidInv(b)')
  BY <1>5, <1>9, <1>11, RowsKeep
<1>13. Known'
  <2>1. \A x \in Asks : /\ asks[x].state # "none" =>
                              asks'[x].state # "none" /\ asks'[x].owner = asks[x].owner
                        /\ asks'[x].state # "none" => asks'[x].owner \in Owners
    BY <1>8 DEF IInv, Known
  <2>2. \A x \in Bids : bids'[x].state # "none" => bids'[x].owner \in Owners
    BY <1>9 DEF IInv, Known
  <2>3. \A g \in Fills : fills'[g].state # "none" =>
          /\ fills[g].state # "none" /\ fills'[g].ask = fills[g].ask /\ fills'[g].bid = fills[g].bid
          /\ fills'[g].seller = fills[g].seller /\ fills'[g].buyer = fills[g].buyer
    BY <1>1, <1>3, <1>5
  <2>. QED BY <2>1, <2>2, <2>3, KnownFrame DEF IInv
<1>14. ClaimsOK'
  <2>1. \A g \in Fills : g # f /\ HasBid(fills[g]) => bids'[fills[g].bid].state = bids[fills[g].bid].state
    BY <1>9
  <2>2. \A g \in Fills : HasAsk(fills[g]) => fills[g].ask # o.ask
                                             /\ asks'[fills[g].ask].state = asks[fills[g].ask].state
    BY <1>8, HeldOrders
  <2>3. asks'[o.ask].state = "matched" /\ At(fills'[f]) \in Early
    BY <1>2, <1>3, <1>5, <1>8 DEF Early
  <2>. QED BY <1>3, <1>5, <2>1, <2>2, <2>3, ClaimsOfOne DEF IInv
<1>15. PromisesAreHeld'
  <2>1. \A x \in Asks : asks'[x].state \in {"open", "matched"} =>
            asks'[x].owner = asks[x].owner /\ asks[x].state \in {"open", "matched"}
    BY <1>8
  <2>2. \A g \in Fills : fills'[g].ask = 0 /\ Promising(fills'[g]) =>
            fills[g].ask = 0 /\ fills'[g].seller = fills[g].seller /\ Promising(fills[g])
    BY <1>2, <1>3, <1>5
  <2>3. \A p \in active' : held[p] \in Nat /\ held'[p] \in Nat /\ held[p] <= held'[p]
    BY <1>9, FillIs DEF TypeOK, BookTypeOK
  <2>. QED BY <1>9, <2>1, <2>2, <2>3, PromisesFrame DEF IInv
<1>. QED BY <1>10, <1>12, <1>13, <1>14, <1>15 DEF IInv

LEMMA TakeFundsKeeps ==
  ASSUME IInv, NEW f \in Fills, TakeFunds(f)
  PROVE  IInv'
<1> DEFINE o == fills[f]
<1>1. /\ Ready(f, "funds_pending") /\ o.bid = 0 /\ UNCHANGED job /\ LedgerUnchanged
      /\ "funds_pending" \in FillStates \ {"none", "indeterminate"}
  BY DEF TakeFunds, FillStates
<1>2. o \in Fill /\ o.state = "funds_pending" /\ o.phase = "none" /\ FillShape(o, job[f])
      /\ At(o) = "funds_pending" /\ o.ask # 0
  BY <1>1, ReadyIs, FillIs DEF IInv, Known
<1>3. ASSUME NEW s \in {"refund_pending", "failed"},
             s = "refund_pending" => signed[f] \in {"full", "short"},
             s = "failed" => signed[f] = "dead",
             fills' = [fills EXCEPT ![f].state = s], UNCHANGED <<active, held, asks, bids>>
      PROVE  IInv'
  <2> DEFINE r == [o EXCEPT !.state = s]
  <2>1. /\ fills' = [fills EXCEPT ![f] = r]
        /\ UNCHANGED <<bids, active, held, asks, clock, escrow, signed, tx, job, faults>>
    BY <1>1, <1>3 DEF LedgerUnchanged
  <2>2. /\ r \in Fill /\ r.state = s /\ r.phase = "none" /\ r.ask = o.ask /\ r.bid = o.bid
        /\ r.seller = o.seller /\ r.buyer = o.buyer /\ r.over = o.over
        /\ r.forwarded = o.forwarded /\ r.overshot = o.overshot /\ At(r) = s
    BY <1>2 DEF Fill, FillStates, At
  <2> HIDE DEF r
  <2>3. Follows(r, o) /\ ~(r.forwarded \/ r.overshot)
    BY <1>1, <1>2, <2>2 DEF Follows, HasBid, HasAsk, Buying, Early, FillShape, Moved
  <2>4. /\ r.state \notin {"none", "indeterminate", "refunded", "paid", "mirrored"} /\ r.bid = 0
        /\ r.state \in PaidStages => signed[f] \in {"full", "short"}
        /\ r.state = "failed" => signed[f] = "dead"
    BY <1>1, <1>3, <2>2 DEF PaidStages
  <2>. QED BY <1>1, <2>1, <2>2, <2>3, <2>4, FillMovesKeeps
<1>4. CASE signed[f] = "full" /\ ClaimAskForPayment(f)
  <2>1. CASE asks[o.ask].state = "open" /\ asks[o.ask].owner = o.seller
    BY <1>1, <1>4, <2>1, ClaimAskKeeps DEF ClaimAskForPayment
  <2>2. CASE ~(asks[o.ask].state = "open" /\ asks[o.ask].owner = o.seller)
    BY <1>3, <1>4, <2>2 DEF ClaimAskForPayment
  <2>. QED BY <2>1, <2>2
<1>5. CASE /\ signed[f] \in {"short", "dead"}
           /\ fills' = [fills EXCEPT ![f].state = IF signed[f] = "short" THEN "refund_pending"
                                                  ELSE "failed"]
           /\ UNCHANGED <<active, held, asks, bids>>
  BY <1>3, <1>5
<1>. QED BY <1>1, <1>4, <1>5 DEF TakeFunds

\* move_asset: the fill and its orders, whether the unit moves or not.
LEMMA MoveRows ==
  ASSUME IInv, NEW f \in Fills, Ready(f, "funded"), NEW s \in {"refund_pending", "asset_moved"},
         NEW sa \in OrderStates \ {"none"}, NEW sb \in OrderStates \ {"none"},
         s = "asset_moved" => sa = "filled" /\ sb = "filled",
         fills' = [fills EXCEPT ![f].state = s], SetAsk(fills[f].ask, sa),
         SetBidFor(fills[f].bid, sb, "undeliverable") \/ SetBid(fills[f].bid, sb),
         UNCHANGED <<active, job, clock, escrow, signed, tx, faults>>, held' \in [Owners -> Nat]
  PROVE  /\ TypeOK' /\ (\A g \in Fills : FillInv(g)') /\ (\A b \in Bids : BidInv(b)')
         /\ Known' /\ ClaimsOK'
         /\ fills[f].ask # 0 => asks[fills[f].ask].state = "matched"
         /\ \A x \in Asks : /\ asks'[x].owner = asks[x].owner
                            /\ x # fills[f].ask => asks'[x] = asks[x]
                            /\ x = fills[f].ask => asks'[x].state = sa
         /\ \A g \in Fills : /\ fills'[g].ask = fills[g].ask /\ fills'[g].seller = fills[g].seller
                             /\ g # f => fills'[g] = fills[g]
         /\ ~Promising(fills'[f]) /\ Promising(fills[f])
<1> DEFINE o == fills[f]
           r == [o EXCEPT !.state = s]
<1>1. /\ o \in Fill /\ o.state = "funded" /\ o.phase = "none" /\ At(o) = "funded"
      /\ job[f] = "idle" /\ FillShape(o, job[f]) /\ o.ask \in Asks \cup {0} /\ o.bid \in Bids \cup {0}
      /\ (o.bid # 0 => HasBid(o)) /\ (o.ask # 0 => HasAsk(o)) /\ Promising(o)
  BY FillIs DEF Ready, At, Fill, HasBid, HasAsk, Buying, Promising
<1>2. /\ r \in Fill /\ r.state = s /\ r.phase = "none" /\ r.ask = o.ask /\ r.bid = o.bid
      /\ r.seller = o.seller /\ r.buyer = o.buyer /\ r.over = o.over
      /\ r.forwarded = o.forwarded /\ r.overshot = o.overshot
      /\ At(r) = s /\ ~Promising(r) /\ At(r) \notin Early
      /\ s = "refund_pending" => ~HasBid(r) /\ ~HasAsk(r)
  BY <1>1 DEF Fill, FillStates, At, HasBid, HasAsk, Promising, Early, Buying
<1>3. fills' = [fills EXCEPT ![f] = r]
  OBVIOUS
<1>4. fills'[f] = r /\ fills' \in [Fills -> Fill] /\ \A g \in Fills : g # f => fills'[g] = fills[g]
  BY <1>2, <1>3, FillIs DEF TypeOK, BookTypeOK
<1> HIDE DEF r
<1>5. asks \in [Asks -> Ask] /\ bids \in [Bids -> Bid]
  BY FillIs DEF TypeOK, BookTypeOK
<1>6. /\ o.bid # 0 => bids[o.bid].state = "matched"
      /\ o.ask # 0 => asks[o.ask].state = "matched"
  BY <1>1 DEF IInv, ClaimsOK, Early
<1>7. /\ asks' \in [Asks -> Ask]
      /\ \A x \in Asks : /\ asks'[x].owner = asks[x].owner
                         /\ x # o.ask => asks'[x] = asks[x]
                         /\ x = o.ask => asks'[x].state = sa
  <2> HIDE DEF o
  <2>. QED BY <1>5, AsksRewritten DEF o
<1>8. /\ bids' \in [Bids -> Bid]
      /\ \A x \in Bids : /\ bids'[x].owner = bids[x].owner
                         /\ bids'[x].phase = bids[x].phase /\ bids'[x].finished = bids[x].finished
                         /\ x # o.bid => bids'[x] = bids[x]
                         /\ x = o.bid => bids'[x].state = sb
  <2> HIDE DEF o
  <2>. QED BY <1>5, BidsRewritten DEF o
<1>9. TypeOK'
  BY <1>4, <1>7, <1>8, FillIs DEF TypeOK, BookTypeOK
<1>10. FillInv(f)'
  <2>1. r.bid = 0 => signed[f] \in {"full", "short"}
    BY <1>1, <1>2, FillIs, ZenonT(30) DEF FillInv, PaidStages
  <2>2. ~o.forwarded /\ ~o.overshot
    BY <1>1 DEF FillShape, Moved, Fill
  <2>3. o.state \in PaidStages /\ r.state \in PaidStages
    BY <1>1, <1>2 DEF PaidStages
  <2>. QED BY <1>1, <1>2, <1>4, <2>1, <2>2, <2>3, FillMoved
<1>11. (\A g \in Fills : FillInv(g)') /\ (\A b \in Bids : BidInv(b)')
  <2>1. \A g \in Fills : (fills'[g] = fills[g] /\ job'[g] = job[g]) \/ FillInv(g)'
    BY <1>4, <1>10
  <2>2. \A b \in Bids : \/ bids'[b] = bids[b] /\ job'[b] = job[b]
                        \/ /\ bids[b].state \in {"open", "matched"}
                           /\ bids'[b].phase = bids[b].phase
                           /\ bids'[b].finished = bids[b].finished
                           /\ job'[b] \in {job[b], "idle"}
    BY <1>6, <1>8, RowsApart
  <2>. QED BY <2>1, <2>2, RowsKeep
<1>12. Known'
  <2>1. \A x \in Asks : /\ asks[x].state # "none" =>
                              asks'[x].state # "none" /\ asks'[x].owner = asks[x].owner
                        /\ asks'[x].state # "none" => asks'[x].owner \in Owners
    BY <1>6, <1>7, RowsApart DEF IInv, Known
  <2>2. \A x \in Bids : bids'[x].state # "none" => bids'[x].owner \in Owners
    BY <1>6, <1>8, RowsApart DEF IInv, Known
  <2>3. \A g \in Fills : fills'[g].state # "none" =>
          /\ fills[g].state # "none" /\ fills'[g].ask = fills[g].ask /\ fills'[g].bid = fills[g].bid
          /\ fills'[g].seller = fills[g].seller /\ fills'[g].buyer = fills[g].buyer
    BY <1>1, <1>2, <1>4
  <2>. QED BY <2>1, <2>2, <2>3, KnownFrame DEF IInv
<1>13. ClaimsOK'
  <2>1. \A g \in Fills : g # f /\ HasBid(fills[g]) => fills[g].bid # o.bid
                         /\ bids'[fills[g].bid].state = bids[fills[g].bid].state
    BY <1>1, <1>8, HeldOrders, RowsApart
  <2>2. \A g \in Fills : g # f /\ HasAsk(fills[g]) => fills[g].ask # o.ask
                         /\ asks'[fills[g].ask].state = asks[fills[g].ask].state
    BY <1>1, <1>7, HeldOrders, RowsApart
  <2>3. /\ HasBid(r) => bids'[r.bid].state = "filled"
        /\ HasAsk(r) => asks'[r.ask].state = "filled"
    BY <1>1, <1>2, <1>7, <1>8 DEF HasBid, HasAsk
  <2>. QED BY <1>2, <1>4, <2>1, <2>2, <2>3, ClaimsOfOne DEF IInv
<1>. QED BY <1>1, <1>2, <1>4, <1>6, <1>7, <1>9, <1>11, <1>12, <1>13

LEMMA MoveKeeps ==
  ASSUME IInv, NEW f \in Fills, Move(f)
  PROVE  IInv'
<1> DEFINE o == fills[f]
<1>1. /\ Ready(f, "funded") /\ MoveAsset(f) /\ "filled" \in OrderStates /\ "cancelled" \in OrderStates
      /\ "open" \in OrderStates
      /\ UNCHANGED <<active, job, clock, escrow, signed, tx, faults>>
  BY DEF Move, MoveAsset, LedgerUnchanged, OrderStates
<1>2. held \in [Owners -> Nat] /\ o.seller \in Owners /\ o.buyer \in Owners
  BY <1>1, FillIs DEF TypeOK, BookTypeOK, Ready, IInv, Known
<1>5. {"filled", "cancelled"} \subseteq OrderStates \ {"none"}
  BY DEF OrderStates
<1>3. CASE Blocked(f)
  <2> DEFINE sa == IF held[o.seller] < 1 THEN "cancelled" ELSE "open"
  <2>1. /\ fills' = [fills EXCEPT ![f].state = "refund_pending"] /\ SetAsk(o.ask, sa)
        /\ SetBidFor(o.bid, "cancelled", "undeliverable") /\ UNCHANGED held
    BY <1>1, <1>3 DEF MoveAsset, SetAsk, SetBidFor
  <2>2. sa \in OrderStates \ {"none"}
    BY <1>1
  <2> HIDE DEF sa
  <2>3. /\ TypeOK' /\ (\A g \in Fills : FillInv(g)') /\ (\A b \in Bids : BidInv(b)')
        /\ Known' /\ ClaimsOK'
        /\ o.ask # 0 => asks[o.ask].state = "matched"
        /\ \A x \in Asks : /\ asks'[x].owner = asks[x].owner
                           /\ x # o.ask => asks'[x] = asks[x]
        /\ \A g \in Fills : /\ fills'[g].ask = fills[g].ask /\ fills'[g].seller = fills[g].seller
                            /\ g # f => fills'[g] = fills[g]
        /\ ~Promising(fills'[f])
    <3>1. held' \in [Owners -> Nat] /\ "cancelled" \in OrderStates \ {"none"}
      BY <1>2, <1>5, <2>1
    <3>. QED BY <1>1, <2>1, <2>2, <3>1, MoveRows, ZenonT(30)
  <2>4. \A x \in Asks : asks'[x].state \in {"open", "matched"} =>
            asks'[x].owner = asks[x].owner /\ asks[x].state \in {"open", "matched"}
    BY <2>3, RowsApart
  <2>5. \A g \in Fills : fills'[g].ask = 0 /\ Promising(fills'[g]) =>
            fills[g].ask = 0 /\ fills'[g].seller = fills[g].seller /\ Promising(fills[g])
    BY <2>3
  <2>6. \A p \in active' : held[p] \in Nat /\ held'[p] \in Nat /\ held[p] <= held'[p]
    BY <1>1, <1>2, <2>1, FillIs DEF TypeOK, BookTypeOK
  <2>7. PromisesAreHeld'
    BY <1>1, <2>4, <2>5, <2>6, PromisesFrame DEF IInv
  <2>. QED BY <2>3, <2>7 DEF IInv
<1>4. CASE ~Blocked(f)
  <2>1. /\ fills' = [fills EXCEPT ![f].state = "asset_moved"]
        /\ SetAsk(o.ask, "filled") /\ SetBid(o.bid, "filled")
        /\ held' = [held EXCEPT ![o.seller] = @ - 1, ![o.buyer] = @ + 1]
        /\ held[o.seller] >= 1
    BY <1>1, <1>2, <1>4 DEF MoveAsset, SetAsk, SetBid, Blocked
  <2>2. /\ held' \in [Owners -> Nat]
        /\ \A p \in Owners : IF p = o.seller THEN held'[p] >= held[p] - 1 ELSE held'[p] >= held[p]
    BY <1>2, <2>1
  <2>3. /\ TypeOK' /\ (\A g \in Fills : FillInv(g)') /\ (\A b \in Bids : BidInv(b)')
        /\ Known' /\ ClaimsOK'
        /\ o.ask # 0 => asks[o.ask].state = "matched"
        /\ \A x \in Asks : /\ asks'[x].owner = asks[x].owner
                           /\ x # o.ask => asks'[x] = asks[x]
                           /\ x = o.ask => asks'[x].state = "filled"
        /\ \A g \in Fills : /\ fills'[g].ask = fills[g].ask /\ fills'[g].seller = fills[g].seller
                            /\ g # f => fills'[g] = fills[g]
        /\ ~Promising(fills'[f]) /\ Promising(o)
    <3>1. "filled" \in OrderStates \ {"none"}
      BY <1>5
    <3>. QED BY <1>1, <2>1, <2>2, <3>1, MoveRows
  <2>4. ASSUME NEW p \in active' PROVE Encumbrance(p)' <= held'[p]
    <3>1. p \in Owners /\ Encumbrance(p) <= held[p]
      BY <1>1, <2>4, FillIs DEF IInv, PromisesAreHeld, TypeOK, BookTypeOK
    <3>2. AskProm(p)' \subseteq AskProm(p) /\ FillProm(p)' \subseteq FillProm(p)
      BY <2>3, RowsApart DEF AskProm, FillProm
    <3>3. CASE p # o.seller
      <4>1. Encumbrance(p)' <= Encumbrance(p) /\ Encumbrance(p)' \in Nat /\ Encumbrance(p) \in Nat
        BY <3>2, PromisesShrink
      <4>. QED BY <1>2, <2>2, <3>1, <3>3, <4>1
    <3>4. CASE p = o.seller
      <4>1. Encumbrance(p)' <= Encumbrance(p) - 1 /\ Encumbrance(p)' \in Nat /\ Encumbrance(p) \in Nat
        <5>1. CASE o.ask = 0
          <6>1. f \in FillProm(p) /\ f \notin FillProm(p)'
            BY <2>3, <3>4, <5>1 DEF FillProm
          <6>. QED BY <3>2, <6>1, OneLessPromise
        <5>2. CASE o.ask # 0
          <6>1. o.ask \in Asks /\ asks[o.ask].owner = o.seller
            BY <1>1, <5>2, FillIs DEF IInv, Known, Fill, Ready
          <6>2. o.ask \in AskProm(p) /\ o.ask \notin AskProm(p)'
            BY <2>3, <3>4, <5>2, <6>1 DEF AskProm
          <6>. QED BY <3>2, <6>2, OneLessPromise
        <5>. QED BY <5>1, <5>2
      <4>. QED BY <1>2, <2>2, <3>1, <3>4, <4>1
    <3>. QED BY <3>3, <3>4
  <2>. QED BY <2>3, <2>4 DEF IInv, PromisesAreHeld
<1>. QED BY <1>3, <1>4

-----------------------------------------------------------------------------
(* New orders and new fills.                                               *)

\* A fill is made: of two orders that cross, of a bid and a Closet's unit, or of
\* an ask that is not reserved.
LEMMA NewFillKeeps ==
  ASSUME IInv, NEW f \in Fills, fills[f].state = "none", NEW r \in Fill,
         fills' = [fills EXCEPT ![f] = r],
         r.state = "funds_pending", r.phase = "none", ~r.forwarded, ~r.overshot,
         r.seller \in Owners, r.buyer \in Owners, r.ask = 0 => r.bid # 0,
         r.ask # 0 => asks[r.ask].state = "open" /\ asks[r.ask].owner = r.seller,
         r.bid # 0 => bids[r.bid].state = "open" /\ SetBid(r.bid, "matched"),
         r.bid = 0 => UNCHANGED bids,
         r.ask # 0 /\ r.bid # 0 => SetAsk(r.ask, "matched"),
         r.ask = 0 \/ r.bid = 0 => UNCHANGED asks,
         r.ask # 0 \/ Available(r.seller) >= 1,
         job' \in [Asks \cup Rows -> JobPlaces], \A g \in Fills : job'[g] = job[g],
         \A c \in Bids : job'[c] = job[c] \/ (c = r.bid /\ job'[c] = "idle"),
         UNCHANGED <<active, held, clock, escrow, signed, tx, faults>>
  PROVE  IInv'
<1> DEFINE o == fills[f]
<1>1. /\ o \in Fill /\ o = NoFill /\ FillShape(o, job[f]) /\ job[f] \in {"idle", "cross"}
      /\ o.bid = 0 /\ o.ask = 0 /\ ~Promising(o)
      /\ o.phase = "none" /\ o.forwarded = FALSE /\ o.overshot = FALSE
  <2>1. o \in Fill /\ o = NoFill /\ FillShape(o, job[f])
    BY FillIs DEF FillShape
  <2>2. /\ o.bid = 0 /\ o.ask = 0 /\ o.state = "none" /\ o.phase = "none"
        /\ o.forwarded = FALSE /\ o.overshot = FALSE
    BY <2>1 DEF NoFill
  <2>3. ~Promising(o)
    BY <2>2 DEF Promising
  <2>4. job[f] \in {"idle", "cross"}
    <3> HIDE DEF o
    <3>. QED BY <2>1, <2>2, FillIs DEF FillShape
  <2>. QED BY <2>1, <2>2, <2>3, <2>4
<1>2. /\ r.ask \in Asks \cup {0} /\ r.bid \in Bids \cup {0} /\ At(r) = "funds_pending"
      /\ HasBid(r) <=> r.bid # 0
      /\ HasAsk(r) <=> r.ask # 0 /\ r.bid # 0
      /\ r.forwarded = FALSE /\ r.overshot = FALSE
  BY DEF Fill, At, HasBid, HasAsk, Buying
<1>3. fills'[f] = r /\ fills' \in [Fills -> Fill] /\ \A g \in Fills : g # f => fills'[g] = fills[g]
  BY FillIs DEF TypeOK, BookTypeOK
<1>4. asks \in [Asks -> Ask] /\ bids \in [Bids -> Bid] /\ "matched" \in OrderStates
  BY FillIs DEF TypeOK, BookTypeOK, OrderStates
<1>5. /\ asks' \in [Asks -> Ask]
      /\ \A x \in Asks : /\ asks'[x].owner = asks[x].owner
                         /\ asks'[x] = asks[x] \/ (x = r.ask /\ asks'[x].state = "matched")
      /\ r.ask # 0 /\ r.bid # 0 => asks'[r.ask].state = "matched"
  <2>1. CASE r.ask # 0 /\ r.bid # 0
    <3>1. r.ask \in Asks /\ SetAsk(r.ask, "matched")
      BY <1>2, <2>1
    <3>. QED BY <1>4, <2>1, <3>1, AsksRewritten
  <2>2. CASE r.ask = 0 \/ r.bid = 0
    BY <1>4, <2>2
  <2>. QED BY <2>1, <2>2
<1>6. /\ bids' \in [Bids -> Bid]
      /\ \A x \in Bids : /\ bids'[x].owner = bids[x].owner
                         /\ bids'[x].phase = bids[x].phase /\ bids'[x].finished = bids[x].finished
                         /\ x # r.bid => bids'[x] = bids[x]
      /\ r.bid # 0 => bids'[r.bid].state = "matched"
  BY <1>2, <1>4, BidsRewritten
<1>7. TypeOK'
  BY <1>3, <1>5, <1>6, FillIs DEF TypeOK, BookTypeOK, JobPlaces
<1>8. FillInv(f)'
  <2>1. r.state \notin PaidStages /\ "none" \notin PaidStages
    BY DEF PaidStages
  <2>. QED BY <1>1, <1>2, <1>3, <2>1, FillMoved, ZenonT(30)
<1>9. (\A g \in Fills : FillInv(g)') /\ (\A b \in Bids : BidInv(b)')
  <2>1. \A g \in Fills : (fills'[g] = fills[g] /\ job'[g] = job[g]) \/ FillInv(g)'
    BY <1>3, <1>8
  <2>2. \A b \in Bids : \/ bids'[b] = bids[b] /\ job'[b] = job[b]
                        \/ /\ bids[b].state \in {"open", "matched"}
                           /\ bids'[b].phase = bids[b].phase
                           /\ bids'[b].finished = bids[b].finished
                           /\ job'[b] \in {job[b], "idle"}
    BY <1>6, RowsApart DEF Rows
  <2>. QED BY <2>1, <2>2, RowsKeep
<1>10. Known'
  <2>1. \A x \in Asks : /\ asks[x].state # "none" =>
                              asks'[x].state # "none" /\ asks'[x].owner = asks[x].owner
                        /\ asks'[x].state # "none" => asks'[x].owner \in Owners
    BY <1>5, RowsApart DEF IInv, Known
  <2>2. \A x \in Bids : bids'[x].state # "none" => bids'[x].owner \in Owners
    BY <1>6, RowsApart DEF IInv, Known
  <2>3. \A g \in Fills : g # f /\ fills'[g].state # "none" =>
          /\ fills[g].state # "none" /\ fills'[g].ask = fills[g].ask /\ fills'[g].bid = fills[g].bid
          /\ fills'[g].seller = fills[g].seller /\ fills'[g].buyer = fills[g].buyer
    BY <1>3
  <2>4. r.ask # 0 => r.ask \in Asks /\ asks[r.ask].state # "none" /\ asks[r.ask].owner = r.seller
    BY <1>2
  <2>. QED BY <1>3, <2>1, <2>2, <2>3, <2>4, KnownFrame DEF IInv
<1>11. ClaimsOK'
  <2>1. \A g \in Fills : HasBid(fills[g]) => fills[g].bid # r.bid
                         /\ bids'[fills[g].bid].state = bids[fills[g].bid].state
    BY <1>6, HeldOrders, RowsApart
  <2>2. \A g \in Fills : HasAsk(fills[g]) => (r.ask # 0 => fills[g].ask # r.ask)
                         /\ asks'[fills[g].ask].state = asks[fills[g].ask].state
    BY <1>5, HeldOrders, RowsApart
  <2>3. At(r) \in Early
    BY <1>2 DEF Early
  <2>. QED BY <1>2, <1>3, <1>5, <1>6, <2>1, <2>2, <2>3, ClaimsOfOne DEF IInv
<1>12. PromisesAreHeld'
  <2>1. \A x \in Asks : asks'[x].state \in {"open", "matched"} =>
            asks'[x].owner = asks[x].owner /\ asks[x].state \in {"open", "matched"}
    BY <1>5, RowsApart
  <2>2. CASE r.ask # 0
    <3>1. \A g \in Fills : fills'[g].ask = 0 /\ Promising(fills'[g]) =>
            fills[g].ask = 0 /\ fills'[g].seller = fills[g].seller /\ Promising(fills[g])
      BY <1>3, <2>2
    <3>2. \A p \in active' : held[p] \in Nat /\ held'[p] \in Nat /\ held[p] <= held'[p]
      BY FillIs DEF TypeOK, BookTypeOK
    <3>. QED BY <2>1, <3>1, <3>2, PromisesFrame DEF IInv
  <2>3. CASE r.ask = 0
    <3> SUFFICES ASSUME NEW p \in active' PROVE Encumbrance(p)' <= held'[p]
      BY DEF PromisesAreHeld
    <3>1. /\ Encumbrance(p) <= held[p] /\ held[p] \in Nat /\ held' = held
      BY FillIs DEF IInv, PromisesAreHeld, TypeOK, BookTypeOK
    <3>2. AskProm(p)' \subseteq AskProm(p)
      BY <2>1 DEF AskProm
    <3>3. CASE p = r.seller
      <4>1. FillProm(p)' \subseteq FillProm(p) \cup {f}
        BY <1>3 DEF FillProm
      <4>2. Encumbrance(p)' <= Encumbrance(p) + 1 /\ Encumbrance(p)' \in Nat /\ Encumbrance(p) \in Nat
        BY <3>2, <4>1, OneMorePromise
      <4>3. held[p] - Encumbrance(p) >= 1
        BY <2>3, <3>3 DEF Available
      <4>. QED BY <3>1, <4>2, <4>3
    <3>4. CASE p # r.seller
      <4>1. FillProm(p)' \subseteq FillProm(p)
        BY <1>3, <3>4 DEF FillProm
      <4>2. Encumbrance(p)' <= Encumbrance(p) /\ Encumbrance(p)' \in Nat /\ Encumbrance(p) \in Nat
        BY <3>2, <4>1, PromisesShrink
      <4>. QED BY <3>1, <4>2
    <3>. QED BY <3>3, <3>4
  <2>. QED BY <2>2, <2>3
<1>. QED BY <1>7, <1>9, <1>10, <1>11, <1>12 DEF IInv

LEMMA MatchKeeps ==
  ASSUME IInv, NEW a \in Asks, NEW b \in Bids, NEW over \in BOOLEAN, Crosses(a, b), Match(a, b, over),
         NEW x \in Asks \cup Rows, x \in Fills => FALSE, x \in Bids => x = b,
         JobStep(x, "idle") \/ UNCHANGED job,
         UNCHANGED <<clock, escrow, signed, tx, faults>>
  PROVE  IInv'
<1>1. PICK f \in Fresh(Fills, fills) :
         fills' = [fills EXCEPT ![f] =
           [NoFill EXCEPT !.state = "funds_pending", !.ask = a, !.bid = b, !.over = over,
                          !.seller = asks[a].owner, !.buyer = bids[b].owner]]
  BY DEF Match
<1> DEFINE r == [NoFill EXCEPT !.state = "funds_pending", !.ask = a, !.bid = b, !.over = over,
                               !.seller = asks[a].owner, !.buyer = bids[b].owner]
<1>2. /\ asks[a].state = "open" /\ bids[b].state = "open" /\ a # 0 /\ b # 0
      /\ asks[a].owner \in Owners /\ bids[b].owner \in Owners
      /\ f \in Fills /\ fills[f].state = "none"
  BY <1>1, RowsApart DEF Crosses, IInv, Known, Fresh
<1>3. /\ r \in Fill /\ r.state = "funds_pending" /\ r.phase = "none" /\ ~r.forwarded /\ ~r.overshot
      /\ r.ask = a /\ r.bid = b /\ r.seller = asks[a].owner /\ r.buyer = bids[b].owner
  BY <1>2 DEF Fill, NoFill, FillStates, FillPhases
<1> HIDE DEF r
<1>4. SetAsk(a, "matched") /\ SetBid(b, "matched") /\ UNCHANGED <<active, held>>
  <2>1. asks \in [Asks -> Ask] /\ bids \in [Bids -> Bid]
    BY DEF IInv, TypeOK, BookTypeOK
  <2>. QED BY <2>1 DEF Match, SetAsk, SetBid
<1>5. /\ job' \in [Asks \cup Rows -> JobPlaces] /\ \A g \in Fills : job'[g] = job[g]
      /\ \A c \in Bids : job'[c] = job[c] \/ (c = b /\ job'[c] = "idle")
  BY RowsApart DEF JobStep, IInv, TypeOK, JobPlaces, Rows
<1>6. fills' = [fills EXCEPT ![f] = r]
  BY <1>1 DEF r
<1>. QED BY <1>2, <1>3, <1>4, <1>5, <1>6, NewFillKeeps

LEMMA CompareIs == \A x, y : (x > y) \in BOOLEAN
  OBVIOUS

LEMMA CrossStepKeeps ==
  ASSUME IInv, NEW r \in Asks \cup Bids, CrossStep(r)
  PROVE  IInv'
<1>1. /\ JobStep(r, "idle") /\ r \in Asks \cup Rows /\ r \notin Fills
      /\ UNCHANGED <<clock, escrow, signed, tx, faults>> /\ faults' \in 0 .. MaxFaults
  BY SetJobIs, RowsApart DEF CrossStep, IInv, TypeOK, JobPlaces, Rows
<1>2. CASE UNCHANGED book
  BY <1>1, <1>2, StoppedKeeps
<1>3. CASE r \in Asks /\ CrossAsk(r)
  BY <1>1, <1>3, MatchKeeps, RowsApart DEF CrossAsk, BestBid
<1>4. CASE r \in Bids /\ CrossBid(r)
  <2>1. PICK a \in Asks : BestAsk(a, r) /\ Match(a, r, bids[r].price > asks[a].price)
    BY <1>4 DEF CrossBid
  <2>2. \E over \in BOOLEAN : Match(a, r, over)
    BY <2>1, CompareIs
  <2>. QED BY <1>1, <1>4, <2>1, <2>2, MatchKeeps DEF BestAsk
<1>. QED BY <1>2, <1>3, <1>4 DEF CrossStep

LEMMA AdvanceOpenKeeps ==
  ASSUME IInv, NEW b \in Bids, AdvanceOpen(b)
  PROVE  IInv'
<1>1. CASE CrossBid(b)
  <2>1. PICK a \in Asks : BestAsk(a, b) /\ Match(a, b, bids[b].price > asks[a].price)
    BY <1>1 DEF CrossBid
  <2>2. \E over \in BOOLEAN : Match(a, b, over)
    BY <2>1, CompareIs
  <2>3. UNCHANGED <<job, clock, escrow, signed, tx, faults>> /\ b \in Asks \cup Rows /\ b \notin Fills
    BY BidIs DEF AdvanceOpen
  <2>. QED BY <2>1, <2>2, <2>3, MatchKeeps DEF BestAsk
<1>2. CASE BeginCancelBid(b, "expired")
  BY <1>2, BeginCancelBidKeeps DEF AdvanceOpen
<1>. QED BY <1>1, <1>2 DEF AdvanceOpen

LEMMA SellIntoBidKeeps ==
  ASSUME IInv, NEW o \in Owners, NEW b \in Bids, SellIntoBid(b, o)
  PROVE  IInv'
<1>1. PICK f \in Fresh(Fills, fills) :
         fills' = [fills EXCEPT ![f] =
           [NoFill EXCEPT !.state = "funds_pending", !.bid = b,
                          !.seller = o, !.buyer = bids[b].owner]]
  BY DEF SellIntoBid, FillBid
<1> DEFINE r == [NoFill EXCEPT !.state = "funds_pending", !.bid = b,
                               !.seller = o, !.buyer = bids[b].owner]
<1>2. /\ bids[b].state = "open" /\ b # 0 /\ bids[b].owner \in Owners /\ Available(o) >= 1
      /\ f \in Fills /\ fills[f].state = "none"
  BY <1>1, RowsApart DEF SellIntoBid, FillBid, IInv, Known, Fresh
<1>3. /\ r \in Fill /\ r.state = "funds_pending" /\ r.phase = "none" /\ ~r.forwarded /\ ~r.overshot
      /\ r.ask = 0 /\ r.bid = b /\ r.seller = o /\ r.buyer = bids[b].owner
  BY <1>2 DEF Fill, NoFill, FillStates, FillPhases
<1> HIDE DEF r
<1>4. /\ SetBid(b, "matched") /\ UNCHANGED <<active, held, asks, job, clock, escrow, signed, tx, faults>>
      /\ job' \in [Asks \cup Rows -> JobPlaces]
  BY DEF SellIntoBid, FillBid, SetBid, SettlementUnchanged, IInv, TypeOK, BookTypeOK, JobPlaces
<1>5. fills' = [fills EXCEPT ![f] = r]
  BY <1>1 DEF r
<1>. QED BY <1>2, <1>3, <1>4, <1>5, NewFillKeeps

LEMMA BuyAskKeeps ==
  ASSUME IInv, NEW o \in Owners, NEW f \in Fills, NEW a \in Asks, BuyAsk(f, a, o)
  PROVE  IInv'
<1> DEFINE r == [NoFill EXCEPT !.state = "funds_pending", !.ask = a,
                               !.seller = asks[a].owner, !.buyer = o]
<1>1. /\ asks[a].state = "open" /\ a # 0 /\ asks[a].owner \in Owners /\ fills[f].state = "none"
      /\ fills' = [fills EXCEPT ![f] = r]
  BY RowsApart DEF BuyAsk, CreateTakeFill, IInv, Known, Fresh
<1>2. /\ r \in Fill /\ r.state = "funds_pending" /\ r.phase = "none" /\ ~r.forwarded /\ ~r.overshot
      /\ r.ask = a /\ r.bid = 0 /\ r.seller = asks[a].owner /\ r.buyer = o
  BY <1>1 DEF Fill, NoFill, FillStates, FillPhases
<1> HIDE DEF r
<1>3. /\ UNCHANGED <<active, held, asks, bids, job, clock, escrow, signed, tx, faults>>
      /\ job' \in [Asks \cup Rows -> JobPlaces]
  BY DEF BuyAsk, CreateTakeFill, SettlementUnchanged, IInv, TypeOK, JobPlaces
<1>. QED BY <1>1, <1>2, <1>3, NewFillKeeps

\* A step that changes asks and units only.
LEMMA AsksStepKeeps ==
  ASSUME IInv, asks' \in [Asks -> Ask], held' \in [Owners -> Nat], active' \subseteq active,
         job' \in [Asks \cup Rows -> JobPlaces], \A x \in Rows : job'[x] = job[x],
         UNCHANGED <<fills, bids, clock, escrow, signed, tx>>, faults' \in 0 .. MaxFaults,
         \A a \in Asks :
            /\ asks[a].state \in {"matched", "filled"} => asks'[a] = asks[a]
            /\ asks[a].state # "none" => asks'[a].state # "none" /\ asks'[a].owner = asks[a].owner
            /\ asks'[a].state # "none" => asks'[a].owner \in Owners,
         PromisesAreHeld'
  PROVE  IInv'
<1>1. TypeOK'
  BY DEF IInv, TypeOK, BookTypeOK, JobPlaces
<1>2. (\A g \in Fills : FillInv(g)') /\ (\A b \in Bids : BidInv(b)')
  BY RowsKeep DEF Rows
<1>3. Known'
  <2>1. \A x \in Bids : bids'[x].state # "none" => bids'[x].owner \in Owners
    BY DEF IInv, Known
  <2>. QED BY <2>1, KnownFrame DEF IInv
<1>4. ClaimsOK'
  BY ClaimsFrame, HeldOrders DEF IInv
<1>. QED BY <1>1, <1>2, <1>3, <1>4 DEF IInv

LEMMA PlaceAskKeeps ==
  ASSUME IInv, NEW o \in Owners, NEW a \in Asks, NEW p \in Prices, PlaceAsk(a, o, p)
  PROVE  IInv'
<1> DEFINE r == [state |-> "open", owner |-> o, price |-> p]
<1>1. /\ asks[a].state = "none" /\ Available(o) >= 1 /\ asks' = [asks EXCEPT ![a] = r]
      /\ JobStep(a, "cross") /\ TypeOK /\ faults' \in 0 .. MaxFaults
      /\ UNCHANGED <<active, held, fills, bids, clock, escrow, signed, tx>>
  BY SetJobIs DEF PlaceAsk, CreateAsk, Fresh, SettlementUnchanged, IInv, TypeOK, JobPlaces
<1>2. r \in Ask /\ r.state = "open" /\ r.owner = o
  <2>1. p \in 0 .. MaxPrice
    BY BookAssumption DEF BookAssumption
  <2>. QED BY <2>1 DEF Ask, OrderStates
<1> HIDE DEF r
<1>3. asks' \in [Asks -> Ask] /\ asks'[a] = r /\ \A x \in Asks : x # a => asks'[x] = asks[x]
  BY <1>1, <1>2 DEF TypeOK, BookTypeOK
<1>4. job' \in [Asks \cup Rows -> JobPlaces] /\ \A x \in Rows : job'[x] = job[x]
  BY <1>1, RowsApart DEF JobStep, Rows
<1>5. ASSUME NEW q \in active' PROVE Encumbrance(q)' <= held'[q]
  <2>1. /\ Encumbrance(q) <= held[q] /\ held[q] \in Nat
    BY <1>1, <1>5 DEF IInv, PromisesAreHeld, TypeOK, BookTypeOK
  <2>2. FillProm(q)' \subseteq FillProm(q)
    BY <1>1 DEF FillProm, Promising
  <2>3. CASE q = o
    <3>1. AskProm(q)' \subseteq AskProm(q) \cup {a}
      BY <1>3 DEF AskProm
    <3>2. Encumbrance(q)' <= Encumbrance(q) + 1 /\ Encumbrance(q)' \in Nat /\ Encumbrance(q) \in Nat
      BY <2>2, <3>1, OneMorePromise
    <3>3. held[q] - Encumbrance(q) >= 1 /\ held' = held
      BY <1>1, <2>3 DEF Available
    <3>. QED BY <2>1, <3>2, <3>3
  <2>4. CASE q # o
    <3>1. AskProm(q)' \subseteq AskProm(q)
      BY <1>2, <1>3, <2>4 DEF AskProm
    <3>2. Encumbrance(q)' <= Encumbrance(q) /\ Encumbrance(q)' \in Nat /\ Encumbrance(q) \in Nat
      BY <2>2, <3>1, PromisesShrink
    <3>. QED BY <1>1, <2>1, <3>2
  <2>. QED BY <2>3, <2>4
<1>6. PromisesAreHeld'
  BY <1>5 DEF PromisesAreHeld
<1>7. held' \in [Owners -> Nat]
  BY <1>1 DEF TypeOK, BookTypeOK
<1>8. \A x \in Asks : asks'[x].state # "none" => asks'[x].owner \in Owners
  BY <1>2, <1>3 DEF IInv, Known
<1>. QED BY <1>1, <1>3, <1>4, <1>6, <1>7, <1>8, AsksStepKeeps

LEMMA WithdrawAskKeeps ==
  ASSUME IInv, NEW a \in Asks, WithdrawAsk(a)
  PROVE  IInv'
<1>1. /\ asks[a].state = "open" /\ asks \in [Asks -> Ask] /\ SetAsk(a, "cancelled")
      /\ UNCHANGED <<active, held, fills, bids, clock, escrow, signed, tx, job, faults>>
      /\ TypeOK /\ "cancelled" \in OrderStates
  BY DEF WithdrawAsk, CancelAsk, SettlementUnchanged, SetAsk, IInv, TypeOK, BookTypeOK, OrderStates
<1>2. /\ asks' \in [Asks -> Ask]
      /\ \A x \in Asks : /\ asks'[x].owner = asks[x].owner
                         /\ x # a => asks'[x] = asks[x]
                         /\ x = a => asks'[x].state = "cancelled"
  BY <1>1, AsksRewritten
<1>3. PromisesAreHeld'
  <2>1. \A x \in Asks : asks'[x].state \in {"open", "matched"} =>
            asks'[x].owner = asks[x].owner /\ asks[x].state \in {"open", "matched"}
    BY <1>2
  <2>2. \A g \in Fills : fills'[g].ask = 0 /\ Promising(fills'[g]) =>
            fills[g].ask = 0 /\ fills'[g].seller = fills[g].seller /\ Promising(fills[g])
    BY <1>1
  <2>3. \A p \in active' : held[p] \in Nat /\ held'[p] \in Nat /\ held[p] <= held'[p]
    BY <1>1 DEF TypeOK, BookTypeOK
  <2>. QED BY <1>1, <2>1, <2>2, <2>3, PromisesFrame DEF IInv
<1>4. \A x \in Asks : asks[x].state # "none" => asks[x].owner \in Owners
  BY DEF IInv, Known
<1>5. /\ held' \in [Owners -> Nat] /\ job' \in [Asks \cup Rows -> JobPlaces]
      /\ \A x \in Rows : job'[x] = job[x]
      /\ faults' \in 0 .. MaxFaults
  BY <1>1 DEF TypeOK, BookTypeOK, JobPlaces
<1>. QED BY <1>1, <1>2, <1>3, <1>4, <1>5, AsksStepKeeps

LEMMA ConsumeUnitKeeps ==
  ASSUME IInv, NEW o \in Owners, ConsumeUnit(o)
  PROVE  IInv'
<1>1. /\ held[o] - Encumbrance(o) >= 1 /\ held' = [held EXCEPT ![o] = @ - 1] /\ TypeOK
      /\ UNCHANGED <<active, asks, fills, bids, clock, escrow, signed, tx, job, faults>>
  BY DEF ConsumeUnit, UseUnit, Available, SettlementUnchanged, IInv
<1>2. \A q \in Owners : Encumbrance(q) \in Nat /\ Encumbrance(q)' = Encumbrance(q)
  <2>1. \A q \in Owners : Encumbrance(q)' = Encumbrance(q)
    BY <1>1 DEF Encumbrance, Promising
  <2>. QED BY <2>1, PromisesCount
<1>3. held' \in [Owners -> Nat] /\ \A q \in Owners : held'[q] = IF q = o THEN held[q] - 1 ELSE held[q]
  BY <1>1, <1>2 DEF TypeOK, BookTypeOK
<1>4. PromisesAreHeld'
  <2> SUFFICES ASSUME NEW q \in active' PROVE Encumbrance(q)' <= held'[q]
    BY DEF PromisesAreHeld
  <2>1. q \in Owners /\ Encumbrance(q) <= held[q] /\ held[q] \in Nat
    BY <1>1 DEF IInv, PromisesAreHeld, TypeOK, BookTypeOK
  <2>. QED BY <1>1, <1>2, <1>3, <2>1
<1>5. /\ asks' \in [Asks -> Ask] /\ job' \in [Asks \cup Rows -> JobPlaces] /\ faults' \in 0 .. MaxFaults
      /\ \A x \in Asks : asks'[x].state # "none" => asks'[x].owner \in Owners
  BY <1>1 DEF TypeOK, BookTypeOK, JobPlaces, IInv, Known
<1>. QED BY <1>1, <1>3, <1>4, <1>5, AsksStepKeeps

LEMMA LoseClosetKeeps ==
  ASSUME IInv, NEW o \in Owners, LoseCloset(o)
  PROVE  IInv'
<1>1. /\ active' = active \ {o} /\ held' = [held EXCEPT ![o] = 0] /\ TypeOK /\ faults' \in 0 .. MaxFaults
      /\ UNCHANGED <<asks, fills, bids, clock, escrow, signed, tx, job>>
  BY FaultCounted DEF LoseCloset, DeleteCloset, IInv
<1>2. held' \in [Owners -> Nat] /\ \A q \in active' : held'[q] = held[q] /\ q \in active
  BY <1>1 DEF TypeOK, BookTypeOK
<1>3. PromisesAreHeld'
  <2>1. \A q : Encumbrance(q)' = Encumbrance(q)
    BY <1>1 DEF Encumbrance, Promising
  <2>. QED BY <1>1, <1>2, <2>1 DEF IInv, PromisesAreHeld
<1>4. /\ asks' \in [Asks -> Ask] /\ job' \in [Asks \cup Rows -> JobPlaces]
      /\ \A x \in Asks : asks'[x].state # "none" => asks'[x].owner \in Owners
  BY <1>1 DEF TypeOK, BookTypeOK, JobPlaces, IInv, Known
<1>. QED BY <1>1, <1>2, <1>3, <1>4, AsksStepKeeps

-----------------------------------------------------------------------------
(* The invariant holds.                                                    *)

LEMMA InitEstablishes == Init => IInv
<1> SUFFICES ASSUME Init PROVE IInv
  OBVIOUS
<1> USE DEF Init, BookInit
<1>1. TypeOK
  <2>1. NoAsk \in Ask /\ NoBid \in Bid /\ NoFill \in Fill
    BY BookAssumption DEF BookAssumption, NoAsk, NoBid, NoFill, Ask, Bid, Fill, OrderStates,
                          FillStates, BidPhases, FillPhases
  <2>2. MaxUnits \in Nat /\ MaxFaults \in Nat
    BY BookAssumption, MarketAssumption DEF BookAssumption, MarketAssumption
  <2>. QED BY <2>1, <2>2 DEF TypeOK, BookTypeOK
<1>2. ASSUME NEW f \in Fills
      PROVE  /\ fills[f] = NoFill /\ job[f] = "idle" /\ At(fills[f]) = "none"
             /\ NoFill.state = "none" /\ NoFill.phase = "none" /\ NoFill.ask = 0 /\ NoFill.bid = 0
             /\ NoFill.forwarded = FALSE /\ NoFill.overshot = FALSE
             /\ \A p \in FPhase : tx[<<p, f>>].live = 0 /\ tx[<<p, f>>].landed = 0
  BY TagIs, RowsApart DEF NoFill, At
<1>3. ASSUME NEW f \in Fills PROVE FillInv(f)
  <2>1. FillShape(fills[f], job[f])
    BY <1>2 DEF FillShape
  <2> HIDE DEF Init, BookInit
  <2>2. ASSUME NEW p \in FPhase PROVE TagOK(p, f) /\ ~Landed(p, f)
    <3>1. ~Says(p, f)
      BY <1>2 DEF Says, FPhase, FillPhases
    <3>2. tx[<<p, f>>].live = 0 /\ tx[<<p, f>>].landed = 0
      BY <1>2
    <3>. QED BY <3>1, <3>2 DEF TagOK, Landed
  <2>3. "finish" \in FPhase
    BY DEF FPhase, FillPhases
  <2>. QED BY <1>2, <2>1, <2>2, <2>3 DEF FillInv, PaidStages, FPhase
<1>4. ASSUME NEW b \in Bids
      PROVE  /\ bids[b] = NoBid /\ job[b] = "idle" /\ signed[b] = "waiting" /\ escrow[b] = "none"
             /\ NoBid.state = "none" /\ NoBid.phase = "none" /\ NoBid.finished = FALSE
             /\ \A p \in BPhase : tx[<<p, b>>].live = 0 /\ tx[<<p, b>>].landed = 0
  BY TagIs, RowsApart DEF NoBid
<1>5. ASSUME NEW b \in Bids PROVE BidInv(b)
  <2>1. BidShape(bids[b], job[b])
    BY <1>4 DEF BidShape
  <2> HIDE DEF Init, BookInit
  <2>2. ASSUME NEW p \in BPhase PROVE TagOK(p, b) /\ ~Landed(p, b)
    <3>1. ~Says(p, b)
      BY <1>4 DEF Says, BPhase, BidPhases
    <3>2. tx[<<p, b>>].live = 0 /\ tx[<<p, b>>].landed = 0
      BY <1>4
    <3>. QED BY <3>1, <3>2 DEF TagOK, Landed
  <2>3. "cancel_finish" \in BPhase /\ "cancel" \in BPhase
    BY DEF BPhase, BidPhases
  <2>. QED BY <1>4, <2>1, <2>2, <2>3 DEF BidInv, BPhase
<1>6. Known
  BY <1>2, <1>4 DEF Known, NoAsk
<1>7. ClaimsOK
  BY <1>2 DEF ClaimsOK, HasBid, HasAsk, Buying
<1>8. PromisesAreHeld
  <2> SUFFICES ASSUME NEW o \in active PROVE Encumbrance(o) <= held[o]
    BY DEF PromisesAreHeld
  <2>1. AskProm(o) = {} /\ FillProm(o) = {}
    BY <1>2 DEF AskProm, FillProm, Promising, NoAsk
  <2>2. Encumbrance(o) = 0
    BY <2>1, PromisesCount, FS_EmptySet
  <2>3. held[o] = MaxUnits /\ MaxUnits \in Nat
    BY BookAssumption DEF BookAssumption
  <2>. QED BY <2>2, <2>3
<1>. QED BY <1>1, <1>3, <1>5, <1>6, <1>7, <1>8 DEF IInv

LEMMA HandlerKeeps ==
  ASSUME IInv, NEW r \in Rows, Handler(r)
  PROVE  IInv'
<1>1. CASE Resolve(r)
  BY <1>1, ResolveKeeps
<1>2. CASE Submit(r)
  BY <1>2, SubmitKeeps
<1>3. CASE NotSubmitted(r)
  BY <1>3, NotSubmittedKeeps
<1>4. CASE Confirmed(r)
  BY <1>4, ConfirmedKeeps
<1>5. CASE Rejected(r)
  BY <1>5, RejectedKeeps
<1>6. CASE r \in Bids /\ BidStep(r)
  BY <1>6, OpenBidKeeps, CancelUnopenedKeeps, AdvanceOpenKeeps, AdvanceCancellingKeeps DEF BidStep
<1>7. CASE r \in Fills /\ FillStep(r)
  BY <1>7, TakeFundsKeeps, EscrowFundsKeeps, FinishRefusedKeeps, MoveKeeps, PayKeeps, RefundKeeps,
     MirrorKeeps DEF FillStep
<1>. QED BY <1>1, <1>2, <1>3, <1>4, <1>5, <1>6, <1>7 DEF Handler

LEMMA OwnerStepKeeps ==
  ASSUME IInv, NEW o \in Owners, OwnerStep(o)
  PROVE  IInv'
  BY PlaceAskKeeps, PlaceBidKeeps, SellIntoBidKeeps, BuyAskKeeps, ConsumeUnitKeeps, LoseClosetKeeps
     DEF OwnerStep

LEMMA NextKeeps == IInv /\ [Next]_vars => IInv'
<1> SUFFICES ASSUME IInv, [Next]_vars PROVE IInv'
  OBVIOUS
<1>1. CASE \E o \in Owners : OwnerStep(o)
  BY <1>1, OwnerStepKeeps
<1>2. CASE \E a \in Asks : WithdrawAsk(a)
  BY <1>2, WithdrawAskKeeps
<1>3. CASE \E b \in Bids : WithdrawBid(b)
  BY <1>3, BeginCancelBidKeeps DEF WithdrawBid, SettlementUnchanged
<1>4. CASE \E r \in Rows : UserTxLands(r) \/ UserTxDies(r)
  BY <1>4, UserTxLandsKeeps, UserTxDiesKeeps
<1>5. CASE \E b \in Bids : TimePasses(b) \/ AnyoneCancels(b)
  BY <1>5, TimePassesKeeps, AnyoneCancelsKeeps
<1>6. CASE \E t \in Tags : TxLands(t) \/ TxDies(t)
  BY <1>6, TxLandsKeeps, TxDiesKeeps
<1>7. CASE \E r \in Asks \cup Rows : Crash(r)
  BY <1>7, CrashKeeps
<1>8. CASE \E r \in Asks \cup Bids : CrossStep(r)
  BY <1>8, CrossStepKeeps
<1>9. CASE \E r \in Rows : Handler(r) \/ Unknown(r)
  BY <1>9, HandlerKeeps, UnknownKeeps
<1>10. CASE UNCHANGED vars
  <2>1. /\ UNCHANGED <<active, held, asks, bids, fills, clock, escrow, signed, tx, job, faults>>
        /\ UNCHANGED book
    BY <1>10 DEF vars, book
  <2>2. (\A f \in Fills : FillInv(f)') /\ (\A b \in Bids : BidInv(b)')
    BY <2>1, RowsKeep
  <2>3. TypeOK'
    BY <2>1 DEF IInv, TypeOK, BookTypeOK
  <2>. QED BY <2>1, <2>2, <2>3, BookFrame DEF IInv
<1>. QED BY <1>1, <1>2, <1>3, <1>4, <1>5, <1>6, <1>7, <1>8, <1>9, <1>10 DEF Next

(* The inductive invariant: every fill and every bid is told truly by its row,
   and no transaction lands behind a row's back. *)
THEOREM InductiveInvariant == Spec => []IInv
  BY InitEstablishes, NextKeeps, PTL DEF Spec

(* Every row of the book has a state, a phase and owners that the schema knows,
   and nobody's Closet holds a negative number of units. *)
THEOREM TypeCorrect == Spec => []TypeOK
<1>1. IInv => TypeOK
  BY DEF IInv
<1>. QED BY <1>1, InductiveInvariant, PTL

(* audit_rows: nobody with a Closet promises more units than it holds, whatever
   asks, direct sales, crossings, aborts and economy flows come between. *)
THEOREM PromisesHold == Spec => []PromisesAreHeld
<1>1. IInv => PromisesAreHeld
  BY DEF IInv
<1>. QED BY <1>1, InductiveInvariant, PTL

(* The same order never backs two funded fills: a crossing and a taker's
   payment may race for an ask, and an abort may put it back, but one wins. *)
THEOREM SaleIsSingle == Spec => []OneSalePerOrder
<1>1. IInv => OneSalePerOrder
  <2> SUFFICES ASSUME IInv, NEW f \in Fills, NEW g \in Fills, f # g,
                      fills[f].state \in Buying, fills[g].state \in Buying
               PROVE  /\ fills[f].ask = 0 \/ fills[f].ask # fills[g].ask
                      /\ fills[f].bid = 0 \/ fills[f].bid # fills[g].bid
    BY DEF OneSalePerOrder
  <2>1. \A h \in {f, g} : At(fills[h]) \in Buying
    BY DEF At, Buying
  <2>2. \A h \in {f, g} : /\ fills[h].bid # 0 => HasBid(fills[h])
                          /\ fills[h].ask # 0 => HasAsk(fills[h])
    BY <2>1 DEF HasBid, HasAsk
  <2>. QED BY <2>2 DEF IInv, ClaimsOK
<1>. QED BY <1>1, InductiveInvariant, PTL

\* What a fill's row and its landed transactions say of each other.
LEMMA FillMoney ==
  ASSUME IInv, NEW f \in Fills
  PROVE  /\ Landed("forward", f) \/ Landed("overshoot", f) => At(fills[f]) \in Moved
         /\ Landed("refund", f) => At(fills[f]) \in {"refund_pending", "refunded"}
         /\ At(fills[f]) \in PaidStages => PaidIn(f)
         /\ fills[f].state = "failed" => ~PaidIn(f)
         /\ fills[f].state = "refunded" => Landed("refund", f)
         /\ fills[f].forwarded => Landed("forward", f)
         /\ fills[f].overshot => Landed("overshoot", f)
<1> DEFINE o == fills[f]
<1>1. o \in Fill /\ FillShape(o, job[f]) /\ {"finish", "forward", "overshoot", "refund"} \subseteq FPhase
  BY FillIs DEF FPhase, FillPhases
<1>2. \A p \in FPhase : /\ Landed(p, f) => FSays(p, o) \/ o.phase = p
                        /\ FSays(p, o) => Landed(p, f)
  BY FillTagsRead
<1>3. /\ o.phase \in {"forward", "overshoot"} => At(o) = "asset_moved"
      /\ o.phase = "refund" => At(o) = "refund_pending"
      /\ o.phase = "finish" => At(o) = "funds_pending" /\ o.state # "failed"
  BY <1>1, RollbackIs DEF FillShape, At
<1>4. Landed("forward", f) \/ Landed("overshoot", f) => At(o) \in Moved
  BY <1>1, <1>2, <1>3 DEF FSays, FillShape, Moved
<1>5. Landed("refund", f) => At(o) \in {"refund_pending", "refunded"}
  BY <1>1, <1>2, <1>3 DEF FSays, At
<1>6. At(o) \in PaidStages => PaidIn(f)
  BY <1>1, <1>2, FillIs DEF FSays, PaidIn, FillInv
<1>7. o.state = "failed" => ~PaidIn(f)
  <2> SUFFICES ASSUME o.state = "failed" PROVE ~PaidIn(f)
    OBVIOUS
  <2>1. o.bid = 0 => signed[f] = "dead"
    BY FillIs DEF FillInv
  <2>2. ~FSays("finish", o) /\ o.phase # "finish"
    BY <1>3 DEF FSays, At, PaidStages
  <2>. QED BY <1>1, <1>2, <2>1, <2>2 DEF PaidIn
<1>8. /\ o.state = "refunded" => Landed("refund", f)
      /\ o.forwarded => Landed("forward", f)
      /\ o.overshot => Landed("overshoot", f)
  BY <1>1, <1>2 DEF FSays
<1>. QED BY <1>4, <1>5, <1>6, <1>7, <1>8

(* The app wallet pays a fill's parties only out of money that came in for that
   fill, and never both the seller and the buyer: also when an outcome stays
   unknown, or a crash comes between the transaction and its record. *)
THEOREM PayoutsHold == Spec => []PayoutsAreFunded
<1>1. IInv => PayoutsAreFunded
  BY FillMoney DEF PayoutsAreFunded, Moved, PaidStages
<1>. QED BY <1>1, InductiveInvariant, PTL

(* audit_rows: a mirrored fill was paid for, forwarded and its overshoot
   returned, a refunded one was paid for and paid back, a failed one took
   nothing. *)
THEOREM TerminalBalanced == Spec => []TerminalFillsAreBalanced
<1>1. IInv => TerminalFillsAreBalanced
  <2> SUFFICES ASSUME IInv, NEW f \in Fills
               PROVE  /\ fills[f].state = "mirrored" =>
                           PaidIn(f) /\ Landed("forward", f) /\ (fills[f].over => Landed("overshoot", f))
                      /\ fills[f].state = "refunded" => PaidIn(f) /\ Landed("refund", f)
                      /\ fills[f].state = "failed" => ~PaidIn(f)
    BY DEF TerminalFillsAreBalanced
  <2>1. fills[f].state \in {"mirrored", "refunded"} => At(fills[f]) \in PaidStages
    BY DEF At, PaidStages
  <2>2. fills[f].state = "mirrored" => fills[f].forwarded /\ (fills[f].over => fills[f].overshot)
    BY FillIs DEF FillShape
  <2>. QED BY <2>1, <2>2, FillMoney
<1>. QED BY <1>1, InductiveInvariant, PTL

(* No backend transaction of a fill or a bid is made twice: whatever was lost,
   unclear or interrupted, at most one of each phase ever lands. *)
THEOREM OncePerPhase == Spec => [](\A t \in Tags : tx[t].live + tx[t].landed <= 1)
<1>1. IInv => \A t \in Tags : tx[t].live + tx[t].landed <= 1
  BY TagIs, FillIs, BidIs DEF TagOK
<1>. QED BY <1>1, InductiveInvariant, PTL

-----------------------------------------------------------------------------
(* Bids that ended.                                                        *)

\* Only the user's EscrowCreate locks an escrow, and only while it is waited for.
LEMMA OnlyTheUserLocks ==
  ASSUME IInv, [Next]_vars, NEW b \in Bids, escrow'[b] = "locked", escrow[b] # "locked"
  PROVE  signed[b] = "waiting" /\ bids' = bids
<1>1. escrow' # escrow /\ escrow \in [Bids -> {"none", "locked", "finished", "returned"}]
  BY DEF IInv, TypeOK
<1>2. CASE \E r \in Rows : UserTxLands(r)
  BY <1>1, <1>2 DEF UserTxLands, book
<1>3. CASE \E c \in Bids : AnyoneCancels(c)
  BY <1>1, <1>3 DEF AnyoneCancels
<1>4. CASE \E t \in Tags : TxLands(t)
  BY <1>1, <1>4 DEF TxLands
<1>5. CASE \/ \E r \in Rows : UserTxDies(r) \/ Unknown(r)
           \/ \E a \in Asks : WithdrawAsk(a)
           \/ \E c \in Bids : WithdrawBid(c) \/ TimePasses(c)
           \/ \E t \in Tags : TxDies(t)
           \/ \E r \in Asks \cup Rows : Crash(r)
           \/ \E r \in Asks \cup Bids : CrossStep(r)
           \/ UNCHANGED vars
  BY <1>1, <1>5 DEF UserTxDies, Unknown, WithdrawAsk, WithdrawBid, SettlementUnchanged, TimePasses,
                    TxDies, Crash, CrossStep, vars
<1>6. CASE \E o \in Owners : OwnerStep(o)
  BY <1>1, <1>6 DEF OwnerStep, PlaceAsk, PlaceBid, SellIntoBid, BuyAsk, ConsumeUnit, LoseCloset,
                    SettlementUnchanged
<1>7. CASE \E r \in Rows : Resolve(r) \/ Submit(r) \/ NotSubmitted(r) \/ Confirmed(r) \/ Rejected(r)
  BY <1>1, <1>7 DEF Resolve, Submit, NotSubmitted, Confirmed, Rejected
<1>8. CASE \E c \in Bids : BidStep(c)
  BY <1>1, <1>8 DEF BidStep, OpenBid, CancelUnopened, AdvanceOpen, AdvanceCancelling, Begin
<1>9. CASE \E f \in Fills : FillStep(f)
  BY <1>1, <1>9 DEF FillStep, TakeFunds, EscrowFunds, FinishRefused, Move, Pay, Refund, Mirror, Begin,
                    LedgerUnchanged
<1>. QED BY <1>2, <1>3, <1>4, <1>5, <1>6, <1>7, <1>8, <1>9 DEF Next, Handler, Rows

\* A bid ends only when its escrow is seen not to be locked.
LEMMA EndsUnlocked ==
  ASSUME IInv, LaggingReads = FALSE, [Next]_vars,
         NEW b \in Bids, bids'[b].state \in Ended, bids[b].state \notin Ended
  PROVE  escrow[b] # "locked" /\ escrow' = escrow
<1>1. bids' # bids /\ bids \in [Bids -> Bid] /\ Bids \subseteq Rows
  BY DEF IInv, TypeOK, BookTypeOK, Rows
<1>2. CASE \/ \E r \in Rows : UserTxLands(r) \/ UserTxDies(r)
           \/ \E a \in Asks : WithdrawAsk(a)
           \/ \E c \in Bids : AnyoneCancels(c) \/ TimePasses(c)
           \/ \E t \in Tags : TxLands(t) \/ TxDies(t)
           \/ \E r \in Asks \cup Rows : Crash(r)
           \/ \E r \in Rows : Submit(r) \/ Unknown(r)
           \/ UNCHANGED vars
  BY <1>1, <1>2 DEF UserTxLands, UserTxDies, WithdrawAsk, CancelAsk, AnyoneCancels, TimePasses, TxLands,
                    TxDies, Crash, Submit, Unknown, vars, book

<1>3. CASE \E o \in Owners : OwnerStep(o)
  <2>1. ASSUME NEW o \in Owners, NEW c \in Bids, NEW p \in Prices, PlaceBid(c, o, p) PROVE FALSE
    BY <1>1, <2>1 DEF PlaceBid, CreatePendingBid, NoBid, Ended
  <2>2. ASSUME NEW o \in Owners, NEW c \in Bids, SellIntoBid(c, o) PROVE FALSE
    BY <1>1, <2>2 DEF SellIntoBid, FillBid, Bid, Ended
  <2>. QED BY <1>1, <1>3, <2>1, <2>2 DEF OwnerStep, PlaceAsk, CreateAsk, BuyAsk, CreateTakeFill,
                    ConsumeUnit, UseUnit, LoseCloset, DeleteCloset
<1>4. ASSUME NEW c \in Bids, NEW why, BeginCancelBid(c, why) PROVE FALSE
  BY <1>1, <1>4 DEF BeginCancelBid, Bid, Ended
<1>5. ASSUME NEW a, NEW c \in Bids, NEW over, Match(a, c, over) PROVE FALSE
  BY <1>1, <1>5 DEF Match, Bid, Ended
<1>6. CASE \E r \in Asks \cup Bids : CrossStep(r)
  BY <1>1, <1>5, <1>6 DEF CrossStep, CrossAsk, CrossBid, book
<1>7. ASSUME NEW r \in Rows, NEW p, SetPhase(r, p) PROVE FALSE
  BY <1>1, <1>7 DEF SetPhase, Bid
<1>8. CASE \E r \in Rows : NotSubmitted(r) \/ Rejected(r)
  BY <1>7, <1>8 DEF NotSubmitted, Rejected
<1>9. ASSUME NEW r \in Rows, PhaseDone(r), Landed(Phase(r), r), Phase(r) # "none"
      PROVE  escrow[b] # "locked"
  <2>1. r \in Bids /\ BidPhaseDone(r)
    BY <1>1, <1>9 DEF PhaseDone, FillPhaseDone
  <2>2. bids[r] \in Bid /\ BidShape(bids[r], job[r]) /\ BidInv(r) /\ Phase(r) = bids[r].phase
    BY <2>1, BidIs
  <2>3. b = r /\ bids[r].phase \in {"cancel", "cancel_refund"}
    BY <1>1, <1>9, <2>1, <2>2 DEF BidPhaseDone, Bid, BidPhases
  <2>4. CASE bids[r].phase = "cancel"
    BY <1>9, <2>2, <2>3, <2>4 DEF BidInv
  <2>5. CASE bids[r].phase = "cancel_refund"
    <3>1. bids[r].finished /\ "cancel_finish" \in BPhase
      BY <2>2, <2>5 DEF BidShape, BPhase, BidPhases
    <3>2. Landed("cancel_finish", r)
      BY <2>1, <3>1, BidTagsRead DEF BSays
    <3>. QED BY <2>2, <2>3, <3>2 DEF BidInv
  <2>. QED BY <2>3, <2>4, <2>5
<1>10. CASE \E r \in Rows : Resolve(r) \/ Confirmed(r)
  <2>1. PICK r \in Rows : Resolve(r) \/ Confirmed(r)
    BY <1>10
  <2>2. escrow' = escrow
    BY <2>1 DEF Resolve, Confirmed
  <2>3. CASE Resolve(r)
    <3>1. \/ Landed(Phase(r), r) /\ PhaseDone(r)
          \/ SetPhase(r, "none")
          \/ UNCHANGED bids
      BY <2>3 DEF Resolve
    <3>. QED BY <1>1, <1>7, <1>9, <2>2, <2>3, <3>1 DEF Resolve
  <2>4. CASE Confirmed(r)
    <3>1. Phase(r) # "none"
      BY <2>4, FillIs, BidIs DEF Confirmed, FillShape, BidShape, Rows
    <3>. QED BY <1>9, <2>2, <2>4, <3>1 DEF Confirmed
  <2>. QED BY <2>1, <2>3, <2>4
<1>11. CASE \E c \in Bids : WithdrawBid(c)
  BY <1>4, <1>11 DEF WithdrawBid
<1>12. CASE \E c \in Bids : BidStep(c)
  <2>1. PICK c \in Bids : BidStep(c)
    BY <1>12
  <2>2. CASE OpenBid(c)
    BY <1>1, <2>2 DEF OpenBid, MarkBidOpen, Bid, Ended
  <2>3. CASE CancelUnopened(c)
    BY <1>1, <2>3 DEF CancelUnopened, Bid
  <2>4. CASE AdvanceOpen(c)
    BY <1>4, <1>5, <2>4 DEF AdvanceOpen, CrossBid
  <2>5. CASE AdvanceCancelling(c)
    BY <1>1, <1>7, <2>5 DEF AdvanceCancelling, Begin, SeenGone, Bid
  <2>. QED BY <2>1, <2>2, <2>3, <2>4, <2>5 DEF BidStep
<1>13. ASSUME NEW f \in Fills, fills[f].bid \in Bids, NEW s, NEW why, AbortUnfundedFill(f, s, why),
              s \in {"none", "cancelling"} \/ SeenGone(fills[f].bid)
       PROVE  escrow[b] # "locked"
  <2>1. b = fills[f].bid /\ s \notin {"none", "cancelling"}
    BY <1>1, <1>13, ZenonT(30) DEF AbortUnfundedFill, Bid, Ended
  <2>. QED BY <1>13, <2>1 DEF SeenGone
<1>14. CASE \E f \in Fills : FillStep(f)
  <2>1. PICK f \in Fills : FillStep(f)
    BY <1>14
  <2>2. CASE TakeFunds(f) \/ Pay(f) \/ Refund(f) \/ Mirror(f)
    BY <1>1, <1>7, <2>1, <2>2 DEF TakeFunds, ClaimAskForPayment, Pay, Refund, Mirror, MarkSideMirrored,
                                  Begin, Rows
  <2>3. CASE EscrowFunds(f)
    <3>1. fills[f].bid \in Bids
      BY <2>3, FillIs DEF EscrowFunds, Fill
    <3>. QED BY <1>7, <1>13, <2>3, <3>1 DEF EscrowFunds, Begin, LedgerUnchanged, Rows
  <2>4. CASE FinishRefused(f)
    <3>1. fills[f].bid \in Bids
      BY <2>4, FillIs DEF FinishRefused, FillShape, Fill
    <3>. QED BY <1>1, <1>13, <2>4, <3>1 DEF FinishRefused, LedgerUnchanged, book
  <2>5. CASE Move(f)
    <3>1. b = fills[f].bid /\ escrow' = escrow
      BY <1>1, <2>5 DEF Move, MoveAsset, Ended, LedgerUnchanged, Bid
    <3>2. "finish" \in FPhase /\ fills[f].state = "funded"
      BY <2>5 DEF FPhase, FillPhases, Move, Ready
    <3>3. FSays("finish", fills[f])
      BY <3>1, <3>2, RowsApart DEF FSays, At, PaidStages
    <3>. QED BY <3>1, <3>2, <3>3, FillTagsRead, FillIs DEF FillInv
  <2>. QED BY <2>1, <2>2, <2>3, <2>4, <2>5 DEF FillStep
<1>. QED BY <1>2, <1>3, <1>6, <1>8, <1>10, <1>11, <1>12, <1>14 DEF Next, Handler

(* A bid that ended without a sale has its BRIX back with its owner: the escrow
   is unlocked, and what the app finished of it was paid on.  get_escrow must be
   answered by a server that has the escrow. *)
THEOREM EndedBidsAreHome ==
  ASSUME LaggingReads = FALSE
  PROVE  Spec => []EndedBidIsHome
<1>1. Init => EndedIsUnlocked
  BY DEF Init, BookInit, EndedIsUnlocked, NoBid, Ended
<1>2. IInv /\ EndedIsUnlocked /\ [Next]_vars => EndedIsUnlocked'
  <2> SUFFICES ASSUME IInv, EndedIsUnlocked, [Next]_vars, NEW b \in Bids, bids'[b].state \in Ended
               PROVE  escrow'[b] # "locked"
    BY DEF EndedIsUnlocked
  <2>1. CASE bids[b].state \in Ended
    <3>1. escrow[b] # "locked" /\ signed[b] # "waiting"
      BY <2>1, BidIs DEF EndedIsUnlocked, BidInv, Ended
    <3>. QED BY <3>1, OnlyTheUserLocks
  <2>2. CASE bids[b].state \notin Ended
    BY <2>2, EndsUnlocked
  <2>. QED BY <2>1, <2>2
<1>3. IInv /\ EndedIsUnlocked => EndedBidIsHome
  <2> SUFFICES ASSUME IInv, EndedIsUnlocked, NEW b \in Bids, bids[b].state \in Ended
               PROVE  Landed("cancel_finish", b) => Landed("cancel_refund", b)
    BY DEF EndedBidIsHome, EndedIsUnlocked, Ended
  <2>1. /\ bids[b] \in Bid /\ bids[b].phase = "none"
        /\ "cancel_finish" \in BPhase /\ "cancel_refund" \in BPhase
    BY BidIs DEF BidShape, Ended, BPhase, BidPhases
  <2>2. Landed("cancel_finish", b) => bids[b].finished
    <3>1. /\ tx[<<"cancel_finish", b>>].landed > 0 =>
               \/ BOver("cancel_finish", bids[b])
               \/ bids[b].phase = "cancel_finish" /\ job[b] # "begun"
          /\ Landed("cancel_finish", b) <=> tx[<<"cancel_finish", b>>].landed > 0
      BY ONLY IInv, b \in Bids, <2>1, BidTagsRead
    <3>. QED BY <2>1, <3>1 DEF BOver, BSays
  <2>3. bids[b].finished => Landed("cancel_refund", b)
    <3>1. /\ BSays("cancel_refund", bids[b]) => tx[<<"cancel_refund", b>>].landed > 0
          /\ Landed("cancel_refund", b) <=> tx[<<"cancel_refund", b>>].landed > 0
      BY ONLY IInv, b \in Bids, <2>1, BidTagsRead
    <3>. QED BY <3>1 DEF BSays
  <2>. QED BY <2>2, <2>3
<1>. QED BY <1>1, <1>2, <1>3, InductiveInvariant, PTL DEF Spec
=============================================================================

----------------------------- MODULE ClosetBook ------------------------------
(***************************************************************************)
(* The Closet Market's book: asks and bids on one trait (slot, value), the *)
(* fills that match them, and the units of that trait in the owners'       *)
(* Closets.  Each operation below is one IMMEDIATE sqlite transaction of   *)
(* lfg_core/closet_market_store.py.  An ask does not remove the unit it    *)
(* promises from the Closet: encumbrance counts the promises, and every    *)
(* consumer of units asks it.                                              *)
(***************************************************************************)
EXTENDS Integers, FiniteSets

CONSTANTS
    Owners,
    Asks, Bids, Fills,   \* bound: the rows that may ever be created
    Prices, MaxPrice,
    MaxUnits,            \* bound: units of the trait an owner may gain
    None

ASSUME BookAssumption ==
    /\ Asks \subseteq Nat \ {0} /\ Bids \subseteq Nat \ {0} /\ Fills \subseteq Nat \ {0}
    /\ IsFiniteSet(Asks) /\ IsFiniteSet(Fills)
    /\ Asks \cap Bids = {} /\ Asks \cap Fills = {} /\ Bids \cap Fills = {}
    /\ Prices \subseteq 1 .. MaxPrice /\ MaxPrice \in Nat /\ MaxUnits \in Nat
    /\ None \notin Owners

VARIABLES
    active,   \* closet_tokens: the owners with an active Closet
    held,     \* closet_assets: units of the trait in each Closet
    asks, bids, fills   \* closet_orders by side, and closet_fills

book == <<active, held, asks, bids, fills>>

OrderStates == {"none", "pending_escrow", "open", "matched", "filled", "cancelling",
                "cancelled", "expired"}
FillStates  == {"none", "funds_pending", "funded", "asset_moved", "paid", "mirrored",
                "refund_pending", "refunded", "indeterminate", "failed"}
Terminal    == {"mirrored", "refunded", "failed"}
LiveBid     == {"pending_escrow", "open", "matched", "cancelling"}
BidPhases   == {"none", "cancel", "cancel_finish", "cancel_refund"}
FillPhases  == {"none", "finish", "forward", "overshoot", "refund"}

Ask  == [state : OrderStates, owner : Owners \cup {None}, price : 0 .. MaxPrice]
Bid  == [state : OrderStates, owner : Owners \cup {None}, price : 0 .. MaxPrice,
         reason : {"none", "unopened", "user", "expired", "no_closet", "undeliverable"},
         phase : BidPhases,
         finished : BOOLEAN]                  \* cancel_finish_hash is set
Fill == [state : FillStates, ask : Asks \cup {0}, bid : Bids \cup {0},
         seller : Owners \cup {None}, buyer : Owners \cup {None},
         over : BOOLEAN,                      \* overshoot_brix > 0
         phase : FillPhases,
         forwarded : BOOLEAN, overshot : BOOLEAN,   \* forward / overshoot_tx_hash
         mirrored : SUBSET {"seller", "buyer"}]

NoAsk  == [state |-> "none", owner |-> None, price |-> 0]
NoBid  == [state |-> "none", owner |-> None, price |-> 0, reason |-> "none",
           phase |-> "none", finished |-> FALSE]
NoFill == [state |-> "none", ask |-> 0, bid |-> 0, seller |-> None, buyer |-> None,
           over |-> FALSE, phase |-> "none", forwarded |-> FALSE, overshot |-> FALSE,
           mirrored |-> {}]

BookTypeOK ==
    /\ active \subseteq Owners
    /\ held \in [Owners -> Nat]
    /\ asks \in [Asks -> Ask] /\ bids \in [Bids -> Bid] /\ fills \in [Fills -> Fill]

BookInit ==
    /\ active = Owners
    /\ held = [o \in Owners |-> MaxUnits]
    /\ asks = [a \in Asks |-> NoAsk]
    /\ bids = [b \in Bids |-> NoBid]
    /\ fills = [f \in Fills |-> NoFill]

(* Rows are created in the order of their ids. *)
Fresh(S, table) == {i \in S : table[i].state = "none"
                              /\ \A j \in S : j < i => table[j].state # "none"}

-----------------------------------------------------------------------------
(* encumbrance: units promised by asks, and by fills of a bid straight from
   the Closet that have not moved the unit yet. *)
Promising(f) == \/ f.state \in {"funds_pending", "funded"}
                \/ f.state = "indeterminate" /\ f.phase = "finish"
Encumbrance(o) ==
    Cardinality({a \in Asks : asks[a].owner = o /\ asks[a].state \in {"open", "matched"}})
      + Cardinality({f \in Fills : fills[f].seller = o /\ fills[f].ask = 0 /\ Promising(fills[f])})
Available(o) == held[o] - Encumbrance(o)

(* create_ask, under the owner's lock. *)
CreateAsk(a, o, p) ==
    /\ a \in Fresh(Asks, asks)
    /\ o \in active
    /\ Available(o) >= 1
    /\ asks' = [asks EXCEPT ![a] = [state |-> "open", owner |-> o, price |-> p]]
    /\ UNCHANGED <<active, held, bids, fills>>

CancelAsk(a) ==
    /\ asks[a].state = "open"
    /\ asks' = [asks EXCEPT ![a].state = "cancelled"]
    /\ UNCHANGED <<active, held, bids, fills>>

(* create_pending_bid; a unique index allows one live bid per owner. *)
CreatePendingBid(b, o, p) ==
    /\ b \in Fresh(Bids, bids)
    /\ o \in active
    /\ \A c \in Bids : bids[c].owner = o => bids[c].state \notin LiveBid
    /\ bids' = [bids EXCEPT ![b] = [NoBid EXCEPT !.state = "pending_escrow",
                                                 !.owner = o, !.price = p]]
    /\ UNCHANGED <<active, held, asks, fills>>

MarkBidOpen(b) ==
    /\ bids[b].state = "pending_escrow"
    /\ bids' = [bids EXCEPT ![b].state = "open"]
    /\ UNCHANGED <<active, held, asks, fills>>

BeginCancelBid(b, why) ==
    /\ bids[b].state = "open"
    /\ bids' = [bids EXCEPT ![b].state = "cancelling", ![b].reason = why]
    /\ UNCHANGED <<active, held, asks, fills>>

(* cross_incoming: the best resting counter-order, oldest first on a tie,
   sets the price; both orders are matched and the fill is inserted. *)
Crosses(a, b) == /\ asks[a].state = "open" /\ bids[b].state = "open"
                 /\ asks[a].owner # bids[b].owner
                 /\ asks[a].price <= bids[b].price
BetterAsk(a, c) == \/ asks[a].price < asks[c].price
                   \/ asks[a].price = asks[c].price /\ a <= c
BetterBid(b, c) == \/ bids[b].price > bids[c].price
                   \/ bids[b].price = bids[c].price /\ b <= c
BestAsk(a, b) == Crosses(a, b) /\ \A c \in Asks : Crosses(c, b) => BetterAsk(a, c)
BestBid(a, b) == Crosses(a, b) /\ \A c \in Bids : Crosses(a, c) => BetterBid(b, c)

Match(a, b, over) ==
    /\ asks' = [asks EXCEPT ![a].state = "matched"]
    /\ bids' = [bids EXCEPT ![b].state = "matched"]
    /\ \E f \in Fresh(Fills, fills) :
         fills' = [fills EXCEPT ![f] =
           [NoFill EXCEPT !.state = "funds_pending", !.ask = a, !.bid = b, !.over = over,
                          !.seller = asks[a].owner, !.buyer = bids[b].owner]]
    /\ UNCHANGED <<active, held>>

CrossAsk(a) == \E b \in Bids : BestBid(a, b) /\ Match(a, b, FALSE)
CrossBid(b) == \E a \in Asks : BestAsk(a, b) /\ Match(a, b, bids[b].price > asks[a].price)

(* Mutant: the filler's promised units are not counted. *)
FillBidUnchecked(b, o) ==
    /\ bids[b].state = "open"
    /\ bids[b].owner # o
    /\ o \in active
    /\ held[o] >= 1
    /\ bids' = [bids EXCEPT ![b].state = "matched"]
    /\ \E f \in Fresh(Fills, fills) :
         fills' = [fills EXCEPT ![f] =
           [NoFill EXCEPT !.state = "funds_pending", !.bid = b,
                          !.seller = o, !.buyer = bids[b].owner]]
    /\ UNCHANGED <<active, held, asks>>

(* fill_bid: a holder sells straight into a bid, under the filler's lock. *)
FillBid(b, o) ==
    /\ bids[b].state = "open"
    /\ bids[b].owner # o
    /\ o \in active
    /\ Available(o) >= 1
    /\ bids' = [bids EXCEPT ![b].state = "matched"]
    /\ \E f \in Fresh(Fills, fills) :
         fills' = [fills EXCEPT ![f] =
           [NoFill EXCEPT !.state = "funds_pending", !.bid = b,
                          !.seller = o, !.buyer = bids[b].owner]]
    /\ UNCHANGED <<active, held, asks>>

(* create_take_fill: a buyer starts paying; the ask is not reserved. *)
CreateTakeFill(f, a, o) ==
    /\ f \in Fresh(Fills, fills)
    /\ asks[a].state = "open"
    /\ asks[a].owner # o
    /\ o \in active
    /\ fills' = [fills EXCEPT ![f] =
         [NoFill EXCEPT !.state = "funds_pending", !.ask = a,
                        !.seller = asks[a].owner, !.buyer = o]]
    /\ UNCHANGED <<active, held, asks, bids>>

(* Mutant: the ask is not checked again when the payment arrives. *)
ClaimAskUnchecked(f) ==
    /\ asks' = [asks EXCEPT ![fills[f].ask].state = "matched"]
    /\ fills' = [fills EXCEPT ![f].state = "funded"]
    /\ UNCHANGED <<active, held, bids>>

(* claim_ask_for_payment: the first validated payment takes the ask. *)
ClaimAskForPayment(f) ==
    LET a == fills[f].ask IN
      /\ IF asks[a].state = "open" /\ asks[a].owner = fills[f].seller
         THEN /\ asks' = [asks EXCEPT ![a].state = "matched"]
              /\ fills' = [fills EXCEPT ![f].state = "funded"]
         ELSE /\ fills' = [fills EXCEPT ![f].state = "refund_pending"]
              /\ UNCHANGED asks
      /\ UNCHANGED <<active, held, bids>>

(* abort_unfunded_fill: release the matched orders.  "none" stands for no
   bid_state argument. *)
Blocked(f) == fills[f].buyer \notin active \/ held[fills[f].seller] < 1

AbortUnfundedFill(f, bidState, why) ==
    LET a == fills[f].ask   b == fills[f].bid
        lost == fills[f].buyer \notin active
        to == IF bidState # "none" THEN bidState ELSE IF lost THEN "cancelling" ELSE "open"
        because == IF bidState # "none" THEN why ELSE IF lost THEN "no_closet" ELSE "none"
    IN /\ fills' = [fills EXCEPT ![f].state = "failed"]
       /\ asks' = [x \in Asks |->
            IF x = a /\ asks[x].state = "matched"
            THEN [asks[x] EXCEPT !.state = IF held[fills[f].seller] < 1 THEN "cancelled" ELSE "open"]
            ELSE asks[x]]
       /\ bids' = [x \in Bids |->
            IF x = b /\ bids[x].state = "matched"
            THEN [bids[x] EXCEPT !.state = to,
                                 !.reason = IF because = "none" THEN @ ELSE because]
            ELSE bids[x]]
       /\ UNCHANGED <<active, held>>

(* move_asset: the unit changes hands and both orders are filled, or nothing
   moves and the fill is refunded. *)
MoveAsset(f) ==
    LET a == fills[f].ask   b == fills[f].bid
        seller == fills[f].seller   buyer == fills[f].buyer
    IN IF Blocked(f)
       THEN /\ fills' = [fills EXCEPT ![f].state = "refund_pending"]
            /\ asks' = [x \in Asks |->
                 IF x = a THEN [asks[x] EXCEPT !.state = IF held[seller] < 1 THEN "cancelled"
                                                         ELSE "open"]
                 ELSE asks[x]]
            /\ bids' = [x \in Bids |->
                 IF x = b THEN [bids[x] EXCEPT !.state = "cancelled", !.reason = "undeliverable"]
                 ELSE bids[x]]
            /\ UNCHANGED <<active, held>>
       ELSE /\ held' = [held EXCEPT ![seller] = @ - 1, ![buyer] = @ + 1]
            /\ fills' = [fills EXCEPT ![f].state = "asset_moved"]
            /\ asks' = [x \in Asks |-> IF x = a THEN [asks[x] EXCEPT !.state = "filled"] ELSE asks[x]]
            /\ bids' = [x \in Bids |-> IF x = b THEN [bids[x] EXCEPT !.state = "filled"] ELSE bids[x]]
            /\ UNCHANGED active

(* mark_side_mirrored *)
MarkSideMirrored(f, side) ==
    LET both == fills[f].mirrored \cup {side} = {"seller", "buyer"} IN
      /\ fills' = [fills EXCEPT ![f].mirrored = @ \cup {side},
                                ![f].state = IF both /\ @ = "paid" THEN "mirrored" ELSE @]
      /\ UNCHANGED <<active, held, asks, bids>>
-----------------------------------------------------------------------------
(* Two economy actions outside the market. *)

(* An economy flow consumes a unit, under the owner's lock and only one that
   no order promises (_listed_error). *)
UseUnit(o) ==
    /\ Available(o) >= 1
    /\ held' = [held EXCEPT ![o] = @ - 1]
    /\ UNCHANGED <<active, asks, bids, fills>>

(* delete_closet: a reconcile removes the owner's Closet and its contents. *)
DeleteCloset(o) ==
    /\ o \in active
    /\ active' = active \ {o}
    /\ held' = [held EXCEPT ![o] = 0]
    /\ UNCHANGED <<asks, bids, fills>>
=============================================================================

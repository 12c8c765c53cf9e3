--------------------------- MODULE MCClosetMarket ----------------------------
(* Small instances of ClosetMarket for TLC.  One run tells three stories,  *)
(* and no mixture of them, which would be too many states: two buyers race *)
(* for an ask, two sellers race for a bid, or an ask and a bid that pays   *)
(* more cross while nothing fails.                                         *)
EXTENDS ClosetMarket

Third   == CHOOSE o \in Owners : TRUE
Idle(o) ==
    /\ o \in active /\ held[o] = MaxUnits
    /\ \A a \in Asks : asks[a].owner # o
    /\ \A b \in Bids : bids[b].owner # o
    /\ \A f \in Fills : o \notin {fills[f].seller, fills[f].buyer}

AnyAsk  == \E a \in Asks : asks[a].state # "none"
AnyBid  == \E b \in Bids : bids[b].state # "none"
OneFill == Cardinality({f \in Fills : fills[f].state # "none"}) <= 1

OneStory ==
    /\ \A a \in Asks : asks[a].price <= 1
    /\ \/ ~AnyBid /\ Idle(Third)
       \/ ~AnyAsk /\ \A b \in Bids : bids[b].price <= 1
       \/ /\ Idle(Third) /\ OneFill /\ (AnyAsk => faults = 0)
          /\ \A b \in Bids : bids[b].price \in {0, 2}

\* A crossing that the story forbids is no step the sweep must take.
StoryFairness ==
    /\ \A r \in Rows : WF_vars(Handler(r)) /\ WF_vars(UserTxDies(r))
    /\ \A r \in Asks \cup Bids : WF_vars(CrossStep(r) /\ OneStory')
    /\ \A t \in Tags : WF_vars(TxLands(t) \/ TxDies(t))

StorySpec == Init /\ [][Next /\ OneStory']_vars /\ StoryFairness
=============================================================================

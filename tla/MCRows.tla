------------------------------- MODULE MCRows -------------------------------
(* Rows that must agree with the ledger whatever outcome is unknown: the   *)
(* claims of BRIX, and the mirror and journal of a Closet.  They share     *)
(* nothing, so in a behavior only one of them moves.                       *)
EXTENDS ClosetToken, BrixClaims, TLC

VARIABLE moving

Symmetry == Permutations(Keys) \cup Permutations(Requests)

\* A step that nobody else can see or prevent comes before those of others.
Private ==
    \/ op.step \in {"sync", "undo"}
    \/ op.step = "first" /\ op.kind \in {"assemble", "equip", "extract"}

RowsInit == Init /\ ClaimInit /\ moving \in {"closet", "claims"}

RowsNext ==
    \/ moving = "closet" /\ Next /\ (Private => op' # op) /\ UNCHANGED <<claimVars, moving>>
    \/ moving = "claims" /\ ClaimNext /\ UNCHANGED <<vars, moving>>

RowsSpec == RowsInit /\ [][RowsNext]_<<vars, claimVars, moving>>
=============================================================================

----------------------------- MODULE OncePayment -----------------------------
(***************************************************************************)
(* What a phase of a durable row promises: the ledger makes its payment at *)
(* most once, the row records it only after it was made, and once recorded *)
(* nothing more is paid.  PinnedTx implements this.                        *)
(***************************************************************************)
CONSTANT Payments      \* the validated payments that could carry the tag

VARIABLES
    paid,              \* the payments the ledger has made
    recorded           \* the row's hash field is set

vars == <<paid, recorded>>

Init == paid = {} /\ recorded = FALSE

Pay ==
    /\ paid = {} /\ ~recorded
    /\ \E p \in Payments : paid' = {p}
    /\ UNCHANGED recorded

Record ==
    /\ paid # {} /\ ~recorded
    /\ recorded' = TRUE
    /\ UNCHANGED paid

Next == Pay \/ Record

Spec == Init /\ [][Next]_vars
=============================================================================

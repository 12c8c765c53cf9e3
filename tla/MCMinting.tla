----------------------------- MODULE MCMinting ------------------------------
(* One bulk job of two units and one single session. *)
EXTENDS Minting

MCWanted == [c \in Claimant |-> IF c \in Bulk THEN 1..2 ELSE {1}]
\* As many as a unit can have about: one per fault, one per restart, one more.
MCToken  == {<<c, u, k>> \in Claimant \X (1..2) \X (1..3) : c \in Bulk \/ (u = 1 /\ k = 1)}
MCOwner  == [t \in Token |-> t[1]]

\* A session that only has steps of its own to take, none of which another can
\* see, takes one of them before anyone else moves.
Private(s) ==
    \/ mem[s].backing \/ mem[s].step \in {"closing", "admitting"}
    \/ mem[s].step = "waiting" /\ paid[s] = "landed"
OwnStep(s) == <<mem[s], paid[s]>>' # <<mem[s], paid[s]>>

\* Nothing reads the index after the last reservation was asked for.
IndexIsRead == \E c \in Claimant : mem[c].step \in {"none", "admitting"}

MintingStep ==
    /\ Next
    /\ \A s \in Single : Private(s) => OwnStep(s)
    /\ indexed' # indexed => IndexIsRead
=============================================================================

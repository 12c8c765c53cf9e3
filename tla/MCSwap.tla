------------------------------- MODULE MCSwap -------------------------------
(* Two sessions, two editions, two surfaces. *)
EXTENDS Swap

CONSTANTS s1, s2, discord, telegram

MCSession == {s1, s2}
MCSurface == {discord, telegram}

Waiting(s) == mem[s].step = "none"

\* Sessions, surfaces and editions are interchangeable: s1 begins, on discord,
\* and if one edition is legacy, it is the first.  The index is read by a
\* session that starts, and by nobody later.  Who waits for a payment has a
\* step to take that nobody else can see, except by starting.
MCSpec ==
    /\ Init /\ (2 \in legacy => 1 \in legacy)
    /\ [][/\ Next
          /\ Waiting(s1) => Waiting(s2)' /\ mem'[s1].surface # telegram
          /\ (\E t \in Token : Accept(t) \/ Listen(t)) => Waiting(s2)
          /\ \A s \in Session : mem[s].step = "paying" =>
                mem'[s] # mem[s] \/ \E r \in Session : Waiting(r) /\ ~Waiting(r)']_vars
    /\ Fairness
=============================================================================

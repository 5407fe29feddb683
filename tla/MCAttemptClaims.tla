-------------------------- MODULE MCAttemptClaims --------------------------
(* Instances of AttemptClaims for TLC. *)
EXTENDS AttemptClaims, TLC

CONSTANT Second     \* the attempt that is dispatched in the smaller scope only

SessionSymmetry == Permutations(Sessions)

\* Bound: one attempt meets both hosts, any registry change and both lease
\* terms for MaxTime ticks; two attempts share the host that never changes, for
\* a quarter of the time and with leases of one tick.
Scope ==
    attempts[Second].status # "none" =>
        /\ 4 * now <= MaxTime
        /\ \A h \in Changing : ~registry[h].registered
        /\ \A a \in Attempts : claims[a].owner \notin Changing /\ claims[a].lease <= now + 1
=============================================================================

------------------------- MODULE MCRuntimeBootstrap -------------------------
(* An instance of RuntimeBootstrap for TLC. *)
EXTENDS RuntimeBootstrap

CONSTANTS p1, p2, n1, n2

Contested == proc[p1].at # "idle" /\ proc[p2].at # "idle"

TwoNames == n2 \in Range(contexts) \cup {proc[p1].name, proc[p2].name}

\* Bound: two commands are under way at once, and a second name is used, only
\* until something fails or is authored; the Studio server may be under way
\* beside a command at any time, but not beside two that use two names.
Scope ==
    /\ Contested \/ TwoNames => edits = 0 /\ faults = 0
    /\ Contested /\ TwoNames => proc[Studio].at \in {"idle", "ready"}
=============================================================================

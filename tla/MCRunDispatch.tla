--------------------------- MODULE MCRunDispatch ---------------------------
(* An instance of RunDispatch for TLC: one caller sees both goals, the other *)
(* only one of them.                                                         *)
EXTENDS RunDispatch, TLC

CONSTANTS g1, g2, c1, c2, r1

Scopes == (c1 :> {g1}) @@ (c2 :> {g1}) @@ (r1 :> {g1, g2})

\* Bound: two callers compete for one goal; with two visits, or with a second
\* goal started, there is one caller next to the reviewer.
Focus ==
    Len(acts[g1]) + Len(acts[g2]) >= 2 =>
        /\ goals[g2].status # "draft" => Len(acts[g1]) < 2 /\ Len(acts[g2]) < 2
        /\ calls[c2].at = "idle"
=============================================================================

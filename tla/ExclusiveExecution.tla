------------------------- MODULE ExclusiveExecution -------------------------
(***************************************************************************)
(* What the claim protocol promises of the attempts of a goal: an attempt  *)
(* is assigned to at most one host in its life, that host runs it in at    *)
(* most one session, no session serves two unfinished attempts of a host,  *)
(* and a finished attempt stays finished.  Neither a lapsed lease nor a    *)
(* rotated token is visible here.                                          *)
(***************************************************************************)
CONSTANTS Attempts, Hosts, Sessions, NoSession, Free, Done

VARIABLE slot           \* Free, Done, or the host and session of an attempt

Held(h, s) == <<h, s>>

Init == slot = [a \in Attempts |-> Free]

Assign(a, h) ==
    /\ slot[a] = Free
    /\ slot' = [slot EXCEPT ![a] = Held(h, NoSession)]

Bind(a, h, s) ==
    /\ slot[a] = Held(h, NoSession)
    /\ \A b \in Attempts : slot[b] # Held(h, s)
    /\ slot' = [slot EXCEPT ![a] = Held(h, s)]

\* One report can end several attempts: the first cancellation cancels the goal.
Finish(S) == slot' = [a \in Attempts |-> IF a \in S THEN Done ELSE slot[a]]

Next ==
    \/ \E a \in Attempts, h \in Hosts : Assign(a, h)
    \/ \E a \in Attempts, h \in Hosts, s \in Sessions : Bind(a, h, s)
    \/ \E S \in SUBSET Attempts : Finish(S)

Spec == Init /\ [][Next]_slot
=============================================================================

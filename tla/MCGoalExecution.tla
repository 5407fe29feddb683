-------------------------- MODULE MCGoalExecution --------------------------
(***************************************************************************)
(* Instances of GoalExecution for TLC: a few graphs with the shapes that   *)
(* matter (fork and join, side exit, loop around a fork, gate, migrated    *)
(* protocol), with every command of hosts and operators.                   *)
(***************************************************************************)
EXTENDS GoalExecution

CONSTANTS nA, nB, nC, nJ, End, accept, redo

Edge(s, d)       == [src |-> s, dst |-> d, outcome |-> AnyOutcome]
EdgeOn(s, d, o)  == [src |-> s, dst |-> d, outcome |-> o]

Graph(agents, joins, policy, edges, budget, protocol) ==
    [agents |-> agents, ends |-> {End}, edges |-> edges,
     policy |-> [n \in agents |-> UNION {p[2] : p \in {q \in policy : q[1] = n}}],
     join |-> [n \in agents |-> IF \E p \in joins : p[1] = n
                                THEN (CHOOSE p \in joins : p[1] = n)[2] ELSE NoFork],
     maxActivations |-> budget, protocol |-> protocol]

\* Two branches of the start node meet at an explicit join.
Diamond(budget) ==
    Graph({nA, nB, nJ}, {<<nJ, Start>>}, {},
          {Edge(Start, nA), Edge(Start, nB), Edge(nA, nJ), Edge(nB, nJ), Edge(nJ, End)}, budget, 2)

\* A fork whose join one of its branches reaches directly.
Shortcut(budget) ==
    Graph({nA, nB}, {<<nB, Start>>}, {},
          {Edge(Start, nA), Edge(Start, nB), Edge(nA, nB), Edge(nB, End)}, budget, 2)

\* One agent with gates, which may send the work back to itself.
Gated(gates, budget, protocol) ==
    Graph({nA}, {}, {<<nA, gates>>},
          {Edge(Start, nA), EdgeOn(nA, End, accept), EdgeOn(nA, nA, redo)}, budget, protocol)

\* A loop around a fork: every round ends at the join, which starts another.
Round(budget) ==
    Graph({nA, nB, nJ}, {<<nJ, nA>>}, {},
          {Edge(Start, nA), Edge(nA, nJ), Edge(nA, nB), Edge(nB, nJ), Edge(nJ, nA), Edge(nJ, End)}, budget, 2)

\* A fork inside the start node's fork that can be visited again before its
\* join: accepted by the validator.
Reentrant ==
    Graph({nA, nB, nC}, {<<nB, Start>>, <<nC, nA>>}, {},
          {Edge(Start, nA), Edge(Start, nB), EdgeOn(nA, nA, redo), Edge(nA, nC), Edge(nC, nB),
           Edge(nB, End)}, 6, 2)

\* Work started before the workflow protocol had hosts: no gate, no claim.
Legacy(gates) ==
    Graph({nA, nB}, {}, {<<nA, gates>>}, {Edge(Start, nA), Edge(Start, nB), Edge(nA, End), Edge(nB, End)}, 2, 1)

OldAndNew       == {Diamond(3), Round(4), Legacy({})}
ForkedOrGated   == {Shortcut(3), Gated({"review"}, 1, 2), Gated({"review", "evidence"}, 1, 2)}
ReentrantGraphs == {Reentrant}
=============================================================================

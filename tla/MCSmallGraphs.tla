--------------------------- MODULE MCSmallGraphs ---------------------------
(***************************************************************************)
(* Every small graph: all edge sets over three agents with at most         *)
(* MaxEdges edges in which every node lies on a path from start to end,    *)
(* with every pairing of joins with forks.  ActivateGoal runs the          *)
(* validator, so a graph it refuses stays a draft; an accepted one is run  *)
(* with every outcome its agents can report, which pins down that the      *)
(* validator's join rules are the ones the activation engine needs.        *)
(***************************************************************************)
EXTENDS GoalExecution

CONSTANTS nA, nB, nC, End, MaxEdges, Budget

Agents == {nA, nB, nC}

Targets(E, n) == {p[2] : p \in {q \in E : q[1] = n}}

\* Any nonempty set of successors can be what a result selects: the edges of
\* an agent with several successors carry one outcome per such set.
Labels(E, n, d) ==
    IF n = Start \/ Cardinality(Targets(E, n)) = 1 THEN {AnyOutcome}
    ELSE {S \in SUBSET Targets(E, n) : d \in S}

LabelledEdges(E) ==
    UNION {{[src |-> p[1], dst |-> p[2], outcome |-> o] : o \in Labels(E, p[1], p[2])} : p \in E}

AllOutcomes == SUBSET (Agents \cup {End}) \ {{}}

Pairs == ({Start} \X Agents) \cup (Agents \X (Agents \cup {End}))

\* Up to renaming: nA follows the start node, and nB comes before nC there or,
\* when nA is alone there, among the successors of nA.
Ordered(E) ==
    /\ <<Start, nA>> \in E
    /\ <<Start, nC>> \in E => <<Start, nB>> \in E
    /\ <<Start, nB>> \notin E => <<nA, nB>> \in E

Wirings == {E \in SUBSET Pairs :
               /\ Cardinality(E) <= MaxEdges
               /\ Ordered(E)
               /\ Reachable(E, {Start}, {}) = {Start, End} \cup Agents
               /\ Reachable(Reversed(E), {End}, {}) = {Start, End} \cup Agents}

\* Joins of distinct forks; at least one, or there is nothing to wait for.
Pairings(E) ==
    LET forks == {n \in {Start} \cup Agents : Cardinality(Targets(E, n)) > 1}
    IN  {f \in [Agents -> forks \cup {NoFork}] :
            /\ \E n \in Agents : f[n] # NoFork
            /\ \A n \in Agents : f[n] # n}

SmallGraphs ==
    UNION {{[agents |-> Agents, ends |-> {End}, edges |-> LabelledEdges(E), join |-> f,
             policy |-> [n \in Agents |-> {}], maxActivations |-> Budget, protocol |-> 1] : f \in Pairings(E)}
           : E \in Wirings}

\* An outcome the edges of a node name, or none when they name none.
NamedOutcomes(n) ==
    LET named == {e.outcome : e \in OutEdges(graph, n)} \ {AnyOutcome}
    IN  IF named = {} THEN {NoOutcome} ELSE named

\* Routing only: visits are dispatched one at a time, in any order, and each
\* succeeds with any outcome its edges name.
RoutingNext ==
    \/ goal = "draft" /\ ActivateGoal
    \/ Live = {} /\ \E i \in DOMAIN acts : DispatchRun(i)
    \/ \E x \in Live : \E o \in NamedOutcomes(NodeAt(x[1])) : ReportSucceeded(x, o)

RoutingSpec == Init /\ [][RoutingNext]_vars
=============================================================================

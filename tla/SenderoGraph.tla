---------------------------- MODULE SenderoGraph ----------------------------
(***************************************************************************)
(* The published definition a goal is pinned to, and the validator that    *)
(* accepts it (packages/core/src/lifecycle/route.ts).  A graph is a record *)
(*                                                                         *)
(*   agents, ends   : node sets; the one start node is the constant Start  *)
(*   edges          : records [src, dst, outcome], outcome AnyOutcome for  *)
(*                    an edge whose condition is {}                        *)
(*   join           : agent -> paired fork, NoFork for an ordinary node    *)
(*   policy         : agent -> its completion gates, a subset of           *)
(*                    {"review", "evidence"}                               *)
(*   maxActivations : the activation budget of the version                 *)
(*   protocol       : 1 (migrated versions) or 2                           *)
(*                                                                         *)
(* Only active edges are in edges.  Being a set of records, edges cannot   *)
(* hold two edges with one source, target and outcome, which the validator *)
(* refuses.  Agent availability, policy syntax and snapshots are left out: *)
(* they decide whether a graph is accepted, never how it is executed.      *)
(***************************************************************************)
EXTENDS Integers, FiniteSets

CONSTANTS Start,        \* the start node
          NoFork,       \* join value of a node that is not a join
          AnyOutcome,   \* outcome of an unconditional edge
          NoOutcome     \* a result without an outcome field

Nodes(g) == {Start} \cup g.agents \cup g.ends

OutEdges(g, n) == {e \in g.edges : e.src = n}

IsFork(g, n) == Cardinality(OutEdges(g, n)) > 1

\* The edges a successful completion with outcome o enables: all the
\* unconditional ones and those that name exactly o.
Selected(g, n, o) == {e \in OutEdges(g, n) : e.outcome \in {AnyOutcome, o}}

JoinNodes(g) == {n \in g.agents : g.join[n] # NoFork}

-----------------------------------------------------------------------------
(* Reachability along a set of arcs <<from, to>>, never entering excluded. *)

Arcs(g) == {<<e.src, e.dst>> : e \in g.edges}

Reversed(arcs) == {<<a[2], a[1]>> : a \in arcs}

Reachable(arcs, from, excluded) ==
    LET Targets(S) == {a[2] : a \in {b \in arcs : b[1] \in S}}
        R[k \in 0 .. Cardinality(arcs)] ==
            IF k = 0 THEN from \ excluded
            ELSE LET seen == R[k-1] IN seen \cup (Targets(seen) \ excluded)
    IN  R[Cardinality(arcs)]

ReachableFrom(g, from, excluded) == Reachable(Arcs(g), from, excluded)

-----------------------------------------------------------------------------
(* The validator, one operator per group of checks. *)

\* Budget range, at least one end, no dangling edge, start only a source,
\* ends only targets, unconditional start edges.
WellFormed(g) ==
    /\ g.maxActivations \in 1 .. 10000
    /\ g.ends # {}
    /\ \A e \in g.edges :
          /\ e.src \in Nodes(g) \ g.ends
          /\ e.dst \in Nodes(g) \ {Start}
          /\ e.src = Start => e.outcome = AnyOutcome

\* Every node lies on a path from start to an end, and there is work to do.
Connected(g) ==
    /\ g.agents # {}
    /\ ReachableFrom(g, {Start}, {}) = Nodes(g)
    /\ Reachable(Reversed(Arcs(g)), g.ends, {}) = Nodes(g)

\* Mutant: the fork need not dominate its join.
JoinAcceptedUndominated(g, n) ==
    LET fork == g.join[n]
        after == {e.dst : e \in OutEdges(g, n)}
    IN  /\ fork \in Nodes(g) \ (g.ends \cup {n})
        /\ IsFork(g, fork)
        /\ n \notin ReachableFrom(g, after, {fork})
        /\ \A m \in g.agents \ {n} : g.join[m] # fork

\* A join names a distinct fork that dominates it, can be revisited only
\* through that fork, and is the only join of that fork.
JoinAccepted(g, n) ==
    LET fork == g.join[n]
        after == {e.dst : e \in OutEdges(g, n)}
    IN  /\ fork \in Nodes(g) \ (g.ends \cup {n})
        /\ IsFork(g, fork)
        /\ n \notin ReachableFrom(g, {Start}, {fork})
        /\ n \notin ReachableFrom(g, after, {fork})
        /\ \A m \in g.agents \ {n} : g.join[m] # fork

\* The inner fork is entered only through the outer one, before its join.
Nested(g, outer, inner) ==
    LET outerFork == g.join[outer]
        innerFork == g.join[inner]
    IN  /\ innerFork \in ReachableFrom(g, {outerFork}, {outer})
        /\ innerFork \notin ReachableFrom(g, {Start}, {outerFork})

\* Mutant: crossed pairings are accepted.
JoinsUnnested(g) == TRUE

\* Between a nested fork and the outer join the inner join is consumed.
JoinsNested(g) ==
    \A outer, inner \in JoinNodes(g) :
        outer # inner /\ Nested(g, outer, inner) =>
            outer \notin ReachableFrom(g, {g.join[inner]}, {inner})

JoinsAccepted(g) ==
    /\ \A n \in JoinNodes(g) : JoinAccepted(g, n)
    /\ JoinsNested(g)

ExecutableGraph(g) == WellFormed(g) /\ Connected(g) /\ JoinsAccepted(g)

-----------------------------------------------------------------------------
(* Not checked by the validator: a fork inside another one that can be     *)
(* visited again before its own join is reached.                           *)

NestedReentry(g) ==
    \E outer, inner \in JoinNodes(g) :
        /\ outer # inner /\ Nested(g, outer, inner)
        /\ g.join[inner] \in
              ReachableFrom(g, {e.dst : e \in OutEdges(g, g.join[inner])}, {inner})
=============================================================================

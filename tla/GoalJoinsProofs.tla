-------------------------- MODULE GoalJoinsProofs --------------------------
(***************************************************************************)
(* Joins: a generation is consumed once, no command leaves behind a join   *)
(* that could close, every arrival finds an open generation of its own and *)
(* waits for it, and, unless a nested fork can be visited again before its *)
(* join, waiting never becomes all there is.                               *)
(* The first two rest on Nesting: a generation has one index in the scopes *)
(* of all its members, and they agree on everything outside it.  The last  *)
(* two relate scopes to paths of the graph, so the rules the validator     *)
(* checks are put to use, with reachability as the least closed set.       *)
(***************************************************************************)
EXTENDS GoalExecutionProofs, WellFoundedInduction

-----------------------------------------------------------------------------
(* Reachability, the recursive function of SenderoGraph: the least set that    *)
(* holds the sources and that no arc leaves.                                   *)

\* No arc leaves S but into X.
ClosedUnder(arcs, X, S) == \A a \in arcs : a[1] \in S /\ a[2] \notin X => a[2] \in S

\* Induction, as a fact about sets: it needs no operator parameter.
LEMMA InductiveSet ==
    ASSUME NEW S, 0 \in S, \A n \in Nat : n \in S => n + 1 \in S
    PROVE  Nat \subseteq S
<1> DEFINE T == Nat \ S
<1> SUFFICES ASSUME T # {}
             PROVE  FALSE
  OBVIOUS
<1>1. PICK x \in T : \A y \in T : <<y, x>> \notin OpToRel(<, Nat)
  BY WFMin, NatLessThanWellFounded
<1>2. x \in Nat /\ x \notin S /\ x # 0
  OBVIOUS
<1>3. x - 1 \in Nat /\ (x - 1) + 1 = x
  BY <1>2
<1>4. x - 1 \in T
  BY <1>2, <1>3
<1>5. <<x - 1, x>> \in OpToRel(<, Nat)
  BY <1>2, <1>3 DEF OpToRel
<1> QED
  BY <1>1, <1>4, <1>5

Targets(arcs, S) == {a[2] : a \in {b \in arcs : b[1] \in S}}

\* One stage of the search, and the function of all of them, the f Reachable
\* defines recursively.
Stage(arcs, from, X, f, k) ==
    IF k = 0 THEN from \ X ELSE f[k-1] \cup (Targets(arcs, f[k-1]) \ X)

Stages(arcs, from, X, n, f) == f = [k \in 0 .. n |-> Stage(arcs, from, X, f, k)]

\* The recursive definition has a solution, so CHOOSE finds one.
LEMMA StagesExist ==
    ASSUME NEW arcs, NEW from, NEW X, NEW n \in Nat
    PROVE  \E f : Stages(arcs, from, X, n, f)
<1> DEFINE S == {m \in Nat : \E f : Stages(arcs, from, X, m, f)}
<1>1. 0 \in S
  <2> DEFINE f == [k \in 0 .. 0 |-> from \ X]
  <2>1. f = [k \in 0 .. 0 |-> Stage(arcs, from, X, f, k)]
    BY DEF Stage
  <2> QED
    BY <2>1 DEF Stages
<1>2. ASSUME NEW m \in Nat, m \in S
      PROVE  m + 1 \in S
  <2>1. PICK f : Stages(arcs, from, X, m, f)
    BY <1>2
  <2> DEFINE h == [k \in 0 .. m + 1 |-> Stage(arcs, from, X, f, k)]
  <2>2. \A k \in 0 .. m : h[k] = f[k]
    BY <2>1 DEF Stages
  <2>3. \A k \in 0 .. m + 1 : Stage(arcs, from, X, h, k) = Stage(arcs, from, X, f, k)
    <3> SUFFICES ASSUME NEW k \in 0 .. m + 1
                 PROVE  Stage(arcs, from, X, h, k) = Stage(arcs, from, X, f, k)
      OBVIOUS
    <3>1. CASE k = 0
      BY <3>1 DEF Stage
    <3>2. CASE k # 0
      <4>1. k - 1 \in 0 .. m
        BY <3>2
      <4>2. h[k - 1] = f[k - 1]
        BY <2>2, <4>1
      <4> HIDE DEF h
      <4> QED
        BY <3>2, <4>2 DEF Stage
    <3> QED
      BY <3>1, <3>2
  <2>4. h = [k \in 0 .. m + 1 |-> Stage(arcs, from, X, h, k)]
    <3>1. h = [k \in 0 .. m + 1 |-> Stage(arcs, from, X, f, k)]
      OBVIOUS
    <3> DEFINE e == [k \in 0 .. m + 1 |-> Stage(arcs, from, X, h, k)]
    <3> HIDE DEF h
    <3>2. DOMAIN h = 0 .. m + 1 /\ DOMAIN e = 0 .. m + 1
      BY <3>1
    <3>3. \A k \in 0 .. m + 1 : h[k] = e[k]
      BY <2>3, <3>1
    <3>4. h = [k \in DOMAIN h |-> h[k]] /\ e = [k \in DOMAIN e |-> e[k]]
      BY <3>1
    <3> HIDE DEF e
    <3>5. h = e
      BY <3>2, <3>3, <3>4
    <3> QED
      BY <3>5 DEF e
  <2> HIDE DEF h
  <2>5. Stages(arcs, from, X, m + 1, h)
    BY <2>4, Zenon DEF Stages
  <2> QED
    BY <2>5
<1>3. Nat \subseteq S
  <2> HIDE DEF S
  <2> QED BY <1>1, <1>2, InductiveSet
<1> QED
  BY <1>3

\* f is the search that Reachable ends.
Search(arcs, from, X, f) ==
    /\ Reachable(arcs, from, X) = f[Cardinality(arcs)]
    /\ f[0] = from \ X
    /\ \A k \in 1 .. Cardinality(arcs) : f[k] = f[k-1] \cup (Targets(arcs, f[k-1]) \ X)

LEMMA ReachableStages ==
    ASSUME NEW arcs, IsFiniteSet(arcs), NEW from, NEW X
    PROVE  \E f : Search(arcs, from, X, f)
<1> DEFINE K == Cardinality(arcs)
<1>1. K \in Nat
  BY FS_CardinalityType
<1> DEFINE f == CHOOSE R : R = [k \in 0 .. K |-> IF k = 0 THEN from \ X ELSE R[k-1] \cup (Targets(arcs, R[k-1]) \ X)]
<1>2. Reachable(arcs, from, X) = f[K]
  BY DEF Reachable, Targets
<1>3. \E R : R = [k \in 0 .. K |-> IF k = 0 THEN from \ X ELSE R[k-1] \cup (Targets(arcs, R[k-1]) \ X)]
  <2> HIDE DEF K
  <2>1. PICK R : Stages(arcs, from, X, K, R)
    BY <1>1, StagesExist
  <2>2. R = [k \in 0 .. K |-> IF k = 0 THEN from \ X ELSE R[k-1] \cup (Targets(arcs, R[k-1]) \ X)]
    BY <2>1 DEF Stages, Stage
  <2> QED BY <2>2
<1>4. f = [k \in 0 .. K |-> IF k = 0 THEN from \ X ELSE f[k-1] \cup (Targets(arcs, f[k-1]) \ X)]
  BY <1>3
<1> HIDE DEF f
<1>5. f[0] = from \ X
  BY <1>1, <1>4
<1>6. \A k \in 1 .. K : f[k] = f[k-1] \cup (Targets(arcs, f[k-1]) \ X)
  <2> SUFFICES ASSUME NEW k \in 1 .. K
               PROVE  f[k] = f[k-1] \cup (Targets(arcs, f[k-1]) \ X)
    OBVIOUS
  <2>1. k \in 0 .. K /\ k # 0
    BY <1>1
  <2> HIDE DEF K
  <2> QED BY <1>4, <2>1
<1> QED
  BY <1>2, <1>5, <1>6 DEF Search

\* Reachability is the least set of nodes with the sources outside of X that no
\* arc leaves but into X.
LEMMA ReachableLeast ==
    ASSUME NEW arcs, IsFiniteSet(arcs), NEW from, NEW X
    PROVE  /\ from \ X \subseteq Reachable(arcs, from, X)
           /\ ClosedUnder(arcs, X, Reachable(arcs, from, X))
           /\ \A S : from \ X \subseteq S /\ ClosedUnder(arcs, X, S) => Reachable(arcs, from, X) \subseteq S
<1>0. PICK f : Search(arcs, from, X, f)
  BY ReachableStages
<1> DEFINE K == Cardinality(arcs)
<1>1. K \in Nat
  BY FS_CardinalityType
<1>2. /\ Reachable(arcs, from, X) = f[K]
      /\ f[0] = from \ X
      /\ \A k \in 1 .. K : f[k] = f[k-1] \cup (Targets(arcs, f[k-1]) \ X)
  BY <1>0 DEF Search
<1> DEFINE Hit(k) == {a \in arcs : a[2] \in f[k]}
<1>h. \A k : IsFiniteSet(Hit(k)) /\ Cardinality(Hit(k)) \in Nat /\ Cardinality(Hit(k)) <= K
  <2> SUFFICES ASSUME NEW k
               PROVE  IsFiniteSet(Hit(k)) /\ Cardinality(Hit(k)) \in Nat /\ Cardinality(Hit(k)) <= K
    OBVIOUS
  <2>1. Hit(k) \in SUBSET arcs
    OBVIOUS
  <2> HIDE DEF Hit
  <2> QED
    BY <2>1, FS_Subset, FS_CardinalityType
<1>s. ASSUME NEW k \in Nat, k + 1 <= K
      PROVE  f[k+1] = f[k] \cup (Targets(arcs, f[k]) \ X)
  <2>1. k + 1 \in 1 .. K /\ (k + 1) - 1 = k
    BY <1>1, <1>s
  <2> HIDE DEF K
  <2> QED BY <1>2, <2>1
<1> HIDE DEF K
<1>3. \A n \in Nat : n <= K => from \ X \subseteq f[n]
  <2> DEFINE S == {n \in Nat : n <= K => from \ X \subseteq f[n]}
  <2>1. 0 \in S
    BY <1>2
  <2>2. \A n \in Nat : n \in S => n + 1 \in S
    BY <1>1, <1>s
  <2>3. Nat \subseteq S
    <3> HIDE DEF S
    <3> QED BY <2>1, <2>2, InductiveSet
  <2> QED BY <2>3
<1>4. ASSUME NEW S, from \ X \subseteq S, ClosedUnder(arcs, X, S)
      PROVE  f[K] \subseteq S
  <2> DEFINE T == {n \in Nat : n <= K => f[n] \subseteq S}
  <2>1. 0 \in T
    BY <1>2, <1>4
  <2>2. ASSUME NEW n \in Nat, n \in T
        PROVE  n + 1 \in T
    <3> SUFFICES ASSUME n + 1 <= K
                 PROVE  f[n+1] \subseteq S
      OBVIOUS
    <3>1. f[n] \subseteq S
      BY <1>1, <2>2
    <3>2. Targets(arcs, f[n]) \ X \subseteq S
      BY <1>4, <3>1 DEF Targets, ClosedUnder
    <3> QED BY <1>s, <3>1, <3>2
  <2>3. Nat \subseteq T
    <3> HIDE DEF T
    <3> QED BY <2>1, <2>2, InductiveSet
  <2> QED BY <1>1, <2>3
<1>5. ClosedUnder(arcs, X, f[K])
  <2> DEFINE T == {n \in Nat : n <= K => ClosedUnder(arcs, X, f[n]) \/ Cardinality(Hit(n)) >= n}
  <2>1. 0 \in T
    <3>1. Cardinality(Hit(0)) \in Nat
      BY <1>h
    <3> HIDE DEF Hit
    <3> QED BY <3>1
  <2>2. ASSUME NEW n \in Nat, n \in T
        PROVE  n + 1 \in T
    <3> SUFFICES ASSUME n + 1 <= K
                 PROVE  ClosedUnder(arcs, X, f[n+1]) \/ Cardinality(Hit(n+1)) >= n+1
      OBVIOUS
    <3>1. f[n+1] = f[n] \cup (Targets(arcs, f[n]) \ X)
      BY <1>s
    <3>2. CASE ClosedUnder(arcs, X, f[n])
      <4>1. Targets(arcs, f[n]) \ X \subseteq f[n]
        BY <3>2 DEF Targets, ClosedUnder
      <4>2. f[n+1] = f[n]
        BY <3>1, <4>1
      <4> QED BY <3>2, <4>2
    <3>3. CASE ~ClosedUnder(arcs, X, f[n])
      <4>1. PICK a \in arcs : a[1] \in f[n] /\ a[2] \notin X /\ a[2] \notin f[n]
        BY <3>3 DEF ClosedUnder
      <4>2. Cardinality(Hit(n)) >= n
        BY <1>1, <2>2, <3>3
      <4>3. a[2] \in f[n+1]
        BY <3>1, <4>1 DEF Targets
      <4>4. Hit(n) \cup {a} \subseteq Hit(n+1) /\ a \notin Hit(n)
        BY <3>1, <4>1, <4>3
      <4> HIDE DEF Hit
      <4>5. Cardinality(Hit(n) \cup {a}) = Cardinality(Hit(n)) + 1 /\ Cardinality(Hit(n) \cup {a}) <= Cardinality(Hit(n+1))
        BY <1>h, <4>4, FS_AddElement, FS_Subset
      <4> QED BY <1>h, <4>2, <4>5
    <3> QED BY <3>2, <3>3
  <2>3. Nat \subseteq T
    <3> HIDE DEF T
    <3> QED BY <2>1, <2>2, InductiveSet
  <2>4. SUFFICES ASSUME Cardinality(Hit(K)) >= K
                 PROVE  ClosedUnder(arcs, X, f[K])
    BY <1>1, <2>3
  <2>5. Cardinality(Hit(K)) = K
    BY <1>1, <1>h, <2>4
  <2>6. Hit(K) = arcs
    BY <2>5, FS_Subset DEF K
  <2> QED BY <2>6 DEF ClosedUnder
<1> QED
  BY <1>1, <1>2, <1>3, <1>4, <1>5

-----------------------------------------------------------------------------
(* The graphs the validator accepts. *)

\* The nodes one edge away from n.
After(g, n) == {e.dst : e \in OutEdges(g, n)}

LEMMA ArcsFinite ==
    ASSUME NEW g, IsFiniteSet(g.edges)
    PROVE  IsFiniteSet(Arcs(g))
<1> DEFINE f == [e \in g.edges |-> <<e.src, e.dst>>]
<1>1. f \in Surjection(g.edges, Arcs(g))
  BY DEF Arcs, Surjection
<1> QED
  BY <1>1, FS_Surjection

\* What the validator's search (reachable, route.ts) means on every finite graph,
\* edge by edge: it finds the sources, goes on along the edges, never enters the
\* excluded nodes, and finds nothing else.
THEOREM ReachabilityIsLeast ==
    ASSUME NEW g, IsFiniteSet(g.edges), NEW from, NEW X
    PROVE  LET R == ReachableFrom(g, from, X) IN
           /\ from \ X \subseteq R
           /\ \A v \in R : After(g, v) \ X \subseteq R
           /\ R \cap X = {}
           /\ \A S : from \ X \subseteq S /\ (\A v \in S : After(g, v) \ X \subseteq S)
                        => R \subseteq S
<1> DEFINE R == ReachableFrom(g, from, X)
<1>1. /\ from \ X \subseteq R
      /\ ClosedUnder(Arcs(g), X, R)
      /\ \A S : from \ X \subseteq S /\ ClosedUnder(Arcs(g), X, S) => R \subseteq S
  BY ArcsFinite, ReachableLeast DEF ReachableFrom
<1> HIDE DEF R
<1>2. \A S : ClosedUnder(Arcs(g), X, S) <=> \A v \in S : After(g, v) \ X \subseteq S
  <2> SUFFICES ASSUME NEW S
               PROVE  ClosedUnder(Arcs(g), X, S) <=> \A v \in S : After(g, v) \ X \subseteq S
    OBVIOUS
  <2>1. \A v, w : w \in After(g, v) <=> <<v, w>> \in Arcs(g)
    BY DEF Arcs, After, OutEdges
  <2>2. \A a \in Arcs(g) : a = <<a[1], a[2]>>
    BY DEF Arcs
  <2>3. ASSUME ClosedUnder(Arcs(g), X, S), NEW v \in S, NEW w \in After(g, v) \ X
        PROVE  w \in S
    <3>1. <<v, w>> \in Arcs(g)
      BY <2>1, <2>3
    <3> QED BY <2>3, <3>1 DEF ClosedUnder
  <2>4. ASSUME \A v \in S : After(g, v) \ X \subseteq S,
               NEW a \in Arcs(g), a[1] \in S, a[2] \notin X
        PROVE  a[2] \in S
    BY <2>1, <2>2, <2>4
  <2> QED
    BY <2>3, <2>4 DEF ClosedUnder
<1>3. R \cap X = {}
  <2>1. ClosedUnder(Arcs(g), X, R \ X)
    BY <1>1 DEF ClosedUnder
  <2>2. from \ X \subseteq R \ X
    BY <1>1
  <2>3. R \subseteq R \ X
    <3> DEFINE S == R \ X
    <3>1. from \ X \subseteq S /\ ClosedUnder(Arcs(g), X, S)
      BY <2>1, <2>2
    <3> HIDE DEF S
    <3>2. R \subseteq S
      BY <1>1, <3>1
    <3> QED BY <3>2 DEF S
  <2> QED BY <2>3
<1>4. \A v \in R : After(g, v) \ X \subseteq R
  BY <1>1, <1>2
<1>5. \A S : from \ X \subseteq S /\ (\A v \in S : After(g, v) \ X \subseteq S) => R \subseteq S
  BY <1>1, <1>2
<1> QED
  BY <1>1, <1>3, <1>4, <1>5 DEF R

\* What is reachable from a reachable node is reachable.
LEMMA ReachesOn ==
    ASSUME NEW g, IsFiniteSet(g.edges), NEW from, NEW X, NEW v \in ReachableFrom(g, from, X)
    PROVE  /\ ReachableFrom(g, After(g, v), X) \subseteq ReachableFrom(g, from, X)
           /\ ReachableFrom(g, {v}, X) \subseteq ReachableFrom(g, from, X)
<1> DEFINE R == ReachableFrom(g, from, X)
<1>1. /\ After(g, v) \ X \subseteq R
      /\ \A w \in R : After(g, w) \ X \subseteq R
  BY ReachabilityIsLeast
<1> HIDE DEF R
<1>2. ReachableFrom(g, After(g, v), X) \subseteq R
  BY <1>1, ReachabilityIsLeast
<1>3. {v} \ X \subseteq R
  BY DEF R
<1>4. ReachableFrom(g, {v}, X) \subseteq R
  BY <1>1, <1>3, ReachabilityIsLeast
<1> QED
  BY <1>2, <1>4 DEF R

\* Join J lies ahead of node v, before another visit of its fork.
Ahead(g, v, J) == J \in JoinNodes(g) /\ J \in ReachableFrom(g, After(g, v), {g.join[J]})

\* What the validator checks of one join.
LEMMA JoinFacts ==
    ASSUME NEW g, ExecutableGraph(g), NEW J \in JoinNodes(g)
    PROVE  /\ g.join[J] # J
           /\ IsFork(g, g.join[J])
           /\ J \notin ReachableFrom(g, {Start}, {g.join[J]})
           /\ ~Ahead(g, J, J)
           /\ \A H \in JoinNodes(g) : g.join[H] = g.join[J] => H = J
           /\ J \in Nodes(g) /\ g.join[J] \in Nodes(g)
<1>1. JoinAccepted(g, J) /\ J \in g.agents
  BY DEF ExecutableGraph, JoinsAccepted, JoinNodes
<1>2. \A H \in JoinNodes(g) : H \in g.agents
  BY DEF JoinNodes
<1> QED
  BY <1>1, <1>2 DEF JoinAccepted, Ahead, After, Nodes

\* The fork dominates the join: the start node is before a join without being
\* before its fork only if it is that fork.
LEMMA ForkFirst ==
    ASSUME NEW g, IsFiniteSet(g.edges), ExecutableGraph(g), NEW J \in JoinNodes(g),
           Ahead(g, Start, J)
    PROVE  Start = g.join[J]
<1> SUFFICES ASSUME Start # g.join[J] PROVE FALSE
  OBVIOUS
<1>1. Start \in ReachableFrom(g, {Start}, {g.join[J]})
  BY ReachabilityIsLeast
<1>2. J \in ReachableFrom(g, {Start}, {g.join[J]})
  BY <1>1, ReachesOn DEF Ahead
<1> QED
  BY <1>2, JoinFacts

\* A fork whose join lies ahead of J is not on a way to J that misses J's own
\* fork: between the two forks the outer one is always the first.
LEMMA OuterForkFirst ==
    ASSUME NEW g, IsFiniteSet(g.edges), ExecutableGraph(g), NEW J \in JoinNodes(g),
           NEW H \in JoinNodes(g), Ahead(g, J, H), g.join[H] # J
    PROVE  ~Ahead(g, g.join[H], J)
<1> DEFINE f == g.join[J]
           h == g.join[H]
           Re(F, X) == ReachableFrom(g, F, X)
<1> SUFFICES ASSUME J \in Re(After(g, h), {f}) PROVE FALSE
  BY DEF Ahead
<1>1. /\ f # J /\ h # H /\ H # J /\ f # h
      /\ J \notin Re({Start}, {f}) /\ H \notin Re({Start}, {h})
      /\ H \notin Re(After(g, H), {h})
      /\ H \in Re(After(g, J), {h})
      /\ J \in Nodes(g) /\ h \in Nodes(g)
  BY JoinFacts DEF Ahead
<1>2. Re({Start}, {}) = Nodes(g)
  BY DEF ExecutableGraph, Connected
<1>3. J \in Re({h}, {H}) => ~Nested(g, J, H)
  BY <1>1 DEF ExecutableGraph, JoinsAccepted, JoinsNested
<1>n. h \in Re({f}, {J}) /\ h \notin Re({Start}, {f}) => Nested(g, J, H)
  BY DEF Nested
<1>j. h # J
  OBVIOUS
<1> HIDE DEF f, h
<1>r. \A F, X : /\ F \ X \subseteq Re(F, X)
                /\ \A v \in Re(F, X) : After(g, v) \ X \subseteq Re(F, X)
                /\ Re(F, X) \cap X = {}
  BY ReachabilityIsLeast
<1>t. \A F, X : \A S : F \ X \subseteq S /\ (\A v \in S : After(g, v) \ X \subseteq S)
                          => Re(F, X) \subseteq S
  BY ReachabilityIsLeast
<1>o. \A F, X : \A v \in Re(F, X) : /\ Re(After(g, v), X) \subseteq Re(F, X)
                                    /\ Re({v}, X) \subseteq Re(F, X)
  BY ReachesOn
<1> HIDE DEF Re
<1>4. h \notin Re({Start}, {f})
  BY <1>1, <1>o
<1>5. h \in Re({f}, {J})
  <2> SUFFICES ASSUME h \notin Re({f}, {J}) PROVE FALSE
    OBVIOUS
  <2>1. f \in Re({Start}, {h})
    <3> SUFFICES ASSUME f \notin Re({Start}, {h}) PROVE FALSE
      OBVIOUS
    <3> DEFINE V == Re({Start}, {h})
               S == V \cap Re({Start}, {f})
    <3>1. Start # h
      BY <1>1, <1>4, <1>r
    <3>2. Start \in V /\ Start # f
      BY <3>1, <1>r
    <3>3. Start \in S
      BY <3>2, <1>r
    <3>4. ASSUME NEW v \in S PROVE After(g, v) \ {h} \subseteq S
      BY <1>r
    <3>5. V \subseteq S
      <4>1. {Start} \ {h} \subseteq S
        BY <3>3
      <4> HIDE DEF S
      <4> QED BY <3>4, <4>1, <1>t
    <3>6. \A v \in V : h \notin After(g, v)
      BY <1>1, <1>4, <1>r, <3>5
    <3>7. \A v \in V : After(g, v) \ {} \subseteq V
      BY <1>r, <3>6
    <3> HIDE DEF V, S
    <3>8. Re({Start}, {}) \subseteq V
      BY <3>2, <3>7, <1>t
    <3>9. h \notin V
      BY <1>r DEF V
    <3> QED
      BY <1>1, <1>2, <3>8, <3>9
  <2>2. J \in Re({f}, {h})
    <3> DEFINE P == Re({f}, {J})
               S == P \cap Re({f}, {h})
               Q == Re({Start}, {f}) \cup Re({f}, {})
    <3>1. f \in P /\ f \in Re({f}, {h}) /\ f \in Re({f}, {})
      BY <1>1, <1>r
    <3>2. ASSUME NEW v \in S PROVE After(g, v) \ {J} \subseteq S
      BY <1>r
    <3>3. P \subseteq S
      BY <3>1, <3>2, <1>t
    <3>4. Start \in Q
      BY <3>1, <1>r
    <3>5. ASSUME NEW v \in Q PROVE After(g, v) \ {} \subseteq Q
      BY <3>1, <1>r
    <3>6. Re({Start}, {}) \subseteq Q
      <4> HIDE DEF Q
      <4> QED BY <3>4, <3>5, <1>t
    <3>7. J \in Re({f}, {})
      BY <1>1, <1>2, <3>6
    <3>8. PICK v \in P : J \in After(g, v)
      <4> SUFFICES ASSUME \A v \in P : J \notin After(g, v) PROVE FALSE
        OBVIOUS
      <4>1. \A v \in P : After(g, v) \ {} \subseteq P
        <5>1. \A v \in P : After(g, v) \ {J} \subseteq P
          BY <1>r
        <5> HIDE DEF P
        <5> QED BY <5>1
      <4>2. Re({f}, {}) \subseteq P
        <5> HIDE DEF P
        <5> QED BY <3>1, <4>1, <1>t
      <4> QED BY <3>7, <4>2, <1>r
    <3> QED
      BY <1>j, <3>3, <3>8, <1>r
  <2>3. J \in Re({Start}, {h})
    BY <2>1, <2>2, <1>o
  <2>4. H \in Re({Start}, {h})
    BY <1>1, <2>3, <1>o
  <2> QED
    BY <1>1, <2>4
<1>6. J \notin Re({h}, {H})
  BY <1>3, <1>n, <1>4, <1>5 DEF Re
<1>7. J \in Re(After(g, H), {h})
  <2> DEFINE T == Re({h}, {H}) \cup {H} \cup Re(After(g, H), {h})
  <2>1. h \in Re({h}, {H})
    BY <1>1, <1>r
  <2>2. After(g, h) \ {f} \subseteq T
    BY <2>1, <1>r
  <2>3. ASSUME NEW v \in T PROVE After(g, v) \ {f} \subseteq T
    <3>1. CASE v \in Re({h}, {H})
      BY <3>1, <1>r
    <3>2. CASE v = H
      BY <2>1, <3>2, <1>r
    <3>3. CASE v \in Re(After(g, H), {h})
      BY <2>1, <3>3, <1>r
    <3> QED BY <3>1, <3>2, <3>3
  <2>4. Re(After(g, h), {f}) \subseteq T
    <3> HIDE DEF T
    <3> QED BY <2>2, <2>3, <1>t
  <2> QED
    BY <1>1, <1>6, <2>4
<1>8. H \in Re(After(g, H), {h})
  BY <1>1, <1>7, <1>o
<1> QED
  BY <1>1, <1>8

\* A join that can be reached from another join's fork without that one's own
\* fork in between: the fork is nested in the join's, so what lies between it
\* and its own join does not hold the outer one.
LEMMA ForkNested ==
    ASSUME NEW g, IsFiniteSet(g.edges), ExecutableGraph(g), NEW J \in JoinNodes(g),
           NEW K \in JoinNodes(g), K # J, Ahead(g, g.join[K], J)
    PROVE  Nested(g, J, K) /\ J \notin ReachableFrom(g, After(g, g.join[K]), {K})
<1> DEFINE f == g.join[J]
           h == g.join[K]
           Re(F, X) == ReachableFrom(g, F, X)
<1>1. /\ f # J /\ h # K /\ f # h
      /\ J \notin Re({Start}, {f})
      /\ J \notin Re(After(g, J), {f})
      /\ J \in Re(After(g, h), {f})
      /\ h \in Nodes(g)
  BY JoinFacts DEF Ahead
<1>2. Re({Start}, {}) = Nodes(g)
  BY DEF ExecutableGraph, Connected
<1>3. Nested(g, J, K) => J \notin Re({h}, {K})
  BY DEF ExecutableGraph, JoinsAccepted, JoinsNested
<1>n. h \in Re({f}, {J}) /\ h \notin Re({Start}, {f}) => Nested(g, J, K)
  BY DEF Nested
<1> HIDE DEF f, h
<1>r. \A F, X : /\ F \ X \subseteq Re(F, X)
                /\ \A v \in Re(F, X) : After(g, v) \ X \subseteq Re(F, X)
                /\ Re(F, X) \cap X = {}
  BY ReachabilityIsLeast
<1>t. \A F, X : \A S : F \ X \subseteq S /\ (\A v \in S : After(g, v) \ X \subseteq S)
                          => Re(F, X) \subseteq S
  BY ReachabilityIsLeast
<1>o. \A F, X : \A v \in Re(F, X) : /\ Re(After(g, v), X) \subseteq Re(F, X)
                                    /\ Re({v}, X) \subseteq Re(F, X)
  BY ReachesOn
<1> HIDE DEF Re
<1>4. h \notin Re({Start}, {f})
  BY <1>1, <1>o
<1>5. h \in Re({f}, {J})
  <2> DEFINE S == Re({Start}, {f}) \cup Re({f}, {J}) \cup {J} \cup Re(After(g, J), {f})
  <2>1. f \in Re({f}, {J})
    BY <1>1, <1>r
  <2>2. Start \in S
    BY <2>1, <1>r
  <2>3. ASSUME NEW v \in S PROVE After(g, v) \ {} \subseteq S
    <3>1. CASE v \in Re({Start}, {f}) \cup Re(After(g, J), {f}) \cup {J}
      BY <2>1, <3>1, <1>r
    <3>2. CASE v \in Re({f}, {J})
      BY <3>2, <1>r
    <3> QED BY <3>1, <3>2
  <2>4. Re({Start}, {}) \subseteq S
    <3> HIDE DEF S
    <3> QED BY <2>2, <2>3, <1>t
  <2>5. h # J /\ h \notin Re(After(g, J), {f})
    BY <1>1, <1>o
  <2> QED
    BY <1>1, <1>2, <1>4, <2>4, <2>5
<1>6. Re(After(g, h), {K}) \subseteq Re({h}, {K})
  BY <1>1, <1>r, <1>o
<1> QED
  BY <1>n, <1>3, <1>4, <1>5, <1>6 DEF Re, h

-----------------------------------------------------------------------------
(* The invariant. *)

\* The k-th scope of i, g, is the start node's fork, outermost, or a visit that
\* succeeded and whose own scopes are the ones outside it.
Encloses(A, g, i, k) ==
    \/ g = <<>> /\ k = 1
    \/ /\ g # <<>>
       /\ g \in DOMAIN A
       /\ A[g].status = "succeeded"
       /\ Len(A[g].scopes) = k - 1
       /\ \A m \in 1 .. k - 1 : A[g].scopes[m] = A[i].scopes[m]

Nesting(A) ==
    \A i \in DOMAIN A : \A k \in DOMAIN A[i].scopes : Encloses(A, A[i].scopes[k], i, k)

\* Every scope is a recorded generation, and every recorded one was opened by
\* a visit that succeeded or by the start node.
ScopesIn(A, G) == \A i \in DOMAIN A : \A k \in DOMAIN A[i].scopes : A[i].scopes[k] \in G

Forked(A, G) == \A g \in G : g # <<>> => g \in DOMAIN A /\ A[g].status = "succeeded"

\* Nothing that could still move is a member of a generation in K.
Consumed(A, K) ==
    \A i \in DOMAIN A : \A k \in DOMAIN A[i].scopes :
        A[i].scopes[k] \in K => Settled(A[i].status)

\* A waiting arrival has a generation of its own.
Scoped(A) ==
    \A i \in DOMAIN A : A[i].status = "waiting_join" =>
        \E k \in DOMAIN A[i].scopes : IsOwnScope(A, i, k)

\* Visit i of activations A will arrive at join J, or waits there.
Expects(A, i, J) ==
    \/ NodeAt(i) = J /\ A[i].status = "waiting_join"
    \/ NodeAt(i) # graph.join[J] /\ Ahead(graph, NodeAt(i), J)

ForkIn(s, k, J) == k \in DOMAIN s /\ NodeAt(s[k]) = graph.join[J]

\* The scopes s hold a generation of J's fork, and later than any of the forks
\* of the joins ahead of J.
Within(s, J) ==
    /\ \E k \in DOMAIN s : ForkIn(s, k, J)
    /\ \A H \in JoinNodes(graph) : Ahead(graph, J, H) /\ graph.join[H] # J =>
          \A k \in DOMAIN s : ForkIn(s, k, H) => \E m \in DOMAIN s : m > k /\ ForkIn(s, m, J)

\* Every visit is within the forks of the joins it will arrive at.
Paired(A) ==
    \A i \in DOMAIN A, J \in JoinNodes(graph) : Expects(A, i, J) => Within(A[i].scopes, J)

\* Only visits of join nodes wait.
AtJoins(A) == \A i \in DOMAIN A : A[i].status = "waiting_join" => NodeAt(i) \in JoinNodes(graph)

\* The graphs in which joins cannot deadlock.
Regular == IsFiniteSet(graph.edges) /\ ExecutableGraph(graph) /\ ~NestedReentry(graph)

\* J's fork cannot be visited again before J.
Unrepeated(J) == graph.join[J] \notin ReachableFrom(graph, After(graph, graph.join[J]), {J})

\* A visit r of node v in a generation of such a fork has not passed its join,
\* and is in no other one.
NotPast(v, r) ==
    \A J \in JoinNodes(graph), k \in DOMAIN r.scopes :
        Unrepeated(J) /\ ForkIn(r.scopes, k, J) =>
            /\ \/ v \in ReachableFrom(graph, After(graph, graph.join[J]), {J})
               \/ v = J /\ r.status = "waiting_join"
            /\ \A m \in DOMAIN r.scopes : ForkIn(r.scopes, m, J) => m = k

\* Where no later scope is of J's fork, that fork was not visited since the
\* scope was opened, or J consumed it again and it was not visited since.
NotReforked(v, r) ==
    \A J \in JoinNodes(graph), k \in DOMAIN r.scopes :
        v # graph.join[J] /\ (\A m \in DOMAIN r.scopes : m > k => ~ForkIn(r.scopes, m, J)) =>
            \/ v \in ReachableFrom(graph, After(graph, NodeAt(r.scopes[k])), {graph.join[J]})
            \/ v \in ReachableFrom(graph, After(graph, J), {graph.join[J]})
            \/ v = J /\ r.status # "waiting_join"

Inside(A) ==
    \A i \in DOMAIN A : ~Settled(A[i].status) =>
        NotPast(NodeAt(i), A[i]) /\ NotReforked(NodeAt(i), A[i])

\* Activations A, open generations O and closed generations K fit together.
Joined(A, O, K) ==
    /\ Nesting(A)
    /\ ScopesIn(A, O \cup K)
    /\ Forked(A, O \cup K)
    /\ Consumed(A, K)
    /\ Scoped(A)
    /\ AtJoins(A)
    /\ Paired(A)
    /\ Regular => Inside(A)

JoinInv ==
    /\ Joined(acts, openGens, closedGens)
    /\ JoinsReconciled

\* A goal canceled without a cancellation on record is one that never started.
CanceledUnstarted == goal = "canceled" => exec.cancelRequested \/ DOMAIN acts = {}

\* Only a goal whose graph the validator accepted has activations.
Validated == DOMAIN acts # {} => ExecutableGraph(graph)

-----------------------------------------------------------------------------
(* Scopes. *)

\* The scopes of a typed activation are indexed from 1.
LEMMA ScopesIndexed ==
    ASSUME NEW A, ActsTyped(A), NEW i \in DOMAIN A
    PROVE  /\ A[i].scopes \in Seq(Paths)
           /\ Len(A[i].scopes) \in Nat
           /\ DOMAIN A[i].scopes = 1 .. Len(A[i].scopes)
BY LenProperties DEF ActsTyped, Activations

\* A generation has the same index in all its members, and they have the same
\* scopes outside it.
LEMMA SameIndex ==
    ASSUME NEW A, ActsTyped(A), Nesting(A),
           NEW i \in DOMAIN A, NEW k \in DOMAIN A[i].scopes,
           NEW j \in DOMAIN A, NEW m \in DOMAIN A[j].scopes,
           A[i].scopes[k] = A[j].scopes[m]
    PROVE  /\ k = m
           /\ \A n \in 1 .. k - 1 : A[i].scopes[n] = A[j].scopes[n]
<1> DEFINE g == A[i].scopes[k]
<1>1. k \in Nat /\ m \in Nat
  BY ScopesIndexed
<1>2. Encloses(A, g, i, k) /\ Encloses(A, g, j, m)
  BY DEF Nesting
<1> HIDE DEF g
<1>3. CASE g = <<>>
  <2>1. k = 1 /\ m = 1
    BY <1>2, <1>3 DEF Encloses
  <2> QED
    BY <2>1
<1>4. CASE g # <<>>
  <2>1. k = m
    BY <1>1, <1>2, <1>4 DEF Encloses
  <2> QED
    BY <1>2, <1>4, <2>1 DEF Encloses
<1> QED
  BY <1>3, <1>4

\* The own scope of an arrival is the latest one of its fork, so there is one.
LEMMA OwnScopeUnique ==
    ASSUME NEW A, ActsTyped(A), NEW i \in DOMAIN A,
           NEW k, IsOwnScope(A, i, k), NEW m, IsOwnScope(A, i, m)
    PROVE  k = m
<1>1. k \in Nat /\ m \in Nat
  BY ScopesIndexed DEF IsOwnScope
<1>2. ~(m > k) /\ ~(k > m)
  BY DEF IsOwnScope
<1> QED
  BY <1>1, <1>2

\* An arrival that waits for g has g at its own index.
LEMMA OwnArrival ==
    ASSUME NEW A, ActsTyped(A), NEW g, NEW i \in OwnArrivals(A, g)
    PROVE  /\ i \in DOMAIN A
           /\ A[i].status = "waiting_join"
           /\ OwnIndex(A, i) \in DOMAIN A[i].scopes
           /\ IsOwnScope(A, i, OwnIndex(A, i))
           /\ A[i].scopes[OwnIndex(A, i)] = g
<1>1. i \in DOMAIN A /\ A[i].status = "waiting_join"
  BY DEF OwnArrivals, Members
<1>2. PICK k \in DOMAIN A[i].scopes : A[i].scopes[k] = g /\ IsOwnScope(A, i, k)
  BY DEF OwnArrivals
<1>3. OwnIndex(A, i) \in DOMAIN A[i].scopes /\ IsOwnScope(A, i, OwnIndex(A, i))
  BY <1>2 DEF OwnIndex
<1>4. OwnIndex(A, i) = k
  BY <1>1, <1>2, <1>3, OwnScopeUnique
<1> QED
  BY <1>1, <1>2, <1>3, <1>4

\* The survivor of a generation that closes with an arrival is an arrival.
LEMMA SurvivorArrives ==
    ASSUME NEW A, NEW g, OwnArrivals(A, g) # {}
    PROVE  Survivor(A, g) \in OwnArrivals(A, g)
BY DEF Survivor

-----------------------------------------------------------------------------
(* Reconciling joins. *)

\* What one arrival becomes: its survivor leaves the generation, the others
\* are merged.  Everything else stays as it is.
LEMMA ReconciledRow ==
    ASSUME NEW A, ActsTyped(A), NEW O, NEW i \in DOMAIN A
    PROVE  /\ i \notin Arrived(A, O) => Reconciled(A, O)[i] = A[i]
           /\ \A g \in Closable(A, O) : i \in OwnArrivals(A, g) =>
                 LET k == OwnIndex(A, i) IN
                 IF i = Survivor(A, g)
                 THEN /\ Reconciled(A, O)[i].status = "ready"
                      /\ Reconciled(A, O)[i].scopes = SubSeq(A[i].scopes, 1, k - 1)
                 ELSE /\ Reconciled(A, O)[i].status = "joined"
                      /\ Reconciled(A, O)[i].scopes = A[i].scopes
<1>1. i \notin Arrived(A, O) => Reconciled(A, O)[i] = A[i]
  BY DEF Reconciled
<1>2. ASSUME NEW g \in Closable(A, O), i \in OwnArrivals(A, g)
      PROVE  LET k == OwnIndex(A, i) IN
             IF i = Survivor(A, g)
             THEN /\ Reconciled(A, O)[i].status = "ready"
                  /\ Reconciled(A, O)[i].scopes = SubSeq(A[i].scopes, 1, k - 1)
             ELSE /\ Reconciled(A, O)[i].status = "joined"
                  /\ Reconciled(A, O)[i].scopes = A[i].scopes
  <2>1. i \in Arrived(A, O)
    BY <1>2 DEF Arrived
  <2>2. A[i].scopes[OwnIndex(A, i)] = g
    BY <1>2, OwnArrival
  <2>3. Reconciled(A, O)[i] = JoinedAct(A, i)
    BY <2>1 DEF Reconciled
  <2>4. A[i] \in Activations
    BY DEF ActsTyped
  <2>5. CASE i = Survivor(A, g)
    <3>1. Reconciled(A, O)[i] = [Bumped(A[i]) EXCEPT !.status = "ready",
                                     !.scopes = SubSeq(@, 1, OwnIndex(A, i) - 1)]
      BY <2>2, <2>3, <2>5 DEF JoinedAct
    <3>2. Bumped(A[i]) \in Activations /\ Bumped(A[i]).scopes = A[i].scopes
      BY <2>4, RowUpdates DEF ActStatus
    <3> QED
      BY <2>5, <3>1, <3>2 DEF Activations
  <2>6. CASE i # Survivor(A, g)
    <3>1. Reconciled(A, O)[i] = [A[i] EXCEPT !.status = "joined"]
      BY <2>2, <2>3, <2>6 DEF JoinedAct
    <3> QED
      BY <2>4, <2>6, <3>1 DEF Activations
  <2> QED
    BY <2>5, <2>6
<1> QED
  BY <1>1, <1>2

\* Scopes are only ever cut: a scope that is left is the scope it was.
LEMMA ReconciledScopes ==
    ASSUME NEW A, ActsTyped(A), NEW O, NEW i \in DOMAIN A,
           NEW m \in DOMAIN Reconciled(A, O)[i].scopes
    PROVE  /\ m \in DOMAIN A[i].scopes
           /\ Reconciled(A, O)[i].scopes[m] = A[i].scopes[m]
           /\ \A n \in 1 .. m : Reconciled(A, O)[i].scopes[n] = A[i].scopes[n]
           /\ i \in Arrived(A, O) /\ Reconciled(A, O)[i].status = "ready" =>
                 m < OwnIndex(A, i)
<1> DEFINE R == Reconciled(A, O)
           k == OwnIndex(A, i)
<1>0. A[i].scopes \in Seq(Paths) /\ Len(A[i].scopes) \in Nat
      /\ DOMAIN A[i].scopes = 1 .. Len(A[i].scopes)
  BY ScopesIndexed
<1>1. CASE R[i].scopes = A[i].scopes /\ ~(i \in Arrived(A, O) /\ R[i].status = "ready")
  BY <1>0, <1>1
<1>2. CASE i \in Arrived(A, O) /\ R[i].scopes = SubSeq(A[i].scopes, 1, k - 1)
  <2>1. PICK g \in Closable(A, O) : i \in OwnArrivals(A, g)
    BY <1>2 DEF Arrived
  <2>2. k \in 1 .. Len(A[i].scopes)
    BY <1>0, <2>1, OwnArrival
  <2> HIDE DEF k
  <2>3. /\ Len(SubSeq(A[i].scopes, 1, k - 1)) = k - 1
        /\ \A n \in 1 .. k - 1 : SubSeq(A[i].scopes, 1, k - 1)[n] = A[i].scopes[n]
        /\ DOMAIN SubSeq(A[i].scopes, 1, k - 1) = 1 .. k - 1
    <3>1. \A n \in 1 .. k - 1 : A[i].scopes[n] \in Paths
      BY <1>0, <2>2, ElementOfSeq
    <3>2. k - 1 \in Int
      BY <2>2
    <3> QED
      BY <1>0, <2>2, <3>1, <3>2, SubSeqProperties
  <2>4. m \in 1 .. k - 1
    BY <1>2, <2>3
  <2> QED
    BY <1>0, <1>2, <2>2, <2>3, <2>4 DEF k
<1>3. CASE i \notin Arrived(A, O)
  BY <1>1, <1>3, ReconciledRow
<1>4. CASE i \in Arrived(A, O)
  <2>1. PICK g \in Closable(A, O) : i \in OwnArrivals(A, g)
    BY <1>4 DEF Arrived
  <2>2. CASE i = Survivor(A, g)
    BY <1>2, <1>4, <2>1, <2>2, ReconciledRow
  <2>3. CASE i # Survivor(A, g)
    <3>1. R[i].scopes = A[i].scopes /\ R[i].status = "joined"
      BY <2>1, <2>3, ReconciledRow
    <3> QED
      BY <1>1, <3>1
  <2> QED
    BY <2>2, <2>3
<1> QED
  BY <1>3, <1>4

\* Only waiting arrivals are touched, so visits that succeeded keep their
\* scopes and settled ones are what they were.
LEMMA ReconciledSettled ==
    ASSUME NEW A, ActsTyped(A), NEW O, NEW i \in DOMAIN A, A[i].status # "waiting_join"
    PROVE  Reconciled(A, O)[i] = A[i]
BY ReconciledType

\* Joins keep the scopes nested.
LEMMA NestingReconciled ==
    ASSUME NEW A, ActsTyped(A), NEW O, Nesting(A)
    PROVE  Nesting(Reconciled(A, O))
<1> DEFINE R == Reconciled(A, O)
<1>1. DOMAIN R = DOMAIN A
  BY ReconciledType
<1> SUFFICES ASSUME NEW i \in DOMAIN A, NEW k \in DOMAIN R[i].scopes
             PROVE  Encloses(R, R[i].scopes[k], i, k)
  BY <1>1 DEF Nesting
<1> DEFINE g == A[i].scopes[k]
<1>2. /\ k \in DOMAIN A[i].scopes /\ R[i].scopes[k] = g
      /\ \A n \in 1 .. k : R[i].scopes[n] = A[i].scopes[n]
  BY ReconciledScopes
<1>3. Encloses(A, g, i, k) /\ k \in Nat
  BY <1>2, ScopesIndexed DEF Nesting
<1>4. g \in DOMAIN A /\ A[g].status = "succeeded" => R[g] = A[g]
  BY ReconciledSettled
<1> HIDE DEF R, g
<1> QED
  BY <1>1, <1>2, <1>3, <1>4 DEF Encloses

\* A generation that closes has no live member left: its arrivals left it or
\* were merged, and those of its inner generations with them.
LEMMA ConsumedReconciled ==
    ASSUME NEW A, ActsTyped(A), NEW O, NEW K, Nesting(A), Consumed(A, K)
    PROVE  Consumed(Reconciled(A, O), K \cup Closed(A, O))
<1> DEFINE R == Reconciled(A, O)
<1>1. DOMAIN R = DOMAIN A
  BY ReconciledType
<1> SUFFICES ASSUME NEW i \in DOMAIN A, NEW m \in DOMAIN R[i].scopes,
                    R[i].scopes[m] \in K \cup Closed(A, O)
             PROVE  Settled(R[i].status)
  BY <1>1 DEF Consumed
<1> DEFINE g == R[i].scopes[m]
<1>2. m \in DOMAIN A[i].scopes /\ g = A[i].scopes[m]
  BY ReconciledScopes
<1>3. i \in Members(A, g) /\ i \in Members(R, g)
  BY <1>1, <1>2 DEF Members
<1>4. ASSUME Settled(A[i].status) PROVE Settled(R[i].status)
  BY <1>4, ReconciledSettled DEF Settled
<1>5. CASE g \in K
  BY <1>2, <1>4, <1>5 DEF Consumed
<1>6. CASE g \in Closable(A, O)
  <2>1. CASE i \in OwnArrivals(A, g)
    <3>1. OwnIndex(A, i) \in DOMAIN A[i].scopes /\ A[i].scopes[OwnIndex(A, i)] = g
      BY <2>1, OwnArrival
    <3>2. OwnIndex(A, i) = m
      BY <1>2, <3>1, SameIndex
    <3>3. i \in Arrived(A, O)
      BY <1>6, <2>1 DEF Arrived
    <3>4. ~(R[i].status = "ready")
      <4>1. R[i].status = "ready" => m < OwnIndex(A, i)
        BY <3>3, ReconciledScopes
      <4>2. m \in Nat
        BY <1>2, ScopesIndexed
      <4> QED BY <3>2, <4>1, <4>2
    <3>5. R[i].status \in {"ready", "joined"}
      BY <1>6, <2>1, ReconciledRow
    <3> QED
      BY <3>4, <3>5 DEF Settled
  <2>2. CASE i \notin OwnArrivals(A, g)
    BY <1>3, <1>4, <1>6, <2>2 DEF Closable
  <2> QED
    BY <2>1, <2>2
<1>7. CASE g \in Drained(R, O)
  BY <1>3, <1>7 DEF Drained
<1> QED
  BY <1>5, <1>6, <1>7 DEF Closed

\* After a pass no generation is left that could close: consuming the arrivals
\* of one never makes arrivals of another consumable.
LEMMA NoneMissed ==
    ASSUME NEW A, ActsTyped(A), NEW O, Nesting(A)
    PROVE  Closable(Reconciled(A, O), O \ Closed(A, O)) = {}
<1> DEFINE R == Reconciled(A, O)
<1>1. DOMAIN R = DOMAIN A
  BY ReconciledType
<1> SUFFICES ASSUME NEW g \in O, g \notin Closed(A, O), HasJoin(g),
                    \A x \in Members(R, g) : Settled(R[x].status) \/ x \in OwnArrivals(R, g)
             PROVE  FALSE
  BY DEF Closable
<1>2. PICK j \in Members(R, g) : ~Settled(R[j].status) /\ j \in OwnArrivals(R, g)
  BY DEF Closed, Drained
<1>3. PICK i \in Members(A, g) : ~Settled(A[i].status) /\ i \notin OwnArrivals(A, g)
  BY DEF Closed, Closable
<1>4. i \in DOMAIN A /\ j \in DOMAIN A
  BY <1>1, <1>2, <1>3 DEF Members
<1>5. PICK m \in DOMAIN A[i].scopes : A[i].scopes[m] = g
  BY <1>3 DEF Members
<1>6. PICK n \in DOMAIN R[j].scopes : R[j].scopes[n] = g
  BY <1>2 DEF Members
<1>7. n \in DOMAIN A[j].scopes /\ A[j].scopes[n] = g
  BY <1>4, <1>6, ReconciledScopes
<1>8. n = m /\ \A l \in 1 .. m - 1 : A[i].scopes[l] = A[j].scopes[l]
  BY <1>4, <1>5, <1>7, SameIndex
<1>9. R[j].status = "waiting_join"
  BY <1>2 DEF OwnArrivals
<1>10. A[j].status = "waiting_join"
  BY <1>4, <1>9, ReconciledSettled
<1>11. j \notin Arrived(A, O)
  <2>1. ASSUME NEW h \in Closable(A, O), j \in OwnArrivals(A, h) PROVE FALSE
    BY <1>4, <1>9, <2>1, ReconciledRow
  <2> QED
    BY <2>1 DEF Arrived
<1>12. i \in Arrived(A, O)
  <2> SUFFICES ASSUME i \notin Arrived(A, O) PROVE FALSE
    OBVIOUS
  <2>1. R[i] = A[i]
    BY <1>4, ReconciledRow
  <2>2. i \in Members(R, g)
    BY <1>1, <1>4, <1>5, <2>1 DEF Members
  <2>3. i \in OwnArrivals(R, g)
    BY <1>3, <2>1, <2>2
  <2>4. i \in OwnArrivals(A, g)
    BY <1>3, <2>1, <2>3 DEF OwnArrivals, IsOwnScope
  <2> QED
    BY <1>3, <2>4
<1>13. PICK h \in Closable(A, O) : i \in OwnArrivals(A, h)
  BY <1>12 DEF Arrived
<1> DEFINE k == OwnIndex(A, i)
<1>14. k \in DOMAIN A[i].scopes /\ A[i].scopes[k] = h /\ IsOwnScope(A, i, k)
  BY <1>13, OwnArrival
<1> HIDE DEF k
<1>15. k \in Nat \ {0} /\ m \in Nat \ {0}
  BY <1>4, <1>5, <1>14, ScopesIndexed
<1>16. CASE m = k
  BY <1>3, <1>5, <1>13, <1>14, <1>16 DEF OwnArrivals
<1>17. CASE m < k
  <2> DEFINE s == Survivor(A, h)
  <2>1. s \in OwnArrivals(A, h)
    BY <1>13, SurvivorArrives
  <2>2. /\ s \in DOMAIN A /\ OwnIndex(A, s) \in DOMAIN A[s].scopes
        /\ A[s].scopes[OwnIndex(A, s)] = h
    BY <2>1, OwnArrival
  <2>3. OwnIndex(A, s) = k /\ \A l \in 1 .. k - 1 : A[s].scopes[l] = A[i].scopes[l]
    BY <1>4, <1>14, <2>2, SameIndex
  <2>4. A[s].scopes[m] = g
    BY <1>5, <1>15, <1>17, <2>3
  <2>5. R[s].status = "ready" /\ R[s].scopes = SubSeq(A[s].scopes, 1, k - 1)
    BY <2>1, <2>2, <2>3, ReconciledRow
  <2>6. m \in DOMAIN R[s].scopes
    <3>1. A[s].scopes \in Seq(Paths) /\ k \in 1 .. Len(A[s].scopes)
      BY <2>2, <2>3, ScopesIndexed
    <3>2. DOMAIN SubSeq(A[s].scopes, 1, k - 1) = 1 .. k - 1
      <4>1. \A l \in 1 .. k - 1 : A[s].scopes[l] \in Paths
        BY <1>15, <3>1, ElementOfSeq, ScopesIndexed, <2>2
      <4>2. k - 1 \in Int
        BY <1>15
      <4> QED
        BY <1>15, <3>1, <4>1, <4>2, SubSeqProperties
    <3> QED
      BY <1>15, <1>17, <2>5, <3>2
  <2>7. R[s].scopes[m] = g
    BY <2>2, <2>4, <2>6, ReconciledScopes
  <2>8. s \in Members(R, g)
    BY <1>1, <2>2, <2>6, <2>7 DEF Members
  <2>9. s \notin OwnArrivals(R, g) /\ ~Settled(R[s].status)
    BY <2>5 DEF OwnArrivals, Settled
  <2> QED
    BY <2>8, <2>9
<1>18. CASE k < m
  <2>1. A[j].scopes[k] = h
    BY <1>8, <1>14, <1>15, <1>18
  <2>2. k \in DOMAIN A[j].scopes
    <3>1. m \in 1 .. Len(A[j].scopes) /\ DOMAIN A[j].scopes = 1 .. Len(A[j].scopes)
          /\ Len(A[j].scopes) \in Nat
      BY <1>4, <1>7, <1>8, ScopesIndexed
    <3> QED
      BY <1>15, <1>18, <3>1
  <2>3. j \in Members(A, h)
    BY <1>4, <2>1, <2>2 DEF Members
  <2>4. j \in OwnArrivals(A, h)
    BY <1>10, <1>13, <2>3 DEF Closable, Settled
  <2> QED
    BY <1>11, <1>13, <2>4 DEF Arrived
<1> QED
  BY <1>15, <1>16, <1>17, <1>18

\* A survivor leaves only the generations of its own join: those of the joins
\* ahead of it are outside them.
LEMMA PairedReconciled ==
    ASSUME NEW A, ActsTyped(A), NEW O, Paired(A),
           \A i \in DOMAIN A : A[i].status = "waiting_join" => NodeAt(i) \in JoinNodes(graph)
    PROVE  Paired(Reconciled(A, O))
<1> DEFINE R == Reconciled(A, O)
<1>1. DOMAIN R = DOMAIN A
  BY ReconciledType
<1> SUFFICES ASSUME NEW i \in DOMAIN A, NEW J \in JoinNodes(graph), Expects(R, i, J)
             PROVE  Within(R[i].scopes, J)
  BY <1>1 DEF Paired
<1>2. R[i].status = "waiting_join" => A[i].status = "waiting_join"
  BY ReconciledSettled
<1>3. Expects(A, i, J) /\ Within(A[i].scopes, J)
  BY <1>2 DEF Expects, Paired
<1>4. CASE R[i].scopes = A[i].scopes
  BY <1>3, <1>4
<1>5. CASE R[i].scopes # A[i].scopes
  <2>1. i \in Arrived(A, O)
    BY <1>5, ReconciledRow
  <2>2. PICK g \in Closable(A, O) : i \in OwnArrivals(A, g)
    BY <2>1 DEF Arrived
  <2> DEFINE k == OwnIndex(A, i)
             I == NodeAt(i)
  <2>3. /\ R[i].status = "ready"
        /\ R[i].scopes = SubSeq(A[i].scopes, 1, k - 1)
    BY <1>5, <2>2, ReconciledRow
  <2>4. /\ A[i].status = "waiting_join" /\ k \in DOMAIN A[i].scopes /\ IsOwnScope(A, i, k)
    BY <2>2, OwnArrival
  <2>5. I \in JoinNodes(graph)
    BY <2>4
  <2>6. Ahead(graph, I, J) /\ I # graph.join[J]
    BY <2>3 DEF Expects
  <2>7. Within(A[i].scopes, I)
    BY <2>4, <2>5 DEF Paired, Expects
  <2>8. A[i].scopes \in Seq(Paths) /\ Len(A[i].scopes) \in Nat /\ DOMAIN A[i].scopes = 1 .. Len(A[i].scopes)
    BY ScopesIndexed
  <2> HIDE DEF k
  <2>9. ASSUME NEW l \in DOMAIN A[i].scopes, ForkIn(A[i].scopes, l, J)
        PROVE  l < k
    <3>1. PICK m \in DOMAIN A[i].scopes : m > l /\ ForkIn(A[i].scopes, m, I)
      BY <2>6, <2>7, <2>9 DEF Within
    <3>2. ~(m > k)
      BY <2>4, <3>1 DEF ForkIn, IsOwnScope
    <3>3. m \in Nat /\ l \in Nat /\ k \in Nat
      BY <2>4, <2>8
    <3> QED
      BY <3>1, <3>2, <3>3
  <2>10. \A l \in 1 .. k - 1 : l \in DOMAIN R[i].scopes /\ R[i].scopes[l] = A[i].scopes[l]
    <3>1. \A l \in 1 .. k - 1 : A[i].scopes[l] \in Paths
      BY <2>4, <2>8, ElementOfSeq
    <3>2. k - 1 \in Int /\ k \in 1 .. Len(A[i].scopes)
      BY <2>4, <2>8
    <3> HIDE DEF R
    <3> QED
      BY <2>3, <2>8, <3>1, <3>2, SubSeqProperties
  <2>11. ASSUME NEW l \in DOMAIN A[i].scopes, ForkIn(A[i].scopes, l, J)
         PROVE  l \in DOMAIN R[i].scopes /\ ForkIn(R[i].scopes, l, J)
    <3>1. l \in 1 .. k - 1
      BY <2>4, <2>8, <2>9, <2>11
    <3> QED BY <2>10, <2>11, <3>1 DEF ForkIn
  <2>12. \A l \in DOMAIN R[i].scopes : l \in DOMAIN A[i].scopes /\ R[i].scopes[l] = A[i].scopes[l]
    BY ReconciledScopes
  <2> HIDE DEF R
  <2>13. \E l \in DOMAIN R[i].scopes : ForkIn(R[i].scopes, l, J)
    BY <1>3, <2>11 DEF Within
  <2>14. ASSUME NEW H \in JoinNodes(graph), Ahead(graph, J, H), graph.join[H] # J,
                NEW l \in DOMAIN R[i].scopes, ForkIn(R[i].scopes, l, H)
         PROVE  \E m \in DOMAIN R[i].scopes : m > l /\ ForkIn(R[i].scopes, m, J)
    <3>1. l \in DOMAIN A[i].scopes /\ ForkIn(A[i].scopes, l, H)
      BY <2>12, <2>14 DEF ForkIn
    <3>2. PICK m \in DOMAIN A[i].scopes : m > l /\ ForkIn(A[i].scopes, m, J)
      BY <1>3, <2>14, <3>1 DEF Within
    <3> QED BY <2>11, <3>2
  <2> QED
    BY <2>13, <2>14 DEF Within
<1> QED
  BY <1>4, <1>5

\* An arrival has no scope of a fork inside its own: nothing is left open
\* between a fork and its join.
LEMMA OwnScopeLast ==
    ASSUME Regular, NEW A, ActsTyped(A), Inside(A), NEW i \in DOMAIN A,
           A[i].status = "waiting_join", NodeAt(i) \in JoinNodes(graph),
           NEW k, IsOwnScope(A, i, k), NEW m \in DOMAIN A[i].scopes, m > k,
           NEW K \in JoinNodes(graph), ForkIn(A[i].scopes, m, K)
    PROVE  FALSE
<1> DEFINE J == NodeAt(i)
           f == graph.join[J]
           h == graph.join[K]
<1>1. NotPast(J, A[i]) /\ NotReforked(J, A[i])
  BY DEF Inside, Settled
<1>2. k \in DOMAIN A[i].scopes /\ DOMAIN A[i].scopes \subseteq Nat
      /\ \A l \in DOMAIN A[i].scopes : l > k => NodeAt(A[i].scopes[l]) # f
  BY ScopesIndexed DEF IsOwnScope
<1>3. h # f /\ K # J
  BY <1>2 DEF ForkIn
<1>4. IsFiniteSet(graph.edges) /\ ExecutableGraph(graph) /\ J # f /\ ~Ahead(graph, J, J)
  BY JoinFacts DEF Regular
<1>5. \A l \in DOMAIN A[i].scopes : l > m => ~ForkIn(A[i].scopes, l, J)
  <2> SUFFICES ASSUME NEW l \in DOMAIN A[i].scopes, l > m PROVE ~ForkIn(A[i].scopes, l, J)
    OBVIOUS
  <2>1. l > k
    BY <1>2
  <2> QED BY <1>2, <2>1 DEF ForkIn
<1>6. Ahead(graph, h, J)
  <2>1. NodeAt(A[i].scopes[m]) = h
    BY DEF ForkIn
  <2>2. \/ J \in ReachableFrom(graph, After(graph, h), {f})
        \/ J \in ReachableFrom(graph, After(graph, J), {f})
    BY <1>1, <1>4, <1>5, <2>1 DEF NotReforked
  <2> QED
    BY <1>4, <2>2 DEF Ahead
<1>7. Nested(graph, J, K) /\ J \notin ReachableFrom(graph, After(graph, h), {K})
  BY <1>3, <1>4, <1>6, ForkNested
<1>8. Unrepeated(K)
  BY <1>3, <1>7 DEF Regular, NestedReentry, Unrepeated, After
<1> QED
  BY <1>1, <1>3, <1>7, <1>8 DEF NotPast

\* A survivor leaves the generation of its own join, the last of its scopes, so
\* it stays before the joins of the forks outside it.
LEMMA InsideReconciled ==
    ASSUME Regular, NEW A, ActsTyped(A), NEW O, Inside(A), AtJoins(A)
    PROVE  Inside(Reconciled(A, O))
<1> DEFINE R == Reconciled(A, O)
<1>1. DOMAIN R = DOMAIN A
  BY ReconciledType
<1> SUFFICES ASSUME NEW i \in DOMAIN A, ~Settled(R[i].status)
             PROVE  NotPast(NodeAt(i), R[i]) /\ NotReforked(NodeAt(i), R[i])
  BY <1>1 DEF Inside
<1>2. CASE i \notin Arrived(A, O)
  <2>1. R[i] = A[i]
    BY <1>2, ReconciledRow
  <2> QED
    BY <2>1 DEF Inside
<1>3. CASE i \in Arrived(A, O)
  <2>1. PICK g \in Closable(A, O) : i \in OwnArrivals(A, g)
    BY <1>3 DEF Arrived
  <2> DEFINE k == OwnIndex(A, i)
             I == NodeAt(i)
  <2>2. R[i].status = "ready" /\ R[i].scopes = SubSeq(A[i].scopes, 1, k - 1)
    BY <2>1, ReconciledRow DEF Settled
  <2>3. A[i].status = "waiting_join" /\ k \in DOMAIN A[i].scopes /\ IsOwnScope(A, i, k)
    BY <2>1, OwnArrival
  <2>4. I \in JoinNodes(graph) /\ NotPast(I, A[i]) /\ NotReforked(I, A[i])
    BY <2>3 DEF AtJoins, Inside, Settled
  <2>5. \A K \in JoinNodes(graph), m \in DOMAIN A[i].scopes : m > k => ~ForkIn(A[i].scopes, m, K)
    <3> SUFFICES ASSUME NEW K \in JoinNodes(graph), NEW m \in DOMAIN A[i].scopes, m > k,
                        ForkIn(A[i].scopes, m, K)
                 PROVE  FALSE
      OBVIOUS
    <3> HIDE DEF k
    <3> QED BY <2>3, <2>4, OwnScopeLast
  <2>6. A[i].scopes \in Seq(Paths) /\ Len(A[i].scopes) \in Nat
        /\ DOMAIN A[i].scopes = 1 .. Len(A[i].scopes)
    BY ScopesIndexed
  <2>7. NodeAt(A[i].scopes[k]) = graph.join[I]
    BY <2>3 DEF IsOwnScope
  <2> HIDE DEF k
  <2>8. /\ DOMAIN R[i].scopes = 1 .. k - 1
        /\ \A l \in 1 .. k - 1 : R[i].scopes[l] = A[i].scopes[l] /\ l \in DOMAIN A[i].scopes
    <3>1. \A l \in 1 .. k - 1 : A[i].scopes[l] \in Paths
      BY <2>3, <2>6, ElementOfSeq
    <3>2. k - 1 \in Int /\ k \in 1 .. Len(A[i].scopes)
      BY <2>3, <2>6
    <3> HIDE DEF R
    <3> QED
      BY <2>2, <2>6, <3>1, <3>2, SubSeqProperties
  <2>9. k \in Nat
    BY <2>3, <2>6
  <2> HIDE DEF R, I
  <2>10. ASSUME NEW J \in JoinNodes(graph), NEW l \in 1 .. k - 1, Unrepeated(J), ForkIn(R[i].scopes, l, J)
         PROVE  /\ I \in ReachableFrom(graph, After(graph, graph.join[J]), {J})
                /\ \A m \in DOMAIN R[i].scopes : ForkIn(R[i].scopes, m, J) => m = l
    <3>1. ForkIn(A[i].scopes, l, J)
      BY <2>8, <2>10 DEF ForkIn
    <3>2. /\ I \in ReachableFrom(graph, After(graph, graph.join[J]), {J}) \/ I = J
          /\ \A m \in DOMAIN A[i].scopes : ForkIn(A[i].scopes, m, J) => m = l
      BY <2>4, <2>8, <2>10, <3>1 DEF NotPast
    <3>3. I # J
      <4> SUFFICES ASSUME I = J PROVE FALSE
        OBVIOUS
      <4>1. ForkIn(A[i].scopes, k, J)
        BY <2>3, <2>7 DEF ForkIn
      <4>2. k = l
        BY <2>3, <3>2, <4>1
      <4> QED BY <2>9, <4>2
    <3>4. \A m \in DOMAIN R[i].scopes : ForkIn(R[i].scopes, m, J) => ForkIn(A[i].scopes, m, J) /\ m \in DOMAIN A[i].scopes
      BY <2>8 DEF ForkIn
    <3> QED
      BY <3>2, <3>3, <3>4
  <2>11. NotPast(I, R[i])
    BY <2>8, <2>10 DEF NotPast
  <2>12. ASSUME NEW J \in JoinNodes(graph), NEW l \in 1 .. k - 1, I # graph.join[J],
                \A m \in 1 .. k - 1 : m > l => ~ForkIn(R[i].scopes, m, J)
         PROVE  \/ I \in ReachableFrom(graph, After(graph, NodeAt(R[i].scopes[l])), {graph.join[J]})
                \/ I \in ReachableFrom(graph, After(graph, J), {graph.join[J]})
                \/ I = J
    <3>1. CASE \A m \in DOMAIN A[i].scopes : m > l => ~ForkIn(A[i].scopes, m, J)
      <4>1. l \in DOMAIN A[i].scopes /\ R[i].scopes[l] = A[i].scopes[l]
        BY <2>8
      <4> QED
        BY <2>4, <2>12, <3>1, <4>1 DEF NotReforked
    <3>2. ASSUME NEW m \in DOMAIN A[i].scopes, m > l, ForkIn(A[i].scopes, m, J)
          PROVE  I = J
      <4>1. m \in Nat /\ m > 0
        BY <2>6
      <4>2. ~(m > k)
        BY <2>5, <3>2
      <4>3. m \notin 1 .. k - 1
        <5> SUFFICES ASSUME m \in 1 .. k - 1 PROVE FALSE
          OBVIOUS
        <5>1. ForkIn(R[i].scopes, m, J)
          BY <2>8, <3>2 DEF ForkIn
        <5> QED BY <2>12, <3>2, <5>1
      <4>4. m = k
        BY <2>9, <4>1, <4>2, <4>3
      <4>5. graph.join[J] = graph.join[I]
        BY <2>7, <3>2, <4>4 DEF ForkIn
      <4> QED
        BY <2>4, <4>5, JoinFacts DEF Regular
    <3> QED
      BY <3>1, <3>2
  <2>13. NotReforked(I, R[i])
    <3>1. R[i].status # "waiting_join"
      BY <2>2
    <3> QED
      BY <2>8, <2>12, <3>1 DEF NotReforked
  <2> QED
    BY <2>11, <2>13 DEF I
<1> QED
  BY <1>2, <1>3

\* What a pass over the joins preserves and establishes.
LEMMA JoinedReconciled ==
    ASSUME NEW A, ActsTyped(A), NEW O, NEW K, Joined(A, O, K)
    PROVE  /\ Joined(Reconciled(A, O), O \ Closed(A, O), K \cup Closed(A, O))
           /\ Closable(Reconciled(A, O), O \ Closed(A, O)) = {}
<1> DEFINE R == Reconciled(A, O)
           G == (O \ Closed(A, O)) \cup (K \cup Closed(A, O))
<1>1. DOMAIN R = DOMAIN A
  BY ReconciledType
<1>2. Nesting(R) /\ Consumed(R, K \cup Closed(A, O))
      /\ Closable(R, O \ Closed(A, O)) = {}
  BY NestingReconciled, ConsumedReconciled, NoneMissed DEF Joined
<1>3. G = O \cup K
  BY DEF Closed, Closable, Drained
<1>4. ScopesIn(R, G)
  <2> SUFFICES ASSUME NEW i \in DOMAIN A, NEW k \in DOMAIN R[i].scopes
               PROVE  R[i].scopes[k] \in O \cup K
    BY <1>1, <1>3 DEF ScopesIn
  <2>1. k \in DOMAIN A[i].scopes /\ R[i].scopes[k] = A[i].scopes[k]
    BY ReconciledScopes
  <2> QED
    BY <2>1 DEF Joined, ScopesIn
<1>5. Forked(R, G)
  <2>1. \A g \in DOMAIN A : A[g].status = "succeeded" => R[g] = A[g]
    BY ReconciledSettled
  <2> QED
    BY <1>1, <1>3, <2>1 DEF Joined, Forked
<1>6. Scoped(R)
  <2> SUFFICES ASSUME NEW i \in DOMAIN A, R[i].status = "waiting_join"
               PROVE  \E k \in DOMAIN R[i].scopes : IsOwnScope(R, i, k)
    BY <1>1 DEF Scoped
  <2>1. i \notin Arrived(A, O)
    <3>1. ASSUME NEW h \in Closable(A, O), i \in OwnArrivals(A, h) PROVE FALSE
      BY <3>1, ReconciledRow
    <3> QED
      BY <3>1 DEF Arrived
  <2>2. R[i] = A[i]
    BY <2>1, ReconciledRow
  <2> QED
    BY <2>2 DEF Joined, Scoped, IsOwnScope
<1>7. AtJoins(R) /\ Paired(R)
  <2>1. \A i \in DOMAIN A : R[i].status = "waiting_join" => A[i].status = "waiting_join"
    BY ReconciledSettled
  <2>2. AtJoins(A) /\ Paired(A)
    BY DEF Joined
  <2> QED
    BY <1>1, <2>1, <2>2, PairedReconciled DEF AtJoins
<1>8. Regular => Inside(R)
  BY InsideReconciled DEF Joined
<1> QED
  BY <1>2, <1>4, <1>5, <1>6, <1>7, <1>8 DEF Joined

-----------------------------------------------------------------------------
(* Changing statuses. *)

\* A step that settles, fails, blocks, starts or cancels activations, and lets
\* none wait that did not and none that waits do anything but settle.
Restated(A, B) ==
    /\ DOMAIN B = DOMAIN A
    /\ \A i \in DOMAIN A :
          /\ B[i].scopes = A[i].scopes
          /\ A[i].status = "succeeded" => B[i].status = "succeeded"
          /\ Settled(A[i].status) => Settled(B[i].status)
          /\ B[i].status = "waiting_join" => A[i].status = "waiting_join"
          /\ A[i].status = "waiting_join" =>
                B[i].status = "waiting_join" \/ Settled(B[i].status)

LEMMA PairedRestated ==
    ASSUME NEW A, NEW B, Restated(A, B), Paired(A)
    PROVE  Paired(B)
BY DEF Restated, Paired, Expects

LEMMA InsideRestated ==
    ASSUME NEW A, NEW B, Restated(A, B), Inside(A)
    PROVE  Inside(B)
BY DEF Restated, Inside, NotPast, NotReforked

LEMMA JoinedRestated ==
    ASSUME NEW A, NEW B, Restated(A, B), NEW O, NEW K, Joined(A, O, K)
    PROVE  Joined(B, O, K)
<1> USE DEF Restated
<1>1. Nesting(B)
  BY DEF Joined, Nesting, Encloses
<1>2. ScopesIn(B, O \cup K) /\ Consumed(B, K)
  BY DEF Joined, ScopesIn, Consumed
<1>3. Forked(B, O \cup K)
  BY DEF Joined, Forked
<1>4. Scoped(B) /\ AtJoins(B)
  BY DEF Joined, Scoped, IsOwnScope, AtJoins
<1>5. Paired(B) /\ (Regular => Inside(B))
  BY PairedRestated, InsideRestated DEF Joined
<1> QED
  BY <1>1, <1>2, <1>3, <1>4, <1>5 DEF Joined

\* If it also settles nothing, no generation becomes closable.
LEMMA ClosableRestated ==
    ASSUME NEW A, NEW B, Restated(A, B), NEW O, Closable(A, O) = {},
           \A i \in DOMAIN A : Settled(B[i].status) => Settled(A[i].status)
    PROVE  Closable(B, O) = {}
<1> USE DEF Restated
<1> SUFFICES ASSUME NEW g \in Closable(B, O)
             PROVE  g \in Closable(A, O)
  OBVIOUS
<1>1. Members(B, g) = Members(A, g)
  BY DEF Members
<1>2. ASSUME NEW i \in OwnArrivals(B, g) PROVE i \in OwnArrivals(A, g)
  BY <1>1 DEF OwnArrivals, IsOwnScope, Members
<1>3. \A i \in Members(A, g) : i \in DOMAIN A
  BY DEF Members
<1> QED
  BY <1>1, <1>2, <1>3 DEF Closable

-----------------------------------------------------------------------------
(* Enabling successors. *)

\* A nonempty bounded set of indices has a largest one: an arrival that finds
\* a scope of its fork has a latest one.
LEMMA LatestIndex ==
    ASSUME NEW n \in Nat, NEW S, S \subseteq 1 .. n, S # {}
    PROVE  \E k \in S : \A m \in S : m <= k
<1> DEFINE T == {l \in Nat : \E k \in S : l = n - k}
<1>1. T \subseteq Nat /\ T # {}
  <2>1. PICK k \in S : TRUE
    OBVIOUS
  <2>2. n - k \in Nat
    OBVIOUS
  <2> QED
    BY <2>2
<1>2. PICK l \in T : \A x \in T : l <= x
  <2> HIDE DEF T
  <2>1. PICK l \in T : \A x \in T : <<x, l>> \notin OpToRel(<, Nat)
    BY <1>1, WFMin, NatLessThanWellFounded
  <2>2. \A x, y \in Nat : x < y => <<x, y>> \in OpToRel(<, Nat)
    BY DEF OpToRel
  <2>3. \A x \in T : ~(x < l)
    BY <1>1, <2>1, <2>2
  <2> QED
    BY <1>1, <2>3
<1>3. PICK k \in S : l = n - k
  OBVIOUS
<1>4. \A m \in S : m <= k
  <2> SUFFICES ASSUME NEW m \in S PROVE m <= k
    OBVIOUS
  <2>1. n - m \in T
    OBVIOUS
  <2>2. l <= n - m
    BY <1>2, <2>1
  <2> QED
    BY <1>3, <2>2
<1> QED
  BY <1>4

\* An arrival with a scope of its fork has an own scope, the latest one.
LEMMA OwnScopeExists ==
    ASSUME NEW A, ActsTyped(A), NEW i \in DOMAIN A, NEW k \in DOMAIN A[i].scopes,
           NodeAt(A[i].scopes[k]) = graph.join[NodeAt(i)]
    PROVE  \E m \in DOMAIN A[i].scopes : IsOwnScope(A, i, m)
<1> DEFINE S == {m \in DOMAIN A[i].scopes : NodeAt(A[i].scopes[m]) = graph.join[NodeAt(i)]}
<1>1. Len(A[i].scopes) \in Nat /\ DOMAIN A[i].scopes = 1 .. Len(A[i].scopes)
  BY ScopesIndexed
<1>2. S \subseteq 1 .. Len(A[i].scopes) /\ S # {}
  BY <1>1
<1>3. PICK m \in S : \A n \in S : n <= m
  <2> HIDE DEF S
  <2> QED BY <1>1, <1>2, LatestIndex
<1>4. \A n \in DOMAIN A[i].scopes : n > m => NodeAt(A[i].scopes[n]) # graph.join[NodeAt(i)]
  <2> SUFFICES ASSUME NEW n \in DOMAIN A[i].scopes, n > m,
                      NodeAt(A[i].scopes[n]) = graph.join[NodeAt(i)]
               PROVE  FALSE
    OBVIOUS
  <2>1. n \in S /\ n \in Nat /\ m \in Nat
    BY <1>1
  <2> QED
    BY <1>3, <2>1
<1> QED
  BY <1>3, <1>4 DEF IsOwnScope

\* A child's scopes are its parent's, and after them its parent if it forked.
LEMMA ChildScopesIndexed ==
    ASSUME TypeOK, NEW p \in DOMAIN acts \cup {<<>>}, NEW k \in DOMAIN ChildScopes(p)
    PROVE  \/ /\ p \in DOMAIN acts
              /\ k \in DOMAIN acts[p].scopes
              /\ \A n \in 1 .. k : ChildScopes(p)[n] = acts[p].scopes[n]
           \/ /\ IsFork(graph, NodeAt(p))
              /\ ChildScopes(p)[k] = p
              /\ p = <<>> => k = 1
              /\ p # <<>> => /\ p \in DOMAIN acts
                             /\ Len(acts[p].scopes) = k - 1
                             /\ \A n \in 1 .. k - 1 : ChildScopes(p)[n] = acts[p].scopes[n]
<1>1. p \in Paths /\ <<>> \notin DOMAIN acts
  BY EmptySeq DEF TypeOK, Paths
<1>2. /\ ParentScopes(p) \in Seq(Paths)
      /\ p = <<>> => Len(ParentScopes(p)) = 0
      /\ p # <<>> => p \in DOMAIN acts /\ ParentScopes(p) = acts[p].scopes
  <2>1. CASE p = <<>>
    BY <2>1, EmptySeq DEF ParentScopes
  <2>2. CASE p # <<>>
    BY <2>2 DEF ParentScopes, TypeOK, Activations
  <2> QED BY <2>1, <2>2
<1>3. Len(ParentScopes(p)) \in Nat /\ DOMAIN ParentScopes(p) = 1 .. Len(ParentScopes(p))
  BY <1>2, LenProperties
<1>4. CASE ~IsFork(graph, NodeAt(p))
  <2>1. ChildScopes(p) = ParentScopes(p)
    BY <1>4 DEF ChildScopes
  <2> QED
    BY <1>2, <1>3, <2>1
<1>5. CASE IsFork(graph, NodeAt(p))
  <2>1. ChildScopes(p) = Append(ParentScopes(p), p)
    BY <1>5 DEF ChildScopes
  <2> DEFINE L == Len(ParentScopes(p))
  <2>2. /\ Len(ChildScopes(p)) = L + 1
        /\ ChildScopes(p)[L + 1] = p
        /\ \A n \in 1 .. L : ChildScopes(p)[n] = ParentScopes(p)[n]
        /\ ChildScopes(p) \in Seq(Paths)
    BY <1>1, <1>2, <2>1, AppendProperties
  <2>3. k \in 1 .. L + 1
    BY <2>2, LenProperties
  <2>4. CASE k = L + 1
    BY <1>2, <1>3, <1>5, <2>2, <2>4
  <2>5. CASE k \in 1 .. L
    BY <1>2, <1>3, <2>2, <2>5
  <2> QED
    BY <1>3, <2>3, <2>4, <2>5
<1> QED
  BY <1>4, <1>5

\* A child is in every scope its parent is in, and in its parent last.
LEMMA ChildScopesKept ==
    ASSUME TypeOK, NEW p \in DOMAIN acts \cup {<<>>}
    PROVE  /\ DOMAIN ChildScopes(p) \subseteq Nat
           /\ p \in DOMAIN acts => \A k \in DOMAIN acts[p].scopes :
                 k \in DOMAIN ChildScopes(p) /\ ChildScopes(p)[k] = acts[p].scopes[k]
           /\ IsFork(graph, NodeAt(p)) => \E k \in DOMAIN ChildScopes(p) :
                 ChildScopes(p)[k] = p /\ \A m \in DOMAIN ChildScopes(p) : m <= k
           /\ \A k \in DOMAIN ChildScopes(p) :
                 \/ p \in DOMAIN acts /\ k \in DOMAIN acts[p].scopes
                 \/ /\ IsFork(graph, NodeAt(p))
                    /\ ChildScopes(p)[k] = p
                    /\ \A m \in DOMAIN ChildScopes(p) : m <= k
<1>1. p \in Paths /\ <<>> \notin DOMAIN acts
  BY EmptySeq DEF TypeOK, Paths
<1>2. /\ ParentScopes(p) \in Seq(Paths)
      /\ p \in DOMAIN acts => ParentScopes(p) = acts[p].scopes
      /\ p \notin DOMAIN acts => Len(ParentScopes(p)) = 0
  <2>1. CASE p = <<>>
    BY <1>1, <2>1, EmptySeq DEF ParentScopes
  <2>2. CASE p # <<>>
    BY <2>2 DEF ParentScopes, TypeOK, Activations
  <2> QED BY <2>1, <2>2
<1> DEFINE s == ParentScopes(p)
           L == Len(s)
<1>3. L \in Nat /\ DOMAIN s = 1 .. L
  BY <1>2, LenProperties
<1>4. CASE ~IsFork(graph, NodeAt(p))
  <2>1. ChildScopes(p) = s
    BY <1>4 DEF ChildScopes
  <2> HIDE DEF s
  <2> QED
    BY <1>2, <1>3, <1>4, <2>1 DEF s
<1>5. CASE IsFork(graph, NodeAt(p))
  <2>1. ChildScopes(p) = Append(s, p)
    BY <1>5 DEF ChildScopes
  <2>2. /\ Len(ChildScopes(p)) = L + 1
        /\ ChildScopes(p)[L + 1] = p
        /\ \A n \in 1 .. L : ChildScopes(p)[n] = s[n]
        /\ ChildScopes(p) \in Seq(Paths)
    BY <1>1, <1>2, <2>1, AppendProperties
  <2>3. DOMAIN ChildScopes(p) = 1 .. L + 1
    BY <2>2, LenProperties
  <2>z. p \notin DOMAIN acts => L = 0
    BY <1>2
  <2> HIDE DEF L
  <2>4. p \in DOMAIN acts => DOMAIN acts[p].scopes = 1 .. L /\ \A k \in 1 .. L : s[k] = acts[p].scopes[k]
    BY <1>2, <1>3
  <2> HIDE DEF s
  <2>5. L + 1 \in 1 .. L + 1 /\ \A m \in 1 .. L + 1 : m <= L + 1
    BY <1>3
  <2> QED
    BY <1>3, <1>5, <2>2, <2>3, <2>4, <2>5, <2>z
<1> QED
  BY <1>4, <1>5

\* What a visit enables at a join, or on the way to one, is within the join's
\* fork: the visit was, or is the fork itself.
LEMMA ChildWithin ==
    ASSUME TypeOK, ExecutableGraph(graph), Paired(acts),
           NEW p \in DOMAIN acts \cup {<<>>}, NEW w \in After(graph, NodeAt(p)),
           NEW J \in JoinNodes(graph), w = J \/ (w # graph.join[J] /\ Ahead(graph, w, J))
    PROVE  Within(ChildScopes(p), J)
<1> DEFINE v == NodeAt(p)
           f == graph.join[J]
           s == ChildScopes(p)
<1>1. IsFiniteSet(graph.edges)
  BY GraphsAssumption DEF TypeOK
<1>2. w # f
  BY JoinFacts
<1>3. Ahead(graph, v, J)
  <2>1. w \in ReachableFrom(graph, After(graph, v), {f})
    BY <1>1, <1>2, ReachabilityIsLeast
  <2>2. CASE w = J
    BY <2>1, <2>2 DEF Ahead
  <2>3. CASE Ahead(graph, w, J)
    <3>1. ReachableFrom(graph, After(graph, w), {f}) \subseteq ReachableFrom(graph, After(graph, v), {f})
      BY <1>1, <2>1, ReachesOn
    <3> QED BY <2>3, <3>1 DEF Ahead
  <2> QED BY <2>2, <2>3
<1>4. /\ DOMAIN s \subseteq Nat
      /\ p \in DOMAIN acts => \A k \in DOMAIN acts[p].scopes :
            k \in DOMAIN s /\ s[k] = acts[p].scopes[k]
      /\ IsFork(graph, v) => \E k \in DOMAIN s : s[k] = p /\ \A m \in DOMAIN s : m <= k
  BY ChildScopesKept
<1>5. \A k \in DOMAIN s :
        \/ p \in DOMAIN acts /\ k \in DOMAIN acts[p].scopes /\ s[k] = acts[p].scopes[k]
        \/ IsFork(graph, v) /\ s[k] = p
  BY ChildScopesKept
<1> HIDE DEF s
<1>6. ASSUME v = f PROVE Within(s, J)
  <2>1. IsFork(graph, v)
    BY <1>6, JoinFacts
  <2>2. PICK k \in DOMAIN s : s[k] = p /\ \A m \in DOMAIN s : m <= k
    BY <1>4, <2>1
  <2>3. ForkIn(s, k, J)
    BY <1>6, <2>2 DEF ForkIn
  <2>4. ASSUME NEW H \in JoinNodes(graph), Ahead(graph, J, H),
               NEW l \in DOMAIN s, ForkIn(s, l, H)
        PROVE  k > l
    <3>1. l # k
      <4> SUFFICES ASSUME l = k PROVE FALSE
        OBVIOUS
      <4>1. graph.join[H] = f
        BY <1>6, <2>2, <2>4 DEF ForkIn
      <4>2. H = J
        BY <4>1, JoinFacts
      <4> QED BY <2>4, <4>2, JoinFacts
    <3> QED BY <1>4, <2>2, <3>1
  <2> QED
    BY <2>3, <2>4 DEF Within
<1>7. ASSUME v # f PROVE Within(s, J)
  <2>1. p \in DOMAIN acts
    <3>1. p = <<>> => v = Start
      BY DEF NodeAt
    <3> QED
      BY <1>1, <1>3, <1>7, <3>1, ForkFirst
  <2>2. Within(acts[p].scopes, J)
    BY <1>3, <1>7, <2>1 DEF Paired, Expects
  <2>3. \E k \in DOMAIN s : ForkIn(s, k, J)
    BY <1>4, <2>1, <2>2 DEF Within, ForkIn
  <2>4. ASSUME NEW H \in JoinNodes(graph), Ahead(graph, J, H), graph.join[H] # J,
               NEW l \in DOMAIN s, ForkIn(s, l, H)
        PROVE  \E m \in DOMAIN s : m > l /\ ForkIn(s, m, J)
    <3>1. v # graph.join[H]
      BY <1>1, <1>3, <2>4, OuterForkFirst
    <3>2. l \in DOMAIN acts[p].scopes /\ s[l] = acts[p].scopes[l]
      BY <1>5, <2>4, <3>1 DEF ForkIn
    <3>3. ForkIn(acts[p].scopes, l, H)
      BY <2>4, <3>2 DEF ForkIn
    <3>4. PICK m \in DOMAIN acts[p].scopes : m > l /\ ForkIn(acts[p].scopes, m, J)
      BY <2>2, <2>4, <3>2, <3>3 DEF Within
    <3> QED
      BY <1>4, <2>1, <3>4 DEF ForkIn
  <2> QED
    BY <2>3, <2>4 DEF Within
<1> QED
  BY <1>6, <1>7 DEF s

\* Children sit one edge after their parent.
LEMMA ChildAfter ==
    ASSUME TypeOK, NEW P, P \subseteq Paths, NEW out, NEW c \in Children(P, out)
    PROVE  /\ Parent(c) \in P
           /\ NodeAt(c) \in After(graph, NodeAt(Parent(c)))
           /\ NodeAt(c) \in graph.agents
<1>0. PICK p \in P : c \in {Append(p, e) : e \in ChildEdges(p, out[p])}
  BY DEF Children
<1>1. PICK e \in ChildEdges(p, out[p]) : c = Append(p, e)
  BY <1>0
<1>2. e \in graph.edges /\ e \in OutEdges(graph, NodeAt(p)) /\ e.dst \in graph.agents
  BY DEF ChildEdges, Selected, OutEdges
<1>3. c # <<>> /\ Parent(c) = p
  BY <1>1, <1>2, AppendPath
<1>4. c[Len(c)] = e
  <2>1. Len(c) = Len(p) + 1 /\ c[Len(p) + 1] = e
    BY <1>1, <1>2, AppendProperties DEF Paths
  <2> QED BY <2>1
<1>5. NodeAt(c) = e.dst
  BY <1>3, <1>4 DEF NodeAt
<1> QED
  BY <1>2, <1>3, <1>5 DEF After

\* A child is before the join of a fork if its parent is, or is the fork itself,
\* and where its parent is past it the child is, or arrives.
LEMMA ChildInside ==
    ASSUME TypeOK, ExecutableGraph(graph), Inside(acts),
           NEW p \in DOMAIN acts \cup {<<>>},
           p # <<>> => ~Settled(acts[p].status) /\ acts[p].status # "waiting_join",
           NEW w \in After(graph, NodeAt(p)), NEW r, r.scopes = ChildScopes(p),
           w \in JoinNodes(graph) => r.status = "waiting_join"
    PROVE  NotPast(w, r) /\ NotReforked(w, r)
<1> DEFINE v == NodeAt(p)
           s == ChildScopes(p)
           Re(F, X) == ReachableFrom(graph, F, X)
<1>1. IsFiniteSet(graph.edges) /\ <<>> \notin DOMAIN acts
  BY GraphsAssumption DEF TypeOK
<1>2. /\ DOMAIN s \subseteq Nat
      /\ p \in DOMAIN acts => \A k \in DOMAIN acts[p].scopes :
            k \in DOMAIN s /\ s[k] = acts[p].scopes[k]
      /\ IsFork(graph, v) => \E k \in DOMAIN s : s[k] = p /\ \A m \in DOMAIN s : m <= k
  BY ChildScopesKept
<1> DEFINE Old(k) == p \in DOMAIN acts /\ k \in DOMAIN acts[p].scopes
           New(k) == s[k] = p /\ \A m \in DOMAIN s : m <= k
<1>3. \A k \in DOMAIN s : Old(k) \/ New(k)
  BY ChildScopesKept
<1>4. p \in DOMAIN acts => /\ NotPast(v, acts[p]) /\ NotReforked(v, acts[p])
                           /\ acts[p].status # "waiting_join"
  BY <1>1 DEF Inside
<1>r. \A F, X : /\ F \ X \subseteq Re(F, X)
                /\ \A u \in Re(F, X) : After(graph, u) \ X \subseteq Re(F, X)
  BY <1>1, ReachabilityIsLeast
<1> HIDE DEF Re
<1>s. r.scopes = s
  OBVIOUS
<1> HIDE DEF s
<1>5. ASSUME NEW J \in JoinNodes(graph), NEW k \in DOMAIN s, Unrepeated(J), ForkIn(s, k, J)
      PROVE  /\ \/ w \in Re(After(graph, graph.join[J]), {J})
                \/ w = J /\ r.status = "waiting_join"
             /\ \A m \in DOMAIN s : ForkIn(s, m, J) => m = k
  <2> DEFINE f == graph.join[J]
             F == Re(After(graph, f), {J})
  <2>f. f \notin F
    BY <1>5 DEF Unrepeated, Re
  <2>1. ASSUME NEW m \in DOMAIN s, ForkIn(s, m, J), Old(m)
        PROVE  /\ v \in F
               /\ \A l \in DOMAIN acts[p].scopes : ForkIn(acts[p].scopes, l, J) => l = m
    <3>1. ForkIn(acts[p].scopes, m, J)
      BY <1>2, <2>1 DEF ForkIn
    <3> QED
      BY <1>4, <1>5, <2>1, <3>1 DEF NotPast, Re
  <2>2. ASSUME NEW m \in DOMAIN s, ForkIn(s, m, J), New(m)
        PROVE  v = f
    BY <2>2 DEF ForkIn
  <2>3. After(graph, v) \ {J} \subseteq F
    <3> HIDE DEF Old, New
    <3>1. CASE v \in F
      BY <3>1, <1>r
    <3>2. CASE v = f
      BY <3>2, <1>r
    <3> QED
      BY <1>3, <1>5, <2>1, <2>2, <3>1, <3>2
  <2>4. ASSUME NEW m \in DOMAIN s, ForkIn(s, m, J)
        PROVE  m = k
    <3>1. CASE Old(m) /\ Old(k)
      <4>1. ForkIn(acts[p].scopes, m, J)
        BY <1>2, <2>4, <3>1 DEF ForkIn
      <4> QED BY <1>5, <2>1, <3>1, <4>1
    <3>2. CASE New(m) /\ New(k)
      BY <1>2, <3>2
    <3> HIDE DEF Old, New, F, f
    <3> QED
      BY <1>3, <1>5, <2>f, <2>1, <2>2, <2>4, <3>1, <3>2
  <2> QED
    BY <2>3, <2>4
<1>6. ASSUME NEW J \in JoinNodes(graph), NEW k \in DOMAIN s, w # graph.join[J],
             \A m \in DOMAIN s : m > k => ~ForkIn(s, m, J)
      PROVE  \/ w \in Re(After(graph, NodeAt(s[k])), {graph.join[J]})
             \/ w \in Re(After(graph, J), {graph.join[J]})
  <2> DEFINE f == graph.join[J]
  <2>1. CASE NodeAt(s[k]) = v
    BY <1>6, <1>r, <2>1
  <2>2. CASE NodeAt(s[k]) # v
    <3>1. Old(k)
      BY <1>3, <2>2
    <3>2. v # f
      <4> SUFFICES ASSUME v = f PROVE FALSE
        OBVIOUS
      <4>1. PICK l \in DOMAIN s : s[l] = p /\ \A m \in DOMAIN s : m <= l
        BY <1>2, JoinFacts
      <4>2. ForkIn(s, l, J) /\ l # k
        BY <2>2, <4>1 DEF ForkIn
      <4>3. l > k
        BY <1>2, <4>1, <4>2
      <4> QED BY <1>6, <4>2, <4>3
    <3>3. \A m \in DOMAIN acts[p].scopes : m > k => ~ForkIn(acts[p].scopes, m, J)
      BY <1>2, <1>6, <3>1 DEF ForkIn
    <3>4. s[k] = acts[p].scopes[k]
      BY <1>2, <3>1
    <3>5. \/ v \in Re(After(graph, NodeAt(s[k])), {f})
          \/ v \in Re(After(graph, J), {f})
          \/ v = J
      BY <1>4, <3>1, <3>2, <3>3, <3>4 DEF NotReforked, Re
    <3> QED
      BY <1>6, <1>r, <3>5
  <2> QED
    BY <2>1, <2>2
<1>7. NotPast(w, r)
  BY <1>5, <1>s DEF NotPast, Re
<1>8. NotReforked(w, r)
  BY <1>6, <1>s DEF NotReforked, Re
<1> QED
  BY <1>7, <1>8

\* So enabling successors keeps every visit within the forks it needs.
LEMMA PairedEnabled ==
    ASSUME TypeOK, Paired(acts),
           NEW P, P \subseteq DOMAIN acts \cup {<<>>}, IsFiniteSet(P), NEW out,
           P # {} => ExecutableGraph(graph)
    PROVE  Paired(EnabledActs(P, out))
<1> DEFINE E == EnabledActs(P, out)
           C == Children(P, out)
<1>1. DOMAIN E = DOMAIN acts \cup C
  BY DEF EnabledActs
<1>2. ASSUME NEW i \in DOMAIN acts
      PROVE  /\ E[i].scopes = acts[i].scopes
             /\ E[i].status = "waiting_join" => acts[i].status = "waiting_join"
  <2>1. acts[i] \in Activations
    BY DEF TypeOK
  <2>2. CASE i \in P
    <3>1. E[i] = [Bumped(acts[i]) EXCEPT !.status = "succeeded"]
      BY <2>2 DEF EnabledActs
    <3> HIDE DEF E
    <3>2. E[i].scopes = acts[i].scopes /\ E[i].status = "succeeded"
      BY <2>1, <3>1 DEF Bumped, Activations
    <3> QED
      BY <3>2
  <2>3. CASE i \notin P
    BY <2>3 DEF EnabledActs
  <2> QED
    BY <2>2, <2>3
<1>3. P \subseteq Paths /\ <<>> \notin DOMAIN acts
  BY EmptySeq DEF TypeOK, Paths
<1>4. \A c \in C : Parent(c) \in P /\ NodeAt(c) \in After(graph, NodeAt(Parent(c))) /\ c # <<>>
  BY <1>3, ChildAfter, ChildrenType
<1>5. ASSUME NEW c \in C \ DOMAIN acts
      PROVE  E[c].scopes = ChildScopes(Parent(c))
  <2>1. c \notin P
    BY <1>4, <1>5
  <2>2. E[c] = NewActivation(c)
    BY <2>1 DEF EnabledActs
  <2> HIDE DEF E
  <2> QED
    BY <2>2 DEF NewActivation
<1> HIDE DEF E, C
<1> SUFFICES ASSUME NEW i \in DOMAIN E, NEW J \in JoinNodes(graph), Expects(E, i, J)
             PROVE  Within(E[i].scopes, J)
  BY DEF Paired, E
<1>6. CASE i \in DOMAIN acts
  BY <1>2, <1>6 DEF Paired, Expects
<1>7. CASE i \notin DOMAIN acts
  <2>1. ExecutableGraph(graph) /\ i \in C /\ Parent(i) \in DOMAIN acts \cup {<<>>} /\ NodeAt(i) \in After(graph, NodeAt(Parent(i)))
    BY <1>1, <1>4, <1>7
  <2>2. NodeAt(i) = J \/ (NodeAt(i) # graph.join[J] /\ Ahead(graph, NodeAt(i), J))
    BY DEF Expects
  <2>3. Within(ChildScopes(Parent(i)), J)
    BY <2>1, <2>2, ChildWithin
  <2> QED
    BY <1>5, <1>7, <2>1, <2>3
<1> QED
  BY <1>6, <1>7

\* No visit in P waits at a join.
NoneWaits(P) == \A p \in P : p # <<>> => acts[p].status # "waiting_join"

\* What a visit that is not waiting enables stays before the joins of its
\* forks, as it was.
LEMMA InsideEnabled ==
    ASSUME TypeOK, Regular, Inside(acts),
           NEW P, P \subseteq DOMAIN acts \cup {<<>>}, IsFiniteSet(P), NEW out,
           \A p \in P : p # <<>> => ~Settled(acts[p].status),
           NoneWaits(P)
    PROVE  Inside(EnabledActs(P, out))
<1> DEFINE E == EnabledActs(P, out)
           C == Children(P, out)
<1>1. DOMAIN E = DOMAIN acts \cup C
  BY DEF EnabledActs
<1>2. P \subseteq Paths /\ <<>> \notin DOMAIN acts
  BY EmptySeq DEF TypeOK, Paths
<1>3. \A c \in C : /\ Parent(c) \in P /\ NodeAt(c) \in After(graph, NodeAt(Parent(c)))
                   /\ c # <<>>
  BY <1>2, ChildAfter, ChildrenType
<1>4. ASSUME NEW i \in DOMAIN acts, i \in P PROVE E[i].status = "succeeded"
  <2>1. acts[i] \in Activations
    BY DEF TypeOK
  <2>2. E[i] = [Bumped(acts[i]) EXCEPT !.status = "succeeded"]
    BY <1>4 DEF EnabledActs
  <2> HIDE DEF E
  <2> QED
    BY <2>1, <2>2 DEF Bumped, Activations
<1>5. ASSUME NEW i \in DOMAIN acts, i \notin P PROVE E[i] = acts[i]
  BY <1>5 DEF EnabledActs
<1>6. ASSUME NEW c \in C \ DOMAIN acts
      PROVE  /\ E[c].scopes = ChildScopes(Parent(c))
             /\ NodeAt(c) \in JoinNodes(graph) => E[c].status = "waiting_join"
  <2>1. c \notin P
    BY <1>3, <1>6
  <2>2. E[c] = NewActivation(c)
    BY <2>1 DEF EnabledActs
  <2> HIDE DEF E
  <2> QED
    BY <2>2 DEF NewActivation, JoinNodes
<1> HIDE DEF E, C
<1> SUFFICES ASSUME NEW i \in DOMAIN E, ~Settled(E[i].status)
             PROVE  NotPast(NodeAt(i), E[i]) /\ NotReforked(NodeAt(i), E[i])
  BY DEF Inside, E
<1>7. CASE i \in DOMAIN acts
  <2>1. i \notin P
    BY <1>4, <1>7 DEF Settled
  <2> QED
    BY <1>5, <1>7, <2>1 DEF Inside
<1>8. CASE i \notin DOMAIN acts
  <2>1. i \in C \ DOMAIN acts /\ Parent(i) \in P
    BY <1>1, <1>3, <1>8
  <2>2. Parent(i) \in DOMAIN acts \cup {<<>>} /\ NodeAt(i) \in After(graph, NodeAt(Parent(i)))
    BY <1>3, <2>1
  <2>3. ExecutableGraph(graph)
    BY DEF Regular
  <2>4. Parent(i) # <<>> =>
            ~Settled(acts[Parent(i)].status) /\ acts[Parent(i)].status # "waiting_join"
    BY <2>1 DEF NoneWaits
  <2> QED
    BY <1>6, <2>1, <2>2, <2>3, <2>4, ChildInside
<1> QED
  BY <1>7, <1>8

\* Successors of visits that could still move are members of open generations
\* only, and of the generation their parent opens.
LEMMA JoinedEnabled ==
    ASSUME TypeOK, NEW P, P \subseteq DOMAIN acts \cup {<<>>}, IsFiniteSet(P), NEW out,
           \A p \in P : p # <<>> => ~Settled(acts[p].status),
           NoneWaits(P),
           NEW O, NEW K, Joined(acts, O, K), <<>> \in P => <<>> \notin K,
           ~InvalidJoin(P, out), P # {} => ExecutableGraph(graph)
    PROVE  Joined(EnabledActs(P, out), O \cup NewGenerations(P), K)
<1> DEFINE E == EnabledActs(P, out)
           C == Children(P, out)
           N == NewGenerations(P)
<1>1. /\ DOMAIN E = DOMAIN acts \cup C
      /\ ActsTyped(E)
      /\ \A i \in DOMAIN acts :
            /\ i \notin P => E[i] = acts[i]
            /\ i \in P => E[i].status = "succeeded"
      /\ <<>> \notin DOMAIN E
  <2>1. /\ DOMAIN E = DOMAIN acts \cup C
        /\ ActsTyped(E)
        /\ \A i \in DOMAIN acts :
              /\ E[i].attemptsUsed = acts[i].attemptsUsed
              /\ i \notin P => E[i] = acts[i]
              /\ i \in P => E[i].status = "succeeded"
        /\ DOMAIN acts \cup C \subseteq Paths \ {<<>>}
    BY EnabledType
  <2> HIDE DEF E, C
  <2> QED
    BY <2>1
<1>2. \A c \in C : Parent(c) \in P
  <2>1. P \subseteq Paths
    BY EmptySeq DEF TypeOK, Paths
  <2> QED
    BY <2>1, ChildrenType
<1>3. ASSUME NEW i \in DOMAIN acts
      PROVE  /\ E[i].scopes = acts[i].scopes
             /\ acts[i].status = "succeeded" => E[i].status = "succeeded"
             /\ Settled(acts[i].status) => Settled(E[i].status)
             /\ E[i].status = "waiting_join" => acts[i].status = "waiting_join"
  <2>1. acts[i] \in Activations
    BY DEF TypeOK
  <2>2. CASE i \in P
    <3>1. E[i] = [Bumped(acts[i]) EXCEPT !.status = "succeeded"]
      BY <2>2 DEF EnabledActs
    <3> HIDE DEF E
    <3>2. E[i].scopes = acts[i].scopes /\ E[i].status = "succeeded"
      BY <2>1, <3>1 DEF Bumped, Activations
    <3> QED
      BY <3>2 DEF Settled
  <2>3. CASE i \notin P
    <3> HIDE DEF E
    <3> QED BY <1>1, <2>3
  <2> QED
    BY <2>2, <2>3
<1>4. ASSUME NEW c \in C \ DOMAIN acts
      PROVE  /\ E[c].scopes = ChildScopes(Parent(c))
             /\ E[c].status = "waiting_join" => NodeAt(c) \in JoinNodes(graph)
  <2>1. E[c] = NewActivation(c)
    <3>1. c # <<>>
      <4> HIDE DEF E, C
      <4> QED BY <1>1
    <3> QED
      BY <3>1 DEF EnabledActs
  <2> HIDE DEF E
  <2>2. E[c].scopes = ChildScopes(Parent(c))
    BY <2>1 DEF NewActivation
  <2>3. E[c].status = IF graph.join[NodeAt(c)] = NoFork THEN "ready" ELSE "waiting_join"
    BY <2>1 DEF NewActivation
  <2>4. NodeAt(c) \in graph.agents
    <3>1. P \subseteq Paths
      BY EmptySeq DEF TypeOK, Paths
    <3> QED BY <3>1, ChildAfter
  <2> QED
    BY <2>2, <2>3, <2>4 DEF JoinNodes
<1>5. \A p \in P : p # <<>> => p \in DOMAIN E /\ E[p].status = "succeeded"
  BY <1>1
<1>6. \A p \in P : p \notin K /\ (IsFork(graph, NodeAt(p)) => p \in N)
  <2>1. \A p \in P : p # <<>> => acts[p].status # "succeeded"
    BY DEF Settled
  <2> QED
    BY <2>1 DEF Joined, Forked, NewGenerations
<1>7. N \subseteq P
  BY DEF NewGenerations
<1> HIDE DEF E, C, N
<1>8. Nesting(E)
  <2> SUFFICES ASSUME NEW i \in DOMAIN E, NEW k \in DOMAIN E[i].scopes
               PROVE  Encloses(E, E[i].scopes[k], i, k)
    BY DEF Nesting
  <2>1. ASSUME NEW j \in DOMAIN acts, NEW g, k \in DOMAIN acts[j].scopes,
               g = acts[j].scopes[k], E[i].scopes[k] = g,
               \A n \in 1 .. k : E[i].scopes[n] = acts[j].scopes[n]
        PROVE  Encloses(E, g, i, k)
    <3>1. Encloses(acts, g, j, k)
      BY <2>1 DEF Joined, Nesting
    <3>2. k \in Nat
      BY ScopesIndexed, <1>1
    <3> QED
      BY <1>1, <1>3, <2>1, <3>1, <3>2 DEF Encloses
  <2>2. CASE i \in DOMAIN acts
    BY <1>3, <2>1, <2>2
  <2>3. CASE i \notin DOMAIN acts
    <3> DEFINE p == Parent(i)
    <3>1. p \in P /\ E[i].scopes = ChildScopes(p) /\ p \in DOMAIN acts \cup {<<>>}
      BY <1>1, <1>2, <1>4, <2>3
    <3> HIDE DEF p
    <3>2. k \in Nat \ {0}
      BY ScopesIndexed, <1>1
    <3>3. CASE /\ p \in DOMAIN acts
               /\ k \in DOMAIN acts[p].scopes
               /\ \A n \in 1 .. k : ChildScopes(p)[n] = acts[p].scopes[n]
      BY <2>1, <3>1, <3>2, <3>3
    <3>4. CASE /\ ChildScopes(p)[k] = p
               /\ p = <<>> => k = 1
               /\ p # <<>> => /\ p \in DOMAIN acts
                              /\ Len(acts[p].scopes) = k - 1
                              /\ \A n \in 1 .. k - 1 : ChildScopes(p)[n] = acts[p].scopes[n]
      BY <1>3, <1>5, <3>1, <3>4 DEF Encloses
    <3> QED
      BY <3>1, <3>3, <3>4, ChildScopesIndexed
  <2> QED
    BY <2>2, <2>3
<1>9. ASSUME NEW c \in DOMAIN E \ DOMAIN acts, NEW k \in DOMAIN E[c].scopes
      PROVE  E[c].scopes[k] \in O \cup N \cup K /\ E[c].scopes[k] \notin K
  <2> DEFINE p == Parent(c)
  <2>1. p \in P /\ E[c].scopes = ChildScopes(p) /\ p \in DOMAIN acts \cup {<<>>}
    BY <1>1, <1>2, <1>4
  <2> HIDE DEF p
  <2>2. k \in Nat \ {0}
    BY ScopesIndexed, <1>1
  <2>3. CASE /\ p \in DOMAIN acts
             /\ k \in DOMAIN acts[p].scopes
             /\ \A n \in 1 .. k : ChildScopes(p)[n] = acts[p].scopes[n]
    <3>1. E[c].scopes[k] = acts[p].scopes[k]
      BY <2>1, <2>2, <2>3
    <3>2. ~Settled(acts[p].status)
      BY <2>1, <2>3, <1>1
    <3> QED
      BY <2>3, <3>1, <3>2 DEF Joined, ScopesIn, Consumed
  <2>4. CASE IsFork(graph, NodeAt(p)) /\ ChildScopes(p)[k] = p
    BY <1>6, <2>1, <2>4
  <2> QED
    BY <2>1, <2>3, <2>4, ChildScopesIndexed
<1>10. ScopesIn(E, O \cup N \cup K)
  <2>1. \A i \in DOMAIN acts : \A k \in DOMAIN acts[i].scopes :
          acts[i].scopes[k] \in O \cup N \cup K
    BY DEF Joined, ScopesIn
  <2> QED
    BY <1>3, <1>9, <2>1 DEF ScopesIn
<1>11. Forked(E, O \cup N \cup K)
  <2>1. \A g \in O \cup K : g # <<>> => g \in DOMAIN E /\ E[g].status = "succeeded"
    BY <1>1, <1>3 DEF Joined, Forked
  <2> QED
    BY <1>5, <1>7, <2>1 DEF Forked
<1>12. Consumed(E, K)
  <2>1. \A i \in DOMAIN acts : \A k \in DOMAIN acts[i].scopes :
          acts[i].scopes[k] \in K => Settled(acts[i].status)
    BY DEF Joined, Consumed
  <2> QED
    BY <1>3, <1>9, <2>1 DEF Consumed
<1>13. Scoped(E)
  <2> SUFFICES ASSUME NEW i \in DOMAIN E, E[i].status = "waiting_join"
               PROVE  \E k \in DOMAIN E[i].scopes : IsOwnScope(E, i, k)
    BY DEF Scoped
  <2>1. CASE i \in DOMAIN acts
    BY <1>3, <2>1 DEF Joined, Scoped, IsOwnScope
  <2>2. CASE i \notin DOMAIN acts
    <3>1. i \in C /\ NodeAt(i) \in JoinNodes(graph) /\ E[i].scopes = ChildScopes(Parent(i))
      BY <1>1, <1>4, <2>2
    <3>2. PICK k \in DOMAIN E[i].scopes : NodeAt(E[i].scopes[k]) = graph.join[NodeAt(i)]
      BY <3>1 DEF InvalidJoin, C, JoinNodes
    <3> QED
      BY <1>1, <3>2, OwnScopeExists
  <2> QED
    BY <2>1, <2>2
<1>15. AtJoins(E) /\ Paired(E)
  <2>1. AtJoins(acts) /\ Paired(acts)
    BY DEF Joined
  <2>2. AtJoins(E)
    BY <1>1, <1>3, <1>4, <2>1 DEF AtJoins
  <2> QED
    BY <2>1, <2>2, PairedEnabled DEF E
<1>16. Regular => Inside(E)
  BY InsideEnabled DEF Joined, E
<1>14. (O \cup N) \cup K = O \cup N \cup K
  OBVIOUS
<1> QED
  BY <1>8, <1>10, <1>11, <1>12, <1>13, <1>14, <1>15, <1>16 DEF Joined, E, N

-----------------------------------------------------------------------------
(* What a command must do to its rows. *)

\* The graph is pinned: what the new rows satisfy, they satisfy afterwards.
LEMMA JoinedPrimed ==
    ASSUME graph' = graph
    PROVE  /\ Joined(acts, openGens, closedGens)' <=> Joined(acts', openGens', closedGens')
           /\ Closable(acts, openGens)' = Closable(acts', openGens')
<1>1. \A i, k : IsOwnScope(acts, i, k)' <=> IsOwnScope(acts', i, k)
  BY DEF IsOwnScope, NodeAt
<1>2. Scoped(acts)' <=> Scoped(acts')
  BY <1>1 DEF Scoped
<1>3. Joined(acts, openGens, closedGens)' <=> Joined(acts', openGens', closedGens')
  <2>1. AtJoins(acts)' <=> AtJoins(acts')
    BY DEF AtJoins, NodeAt
  <2>2. Paired(acts)' <=> Paired(acts')
    BY DEF Paired, Expects, Within, ForkIn, NodeAt
  <2>3. (Regular => Inside(acts))' <=> (Regular => Inside(acts'))
    BY DEF Regular, Inside, NotPast, NotReforked, Unrepeated, ForkIn, NodeAt
  <2> QED
    BY <1>2, <2>1, <2>2, <2>3 DEF Joined, Nesting, Encloses, ScopesIn, Forked, Consumed
<1>4. \A g : OwnArrivals(acts, g)' = OwnArrivals(acts', g)
  BY <1>1 DEF OwnArrivals, Members
<1>5. \A g : HasJoin(g)' <=> HasJoin(g)
  BY DEF HasJoin, NodeAt
<1>6. Closable(acts, openGens)' = Closable(acts', openGens')
  BY <1>4, <1>5 DEF Closable, Members
<1> QED
  BY <1>3, <1>6

\* A command that ends with a pass over the joins.
LEMMA JoinsSettled ==
    ASSUME graph' = graph, NEW A, ActsTyped(A), NEW O, NEW K, Joined(A, O, K),
           acts' = Reconciled(A, O), openGens' = O \ Closed(A, O),
           closedGens' = K \cup Closed(A, O)
    PROVE  JoinInv'
<1>1. Joined(acts', openGens', closedGens') /\ Closable(acts', openGens') = {}
  BY JoinedReconciled
<1> QED
  BY <1>1, JoinedPrimed DEF JoinInv, JoinsReconciled

\* A command that settles nothing makes no pass.
LEMMA JoinsKept ==
    ASSUME graph' = graph, JoinInv, Restated(acts, acts'),
           \A i \in DOMAIN acts : Settled(acts'[i].status) => Settled(acts[i].status),
           openGens' = openGens, closedGens' = closedGens,
           exec'.cancelRequested = exec.cancelRequested,
           goal = "canceled" => goal' = "canceled"
    PROVE  JoinInv'
<1>1. Joined(acts', openGens', closedGens')
  BY JoinedRestated DEF JoinInv
<1>2. ASSUME ~exec'.cancelRequested, goal' # "canceled"
      PROVE  Closable(acts', openGens') = {}
  <2>1. Closable(acts, openGens) = {}
    BY <1>2 DEF JoinInv, JoinsReconciled
  <2> QED
    BY <2>1, ClosableRestated
<1> QED
  BY <1>1, <1>2, JoinedPrimed DEF JoinInv, JoinsReconciled

LEMMA RestatedSelf ==
    Restated(acts, acts)
BY DEF Restated

LEMMA RestatedOne ==
    ASSUME NEW A, NEW i \in DOMAIN A, A[i].status = "running",
           NEW r, r.scopes = A[i].scopes, r.status # "waiting_join"
    PROVE  Restated(A, [A EXCEPT ![i] = r])
BY DEF Restated, Settled

\* Stopping work cancels what is waiting or unacknowledged and nothing settled.
LEMMA RestatedStopped ==
    ASSUME NEW A, ActsTyped(A), NEW T, \A i \in Unacknowledged(T) : A[i].status = "running"
    PROVE  Restated(A, StoppedActs(A, T))
<1> DEFINE B == StoppedActs(A, T)
<1>1. DOMAIN B = DOMAIN A
      /\ \A i \in DOMAIN A :
            B[i] = IF A[i].status \in {"ready", "failed", "blocked", "waiting_join"}
                   THEN [Bumped(A[i]) EXCEPT !.status = "canceled"]
                   ELSE IF i \in Unacknowledged(T)
                   THEN [A[i] EXCEPT !.status = "canceled"] ELSE A[i]
  <2>1. \A i : i \in Unacknowledged(T) <=>
            \E b \in DOMAIN T : b[1] = i /\ ~Terminal(T[b].status) /\ ~NeedsAcknowledgement(T[b])
    BY DEF Unacknowledged
  <2> QED
    BY <2>1 DEF StoppedActs
<1>2. ASSUME NEW i \in DOMAIN A
      PROVE  /\ [Bumped(A[i]) EXCEPT !.status = "canceled"].status = "canceled"
             /\ [Bumped(A[i]) EXCEPT !.status = "canceled"].scopes = A[i].scopes
             /\ [A[i] EXCEPT !.status = "canceled"].status = "canceled"
             /\ [A[i] EXCEPT !.status = "canceled"].scopes = A[i].scopes
  <2>1. A[i] \in Activations
    BY DEF ActsTyped
  <2> QED
    BY <2>1 DEF Bumped, Activations
<1> HIDE DEF B
<1>3. ASSUME NEW i \in DOMAIN A
      PROVE  /\ B[i].scopes = A[i].scopes
             /\ A[i].status = "succeeded" => B[i].status = "succeeded"
             /\ Settled(A[i].status) => Settled(B[i].status)
             /\ B[i].status = "waiting_join" => A[i].status = "waiting_join"
             /\ A[i].status = "waiting_join" =>
                   B[i].status = "waiting_join" \/ Settled(B[i].status)
  <2>1. CASE B[i].status = "canceled" /\ B[i].scopes = A[i].scopes /\ ~(A[i].status = "succeeded")
    BY <2>1 DEF Settled
  <2>2. CASE B[i] = A[i]
    BY <2>2
  <2> QED
    BY <1>1, <1>2, <2>1, <2>2
<1> QED
  BY <1>1, <1>3 DEF Restated, B

-----------------------------------------------------------------------------
(* The commands. *)

\* An attempt that stays unfinished moves nothing.
LEMMA JoinsUntouched ==
    ASSUME IInv, JoinInv, UNCHANGED <<graph, goal, exec, acts, openGens, closedGens>>
    PROVE  JoinInv'
BY RestatedSelf, JoinsKept

LEMMA RowRestated ==
    ASSUME NEW r \in Activations, NEW st \in ActStatus
    PROVE  /\ [Bumped(r) EXCEPT !.status = st] \in Activations
           /\ [Bumped(r) EXCEPT !.status = st].status = st
           /\ [Bumped(r) EXCEPT !.status = st].scopes = r.scopes
<1>1. Bumped(r) \in Activations /\ Bumped(r).scopes = r.scopes
  BY RowUpdates
<1>2. ASSUME NEW q \in Activations PROVE [q EXCEPT !.status = st].scopes = q.scopes
  BY DEF Activations
<1> QED
  BY <1>1, <1>2, RowUpdates

\* A success enables the successors or blocks the visit.
LEMMA SucceedJoins ==
    ASSUME IInv, JoinInv, Validated, NEW a \in DOMAIN attempts, ~Terminal(attempts[a].status),
           NEW r, NEW o \in Results, Succeed(a, r, o)
    PROVE  JoinInv'
<1> DEFINE i == a[1]
           P == {i}
           out == [p \in {i} |-> o]
<1>1. /\ i \in DOMAIN acts /\ acts[i].status = "running" /\ i # <<>>
      /\ acts[i] \in Activations /\ TypeOK /\ graph' = graph
      /\ Joined(acts, openGens, closedGens) /\ ActsTyped(acts)
  BY LiveRunning DEF IInv, TypeOK, Succeed, JoinInv, ActsTyped
<1>2. CASE /\ ~InvalidJoin(P, out)
           /\ SettleGoal(EnabledActs(P, out), openGens \cup NewGenerations(P), FALSE)
  <2>1. P \subseteq DOMAIN acts \cup {<<>>} /\ IsFiniteSet(P) /\ <<>> \notin P
        /\ (\A p \in P : p # <<>> => ~Settled(acts[p].status)) /\ NoneWaits(P)
    BY <1>1, FS_Singleton DEF Settled, NoneWaits
  <2>v. ExecutableGraph(graph)
    BY <1>1 DEF Validated
  <2> HIDE DEF P, out
  <2>2. Joined(EnabledActs(P, out), openGens \cup NewGenerations(P), closedGens)
    BY <1>1, <1>2, <2>v, <2>1, JoinedEnabled
  <2>3. ActsTyped(EnabledActs(P, out))
    BY <1>1, <2>1, EnabledType
  <2> QED
    BY <1>1, <1>2, <2>2, <2>3, JoinsSettled DEF SettleGoal
<1>3. CASE SettleGoal([acts EXCEPT ![i] = BudgetBlocked(@, o)], openGens, FALSE)
  <2> DEFINE q == BudgetBlocked(acts[i], o)
             A == [acts EXCEPT ![i] = q]
  <2>1. q \in Activations /\ q.status = "blocked" /\ q.scopes = acts[i].scopes
    <3>1. Bumped(acts[i]) \in Activations /\ Bumped(acts[i]).scopes = acts[i].scopes
      BY <1>1, RowUpdates DEF ActStatus
    <3> QED
      BY <3>1 DEF BudgetBlocked, Activations, ActStatus
  <2>2. SettleGoal(A, openGens, FALSE)
    BY <1>3
  <2> HIDE DEF q
  <2>3. Restated(acts, A)
    BY <1>1, <2>1, RestatedOne
  <2>4. Joined(A, openGens, closedGens)
    BY <1>1, <2>3, JoinedRestated
  <2>5. acts' = Reconciled(A, openGens) /\ openGens' = openGens \ Closed(A, openGens)
        /\ closedGens' = closedGens \cup Closed(A, openGens)
    BY <2>2 DEF SettleGoal
  <2>6. ActsTyped(A)
    BY <1>1, <2>1 DEF ActsTyped
  <2> QED
    BY <1>1, <2>4, <2>5, <2>6, JoinsSettled
<1> QED
  BY <1>2, <1>3 DEF Succeed, Route

\* A failure leaves the visit for a retry.
LEMMA FailJoins ==
    ASSUME IInv, JoinInv, NEW a \in DOMAIN attempts, ~Terminal(attempts[a].status),
           NEW r, Fail(a, r)
    PROVE  JoinInv'
<1> DEFINE i == a[1]
           q == [Bumped(acts[i]) EXCEPT !.status = "failed"]
           A == [acts EXCEPT ![i] = q]
<1>1. /\ i \in DOMAIN acts /\ acts[i].status = "running"
      /\ acts[i] \in Activations /\ graph' = graph
      /\ Joined(acts, openGens, closedGens) /\ ActsTyped(acts)
  BY LiveRunning DEF IInv, TypeOK, Fail, JoinInv, ActsTyped
<1>2. q \in Activations /\ q.status = "failed" /\ q.scopes = acts[i].scopes
  BY <1>1, RowRestated DEF ActStatus
<1>3. acts' = Reconciled(A, openGens) /\ openGens' = openGens \ Closed(A, openGens)
      /\ closedGens' = closedGens \cup Closed(A, openGens)
  BY DEF Fail, SettleGoal
<1> HIDE DEF q
<1>4. Restated(acts, A)
  BY <1>1, <1>2, RestatedOne
<1>5. Joined(A, openGens, closedGens) /\ ActsTyped(A)
  BY <1>1, <1>2, <1>4, JoinedRestated DEF ActsTyped
<1> QED
  BY <1>1, <1>3, <1>5, JoinsSettled

\* Cancellation closes what is left without members.
LEMMA CancelAttemptJoins ==
    ASSUME IInv, JoinInv, NEW a \in DOMAIN attempts, ~Terminal(attempts[a].status),
           CancelAttempt(a)
    PROVE  JoinInv'
<1> DEFINE i == a[1]
           q == [Bumped(acts[i]) EXCEPT !.status = "canceled"]
           A == [acts EXCEPT ![i] = q]
           T == [attempts EXCEPT ![a].status = "canceled"]
           B == IF ~exec.cancelRequested THEN StoppedActs(A, T) ELSE A
<1>1. /\ i \in DOMAIN acts /\ acts[i].status = "running"
      /\ acts[i] \in Activations /\ graph' = graph
      /\ Joined(acts, openGens, closedGens) /\ ActsTyped(acts)
      /\ attempts[a] \in Attempts
  BY LiveRunning DEF IInv, TypeOK, CancelAttempt, JoinInv, ActsTyped
<1>2. q \in Activations /\ q.status = "canceled" /\ q.scopes = acts[i].scopes
  BY <1>1, RowRestated DEF ActStatus
<1>3. SettleGoal(B, openGens, TRUE)
  BY DEF CancelAttempt
<1> HIDE DEF q
<1>4. Restated(acts, A)
  BY <1>1, <1>2, RestatedOne
<1>5. Joined(A, openGens, closedGens) /\ ActsTyped(A)
  BY <1>1, <1>2, <1>4, JoinedRestated DEF ActsTyped
<1>6. \A k \in Unacknowledged(T) : A[k].status = "running"
  <2> SUFFICES ASSUME NEW b \in DOMAIN T, ~Terminal(T[b].status)
               PROVE  A[b[1]].status = "running"
    BY DEF Unacknowledged
  <2>1. T[a].status = "canceled"
    BY <1>1 DEF Attempts
  <2>2. b # a /\ b \in DOMAIN attempts /\ T[b] = attempts[b]
    BY <2>1 DEF Terminal
  <2>3. b[1] # i /\ acts[b[1]].status = "running"
    BY <2>2, LiveRunning DEF IInv
  <2>4. b[1] \in DOMAIN acts
    BY <2>2, LiveRunning DEF IInv
  <2> QED
    BY <2>3, <2>4
<1> HIDE DEF A, T
<1>7. Joined(B, openGens, closedGens) /\ ActsTyped(B)
  <2>1. Restated(A, StoppedActs(A, T))
    BY <1>5, <1>6, RestatedStopped
  <2>2. ActsTyped(StoppedActs(A, T))
    <3>1. ASSUME NEW k \in DOMAIN A
          PROVE  /\ [Bumped(A[k]) EXCEPT !.status = "canceled"] \in Activations
                 /\ [A[k] EXCEPT !.status = "canceled"] \in Activations
                 /\ A[k] \in Activations
      <4>1. A[k] \in Activations /\ "canceled" \in ActStatus
        BY <1>5 DEF ActsTyped, ActStatus
      <4>2. Bumped(A[k]) \in Activations
        BY <4>1, RowUpdates
      <4> QED
        BY <4>1, <4>2, RowUpdates
    <3> QED
      BY <3>1 DEF StoppedActs, ActsTyped
  <2> QED
    BY <1>5, <2>1, <2>2, JoinedRestated
<1> HIDE DEF B
<1> QED
  BY <1>1, <1>3, <1>7, JoinsSettled DEF SettleGoal

\* Canceling the goal makes no pass, and asks for none: nothing that waits is
\* left, and outside a draft the cancellation stays recorded.
LEMMA CancelGoalJoins ==
    ASSUME IInv, JoinInv, CancelGoal
    PROVE  JoinInv'
<1>1. ActsTyped(acts) /\ graph' = graph /\ Joined(acts, openGens, closedGens)
  BY DEF IInv, TypeOK, ActsTyped, CancelGoal, JoinInv
<1>2. \A i \in Unacknowledged(attempts) : acts[i].status = "running"
  BY LiveRunning DEF IInv, Unacknowledged
<1>3. Restated(acts, acts')
  BY <1>1, <1>2, RestatedStopped DEF CancelGoal
<1>4. Joined(acts', openGens', closedGens')
  BY <1>1, <1>3, JoinedRestated DEF CancelGoal
<1>5. exec'.cancelRequested \/ goal' = "canceled"
  <2>1. CASE exec.used > 0
    BY <2>1 DEF CancelGoal, IInv, TypeOK
  <2>2. CASE exec.used = 0
    <3>1. DOMAIN acts = {}
      BY <2>2, FS_EmptySet DEF IInv, BudgetExact
    <3>2. DOMAIN attempts = {}
      BY <3>1 DEF IInv, TypeOK
    <3> QED
      BY <3>2 DEF CancelGoal, AwaitsAcknowledgement
  <2>3. exec.used \in Nat
    BY DEF IInv, TypeOK
  <2> QED
    BY <2>1, <2>2, <2>3
<1> QED
  BY <1>1, <1>4, <1>5, JoinedPrimed DEF JoinInv, JoinsReconciled

\* Dispatch starts a visit that is neither settled nor waiting.
LEMMA DispatchJoins ==
    ASSUME IInv, JoinInv, NEW i \in DOMAIN acts, DispatchRun(i)
    PROVE  JoinInv'
<1> DEFINE q == Dispatched(acts[i])
<1>1. /\ acts' = [acts EXCEPT ![i] = q]
      /\ acts[i].status \in {"ready", "failed"} /\ acts[i] \in Activations
      /\ goal # "canceled" /\ UNCHANGED <<graph, exec, openGens, closedGens>>
  BY DEF IInv, TypeOK, DispatchRun, Dispatchable
<1>2. q.status = "running" /\ q.scopes = acts[i].scopes
  <2>1. Bumped(acts[i]) \in Activations /\ Bumped(acts[i]).scopes = acts[i].scopes
    BY <1>1, RowUpdates DEF ActStatus
  <2> QED
    BY <2>1 DEF Dispatched, Activations
<1> HIDE DEF q
<1>3. Restated(acts, acts')
      /\ \A k \in DOMAIN acts : Settled(acts'[k].status) => Settled(acts[k].status)
  BY <1>1, <1>2 DEF Restated, Settled
<1> QED
  BY <1>1, <1>3, JoinsKept

\* The first activation fans out from the start node and settles what can
\* already join; a later one changes nothing.
LEMMA ActivateJoins ==
    ASSUME IInv, JoinInv, ActivateGoal
    PROVE  JoinInv'
<1> DEFINE P == {<<>>}
           out == [p \in {<<>>} |-> NoOutcome]
           A == EnabledActs(P, out)
           O == NewGenerations(P)
<1>1. graph' = graph /\ goal # "canceled" /\ TypeOK
  BY DEF IInv, ActivateGoal
<1>2. CASE /\ exec.used = 0
           /\ ~InvalidJoin(P, out)
           /\ acts' = Reconciled(A, O)
           /\ openGens' = O \ Closed(A, O)
           /\ closedGens' = Closed(A, O)
  <2>1. DOMAIN acts = {}
    BY <1>2, FS_EmptySet DEF IInv, BudgetExact
  <2>2. P \subseteq DOMAIN acts \cup {<<>>} /\ IsFiniteSet(P)
        /\ (\A p \in P : p # <<>> => ~Settled(acts[p].status)) /\ NoneWaits(P)
    BY FS_Singleton DEF NoneWaits
  <2>3. Joined(acts, {}, {})
    BY <2>1 DEF Joined, Nesting, ScopesIn, Forked, Consumed, Scoped, AtJoins, Paired,
           Inside
  <2> HIDE DEF P, out
  <2>v. ExecutableGraph(graph)
    BY DEF ActivateGoal
  <2>4. Joined(A, {} \cup O, {}) /\ ActsTyped(A)
    BY <1>1, <1>2, <2>v, <2>2, <2>3, JoinedEnabled, EnabledType
  <2>5. {} \cup O = O /\ {} \cup Closed(A, O) = Closed(A, O)
    OBVIOUS
  <2> HIDE DEF A, O
  <2> QED
    BY <1>1, <1>2, <2>4, <2>5, JoinsSettled
<1>3. CASE UNCHANGED <<exec, acts, openGens, closedGens>>
  BY <1>1, <1>3, RestatedSelf, JoinsKept
<1> QED
  BY <1>2, <1>3 DEF ActivateGoal

LEMMA RetryBudgetJoins ==
    ASSUME IInv, JoinInv, NEW n, SetRetryBudget(n)
    PROVE  JoinInv'
<1>1. /\ exec' = [exec EXCEPT !.maxAttempts = n]
      /\ UNCHANGED <<graph, goal, openGens, closedGens>>
      /\ DOMAIN acts' = DOMAIN acts
      /\ \A i \in DOMAIN acts :
            acts'[i] = IF Settled(acts[i].status) THEN acts[i]
                       ELSE [Bumped(acts[i]) EXCEPT !.maxAttempts = n]
  BY DEF SetRetryBudget
<1>2. ASSUME NEW i \in DOMAIN acts
      PROVE  acts'[i].status = acts[i].status /\ acts'[i].scopes = acts[i].scopes
  <2>1. acts[i] \in Activations
    BY DEF IInv, TypeOK
  <2>2. /\ Bumped(acts[i]) \in Activations
        /\ Bumped(acts[i]).status = acts[i].status
        /\ Bumped(acts[i]).scopes = acts[i].scopes
    BY <2>1, RowUpdates DEF ActStatus
  <2>3. /\ [Bumped(acts[i]) EXCEPT !.maxAttempts = n].status = acts[i].status
        /\ [Bumped(acts[i]) EXCEPT !.maxAttempts = n].scopes = acts[i].scopes
    BY <2>2 DEF Activations
  <2> QED
    BY <1>1, <2>3
<1>3. Restated(acts, acts')
  BY <1>1, <1>2 DEF Restated
<1>4. exec'.cancelRequested = exec.cancelRequested
  BY <1>1 DEF IInv, TypeOK
<1> QED
  BY <1>1, <1>2, <1>3, <1>4, JoinsKept

\* The replay of blocked results enables successors of visits that could still
\* move, like a completion.
LEMMA ActivationBudgetJoins ==
    ASSUME IInv, JoinInv, Validated, NEW n \in Nat, SetActivationBudget(n)
    PROVE  JoinInv'
<1> DEFINE out == [i \in BlockedActs |-> acts[i].pending]
           Unblocked(R) ==
              [i \in DOMAIN EnabledActs(R, out) |->
                  IF i \in BlockedActs \ R
                  THEN BudgetBlocked(EnabledActs(R, out)[i], EnabledActs(R, out)[i].pending)
                  ELSE EnabledActs(R, out)[i]]
<1>1. PICK R \in SUBSET BlockedActs :
        /\ ~InvalidJoin(R, out)
        /\ SettleGoal(Unblocked(R), openGens \cup NewGenerations(R), FALSE)
  BY DEF SetActivationBudget
<1> DEFINE E == EnabledActs(R, out)
           A == Unblocked(R)
           O == openGens \cup NewGenerations(R)
<1>2. /\ TypeOK /\ graph' = graph /\ IsFiniteSet(DOMAIN acts)
      /\ DOMAIN acts \subseteq Paths \ {<<>>}
      /\ Joined(acts, openGens, closedGens)
  BY DEF IInv, TypeOK, SetActivationBudget, JoinInv
<1>3. \A i \in BlockedActs : i \in DOMAIN acts /\ acts[i].status = "blocked" /\ i # <<>>
  BY <1>2 DEF BlockedActs
<1>4. R \subseteq DOMAIN acts \cup {<<>>} /\ IsFiniteSet(R) /\ <<>> \notin R
      /\ (\A p \in R : p # <<>> => ~Settled(acts[p].status)) /\ NoneWaits(R)
  BY <1>2, <1>3, FS_Subset DEF Settled, NoneWaits
<1>v. R # {} => ExecutableGraph(graph)
  BY <1>3 DEF Validated
<1> HIDE DEF out
<1>5. Joined(E, O, closedGens) /\ ActsTyped(E) /\ DOMAIN acts \subseteq DOMAIN E
  <2>1. Joined(E, O, closedGens)
    BY <1>1, <1>2, <1>v, <1>4, JoinedEnabled
  <2>2. ActsTyped(E) /\ DOMAIN E = DOMAIN acts \cup Children(R, out)
    BY <1>2, <1>4, EnabledType
  <2> QED
    BY <2>1, <2>2
<1>6. /\ DOMAIN A = DOMAIN E
      /\ \A i \in DOMAIN E :
            A[i] = IF i \in BlockedActs \ R THEN BudgetBlocked(E[i], E[i].pending) ELSE E[i]
  OBVIOUS
<1>7. \A i \in BlockedActs \ R : E[i] = acts[i]
  <2>1. \A i \in DOMAIN acts : i \notin R => E[i] = acts[i]
    BY DEF EnabledActs
  <2> QED
    BY <1>3, <2>1
<1>8. SettleGoal(A, O, FALSE)
  BY <1>1
<1> HIDE DEF A, E, O
<1>9. ASSUME NEW i \in BlockedActs \ R
      PROVE  A[i] \in Activations /\ A[i].status = "blocked"
             /\ A[i].scopes = E[i].scopes /\ E[i].status = "blocked"
  <2>1. E[i] \in Activations /\ E[i].status = "blocked" /\ i \in DOMAIN E
    BY <1>3, <1>5, <1>7 DEF ActsTyped
  <2>2. Bumped(E[i]) \in Activations /\ Bumped(E[i]).scopes = E[i].scopes
    BY <2>1, RowUpdates DEF ActStatus
  <2>3. A[i] = BudgetBlocked(E[i], E[i].pending)
    BY <1>6, <2>1
  <2> QED
    BY <2>1, <2>2, <2>3 DEF BudgetBlocked, Activations, ActStatus
<1>10. \A i \in DOMAIN E : i \notin BlockedActs \ R => A[i] = E[i]
  BY <1>6
<1>11. Restated(E, A) /\ ActsTyped(A)
  BY <1>5, <1>6, <1>9, <1>10 DEF Restated, ActsTyped, Settled
<1>12. Joined(A, O, closedGens)
  BY <1>5, <1>11, JoinedRestated
<1> QED
  BY <1>2, <1>8, <1>11, <1>12, JoinsSettled DEF SettleGoal

LEMMA SettleGateJoins ==
    ASSUME IInv, JoinInv, Validated, NEW a \in DOMAIN attempts, ~Terminal(attempts[a].status),
           NEW r \in Attempts, SettleGate(a, r)
    PROVE  JoinInv'
<1>1. CASE Fail(a, r)
  BY <1>1, FailJoins
<1>2. CASE Succeed(a, r, r.outcome)
  <2>1. r.outcome \in Results
    BY DEF Attempts
  <2> QED
    BY <1>2, <2>1, SucceedJoins
<1>3. CASE UNCHANGED <<graph, goal, exec, acts, openGens, closedGens>>
  BY <1>3, JoinsUntouched
<1> QED
  BY <1>1, <1>2, <1>3 DEF SettleGate

LEMMA JoinsStep ==
    ASSUME IInv, JoinInv, Validated, [Next]_vars
    PROVE  JoinInv'
<1>1. ASSUME NEW a \in DOMAIN attempts, HostStep(a)
      PROVE  JoinInv'
  <2>1. CASE ClaimAttempt(a) \/ StartAttempt(a) \/ \E s \in ProgressReports : ReportProgress(a, s)
    BY <2>1, JoinsUntouched DEF ClaimAttempt, StartAttempt, ReportProgress
  <2>2. ASSUME NEW o \in Results, ReportSucceeded(a, o)
        PROVE  JoinInv'
    <3>1. ~Terminal(attempts[a].status)
      BY <2>2 DEF ReportSucceeded, MayReport
    <3>2. CASE Succeed(a, attempts[a], o)
      BY <3>1, <3>2, SucceedJoins
    <3>3. CASE UNCHANGED <<graph, goal, exec, acts, openGens, closedGens>>
      BY <3>3, JoinsUntouched
    <3> QED
      BY <2>2, <3>2, <3>3 DEF ReportSucceeded
  <2>3. CASE ReportFailed(a)
    BY <2>3, FailJoins DEF ReportFailed, MayReport
  <2>4. CASE ReportCanceled(a)
    BY <2>4, CancelAttemptJoins DEF ReportCanceled, MayReport
  <2> QED
    BY <1>1, <2>1, <2>2, <2>3, <2>4 DEF HostStep
<1>2. CASE ActivateGoal
  BY <1>2, ActivateJoins
<1>3. ASSUME NEW i \in DOMAIN acts, DispatchRun(i) PROVE JoinInv'
  BY <1>3, DispatchJoins
<1>4. ASSUME NEW a \in DOMAIN attempts, NEW v \in Verdicts, ReviewAttempt(a, v)
      PROVE  JoinInv'
  <2> DEFINE r == [attempts[a] EXCEPT !.review = v]
  <2>1. attempts[a] \in Attempts /\ ~Terminal(attempts[a].status) /\ SettleGate(a, r)
    BY <1>4 DEF IInv, TypeOK, ReviewAttempt
  <2>2. r \in Attempts
    BY <2>1 DEF Attempts
  <2> HIDE DEF r
  <2> QED
    BY <2>1, <2>2, SettleGateJoins
<1>5. ASSUME NEW a \in DOMAIN attempts, RecordEvidence(a)
      PROVE  JoinInv'
  <2> DEFINE r == [attempts[a] EXCEPT !.evidence = TRUE,
                      !.review = IF @ = "none" THEN "pending" ELSE @]
  <2>1. attempts[a] \in Attempts /\ ~Terminal(attempts[a].status) /\ SettleGate(a, r)
    BY <1>5 DEF IInv, TypeOK, RecordEvidence
  <2>2. r \in Attempts
    BY <2>1 DEF Attempts
  <2> HIDE DEF r
  <2> QED
    BY <2>1, <2>2, SettleGateJoins
<1>6. ASSUME NEW a \in DOMAIN attempts, AbandonAttempt(a)
      PROVE  JoinInv'
  <2>1. ~Terminal(attempts[a].status)
    BY <1>6 DEF AbandonAttempt
  <2> QED
    BY <1>6, <2>1, CancelAttemptJoins, FailJoins DEF AbandonAttempt
<1>7. CASE CancelGoal
  BY <1>7, CancelGoalJoins
<1>8. ASSUME NEW n \in RetryBudgets, SetRetryBudget(n) PROVE JoinInv'
  BY <1>8, RetryBudgetJoins
<1>9. ASSUME NEW n \in ActivationBudgets, SetActivationBudget(n) PROVE JoinInv'
  BY <1>9, ActivationBudgetJoins, BudgetsAssumption
<1>10. CASE UNCHANGED vars
  BY <1>10, JoinsUntouched DEF vars
<1> QED
  BY <1>1, <1>2, <1>3, <1>4, <1>5, <1>6, <1>7, <1>8, <1>9, <1>10 DEF Next, OperatorStep

LEMMA JoinsInit ==
    Init => JoinInv
<1> SUFFICES ASSUME Init PROVE JoinInv
  OBVIOUS
<1>1. DOMAIN acts = {} /\ openGens = {} /\ closedGens = {}
  BY DEF Init
<1>2. Joined(acts, openGens, closedGens)
  BY <1>1 DEF Joined, Nesting, ScopesIn, Forked, Consumed, Scoped, AtJoins, Paired,
           Inside
<1>3. JoinsReconciled
  BY <1>1 DEF JoinsReconciled, Closable
<1> QED
  BY <1>2, <1>3 DEF JoinInv

\* Only the first activation creates activations from none.
LEMMA NothingFromNone ==
    ASSUME IInv, DOMAIN acts = {}, [Next]_vars
    PROVE  DOMAIN acts' = {} \/ ActivateGoal
<1>1. DOMAIN attempts = {}
  BY DEF IInv, TypeOK
<1>2. CASE CancelGoal
  BY <1>2 DEF CancelGoal, StoppedActs
<1>3. ASSUME NEW n \in RetryBudgets, SetRetryBudget(n) PROVE DOMAIN acts' = {}
  BY <1>3 DEF SetRetryBudget
<1>4. ASSUME NEW n \in ActivationBudgets, SetActivationBudget(n) PROVE DOMAIN acts' = {}
  <2> DEFINE out == [i \in BlockedActs |-> acts[i].pending]
  <2>1. BlockedActs = {}
    BY DEF BlockedActs
  <2>2. DOMAIN EnabledActs({}, out) = {}
    BY DEF EnabledActs, Children
  <2> HIDE DEF out
  <2>3. \A R \in SUBSET BlockedActs : R = {}
    BY <2>1
  <2> QED
    BY <1>4, <2>2, <2>3 DEF SetActivationBudget, SettleGoal, Reconciled, out
<1>5. CASE UNCHANGED vars
  BY <1>5 DEF vars
<1> QED
  BY <1>1, <1>2, <1>3, <1>4, <1>5 DEF Next, OperatorStep

\* The validator runs before the first activations are created.
LEMMA ValidatedStep ==
    ASSUME IInv, Validated, [Next]_vars
    PROVE  Validated'
<1>1. graph' = graph
  BY DEF Next, OperatorStep, HostStep, vars, ActivateGoal, DispatchRun, ReviewAttempt,
         RecordEvidence, AbandonAttempt, CancelGoal, SetRetryBudget, SetActivationBudget,
         ClaimAttempt, StartAttempt, ReportProgress, ReportSucceeded, ReportFailed,
         ReportCanceled, SettleGate, Fail, Succeed, CancelAttempt
<1>2. CASE DOMAIN acts # {} \/ DOMAIN acts' = {}
  BY <1>1, <1>2 DEF Validated
<1>3. CASE ActivateGoal
  BY <1>1, <1>3 DEF Validated, ActivateGoal
<1> QED
  BY <1>2, <1>3, NothingFromNone

\* Cancellation stays recorded, and a goal canceled before that never starts.
LEMMA CanceledStep ==
    ASSUME IInv, CancelInv, CanceledUnstarted, [Next]_vars
    PROVE  CanceledUnstarted'
<1>1. NoNewWork
  BY CancelStep DEF Kept
<1> SUFFICES ASSUME goal' = "canceled", DOMAIN acts' # {}
             PROVE  exec'.cancelRequested
  BY DEF CanceledUnstarted
<1>2. CASE goal = "canceled"
  <2>1. CASE exec.cancelRequested
    BY <1>1, <2>1 DEF NoNewWork
  <2>2. CASE DOMAIN acts = {}
    BY <1>2, <2>2, NothingFromNone DEF ActivateGoal
  <2> QED
    BY <1>2, <2>1, <2>2 DEF CanceledUnstarted
<1>3. CASE goal # "canceled"
  <2>1. ASSUME NEW a \in DOMAIN attempts, AttemptKinds(a) PROVE exec'.cancelRequested
    <3>1. ASSUME NEW r, Recorded(a, r) PROVE FALSE
      BY <1>3, <3>1 DEF Recorded
    <3>2. ASSUME NEW r, NEW o, Succeeded(a, r, o) PROVE FALSE
      BY <3>2, NotCanceled DEF Succeeded, Succeed, Route
    <3>3. ASSUME NEW r, Failed(a, r) PROVE exec'.cancelRequested
      <4>1. exec' = exec /\ exec.cancelRequested \in BOOLEAN
        BY <3>3 DEF Failed, Fail, IInv, TypeOK
      <4>2. CASE ~exec.cancelRequested
        <5>1. exec.cancelRequested = FALSE
          BY <4>1, <4>2
        <5> QED BY <3>3, <5>1, NotCanceled DEF Failed, Fail
      <4> QED BY <4>1, <4>2
    <3>4. CASE CancelAttempt(a)
      BY <3>4 DEF CancelAttempt, IInv, TypeOK
    <3> QED
      BY <2>1, <3>1, <3>2, <3>3, <3>4 DEF AttemptKinds
  <2>2. CASE CancelGoal
    <3>1. exec.used > 0
      <4>1. exec.used \in Nat /\ DOMAIN acts' = DOMAIN acts
        BY <2>2 DEF IInv, TypeOK, CancelGoal, StoppedActs
      <4>2. exec.used = 0 => DOMAIN acts = {}
        BY FS_EmptySet DEF IInv, BudgetExact
      <4> QED BY <4>1, <4>2
    <3> QED
      BY <2>2, <3>1 DEF CancelGoal, IInv, TypeOK
  <2>3. ASSUME NEW n \in ActivationBudgets, SetActivationBudget(n) PROVE FALSE
    BY <2>3, NotCanceled DEF SetActivationBudget
  <2>4. CASE ActivateGoal \/ (\E i \in DOMAIN acts : DispatchRun(i))
    BY <2>4 DEF ActivateGoal, DispatchRun
  <2>5. CASE (\E n \in RetryBudgets : SetRetryBudget(n)) \/ UNCHANGED vars
    BY <1>3, <2>5 DEF SetRetryBudget, vars
  <2> QED
    BY <2>1, <2>2, <2>3, <2>4, <2>5, StepKinds DEF Kinds
<1> QED
  BY <1>2, <1>3

LEMMA JoinsInvariance ==
    Spec => [](IInv /\ CancelInv /\ JoinInv /\ Validated /\ CanceledUnstarted)
<1> DEFINE Inv == IInv /\ CancelInv /\ JoinInv /\ Validated /\ CanceledUnstarted
<1>1. Init => Inv
  BY InvariantInit, CancelInit, JoinsInit DEF Init, Validated, CanceledUnstarted
<1>2. Inv /\ [Next]_vars => Inv'
  BY InvariantStep, CancelStep, JoinsStep, ValidatedStep, CanceledStep DEF Kept
<1> QED
  BY <1>1, <1>2, PTL DEF Spec

-----------------------------------------------------------------------------
(* Waiting. *)

\* A finite set has an element at which a function of it is largest.
LEMMA Largest ==
    ASSUME NEW S, IsFiniteSet(S), S # {}, NEW f, \A i \in S : f[i] \in Nat
    PROVE  \E i \in S : \A j \in S : f[j] <= f[i]
<1> DEFINE Has(T) == \E i \in T : \A j \in T : f[j] <= f[i]
           B == {n \in Nat : \A T \in SUBSET S :
                    IsFiniteSet(T) /\ Cardinality(T) = n /\ T # {} => Has(T)}
<1>1. 0 \in B
  <2>1. \A T \in SUBSET S : IsFiniteSet(T) /\ Cardinality(T) = 0 => T = {}
    BY FS_EmptySet
  <2> HIDE DEF Has
  <2> QED BY <2>1
<1>2. ASSUME NEW n \in Nat, n \in B PROVE n + 1 \in B
  <2> SUFFICES ASSUME NEW T \in SUBSET S, IsFiniteSet(T), Cardinality(T) = n + 1, T # {}
               PROVE  Has(T)
    BY <1>2
  <2>1. PICK x \in T : TRUE
    OBVIOUS
  <2> DEFINE U == T \ {x}
  <2>2. IsFiniteSet(U) /\ Cardinality(U) = n
    <3>1. Cardinality(U) = Cardinality(T) - 1 /\ IsFiniteSet(U)
      BY <2>1, FS_RemoveElement
    <3> HIDE DEF U, B, Has
    <3> QED BY <3>1
  <2>3. CASE U = {}
    <3>1. \A j \in T : j = x
      BY <2>3
    <3>2. f[x] \in Nat
      BY <2>1
    <3>3. \A j \in T : f[j] <= f[x]
      BY <3>1, <3>2
    <3> QED BY <2>1, <3>3
  <2>4. CASE U # {}
    <3>1. Has(U)
      <4>1. U \in SUBSET S
        OBVIOUS
      <4> HIDE DEF U, Has
      <4> QED BY <1>2, <2>2, <2>4, <4>1
    <3>2. PICK i \in U : \A j \in U : f[j] <= f[i]
      BY <3>1
    <3>3. f[i] \in Nat /\ f[x] \in Nat /\ i \in T
      BY <2>1, <3>2
    <3>4. CASE f[x] <= f[i]
      BY <3>2, <3>3, <3>4
    <3>5. CASE f[i] < f[x]
      <4>1. \A j \in T : f[j] <= f[x]
        <5> SUFFICES ASSUME NEW j \in T PROVE f[j] <= f[x]
          OBVIOUS
        <5>1. f[j] \in Nat /\ (j = x \/ f[j] <= f[i])
          BY <3>2
        <5> QED BY <3>3, <3>5, <5>1
      <4> QED BY <2>1, <4>1
    <3> QED BY <3>3, <3>4, <3>5
  <2> QED BY <2>3, <2>4
<1>3. Nat \subseteq B
  <2> HIDE DEF B
  <2> QED BY <1>1, <1>2, InductiveSet
<1>4. Cardinality(S) \in B
  BY <1>3, FS_CardinalityType
<1> QED
  BY <1>4

\* Where nothing is left to close, something does not wait: of the arrivals
\* take one with the innermost generation.  Another member of that generation
\* keeps it open, so that member waits for an outer one, inside an inner one.
LEMMA SomethingMoves ==
    ASSUME TypeOK, IsFiniteSet(DOMAIN acts), Regular, Inside(acts),
           Joined(acts, openGens, closedGens), Closable(acts, openGens) = {},
           Unsettled(acts) # {}
    PROVE  \E i \in Unsettled(acts) : acts[i].status # "waiting_join"
<1> SUFFICES ASSUME \A i \in Unsettled(acts) : acts[i].status = "waiting_join"
             PROVE  FALSE
  OBVIOUS
<1> DEFINE S == Unsettled(acts)
           own == [i \in S |-> OwnIndex(acts, i)]
<1>1. ActsTyped(acts)
  BY DEF TypeOK, ActsTyped
<1>2. ASSUME NEW i \in S
      PROVE  /\ i \in DOMAIN acts /\ acts[i].status = "waiting_join"
             /\ NodeAt(i) \in JoinNodes(graph)
             /\ IsOwnScope(acts, i, own[i])
             /\ own[i] \in DOMAIN acts[i].scopes /\ own[i] \in Nat
  <2>1. i \in DOMAIN acts /\ acts[i].status = "waiting_join"
    BY DEF Unsettled
  <2>2. IsOwnScope(acts, i, OwnIndex(acts, i))
    BY <2>1 DEF Joined, Scoped, OwnIndex
  <2>3. own[i] = OwnIndex(acts, i)
    OBVIOUS
  <2>4. own[i] \in DOMAIN acts[i].scopes /\ IsOwnScope(acts, i, own[i])
    BY <2>2, <2>3 DEF IsOwnScope
  <2> HIDE DEF own
  <2>5. own[i] \in Nat
    BY <1>1, <2>1, <2>4, ScopesIndexed
  <2> QED
    BY <2>1, <2>4, <2>5 DEF Joined, AtJoins
<1>3. IsFiniteSet(S)
  <2>1. S \in SUBSET DOMAIN acts
    BY DEF Unsettled
  <2> HIDE DEF S
  <2> QED BY <2>1, FS_Subset
<1> HIDE DEF own
<1>4. PICK i \in S : \A j \in S : own[j] <= own[i]
  <2>1. \A j \in S : own[j] \in Nat
    BY <1>2
  <2> HIDE DEF S
  <2>2. \E i \in S : \A j \in S : own[j] <= own[i]
    BY <1>3, <2>1, Largest DEF S
  <2> QED BY <2>2
<1> DEFINE k == own[i]
           g == acts[i].scopes[k]
<1>5. g \in openGens
  BY <1>2 DEF Joined, ScopesIn, Consumed, Settled
<1>6. HasJoin(g) /\ NodeAt(g) = graph.join[NodeAt(i)]
  BY <1>2 DEF HasJoin, IsOwnScope, JoinNodes
<1>7. PICK j \in Members(acts, g) : ~Settled(acts[j].status) /\ j \notin OwnArrivals(acts, g)
  BY <1>5, <1>6 DEF Closable
<1>8. j \in S
  BY <1>7 DEF Unsettled, Members
<1>9. PICK n \in DOMAIN acts[j].scopes : acts[j].scopes[n] = g
  BY <1>7 DEF Members
<1>10. n = k
  BY <1>1, <1>2, <1>8, <1>9, SameIndex DEF Joined
<1>11. own[j] # k
  BY <1>2, <1>7, <1>8, <1>9, <1>10 DEF OwnArrivals
<1>12. k > own[j]
  BY <1>2, <1>4, <1>8, <1>11
<1>13. ForkIn(acts[j].scopes, k, NodeAt(i))
  BY <1>6, <1>9, <1>10 DEF ForkIn
<1>14. k \in DOMAIN acts[j].scopes
  BY <1>9, <1>10
<1> HIDE DEF k, S
<1> QED
  BY <1>1, <1>2, <1>8, <1>12, <1>13, <1>14, OwnScopeLast

-----------------------------------------------------------------------------
(* Theorems. *)

\* A generation closes when its members have settled, and no retry, replay or
\* later branch ever joins it again.
THEOREM JoinsConsumedOnce ==
    Spec => []JoinConsumedOnce
<1>1. JoinInv => JoinConsumedOnce
  <2> SUFFICES ASSUME JoinInv, NEW i \in DOMAIN acts, NEW g \in closedGens,
                      i \in Members(acts, g)
               PROVE  Settled(acts[i].status)
    BY DEF JoinConsumedOnce
  <2> QED
    BY DEF JoinInv, Joined, Consumed, Members
<1> QED
  BY <1>1, JoinsInvariance, PTL

\* An arrival's own generation is open as long as it waits.
THEOREM ArrivalsStayOpen ==
    Spec => []ArrivalsOpen
<1>1. JoinInv => ArrivalsOpen
  <2> SUFFICES ASSUME JoinInv, NEW i \in DOMAIN acts, acts[i].status = "waiting_join"
               PROVE  \E g \in openGens : i \in OwnArrivals(acts, g)
    BY DEF ArrivalsOpen
  <2>1. PICK k \in DOMAIN acts[i].scopes : IsOwnScope(acts, i, k)
    BY DEF JoinInv, Joined, Scoped
  <2> DEFINE g == acts[i].scopes[k]
  <2>2. g \in openGens \cup closedGens /\ g \notin closedGens
    BY DEF JoinInv, Joined, ScopesIn, Consumed, Settled
  <2>3. i \in OwnArrivals(acts, g)
    BY <2>1 DEF OwnArrivals, Members
  <2> QED
    BY <2>2, <2>3
<1> QED
  BY <1>1, JoinsInvariance, PTL

\* No arrival misses its join: outside cancellation no command ends while a
\* generation could close, so one pass over the joins is enough.
THEOREM NoJoinMissed ==
    Spec => []NoMissedJoin
<1>1. JoinInv => JoinsReconciled
  BY DEF JoinInv
<1> QED
  BY <1>1, JoinsInvariance, ArrivalsStayOpen, PTL DEF NoMissedJoin

\* A completion is never refused with INVALID_JOIN, in a graph the validator
\* accepts: its dominance, revisit and nesting rules are enough.
THEOREM ArrivalsAlwaysPaired ==
    Spec => []ArrivalsPaired
<1>1. IInv /\ JoinInv /\ Validated => ArrivalsPaired
  <2> SUFFICES ASSUME IInv, JoinInv, Validated,
                      NEW i \in Unsettled(acts), NEW o \in Results,
                      NEW c \in Children({i}, [p \in {i} |-> o]),
                      graph.join[NodeAt(c)] # NoFork
               PROVE  \E k \in DOMAIN ChildScopes(Parent(c)) :
                         /\ NodeAt(ChildScopes(Parent(c))[k]) = graph.join[NodeAt(c)]
                         /\ ChildScopes(Parent(c))[k] \in openGens \cup NewGenerations({i})
    BY DEF ArrivalsPaired, InvalidJoin
  <2>1. i \in DOMAIN acts /\ ~Settled(acts[i].status) /\ {i} \subseteq Paths /\ TypeOK
    BY DEF Unsettled, IInv, TypeOK
  <2>2. /\ Parent(c) = i
        /\ NodeAt(c) \in After(graph, NodeAt(i))
        /\ NodeAt(c) \in JoinNodes(graph)
    BY <2>1, ChildAfter DEF JoinNodes
  <2>3. Within(ChildScopes(i), NodeAt(c))
    BY <2>1, <2>2, ChildWithin DEF JoinInv, Joined, Validated
  <2>4. PICK k \in DOMAIN ChildScopes(i) : NodeAt(ChildScopes(i)[k]) = graph.join[NodeAt(c)]
    BY <2>3 DEF Within, ForkIn
  <2>5. CASE k \in DOMAIN acts[i].scopes
    <3>1. ChildScopes(i)[k] = acts[i].scopes[k]
      BY <2>1, <2>5, ChildScopesKept
    <3>2. acts[i].scopes[k] \in openGens
      BY <2>1, <2>5 DEF JoinInv, Joined, ScopesIn, Consumed
    <3> QED
      BY <2>2, <2>4, <3>1, <3>2
  <2>6. CASE k \notin DOMAIN acts[i].scopes
    <3>1. IsFork(graph, NodeAt(i)) /\ ChildScopes(i)[k] = i
      BY <2>1, <2>6, ChildScopesIndexed
    <3>2. i \in NewGenerations({i})
      BY <3>1 DEF NewGenerations
    <3> QED
      BY <2>2, <2>4, <3>1, <3>2
  <2> QED
    BY <2>5, <2>6
<1> QED
  BY <1>1, JoinsInvariance, PTL

\* Unless a nested fork can be visited again before its join, waiting for each
\* other is never all that is left: while the goal is not settled some visit
\* can be dispatched, reported on or unblocked.
THEOREM JoinsNeverDeadlock ==
    Spec => []NoJoinDeadlock
<1>1. IInv /\ CancelInv /\ JoinInv /\ Validated /\ CanceledUnstarted => NoJoinDeadlock
  <2> SUFFICES ASSUME IInv, CancelInv, JoinInv, Validated, CanceledUnstarted,
                      ~NestedReentry(graph), Unsettled(acts) # {}
               PROVE  \E i \in Unsettled(acts) : acts[i].status # "waiting_join"
    BY DEF NoJoinDeadlock, JoinsAlwaysProgress
  <2>1. CASE exec.cancelRequested
    BY <2>1 DEF CancelInv, CancelFence
  <2>2. CASE ~exec.cancelRequested
    <3>1. DOMAIN acts # {}
      BY DEF Unsettled
    <3>2. Closable(acts, openGens) = {}
      BY <2>2, <3>1 DEF CanceledUnstarted, JoinInv, JoinsReconciled
    <3>3. TypeOK /\ IsFiniteSet(DOMAIN acts)
      BY DEF IInv
    <3>4. Regular
      BY <3>1, <3>3, GraphsAssumption DEF Regular, Validated, TypeOK
    <3>5. Joined(acts, openGens, closedGens) /\ Inside(acts)
      BY <3>4 DEF JoinInv, Joined
    <3> QED
      BY <3>2, <3>3, <3>4, <3>5, SomethingMoves
  <2> QED
    BY <2>1, <2>2
<1> QED
  BY <1>1, JoinsInvariance, PTL
=============================================================================

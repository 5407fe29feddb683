------------------------ MODULE GoalExecutionProofs ------------------------
(***************************************************************************)
(* Theorems about GoalExecution for every graph, budget, set of outcomes   *)
(* and verdicts.                                                           *)
(* The inductive invariant IInv adds to the properties it implies that     *)
(* activations are finitely many and that a visit that enabled successors  *)
(* has succeeded: the reason why enabling never creates a row twice.       *)
(***************************************************************************)
EXTENDS GoalExecution, FiniteSetTheorems, SequenceTheorems, TLAPS

\* A visit enabled by another one: its parent has succeeded.
Lineage ==
    \A c \in DOMAIN acts :
        Parent(c) # <<>> => /\ Parent(c) \in DOMAIN acts
                            /\ acts[Parent(c)].status = "succeeded"

IInv ==
    /\ TypeOK
    /\ IsFiniteSet(DOMAIN acts)
    /\ BudgetExact
    /\ Lineage
    /\ OneLiveAttempt

FinishedStep ==
    /\ \A i \in DOMAIN acts : Settled(acts[i].status) => acts'[i] = acts[i]
    /\ \A a \in DOMAIN attempts : Terminal(attempts[a].status) => attempts'[a] = attempts[a]

ActsTyped(A) == \A i \in DOMAIN A : A[i] \in Activations

-----------------------------------------------------------------------------
(* Paths and children. *)

\* Extending a path by an edge names a new path whose parent is the old one.
LEMMA AppendPath ==
    ASSUME NEW p \in Paths, NEW e \in graph.edges
    PROVE  Append(p, e) \in Paths \ {<<>>} /\ Parent(Append(p, e)) = p
<1>1. Append(p, e) \in Paths /\ Append(p, e) # <<>> /\ Len(Append(p, e)) = Len(p) + 1
  BY AppendProperties DEF Paths
<1>2. Len(p) \in Nat
  BY LenProperties DEF Paths
<1>3. Parent(Append(p, e)) = SubSeq(Append(p, e), 1, Len(p))
  BY <1>1, <1>2 DEF Parent
<1>4. SubSeq(Append(p, e), 1, Len(p)) = p
  BY DEF Paths
<1> QED
  BY <1>1, <1>3, <1>4

\* What a finite set of parents enables is finite, and every child is a new
\* path below its parent.
LEMMA ChildrenType ==
    ASSUME TypeOK, NEW P, P \subseteq Paths, IsFiniteSet(P), NEW out
    PROVE  /\ IsFiniteSet(Children(P, out))
           /\ \A c \in Children(P, out) : c \in Paths \ {<<>>} /\ Parent(c) \in P
<1>1. IsFiniteSet(graph.edges)
  BY GraphsAssumption DEF TypeOK
<1>2. \A p \in P : ChildEdges(p, out[p]) \subseteq graph.edges
  BY DEF ChildEdges, Selected, OutEdges
<1> DEFINE f == [pe \in P \X graph.edges |-> Append(pe[1], pe[2])]
           I == {f[pe] : pe \in P \X graph.edges}
<1>3. IsFiniteSet(P \X graph.edges)
  BY <1>1, FS_Product
<1>4. f \in Surjection(P \X graph.edges, I)
  BY DEF Surjection
<1>5. IsFiniteSet(I)
  <2> HIDE DEF f, I
  <2> QED BY <1>3, <1>4, FS_Surjection
<1>6. \A c \in Children(P, out) : \E p \in P, e \in graph.edges : c = Append(p, e)
  BY <1>2 DEF Children
<1>7. Children(P, out) \subseteq I
  <2> SUFFICES ASSUME NEW p \in P, NEW e \in graph.edges
               PROVE  Append(p, e) \in I
    BY <1>6
  <2>1. <<p, e>> \in P \X graph.edges /\ f[<<p, e>>] = Append(p, e)
    OBVIOUS
  <2> QED
    BY <2>1
<1>8. IsFiniteSet(Children(P, out))
  <2> HIDE DEF I
  <2> QED BY <1>5, <1>7, FS_Subset
<1>9. \A p \in P, e \in graph.edges : Append(p, e) \in Paths \ {<<>>} /\ Parent(Append(p, e)) = p
  BY AppendPath
<1>10. \A c \in Children(P, out) : c \in Paths \ {<<>>} /\ Parent(c) \in P
  <2> SUFFICES ASSUME NEW c \in Children(P, out)
               PROVE  c \in Paths \ {<<>>} /\ Parent(c) \in P
    OBVIOUS
  <2>1. PICK p \in P, e \in graph.edges : c = Append(p, e)
    BY <1>6
  <2>2. Append(p, e) \in Paths \ {<<>>} /\ Parent(Append(p, e)) = p
    BY <1>9
  <2> QED
    BY <2>1, <2>2, Zenon
<1> QED
  BY <1>8, <1>10

\* The scopes of a child are generations: its parent's, and its parent itself
\* if that is a fork.
LEMMA ChildScopesType ==
    ASSUME TypeOK, NEW p \in DOMAIN acts \cup {<<>>}
    PROVE  ChildScopes(p) \in Seq(Paths)
<1>1. p \in Paths
  BY EmptySeq DEF TypeOK, Paths
<1>2. ParentScopes(p) \in Seq(Paths)
  <2>1. CASE p = <<>>
    BY <2>1, EmptySeq DEF ParentScopes
  <2>2. CASE p # <<>>
    BY <2>2 DEF ParentScopes, TypeOK, Activations
  <2> QED BY <2>1, <2>2
<1> QED
  BY <1>1, <1>2, AppendProperties DEF ChildScopes

\* The updates of an activation row keep its type and its attempt count.
LEMMA RowUpdates ==
    ASSUME NEW r \in Activations, NEW st \in ActStatus
    PROVE  /\ [r EXCEPT !.status = st] \in Activations
           /\ [r EXCEPT !.status = st].status = st
           /\ [r EXCEPT !.status = st].attemptsUsed = r.attemptsUsed
           /\ Bumped(r) \in Activations
           /\ Bumped(r).attemptsUsed = r.attemptsUsed
           /\ Bumped(r).status = r.status
           /\ Bumped(r).scopes = r.scopes
BY DEF Activations, Bumped

LEMMA RowDispatched ==
    ASSUME NEW r \in Activations, NEW n \in Nat
    PROVE  /\ [r EXCEPT !.status = "running", !.attemptsUsed = n] \in Activations
           /\ [r EXCEPT !.status = "running", !.attemptsUsed = n].status = "running"
           /\ [r EXCEPT !.status = "running", !.attemptsUsed = n].attemptsUsed = n
<1>1. "running" \in ActStatus
  BY DEF ActStatus
<1> QED
  BY <1>1 DEF Activations

-----------------------------------------------------------------------------
(* Routing and joins keep activations well typed and settled ones as they are. *)

\* Enabling adds the children and changes the parents only.
LEMMA EnabledType ==
    ASSUME TypeOK, NEW P, P \subseteq DOMAIN acts \cup {<<>>}, IsFiniteSet(P), NEW out
    PROVE  /\ DOMAIN EnabledActs(P, out) = DOMAIN acts \cup Children(P, out)
           /\ ActsTyped(EnabledActs(P, out))
           /\ \A i \in DOMAIN acts :
                 /\ EnabledActs(P, out)[i].attemptsUsed = acts[i].attemptsUsed
                 /\ i \notin P => EnabledActs(P, out)[i] = acts[i]
                 /\ i \in P => EnabledActs(P, out)[i].status = "succeeded"
           /\ \A c \in Children(P, out) \ DOMAIN acts :
                 EnabledActs(P, out)[c].status \in {"ready", "waiting_join"}
           /\ DOMAIN acts \cup Children(P, out) \subseteq Paths \ {<<>>}
<1> DEFINE E == EnabledActs(P, out)
<1>1. P \subseteq Paths
  BY EmptySeq DEF TypeOK, Paths
<1>2. \A c \in Children(P, out) : c \in Paths \ {<<>>} /\ Parent(c) \in P
  BY <1>1, ChildrenType
<1>3. DOMAIN E = DOMAIN acts \cup Children(P, out)
  BY DEF EnabledActs
<1>4. \A i \in DOMAIN acts : i \in P => E[i] = [Bumped(acts[i]) EXCEPT !.status = "succeeded"]
  BY DEF EnabledActs
<1>5. \A i \in DOMAIN acts : i \notin P => E[i] = acts[i]
  BY DEF EnabledActs
<1>6. \A c \in Children(P, out) \ DOMAIN acts : E[c] = NewActivation(c)
  BY <1>2 DEF EnabledActs
<1>7. \A i \in DOMAIN acts : acts[i] \in Activations
  BY DEF TypeOK
<1>8. \A i \in DOMAIN acts : i \in P => /\ E[i] \in Activations
                                      /\ E[i].attemptsUsed = acts[i].attemptsUsed
                                      /\ E[i].status = "succeeded"
  <2> SUFFICES ASSUME NEW i \in DOMAIN acts, i \in P
               PROVE  /\ E[i] \in Activations
                      /\ E[i].attemptsUsed = acts[i].attemptsUsed
                      /\ E[i].status = "succeeded"
    OBVIOUS
  <2>1. /\ Bumped(acts[i]) \in Activations
        /\ Bumped(acts[i]).attemptsUsed = acts[i].attemptsUsed
    BY <1>7, RowUpdates DEF ActStatus
  <2>2. E[i] = [Bumped(acts[i]) EXCEPT !.status = "succeeded"]
    BY <1>4
  <2>3. "succeeded" \in ActStatus
    BY DEF ActStatus
  <2> HIDE DEF E
  <2> QED
    BY <2>1, <2>2, <2>3, RowUpdates
<1>9. \A c \in Children(P, out) \ DOMAIN acts : /\ E[c] \in Activations
                                             /\ E[c].status \in {"ready", "waiting_join"}
  <2> SUFFICES ASSUME NEW c \in Children(P, out) \ DOMAIN acts
               PROVE  /\ NewActivation(c) \in Activations
                      /\ NewActivation(c).status \in {"ready", "waiting_join"}
    BY <1>6
  <2>1. ChildScopes(Parent(c)) \in Seq(Paths)
    BY <1>2, ChildScopesType
  <2>2. exec.maxAttempts \in Nat /\ NoOutcome \in Results
    BY DEF TypeOK, Results
  <2> QED
    BY <2>1, <2>2 DEF NewActivation, Activations, ActStatus
<1>10. ActsTyped(E)
  BY <1>3, <1>5, <1>7, <1>8, <1>9 DEF ActsTyped
<1>11. DOMAIN acts \cup Children(P, out) \subseteq Paths \ {<<>>}
  BY <1>2 DEF TypeOK
<1> QED
  BY <1>3, <1>5, <1>8, <1>9, <1>10, <1>11

\* Reconciling joins changes waiting arrivals only: one continues, with the
\* scopes outside the generation, the others are merged into it.
LEMMA ReconciledType ==
    ASSUME NEW A, ActsTyped(A), NEW O
    PROVE  /\ DOMAIN Reconciled(A, O) = DOMAIN A
           /\ ActsTyped(Reconciled(A, O))
           /\ \A i \in DOMAIN A :
                 /\ Reconciled(A, O)[i].attemptsUsed = A[i].attemptsUsed
                 /\ A[i].status # "waiting_join" => Reconciled(A, O)[i] = A[i]
                 /\ A[i].status = "waiting_join" =>
                       Reconciled(A, O)[i].status \in {"waiting_join", "ready", "joined"}
<1> DEFINE R == Reconciled(A, O)
<1>1. DOMAIN R = DOMAIN A
  BY DEF Reconciled
<1>2. \A i \in DOMAIN A : R[i] = IF i \in Arrived(A, O) THEN JoinedAct(A, i) ELSE A[i]
  BY DEF Reconciled
<1>3. ASSUME NEW i \in DOMAIN A, i \in Arrived(A, O)
      PROVE  /\ A[i].status = "waiting_join"
             /\ JoinedAct(A, i) \in Activations
             /\ JoinedAct(A, i).status \in {"ready", "joined"}
             /\ JoinedAct(A, i).attemptsUsed = A[i].attemptsUsed
  <2>1. A[i] \in Activations
    BY DEF ActsTyped
  <2>2. A[i].status = "waiting_join" /\ \E k \in DOMAIN A[i].scopes : IsOwnScope(A, i, k)
    BY <1>3 DEF Arrived, OwnArrivals
  <2> DEFINE k == OwnIndex(A, i)
             sc == SubSeq(A[i].scopes, 1, k - 1)
  <2>3. k \in DOMAIN A[i].scopes
    BY <2>2 DEF OwnIndex
  <2>4. k \in 1 .. Len(A[i].scopes) /\ Len(A[i].scopes) \in Nat
    BY <2>1, <2>3, LenProperties DEF Activations
  <2>5. sc \in Seq(Paths)
    <3>1. \A m \in 1 .. k - 1 : A[i].scopes[m] \in Paths
      BY <2>1, <2>4, ElementOfSeq DEF Activations
    <3>2. k - 1 \in Int
      BY <2>4
    <3> HIDE DEF k
    <3> QED BY <3>1, <3>2, SubSeqProperties
  <2>6. \/ JoinedAct(A, i) = [Bumped(A[i]) EXCEPT !.status = "ready",
                                                !.scopes = SubSeq(@, 1, k - 1)]
        \/ JoinedAct(A, i) = [A[i] EXCEPT !.status = "joined"]
    BY DEF JoinedAct
  <2>7. Bumped(A[i]) \in Activations /\ Bumped(A[i]).scopes = A[i].scopes
        /\ Bumped(A[i]).attemptsUsed = A[i].attemptsUsed
    BY <2>1, RowUpdates DEF ActStatus
  <2> HIDE DEF k
  <2>8. CASE JoinedAct(A, i) = [Bumped(A[i]) EXCEPT !.status = "ready",
                                                  !.scopes = SubSeq(@, 1, k - 1)]
    BY <2>2, <2>5, <2>7, <2>8 DEF Activations, ActStatus
  <2>9. CASE JoinedAct(A, i) = [A[i] EXCEPT !.status = "joined"]
    <3>1. "joined" \in ActStatus
      BY DEF ActStatus
    <3> QED
      BY <2>1, <2>2, <2>9, <3>1, RowUpdates
  <2> QED
    BY <2>6, <2>8, <2>9
<1>4. ActsTyped(R)
  BY <1>1, <1>2, <1>3 DEF ActsTyped
<1> QED
  BY <1>1, <1>2, <1>3, <1>4

-----------------------------------------------------------------------------
(* What a step must do for each part of the invariant. *)

\* Types, for every step that dispatches nothing.
LEMMA TypeStep ==
    ASSUME TypeOK, graph' = graph, goal' \in GoalStatuses,
           exec' \in [used : Nat, maxActivations : Nat, maxAttempts : Nat,
                     cancelRequested : BOOLEAN],
           DOMAIN acts \subseteq DOMAIN acts', DOMAIN acts' \subseteq Paths \ {<<>>},
           ActsTyped(acts'),
           openGens' \subseteq DOMAIN acts' \cup {<<>>},
           closedGens' \subseteq DOMAIN acts' \cup {<<>>},
           \A i \in DOMAIN acts : acts'[i].attemptsUsed = acts[i].attemptsUsed,
           DOMAIN attempts' = DOMAIN attempts,
           \A a \in DOMAIN attempts : attempts'[a] \in Attempts
    PROVE  TypeOK'
<1>1. Paths' = Paths /\ Activations' = Activations
  BY DEF Paths, Activations
<1>2. \A i \in DOMAIN acts' : acts'[i] \in Activations'
  BY <1>1 DEF ActsTyped
<1>3. \A a \in DOMAIN attempts' :
        /\ a \in (DOMAIN acts') \X Nat
        /\ a[2] \in 1 .. acts'[a[1]].attemptsUsed
  <2> SUFFICES ASSUME NEW a \in DOMAIN attempts
               PROVE  /\ a \in (DOMAIN acts') \X Nat
                      /\ a[2] \in 1 .. acts'[a[1]].attemptsUsed
    OBVIOUS
  <2>1. a \in (DOMAIN acts) \X Nat /\ a[2] \in 1 .. acts[a[1]].attemptsUsed
    BY DEF TypeOK
  <2> QED
    BY <2>1
<1> QED
  BY <1>1, <1>2, <1>3 DEF TypeOK, Attempts

\* A parent that enabled successors stays succeeded, and new visits have one.
LEMMA LineageStep ==
    ASSUME Lineage, DOMAIN acts \subseteq DOMAIN acts',
           \A i \in DOMAIN acts :
               acts[i].status = "succeeded" => acts'[i].status = "succeeded",
           \A c \in DOMAIN acts' \ DOMAIN acts :
               Parent(c) # <<>> => /\ Parent(c) \in DOMAIN acts'
                                   /\ acts'[Parent(c)].status = "succeeded"
    PROVE  Lineage'
BY DEF Lineage, Parent

\* The activations in S stop running together with their latest attempts, and
\* no others do.
StopsRunning(S) ==
    /\ DOMAIN acts \subseteq DOMAIN acts'
    /\ DOMAIN attempts' = DOMAIN attempts
    /\ \A i \in DOMAIN acts :
          /\ acts'[i].attemptsUsed = acts[i].attemptsUsed
          /\ acts'[i].status = "running" <=> acts[i].status = "running" /\ i \notin S
    /\ \A i \in DOMAIN acts' \ DOMAIN acts : acts'[i].status # "running"
    /\ \A a \in DOMAIN attempts :
          Terminal(attempts'[a].status) <=> Terminal(attempts[a].status) \/ a[1] \in S

LEMMA LiveStep ==
    ASSUME TypeOK, OneLiveAttempt, NEW S, StopsRunning(S)
    PROVE  OneLiveAttempt'
<1> USE DEF StopsRunning
<1>1. \A a \in DOMAIN attempts : a[1] \in DOMAIN acts
  BY DEF TypeOK
<1>2. \A i \in DOMAIN acts : LatestAttempt(i)' = LatestAttempt(i)
  BY DEF LatestAttempt
<1>3. \A a : a \in Live' <=> a \in Live /\ a[1] \notin S
  BY DEF Live, Terminal
<1>4. \A i \in DOMAIN acts : LatestAttempt(i)[1] = i
  BY DEF LatestAttempt
<1>5. \A i \in DOMAIN acts : acts'[i].status = "running" <=> LatestAttempt(i)' \in Live'
  BY <1>2, <1>3, <1>4 DEF OneLiveAttempt
<1>6. \A i \in DOMAIN acts' \ DOMAIN acts : LatestAttempt(i)' \notin Live'
  BY <1>1 DEF Live, LatestAttempt
<1>7. \A a \in Live' : a = LatestAttempt(a[1])'
  BY <1>1, <1>2, <1>3 DEF OneLiveAttempt, Live
<1> QED
  BY <1>5, <1>6, <1>7 DEF OneLiveAttempt

\* An unfinished attempt is the latest one of a running activation.
LEMMA LiveRunning ==
    ASSUME TypeOK, OneLiveAttempt, NEW a \in DOMAIN attempts, ~Terminal(attempts[a].status)
    PROVE  /\ a[1] \in DOMAIN acts
           /\ acts[a[1]].status = "running"
           /\ a = LatestAttempt(a[1])
           /\ a[1] # <<>>
           /\ \A b \in DOMAIN attempts :
                 b[1] = a[1] /\ ~Terminal(attempts[b].status) => b = a
<1>1. a \in Live /\ a[1] \in DOMAIN acts /\ DOMAIN acts \subseteq Paths \ {<<>>}
  BY DEF Live, TypeOK
<1>2. a = LatestAttempt(a[1])
  BY <1>1 DEF OneLiveAttempt
<1> QED
  BY <1>1, <1>2 DEF OneLiveAttempt, Live

-----------------------------------------------------------------------------
(* Steps of one attempt. *)

\* Claims, starts, progress, evidence and reviews that settle nothing.
LEMMA UnsettledAttemptStep ==
    ASSUME IInv, NEW a \in DOMAIN attempts, ~Terminal(attempts[a].status),
           NEW r \in Attempts, ~Terminal(r.status),
           attempts' = [attempts EXCEPT ![a] = r],
           UNCHANGED <<graph, goal, exec, acts, openGens, closedGens>>
    PROVE  IInv' /\ FinishedStep
<1>1. /\ DOMAIN attempts' = DOMAIN attempts
      /\ attempts'[a] = r
      /\ \A b \in DOMAIN attempts \ {a} : attempts'[b] = attempts[b]
  OBVIOUS
<1>2. TypeOK'
  <2>1. \A b \in DOMAIN attempts : attempts'[b] \in Attempts
    BY <1>1 DEF IInv, TypeOK
  <2>2. ActsTyped(acts')
    BY DEF IInv, TypeOK, ActsTyped
  <2> QED
    BY <1>1, <2>1, <2>2, TypeStep DEF IInv, TypeOK
<1>3. OneLiveAttempt'
  <2>1. StopsRunning({})
    BY <1>1 DEF StopsRunning
  <2> QED
    BY <2>1, LiveStep DEF IInv
<1>4. Lineage' /\ BudgetExact' /\ IsFiniteSet(DOMAIN acts')
  BY DEF IInv, Lineage, BudgetExact, Parent
<1>5. FinishedStep
  BY <1>1 DEF FinishedStep
<1> QED
  BY <1>2, <1>3, <1>4, <1>5 DEF IInv

-----------------------------------------------------------------------------
(* Rewriting activations: what every command that settles work does. *)

\* A is what becomes of the activations when those in S, and only those, stop
\* running: no row is lost, settled rows and attempt counts stay, and a new row
\* has a parent that succeeded.
Rewrites(A, S) ==
    /\ DOMAIN acts \subseteq DOMAIN A
    /\ DOMAIN A \subseteq Paths \ {<<>>}
    /\ IsFiniteSet(DOMAIN A)
    /\ ActsTyped(A)
    /\ \A i \in DOMAIN acts :
          /\ A[i].attemptsUsed = acts[i].attemptsUsed
          /\ A[i].status = "running" <=> acts[i].status = "running" /\ i \notin S
          /\ Settled(acts[i].status) => A[i] = acts[i]
    /\ \A c \in DOMAIN A \ DOMAIN acts :
          /\ A[c].status \in {"ready", "waiting_join"} 
          /\ Parent(c) # <<>> => /\ Parent(c) \in DOMAIN A
                                 /\ A[Parent(c)].status = "succeeded"

\* The attempts that end are those of the activations in S.
EndsAttempts(T, S) ==
    /\ DOMAIN T = DOMAIN attempts
    /\ \A b \in DOMAIN attempts :
          /\ T[b] \in Attempts
          /\ Terminal(attempts[b].status) => T[b] = attempts[b]
          /\ Terminal(T[b].status) <=> Terminal(attempts[b].status) \/ b[1] \in S

ExecType == [used : Nat, maxActivations : Nat, maxAttempts : Nat, cancelRequested : BOOLEAN]

\* A merged or continued arrival is a new row at most in a status that a join
\* gives it: reconciling joins rewrites no more than was rewritten before.
LEMMA RewritesReconciled ==
    ASSUME NEW A, NEW O, NEW S, Rewrites(A, S)
    PROVE  /\ DOMAIN Reconciled(A, O) = DOMAIN A
           /\ ActsTyped(Reconciled(A, O))
           /\ \A i \in DOMAIN acts :
                 /\ Reconciled(A, O)[i].attemptsUsed = acts[i].attemptsUsed
                 /\ Reconciled(A, O)[i].status = "running"
                       <=> acts[i].status = "running" /\ i \notin S
                 /\ Settled(acts[i].status) => Reconciled(A, O)[i] = acts[i]
           /\ \A c \in DOMAIN A \ DOMAIN acts :
                 /\ Reconciled(A, O)[c].status # "running"
                 /\ Parent(c) # <<>> => /\ Parent(c) \in DOMAIN A
                                        /\ Reconciled(A, O)[Parent(c)].status = "succeeded"
<1> DEFINE R == Reconciled(A, O)
<1>1. /\ DOMAIN R = DOMAIN A
      /\ ActsTyped(R)
      /\ \A i \in DOMAIN A :
            /\ R[i].attemptsUsed = A[i].attemptsUsed
            /\ A[i].status # "waiting_join" => R[i] = A[i]
            /\ A[i].status = "waiting_join" => R[i].status \in {"waiting_join", "ready", "joined"}
  BY ReconciledType DEF Rewrites
<1> HIDE DEF R
<1>2. \A i \in DOMAIN acts :
        /\ R[i].attemptsUsed = acts[i].attemptsUsed
        /\ R[i].status = "running" <=> acts[i].status = "running" /\ i \notin S
        /\ Settled(acts[i].status) => R[i] = acts[i]
  BY <1>1 DEF Rewrites, Settled
<1>3. \A c \in DOMAIN A \ DOMAIN acts :
        /\ R[c].status # "running"
        /\ Parent(c) # <<>> => Parent(c) \in DOMAIN A /\ R[Parent(c)].status = "succeeded"
  BY <1>1 DEF Rewrites
<1> QED
  BY <1>1, <1>2, <1>3 DEF R

\* The invariant follows from what a step does to activations, attempts and
\* the counter.
LEMMA SettleStep ==
    ASSUME IInv, graph' = graph, goal' \in GoalStatuses,
           NEW A, NEW O, NEW S, Rewrites(A, S), acts' = Reconciled(A, O),
           EndsAttempts(attempts', S),
           openGens' \subseteq DOMAIN A \cup {<<>>},
           closedGens' \subseteq DOMAIN A \cup {<<>>},
           exec' \in ExecType, exec'.used = Cardinality(DOMAIN A),
           exec'.used <= exec'.maxActivations
    PROVE  IInv' /\ FinishedStep
<1>1. /\ DOMAIN acts' = DOMAIN A
      /\ ActsTyped(acts')
      /\ \A i \in DOMAIN acts :
            /\ acts'[i].attemptsUsed = acts[i].attemptsUsed
            /\ acts'[i].status = "running" <=> acts[i].status = "running" /\ i \notin S
            /\ Settled(acts[i].status) => acts'[i] = acts[i]
      /\ \A c \in DOMAIN A \ DOMAIN acts :
            /\ acts'[c].status # "running"
            /\ Parent(c) # <<>> => /\ Parent(c) \in DOMAIN A
                                   /\ acts'[Parent(c)].status = "succeeded"
  BY RewritesReconciled
<1>2. TypeOK'
  BY <1>1, TypeStep DEF IInv, Rewrites, EndsAttempts, ExecType
<1>3. OneLiveAttempt'
  <2>1. StopsRunning(S)
    BY <1>1 DEF StopsRunning, EndsAttempts, Rewrites
  <2> QED
    BY <2>1, LiveStep DEF IInv
<1>4. Lineage'
  BY <1>1, LineageStep DEF IInv, Rewrites, Settled
<1>5. BudgetExact' /\ IsFiniteSet(DOMAIN acts')
  BY <1>1 DEF BudgetExact, Rewrites
<1>6. FinishedStep
  BY <1>1 DEF FinishedStep, EndsAttempts
<1> QED
  BY <1>2, <1>3, <1>4, <1>5, <1>6 DEF IInv

\* A refreshed goal has a status, and its generations are still activations'.
LEMMA SettleGoalType ==
    ASSUME TypeOK, NEW A, NEW O, NEW c \in BOOLEAN, DOMAIN acts \subseteq DOMAIN A,
           O \subseteq DOMAIN A \cup {<<>>}, SettleGoal(A, O, c)
    PROVE  /\ acts' = Reconciled(A, O)
           /\ goal' \in GoalStatuses
           /\ openGens' \subseteq DOMAIN A \cup {<<>>}
           /\ closedGens' \subseteq DOMAIN A \cup {<<>>}
<1>1. Closed(A, O) \subseteq O
  BY DEF Closed, Closable, Drained
<1>2. goal' \in GoalStatuses
  BY DEF SettleGoal, GoalStatus, GoalStatuses
<1> QED
  BY <1>1, <1>2 DEF SettleGoal, TypeOK

\* Enabling successors of visits that have not succeeded yet adds exactly the
\* children the counter is charged for.
LEMMA RewritesEnabled ==
    ASSUME IInv, NEW P, P \subseteq DOMAIN acts \cup {<<>>}, IsFiniteSet(P), NEW out,
           \A p \in P : p # <<>> => ~Settled(acts[p].status),
           <<>> \in P => DOMAIN acts = {}
    PROVE  /\ Rewrites(EnabledActs(P, out), P)
           /\ DOMAIN EnabledActs(P, out) = DOMAIN acts \cup Children(P, out)
           /\ Cardinality(Children(P, out)) \in Nat
           /\ Cardinality(DOMAIN EnabledActs(P, out))
                 = Cardinality(DOMAIN acts) + Cardinality(Children(P, out))
<1> DEFINE C == Children(P, out)
           A == EnabledActs(P, out)
<1>1. TypeOK /\ IsFiniteSet(DOMAIN acts) /\ Lineage /\ P \subseteq Paths
  BY EmptySeq DEF IInv, TypeOK, Paths
<1>2. IsFiniteSet(C) /\ \A c \in C : c \in Paths \ {<<>>} /\ Parent(c) \in P
  BY <1>1, ChildrenType
<1>3. /\ DOMAIN A = DOMAIN acts \cup C
      /\ ActsTyped(A)
      /\ \A i \in DOMAIN acts :
            /\ A[i].attemptsUsed = acts[i].attemptsUsed
            /\ i \notin P => A[i] = acts[i]
            /\ i \in P => A[i].status = "succeeded"
      /\ \A c \in C \ DOMAIN acts : A[c].status \in {"ready", "waiting_join"}
      /\ DOMAIN acts \cup C \subseteq Paths \ {<<>>}
  BY <1>1, EnabledType
<1> HIDE DEF A, C
<1>4. C \cap DOMAIN acts = {}
  <2> SUFFICES ASSUME NEW c \in C, c \in DOMAIN acts PROVE FALSE
    OBVIOUS
  <2>1. Parent(c) \in P /\ Parent(c) # <<>>
    BY <1>2
  <2>2. acts[Parent(c)].status = "succeeded"
    BY <1>1, <2>1 DEF Lineage
  <2> QED
    BY <2>1, <2>2 DEF Settled
<1>5. IsFiniteSet(DOMAIN acts \cup C)
      /\ Cardinality(DOMAIN acts \cup C) = Cardinality(DOMAIN acts) + Cardinality(C)
  <2>1. Cardinality(DOMAIN acts \cup C) =
          Cardinality(DOMAIN acts) + Cardinality(C) - Cardinality(DOMAIN acts \cap C)
    BY <1>1, <1>2, FS_Union
  <2>2. DOMAIN acts \cap C = {}
    BY <1>4
  <2>3. Cardinality(DOMAIN acts \cap C) = 0
    BY <2>2, FS_EmptySet
  <2>4. Cardinality(DOMAIN acts) \in Nat /\ Cardinality(C) \in Nat
    BY <1>1, <1>2, FS_CardinalityType
  <2>5. IsFiniteSet(DOMAIN acts \cup C)
    BY <1>1, <1>2, FS_Union
  <2> QED
    BY <2>1, <2>3, <2>4, <2>5
<1>6. Cardinality(C) \in Nat
  BY <1>2, FS_CardinalityType
<1>7. \A i \in DOMAIN acts :
        /\ A[i].status = "running" <=> acts[i].status = "running" /\ i \notin P
        /\ Settled(acts[i].status) => A[i] = acts[i]
  BY <1>1, <1>3 DEF TypeOK, Settled
<1>8. \A c \in C : Parent(c) # <<>> => /\ Parent(c) \in DOMAIN A
                                       /\ A[Parent(c)].status = "succeeded"
  BY <1>2, <1>3
<1>9. Rewrites(A, P)
  BY <1>3, <1>5, <1>7, <1>8 DEF Rewrites
<1> QED
  BY <1>3, <1>5, <1>6, <1>9 DEF A, C

\* Changing one running activation to another status rewrites that one.
LEMMA RewritesOne ==
    ASSUME IInv, NEW i \in DOMAIN acts, acts[i].status = "running", NEW r \in Activations,
           r.status # "running", r.attemptsUsed = acts[i].attemptsUsed
    PROVE  Rewrites([acts EXCEPT ![i] = r], {i})
BY DEF IInv, TypeOK, Rewrites, ActsTyped, Settled

\* Ending one unfinished attempt ends the attempts of its activation.
LEMMA EndsOne ==
    ASSUME IInv, NEW a \in DOMAIN attempts, ~Terminal(attempts[a].status),
           NEW r \in Attempts, Terminal(r.status)
    PROVE  EndsAttempts([attempts EXCEPT ![a] = r], {a[1]})
<1>1. \A b \in DOMAIN attempts : b[1] = a[1] /\ ~Terminal(attempts[b].status) => b = a
  BY LiveRunning DEF IInv
<1>2. \A b \in DOMAIN attempts : attempts[b] \in Attempts
  BY DEF IInv, TypeOK
<1> QED
  BY <1>1, <1>2 DEF EndsAttempts

-----------------------------------------------------------------------------
(* Commands that settle an attempt or enable work. *)

\* A success: the visit succeeds and enables successors, or blocks.
LEMMA SucceedStep ==
    ASSUME IInv, NEW a \in DOMAIN attempts, ~Terminal(attempts[a].status),
           NEW r \in Attempts, NEW o \in Results, Succeed(a, r, o)
    PROVE  IInv' /\ FinishedStep
<1> DEFINE i == a[1]
           P == {i}
           out == [p \in {i} |-> o]
           C == Children(P, out)
<1>1. i \in DOMAIN acts /\ acts[i].status = "running" /\ i # <<>> /\ acts[i] \in Activations
  BY LiveRunning DEF IInv, TypeOK
<1>2. /\ TypeOK /\ graph' = graph /\ exec \in ExecType
      /\ exec.used = Cardinality(DOMAIN acts) /\ exec.used <= exec.maxActivations
      /\ openGens \subseteq DOMAIN acts \cup {<<>>}
  BY DEF IInv, TypeOK, BudgetExact, ExecType, Succeed
<1>3. EndsAttempts(attempts', P)
  <2>1. [r EXCEPT !.status = "succeeded", !.outcome = o] \in Attempts
        /\ Terminal([r EXCEPT !.status = "succeeded", !.outcome = o].status)
    BY DEF Attempts, AttemptStatus, Terminal
  <2> QED
    BY <2>1, EndsOne DEF Succeed
<1>4. CASE /\ Fits(P, out, exec.maxActivations)
           /\ exec' = [exec EXCEPT !.used = @ + Cardinality(C)]
           /\ SettleGoal(EnabledActs(P, out), openGens \cup NewGenerations(P), FALSE)
  <2> DEFINE A == EnabledActs(P, out)
             O == openGens \cup NewGenerations(P)
  <2>1. P \subseteq DOMAIN acts \cup {<<>>} /\ IsFiniteSet(P)
        /\ (\A p \in P : p # <<>> => ~Settled(acts[p].status)) /\ <<>> \notin P
    BY <1>1, FS_Singleton DEF Settled
  <2>2. /\ Rewrites(A, P)
        /\ DOMAIN A = DOMAIN acts \cup C
        /\ Cardinality(C) \in Nat
        /\ Cardinality(DOMAIN A) = Cardinality(DOMAIN acts) + Cardinality(C)
    <3> HIDE DEF P, out
    <3> QED BY <2>1, RewritesEnabled
  <2>3. O \subseteq DOMAIN A \cup {<<>>}
    BY <1>2, <2>1, <2>2 DEF NewGenerations
  <2>4. exec' \in ExecType /\ exec'.used = Cardinality(DOMAIN A)
        /\ exec'.used <= exec'.maxActivations
    <3> HIDE DEF C, A, P, out
    <3> QED BY <1>2, <1>4, <2>2 DEF ExecType, Fits, C
  <2>5. SettleGoal(A, O, FALSE)
    BY <1>4
  <2> HIDE DEF A, O, P, C
  <2>6. /\ acts' = Reconciled(A, O)
        /\ goal' \in GoalStatuses
        /\ openGens' \subseteq DOMAIN A \cup {<<>>}
        /\ closedGens' \subseteq DOMAIN A \cup {<<>>}
    BY <1>2, <2>2, <2>3, <2>5, SettleGoalType
  <2> QED
    BY <1>2, <1>3, <2>2, <2>4, <2>6, SettleStep
<1>5. CASE /\ exec' = exec
           /\ SettleGoal([acts EXCEPT ![i] = BudgetBlocked(@, o)], openGens, FALSE)
  <2> DEFINE A == [acts EXCEPT ![i] = BudgetBlocked(@, o)]
  <2>1. /\ BudgetBlocked(acts[i], o) \in Activations
        /\ BudgetBlocked(acts[i], o).status = "blocked"
        /\ BudgetBlocked(acts[i], o).attemptsUsed = acts[i].attemptsUsed
    <3>1. Bumped(acts[i]) \in Activations /\ Bumped(acts[i]).attemptsUsed = acts[i].attemptsUsed
      BY <1>1, RowUpdates DEF ActStatus
    <3> QED
      BY <3>1 DEF BudgetBlocked, Activations, ActStatus
  <2>2. Rewrites(A, P)
    BY <1>1, <2>1, RewritesOne
  <2>3. DOMAIN A = DOMAIN acts /\ SettleGoal(A, openGens, FALSE)
    BY <1>5
  <2> HIDE DEF A, P
  <2>4. /\ acts' = Reconciled(A, openGens)
        /\ goal' \in GoalStatuses
        /\ openGens' \subseteq DOMAIN A \cup {<<>>}
        /\ closedGens' \subseteq DOMAIN A \cup {<<>>}
    BY <1>2, <2>3, SettleGoalType
  <2> QED
    BY <1>2, <1>3, <1>5, <2>2, <2>3, <2>4, SettleStep
<1> QED
  BY <1>4, <1>5 DEF Succeed, Route

\* A failure or a first or later cancellation: one activation leaves running.
LEMMA EndStep ==
    ASSUME IInv, graph' = graph, NEW A, NEW S, Rewrites(A, S), DOMAIN A = DOMAIN acts,
           EndsAttempts(attempts', S), NEW c \in BOOLEAN, SettleGoal(A, openGens, c),
           exec' \in ExecType, exec'.used = exec.used,
           exec'.maxActivations = exec.maxActivations
    PROVE  IInv' /\ FinishedStep
<1>1. /\ TypeOK /\ openGens \subseteq DOMAIN acts \cup {<<>>}
      /\ exec.used = Cardinality(DOMAIN acts) /\ exec.used <= exec.maxActivations
  BY DEF IInv, TypeOK, BudgetExact
<1>2. /\ acts' = Reconciled(A, openGens)
      /\ goal' \in GoalStatuses
      /\ openGens' \subseteq DOMAIN A \cup {<<>>}
      /\ closedGens' \subseteq DOMAIN A \cup {<<>>}
  BY <1>1, SettleGoalType
<1> QED
  BY <1>1, <1>2, SettleStep

LEMMA FailStep ==
    ASSUME IInv, NEW a \in DOMAIN attempts, ~Terminal(attempts[a].status),
           NEW r \in Attempts, Fail(a, r)
    PROVE  IInv' /\ FinishedStep
<1> DEFINE i == a[1]
           q == [Bumped(acts[i]) EXCEPT !.status = "failed"]
           A == [acts EXCEPT ![i] = q]
<1>1. i \in DOMAIN acts /\ acts[i].status = "running" /\ acts[i] \in Activations
      /\ exec \in ExecType /\ graph' = graph /\ exec' = exec /\ exec.cancelRequested \in BOOLEAN
  BY LiveRunning DEF IInv, TypeOK, ExecType, Fail
<1>2. q \in Activations /\ q.status = "failed" /\ q.attemptsUsed = acts[i].attemptsUsed
  <2>1. Bumped(acts[i]) \in Activations /\ Bumped(acts[i]).attemptsUsed = acts[i].attemptsUsed
    BY <1>1, RowUpdates DEF ActStatus
  <2> QED
    BY <2>1, RowUpdates DEF ActStatus
<1>3. SettleGoal(A, openGens, exec.cancelRequested)
  BY DEF Fail
<1> HIDE DEF q
<1>4. Rewrites(A, {i}) /\ DOMAIN A = DOMAIN acts
  BY <1>1, <1>2, RewritesOne
<1>5. EndsAttempts(attempts', {i})
  <2>1. [r EXCEPT !.status = "failed"] \in Attempts
        /\ Terminal([r EXCEPT !.status = "failed"].status)
    BY DEF Attempts, AttemptStatus, Terminal
  <2> QED
    BY <2>1, EndsOne DEF Fail
<1> HIDE DEF A, i
<1> QED
  BY <1>1, <1>3, <1>4, <1>5, EndStep

\* Activations and attempts a cancellation stops without an acknowledgement.
Unacknowledged(T) ==
    {b[1] : b \in {b \in DOMAIN T : ~Terminal(T[b].status) /\ ~NeedsAcknowledgement(T[b])}}

\* Stopping work ends the attempts nobody has to acknowledge.
LEMMA StoppedAttemptsEnd ==
    ASSUME NEW T, NEW S, EndsAttempts(T, S),
           \A b, d \in DOMAIN T :
               b[1] = d[1] /\ ~Terminal(T[b].status) /\ ~Terminal(T[d].status) => b = d
    PROVE  EndsAttempts(StoppedAttempts(T), S \cup Unacknowledged(T))
<1> DEFINE U == StoppedAttempts(T)
<1>1. DOMAIN U = DOMAIN T
      /\ \A b \in DOMAIN T : U[b] = IF Terminal(T[b].status) THEN T[b] ELSE CanceledAttempt(T[b])
  BY DEF StoppedAttempts
<1>2. ASSUME NEW b \in DOMAIN T
      PROVE  /\ CanceledAttempt(T[b]) \in Attempts
             /\ ~Terminal(T[b].status) =>
                   (Terminal(CanceledAttempt(T[b]).status) <=> ~NeedsAcknowledgement(T[b]))
  <2>1. T[b] \in Attempts
    BY DEF EndsAttempts
  <2>2. CASE NeedsAcknowledgement(T[b])
    BY <2>1, <2>2 DEF CanceledAttempt, Attempts, Terminal
  <2>3. CASE ~NeedsAcknowledgement(T[b])
    BY <2>1, <2>3 DEF CanceledAttempt, Attempts, AttemptStatus, Terminal
  <2> QED
    BY <2>2, <2>3
<1>3. \A b \in DOMAIN T : ~Terminal(T[b].status) =>
        (b[1] \in Unacknowledged(T) <=> ~NeedsAcknowledgement(T[b]))
  BY DEF Unacknowledged
<1> HIDE DEF U
<1>4. DOMAIN T = DOMAIN attempts
  BY DEF EndsAttempts
<1>5. ASSUME NEW b \in DOMAIN attempts
      PROVE  /\ U[b] \in Attempts
             /\ Terminal(attempts[b].status) => U[b] = attempts[b]
             /\ Terminal(U[b].status) <=> Terminal(attempts[b].status)
                                          \/ b[1] \in S \cup Unacknowledged(T)
  <2>1. CASE Terminal(T[b].status)
    <3>1. U[b] = T[b]
      BY <1>1, <1>4, <2>1
    <3>2. b[1] \in Unacknowledged(T) => Terminal(attempts[b].status) \/ b[1] \in S
      BY <2>1 DEF EndsAttempts
    <3> QED
      BY <2>1, <3>1, <3>2 DEF EndsAttempts
  <2>2. CASE ~Terminal(T[b].status)
    BY <1>1, <1>2, <1>3, <1>4, <2>2 DEF EndsAttempts
  <2> QED
    BY <2>1, <2>2
<1> QED
  BY <1>1, <1>4, <1>5 DEF EndsAttempts, U

\* Stopping activations rewrites those without an acknowledged attempt.
LEMMA RewritesStopped ==
    ASSUME NEW A, NEW S, Rewrites(A, S), DOMAIN A = DOMAIN acts, NEW T,
           \A i \in Unacknowledged(T) : A[i].status = "running" /\ ~Settled(acts[i].status)
    PROVE  Rewrites(StoppedActs(A, T), S \cup Unacknowledged(T))
           /\ DOMAIN StoppedActs(A, T) = DOMAIN acts
<1> DEFINE B == StoppedActs(A, T)
<1>1. DOMAIN B = DOMAIN acts
      /\ \A i \in DOMAIN A :
            B[i] = IF A[i].status \in {"ready", "failed", "blocked", "waiting_join"}
                   THEN [Bumped(A[i]) EXCEPT !.status = "canceled"]
                   ELSE IF i \in Unacknowledged(T)
                   THEN [A[i] EXCEPT !.status = "canceled"] ELSE A[i]
  <2>1. \A i : i \in Unacknowledged(T) <=>
            \E b \in DOMAIN T : b[1] = i /\ ~Terminal(T[b].status) /\ ~NeedsAcknowledgement(T[b])
    BY DEF Unacknowledged
  <2> QED
    BY <2>1 DEF StoppedActs
<1>2. ASSUME NEW i \in DOMAIN A
      PROVE  /\ [Bumped(A[i]) EXCEPT !.status = "canceled"] \in Activations
             /\ [Bumped(A[i]) EXCEPT !.status = "canceled"].status = "canceled"
             /\ [Bumped(A[i]) EXCEPT !.status = "canceled"].attemptsUsed = A[i].attemptsUsed
             /\ [A[i] EXCEPT !.status = "canceled"] \in Activations
             /\ [A[i] EXCEPT !.status = "canceled"].status = "canceled"
             /\ [A[i] EXCEPT !.status = "canceled"].attemptsUsed = A[i].attemptsUsed
  <2>1. A[i] \in Activations /\ "canceled" \in ActStatus
    BY DEF Rewrites, ActsTyped, ActStatus
  <2>2. Bumped(A[i]) \in Activations /\ Bumped(A[i]).attemptsUsed = A[i].attemptsUsed
    BY <2>1, RowUpdates
  <2> QED
    BY <2>1, <2>2, RowUpdates
<1> HIDE DEF B
<1>3. ActsTyped(B)
  <2> SUFFICES ASSUME NEW i \in DOMAIN A PROVE B[i] \in Activations
    BY <1>1 DEF ActsTyped
  <2>1. A[i] \in Activations
    BY DEF Rewrites, ActsTyped
  <2> QED
    BY <1>1, <1>2, <2>1
<1>4. ASSUME NEW i \in DOMAIN acts
      PROVE  /\ B[i].attemptsUsed = acts[i].attemptsUsed
             /\ B[i].status = "running" <=> acts[i].status = "running"
                                            /\ i \notin S \cup Unacknowledged(T)
             /\ Settled(acts[i].status) => B[i] = acts[i]
  <2>1. /\ A[i].attemptsUsed = acts[i].attemptsUsed
        /\ A[i].status = "running" <=> acts[i].status = "running" /\ i \notin S
        /\ Settled(acts[i].status) => A[i] = acts[i]
    BY DEF Rewrites
  <2>2. CASE A[i].status \in {"ready", "failed", "blocked", "waiting_join"}
    BY <1>1, <1>2, <2>1, <2>2 DEF Settled
  <2>3. CASE A[i].status \notin {"ready", "failed", "blocked", "waiting_join"}
    BY <1>1, <1>2, <2>1, <2>3
  <2> QED
    BY <2>2, <2>3
<1> QED
  BY <1>1, <1>3, <1>4 DEF Rewrites, B

\* One attempt settled as canceled, and with the first one everything else.
LEMMA CancelAttemptStep ==
    ASSUME IInv, NEW a \in DOMAIN attempts, ~Terminal(attempts[a].status), CancelAttempt(a)
    PROVE  IInv' /\ FinishedStep
<1> DEFINE i == a[1]
           q == [Bumped(acts[i]) EXCEPT !.status = "canceled"]
           A == [acts EXCEPT ![i] = q]
           r == [attempts[a] EXCEPT !.status = "canceled"]
           T == [attempts EXCEPT ![a] = r]
<1>1. i \in DOMAIN acts /\ acts[i].status = "running" /\ acts[i] \in Activations
      /\ exec \in ExecType /\ graph' = graph /\ attempts[a] \in Attempts
  BY LiveRunning DEF IInv, TypeOK, ExecType, CancelAttempt
<1>2. q \in Activations /\ q.status = "canceled" /\ q.attemptsUsed = acts[i].attemptsUsed
  <2>1. Bumped(acts[i]) \in Activations /\ Bumped(acts[i]).attemptsUsed = acts[i].attemptsUsed
    BY <1>1, RowUpdates DEF ActStatus
  <2> QED
    BY <2>1, RowUpdates DEF ActStatus
<1>3. exec' \in ExecType /\ exec'.used = exec.used /\ exec'.maxActivations = exec.maxActivations
  BY <1>1 DEF ExecType, CancelAttempt
<1>4. IF ~exec.cancelRequested
      THEN attempts' = StoppedAttempts(T) /\ SettleGoal(StoppedActs(A, T), openGens, TRUE)
      ELSE attempts' = T /\ SettleGoal(A, openGens, TRUE)
  BY DEF CancelAttempt
<1> HIDE DEF q
<1>5. Rewrites(A, {i}) /\ DOMAIN A = DOMAIN acts
  BY <1>1, <1>2, RewritesOne
<1>6. EndsAttempts(T, {i})
  <2>1. r \in Attempts /\ Terminal(r.status)
    BY <1>1 DEF Attempts, AttemptStatus, Terminal
  <2> HIDE DEF r
  <2> QED
    BY <2>1, EndsOne
<1>7. CASE ~exec.cancelRequested
  <2>1. \A b \in DOMAIN attempts : ~Terminal(attempts[b].status) =>
          /\ acts[b[1]].status = "running"
          /\ \A d \in DOMAIN attempts : d[1] = b[1] /\ ~Terminal(attempts[d].status) => d = b
    BY LiveRunning DEF IInv
  <2>2. \A b \in DOMAIN T : ~Terminal(T[b].status) =>
          b \in DOMAIN attempts /\ ~Terminal(attempts[b].status) /\ b[1] # i
    BY <1>6 DEF EndsAttempts
  <2>3. EndsAttempts(StoppedAttempts(T), {i} \cup Unacknowledged(T))
    <3> HIDE DEF T, i
    <3> QED BY <1>6, <2>1, <2>2, StoppedAttemptsEnd
  <2>4. \A k \in Unacknowledged(T) : A[k].status = "running" /\ ~Settled(acts[k].status)
    <3> SUFFICES ASSUME NEW b \in DOMAIN T, ~Terminal(T[b].status)
                 PROVE  A[b[1]].status = "running" /\ ~Settled(acts[b[1]].status)
      BY DEF Unacknowledged
    <3>1. b[1] # i /\ acts[b[1]].status = "running"
      BY <2>1, <2>2
    <3>2. A[b[1]] = acts[b[1]]
      BY <3>1
    <3> QED
      BY <3>1, <3>2 DEF Settled
  <2>5. Rewrites(StoppedActs(A, T), {i} \cup Unacknowledged(T))
        /\ DOMAIN StoppedActs(A, T) = DOMAIN acts
    <3> HIDE DEF A, T, i
    <3> QED BY <1>5, <2>4, RewritesStopped
  <2> HIDE DEF A, T, i
  <2> QED
    BY <1>1, <1>3, <1>4, <1>7, <2>3, <2>5, EndStep
<1>8. CASE exec.cancelRequested
  <2> HIDE DEF A, T, i
  <2> QED
    BY <1>1, <1>3, <1>4, <1>5, <1>6, <1>8, EndStep
<1> QED
  BY <1>7, <1>8

\* Nothing is rewritten by leaving the activations as they are.
LEMMA NoRewrite ==
    ASSUME IInv
    PROVE  Rewrites(acts, {}) /\ EndsAttempts(attempts, {})
<1>1. \A c \in DOMAIN acts \ DOMAIN acts : FALSE
  OBVIOUS
<1> QED
  BY <1>1 DEF IInv, TypeOK, Rewrites, ActsTyped, EndsAttempts

\* Without open generations joins are left alone.
LEMMA NothingReconciled ==
    ASSUME NEW A, A = [i \in DOMAIN A |-> A[i]]
    PROVE  Reconciled(A, {}) = A
<1>1. Arrived(A, {}) = {}
  BY DEF Arrived, Closable
<1> QED
  BY <1>1 DEF Reconciled

LEMMA CancelGoalStep ==
    ASSUME IInv, CancelGoal
    PROVE  IInv' /\ FinishedStep
<1> DEFINE S == {} \cup Unacknowledged(attempts)
           B == StoppedActs(acts, attempts)
<1>1. \A b \in DOMAIN attempts : ~Terminal(attempts[b].status) =>
        /\ acts[b[1]].status = "running"
        /\ \A d \in DOMAIN attempts : d[1] = b[1] /\ ~Terminal(attempts[d].status) => d = b
  BY LiveRunning DEF IInv
<1>2. EndsAttempts(attempts', S)
  <2>1. EndsAttempts(StoppedAttempts(attempts), S)
    BY <1>1, NoRewrite, StoppedAttemptsEnd
  <2> QED
    BY <2>1 DEF CancelGoal
<1>3. Rewrites(B, S) /\ DOMAIN B = DOMAIN acts
  <2>1. \A i \in Unacknowledged(attempts) :
          acts[i].status = "running" /\ ~Settled(acts[i].status)
    BY <1>1 DEF Unacknowledged, Settled
  <2> QED
    BY <2>1, NoRewrite, RewritesStopped
<1>4. acts' = Reconciled(B, {})
  <2>1. B = [i \in DOMAIN B |-> B[i]]
    BY DEF StoppedActs
  <2> HIDE DEF B
  <2>2. Reconciled(B, {}) = B
    BY <2>1, NothingReconciled
  <2> QED
    BY <2>2 DEF CancelGoal, B
<1>5. /\ exec \in ExecType
      /\ exec.used = Cardinality(DOMAIN acts) /\ exec.used <= exec.maxActivations
      /\ openGens \subseteq DOMAIN acts \cup {<<>>}
      /\ closedGens \subseteq DOMAIN acts \cup {<<>>}
  BY DEF IInv, TypeOK, BudgetExact, ExecType
<1>6. /\ exec' \in ExecType /\ exec'.used = exec.used
      /\ exec'.maxActivations = exec.maxActivations
      /\ goal' \in GoalStatuses /\ graph' = graph
      /\ openGens' = openGens /\ closedGens' = closedGens
  <2>1. [exec EXCEPT !.cancelRequested = @ \/ exec.used > 0] \in ExecType
    <3>1. (exec.cancelRequested \/ exec.used > 0) \in BOOLEAN
      OBVIOUS
    <3> QED
      BY <1>5, <3>1 DEF ExecType
  <2> QED
    BY <1>5, <2>1 DEF CancelGoal, GoalStatuses, ExecType
<1> HIDE DEF B, S
<1> QED
  BY <1>2, <1>3, <1>4, <1>5, <1>6, SettleStep

\* Dispatch: one visit starts running with one new attempt.
LEMMA DispatchStep ==
    ASSUME IInv, NEW i \in DOMAIN acts, DispatchRun(i)
    PROVE  IInv' /\ FinishedStep
<1> DEFINE n == acts[i].attemptsUsed + 1
           a == <<i, n>>
           q == Dispatched(acts[i])
<1>1. /\ acts[i] \in Activations /\ acts[i].attemptsUsed \in Nat
      /\ acts[i].status \in {"ready", "failed"}
  BY DEF IInv, TypeOK, Activations, DispatchRun, Dispatchable
<1>2. q \in Activations /\ q.status = "running" /\ q.attemptsUsed = n
  <2>1. Bumped(acts[i]) \in Activations
    BY <1>1, RowUpdates DEF ActStatus
  <2>2. n \in Nat /\ q = [Bumped(acts[i]) EXCEPT !.status = "running", !.attemptsUsed = n]
    BY <1>1 DEF Dispatched
  <2> HIDE DEF q, n
  <2> QED
    BY <2>1, <2>2, RowDispatched
<1>3. a \notin DOMAIN attempts /\ a \in (DOMAIN acts) \X Nat
  BY <1>1 DEF IInv, TypeOK
<1>4. /\ acts' = [acts EXCEPT ![i] = q]
      /\ attempts' = [b \in DOMAIN attempts \cup {a} |->
                         IF b = a THEN NewAttempt ELSE attempts[b]]
      /\ goal' = "active"
      /\ UNCHANGED <<graph, exec, openGens, closedGens>>
  BY DEF DispatchRun
<1>5. NewAttempt \in Attempts /\ ~Terminal(NewAttempt.status)
  BY DEF NewAttempt, Attempts, AttemptStatus, Results, Terminal
<1> HIDE DEF q
<1>6. /\ DOMAIN acts' = DOMAIN acts
      /\ acts'[i] = q
      /\ \A k \in DOMAIN acts \ {i} : acts'[k] = acts[k]
      /\ DOMAIN attempts' = DOMAIN attempts \cup {a}
      /\ attempts'[a] = NewAttempt
      /\ \A b \in DOMAIN attempts : attempts'[b] = attempts[b]
  BY <1>3, <1>4
<1>7. TypeOK'
  <2>1. Paths' = Paths /\ Activations' = Activations
    BY <1>4 DEF Paths, Activations
  <2>2. Attempts' = Attempts
    BY DEF Attempts
  <2>3. \A k \in DOMAIN acts' : acts'[k] \in Activations
    BY <1>2, <1>6 DEF IInv, TypeOK
  <2>4. ASSUME NEW b \in DOMAIN attempts'
        PROVE  /\ b \in (DOMAIN acts') \X Nat
               /\ b[2] \in 1 .. acts'[b[1]].attemptsUsed
               /\ attempts'[b] \in Attempts
    <3>1. CASE b = a
      BY <1>1, <1>2, <1>3, <1>5, <1>6, <3>1
    <3>2. CASE b # a
      <4>1. b \in DOMAIN attempts
        BY <1>6, <3>2
      <4>2. b \in (DOMAIN acts) \X Nat /\ b[2] \in 1 .. acts[b[1]].attemptsUsed
            /\ attempts[b] \in Attempts
        BY <4>1 DEF IInv, TypeOK
      <4>3. CASE b[1] = i
        BY <1>1, <1>2, <1>6, <4>1, <4>2, <4>3
      <4>4. CASE b[1] # i
        BY <1>6, <4>1, <4>2, <4>4
      <4> QED BY <4>3, <4>4
    <3> QED BY <3>1, <3>2
  <2>5. /\ graph' = graph /\ goal' \in GoalStatuses /\ exec' = exec
        /\ openGens' = openGens /\ closedGens' = closedGens
    BY <1>4 DEF GoalStatuses
  <2> QED
    BY <1>6, <2>1, <2>2, <2>3, <2>4, <2>5 DEF IInv, TypeOK
<1>8. OneLiveAttempt'
  <2>1. LatestAttempt(i)' = a /\ a \in Live'
    BY <1>2, <1>5, <1>6 DEF LatestAttempt, Live
  <2>2. \A b \in Live : b[1] # i
    BY <1>1 DEF IInv, OneLiveAttempt, Live, TypeOK
  <2>3. \A b : b \in Live' <=> b \in Live \/ b = a
    BY <1>3, <1>5, <1>6 DEF Live
  <2>4. \A k \in DOMAIN acts \ {i} :
          /\ LatestAttempt(k)' = LatestAttempt(k)
          /\ LatestAttempt(k) # a
    BY <1>6 DEF LatestAttempt
  <2>5. \A k \in DOMAIN acts' : acts'[k].status = "running" <=> LatestAttempt(k)' \in Live'
    <3>1. \A k \in DOMAIN acts \ {i} :
            acts'[k].status = "running" <=> LatestAttempt(k)' \in Live'
      BY <1>6, <2>3, <2>4 DEF IInv, OneLiveAttempt
    <3> QED
      BY <1>2, <1>6, <2>1, <3>1
  <2>6. \A b \in Live' : b = LatestAttempt(b[1])'
    <3> SUFFICES ASSUME NEW b \in Live' PROVE b = LatestAttempt(b[1])'
      OBVIOUS
    <3>1. CASE b = a
      BY <2>1, <3>1
    <3>2. CASE b # a
      <4>1. b \in Live /\ b[1] # i /\ b = LatestAttempt(b[1]) /\ b[1] \in DOMAIN acts
        BY <2>2, <2>3, <3>2 DEF IInv, OneLiveAttempt, TypeOK, Live
      <4> QED
        BY <2>4, <4>1
    <3> QED BY <3>1, <3>2
  <2> QED
    BY <2>5, <2>6 DEF OneLiveAttempt
<1>9. Lineage' /\ BudgetExact' /\ IsFiniteSet(DOMAIN acts')
  <2>1. BudgetExact' /\ IsFiniteSet(DOMAIN acts')
    BY <1>4, <1>6 DEF IInv, BudgetExact
  <2>2. Lineage'
    BY <1>1, <1>6 DEF IInv, Lineage, Parent
  <2> QED BY <2>1, <2>2
<1>10. FinishedStep
  BY <1>1, <1>6 DEF FinishedStep, Settled
<1> QED
  BY <1>7, <1>8, <1>9, <1>10 DEF IInv

\* Activation: the first one fans out from the start node, a later one only
\* marks the goal active.
LEMMA ActivateStep ==
    ASSUME IInv, ActivateGoal
    PROVE  IInv' /\ FinishedStep
<1> DEFINE P == {<<>>}
           out == [p \in {<<>>} |-> NoOutcome]
           C == Children(P, out)
           A == EnabledActs(P, out)
           O == NewGenerations(P)
<1>1. /\ exec \in ExecType /\ exec.used = Cardinality(DOMAIN acts)
      /\ IsFiniteSet(DOMAIN acts) /\ exec.used <= exec.maxActivations
      /\ goal' \in GoalStatuses /\ graph' = graph /\ attempts' = attempts
  BY DEF IInv, TypeOK, BudgetExact, ExecType, ActivateGoal, GoalStatuses
<1>2. CASE /\ exec.used = 0
           /\ Fits(P, out, exec.maxActivations)
           /\ exec' = [exec EXCEPT !.used = Cardinality(C)]
           /\ acts' = Reconciled(A, O)
           /\ openGens' = O \ Closed(A, O)
           /\ closedGens' = Closed(A, O)
  <2>1. DOMAIN acts = {}
    BY <1>1, <1>2, FS_EmptySet
  <2>2. P \subseteq DOMAIN acts \cup {<<>>} /\ IsFiniteSet(P)
        /\ \A p \in P : p # <<>> => ~Settled(acts[p].status)
    BY FS_Singleton
  <2> HIDE DEF out
  <2>3. /\ Rewrites(A, P)
        /\ Cardinality(C) \in Nat
        /\ Cardinality(DOMAIN A) = Cardinality(DOMAIN acts) + Cardinality(C)
    <3> HIDE DEF P
    <3> QED BY <2>1, <2>2, RewritesEnabled
  <2>4. Closed(A, O) \subseteq O /\ O \subseteq {<<>>}
    BY DEF Closed, Closable, Drained, NewGenerations
  <2>5. EndsAttempts(attempts', P)
    BY <1>1, <2>1 DEF IInv, TypeOK, EndsAttempts
  <2> HIDE DEF A, O, P, C
  <2>6. exec' \in ExecType /\ exec'.used = Cardinality(DOMAIN A)
        /\ exec'.used <= exec'.maxActivations
    <3>1. exec.used + Cardinality(C) <= exec.maxActivations
      BY <1>2 DEF Fits, C
    <3> QED
      BY <1>1, <1>2, <2>3, <3>1 DEF ExecType
  <2>7. openGens' \subseteq DOMAIN A \cup {<<>>} /\ closedGens' \subseteq DOMAIN A \cup {<<>>}
    BY <1>2, <2>4
  <2> QED
    BY <1>1, <1>2, <2>3, <2>5, <2>6, <2>7, SettleStep
<1>3. CASE UNCHANGED <<exec, acts, openGens, closedGens>>
  <2>1. ActsTyped(acts') /\ \A a \in DOMAIN attempts : attempts'[a] \in Attempts
    BY <1>1, <1>3 DEF IInv, TypeOK, ActsTyped
  <2>2. TypeOK'
    BY <1>1, <1>3, <2>1, TypeStep DEF IInv, TypeOK
  <2>3. OneLiveAttempt'
    BY <1>1, <1>3 DEF IInv, OneLiveAttempt, Live, LatestAttempt
  <2>4. Lineage' /\ BudgetExact' /\ IsFiniteSet(DOMAIN acts')
    BY <1>3 DEF IInv, Lineage, BudgetExact, Parent
  <2> QED
    BY <1>1, <1>3, <2>2, <2>3, <2>4 DEF IInv, FinishedStep
<1> QED
  BY <1>2, <1>3 DEF ActivateGoal

\* A new retry budget touches neither statuses nor counts.
LEMMA SetRetryBudgetStep ==
    ASSUME IInv, NEW n \in Nat, SetRetryBudget(n)
    PROVE  IInv' /\ FinishedStep
<1>1. /\ exec \in ExecType
      /\ exec' = [exec EXCEPT !.maxAttempts = n]
      /\ UNCHANGED <<graph, goal, openGens, closedGens, attempts>>
      /\ DOMAIN acts' = DOMAIN acts
      /\ \A i \in DOMAIN acts :
            acts'[i] = IF Settled(acts[i].status) THEN acts[i]
                       ELSE [Bumped(acts[i]) EXCEPT !.maxAttempts = n]
  BY DEF IInv, TypeOK, ExecType, SetRetryBudget
<1>2. ASSUME NEW i \in DOMAIN acts
      PROVE  /\ acts'[i] \in Activations
             /\ acts'[i].attemptsUsed = acts[i].attemptsUsed
             /\ acts'[i].status = acts[i].status
             /\ Settled(acts[i].status) => acts'[i] = acts[i]
  <2>1. acts[i] \in Activations
    BY DEF IInv, TypeOK
  <2>2. /\ Bumped(acts[i]) \in Activations
        /\ Bumped(acts[i]).attemptsUsed = acts[i].attemptsUsed
        /\ Bumped(acts[i]).status = acts[i].status
    BY <2>1, RowUpdates DEF ActStatus
  <2>3. /\ [Bumped(acts[i]) EXCEPT !.maxAttempts = n] \in Activations
        /\ [Bumped(acts[i]) EXCEPT !.maxAttempts = n].attemptsUsed = acts[i].attemptsUsed
        /\ [Bumped(acts[i]) EXCEPT !.maxAttempts = n].status = acts[i].status
    BY <2>2 DEF Activations
  <2> QED
    BY <1>1, <2>1, <2>3
<1>3. exec' \in ExecType /\ exec'.used = exec.used
      /\ exec'.maxActivations = exec.maxActivations
  BY <1>1 DEF ExecType
<1>4. TypeOK'
  <2>1. ActsTyped(acts') /\ \A a \in DOMAIN attempts : attempts'[a] \in Attempts
    BY <1>1, <1>2 DEF IInv, TypeOK, ActsTyped
  <2> QED
    BY <1>1, <1>2, <1>3, <2>1, TypeStep DEF IInv, TypeOK, ExecType
<1>5. OneLiveAttempt'
  <2>1. StopsRunning({})
    BY <1>1, <1>2 DEF StopsRunning
  <2> QED
    BY <2>1, LiveStep DEF IInv
<1>6. Lineage' /\ BudgetExact' /\ IsFiniteSet(DOMAIN acts')
  BY <1>1, <1>2, <1>3 DEF IInv, Lineage, BudgetExact, Parent
<1> QED
  BY <1>1, <1>2, <1>4, <1>5, <1>6 DEF IInv, FinishedStep

\* A new activation budget enables what the blocked parents it lets through
\* kept, all of it counted once.
LEMMA SetActivationBudgetStep ==
    ASSUME IInv, NEW n \in Nat, SetActivationBudget(n)
    PROVE  IInv' /\ FinishedStep
<1> DEFINE out == [i \in BlockedActs |-> acts[i].pending]
           Unblocked(R) ==
              [i \in DOMAIN EnabledActs(R, out) |->
                  IF i \in BlockedActs \ R
                  THEN BudgetBlocked(EnabledActs(R, out)[i], EnabledActs(R, out)[i].pending)
                  ELSE EnabledActs(R, out)[i]]
<1>1. PICK R \in SUBSET BlockedActs :
        /\ Fits(R, out, n)
        /\ exec' = [exec EXCEPT !.maxActivations = n,
                                !.used = @ + Cardinality(Children(R, out))]
        /\ SettleGoal(Unblocked(R), openGens \cup NewGenerations(R), FALSE)
  BY DEF SetActivationBudget, Affordable
<1> DEFINE E == EnabledActs(R, out)
           A == Unblocked(R)
           O == openGens \cup NewGenerations(R)
           C == Children(R, out)
<1> HIDE DEF out
<1>2. /\ TypeOK /\ exec \in ExecType /\ exec.used = Cardinality(DOMAIN acts)
      /\ IsFiniteSet(DOMAIN acts) /\ graph' = graph /\ attempts' = attempts
      /\ openGens \subseteq DOMAIN acts \cup {<<>>} /\ DOMAIN acts \subseteq Paths \ {<<>>}
  BY DEF IInv, TypeOK, BudgetExact, ExecType, SetActivationBudget
<1>3. \A i \in BlockedActs : i \in DOMAIN acts /\ acts[i].status = "blocked" /\ i # <<>>
  BY <1>2 DEF BlockedActs
<1>4. R \subseteq DOMAIN acts \cup {<<>>} /\ IsFiniteSet(R) /\ <<>> \notin R
      /\ \A p \in R : p # <<>> => ~Settled(acts[p].status)
  BY <1>2, <1>3, FS_Subset DEF Settled
<1>5. /\ Rewrites(E, R)
      /\ DOMAIN E = DOMAIN acts \cup C
      /\ Cardinality(C) \in Nat
      /\ Cardinality(DOMAIN E) = Cardinality(DOMAIN acts) + Cardinality(C)
  BY <1>4, RewritesEnabled
<1>6. \A i \in BlockedActs \ R : E[i] = acts[i]
  <2>1. \A i \in DOMAIN acts : i \notin R => E[i] = acts[i]
    BY DEF EnabledActs
  <2> QED
    BY <1>3, <2>1
<1>7. \A i \in BlockedActs \ R :
        /\ BudgetBlocked(E[i], E[i].pending) \in Activations
        /\ BudgetBlocked(E[i], E[i].pending).status = "blocked"
        /\ BudgetBlocked(E[i], E[i].pending).attemptsUsed = acts[i].attemptsUsed
  <2> SUFFICES ASSUME NEW i \in BlockedActs \ R
               PROVE  /\ BudgetBlocked(acts[i], acts[i].pending) \in Activations
                      /\ BudgetBlocked(acts[i], acts[i].pending).status = "blocked"
                      /\ BudgetBlocked(acts[i], acts[i].pending).attemptsUsed = acts[i].attemptsUsed
    BY <1>6
  <2>1. acts[i] \in Activations
    BY <1>2, <1>3 DEF TypeOK
  <2>2. Bumped(acts[i]) \in Activations /\ Bumped(acts[i]).attemptsUsed = acts[i].attemptsUsed
    BY <2>1, RowUpdates DEF ActStatus
  <2> QED
    BY <2>1, <2>2 DEF BudgetBlocked, Activations, ActStatus
<1>8. /\ DOMAIN A = DOMAIN E
      /\ \A i \in BlockedActs \ R : A[i] = BudgetBlocked(E[i], E[i].pending)
      /\ \A i \in DOMAIN E : i \notin BlockedActs \ R => A[i] = E[i]
  <2>1. BlockedActs \subseteq DOMAIN E
    BY <1>3, <1>5
  <2> QED
    BY <2>1
<1>9. SettleGoal(A, O, FALSE)
  BY <1>1
<1> HIDE DEF A, E
<1>10. Rewrites(A, R)
  <2>1. ActsTyped(A)
    BY <1>5, <1>7, <1>8 DEF Rewrites, ActsTyped
  <2>2. ASSUME NEW i \in DOMAIN acts
        PROVE  /\ A[i].attemptsUsed = acts[i].attemptsUsed
               /\ A[i].status = "running" <=> acts[i].status = "running" /\ i \notin R
               /\ Settled(acts[i].status) => A[i] = acts[i]
    <3>1. CASE i \in BlockedActs \ R
      BY <1>3, <1>7, <1>8, <3>1 DEF Settled
    <3>2. CASE i \notin BlockedActs \ R
      BY <1>5, <1>8, <3>2 DEF Rewrites
    <3> QED BY <3>1, <3>2
  <2>3. ASSUME NEW c \in DOMAIN A \ DOMAIN acts
        PROVE  /\ A[c].status \in {"ready", "waiting_join"}
               /\ Parent(c) # <<>> => /\ Parent(c) \in DOMAIN A
                                      /\ A[Parent(c)].status = "succeeded"
    <3>1. /\ E[c].status \in {"ready", "waiting_join"}
          /\ Parent(c) # <<>> => Parent(c) \in DOMAIN E /\ E[Parent(c)].status = "succeeded"
      BY <1>5, <1>8 DEF Rewrites
    <3>2. A[c] = E[c]
      BY <1>3, <1>8
    <3>3. \A i \in BlockedActs \ R : E[i].status = "blocked"
      BY <1>3, <1>6
    <3> QED
      BY <1>8, <3>1, <3>2, <3>3
  <2> QED
    BY <1>5, <1>8, <2>1, <2>2, <2>3 DEF Rewrites
<1>11. EndsAttempts(attempts', R)
  <2>1. \A b \in DOMAIN attempts : ~Terminal(attempts[b].status) => b[1] \notin R
    BY <1>3, LiveRunning DEF IInv
  <2>2. \A b \in DOMAIN attempts : attempts[b] \in Attempts
    BY <1>2 DEF TypeOK
  <2>3. \A b \in DOMAIN attempts : b[1] \in R => Terminal(attempts[b].status)
    BY <2>1
  <2> QED
    BY <1>2, <2>2, <2>3 DEF EndsAttempts
<1>12. O \subseteq DOMAIN A \cup {<<>>}
  BY <1>2, <1>4, <1>5, <1>8 DEF NewGenerations
<1> HIDE DEF O
<1>13. /\ acts' = Reconciled(A, O)
       /\ goal' \in GoalStatuses
       /\ openGens' \subseteq DOMAIN A \cup {<<>>}
       /\ closedGens' \subseteq DOMAIN A \cup {<<>>}
  BY <1>2, <1>5, <1>8, <1>9, <1>12, SettleGoalType
<1>14. exec' \in ExecType /\ exec'.used = Cardinality(DOMAIN A)
       /\ exec'.used <= exec'.maxActivations
  <2>1. exec.used + Cardinality(C) <= n
    BY <1>1 DEF Fits
  <2>2. exec' = [exec EXCEPT !.maxActivations = n, !.used = exec.used + Cardinality(C)]
    BY <1>1
  <2> HIDE DEF C
  <2> DEFINE m == exec.used + Cardinality(C)
  <2>3. m \in Nat /\ m = Cardinality(DOMAIN A)
    BY <1>2, <1>5, <1>8 DEF ExecType
  <2>4. exec' = [exec EXCEPT !.maxActivations = n, !.used = m]
    BY <2>2
  <2> HIDE DEF m
  <2>5. exec' \in ExecType /\ exec'.used = m /\ exec'.maxActivations = n
    BY <1>2, <2>3, <2>4 DEF ExecType
  <2> QED
    BY <2>1, <2>3, <2>5 DEF m
<1> QED
  BY <1>2, <1>10, <1>11, <1>13, <1>14, SettleStep

-----------------------------------------------------------------------------
(* The invariant. *)

\* A gate that settles nothing records the review or the evidence.
LEMMA SettleGateStep ==
    ASSUME IInv, NEW a \in DOMAIN attempts, ~Terminal(attempts[a].status),
           NEW r \in Attempts, ~Terminal(r.status), SettleGate(a, r)
    PROVE  IInv' /\ FinishedStep
<1>1. CASE Fail(a, r)
  BY <1>1, FailStep
<1>2. CASE Succeed(a, r, r.outcome)
  <2>1. r.outcome \in Results
    BY DEF Attempts
  <2> QED
    BY <1>2, <2>1, SucceedStep
<1>3. CASE /\ attempts' = [attempts EXCEPT ![a] = r]
           /\ UNCHANGED <<graph, goal, exec, acts, openGens, closedGens>>
  BY <1>3, UnsettledAttemptStep
<1> QED
  BY <1>1, <1>2, <1>3 DEF SettleGate

LEMMA InvariantInit ==
    Init => IInv
<1> SUFFICES ASSUME Init PROVE IInv
  OBVIOUS
<1>1. graph \in Graphs /\ graph.maxActivations \in Nat /\ DefaultAttempts \in Nat
  BY GraphsAssumption, BudgetsAssumption DEF Init
<1>2. DOMAIN acts = {} /\ DOMAIN attempts = {} /\ openGens = {} /\ closedGens = {}
  BY DEF Init
<1>3. IsFiniteSet(DOMAIN acts) /\ Cardinality(DOMAIN acts) = 0
  BY <1>2, FS_EmptySet
<1>4. TypeOK
  BY <1>1, <1>2 DEF Init, TypeOK, GoalStatuses
<1>5. BudgetExact
  BY <1>1, <1>3 DEF Init, BudgetExact
<1>6. Lineage /\ OneLiveAttempt
  BY <1>2 DEF Lineage, OneLiveAttempt, Live
<1> QED
  BY <1>3, <1>4, <1>5, <1>6 DEF IInv

\* Every command of a host or an operator keeps the invariant and leaves what
\* is finished alone.
LEMMA InvariantStep ==
    IInv /\ [Next]_vars => IInv' /\ FinishedStep
<1> SUFFICES ASSUME IInv, [Next]_vars
             PROVE  IInv' /\ FinishedStep
  OBVIOUS
<1>1. ASSUME NEW a \in DOMAIN attempts, HostStep(a)
      PROVE  IInv' /\ FinishedStep
  <2>1. attempts[a] \in Attempts
    BY DEF IInv, TypeOK
  <2>2. CASE ClaimAttempt(a)
    <3> DEFINE r == [attempts[a] EXCEPT !.owned = TRUE,
                        !.status = IF graph.protocol = 2 THEN @ ELSE "running"]
    <3>1. r \in Attempts /\ ~Terminal(r.status) /\ ~Terminal(attempts[a].status)
      BY <2>1, <2>2 DEF ClaimAttempt, Attempts, AttemptStatus, Terminal
    <3>2. attempts' = [attempts EXCEPT ![a] = r]
      BY <2>2 DEF ClaimAttempt
    <3> HIDE DEF r
    <3> QED
      BY <2>2, <3>1, <3>2, UnsettledAttemptStep DEF ClaimAttempt
  <2>3. CASE StartAttempt(a)
    <3> DEFINE r == [attempts[a] EXCEPT !.session = TRUE, !.status = "running"]
    <3>1. r \in Attempts /\ ~Terminal(r.status) /\ ~Terminal(attempts[a].status)
      BY <2>1, <2>3 DEF StartAttempt, Attempts, AttemptStatus, Terminal
    <3>2. attempts' = [attempts EXCEPT ![a] = r]
      BY <2>3 DEF StartAttempt
    <3> HIDE DEF r
    <3> QED
      BY <2>3, <3>1, <3>2, UnsettledAttemptStep DEF StartAttempt
  <2>4. ASSUME NEW s \in ProgressReports, ReportProgress(a, s)
        PROVE  IInv' /\ FinishedStep
    <3> DEFINE r == [attempts[a] EXCEPT !.status = s]
    <3>1. r \in Attempts /\ ~Terminal(r.status) /\ ~Terminal(attempts[a].status)
      BY <2>1, <2>4, ProgressAssumption
         DEF ReportProgress, MayReport, Attempts, AttemptStatus, Terminal
    <3>2. attempts' = [attempts EXCEPT ![a] = r]
      BY <2>4 DEF ReportProgress
    <3> HIDE DEF r
    <3> QED
      BY <2>4, <3>1, <3>2, UnsettledAttemptStep DEF ReportProgress
  <2>5. ASSUME NEW o \in Results, ReportSucceeded(a, o)
        PROVE  IInv' /\ FinishedStep
    <3>1. ~Terminal(attempts[a].status)
      BY <2>5 DEF ReportSucceeded, MayReport
    <3>2. CASE Succeed(a, attempts[a], o)
      BY <2>1, <3>1, <3>2, SucceedStep
    <3>3. CASE /\ attempts' = [attempts EXCEPT ![a].status = "paused",
                                               ![a].completion = TRUE, ![a].outcome = o]
               /\ UNCHANGED <<graph, goal, exec, acts, openGens, closedGens>>
      <4> DEFINE r == [attempts[a] EXCEPT !.status = "paused",
                                          !.completion = TRUE, !.outcome = o]
      <4>1. r \in Attempts /\ ~Terminal(r.status)
        BY <2>1 DEF Attempts, AttemptStatus, Terminal
      <4>2. attempts' = [attempts EXCEPT ![a] = r]
        BY <3>3
      <4> HIDE DEF r
      <4> QED
        BY <3>1, <3>3, <4>1, <4>2, UnsettledAttemptStep
    <3> QED
      BY <2>5, <3>2, <3>3 DEF ReportSucceeded
  <2>6. CASE ReportFailed(a)
    BY <2>1, <2>6, FailStep DEF ReportFailed, MayReport
  <2>7. CASE ReportCanceled(a)
    BY <2>7, CancelAttemptStep DEF ReportCanceled, MayReport
  <2> QED
    BY <1>1, <2>2, <2>3, <2>4, <2>5, <2>6, <2>7 DEF HostStep
<1>2. CASE ActivateGoal
  BY <1>2, ActivateStep
<1>3. ASSUME NEW i \in DOMAIN acts, DispatchRun(i)
      PROVE  IInv' /\ FinishedStep
  BY <1>3, DispatchStep
<1>4. ASSUME NEW a \in DOMAIN attempts, NEW v \in Verdicts, ReviewAttempt(a, v)
      PROVE  IInv' /\ FinishedStep
  <2> DEFINE r == [attempts[a] EXCEPT !.review = v]
  <2>1. attempts[a] \in Attempts /\ ~Terminal(attempts[a].status) /\ SettleGate(a, r)
    BY <1>4 DEF IInv, TypeOK, ReviewAttempt
  <2>2. r \in Attempts /\ ~Terminal(r.status)
    BY <2>1 DEF Attempts, Terminal
  <2> HIDE DEF r
  <2> QED
    BY <2>1, <2>2, SettleGateStep
<1>5. ASSUME NEW a \in DOMAIN attempts, RecordEvidence(a)
      PROVE  IInv' /\ FinishedStep
  <2> DEFINE r == [attempts[a] EXCEPT !.evidence = TRUE,
                      !.review = IF @ = "none" THEN "pending" ELSE @]
  <2>1. attempts[a] \in Attempts /\ ~Terminal(attempts[a].status) /\ SettleGate(a, r)
    BY <1>5 DEF IInv, TypeOK, RecordEvidence
  <2>2. r \in Attempts /\ ~Terminal(r.status)
    BY <2>1 DEF Attempts, Terminal
  <2> HIDE DEF r
  <2> QED
    BY <2>1, <2>2, SettleGateStep
<1>6. ASSUME NEW a \in DOMAIN attempts, AbandonAttempt(a)
      PROVE  IInv' /\ FinishedStep
  <2>1. ~Terminal(attempts[a].status) /\ attempts[a] \in Attempts
    BY <1>6 DEF AbandonAttempt, IInv, TypeOK
  <2>2. CASE CancelAttempt(a)
    BY <2>1, <2>2, CancelAttemptStep
  <2>3. CASE Fail(a, attempts[a])
    BY <2>1, <2>3, FailStep
  <2> QED
    BY <1>6, <2>2, <2>3 DEF AbandonAttempt
<1>7. CASE CancelGoal
  BY <1>7, CancelGoalStep
<1>8. ASSUME NEW n \in RetryBudgets, SetRetryBudget(n)
      PROVE  IInv' /\ FinishedStep
  BY <1>8, SetRetryBudgetStep, BudgetsAssumption
<1>9. ASSUME NEW n \in ActivationBudgets, SetActivationBudget(n)
      PROVE  IInv' /\ FinishedStep
  BY <1>9, SetActivationBudgetStep, BudgetsAssumption
<1>10. CASE UNCHANGED vars
  <2> USE <1>10 DEF vars
  <2>1. ActsTyped(acts') /\ \A a \in DOMAIN attempts : attempts'[a] \in Attempts
    BY DEF IInv, TypeOK, ActsTyped
  <2>2. TypeOK'
    BY <2>1, TypeStep DEF IInv, TypeOK
  <2>3. OneLiveAttempt' /\ Lineage' /\ BudgetExact' /\ IsFiniteSet(DOMAIN acts')
    BY DEF IInv, OneLiveAttempt, Live, LatestAttempt, Lineage, BudgetExact, Parent
  <2> QED
    BY <2>2, <2>3 DEF IInv, FinishedStep
<1> QED
  BY <1>1, <1>2, <1>3, <1>4, <1>5, <1>6, <1>7, <1>8, <1>9, <1>10 DEF Next, OperatorStep

LEMMA Invariance ==
    Spec => []IInv
<1>1. Init => IInv
  BY InvariantInit
<1>2. IInv /\ [Next]_vars => IInv'
  BY InvariantStep
<1> QED
  BY <1>1, <1>2, PTL DEF Spec

-----------------------------------------------------------------------------
(* Theorems. *)

\* Rows keep their types, and every attempt belongs to an activation that has
\* counted it, whatever the graph, the budgets and the verdicts are.
THEOREM TypeCorrect ==
    Spec => []TypeOK
<1>1. IInv => TypeOK
  BY DEF IInv
<1> QED
  BY <1>1, Invariance, PTL

\* activations_used is the number of activation rows and never exceeds the
\* budget in force: fan-out, completion and the replay of blocked results never
\* create a row twice, whatever the graph does in its cycles.
THEOREM BudgetAlwaysExact ==
    Spec => []BudgetExact
<1>1. IInv => BudgetExact
  BY DEF IInv
<1> QED
  BY <1>1, Invariance, PTL

\* A visit is running exactly while its latest attempt is unfinished, and no
\* earlier attempt of it is.
THEOREM OneLiveAttemptAlways ==
    Spec => []OneLiveAttempt
<1>1. IInv => OneLiveAttempt
  BY DEF IInv
<1> QED
  BY <1>1, Invariance, PTL

\* Settled visits are never reopened and finished attempts never change.
THEOREM FinishedStaysFinal ==
    Spec => FinishedIsFinal
<1>1. IInv /\ [Next]_vars => [FinishedStep]_vars
  BY InvariantStep
<1> QED
  BY <1>1, Invariance, PTL DEF Spec, FinishedIsFinal, FinishedStep

-----------------------------------------------------------------------------
(* Cancellation and completion gates: after a cancellation only acknowledged *)
(* execution is outstanding and nothing new is enabled, no gate is passed    *)
(* unmet, and a pending completion keeps its result.  The commands are first *)
(* sorted by what they do to the one attempt they are about (StepKinds).     *)


\* What one attempt's row keeps when it becomes r.
Frozen(q, r) ==
    q.completion => /\ r.completion
                    /\ r.outcome = q.outcome
                    /\ graph.protocol = 2 => r.status # "running"

\* Where hosts record sessions, a pending completion has one: the reason why
\* the attempt cannot be started again.
Pending(r) ==
    graph.protocol = 2 /\ r.completion => r.session /\ r.status # "running"

CancelInv ==
    /\ CancelFence
    /\ exec.cancelRequested => exec.used > 0
    /\ goal = "canceled" => Live = {}
    /\ \A a \in DOMAIN attempts : Pending(attempts[a])

-----------------------------------------------------------------------------
(* The kinds of steps. *)

\* A claim, a start, progress, a success that waits for its gates, or a review
\* or evidence that settles nothing.
Recorded(a, r) ==
    /\ ~Terminal(attempts[a].status)
    /\ r \in Attempts
    /\ ~Terminal(r.status)
    /\ attempts' = [attempts EXCEPT ![a] = r]
    /\ UNCHANGED <<graph, goal, exec, acts, openGens, closedGens>>
    /\ r.cancelRequested = attempts[a].cancelRequested
    /\ r.cancelRequested /\ NeedsAcknowledgement(attempts[a]) => NeedsAcknowledgement(r)
    /\ Pending(attempts[a]) => Frozen(attempts[a], r) /\ Pending(r)

Succeeded(a, r, o) ==
    /\ ~Terminal(attempts[a].status)
    /\ ~attempts[a].cancelRequested
    /\ goal # "canceled"
    /\ r \in Attempts
    /\ o \in Results
    /\ GatePassed(a, r)
    /\ attempts[a].completion => o = attempts[a].outcome
    /\ r.completion = attempts[a].completion
    /\ r.session = attempts[a].session
    /\ Succeed(a, r, o)

Failed(a, r) ==
    /\ ~Terminal(attempts[a].status)
    /\ ~attempts[a].cancelRequested
    /\ goal # "canceled"
    /\ r \in Attempts
    /\ r.completion = attempts[a].completion
    /\ r.outcome = attempts[a].outcome
    /\ r.session = attempts[a].session
    /\ Fail(a, r)

AttemptKinds(a) ==
    \/ \E r : Recorded(a, r)
    \/ \E r, o : Succeeded(a, r, o)
    \/ \E r : Failed(a, r)
    \/ ~Terminal(attempts[a].status) /\ CancelAttempt(a)

\* A review or evidence settles a paused completion or is only recorded.
LEMMA GateKinds ==
    ASSUME IInv, NEW a \in DOMAIN attempts, ~Terminal(attempts[a].status),
           NEW r \in Attempts, r.status = attempts[a].status, r.owned = attempts[a].owned,
           r.cancelRequested = attempts[a].cancelRequested,
           r.session = attempts[a].session, r.completion = attempts[a].completion,
           r.outcome = attempts[a].outcome, SettleGate(a, r)
    PROVE  AttemptKinds(a)
<1> DEFINE settling == r.status = "paused" /\ r.completion
<1>1. settling => ~attempts[a].cancelRequested /\ goal # "canceled"
  BY DEF SettleGate, MayReport
<1>2. CASE settling /\ Fail(a, r)
  BY <1>1, <1>2 DEF Failed, AttemptKinds
<1>3. CASE settling /\ GatePassed(a, r) /\ Succeed(a, r, r.outcome)
  <2>1. r.outcome \in Results
    BY DEF Attempts
  <2>2. Succeeded(a, r, r.outcome)
    BY <1>1, <1>3, <2>1 DEF Succeeded
  <2> QED
    BY <2>2 DEF AttemptKinds
<1>4. CASE /\ attempts' = [attempts EXCEPT ![a] = r]
           /\ UNCHANGED <<graph, goal, exec, acts, openGens, closedGens>>
  <2>1. Recorded(a, r)
    BY <1>4 DEF Recorded, NeedsAcknowledgement, Frozen, Pending
  <2> QED
    BY <2>1 DEF AttemptKinds
<1> QED
  BY <1>2, <1>3, <1>4 DEF SettleGate

LEMMA HostKinds ==
    ASSUME IInv, NEW a \in DOMAIN attempts, HostStep(a)
    PROVE  AttemptKinds(a)
<1>1. attempts[a] \in Attempts
  BY DEF IInv, TypeOK
<1>2. CASE ClaimAttempt(a)
  <2> DEFINE r == [attempts[a] EXCEPT !.owned = TRUE,
                      !.status = IF graph.protocol = 2 THEN @ ELSE "running"]
  <2>1. /\ r \in Attempts /\ ~Terminal(r.status) /\ r.cancelRequested = attempts[a].cancelRequested
        /\ r.completion = attempts[a].completion /\ r.owned
    BY <1>1, <1>2 DEF ClaimAttempt, Attempts, AttemptStatus, Terminal
  <2>2. attempts' = [attempts EXCEPT ![a] = r]
    BY <1>2 DEF ClaimAttempt
  <2> HIDE DEF r
  <2>3. Recorded(a, r)
    BY <1>2, <2>1, <2>2 DEF ClaimAttempt, Recorded, NeedsAcknowledgement, Frozen, Pending
  <2> QED
    BY <2>3 DEF AttemptKinds
<1>3. CASE StartAttempt(a)
  <2> DEFINE r == [attempts[a] EXCEPT !.session = TRUE, !.status = "running"]
  <2>1. /\ r \in Attempts /\ ~Terminal(r.status) /\ r.cancelRequested = attempts[a].cancelRequested
        /\ r.completion = attempts[a].completion /\ r.outcome = attempts[a].outcome
    BY <1>1, <1>3 DEF StartAttempt, Attempts, AttemptStatus, Terminal
  <2>2. attempts' = [attempts EXCEPT ![a] = r]
    BY <1>3 DEF StartAttempt
  <2> HIDE DEF r
  <2>3. Recorded(a, r)
    BY <1>3, <2>1, <2>2 DEF StartAttempt, Recorded, Frozen, Pending
  <2> QED
    BY <2>3 DEF AttemptKinds
<1>4. ASSUME NEW s \in ProgressReports, ReportProgress(a, s) PROVE AttemptKinds(a)
  <2> DEFINE r == [attempts[a] EXCEPT !.status = s]
  <2>1. /\ r \in Attempts /\ ~Terminal(r.status) /\ r.cancelRequested = attempts[a].cancelRequested
        /\ r.completion = attempts[a].completion
    BY <1>1, <1>4, ProgressAssumption DEF Attempts, AttemptStatus, Terminal
  <2>2. attempts' = [attempts EXCEPT ![a] = r] /\ ~Terminal(attempts[a].status)
        /\ ~attempts[a].cancelRequested
    BY <1>4, ProgressAssumption DEF ReportProgress, MayReport
  <2> HIDE DEF r
  <2>3. Recorded(a, r)
    BY <1>4, <2>1, <2>2 DEF ReportProgress, Recorded, Frozen, Pending
  <2> QED
    BY <2>3 DEF AttemptKinds
<1>5. ASSUME NEW o \in Results, ReportSucceeded(a, o) PROVE AttemptKinds(a)
  <2>1. ~Terminal(attempts[a].status) /\ ~attempts[a].cancelRequested /\ goal # "canceled"
        /\ (attempts[a].completion => o = attempts[a].outcome)
        /\ (graph.protocol = 2 => attempts[a].session)
    BY <1>5 DEF ReportSucceeded, MayReport
  <2>2. CASE GatePassed(a, attempts[a]) /\ Succeed(a, attempts[a], o)
    <3>1. Succeeded(a, attempts[a], o)
      BY <1>1, <1>5, <2>1, <2>2 DEF Succeeded
    <3> QED
      BY <3>1 DEF AttemptKinds
  <2>3. CASE /\ attempts' = [attempts EXCEPT ![a].status = "paused",
                                             ![a].completion = TRUE, ![a].outcome = o]
             /\ UNCHANGED <<graph, goal, exec, acts, openGens, closedGens>>
    <3> DEFINE r == [attempts[a] EXCEPT !.status = "paused",
                                        !.completion = TRUE, !.outcome = o]
    <3>1. /\ r \in Attempts /\ r.status = "paused" /\ r.completion /\ r.outcome = o
          /\ r.cancelRequested = attempts[a].cancelRequested
          /\ r.session = attempts[a].session
      BY <1>1 DEF Attempts, AttemptStatus
    <3>2. attempts' = [attempts EXCEPT ![a] = r]
      BY <2>3
    <3> HIDE DEF r
    <3>3. Recorded(a, r)
      BY <2>1, <2>3, <3>1, <3>2 DEF Recorded, Frozen, Pending, Terminal
    <3> QED
      BY <3>3 DEF AttemptKinds
  <2> QED
    BY <1>5, <2>2, <2>3 DEF ReportSucceeded
<1>6. CASE ReportFailed(a)
  <2>1. Failed(a, attempts[a])
    BY <1>1, <1>6 DEF ReportFailed, MayReport, Failed
  <2> QED
    BY <2>1 DEF AttemptKinds
<1>7. CASE ReportCanceled(a)
  BY <1>7 DEF ReportCanceled, MayReport, AttemptKinds
<1> QED
  BY <1>2, <1>3, <1>4, <1>5, <1>6, <1>7 DEF HostStep

\* Every step is one of these.
Kinds ==
    \/ \E a \in DOMAIN attempts : AttemptKinds(a)
    \/ ActivateGoal
    \/ \E i \in DOMAIN acts : DispatchRun(i)
    \/ CancelGoal
    \/ \E n \in RetryBudgets : SetRetryBudget(n)
    \/ \E n \in ActivationBudgets : SetActivationBudget(n)
    \/ UNCHANGED vars

LEMMA StepKinds ==
    ASSUME IInv, [Next]_vars
    PROVE  Kinds
<1>1. ASSUME NEW a \in DOMAIN attempts, HostStep(a) PROVE Kinds
  BY <1>1, HostKinds DEF Kinds
<1>2. ASSUME NEW a \in DOMAIN attempts, NEW v \in Verdicts, ReviewAttempt(a, v) PROVE Kinds
  <2> DEFINE r == [attempts[a] EXCEPT !.review = v]
  <2>1. attempts[a] \in Attempts /\ ~Terminal(attempts[a].status) /\ SettleGate(a, r)
    BY <1>2 DEF IInv, TypeOK, ReviewAttempt
  <2>2. /\ r \in Attempts /\ r.status = attempts[a].status /\ r.owned = attempts[a].owned
        /\ r.cancelRequested = attempts[a].cancelRequested
        /\ r.session = attempts[a].session /\ r.completion = attempts[a].completion
        /\ r.outcome = attempts[a].outcome
    BY <2>1 DEF Attempts
  <2> HIDE DEF r
  <2> QED
    BY <2>1, <2>2, GateKinds DEF Kinds
<1>3. ASSUME NEW a \in DOMAIN attempts, RecordEvidence(a) PROVE Kinds
  <2> DEFINE r == [attempts[a] EXCEPT !.evidence = TRUE,
                      !.review = IF @ = "none" THEN "pending" ELSE @]
  <2>1. attempts[a] \in Attempts /\ ~Terminal(attempts[a].status) /\ SettleGate(a, r)
    BY <1>3 DEF IInv, TypeOK, RecordEvidence
  <2>2. /\ r \in Attempts /\ r.status = attempts[a].status /\ r.owned = attempts[a].owned
        /\ r.cancelRequested = attempts[a].cancelRequested
        /\ r.session = attempts[a].session /\ r.completion = attempts[a].completion
        /\ r.outcome = attempts[a].outcome
    BY <2>1 DEF Attempts
  <2> HIDE DEF r
  <2> QED
    BY <2>1, <2>2, GateKinds DEF Kinds
<1>4. ASSUME NEW a \in DOMAIN attempts, AbandonAttempt(a) PROVE Kinds
  <2>1. attempts[a] \in Attempts /\ ~Terminal(attempts[a].status)
    BY <1>4 DEF IInv, TypeOK, AbandonAttempt
  <2>2. CASE CancelAttempt(a)
    BY <2>1, <2>2 DEF AttemptKinds, Kinds
  <2>3. CASE ~attempts[a].cancelRequested /\ goal # "canceled" /\ Fail(a, attempts[a])
    <3>1. Failed(a, attempts[a])
      BY <2>1, <2>3 DEF Failed
    <3> QED
      BY <3>1 DEF AttemptKinds, Kinds
  <2> QED
    BY <1>4, <2>2, <2>3 DEF AbandonAttempt
<1> QED
  BY <1>1, <1>2, <1>3, <1>4 DEF Next, OperatorStep, Kinds

-----------------------------------------------------------------------------
(* What every step keeps. *)

NoNewWork ==
    /\ exec.cancelRequested =>
          /\ exec'.cancelRequested
          /\ DOMAIN acts' = DOMAIN acts
          /\ DOMAIN attempts' = DOMAIN attempts
          /\ \A i \in DOMAIN acts : acts'[i].status = "succeeded" => acts[i].status = "succeeded"
    /\ goal = "canceled" => goal' = "canceled"

FrozenStep == \A a \in DOMAIN attempts : Frozen(attempts[a], attempts'[a])

GatedStep ==
    \A a \in DOMAIN attempts :
        attempts[a].status # "succeeded" /\ attempts'[a].status = "succeeded" =>
            GatePassed(a, attempts'[a])

Kept == CancelInv' /\ NoNewWork /\ FrozenStep /\ GatedStep

\* A row that ends, or that nothing happens to, keeps what it reported.
Keeps(q, r) ==
    /\ r.completion = q.completion
    /\ r.session = q.session
    /\ q.completion => r.outcome = q.outcome
    /\ r.status = q.status \/ Terminal(r.status)

\* Rows that keep what they reported, and new ones, stay frozen.
LEMMA RowsKept ==
    ASSUME CancelInv, graph' = graph, DOMAIN attempts \subseteq DOMAIN attempts',
           \A a \in DOMAIN attempts : Keeps(attempts[a], attempts'[a]),
           \A a \in DOMAIN attempts' \ DOMAIN attempts : ~attempts'[a].completion
    PROVE  FrozenStep /\ (\A a \in DOMAIN attempts : Pending(attempts[a]))'
<1>1. \A a \in DOMAIN attempts : Pending(attempts[a])
  BY DEF CancelInv
<1>2. \A a \in DOMAIN attempts : Frozen(attempts[a], attempts'[a])
  BY <1>1 DEF Frozen, Pending, Keeps, Terminal
<1>3. \A a \in DOMAIN attempts : Pending(attempts[a])'
  BY <1>1 DEF Pending, Keeps, Terminal
<1>4. \A a \in DOMAIN attempts' \ DOMAIN attempts : Pending(attempts[a])'
  BY DEF Pending
<1>5. \A a \in DOMAIN attempts' : Pending(attempts[a])'
  BY <1>3, <1>4
<1> QED
  BY <1>2, <1>5 DEF FrozenStep

\* A step of a goal that is not being canceled.
LEMMA OrdinaryStep ==
    ASSUME CancelInv, ~exec.cancelRequested, ~exec'.cancelRequested,
           goal # "canceled", goal' # "canceled", graph' = graph,
           DOMAIN attempts \subseteq DOMAIN attempts',
           \A a \in DOMAIN attempts : Keeps(attempts[a], attempts'[a]),
           \A a \in DOMAIN attempts' \ DOMAIN attempts : ~attempts'[a].completion
    PROVE  CancelInv' /\ NoNewWork /\ FrozenStep
<1>1. CancelFence'
  BY DEF CancelFence
<1>2. FrozenStep /\ (\A a \in DOMAIN attempts : Pending(attempts[a]))'
  BY RowsKept
<1>3. CancelInv'
  BY <1>1, <1>2 DEF CancelInv
<1> QED
  BY <1>2, <1>3 DEF NoNewWork

\* A settled goal is canceled only when the command is a cancellation.
LEMMA NotCanceled ==
    ASSUME NEW A, NEW O, SettleGoal(A, O, FALSE)
    PROVE  goal' # "canceled"
BY DEF SettleGoal, GoalStatus

LEMMA RecordedKept ==
    ASSUME IInv, CancelInv, NEW a \in DOMAIN attempts, NEW r, Recorded(a, r)
    PROVE  Kept
<1>1. /\ DOMAIN attempts' = DOMAIN attempts /\ attempts'[a] = r
      /\ \A b \in DOMAIN attempts \ {a} : attempts'[b] = attempts[b]
      /\ ~Terminal(attempts[a].status) /\ ~Terminal(r.status)
      /\ UNCHANGED <<graph, goal, exec, acts>>
  BY DEF Recorded
<1>2. Frozen(attempts[a], r) /\ Pending(r) /\ Pending(attempts[a])
  BY DEF Recorded, CancelInv
<1>3. FrozenStep
  BY <1>1, <1>2 DEF FrozenStep, Frozen, CancelInv, Pending
<1>4. \A b \in DOMAIN attempts' : Pending(attempts[b])'
  BY <1>1, <1>2 DEF CancelInv, Pending
<1>5. Live' = Live
  BY <1>1 DEF Live
<1>6. CancelFence'
  <2> SUFFICES ASSUME exec.cancelRequested PROVE CancelFence'
    BY <1>1 DEF CancelFence
  <2>1. \A i \in Unsettled(acts) : acts[i].status = "running"
    BY DEF CancelInv, CancelFence
  <2>2. \A b \in Live : attempts'[b].cancelRequested /\ NeedsAcknowledgement(attempts'[b])
    <3>1. \A b \in Live : attempts[b].cancelRequested /\ NeedsAcknowledgement(attempts[b])
      BY DEF CancelInv, CancelFence
    <3>2. a \in Live
      BY <1>1 DEF Live
    <3>3. r.cancelRequested /\ NeedsAcknowledgement(r)
      BY <3>1, <3>2 DEF Recorded
    <3> QED
      BY <1>1, <3>1, <3>3 DEF Live
  <2>3. Unsettled(acts)' = Unsettled(acts)
    BY <1>1 DEF Unsettled
  <2> QED
    BY <1>1, <1>5, <2>1, <2>2, <2>3 DEF CancelFence, NeedsAcknowledgement
<1>7. CancelInv'
  <2>1. (exec.cancelRequested => exec.used > 0)' /\ (goal = "canceled" => Live = {})'
    BY <1>1, <1>5 DEF CancelInv
  <2> QED
    BY <1>4, <1>6, <2>1 DEF CancelInv
<1>8. NoNewWork
  BY <1>1 DEF NoNewWork
<1>9. GatedStep
  BY <1>1 DEF GatedStep, Terminal
<1> QED
  BY <1>3, <1>7, <1>8, <1>9 DEF Kept

\* An attempt that has not been asked to stop is live only in a goal that is
\* not being canceled.
LEMMA NotCanceling ==
    ASSUME CancelInv, NEW a \in DOMAIN attempts, ~Terminal(attempts[a].status),
           ~attempts[a].cancelRequested
    PROVE  ~exec.cancelRequested
BY DEF CancelInv, CancelFence, Live

LEMMA SucceededKept ==
    ASSUME IInv, CancelInv, NEW a \in DOMAIN attempts, NEW r, NEW o, Succeeded(a, r, o)
    PROVE  Kept
<1> DEFINE q == [r EXCEPT !.status = "succeeded", !.outcome = o]
<1>1. /\ ~exec.cancelRequested /\ goal # "canceled" /\ graph' = graph
      /\ exec \in ExecType
  BY NotCanceling DEF Succeeded, Succeed, IInv, TypeOK, ExecType
<1>2. /\ q.status = "succeeded" /\ q.outcome = o /\ q.completion = attempts[a].completion
      /\ q.session = attempts[a].session /\ q.review = r.review /\ q.evidence = r.evidence
      /\ attempts' = [attempts EXCEPT ![a] = q]
  BY DEF Succeeded, Succeed, Attempts
<1>3. ~exec'.cancelRequested /\ goal' # "canceled"
  <2>1. Route(a[1], o)
    BY DEF Succeeded, Succeed
  <2>2. ~exec'.cancelRequested
    BY <1>1, <2>1 DEF Route, ExecType
  <2> QED
    BY <2>1, <2>2, NotCanceled DEF Route
<1>4. attempts[a].completion => o = attempts[a].outcome
  BY DEF Succeeded
<1>5. GatePassed(a, r)
  BY DEF Succeeded
<1> HIDE DEF q
<1>6. /\ DOMAIN attempts' = DOMAIN attempts /\ attempts'[a] = q
      /\ \A b \in DOMAIN attempts \ {a} : attempts'[b] = attempts[b]
  BY <1>2
<1>7. \A b \in DOMAIN attempts : Keeps(attempts[b], attempts'[b])
  BY <1>2, <1>4, <1>6 DEF Keeps, Terminal
<1>8. CancelInv' /\ NoNewWork /\ FrozenStep
  BY <1>1, <1>3, <1>6, <1>7, OrdinaryStep
<1>9. GatedStep
  BY <1>2, <1>5, <1>6 DEF GatedStep, GatePassed
<1> QED
  BY <1>8, <1>9 DEF Kept

LEMMA FailedKept ==
    ASSUME IInv, CancelInv, NEW a \in DOMAIN attempts, NEW r, Failed(a, r)
    PROVE  Kept
<1> DEFINE q == [r EXCEPT !.status = "failed"]
<1>1. /\ ~exec.cancelRequested /\ goal # "canceled" /\ graph' = graph /\ exec' = exec
      /\ exec.cancelRequested \in BOOLEAN
  BY NotCanceling DEF Failed, Fail, IInv, TypeOK
<1>2. /\ q.status = "failed" /\ q.completion = attempts[a].completion
      /\ q.session = attempts[a].session /\ q.outcome = attempts[a].outcome
      /\ attempts' = [attempts EXCEPT ![a] = q]
  BY DEF Failed, Fail, Attempts
<1>3. goal' # "canceled"
  <2> DEFINE A == [acts EXCEPT ![a[1]] = [Bumped(@) EXCEPT !.status = "failed"]]
  <2>1. SettleGoal(A, openGens, exec.cancelRequested) /\ exec.cancelRequested = FALSE
    BY <1>1 DEF Failed, Fail
  <2> HIDE DEF A
  <2>2. SettleGoal(A, openGens, FALSE)
    BY <2>1
  <2> QED
    BY <2>2, NotCanceled
<1> HIDE DEF q
<1>4. /\ DOMAIN attempts' = DOMAIN attempts /\ attempts'[a] = q
      /\ \A b \in DOMAIN attempts \ {a} : attempts'[b] = attempts[b]
  BY <1>2
<1>5. \A b \in DOMAIN attempts : Keeps(attempts[b], attempts'[b])
  BY <1>2, <1>4 DEF Keeps, Terminal
<1>6. CancelInv' /\ NoNewWork /\ FrozenStep
  BY <1>1, <1>3, <1>4, <1>5, OrdinaryStep
<1>7. GatedStep
  BY <1>2, <1>4 DEF GatedStep
<1> QED
  BY <1>6, <1>7 DEF Kept

-----------------------------------------------------------------------------
(* Cancellation itself. *)

Stopped(q) == IF Terminal(q.status) THEN q ELSE CanceledAttempt(q)

\* A stopped attempt is at its end, or has been asked to stop and its host has
\* to say so; none is made to succeed.
LEMMA StoppedRow ==
    ASSUME NEW q \in Attempts
    PROVE  /\ Keeps(q, Stopped(q))
           /\ Stopped(q).status = "succeeded" => q.status = "succeeded"
           /\ ~Terminal(Stopped(q).status) => /\ Stopped(q).cancelRequested
                                              /\ NeedsAcknowledgement(Stopped(q))
           /\ ~Terminal(Stopped(q).status) => ~Terminal(q.status) /\ NeedsAcknowledgement(q)
<1>1. CASE Terminal(q.status)
  BY <1>1 DEF Stopped, Keeps
<1>2. CASE ~Terminal(q.status) /\ NeedsAcknowledgement(q)
  <2> DEFINE r == [q EXCEPT !.cancelRequested = TRUE]
  <2>1. /\ r.cancelRequested /\ r.status = q.status /\ r.owned = q.owned /\ r.session = q.session
        /\ r.completion = q.completion /\ r.outcome = q.outcome
    BY DEF Attempts
  <2>2. Stopped(q) = r
    BY <1>2 DEF Stopped, CanceledAttempt
  <2> HIDE DEF r
  <2> QED
    BY <1>2, <2>1, <2>2 DEF Keeps, NeedsAcknowledgement
<1>3. CASE ~Terminal(q.status) /\ ~NeedsAcknowledgement(q)
  <2> DEFINE r == [q EXCEPT !.status = "canceled"]
  <2>1. /\ r.status = "canceled" /\ r.session = q.session
        /\ r.completion = q.completion /\ r.outcome = q.outcome
    BY DEF Attempts
  <2>2. Stopped(q) = r
    BY <1>3 DEF Stopped, CanceledAttempt
  <2> HIDE DEF r
  <2> QED
    BY <2>1, <2>2 DEF Keeps, Terminal
<1> QED
  BY <1>1, <1>2, <1>3

\* A stopped activation is settled or keeps running; none is made to succeed.
LEMMA StoppedAct ==
    ASSUME NEW A, ActsTyped(A), NEW T
    PROVE  /\ DOMAIN StoppedActs(A, T) = DOMAIN A
           /\ \A i \in DOMAIN A :
                 LET s == StoppedActs(A, T)[i].status IN
                 /\ Settled(s) \/ s = "running"
                 /\ s = "succeeded" => A[i].status = "succeeded"
<1>1. DOMAIN StoppedActs(A, T) = DOMAIN A
  BY DEF StoppedActs
<1>2. ASSUME NEW i \in DOMAIN A
      PROVE  LET s == StoppedActs(A, T)[i].status IN
             /\ Settled(s) \/ s = "running"
             /\ s = "succeeded" => A[i].status = "succeeded"
  <2> DEFINE b == StoppedActs(A, T)[i]
  <2>1. A[i] \in Activations /\ "canceled" \in ActStatus
    BY DEF ActsTyped, ActStatus
  <2>2. \/ /\ A[i].status \in {"ready", "failed", "blocked", "waiting_join"}
           /\ b = [Bumped(A[i]) EXCEPT !.status = "canceled"]
        \/ b = [A[i] EXCEPT !.status = "canceled"]
        \/ /\ A[i].status \notin {"ready", "failed", "blocked", "waiting_join"}
           /\ b = A[i]
    BY DEF StoppedActs
  <2>3. /\ [Bumped(A[i]) EXCEPT !.status = "canceled"].status = "canceled"
        /\ [A[i] EXCEPT !.status = "canceled"].status = "canceled"
    BY <2>1, RowUpdates
  <2>4. A[i].status \in ActStatus
    BY <2>1 DEF Activations
  <2> HIDE DEF b
  <2>5. (Settled(b.status) \/ b.status = "running")
        /\ (b.status = "succeeded" => A[i].status = "succeeded")
    BY <2>2, <2>3, <2>4 DEF ActStatus, Settled
  <2> QED
    BY <2>5 DEF b
<1> QED
  BY <1>1, <1>2

\* Where nothing waits for a join, a settled goal that is being canceled ends
\* exactly when nothing is left to settle.
LEMMA SettledCanceling ==
    ASSUME NEW A, ActsTyped(A), NEW O, SettleGoal(A, O, TRUE),
           \A i \in DOMAIN A : Settled(A[i].status) \/ A[i].status = "running"
    PROVE  /\ DOMAIN acts' = DOMAIN A
           /\ \A i \in DOMAIN A : acts'[i] = A[i]
           /\ goal' = "canceled" => Unsettled(acts') = {}
           /\ goal' \in {"blocked", "canceled"}
<1>1. acts' = Reconciled(A, O) /\ goal' = GoalStatus(Reconciled(A, O), TRUE)
  BY DEF SettleGoal
<1>2. \A i \in DOMAIN A : A[i].status # "waiting_join"
  BY DEF Settled
<1>3. DOMAIN acts' = DOMAIN A /\ \A i \in DOMAIN A : acts'[i] = A[i]
  BY <1>1, <1>2, ReconciledType
<1>4. goal' = GoalStatus(acts', TRUE)
  BY <1>1
<1>5. goal' \in {"blocked", "canceled"} /\ (goal' = "canceled" => Unsettled(acts') = {})
  BY <1>4 DEF GoalStatus
<1> QED
  BY <1>3, <1>5

\* Without unsettled visits there are no live attempts.
LEMMA NothingLive ==
    ASSUME IInv', Unsettled(acts') = {}
    PROVE  Live' = {}
BY DEF IInv, TypeOK, OneLiveAttempt, Live, Unsettled, Settled

LEMMA CancelAttemptKept ==
    ASSUME IInv, IInv', CancelInv, NEW a \in DOMAIN attempts,
           ~Terminal(attempts[a].status), CancelAttempt(a)
    PROVE  Kept
<1> DEFINE i == a[1]
           q == [Bumped(acts[i]) EXCEPT !.status = "canceled"]
           A == [acts EXCEPT ![i] = q]
           r == [attempts[a] EXCEPT !.status = "canceled"]
           T == [attempts EXCEPT ![a] = r]
<1>1. /\ i \in DOMAIN acts /\ acts[i].status = "running" /\ acts[i] \in Activations
      /\ attempts[a] \in Attempts /\ exec \in ExecType /\ graph' = graph
      /\ exec.used = Cardinality(DOMAIN acts) /\ IsFiniteSet(DOMAIN acts)
  BY LiveRunning DEF IInv, TypeOK, ExecType, CancelAttempt, BudgetExact
<1>2. exec'.cancelRequested /\ exec'.used = exec.used
  BY <1>1 DEF CancelAttempt, ExecType
<1>3. exec'.used > 0
  <2>1. Cardinality(DOMAIN acts) # 0 /\ Cardinality(DOMAIN acts) \in Nat
    BY <1>1, FS_EmptySet, FS_CardinalityType
  <2> QED
    BY <1>1, <1>2, <2>1
<1>4. goal # "canceled"
  BY DEF CancelInv, Live
<1>5. q \in Activations /\ q.status = "canceled"
  <2>1. Bumped(acts[i]) \in Activations
    BY <1>1, RowUpdates DEF ActStatus
  <2> QED
    BY <2>1, RowUpdates DEF ActStatus
<1>6. /\ r \in Attempts /\ r.status = "canceled" /\ r.completion = attempts[a].completion
      /\ r.session = attempts[a].session /\ r.outcome = attempts[a].outcome
  BY <1>1 DEF Attempts, AttemptStatus
<1>7. IF ~exec.cancelRequested
      THEN attempts' = StoppedAttempts(T) /\ SettleGoal(StoppedActs(A, T), openGens, TRUE)
      ELSE attempts' = T /\ SettleGoal(A, openGens, TRUE)
  BY DEF CancelAttempt
<1> HIDE DEF q, r
<1>8. DOMAIN A = DOMAIN acts /\ A[i] = q /\ (\A k \in DOMAIN acts \ {i} : A[k] = acts[k])
  BY <1>1
<1>9. /\ DOMAIN T = DOMAIN attempts /\ T[a] = r
      /\ \A b \in DOMAIN attempts \ {a} : T[b] = attempts[b]
      /\ \A b \in DOMAIN attempts : attempts[b] \in Attempts
  BY DEF IInv, TypeOK
<1> HIDE DEF A, T, i
<1>10. ActsTyped(A)
  BY <1>1, <1>5, <1>8 DEF IInv, TypeOK, ActsTyped
<1>11. \A b \in DOMAIN attempts :
        /\ T[b] \in Attempts /\ Keeps(attempts[b], T[b])
        /\ T[b].status = "succeeded" => attempts[b].status = "succeeded"
  BY <1>6, <1>9 DEF Keeps, Terminal
  \* In both cases the rows left unsettled were running and stay so.
<1>12. /\ \A k \in DOMAIN acts : Settled(acts'[k].status) \/ acts'[k].status = "running"
       /\ DOMAIN acts' = DOMAIN acts
       /\ exec.cancelRequested => \A k \in DOMAIN acts :
             acts'[k].status = "succeeded" => acts[k].status = "succeeded"
       /\ goal' = "canceled" => Unsettled(acts') = {}
  <2>1. CASE ~exec.cancelRequested
    <3> DEFINE B == StoppedActs(A, T)
    <3>1. DOMAIN B = DOMAIN A /\ \A k \in DOMAIN A : Settled(B[k].status) \/ B[k].status = "running"
      BY <1>10, StoppedAct
    <3>2. ActsTyped(B)
      <4> SUFFICES ASSUME NEW k \in DOMAIN A PROVE B[k] \in Activations
        BY <3>1 DEF ActsTyped
      <4>1. A[k] \in Activations
        BY <1>10 DEF ActsTyped
      <4>2. Bumped(A[k]) \in Activations
        BY <4>1, RowUpdates DEF ActStatus
      <4>3. /\ [Bumped(A[k]) EXCEPT !.status = "canceled"] \in Activations
            /\ [A[k] EXCEPT !.status = "canceled"] \in Activations
        BY <4>1, <4>2, RowUpdates DEF ActStatus
      <4> QED
        BY <4>1, <4>3 DEF StoppedActs
    <3>3. SettleGoal(B, openGens, TRUE)
      BY <1>7, <2>1
    <3> HIDE DEF B
    <3> QED
      BY <1>8, <2>1, <3>1, <3>2, <3>3, SettledCanceling
  <2>2. CASE exec.cancelRequested
    <3>1. \A k \in DOMAIN acts : Settled(acts[k].status) \/ acts[k].status = "running"
      BY <2>2 DEF CancelInv, CancelFence, Unsettled
    <3>2. \A k \in DOMAIN A : Settled(A[k].status) \/ A[k].status = "running"
      BY <1>5, <1>8, <3>1 DEF Settled
    <3>3. SettleGoal(A, openGens, TRUE)
      BY <1>7, <2>2
    <3>4. /\ DOMAIN acts' = DOMAIN A
          /\ \A k \in DOMAIN A : acts'[k] = A[k]
          /\ goal' = "canceled" => Unsettled(acts') = {}
      BY <1>10, <3>2, <3>3, SettledCanceling
    <3> QED
      BY <1>5, <1>8, <3>2, <3>4
  <2> QED
    BY <2>1, <2>2
<1>13. /\ DOMAIN attempts' = DOMAIN attempts
       /\ \A b \in DOMAIN attempts :
             /\ Keeps(attempts[b], attempts'[b])
             /\ attempts'[b].status = "succeeded" => attempts[b].status = "succeeded"
             /\ ~Terminal(attempts'[b].status) => /\ attempts'[b].cancelRequested
                                                  /\ NeedsAcknowledgement(attempts'[b])
  <2>1. CASE ~exec.cancelRequested
    <3>1. DOMAIN attempts' = DOMAIN T /\ \A b \in DOMAIN T : attempts'[b] = Stopped(T[b])
      BY <1>7, <2>1 DEF StoppedAttempts, Stopped
    <3>2. ASSUME NEW b \in DOMAIN attempts
          PROVE  /\ Keeps(attempts[b], Stopped(T[b]))
                 /\ Stopped(T[b]).status = "succeeded" => attempts[b].status = "succeeded"
                 /\ ~Terminal(Stopped(T[b]).status) => /\ Stopped(T[b]).cancelRequested
                                                       /\ NeedsAcknowledgement(Stopped(T[b]))
      <4>1. /\ Keeps(T[b], Stopped(T[b]))
            /\ Stopped(T[b]).status = "succeeded" => T[b].status = "succeeded"
            /\ ~Terminal(Stopped(T[b]).status) => /\ Stopped(T[b]).cancelRequested
                                                  /\ NeedsAcknowledgement(Stopped(T[b]))
        BY <1>11, StoppedRow
      <4>2. Keeps(attempts[b], Stopped(T[b]))
        <5>1. T[b].status = attempts[b].status \/ Terminal(T[b].status)
          BY <1>11 DEF Keeps
        <5>2. Terminal(T[b].status) => Stopped(T[b]) = T[b]
          BY DEF Stopped
        <5> QED
          BY <1>11, <4>1, <5>1, <5>2 DEF Keeps
      <4> QED
        BY <1>11, <4>1, <4>2
    <3> QED
      BY <1>9, <3>1, <3>2
  <2>2. CASE exec.cancelRequested
    <3>1. \A b \in DOMAIN attempts : ~Terminal(attempts[b].status) =>
            attempts[b].cancelRequested /\ NeedsAcknowledgement(attempts[b])
      BY <2>2 DEF CancelInv, CancelFence, Live
    <3>2. \A b \in DOMAIN attempts : ~Terminal(T[b].status) => T[b] = attempts[b]
      BY <1>6, <1>9 DEF Terminal
    <3> QED
      BY <1>7, <1>9, <1>11, <2>2, <3>1, <3>2
  <2> QED
    BY <2>1, <2>2
<1>14. FrozenStep /\ (\A b \in DOMAIN attempts : Pending(attempts[b]))'
  BY <1>1, <1>13, RowsKept
<1>15. CancelFence'
  BY <1>12, <1>13 DEF CancelFence, Unsettled, Live
<1>16. goal' = "canceled" => Live' = {}
  BY <1>12, NothingLive
<1>17. CancelInv'
  BY <1>2, <1>3, <1>14, <1>15, <1>16 DEF CancelInv
<1>18. NoNewWork
  BY <1>2, <1>4, <1>12, <1>13 DEF NoNewWork
<1>19. GatedStep
  BY <1>13 DEF GatedStep
<1> QED
  BY <1>14, <1>17, <1>18, <1>19 DEF Kept

\* An operator's cancellation of a draft, or of a goal with work under way.
LEMMA CancelGoalKept ==
    ASSUME IInv, IInv', CancelInv, CancelGoal
    PROVE  Kept
<1>1. /\ exec \in ExecType /\ exec.used = Cardinality(DOMAIN acts) /\ IsFiniteSet(DOMAIN acts)
      /\ graph' = graph /\ goal # "canceled" /\ goal' \in {"blocked", "canceled"}
      /\ exec' = [exec EXCEPT !.cancelRequested = @ \/ exec.used > 0]
      /\ ActsTyped(acts) /\ \A b \in DOMAIN attempts : attempts[b] \in Attempts
  BY DEF IInv, TypeOK, ExecType, BudgetExact, CancelGoal, ActsTyped
<1>2. exec'.used = exec.used /\ exec'.cancelRequested = (exec.cancelRequested \/ exec.used > 0)
  BY <1>1 DEF ExecType
<1>3. /\ DOMAIN acts' = DOMAIN acts
      /\ \A i \in DOMAIN acts :
            /\ Settled(acts'[i].status) \/ acts'[i].status = "running"
            /\ acts'[i].status = "succeeded" => acts[i].status = "succeeded"
  BY <1>1, StoppedAct DEF CancelGoal
<1>4. DOMAIN attempts' = DOMAIN attempts
      /\ \A b \in DOMAIN attempts : attempts'[b] = Stopped(attempts[b])
  BY DEF CancelGoal, StoppedAttempts, Stopped
<1>5. \A b \in DOMAIN attempts :
        /\ Keeps(attempts[b], attempts'[b])
        /\ attempts'[b].status = "succeeded" => attempts[b].status = "succeeded"
        /\ ~Terminal(attempts'[b].status) => /\ attempts'[b].cancelRequested
                                             /\ NeedsAcknowledgement(attempts'[b])
        /\ ~Terminal(attempts'[b].status) => ~Terminal(attempts[b].status)
                                             /\ NeedsAcknowledgement(attempts[b])
  BY <1>1, <1>4, StoppedRow
<1>6. FrozenStep /\ (\A b \in DOMAIN attempts : Pending(attempts[b]))'
  BY <1>1, <1>4, <1>5, RowsKept
<1>7. CancelFence'
  <2>1. \A i \in Unsettled(acts)' : acts'[i].status = "running"
    BY <1>3 DEF Unsettled
  <2>2. \A b \in Live' : attempts'[b].cancelRequested /\ NeedsAcknowledgement(attempts'[b])
    BY <1>4, <1>5 DEF Live
  <2> QED
    BY <2>1, <2>2 DEF CancelFence
<1>8. goal' = "canceled" => Live' = {}
  <2>1. goal' = "canceled" => ~AwaitsAcknowledgement(attempts)
    BY DEF CancelGoal
  <2> QED
    BY <1>4, <1>5, <2>1 DEF AwaitsAcknowledgement, Live
<1>9. CancelInv'
  BY <1>2, <1>6, <1>7, <1>8 DEF CancelInv
<1>10. NoNewWork
  <2>1. DOMAIN attempts' = DOMAIN attempts
    BY <1>4
  <2>2. exec.cancelRequested => exec'.cancelRequested
    BY <1>2, Zenon
  <2> QED
    BY <1>1, <1>3, <2>1, <2>2, Zenon DEF NoNewWork
<1>11. GatedStep
  BY <1>5 DEF GatedStep
<1> QED
  BY <1>6, <1>9, <1>10, <1>11 DEF Kept

-----------------------------------------------------------------------------
(* Everything else touches no attempt that is there. *)

LEMMA UntouchedKept ==
    ASSUME CancelInv, ~exec.cancelRequested, ~exec'.cancelRequested,
           goal # "canceled", goal' # "canceled", graph' = graph,
           DOMAIN attempts \subseteq DOMAIN attempts',
           \A a \in DOMAIN attempts : attempts'[a] = attempts[a],
           \A a \in DOMAIN attempts' \ DOMAIN attempts : ~attempts'[a].completion
    PROVE  Kept
<1>1. \A a \in DOMAIN attempts : Keeps(attempts[a], attempts'[a])
  BY DEF Keeps
<1>2. CancelInv' /\ NoNewWork /\ FrozenStep
  BY <1>1, OrdinaryStep
<1>3. GatedStep
  BY DEF GatedStep
<1> QED
  BY <1>2, <1>3 DEF Kept

\* A step that changes nothing but the status of a goal that is not canceled.
LEMMA UnchangedKept ==
    ASSUME CancelInv, UNCHANGED <<graph, exec, acts, attempts>>,
           goal' = goal \/ (goal # "canceled" /\ goal' # "canceled")
    PROVE  Kept
<1>1. Live' = Live /\ Unsettled(acts)' = Unsettled(acts)
  BY DEF Live, Unsettled
<1>2. \A a \in DOMAIN attempts : Keeps(attempts[a], attempts'[a])
  BY DEF Keeps
<1>3. FrozenStep /\ (\A a \in DOMAIN attempts : Pending(attempts[a]))'
  BY <1>2, RowsKept
<1>4. CancelFence'
  BY <1>1 DEF CancelInv, CancelFence, NeedsAcknowledgement
<1>5. CancelInv'
  BY <1>1, <1>3, <1>4 DEF CancelInv
<1>6. NoNewWork /\ GatedStep
  BY DEF NoNewWork, GatedStep
<1> QED
  BY <1>3, <1>5, <1>6 DEF Kept

LEMMA ActivateKept ==
    ASSUME IInv, CancelInv, ActivateGoal
    PROVE  Kept
<1>1. /\ exec \in ExecType /\ goal # "canceled" /\ goal' # "canceled" /\ graph' = graph
      /\ attempts' = attempts
  BY DEF IInv, TypeOK, ExecType, ActivateGoal
<1>2. CASE UNCHANGED <<exec, acts>>
  BY <1>1, <1>2, UnchangedKept
<1>3. CASE exec.used = 0 /\ \E n : exec' = [exec EXCEPT !.used = n]
  <2>1. ~exec.cancelRequested
    BY <1>3 DEF CancelInv
  <2>2. ~exec'.cancelRequested
    BY <1>1, <1>3, <2>1 DEF ExecType
  <2> QED
    BY <1>1, <2>1, <2>2, UntouchedKept
<1> QED
  BY <1>2, <1>3 DEF ActivateGoal

LEMMA DispatchKept ==
    ASSUME IInv, CancelInv, NEW i \in DOMAIN acts, DispatchRun(i)
    PROVE  Kept
<1> DEFINE a == <<i, acts[i].attemptsUsed + 1>>
<1>1. /\ goal # "canceled" /\ goal' # "canceled" /\ ~exec.cancelRequested /\ exec' = exec
      /\ graph' = graph
      /\ attempts' = [b \in DOMAIN attempts \cup {a} |->
                         IF b = a THEN NewAttempt ELSE attempts[b]]
  BY DEF DispatchRun, Dispatchable
<1>2. a \notin DOMAIN attempts
  <2>1. acts[i].attemptsUsed \in Nat
    BY DEF IInv, TypeOK, Activations
  <2> QED
    BY <2>1 DEF IInv, TypeOK
<1>3. ~NewAttempt.completion
  BY DEF NewAttempt
<1> HIDE DEF a
<1>4. /\ DOMAIN attempts \subseteq DOMAIN attempts'
      /\ \A b \in DOMAIN attempts : attempts'[b] = attempts[b]
      /\ \A b \in DOMAIN attempts' \ DOMAIN attempts : ~attempts'[b].completion
  BY <1>1, <1>2, <1>3
<1> QED
  BY <1>1, <1>4, UntouchedKept

LEMMA BudgetKept ==
    ASSUME IInv, CancelInv, NEW n, SetRetryBudget(n) \/ SetActivationBudget(n)
    PROVE  Kept
<1>1. exec \in ExecType /\ MayChangeBudget /\ attempts' = attempts /\ graph' = graph
  BY DEF IInv, TypeOK, ExecType, SetRetryBudget, SetActivationBudget
<1>2. goal # "canceled" /\ ~exec.cancelRequested
  BY <1>1 DEF MayChangeBudget
<1>3. \E m : \/ exec' = [exec EXCEPT !.maxAttempts = n]
              \/ exec' = [exec EXCEPT !.maxActivations = n, !.used = m]
  BY DEF SetRetryBudget, SetActivationBudget
<1>4. ~exec'.cancelRequested
  BY <1>1, <1>2, <1>3 DEF ExecType
<1>5. goal' # "canceled"
  <2>1. CASE SetRetryBudget(n)
    BY <1>2, <2>1 DEF SetRetryBudget
  <2>2. CASE SetActivationBudget(n)
    <3>1. \E A, O : SettleGoal(A, O, FALSE)
      BY <2>2 DEF SetActivationBudget
    <3> QED
      BY <3>1, NotCanceled
  <2> QED
    BY <2>1, <2>2
<1> QED
  BY <1>1, <1>2, <1>4, <1>5, UntouchedKept

-----------------------------------------------------------------------------
(* The invariant. *)

LEMMA CancelInit ==
    Init => CancelInv
<1> SUFFICES ASSUME Init PROVE CancelInv
  OBVIOUS
<1>1. ~exec.cancelRequested /\ DOMAIN attempts = {} /\ goal # "canceled"
  BY DEF Init
<1> QED
  BY <1>1 DEF CancelInv, CancelFence

LEMMA CancelStep ==
    IInv /\ CancelInv /\ [Next]_vars => Kept
<1> SUFFICES ASSUME IInv, CancelInv, [Next]_vars
             PROVE  Kept
  OBVIOUS
<1>1. IInv' /\ Kinds
  BY InvariantStep, StepKinds
<1>2. ASSUME NEW a \in DOMAIN attempts, AttemptKinds(a) PROVE Kept
  BY <1>1, <1>2, RecordedKept, SucceededKept, FailedKept, CancelAttemptKept DEF AttemptKinds
<1>3. CASE UNCHANGED vars
  <2>1. UNCHANGED <<graph, exec, acts, attempts>>
    BY <1>3 DEF vars
  <2>2. goal' = goal \/ (goal # "canceled" /\ goal' # "canceled")
    BY <1>3 DEF vars
  <2> QED
    BY <2>1, <2>2, UnchangedKept, Zenon
<1> QED
  BY <1>1, <1>2, <1>3, ActivateKept, DispatchKept, CancelGoalKept, BudgetKept DEF Kinds

LEMMA CancelInvariance ==
    Spec => [](IInv /\ CancelInv)
<1>1. Init => IInv /\ CancelInv
  BY InvariantInit, CancelInit
<1>2. IInv /\ CancelInv /\ [Next]_vars => IInv' /\ CancelInv'
  BY InvariantStep, CancelStep DEF Kept
<1> QED
  BY <1>1, <1>2, PTL DEF Spec

-----------------------------------------------------------------------------
(* Theorems. *)

\* Once cancellation is requested, nothing but owned or running attempts that
\* have been asked to stop is outstanding, whichever of cancelGoal and
\* updateRunAttempt requested it and whatever was waiting, blocked or claimed.
THEOREM CancellationFences ==
    Spec => []CancelFence
<1>1. CancelInv => CancelFence
  BY DEF CancelInv
<1> QED
  BY <1>1, CancelInvariance, PTL

\* After a cancellation nothing is enabled, dispatched or made to succeed by a
\* late report, review, evidence, retry, budget or activation, and a canceled
\* goal stays canceled.
THEOREM CanceledGetsNoWork ==
    Spec => NoNewWorkAfterCancel
<1>1. IInv /\ CancelInv /\ [Next]_vars => [NoNewWork]_vars
  BY CancelStep DEF Kept
<1> QED
  BY <1>1, CancelInvariance, PTL DEF Spec, NoNewWorkAfterCancel, NoNewWork

\* No attempt of a gated node succeeds before its gates are met, whichever of
\* the report, the review and the evidence was last.
THEOREM GatesAlwaysRespected ==
    Spec => GateRespected
<1> DEFINE Gates == \A a \in DOMAIN attempts :
          attempts[a].status # "succeeded" /\ attempts'[a].status = "succeeded" =>
              /\ "review" \in Policy(a) => attempts'[a].review = "approved"
              /\ "evidence" \in Policy(a) => attempts'[a].evidence
<1>1. IInv /\ CancelInv /\ [Next]_vars => Gates
  BY CancelStep DEF Kept, GatedStep, GatePassed
<1>2. IInv /\ CancelInv /\ [Next]_vars => [Gates]_vars
  BY <1>1
<1> HIDE DEF Gates
<1>3. Spec => [][Gates]_vars
  BY <1>2, CancelInvariance, PTL DEF Spec
<1> QED
  BY <1>3 DEF Gates, GateRespected

\* A completion waiting for its gates keeps the result it was reported with
\* until it settles, and where hosts record sessions it never runs again.
THEOREM PendingResultsFrozen ==
    Spec => PendingCompletionFrozen
<1> DEFINE Frozens == \A a \in DOMAIN attempts :
          attempts[a].completion => /\ attempts'[a].outcome = attempts[a].outcome
                                    /\ attempts'[a].completion
                                    /\ graph.protocol = 2 => attempts'[a].status # "running"
<1>1. IInv /\ CancelInv /\ [Next]_vars => Frozens
  BY CancelStep DEF Kept, FrozenStep, Frozen
<1>2. IInv /\ CancelInv /\ [Next]_vars => [Frozens]_vars
  BY <1>1
<1> HIDE DEF Frozens
<1>3. Spec => [][Frozens]_vars
  BY <1>2, CancelInvariance, PTL DEF Spec
<1> QED
  BY <1>3 DEF Frozens, PendingCompletionFrozen
=============================================================================

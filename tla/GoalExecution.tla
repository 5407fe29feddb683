--------------------------- MODULE GoalExecution ---------------------------
(***************************************************************************)
(* One goal executing its pinned graph: durable activations, fork          *)
(* generations and explicit joins, activation and retry budgets, the       *)
(* attempts hosts work on, completion gates and cancellation               *)
(* (packages/core/src/lifecycle/{activations,state,gates}.ts and the goal, *)
(* run and attempt commands).  Every command runs in one write transaction *)
(* (db/client.ts, atomic), so every command is one action; a rejected      *)
(* command rolls back and is a step that is not enabled.                   *)
(*                                                                         *)
(* An activation is identified by the path of edges that created it: a     *)
(* parent enables its successors once, one per selected edge, so the path  *)
(* names the row.  A fork generation is identified by the activation that  *)
(* forked, the empty path for the start node.  Attempt <<i, n>> is the     *)
(* n-th attempt of activation i.  Tokens, leases and sessions are the      *)
(* subject of module AttemptClaims: here a report is any report the        *)
(* ownership check lets through.                                           *)
(***************************************************************************)
EXTENDS SenderoGraph, Sequences

CONSTANTS Graphs,              \* the definitions a goal may be pinned to
          Outcomes,            \* outcomes a result may carry
          DefaultAttempts,     \* retry budget of a new execution (3 in the schema)
          RetryBudgets,        \* budgets an operator may set with retry-budget
          ActivationBudgets,   \* budgets an operator may set with activation-budget
          Verdicts,            \* review decisions a reviewer may record
          ProgressReports,     \* unfinished statuses a host may report
          MaxRevision          \* bound: budget commands stop at this revision

\* What the proofs need: finite graphs and budgets that are numbers.
ASSUME GraphsAssumption ==
    \A g \in Graphs : IsFiniteSet(g.edges) /\ g.maxActivations \in Nat

ASSUME BudgetsAssumption ==
    DefaultAttempts \in Nat /\ RetryBudgets \subseteq Nat /\ ActivationBudgets \subseteq Nat

ASSUME ProgressAssumption ==
    ProgressReports \subseteq {"running", "paused"}

VARIABLES graph,               \* the pinned version
          goal,                \* goals.status
          exec,                \* the goal_executions row
          acts,                \* activations by path
          openGens,            \* fork_generations with status open
          closedGens,          \* fork_generations with status closed
          attempts             \* run_attempts with their run and claim

vars == <<graph, goal, exec, acts, openGens, closedGens, attempts>>

Settled(s) == s \in {"succeeded", "joined", "canceled"}

Terminal(s) == s \in {"succeeded", "failed", "canceled"}

Results == Outcomes \cup {NoOutcome}

Unsettled(A) == {i \in DOMAIN A : ~Settled(A[i].status)}

Live == {a \in DOMAIN attempts : ~Terminal(attempts[a].status)}

\* The node a path leads to: the start node for the empty path.
NodeAt(i) == IF i = <<>> THEN Start ELSE i[Len(i)].dst

\* The run an activation points to (activations.latest_run_id).
LatestAttempt(i) == <<i, acts[i].attemptsUsed>>

-----------------------------------------------------------------------------
(* enableSuccessors: what the parents P, with results out, enable. *)

ChildEdges(p, o) == {e \in Selected(graph, NodeAt(p), o) : e.dst \in graph.agents}

Children(P, out) == UNION {{Append(p, e) : e \in ChildEdges(p, out[p])} : p \in P}

Parent(c) == SubSeq(c, 1, Len(c) - 1)

ParentScopes(p) == IF p = <<>> THEN <<>> ELSE acts[p].scopes

\* A node with several outgoing edges opens a generation on every visit.
ChildScopes(p) ==
    IF IsFork(graph, NodeAt(p)) THEN Append(ParentScopes(p), p) ELSE ParentScopes(p)

NewGenerations(P) == {p \in P : IsFork(graph, NodeAt(p))}

NewActivation(c) ==
    [status       |-> IF graph.join[NodeAt(c)] = NoFork THEN "ready" ELSE "waiting_join",
     scopes       |-> ChildScopes(Parent(c)),
     attemptsUsed |-> 0,
     maxAttempts  |-> exec.maxAttempts,
     revision     |-> 0,
     pending      |-> NoOutcome]

\* Mutant: the budget is checked before the new visits are counted.
FitsUncounted(P, out, budget) == exec.used <= budget

Fits(P, out, budget) == exec.used + Cardinality(Children(P, out)) <= budget

\* INVALID_JOIN: an arrival with no open generation of its paired fork.
InvalidJoin(P, out) ==
    \E c \in Children(P, out) :
        /\ graph.join[NodeAt(c)] # NoFork
        /\ LET scopes == ChildScopes(Parent(c)) IN
           ~ \E k \in DOMAIN scopes :
                /\ NodeAt(scopes[k]) = graph.join[NodeAt(c)]
                /\ scopes[k] \in openGens \cup NewGenerations(P)

Bumped(r) == [r EXCEPT !.revision = @ + 1]

\* The activations after the parents in P succeeded and enabled successors.
EnabledActs(P, out) ==
    [i \in DOMAIN acts \cup Children(P, out) |->
        IF i \in P THEN [Bumped(acts[i]) EXCEPT !.status = "succeeded"]
        ELSE IF i \in DOMAIN acts THEN acts[i]
        ELSE NewActivation(i)]

\* A parent whose successors do not fit keeps its result for a later retry.
BudgetBlocked(r, o) == [Bumped(r) EXCEPT !.status = "blocked", !.pending = o]

-----------------------------------------------------------------------------
(* reconcileJoins and settleGoal, over activations A and open generations O. *)

Members(A, g) == {i \in DOMAIN A : \E k \in DOMAIN A[i].scopes : A[i].scopes[k] = g}

\* The k-th scope of i is the latest generation of the fork i's node joins.
IsOwnScope(A, i, k) ==
    /\ k \in DOMAIN A[i].scopes
    /\ NodeAt(A[i].scopes[k]) = graph.join[NodeAt(i)]
    /\ \A m \in DOMAIN A[i].scopes :
          m > k => NodeAt(A[i].scopes[m]) # graph.join[NodeAt(i)]

\* Arrivals waiting for g itself rather than for an inner reentry of its fork.
OwnArrivals(A, g) ==
    {i \in Members(A, g) :
        /\ A[i].status = "waiting_join"
        /\ \E k \in DOMAIN A[i].scopes : A[i].scopes[k] = g /\ IsOwnScope(A, i, k)}

HasJoin(g) == \E n \in graph.agents : graph.join[n] = NodeAt(g)

\* Mutant: arrivals at other joins count as arrivals.
ClosableOnAnyWait(A, O) ==
    {g \in O : /\ HasJoin(g)
               /\ \A i \in Members(A, g) :
                     Settled(A[i].status) \/ A[i].status = "waiting_join"}

\* Every member has settled or waits at the join.
Closable(A, O) ==
    {g \in O : /\ HasJoin(g)
               /\ \A i \in Members(A, g) :
                     Settled(A[i].status) \/ i \in OwnArrivals(A, g)}

\* Which arrival carries on is not ordered by the query; one fixed choice.
Survivor(A, g) == CHOOSE i \in OwnArrivals(A, g) : TRUE

OwnIndex(A, i) == CHOOSE k \in DOMAIN A[i].scopes : IsOwnScope(A, i, k)

\* Mutant: the surviving arrival stays in the generation it was joined from.
JoinedActInScope(A, i) ==
    IF i = Survivor(A, A[i].scopes[OwnIndex(A, i)])
    THEN [Bumped(A[i]) EXCEPT !.status = "ready"]
    ELSE [A[i] EXCEPT !.status = "joined"]

\* The surviving arrival leaves the generation and becomes ready; the other
\* arrivals are merged into it.
JoinedAct(A, i) ==
    IF i = Survivor(A, A[i].scopes[OwnIndex(A, i)])
    THEN [Bumped(A[i]) EXCEPT !.status = "ready",
                              !.scopes = SubSeq(@, 1, OwnIndex(A, i) - 1)]
    ELSE [A[i] EXCEPT !.status = "joined"]

Arrived(A, O) == UNION {OwnArrivals(A, g) : g \in Closable(A, O)}

Reconciled(A, O) ==
    [i \in DOMAIN A |-> IF i \in Arrived(A, O) THEN JoinedAct(A, i) ELSE A[i]]

GoalStatus(A, canceling) ==
    LET pending == {A[i].status : i \in Unsettled(A)} IN
    CASE canceling /\ pending # {} -> "blocked"
      [] canceling /\ pending = {} -> "canceled"
      [] ~canceling /\ pending = {} -> "completed"
      [] ~canceling /\ pending = {"failed"} -> "failed"
      [] ~canceling /\ pending # {} /\ pending # {"failed"}
            /\ pending \subseteq {"failed", "blocked", "waiting_join"} -> "blocked"
      [] OTHER -> "active"

\* Generations an outer join emptied: closed in the same pass, which takes the
\* rows in insertion order, outer generations before the ones inside them.
Drained(A, O) ==
    {g \in O : HasJoin(g) /\ \A i \in Members(A, g) : Settled(A[i].status)}

\* Mutant: a generation emptied by an outer join is forgotten.
ClosedOnce(A, O) == Closable(A, O)

Closed(A, O) == Closable(A, O) \cup Drained(Reconciled(A, O), O)

\* The closable generations are closed together: consuming the arrivals of one
\* never makes arrivals of another consumable (NoMissedJoin).
SettleGoal(A, O, canceling) ==
    /\ acts' = Reconciled(A, O)
    /\ openGens' = O \ Closed(A, O)
    /\ closedGens' = closedGens \cup Closed(A, O)
    /\ goal' = GoalStatus(Reconciled(A, O), canceling)

\* A completed visit of i: enable its successors or block on the budget.
Route(i, o) ==
    LET out == [p \in {i} |-> o] IN
    /\ ~exec.cancelRequested
    /\ \/ /\ Fits({i}, out, exec.maxActivations)
          /\ ~InvalidJoin({i}, out)
          /\ exec' = [exec EXCEPT !.used = @ + Cardinality(Children({i}, out))]
          /\ SettleGoal(EnabledActs({i}, out), openGens \cup NewGenerations({i}), FALSE)
       \/ /\ ~Fits({i}, out, exec.maxActivations)
          /\ exec' = exec
          /\ SettleGoal([acts EXCEPT ![i] = BudgetBlocked(@, o)], openGens, FALSE)

-----------------------------------------------------------------------------
(* Activation and dispatch. *)

Init ==
    /\ graph \in Graphs
    /\ goal = "draft"
    /\ exec = [used |-> 0, maxActivations |-> graph.maxActivations,
               maxAttempts |-> DefaultAttempts, cancelRequested |-> FALSE]
    /\ acts = [i \in {} |-> 0]
    /\ openGens = {}
    /\ closedGens = {}
    /\ attempts = [a \in {} |-> 0]

\* Mutant: a canceled goal can be activated again.
ReactivateGoal ==
    LET out == [p \in {<<>>} |-> NoOutcome] IN
    /\ goal # "completed"
    /\ ExecutableGraph(graph)
    /\ goal' = "active"
    /\ \/ /\ exec.used = 0
          /\ Fits({<<>>}, out, exec.maxActivations)
          /\ exec' = [exec EXCEPT !.used = Cardinality(Children({<<>>}, out))]
          /\ acts' = EnabledActs({<<>>}, out)
          /\ openGens' = NewGenerations({<<>>})
          /\ closedGens' = {}
       \/ /\ exec.used > 0
          /\ UNCHANGED <<exec, acts, openGens, closedGens>>
    /\ UNCHANGED <<graph, attempts>>

\* activateGoal: validate, let cursor fan out from the start node once, and
\* mark the goal active whatever it was.
ActivateGoal ==
    LET out == [p \in {<<>>} |-> NoOutcome] IN
    /\ goal \notin {"completed", "canceled"}
    /\ ExecutableGraph(graph)
    /\ goal' = "active"
    /\ \/ /\ exec.used = 0
          /\ Fits({<<>>}, out, exec.maxActivations)
          /\ ~InvalidJoin({<<>>}, out)
          /\ exec' = [exec EXCEPT !.used = Cardinality(Children({<<>>}, out))]
          /\ LET A == EnabledActs({<<>>}, out)
                 O == NewGenerations({<<>>})
             IN  /\ acts' = Reconciled(A, O)
                 /\ openGens' = O \ Closed(A, O)
                 /\ closedGens' = Closed(A, O)
       \/ /\ exec.used > 0
          /\ UNCHANGED <<exec, acts, openGens, closedGens>>
    /\ UNCHANGED <<graph, attempts>>

NewAttempt == [status |-> "queued", owned |-> FALSE, cancelRequested |-> FALSE,
               session |-> FALSE, completion |-> FALSE, outcome |-> NoOutcome,
               review |-> "none", evidence |-> FALSE]

\* Mutants: a visit that is already running is ready; only an active goal's
\* visits are ready.
DispatchableTwice(i) ==
    /\ goal \notin {"draft", "completed", "canceled"}
    /\ ~Settled(acts[i].status)
    /\ ~exec.cancelRequested
    /\ acts[i].attemptsUsed < acts[i].maxAttempts

DispatchableWhileActive(i) ==
    /\ goal = "active"
    /\ acts[i].status \in {"ready", "failed"}
    /\ ~exec.cancelRequested
    /\ acts[i].attemptsUsed < acts[i].maxAttempts

\* explainActivation's "ready" decision.
Dispatchable(i) ==
    /\ goal \notin {"draft", "completed", "canceled"}
    /\ acts[i].status \in {"ready", "failed"}
    /\ ~exec.cancelRequested
    /\ acts[i].attemptsUsed < acts[i].maxAttempts

Dispatched(r) ==
    [Bumped(r) EXCEPT !.status = "running", !.attemptsUsed = r.attemptsUsed + 1]

\* Mutant: dispatch without counting the attempt.
DispatchUncounted(i) ==
    /\ Dispatchable(i)
    /\ LET a == <<i, acts[i].attemptsUsed + 1>> IN
       attempts' = [b \in DOMAIN attempts \cup {a} |->
                       IF b = a THEN NewAttempt ELSE attempts[b]]
    /\ acts' = [acts EXCEPT ![i] = [Bumped(@) EXCEPT !.status = "running"]]
    /\ goal' = "active"
    /\ UNCHANGED <<graph, exec, openGens, closedGens>>

\* dispatchRun: a queued run and attempt with an unowned claim.
DispatchRun(i) ==
    /\ Dispatchable(i)
    /\ LET a == <<i, acts[i].attemptsUsed + 1>> IN
       attempts' = [b \in DOMAIN attempts \cup {a} |->
                       IF b = a THEN NewAttempt ELSE attempts[b]]
    /\ acts' = [acts EXCEPT ![i] = Dispatched(@)]
    /\ goal' = "active"
    /\ UNCHANGED <<graph, exec, openGens, closedGens>>

-----------------------------------------------------------------------------
(* The attempt as its host drives it. *)

\* claimAttempt.  A version 1 claim also marks the attempt running.
ClaimAttempt(a) ==
    /\ ~Terminal(attempts[a].status)
    /\ goal \notin {"completed", "canceled"}
    /\ ~attempts[a].completion
    /\ ~attempts[a].cancelRequested
    /\ attempts' = [attempts EXCEPT ![a].owned = TRUE,
                       ![a].status = IF graph.protocol = 2 THEN @ ELSE "running"]
    /\ UNCHANGED <<graph, goal, exec, acts, openGens, closedGens>>

\* Mutant: a second start of a recorded session is not a replay.
RestartAttempt(a) ==
    /\ attempts[a].owned
    /\ ~Terminal(attempts[a].status)
    /\ ~attempts[a].cancelRequested
    /\ attempts' = [attempts EXCEPT ![a].session = TRUE, ![a].status = "running"]
    /\ UNCHANGED <<graph, goal, exec, acts, openGens, closedGens>>

\* startAttempt: record the worker session; idempotent once recorded.
StartAttempt(a) ==
    /\ attempts[a].owned
    /\ ~Terminal(attempts[a].status)
    /\ ~attempts[a].cancelRequested
    /\ ~attempts[a].session
    /\ attempts' = [attempts EXCEPT ![a].session = TRUE, ![a].status = "running"]
    /\ UNCHANGED <<graph, goal, exec, acts, openGens, closedGens>>

\* Mutant: a report may come in although cancellation was requested.
MayReportCanceling(a, s) ==
    /\ ~Terminal(attempts[a].status)
    /\ graph.protocol = 2 => attempts[a].owned
    /\ graph.protocol = 2 /\ s \in {"running", "paused", "succeeded"} => attempts[a].session
    /\ s # "canceled" => goal \notin {"completed", "canceled"}
    /\ a = LatestAttempt(a[1])

\* The checks every non-replayed attempt update makes first: ownership
\* (version 2), terminal goal, cancellation, superseded run, recorded session.
MayReport(a, s) ==
    /\ ~Terminal(attempts[a].status)
    /\ graph.protocol = 2 => attempts[a].owned
    /\ graph.protocol = 2 /\ s \in {"running", "paused", "succeeded"} => attempts[a].session
    /\ s # "canceled" => goal \notin {"completed", "canceled"} /\ ~attempts[a].cancelRequested
    /\ a = LatestAttempt(a[1])

\* updateRunAttempt with status running or paused.
ReportProgress(a, s) ==
    /\ MayReport(a, s)
    /\ ~attempts[a].completion
    /\ attempts' = [attempts EXCEPT ![a].status = s]
    /\ UNCHANGED <<graph, goal, exec, acts, openGens, closedGens>>

Policy(a) == graph.policy[NodeAt(a[1])]

\* The completion gates of attempt a, on its row r.
GatePassed(a, r) ==
    /\ "review" \in Policy(a) => r.review = "approved"
    /\ "evidence" \in Policy(a) => r.evidence

\* updateRunAttempt settling attempt a, now row r, as succeeded with outcome o.
Succeed(a, r, o) ==
    /\ attempts' = [attempts EXCEPT ![a] = [r EXCEPT !.status = "succeeded", !.outcome = o]]
    /\ Route(a[1], o)
    /\ UNCHANGED graph

\* updateRunAttempt settling attempt a as failed: the visit may be retried.
Fail(a, r) ==
    /\ attempts' = [attempts EXCEPT ![a] = [r EXCEPT !.status = "failed"]]
    /\ SettleGoal([acts EXCEPT ![a[1]] = [Bumped(@) EXCEPT !.status = "failed"]],
                  openGens, exec.cancelRequested)
    /\ UNCHANGED <<graph, exec>>

\* A success report: the outcome must match an edge, a pending completion is
\* immutable, and an unmet gate pauses the attempt instead of settling it.
ReportSucceeded(a, o) ==
    /\ MayReport(a, "succeeded")
    /\ attempts[a].completion => o = attempts[a].outcome
    /\ Selected(graph, NodeAt(a[1]), o) # {}
    /\ \/ /\ GatePassed(a, attempts[a])
          /\ Succeed(a, attempts[a], o)
       \/ /\ ~GatePassed(a, attempts[a])
          /\ attempts' = [attempts EXCEPT ![a].status = "paused",
                                          ![a].completion = TRUE, ![a].outcome = o]
          /\ UNCHANGED <<graph, goal, exec, acts, openGens, closedGens>>

ReportFailed(a) == MayReport(a, "failed") /\ Fail(a, attempts[a])

\* Mutant: settling trusts the review without looking at the gates again.
SettleUnchecked(a, r) ==
    LET settling == r.status = "paused" /\ r.completion IN
    /\ settling => MayReport(a, "succeeded")
    /\ \/ settling /\ r.review = "rejected" /\ Fail(a, r)
       \/ settling /\ r.review # "rejected" /\ Succeed(a, r, r.outcome)
       \/ /\ ~settling
          /\ attempts' = [attempts EXCEPT ![a] = r]
          /\ UNCHANGED <<graph, goal, exec, acts, openGens, closedGens>>

\* settleGate: a completion waiting for its gates is looked at again after
\* every review and evidence record, without the owner's token but not while
\* its cancellation awaits the owner.  r is the attempt with the new record.
SettleGate(a, r) ==
    LET settling == r.status = "paused" /\ r.completion IN
    /\ settling => MayReport(a, "succeeded")
    /\ \/ settling /\ r.review = "rejected" /\ Fail(a, r)
       \/ settling /\ r.review # "rejected" /\ GatePassed(a, r) /\ Succeed(a, r, r.outcome)
       \/ /\ settling => r.review # "rejected" /\ ~GatePassed(a, r)
          /\ attempts' = [attempts EXCEPT ![a] = r]
          /\ UNCHANGED <<graph, goal, exec, acts, openGens, closedGens>>

\* reviewRunAttempt ("rejected" stands for changes_requested too).
ReviewAttempt(a, verdict) ==
    /\ ~Terminal(attempts[a].status)
    /\ SettleGate(a, [attempts[a] EXCEPT !.review = verdict])

\* recordAttemptEvidence.  Evidence of a node without gates is never read.
RecordEvidence(a) ==
    /\ ~Terminal(attempts[a].status)
    /\ Policy(a) # {}
    /\ SettleGate(a, [attempts[a] EXCEPT !.evidence = TRUE,
                         !.review = IF @ = "none" THEN "pending" ELSE @])

-----------------------------------------------------------------------------
(* Cancellation. *)

\* Only an acknowledgement proves an owned or running attempt stopped.
NeedsAcknowledgement(r) == r.owned \/ r.status = "running"

CanceledAttempt(r) ==
    IF NeedsAcknowledgement(r) THEN [r EXCEPT !.cancelRequested = TRUE]
    ELSE [r EXCEPT !.status = "canceled"]

StoppedAttempts(T) ==
    [b \in DOMAIN T |-> IF Terminal(T[b].status) THEN T[b] ELSE CanceledAttempt(T[b])]

\* Work no attempt is running is canceled with a new revision, unowned queued
\* work without one; acknowledged work stays running until the report.
StoppedActs(A, T) ==
    [i \in DOMAIN A |->
        IF A[i].status \in {"ready", "failed", "blocked", "waiting_join"}
        THEN [Bumped(A[i]) EXCEPT !.status = "canceled"]
        ELSE IF \E b \in DOMAIN T : /\ b[1] = i
                                    /\ ~Terminal(T[b].status)
                                    /\ ~NeedsAcknowledgement(T[b])
        THEN [A[i] EXCEPT !.status = "canceled"]
        ELSE A[i]]

AwaitsAcknowledgement(T) ==
    \E b \in DOMAIN T : ~Terminal(T[b].status) /\ NeedsAcknowledgement(T[b])

\* cancelGoal; cancelRun of a live run is the same command.  A draft has no
\* execution row to record the request in.
CancelGoal ==
    /\ goal \notin {"completed", "canceled"}
    /\ exec' = [exec EXCEPT !.cancelRequested = @ \/ exec.used > 0]
    /\ attempts' = StoppedAttempts(attempts)
    /\ acts' = StoppedActs(acts, attempts)
    /\ goal' = IF AwaitsAcknowledgement(attempts) THEN "blocked" ELSE "canceled"
    /\ UNCHANGED <<graph, openGens, closedGens>>

\* Mutant: the goal is settled as if nothing had been canceled.
CancelAttemptOnly(a) ==
    LET A == [acts EXCEPT ![a[1]] = [Bumped(@) EXCEPT !.status = "canceled"]]
        T == [attempts EXCEPT ![a].status = "canceled"]
        first == ~exec.cancelRequested
    IN  /\ attempts' = IF first THEN StoppedAttempts(T) ELSE T
        /\ exec' = [exec EXCEPT !.cancelRequested = TRUE]
        /\ SettleGoal(IF first THEN StoppedActs(A, T) ELSE A, openGens, FALSE)
        /\ UNCHANGED graph

\* An attempt settled as canceled cancels the whole goal the first time.
CancelAttempt(a) ==
    LET A == [acts EXCEPT ![a[1]] = [Bumped(@) EXCEPT !.status = "canceled"]]
        T == [attempts EXCEPT ![a].status = "canceled"]
        first == ~exec.cancelRequested
    IN  /\ attempts' = IF first THEN StoppedAttempts(T) ELSE T
        /\ exec' = [exec EXCEPT !.cancelRequested = TRUE]
        /\ SettleGoal(IF first THEN StoppedActs(A, T) ELSE A, openGens, TRUE)
        /\ UNCHANGED graph

ReportCanceled(a) == MayReport(a, "canceled") /\ CancelAttempt(a)

\* Mutant: finished attempts can be abandoned.
AbandonFinished(a) ==
    /\ a = LatestAttempt(a[1])
    /\ goal \notin {"completed", "canceled"}
    /\ ~attempts[a].cancelRequested
    /\ Fail(a, attempts[a])

\* abandonAttempt: an operator confirms the process stopped; the attempt fails,
\* or is canceled if cancellation was requested of it.  Owned or not.
AbandonAttempt(a) ==
    /\ ~Terminal(attempts[a].status)
    /\ a = LatestAttempt(a[1])
    /\ \/ /\ attempts[a].cancelRequested
          /\ CancelAttempt(a)
       \/ /\ ~attempts[a].cancelRequested
          /\ goal \notin {"completed", "canceled"}
          /\ Fail(a, attempts[a])

-----------------------------------------------------------------------------
(* Operator budgets. *)

MayChangeBudget ==
    /\ goal \notin {"draft", "completed", "canceled"}
    /\ ~exec.cancelRequested
    /\ \A i \in DOMAIN acts : acts[i].revision < MaxRevision    \* model bound

\* setRetryBudget: every unsettled activation gets the new budget.
SetRetryBudget(n) ==
    /\ MayChangeBudget
    /\ exec' = [exec EXCEPT !.maxAttempts = n]
    /\ acts' = [i \in DOMAIN acts |->
                   IF Settled(acts[i].status) THEN acts[i]
                   ELSE [Bumped(acts[i]) EXCEPT !.maxAttempts = n]]
    /\ UNCHANGED <<graph, goal, openGens, closedGens, attempts>>

BlockedActs == {i \in DOMAIN acts : acts[i].status = "blocked"}

\* The blocked parents a new budget lets through: they fit together, and no
\* other blocked parent fits on top of them.  The order in which the command
\* tries them is the query's.
Affordable(R, out, n) ==
    /\ Fits(R, out, n)
    /\ \A b \in BlockedActs \ R : ~Fits(R \cup {b}, out, n)

\* setActivationBudget: replay the kept results of blocked parents.
SetActivationBudget(n) ==
    LET out == [i \in BlockedActs |-> acts[i].pending] IN
    /\ MayChangeBudget
    /\ n >= exec.used
    /\ \E R \in SUBSET BlockedActs :
          LET E == EnabledActs(R, out)
              A == [i \in DOMAIN E |-> IF i \in BlockedActs \ R
                                       THEN BudgetBlocked(E[i], E[i].pending) ELSE E[i]]
          IN  /\ Affordable(R, out, n)
              /\ ~InvalidJoin(R, out)
              /\ exec' = [exec EXCEPT !.maxActivations = n,
                                      !.used = @ + Cardinality(Children(R, out))]
              /\ SettleGoal(A, openGens \cup NewGenerations(R), FALSE)
    /\ UNCHANGED <<graph, attempts>>

-----------------------------------------------------------------------------
HostStep(a) ==
    \/ ClaimAttempt(a)
    \/ StartAttempt(a)
    \/ \E s \in ProgressReports : ReportProgress(a, s)
    \/ \E o \in Results : ReportSucceeded(a, o)
    \/ ReportFailed(a)
    \/ ReportCanceled(a)

OperatorStep ==
    \/ ActivateGoal
    \/ \E i \in DOMAIN acts : DispatchRun(i)
    \/ \E a \in DOMAIN attempts, v \in Verdicts : ReviewAttempt(a, v)
    \/ \E a \in DOMAIN attempts : RecordEvidence(a)
    \/ \E a \in DOMAIN attempts : AbandonAttempt(a)
    \/ CancelGoal
    \/ \E n \in RetryBudgets : SetRetryBudget(n)
    \/ \E n \in ActivationBudgets : SetActivationBudget(n)

Next == OperatorStep \/ \E a \in DOMAIN attempts : HostStep(a)

Spec == Init /\ [][Next]_vars

-----------------------------------------------------------------------------
(* Fairness.  Core launches nothing: an external controller dispatches what *)
(* plan calls ready, hosts claim and start what is dispatched, and every    *)
(* attempt ends by a report or by an operator who confirms it stopped.      *)

FinishAttempt(a) ==
    \/ \E o \in Results : ReportSucceeded(a, o)
    \/ ReportFailed(a)
    \/ ReportCanceled(a)
    \/ AbandonAttempt(a)

FairSpec ==
    /\ Spec
    /\ WF_vars(\E i \in DOMAIN acts : DispatchRun(i))
    /\ WF_vars(\E a \in DOMAIN attempts : ClaimAttempt(a))
    /\ WF_vars(\E a \in DOMAIN attempts : StartAttempt(a))
    /\ WF_vars(\E a \in DOMAIN attempts : FinishAttempt(a))

-----------------------------------------------------------------------------
(* Types. *)

ActStatus == {"ready", "running", "waiting_join", "failed", "blocked",
              "succeeded", "joined", "canceled"}

AttemptStatus == {"queued", "running", "paused", "succeeded", "failed", "canceled"}

GoalStatuses == {"draft", "active", "failed", "blocked", "completed", "canceled"}

Paths == Seq(graph.edges)

Activations == [status : ActStatus, scopes : Seq(Paths), attemptsUsed : Nat,
                maxAttempts : Nat, revision : Nat, pending : Results]

Attempts == [status : AttemptStatus, owned : BOOLEAN, cancelRequested : BOOLEAN,
             session : BOOLEAN, completion : BOOLEAN, outcome : Results,
             review : Verdicts \cup {"none", "pending"}, evidence : BOOLEAN]

\* Every row has its type, every attempt belongs to an activation and a number
\* that activation has used.
TypeOK ==
    /\ graph \in Graphs
    /\ goal \in GoalStatuses
    /\ exec \in [used : Nat, maxActivations : Nat, maxAttempts : Nat,
                 cancelRequested : BOOLEAN]
    /\ DOMAIN acts \subseteq Paths \ {<<>>}
    /\ \A i \in DOMAIN acts : acts[i] \in Activations
    /\ openGens \subseteq DOMAIN acts \cup {<<>>}
    /\ closedGens \subseteq DOMAIN acts \cup {<<>>}
    /\ \A a \in DOMAIN attempts :
          /\ a \in (DOMAIN acts) \X Nat
          /\ a[2] \in 1 .. acts[a[1]].attemptsUsed
          /\ attempts[a] \in Attempts

-----------------------------------------------------------------------------
(* Budget. *)

\* The counter a budget is checked against (goal_executions.activations_used)
\* is the number of activation rows, and never exceeds the budget in force:
\* no enabling, initial fan-out or replay of blocked work is counted twice,
\* lost, or let through by a budget that only fits a part of it.
BudgetExact ==
    /\ exec.used = Cardinality(DOMAIN acts)
    /\ exec.used <= exec.maxActivations

-----------------------------------------------------------------------------
(* Joins. *)

\* A generation closes only when it has no live member left, and no later
\* branch, retry or replay can join it again: a join consumes its arrivals
\* exactly once, after all the selected descendants settled.
JoinConsumedOnce ==
    \A i \in DOMAIN acts, g \in closedGens :
        i \in Members(acts, g) => Settled(acts[i].status)

\* An arrival waits for an open generation of its paired fork, the latest one
\* it is in, whatever closed around it: it is never left without a join that
\* can still take it.
ArrivalsOpen ==
    \A i \in DOMAIN acts : acts[i].status = "waiting_join" =>
        \E g \in openGens : i \in OwnArrivals(acts, g)

\* Outside cancellation every command leaves no generation behind that could
\* be closed.
JoinsReconciled == ~exec.cancelRequested /\ goal # "canceled" => Closable(acts, openGens) = {}

\* No arrival misses its join: the generation it waits for is still open, and
\* it never waits for branches that are all done.
NoMissedJoin == ArrivalsOpen /\ JoinsReconciled

\* A visit can never be rejected with INVALID_JOIN when it completes: the
\* validator's dominance, revisit and nesting rules are enough.
ArrivalsPaired ==
    \A i \in Unsettled(acts), o \in Results : acts[i].status # "waiting_join" =>
        ~InvalidJoin({i}, [p \in {i} |-> o])

\* Work that only waits for joins is a deadlock no operator command but cancel
\* can end: whenever something waits, something else can still run, be retried
\* or be given budget.  This is what lifecycle-contract.md promises of every
\* published graph ...
JoinsAlwaysProgress ==
    Unsettled(acts) # {} => \E i \in Unsettled(acts) : acts[i].status # "waiting_join"

\* ... and what the engine delivers for every accepted graph in which no
\* nested fork can be visited again before its join.
NoJoinDeadlock == ~NestedReentry(graph) => JoinsAlwaysProgress

-----------------------------------------------------------------------------
(* Attempts. *)

\* An activation is running exactly while its latest attempt is unfinished,
\* and no earlier attempt of it ever is: one execution per visit at a time.
OneLiveAttempt ==
    /\ \A i \in DOMAIN acts :
          acts[i].status = "running" <=> LatestAttempt(i) \in Live
    /\ \A a \in Live : a = LatestAttempt(a[1])

\* A visit that succeeded, was merged into a join or was canceled is never
\* reopened, and a finished attempt never changes.
FinishedIsFinal ==
    [][/\ \A i \in DOMAIN acts : Settled(acts[i].status) => acts'[i] = acts[i]
       /\ \A a \in DOMAIN attempts : Terminal(attempts[a].status) => attempts'[a] = attempts[a]]_vars

\* A completion waiting for its gates keeps its result until it settles, and
\* where hosts record sessions it is never running again.
PendingCompletionFrozen ==
    [][\A a \in DOMAIN attempts :
          attempts[a].completion => /\ attempts'[a].outcome = attempts[a].outcome
                                    /\ attempts'[a].completion
                                    /\ graph.protocol = 2 => attempts'[a].status # "running"]_vars

\* No visit of a gated node ever enables its successors before its gates are
\* met, whether the report, the review or the evidence came last.
GateRespected ==
    [][\A a \in DOMAIN attempts :
          attempts[a].status # "succeeded" /\ attempts'[a].status = "succeeded" =>
              /\ "review" \in Policy(a) => attempts'[a].review = "approved"
              /\ "evidence" \in Policy(a) => attempts'[a].evidence]_vars

-----------------------------------------------------------------------------
(* Cancellation. *)

\* Once cancellation is requested only acknowledged execution is outstanding:
\* whatever is unsettled has an owned or running attempt that has been asked
\* to stop.
CancelFence ==
    exec.cancelRequested =>
        /\ \A i \in Unsettled(acts) : acts[i].status = "running"
        /\ \A a \in Live : attempts[a].cancelRequested /\ NeedsAcknowledgement(attempts[a])

\* After cancellation is requested nothing new is enabled or dispatched and
\* no visit succeeds; a canceled goal stays canceled.
NoNewWorkAfterCancel ==
    [][/\ exec.cancelRequested =>
             /\ exec'.cancelRequested
             /\ DOMAIN acts' = DOMAIN acts
             /\ DOMAIN attempts' = DOMAIN attempts
             /\ \A i \in DOMAIN acts : acts'[i].status = "succeeded" => acts[i].status = "succeeded"
       /\ goal = "canceled" => goal' = "canceled"]_vars

-----------------------------------------------------------------------------
(* Progress, under FairSpec. *)

\* Only an operator's budget can move this activation.
Exhausted(i) ==
    \/ acts[i].status = "blocked"
    \/ acts[i].status = "failed" /\ acts[i].attemptsUsed >= acts[i].maxAttempts

\* A controller that dispatches whatever is ready and hosts that end what they
\* claim bring every goal to its end, or to an activation that has used up a
\* budget: joins, retries and re-activations never leave it idle otherwise.
GoalProgresses ==
    goal # "draft" ~> \/ goal \in {"completed", "canceled"}
                      \/ \E i \in DOMAIN acts : Exhausted(i)

\* Once the owners acknowledge, a requested cancellation takes effect.
CancelCompletes == exec.cancelRequested ~> goal = "canceled"
=============================================================================

# Senderos: a TLA+ verification project

Senderos coordinates long-running goals that external coding agents work on. A
goal is pinned to a published workflow graph (a *sendero*); the core library
decides which visits of which nodes are due, hosts outside the core claim and
execute them, and reports settle visits and enable their successors. Nothing in
the core launches a process: everything it knows is in one libSQL database, and
every command is one write transaction.

This directory models that core, `packages/core/src/lifecycle` and the goal, run
and attempt commands over it, and what surrounds it: the authoring of senderos, the
dispatch of work by callers that repeat themselves, the example host that executes it,
and the files and processes that set up and reset the database. Paths below are
relative to the repository root; `lifecycle/`, `commands/`, `db/` and `bootstrap/`
without a prefix are under `packages/core/src`.

## Inventory

| Part | State | Operations | Modelled in |
| --- | --- | --- | --- |
| Graph validator, `lifecycle/route.ts` | published versions, nodes, edges | accept a graph, select edges by outcome | `SenderoGraph` |
| Activation engine, `lifecycle/activations.ts`, `lifecycle/state.ts` | `activations`, `fork_generations`, `goal_executions` | enable successors, reconcile joins, settle the goal, explain eligibility, change budgets | `GoalExecution` |
| Goal commands, `commands/goals` | `goals` | create, activate, cancel | `GoalExecution` |
| Dispatch and plan, `commands/runs`, `commands/planning`, `mission-control` | `runs`, `run_attempts`, `lifecycle_requests` | plan, dispatch, dispatch a reviewed batch, start, retry, stop | `RunDispatch`; the visit's side in `GoalExecution` |
| Reports and gates, `commands/attempts`, `lifecycle/gates.ts` | `run_attempts` and its status snapshot | report, review, record evidence, settle a pending completion | `GoalExecution`, `AttemptClaims` |
| Claims and recovery, `lifecycle/hosts.ts`, `lifecycle/host-protocol.ts` | `attempt_claims` | claim, renew, reclaim, start, heartbeat, reconcile, abandon | `AttemptClaims`, which implements `ExclusiveExecution` |
| Host registry, `lifecycle/host-registry.ts` | `execution_hosts`, `host_workspaces` | register, grant, revoke, declare, preflight | `HostRegistry` |
| Legacy cursor, `lifecycle/state.ts` 18-54 | `goal_executions` of older goals | rebuild an activation from run history | not modelled |
| Sendero versions and editing, `lifecycle/versions.ts`, `commands/senderos`, `internal/senderos` | drafts, published versions, agents they name | draft, edit, replace, review, publish | `SenderoVersions` |
| Database client, `db/client.ts` | connection, transaction | `atomic` with busy retry, nested commands, reset fence | `DatabaseReset`, batches in `RunDispatch`; elsewhere one command is one action |
| Database reset, `db/reset.ts` | database file, lock file, backup | preview, reset | `DatabaseReset` |
| Configuration, migration and seeding, `shared/config.ts`, `db/migrate.ts`, `bootstrap` | configuration files, schema, contexts, bundled agents and senderos | initialise, configure, seed, import | `RuntimeBootstrap` |
| Agents, transitions, contexts | records | create, update, register | `RuntimeBootstrap`, `SenderoVersions` as far as others depend on them |
| CLI, Studio | calls under way, reviews on screen | call core commands, review a plan, prepare the database | `RunDispatch`, `ExternalHost`, `RuntimeBootstrap` for those calls |
| External-host example, `examples/external-host`, `scripts/external-host-simulation.ts` | worker processes, pipes, result files | run, observe, recover, drain and cancel workers | `ExternalHost`, over `AttemptClaims` |
| Projects, transitions by hand, docs site, scripts | records, build products | upserts | not modelled |

How they interact: an operator or a scheduled controller calls `plan` and
`dispatch`; dispatch makes a run with one attempt and an unowned claim row. A host
passes preflight against the registry, claims the attempt and gets a token and a
lease, starts an external session, heartbeats and reports. A report goes through
the ownership check, then the completion gates, then the activation engine, all
inside one transaction. Reviewers and evidence settle attempts whose success
waits for gates. Cancellation comes from an operator or from a report and reaches
every visit and attempt of the goal.

What is hard here:

- **Ordering.** Branches of a fork arrive at their join, fail, are retried, leave
  through an end or are cut by a budget in any order, inside loops and nested forks.
- **Interleaving.** Hosts, operators, reviewers and the controller act between any
  two commands; what they read (a plan, a token, a preflight) can be stale when used.
- **Delivery.** Calls are lost, delayed and repeated; the token and the request id
  are the only defence.
- **Time.** Leases lapse while workers still run; expiry must authorise nobody.
- **Recovery.** Controllers crash between claim and start; sessions finish
  unreported; the record of an inspection can be old.
- **Lost replies.** A caller that did not hear back repeats its dispatch, perhaps after
  the visit ended; a batch fails, or its process dies, between two items.
- **Processes.** A worker hangs, dies or is merely slow; its CLI child fails before or
  after it took effect; two processes initialise one database.
- **Failure on disk.** A reset replaces the database file under its clients and can
  stop, or lose power, at any system call.
- **Limits.** Activation and retry budgets stop expansion and must be exact.

What correctness means for each part is stated as the properties below;
`PROJECT.json` lists every hazard at its line with the properties that would catch
it, and gives a reason for those that have none.

## Modules

| Module | Content |
| --- | --- |
| `SenderoGraph` | graphs as records, edge selection, reachability and the validator `ExecutableGraph` |
| `GoalExecution` | one goal executing its graph: the actions of every command, all properties, `Spec` and `FairSpec` |
| `GoalExecutionProofs` | theorems about `GoalExecution`: types, budgets, exclusion and finality, cancellation and completion gates, and the lemmas about its commands and `Route` |
| `GoalJoinsProofs` | theorems about its joins |
| `MCGoalExecution` | a few shaped graphs: diamond with join, gated agent, loop around a fork, migrated graph, re-entrant nested fork |
| `MCSmallGraphs` | every small graph with a join, routed in every order |
| `HostRegistry` | registration, grants and workspace declarations of hosts; preflight |
| `AttemptClaims` | claims, tokens, leases, sessions, reports, reconciliation, recovery and cancellation for the attempts of a goal; extends `HostRegistry` |
| `ExclusiveExecution` | the abstract promise `AttemptClaims` implements |
| `AttemptClaimsProofs` | theorems about `AttemptClaims`, among them the refinement |
| `MCAttemptClaims` | its instances |
| `SenderoVersions`, `MCSenderoVersions` | drafts, their edits and publication for one sendero, and its instances; extends `SenderoGraph` |
| `SenderoVersionsProofs` | theorems about `SenderoVersions` |
| `RunDispatch`, `MCRunDispatch` | reserving work over several goals: plans, request ids, reviewed batches, Mission Control; its instance |
| `RunDispatchProofs` | theorems about `RunDispatch` |
| `ExternalHost`, `MCExternalHost` | the example host and its script as processes over `AttemptClaims`; its instance |
| `ExternalHostProofs` | theorems about `ExternalHost`, on top of those about the claim protocol |
| `RuntimeBootstrap`, `MCRuntimeBootstrap` | initialising homes and a Studio over one database; its instance |
| `RuntimeBootstrapProofs` | theorems about `RuntimeBootstrap` |
| `DatabaseReset`, `MCDatabaseReset` | the file protocol of a reset against its clients, and its instances |
| `DatabaseResetProofs` | theorems about `DatabaseReset` |

Definitions introduced by a comment `Mutant:` are not part of any specification.
Each is a plausible mistake in the definition that follows it; substituting it
breaks a property, which shows that the property depends on that code.

### GoalExecution and the code

One command is one action, because every command runs in one `atomic` write
transaction (`db/client.ts` 84-107); a rejected command rolls back and is a step
that is not enabled, and a command that changes nothing is a stutter.

| Variable | Rows |
| --- | --- |
| `graph` | the pinned version: nodes, active edges, join pairings, policies, budget, protocol |
| `goal` | `goals.status` |
| `exec` | `goal_executions`: activations used, the budgets, cancellation request |
| `acts` | `activations`: status, scopes, attempts used, budget, revision, pending routing |
| `openGens`, `closedGens` | `fork_generations` |
| `attempts` | `run_attempts` with the run's status, whether the claim has an owner, cancellation request, completion request, review, evidence |

An activation is named by the path of edges that created it, since a parent
enables successors once, one per selected edge; a generation by the activation
that forked. Random ids are thereby canonical, and states that differ in ids only
are one state.

`Route` is `enableSuccessors`; `SettleGoal` is `settleGoal` with `reconcileJoins`;
`DispatchRun`, `ClaimAttempt`, `StartAttempt`, `ReportProgress`,
`ReportSucceeded`, `ReportFailed`, `ReportCanceled`, `ReviewAttempt`,
`RecordEvidence`, `AbandonAttempt`, `CancelGoal`, `ActivateGoal`,
`SetRetryBudget` and `SetActivationBudget` are the commands of those names, each
with everything it calls. Two orders the database leaves open are kept apart: which
arrival survives a join is one fixed choice (no property depends on the name of
the survivor), and which blocked visits a raised budget lets through is any
maximal set. `reconcileJoins` walks the generations in row order; the model closes
the closable ones together and then those that this drained, which is what the
row order (outer generations are older) gives.

Left out: whether the agent of a node is still active, the contents of packets,
snapshots and results other than `outcome`, events, timestamps, and the
reconstruction of version-1 history by `cursor`.

### AttemptClaims and the code

| Variable | Rows |
| --- | --- |
| `registry` | `execution_hosts` and `host_workspaces` for the goal's project |
| `now` | the clock |
| `attempts` | `run_attempts`: status, recorded host and session, completion request |
| `claims` | `attempt_claims`: owner, token, lease, cancellation request, recovery outcome and when it was observed |
| `canceling` | `goal_executions.cancellation_requested_at` |
| `lastToken`, `handed` | tokens drawn so far, and those returned to a caller |

Tokens are numbered in the order they are drawn. A host call may present any token
ever returned at any time: this covers delayed, repeated and reordered calls, lost
replies and restarted controllers without modelling a network. The tokens that
`reconcile` and `abandon` draw for themselves are never returned, and cannot be
presented. `recovered` in a claim is auxiliary: the status the last accepted
finished reconciliation named, which the code stores only as the attempt's result.
Whether a gated attempt's review and evidence are complete is left open at each
report (`GoalExecution` models it). The goal's other commands appear only as far
as they reach attempts. Protocol 1, the access rule between execution contexts and
the parent session and path compared by a repeated `start` are left out.

`ExclusiveExecution` says what all this is for: an attempt is assigned to at most
one host in its life, runs there in at most one session, no session serves two
unfinished attempts of a host, and an end is final. The mapping (`Slot`) forgets
tokens, leases and observations.

### DatabaseReset and the code

| Variable | What it is |
| --- | --- |
| `target` | the file the database path names: the original or the replacement of one reset |
| `disk` | contents of the files, as the set of clients whose transaction is in them |
| `marker` | the lock file `....senderos-reset.lock` and who made it |
| `sqlite` | who holds SQLite's write lock on each file |
| `backups` | the backup of each reset: linked, its entry flushed, its contents flushed |
| `settled` | the directory entries that survive a power failure |
| `reset`, `client` | where each process is, and what it has read |

Each action of a reset is one call of `resetLocalDatabase` that other processes can
see (a system call or a statement), in the order of the code; `Fail` is the `catch`,
which every call from the lock on can reach, and `Cleanup` and `Unlock` are what
follows it on every path. A client is `atomic` with one write. `Outage` is a power
failure: of what was not flushed any part may be lost. `CloseFile` is what POSIX does
with record locks: closing any descriptor of a file drops all locks the process has on
it. `early` and `late` of a client are auxiliary: whether it was past the test
of the lock file when the lock appeared, and whether it committed to a file that was
fenced or replaced. Left out: every refusal of paths, file types, sidecars
and schema (they only lead to `Fail` or never start), WAL mode and the staging
directory.

### SenderoVersions and the code

| Variable | Rows |
| --- | --- |
| `versions` | `sendero_versions` of one sendero with their `sendero_nodes` and `sendero_edges` |
| `current` | `senderos.current_version` |
| `agents` | `agents`: instructions and whether active |
| `seen` | what an editor last read with `getSenderoGraph`, in place of its hash |
| `edits` | edits so far, for the bound |

`reviewed` in a version is auxiliary: what the editor had read, if the publication
was fenced by `expectedVersionId` and `expectedRevision`. Edits are offered for every
version, also without the optional revision fence, and `Save` refuses those that are not drafts.
`Preserved` is `preservedNodePolicy`, which every command that changes connections
calls; `Executable` is `executableGraph` through `SenderoGraph`. `setCompletionPolicy`
writes the first outgoing connection; the model any one, since creation order is not
kept. Left out: importing a whole definition, outcomes on connections (and the
refusal to remove a node that has them), requirements, labels, layout, more than one
end, parallel connections and timestamps, which are part of the code's hash, so that
an edit that is undone is noticed by the code and not by the model.

### RunDispatch and the code

| Variable | Rows |
| --- | --- |
| `goals` | `goals.status` and the cancellation request of `goal_executions` |
| `acts` | `activations` of each goal: status, revision, attempts used |
| `attempts` | `run_attempts` with their claim; `request`, `item` and `batch` say under which request, reviewed item and batch an attempt was reserved |
| `agentUp` | whether the agent of the visits is active |
| `recorded` | `lifecycle_requests`: the input, in place of its fingerprint, and the attempt the answer names |
| `calls` | the dispatch call each caller is waiting for |
| `told` | auxiliary: answers that reached a caller |
| `review` | the plan each Studio page read, goal by goal, and the items selected from it |
| `tx` | the batch transaction that holds the write lock, and the rows it would roll back to |

A single dispatch is one action; a batch is one action per item between `BeginBatch`
and `CommitBatch` or `RollbackBatch`, since `dispatchReviewed` calls `dispatchRun` in a
loop inside its own transaction (`commands/runs/dispatch.ts` 58-72). `RollbackBatch` is
a failed item, the death of the process, or a busy database: `atomic` then runs the whole
batch again (`db/client.ts` 94-106), which is `BeginBatch` anew, after whatever others
committed in between. Every writer
takes the write lock before it reads (`db/client.ts` 90), so no other command runs while
`tx` is open. A reply may be lost: then the caller still waits and repeats the same input.
`ReplayCall` is the lookup of the request id, `ReserveCall` the reservation,
`RefuseCall` every error. `StartGoal` and `RetryExecution` are Mission Control's
commands, which reserve the first ready visit in the order of creation without a
request id; `StopExecution` cancels the goal of a run.

How a visit is routed belongs to `GoalExecution`: a success here enables any number
of visits. Leases belong to `AttemptClaims`: a claimed attempt stays claimed. The
packet, the working path, the agent and transition ids compared by `dispatch` (they
are functions of the visit) and events are left out. Two things are looser than
the code: `ActivateGoal` does not ask whether the agent is active, and inputs without an
expected revision are told apart by the item their caller saw, of which the fingerprint
may hold the visit only. The first permits more; the second turns some replays into conflicts.

One consequence a reader may not expect: a batch whose reply was lost cannot be
submitted again with success. The plan is tested before the items' request ids are
looked up, and the reserved visits are not in it, so the answer is `STALE_PLAN` although
the batch was dispatched. Nothing is reserved twice; the reviewer has to read the plan.
The replay of a recorded request inside a batch is therefore never taken, which
`RunDispatchProofs` shows (`ReserveNextInv`).

### ExternalHost and the code

| Variable | What it is |
| --- | --- |
| `proc` | the worker process of each attempt: where its loop is, the line in its pipe, what it still has to do about it, the reply it wrote, the token it holds, whether it was killed |
| `files` | attempts whose result file is on disk |
| `script` | the acceptance script: its scenario, what it awaits, the tokens it holds, how it ended |

It extends `AttemptClaims`, whose actions are the coordination commands; this is the
composition of the claim protocol with the processes around it. A scenario is a
sequence of what the script does about which attempt; `RunCommand` is a CLI process
that is accepted or refused, `CommandFails` and `WorkFails` one that fails before or
after it took effect, `Die` and `NoReply` a worker that dies or is silent for 30
seconds, `Delay` a clock that moves while somebody is slow, `Crash` the death of the
script. `WorkerSession.kill` is `Signal` followed by `AwaitExit`. `harmed` is
auxiliary: whether any of those happened. The script's scenarios that only exercise
the registry, joins and routing are left out, as are the files of the controller, the
JSON of the lines and the counters of the report. The controller asks one thing at a
time, so a pipe holds at most one line in each direction.

### RuntimeBootstrap and the code

| Variable | What it is |
| --- | --- |
| `config` | `config.json` of each home: the context id; `complete` is auxiliary: an init with it succeeded |
| `migrated`, `contexts` | the schema, `execution_contexts` |
| `agents`, `transitions` | `agents` (slug, instructions) and their default transitions |
| `sendero` | the bundled sendero and what its published version pins |
| `proc` | each init, config command and the Studio's preparation: at which step, with what it has read |

A step is a file write, a statement or a transaction, in the order of
`initializeRuntime` and `prepareSharedDatabase`. `Fault` ends a process between any
two; `Failed` is what an error does: a command fails, and the Studio forgets its
promise so that the next request starts again. `Seeded` finds a bundled agent by slug
and then by id, as `seedBuiltInAgents` does, and leaves what it finds alone. Harness,
paths, guardrails and output settings, several bundled senderos, agents' other fields
and `config set` of the context id are left out.

## Runs

`RunDispatch` checks for deadlock. The other runs use `CHECK_DEADLOCK FALSE`: a goal
that is finished, waits for a host or has reached a model bound may stop, and so may
resets, clients, scripts and bootstraps that are done.

| Run | Asks | States |
| --- | --- | --- |
| `GoalCommands` | all commands on a fork with a join, on a loop around one with a branch leaving through the end and on a migrated version-1 graph; retry and activation budgets lowered and raised, cancellation at every point | 222,774 |
| `GoalProgress` | review and evidence in every order with reports, retries, outcome routing and cancellation; liveness under `FairSpec` | 153,904 |
| `SmallGraphs` | routing over all 1,982 accepted graphs with up to six edges | 98,982 |
| `ClaimsRecovery` | claims with a clock, two hosts, a changing registry and two attempts of a goal; sessions, cancellation, refinement | 331,387 |
| `ResetSafety` | two resets, a client that writes and one that starts work, failures, deaths, one power failure | 528,176 |
| `SenderoEdits` | edits, publications and agent edits in every order; an editor that reviews before it publishes | 162,542 |
| `RunDispatch` | two callers with lost replies, a reviewer with batches, two goals | 1,353,909 |
| `ExternalHost` | eight scenarios of the example host with failing processes | 24,832 |
| `RuntimeBootstrap` | two commands and a Studio over one database, with deaths, authors and config commands | 911,647 |
| `ReentrantJoin`, `ReconcileReplay`, `ResetFence` | disagreements, see below | violation |

What the passing runs show:

- **Budgets** (`BudgetExact`): the counter equals the number of visits and never
  exceeds the budget in force, through fan-out, replay of blocked work and changes
  of the budget.
- **One execution per visit** (`OneLiveAttempt`) and **finality** (`FinishedIsFinal`).
- **Joins** (`JoinConsumedOnce`, `NoMissedJoin`, `ArrivalsPaired`, `NoJoinDeadlock`):
  over every accepted small graph the validator's rules are
  exactly what the engine needs, except for nested re-entry.
- **Gates** (`GateRespected`, `PendingCompletionFrozen`) and **cancellation**
  (`CancelFence`, `NoNewWorkAfterCancel`, `CancellationReaches`). That a pending
  completion never runs again holds for protocol 2 only, see below.
- **Fencing** (`LapsedTokenStaysDead`, `ExpiryProvesNothing`,
  `ImplementsExclusive`): a lapsed token is dead for good, and ownership or
  token move after expiry only with an inspection behind them.
- **Sessions** (`SessionExclusive`): no session serves two unfinished attempts of a host.
- **Reservation**: a request id reserves once (`AnsweredOnce`); a call with a request id
  and an expected revision that is refused has reserved nothing, neither now nor by an
  earlier try whose reply was lost (`RefusedReservedNothing`); what is reserved on a
  revision is what was read (`ReservedAsReviewed`); a batch is reserved as a whole or not
  at all, also when a busy database makes it start over (`ReservedTogether`).
- **Host processes**: a visit is never worked on by two workers (`SingleWorker`), a
  recorded success has its result on disk (`ResultOnDisk`), the demonstrated
  procedures are accepted unless something really failed (`PassesUnharmed`), and no
  worker outlives a script that was not killed (`NoOrphans`).
- **Initialisation**: a home whose init succeeded names a registered context with a
  name of its own (`InitializedHome`); no bootstrap undoes authoring
  (`AuthoringSurvives`); the Studio comes up whatever fails on the way
  (`StudioComesUp`), with the exception below.
- **Reset** (`NothingLost`, `OneReset`, `CooperativeFence`, `ActiveWorkStays`): a
  transaction that committed before the exclusive lock is in the database or in a
  retained backup whatever happens, and only a client that was past the fence before
  the lock appeared can write too late.
- **Definitions** (`PublishedExecutable`, `PublishedFrozen`; `TypeOK` has the parts
  `NothingDangles` and `OneDraft`): whatever edits a draft went through, what goals are pinned to is
  executable and never changes. **Reviewed publication** (`ReviewedPublished`): the
  fingerprint covers the agents as well as the graph. **Policies** (`PoliciesStay`):
  no change of connections or nodes moves or clears the policy of a node that stays,
  although nodes of built-in definitions have it from their connections.
- **Progress** (`GoalProgresses`, `CancelCompletes`).

### Bounds

`Diamond(3)` has three visits, the fewest with a fork and a join; it starts with the
budget 3, `Round(4)` with 4, and a budget of 3 or 7 and the retry budget 2 make both
limits bind and be lifted. `MaxRevision` stops the two budget commands only, which
are otherwise repeatable for ever. `Round(4)` allows one full round and, with the
budget raised to 7, a second one that the budget cuts. `SmallGraphs`
enumerates all wirings up to renaming with six edges over three agents: six edges
are the fewest for two nested forks with their joins. `ClaimsRecovery` stops the
clock at 4 with leases of 1 and 2, enough to claim, lapse, inspect, reclaim, lapse
again and abandon; one host changes in the registry while the other stays ready.
The constraint `Scope` lets the second attempt be dispatched only while the
changing host is unknown and for a quarter of the time: two attempts
share the host that stays, which is where sessions collide. The two sessions are
interchangeable (symmetry is sound: nothing compares them except for equality).
`ResetSafety` has two resets, which are interchangeable, as more than two meet only
in pairs at the lock; each client runs one transaction, and one power failure can
fall between any two calls. `SenderoEdits` allows three versions, so that a copy is
copied again, and two edits in all: enough to make two connections of an inheriting
node disagree and then change its topology, to pair a join and then remove its
fork, or to redefine an agent between two reviews. Its definitions are one whose
nodes inherit, with a branch, one with a fork and a join, and an empty new sendero.

`RunDispatch` has two visits a goal, two attempts a visit and two attempts ever
reserved, enough for two calls under one request id, a retry, a batch of two items in
two goals or one goal, and a batch that fails after its first item. Its constraint
`Focus` lets two callers compete on one visit, and one caller with the reviewer when
there are two visits or goals. `ExternalHost` needs no bound but two ticks
outside the script's own sleeps: its scenarios are finite. `RuntimeBootstrap` draws two
context ids and allows one fault and two authoring commands: a rename and an edit, or a
new agent that takes a slug and a publication; `Scope` lets two commands be under
way together, or use two names, only before anything fails or is authored.

### Fairness

`FairSpec` assumes weak fairness of dispatch, claim, start and of ending an
attempt, each as one action over all visits or attempts. The core itself schedules
nothing; the contract (`docs/lifecycle-contract.md`, "One host tick") has a
controller that keeps asking for ready work and hosts that end what they claim, or
an operator who confirms they stopped and abandons. No fairness is assumed of
reviews, budget commands, activation or cancellation. Without an operator a goal
may rest on an exhausted budget, and `GoalProgresses` says so.

`ExternalHost` assumes weak fairness of the script's steps (it is a running process
and every wait of it has a time limit, `controller.ts` 65) and of the end of a process
that was killed or has left its loop (the operating system's part). No fairness is
assumed of a worker: it may hang, and `NoOrphans` holds all the same.
`RuntimeBootstrap` assumes that requests keep coming to the Studio and that the
preparation they start goes on; nothing of commands or authors.

### Disagreements found

- `ReentrantJoin`: a published graph whose nested fork can be re-entered before its
  join ends with arrivals waiting for one another (`lifecycle/activations.ts` 65-66),
  against `docs/lifecycle-contract.md` 45-51. `NoJoinDeadlock` shows that nested
  re-entry is the only cause among the small graphs.
- `ReconcileReplay`: repeating a finished reconciliation that named `failed` or
  `canceled` for a pending completion is rejected (`lifecycle/hosts.ts` 141),
  against `docs/lifecycle-contract.md` 119-120.
- `ResetFence`: the reset opens and closes the database file itself while it holds
  SQLite's exclusive lock (`db/reset.ts` 266 and 274), which drops that lock, so a
  client that was already past the lock file can still commit before the rename;
  against `apps/docs/content/docs/cli/db.md` 64-65. The documents warn that
  clients have to be stopped; the fence is for the one that was missed.

Met while proving, without a run of its own:

- An attempt of a migrated (protocol 1) version may report success before a session is
  recorded; it then waits for its gates and can still be started (`lifecycle/hosts.ts`
  73-97 does not look for a pending completion), which makes it running, and a review
  does not settle it any more (`lifecycle/gates.ts` 10).
  `docs/lifecycle-contract.md` 145-146 and `apps/docs/content/docs/cli/attempt.md` 32-33
  say that a pending completion cannot resume running. This is why the last part of
  `PendingCompletionFrozen` is about protocol 2 only: without a recorded session nothing
  in the invariant excluded the step.

Weaknesses the models show that contradict no document:

- If a bundled agent is renamed after the agents were seeded and before the bundled
  senderos are, every later bootstrap fails (`bootstrap/seed-senderos.ts` 83-90)
  until an agent with the slug exists again: `RenamedTooEarly` in `RuntimeBootstrap`.
- `init --approve` without `--execution-context-id` draws another id than the preview
  showed and replaces `config.json` before the registration may refuse the name
  (`shared/config.ts` 166-183): an initialised home then names a context nobody
  registered until init is repeated with its id.
- Two processes that find an empty database both apply the migrations; one of them
  fails and has to be repeated, which the Studio does by itself.
- The token that a finished reconciliation draws while gates are pending is never
  returned (`lifecycle/hosts.ts` 153): if the goal is canceled then, the host cannot
  acknowledge, and only `abandon` ends the attempt.
- Any later observation of an attempt with a pending completion overwrites the
  recorded outcome (`lifecycle/hosts.ts` 149-150), after which a finished
  reconciliation with another status is accepted.

## Proofs

TLAPS proves the theorems below for every value of the constants: TLC shows them
first on the instances above.

**`GoalExecutionProofs`**, from `GraphsAssumption`, `BudgetsAssumption` and
`ProgressAssumption` (graphs are finite, budgets are positive):

| Theorem | Property |
| --- | --- |
| `TypeCorrect` | `TypeOK` |
| `BudgetAlwaysExact` | `BudgetExact` |
| `OneLiveAttemptAlways` | `OneLiveAttempt` |
| `FinishedStaysFinal` | `FinishedIsFinal` |

The inductive invariant `IInv` is these state properties, finiteness of the visits
and `Lineage`: a visit that another one enabled has a parent that succeeded.
`Lineage` is what the counting needs. The code inserts one row per successor and
adds one to the counter; the count is exact only because routing never meets a row
that is already there, and it does not since a parent routes when it succeeds, once.
Every command has a lemma that it preserves `IInv` (`...Inv`), and those commands
that route rest on one lemma about `Route`, which rests on lemmas about paths,
children and the cardinality of what is created.

Cancellation and the completion gates, in the same module:

| Theorem | Property |
| --- | --- |
| `CancellationFences` | `CancelFence` |
| `CanceledGetsNoWork` | `NoNewWorkAfterCancel` |
| `GatesAlwaysRespected` | `GateRespected` |
| `PendingResultsFrozen` | `PendingCompletionFrozen` |

`CancelInv` adds to `CancelFence` that a canceled goal has no live attempt, that a
goal being canceled has used some of its activations, and that a pending completion
under protocol 2 has a recorded session (`Pending`), which is why it is never started
again. `StepKinds` sorts the commands by what they do to the one attempt they are
about; each kind then has one lemma per property.

**`GoalJoinsProofs`**, from the same assumptions:

| Theorem | Property |
| --- | --- |
| `JoinsConsumedOnce` | `JoinConsumedOnce` |
| `NoJoinMissed` | `NoMissedJoin` |
| `ArrivalsStayOpen` | `ArrivalsOpen`, the first part of `NoMissedJoin` |
| `ArrivalsAlwaysPaired` | `ArrivalsPaired` |
| `JoinsNeverDeadlock` | `NoJoinDeadlock` |
| `ReachabilityIsLeast` | what `ReachableFrom` of `SenderoGraph` computes |

`JoinConsumedOnce` is not inductive: a
branch enabled after a generation closed would join it again, unless the branch
that enables it had already been one of its live members. `Nesting` says so: each
scope of a visit is the start node's fork or a visit that succeeded, and that visit's
own scopes are the ones outside it. So a generation has one index in the scopes of all
its members (`SameIndex`), and a member of one generation that is inside another is a
member of the other as well. That closing the closable generations and what this
drains leaves none behind (`NoneMissed`) is a case distinction on where the index of a
generation left over is, before, at or after that of one just closed.

`ArrivalsPaired` and `NoJoinDeadlock` are where the validator meets the engine: they hold because of the
rules `ExecutableGraph` checks, so the proof first says what those rules mean on a
graph of any size. The validator's search is a recursive function over stages;
`ReachabilityIsLeast` shows that it finds the least set that holds the sources and that
no edge leaves but into the excluded nodes. (The induction over the stages is made about
a set of numbers, `InductiveSet`, and the stages are shown to exist in the same way,
since the library's induction theorems cannot be used.) Everything else about paths is
an inclusion of such sets. `Validated`, that a goal with activations has an accepted
graph, carries the rules into the invariant.

- `ArrivalsPaired` needs `Paired`: a visit that has join `J` ahead of it, before another
  visit of `J`'s fork, has a scope of that fork, and one that is later than any scope
  of a fork whose join is ahead of `J`. The first half alone is lost when a survivor
  leaves its generation and with it every later scope; the second says that the scope it
  still needs is not among these. It is kept when a fork opens a generation because
  of `OuterForkFirst`: a fork whose join lies ahead of `J` leads to `J` only through `J`'s
  own fork, which follows from dominance and the nesting rule.
- `NoJoinDeadlock` needs `Inside`, for graphs without `NestedReentry`. `NotPast`: a visit
  in a generation of a fork that cannot be visited again before its join is still
  before that join, and in one such generation only. `NotReforked`: where no scope
  after its `k`-th is of some fork, a visit came from the `k`-th without meeting that
  fork, or past that fork's join. So nothing is left open between a fork and its join (`OwnScopeLast`): such an
  inner fork would be nested in the outer one (`ForkNested`), not be visited again, and
  the arrival would be past its join. `SomethingMoves` then takes, of all waiting
  arrivals, one whose generation is innermost. That generation cannot close,
  so it has an unsettled member that is not an arrival of its own. If this one waits as
  well, it waits for an outer generation while the inner one is still among its scopes,
  which `OwnScopeLast` excludes. `CanceledUnstarted` covers the goals no pass is made for.

What `JoinsNeverDeadlock` excepts, a nested fork that is visited again, is what
`ReentrantJoin` finds.

**`AttemptClaimsProofs`**, from `OwnersAssumption`, `SessionsAssumption`,
`TermsAssumption` and `ChangingAssumption` (identities differ, leases are positive):

| Theorem | Property |
| --- | --- |
| `TypeCorrect` | `TypeOK` |
| `SessionsExclusive` | `SessionExclusive` |
| `SessionsStayAtOwner` | `SessionAtOwner` |
| `CancellationAlwaysReaches` | `CancellationReaches` |
| `LapsedTokensStayDead` | `LapsedTokenStaysDead` |
| `ExpiryAloneProvesNothing` | `ExpiryProvesNothing` |
| `ImplementsExclusiveExecution` | `ImplementsExclusive` |

Here `IInv` is `TypeOK`, `SessionExclusive` and `Sound` of each attempt:
undispatched work is unowned and has no session; a live attempt is never the
operator's, and a live session's owner is the host recorded with it; cancellation
reaches; an owned claim has a drawn token. None of these is inductive alone:
`start` looks for the session under the *recorded host* of other attempts while the
claim that authorises it names the *owner*, so exclusion needs the two to agree.
Three lemmas carry the cases: `LocalStep` (a command on one attempt), `CancelStep`
(the goal is canceled) and `SettleInv` (an end, which may cancel the goal). The
refinement has three kinds of steps: `ClaimAttempt` of unowned work is `Assign`,
`StartAttempt` is `Bind`, everything that ends attempts is `Finish` (`SettleShape`
and `ReportShape` say that nothing else moves), and the rest stutters.

**`ExternalHostProofs`**, from the assumptions of `AttemptClaimsProofs` and
`RetryAssumption`, `HostTermsAssumption` and `PlacesAssumption` (the second attempt is
another one than the first, and what the script uses exists):

| Theorem | Property |
| --- | --- |
| `WorkersTakeTurns` | `SingleWorker` |
| `ResultsAreOnDisk` | `ResultOnDisk` |
| `HostKeepsClaims` | `TypeOK`, `SessionExclusive`, `CancellationReaches` of `AttemptClaims`, under this host |
| `HostTokensStayDead` | `LapsedTokenStaysDead`, under this host |
| `HostImplementsExclusive` | `ImplementsExclusive`, under this host |

Every step of the host is a `ClaimStep`: a step of the claim protocol, the revocation of
a grant or a sleep of the script (`HostNextClaimStep`). The last three theorems
follow from that and the lemmas of `AttemptClaimsProofs`. The first two need
`HInv`, which relates what is left of the plan to the processes. `Turn`: a step of the
plan that sees the first worker end (its exit is awaited, or it answered that it
failed) stands before the launch of the second, or has been passed and the worker
works no more. `Found`: a result the script reports as finished was written, or the
request to write it is still ahead. `Asked` and `Quiet` say that the script waits
for the reply to the step at the head of its plan and that any other live worker is idle with
empty pipes, so an answer cannot be taken for that of another request; `Writes`,
that the list of a busy worker has the file before the report, and what each answer says of
the worker. `ScenarioPlans` shows `Turn` and `Found` of all eight scenarios as they
are composed. That a command is accepted (`Accepts`, `Succeeds`) is opaque to the provers:
the theorems hold whatever the service answers.

**`RunDispatchProofs`**, from `BoundsAssumption`, `ScopeAssumption` and
`AbsenceAssumption` (bounds are numbers, scopes are sets of goals, and what stands for
absence is none of the things it is compared with):

| Theorem | Property |
| --- | --- |
| `TypeCorrect` | `TypeOK`, which the runs leave to this theorem |
| `AnsweredOnceAlways` | `AnsweredOnce` |
| `RefusalsReservedNothing` | `RefusedReservedNothing` |
| `ReservedAlwaysAsReviewed` | `ReservedAsReviewed` |
| `ReservedAlwaysTogether` | `ReservedTogether` |

The argument is that activations only move forward (`Grown`, `Advanced`): every step
keeps a visit's revision and its attempt number together, or raises the revision. So
whatever somebody has read is either still true or visibly old (`Seen`, for calls under
way, for reviews and for the items of an open batch), which gives
`ReservedAsReviewed`. `RowsInv` is what holds of the rows alone: recorded answers and
reserved attempts match one to one, down to the item that was expected
(`AnswerFor`), and a recorded request that expected a revision has used it up (`Spent`).
`RowsInv` holds also of the rows an open batch would fall back to (`BatchInv`), with which
a rollback preserves everything. The match gives `RefusedReservedNothing`: an attempt
reserved for a call has that very call on record (`ReservationRecorded`), so the call is
answered. Inside a batch
`TogetherBut` says that only the items still left are missing; the step that matters is
`ReserveNextInv`: were an item answered from `lifecycle_requests` instead of
reserved, its request would have used up the revision that the item still shows,
so an item is always reserved under this batch and never left to an earlier one.
`Reserved` carries every reservation, `Moved` and `RowsStep` everything else.

**`SenderoVersionsProofs`**, from `NamesAssumption`, `PoliciesAssumption`,
`BodiesAssumption`, `BoundsAssumption`, `DrawingsAssumption` (names of nodes differ from
the start and the end, a replacement names nodes) and `SeedsAssumption`:

| Theorem | Property |
| --- | --- |
| `TypeCorrect` | `TypeOK` |
| `PublishedAlwaysExecutable` | `PublishedExecutable` |
| `ReviewedAlwaysPublished` | `ReviewedPublished` |
| `PublishedStaysFrozen` | `PublishedFrozen` |
| `PoliciesAlwaysStay` | `PoliciesStay` |

`SeedsAssumption` says that the definitions a sendero starts from are executable and
well formed: the bundled ones are fixed data, which TLC evaluates, and those of older
releases were published by the same validator. `IInv` says of every version that it
is a `Row`: its connections and joins name its own nodes, a draft pins nothing, and a
published version pins its instructions, is executable and, if its publication was
fenced, is what was `Reviewed`. With it goes `LastIsDraft`: the draft is the last
version and goals execute the one before. Each edit has a lemma that what it saves is a
`GoodDraft` (`...Good`); `SavedKeeps`, `PublishKeeps` and `DraftKeeps` do the rest.
Publication changes snapshots only, and executability does not depend on them
(`SameExecutable`). For policies, `ChangeKeeps` says that a change is harmless if every
node is either promoted or keeps its policy and its outgoing connections; the lemma
of each edit shows which. `PublishedStaysFrozen` needs only that versions are a
sequence, and none of the assumptions.

**`DatabaseResetProofs`**, from `NamesAssumption`:

| Theorem | Property |
| --- | --- |
| `OneResetAtATime` | `OneReset` |
| `FenceCooperates` | `CooperativeFence` |
| `NothingIsLost` | `NothingLost` |
| `ActiveWorkIsKept` | `ActiveWorkStays` |

`IInv` is types, `Stage` of each reset (what it has established of the lock file, the
database and its backup at each call of `resetLocalDatabase`) and `Safe` of each client. A reset past the creation of the lock file is the one the file names, so one
is at work (`AloneAtWork`), and what the others do leaves its `Stage` alone
(`OthersKeep`). `NothingLost` then is a fact about three moments: what was in the
database when the exclusive lock was taken is in the copy, the copy is linked and
flushed before the rename, and a backup of a reset that renamed is never removed,
also not by a power failure. What `NothingLost` excepts, a commit while a reset had
taken SQLite's lock or to a file already replaced, is what `ResetFence` finds.

**`RuntimeBootstrapProofs`**, from `BundledAssumption`, `BoundsAssumption` and
`HomesAssumption`:

| Theorem | Property |
| --- | --- |
| `InitializedAlways` | `InitializedHome` |
| `AuthoringAlwaysSurvives` | `AuthoringSurvives` |

`IInv` is types, uniqueness of context names, `Usable` of each complete
configuration (its context is registered and the bundled sendero is there) and
`Sound` of each process: a command that seeds has registered its context, and the
copy of a configuration it will write back is usable.
Contexts and rows are only added, never removed or renamed by a bootstrap, so what is
`Usable` stays so, and a configuration that `config set` writes back is one it read.

Only model-checked:

- liveness (`GoalProgresses`, `CancelCompletes`, `NoOrphans`, `StudioComesUp`), which is
  out of the prover's reach;
- that the code's rules accept the graphs meant to be accepted: the theorems say what
  accepted graphs guarantee, `SmallGraphs` and the instances show that there are some;
- `PassesUnharmed` of `ExternalHost`: that each command of a scenario is accepted is
  a statement about `ENABLED`.

The theorems are about the specifications without the bounds of the runs only as far
as those bounds are constants: `MaxTime`, `MaxRevision`, `MaxRuns`, `MaxVisits`,
`MaxVersions`, `MaxEdits`, `MaxContexts` and the sets of hosts, sessions, callers, goals,
clients, resets, homes and agents may be any.

## Not modelled

- **Legacy cursor** (`lifecycle/state.ts` 18-54): it rebuilds an activation from the
  run history of goals that older versions left behind. Which histories those could be
  is not in this repository, so a model would have to guess its initial states.
- **Protocol-1 claims** and the access rule between execution contexts in
  `AttemptClaims`; `GoalExecution` has protocol-1 attempts without claims.
- **Import of a whole definition**, outcomes and requirements of connections in
  `SenderoVersions`.
- **Projects, transitions made by hand, `updateGoal`**: updates of single records.
- **`host context-register`** and `config set` of the context id, which point a home
  at another context on purpose.
- **Parsing, help, rendering, the documentation site and the build scripts**: no
  run-time state.

## Plan

The models that were planned are written, and all invariants and action properties
are proved but `PassesUnharmed`. What remains, in this order:

1. Protocol-1 claims in `AttemptClaims`, and import of definitions in `SenderoVersions`.
2. A rule for the validator that excludes `NestedReentry`, once the code has one, and
   with it `JoinsAlwaysProgress` in place of `NoJoinDeadlock`.

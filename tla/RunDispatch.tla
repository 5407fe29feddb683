---------------------------- MODULE RunDispatch ----------------------------
(***************************************************************************)
(* Reserving work: planning, dispatching one visit with a request id,      *)
(* dispatching a reviewed batch in one transaction, and Mission Control's  *)
(* start, retry and stop, over several goals and several callers whose     *)
(* replies may be lost.                                                    *)
(*                                                                         *)
(* How a finished visit is routed is GoalExecution's: here a success       *)
(* enables any number of new visits.  Leases are AttemptClaims': here a    *)
(* attempt is claimed and started in one step and never lapses.            *)
(***************************************************************************)
EXTENDS Naturals, Sequences, FiniteSets

CONSTANTS Goals,
          Callers,          \* processes that call dispatch and may repeat the call
          Reviewers,        \* Studio pages that dispatch a reviewed plan
          Scope,            \* the goals of a caller's or reviewer's execution context
          Requests,         \* request ids callers choose; may hold NoRequest
          NoRequest, NoItem, NoTx,
          MaxVisits,        \* bound: visits of a goal
          MaxAttempts,      \* activations.maxAttempts
          MaxRuns           \* bound: attempts ever reserved

ASSUME BoundsAssumption == MaxVisits \in Nat \ {0} /\ MaxAttempts \in Nat \ {0} /\ MaxRuns \in Nat
ASSUME ScopeAssumption == Scope \in [Callers \cup Reviewers -> SUBSET Goals]

VARIABLES goals,      \* goals with their goal_executions row
          acts,       \* activations of each goal, in creation order
          attempts,   \* runs with their attempt and its claim, in creation order
          agentUp,    \* the agent of the visits is active
          recorded,   \* lifecycle_requests
          calls,      \* the dispatch call of each caller
          told,       \* history: the answers that reached a caller
          review,     \* the plan each reviewer is reading or was shown
          tx          \* the batch transaction that holds the write lock

rows == <<goals, acts, attempts, recorded>>
Rows == [goals |-> goals, acts |-> acts, attempts |-> attempts, recorded |-> recorded]
vars == <<goals, acts, attempts, agentUp, recorded, calls, told, review, tx>>

Open(g) == goals[g].status \notin {"draft", "completed", "canceled"}
Terminal(s) == s \in {"succeeded", "failed", "canceled"}
Settled(s) == s \in {"succeeded", "canceled"}
Live(g) == {a \in DOMAIN attempts : attempts[a].goal = g /\ ~Terminal(attempts[a].status)}

NewVisit == [status |-> "ready", revision |-> 0, used |-> 0]
Enabled(A, k) == A \o [i \in 1..k |-> NewVisit]

\* Every writer takes the write lock before it reads.
Unlocked == tx = NoTx

----------------------------------------------------------------------------
(* Decisions *)

Ready(g, v) ==
    /\ Open(g)
    /\ ~goals[g].canceling
    /\ acts[g][v].status \in {"ready", "failed"}
    /\ acts[g][v].used < MaxAttempts
    /\ agentUp

ReadyVisits(g) == {v \in DOMAIN acts[g] : Ready(g, v)}

PlanItem(g, v) == [goal |-> g, visit |-> v, revision |-> acts[g][v].revision,
                   used |-> acts[g][v].used]

GoalPlan(g) == {PlanItem(g, v) : v \in ReadyVisits(g)}

Planned(S) == {g \in S : goals[g].status \in {"active", "failed", "blocked"}}

GoalStatus(A, canceling) ==
    LET pending == {A[v].status : v \in {u \in DOMAIN A : ~Settled(A[u].status)}} IN
    IF canceling THEN IF pending = {} THEN "canceled" ELSE "blocked"
    ELSE IF pending = {} THEN "completed"
    ELSE IF pending = {"failed"} THEN "failed"
    ELSE "active"

----------------------------------------------------------------------------
(* Reserving one attempt *)

Attempt(g, v, used, input, batch) ==
    [goal |-> g, visit |-> v, number |-> used + 1, status |-> "queued",
     owned |-> FALSE, canceling |-> FALSE,
     request |-> input.request, item |-> IF input.fenced THEN input.item ELSE NoItem,
     batch |-> batch]

Revised(r, s) == [r EXCEPT !.status = s, !.revision = @ + 1]

Running(r) == [status |-> "running", used |-> r.used + 1, revision |-> r.revision + 1]

\* Mutant: the request is not recorded.
RecordNothing(input, a) == recorded' = recorded

Record(input, a) ==
    recorded' = IF input.request = NoRequest THEN recorded
                ELSE recorded \cup {[input |-> input, attempt |-> a]}

\* A is the goal's activations as the transaction sees them.
ReserveIn(A, g, v, input, batch) ==
    /\ Len(attempts) < MaxRuns
    /\ attempts' = Append(attempts, Attempt(g, v, A[v].used, input, batch))
    /\ acts' = [acts EXCEPT ![g] = [A EXCEPT ![v] = Running(@)]]
    /\ goals' = [goals EXCEPT ![g].status = "active"]
    /\ Record(input, Len(attempts) + 1)

Reserve(g, v, input, batch) == ReserveIn(acts[g], g, v, input, batch)

\* Mutant: the expected revision is ignored.
FreshAnyway(input, v) == TRUE

\* The first ready visit the input selects; without a visit, only one may be ready.
Fresh(input, v) == input.fenced => input.item.revision = acts[input.goal][v].revision

Chosen(input) ==
    LET R == ReadyVisits(input.goal) IN
    IF input.item = NoItem
    THEN IF Cardinality(R) = 1 THEN R ELSE {}
    ELSE {v \in R : v = input.item.visit /\ Fresh(input, v)}

KeyOf(input) == <<input.goal, input.request>>

Earlier(input) == {r \in recorded : KeyOf(r.input) = KeyOf(input)}

\* Mutant: the recorded answer is looked up only while the visit is ready.
ReplayedWhileReady(input) == {r \in Earlier(input) : r.input = input /\ Chosen(input) # {}}

Replayed(input) == {r \in Earlier(input) : r.input = input}

----------------------------------------------------------------------------
(* One caller's dispatch *)

Inputs(c) ==
    UNION {[goal : {g}, request : Requests, item : GoalPlan(g), fenced : BOOLEAN]
           \cup [goal : {g}, request : Requests, item : {NoItem}, fenced : {FALSE}]
           : g \in Planned(Scope[c])}

Call(c) ==
    /\ Unlocked
    /\ calls[c].at # "waiting"
    /\ \E input \in Inputs(c) : calls' = [calls EXCEPT ![c] = [at |-> "waiting", input |-> input]]
    /\ UNCHANGED <<goals, acts, attempts, agentUp, recorded, told, review, tx>>

\* The command was carried out: its reply arrives, or is lost and the caller
\* repeats the same call.
Reply(c, a) ==
    \/ /\ calls' = [calls EXCEPT ![c] = [at |-> "idle", input |-> NoItem]]
       /\ told' = IF calls[c].input.request = NoRequest THEN told
                  ELSE told \cup {[input |-> calls[c].input, attempt |-> a]}
    \/ UNCHANGED <<calls, told>>

ReplayCall(c) ==
    /\ Unlocked
    /\ calls[c].at = "waiting"
    /\ \E r \in Replayed(calls[c].input) : Reply(c, r.attempt)
    /\ UNCHANGED <<goals, acts, attempts, agentUp, recorded, review, tx>>

ReserveCall(c) ==
    /\ Unlocked
    /\ calls[c].at = "waiting"
    /\ LET input == calls[c].input IN
       /\ Earlier(input) = {}
       /\ \E v \in Chosen(input) : Reserve(input.goal, v, input, {})
    /\ Reply(c, Len(attempts) + 1)
    /\ UNCHANGED <<agentUp, review, tx>>

\* Conflicting inputs, nothing ready, a stale revision or several ready visits.
RefuseCall(c) ==
    /\ Unlocked
    /\ calls[c].at = "waiting"
    /\ LET input == calls[c].input IN
       Replayed(input) = {} /\ (Earlier(input) = {} => Chosen(input) = {})
    /\ calls' = [calls EXCEPT ![c] = [at |-> "refused", input |-> NoItem]]
    /\ UNCHANGED <<goals, acts, attempts, agentUp, recorded, told, review, tx>>

GiveUp(c) ==
    /\ calls[c].at = "waiting"
    /\ calls' = [calls EXCEPT ![c] = [at |-> "idle", input |-> NoItem]]
    /\ UNCHANGED <<goals, acts, attempts, agentUp, recorded, told, review, tx>>

----------------------------------------------------------------------------
(* A reviewed batch *)

NoReview == [at |-> "none", todo |-> {}, items |-> {}]

\* The list of goals is read once, then every goal in a transaction of its own.
OpenReview(r) ==
    /\ Unlocked
    /\ review[r].at = "none"
    /\ review' = [review EXCEPT ![r] = [at |-> "reading", todo |-> Planned(Scope[r]), items |-> {}]]
    /\ UNCHANGED <<goals, acts, attempts, agentUp, recorded, calls, told, tx>>

ReadGoal(r, g) ==
    /\ Unlocked
    /\ review[r].at = "reading"
    /\ g \in review[r].todo
    /\ review' = [review EXCEPT ![r] = [at |-> "reading", todo |-> @.todo \ {g},
                                        items |-> @.items \cup GoalPlan(g)]]
    /\ UNCHANGED <<goals, acts, attempts, agentUp, recorded, calls, told, tx>>

\* The reviewer selects visits; nothing ready leaves nothing to dispatch.
Select(r) ==
    /\ review[r].at = "reading"
    /\ review[r].todo = {}
    /\ \E S \in SUBSET review[r].items :
          review' = [review EXCEPT ![r] = IF S = {} THEN NoReview
                                          ELSE [at |-> "shown", todo |-> {}, items |-> S]]
    /\ UNCHANGED <<goals, acts, attempts, agentUp, recorded, calls, told, tx>>

SamePlan(item) ==
    \E p \in UNION {GoalPlan(g) : g \in Planned(Goals)} :
        p.goal = item.goal /\ p.visit = item.visit /\ p.revision = item.revision

BatchAccepted(r) ==
    \A item \in review[r].items : item.goal \in Scope[r] /\ SamePlan(item)

BeginBatch(r) ==
    /\ Unlocked
    /\ review[r].at = "shown"
    /\ BatchAccepted(r)
    /\ tx' = [by |-> r, left |-> review[r].items, saved |-> Rows]
    /\ UNCHANGED <<goals, acts, attempts, agentUp, recorded, calls, told, review>>

RefuseBatch(r) ==
    /\ Unlocked
    /\ review[r].at = "shown"
    /\ ~BatchAccepted(r)
    /\ review' = [review EXCEPT ![r] = NoReview]
    /\ UNCHANGED <<goals, acts, attempts, agentUp, recorded, calls, told, tx>>

\* Each item is dispatched under a request id of its own, derived from what
\* was reviewed.
BatchInput(item) ==
    [goal |-> item.goal, request |-> <<item.visit, item.revision>>, item |-> item, fenced |-> TRUE]

\* Mutant: the dispatch of an item commits a transaction of its own.
ReserveNextAlone ==
    /\ ~Unlocked
    /\ \E item \in tx.left :
          LET input == BatchInput(item) IN
          /\ \/ /\ Replayed(input) # {}
                /\ UNCHANGED rows
             \/ /\ Earlier(input) = {}
                /\ \E v \in Chosen(input) : Reserve(item.goal, v, input, review[tx.by].items)
          /\ tx' = [tx EXCEPT !.left = @ \ {item}, !.saved = Rows']
    /\ UNCHANGED <<agentUp, calls, told, review>>

ReserveNext ==
    /\ ~Unlocked
    /\ \E item \in tx.left :
          LET input == BatchInput(item) IN
          /\ tx' = [tx EXCEPT !.left = @ \ {item}]
          /\ \/ /\ Replayed(input) # {}
                /\ UNCHANGED rows
             \/ /\ Earlier(input) = {}
                /\ \E v \in Chosen(input) : Reserve(item.goal, v, input, review[tx.by].items)
    /\ UNCHANGED <<agentUp, calls, told, review>>

\* The reply of a committed batch may be lost too: the page then shows the
\* same review and may submit it again.
CommitBatch ==
    /\ ~Unlocked
    /\ tx.left = {}
    /\ tx' = NoTx
    /\ \/ review' = [review EXCEPT ![tx.by] = NoReview]
       \/ UNCHANGED review
    /\ UNCHANGED <<goals, acts, attempts, agentUp, recorded, calls, told>>

\* Mutant: what was done before the database was busy is not rolled back.
RetryWithoutRollback ==
    /\ ~Unlocked
    /\ tx' = NoTx
    /\ \/ review' = [review EXCEPT ![tx.by] = NoReview]
       \/ UNCHANGED review
    /\ UNCHANGED <<goals, acts, attempts, agentUp, recorded, calls, told>>

\* A failed item, or the death of the process, leaves nothing of the batch.  A
\* busy database leaves nothing of it either; the batch is then tried again from
\* its beginning, against the plan of that time.
RollbackBatch ==
    /\ ~Unlocked
    /\ goals' = tx.saved.goals
    /\ acts' = tx.saved.acts
    /\ attempts' = tx.saved.attempts
    /\ recorded' = tx.saved.recorded
    /\ tx' = NoTx
    /\ \/ review' = [review EXCEPT ![tx.by] = NoReview]
       \/ UNCHANGED review
    /\ UNCHANGED <<agentUp, calls, told>>

----------------------------------------------------------------------------
(* Goals: Mission Control's commands, cancellation and agents *)

NoInput(g) == [goal |-> g, request |-> NoRequest, item |-> NoItem, fenced |-> FALSE]

Activated(g) == IF goals[g].status = "draft" THEN 1..MaxVisits ELSE {0}

ActivateGoal(g) ==
    /\ Unlocked
    /\ goals[g].status \notin {"completed", "canceled"}
    /\ goals' = [goals EXCEPT ![g].status = "active"]
    /\ \E k \in Activated(g) : acts' = [acts EXCEPT ![g] = Enabled(@, k)]
    /\ UNCHANGED <<attempts, agentUp, recorded, calls, told, review, tx>>

\* A started goal reserves its first ready visit; a draft is activated first,
\* and stays a draft when its agent is unavailable.  A goal with nothing ready
\* is reported as it is, or the command fails and is rolled back.
StartGoal(g) ==
    /\ Unlocked
    /\ \/ \E v \in ReadyVisits(g) :
            (\A u \in ReadyVisits(g) : v <= u) /\ Reserve(g, v, NoInput(g), {})
       \/ /\ goals[g].status = "draft" /\ agentUp
          /\ \E k \in Activated(g) : ReserveIn(Enabled(acts[g], k), g, 1, NoInput(g), {})
    /\ UNCHANGED <<agentUp, calls, told, review, tx>>

RetryExecution(g) ==
    /\ Unlocked
    /\ goals[g].status = "failed"
    /\ \E v \in ReadyVisits(g) :
          (\A u \in ReadyVisits(g) : v <= u) /\ Reserve(g, v, NoInput(g), {})
    /\ UNCHANGED <<agentUp, calls, told, review, tx>>

\* Once a host owns execution only its acknowledgement proves it stopped:
\* "stopped" are the attempts whose host has just acknowledged.
Owed(g, stopped) == {a \in Live(g) : attempts[a].owned} \ stopped

Cancel(g, stopped) ==
    LET owed == Owed(g, stopped) IN
    /\ attempts' = [a \in DOMAIN attempts |->
          IF a \in owed THEN [attempts[a] EXCEPT !.canceling = TRUE]
          ELSE IF a \in Live(g) THEN [attempts[a] EXCEPT !.status = "canceled"]
          ELSE attempts[a]]
    /\ acts' = [acts EXCEPT ![g] = [v \in DOMAIN acts[g] |->
          IF \/ acts[g][v].status \in {"ready", "failed"}
             \/ \E a \in stopped : attempts[a].visit = v
          THEN Revised(acts[g][v], "canceled")
          ELSE IF \E a \in Live(g) \ owed : attempts[a].visit = v
          THEN [acts[g][v] EXCEPT !.status = "canceled"]
          ELSE acts[g][v]]]
    /\ goals' = [goals EXCEPT ![g] =
          [status |-> IF owed = {} THEN "canceled" ELSE "blocked", canceling |-> TRUE]]

CancelGoal(g) ==
    /\ Unlocked
    /\ goals[g].status \notin {"completed", "canceled"}
    /\ Cancel(g, {})
    /\ UNCHANGED <<agentUp, recorded, calls, told, review, tx>>

\* Stopping one run cancels its whole goal.
StopExecution(a) ==
    /\ Unlocked
    /\ ~Terminal(attempts[a].status)
    /\ Cancel(attempts[a].goal, {})
    /\ UNCHANGED <<agentUp, recorded, calls, told, review, tx>>

SwitchAgent ==
    /\ Unlocked
    /\ agentUp' = ~agentUp
    /\ UNCHANGED <<goals, acts, attempts, recorded, calls, told, review, tx>>

----------------------------------------------------------------------------
(* Hosts, as far as they change what may be dispatched *)

ClaimAttempt(a) ==
    /\ Unlocked
    /\ attempts[a].status = "queued" /\ ~attempts[a].owned
    /\ attempts' = [attempts EXCEPT ![a].owned = TRUE]
    /\ UNCHANGED <<goals, acts, agentUp, recorded, calls, told, review, tx>>

Working(a) ==
    ~Terminal(attempts[a].status) /\ attempts[a].owned /\ ~attempts[a].canceling

\* A's activations become A, and the goal's status follows.
Settle(g, A, canceling) ==
    /\ acts' = [acts EXCEPT ![g] = A]
    /\ goals' = [goals EXCEPT ![g] = [status |-> GoalStatus(A, canceling), canceling |-> canceling]]

Ended(a, s) == [acts[attempts[a].goal] EXCEPT ![attempts[a].visit] = Revised(@, s)]

ReportSucceeded(a) ==
    /\ Unlocked
    /\ Working(a)
    /\ LET g == attempts[a].goal IN
       \E k \in 0 .. (MaxVisits - Len(acts[g])) :
          Settle(g, Enabled(Ended(a, "succeeded"), k), goals[g].canceling)
    /\ attempts' = [attempts EXCEPT ![a].status = "succeeded"]
    /\ UNCHANGED <<agentUp, recorded, calls, told, review, tx>>

ReportFailed(a) ==
    /\ Unlocked
    /\ Working(a)
    /\ Settle(attempts[a].goal, Ended(a, "failed"), goals[attempts[a].goal].canceling)
    /\ attempts' = [attempts EXCEPT ![a].status = "failed"]
    /\ UNCHANGED <<agentUp, recorded, calls, told, review, tx>>

\* A host acknowledges the cancellation, or gives the goal up by itself.  The
\* attempts it has not asked to stop yet are asked now; where the goal was
\* canceling already, none is left.
ReportCanceled(a) ==
    /\ Unlocked
    /\ attempts[a].owned /\ ~Terminal(attempts[a].status)
    /\ Cancel(attempts[a].goal, {a})
    /\ UNCHANGED <<agentUp, recorded, calls, told, review, tx>>

----------------------------------------------------------------------------
Init ==
    /\ goals = [g \in Goals |-> [status |-> "draft", canceling |-> FALSE]]
    /\ acts = [g \in Goals |-> <<>>]
    /\ attempts = <<>>
    /\ agentUp = TRUE
    /\ recorded = {}
    /\ calls = [c \in Callers |-> [at |-> "idle", input |-> NoItem]]
    /\ told = {}
    /\ review = [r \in Reviewers |-> NoReview]
    /\ tx = NoTx

CallerStep(c) == Call(c) \/ ReplayCall(c) \/ ReserveCall(c) \/ RefuseCall(c) \/ GiveUp(c)

ReviewerStep(r) ==
    \/ OpenReview(r) \/ (\E g \in Goals : ReadGoal(r, g)) \/ Select(r)
    \/ BeginBatch(r) \/ RefuseBatch(r)

BatchStep == ReserveNext \/ CommitBatch \/ RollbackBatch

GoalStep(g) == ActivateGoal(g) \/ StartGoal(g) \/ RetryExecution(g) \/ CancelGoal(g)

AttemptStep(a) ==
    \/ StopExecution(a) \/ ClaimAttempt(a)
    \/ ReportSucceeded(a) \/ ReportFailed(a) \/ ReportCanceled(a)

Next ==
    \/ \E c \in Callers : CallerStep(c)
    \/ \E r \in Reviewers : ReviewerStep(r)
    \/ BatchStep
    \/ \E g \in Goals : GoalStep(g)
    \/ \E a \in DOMAIN attempts : AttemptStep(a)
    \/ SwitchAgent

Spec == Init /\ [][Next]_vars

----------------------------------------------------------------------------
(* Properties *)

GoalRow == [status : {"draft", "active", "blocked", "failed", "completed", "canceled"},
            canceling : BOOLEAN]
VisitRow == [status : {"ready", "running", "succeeded", "failed", "canceled"},
             revision : Nat, used : Nat]
Item == [goal : Goals, visit : Nat, revision : Nat, used : Nat]
RequestId == Requests \cup {NoRequest} \cup Nat \X Nat
Input == [goal : Goals, request : RequestId, item : Item \cup {NoItem}, fenced : BOOLEAN]
AttemptRow == [goal : Goals, visit : Nat, number : Nat,
               status : {"queued", "succeeded", "failed", "canceled"},
               owned : BOOLEAN, canceling : BOOLEAN, request : RequestId,
               item : Item \cup {NoItem}, batch : SUBSET Item]
Answer == [input : Input, attempt : Nat]
RowsType == [goals : [Goals -> GoalRow], acts : [Goals -> Seq(VisitRow)],
             attempts : Seq(AttemptRow), recorded : SUBSET Answer]
Batch == [by : Reviewers, left : SUBSET Item, saved : RowsType]

\* What stands for absence is none of the things it is compared with.
ASSUME AbsenceAssumption ==
    NoItem \notin Item /\ NoRequest \notin Nat \X Nat /\ NoTx \notin Batch

AttemptsKnown(R) ==
    /\ \A a \in DOMAIN R.attempts : R.attempts[a].visit \in DOMAIN R.acts[R.attempts[a].goal]
    /\ \A r \in R.recorded : r.attempt \in DOMAIN R.attempts

TypeOK ==
    /\ Rows \in RowsType
    /\ AttemptsKnown(Rows)
    /\ agentUp \in BOOLEAN
    /\ calls \in [Callers -> [at : {"idle", "waiting", "refused"}, input : Input \cup {NoItem}]]
    /\ \A c \in Callers : calls[c].at = "waiting" => calls[c].input \in Input
    /\ told \subseteq Answer
    /\ review \in [Reviewers -> [at : {"none", "reading", "shown"},
                                 todo : SUBSET Goals, items : SUBSET Item]]
    /\ ~Unlocked => tx \in Batch /\ AttemptsKnown(tx.saved)

\* A request id reserves one attempt of a goal, however often and by whomever
\* the call is repeated, and everyone who was answered was told that attempt.
AnsweredOnce ==
    /\ \A a, b \in DOMAIN attempts :
          /\ attempts[a].request # NoRequest
          /\ attempts[a].goal = attempts[b].goal
          /\ attempts[a].request = attempts[b].request
          => a = b
    /\ \A s \in told :
          /\ s.attempt \in DOMAIN attempts
          /\ attempts[s.attempt].goal = s.input.goal
          /\ attempts[s.attempt].request = s.input.request

ReservedFor(a, input) ==
    /\ attempts[a].goal = input.goal
    /\ attempts[a].request = input.request
    /\ attempts[a].item = input.item

\* A refusal can be believed: a caller that sends a request id and what it saw
\* of the visit is refused only while no attempt stands reserved for that call,
\* neither by an earlier try whose reply was lost nor by another caller's.
RefusedReservedNothing ==
    [][\A c \in Callers :
          LET input == calls[c].input IN
          /\ calls[c].at = "waiting" /\ calls'[c].at = "refused"
          /\ input.fenced /\ input.request # NoRequest
          => \A a \in DOMAIN attempts : ~ReservedFor(a, input)]_vars

\* An attempt reserved on a revision somebody saw is the attempt they saw: no
\* other one was reserved on the visit in between.
ReservedAsReviewed ==
    \A a \in DOMAIN attempts :
        attempts[a].item # NoItem => attempts[a].number = attempts[a].item.used + 1

\* A reviewed batch is reserved as a whole or not at all, whatever fails or
\* dies between its items.
ReservedTogether ==
    Unlocked =>
        \A a \in DOMAIN attempts : \A item \in attempts[a].batch :
            \E b \in DOMAIN attempts :
                attempts[b].batch = attempts[a].batch /\ attempts[b].item = item

=============================================================================

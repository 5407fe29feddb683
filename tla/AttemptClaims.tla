--------------------------- MODULE AttemptClaims ---------------------------
(***************************************************************************)
(* Who may act on the attempts of one goal: claims with leases and fencing *)
(* tokens, recorded sessions, reconciliation after a lapsed lease, operator*)
(* recovery and cancellation (packages/core/src/lifecycle/hosts.ts and     *)
(* host-protocol.ts with commands/attempts/update.ts), for graphs of       *)
(* protocol version 2.  Activations, budgets and joins are the subject of  *)
(* GoalExecution; of the goal only a requested cancellation is kept here,  *)
(* and whether a gated success has its review and evidence is left open.   *)
(*                                                                         *)
(* Host calls are not ordered and not bound to the host that got a token:  *)
(* any token a claim ever returned may be presented at any time, which     *)
(* covers delayed, repeated and stale calls, lost replies and restarted    *)
(* controllers.  Tokens are numbered in the order they are drawn.          *)
(***************************************************************************)
EXTENDS HostRegistry, Naturals, FiniteSets

CONSTANTS Attempts,        \* the attempts the goal dispatches
          Gated,           \* those whose node has completion gates
          Sessions,        \* external session identities
          NoSession,
          NoHost, Operator, \* owner of an unclaimed and of an abandoned attempt
          LeaseTerms,      \* lease lengths a host may ask for
          RecoveryTerm,    \* lease reconcile and abandon grant themselves
          MaxTime          \* bound: the clock stops here

ASSUME OwnersAssumption == NoHost \notin Hosts /\ Operator \notin Hosts /\ NoHost # Operator

ASSUME SessionsAssumption == NoSession \notin Sessions

ASSUME TermsAssumption == LeaseTerms \subseteq Nat \ {0} /\ RecoveryTerm \in Nat \ {0}

VARIABLES now,             \* wall clock
          attempts,        \* run_attempts
          claims,          \* attempt_claims
          canceling,       \* goal_executions.cancellation_requested_at
          lastToken,       \* number of tokens drawn
          handed           \* tokens a claim returned to its caller

vars == <<registry, now, attempts, claims, canceling, lastToken, handed>>

NoToken == 0

Terminal(s) == s \in {"succeeded", "failed", "canceled"}

\* Attempts that exist and have not finished.
Live(a) == attempts[a].status \in {"queued", "running", "paused"}

Owned(a) == claims[a].owner # NoHost

Expired(a) == claims[a].lease <= now

\* verifyOwner: the current token, and a live lease unless the call allows
\* an expired one.
VerifiedOwner(a, t, allowExpired) ==
    /\ Owned(a)
    /\ t # NoToken /\ t = claims[a].token
    /\ allowExpired \/ ~Expired(a)

InitClaim == [owner |-> NoHost, token |-> NoToken, lease |-> 0, cancelRequested |-> FALSE,
              outcome |-> "none", observed |-> 0, recovered |-> "none"]

Init ==
    /\ InitRegistry
    /\ now = 0
    /\ attempts = [a \in Attempts |-> [status |-> "none", host |-> NoHost,
                                       session |-> NoSession, completion |-> FALSE]]
    /\ claims = [a \in Attempts |-> InitClaim]
    /\ canceling = FALSE
    /\ lastToken = 0
    /\ handed = {}

\* dispatchRun, as far as it concerns the attempt: queued, without an owner.
DispatchRun(a) ==
    /\ attempts[a].status = "none"
    /\ ~canceling
    /\ attempts' = [attempts EXCEPT ![a].status = "queued"]
    /\ UNCHANGED <<registry, now, claims, canceling, lastToken, handed>>

-----------------------------------------------------------------------------
(* Claiming. *)

\* Mutant: an observation made before the lease lapsed is enough.
RecoverableOnAnyActive(a, h) == claims[a].owner = h /\ claims[a].outcome = "active"

\* An expired claim may be renewed by its owner, who has seen the session
\* active since the lease lapsed.
Recoverable(a, h) ==
    /\ claims[a].owner = h
    /\ claims[a].outcome = "active"
    /\ claims[a].observed >= claims[a].lease

\* Mutant: the flag alone lets any host take over, the rule of protocol 1.
MayClaimLegacy(a, h, t, reclaim) ==
    \/ ~Owned(a)
    \/ Owned(a) /\ ~Expired(a) /\ claims[a].owner = h /\ t = claims[a].token
    \/ Owned(a) /\ Expired(a) /\ reclaim

\* A live claim is renewed by its owner with the token; reclaim is the flag
\* that an expired one needs.
MayClaim(a, h, t, reclaim) ==
    \/ ~Owned(a)
    \/ Owned(a) /\ ~Expired(a) /\ claims[a].owner = h /\ t = claims[a].token
    \/ Owned(a) /\ Expired(a) /\ reclaim /\ Recoverable(a, h)

\* Mutant: a claim answers with whatever token is stored.
KeepsStoredToken(a) == TRUE

KeepsToken(a) == Owned(a) /\ ~Expired(a)

\* claimAttempt: until a session is recorded the host must pass preflight and
\* becomes the attempt's environment; afterwards only its owner may claim.
ClaimAttempt(a, h, t, reclaim, term) ==
    LET token == IF KeepsToken(a) THEN claims[a].token ELSE lastToken + 1 IN
    /\ Live(a)
    /\ ~attempts[a].completion
    /\ ~claims[a].cancelRequested
    /\ IF attempts[a].session = NoSession THEN Eligible(h)
       ELSE registry[h].registered /\ claims[a].owner = h
    /\ MayClaim(a, h, t, reclaim)
    /\ claims' = [claims EXCEPT ![a].owner = h, ![a].token = token,
                                ![a].lease = now + term,
                                ![a].outcome = "none", ![a].observed = 0]
    /\ attempts' = [attempts EXCEPT
                       ![a].host = IF attempts[a].session = NoSession THEN h ELSE @]
    /\ lastToken' = IF KeepsToken(a) THEN lastToken ELSE lastToken + 1
    /\ handed' = handed \cup {token}
    /\ UNCHANGED <<registry, now, canceling>>

\* Mutants: the session is looked up among running attempts only, or not at all.
SessionFreeRunning(a, s) ==
    \A b \in Attempts \ {a} :
        ~(attempts[b].status = "running" /\ attempts[b].host = claims[a].owner
            /\ attempts[b].session = s)

SessionUnchecked(a, s) == TRUE

SessionFree(a, s) ==
    \A b \in Attempts \ {a} :
        ~(Live(b) /\ attempts[b].host = claims[a].owner /\ attempts[b].session = s)

\* startAttempt records the session; repeating it with the same session
\* changes nothing, with another one it is rejected.
StartAttempt(a, s, t) ==
    /\ Live(a)
    /\ VerifiedOwner(a, t, FALSE)
    /\ ~claims[a].cancelRequested
    /\ attempts[a].session = NoSession
    /\ Eligible(claims[a].owner)
    /\ SessionFree(a, s)
    /\ attempts' = [attempts EXCEPT ![a].status = "running", ![a].session = s,
                                    ![a].host = claims[a].owner]
    /\ UNCHANGED <<registry, now, claims, canceling, lastToken, handed>>

\* Mutant: a heartbeat revives an expired lease.
HeartbeatExpired(a, t, term) ==
    /\ Live(a)
    /\ VerifiedOwner(a, t, TRUE)
    /\ claims' = [claims EXCEPT ![a].lease = now + term]
    /\ UNCHANGED <<registry, now, attempts, canceling, lastToken, handed>>

HeartbeatAttempt(a, t, term) ==
    /\ Live(a)
    /\ VerifiedOwner(a, t, FALSE)
    /\ claims' = [claims EXCEPT ![a].lease = now + term]
    /\ UNCHANGED <<registry, now, attempts, canceling, lastToken, handed>>

-----------------------------------------------------------------------------
(* Settling an attempt: updateRunAttempt, with attempts T and claims C as   *)
(* the caller left them.                                                    *)

\* cancelGoal: owned or running work is asked to stop, the rest is canceled.
AsksToStop(T, C, a) == C[a].owner # NoHost \/ T[a].status = "running"

CanceledAttempts(T, C) ==
    [a \in Attempts |->
        IF T[a].status \in {"queued", "running", "paused"} /\ ~AsksToStop(T, C, a)
        THEN [T[a] EXCEPT !.status = "canceled"] ELSE T[a]]

CanceledClaims(T, C) ==
    [a \in Attempts |->
        IF T[a].status \in {"queued", "running", "paused"} /\ AsksToStop(T, C, a)
        THEN [C[a] EXCEPT !.cancelRequested = TRUE] ELSE C[a]]

\* A finished attempt; the first canceled one cancels the goal.
Settle(a, s, C) ==
    LET T == [attempts EXCEPT ![a].status = s] IN
    IF s = "canceled" /\ ~canceling
    THEN attempts' = CanceledAttempts(T, C) /\ claims' = CanceledClaims(T, C) /\ canceling' = TRUE
    ELSE attempts' = T /\ claims' = C /\ canceling' = canceling

\* Mutant: a late success is accepted from an attempt that was asked to stop.
MayReportLate(a, s) ==
    /\ Live(a)
    /\ s \in {"running", "paused", "succeeded"} => attempts[a].session # NoSession
    /\ attempts[a].completion => Terminal(s)

\* What the attempt's state allows to be reported: an attempt asked to stop
\* only canceled, a success only with a recorded session, and nothing but an
\* end once its completion is pending.
MayReport(a, s) ==
    /\ Live(a)
    /\ claims[a].cancelRequested => s = "canceled"
    /\ s \in {"running", "paused", "succeeded"} => attempts[a].session # NoSession
    /\ attempts[a].completion => Terminal(s)

\* A success of a gated attempt finishes it or waits for the missing gates; once
\* it waits, the review or evidence that meets the last gate settles it.
Report(a, s, C) ==
    /\ MayReport(a, s)
    /\ \/ /\ Terminal(s)
          /\ attempts[a].completion => s # "succeeded"
          /\ Settle(a, s, C)
       \/ /\ s = "succeeded" /\ a \in Gated
          /\ attempts' = [attempts EXCEPT ![a].status = "paused", ![a].completion = TRUE]
          /\ claims' = C /\ canceling' = canceling
       \/ /\ s \in {"running", "paused"}
          /\ attempts' = [attempts EXCEPT ![a].status = s]
          /\ claims' = C /\ canceling' = canceling

\* A report by a host: cancellation may be acknowledged after the lease lapsed.
UpdateAttempt(a, s, t) ==
    /\ VerifiedOwner(a, t, s = "canceled")
    /\ Report(a, s, claims)
    /\ UNCHANGED <<registry, now, lastToken, handed>>

\* settleGate, from a review or an evidence record: no token is involved.
SettleGate(a, s) ==
    /\ attempts[a].status = "paused" /\ attempts[a].completion
    /\ s \in {"succeeded", "failed"}
    /\ MayReport(a, s)
    /\ Settle(a, s, claims)
    /\ UNCHANGED <<registry, now, lastToken, handed>>

\* cancelGoal by an operator.
CancelGoal ==
    /\ ~canceling
    /\ \E a \in Attempts : Live(a)
    /\ canceling' = TRUE
    /\ attempts' = CanceledAttempts(attempts, claims)
    /\ claims' = CanceledClaims(attempts, claims)
    /\ UNCHANGED <<registry, now, lastToken, handed>>

-----------------------------------------------------------------------------
(* Recovery. *)

\* abandonAttempt: an operator confirms the process stopped.
AbandonAttempt(a) ==
    LET C == [claims EXCEPT ![a].owner = Operator, ![a].token = lastToken + 1,
                            ![a].lease = now + RecoveryTerm,
                            ![a].outcome = "missing", ![a].observed = now] IN
    /\ Live(a)
    /\ Settle(a, IF claims[a].cancelRequested THEN "canceled" ELSE "failed", C)
    /\ lastToken' = lastToken + 1
    /\ UNCHANGED <<registry, now, handed>>

\* reconcileAttempt, what every observation requires: the assigned host, an
\* expired lease or the current token, and not a replay of a finished one.
MayReconcile(a, h, t) ==
    /\ registry[h].registered
    /\ claims[a].owner = h
    /\ Live(a)
    /\ Expired(a) \/ t = claims[a].token

\* The session is active, missing or cannot be inspected: only recorded.
Observe(a, h, outcome, t) ==
    /\ MayReconcile(a, h, t)
    /\ outcome = "active" => attempts[a].session # NoSession
    /\ claims' = [claims EXCEPT ![a].outcome = outcome, ![a].observed = now]
    /\ UNCHANGED <<registry, now, attempts, canceling, lastToken, handed>>

\* The session finished with status s, reported under a token of its own that
\* no caller is given.  recovered keeps s for the properties.
ReconcileFinished(a, h, s, t) ==
    LET C == [claims EXCEPT ![a].token = lastToken + 1, ![a].lease = now + RecoveryTerm,
                            ![a].outcome = "finished", ![a].observed = now,
                            ![a].recovered = s] IN
    /\ MayReconcile(a, h, t)
    /\ claims[a].outcome # "finished"
    /\ attempts[a].session # NoSession
    /\ Terminal(s)
    /\ Report(a, s, C)
    /\ lastToken' = lastToken + 1
    /\ UNCHANGED <<registry, now, handed>>

\* The status a repeated finished reconciliation must name to be answered with
\* the recorded result instead of RESULT_CONFLICT.
ReplayStatus(a) == IF attempts[a].completion THEN "succeeded" ELSE attempts[a].status

-----------------------------------------------------------------------------
Tick ==
    /\ now < MaxTime
    /\ now' = now + 1
    /\ UNCHANGED <<registry, attempts, claims, canceling, lastToken, handed>>

ChangeRegistry ==
    /\ RegistryStep
    /\ UNCHANGED <<now, attempts, claims, canceling, lastToken, handed>>

\* The tokens a caller can present.
Presented == handed \cup {NoToken}

HostStep(a) ==
    \E t \in Presented :
        \/ \E h \in Hosts, reclaim \in BOOLEAN, term \in LeaseTerms :
              ClaimAttempt(a, h, t, reclaim, term)
        \/ \E s \in Sessions : StartAttempt(a, s, t)
        \/ \E term \in LeaseTerms : HeartbeatAttempt(a, t, term)
        \/ \E s \in {"running", "paused", "succeeded", "failed", "canceled"} :
              UpdateAttempt(a, s, t)
        \/ \E h \in Hosts, outcome \in {"active", "missing", "unknown"} : Observe(a, h, outcome, t)
        \/ \E h \in Hosts, s \in {"succeeded", "failed", "canceled"} :
              ReconcileFinished(a, h, s, t)

OperatorStep(a) ==
    \/ DispatchRun(a)
    \/ \E s \in {"succeeded", "failed"} : SettleGate(a, s)
    \/ AbandonAttempt(a)

Next ==
    \/ \E a \in Attempts : HostStep(a) \/ OperatorStep(a)
    \/ CancelGoal
    \/ ChangeRegistry
    \/ Tick

Spec == Init /\ [][Next]_vars

-----------------------------------------------------------------------------
Statuses == {"none", "queued", "running", "paused", "succeeded", "failed", "canceled"}

TypeOK ==
    /\ RegistryType
    /\ now \in Nat
    /\ attempts \in [Attempts -> [status : Statuses, host : Hosts \cup {NoHost},
                                  session : Sessions \cup {NoSession}, completion : BOOLEAN]]
    /\ claims \in [Attempts -> [owner : Hosts \cup {NoHost, Operator}, token : Nat, lease : Nat,
                                cancelRequested : BOOLEAN,
                                outcome : {"none", "active", "finished", "missing", "unknown"},
                                observed : Nat,
                                recovered : {"none", "succeeded", "failed", "canceled"}]]
    /\ canceling \in BOOLEAN
    /\ lastToken \in Nat
    /\ handed \subseteq 1 .. lastToken

-----------------------------------------------------------------------------
(* Fencing. *)

\* A lease that lapsed is never live again under the same token: whoever
\* missed the deadline, and every call still in flight with that token, stays
\* fenced off until an explicit recovery hands out a new one.
LapsedTokenStaysDead ==
    [][\A a \in Attempts :
          Owned(a) /\ Expired(a) /\ claims'[a].lease > now' => claims'[a].token > lastToken]_vars

\* A live attempt changes hands or token after its lease lapsed only with an
\* inspection behind it: its session was seen active after the lapse, or the
\* step itself records how it ended.  The passage of time alone proves nothing.
ExpiryProvesNothing ==
    [][\A a \in Attempts :
          Live(a) /\ Owned(a) /\ Expired(a) =>
              \/ claims'[a].owner = claims[a].owner /\ claims'[a].token = claims[a].token
              \/ /\ claims'[a].owner = claims[a].owner
                 /\ claims[a].outcome = "active" /\ claims[a].observed >= claims[a].lease
              \/ claims'[a].outcome \in {"finished", "missing"} /\ claims'[a].observed = now]_vars

\* No two unfinished attempts of a goal are recorded with the same session of
\* the same host, whatever was claimed, restarted or recovered in between.
SessionExclusive ==
    \A a, b \in Attempts :
        /\ a # b /\ Live(a) /\ Live(b)
        /\ attempts[a].session # NoSession /\ attempts[a].session = attempts[b].session
        => attempts[a].host # attempts[b].host

\* A session belongs to the host that owns the attempt, from the claim that
\* passed preflight to the attempt's end.
SessionAtOwner ==
    \A a \in Attempts :
        Live(a) /\ attempts[a].session # NoSession => claims[a].owner = attempts[a].host

\* Every live attempt of a goal being canceled was asked to stop, and an
\* attempt that was asked never ends as anything but canceled.
CancellationReaches ==
    /\ \A a \in Attempts : canceling /\ Live(a) => claims[a].cancelRequested
    /\ \A a \in Attempts : claims[a].cancelRequested /\ ~Live(a) => attempts[a].status = "canceled"

-----------------------------------------------------------------------------
(* The abstract specification: one host, one session, one end per attempt. *)

Slot == [a \in Attempts |->
            IF Terminal(attempts[a].status) THEN <<"done">>
            ELSE IF claims[a].owner = NoHost THEN <<>>
            ELSE <<claims[a].owner, attempts[a].session>>]

Exclusive == INSTANCE ExclusiveExecution
                 WITH slot <- Slot, Free <- <<>>, Done <- <<"done">>

\* The claim protocol implements exclusive execution.
ImplementsExclusive == Exclusive!Spec

-----------------------------------------------------------------------------
(* Reconciliation, as lifecycle-contract.md states it. *)

\* "Replaying an identical finished reconciliation is safe": the answer to a
\* repetition is decided by the status that was recovered.
ReplayIsSafe ==
    \A a \in Attempts :
        claims[a].outcome = "finished" => claims[a].recovered = ReplayStatus(a)
=============================================================================

---------------------------- MODULE ExternalHost ----------------------------
(***************************************************************************)
(* The example host (examples/external-host) driven by its acceptance      *)
(* script (scripts/external-host-simulation.ts): a controller that keeps a *)
(* worker process per attempt, talks to it over pipes, and recovers what a *)
(* worker left behind.  Every coordination command is the action of        *)
(* AttemptClaims that handles it.  A worker may die, hang or be slow at any*)
(* point, a CLI process may fail before or after it took effect, the lease *)
(* may lapse while somebody is busy, and the script itself may be killed.  *)
(*                                                                         *)
(* One scenario is run, on a goal with one visit that is retried by a      *)
(* second attempt, or with two parallel visits.  The controller asks a     *)
(* worker for one thing at a time, so a pipe holds at most one line.       *)
(***************************************************************************)
EXTENDS AttemptClaims, Sequences

CONSTANTS First, Second,       \* the attempts the script dispatches
          HostOf,              \* the host that executes an attempt
          SessionOf,           \* the session id of its worker
          ShortTerm, LongTerm  \* leases of 10 and of 120 seconds

ASSUME RetryAssumption == First # Second /\ Attempts = {First, Second}
ASSUME HostTermsAssumption == {ShortTerm, LongTerm} \subseteq LeaseTerms
ASSUME PlacesAssumption == HostOf \in [Attempts -> Hosts] /\ SessionOf \in [Attempts -> Sessions]

VARIABLES proc,        \* the worker process of each attempt and its pipes
          files,       \* attempts whose worker wrote its result file
          script       \* the controller

hostVars == <<vars, proc, files, script>>

serverVars == vars

----------------------------------------------------------------------------
(* The scenarios as sequences of what the controller does about which attempt *)
(* (dispatch, claim, worker, execute, expired and the scenario bodies).       *)

Each(ops, a) == [i \in DOMAIN ops |-> <<ops[i], a>>]

Started == <<"dispatch", "claim", "launch">>

\* execute: the whole life of an attempt that nothing disturbs.
Execute == Started \o <<"finish", "await_exit", "completed">>

Kill == <<"signal", "await_exit">>

\* After the lease lapsed nobody may take over before an inspection.
Lapse == <<"expire", "no_reclaim">>

Abandoned == <<"missing", "abandon">>

\* A branch fails, and its retry is executed in full.
FailedAndRetried == Each(Started \o <<"fail">>, First) \o Each(Execute, Second)

\* The grant of a host is revoked while its worker runs.
Drained == Each(Started \o <<"revoke", "no_preflight", "heartbeat", "finish", "completed">>, First)

\* Both branches acknowledge a cancellation before either exit is awaited.
CanceledBranches ==
    Each(Started, First) \o Each(Started \o <<"cancel_goal">>, Second)
        \o Each(<<"cancel">>, First) \o Each(<<"cancel", "await_exit">>, Second)
        \o Each(<<"await_exit">>, First)

Scenario ==
    [drain      |-> Drained,
     failed     |-> FailedAndRetried,
     canceled   |-> CanceledBranches,
     active     |-> Each(Started \o Lapse \o <<"active", "reclaim", "replace_token", "finish", "completed">>, First),
     finished   |-> Each(Started \o <<"finish_without_report", "await_exit">> \o Lapse
                                 \o <<"finished", "completed", "no_update">>, First),
     missing    |-> Each(Started \o Kill \o Lapse \o Abandoned, First) \o Each(Execute, Second),
     unknown    |-> Each(Started \o Lapse \o <<"unknown", "no_reclaim">> \o Kill \o Abandoned, First)
                       \o Each(Execute, Second),
     unrecorded |-> Each(Started \o Lapse \o <<"no_active">> \o Kill \o Abandoned, First)
                       \o Each(Execute, Second)]

\* The first attempt of these gets the short lease.
Recovered == {"active", "finished", "missing", "unknown", "unrecorded"}

\* A worker's commands, with the reply each is answered by.
Replies == [configure |-> "started", heartbeat |-> "heartbeat", finish |-> "finished",
            fail |-> "failed", cancel |-> "canceled", replace_token |-> "token_replaced",
            finish_without_report |-> "finished_unreported"]

Requests == DOMAIN Replies \ {"configure"}

\* Commands after which the worker exits.
Final == {"finish", "fail", "cancel", "finish_without_report"}

\* Mutant: the success is reported before the result is on disk.
ReportsFirst(a) ==
    [configure |-> IF a = First /\ script.kind = "unrecorded" THEN <<>> ELSE <<"start">>,
     heartbeat |-> <<"heartbeat">>, finish |-> <<"succeed", "write">>, fail |-> <<"fail">>,
     cancel |-> <<"heartbeat", "acknowledge">>, replace_token |-> <<"adopt">>,
     finish_without_report |-> <<"write">>]

\* What the worker does about each line it reads.
Program(a) ==
    [configure |-> IF a = First /\ script.kind = "unrecorded" THEN <<>> ELSE <<"start">>,
     heartbeat |-> <<"heartbeat">>, finish |-> <<"write", "succeed">>, fail |-> <<"fail">>,
     cancel |-> <<"heartbeat", "acknowledge">>, replace_token |-> <<"adopt">>,
     finish_without_report |-> <<"write">>]

----------------------------------------------------------------------------
NoProcess == [at |-> "none", line |-> "none", todo |-> <<>>, reply |-> "none",
              token |-> NoToken, signaled |-> FALSE]

HostInit ==
    /\ Init
    /\ proc = [a \in Attempts |-> NoProcess]
    /\ files = {}
    /\ \E kind \in DOMAIN Scenario :
          script = [kind |-> kind, left |-> Scenario[kind], awaits |-> "none",
                    tokens |-> [a \in Attempts |-> NoToken], ended |-> "no", harmed |-> FALSE]

Alive(a) == proc[a].at \in {"idle", "busy", "leaving"}

\* May still run commands or write files.
Working(a) == proc[a].at \in {"idle", "busy"}

----------------------------------------------------------------------------
(* The worker process. *)

\* The next line: the configuration first, then a control message.
Read(a) ==
    /\ proc[a].at = "idle" /\ proc[a].line # "none"
    /\ proc' = [proc EXCEPT ![a].at = "busy", ![a].todo = Program(a)[proc[a].line]]
    /\ UNCHANGED <<serverVars, files, script>>

\* The coordination command of a work item; a cancellation is acknowledged
\* only after the heartbeat showed that it was requested.
WorkerCommand(a, op) ==
    LET t == proc[a].token IN
    \/ op = "start" /\ StartAttempt(a, SessionOf[a], t)
    \/ op = "heartbeat" /\ HeartbeatAttempt(a, t, LongTerm)
    \/ op = "succeed" /\ UpdateAttempt(a, "succeeded", t)
    \/ op = "fail" /\ UpdateAttempt(a, "failed", t)
    \/ op = "acknowledge" /\ claims[a].cancelRequested /\ UpdateAttempt(a, "canceled", t)

\* The service takes the command: its CLI process exits with success.
Accepts(a, op) == ENABLED WorkerCommand(a, op)

Local == {"write", "adopt"}

Advanced(a) == [proc EXCEPT ![a].todo = Tail(@)]

\* The worker throws: it replies with the error and exits.
Errs(a) == [proc EXCEPT ![a].at = "leaving", ![a].todo = <<>>, ![a].reply = "error"]

Work(a) ==
    /\ proc[a].at = "busy" /\ proc[a].todo # <<>>
    /\ LET op == Head(proc[a].todo) IN
       IF op \in Local
       THEN /\ proc' = IF op = "adopt" THEN [Advanced(a) EXCEPT ![a].token = script.tokens[a]]
                       ELSE Advanced(a)
            /\ files' = IF op = "write" THEN files \cup {a} ELSE files
            /\ UNCHANGED <<serverVars, script>>
       ELSE /\ IF Accepts(a, op)
               THEN WorkerCommand(a, op) /\ proc' = Advanced(a)
               ELSE UNCHANGED serverVars /\ proc' = Errs(a)
            /\ UNCHANGED <<files, script>>

\* The command's process fails, before or after it committed.
WorkFails(a) ==
    /\ proc[a].at = "busy" /\ proc[a].todo # <<>>
    /\ Head(proc[a].todo) \notin Local
    /\ WorkerCommand(a, Head(proc[a].todo)) \/ UNCHANGED serverVars
    /\ proc' = Errs(a)
    /\ script' = [script EXCEPT !.harmed = TRUE]
    /\ UNCHANGED files

Answer(a) ==
    /\ proc[a].at = "busy" /\ proc[a].todo = <<>>
    /\ proc' = [proc EXCEPT ![a].reply = Replies[proc[a].line], ![a].line = "none",
                            ![a].at = IF proc[a].line \in Final THEN "leaving" ELSE "idle"]
    /\ UNCHANGED <<serverVars, files, script>>

\* The process ends: it returned from its loop, or it was killed.
Exit(a) ==
    /\ proc[a].at = "leaving" \/ (Alive(a) /\ proc[a].signaled)
    /\ proc' = [proc EXCEPT ![a].at = "exited", ![a].todo = <<>>]
    /\ UNCHANGED <<serverVars, files, script>>

\* The pipe from a controller that is gone ends, and with it the worker's loop.
EndOfInput(a) ==
    /\ proc[a].at = "idle" /\ proc[a].line = "none" /\ script.ended = "crashed"
    /\ proc' = [proc EXCEPT ![a].at = "leaving"]
    /\ UNCHANGED <<serverVars, files, script>>

\* It dies on its own.
Die(a) ==
    /\ Working(a) /\ ~proc[a].signaled
    /\ proc' = [proc EXCEPT ![a].at = "exited", ![a].todo = <<>>]
    /\ script' = [script EXCEPT !.harmed = TRUE]
    /\ UNCHANGED <<serverVars, files>>

----------------------------------------------------------------------------
(* The controller. *)

At(op, a) ==
    /\ script.ended = "no" /\ script.awaits = "none"
    /\ script.left # <<>> /\ Head(script.left) = <<op, a>>

Continue == [script EXCEPT !.left = Tail(@)]

Abort == [script EXCEPT !.ended = "aborted"]

Term(a) == IF a = First /\ script.kind \in Recovered THEN ShortTerm ELSE LongTerm

\* plan lists the visit: it is new, or its attempt failed.
Planned(a) == a = First \/ script.kind = "canceled" \/ attempts[First].status = "failed"

\* The commands of successfulCli.
Command(op, a) ==
    LET h == HostOf[a] IN
    \/ op = "dispatch" /\ Planned(a) /\ DispatchRun(a)
    \/ op = "claim" /\ ClaimAttempt(a, h, NoToken, FALSE, Term(a))
    \/ op = "reclaim" /\ ClaimAttempt(a, h, NoToken, TRUE, LongTerm)
    \/ op = "active" /\ Observe(a, h, "active", NoToken)
    \/ op = "unknown" /\ Observe(a, h, "unknown", NoToken)
    \/ op = "missing" /\ Observe(a, h, "missing", NoToken)
    \/ op = "finished" /\ ReconcileFinished(a, h, "succeeded", NoToken)
    \/ op = "abandon" /\ AbandonAttempt(a)
    \/ op = "cancel_goal" /\ CancelGoal
    \/ /\ op = "revoke" /\ GrantHostWorkspace(h, TRUE)
       /\ UNCHANGED <<now, attempts, claims, canceling, lastToken, handed>>

Commands == {"dispatch", "claim", "reclaim", "active", "unknown", "missing", "finished", "abandon",
             "cancel_goal", "revoke"}

Succeeds(op, a) == ENABLED Command(op, a)

\* The token a claim answers with is kept for the worker.
Accepted(op, a) ==
    IF op \in {"claim", "reclaim"} THEN [Continue EXCEPT !.tokens[a] = claims'[a].token] ELSE Continue

RunCommand(op, a) ==
    /\ At(op, a) /\ op \in Commands
    /\ IF Succeeds(op, a)
       THEN Command(op, a) /\ script' = Accepted(op, a)
       ELSE UNCHANGED serverVars /\ script' = Abort
    /\ UNCHANGED <<proc, files>>

\* The process of a command fails, before or after it committed.
CommandFails(op, a) ==
    /\ At(op, a) /\ op \in Commands
    /\ Command(op, a) \/ UNCHANGED serverVars
    /\ script' = [Abort EXCEPT !.harmed = TRUE]
    /\ UNCHANGED <<proc, files>>

\* Commands that must be rejected, and assertions on what can be read.
Holds(op, a) ==
    LET h == HostOf[a] IN
    CASE op = "no_reclaim"   -> ~ENABLED ClaimAttempt(a, h, NoToken, TRUE, LongTerm)
      [] op = "no_active"    -> ~ENABLED Observe(a, h, "active", NoToken)
      [] op = "no_update"    -> ~ENABLED UpdateAttempt(a, "succeeded", script.tokens[a])
      [] op = "no_preflight" -> ~Eligible(h)
      [] op = "completed"    -> attempts[a].status = "succeeded"

Checks == {"no_reclaim", "no_active", "no_update", "no_preflight", "completed"}

Check(op, a) ==
    /\ At(op, a) /\ op \in Checks
    /\ script' = IF Holds(op, a) THEN Continue ELSE Abort
    /\ UNCHANGED <<serverVars, proc, files>>

\* A new WorkerSession: the process gets its configuration and the token.
Launch(a) ==
    /\ At("launch", a)
    /\ proc' = [proc EXCEPT ![a] = [NoProcess EXCEPT !.at = "idle", !.line = "configure",
                                                     !.token = script.tokens[a]]]
    /\ script' = [script EXCEPT !.awaits = "started"]
    /\ UNCHANGED <<serverVars, files>>

\* request: a control message is written and its reply awaited.  A write to a
\* worker that is gone is lost.
Request(op, a) ==
    /\ At(op, a) /\ op \in Requests
    /\ proc' = [proc EXCEPT ![a].line = op]
    /\ script' = [script EXCEPT !.awaits = Replies[op]]
    /\ UNCHANGED <<serverVars, files>>

\* next: the reply arrives; another one than the expected ends the scenario.
Receive(a) ==
    /\ script.ended = "no" /\ script.awaits # "none" /\ Head(script.left)[2] = a
    /\ proc[a].reply # "none"
    /\ proc' = [proc EXCEPT ![a].reply = "none"]
    /\ script' = [(IF proc[a].reply = script.awaits THEN Continue ELSE Abort)
                     EXCEPT !.awaits = "none"]
    /\ UNCHANGED <<serverVars, files>>

\* The worker exited without the reply, or it took longer than 30 seconds.
NoReply(a) ==
    /\ script.ended = "no" /\ script.awaits # "none" /\ Head(script.left)[2] = a
    /\ proc[a].reply = "none"
    /\ script' = [Abort EXCEPT !.awaits = "none", !.harmed = @ \/ Alive(a)]
    /\ UNCHANGED <<serverVars, proc, files>>

Signal(a) ==
    /\ At("signal", a)
    /\ proc' = [proc EXCEPT ![a].signaled = TRUE]
    /\ script' = Continue
    /\ UNCHANGED <<serverVars, files>>

\* Mutant: the controller does not wait for the process it killed.
AwaitNothing(a) ==
    /\ At("await_exit", a)
    /\ script' = Continue
    /\ UNCHANGED <<serverVars, proc, files>>

AwaitExit(a) ==
    /\ At("await_exit", a)
    /\ ~Alive(a)
    /\ script' = Continue
    /\ UNCHANGED <<serverVars, proc, files>>

\* expired: sleep until the lease the claim answered with has lapsed.
Expire(a) ==
    /\ At("expire", a)
    /\ now' = IF Expired(a) THEN now ELSE claims[a].lease
    /\ script' = Continue
    /\ UNCHANGED <<registry, attempts, claims, canceling, lastToken, handed, proc, files>>

Pass ==
    /\ script.ended = "no" /\ script.left = <<>>
    /\ script' = [script EXCEPT !.ended = "passed"]
    /\ UNCHANGED <<serverVars, proc, files>>

\* Mutant: only the workers of scenarios that passed are stopped.
CleanUpPassed(a) ==
    /\ script.ended = "passed"
    /\ Alive(a) /\ ~proc[a].signaled
    /\ proc' = [proc EXCEPT ![a].signaled = TRUE]
    /\ UNCHANGED <<serverVars, files, script>>

\* finally: whatever the scenario came to, every session still there is killed.
CleanUp(a) ==
    /\ script.ended \in {"passed", "aborted"}
    /\ Alive(a) /\ ~proc[a].signaled
    /\ proc' = [proc EXCEPT ![a].signaled = TRUE]
    /\ UNCHANGED <<serverVars, files, script>>

\* The script itself is killed: nothing runs its finally block.
Crash ==
    /\ script.ended # "crashed"
    /\ script' = [script EXCEPT !.ended = "crashed", !.awaits = "none"]
    /\ UNCHANGED <<serverVars, proc, files>>

\* Bound: at most MaxTime ticks pass outside of the sleeps; a lease may lapse.
Delay ==
    /\ script.ended = "no"
    /\ Tick
    /\ script' = [script EXCEPT !.harmed = TRUE]
    /\ UNCHANGED <<proc, files>>

----------------------------------------------------------------------------
WorkerStep(a) ==
    Read(a) \/ Work(a) \/ WorkFails(a) \/ Answer(a) \/ EndOfInput(a) \/ Exit(a) \/ Die(a)

ControllerStep ==
    \/ \E a \in Attempts :
          \/ \E op \in Commands : RunCommand(op, a) \/ CommandFails(op, a)
          \/ \E op \in Checks : Check(op, a)
          \/ \E op \in Requests : Request(op, a)
          \/ Launch(a) \/ Receive(a) \/ NoReply(a) \/ Signal(a) \/ AwaitExit(a) \/ Expire(a)
          \/ CleanUp(a)
    \/ Pass

HostNext == ControllerStep \/ (\E a \in Attempts : WorkerStep(a)) \/ Delay \/ Crash

\* The controller and the operating system proceed; a worker may hang.
HostSpec ==
    /\ HostInit /\ [][HostNext]_hostVars
    /\ WF_hostVars(ControllerStep)
    /\ \A a \in Attempts : WF_hostVars(Exit(a))

----------------------------------------------------------------------------
\* A visit is never worked on twice: a retry is launched only when the worker
\* it replaces can no longer run a command or write into the workspace, even if
\* that worker was merely silent and was killed while it was busy.
SingleWorker == script.kind # "canceled" => ~(Working(First) /\ Working(Second))

\* A recorded success has its result on disk, whichever of the worker, its CLI
\* process or the lease failed in between and whoever reported it.
ResultOnDisk == \A a \in Attempts : attempts[a].status = "succeeded" => a \in files

\* The procedures the script demonstrates are complete: unless a process died,
\* hung or failed or a lease lapsed at the wrong time, every command is
\* accepted and every rejection it expects takes place.
PassesUnharmed == script.ended = "aborted" => script.harmed

\* Whatever a worker or a command does, no worker process, not even one that
\* hangs, outlives a script that was not itself killed.
NoOrphans == <>[](script.ended = "crashed" \/ \A a \in Attempts : ~Alive(a))
=============================================================================

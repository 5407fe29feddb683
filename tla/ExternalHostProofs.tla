------------------------- MODULE ExternalHostProofs -------------------------
(***************************************************************************)
(* Theorems about ExternalHost for any hosts, sessions, lease lengths and  *)
(* any number of failures.  Every step of the script and its workers is a  *)
(* step of the claim protocol, the revocation of a grant or a sleep, so    *)
(* what AttemptClaimsProofs shows of the protocol holds of the host too.   *)
(* HInv relates what is left of the scenario to the worker processes: who  *)
(* may still be working when a retry is launched, and which result is      *)
(* already on disk when a success is reported.                             *)
(***************************************************************************)
EXTENDS ExternalHost, AttemptClaimsProofs, SequenceTheorems

Lines == DOMAIN Replies

\* The items of a plan and of a worker's list.
Words ==
    {"dispatch", "claim", "launch", "reclaim", "active", "unknown", "missing", "finished", "abandon",
     "cancel_goal", "revoke", "no_reclaim", "no_active", "no_update", "no_preflight", "completed",
     "signal", "await_exit", "expire", "configure", "heartbeat", "finish", "fail", "cancel",
     "replace_token", "finish_without_report", "start", "write", "succeed", "acknowledge", "adopt"}

Answers == {"none", "error"} \cup {Replies[l] : l \in Lines}

ProcRecords == [at : {"none", "idle", "busy", "leaving", "exited"}, line : Lines \cup {"none"},
                todo : Seq(Words), reply : Answers, token : Nat, signaled : BOOLEAN]

ScriptRecords == [kind : DOMAIN Scenario, left : Seq(Words \X Attempts), awaits : Answers,
                  tokens : [Attempts -> Nat], ended : {"no", "passed", "aborted", "crashed"},
                  harmed : BOOLEAN]

HostType == proc \in [Attempts -> ProcRecords] /\ script \in ScriptRecords

\* The tokens kept by the script and its workers were handed out by a claim.
Held == \A a \in Attempts : proc[a].token \in Presented /\ script.tokens[a] \in Presented

-----------------------------------------------------------------------------
(* The claim protocol under this host. *)

\* The two steps of the script that the claim protocol does not have: the grant
\* of a host is revoked, and the clock runs on while the script sleeps.
Revoked ==
    /\ \E h \in Hosts : GrantHostWorkspace(h, TRUE)
    /\ UNCHANGED <<now, attempts, claims, canceling, lastToken, handed>>

Slept ==
    /\ now' \in Nat /\ now' >= now
    /\ UNCHANGED <<registry, attempts, claims, canceling, lastToken, handed>>

ClaimStep == Next \/ UNCHANGED vars \/ Revoked \/ Slept

LEMMA WorkerClaimStep ==
    ASSUME HostType, Held, NEW a \in Attempts, NEW op, WorkerCommand(a, op)
    PROVE  Next
<1> DEFINE t == proc[a].token
<1>1. t \in Presented /\ SessionOf[a] \in Sessions /\ LongTerm \in LeaseTerms
  BY PlacesAssumption, HostTermsAssumption DEF Held
<1>2. \/ StartAttempt(a, SessionOf[a], t)
      \/ HeartbeatAttempt(a, t, LongTerm)
      \/ \E s \in {"running", "paused", "succeeded", "failed", "canceled"} : UpdateAttempt(a, s, t)
  BY DEF WorkerCommand
<1> HIDE DEF t
<1> QED
  BY <1>1, <1>2 DEF Next, HostStep

LEMMA ScriptClaimStep ==
    ASSUME HostType, Held, NEW a \in Attempts, NEW op, Command(op, a)
    PROVE  Next \/ Revoked
<1> DEFINE h == HostOf[a]
<1>1. h \in Hosts /\ LongTerm \in LeaseTerms /\ Term(a) \in LeaseTerms /\ NoToken \in Presented
  BY PlacesAssumption, HostTermsAssumption DEF Term, Presented
<1>2. CASE op = "revoke" /\ GrantHostWorkspace(h, TRUE)
           /\ UNCHANGED <<now, attempts, claims, canceling, lastToken, handed>>
  BY <1>1, <1>2 DEF Revoked
<1>3. CASE DispatchRun(a) \/ AbandonAttempt(a)
  BY <1>3 DEF Next, OperatorStep
<1>4. CASE CancelGoal
  BY <1>4 DEF Next
<1>5. CASE \/ ClaimAttempt(a, h, NoToken, FALSE, Term(a))
           \/ ClaimAttempt(a, h, NoToken, TRUE, LongTerm)
  <2> HIDE DEF h
  <2> QED
    BY <1>1, <1>5 DEF Next, HostStep
<1>6. CASE \/ \E outcome \in {"active", "missing", "unknown"} : Observe(a, h, outcome, NoToken)
           \/ ReconcileFinished(a, h, "succeeded", NoToken)
  <2> HIDE DEF h
  <2> QED
    BY <1>1, <1>6 DEF Next, HostStep
<1> QED
  BY <1>2, <1>3, <1>4, <1>5, <1>6 DEF Command

\* Whatever the script, its workers or the clock do is a step of the protocol,
\* a revocation or a sleep.
LEMMA HostNextClaimStep ==
    ASSUME IInv, HostType, Held, HostNext
    PROVE  ClaimStep
<1>1. ASSUME NEW a \in Attempts, WorkerStep(a)
      PROVE  ClaimStep
  <2>1. CASE Read(a) \/ Answer(a) \/ EndOfInput(a) \/ Exit(a) \/ Die(a)
    BY <2>1 DEF ClaimStep, Read, Answer, EndOfInput, Exit, Die, serverVars
  <2>2. CASE Work(a) \/ WorkFails(a)
    <3>1. UNCHANGED vars \/ \E op : WorkerCommand(a, op)
      BY <2>2 DEF Work, WorkFails, serverVars
    <3> QED
      BY <3>1, WorkerClaimStep DEF ClaimStep
  <2> QED
    BY <1>1, <2>1, <2>2 DEF WorkerStep
<1>2. ASSUME NEW a \in Attempts, NEW op, RunCommand(op, a) \/ CommandFails(op, a)
      PROVE  ClaimStep
  <2>1. UNCHANGED vars \/ Command(op, a)
    BY <1>2 DEF RunCommand, CommandFails, serverVars
  <2> QED
    BY <2>1, ScriptClaimStep DEF ClaimStep
<1>3. ASSUME NEW a \in Attempts, NEW op,
             \/ Check(op, a) \/ Request(op, a) \/ Launch(a) \/ Receive(a) \/ NoReply(a)
             \/ Signal(a) \/ AwaitExit(a) \/ CleanUp(a)
      PROVE  ClaimStep
  <2>1. UNCHANGED vars
    BY <1>3 DEF Check, Request, Launch, Receive, NoReply, Signal, AwaitExit, CleanUp, serverVars
  <2> QED
    BY <2>1 DEF ClaimStep
<1>4. ASSUME NEW a \in Attempts, Expire(a)
      PROVE  ClaimStep
  <2>1. claims[a].lease \in Nat /\ now \in Nat
    BY DEF IInv, TypeOK
  <2>2. Slept
    BY <1>4, <2>1 DEF Expire, Expired, Slept
  <2> QED
    BY <2>2 DEF ClaimStep
<1>5. CASE Delay
  BY <1>5 DEF Delay, ClaimStep, Next
<1>6. CASE Pass \/ Crash
  BY <1>6 DEF Pass, Crash, ClaimStep, serverVars
<1>7. CASE ControllerStep
  <2>1. CASE Pass
    BY <1>6, <2>1
  <2>2. CASE \E a \in Attempts :
                \/ \E op \in Commands : RunCommand(op, a) \/ CommandFails(op, a)
                \/ \E op \in Checks : Check(op, a)
                \/ \E op \in Requests : Request(op, a)
                \/ Launch(a) \/ Receive(a) \/ NoReply(a) \/ Signal(a) \/ AwaitExit(a) \/ Expire(a)
                \/ CleanUp(a)
    BY <1>2, <1>3, <1>4, <2>2
  <2> QED
    BY <1>7, <2>1, <2>2 DEF ControllerStep
<1> QED
  BY <1>1, <1>5, <1>6, <1>7 DEF HostNext

\* Neither a revocation nor a sleep disturbs the invariant of the protocol.
LEMMA ClaimStepInv ==
    ASSUME IInv, ClaimStep
    PROVE  IInv'
<1>1. CASE Next \/ UNCHANGED vars
  BY <1>1, InvariantStep
<1>2. CASE Slept \/ Revoked
  <2>1. UNCHANGED <<attempts, claims, canceling, lastToken, handed>> /\ now' \in Nat
    BY <1>2 DEF Slept, Revoked, IInv, TypeOK
  <2>2. RegistryType'
    <3>1. CASE Slept
      BY <3>1 DEF IInv, TypeOK, Slept, RegistryType
    <3>2. CASE Revoked
      <4>1. PICK h \in Hosts : GrantHostWorkspace(h, TRUE)
        BY <3>2 DEF Revoked
      <4>2. registry \in [Hosts -> Registrations]
        BY DEF IInv, TypeOK, RegistryType, Registrations
      <4>3. registry' \in [Hosts -> Registrations]
        BY <4>1, <4>2 DEF GrantHostWorkspace, Registrations
      <4> QED
        BY <4>3 DEF RegistryType, Registrations
    <3> QED
      BY <1>2, <3>1, <3>2
  <2>3. TypeOK'
    BY <2>1, <2>2 DEF IInv, TypeOK
  <2>4. \A a \in Attempts : Sound(a)'
    BY <2>1 DEF IInv, Sound, Untouched, OwnedByHost, Stopping, Drawn, Owned, Live
  <2> QED
    BY <2>1, <2>3, <2>4 DEF IInv, Live, SessionExclusive
<1> QED
  BY <1>1, <1>2 DEF ClaimStep

\* Tokens once handed out stay so.
LEMMA HandedGrows ==
    ASSUME ClaimStep
    PROVE  handed \subseteq handed'
<1>1. ASSUME NEW a \in Attempts, HostStep(a)
      PROVE  handed \subseteq handed'
  BY <1>1 DEF HostStep, ClaimAttempt, StartAttempt, HeartbeatAttempt, UpdateAttempt, Observe,
              ReconcileFinished
<1>2. ASSUME NEW a \in Attempts, OperatorStep(a)
      PROVE  handed' = handed
  BY <1>2 DEF OperatorStep, DispatchRun, SettleGate, AbandonAttempt
<1>3. CASE CancelGoal \/ ChangeRegistry \/ Tick \/ UNCHANGED vars \/ Revoked \/ Slept
  BY <1>3 DEF CancelGoal, ChangeRegistry, Tick, vars, Revoked, Slept
<1> QED
  BY <1>1, <1>2, <1>3 DEF ClaimStep, Next

-----------------------------------------------------------------------------
(* The scenarios. *)

Ends == {"fail", "await_exit"}

Contains(s, ops) == \E i \in 1 .. Len(s) : s[i] \in ops

Without(s, op) == \A i \in 1 .. Len(s) : s[i] # op

\* A launch is followed by what no worker outlives; a recovered result by the
\* request that had it written before.
Outlasts(s) == \A i \in 1 .. Len(s) : s[i] = "launch" => \E j \in i + 1 .. Len(s) : s[j] \in Ends

Written(s) ==
    \A i \in 1 .. Len(s) : s[i] = "finished" =>
        \E j \in 1 .. i - 1 : s[j] = "finish_without_report"

\* The same of a plan: before the second attempt is launched a step of the plan
\* has seen the first worker end, and a recovered result was written.
RetryWaits(plan) ==
    \A i, k \in 1 .. Len(plan) :
        plan[i] = <<"launch", First>> /\ plan[k] = <<"launch", Second>> =>
            \E j \in i + 1 .. k - 1 : \E op \in Ends : plan[j] = <<op, First>>

Found(plan) ==
    \A a \in Attempts, i \in 1 .. Len(plan) : plan[i] = <<"finished", a>> =>
        a \in files \/ \E j \in 1 .. i - 1 : plan[j] = <<"finish_without_report", a>>

LEMMA PartsOf ==
    ASSUME NEW S, NEW p \in Seq(S), NEW q \in Seq(S)
    PROVE  /\ p \o q \in Seq(S) /\ Len(p \o q) = Len(p) + Len(q)
           /\ \A i \in 1 .. Len(p) : (p \o q)[i] = p[i]
           /\ \A i \in 1 .. Len(q) : (p \o q)[Len(p) + i] = q[i]
           /\ \A i \in 1 .. Len(p \o q) :
                  \/ i \in 1 .. Len(p) /\ (p \o q)[i] = p[i]
                  \/ i - Len(p) \in 1 .. Len(q) /\ (p \o q)[i] = q[i - Len(p)]
<1> DEFINE r == p \o q
<1>1. /\ r \in Seq(S) /\ Len(r) = Len(p) + Len(q) /\ Len(p) \in Nat /\ Len(q) \in Nat
      /\ \A i \in 1 .. Len(p) + Len(q) : r[i] = IF i <= Len(p) THEN p[i] ELSE q[i - Len(p)]
  BY ConcatProperties, LenProperties
<1> HIDE DEF r
<1>2. \A i \in 1 .. Len(p) : r[i] = p[i]
  BY <1>1
<1>3. \A i \in 1 .. Len(q) : r[Len(p) + i] = q[i]
  BY <1>1
<1>4. \A i \in 1 .. Len(r) :
          \/ i \in 1 .. Len(p) /\ r[i] = p[i]
          \/ i - Len(p) \in 1 .. Len(q) /\ r[i] = q[i - Len(p)]
  <2>1. ASSUME NEW i \in 1 .. Len(r), i <= Len(p)
        PROVE  i \in 1 .. Len(p) /\ r[i] = p[i]
    BY <1>1, <2>1
  <2>2. ASSUME NEW i \in 1 .. Len(r), ~(i <= Len(p))
        PROVE  i - Len(p) \in 1 .. Len(q) /\ r[i] = q[i - Len(p)]
    BY <1>1, <2>2
  <2> QED
    BY <2>1, <2>2
<1> QED
  BY <1>1, <1>2, <1>3, <1>4 DEF r

LEMMA JoinedWithout ==
    ASSUME NEW s \in Seq(Words), NEW t \in Seq(Words), NEW op, Without(s, op), Without(t, op)
    PROVE  Without(s \o t, op)
BY PartsOf DEF Without

LEMMA EndAppended ==
    ASSUME NEW s \in Seq(Words), NEW t \in Seq(Words), Without(t, "launch"),
           Outlasts(s) \/ Contains(t, Ends)
    PROVE  Outlasts(s \o t)
<1> DEFINE p == s \o t
<1> SUFFICES ASSUME NEW i \in 1 .. Len(p), p[i] = "launch"
             PROVE  \E j \in i + 1 .. Len(p) : p[j] \in Ends
  BY DEF Outlasts
<1>1. i \in 1 .. Len(s) /\ s[i] = "launch"
  BY PartsOf DEF Without
<1>2. CASE Outlasts(s)
  <2>1. PICK j \in i + 1 .. Len(s) : s[j] \in Ends
    BY <1>1, <1>2 DEF Outlasts
  <2> QED
    BY <1>1, <2>1, PartsOf
<1>3. CASE Contains(t, Ends)
  <2>1. PICK j \in 1 .. Len(t) : t[j] \in Ends
    BY <1>3 DEF Contains
  <2>2. Len(s) + j \in i + 1 .. Len(p) /\ p[Len(s) + j] = t[j]
    BY <1>1, <2>1, PartsOf
  <2> QED
    BY <2>1, <2>2
<1> QED
  BY <1>2, <1>3

LEMMA WrittenAppended ==
    ASSUME NEW s \in Seq(Words), NEW t \in Seq(Words), Without(s, "finished"),
           Contains(s, {"finish_without_report"})
    PROVE  Written(s \o t)
<1> DEFINE p == s \o t
<1> SUFFICES ASSUME NEW i \in 1 .. Len(p), p[i] = "finished"
             PROVE  \E j \in 1 .. i - 1 : p[j] = "finish_without_report"
  BY DEF Written
<1>1. i - Len(s) \in 1 .. Len(t)
  BY PartsOf DEF Without
<1>2. PICK j \in 1 .. Len(s) : s[j] = "finish_without_report"
  BY DEF Contains
<1> QED
  BY <1>1, <1>2, PartsOf

LEMMA WithoutWritten ==
    ASSUME NEW s \in Seq(Words), Without(s, "finished")
    PROVE  Written(s)
BY DEF Written, Without

LEMMA EachOf ==
    ASSUME NEW s \in Seq(Words), NEW a \in Attempts
    PROVE  /\ Each(s, a) \in Seq(Words \X Attempts) /\ Len(Each(s, a)) = Len(s)
           /\ \A i \in 1 .. Len(s) : Each(s, a)[i] = <<s[i], a>>
BY DEF Each

LEMMA FoundJoined ==
    ASSUME NEW p \in Seq(Words \X Attempts), NEW q \in Seq(Words \X Attempts),
           Found(p), Found(q)
    PROVE  Found(p \o q)
<1> DEFINE r == p \o q
<1> SUFFICES ASSUME NEW a \in Attempts, NEW i \in 1 .. Len(r), r[i] = <<"finished", a>>, a \notin files
             PROVE  \E j \in 1 .. i - 1 : r[j] = <<"finish_without_report", a>>
  BY DEF Found
<1>1. CASE i \in 1 .. Len(p) /\ p[i] = <<"finished", a>>
  <2>1. PICK j \in 1 .. i - 1 : p[j] = <<"finish_without_report", a>>
    BY <1>1 DEF Found
  <2>2. j \in 1 .. Len(p) /\ j \in 1 .. i - 1
    BY <1>1, <2>1
  <2>3. r[j] = p[j]
    BY <2>2, PartsOf
  <2> QED
    BY <2>1, <2>2, <2>3
<1>2. CASE i - Len(p) \in 1 .. Len(q) /\ q[i - Len(p)] = <<"finished", a>>
  <2>1. PICK j \in 1 .. (i - Len(p)) - 1 : q[j] = <<"finish_without_report", a>>
    BY <1>2 DEF Found
  <2>2. Len(p) + j \in 1 .. i - 1 /\ r[Len(p) + j] = q[j]
    BY <1>2, <2>1, PartsOf
  <2> QED
    BY <2>1, <2>2
<1>3. \/ i \in 1 .. Len(p) /\ r[i] = p[i]
      \/ i - Len(p) \in 1 .. Len(q) /\ r[i] = q[i - Len(p)]
  BY PartsOf
<1> HIDE DEF r
<1> QED
  BY <1>1, <1>2, <1>3

LEMMA FoundEach ==
    ASSUME NEW s \in Seq(Words), NEW a \in Attempts, Written(s)
    PROVE  Found(Each(s, a))
<1> SUFFICES ASSUME NEW b \in Attempts, NEW i \in 1 .. Len(s), Each(s, a)[i] = <<"finished", b>>
             PROVE  \E j \in 1 .. i - 1 : Each(s, a)[j] = <<"finish_without_report", b>>
  BY EachOf DEF Found
<1>1. a = b /\ s[i] = "finished"
  BY EachOf
<1>2. PICK j \in 1 .. i - 1 : s[j] = "finish_without_report"
  BY <1>1 DEF Written
<1>3. j \in 1 .. Len(s)
  BY <1>2
<1> QED
  BY <1>1, <1>2, <1>3, EachOf

LEMMA RetryWaitsEach ==
    ASSUME NEW s \in Seq(Words)
    PROVE  RetryWaits(Each(s, First))
BY EachOf, RetryAssumption DEF RetryWaits

LEMMA RetryWaitsJoined ==
    ASSUME NEW s \in Seq(Words), NEW t \in Seq(Words), Outlasts(s)
    PROVE  RetryWaits(Each(s, First) \o Each(t, Second))
<1> DEFINE p == Each(s, First)
           q == Each(t, Second)
<1>1. /\ p \in Seq(Words \X Attempts) /\ q \in Seq(Words \X Attempts)
      /\ Len(p) = Len(s) /\ Len(q) = Len(t) /\ First # Second
  BY EachOf, RetryAssumption
<1> SUFFICES ASSUME NEW i \in 1 .. Len(p \o q), NEW k \in 1 .. Len(p \o q),
                    (p \o q)[i] = <<"launch", First>>, (p \o q)[k] = <<"launch", Second>>
             PROVE  \E j \in i + 1 .. k - 1 : \E op \in Ends : (p \o q)[j] = <<op, First>>
  BY DEF RetryWaits
<1>2. \A j \in 1 .. Len(s) : p[j] = <<s[j], First>>
  BY EachOf, RetryAssumption
<1>3. \A j \in 1 .. Len(t) : q[j] = <<t[j], Second>>
  BY EachOf, RetryAssumption
<1> HIDE DEF p, q
<1>4. i \in 1 .. Len(s) /\ s[i] = "launch"
  BY <1>1, <1>2, <1>3, PartsOf
<1>5. k > Len(s)
  BY <1>1, <1>2, <1>3, PartsOf
<1>6. PICK j \in i + 1 .. Len(s) : s[j] \in Ends
  BY <1>4 DEF Outlasts
<1>7. j \in i + 1 .. k - 1 /\ j \in 1 .. Len(p)
  BY <1>1, <1>4, <1>5, <1>6
<1>8. (p \o q)[j] = p[j]
  BY <1>1, <1>7, PartsOf
<1> QED
  BY <1>1, <1>2, <1>6, <1>7, <1>8

\* What each scenario promises initially.
LEMMA ScenarioPlans ==
    ASSUME NEW kind \in DOMAIN Scenario
    PROVE  /\ Scenario[kind] \in Seq(Words \X Attempts)
           /\ Found(Scenario[kind])
           /\ kind # "canceled" => RetryWaits(Scenario[kind])
<1> USE RetryAssumption
<1> DEFINE Good(p) == p \in Seq(Words \X Attempts) /\ Found(p) /\ RetryWaits(p)
<1>a. ASSUME NEW s \in Seq(Words), Written(s)
      PROVE  Good(Each(s, First))
  BY <1>a, EachOf, FoundEach, RetryWaitsEach
<1>b. ASSUME NEW s \in Seq(Words), NEW t \in Seq(Words), Written(s), Written(t), Outlasts(s)
      PROVE  Good(Each(s, First) \o Each(t, Second))
  BY <1>b, EachOf, PartsOf, FoundEach, FoundJoined, RetryWaitsJoined
<1>c. ASSUME NEW p \in Seq(Words \X Attempts), NEW q \in Seq(Words \X Attempts), Found(p), Found(q)
      PROVE  p \o q \in Seq(Words \X Attempts) /\ Found(p \o q)
  BY <1>c, PartsOf, FoundJoined
<1> HIDE DEF Good
<1>s. /\ Started \in Seq(Words) /\ Without(Started, "finished")
  BY DEF Started, Without, Words
<1>k. /\ Kill \in Seq(Words) /\ Without(Kill, "finished") /\ Without(Kill, "launch")
      /\ Contains(Kill, Ends)
  BY DEF Kill, Without, Words, Contains, Ends
<1>l. /\ Lapse \in Seq(Words) /\ Without(Lapse, "finished") /\ Without(Lapse, "launch")
  BY DEF Lapse, Without, Words
<1>d. /\ Abandoned \in Seq(Words) /\ Without(Abandoned, "finished") /\ Without(Abandoned, "launch")
  BY DEF Abandoned, Without, Words
<1>e. Execute \in Seq(Words) /\ Written(Execute)
  <2> DEFINE t == <<"finish", "await_exit", "completed">>
  <2>1. t \in Seq(Words) /\ Without(t, "finished")
    BY DEF Without, Words
  <2> QED
    BY <1>s, <2>1, JoinedWithout, WithoutWritten, PartsOf DEF Execute
<1>1. CASE kind = "drain"
  <2> DEFINE t == <<"revoke", "no_preflight", "heartbeat", "finish", "completed">>
  <2>1. t \in Seq(Words) /\ Without(t, "finished")
    BY DEF Without, Words
  <2>2. Started \o t \in Seq(Words) /\ Written(Started \o t)
    BY <1>s, <2>1, JoinedWithout, WithoutWritten, PartsOf
  <2>3. Scenario[kind] = Each(Started \o t, First)
    BY <1>1 DEF Scenario, Drained
  <2> HIDE DEF t
  <2> QED
    BY <1>a, <2>2, <2>3 DEF Good
<1>2. CASE kind = "failed"
  <2> DEFINE t == <<"fail">>
  <2>1. /\ t \in Seq(Words) /\ Without(t, "finished") /\ Without(t, "launch") /\ Contains(t, Ends)
    BY DEF Without, Contains, Ends, Words
  <2>2. Started \o t \in Seq(Words) /\ Written(Started \o t) /\ Outlasts(Started \o t)
    BY <1>s, <2>1, JoinedWithout, WithoutWritten, EndAppended, PartsOf
  <2>3. Scenario[kind] = Each(Started \o t, First) \o Each(Execute, Second)
    BY <1>2 DEF Scenario, FailedAndRetried
  <2> HIDE DEF t
  <2> QED
    BY <1>b, <1>e, <2>2, <2>3 DEF Good
<1>3. CASE kind = "canceled"
  <2> DEFINE t1 == <<"cancel_goal">>
             t2 == <<"cancel">>
             t3 == <<"cancel", "await_exit">>
             t4 == <<"await_exit">>
  <2>1. /\ t1 \in Seq(Words) /\ t2 \in Seq(Words) /\ t3 \in Seq(Words) /\ t4 \in Seq(Words)
        /\ Without(t1, "finished") /\ Without(t2, "finished")
        /\ Without(t3, "finished") /\ Without(t4, "finished")
    BY DEF Without, Words
  <2>2. Scenario[kind] = Each(Started, First) \o Each(Started \o t1, Second)
                            \o Each(t2, First) \o Each(t3, Second) \o Each(t4, First)
    BY <1>3 DEF Scenario, CanceledBranches
  <2> HIDE DEF t1, t2, t3, t4
  <2>3. /\ Each(Started, First) \in Seq(Words \X Attempts) /\ Found(Each(Started, First))
        /\ Each(Started \o t1, Second) \in Seq(Words \X Attempts) /\ Found(Each(Started \o t1, Second))
        /\ Each(t2, First) \in Seq(Words \X Attempts) /\ Found(Each(t2, First))
        /\ Each(t3, Second) \in Seq(Words \X Attempts) /\ Found(Each(t3, Second))
        /\ Each(t4, First) \in Seq(Words \X Attempts) /\ Found(Each(t4, First))
    BY <1>s, <2>1, JoinedWithout, WithoutWritten, PartsOf, EachOf, FoundEach
  <2>4. Scenario[kind] \in Seq(Words \X Attempts) /\ Found(Scenario[kind])
    <3> DEFINE p1 == Each(Started, First)
               p2 == Each(Started \o t1, Second)
               p3 == Each(t2, First)
               p4 == Each(t3, Second)
               p5 == Each(t4, First)
    <3> HIDE DEF p1, p2, p3, p4, p5
    <3>1. p1 \o p2 \in Seq(Words \X Attempts) /\ Found(p1 \o p2)
      BY <1>c, <2>3 DEF p1, p2
    <3>2. p1 \o p2 \o p3 \in Seq(Words \X Attempts) /\ Found(p1 \o p2 \o p3)
      BY <1>c, <2>3, <3>1 DEF p3
    <3>3. p1 \o p2 \o p3 \o p4 \in Seq(Words \X Attempts) /\ Found(p1 \o p2 \o p3 \o p4)
      BY <1>c, <2>3, <3>2 DEF p4
    <3>4. p1 \o p2 \o p3 \o p4 \o p5 \in Seq(Words \X Attempts) /\ Found(p1 \o p2 \o p3 \o p4 \o p5)
      BY <1>c, <2>3, <3>3 DEF p5
    <3> QED
      BY <2>2, <3>4 DEF p1, p2, p3, p4, p5
  <2> QED
    BY <1>3, <2>4
<1>4. CASE kind = "active"
  <2> DEFINE t == <<"active", "reclaim", "replace_token", "finish", "completed">>
  <2>1. t \in Seq(Words) /\ Without(t, "finished")
    BY DEF Without, Words
  <2>2. Started \o Lapse \o t \in Seq(Words) /\ Written(Started \o Lapse \o t)
    BY <1>s, <1>l, <2>1, JoinedWithout, WithoutWritten, PartsOf
  <2>3. Scenario[kind] = Each(Started \o Lapse \o t, First)
    BY <1>4 DEF Scenario
  <2> HIDE DEF t
  <2> QED
    BY <1>a, <2>2, <2>3 DEF Good
<1>5. CASE kind = "finished"
  <2> DEFINE t == <<"finish_without_report", "await_exit">>
             u == <<"finished", "completed", "no_update">>
  <2>1. /\ t \in Seq(Words) /\ Without(t, "finished") /\ u \in Seq(Words)
        /\ t[1] = "finish_without_report" /\ Len(t) = 2
    BY DEF Without, Words
  <2>2. /\ Started \o t \in Seq(Words) /\ Without(Started \o t, "finished")
        /\ Contains(Started \o t, {"finish_without_report"})
    <3>1. (Started \o t)[Len(Started) + 1] = t[1] /\ Len(Started \o t) = Len(Started) + 2
      BY <1>s, <2>1, PartsOf
    <3>2. Len(Started) + 1 \in 1 .. Len(Started \o t)
      BY <1>s, <3>1, LenProperties
    <3> QED
      BY <1>s, <2>1, <3>1, <3>2, JoinedWithout, PartsOf DEF Contains
  <2>3. Scenario[kind] = Each(Started \o t \o Lapse \o u, First)
    BY <1>5 DEF Scenario
  <2> DEFINE v == Started \o t
  <2> HIDE DEF t, u, v
  <2>4. v \o Lapse \in Seq(Words) /\ Without(v \o Lapse, "finished")
        /\ Contains(v \o Lapse, {"finish_without_report"})
    <3>1. v \in Seq(Words) /\ Without(v, "finished") /\ Contains(v, {"finish_without_report"})
      BY <2>2 DEF v
    <3>2. /\ v \o Lapse \in Seq(Words) /\ Len(v \o Lapse) = Len(v) + Len(Lapse)
          /\ \A i \in 1 .. Len(v) : (v \o Lapse)[i] = v[i]
      BY <1>l, <3>1, PartsOf
    <3>3. Contains(v \o Lapse, {"finish_without_report"})
      BY <1>l, <3>1, <3>2, LenProperties DEF Contains
    <3> QED
      BY <1>l, <3>1, <3>2, <3>3, JoinedWithout
  <2>5. v \o Lapse \o u \in Seq(Words) /\ Written(v \o Lapse \o u)
    BY <2>1, <2>4, WrittenAppended, PartsOf
  <2> QED
    BY <1>a, <2>3, <2>5 DEF Good, v
<1>6. CASE kind = "missing"
  <2> DEFINE s == Started \o Kill \o Lapse \o Abandoned
  <2>1. s \in Seq(Words) /\ Written(s) /\ Outlasts(s)
    BY <1>s, <1>k, <1>l, <1>d, JoinedWithout, WithoutWritten, EndAppended, PartsOf
  <2>2. Scenario[kind] = Each(s, First) \o Each(Execute, Second)
    BY <1>6 DEF Scenario
  <2> HIDE DEF s
  <2> QED
    BY <1>b, <1>e, <2>1, <2>2 DEF Good
<1>7. CASE kind = "unknown"
  <2> DEFINE t == <<"unknown", "no_reclaim">>
             s == Started \o Lapse \o t \o Kill \o Abandoned
  <2>1. t \in Seq(Words) /\ Without(t, "finished")
    BY DEF Without, Words
  <2>2. Scenario[kind] = Each(s, First) \o Each(Execute, Second)
    BY <1>7 DEF Scenario
  <2> HIDE DEF t
  <2>3. s \in Seq(Words) /\ Written(s) /\ Outlasts(s)
    BY <1>s, <1>k, <1>l, <1>d, <2>1, JoinedWithout, WithoutWritten, EndAppended, PartsOf
  <2> HIDE DEF s
  <2> QED
    BY <1>b, <1>e, <2>2, <2>3 DEF Good
<1>8. CASE kind = "unrecorded"
  <2> DEFINE t == <<"no_active">>
             s == Started \o Lapse \o t \o Kill \o Abandoned
  <2>1. t \in Seq(Words) /\ Without(t, "finished")
    BY DEF Without, Words
  <2>2. Scenario[kind] = Each(s, First) \o Each(Execute, Second)
    BY <1>8 DEF Scenario
  <2> HIDE DEF t
  <2>3. s \in Seq(Words) /\ Written(s) /\ Outlasts(s)
    BY <1>s, <1>k, <1>l, <1>d, <2>1, JoinedWithout, WithoutWritten, EndAppended, PartsOf
  <2> HIDE DEF s
  <2> QED
    BY <1>b, <1>e, <2>2, <2>3 DEF Good
<1>9. kind \in {"drain", "failed", "canceled", "active", "finished", "missing", "unknown", "unrecorded"}
  BY DEF Scenario
<1> QED
  BY <1>1, <1>2, <1>3, <1>4, <1>5, <1>6, <1>7, <1>8, <1>9

-----------------------------------------------------------------------------
(* The inductive invariant of the host. *)

\* Who may still work, given what is left of the plan: the retry is launched
\* behind a step that saw the first worker end, or after that step.
Turn ==
    script.kind # "canceled" =>
        /\ RetryWaits(script.left)
        /\ \A k \in 1 .. Len(script.left) : script.left[k] = <<"launch", Second>> =>
               \/ ~Working(First)
               \/ \E j \in 1 .. k - 1 : \E op \in Ends : script.left[j] = <<op, First>>
        /\ \A k \in 1 .. Len(script.left) : script.left[k] = <<"launch", First>> => ~Working(Second)
        /\ ~(Working(First) /\ Working(Second))

\* The reply the script waits for is the one to the step at the head.
Asked ==
    script.awaits # "none" =>
        /\ script.left # <<>>
        /\ \E op \in Requests \cup {"launch"} : \E a \in Attempts :
              /\ Head(script.left) = <<op, a>>
              /\ script.awaits = IF op = "launch" THEN "started" ELSE Replies[op]

\* A worker nobody waits for has nothing to read and nothing unread, so a pipe
\* never holds two lines.
Quiet(a) ==
    /\ script.ended = "no" /\ Working(a) /\ (script.awaits = "none" \/ Head(script.left)[2] # a)
           => proc[a].at = "idle" /\ proc[a].line = "none" /\ proc[a].reply = "none"
    /\ proc[a].reply # "none" /\ Working(a) => proc[a].at = "idle" /\ proc[a].line = "none"
    /\ proc[a].at = "busy" => proc[a].line # "none"

\* A worker reports a success, and answers that it finished, only once its
\* result is written; one that answered a failure works no more.
Writes(a) ==
    /\ \A i \in 1 .. Len(proc[a].todo) : proc[a].todo[i] = "succeed" =>
           a \in files \/ \E j \in 1 .. i - 1 : proc[a].todo[j] = "write"
    /\ proc[a].at = "busy" /\ proc[a].line = "finish_without_report" =>
           a \in files \/ \E j \in 1 .. Len(proc[a].todo) : proc[a].todo[j] = "write"
    /\ proc[a].reply = "finished_unreported" => a \in files
    /\ proc[a].reply = "failed" => ~Working(a)

HInv ==
    /\ HostType /\ Held
    /\ Turn /\ Asked /\ Found(script.left)
    /\ \A a \in Attempts : Quiet(a) /\ Writes(a)

-----------------------------------------------------------------------------
(* The plan advances by one step, or stays. *)

LEMMA TailOf ==
    ASSUME NEW S, NEW p \in Seq(S), p # <<>>
    PROVE  /\ Tail(p) \in Seq(S) /\ Len(Tail(p)) = Len(p) - 1 /\ Head(p) = p[1] /\ Len(p) >= 1
           /\ \A i \in 1 .. Len(Tail(p)) : Tail(p)[i] = p[i + 1]
           /\ Len(p) \in Nat
OBVIOUS

LEMMA TurnStays ==
    ASSUME Turn, script'.left = script.left, script'.kind = script.kind,
           \A a \in Attempts : Working(a)' => Working(a)
    PROVE  Turn'
<1>1. Working(First)' => Working(First)
  BY RetryAssumption
<1>2. Working(Second)' => Working(Second)
  BY RetryAssumption
<1>3. RetryWaits(script.left) => RetryWaits(script'.left)
  OBVIOUS
<1> QED
  BY <1>1, <1>2, <1>3 DEF Turn

LEMMA TurnAdvances ==
    ASSUME HostType, Turn, script.left # <<>>, script'.left = Tail(script.left), script'.kind = script.kind,
           \A a \in Attempts : Working(a)' => Working(a),
           \A op \in Ends : Head(script.left) = <<op, First>> => ~Working(First)
    PROVE  Turn'
<1> DEFINE p == script.left
           q == Tail(p)
<1> SUFFICES ASSUME script.kind # "canceled"
             PROVE  Turn'
  BY DEF Turn
<1>1. p \in Seq(Words \X Attempts)
  BY DEF HostType, ScriptRecords
<1>2. /\ Len(q) = Len(p) - 1 /\ Head(p) = p[1] /\ Len(p) >= 1 /\ Len(p) \in Nat
      /\ \A i \in 1 .. Len(q) : q[i] = p[i + 1] /\ i + 1 \in 1 .. Len(p)
  BY <1>1, TailOf
<1>3. p' = q
  OBVIOUS
<1>4. /\ RetryWaits(p)
      /\ \A k \in 1 .. Len(p) : p[k] = <<"launch", Second>> =>
             ~Working(First) \/ \E j \in 1 .. k - 1 : \E op \in Ends : p[j] = <<op, First>>
      /\ \A k \in 1 .. Len(p) : p[k] = <<"launch", First>> => ~Working(Second)
      /\ ~(Working(First) /\ Working(Second))
  BY DEF Turn
<1> HIDE DEF p, q
<1>5. RetryWaits(q)
  <2> SUFFICES ASSUME NEW i \in 1 .. Len(q), NEW k \in 1 .. Len(q),
                      q[i] = <<"launch", First>>, q[k] = <<"launch", Second>>
               PROVE  \E j \in i + 1 .. k - 1 : \E op \in Ends : q[j] = <<op, First>>
    BY DEF RetryWaits
  <2>1. /\ i + 1 \in 1 .. Len(p) /\ k + 1 \in 1 .. Len(p)
        /\ p[i + 1] = <<"launch", First>> /\ p[k + 1] = <<"launch", Second>>
    BY <1>2
  <2>2. PICK j \in (i + 1) + 1 .. (k + 1) - 1 : \E op \in Ends : p[j] = <<op, First>>
    BY <1>4, <2>1 DEF RetryWaits
  <2>3. j - 1 \in i + 1 .. k - 1 /\ j - 1 \in 1 .. Len(q) /\ (j - 1) + 1 = j
    BY <1>2, <2>2
  <2>4. q[j - 1] = p[j]
    BY <1>2, <2>3
  <2> QED
    BY <2>2, <2>3, <2>4
<1>6. ASSUME NEW k \in 1 .. Len(q), q[k] = <<"launch", Second>>, Working(First)'
      PROVE  \E j \in 1 .. k - 1 : \E op \in Ends : q[j] = <<op, First>>
  <2>1. Working(First)
    BY <1>6, RetryAssumption
  <2>2. k + 1 \in 1 .. Len(p) /\ p[k + 1] = <<"launch", Second>>
    BY <1>2, <1>6
  <2>3. PICK j \in 1 .. (k + 1) - 1 : \E op \in Ends : p[j] = <<op, First>>
    BY <1>4, <2>1, <2>2
  <2>4. j # 1
    BY <1>2, <2>1, <2>3 DEF p
  <2>5. j - 1 \in 1 .. k - 1 /\ j - 1 \in 1 .. Len(q) /\ (j - 1) + 1 = j
    BY <1>2, <2>3, <2>4
  <2>6. q[j - 1] = p[j]
    BY <1>2, <2>5
  <2> QED
    BY <2>3, <2>5, <2>6
<1>7. ASSUME NEW k \in 1 .. Len(q), q[k] = <<"launch", First>>
      PROVE  ~Working(Second)'
  BY <1>2, <1>4, <1>7, RetryAssumption
<1>8. ~(Working(First) /\ Working(Second))'
  BY <1>4, RetryAssumption
<1> QED
  BY <1>3, <1>5, <1>6, <1>7, <1>8 DEF Turn, p, RetryWaits

LEMMA TurnLaunches ==
    ASSUME HostType, Turn, NEW a \in Attempts, script.left # <<>>, Head(script.left) = <<"launch", a>>,
           script'.left = script.left, script'.kind = script.kind,
           \A b \in Attempts \ {a} : Working(b)' => Working(b)
    PROVE  Turn'
<1> DEFINE p == script.left
<1> SUFFICES ASSUME script.kind # "canceled"
             PROVE  Turn'
  BY DEF Turn
<1>1. p \in Seq(Words \X Attempts)
  BY DEF HostType, ScriptRecords
<1>2. p[1] = <<"launch", a>> /\ 1 \in 1 .. Len(p)
  BY <1>1, TailOf
<1>3. a = First \/ a = Second
  BY RetryAssumption
<1>4. /\ RetryWaits(p)
      /\ \A k \in 1 .. Len(p) : p[k] = <<"launch", Second>> =>
             ~Working(First) \/ \E j \in 1 .. k - 1 : \E op \in Ends : p[j] = <<op, First>>
      /\ \A k \in 1 .. Len(p) : p[k] = <<"launch", First>> => ~Working(Second)
      /\ ~(Working(First) /\ Working(Second))
  BY DEF Turn
<1>5. p' = p
  OBVIOUS
<1> HIDE DEF p
<1>6. CASE a = First
  <2>1. ~Working(Second) /\ ~Working(Second)'
    BY <1>2, <1>4, <1>6, RetryAssumption
  <2>2. ASSUME NEW k \in 1 .. Len(p), p[k] = <<"launch", Second>>
        PROVE  \E j \in 1 .. k - 1 : \E op \in Ends : p[j] = <<op, First>>
    <3>1. PICK j \in 1 + 1 .. k - 1 : \E op \in Ends : p[j] = <<op, First>>
      BY <1>2, <1>4, <1>6, <2>2 DEF RetryWaits
    <3> QED
      BY <3>1
  <2>3. /\ RetryWaits(p)
        /\ \A k \in 1 .. Len(p) : p[k] = <<"launch", First>> => ~Working(Second)'
        /\ ~(Working(First) /\ Working(Second))'
    BY <1>4, <2>1
  <2> QED
    BY <1>5, <2>2, <2>3 DEF Turn, p
<1>7. CASE a = Second
  <2>1. ~Working(First) /\ ~Working(First)'
    BY <1>2, <1>4, <1>7, RetryAssumption
  <2>2. ASSUME NEW k \in 1 .. Len(p)
        PROVE  p[k] # <<"launch", First>>
    <3>1. SUFFICES ASSUME p[k] = <<"launch", First>>
                   PROVE  FALSE
      OBVIOUS
    <3>2. PICK j \in k + 1 .. 1 - 1 : \E op \in Ends : p[j] = <<op, First>>
      BY <1>2, <1>4, <1>7, <3>1 DEF RetryWaits
    <3> QED
      BY <3>2
  <2>3. RetryWaits(p) /\ ~Working(First)' /\ ~(Working(First) /\ Working(Second))'
    BY <1>4, <2>1
  <2> QED
    BY <1>5, <2>2, <2>3 DEF Turn, p
<1> QED
  BY <1>3, <1>6, <1>7

LEMMA FoundStays ==
    ASSUME Found(script.left), script'.left = script.left, files \subseteq files'
    PROVE  Found(script.left)'
BY DEF Found

LEMMA FoundAdvances ==
    ASSUME HostType, Found(script.left), script.left # <<>>, script'.left = Tail(script.left),
           files \subseteq files',
           \A a \in Attempts : Head(script.left) = <<"finish_without_report", a>> => a \in files
    PROVE  Found(script.left)'
<1> DEFINE p == script.left
           q == Tail(p)
<1>1. p \in Seq(Words \X Attempts)
  BY DEF HostType, ScriptRecords
<1>2. /\ Len(q) = Len(p) - 1 /\ Head(p) = p[1] /\ Len(p) >= 1 /\ Len(p) \in Nat
      /\ \A i \in 1 .. Len(q) : q[i] = p[i + 1] /\ i + 1 \in 1 .. Len(p)
  BY <1>1, TailOf
<1>3. p' = q
  OBVIOUS
<1> HIDE DEF p, q
<1>4. ASSUME NEW a \in Attempts, NEW i \in 1 .. Len(q), q[i] = <<"finished", a>>, a \notin files'
      PROVE  \E j \in 1 .. i - 1 : q[j] = <<"finish_without_report", a>>
  <2>1. i + 1 \in 1 .. Len(p) /\ p[i + 1] = <<"finished", a>> /\ a \notin files
    BY <1>2, <1>4
  <2>2. PICK j \in 1 .. (i + 1) - 1 : p[j] = <<"finish_without_report", a>>
    BY <2>1 DEF Found, p
  <2>3. j # 1
    BY <1>2, <2>1, <2>2 DEF p
  <2>4. j - 1 \in 1 .. i - 1 /\ j - 1 \in 1 .. Len(q) /\ (j - 1) + 1 = j
    BY <1>2, <2>2, <2>3
  <2>5. q[j - 1] = p[j]
    BY <1>2, <2>4
  <2> QED
    BY <2>2, <2>4, <2>5
<1> QED
  BY <1>3, <1>4 DEF Found, p
-----------------------------------------------------------------------------
(* What a worker's step does to its process and to the files. *)

WorkerFrame(a) ==
    /\ proc' \in [Attempts -> ProcRecords] /\ \A b \in Attempts \ {a} : proc'[b] = proc[b]
    /\ script' = script \/ script' = [script EXCEPT !.harmed = TRUE]
    /\ files \subseteq files'
    /\ proc'[a].token \in {proc[a].token, script.tokens[a]}

Reads(a) ==
    /\ proc[a].at = "idle" /\ proc[a].line # "none" /\ proc'[a].at = "busy"
    /\ proc'[a].line = proc[a].line /\ proc'[a].reply = proc[a].reply
    /\ proc'[a].todo = Program(a)[proc[a].line]

Works(a) ==
    /\ proc[a].at = "busy" /\ proc[a].todo # <<>> /\ proc'[a].at = "busy"
    /\ proc'[a].line = proc[a].line /\ proc'[a].reply = proc[a].reply
    /\ proc'[a].todo = Tail(proc[a].todo)
    /\ Head(proc[a].todo) = "write" => a \in files'

Replied(a) ==
    /\ proc[a].at = "busy" /\ proc[a].todo = <<>> /\ proc'[a].todo = <<>>
    /\ proc'[a].reply = Replies[proc[a].line] /\ proc'[a].line = "none"
    /\ proc'[a].at = IF proc[a].line \in Final THEN "leaving" ELSE "idle"

Left(a) ==
    /\ proc'[a].at \in {"leaving", "exited"}
    /\ proc'[a].todo \in {<<>>, proc[a].todo} /\ proc'[a].reply \in {proc[a].reply, "error"}

LEMMA ProgramOf ==
    ASSUME NEW a \in Attempts, NEW l \in Lines
    PROVE  /\ Program(a)[l] \in Seq(Words)
           /\ \A i \in 1 .. Len(Program(a)[l]) : Program(a)[l][i] = "succeed" =>
                  \E j \in 1 .. i - 1 : Program(a)[l][j] = "write"
           /\ l = "finish_without_report" => \E j \in 1 .. Len(Program(a)[l]) : Program(a)[l][j] = "write"
<1>1. l \in {"configure", "heartbeat", "finish", "fail", "cancel", "replace_token", "finish_without_report"}
  BY DEF Lines, Replies
<1>2. CASE l = "finish"
  <2>1. Program(a)[l] = <<"write", "succeed">>
    BY <1>2 DEF Program
  <2> QED
    BY <1>2, <2>1 DEF Words
<1>3. CASE l = "finish_without_report"
  <2>1. Program(a)[l] = <<"write">>
    BY <1>3 DEF Program
  <2> QED
    BY <1>3, <2>1 DEF Words
<1>4. CASE l \in {"configure", "heartbeat", "fail", "replace_token"}
  <2>1. \/ Program(a)[l] = <<>>
        \/ \E op \in {"start", "heartbeat", "fail", "adopt"} : Program(a)[l] = <<op>>
    BY <1>4 DEF Program
  <2>2. CASE Program(a)[l] = <<>>
    BY <1>4, <2>2
  <2>3. CASE \E op \in {"start", "heartbeat", "fail", "adopt"} : Program(a)[l] = <<op>>
    <3>1. PICK op \in {"start", "heartbeat", "fail", "adopt"} : Program(a)[l] = <<op>>
      BY <2>3
    <3>2. op \in Words /\ op # "succeed"
      BY DEF Words
    <3> QED
      BY <1>4, <3>1, <3>2
  <2> QED
    BY <2>1, <2>2, <2>3
<1>5. CASE l = "cancel"
  <2>1. Program(a)[l] = <<"heartbeat", "acknowledge">>
    BY <1>5 DEF Program
  <2> QED
    BY <1>5, <2>1 DEF Words
<1> QED
  BY <1>1, <1>2, <1>3, <1>4, <1>5

LEMMA WorkerShape ==
    ASSUME HostType, NEW a \in Attempts, Quiet(a), WorkerStep(a)
    PROVE  WorkerFrame(a) /\ (Reads(a) \/ Works(a) \/ Replied(a) \/ Left(a))
<1>1. proc \in [Attempts -> ProcRecords] /\ proc[a] \in ProcRecords /\ script.tokens[a] \in Nat
  BY DEF HostType, ScriptRecords
<1>2. /\ proc[a].todo \in Seq(Words) /\ proc[a].token \in Nat /\ proc[a].reply \in Answers
      /\ proc[a].line \in Lines \cup {"none"}
  BY <1>1 DEF ProcRecords
<1>3. <<>> \in Seq(Words) /\ "error" \in Answers
  BY DEF Answers
<1>4. CASE Read(a)
  <2>1. Program(a)[proc[a].line] \in Seq(Words)
    BY <1>2, <1>4, ProgramOf DEF Read
  <2>2. WorkerFrame(a)
    BY <1>1, <1>4, <2>1 DEF Read, WorkerFrame, ProcRecords
  <2>3. Reads(a)
    BY <1>1, <1>4 DEF Read, Reads, ProcRecords
  <2> QED
    BY <2>2, <2>3
<1>5. CASE Work(a)
  <2>1. Tail(proc[a].todo) \in Seq(Words)
    BY <1>2, <1>5, TailOf DEF Work
  <2>2. CASE Head(proc[a].todo) \in Local
    <3> DEFINE r == Advanced(a)
    <3>1. /\ r \in [Attempts -> ProcRecords] /\ \A b \in Attempts \ {a} : r[b] = proc[b]
          /\ r[a].at = proc[a].at /\ r[a].line = proc[a].line /\ r[a].reply = proc[a].reply
          /\ r[a].token = proc[a].token /\ r[a].todo = Tail(proc[a].todo)
      BY <1>1, <1>2, <2>1 DEF Advanced, ProcRecords
    <3>2. /\ proc' = r \/ proc' = [r EXCEPT ![a].token = script.tokens[a]]
          /\ script' = script /\ files \subseteq files'
          /\ Head(proc[a].todo) = "write" => a \in files'
          /\ proc[a].at = "busy" /\ proc[a].todo # <<>>
      BY <1>5, <2>2 DEF Work
    <3> HIDE DEF r
    <3>3. CASE proc' = r
      BY <3>1, <3>2, <3>3 DEF WorkerFrame, Works
    <3>4. CASE proc' = [r EXCEPT ![a].token = script.tokens[a]]
      <4>1. /\ proc' \in [Attempts -> ProcRecords] /\ \A b \in Attempts \ {a} : proc'[b] = r[b]
            /\ proc'[a].at = r[a].at /\ proc'[a].line = r[a].line /\ proc'[a].reply = r[a].reply
            /\ proc'[a].token = script.tokens[a] /\ proc'[a].todo = r[a].todo
        BY <1>1, <3>1, <3>4 DEF ProcRecords
      <4> QED
        BY <3>1, <3>2, <4>1 DEF WorkerFrame, Works
    <3> QED
      BY <3>2, <3>3, <3>4
  <2>3. CASE Head(proc[a].todo) \notin Local /\ proc' = Advanced(a)
    <3>1. WorkerFrame(a)
      BY <1>1, <1>5, <2>1, <2>3 DEF Work, WorkerFrame, ProcRecords, Advanced
    <3>2. Works(a)
      BY <1>1, <1>5, <2>3 DEF Work, Works, ProcRecords, Advanced, Local
    <3> QED
      BY <3>1, <3>2
  <2>4. CASE Head(proc[a].todo) \notin Local /\ proc' = Errs(a)
    <3>1. WorkerFrame(a)
      BY <1>1, <1>3, <1>5, <2>4 DEF Work, WorkerFrame, ProcRecords, Errs
    <3>2. Left(a)
      BY <1>1, <2>4 DEF Left, ProcRecords, Errs
    <3> QED
      BY <3>1, <3>2
  <2> QED
    BY <1>5, <2>2, <2>3, <2>4 DEF Work
<1>6. CASE WorkFails(a)
  <2>1. WorkerFrame(a)
    BY <1>1, <1>3, <1>6 DEF WorkFails, WorkerFrame, ProcRecords, Errs
  <2>2. Left(a)
    BY <1>1, <1>6 DEF WorkFails, Left, ProcRecords, Errs
  <2> QED
    BY <2>1, <2>2
<1>7. CASE Answer(a)
  <2>1. proc[a].line \in Lines
    BY <1>2, <1>7 DEF Answer, Quiet
  <2>2. Replies[proc[a].line] \in Answers
    BY <2>1 DEF Answers
  <2>3. WorkerFrame(a)
    BY <1>1, <1>7, <2>2 DEF Answer, WorkerFrame, ProcRecords
  <2>4. Replied(a)
    BY <1>1, <1>7 DEF Answer, Replied, ProcRecords
  <2> QED
    BY <2>3, <2>4
<1>8. CASE EndOfInput(a) \/ Exit(a) \/ Die(a)
  <2>1. WorkerFrame(a)
    <3>1. CASE EndOfInput(a)
      BY <1>1, <3>1 DEF EndOfInput, WorkerFrame, ProcRecords
    <3>2. CASE Exit(a)
      BY <1>1, <1>3, <3>2 DEF Exit, WorkerFrame, ProcRecords
    <3>3. CASE Die(a)
      BY <1>1, <1>3, <3>3 DEF Die, WorkerFrame, ProcRecords
    <3> QED
      BY <1>8, <3>1, <3>2, <3>3
  <2>2. Left(a)
    BY <1>1, <1>8 DEF EndOfInput, Exit, Die, Left, ProcRecords
  <2> QED
    BY <2>1, <2>2
<1> QED
  BY <1>4, <1>5, <1>6, <1>7, <1>8 DEF WorkerStep

LEMMA WorkerKeeps ==
    ASSUME HostType, Turn, Asked, Found(script.left), \A b \in Attempts : Quiet(b) /\ Writes(b),
           NEW a \in Attempts, WorkerStep(a)
    PROVE  /\ HostType' /\ Turn' /\ Asked' /\ Found(script.left)'
           /\ \A b \in Attempts : Quiet(b)' /\ Writes(b)'
<1>1. WorkerFrame(a) /\ (Reads(a) \/ Works(a) \/ Replied(a) \/ Left(a))
  BY WorkerShape
<1>2. /\ script' \in ScriptRecords /\ script'.left = script.left /\ script'.kind = script.kind
      /\ script'.awaits = script.awaits /\ script'.ended = script.ended
  BY <1>1 DEF WorkerFrame, HostType, ScriptRecords
<1>3. HostType'
  BY <1>1, <1>2 DEF HostType, WorkerFrame
<1>4. \A b \in Attempts \ {a} : proc'[b] = proc[b]
  BY <1>1 DEF WorkerFrame
<1>5. Working(a)' => Working(a)
  BY <1>1 DEF Reads, Works, Replied, Left, Working
<1>6. Turn'
  <2>1. \A b \in Attempts : Working(b)' => Working(b)
    BY <1>4, <1>5 DEF Working
  <2> QED
    BY <1>2, <2>1, TurnStays
<1>7. Asked'
  BY <1>2 DEF Asked
<1>8. Found(script.left)'
  BY <1>1, <1>2, FoundStays DEF WorkerFrame
<1>9. ASSUME NEW b \in Attempts \ {a}
      PROVE  Quiet(b)' /\ Writes(b)'
  <2>1. Quiet(b) /\ Writes(b) /\ proc'[b] = proc[b] /\ files \subseteq files'
    BY <1>1, <1>4, <1>9 DEF WorkerFrame
  <2>2. Quiet(b)'
    BY <1>2, <2>1 DEF Quiet, Working
  <2>3. Writes(b)'
    BY <2>1 DEF Writes, Working
  <2> QED
    BY <2>2, <2>3
<1>10. Quiet(a)'
  <2>1. Quiet(a)
    OBVIOUS
  <2>2. CASE Left(a)
    BY <2>2 DEF Left, Quiet, Working
  <2>3. CASE Reads(a) \/ Works(a) \/ Replied(a)
    BY <1>2, <2>1, <2>3 DEF Quiet, Reads, Works, Replied, Working
  <2> QED
    BY <1>1, <2>2, <2>3
<1>11. Writes(a)'
  <2>1. Writes(a) /\ Quiet(a) /\ files \subseteq files'
    BY <1>1 DEF WorkerFrame
  <2>2. proc[a].todo \in Seq(Words) /\ proc[a].line \in Lines \cup {"none"}
    BY DEF HostType, ProcRecords
  <2>3. CASE Left(a)
    BY <2>1, <2>3 DEF Left, Writes, Working
  <2>4. CASE Reads(a)
    <3>1. proc[a].line \in Lines
      BY <2>2, <2>4 DEF Reads
    <3>2. proc'[a].reply = "none"
      BY <2>1, <2>4 DEF Reads, Quiet, Working
    <3> QED
      BY <2>4, <3>1, <3>2, ProgramOf DEF Reads, Writes
  <2>5. CASE Replied(a)
    <3>1. proc[a].line \in Lines
      BY <2>1, <2>2, <2>5 DEF Replied, Quiet
    <3>2. proc'[a].reply = "finished_unreported" => proc[a].line = "finish_without_report"
      BY <2>5, <3>1 DEF Replied, Replies, Lines
    <3>3. proc'[a].reply = "failed" => proc[a].line = "fail"
      BY <2>5, <3>1 DEF Replied, Replies, Lines
    <3> QED
      BY <2>1, <2>5, <3>2, <3>3 DEF Replied, Writes, Final, Working
  <2>6. CASE Works(a)
    <3> DEFINE p == proc[a].todo
               q == Tail(p)
    <3>1. /\ Len(q) = Len(p) - 1 /\ Head(p) = p[1] /\ Len(p) >= 1 /\ Len(p) \in Nat
          /\ \A i \in 1 .. Len(q) : q[i] = p[i + 1] /\ i + 1 \in 1 .. Len(p)
      BY <2>2, <2>6, TailOf DEF Works
    <3>2. p' = q /\ proc'[a].reply = proc[a].reply /\ proc'[a].line = proc[a].line /\ proc'[a].at = "busy"
          /\ proc[a].at = "busy" /\ (p[1] = "write" => a \in files')
      BY <2>6, <3>1 DEF Works
    <3>3. /\ \A i \in 1 .. Len(p) : p[i] = "succeed" => a \in files \/ \E j \in 1 .. i - 1 : p[j] = "write"
          /\ proc[a].line = "finish_without_report" => a \in files \/ \E j \in 1 .. Len(p) : p[j] = "write"
          /\ proc[a].reply = "finished_unreported" => a \in files
          /\ proc[a].reply = "failed" => ~Working(a)
      BY <2>1, <3>2 DEF Writes
    <3> HIDE DEF p, q
    <3>4. ASSUME NEW j \in 1 .. Len(p), p[j] = "write", a \notin files'
          PROVE  j - 1 \in 1 .. Len(q) /\ q[j - 1] = "write"
      <4>1. j # 1
        BY <3>2, <3>4
      <4>2. j - 1 \in 1 .. Len(q) /\ (j - 1) + 1 = j
        BY <3>1, <4>1
      <4> QED
        BY <3>1, <3>4, <4>2
    <3>5. ASSUME NEW i \in 1 .. Len(q), q[i] = "succeed", a \notin files'
          PROVE  \E j \in 1 .. i - 1 : q[j] = "write"
      <4>1. i + 1 \in 1 .. Len(p) /\ p[i + 1] = "succeed" /\ a \notin files
        BY <2>1, <3>1, <3>5
      <4>2. PICK j \in 1 .. (i + 1) - 1 : p[j] = "write"
        BY <3>3, <4>1
      <4>3. j \in 1 .. Len(p)
        BY <3>1, <4>2
      <4>4. j - 1 \in 1 .. Len(q) /\ q[j - 1] = "write"
        BY <3>4, <3>5, <4>2, <4>3
      <4> QED
        BY <4>2, <4>4
    <3>6. ASSUME proc[a].line = "finish_without_report", a \notin files'
          PROVE  \E j \in 1 .. Len(q) : q[j] = "write"
      <4>1. PICK j \in 1 .. Len(p) : p[j] = "write"
        BY <2>1, <3>3, <3>6
      <4> QED
        BY <3>4, <3>6, <4>1
    <3>7. proc[a].reply # "failed"
      BY <3>2, <3>3 DEF Working
    <3> QED
      BY <2>1, <3>2, <3>3, <3>5, <3>6, <3>7 DEF Writes, p
  <2> QED
    BY <1>1, <2>3, <2>4, <2>5, <2>6
<1> QED
  BY <1>3, <1>6, <1>7, <1>8, <1>9, <1>10, <1>11
-----------------------------------------------------------------------------
(* What a step of the controller does to its plan and to the pipes. *)

\* The process goes on as it was; at most its reply was taken from the pipe.
Kept(a) ==
    /\ proc'[a].at = proc[a].at /\ proc'[a].line = proc[a].line /\ proc'[a].todo = proc[a].todo
    /\ proc'[a].token = proc[a].token /\ proc'[a].reply \in {proc[a].reply, "none"}

\* The head of the plan is done.
PlanAdvances ==
    /\ script.left # <<>> /\ script'.left = Tail(script.left)
    /\ script.ended = "no" /\ script'.awaits = "none"
    /\ \/ script.awaits = "none"
       \/ \E a \in Attempts : Head(script.left)[2] = a /\ proc[a].reply # "none" /\ proc'[a].reply = "none"
    /\ \A op \in Ends : Head(script.left) = <<op, First>> => ~Working(First)
    /\ \A a \in Attempts : Head(script.left) = <<"finish_without_report", a>> => a \in files

\* The scenario has ended.
PlanStops ==
    /\ script'.left = script.left /\ script'.ended # "no"
    /\ script'.awaits \in {script.awaits, "none"}

PlanStays ==
    /\ script'.left = script.left /\ script'.ended = script.ended /\ script'.awaits = script.awaits

ControllerFrame ==
    /\ script'.kind = script.kind /\ files' = files
    /\ \A a \in Attempts : Kept(a)
    /\ PlanAdvances \/ PlanStops \/ PlanStays

LEMMA ControllerKeeps ==
    ASSUME HostType, Turn, Asked, Found(script.left), \A a \in Attempts : Quiet(a) /\ Writes(a),
           ControllerFrame
    PROVE  Turn' /\ Asked' /\ Found(script.left)' /\ \A a \in Attempts : Quiet(a)' /\ Writes(a)'
<1>1. /\ script'.kind = script.kind /\ files' = files
      /\ \A a \in Attempts : Kept(a)
      /\ PlanAdvances \/ PlanStops \/ PlanStays
  BY DEF ControllerFrame
<1>2. \A a \in Attempts : Working(a)' => Working(a)
  BY <1>1 DEF Kept, Working
<1>3. ASSUME NEW a \in Attempts
      PROVE  Writes(a)'
  <2>1. Writes(a) /\ Kept(a)
    BY <1>1, <1>3
  <2> QED
    BY <1>1, <2>1 DEF Writes, Kept, Working
<1>4. CASE PlanAdvances
  <2>1. Turn'
    BY <1>1, <1>2, <1>4, TurnAdvances DEF PlanAdvances
  <2>2. Found(script.left)'
    BY <1>1, <1>4, FoundAdvances DEF PlanAdvances
  <2>3. Asked'
    BY <1>4 DEF PlanAdvances, Asked
  <2>4. ASSUME NEW a \in Attempts
        PROVE  Quiet(a)'
    <3>1. Quiet(a) /\ Kept(a)
      BY <1>1, <2>4
    <3> QED
      BY <1>4, <3>1 DEF PlanAdvances, Quiet, Kept, Working
  <2> QED
    BY <1>3, <2>1, <2>2, <2>3, <2>4
<1>5. CASE PlanStops \/ PlanStays
  <2>1. script'.left = script.left
    BY <1>5 DEF PlanStops, PlanStays
  <2>2. Turn' /\ Found(script.left)'
    BY <1>1, <1>2, <2>1, TurnStays, FoundStays
  <2>3. Asked'
    BY <1>5 DEF PlanStops, PlanStays, Asked
  <2>4. ASSUME NEW a \in Attempts
        PROVE  Quiet(a)'
    <3>1. Quiet(a) /\ Kept(a)
      BY <1>1, <2>4
    <3> QED
      BY <1>5, <3>1 DEF PlanStops, PlanStays, Quiet, Kept, Working
  <2> QED
    BY <1>3, <2>2, <2>3, <2>4
<1> QED
  BY <1>1, <1>4, <1>5

\* What the reply at the head of the plan says of the worker.
LEMMA RepliesMean ==
    ASSUME HostType, Asked, NEW a \in Attempts, Writes(a),
           script.awaits # "none", Head(script.left)[2] = a, proc[a].reply = script.awaits
    PROVE  /\ script.left # <<>>
           /\ \A op \in Ends : Head(script.left) = <<op, First>> => ~Working(First)
           /\ \A b \in Attempts : Head(script.left) = <<"finish_without_report", b>> => b \in files
<1>1. PICK op \in Requests \cup {"launch"} : \E b \in Attempts :
          /\ Head(script.left) = <<op, b>>
          /\ script.awaits = IF op = "launch" THEN "started" ELSE Replies[op]
  BY DEF Asked
<1>2. Head(script.left) = <<op, a>> /\ proc[a].reply = IF op = "launch" THEN "started" ELSE Replies[op]
  BY <1>1
<1>3. op = "fail" => ~Working(a)
  BY <1>2 DEF Writes, Replies
<1>4. op = "finish_without_report" => a \in files
  BY <1>2 DEF Writes, Replies
<1>5. op # "await_exit"
  BY DEF Requests, Replies
<1> QED
  BY <1>2, <1>3, <1>4, <1>5 DEF Asked, Ends

LEMMA ContinueType ==
    ASSUME HostType, script.left # <<>>
    PROVE  /\ Continue \in ScriptRecords /\ Continue.left = Tail(script.left)
           /\ Continue.kind = script.kind /\ Continue.awaits = script.awaits
           /\ Continue.ended = script.ended /\ Continue.tokens = script.tokens
<1>1. script \in ScriptRecords /\ script.left \in Seq(Words \X Attempts)
  BY DEF HostType, ScriptRecords
<1>2. Tail(script.left) \in Seq(Words \X Attempts)
  BY <1>1, TailOf
<1> QED
  BY <1>1, <1>2 DEF Continue, ScriptRecords

LEMMA AbortType ==
    ASSUME HostType
    PROVE  /\ Abort \in ScriptRecords /\ Abort.left = script.left
           /\ Abort.kind = script.kind /\ Abort.awaits = script.awaits
           /\ Abort.ended = "aborted" /\ Abort.tokens = script.tokens
<1>1. script \in ScriptRecords
  BY DEF HostType
<1> QED
  BY <1>1 DEF Abort, ScriptRecords

\* A step that is neither a reply nor one that waits for a worker's end says
\* nothing of the worker.
LEMMA PlainStep ==
    ASSUME NEW a \in Attempts, NEW op, op \notin Ends \cup {"finish_without_report"},
           Head(script.left) = <<op, a>>
    PROVE  /\ \A e \in Ends : Head(script.left) = <<e, First>> => ~Working(First)
           /\ \A b \in Attempts : Head(script.left) = <<"finish_without_report", b>> => b \in files
OBVIOUS

LEMMA CommandShape ==
    ASSUME HostType, IInv', NEW a \in Attempts, NEW op, RunCommand(op, a) \/ CommandFails(op, a)
    PROVE  HostType' /\ ControllerFrame
<1>1. /\ script.ended = "no" /\ script.awaits = "none" /\ script.left # <<>> /\ Head(script.left) = <<op, a>>
      /\ op \in Commands /\ proc' = proc /\ files' = files
      /\ script' \in {Accepted(op, a), Abort, [Abort EXCEPT !.harmed = TRUE]}
  BY DEF RunCommand, CommandFails, At
<1>2. op \notin Ends \cup {"finish_without_report"}
  BY <1>1 DEF Commands, Ends
<1>3. proc \in [Attempts -> ProcRecords] /\ \A b \in Attempts : Kept(b)
  BY <1>1 DEF HostType, Kept
<1>4. CASE script' = Accepted(op, a)
  <2>1. claims'[a].token \in Nat
    BY DEF IInv, TypeOK
  <2> DEFINE c == Continue
  <2>2. /\ c \in ScriptRecords /\ c.left = Tail(script.left) /\ c.kind = script.kind /\ c.awaits = "none"
    BY <1>1, ContinueType
  <2>3. script' = c \/ script' = [c EXCEPT !.tokens[a] = claims'[a].token]
    BY <1>4 DEF Accepted
  <2> HIDE DEF c
  <2>4. /\ script' \in ScriptRecords /\ script'.left = Tail(script.left) /\ script'.kind = script.kind
        /\ script'.awaits = "none"
    BY <2>1, <2>2, <2>3 DEF ScriptRecords
  <2>5. PlanAdvances
    BY <1>1, <1>2, <2>4, PlainStep DEF PlanAdvances
  <2> QED
    BY <1>1, <1>3, <2>4, <2>5 DEF HostType, ControllerFrame
<1>5. CASE script' \in {Abort, [Abort EXCEPT !.harmed = TRUE]}
  <2> DEFINE c == Abort
  <2>1. /\ c \in ScriptRecords /\ c.left = script.left /\ c.kind = script.kind
        /\ c.awaits = script.awaits /\ c.ended = "aborted"
    BY AbortType
  <2>2. script' \in {c, [c EXCEPT !.harmed = TRUE]}
    BY <1>5
  <2> HIDE DEF c
  <2>3. /\ script' \in ScriptRecords /\ script'.left = script.left /\ script'.kind = script.kind
        /\ script'.awaits = script.awaits /\ script'.ended = "aborted"
    BY <2>1, <2>2 DEF ScriptRecords
  <2> QED
    BY <1>1, <1>3, <2>3 DEF HostType, ControllerFrame, PlanStops
<1> QED
  BY <1>1, <1>4, <1>5
LEMMA WaitlessShape ==
    ASSUME HostType, NEW a \in Attempts, NEW op,
           Check(op, a) \/ Signal(a) \/ AwaitExit(a) \/ Expire(a) \/ CleanUp(a)
    PROVE  HostType' /\ ControllerFrame
<1>1. proc \in [Attempts -> ProcRecords] /\ script \in ScriptRecords
  BY DEF HostType
<1>2. /\ proc' \in [Attempts -> ProcRecords] /\ files' = files /\ \A b \in Attempts : Kept(b)
  <2>1. CASE proc' = proc
    BY <1>1, <2>1 DEF Kept, Check, Signal, AwaitExit, Expire, CleanUp
  <2>2. CASE proc' = [proc EXCEPT ![a].signaled = TRUE]
    BY <1>1, <2>2 DEF Kept, ProcRecords, Check, Signal, AwaitExit, Expire, CleanUp
  <2> QED
    BY <2>1, <2>2 DEF Check, Signal, AwaitExit, Expire, CleanUp
<1>3. CASE CleanUp(a)
  <2>1. script' = script
    BY <1>3 DEF CleanUp
  <2> QED
    BY <1>1, <1>2, <2>1 DEF HostType, ControllerFrame, PlanStays
<1>4. CASE ~CleanUp(a)
  <2>1. /\ script.ended = "no" /\ script.awaits = "none" /\ script.left # <<>>
        /\ script' \in {Continue, Abort}
        /\ \E w : /\ Head(script.left) = <<w, a>> /\ w \notin {"fail", "finish_without_report"}
                  /\ w = "await_exit" => ~Working(a)
    <3>1. CASE Check(op, a)
      BY <3>1 DEF Check, At, Checks
    <3>2. CASE Signal(a)
      BY <3>2 DEF Signal, At
    <3>3. CASE AwaitExit(a)
      BY <3>3 DEF AwaitExit, At, Alive, Working
    <3>4. CASE Expire(a)
      BY <3>4 DEF Expire, At
    <3> QED
      BY <1>4, <3>1, <3>2, <3>3, <3>4
  <2>2. /\ \A e \in Ends : Head(script.left) = <<e, First>> => ~Working(First)
        /\ \A b \in Attempts : Head(script.left) = <<"finish_without_report", b>> => b \in files
    BY <2>1 DEF Ends
  <2>3. CASE script' = Continue
    <3>1. /\ script' \in ScriptRecords /\ script'.left = Tail(script.left) /\ script'.kind = script.kind
          /\ script'.awaits = "none"
      BY <2>1, <2>3, ContinueType
    <3>2. PlanAdvances
      BY <2>1, <2>2, <3>1 DEF PlanAdvances
    <3> QED
      BY <1>2, <3>1, <3>2 DEF HostType, ControllerFrame
  <2>4. CASE script' = Abort
    <3>1. /\ script' \in ScriptRecords /\ script'.left = script.left /\ script'.kind = script.kind
          /\ script'.awaits = script.awaits /\ script'.ended = "aborted"
      BY <2>4, AbortType
    <3> QED
      BY <1>2, <3>1 DEF HostType, ControllerFrame, PlanStops
  <2> QED
    BY <2>1, <2>3, <2>4
<1> QED
  BY <1>3, <1>4

LEMMA ReplyShape ==
    ASSUME HostType, Asked, NEW a \in Attempts, Writes(a), Receive(a) \/ NoReply(a)
    PROVE  HostType' /\ ControllerFrame
<1>1. proc \in [Attempts -> ProcRecords] /\ script \in ScriptRecords
  BY DEF HostType
<1>2. script.ended = "no" /\ script.awaits # "none" /\ Head(script.left)[2] = a /\ files' = files
  BY DEF Receive, NoReply
<1>3. proc' \in [Attempts -> ProcRecords] /\ \A b \in Attempts : Kept(b)
  <2>1. CASE proc' = proc
    BY <1>1, <2>1 DEF Kept
  <2>2. CASE proc' = [proc EXCEPT ![a].reply = "none"]
    <3>1. "none" \in Answers
      BY DEF Answers
    <3> QED
      BY <1>1, <2>2, <3>1 DEF Kept, ProcRecords
  <2> QED
    BY <2>1, <2>2 DEF Receive, NoReply
<1>4. CASE Receive(a) /\ proc[a].reply = script.awaits
  <2> DEFINE c == Continue
  <2>1. /\ script.left # <<>>
        /\ \A op \in Ends : Head(script.left) = <<op, First>> => ~Working(First)
        /\ \A b \in Attempts : Head(script.left) = <<"finish_without_report", b>> => b \in files
    BY <1>2, <1>4, RepliesMean
  <2>2. c \in ScriptRecords /\ c.left = Tail(script.left) /\ c.kind = script.kind
    BY <2>1, ContinueType
  <2>3. script' = [c EXCEPT !.awaits = "none"]
    BY <1>4 DEF Receive
  <2>4. proc[a].reply # "none" /\ proc'[a].reply = "none"
    BY <1>1, <1>4 DEF Receive, ProcRecords
  <2> HIDE DEF c
  <2>5. /\ script' \in ScriptRecords /\ script'.left = Tail(script.left) /\ script'.kind = script.kind
        /\ script'.awaits = "none"
    BY <2>2, <2>3 DEF ScriptRecords, Answers
  <2>6. PlanAdvances
    BY <1>2, <2>1, <2>4, <2>5 DEF PlanAdvances
  <2> QED
    BY <1>2, <1>3, <2>5, <2>6 DEF HostType, ControllerFrame
<1>5. CASE NoReply(a) \/ (Receive(a) /\ proc[a].reply # script.awaits)
  <2> DEFINE c == Abort
             hurt == script.harmed \/ Alive(a)
  <2>1. /\ c \in ScriptRecords /\ c.left = script.left /\ c.kind = script.kind /\ c.ended = "aborted"
        /\ c.harmed = script.harmed
    BY <1>1, AbortType DEF Abort, ScriptRecords
  <2>2. /\ hurt \in BOOLEAN
        /\ \/ script' = [c EXCEPT !.awaits = "none"]
           \/ script' = [c EXCEPT !.awaits = "none", !.harmed = hurt]
    BY <1>1, <1>5, <2>1 DEF Receive, NoReply, ScriptRecords, Alive
  <2> HIDE DEF c, hurt
  <2>3. /\ script' \in ScriptRecords /\ script'.left = script.left /\ script'.kind = script.kind
        /\ script'.awaits = "none" /\ script'.ended = "aborted"
    BY <2>1, <2>2 DEF ScriptRecords, Answers
  <2> QED
    BY <1>2, <1>3, <2>3 DEF HostType, ControllerFrame, PlanStops
<1> QED
  BY <1>4, <1>5

LEMMA EndShape ==
    ASSUME HostType, Pass \/ Crash \/ Delay
    PROVE  HostType' /\ ControllerFrame
<1>1. proc' = proc /\ files' = files /\ script \in ScriptRecords /\ "none" \in Answers
  BY DEF HostType, Pass, Crash, Delay, Answers
<1>2. script' \in ScriptRecords /\ script'.kind = script.kind
  BY <1>1 DEF Pass, Crash, Delay, ScriptRecords
<1>3. PlanStops \/ PlanStays
  BY <1>1 DEF Pass, Crash, Delay, ScriptRecords, PlanStops, PlanStays
<1> QED
  BY <1>1, <1>2, <1>3 DEF HostType, ControllerFrame, Kept

LEMMA LaunchKeeps ==
    ASSUME HostType, Turn, Found(script.left), \A b \in Attempts : Quiet(b) /\ Writes(b),
           NEW a \in Attempts, Launch(a)
    PROVE  /\ HostType' /\ Turn' /\ Asked' /\ Found(script.left)'
           /\ \A b \in Attempts : Quiet(b)' /\ Writes(b)'
<1>1. proc \in [Attempts -> ProcRecords] /\ script \in ScriptRecords /\ script.tokens[a] \in Nat
  BY DEF HostType, ScriptRecords
<1>2. "started" \in Answers /\ "none" \in Answers /\ "configure" \in Lines /\ <<>> \in Seq(Words)
  BY DEF Answers, Lines, Replies
<1>3. /\ proc' \in [Attempts -> ProcRecords] /\ \A b \in Attempts \ {a} : proc'[b] = proc[b]
      /\ proc'[a].at = "idle" /\ proc'[a].line = "configure" /\ proc'[a].todo = <<>>
      /\ proc'[a].reply = "none"
  <2> DEFINE r == [NoProcess EXCEPT !.at = "idle", !.line = "configure", !.token = script.tokens[a]]
  <2>1. r \in ProcRecords /\ r.at = "idle" /\ r.line = "configure" /\ r.todo = <<>> /\ r.reply = "none"
    BY <1>1, <1>2 DEF NoProcess, ProcRecords
  <2>2. proc' = [proc EXCEPT ![a] = r]
    BY DEF Launch
  <2> HIDE DEF r
  <2> QED
    BY <1>1, <2>1, <2>2
<1>4. /\ script' \in ScriptRecords /\ script'.left = script.left /\ script'.kind = script.kind
      /\ script'.awaits = "started" /\ script'.ended = script.ended
  BY <1>1, <1>2 DEF Launch, ScriptRecords
<1>5. /\ script.ended = "no" /\ script.awaits = "none" /\ script.left # <<>>
      /\ Head(script.left) = <<"launch", a>> /\ files' = files
  BY DEF Launch, At
<1>6. HostType'
  BY <1>3, <1>4 DEF HostType
<1>7. Turn'
  <2>1. \A b \in Attempts \ {a} : Working(b)' => Working(b)
    BY <1>3 DEF Working
  <2> QED
    BY <1>4, <1>5, <2>1, TurnLaunches
<1>8. Asked'
  BY <1>4, <1>5 DEF Asked
<1>9. Found(script.left)'
  BY <1>4, <1>5, FoundStays
<1>10. ASSUME NEW b \in Attempts
       PROVE  Quiet(b)' /\ Writes(b)'
  <2>1. CASE b = a
    BY <1>3, <1>4, <1>5, <2>1 DEF Quiet, Writes
  <2>2. CASE b # a
    <3>1. proc'[b] = proc[b] /\ Quiet(b) /\ Writes(b)
      BY <1>3, <1>10, <2>2
    <3>2. Quiet(b)'
      BY <1>4, <1>5, <3>1 DEF Quiet, Working
    <3>3. Writes(b)'
      BY <1>5, <3>1 DEF Writes, Working
    <3> QED
      BY <3>2, <3>3
  <2> QED
    BY <2>1, <2>2
<1> QED
  BY <1>6, <1>7, <1>8, <1>9, <1>10

LEMMA RequestKeeps ==
    ASSUME HostType, Turn, Found(script.left), \A b \in Attempts : Quiet(b) /\ Writes(b),
           NEW a \in Attempts, NEW op, Request(op, a)
    PROVE  /\ HostType' /\ Turn' /\ Asked' /\ Found(script.left)'
           /\ \A b \in Attempts : Quiet(b)' /\ Writes(b)'
<1>1. proc \in [Attempts -> ProcRecords] /\ script \in ScriptRecords
  BY DEF HostType
<1>2. op \in Requests /\ op \in Lines /\ Replies[op] \in Answers /\ op # "none" /\ op # "launch"
  BY DEF Request, Requests, Answers, Lines, Replies
<1>3. /\ proc' \in [Attempts -> ProcRecords] /\ \A b \in Attempts \ {a} : proc'[b] = proc[b]
      /\ proc'[a].at = proc[a].at /\ proc'[a].line = op /\ proc'[a].todo = proc[a].todo
      /\ proc'[a].reply = proc[a].reply
  BY <1>1, <1>2 DEF Request, ProcRecords
<1>4. /\ script' \in ScriptRecords /\ script'.left = script.left /\ script'.kind = script.kind
      /\ script'.awaits = Replies[op] /\ script'.ended = script.ended
  BY <1>1, <1>2 DEF Request, ScriptRecords
<1>5. /\ script.ended = "no" /\ script.awaits = "none" /\ script.left # <<>>
      /\ Head(script.left) = <<op, a>> /\ files' = files
  BY DEF Request, At
<1>6. HostType'
  BY <1>3, <1>4 DEF HostType
<1>7. Turn'
  <2>1. \A b \in Attempts : Working(b)' => Working(b)
    BY <1>3 DEF Working
  <2> QED
    BY <1>4, <2>1, TurnStays
<1>8. Asked'
  BY <1>2, <1>4, <1>5 DEF Asked
<1>9. Found(script.left)'
  BY <1>4, <1>5, FoundStays
<1>10. ASSUME NEW b \in Attempts
       PROVE  Quiet(b)' /\ Writes(b)'
  <2>1. Quiet(b) /\ Writes(b)
    OBVIOUS
  <2>2. CASE b = a
    <3>1. proc[a].at # "busy" /\ (Working(a) => proc[a].reply = "none")
      BY <1>5, <2>1, <2>2 DEF Quiet, Working
    <3>2. Replies[op] # "none"
      BY <1>2 DEF Requests, Replies
    <3>3. Quiet(b)'
      BY <1>3, <1>4, <1>5, <2>2, <3>1, <3>2 DEF Quiet, Working
    <3>4. Writes(b)'
      BY <1>3, <1>5, <2>1, <2>2, <3>1 DEF Writes, Working
    <3> QED
      BY <3>3, <3>4
  <2>3. CASE b # a
    <3>1. proc'[b] = proc[b]
      BY <1>3, <2>3
    <3>2. Quiet(b)'
      BY <1>4, <1>5, <2>1, <3>1 DEF Quiet, Working
    <3>3. Writes(b)'
      BY <1>5, <2>1, <3>1 DEF Writes, Working
    <3> QED
      BY <3>2, <3>3
  <2> QED
    BY <2>2, <2>3
<1> QED
  BY <1>6, <1>7, <1>8, <1>9, <1>10
-----------------------------------------------------------------------------
(* Tokens and successes. *)

LEMMA ClaimHandsOut ==
    ASSUME IInv, NEW a \in Attempts, NEW h, NEW t, NEW r, NEW term, ClaimAttempt(a, h, t, r, term)
    PROVE  claims'[a].token \in handed'
BY DEF ClaimAttempt, IInv, TypeOK

LEMMA TokensKept ==
    ASSUME IInv, HostType, ControllerStep \/ Delay \/ Crash, NEW b \in Attempts
    PROVE  script'.tokens[b] \in {script.tokens[b]} \cup Presented'
<1>1. script \in ScriptRecords /\ script.tokens \in [Attempts -> Nat]
  BY DEF HostType, ScriptRecords
<1>2. ASSUME NEW a \in Attempts, NEW op, RunCommand(op, a) \/ CommandFails(op, a)
      PROVE  script'.tokens[b] \in {script.tokens[b]} \cup Presented'
  <2>1. script.left # <<>>
    BY <1>2 DEF RunCommand, CommandFails, At
  <2>2. CASE script' = Accepted(op, a) /\ Command(op, a)
    <3> DEFINE c == Continue
    <3>1. c \in ScriptRecords /\ c.tokens = script.tokens
      BY <2>1, ContinueType
    <3>2. CASE op \in {"claim", "reclaim"}
      <4>1. claims'[a].token \in Presented'
        BY <2>2, <3>2, ClaimHandsOut DEF Command, Presented
      <4>2. script' = [c EXCEPT !.tokens[a] = claims'[a].token]
        BY <2>2, <3>2 DEF Accepted
      <4> HIDE DEF c
      <4>3. script'.tokens = [script.tokens EXCEPT ![a] = claims'[a].token]
        BY <3>1, <4>2 DEF ScriptRecords
      <4> QED
        BY <1>1, <4>1, <4>3
    <3>3. CASE op \notin {"claim", "reclaim"}
      BY <2>2, <3>1, <3>3 DEF Accepted
    <3> QED
      BY <3>2, <3>3
  <2>3. CASE script' \in {Abort, [Abort EXCEPT !.harmed = TRUE]}
    <3> DEFINE c == Abort
    <3>1. c \in ScriptRecords /\ c.tokens = script.tokens
      BY AbortType
    <3>2. script' \in {c, [c EXCEPT !.harmed = TRUE]}
      BY <2>3
    <3> HIDE DEF c
    <3> QED
      BY <3>1, <3>2 DEF ScriptRecords
  <2> QED
    BY <1>2, <2>2, <2>3 DEF RunCommand, CommandFails
<1>3. ASSUME NEW a \in Attempts, NEW op,
             Check(op, a) \/ Signal(a) \/ AwaitExit(a) \/ Expire(a) \/ CleanUp(a)
      PROVE  script'.tokens[b] = script.tokens[b]
  <2>1. script' \in {script, Abort} \/ (script.left # <<>> /\ script' = Continue)
    BY <1>3 DEF Check, Signal, AwaitExit, Expire, CleanUp, At
  <2> QED
    BY <2>1, ContinueType, AbortType
<1>4. ASSUME NEW a \in Attempts, NEW op, Launch(a) \/ Request(op, a)
      PROVE  script'.tokens[b] = script.tokens[b]
  BY <1>1, <1>4 DEF Launch, Request, ScriptRecords
<1>5. ASSUME NEW a \in Attempts, Receive(a) \/ NoReply(a)
      PROVE  script'.tokens[b] = script.tokens[b]
  BY <1>1, <1>5 DEF Receive, NoReply, Continue, Abort, ScriptRecords
<1>6. CASE Pass \/ Crash \/ Delay
  BY <1>1, <1>6 DEF Pass, Crash, Delay, ScriptRecords
<1>7. CASE ControllerStep
  BY <1>2, <1>3, <1>4, <1>5, <1>6, <1>7 DEF ControllerStep
<1> QED
  BY <1>6, <1>7

\* Only the report of a success makes an attempt succeed.
Credited(a, s) ==
    \A b \in Attempts : attempts'[b].status = "succeeded" =>
        attempts[b].status = "succeeded" \/ (b = a /\ s = "succeeded")

LEMMA SettleCredits ==
    ASSUME attempts \in [Attempts -> AttemptRecords], NEW a \in Attempts, NEW s, NEW C,
           Settle(a, s, C)
    PROVE  Credited(a, s)
<1> DEFINE T == [attempts EXCEPT ![a].status = s]
<1> SUFFICES ASSUME NEW b \in Attempts, attempts'[b].status = "succeeded"
             PROVE  attempts[b].status = "succeeded" \/ (b = a /\ s = "succeeded")
  BY DEF Credited
<1>1. T[b].status = "succeeded" =>
          attempts[b].status = "succeeded" \/ (b = a /\ s = "succeeded")
  BY DEF AttemptRecords
<1>2. attempts' = CanceledAttempts(T, C) \/ attempts' = T
  BY DEF Settle
<1>3. T[b] \in [status : Statuses \cup {s}, host : Hosts \cup {NoHost},
                session : Sessions \cup {NoSession}, completion : BOOLEAN]
  BY DEF AttemptRecords
<1> HIDE DEF T
<1>4. CASE attempts' = CanceledAttempts(T, C)
  <2>1. attempts'[b] = T[b] \/ attempts'[b] = [T[b] EXCEPT !.status = "canceled"]
    BY <1>4 DEF CanceledAttempts
  <2> QED
    BY <1>1, <1>3, <2>1
<1> QED
  BY <1>1, <1>2, <1>4

LEMMA ReportCredits ==
    ASSUME attempts \in [Attempts -> AttemptRecords], NEW a \in Attempts, NEW s, NEW C,
           Report(a, s, C)
    PROVE  Credited(a, s)
<1>1. CASE Settle(a, s, C)
  BY <1>1, SettleCredits
<1>2. CASE attempts' = [attempts EXCEPT ![a].status = "paused", ![a].completion = TRUE]
  BY <1>2 DEF AttemptRecords, Credited
<1>3. CASE s \in {"running", "paused"} /\ attempts' = [attempts EXCEPT ![a].status = s]
  BY <1>3 DEF AttemptRecords, Credited
<1> QED
  BY <1>1, <1>2, <1>3 DEF Report

\* A worker's command credits its own attempt, with the command "succeed".
LEMMA WorkerCredits ==
    ASSUME IInv, NEW a \in Attempts, NEW op, WorkerCommand(a, op), NEW b \in Attempts,
           attempts'[b].status = "succeeded", attempts[b].status # "succeeded"
    PROVE  b = a /\ op = "succeed"
<1>1. attempts \in [Attempts -> AttemptRecords]
  BY DEF IInv, TypeOK, AttemptRecords
<1>2. ASSUME NEW s, NEW t, UpdateAttempt(a, s, t)
      PROVE  b = a /\ s = "succeeded"
  BY <1>1, <1>2, ReportCredits DEF UpdateAttempt, Credited
<1>3. ASSUME NEW s, NEW t, StartAttempt(a, s, t)
      PROVE  FALSE
  BY <1>1, <1>3 DEF StartAttempt, AttemptRecords
<1>4. ASSUME NEW t, NEW term, HeartbeatAttempt(a, t, term)
      PROVE  FALSE
  BY <1>4 DEF HeartbeatAttempt
<1> QED
  BY <1>2, <1>3, <1>4 DEF WorkerCommand

\* A command of the script credits the attempt it reconciles as finished.
LEMMA ScriptCredits ==
    ASSUME IInv, NEW a \in Attempts, NEW op, Command(op, a), NEW b \in Attempts,
           attempts'[b].status = "succeeded", attempts[b].status # "succeeded"
    PROVE  b = a /\ op = "finished"
<1>1. attempts \in [Attempts -> AttemptRecords]
  BY DEF IInv, TypeOK, AttemptRecords
<1>2. CASE DispatchRun(a)
  BY <1>1, <1>2 DEF DispatchRun, AttemptRecords
<1>3. ASSUME NEW h, NEW r, NEW term, ClaimAttempt(a, h, NoToken, r, term)
      PROVE  FALSE
  BY <1>1, <1>3 DEF ClaimAttempt, AttemptRecords
<1>4. ASSUME NEW h, NEW o, Observe(a, h, o, NoToken)
      PROVE  FALSE
  BY <1>4 DEF Observe
<1>5. CASE op = "finished" /\ ReconcileFinished(a, HostOf[a], "succeeded", NoToken)
  BY <1>1, <1>5, ReportCredits DEF ReconcileFinished, Credited
<1>6. CASE AbandonAttempt(a)
  BY <1>1, <1>6, SettleCredits DEF AbandonAttempt, Credited
<1>7. CASE CancelGoal
  <2>1. attempts'[b] = attempts[b] \/ attempts'[b] = [attempts[b] EXCEPT !.status = "canceled"]
    BY <1>7 DEF CancelGoal, CanceledAttempts
  <2> QED
    BY <1>1, <2>1 DEF AttemptRecords
<1>8. CASE attempts' = attempts
  BY <1>8
<1> QED
  BY <1>2, <1>3, <1>4, <1>5, <1>6, <1>7, <1>8 DEF Command

-----------------------------------------------------------------------------
(* The invariant holds in every step. *)

HostIInv == IInv /\ HInv /\ ResultOnDisk

LEMMA HostInitInv == HostInit => HostIInv
<1> SUFFICES ASSUME HostInit
             PROVE  HostIInv
  OBVIOUS
<1>1. IInv
  BY InvariantInit DEF HostInit
<1>2. PICK kind \in DOMAIN Scenario :
          script = [kind |-> kind, left |-> Scenario[kind], awaits |-> "none",
                    tokens |-> [a \in Attempts |-> NoToken], ended |-> "no", harmed |-> FALSE]
  BY DEF HostInit
<1>3. proc = [a \in Attempts |-> NoProcess] /\ files = {}
  BY DEF HostInit
<1>4. /\ Scenario[kind] \in Seq(Words \X Attempts) /\ Found(Scenario[kind])
      /\ kind # "canceled" => RetryWaits(Scenario[kind])
  BY ScenarioPlans
<1>5. NoToken \in Nat /\ NoToken \in Presented /\ "none" \in Answers /\ <<>> \in Seq(Words)
  BY DEF NoToken, Presented, Answers
<1>6. HostType
  BY <1>2, <1>3, <1>4, <1>5 DEF HostType, ProcRecords, ScriptRecords, NoProcess
<1>7. Held
  BY <1>2, <1>3, <1>5 DEF Held, NoProcess
<1>8. \A a \in Attempts : ~Working(a) /\ proc[a].reply = "none" /\ proc[a].todo = <<>> /\ proc[a].at = "none"
  BY <1>3 DEF Working, NoProcess
<1>9. Turn
  BY <1>2, <1>4, <1>8, RetryAssumption DEF Turn
<1>10. Asked /\ Found(script.left)
  BY <1>2, <1>4 DEF Asked
<1>11. \A a \in Attempts : Quiet(a) /\ Writes(a)
  BY <1>8 DEF Quiet, Writes
<1>12. ResultOnDisk
  BY DEF ResultOnDisk, HostInit, Init
<1> QED
  BY <1>1, <1>6, <1>7, <1>9, <1>10, <1>11, <1>12 DEF HostIInv, HInv

LEMMA HostInvStep ==
    ASSUME HostIInv, HostNext
    PROVE  HostIInv'
<1>1. /\ IInv /\ HostType /\ Held /\ Turn /\ Asked /\ Found(script.left) /\ ResultOnDisk
      /\ \A a \in Attempts : Quiet(a) /\ Writes(a)
  BY DEF HostIInv, HInv
<1>2. ClaimStep
  BY <1>1, HostNextClaimStep
<1>3. IInv' /\ handed \subseteq handed'
  BY <1>1, <1>2, ClaimStepInv, HandedGrows
<1>4. Presented \subseteq Presented'
  BY <1>3 DEF Presented
<1> DEFINE Rest == /\ HostType' /\ Turn' /\ Asked' /\ Found(script.left)'
                   /\ \A b \in Attempts : Quiet(b)' /\ Writes(b)'
<1>5. ASSUME NEW a \in Attempts, WorkerStep(a)
      PROVE  Rest /\ Held' /\ ResultOnDisk'
  <2>1. Rest
    BY <1>1, <1>5, WorkerKeeps
  <2>2. WorkerFrame(a)
    BY <1>1, <1>5, WorkerShape
  <2>3. Held'
    <3>1. script'.tokens = script.tokens
      BY <1>1, <2>2 DEF WorkerFrame, HostType, ScriptRecords
    <3> QED
      BY <1>1, <1>4, <2>2, <3>1 DEF WorkerFrame, Held
  <2>4. ResultOnDisk'
    <3> SUFFICES ASSUME NEW b \in Attempts, attempts'[b].status = "succeeded",
                        attempts[b].status # "succeeded"
                 PROVE  b \in files'
      BY <1>1, <2>2 DEF ResultOnDisk, WorkerFrame
    <3>1. CASE UNCHANGED attempts
      BY <3>1
    <3>2. CASE ~UNCHANGED attempts
      <4>1. Work(a) \/ WorkFails(a)
        BY <1>5, <3>2 DEF WorkerStep, Read, Answer, EndOfInput, Exit, Die, serverVars, vars
      <4>2. proc[a].todo # <<>> /\ WorkerCommand(a, Head(proc[a].todo))
        BY <3>2, <4>1 DEF Work, WorkFails, serverVars, vars
      <4>3. b = a /\ Head(proc[a].todo) = "succeed"
        BY <1>1, <4>2, WorkerCredits
      <4>4. proc[a].todo \in Seq(Words)
        BY <1>1 DEF HostType, ProcRecords
      <4>5. proc[a].todo[1] = "succeed" /\ 1 \in 1 .. Len(proc[a].todo)
        BY <4>2, <4>3, <4>4, TailOf
      <4>6. Writes(a)
        BY <1>1
      <4>7. a \in files
        BY <4>5, <4>6 DEF Writes
      <4> QED
        BY <2>2, <4>3, <4>7 DEF WorkerFrame
    <3> QED
      BY <3>1, <3>2
  <2> QED
    BY <2>1, <2>3, <2>4
<1>6. ASSUME ControllerStep \/ Delay \/ Crash
      PROVE  Rest /\ Held' /\ ResultOnDisk'
  <2>1. (Rest /\ ControllerFrame) \/ (Rest /\ \E a \in Attempts, op \in Requests : Launch(a) \/ Request(op, a))
    <3>1. ASSUME NEW a \in Attempts, NEW op, RunCommand(op, a) \/ CommandFails(op, a)
          PROVE  Rest /\ ControllerFrame
      BY <1>1, <1>3, <3>1, CommandShape, ControllerKeeps
    <3>2. ASSUME NEW a \in Attempts, NEW op,
                 Check(op, a) \/ Signal(a) \/ AwaitExit(a) \/ Expire(a) \/ CleanUp(a)
          PROVE  Rest /\ ControllerFrame
      BY <1>1, <3>2, WaitlessShape, ControllerKeeps
    <3>3. ASSUME NEW a \in Attempts, Receive(a) \/ NoReply(a)
          PROVE  Rest /\ ControllerFrame
      BY <1>1, <3>3, ReplyShape, ControllerKeeps
    <3>4. ASSUME Pass \/ Delay \/ Crash
          PROVE  Rest /\ ControllerFrame
      BY <1>1, <3>4, EndShape, ControllerKeeps
    <3>5. ASSUME NEW a \in Attempts, Launch(a)
          PROVE  Rest
      BY <1>1, <3>5, LaunchKeeps
    <3>6. ASSUME NEW a \in Attempts, NEW op, Request(op, a)
          PROVE  Rest
      BY <1>1, <3>6, RequestKeeps
    <3>7. "heartbeat" \in Requests
      BY DEF Requests, Replies
    <3> HIDE DEF Rest
    <3> QED
      BY <1>6, <3>1, <3>2, <3>3, <3>4, <3>5, <3>6, <3>7 DEF ControllerStep
  <2>2. Rest
    BY <2>1
  <2>3. ASSUME NEW b \in Attempts
        PROVE  /\ proc'[b].token \in {proc[b].token} \cup {script.tokens[b]}
               /\ script'.tokens[b] \in {script.tokens[b]} \cup Presented'
    <3>1. script'.tokens[b] \in {script.tokens[b]} \cup Presented'
      BY <1>1, <1>6, TokensKept
    <3>2. CASE ControllerFrame
      BY <3>1, <3>2 DEF ControllerFrame, Kept
    <3>3. CASE \E a \in Attempts, op \in Requests : Launch(a) \/ Request(op, a)
      <4>1. proc \in [Attempts -> ProcRecords]
        BY <1>1 DEF HostType
      <4>2. ASSUME NEW a \in Attempts, Launch(a)
            PROVE  proc'[b].token \in {proc[b].token} \cup {script.tokens[b]}
        BY <4>1, <4>2 DEF Launch, NoProcess
      <4>3. ASSUME NEW a \in Attempts, NEW op, Request(op, a)
            PROVE  proc'[b].token \in {proc[b].token} \cup {script.tokens[b]}
        BY <4>1, <4>3 DEF Request, ProcRecords
      <4> QED
        BY <3>1, <3>3, <4>2, <4>3
    <3> QED
      BY <2>1, <3>2, <3>3
  <2>4. Held'
    BY <1>1, <1>4, <2>3 DEF Held
  <2>5. files' = files
    BY <2>1 DEF ControllerFrame, Launch, Request
  <2>6. ResultOnDisk'
    <3> SUFFICES ASSUME NEW b \in Attempts, attempts'[b].status = "succeeded",
                        attempts[b].status # "succeeded"
                 PROVE  b \in files
      BY <1>1, <2>5 DEF ResultOnDisk
    <3>1. PICK a \in Attempts, op \in Commands : RunCommand(op, a) \/ CommandFails(op, a)
      BY <1>6 DEF ControllerStep, Check, Request, Launch, Receive, NoReply, Signal, AwaitExit, Expire,
                  CleanUp, Pass, Delay, Tick, Crash, serverVars, vars
    <3>2. /\ script.left # <<>> /\ Head(script.left) = <<op, a>> /\ Command(op, a)
      BY <3>1 DEF RunCommand, CommandFails, At, serverVars, vars
    <3>3. b = a /\ op = "finished"
      BY <1>1, <3>2, ScriptCredits
    <3>4. script.left \in Seq(Words \X Attempts)
      BY <1>1 DEF HostType, ScriptRecords
    <3>5. script.left[1] = <<"finished", a>> /\ 1 \in 1 .. Len(script.left)
      BY <3>2, <3>3, <3>4, TailOf
    <3> QED
      BY <1>1, <3>3, <3>5 DEF Found
  <2> QED
    BY <2>2, <2>4, <2>6
<1> HIDE DEF Rest
<1>7. Rest /\ Held' /\ ResultOnDisk'
  BY <1>5, <1>6 DEF HostNext
<1> QED
  BY <1>3, <1>7 DEF HostIInv, HInv, Rest

LEMMA HostInvStutter ==
    ASSUME HostIInv, UNCHANGED hostVars
    PROVE  HostIInv'
<1>1. IInv'
  BY ClaimStepInv DEF HostIInv, ClaimStep, hostVars
<1>2. UNCHANGED <<proc, files, script, attempts, handed>>
  BY DEF hostVars, vars
<1>3. HostType' /\ Held' /\ Found(script.left)' /\ ResultOnDisk'
  BY <1>2 DEF HostIInv, HInv, HostType, Held, Presented, Found, ResultOnDisk
<1>4. Turn' /\ Asked'
  BY <1>2, RetryAssumption DEF HostIInv, HInv, Turn, Asked, Working
<1>5. \A a \in Attempts : Quiet(a)' /\ Writes(a)'
  BY <1>2 DEF HostIInv, HInv, Quiet, Writes, Working
<1> QED
  BY <1>1, <1>3, <1>4, <1>5 DEF HostIInv, HInv

LEMMA HostInvariance == HostSpec => []HostIInv
<1>1. HostIInv /\ [HostNext]_hostVars => HostIInv'
  BY HostInvStep, HostInvStutter
<1> QED
  BY <1>1, HostInitInv, PTL DEF HostSpec
-----------------------------------------------------------------------------
(* Theorems. *)

\* Whatever is slow, dies, fails or lapses, the worker of a retry runs only when
\* the worker it replaces can no longer run a command or write a file.
THEOREM WorkersTakeTurns == HostSpec => []SingleWorker
<1>1. HostIInv => SingleWorker
  BY DEF HostIInv, HInv, Turn, SingleWorker
<1> QED
  BY <1>1, HostInvariance, PTL

\* An attempt that is recorded as succeeded has its result on disk, whether its
\* worker reported it or the script found the result of a worker that had gone.
THEOREM ResultsAreOnDisk == HostSpec => []ResultOnDisk
<1>1. HostIInv => ResultOnDisk
  BY DEF HostIInv
<1> QED
  BY <1>1, HostInvariance, PTL

\* The claim protocol keeps its types and its exclusive sessions, and a
\* cancellation reaches every attempt, under the host's revocations and sleeps.
THEOREM HostKeepsClaims == HostSpec => [](TypeOK /\ SessionExclusive /\ CancellationReaches)
<1>1. HostIInv => TypeOK /\ SessionExclusive /\ CancellationReaches
  BY DEF HostIInv, IInv, Sound, Stopping, CancellationReaches
<1> QED
  BY <1>1, HostInvariance, PTL

\* No worker of the host can revive a lease that lapsed: it is live again only
\* under a token the script drew after an inspection.
THEOREM HostTokensStayDead == HostSpec => LapsedTokenStaysDead
<1>1. ASSUME HostIInv, HostNext, NEW a \in Attempts, Owned(a), Expired(a), claims'[a].lease > now'
      PROVE  claims'[a].token > lastToken
  <2>1. ClaimStep
    BY <1>1, HostNextClaimStep DEF HostIInv, HInv
  <2>2. CASE Next
    BY <1>1, <2>2, StepFenced DEF Fenced, HostIInv
  <2>3. CASE UNCHANGED vars \/ Revoked \/ Slept
    <3>1. now \in Nat /\ claims[a].lease \in Nat
      BY <1>1 DEF HostIInv, IInv, TypeOK
    <3>2. claims' = claims /\ now' >= now /\ now' \in Nat
      <4>1. CASE UNCHANGED <<now, claims>>
        BY <3>1, <4>1
      <4>2. CASE Slept
        BY <4>2 DEF Slept
      <4> QED
        BY <2>3, <4>1, <4>2 DEF Revoked, vars
    <3> QED
      BY <1>1, <3>1, <3>2 DEF Expired
  <2> QED
    BY <2>1, <2>2, <2>3 DEF ClaimStep
<1>2. HostIInv /\ [HostNext]_hostVars
        => [\A a \in Attempts :
              Owned(a) /\ Expired(a) /\ claims'[a].lease > now' => claims'[a].token > lastToken]_vars
  BY <1>1 DEF hostVars
<1> QED
  BY <1>2, HostInvariance, PTL DEF HostSpec, LapsedTokenStaysDead

\* The host, its workers and its script together implement exclusive execution:
\* an attempt is assigned to one host and run in one session, and its end is
\* final.
THEOREM HostImplementsExclusive == HostSpec => ImplementsExclusive
<1>1. HostInit => Exclusive!Init
  BY DEF HostInit, Init, InitClaim, Slot, Terminal, Exclusive!Init
<1>2. ASSUME HostIInv, HostNext
      PROVE  Exclusive!Next \/ Slot' = Slot
  <2>1. ClaimStep
    BY <1>2, HostNextClaimStep DEF HostIInv, HInv
  <2>2. CASE Next
    BY <1>2, <2>2, StepImplements DEF HostIInv
  <2>3. CASE UNCHANGED vars \/ Revoked \/ Slept
    BY <2>3 DEF Revoked, Slept, vars, Slot
  <2> QED
    BY <2>1, <2>2, <2>3 DEF ClaimStep
<1>3. HostIInv /\ [HostNext]_hostVars => [Exclusive!Next]_Slot
  <2>1. UNCHANGED hostVars => Slot' = Slot
    BY DEF hostVars, vars, Slot
  <2> QED
    BY <1>2, <2>1
<1> QED
  BY <1>1, <1>3, HostInvariance, PTL DEF HostSpec, ImplementsExclusive, Exclusive!Spec
=============================================================================

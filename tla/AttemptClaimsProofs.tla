------------------------ MODULE AttemptClaimsProofs ------------------------
(***************************************************************************)
(* Theorems about AttemptClaims for any number of attempts, hosts and      *)
(* sessions, any lease lengths and an unbounded run of the clock.  The     *)
(* inductive invariant IInv adds to the properties it implies what is true *)
(* of one attempt at a time: undispatched work is untouched, a live        *)
(* attempt is never owned by the operator, and a live session has an owner *)
(* who is the attempt's host.                                              *)
(***************************************************************************)
EXTENDS AttemptClaims, TLAPS

AttemptRecords == [status : Statuses, host : Hosts \cup {NoHost},
                   session : Sessions \cup {NoSession}, completion : BOOLEAN]

ClaimRecords == [owner : Hosts \cup {NoHost, Operator}, token : Nat, lease : Nat,
                 cancelRequested : BOOLEAN,
                 outcome : {"none", "active", "finished", "missing", "unknown"},
                 observed : Nat,
                 recovered : {"none", "succeeded", "failed", "canceled"}]

Untouched(a) ==
    attempts[a].status = "none" =>
        /\ claims[a].owner = NoHost /\ ~claims[a].cancelRequested
        /\ attempts[a].session = NoSession

OwnedByHost(a) ==
    Live(a) => /\ claims[a].owner # Operator
               /\ attempts[a].session # NoSession =>
                      claims[a].owner \in Hosts /\ claims[a].owner = attempts[a].host

Stopping(a) ==
    /\ canceling /\ Live(a) => claims[a].cancelRequested
    /\ claims[a].cancelRequested /\ ~Live(a) => attempts[a].status = "canceled"

\* Only a claimed attempt has a token, and tokens are counted.
Drawn(a) ==
    /\ claims[a].token <= lastToken
    /\ Owned(a) => claims[a].token >= 1

Sound(a) == Untouched(a) /\ OwnedByHost(a) /\ Stopping(a) /\ Drawn(a)

IInv ==
    /\ TypeOK
    /\ \A a \in Attempts : Sound(a)
    /\ SessionExclusive

\* Everything but the attempt a is as it was.
Elsewhere(a) ==
    \A b \in Attempts \ {a} : attempts'[b] = attempts[b] /\ claims'[b] = claims[b]

\* The parts of the state that belong to no attempt keep their types.
RestType ==
    RegistryType /\ now \in Nat /\ canceling \in BOOLEAN /\ lastToken \in Nat
      /\ handed \subseteq 1 .. lastToken

-----------------------------------------------------------------------------
(* Steps that touch one attempt. *)

\* A step confined to one attempt, which leaves it well typed and sound, and
\* records no session another live attempt of that host has, keeps IInv.
LEMMA LocalStep ==
    ASSUME IInv, NEW a \in Attempts, Elsewhere(a), RestType', canceling' = canceling, lastToken' >= lastToken,
           attempts' \in [Attempts -> AttemptRecords], claims' \in [Attempts -> ClaimRecords],
           Sound(a)',
           \A b \in Attempts \ {a} :
               Live(a)' /\ Live(b) /\ attempts'[a].session # NoSession
                 /\ attempts[b].session = attempts'[a].session
               => attempts[b].host # attempts'[a].host
    PROVE  IInv'
<1>1. TypeOK'
  BY DEF TypeOK, RestType, AttemptRecords, ClaimRecords
<1>2. ASSUME NEW b \in Attempts
      PROVE  Sound(b)'
  BY <1>2 DEF IInv, TypeOK, RestType, Elsewhere, Sound, Untouched, OwnedByHost, Stopping, Drawn, Owned, Live
<1>3. SessionExclusive'
  BY DEF IInv, Elsewhere, SessionExclusive, Live
<1> QED
  BY <1>1, <1>2, <1>3 DEF IInv

LEMMA DispatchInv ==
    ASSUME IInv, NEW a \in Attempts, DispatchRun(a)
    PROVE  IInv'
<1>1. /\ Elsewhere(a) /\ claims' = claims /\ canceling' = canceling
      /\ attempts'[a] = [attempts[a] EXCEPT !.status = "queued"]
      /\ attempts' \in [Attempts -> AttemptRecords] /\ claims' \in [Attempts -> ClaimRecords]
  BY DEF IInv, TypeOK, DispatchRun, Elsewhere, AttemptRecords, ClaimRecords, Statuses
<1>2. RestType'
  BY DEF IInv, TypeOK, DispatchRun, RestType, RegistryType
<1>3. attempts'[a].session = NoSession /\ claims'[a].owner = NoHost
  BY <1>1 DEF IInv, TypeOK, DispatchRun, Sound, Untouched
<1>4. Sound(a)' /\ lastToken' >= lastToken
  BY <1>1, <1>3, OwnersAssumption
     DEF IInv, TypeOK, DispatchRun, Sound, Untouched, OwnedByHost, Stopping, Drawn, Owned, Live
<1> QED
  BY <1>1, <1>2, <1>3, <1>4, LocalStep

LEMMA ClaimInv ==
    ASSUME IInv, NEW a \in Attempts, NEW h \in Hosts, NEW t, NEW reclaim, NEW term \in LeaseTerms,
           ClaimAttempt(a, h, t, reclaim, term)
    PROVE  IInv'
<1> DEFINE token == IF KeepsToken(a) THEN claims[a].token ELSE lastToken + 1
           host == IF attempts[a].session = NoSession THEN h ELSE attempts[a].host
<1>1. token \in Nat /\ token >= 1 /\ now + term \in Nat
  BY TermsAssumption DEF IInv, TypeOK, Sound, Drawn, KeepsToken
<1>2. host \in Hosts \cup {NoHost}
  BY DEF IInv, TypeOK
<1>3. /\ claims' = [claims EXCEPT ![a].owner = h, ![a].token = token, ![a].lease = now + term,
                                  ![a].outcome = "none", ![a].observed = 0]
      /\ attempts' = [attempts EXCEPT ![a].host = host]
  BY DEF ClaimAttempt
<1>4. RestType' /\ canceling' = canceling /\ lastToken' >= lastToken /\ token <= lastToken'
  <2>1. canceling' = canceling /\ now' = now /\ registry' = registry
    BY DEF ClaimAttempt
  <2>2. lastToken' \in Nat /\ lastToken' >= lastToken /\ token <= lastToken'
    BY DEF IInv, TypeOK, ClaimAttempt, Sound, Drawn
  <2>3. handed' \subseteq 1 .. lastToken'
    BY <1>1, <2>2 DEF IInv, TypeOK, ClaimAttempt
  <2> QED
    BY <2>1, <2>2, <2>3 DEF IInv, TypeOK, RestType, RegistryType
<1> HIDE DEF token, host
<1>5. /\ Elsewhere(a)
      /\ claims'[a].owner = h /\ claims'[a].token = token
      /\ claims'[a].cancelRequested = claims[a].cancelRequested
      /\ attempts'[a].status = attempts[a].status
      /\ attempts'[a].session = attempts[a].session
      /\ attempts'[a].host = host
  BY <1>3 DEF IInv, TypeOK, Elsewhere
<1>6. attempts' \in [Attempts -> AttemptRecords] /\ claims' \in [Attempts -> ClaimRecords]
  <2>1. claims \in [Attempts -> ClaimRecords] /\ attempts \in [Attempts -> AttemptRecords]
    BY DEF IInv, TypeOK, AttemptRecords, ClaimRecords
  <2>2. attempts' \in [Attempts -> AttemptRecords]
    BY <1>2, <1>3, <2>1 DEF AttemptRecords
  <2>3. claims' \in [Attempts -> ClaimRecords]
    <3> DEFINE c == [claims[a] EXCEPT !.owner = h, !.token = token, !.lease = now + term,
                                      !.outcome = "none", !.observed = 0]
    <3>1. claims[a] \in ClaimRecords
      BY <2>1
    <3>2. c \in ClaimRecords
      BY <1>1, <3>1 DEF ClaimRecords
    <3>3. claims' = [claims EXCEPT ![a] = c]
      BY <1>3, <2>1
    <3> QED
      BY <2>1, <3>2, <3>3
  <2> QED
    BY <2>2, <2>3
<1>7. Live(a) /\ (attempts[a].session = NoSession => host = h)
      /\ (attempts[a].session # NoSession => claims[a].owner = h /\ host = attempts[a].host)
  BY DEF ClaimAttempt, host
<1>8. Sound(a)'
  BY <1>1, <1>4, <1>5, <1>7, OwnersAssumption
     DEF IInv, Sound, Untouched, OwnedByHost, Stopping, Drawn, Live
<1>9. ASSUME NEW b \in Attempts \ {a}, Live(b), attempts'[a].session # NoSession,
             attempts[b].session = attempts'[a].session
      PROVE  attempts[b].host # attempts'[a].host
  BY <1>5, <1>7, <1>9 DEF IInv, SessionExclusive
<1> QED
  BY <1>4, <1>5, <1>6, <1>8, <1>9, LocalStep

LEMMA StartInv ==
    ASSUME IInv, NEW a \in Attempts, NEW s \in Sessions, NEW t, StartAttempt(a, s, t)
    PROVE  IInv'
<1>1. claims[a].owner \in Hosts /\ Live(a) /\ claims[a].owner # NoHost
  BY DEF IInv, TypeOK, StartAttempt, VerifiedOwner, Owned, Sound, OwnedByHost
<1>2. /\ Elsewhere(a) /\ canceling' = canceling /\ claims' = claims /\ lastToken' = lastToken
      /\ attempts'[a].status = "running" /\ attempts'[a].session = s
      /\ attempts'[a].host = claims[a].owner
  BY DEF IInv, TypeOK, StartAttempt, Elsewhere
<1>3. attempts' \in [Attempts -> AttemptRecords] /\ claims' \in [Attempts -> ClaimRecords]
  <2>1. claims \in [Attempts -> ClaimRecords] /\ attempts \in [Attempts -> AttemptRecords]
    BY DEF IInv, TypeOK, AttemptRecords, ClaimRecords
  <2>2. attempts' \in [Attempts -> AttemptRecords]
    <3> DEFINE r == [attempts[a] EXCEPT !.status = "running", !.session = s,
                                        !.host = claims[a].owner]
    <3>1. r \in AttemptRecords
      BY <1>1, <2>1 DEF AttemptRecords, Statuses
    <3>2. attempts' = [attempts EXCEPT ![a] = r]
      BY <2>1 DEF StartAttempt
    <3> QED
      BY <2>1, <3>1, <3>2
  <2> QED
    BY <1>2, <2>1, <2>2
<1>4. RestType' /\ lastToken' >= lastToken
  BY DEF IInv, TypeOK, StartAttempt, RestType, RegistryType
<1>5. Sound(a)'
  BY <1>1, <1>2 DEF IInv, Sound, Untouched, OwnedByHost, Stopping, Drawn, Owned, Live
<1>6. ASSUME NEW b \in Attempts \ {a}, Live(b), attempts[b].session = attempts'[a].session
      PROVE  attempts[b].host # attempts'[a].host
  BY <1>2, <1>6 DEF StartAttempt, SessionFree
<1> QED
  BY <1>2, <1>3, <1>4, <1>5, <1>6, LocalStep

\* A step that changes only what a live claim was observed to be or its lease.
LEMMA ObservedStep ==
    ASSUME IInv, NEW a \in Attempts, Elsewhere(a), claims' \in [Attempts -> ClaimRecords],
           UNCHANGED <<registry, now, attempts, canceling, lastToken, handed>>,
           claims'[a].owner = claims[a].owner, claims'[a].token = claims[a].token,
           claims'[a].cancelRequested = claims[a].cancelRequested
    PROVE  IInv'
<1>1. RestType' /\ lastToken' >= lastToken
  BY DEF IInv, TypeOK, RestType, RegistryType
<1>2. attempts' \in [Attempts -> AttemptRecords]
  BY DEF IInv, TypeOK, AttemptRecords
<1>3. Sound(a)'
  BY DEF IInv, Sound, Untouched, OwnedByHost, Stopping, Drawn, Owned, Live
<1>4. ASSUME NEW b \in Attempts \ {a}, Live(a)', Live(b), attempts'[a].session # NoSession,
             attempts[b].session = attempts'[a].session
      PROVE  attempts[b].host # attempts'[a].host
  BY <1>4 DEF IInv, SessionExclusive, Live
<1> QED
  BY <1>1, <1>2, <1>3, <1>4, LocalStep

LEMMA HeartbeatInv ==
    ASSUME IInv, NEW a \in Attempts, NEW t, NEW term \in LeaseTerms, HeartbeatAttempt(a, t, term)
    PROVE  IInv'
<1>1. claims \in [Attempts -> ClaimRecords] /\ now + term \in Nat
  BY TermsAssumption DEF IInv, TypeOK, ClaimRecords
<1>2. claims' \in [Attempts -> ClaimRecords]
  BY <1>1 DEF HeartbeatAttempt, ClaimRecords
<1>3. /\ Elsewhere(a)
      /\ claims'[a].owner = claims[a].owner /\ claims'[a].token = claims[a].token
      /\ claims'[a].cancelRequested = claims[a].cancelRequested
  BY <1>1 DEF HeartbeatAttempt, Elsewhere
<1> QED
  BY <1>2, <1>3, ObservedStep DEF HeartbeatAttempt

LEMMA ObserveInv ==
    ASSUME IInv, NEW a \in Attempts, NEW h, NEW outcome \in {"active", "missing", "unknown"},
           NEW t, Observe(a, h, outcome, t)
    PROVE  IInv'
<1>1. claims \in [Attempts -> ClaimRecords] /\ now \in Nat
  BY DEF IInv, TypeOK, ClaimRecords
<1>2. claims' \in [Attempts -> ClaimRecords]
  BY <1>1 DEF Observe, ClaimRecords
<1>3. /\ Elsewhere(a)
      /\ claims'[a].owner = claims[a].owner /\ claims'[a].token = claims[a].token
      /\ claims'[a].cancelRequested = claims[a].cancelRequested
  BY <1>1 DEF Observe, Elsewhere
<1> QED
  BY <1>2, <1>3, ObservedStep DEF Observe

-----------------------------------------------------------------------------
(* Steps that end attempts. *)

EndedHere(b) ==
    /\ Live(b) /\ attempts'[b].status = "canceled"
    /\ claims'[b].token <= lastToken'
    /\ claims'[b].owner # NoHost => claims'[b].token >= 1

AskedHere(b) ==
    /\ Live(b) /\ attempts'[b] = attempts[b]
    /\ claims'[b] = [claims[b] EXCEPT !.cancelRequested = TRUE]

\* When a goal is canceled every live attempt ends or is asked to stop.
LEMMA CancelStep ==
    ASSUME IInv, RestType', canceling' = TRUE, lastToken' >= lastToken,
           attempts' \in [Attempts -> AttemptRecords], claims' \in [Attempts -> ClaimRecords],
           \A b \in Attempts : 
               \/ EndedHere(b)
               \/ AskedHere(b)
               \/ ~Live(b) /\ attempts'[b] = attempts[b] /\ claims'[b] = claims[b]
    PROVE  IInv'
<1>1. TypeOK'
  BY DEF TypeOK, RestType, AttemptRecords, ClaimRecords
<1>2. ASSUME NEW b \in Attempts
      PROVE  Sound(b)'
  <2>1. Sound(b) /\ attempts[b] \in AttemptRecords /\ claims[b] \in ClaimRecords
           /\ claims'[b] \in ClaimRecords
    BY DEF IInv, TypeOK, AttemptRecords, ClaimRecords
  <2>2. lastToken \in Nat /\ lastToken' \in Nat
    BY DEF IInv, TypeOK, RestType
  <2>3. CASE EndedHere(b)
    BY <2>1, <2>2, <2>3 DEF EndedHere, ClaimRecords,
           Sound, Untouched, OwnedByHost, Stopping, Drawn, Owned, Live
  <2>4. CASE AskedHere(b)
    BY <2>1, <2>2, <2>4 DEF AskedHere, ClaimRecords, AttemptRecords,
           Sound, Untouched, OwnedByHost, Stopping, Drawn, Owned, Live
  <2>5. CASE ~Live(b) /\ attempts'[b] = attempts[b] /\ claims'[b] = claims[b]
    BY <2>1, <2>2, <2>5 DEF ClaimRecords,
           Sound, Untouched, OwnedByHost, Stopping, Drawn, Owned, Live
  <2> QED
    BY <2>3, <2>4, <2>5
<1>3. SessionExclusive'
  <2>1. \A b \in Attempts : Live(b)' => Live(b) /\ attempts'[b] = attempts[b]
    BY DEF EndedHere, AskedHere, Live
  <2> QED
    BY <2>1 DEF IInv, SessionExclusive
<1> QED
  BY <1>1, <1>2, <1>3 DEF IInv

\* cancelGoal ends what nobody owns or runs and asks the rest to stop.
LEMMA CancelsOthers ==
    ASSUME IInv, NEW T \in [Attempts -> AttemptRecords], NEW C \in [Attempts -> ClaimRecords],
           attempts' = CanceledAttempts(T, C), claims' = CanceledClaims(T, C)
    PROVE  /\ attempts' \in [Attempts -> AttemptRecords]
           /\ claims' \in [Attempts -> ClaimRecords]
           /\ \A b \in Attempts : Terminal(T[b].status) => attempts'[b] = T[b] /\ claims'[b] = C[b]
           /\ lastToken' \in Nat /\ lastToken' >= lastToken =>
              \A b \in Attempts : 
                 T[b] = attempts[b] /\ C[b] = claims[b] =>
                    \/ EndedHere(b)
                    \/ AskedHere(b)
                    \/ ~Live(b) /\ attempts'[b] = attempts[b] /\ claims'[b] = claims[b]
<1>1. ASSUME NEW b \in Attempts
      PROVE  attempts'[b] \in AttemptRecords /\ claims'[b] \in ClaimRecords
  <2>1. T[b] \in AttemptRecords /\ C[b] \in ClaimRecords
    OBVIOUS
  <2>2. attempts'[b] = T[b] \/ attempts'[b] = [T[b] EXCEPT !.status = "canceled"]
    BY DEF CanceledAttempts
  <2>3. claims'[b] = C[b] \/ claims'[b] = [C[b] EXCEPT !.cancelRequested = TRUE]
    BY DEF CanceledClaims
  <2> QED
    BY <2>1, <2>2, <2>3 DEF AttemptRecords, ClaimRecords, Statuses
<1>2. attempts' \in [Attempts -> AttemptRecords] /\ claims' \in [Attempts -> ClaimRecords]
  BY <1>1 DEF CanceledAttempts, CanceledClaims
<1>3. ASSUME NEW b \in Attempts, Terminal(T[b].status)
      PROVE  attempts'[b] = T[b] /\ claims'[b] = C[b]
  BY <1>3 DEF CanceledAttempts, CanceledClaims, Terminal
<1>4. ASSUME lastToken' \in Nat, lastToken' >= lastToken, NEW b \in Attempts, T[b] = attempts[b], C[b] = claims[b]
      PROVE  \/ EndedHere(b)
             \/ AskedHere(b)
             \/ ~Live(b) /\ attempts'[b] = attempts[b] /\ claims'[b] = claims[b]
  <2>1. CASE ~Live(b)
    BY <1>4, <2>1 DEF CanceledAttempts, CanceledClaims, Live
  <2>2. CASE Live(b) /\ AsksToStop(T, C, b)
    BY <1>4, <2>2 DEF CanceledAttempts, CanceledClaims, Live, AskedHere
  <2>3. CASE Live(b) /\ ~AsksToStop(T, C, b)
    <3>1. attempts'[b] = [attempts[b] EXCEPT !.status = "canceled"] /\ claims'[b] = claims[b]
      BY <1>4, <2>3 DEF CanceledAttempts, CanceledClaims, Live
    <3>2. claims[b].owner = NoHost
      BY <1>4, <2>3 DEF AsksToStop
    <3>3. claims[b].token <= lastToken /\ claims[b].token \in Nat /\ lastToken \in Nat
      BY DEF IInv, TypeOK, Sound, Drawn
    <3>4. attempts[b] \in AttemptRecords
      BY <1>4
    <3>5. attempts'[b].status = "canceled"
      BY <3>1, <3>4 DEF AttemptRecords
    <3> QED
      BY <1>4, <2>3, <3>1, <3>2, <3>3, <3>5 DEF EndedHere
  <2> QED
    BY <2>1, <2>2, <2>3
<1> QED
  BY <1>2, <1>3, <1>4

LEMMA CancelGoalInv ==
    ASSUME IInv, CancelGoal
    PROVE  IInv'
<1>1. attempts \in [Attempts -> AttemptRecords] /\ claims \in [Attempts -> ClaimRecords]
  BY DEF IInv, TypeOK, AttemptRecords, ClaimRecords
<1>2. RestType' /\ lastToken' \in Nat /\ lastToken' >= lastToken
  BY DEF IInv, TypeOK, CancelGoal, RestType, RegistryType
<1>3. /\ attempts' = CanceledAttempts(attempts, claims)
      /\ claims' = CanceledClaims(attempts, claims) /\ canceling' = TRUE
  BY DEF CancelGoal
<1> QED
  BY <1>1, <1>2, <1>3, CancelsOthers, CancelStep

\* An attempt ends with status s under the claims C, alone or with its goal.
LEMMA SettleInv ==
    ASSUME IInv, NEW a \in Attempts, Live(a), NEW s, Terminal(s),
           NEW C \in [Attempts -> ClaimRecords],
           \A b \in Attempts \ {a} : C[b] = claims[b],
           C[a].cancelRequested = claims[a].cancelRequested,
           claims[a].cancelRequested => s = "canceled",
           C[a].owner # NoHost => C[a].token >= 1, C[a].token <= lastToken',
           Settle(a, s, C),
           UNCHANGED <<registry, now, handed>>, lastToken' \in Nat, lastToken' >= lastToken
    PROVE  IInv'
<1> DEFINE T == [attempts EXCEPT ![a].status = s]
<1>1. attempts \in [Attempts -> AttemptRecords] /\ claims \in [Attempts -> ClaimRecords]
  BY DEF IInv, TypeOK, AttemptRecords, ClaimRecords
<1>2. /\ T \in [Attempts -> AttemptRecords]
      /\ T[a].status = s
      /\ \A b \in Attempts \ {a} : T[b] = attempts[b]
  BY <1>1 DEF AttemptRecords, Statuses, Terminal
<1>3. canceling' \in BOOLEAN => RestType'
  BY DEF IInv, TypeOK, RestType, RegistryType
<1>4. CASE s = "canceled" /\ ~canceling
  <2>1. /\ attempts' = CanceledAttempts(T, C) /\ claims' = CanceledClaims(T, C)
        /\ canceling' = TRUE
    BY <1>4 DEF Settle
  <2> HIDE DEF T
  <2>2. EndedHere(a)
    BY <1>2, <1>4, <2>1, CancelsOthers DEF EndedHere
  <2>3. \A b \in Attempts \ {a} :
           \/ EndedHere(b)
           \/ AskedHere(b)
           \/ ~Live(b) /\ attempts'[b] = attempts[b] /\ claims'[b] = claims[b]
    BY <1>2, <2>1, CancelsOthers
  <2> QED
    BY <1>2, <1>3, <2>1, <2>2, <2>3, CancelsOthers, CancelStep
<1>5. CASE ~(s = "canceled" /\ ~canceling)
  <2>1. attempts' = T /\ claims' = C /\ canceling' = canceling
    BY <1>5 DEF Settle
  <2> HIDE DEF T
  <2>2. Elsewhere(a) /\ ~Live(a)' /\ attempts'[a].status = s
    BY <1>2, <2>1 DEF Elsewhere, Live, Terminal
  <2>3. Sound(a)'
    BY <2>1, <2>2 DEF Sound, Untouched, OwnedByHost, Stopping, Drawn, Owned, Terminal, Live
  <2>4. RestType'
    BY <1>3, <2>1 DEF IInv, TypeOK
  <2> QED
    BY <1>2, <2>1, <2>2, <2>3, <2>4, LocalStep
<1> QED
  BY <1>4, <1>5

\* What an attempt's own state allows to be reported of it.
LEMMA ReportInv ==
    ASSUME IInv, NEW a \in Attempts, NEW s, NEW C \in [Attempts -> ClaimRecords],
           \A b \in Attempts \ {a} : C[b] = claims[b],
           C[a].cancelRequested = claims[a].cancelRequested, C[a].owner = claims[a].owner,
           C[a].owner # NoHost => C[a].token >= 1, C[a].token <= lastToken',
           Report(a, s, C),
           UNCHANGED <<registry, now, handed>>, lastToken' \in Nat, lastToken' >= lastToken
    PROVE  IInv'
<1>1. Live(a) /\ (claims[a].cancelRequested => s = "canceled")
  BY DEF Report, MayReport
<1>2. CASE Terminal(s) /\ Settle(a, s, C)
  BY <1>1, <1>2, SettleInv
<1>3. CASE \E r \in {"running", "paused"} :
              /\ attempts' = [attempts EXCEPT ![a].status = r]
              /\ claims' = C /\ canceling' = canceling /\ s # "canceled"
  <2>1. PICK r \in {"running", "paused"} :
              /\ attempts' = [attempts EXCEPT ![a].status = r]
              /\ claims' = C /\ canceling' = canceling /\ s # "canceled"
    BY <1>3
  <2>2. attempts \in [Attempts -> AttemptRecords]
    BY DEF IInv, TypeOK, AttemptRecords
  <2>3. /\ attempts' \in [Attempts -> AttemptRecords] /\ Elsewhere(a)
        /\ attempts'[a].status = r /\ attempts'[a].host = attempts[a].host
        /\ attempts'[a].session = attempts[a].session
    BY <2>1, <2>2 DEF AttemptRecords, Statuses, Elsewhere
  <2>4. Sound(a)'
    BY <1>1, <2>1, <2>3 DEF IInv, Sound, Untouched, OwnedByHost, Stopping, Drawn, Owned, Live
  <2>5. RestType'
    BY <2>1 DEF IInv, TypeOK, RestType, RegistryType
  <2>6. \A b \in Attempts \ {a} :
          Live(b) /\ attempts'[a].session # NoSession /\ attempts[b].session = attempts'[a].session
          => attempts[b].host # attempts'[a].host
    BY <1>1, <2>3 DEF IInv, SessionExclusive
  <2> QED
    BY <2>1, <2>3, <2>4, <2>5, <2>6, LocalStep
<1>4. CASE /\ s = "succeeded"
           /\ attempts' = [attempts EXCEPT ![a].status = "paused", ![a].completion = TRUE]
           /\ claims' = C /\ canceling' = canceling
  <2>2. attempts \in [Attempts -> AttemptRecords]
    BY DEF IInv, TypeOK, AttemptRecords
  <2>3. /\ attempts' \in [Attempts -> AttemptRecords] /\ Elsewhere(a)
        /\ attempts'[a].status = "paused" /\ attempts'[a].host = attempts[a].host
        /\ attempts'[a].session = attempts[a].session
    BY <1>4, <2>2 DEF AttemptRecords, Statuses, Elsewhere
  <2>4. Sound(a)'
    BY <1>1, <1>4, <2>3 DEF IInv, Sound, Untouched, OwnedByHost, Stopping, Drawn, Owned, Live
  <2>5. RestType'
    BY <1>4 DEF IInv, TypeOK, RestType, RegistryType
  <2>6. \A b \in Attempts \ {a} :
          Live(b) /\ attempts'[a].session # NoSession /\ attempts[b].session = attempts'[a].session
          => attempts[b].host # attempts'[a].host
    BY <1>1, <2>3 DEF IInv, SessionExclusive
  <2> QED
    BY <1>4, <2>3, <2>4, <2>5, <2>6, LocalStep
<1> QED
  BY <1>2, <1>3, <1>4 DEF Report

LEMMA UpdateInv ==
    ASSUME IInv, NEW a \in Attempts, NEW s, NEW t, UpdateAttempt(a, s, t)
    PROVE  IInv'
<1>1. claims \in [Attempts -> ClaimRecords] /\ lastToken \in Nat
  BY DEF IInv, TypeOK, ClaimRecords
<1>2. claims[a].token <= lastToken /\ (claims[a].owner # NoHost => claims[a].token >= 1)
  BY DEF IInv, Sound, Drawn, Owned
<1>3. lastToken' = lastToken /\ Report(a, s, claims) /\ UNCHANGED <<registry, now, handed>>
  BY DEF UpdateAttempt
<1>4. lastToken' \in Nat /\ lastToken' >= lastToken /\ claims[a].token <= lastToken'
  BY <1>1, <1>2, <1>3
<1> QED
  BY <1>1, <1>2, <1>3, <1>4, ReportInv

LEMMA SettleGateInv ==
    ASSUME IInv, NEW a \in Attempts, NEW s, SettleGate(a, s)
    PROVE  IInv'
<1>1. claims \in [Attempts -> ClaimRecords] /\ lastToken \in Nat
  BY DEF IInv, TypeOK, ClaimRecords
<1>2. claims[a].token <= lastToken /\ (claims[a].owner # NoHost => claims[a].token >= 1)
  BY DEF IInv, Sound, Drawn, Owned
<1>3. /\ lastToken' = lastToken /\ Settle(a, s, claims) /\ Live(a) /\ Terminal(s)
      /\ (claims[a].cancelRequested => s = "canceled") /\ UNCHANGED <<registry, now, handed>>
  BY DEF SettleGate, MayReport, Terminal
<1>4. lastToken' \in Nat /\ lastToken' >= lastToken /\ claims[a].token <= lastToken'
  BY <1>1, <1>2, <1>3
<1> QED
  BY <1>1, <1>2, <1>3, <1>4, SettleInv

LEMMA AbandonInv ==
    ASSUME IInv, NEW a \in Attempts, AbandonAttempt(a)
    PROVE  IInv'
<1> DEFINE c == [claims[a] EXCEPT !.owner = Operator, !.token = lastToken + 1,
                            !.lease = now + RecoveryTerm,
                            !.outcome = "missing", !.observed = now]
           C == [claims EXCEPT ![a] = c]
           s == IF claims[a].cancelRequested THEN "canceled" ELSE "failed"
<1>1. claims \in [Attempts -> ClaimRecords] /\ lastToken \in Nat /\ now \in Nat
  BY DEF IInv, TypeOK, ClaimRecords
<1>2. c \in ClaimRecords /\ c.token = lastToken + 1 /\ c.cancelRequested = claims[a].cancelRequested
  <2>1. claims[a] \in ClaimRecords /\ lastToken + 1 \in Nat /\ now + RecoveryTerm \in Nat
    BY <1>1, TermsAssumption
  <2>2. c \in ClaimRecords
    BY <1>1, <2>1 DEF ClaimRecords
  <2>3. c.token = lastToken + 1
    BY <2>1 DEF ClaimRecords
  <2>4. c.cancelRequested = claims[a].cancelRequested
    BY <2>1 DEF ClaimRecords
  <2> QED
    BY <2>2, <2>3, <2>4
<1>3. /\ C \in [Attempts -> ClaimRecords] /\ C[a] = c
      /\ \A b \in Attempts \ {a} : C[b] = claims[b]
  <2> HIDE DEF c
  <2> QED BY <1>1, <1>2
<1>4. [claims EXCEPT ![a].owner = Operator, ![a].token = lastToken + 1,
                     ![a].lease = now + RecoveryTerm,
                     ![a].outcome = "missing", ![a].observed = now] = C
  BY <1>1
<1>5. Live(a) /\ Settle(a, s, C) /\ lastToken' = lastToken + 1 /\ UNCHANGED <<registry, now, handed>>
  BY <1>4, Zenon DEF AbandonAttempt
<1>6. Terminal(s) /\ (claims[a].cancelRequested => s = "canceled")
  BY DEF Terminal
<1>7. C[a].token <= lastToken' /\ C[a].token >= 1 /\ lastToken' \in Nat /\ lastToken' >= lastToken
  BY <1>1, <1>2, <1>3, <1>5
<1> HIDE DEF c, C, s
<1> QED
  BY <1>2, <1>3, <1>5, <1>6, <1>7, SettleInv

LEMMA ReconcileInv ==
    ASSUME IInv, NEW a \in Attempts, NEW h, NEW s \in {"succeeded", "failed", "canceled"}, NEW t,
           ReconcileFinished(a, h, s, t)
    PROVE  IInv'
<1> DEFINE c == [claims[a] EXCEPT !.token = lastToken + 1, !.lease = now + RecoveryTerm,
                                  !.outcome = "finished", !.observed = now, !.recovered = s]
           C == [claims EXCEPT ![a] = c]
<1>1. claims \in [Attempts -> ClaimRecords] /\ lastToken \in Nat /\ now \in Nat
  BY DEF IInv, TypeOK, ClaimRecords
<1>2. /\ c \in ClaimRecords /\ c.token = lastToken + 1
      /\ c.cancelRequested = claims[a].cancelRequested /\ c.owner = claims[a].owner
  <2>1. claims[a] \in ClaimRecords /\ lastToken + 1 \in Nat /\ now + RecoveryTerm \in Nat
    BY <1>1, TermsAssumption
  <2>2. c \in ClaimRecords
    BY <1>1, <2>1 DEF ClaimRecords
  <2>3. c.token = lastToken + 1
    BY <2>1 DEF ClaimRecords
  <2>4. c.cancelRequested = claims[a].cancelRequested /\ c.owner = claims[a].owner
    BY <2>1 DEF ClaimRecords
  <2> QED
    BY <2>2, <2>3, <2>4
<1>3. /\ C \in [Attempts -> ClaimRecords] /\ C[a] = c
      /\ \A b \in Attempts \ {a} : C[b] = claims[b]
  <2> HIDE DEF c
  <2> QED BY <1>1, <1>2
<1>4. [claims EXCEPT ![a].token = lastToken + 1, ![a].lease = now + RecoveryTerm,
                     ![a].outcome = "finished", ![a].observed = now, ![a].recovered = s] = C
  BY <1>1
<1>5. Report(a, s, C) /\ lastToken' = lastToken + 1 /\ UNCHANGED <<registry, now, handed>>
  BY <1>4, Zenon DEF ReconcileFinished
<1>6. C[a].token <= lastToken' /\ C[a].token >= 1 /\ lastToken' \in Nat /\ lastToken' >= lastToken
  BY <1>1, <1>2, <1>3, <1>5
<1> HIDE DEF c, C
<1> QED
  BY <1>2, <1>3, <1>5, <1>6, ReportInv

-----------------------------------------------------------------------------
(* The inductive invariant. *)

LEMMA InvariantInit == Init => IInv
<1> SUFFICES ASSUME Init
             PROVE  IInv
  OBVIOUS
<1>1. RegistryType
  BY DEF Init, InitRegistry, RegistryType
<1>2. TypeOK
  BY <1>1 DEF Init, TypeOK, InitClaim, NoToken, Statuses
<1>3. \A a \in Attempts : Sound(a)
  BY OwnersAssumption DEF Init, InitClaim, NoToken, Sound, Untouched, OwnedByHost, Stopping, Drawn, Owned, Live
<1>4. SessionExclusive
  BY DEF Init, SessionExclusive
<1> QED
  BY <1>2, <1>3, <1>4 DEF IInv

Registrations == [registered : BOOLEAN, enabled : BOOLEAN, capable : BOOLEAN,
                  granted : BOOLEAN, available : BOOLEAN]

LEMMA RegistryKeepsType ==
    ASSUME RegistryType, RegistryStep
    PROVE  RegistryType'
<1>1. PICK h \in Changing :
          \/ \E capable, enabled \in BOOLEAN : RegisterHost(h, capable, enabled)
          \/ \E revoke \in BOOLEAN : GrantHostWorkspace(h, revoke)
          \/ \E available \in BOOLEAN : DeclareHostWorkspace(h, available)
  BY DEF RegistryStep
<1>2. h \in Hosts /\ registry \in [Hosts -> Registrations]
  BY ChangingAssumption DEF RegistryType, Registrations
<1>3. ASSUME NEW capable \in BOOLEAN, NEW enabled \in BOOLEAN, RegisterHost(h, capable, enabled)
      PROVE  registry' \in [Hosts -> Registrations]
  <2> DEFINE r == [registry[h] EXCEPT !.registered = TRUE, !.capable = capable,
                                      !.enabled = enabled]
  <2>1. r \in Registrations
    BY <1>2 DEF Registrations
  <2>2. registry' = [registry EXCEPT ![h] = r]
    BY <1>2, <1>3 DEF RegisterHost
  <2> QED
    BY <1>2, <2>1, <2>2
<1>4. ASSUME NEW revoke \in BOOLEAN, GrantHostWorkspace(h, revoke)
      PROVE  registry' \in [Hosts -> Registrations]
  BY <1>2, <1>4 DEF GrantHostWorkspace, Registrations
<1>5. ASSUME NEW available \in BOOLEAN, DeclareHostWorkspace(h, available)
      PROVE  registry' \in [Hosts -> Registrations]
  BY <1>2, <1>5 DEF DeclareHostWorkspace, Registrations
<1>6. registry' \in [Hosts -> Registrations]
  BY <1>1, <1>3, <1>4, <1>5
<1> QED
  BY <1>6 DEF RegistryType, Registrations

\* The clock and the registry are no attempt's.
LEMMA OutsideInv ==
    ASSUME IInv, Tick \/ ChangeRegistry \/ UNCHANGED vars
    PROVE  IInv'
<1>1. UNCHANGED <<attempts, claims, canceling, lastToken, handed>> /\ RegistryType' /\ now' \in Nat
  BY RegistryKeepsType DEF IInv, TypeOK, Tick, ChangeRegistry, vars, RegistryType
<1>2. TypeOK'
  BY <1>1 DEF IInv, TypeOK
<1>3. (\A a \in Attempts : Sound(a))' /\ SessionExclusive'
  BY <1>1 DEF IInv, Sound, Untouched, OwnedByHost, Stopping, Drawn, Owned, Live, SessionExclusive
<1> QED
  BY <1>2, <1>3 DEF IInv

LEMMA InvariantStep == IInv /\ [Next]_vars => IInv'
<1> SUFFICES ASSUME IInv, [Next]_vars
             PROVE  IInv'
  OBVIOUS
<1>1. ASSUME NEW a \in Attempts, HostStep(a)
      PROVE  IInv'
  <2>1. PICK t \in Presented :
          \/ \E h \in Hosts, reclaim \in BOOLEAN, term \in LeaseTerms :
                ClaimAttempt(a, h, t, reclaim, term)
          \/ \E s \in Sessions : StartAttempt(a, s, t)
          \/ \E term \in LeaseTerms : HeartbeatAttempt(a, t, term)
          \/ \E s \in {"running", "paused", "succeeded", "failed", "canceled"} :
                UpdateAttempt(a, s, t)
          \/ \E h \in Hosts, outcome \in {"active", "missing", "unknown"} :
                Observe(a, h, outcome, t)
          \/ \E h \in Hosts, s \in {"succeeded", "failed", "canceled"} :
                ReconcileFinished(a, h, s, t)
    BY <1>1 DEF HostStep
  <2> QED
    BY <2>1, ClaimInv, StartInv, HeartbeatInv, UpdateInv, ObserveInv, ReconcileInv
<1>2. ASSUME NEW a \in Attempts, OperatorStep(a)
      PROVE  IInv'
  BY <1>2, DispatchInv, SettleGateInv, AbandonInv DEF OperatorStep
<1> QED
  BY <1>1, <1>2, CancelGoalInv, OutsideInv DEF Next

LEMMA Invariance == Spec => []IInv
<1> QED
  BY InvariantInit, InvariantStep, PTL DEF Spec

\* Every reachable state has the declared types: no order of claims,
\* recoveries and late calls produces a state hosts.ts cannot hold.
THEOREM TypeCorrect == Spec => []TypeOK
<1>1. IInv => TypeOK
  BY DEF IInv
<1> QED
  BY <1>1, Invariance, PTL

\* No two unfinished attempts hold the same session of the same host.
THEOREM SessionsExclusive == Spec => []SessionExclusive
<1>1. IInv => SessionExclusive
  BY DEF IInv
<1> QED
  BY <1>1, Invariance, PTL

\* A live session belongs to the host that owns the attempt.
THEOREM SessionsStayAtOwner == Spec => []SessionAtOwner
<1>1. IInv => SessionAtOwner
  BY DEF IInv, Sound, OwnedByHost, SessionAtOwner
<1> QED
  BY <1>1, Invariance, PTL

\* A canceled goal has asked every live attempt to stop, and an attempt that
\* was asked never ends as anything but canceled.
THEOREM CancellationAlwaysReaches == Spec => []CancellationReaches
<1>1. IInv => CancellationReaches
  BY DEF IInv, Sound, Stopping, CancellationReaches
<1> QED
  BY <1>1, Invariance, PTL

-----------------------------------------------------------------------------
(* What a step does to one attempt's claim. *)

\* The owner, token and lease of b are as they were.
KeepsClaim(b) ==
    /\ claims'[b].owner = claims[b].owner
    /\ claims'[b].token = claims[b].token
    /\ claims'[b].lease = claims[b].lease

Fenced(a) ==
    Owned(a) /\ Expired(a) /\ claims'[a].lease > now' => claims'[a].token > lastToken

Inspected(a) ==
    Live(a) /\ Owned(a) /\ Expired(a) =>
        \/ claims'[a].owner = claims[a].owner /\ claims'[a].token = claims[a].token
        \/ /\ claims'[a].owner = claims[a].owner
           /\ claims[a].outcome = "active" /\ claims[a].observed >= claims[a].lease
        \/ claims'[a].outcome \in {"finished", "missing"} /\ claims'[a].observed = now

\* Ending an attempt under the claims C leaves every claim as C has it, but
\* for requested cancellations, and every session and every ended attempt.
LEMMA SettleShape ==
    ASSUME attempts \in [Attempts -> AttemptRecords], NEW C \in [Attempts -> ClaimRecords],
           NEW a \in Attempts, NEW s, Terminal(s), Settle(a, s, C), NEW b \in Attempts
    PROVE  /\ claims'[b].owner = C[b].owner /\ claims'[b].token = C[b].token
           /\ claims'[b].lease = C[b].lease /\ claims'[b].outcome = C[b].outcome
           /\ claims'[b].observed = C[b].observed
           /\ attempts'[b].session = attempts[b].session
           /\ Terminal(attempts[b].status) => Terminal(attempts'[b].status)
           /\ Terminal(attempts'[a].status)
<1> DEFINE T == [attempts EXCEPT ![a].status = s]
<1>1. /\ T \in [Attempts -> AttemptRecords]
      /\ T[a].status = s /\ T[b].session = attempts[b].session
      /\ Terminal(attempts[b].status) => Terminal(T[b].status)
  BY DEF AttemptRecords, Statuses, Terminal
<1>2. \/ attempts' = CanceledAttempts(T, C) /\ claims' = CanceledClaims(T, C)
      \/ attempts' = T /\ claims' = C
  BY DEF Settle
<1> HIDE DEF T
<1>3. CASE attempts' = CanceledAttempts(T, C) /\ claims' = CanceledClaims(T, C)
  <2>1. claims'[b] = C[b] \/ claims'[b] = [C[b] EXCEPT !.cancelRequested = TRUE]
    BY <1>3 DEF CanceledClaims
  <2>2. attempts'[b] = T[b] \/ attempts'[b] = [T[b] EXCEPT !.status = "canceled"]
    BY <1>3 DEF CanceledAttempts
  <2>3. attempts'[a] = T[a]
    BY <1>1, <1>3 DEF CanceledAttempts, Terminal
  <2>4. C[b] \in ClaimRecords /\ T[b] \in AttemptRecords
    BY <1>1
  <2>5. /\ claims'[b].owner = C[b].owner /\ claims'[b].token = C[b].token
        /\ claims'[b].lease = C[b].lease /\ claims'[b].outcome = C[b].outcome
        /\ claims'[b].observed = C[b].observed
    BY <2>1, <2>4 DEF ClaimRecords
  <2>6. /\ attempts'[b].session = T[b].session
        /\ Terminal(T[b].status) => Terminal(attempts'[b].status)
    BY <2>2, <2>4 DEF AttemptRecords, Terminal
  <2> QED
    BY <1>1, <2>3, <2>5, <2>6
<1>4. CASE attempts' = T /\ claims' = C
  BY <1>1, <1>4
<1> QED
  BY <1>2, <1>3, <1>4

LEMMA ReportShape ==
    ASSUME attempts \in [Attempts -> AttemptRecords], NEW C \in [Attempts -> ClaimRecords],
           NEW a \in Attempts, NEW s, Report(a, s, C), NEW b \in Attempts
    PROVE  /\ claims'[b].owner = C[b].owner /\ claims'[b].token = C[b].token
           /\ claims'[b].lease = C[b].lease /\ claims'[b].outcome = C[b].outcome
           /\ claims'[b].observed = C[b].observed
           /\ attempts'[b].session = attempts[b].session
           /\ Terminal(attempts[b].status) => Terminal(attempts'[b].status)
<1>1. CASE Terminal(s) /\ Settle(a, s, C)
  BY <1>1, SettleShape
<1>2. CASE attempts' = [attempts EXCEPT ![a].status = "paused", ![a].completion = TRUE] /\ claims' = C
  BY <1>2 DEF AttemptRecords, Report, MayReport, Live, Terminal
<1>3. CASE s \in {"running", "paused"} /\ attempts' = [attempts EXCEPT ![a].status = s] /\ claims' = C
  BY <1>3 DEF AttemptRecords, Report, MayReport, Live, Terminal
<1> QED
  BY <1>1, <1>2, <1>3 DEF Report

\* An expired claim changes hands, token or deadline only as the two fencing
\* properties allow.
LEMMA StepFenced ==
    ASSUME IInv, Next, NEW b \in Attempts
    PROVE  Fenced(b) /\ Inspected(b)
<1>1. /\ attempts \in [Attempts -> AttemptRecords] /\ claims \in [Attempts -> ClaimRecords]
      /\ now \in Nat /\ lastToken \in Nat
  BY DEF IInv, TypeOK, AttemptRecords, ClaimRecords
<1>2. KeepsClaim(b) /\ now' \in Nat /\ now' >= now => Fenced(b) /\ Inspected(b)
  BY <1>1 DEF KeepsClaim, Fenced, Inspected, Owned, Expired, ClaimRecords
<1>3. ASSUME NEW a \in Attempts, NEW t \in Presented, NEW h \in Hosts, NEW reclaim \in BOOLEAN,
             NEW term \in LeaseTerms, ClaimAttempt(a, h, t, reclaim, term)
      PROVE  Fenced(b) /\ Inspected(b)
  <2>1. CASE b # a
    BY <1>1, <1>2, <1>3, <2>1 DEF ClaimAttempt, KeepsClaim
  <2>2. CASE b = a
    <3>1. Owned(a) /\ Expired(a) => claims'[a].token = lastToken + 1 /\ claims'[a].owner = h
      BY <1>1, <1>3 DEF ClaimAttempt, KeepsToken
    <3>2. Owned(a) /\ Expired(a) => Recoverable(a, h)
      BY <1>3 DEF ClaimAttempt, MayClaim
    <3> QED
      BY <1>1, <2>2, <3>1, <3>2 DEF Fenced, Inspected, Recoverable
  <2> QED
    BY <2>1, <2>2
<1>4. ASSUME NEW a \in Attempts, NEW t \in Presented, NEW s \in Sessions, StartAttempt(a, s, t)
      PROVE  Fenced(b) /\ Inspected(b)
  BY <1>1, <1>2, <1>4 DEF StartAttempt, KeepsClaim
<1>5. ASSUME NEW a \in Attempts, NEW t \in Presented, NEW term \in LeaseTerms,
             HeartbeatAttempt(a, t, term)
      PROVE  Fenced(b) /\ Inspected(b)
  <2>1. CASE b # a
    BY <1>1, <1>2, <1>5, <2>1 DEF HeartbeatAttempt, KeepsClaim
  <2>2. CASE b = a
    BY <1>5, <2>2 DEF HeartbeatAttempt, VerifiedOwner, Fenced, Inspected
  <2> QED
    BY <2>1, <2>2
<1>6. ASSUME NEW a \in Attempts, NEW t \in Presented, NEW s, UpdateAttempt(a, s, t)
      PROVE  Fenced(b) /\ Inspected(b)
  <2>1. Report(a, s, claims) /\ now' = now
    BY <1>6 DEF UpdateAttempt
  <2>2. KeepsClaim(b)
    BY <1>1, <2>1, ReportShape DEF KeepsClaim
  <2> QED
    BY <1>1, <1>2, <2>1, <2>2
<1>7. ASSUME NEW a \in Attempts, NEW t \in Presented, NEW h \in Hosts,
             NEW outcome \in {"active", "missing", "unknown"}, Observe(a, h, outcome, t)
      PROVE  Fenced(b) /\ Inspected(b)
  <2>1. KeepsClaim(b) /\ now' = now
    BY <1>1, <1>7 DEF Observe, KeepsClaim, ClaimRecords
  <2> QED
    BY <1>1, <1>2, <2>1
<1>8. ASSUME NEW a \in Attempts, NEW t \in Presented, NEW h \in Hosts,
             NEW s \in {"succeeded", "failed", "canceled"}, ReconcileFinished(a, h, s, t)
      PROVE  Fenced(b) /\ Inspected(b)
  <2> DEFINE c == [claims[a] EXCEPT !.token = lastToken + 1, !.lease = now + RecoveryTerm,
                                    !.outcome = "finished", !.observed = now, !.recovered = s]
             C == [claims EXCEPT ![a] = c]
  <2>1. now + RecoveryTerm \in Nat /\ lastToken + 1 \in Nat
    BY <1>1, TermsAssumption
  <2>2. c \in ClaimRecords
    BY <1>1, <2>1 DEF ClaimRecords
  <2>3. c.token = lastToken + 1 /\ c.outcome = "finished" /\ c.observed = now
    BY <1>1, <2>1 DEF ClaimRecords
  <2>4. Report(a, s, C) /\ now' = now
    <3>1. [claims EXCEPT ![a].token = lastToken + 1, ![a].lease = now + RecoveryTerm,
                         ![a].outcome = "finished", ![a].observed = now, ![a].recovered = s] = C
      BY <1>1
    <3> QED
      BY <1>8, <3>1, Zenon DEF ReconcileFinished
  <2> HIDE DEF c
  <2>5. C \in [Attempts -> ClaimRecords] /\ C[a] = c /\ (b # a => C[b] = claims[b])
    BY <1>1, <2>2
  <2> HIDE DEF C
  <2>6. CASE b # a
    <3>1. KeepsClaim(b)
      BY <1>1, <2>4, <2>5, <2>6, ReportShape DEF KeepsClaim
    <3> QED
      BY <1>1, <1>2, <2>4, <3>1
  <2>7. CASE b = a
    <3>1. claims'[a].token = lastToken + 1 /\ claims'[a].outcome = "finished" /\ claims'[a].observed = now
      BY <1>1, <2>3, <2>4, <2>5, ReportShape
    <3> QED
      BY <1>1, <2>7, <3>1 DEF Fenced, Inspected
  <2> QED
    BY <2>6, <2>7
<1>9. ASSUME NEW a \in Attempts, OperatorStep(a)
      PROVE  Fenced(b) /\ Inspected(b)
  <2>1. CASE DispatchRun(a)
    BY <1>1, <1>2, <2>1 DEF DispatchRun, KeepsClaim
  <2>2. ASSUME NEW s \in {"succeeded", "failed"}, SettleGate(a, s)
        PROVE  Fenced(b) /\ Inspected(b)
    <3>1. Settle(a, s, claims) /\ now' = now /\ Terminal(s)
      BY <2>2 DEF SettleGate, Terminal
    <3>2. KeepsClaim(b)
      BY <1>1, <3>1, SettleShape DEF KeepsClaim
    <3> QED
      BY <1>1, <1>2, <3>1, <3>2
  <2>3. CASE AbandonAttempt(a)
    <3> DEFINE c == [claims[a] EXCEPT !.owner = Operator, !.token = lastToken + 1,
                                      !.lease = now + RecoveryTerm,
                                      !.outcome = "missing", !.observed = now]
               C == [claims EXCEPT ![a] = c]
               s == IF claims[a].cancelRequested THEN "canceled" ELSE "failed"
    <3>1. now + RecoveryTerm \in Nat /\ lastToken + 1 \in Nat
      BY <1>1, TermsAssumption
    <3>2. c \in ClaimRecords
      BY <1>1, <3>1 DEF ClaimRecords
    <3>3. c.token = lastToken + 1 /\ c.outcome = "missing" /\ c.observed = now
      BY <1>1, <3>1 DEF ClaimRecords
    <3>4. Settle(a, s, C) /\ now' = now /\ Terminal(s)
      <4>1. [claims EXCEPT ![a].owner = Operator, ![a].token = lastToken + 1,
                           ![a].lease = now + RecoveryTerm,
                           ![a].outcome = "missing", ![a].observed = now] = C
        BY <1>1
      <4>2. Settle(a, s, C) /\ now' = now
        BY <2>3, <4>1, Zenon DEF AbandonAttempt
      <4> QED
        BY <4>2 DEF Terminal
    <3> HIDE DEF c, s
    <3>5. C \in [Attempts -> ClaimRecords] /\ C[a] = c /\ (b # a => C[b] = claims[b])
      BY <1>1, <3>2
    <3> HIDE DEF C
    <3>6. CASE b # a
      <4>1. KeepsClaim(b)
        BY <1>1, <3>4, <3>5, <3>6, SettleShape DEF KeepsClaim
      <4> QED
        BY <1>1, <1>2, <3>4, <4>1
    <3>7. CASE b = a
      <4>1. claims'[a].token = lastToken + 1 /\ claims'[a].outcome = "missing" /\ claims'[a].observed = now
        BY <1>1, <3>3, <3>4, <3>5, SettleShape
      <4> QED
        BY <1>1, <3>7, <4>1 DEF Fenced, Inspected
    <3> QED
      BY <3>6, <3>7
  <2> QED
    BY <1>9, <2>1, <2>2, <2>3 DEF OperatorStep
<1>10. CASE CancelGoal
  <2>1. claims' = CanceledClaims(attempts, claims) /\ now' = now
    BY <1>10 DEF CancelGoal
  <2>2. claims'[b] = claims[b] \/ claims'[b] = [claims[b] EXCEPT !.cancelRequested = TRUE]
    BY <2>1 DEF CanceledClaims
  <2>3. KeepsClaim(b)
    BY <1>1, <2>2 DEF KeepsClaim, ClaimRecords
  <2> QED
    BY <1>1, <1>2, <2>1, <2>3
<1>11. CASE ChangeRegistry \/ Tick
  BY <1>1, <1>2, <1>11 DEF ChangeRegistry, Tick, KeepsClaim
<1>12. ASSUME NEW a \in Attempts, HostStep(a)
       PROVE  Fenced(b) /\ Inspected(b)
  BY <1>3, <1>4, <1>5, <1>6, <1>7, <1>8, <1>12 DEF HostStep
<1> QED
  BY <1>9, <1>10, <1>11, <1>12 DEF Next

\* A lapsed lease is live again only under a token drawn for it.
THEOREM LapsedTokensStayDead == Spec => LapsedTokenStaysDead
<1>1. IInv /\ [Next]_vars
        => [\A a \in Attempts :
              Owned(a) /\ Expired(a) /\ claims'[a].lease > now' => claims'[a].token > lastToken]_vars
  BY StepFenced DEF Fenced
<1> QED
  BY <1>1, Invariance, PTL DEF Spec, LapsedTokenStaysDead

\* Work changes hands after a lapse only with an inspection behind it.
THEOREM ExpiryAloneProvesNothing == Spec => ExpiryProvesNothing
<1>1. IInv /\ [Next]_vars
        => [\A a \in Attempts :
              Live(a) /\ Owned(a) /\ Expired(a) =>
                \/ claims'[a].owner = claims[a].owner /\ claims'[a].token = claims[a].token
                \/ /\ claims'[a].owner = claims[a].owner
                   /\ claims[a].outcome = "active" /\ claims[a].observed >= claims[a].lease
                \/ claims'[a].outcome \in {"finished", "missing"} /\ claims'[a].observed = now]_vars
  BY StepFenced DEF Inspected
<1> QED
  BY <1>1, Invariance, PTL DEF Spec, ExpiryProvesNothing

-----------------------------------------------------------------------------
(* The protocol implements ExclusiveExecution. *)

\* A step that keeps owners and sessions of what it does not end is an
\* abstract Finish of what has ended.
LEMMA FinishStep ==
    ASSUME \A b \in Attempts :
               /\ Terminal(attempts[b].status) => Terminal(attempts'[b].status)
               /\ \/ Terminal(attempts'[b].status)
                  \/ /\ claims'[b].owner = claims[b].owner
                     /\ attempts'[b].session = attempts[b].session
    PROVE  Exclusive!Next
<1> DEFINE S == {b \in Attempts : Terminal(attempts'[b].status)}
<1>1. Slot' = [b \in Attempts |-> IF b \in S THEN <<"done">> ELSE Slot[b]]
  BY DEF Slot
<1>2. Exclusive!Finish(S)
  BY <1>1 DEF Exclusive!Finish
<1> QED
  BY <1>2 DEF Exclusive!Next

\* What an attempt's slot holds while nobody has it, and while somebody has.
LEMMA SlotOf ==
    ASSUME NEW a \in Attempts
    PROVE  /\ Live(a) /\ claims[a].owner = NoHost => Slot[a] = <<>>
           /\ Live(a) /\ claims[a].owner # NoHost
                => Slot[a] = <<claims[a].owner, attempts[a].session>>
BY DEF Slot, Live, Terminal

LEMMA AssignStep ==
    ASSUME IInv, NEW a \in Attempts, NEW h \in Hosts, NEW t, NEW reclaim, NEW term \in LeaseTerms,
           ClaimAttempt(a, h, t, reclaim, term)
    PROVE  Exclusive!Next \/ Slot' = Slot
<1>1. /\ attempts \in [Attempts -> AttemptRecords] /\ claims \in [Attempts -> ClaimRecords]
  BY DEF IInv, TypeOK, AttemptRecords, ClaimRecords
<1>2. /\ Elsewhere(a) /\ claims'[a].owner = h
      /\ attempts'[a].status = attempts[a].status
      /\ attempts'[a].session = attempts[a].session
  BY <1>1 DEF ClaimAttempt, Elsewhere, AttemptRecords, ClaimRecords
<1>3. CASE claims[a].owner = NoHost
  <2>1. Live(a) /\ attempts[a].session = NoSession
    BY <1>3, OwnersAssumption DEF ClaimAttempt
  <2>2. Slot[a] = <<>>
    BY <1>3, <2>1, SlotOf
  <2>3. Slot' = [Slot EXCEPT ![a] = <<h, NoSession>>]
    BY <1>2, <2>1, OwnersAssumption DEF Slot, Elsewhere, Live, Terminal
  <2>4. Exclusive!Assign(a, h)
    BY <2>2, <2>3 DEF Exclusive!Assign, Exclusive!Held
  <2> QED
    BY <2>4 DEF Exclusive!Next
<1>4. CASE claims[a].owner # NoHost
  <2>1. claims[a].owner = h
    BY <1>4 DEF ClaimAttempt, MayClaim, Owned, Recoverable
  <2>2. Slot' = Slot
    BY <1>2, <2>1 DEF Slot, Elsewhere
  <2> QED
    BY <2>2
<1> QED
  BY <1>3, <1>4

LEMMA BindStep ==
    ASSUME IInv, NEW a \in Attempts, NEW s \in Sessions, NEW t, StartAttempt(a, s, t)
    PROVE  Exclusive!Next
<1> DEFINE h == claims[a].owner
<1>1. /\ attempts \in [Attempts -> AttemptRecords] /\ claims \in [Attempts -> ClaimRecords]
  BY DEF IInv, TypeOK, AttemptRecords, ClaimRecords
<1>2. Live(a) /\ h \in Hosts /\ h # NoHost /\ attempts[a].session = NoSession
  BY <1>1, OwnersAssumption DEF IInv, ClaimRecords, StartAttempt, VerifiedOwner, Owned, Sound, OwnedByHost
<1>3. /\ Elsewhere(a) /\ claims' = claims
      /\ attempts'[a].status = "running" /\ attempts'[a].session = s
  BY <1>1 DEF StartAttempt, Elsewhere, AttemptRecords
<1>4. Slot[a] = <<h, NoSession>>
  BY <1>2, SlotOf
<1>5. Slot' = [Slot EXCEPT ![a] = <<h, s>>]
  BY <1>2, <1>3 DEF Slot, Elsewhere, Terminal
<1>6. ASSUME NEW b \in Attempts
      PROVE  Slot[b] # <<h, s>>
  <2>1. CASE b = a
    BY <1>2, <1>4, <2>1, SessionsAssumption
  <2>2. CASE b # a /\ Terminal(attempts[b].status)
    <3>1. Slot[b] = <<"done">>
      BY <2>2 DEF Slot
    <3> QED
      BY <3>1
  <2>3. CASE b # a /\ ~Terminal(attempts[b].status) /\ claims[b].owner = NoHost
    <3>1. Slot[b] = <<>>
      BY <2>3 DEF Slot
    <3> QED
      BY <3>1
  <2>4. CASE b # a /\ ~Terminal(attempts[b].status) /\ claims[b].owner # NoHost
    <3>1. Slot[b] = <<claims[b].owner, attempts[b].session>>
      BY <2>4 DEF Slot
    <3>2. Live(b)
      BY <1>1, <2>4 DEF IInv, Sound, Untouched, AttemptRecords, Statuses, Terminal, Live
    <3>3. attempts[b].session = s => claims[b].owner = attempts[b].host
      BY <3>2, SessionsAssumption DEF IInv, Sound, OwnedByHost
    <3>4. attempts[b].session = s => attempts[b].host # h
      BY <2>4, <3>2 DEF StartAttempt, SessionFree
    <3> QED
      BY <3>1, <3>3, <3>4
  <2> QED
    BY <2>1, <2>2, <2>3, <2>4
<1>7. Exclusive!Bind(a, h, s)
  BY <1>4, <1>5, <1>6 DEF Exclusive!Bind, Exclusive!Held
<1> QED
  BY <1>2, <1>7 DEF Exclusive!Next

LEMMA StepImplements ==
    ASSUME IInv, Next
    PROVE  Exclusive!Next \/ Slot' = Slot
<1>1. /\ attempts \in [Attempts -> AttemptRecords] /\ claims \in [Attempts -> ClaimRecords]
      /\ now \in Nat /\ lastToken \in Nat
  BY DEF IInv, TypeOK, AttemptRecords, ClaimRecords
<1>2. ASSUME NEW a \in Attempts, NEW t, NEW term, HeartbeatAttempt(a, t, term)
      PROVE  Slot' = Slot
  BY <1>1, <1>2 DEF HeartbeatAttempt, Slot
<1>3. ASSUME NEW a \in Attempts, NEW h, NEW outcome, NEW t, Observe(a, h, outcome, t)
      PROVE  Slot' = Slot
  BY <1>1, <1>3 DEF Observe, Slot
<1>4. ASSUME NEW a \in Attempts, NEW s, NEW t, UpdateAttempt(a, s, t)
      PROVE  Exclusive!Next
  <2>1. Report(a, s, claims)
    BY <1>4 DEF UpdateAttempt
  <2> QED
    BY <1>1, <2>1, ReportShape, FinishStep
<1>5. ASSUME NEW a \in Attempts, NEW h, NEW s \in {"succeeded", "failed", "canceled"}, NEW t,
             ReconcileFinished(a, h, s, t)
      PROVE  Exclusive!Next
  <2> DEFINE c == [claims[a] EXCEPT !.token = lastToken + 1, !.lease = now + RecoveryTerm,
                                    !.outcome = "finished", !.observed = now, !.recovered = s]
             C == [claims EXCEPT ![a] = c]
  <2>1. now + RecoveryTerm \in Nat /\ lastToken + 1 \in Nat
    BY <1>1, TermsAssumption
  <2>2. c \in ClaimRecords /\ c.owner = claims[a].owner
    BY <1>1, <2>1 DEF ClaimRecords
  <2>3. Report(a, s, C)
    <3>1. [claims EXCEPT ![a].token = lastToken + 1, ![a].lease = now + RecoveryTerm,
                         ![a].outcome = "finished", ![a].observed = now, ![a].recovered = s] = C
      BY <1>1
    <3> QED
      BY <1>5, <3>1, Zenon DEF ReconcileFinished
  <2> HIDE DEF c
  <2>4. C \in [Attempts -> ClaimRecords] /\ \A b \in Attempts : C[b].owner = claims[b].owner
    BY <1>1, <2>2
  <2> HIDE DEF C
  <2> QED
    BY <1>1, <2>3, <2>4, ReportShape, FinishStep
<1>6. ASSUME NEW a \in Attempts, OperatorStep(a)
      PROVE  Exclusive!Next \/ Slot' = Slot
  <2>1. CASE DispatchRun(a)
    BY <1>1, <2>1 DEF DispatchRun, Slot, Terminal, AttemptRecords
  <2>2. ASSUME NEW s \in {"succeeded", "failed"}, SettleGate(a, s)
        PROVE  Exclusive!Next
    <3>1. Settle(a, s, claims) /\ Terminal(s)
      BY <2>2 DEF SettleGate, Terminal
    <3> QED
      BY <1>1, <3>1, SettleShape, FinishStep
  <2>3. CASE AbandonAttempt(a)
    <3> DEFINE c == [claims[a] EXCEPT !.owner = Operator, !.token = lastToken + 1,
                                      !.lease = now + RecoveryTerm,
                                      !.outcome = "missing", !.observed = now]
               C == [claims EXCEPT ![a] = c]
               s == IF claims[a].cancelRequested THEN "canceled" ELSE "failed"
    <3>1. now + RecoveryTerm \in Nat /\ lastToken + 1 \in Nat
      BY <1>1, TermsAssumption
    <3>2. c \in ClaimRecords
      BY <1>1, <3>1 DEF ClaimRecords
    <3>3. Settle(a, s, C) /\ Terminal(s)
      <4>1. [claims EXCEPT ![a].owner = Operator, ![a].token = lastToken + 1,
                           ![a].lease = now + RecoveryTerm,
                           ![a].outcome = "missing", ![a].observed = now] = C
        BY <1>1
      <4>2. Settle(a, s, C)
        BY <2>3, <4>1, Zenon DEF AbandonAttempt
      <4> QED
        BY <4>2 DEF Terminal
    <3> HIDE DEF c, s
    <3>4. C \in [Attempts -> ClaimRecords] /\ \A b \in Attempts \ {a} : C[b] = claims[b]
      BY <1>1, <3>2
    <3> HIDE DEF C
    <3>5. \A b \in Attempts :
             /\ Terminal(attempts[b].status) => Terminal(attempts'[b].status)
             /\ \/ Terminal(attempts'[b].status)
                \/ /\ claims'[b].owner = claims[b].owner
                   /\ attempts'[b].session = attempts[b].session
      BY <1>1, <3>3, <3>4, SettleShape
    <3> QED
      BY <3>5, FinishStep
  <2> QED
    BY <1>6, <2>1, <2>2, <2>3 DEF OperatorStep
<1>7. CASE CancelGoal
  <2>1. attempts' = CanceledAttempts(attempts, claims) /\ claims' = CanceledClaims(attempts, claims)
    BY <1>7 DEF CancelGoal
  <2>2. ASSUME NEW b \in Attempts
        PROVE  /\ Terminal(attempts[b].status) => Terminal(attempts'[b].status)
               /\ \/ Terminal(attempts'[b].status)
                  \/ /\ claims'[b].owner = claims[b].owner
                     /\ attempts'[b].session = attempts[b].session
    <3>1. claims'[b] = claims[b] \/ claims'[b] = [claims[b] EXCEPT !.cancelRequested = TRUE]
      BY <2>1 DEF CanceledClaims
    <3>2. attempts'[b] = attempts[b] \/ attempts'[b] = [attempts[b] EXCEPT !.status = "canceled"]
      BY <2>1 DEF CanceledAttempts
    <3> QED
      BY <1>1, <3>1, <3>2 DEF ClaimRecords, AttemptRecords, Terminal
  <2> QED
    BY <2>2, FinishStep
<1>8. CASE ChangeRegistry \/ Tick
  BY <1>8 DEF ChangeRegistry, Tick, Slot
<1>9. ASSUME NEW a \in Attempts, HostStep(a)
      PROVE  Exclusive!Next \/ Slot' = Slot
  <2>1. PICK t \in Presented :
          \/ \E h \in Hosts, reclaim \in BOOLEAN, term \in LeaseTerms :
                ClaimAttempt(a, h, t, reclaim, term)
          \/ \E s \in Sessions : StartAttempt(a, s, t)
          \/ \E term \in LeaseTerms : HeartbeatAttempt(a, t, term)
          \/ \E s \in {"running", "paused", "succeeded", "failed", "canceled"} :
                UpdateAttempt(a, s, t)
          \/ \E h \in Hosts, outcome \in {"active", "missing", "unknown"} :
                Observe(a, h, outcome, t)
          \/ \E h \in Hosts, s \in {"succeeded", "failed", "canceled"} :
                ReconcileFinished(a, h, s, t)
    BY <1>9 DEF HostStep
  <2> QED
    BY <2>1, <1>2, <1>3, <1>4, <1>5, AssignStep, BindStep
<1> QED
  BY <1>6, <1>7, <1>8, <1>9 DEF Next

\* The claim protocol implements exclusive execution: whatever is delayed,
\* repeated or recovered, an attempt is assigned to one host and run by it in
\* one session that no other unfinished attempt has, and its end is final.
THEOREM ImplementsExclusiveExecution == Spec => ImplementsExclusive
<1>1. Init => Exclusive!Init
  BY DEF Init, InitClaim, Slot, Terminal, Exclusive!Init
<1>2. IInv /\ [Next]_vars => [Exclusive!Next]_Slot
  <2>1. UNCHANGED vars => Slot' = Slot
    BY DEF vars, Slot
  <2> QED
    BY <2>1, StepImplements
<1> QED
  BY <1>1, <1>2, Invariance, PTL DEF Spec, ImplementsExclusive, Exclusive!Spec
=============================================================================

-------------------------- MODULE RunDispatchProofs --------------------------
(***************************************************************************)
(* Theorems about RunDispatch, for any goals, callers, reviewers, request  *)
(* ids and bounds: a request id reserves once, a refused call reserved     *)
(* nothing, and what was reserved is what was reviewed.                    *)
(***************************************************************************)
EXTENDS RunDispatch, SequenceTheorems, TLAPS

-----------------------------------------------------------------------------
(* The invariant.  G, A, T and L stand for the rows of goals, activations,  *)
(* attempts and lifecycle_requests: those the database shows, and those a   *)
(* batch falls back to.                                                     *)

RowsTyped(G, A, T, L) ==
    /\ G \in [Goals -> GoalRow]
    /\ A \in [Goals -> Seq(VisitRow)]
    /\ T \in Seq(AttemptRow)
    /\ L \in SUBSET Answer

VisitsKnown(A, T) == \A a \in DOMAIN T : T[a].visit \in DOMAIN A[T[a].goal]

\* Recorded answers and attempts reserved under a request id match one to one.
AnswerFor(r, T, a) ==
    /\ r.attempt = a
    /\ r.input.goal = T[a].goal
    /\ r.input.request = T[a].request
    /\ T[a].item = IF r.input.fenced THEN r.input.item ELSE NoItem

AnswersMatch(T, L) ==
    /\ \A a \in DOMAIN T : T[a].request # NoRequest => \E r \in L : AnswerFor(r, T, a)
    /\ \A r \in L : /\ r.input.request # NoRequest
                    /\ r.attempt \in DOMAIN T
                    /\ AnswerFor(r, T, r.attempt)
    /\ \A r, s \in L : KeyOf(r.input) = KeyOf(s.input) => r.attempt = s.attempt

AsReviewed(T) ==
    \A a \in DOMAIN T : T[a].item # NoItem => T[a].number = T[a].item.used + 1

\* A reservation on an expected revision has used that revision up.
UsedUp(A, input) ==
    input.fenced =>
        /\ input.item \in Item /\ input.item.goal = input.goal
        /\ input.item.visit \in DOMAIN A[input.goal]
        /\ input.item.revision < A[input.goal][input.item.visit].revision

Spent(A, L) == \A r \in L : UsedUp(A, r.input)

RowsInv(G, A, T, L) ==
    /\ RowsTyped(G, A, T, L)
    /\ VisitsKnown(A, T)
    /\ AnswersMatch(T, L)
    /\ AsReviewed(T)
    /\ Spent(A, L)

\* Item i of batch B is reserved.
Covered(T, B, i) == \E b \in DOMAIN T : T[b].batch = B /\ T[b].item = i

Together(T) == \A a \in DOMAIN T : \A i \in T[a].batch : Covered(T, T[a].batch, i)

\* Batch B is open: of its items, only those left are missing.
TogetherBut(T, B, left) ==
    /\ \A a \in DOMAIN T : T[a].batch # B => \A i \in T[a].batch : Covered(T, T[a].batch, i)
    /\ \A i \in B \ left : Covered(T, B, i)

\* An item somebody read describes its visit, unless the revision moved on.
Seen(A, i) ==
    /\ i \in Item
    /\ i.visit \in DOMAIN A[i.goal]
    /\ \/ i.revision < A[i.goal][i.visit].revision
       \/ i.revision = A[i.goal][i.visit].revision /\ i.used = A[i.goal][i.visit].used

CallSeen(A, c) ==
    c.at = "waiting" =>
        /\ c.input \in Input
        /\ c.input.item # NoItem => c.input.item.goal = c.input.goal /\ Seen(A, c.input.item)
        /\ c.input.fenced => c.input.item # NoItem

AllSeen(A) ==
    /\ \A c \in Callers : CallSeen(A, calls[c])
    /\ \A r \in Reviewers : \A i \in review[r].items : Seen(A, i)

ToldRecorded ==
    \A s \in told : \E r \in recorded : r.input = s.input /\ r.attempt = s.attempt

\* A page lists a visit once: every goal is read once.
Distinct(w) ==
    /\ \A i, j \in w.items : i.goal = j.goal /\ i.visit = j.visit => i = j
    /\ \A i \in w.items : i.goal \notin w.todo

CallsTyped ==
    /\ calls \in [Callers -> [at : {"idle", "waiting", "refused"}, input : Input \cup {NoItem}]]
    /\ told \subseteq Answer
    /\ review \in [Reviewers -> [at : {"none", "reading", "shown"},
                                 todo : SUBSET Goals, items : SUBSET Item]]
    /\ \A r \in Reviewers : Distinct(review[r])

BatchInv ==
    ~Unlocked =>
        /\ tx \in Batch
        /\ review[tx.by].at = "shown"
        /\ tx.left \subseteq review[tx.by].items
        /\ RowsInv(tx.saved.goals, tx.saved.acts, tx.saved.attempts, tx.saved.recorded)
        /\ AllSeen(tx.saved.acts)
        /\ \A s \in told : \E r \in tx.saved.recorded : r.input = s.input /\ r.attempt = s.attempt
        /\ Together(tx.saved.attempts)
        /\ TogetherBut(attempts, review[tx.by].items, tx.left)
        /\ \A i \in tx.left : i.revision = acts[i.goal][i.visit].revision

IInv ==
    /\ RowsInv(goals, acts, attempts, recorded)
    /\ CallsTyped
    /\ agentUp \in BOOLEAN
    /\ AllSeen(acts)
    /\ ToldRecorded
    /\ Unlocked => Together(attempts)
    /\ BatchInv

-----------------------------------------------------------------------------
(* Activations only move forward. *)

Grown(A, B) ==
    \A v \in DOMAIN A :
        /\ v \in DOMAIN B
        /\ \/ A[v].revision < B[v].revision
           \/ A[v].revision = B[v].revision /\ A[v].used = B[v].used

Advanced(A, B) == \A g \in Goals : Grown(A[g], B[g])

LEMMA GrownTransitive ==
    ASSUME NEW A \in Seq(VisitRow), NEW B \in Seq(VisitRow), NEW C \in Seq(VisitRow),
           Grown(A, B), Grown(B, C)
    PROVE  Grown(A, C)
<1> SUFFICES ASSUME NEW v \in DOMAIN A
    PROVE /\ v \in DOMAIN C
          /\ \/ A[v].revision < C[v].revision
             \/ A[v].revision = C[v].revision /\ A[v].used = C[v].used
  BY DEF Grown
<1>1. v \in DOMAIN B /\ v \in DOMAIN C BY DEF Grown
<1>2. A[v] \in VisitRow /\ B[v] \in VisitRow /\ C[v] \in VisitRow
  BY <1>1, ElementOfSeq, LenProperties
<1>3. A[v].revision \in Nat /\ B[v].revision \in Nat /\ C[v].revision \in Nat
  BY <1>2 DEF VisitRow
<1> QED BY <1>1, <1>3 DEF Grown

LEMMA VisitRewritten ==
    ASSUME NEW A \in Seq(VisitRow), NEW v \in DOMAIN A, NEW x \in VisitRow,
           \/ A[v].revision < x.revision
           \/ A[v].revision = x.revision /\ A[v].used = x.used
    PROVE  [A EXCEPT ![v] = x] \in Seq(VisitRow) /\ Grown(A, [A EXCEPT ![v] = x])
<1>1. v \in 1 .. Len(A) BY LenProperties
<1>2. [A EXCEPT ![v] = x] \in Seq(VisitRow) BY <1>1, ExceptSeq, Zenon
<1>3. Grown(A, [A EXCEPT ![v] = x]) BY DEF Grown
<1> QED BY <1>2, <1>3

LEMMA Concatenated ==
    ASSUME NEW S, NEW s \in Seq(S), NEW t \in Seq(S)
    PROVE  /\ s \o t \in Seq(S)
           /\ Len(s \o t) = Len(s) + Len(t)
           /\ \A i \in 1 .. Len(s) : (s \o t)[i] = s[i]
<1>1. /\ s \o t \in Seq(S)
      /\ Len(s \o t) = Len(s) + Len(t)
      /\ \A i \in 1 .. Len(s) + Len(t) :
            (s \o t)[i] = IF i <= Len(s) THEN s[i] ELSE t[i - Len(s)]
  BY ConcatProperties
<1>2. Len(s) \in Nat /\ Len(t) \in Nat BY LenProperties
<1> QED BY <1>1, <1>2

LEMMA EnabledGrows ==
    ASSUME NEW A \in Seq(VisitRow), NEW k \in Nat
    PROVE  /\ Enabled(A, k) \in Seq(VisitRow)
           /\ Len(Enabled(A, k)) = Len(A) + k
           /\ Grown(A, Enabled(A, k))
<1> DEFINE new == [i \in 1 .. k |-> NewVisit]
<1>1. NewVisit \in VisitRow BY DEF NewVisit, VisitRow
<1>2. new \in [1 .. k -> VisitRow] BY <1>1
<1>3. new \in Seq(VisitRow) /\ Len(new) = k
  BY <1>2, SeqDef, LenProperties
<1> HIDE DEF new
<1>4. /\ A \o new \in Seq(VisitRow)
      /\ Len(A \o new) = Len(A) + Len(new)
      /\ \A i \in 1 .. Len(A) : (A \o new)[i] = A[i]
  BY <1>3, Concatenated
<1>5. DOMAIN A = 1 .. Len(A) /\ Len(A) \in Nat /\ DOMAIN (A \o new) = 1 .. Len(A) + k
  BY <1>3, <1>4, LenProperties
<1>6. Grown(A, A \o new) BY <1>3, <1>4, <1>5 DEF Grown
<1> QED BY <1>3, <1>4, <1>6 DEF Enabled, new

LEMMA SeenAdvances ==
    ASSUME NEW A \in [Goals -> Seq(VisitRow)], NEW B \in [Goals -> Seq(VisitRow)],
           Advanced(A, B), NEW i, Seen(A, i)
    PROVE  Seen(B, i)
<1>1. /\ i.goal \in Goals /\ i.visit \in DOMAIN A[i.goal]
      /\ i.revision \in Nat
  BY DEF Seen, Item
<1>2. i.visit \in DOMAIN B[i.goal] BY <1>1 DEF Advanced, Grown
<1>3. A[i.goal][i.visit] \in VisitRow /\ B[i.goal][i.visit] \in VisitRow
  BY <1>1, <1>2, ElementOfSeq, LenProperties
<1>4. A[i.goal][i.visit].revision \in Nat /\ B[i.goal][i.visit].revision \in Nat
  BY <1>3 DEF VisitRow
<1>5. \/ A[i.goal][i.visit].revision < B[i.goal][i.visit].revision
      \/ /\ A[i.goal][i.visit].revision = B[i.goal][i.visit].revision
         /\ A[i.goal][i.visit].used = B[i.goal][i.visit].used
  BY <1>1, Zenon DEF Advanced, Grown
<1>6. \/ i.revision < A[i.goal][i.visit].revision
      \/ i.revision = A[i.goal][i.visit].revision /\ i.used = A[i.goal][i.visit].used
  BY Zenon DEF Seen
<1>7. \/ i.revision < B[i.goal][i.visit].revision
      \/ i.revision = B[i.goal][i.visit].revision /\ i.used = B[i.goal][i.visit].used
  BY <1>1, <1>4, <1>5, <1>6
<1> QED BY <1>2, <1>7, Zenon DEF Seen

LEMMA SpentAdvances ==
    ASSUME NEW A \in [Goals -> Seq(VisitRow)], NEW B \in [Goals -> Seq(VisitRow)],
           Advanced(A, B), NEW input, UsedUp(A, input)
    PROVE  UsedUp(B, input)
<1> SUFFICES ASSUME input.fenced PROVE UsedUp(B, input) BY DEF UsedUp
<1> DEFINE g == input.goal
           v == input.item.visit
<1>1. /\ input.item \in Item /\ input.item.goal = g
      /\ v \in DOMAIN A[g] /\ input.item.revision < A[g][v].revision
  BY DEF UsedUp
<1>2. g \in Goals /\ input.item.revision \in Nat BY <1>1 DEF Item
<1>3. v \in DOMAIN B[g] BY <1>1, <1>2 DEF Advanced, Grown
<1>4. A[g][v] \in VisitRow /\ B[g][v] \in VisitRow
  BY <1>1, <1>2, <1>3, ElementOfSeq, LenProperties
<1>5. A[g][v].revision \in Nat /\ B[g][v].revision \in Nat BY <1>4 DEF VisitRow
<1>6. A[g][v].revision < B[g][v].revision \/ A[g][v].revision = B[g][v].revision
  BY <1>1, <1>2, Zenon DEF Advanced, Grown
<1>7. input.item.revision < B[g][v].revision BY <1>1, <1>2, <1>5, <1>6
<1> QED BY <1>1, <1>3, <1>7 DEF UsedUp

LEMMA AllSeenAdvances ==
    ASSUME NEW A \in [Goals -> Seq(VisitRow)], NEW B \in [Goals -> Seq(VisitRow)],
           Advanced(A, B), AllSeen(A)
    PROVE  AllSeen(B)
<1>1. ASSUME NEW c, CallSeen(A, c) PROVE CallSeen(B, c)
  BY <1>1, SeenAdvances DEF CallSeen
<1>2. ASSUME NEW r \in Reviewers, NEW i \in review[r].items PROVE Seen(B, i)
  BY <1>2, SeenAdvances DEF AllSeen
<1> QED BY <1>1, <1>2 DEF AllSeen

-----------------------------------------------------------------------------
(* Reserving an attempt. *)

LEMMA Appended ==
    ASSUME NEW S, NEW s \in Seq(S), NEW x \in S
    PROVE  /\ Append(s, x) \in Seq(S)
           /\ Len(s) \in Nat
           /\ DOMAIN s = 1 .. Len(s)
           /\ DOMAIN Append(s, x) = 1 .. Len(s) + 1
           /\ \A i \in DOMAIN s : Append(s, x)[i] = s[i]
           /\ Append(s, x)[Len(s) + 1] = x
<1>1. /\ Append(s, x) \in Seq(S) /\ Len(Append(s, x)) = Len(s) + 1
      /\ \A i \in 1 .. Len(s) : Append(s, x)[i] = s[i]
      /\ Append(s, x)[Len(s) + 1] = x
  BY AppendProperties
<1>2. Len(s) \in Nat /\ DOMAIN s = 1 .. Len(s) BY LenProperties
<1>3. DOMAIN Append(s, x) = 1 .. Len(s) + 1 BY <1>1, LenProperties
<1> QED BY <1>1, <1>2, <1>3

\* A recorded answer stays one when another request is answered.
LEMMA AnswersExtended ==
    ASSUME NEW T \in Seq(AttemptRow), NEW L, AnswersMatch(T, L), NEW input, NEW x \in AttemptRow,
           x.goal = input.goal, x.request = input.request,
           x.item = IF input.fenced THEN input.item ELSE NoItem,
           input.request # NoRequest => \A r \in L : KeyOf(r.input) # KeyOf(input)
    PROVE  AnswersMatch(Append(T, x),
               IF input.request = NoRequest THEN L
               ELSE L \cup {[input |-> input, attempt |-> Len(T) + 1]})
<1> DEFINE n == Len(T) + 1
           U == Append(T, x)
           e == [input |-> input, attempt |-> n]
           M == IF input.request = NoRequest THEN L ELSE L \cup {e}
<1>1. /\ Len(T) \in Nat /\ DOMAIN T = 1 .. Len(T) /\ DOMAIN U = 1 .. n
      /\ \A i \in DOMAIN T : U[i] = T[i]
      /\ U[n] = x
  BY Appended
<1>2. DOMAIN U = DOMAIN T \cup {n} /\ n \notin DOMAIN T BY <1>1
<1>3. e.input = input /\ e.attempt = n OBVIOUS
<1> HIDE DEF n, U, e
<1>4. ASSUME NEW r \in L
      PROVE  /\ r.input.request # NoRequest
             /\ r.attempt \in DOMAIN U
             /\ AnswerFor(r, U, r.attempt)
             /\ r.attempt # n
  <2>1. r.input.request # NoRequest /\ r.attempt \in DOMAIN T /\ AnswerFor(r, T, r.attempt)
    BY Zenon DEF AnswersMatch
  <2>2. U[r.attempt] = T[r.attempt] BY <1>1, <2>1
  <2> QED BY <1>2, <2>1, <2>2 DEF AnswerFor
<1>5. ASSUME NEW a \in DOMAIN U, U[a].request # NoRequest
      PROVE  \E r \in M : AnswerFor(r, U, a)
  <2>1. CASE a \in DOMAIN T
    <3>1. PICK r \in L : AnswerFor(r, T, a) BY <1>1, <1>5, <2>1 DEF AnswersMatch
    <3>2. AnswerFor(r, U, a) BY <1>1, <2>1, <3>1 DEF AnswerFor
    <3> QED BY <3>1, <3>2
  <2>2. CASE a = n
    <3>1. input.request # NoRequest BY <1>1, <1>5, <2>2
    <3>2. AnswerFor(e, U, a) BY <1>1, <1>3, <2>2 DEF AnswerFor
    <3> QED BY <3>1, <3>2
  <2> QED BY <1>2, <2>1, <2>2
<1>6. ASSUME NEW r \in M
      PROVE  /\ r.input.request # NoRequest
             /\ r.attempt \in DOMAIN U
             /\ AnswerFor(r, U, r.attempt)
  <2>1. CASE r \in L BY <1>4, <2>1
  <2>2. CASE r = e /\ input.request # NoRequest BY <1>1, <1>2, <1>3, <2>2 DEF AnswerFor
  <2> QED BY <2>1, <2>2
<1>7. ASSUME NEW r \in M, NEW s \in M, KeyOf(r.input) = KeyOf(s.input)
      PROVE  r.attempt = s.attempt
  <2>1. CASE r \in L /\ s \in L BY <1>7, <2>1 DEF AnswersMatch
  <2>2. CASE ~(r \in L /\ s \in L)
    <3>1. input.request # NoRequest BY <2>2
    <3>2. r = e /\ s = e BY <1>3, <1>7, <2>2, <3>1
    <3> QED BY <3>2
  <2> QED BY <2>1, <2>2
<1>8. AnswersMatch(U, M) BY <1>5, <1>6, <1>7, Zenon DEF AnswersMatch
<1> QED BY <1>8 DEF U, M, e, n

\* What reserving an attempt does, under request input and in a batch.
Reservation(input, batch) ==
    /\ RowsInv(goals', acts', attempts', recorded')
    /\ acts' \in [Goals -> Seq(VisitRow)]
    /\ Advanced(acts, acts')
    /\ recorded' = IF input.request = NoRequest THEN recorded
                   ELSE recorded \cup {[input |-> input, attempt |-> Len(attempts) + 1]}
    /\ DOMAIN attempts' = DOMAIN attempts \cup {Len(attempts) + 1}
    /\ \A a \in DOMAIN attempts : attempts'[a] = attempts[a]
    /\ attempts'[Len(attempts) + 1].batch = batch
    /\ input.fenced => attempts'[Len(attempts) + 1].item = input.item

LEMMA Reserved ==
    ASSUME RowsInv(goals, acts, attempts, recorded),
           NEW g \in Goals, NEW A \in Seq(VisitRow), Grown(acts[g], A), NEW v \in DOMAIN A,
           NEW input \in Input, input.goal = g, NEW batch \in SUBSET Item,
           input.request # NoRequest => Earlier(input) = {},
           input.fenced =>
               /\ input.item \in Item /\ input.item.goal = g /\ input.item.visit = v
               /\ input.item.revision = A[v].revision /\ input.item.used = A[v].used,
           ReserveIn(A, g, v, input, batch)
    PROVE  Reservation(input, batch)
<1> DEFINE x == Attempt(g, v, A[v].used, input, batch)
           y == Running(A[v])
           B == [A EXCEPT ![v] = y]
<1> USE DEF RowsInv, RowsTyped
<1>1. A[v] \in VisitRow BY ElementOfSeq, LenProperties
<1>2. y \in VisitRow /\ A[v].revision < y.revision BY <1>1 DEF Running, VisitRow
<1>3. B \in Seq(VisitRow) /\ Grown(A, B) BY <1>2, VisitRewritten
<1>4. acts[g] \in Seq(VisitRow) OBVIOUS
<1>5. Grown(acts[g], B) BY <1>3, <1>4, GrownTransitive
<1>6. acts' = [acts EXCEPT ![g] = B] BY DEF ReserveIn
<1>7. DOMAIN B = DOMAIN A OBVIOUS
<1>8. /\ x.goal = g /\ x.visit = v /\ x.request = input.request
      /\ x.item = IF input.fenced THEN input.item ELSE NoItem
      /\ x.number = A[v].used + 1 /\ x.batch = batch
  BY DEF Attempt
<1>9. v \in Nat BY LenProperties
<1>10. x \in AttemptRow
  BY <1>1, <1>9 DEF Attempt, AttemptRow, VisitRow, Input, RequestId
<1> HIDE DEF x, y, B
<1>11. /\ attempts' = Append(attempts, x)
       /\ goals' = [goals EXCEPT ![g].status = "active"]
       /\ recorded' = IF input.request = NoRequest THEN recorded
                      ELSE recorded \cup {[input |-> input, attempt |-> Len(attempts) + 1]}
  BY DEF ReserveIn, Record, x
<1>12. acts' \in [Goals -> Seq(VisitRow)] BY <1>3, <1>6
<1>13. Advanced(acts, acts')
  <2>1. ASSUME NEW h \in Goals PROVE Grown(acts[h], acts'[h])
    <3>1. CASE h = g BY <1>5, <1>6, <3>1
    <3>2. CASE h # g BY <1>6, <3>2 DEF Grown
    <3> QED BY <3>1, <3>2
  <2> QED BY <2>1 DEF Advanced
<1>14. goals' \in [Goals -> GoalRow] BY <1>11 DEF GoalRow
<1>15. /\ attempts' \in Seq(AttemptRow)
       /\ DOMAIN attempts' = DOMAIN attempts \cup {Len(attempts) + 1}
       /\ \A a \in DOMAIN attempts : attempts'[a] = attempts[a]
       /\ attempts'[Len(attempts) + 1] = x
       /\ Len(attempts) + 1 \in Nat
  BY <1>10, <1>11, Appended
<1>16. recorded' \in SUBSET Answer BY <1>11, <1>15 DEF Answer
<1>17. VisitsKnown(acts', attempts')
  <2>1. ASSUME NEW a \in DOMAIN attempts
        PROVE  attempts'[a].visit \in DOMAIN acts'[attempts'[a].goal]
    <3>1. attempts[a] \in AttemptRow BY ElementOfSeq, LenProperties
    <3>2. attempts[a].goal \in Goals BY <3>1 DEF AttemptRow
    <3> QED BY <1>13, <1>15, <3>2 DEF VisitsKnown, Advanced, Grown
  <2>2. x.visit \in DOMAIN acts'[x.goal] BY <1>6, <1>7, <1>8
  <2> QED BY <1>15, <2>1, <2>2 DEF VisitsKnown
<1>18. AnswersMatch(attempts', recorded')
  <2>1. input.request # NoRequest => \A r \in recorded : KeyOf(r.input) # KeyOf(input)
    BY DEF Earlier
  <2>2. AnswersMatch(attempts, recorded) OBVIOUS
  <2> QED BY <1>8, <1>10, <1>11, <2>1, <2>2, AnswersExtended
<1>19. AsReviewed(attempts')
  <2>1. x.item # NoItem => x.number = x.item.used + 1 BY <1>8
  <2> QED BY <1>15, <2>1 DEF AsReviewed
<1>20. Spent(acts', recorded')
  <2>1. ASSUME NEW r \in recorded PROVE UsedUp(acts', r.input)
    BY <1>12, <1>13, SpentAdvances DEF Spent
  <2>2. UsedUp(acts', input)
    <3>1. acts'[g] = B /\ B[v] = y BY <1>6 DEF B
    <3> QED BY <1>2, <1>7, <3>1 DEF UsedUp
  <2>3. [input |-> input, attempt |-> Len(attempts) + 1].input = input OBVIOUS
  <2> QED BY <1>11, <2>1, <2>2, <2>3 DEF Spent
<1>21. RowsInv(goals', acts', attempts', recorded')
  BY <1>12, <1>14, <1>15, <1>16, <1>17, <1>18, <1>19, <1>20
<1> QED BY <1>8, <1>11, <1>12, <1>13, <1>15, <1>21 DEF Reservation

-----------------------------------------------------------------------------
(* Everything else changes the progress of attempts and not what they are. *)

SameReservations(T, U) ==
    /\ DOMAIN U = DOMAIN T
    /\ \A a \in DOMAIN T :
          /\ U[a].goal = T[a].goal
          /\ U[a].visit = T[a].visit
          /\ U[a].number = T[a].number
          /\ U[a].request = T[a].request
          /\ U[a].item = T[a].item
          /\ U[a].batch = T[a].batch

LEMMA Moved ==
    ASSUME RowsInv(goals, acts, attempts, recorded),
           goals' \in [Goals -> GoalRow],
           acts' \in [Goals -> Seq(VisitRow)], Advanced(acts, acts'),
           attempts' \in Seq(AttemptRow), SameReservations(attempts, attempts'),
           recorded' = recorded
    PROVE  /\ RowsInv(goals', acts', attempts', recorded')
           /\ Together(attempts) => Together(attempts')
<1> USE DEF RowsInv, RowsTyped
<1>1. VisitsKnown(acts', attempts')
  <2> SUFFICES ASSUME NEW a \in DOMAIN attempts
               PROVE  attempts'[a].visit \in DOMAIN acts'[attempts'[a].goal]
    BY DEF VisitsKnown, SameReservations
  <2>1. attempts[a] \in AttemptRow BY ElementOfSeq, LenProperties
  <2>2. attempts[a].goal \in Goals BY <2>1 DEF AttemptRow
  <2> QED BY <2>2 DEF VisitsKnown, SameReservations, Advanced, Grown
<1>2. AnswersMatch(attempts', recorded')
  <2>1. ASSUME NEW a \in DOMAIN attempts, NEW r
        PROVE  AnswerFor(r, attempts', a) <=> AnswerFor(r, attempts, a)
    BY DEF AnswerFor, SameReservations
  <2> QED BY <2>1, Zenon DEF AnswersMatch, SameReservations
<1>3. AsReviewed(attempts') BY DEF AsReviewed, SameReservations
<1>4. Spent(acts', recorded') BY SpentAdvances DEF Spent
<1>5. ASSUME Together(attempts) PROVE Together(attempts')
  <2>1. ASSUME NEW B, NEW i, Covered(attempts, B, i) PROVE Covered(attempts', B, i)
    BY <2>1 DEF Covered, SameReservations
  <2> QED BY <1>5, <2>1 DEF Together, SameReservations
<1> QED BY <1>1, <1>2, <1>3, <1>4, <1>5

-----------------------------------------------------------------------------
(* Shapes of the steps on goals and attempts. *)

LEMMA AdvancedReflexive == ASSUME NEW A PROVE Advanced(A, A)
BY DEF Advanced, Grown

LEMMA GoalAdvances ==
    ASSUME NEW A \in [Goals -> Seq(VisitRow)], NEW g \in Goals, NEW B \in Seq(VisitRow),
           Grown(A[g], B)
    PROVE  /\ [A EXCEPT ![g] = B] \in [Goals -> Seq(VisitRow)]
           /\ Advanced(A, [A EXCEPT ![g] = B])
<1>1. ASSUME NEW h \in Goals PROVE Grown(A[h], [A EXCEPT ![g] = B][h])
  <2>1. CASE h = g BY <2>1
  <2>2. CASE h # g BY <2>2 DEF Grown
  <2> QED BY <2>1, <2>2
<1> QED BY <1>1 DEF Advanced

LEMMA VisitEnded ==
    ASSUME NEW r \in VisitRow, NEW s \in {"ready", "running", "succeeded", "failed", "canceled"}
    PROVE  /\ Revised(r, s) \in VisitRow
           /\ r.revision < Revised(r, s).revision
           /\ [r EXCEPT !.status = s] \in VisitRow
           /\ [r EXCEPT !.status = s].revision = r.revision
           /\ [r EXCEPT !.status = s].used = r.used
<1> DEFINE q == [r EXCEPT !.status = s]
<1>1. /\ q \in VisitRow /\ q.revision = r.revision /\ q.used = r.used
      /\ r.revision \in Nat
  BY DEF VisitRow
<1>2. Revised(r, s) = [q EXCEPT !.revision = r.revision + 1]
  BY DEF VisitRow, Revised
<1> HIDE DEF q
<1>3. r.revision + 1 \in Nat /\ r.revision < r.revision + 1 BY <1>1
<1>4. ASSUME NEW n \in Nat
      PROVE  [q EXCEPT !.revision = n] \in VisitRow /\ [q EXCEPT !.revision = n].revision = n
  BY <1>1 DEF VisitRow
<1>5. /\ [q EXCEPT !.revision = r.revision + 1] \in VisitRow
      /\ [q EXCEPT !.revision = r.revision + 1].revision = r.revision + 1
  BY <1>3, <1>4, Zenon
<1> QED BY <1>1, <1>2, <1>3, <1>5 DEF q

\* What a step on the rows alone has to establish.
LEMMA RowsStep ==
    ASSUME IInv, Unlocked, tx' = tx, agentUp' \in BOOLEAN,
           RowsInv(goals', acts', attempts', recorded'),
           acts' \in [Goals -> Seq(VisitRow)], Advanced(acts, acts'),
           recorded \subseteq recorded', Together(attempts'),
           UNCHANGED <<calls, told, review>>
    PROVE  IInv'
<1>1. acts \in [Goals -> Seq(VisitRow)] BY DEF IInv, RowsInv, RowsTyped
<1>2. AllSeen(acts') BY <1>1, AllSeenAdvances DEF IInv
<1>3. AllSeen(acts)' BY <1>2 DEF AllSeen
<1>4. CallsTyped' BY DEF IInv, CallsTyped
<1>5. ToldRecorded' BY DEF IInv, ToldRecorded
<1>6. BatchInv' BY DEF BatchInv, Unlocked
<1> QED BY <1>3, <1>4, <1>5, <1>6 DEF IInv

LEMMA MovedStep ==
    ASSUME IInv, Unlocked, tx' = tx,
           goals' \in [Goals -> GoalRow],
           acts' \in [Goals -> Seq(VisitRow)], Advanced(acts, acts'),
           attempts' \in Seq(AttemptRow), SameReservations(attempts, attempts'),
           UNCHANGED <<agentUp, recorded, calls, told, review>>
    PROVE  IInv'
<1>1. RowsInv(goals', acts', attempts', recorded') /\ Together(attempts')
  BY Moved DEF IInv
<1> QED BY <1>1, RowsStep DEF IInv

LEMMA TogetherExtended ==
    ASSUME NEW T, NEW U, NEW n, Together(T),
           DOMAIN U = DOMAIN T \cup {n}, \A a \in DOMAIN T : U[a] = T[a], U[n].batch = {}
    PROVE  Together(U)
BY DEF Together, Covered

LEMMA ReservedStep ==
    ASSUME IInv, Unlocked, tx' = tx,
           NEW g \in Goals, NEW A \in Seq(VisitRow), Grown(acts[g], A), NEW v \in DOMAIN A,
           ReserveIn(A, g, v, NoInput(g), {}),
           UNCHANGED <<agentUp, calls, told, review>>
    PROVE  IInv'
<1> DEFINE input == NoInput(g)
<1>1. /\ input \in Input /\ input.goal = g /\ input.request = NoRequest /\ ~input.fenced
  BY DEF NoInput, Input, RequestId
<1> HIDE DEF input
<1>2. RowsInv(goals, acts, attempts, recorded) BY DEF IInv
<1>3. ReserveIn(A, g, v, input, {}) BY DEF input
<1>4. /\ RowsInv(goals', acts', attempts', recorded')
      /\ acts' \in [Goals -> Seq(VisitRow)]
      /\ Advanced(acts, acts')
      /\ recorded' = recorded
      /\ DOMAIN attempts' = DOMAIN attempts \cup {Len(attempts) + 1}
      /\ \A a \in DOMAIN attempts : attempts'[a] = attempts[a]
      /\ attempts'[Len(attempts) + 1].batch = {}
  <2>1. Reservation(input, {}) BY <1>1, <1>2, <1>3, Reserved
  <2> QED BY <1>1, <2>1 DEF Reservation
<1>5. Together(attempts') BY <1>4, TogetherExtended DEF IInv
<1> QED BY <1>4, <1>5, RowsStep DEF IInv

LEMMA ReadyVisitsKnown ==
    ASSUME NEW g, NEW v \in ReadyVisits(g)
    PROVE  v \in DOMAIN acts[g]
BY DEF ReadyVisits

LEMMA ActivateGoalInv ==
    ASSUME IInv, NEW g \in Goals, ActivateGoal(g) PROVE IInv'
<1> USE DEF IInv, RowsInv, RowsTyped
<1>1. PICK k \in Activated(g) : acts' = [acts EXCEPT ![g] = Enabled(@, k)] BY DEF ActivateGoal
<1>2. k \in Nat BY BoundsAssumption DEF Activated
<1>3. acts' = [acts EXCEPT ![g] = Enabled(acts[g], k)] BY <1>1
<1>4. Enabled(acts[g], k) \in Seq(VisitRow) /\ Grown(acts[g], Enabled(acts[g], k))
  BY <1>2, EnabledGrows
<1>5. acts' \in [Goals -> Seq(VisitRow)] /\ Advanced(acts, acts')
  BY <1>3, <1>4, GoalAdvances
<1>6. goals' \in [Goals -> GoalRow] BY DEF ActivateGoal, GoalRow
<1>7. attempts' \in Seq(AttemptRow) /\ SameReservations(attempts, attempts')
  BY DEF ActivateGoal, SameReservations
<1> QED BY <1>5, <1>6, <1>7, MovedStep DEF ActivateGoal

LEMMA StartGoalInv ==
    ASSUME IInv, NEW g \in Goals, StartGoal(g) \/ RetryExecution(g) PROVE IInv'
<1>1. acts \in [Goals -> Seq(VisitRow)] /\ acts[g] \in Seq(VisitRow)
  BY DEF IInv, RowsInv, RowsTyped
<1>2. Unlocked /\ tx' = tx /\ UNCHANGED <<agentUp, calls, told, review>>
  BY DEF StartGoal, RetryExecution
<1>3. CASE \E v \in ReadyVisits(g) : Reserve(g, v, NoInput(g), {})
  <2>1. PICK v \in ReadyVisits(g) : ReserveIn(acts[g], g, v, NoInput(g), {})
    BY <1>3 DEF Reserve
  <2>2. v \in DOMAIN acts[g] BY ReadyVisitsKnown
  <2>3. Grown(acts[g], acts[g]) BY DEF Grown
  <2> QED BY <1>1, <1>2, <2>1, <2>2, <2>3, ReservedStep
<1>4. CASE \E k \in 1 .. MaxVisits : ReserveIn(Enabled(acts[g], k), g, 1, NoInput(g), {})
  <2>1. PICK k \in 1 .. MaxVisits : ReserveIn(Enabled(acts[g], k), g, 1, NoInput(g), {})
    BY <1>4
  <2>2. k \in Nat /\ k >= 1 BY BoundsAssumption
  <2> DEFINE A == Enabled(acts[g], k)
  <2>3. A \in Seq(VisitRow) /\ Len(A) = Len(acts[g]) + k /\ Grown(acts[g], A)
    BY <1>1, <2>2, EnabledGrows
  <2> HIDE DEF A
  <2>4. 1 \in DOMAIN A BY <1>1, <2>2, <2>3, LenProperties
  <2>5. ReserveIn(A, g, 1, NoInput(g), {}) BY <2>1 DEF A
  <2> QED BY <1>2, <2>3, <2>4, <2>5, ReservedStep
<1>5. Activated(g) = 1 .. MaxVisits \/ goals[g].status # "draft" BY DEF Activated
<1> QED BY <1>3, <1>4, <1>5 DEF StartGoal, RetryExecution

LEMMA SequenceOf ==
    ASSUME NEW S, NEW n \in Nat, NEW s \in [1 .. n -> S]
    PROVE  s \in Seq(S)
BY SeqDef

LEMMA AttemptMoved ==
    ASSUME NEW t \in AttemptRow, NEW u,
           \/ u = t
           \/ u = [t EXCEPT !.owned = TRUE]
           \/ u = [t EXCEPT !.canceling = TRUE]
           \/ \E s \in {"succeeded", "failed", "canceled"} : u = [t EXCEPT !.status = s]
    PROVE  /\ u \in AttemptRow
           /\ u.goal = t.goal /\ u.visit = t.visit /\ u.number = t.number
           /\ u.request = t.request /\ u.item = t.item /\ u.batch = t.batch
<1>1. CASE u = t BY <1>1
<1>2. CASE u = [t EXCEPT !.owned = TRUE] BY <1>2 DEF AttemptRow
<1>3. CASE u = [t EXCEPT !.canceling = TRUE] BY <1>3 DEF AttemptRow
<1>4. ASSUME NEW s \in {"succeeded", "failed", "canceled"}, u = [t EXCEPT !.status = s]
      PROVE  /\ u \in AttemptRow
             /\ u.goal = t.goal /\ u.visit = t.visit /\ u.number = t.number
             /\ u.request = t.request /\ u.item = t.item /\ u.batch = t.batch
  BY <1>4 DEF AttemptRow
<1> QED BY <1>1, <1>2, <1>3, <1>4, Zenon

LEMMA CancelMoves ==
    ASSUME IInv, NEW g \in Goals, NEW stopped, Cancel(g, stopped)
    PROVE  /\ goals' \in [Goals -> GoalRow]
           /\ acts' \in [Goals -> Seq(VisitRow)] /\ Advanced(acts, acts')
           /\ attempts' \in Seq(AttemptRow) /\ SameReservations(attempts, attempts')
<1> USE DEF IInv, RowsInv, RowsTyped
<1>1. goals' \in [Goals -> GoalRow] BY DEF Cancel, GoalRow
<1>2. ASSUME NEW a \in DOMAIN attempts
      PROVE  /\ attempts'[a] \in AttemptRow
             /\ attempts'[a].goal = attempts[a].goal
             /\ attempts'[a].visit = attempts[a].visit
             /\ attempts'[a].number = attempts[a].number
             /\ attempts'[a].request = attempts[a].request
             /\ attempts'[a].item = attempts[a].item
             /\ attempts'[a].batch = attempts[a].batch
  <2>1. attempts[a] \in AttemptRow BY ElementOfSeq, LenProperties
  <2>2. \/ attempts'[a] = attempts[a]
        \/ attempts'[a] = [attempts[a] EXCEPT !.canceling = TRUE]
        \/ attempts'[a] = [attempts[a] EXCEPT !.status = "canceled"]
    BY DEF Cancel
  <2> QED BY <2>1, <2>2, AttemptMoved
<1>3. DOMAIN attempts' = DOMAIN attempts BY DEF Cancel
<1>4. attempts' \in Seq(AttemptRow)
  <2>1. DOMAIN attempts = 1 .. Len(attempts) /\ Len(attempts) \in Nat BY LenProperties
  <2>2. attempts' \in [1 .. Len(attempts) -> AttemptRow] BY <1>2, <2>1 DEF Cancel
  <2> QED BY <2>1, <2>2, SequenceOf, Zenon
<1>5. SameReservations(attempts, attempts') BY <1>2, <1>3 DEF SameReservations
<1> DEFINE B == acts'[g]
<1>6. acts' = [acts EXCEPT ![g] = B] /\ DOMAIN B = DOMAIN acts[g] BY DEF Cancel
<1>7. ASSUME NEW v \in DOMAIN acts[g]
      PROVE  /\ B[v] \in VisitRow
             /\ \/ acts[g][v].revision < B[v].revision
                \/ acts[g][v].revision = B[v].revision /\ acts[g][v].used = B[v].used
  <2>1. acts[g][v] \in VisitRow BY ElementOfSeq, LenProperties
  <2>2. \/ B[v] = acts[g][v]
        \/ B[v] = [acts[g][v] EXCEPT !.status = "canceled"]
        \/ B[v] = Revised(acts[g][v], "canceled")
    BY DEF Cancel
  <2> DEFINE r == acts[g][v]
             q == Revised(r, "canceled")
             u == [r EXCEPT !.status = "canceled"]
  <2>3. /\ q \in VisitRow /\ r.revision < q.revision
        /\ u \in VisitRow /\ u.revision = r.revision /\ u.used = r.used
    BY <2>1, VisitEnded, Zenon
  <2> HIDE DEF B, r, q, u
  <2>4. CASE B[v] = r BY <2>1, <2>4, Zenon DEF r
  <2>5. CASE B[v] = u BY <2>3, <2>5, Zenon DEF r
  <2>6. CASE B[v] = q BY <2>3, <2>6, Zenon DEF r
  <2> QED BY <2>2, <2>4, <2>5, <2>6, Zenon DEF r, q, u
<1>8. B \in Seq(VisitRow)
  <2>1. DOMAIN acts[g] = 1 .. Len(acts[g]) /\ Len(acts[g]) \in Nat BY LenProperties
  <2>2. B \in [1 .. Len(acts[g]) -> VisitRow] BY <1>7, <2>1 DEF Cancel
  <2> HIDE DEF B
  <2> QED BY <2>1, <2>2, SequenceOf, Zenon
<1> HIDE DEF B
<1>9. Grown(acts[g], B) BY <1>6, <1>7 DEF Grown
<1>10. acts' \in [Goals -> Seq(VisitRow)] /\ Advanced(acts, acts')
  BY <1>6, <1>8, <1>9, GoalAdvances
<1> QED BY <1>1, <1>4, <1>5, <1>10

LEMMA CancelGoalInv ==
    ASSUME IInv, NEW g \in Goals, CancelGoal(g) PROVE IInv'
BY CancelMoves, MovedStep DEF CancelGoal

LEMMA SwitchAgentInv == ASSUME IInv, SwitchAgent PROVE IInv'
<1>1. Advanced(acts, acts') BY AdvancedReflexive DEF SwitchAgent
<1>2. RowsInv(goals', acts', attempts', recorded') BY DEF SwitchAgent, IInv
<1>3. acts' \in [Goals -> Seq(VisitRow)] BY DEF SwitchAgent, IInv, RowsInv, RowsTyped
<1>4. Together(attempts') BY DEF SwitchAgent, IInv
<1> QED BY <1>1, <1>2, <1>3, <1>4, RowsStep DEF SwitchAgent, IInv

LEMMA AttemptsTyped ==
    ASSUME IInv, NEW a \in DOMAIN attempts
    PROVE  /\ attempts[a] \in AttemptRow
           /\ attempts[a].goal \in Goals
           /\ attempts[a].visit \in DOMAIN acts[attempts[a].goal]
<1>1. attempts \in Seq(AttemptRow) /\ VisitsKnown(acts, attempts)
  BY DEF IInv, RowsInv, RowsTyped
<1>2. attempts[a] \in AttemptRow BY <1>1, ElementOfSeq, LenProperties
<1> QED BY <1>1, <1>2 DEF AttemptRow, VisitsKnown

\* One attempt makes progress.
LEMMA AttemptRewritten ==
    ASSUME IInv, NEW a \in DOMAIN attempts, NEW u,
           \/ u = [attempts[a] EXCEPT !.owned = TRUE]
           \/ \E s \in {"succeeded", "failed", "canceled"} : u = [attempts[a] EXCEPT !.status = s],
           attempts' = [attempts EXCEPT ![a] = u]
    PROVE  attempts' \in Seq(AttemptRow) /\ SameReservations(attempts, attempts')
<1>1. attempts \in Seq(AttemptRow) BY DEF IInv, RowsInv, RowsTyped
<1>2. /\ u \in AttemptRow
      /\ u.goal = attempts[a].goal /\ u.visit = attempts[a].visit
      /\ u.number = attempts[a].number /\ u.request = attempts[a].request
      /\ u.item = attempts[a].item /\ u.batch = attempts[a].batch
  BY AttemptsTyped, AttemptMoved
<1>3. a \in 1 .. Len(attempts) BY <1>1, LenProperties
<1>4. attempts' \in Seq(AttemptRow) BY <1>1, <1>2, <1>3, ExceptSeq, Zenon
<1>5. SameReservations(attempts, attempts') BY <1>2 DEF SameReservations
<1> QED BY <1>4, <1>5

LEMMA ClaimAttemptInv ==
    ASSUME IInv, NEW a \in DOMAIN attempts, ClaimAttempt(a) PROVE IInv'
<1>1. attempts' = [attempts EXCEPT ![a] = [attempts[a] EXCEPT !.owned = TRUE]]
  BY DEF ClaimAttempt
<1>2. attempts' \in Seq(AttemptRow) /\ SameReservations(attempts, attempts')
  BY <1>1, AttemptRewritten
<1>3. /\ goals' \in [Goals -> GoalRow]
      /\ acts' \in [Goals -> Seq(VisitRow)] /\ Advanced(acts, acts')
  BY AdvancedReflexive DEF ClaimAttempt, IInv, RowsInv, RowsTyped
<1> QED BY <1>2, <1>3, MovedStep DEF ClaimAttempt

LEMMA EndedGrows ==
    ASSUME IInv, NEW a \in DOMAIN attempts, NEW s \in {"succeeded", "failed", "canceled"}
    PROVE  Ended(a, s) \in Seq(VisitRow) /\ Grown(acts[attempts[a].goal], Ended(a, s))
           /\ Len(Ended(a, s)) = Len(acts[attempts[a].goal])
<1> DEFINE g == attempts[a].goal
           v == attempts[a].visit
           r == acts[g][v]
           x == Revised(r, s)
<1>1. g \in Goals /\ v \in DOMAIN acts[g] BY AttemptsTyped
<1>2. acts[g] \in Seq(VisitRow) BY <1>1 DEF IInv, RowsInv, RowsTyped
<1>3. r \in VisitRow BY <1>1, <1>2, ElementOfSeq, LenProperties
<1>4. x \in VisitRow /\ r.revision < x.revision BY <1>3, VisitEnded
<1>5. Ended(a, s) = [acts[g] EXCEPT ![v] = x] BY DEF Ended
<1> HIDE DEF x, g, v
<1>6. [acts[g] EXCEPT ![v] = x] \in Seq(VisitRow) /\ Grown(acts[g], [acts[g] EXCEPT ![v] = x])
  BY <1>1, <1>2, <1>4, VisitRewritten
<1>7. Len([acts[g] EXCEPT ![v] = x]) = Len(acts[g])
  BY <1>1, <1>2, <1>4, ExceptSeq, LenProperties
<1> QED BY <1>5, <1>6, <1>7 DEF g

LEMMA GoalStatusTyped ==
    ASSUME NEW A, NEW c \in BOOLEAN
    PROVE  [status |-> GoalStatus(A, c), canceling |-> c] \in GoalRow
BY DEF GoalStatus, GoalRow

LEMMA ReportInv ==
    ASSUME IInv, NEW a \in DOMAIN attempts, ReportSucceeded(a) \/ ReportFailed(a)
    PROVE  IInv'
<1> DEFINE g == attempts[a].goal
<1>1. g \in Goals /\ acts \in [Goals -> Seq(VisitRow)] /\ acts[g] \in Seq(VisitRow)
      /\ goals \in [Goals -> GoalRow]
  BY AttemptsTyped DEF IInv, RowsInv, RowsTyped
<1>2. PICK s \in {"succeeded", "failed", "canceled"} :
        attempts' = [attempts EXCEPT ![a] = [attempts[a] EXCEPT !.status = s]]
  BY DEF ReportSucceeded, ReportFailed
<1>3. attempts' \in Seq(AttemptRow) /\ SameReservations(attempts, attempts')
  BY <1>2, AttemptRewritten
<1>4. \E A \in Seq(VisitRow) : Grown(acts[g], A) /\ Settle(g, A, goals[g].canceling)
  <2>1. CASE ReportSucceeded(a)
    <3>1. PICK k \in 0 .. (MaxVisits - Len(acts[g])) :
            Settle(g, Enabled(Ended(a, "succeeded"), k), goals[g].canceling)
      BY <2>1 DEF ReportSucceeded
    <3>2. k \in Nat BY BoundsAssumption, <1>1, LenProperties
    <3> DEFINE B == Ended(a, "succeeded")
    <3>3. B \in Seq(VisitRow) /\ Grown(acts[g], B) BY EndedGrows
    <3> HIDE DEF B
    <3>4. Enabled(B, k) \in Seq(VisitRow) /\ Grown(B, Enabled(B, k)) BY <3>2, <3>3, EnabledGrows
    <3>5. Grown(acts[g], Enabled(B, k)) BY <1>1, <3>3, <3>4, GrownTransitive
    <3> QED BY <3>1, <3>4, <3>5 DEF B
  <2>2. CASE ReportFailed(a) BY <2>2, EndedGrows DEF ReportFailed
  <2> QED BY <2>1, <2>2
<1>5. PICK A \in Seq(VisitRow) : Grown(acts[g], A) /\ Settle(g, A, goals[g].canceling) BY <1>4
<1>6. goals[g].canceling \in BOOLEAN BY <1>1 DEF GoalRow
<1>7. goals' \in [Goals -> GoalRow]
  BY <1>1, <1>5, <1>6, GoalStatusTyped DEF Settle
<1>8. acts' = [acts EXCEPT ![g] = A] BY <1>5 DEF Settle
<1>9. acts' \in [Goals -> Seq(VisitRow)] /\ Advanced(acts, acts')
  BY <1>1, <1>5, <1>8, GoalAdvances
<1> QED BY <1>3, <1>7, <1>9, MovedStep DEF ReportSucceeded, ReportFailed

LEMMA AttemptStepInv ==
    ASSUME IInv, NEW a \in DOMAIN attempts, AttemptStep(a) PROVE IInv'
<1>1. attempts[a].goal \in Goals BY AttemptsTyped
<1>2. CASE StopExecution(a) BY <1>1, <1>2, CancelMoves, MovedStep DEF StopExecution
<1>3. CASE ReportCanceled(a) BY <1>1, <1>3, CancelMoves, MovedStep DEF ReportCanceled
<1> QED BY <1>2, <1>3, ClaimAttemptInv, ReportInv DEF AttemptStep

LEMMA GoalStepInv ==
    ASSUME IInv, NEW g \in Goals, GoalStep(g) PROVE IInv'
BY ActivateGoalInv, StartGoalInv, CancelGoalInv DEF GoalStep

-----------------------------------------------------------------------------
(* Callers. *)

\* A plan describes the visits as they are.
LEMMA PlanSeen ==
    ASSUME IInv, NEW g \in Goals, NEW i \in GoalPlan(g)
    PROVE  i.goal = g /\ Seen(acts, i)
<1>1. PICK v \in ReadyVisits(g) : i = PlanItem(g, v) BY DEF GoalPlan
<1>2. acts[g] \in Seq(VisitRow) BY DEF IInv, RowsInv, RowsTyped
<1>3. v \in DOMAIN acts[g] /\ v \in Nat BY <1>2, ReadyVisitsKnown, LenProperties
<1>4. acts[g][v] \in VisitRow BY <1>2, <1>3, ElementOfSeq, LenProperties
<1>5. i \in Item BY <1>1, <1>3, <1>4 DEF PlanItem, Item, VisitRow
<1> QED BY <1>1, <1>3, <1>5 DEF PlanItem, Seen

LEMMA PlannedGoals ==
    ASSUME NEW c \in Callers \cup Reviewers PROVE Planned(Scope[c]) \subseteq Goals
BY ScopeAssumption DEF Planned

\* A step that changes no rows, and adds only what the rows say.
LEMMA CallersStep ==
    ASSUME IInv, Unlocked, tx' = tx,
           UNCHANGED <<goals, acts, attempts, agentUp, recorded>>,
           CallsTyped', AllSeen(acts)', ToldRecorded'
    PROVE  IInv'
<1>1. BatchInv' BY DEF BatchInv, Unlocked
<1> QED BY <1>1 DEF IInv

LEMMA CallInv == ASSUME IInv, NEW c \in Callers, Call(c) PROVE IInv'
<1>1. PICK input \in Inputs(c) :
        calls' = [calls EXCEPT ![c] = [at |-> "waiting", input |-> input]]
  BY DEF Call
<1>2. PICK g \in Planned(Scope[c]) :
        /\ input.goal = g /\ input.request \in Requests /\ input.fenced \in BOOLEAN
        /\ input = [goal |-> input.goal, request |-> input.request,
                    item |-> input.item, fenced |-> input.fenced]
        /\ \/ input.item \in GoalPlan(g)
           \/ input.item = NoItem /\ ~input.fenced
  <2>1. PICK g \in Planned(Scope[c]) :
          \/ input \in [goal : {g}, request : Requests, item : GoalPlan(g), fenced : BOOLEAN]
          \/ input \in [goal : {g}, request : Requests, item : {NoItem}, fenced : {FALSE}]
    BY Zenon DEF Inputs
  <2>2. CASE input \in [goal : {g}, request : Requests, item : GoalPlan(g), fenced : BOOLEAN]
    BY <2>2
  <2>3. CASE input \in [goal : {g}, request : Requests, item : {NoItem}, fenced : {FALSE}]
    BY <2>3
  <2> QED BY <2>1, <2>2, <2>3
<1>3. g \in Goals BY PlannedGoals
<1>4. input.item # NoItem => input.item.goal = g /\ Seen(acts, input.item)
  BY <1>2, <1>3, PlanSeen
<1>5. input.item \in Item \cup {NoItem} BY <1>4 DEF Seen
<1>6. input \in Input BY <1>2, <1>3, <1>5 DEF Input, RequestId
<1>7. input.fenced => input.item # NoItem
  BY <1>2, <1>3, PlanSeen, AbsenceAssumption DEF Seen
<1>8. CallSeen(acts, calls'[c]) BY <1>1, <1>2, <1>4, <1>6, <1>7 DEF CallSeen, IInv, CallsTyped
<1>9. AllSeen(acts)' BY <1>1, <1>8 DEF Call, IInv, AllSeen, CallsTyped
<1>10. CallsTyped' BY <1>1, <1>6 DEF Call, IInv, CallsTyped
<1>11. ToldRecorded' BY DEF Call, IInv, ToldRecorded
<1> QED BY <1>9, <1>10, <1>11, CallersStep DEF Call

\* A call that is over is not waiting any more.
LEMMA CallOver ==
    ASSUME NEW A, AllSeen(A), CallsTyped, NEW c \in Callers,
           \/ calls' = calls
           \/ \E s \in {"idle", "refused"} : calls' = [calls EXCEPT ![c] = [at |-> s, input |-> NoItem]],
           review' = review, told' \subseteq Answer
    PROVE  CallsTyped' /\ \A d \in Callers : CallSeen(A, calls'[d])
<1>1. CASE calls' = calls BY <1>1 DEF CallsTyped, AllSeen
<1>2. ASSUME NEW s \in {"idle", "refused"}, calls' = [calls EXCEPT ![c] = [at |-> s, input |-> NoItem]]
      PROVE  CallsTyped' /\ \A d \in Callers : CallSeen(A, calls'[d])
  <2>1. CallsTyped' BY <1>2 DEF CallsTyped
  <2>2. ASSUME NEW d \in Callers PROVE CallSeen(A, calls'[d])
    <3>1. CASE d = c BY <1>2, <3>1 DEF CallsTyped, CallSeen
    <3>2. CASE d # c BY <1>2, <3>2 DEF CallsTyped, AllSeen
    <3> QED BY <3>1, <3>2
  <2> QED BY <2>1, <2>2
<1> QED BY <1>1, <1>2

LEMMA CallEndsInv ==
    ASSUME IInv, NEW c \in Callers, ReplayCall(c) \/ RefuseCall(c) \/ GiveUp(c)
    PROVE  IInv'
<1>1. UNCHANGED <<goals, acts, attempts, agentUp, recorded, review, tx>>
  BY DEF ReplayCall, RefuseCall, GiveUp
<1>2. \/ calls' = calls
      \/ \E s \in {"idle", "refused"} : calls' = [calls EXCEPT ![c] = [at |-> s, input |-> NoItem]]
  BY DEF ReplayCall, RefuseCall, GiveUp, Reply
<1>3. told' \subseteq Answer /\ ToldRecorded'
  <2>1. CASE told' = told BY <1>1, <2>1 DEF IInv, CallsTyped, ToldRecorded
  <2>2. ASSUME NEW r \in Replayed(calls[c].input),
               told' = told \cup {[input |-> calls[c].input, attempt |-> r.attempt]}
        PROVE  told' \subseteq Answer /\ ToldRecorded'
    <3>1. r \in recorded /\ r.input = calls[c].input BY DEF Replayed, Earlier
    <3>2. r \in Answer BY <3>1 DEF IInv, RowsInv, RowsTyped
    <3>3. [input |-> calls[c].input, attempt |-> r.attempt] \in Answer BY <3>1, <3>2 DEF Answer
    <3> QED BY <1>1, <2>2, <3>1, <3>3 DEF IInv, CallsTyped, ToldRecorded
  <2> QED BY <2>1, <2>2 DEF ReplayCall, RefuseCall, GiveUp, Reply
<1>4. CallsTyped' /\ AllSeen(acts)' 
  <2>1. AllSeen(acts) /\ CallsTyped BY DEF IInv
  <2>2. AllSeen(acts') BY <1>1, <2>1
  <2>3. CallsTyped' /\ \A d \in Callers : CallSeen(acts, calls'[d])
    BY <1>1, <1>2, <1>3, <2>1, CallOver
  <2>4. \A d \in Callers : CallSeen(acts', calls'[d]) BY <1>1, <2>3
  <2> QED BY <1>1, <2>1, <2>3, <2>4 DEF AllSeen
<1>5. CASE Unlocked BY <1>1, <1>3, <1>4, <1>5, CallersStep
<1>6. CASE ~Unlocked
  <2>1. told' = told BY <1>6 DEF ReplayCall, RefuseCall, GiveUp
  <2>2. AllSeen(tx.saved.acts) /\ CallsTyped BY <1>6 DEF IInv, BatchInv
  <2>3. \A d \in Callers : CallSeen(tx.saved.acts, calls'[d])
    BY <1>1, <1>2, <1>3, <2>2, CallOver
  <2>4. AllSeen(tx.saved.acts)' BY <1>1, <2>2, <2>3 DEF AllSeen
  <2>5. BatchInv' BY <1>1, <2>1, <2>4 DEF IInv, BatchInv, Unlocked
  <2> QED BY <1>1, <1>3, <1>4, <1>6, <2>5 DEF IInv, Unlocked
<1> QED BY <1>5, <1>6

\* An item that is still fresh says how often its visit was attempted.
LEMMA FreshItem ==
    ASSUME IInv, NEW g \in Goals, NEW i, Seen(acts, i), i.goal = g,
           i.revision = acts[g][i.visit].revision
    PROVE  i.visit \in DOMAIN acts[g] /\ i.used = acts[g][i.visit].used
BY DEF Seen, Item

LEMMA ReserveCallInv ==
    ASSUME IInv, NEW c \in Callers, ReserveCall(c) PROVE IInv'
<1> DEFINE input == calls[c].input
           g == input.goal
           new == [input |-> input, attempt |-> Len(attempts) + 1]
<1>1. PICK v \in Chosen(input) : Reserve(g, v, input, {}) BY DEF ReserveCall
<1>2. /\ CallSeen(acts, calls[c]) /\ calls[c].at = "waiting"
      /\ Earlier(input) = {} /\ Unlocked /\ tx' = tx /\ agentUp' = agentUp /\ review' = review
  BY DEF ReserveCall, IInv, AllSeen
<1>3. input \in Input /\ g \in Goals BY <1>2 DEF CallSeen, Input
<1>4. acts[g] \in Seq(VisitRow) BY <1>3 DEF IInv, RowsInv, RowsTyped
<1>5. v \in DOMAIN acts[g]
  BY <1>1, ReadyVisitsKnown DEF Chosen
<1>6. ASSUME input.fenced
      PROVE  /\ input.item \in Item /\ input.item.goal = g /\ input.item.visit = v
             /\ input.item.revision = acts[g][v].revision /\ input.item.used = acts[g][v].used
  <2>1. input.item # NoItem /\ Seen(acts, input.item) /\ input.item.goal = g
    BY <1>2, <1>6 DEF CallSeen
  <2>2. v = input.item.visit /\ Fresh(input, v) BY <1>1, <2>1 DEF Chosen
  <2>3. input.item.revision = acts[g][input.item.visit].revision BY <1>6, <2>2 DEF Fresh
  <2> QED BY <1>3, <2>1, <2>2, <2>3, FreshItem DEF Seen
<1>7. Grown(acts[g], acts[g]) BY DEF Grown
<1>8. RowsInv(goals, acts, attempts, recorded) BY DEF IInv
<1>9. ReserveIn(acts[g], g, v, input, {}) BY <1>1 DEF Reserve
<1>10. \/ calls' = calls /\ told' = told
       \/ /\ calls' = [calls EXCEPT ![c] = [at |-> "idle", input |-> NoItem]]
          /\ told' = IF input.request = NoRequest THEN told ELSE told \cup {new}
  BY DEF ReserveCall, Reply
<1> HIDE DEF input, g
<1>11. g = input.goal BY DEF g, input
<1>12. /\ RowsInv(goals', acts', attempts', recorded')
       /\ acts' \in [Goals -> Seq(VisitRow)]
       /\ Advanced(acts, acts')
       /\ recorded' = IF input.request = NoRequest THEN recorded ELSE recorded \cup {new}
       /\ DOMAIN attempts' = DOMAIN attempts \cup {Len(attempts) + 1}
       /\ \A a \in DOMAIN attempts : attempts'[a] = attempts[a]
       /\ attempts'[Len(attempts) + 1].batch = {}
  <2>1. Reservation(input, {})
    BY <1>2, <1>3, <1>4, <1>5, <1>6, <1>7, <1>8, <1>9, <1>11, Reserved
  <2> QED BY <2>1 DEF Reservation
<1>13. recorded' \subseteq Answer BY <1>12 DEF RowsInv, RowsTyped
<1>14. told' \subseteq Answer BY <1>10, <1>12, <1>13 DEF IInv, CallsTyped
<1>15. ToldRecorded'
  <2>1. \A s \in told' : s \in told \/ s \in recorded' BY <1>10, <1>12
  <2>2. \A r \in recorded : r \in recorded' BY <1>12
  <2> HIDE DEF new
  <2> QED BY <2>1, <2>2 DEF IInv, ToldRecorded
<1>16. AllSeen(acts') /\ CallsTyped
  BY <1>12, AllSeenAdvances DEF IInv, RowsInv, RowsTyped
<1>17. CallsTyped' /\ \A d \in Callers : CallSeen(acts', calls'[d])
  <2>1. \/ calls' = calls
        \/ \E s \in {"idle", "refused"} : calls' = [calls EXCEPT ![c] = [at |-> s, input |-> NoItem]]
    BY <1>10
  <2> QED BY <1>2, <1>14, <1>16, <2>1, CallOver
<1>18. AllSeen(acts)' BY <1>2, <1>16, <1>17 DEF AllSeen
<1>19. BatchInv' BY <1>2 DEF BatchInv, Unlocked
<1>20. Together(attempts') BY <1>2, <1>12, TogetherExtended DEF IInv
<1> QED BY <1>2, <1>12, <1>15, <1>17, <1>18, <1>19, <1>20 DEF IInv

LEMMA CallerStepInv ==
    ASSUME IInv, NEW c \in Callers, CallerStep(c) PROVE IInv'
BY CallInv, CallEndsInv, ReserveCallInv DEF CallerStep

-----------------------------------------------------------------------------
(* Reviewers and batches. *)

ReviewRow == [at : {"none", "reading", "shown"}, todo : SUBSET Goals, items : SUBSET Item]

\* A page shows what it read, or less.
LEMMA ReviewChanges ==
    ASSUME IInv, NEW r \in Reviewers, NEW w \in ReviewRow,
           Distinct(w), \A i \in w.items : Seen(acts, i),
           review' = [review EXCEPT ![r] = w],
           UNCHANGED <<goals, acts, attempts, agentUp, recorded, calls, told, tx>>,
           Unlocked \/ (review[r].at # "shown" /\ w.items \subseteq review[r].items)
    PROVE  IInv'
<1>1. CallsTyped' BY DEF IInv, CallsTyped, ReviewRow
<1>2. review \in [Reviewers -> ReviewRow] BY DEF IInv, CallsTyped, ReviewRow
<1>3. AllSeen(acts)'
  <2>1. ASSUME NEW q \in Reviewers, NEW i \in review'[q].items PROVE Seen(acts, i)
    BY <1>2, <2>1 DEF IInv, AllSeen
  <2> QED BY <2>1 DEF IInv, AllSeen
<1>4. ToldRecorded' BY DEF IInv, ToldRecorded
<1>5. CASE Unlocked BY <1>1, <1>3, <1>4, <1>5, CallersStep
<1>6. CASE ~Unlocked
  <2>1. tx \in Batch /\ tx.by \in Reviewers /\ review[tx.by].at = "shown"
    BY <1>6 DEF IInv, BatchInv, Batch
  <2>2. review'[tx.by] = review[tx.by] BY <1>6, <2>1
  <2>3. ASSUME NEW q \in Reviewers, NEW i \in review'[q].items PROVE Seen(tx.saved.acts, i)
    BY <1>2, <1>6, <2>3 DEF IInv, BatchInv, AllSeen
  <2>4. AllSeen(tx.saved.acts)' BY <1>6, <2>3 DEF IInv, BatchInv, AllSeen
  <2>5. BatchInv' BY <1>6, <2>1, <2>2, <2>4 DEF IInv, BatchInv, Unlocked
  <2> QED BY <1>1, <1>3, <1>4, <1>6, <2>5 DEF IInv, Unlocked
<1> QED BY <1>5, <1>6

LEMMA ReadingInv ==
    ASSUME IInv, NEW r \in Reviewers,
           OpenReview(r) \/ (\E g \in Goals : ReadGoal(r, g)) \/ Select(r) \/ RefuseBatch(r)
    PROVE  IInv'
<1>1. /\ review \in [Reviewers -> ReviewRow]
      /\ review[r] \in ReviewRow
      /\ \A i \in review[r].items : Seen(acts, i)
      /\ Distinct(review[r])
  BY DEF IInv, CallsTyped, ReviewRow, AllSeen
<1>2. NoReview \in ReviewRow /\ NoReview.items = {} /\ Distinct(NoReview)
  BY DEF NoReview, ReviewRow, Distinct
<1>3. CASE OpenReview(r)
  <2> DEFINE w == [at |-> "reading", todo |-> Planned(Scope[r]), items |-> {}]
  <2>1. w \in ReviewRow BY PlannedGoals DEF ReviewRow
  <2>2. review' = [review EXCEPT ![r] = w] BY <1>3 DEF OpenReview
  <2>3. w.items = {} /\ Distinct(w) BY DEF Distinct
  <2> HIDE DEF w
  <2> QED BY <1>3, <2>1, <2>2, <2>3, ReviewChanges DEF OpenReview
<1>4. ASSUME NEW g \in Goals, ReadGoal(r, g) PROVE IInv'
  <2> DEFINE w == [at |-> "reading", todo |-> review[r].todo \ {g},
                   items |-> review[r].items \cup GoalPlan(g)]
  <2>1. \A i \in w.items : Seen(acts, i) BY <1>1, PlanSeen
  <2>2. w.items \in SUBSET Item BY <2>1 DEF Seen
  <2>3. w \in ReviewRow BY <1>1, <2>2 DEF ReviewRow
  <2>4. review' = [review EXCEPT ![r] = w] BY <1>4 DEF ReadGoal
  <2>5. Distinct(w)
    <3>1. ASSUME NEW i \in GoalPlan(g), NEW j \in GoalPlan(g), i.visit = j.visit PROVE i = j
      BY <3>1 DEF GoalPlan, PlanItem
    <3>2. \A i \in GoalPlan(g) : i.goal = g BY PlanSeen
    <3>3. g \in review[r].todo BY <1>4 DEF ReadGoal
    <3> QED BY <1>1, <3>1, <3>2, <3>3 DEF Distinct
  <2> HIDE DEF w
  <2> QED BY <1>4, <2>1, <2>3, <2>4, <2>5, ReviewChanges DEF ReadGoal
<1>5. CASE Select(r)
  <2>1. PICK S \in SUBSET review[r].items :
          review' = [review EXCEPT ![r] = IF S = {} THEN NoReview
                                          ELSE [at |-> "shown", todo |-> {}, items |-> S]]
    BY <1>5 DEF Select
  <2> DEFINE w == IF S = {} THEN NoReview ELSE [at |-> "shown", todo |-> {}, items |-> S]
  <2>2. w \in ReviewRow /\ w.items \subseteq review[r].items /\ Distinct(w)
    BY <1>1, <1>2 DEF ReviewRow, Distinct
  <2>3. review' = [review EXCEPT ![r] = w] BY <2>1
  <2> HIDE DEF w
  <2>4. review[r].at # "shown" BY <1>5 DEF Select
  <2>5. UNCHANGED <<goals, acts, attempts, agentUp, recorded, calls, told, tx>>
    BY <1>5 DEF Select
  <2> QED BY <1>1, <2>2, <2>3, <2>4, <2>5, ReviewChanges
<1>6. CASE RefuseBatch(r) BY <1>2, <1>6, ReviewChanges DEF RefuseBatch
<1> QED BY <1>3, <1>4, <1>5, <1>6

LEMMA BeginBatchInv ==
    ASSUME IInv, NEW r \in Reviewers, BeginBatch(r) PROVE IInv'
<1>1. /\ UNCHANGED <<goals, acts, attempts, agentUp, recorded, calls, told, review>>
      /\ tx' = [by |-> r, left |-> review[r].items, saved |-> Rows]
      /\ review[r].at = "shown"
  BY DEF BeginBatch
<1>2. CallsTyped' /\ AllSeen(acts)' /\ ToldRecorded'
  BY <1>1 DEF IInv, CallsTyped, AllSeen, ToldRecorded
<1>3. review[r].items \in SUBSET Item BY DEF IInv, CallsTyped
<1>4. Rows \in RowsType BY DEF IInv, RowsInv, RowsTyped, Rows, RowsType
<1>5. tx' \in Batch BY <1>1, <1>3, <1>4 DEF Batch
<1>6. /\ tx'.by = r /\ tx'.left = review[r].items
      /\ tx'.saved.goals = goals /\ tx'.saved.acts = acts
      /\ tx'.saved.attempts = attempts /\ tx'.saved.recorded = recorded
  BY <1>1 DEF Rows
<1>7. AllSeen(tx.saved.acts)' BY <1>1, <1>6 DEF IInv, AllSeen
<1>8. ASSUME NEW i \in review[r].items PROVE i.revision = acts[i.goal][i.visit].revision
  <2>1. PICK p \in UNION {GoalPlan(g) : g \in Planned(Goals)} :
          p.goal = i.goal /\ p.visit = i.visit /\ p.revision = i.revision
    BY DEF BeginBatch, BatchAccepted, SamePlan
  <2> QED BY <2>1 DEF GoalPlan, PlanItem
<1>9. Together(attempts) BY DEF BeginBatch, IInv
<1>10. TogetherBut(attempts, review[r].items, review[r].items)
  BY <1>9 DEF Together, TogetherBut
<1>11. BatchInv' BY <1>1, <1>5, <1>6, <1>7, <1>8, <1>9, <1>10 DEF IInv, BatchInv, ToldRecorded
<1>12. Together(attempts)' BY <1>1, <1>9 DEF Together, Covered
<1> QED BY <1>1, <1>2, <1>11, <1>12 DEF IInv

LEMMA BatchItem ==
    ASSUME IInv, ~Unlocked, NEW i \in tx.left
    PROVE  /\ Seen(acts, i) /\ i \in Item /\ i.goal \in Goals
           /\ BatchInput(i) \in Input
           /\ BatchInput(i).goal = i.goal /\ BatchInput(i).item = i /\ BatchInput(i).fenced
           /\ BatchInput(i).request # NoRequest
           /\ review[tx.by].items \in SUBSET Item
<1>1. i \in review[tx.by].items /\ tx.by \in Reviewers BY DEF IInv, BatchInv, Batch
<1>2. Seen(acts, i) BY <1>1 DEF IInv, AllSeen
<1>3. i \in Item BY <1>2 DEF Seen
<1>4. i.goal \in Goals /\ <<i.visit, i.revision>> \in Nat \X Nat BY <1>3 DEF Item
<1>5. review[tx.by].items \in SUBSET Item BY <1>1 DEF IInv, CallsTyped
<1> QED BY <1>2, <1>3, <1>4, <1>5, AbsenceAssumption DEF BatchInput, Input, RequestId

LEMMA ReserveNextInv == ASSUME IInv, ReserveNext PROVE IInv'
<1>1. PICK i \in tx.left :
        LET input == BatchInput(i) IN
          /\ tx' = [tx EXCEPT !.left = @ \ {i}]
          /\ \/ /\ Replayed(input) # {}
                /\ UNCHANGED rows
             \/ /\ Earlier(input) = {}
                /\ \E v \in Chosen(input) : Reserve(i.goal, v, input, review[tx.by].items)
  BY DEF ReserveNext
<1> DEFINE input == BatchInput(i)
<1>2. ~Unlocked /\ UNCHANGED <<agentUp, calls, told, review>> BY DEF ReserveNext
<1>3. /\ Seen(acts, i) /\ i \in Item /\ i.goal \in Goals
      /\ input \in Input /\ input.goal = i.goal /\ input.item = i /\ input.fenced
      /\ input.request # NoRequest /\ review[tx.by].items \in SUBSET Item
  BY <1>2, BatchItem
<1> HIDE DEF input
<1> DEFINE g == i.goal
           B == review[tx.by].items
           n == Len(attempts) + 1
<1>4. /\ i.revision = acts[g][i.visit].revision /\ tx.by \in Reviewers
      /\ tx.left \subseteq B /\ Distinct(review[tx.by]) /\ TogetherBut(attempts, B, tx.left)
      /\ \A j \in tx.left : j.revision = acts[j.goal][j.visit].revision
  BY <1>2 DEF IInv, BatchInv, Batch, CallsTyped
\* Its revision is current, so no request has used it up.
<1>5. Replayed(input) = {}
  <2> SUFFICES ASSUME NEW r \in recorded, r.input = input PROVE FALSE
    BY DEF Replayed, Earlier
  <2>1. UsedUp(acts, input) BY DEF IInv, RowsInv, Spent
  <2>2. i.revision < acts[g][i.visit].revision BY <1>3, <2>1 DEF UsedUp
  <2>3. i.revision \in Nat BY <1>3 DEF Item
  <2> QED BY <1>4, <2>2, <2>3
<1>6. PICK v \in Chosen(input) : Earlier(input) = {} /\ Reserve(g, v, input, B)
  BY <1>1, <1>5 DEF input
<1>7. v = i.visit /\ v \in DOMAIN acts[g] /\ i.used = acts[g][v].used
  <2>1. i # NoItem BY <1>3, AbsenceAssumption
  <2>2. v = i.visit BY <1>3, <2>1 DEF Chosen
  <2> QED BY <1>3, <1>4, <2>2, FreshItem
<1>8. ReserveIn(acts[g], g, v, input, B) BY <1>6 DEF Reserve
<1>9. /\ RowsInv(goals', acts', attempts', recorded')
      /\ acts' \in [Goals -> Seq(VisitRow)] /\ Advanced(acts, acts')
      /\ recorded \subseteq recorded'
      /\ DOMAIN attempts' = DOMAIN attempts \cup {n}
      /\ \A a \in DOMAIN attempts : attempts'[a] = attempts[a]
      /\ attempts'[n].batch = B /\ attempts'[n].item = i
  <2>1. acts[g] \in Seq(VisitRow) /\ Grown(acts[g], acts[g])
    BY <1>3 DEF IInv, RowsInv, RowsTyped, Grown
  <2>2. RowsInv(goals, acts, attempts, recorded) BY DEF IInv
  <2> HIDE DEF g, B, n
  <2>3. /\ g \in Goals /\ g = i.goal /\ B \in SUBSET Item /\ n = Len(attempts) + 1
    BY <1>3 DEF g, B, n
  <2>4. input.fenced => /\ input.item \in Item /\ input.item.goal = g /\ input.item.visit = v
                        /\ input.item.revision = acts[g][v].revision
                        /\ input.item.used = acts[g][v].used
    BY <1>3, <1>4, <1>7, <2>3
  <2>5. Reservation(input, B)
    BY <1>3, <1>6, <1>7, <1>8, <2>1, <2>2, <2>3, <2>4, Reserved
  <2> QED BY <1>3, <2>3, <2>5 DEF Reservation
<1>10. TogetherBut(attempts', B, tx.left \ {i})
  <2> HIDE DEF B, n
  <2>1. ASSUME NEW C, NEW j, Covered(attempts, C, j) PROVE Covered(attempts', C, j)
    BY <1>9, <2>1 DEF Covered
  <2>2. Covered(attempts', B, i) BY <1>9 DEF Covered
  <2>3. ASSUME NEW a \in DOMAIN attempts', attempts'[a].batch # B, NEW j \in attempts'[a].batch
        PROVE  Covered(attempts', attempts'[a].batch, j)
    BY <1>9, <1>4, <2>1, <2>3 DEF TogetherBut
  <2>4. ASSUME NEW j \in B \ (tx.left \ {i}) PROVE Covered(attempts', B, j)
    BY <1>4, <2>1, <2>2 DEF TogetherBut
  <2> QED BY <2>3, <2>4 DEF TogetherBut
<1>11. ASSUME NEW j \in tx.left \ {i} PROVE j.revision = acts'[j.goal][j.visit].revision
  <2>1. acts' = [acts EXCEPT ![g] = [acts[g] EXCEPT ![v] = Running(@)]] BY <1>8 DEF ReserveIn
  <2>2. j.goal # g \/ j.visit # v BY <1>4, <1>7 DEF Distinct
  <2>3. j.goal \in Goals BY <1>2, BatchItem
  <2>4. acts'[j.goal][j.visit] = acts[j.goal][j.visit]
    BY <1>3, <2>1, <2>2, <2>3 DEF IInv, RowsInv, RowsTyped
  <2> QED BY <1>4, <2>4
<1>12. AllSeen(acts') BY <1>9, AllSeenAdvances DEF IInv, RowsInv, RowsTyped
<1>13. AllSeen(acts)' /\ CallsTyped' /\ ToldRecorded'
  BY <1>2, <1>9, <1>12 DEF AllSeen, IInv, CallsTyped, ToldRecorded
<1>14. tx \in Batch BY <1>2 DEF IInv, BatchInv
<1>15. tx' \in Batch /\ tx'.by = tx.by /\ tx'.saved = tx.saved /\ tx'.left \subseteq tx.left
  BY <1>1, <1>14 DEF Batch
<1>16. AllSeen(tx.saved.acts)' BY <1>2, <1>15 DEF IInv, BatchInv, AllSeen
<1>17. tx'.left = tx.left \ {i} BY <1>1, <1>14 DEF Batch
<1>18. TogetherBut(attempts', review'[tx'.by].items, tx'.left) BY <1>2, <1>15, <1>17, <1>10
<1>19. Unlocked' = FALSE BY <1>15, AbsenceAssumption DEF Unlocked
<1>20. BatchInv' BY <1>2, <1>15, <1>16, <1>17, <1>18, <1>11 DEF IInv, BatchInv
<1> QED BY <1>2, <1>9, <1>13, <1>19, <1>20 DEF IInv

LEMMA BatchEndsInv == ASSUME IInv, CommitBatch \/ RollbackBatch PROVE IInv'
<1>1. ~Unlocked /\ tx' = NoTx /\ UNCHANGED <<agentUp, calls, told>>
  BY DEF CommitBatch, RollbackBatch
<1>2. tx \in Batch /\ tx.by \in Reviewers BY <1>1 DEF IInv, BatchInv, Batch
<1>3. review' = review \/ review' = [review EXCEPT ![tx.by] = NoReview]
  BY DEF CommitBatch, RollbackBatch
<1>4. NoReview \in ReviewRow /\ NoReview.items = {} /\ Distinct(NoReview)
  BY DEF NoReview, ReviewRow, Distinct
<1>5. CallsTyped' BY <1>1, <1>2, <1>3, <1>4 DEF IInv, CallsTyped, ReviewRow
<1>6. ASSUME NEW q \in Reviewers, NEW i \in review'[q].items PROVE i \in review[q].items
  BY <1>2, <1>3, <1>4, <1>6 DEF IInv, CallsTyped
<1>7. BatchInv' BY <1>1 DEF BatchInv, Unlocked
<1>8. CASE CommitBatch
  <2>1. UNCHANGED <<goals, acts, attempts, recorded>> BY <1>8 DEF CommitBatch
  <2>2. AllSeen(acts)' BY <1>1, <1>6, <2>1 DEF IInv, AllSeen
  <2>3. ToldRecorded' BY <1>1, <2>1 DEF IInv, ToldRecorded
  <2>4. TogetherBut(attempts, review[tx.by].items, {}) BY <1>1, <1>8 DEF CommitBatch, IInv, BatchInv
  <2>5. Together(attempts') BY <2>1, <2>4 DEF Together, TogetherBut
  <2> QED BY <1>1, <1>5, <1>7, <2>1, <2>2, <2>3, <2>5 DEF IInv
<1>9. CASE RollbackBatch
  <2>1. /\ goals' = tx.saved.goals /\ acts' = tx.saved.acts
        /\ attempts' = tx.saved.attempts /\ recorded' = tx.saved.recorded
    BY <1>9 DEF RollbackBatch
  <2>2. RowsInv(goals, acts, attempts, recorded)' BY <1>1, <2>1 DEF IInv, BatchInv
  <2>3. AllSeen(tx.saved.acts) BY <1>1 DEF IInv, BatchInv
  <2>4. AllSeen(acts)' BY <1>1, <1>6, <2>1, <2>3 DEF AllSeen
  <2>5. ToldRecorded' BY <1>1, <2>1 DEF IInv, BatchInv, ToldRecorded
  <2>6. Together(attempts') BY <1>1, <2>1 DEF IInv, BatchInv
  <2> QED BY <1>1, <1>5, <1>7, <2>2, <2>4, <2>5, <2>6 DEF IInv
<1> QED BY <1>8, <1>9

LEMMA ReviewerStepInv ==
    ASSUME IInv, NEW r \in Reviewers, ReviewerStep(r) PROVE IInv'
BY ReadingInv, BeginBatchInv DEF ReviewerStep

-----------------------------------------------------------------------------
(* The invariant holds. *)

LEMMA InitInv == Init => IInv
<1> SUFFICES ASSUME Init PROVE IInv OBVIOUS
<1> USE DEF Init
<1>1. RowsTyped(goals, acts, attempts, recorded)
  BY EmptySeq DEF RowsTyped, GoalRow
<1>2. RowsInv(goals, acts, attempts, recorded)
  BY <1>1 DEF RowsInv, VisitsKnown, AnswersMatch, AsReviewed, Spent
<1>3. CallsTyped BY DEF CallsTyped, NoReview, Distinct
<1>4. AllSeen(acts) BY DEF AllSeen, CallSeen, NoReview
<1>5. Together(attempts) BY DEF Together
<1> QED BY <1>2, <1>3, <1>4, <1>5 DEF IInv, ToldRecorded, BatchInv, Unlocked

LEMMA NextInv == IInv /\ [Next]_vars => IInv'
<1> SUFFICES ASSUME IInv, [Next]_vars PROVE IInv' OBVIOUS
<1>1. ASSUME NEW c \in Callers, CallerStep(c) PROVE IInv' BY <1>1, CallerStepInv
<1>2. ASSUME NEW r \in Reviewers, ReviewerStep(r) PROVE IInv' BY <1>2, ReviewerStepInv
<1>3. CASE BatchStep BY <1>3, ReserveNextInv, BatchEndsInv DEF BatchStep
<1>4. ASSUME NEW g \in Goals, GoalStep(g) PROVE IInv' BY <1>4, GoalStepInv
<1>5. ASSUME NEW a \in DOMAIN attempts, AttemptStep(a) PROVE IInv' BY <1>5, AttemptStepInv
<1>6. CASE SwitchAgent BY <1>6, SwitchAgentInv
<1>7. CASE UNCHANGED vars
  BY <1>7 DEF vars, IInv, CallsTyped, AllSeen, ToldRecorded, BatchInv, Unlocked
<1> QED BY <1>1, <1>2, <1>3, <1>4, <1>5, <1>6, <1>7 DEF Next

LEMMA Invariant == Spec => []IInv
BY InitInv, NextInv, PTL DEF Spec

\* The invariant gives each property.
LEMMA InvTypeOK == IInv => TypeOK
<1> SUFFICES ASSUME IInv PROVE TypeOK OBVIOUS
<1> USE DEF IInv
<1>1. Rows \in RowsType BY DEF RowsInv, RowsTyped, Rows, RowsType
<1>2. AttemptsKnown(Rows)
  BY DEF RowsInv, VisitsKnown, AnswersMatch, AttemptsKnown, Rows
<1>3. ASSUME NEW c \in Callers, calls[c].at = "waiting" PROVE calls[c].input \in Input
  BY <1>3 DEF AllSeen, CallSeen
<1>4. ~Unlocked => tx \in Batch /\ AttemptsKnown(tx.saved)
  BY DEF BatchInv, RowsInv, VisitsKnown, AnswersMatch, AttemptsKnown
<1> QED BY <1>1, <1>2, <1>3, <1>4 DEF TypeOK, CallsTyped

LEMMA InvAnsweredOnce == IInv => AnsweredOnce
<1> SUFFICES ASSUME IInv PROVE AnsweredOnce OBVIOUS
<1>1. AnswersMatch(attempts, recorded) BY DEF IInv, RowsInv
<1>2. ASSUME NEW a \in DOMAIN attempts, NEW b \in DOMAIN attempts,
             attempts[a].request # NoRequest,
             attempts[a].goal = attempts[b].goal, attempts[a].request = attempts[b].request
      PROVE  a = b
  <2>1. PICK r \in recorded : AnswerFor(r, attempts, a) BY <1>1, <1>2 DEF AnswersMatch
  <2>2. PICK s \in recorded : AnswerFor(s, attempts, b) BY <1>1, <1>2 DEF AnswersMatch
  <2>3. KeyOf(r.input) = KeyOf(s.input) BY <1>2, <2>1, <2>2 DEF AnswerFor, KeyOf
  <2>4. r.attempt = s.attempt BY <1>1, <2>3, Zenon DEF AnswersMatch
  <2> QED BY <2>1, <2>2, <2>4 DEF AnswerFor
<1>3. ASSUME NEW s \in told
      PROVE  /\ s.attempt \in DOMAIN attempts
             /\ attempts[s.attempt].goal = s.input.goal
             /\ attempts[s.attempt].request = s.input.request
  <2>1. PICK r \in recorded : r.input = s.input /\ r.attempt = s.attempt
    BY DEF IInv, ToldRecorded
  <2>2. r.attempt \in DOMAIN attempts /\ AnswerFor(r, attempts, r.attempt)
    BY <1>1, Zenon DEF AnswersMatch
  <2> QED BY <2>1, <2>2 DEF AnswerFor
<1> QED BY <1>2, <1>3, Zenon DEF AnsweredOnce

LEMMA InvReservedTogether == IInv => ReservedTogether
BY DEF IInv, Together, Covered, ReservedTogether

\* Every reachable state has its type, and rows name rows that are there.
THEOREM TypeCorrect == Spec => []TypeOK
BY Invariant, InvTypeOK, PTL

\* A request id reserves one attempt of a goal, however often and by whomever
\* the dispatch is repeated (dispatch.ts: IDEMPOTENCY_CONFLICT or the recorded
\* answer).
THEOREM AnsweredOnceAlways == Spec => []AnsweredOnce
BY Invariant, InvAnsweredOnce, PTL

\* An attempt reserved on an expected revision is the next attempt of the
\* visit as it was shown (dispatch.ts: STALE_PLAN).
THEOREM ReservedAlwaysAsReviewed == Spec => []ReservedAsReviewed
<1>1. IInv => ReservedAsReviewed BY DEF IInv, RowsInv, AsReviewed, ReservedAsReviewed
<1> QED BY <1>1, Invariant, PTL

\* A reviewed batch is reserved as a whole or not at all (dispatch.ts:
\* dispatchReviewed in one transaction).
THEOREM ReservedAlwaysTogether == Spec => []ReservedTogether
BY Invariant, InvReservedTogether, PTL

\* Only RefuseCall refuses a waiting call.
LEMMA RefusalStep ==
    ASSUME IInv, Next, NEW c \in Callers, calls[c].at = "waiting", calls'[c].at = "refused"
    PROVE  RefuseCall(c)
<1>1. calls' # calls OBVIOUS
<1>2. PICK d \in Callers : CallerStep(d)
  BY <1>1 DEF Next, ReviewerStep, OpenReview, ReadGoal, Select, BeginBatch, RefuseBatch,
              BatchStep, ReserveNext, CommitBatch, RollbackBatch, GoalStep, ActivateGoal,
              StartGoal, RetryExecution, CancelGoal, AttemptStep, StopExecution,
              ClaimAttempt, ReportSucceeded, ReportFailed, ReportCanceled, SwitchAgent
<1>3. calls \in [Callers -> [at : {"idle", "waiting", "refused"}, input : Input \cup {NoItem}]]
  BY DEF IInv, CallsTyped
<1>4. CASE Call(d) BY <1>3, <1>4 DEF Call
<1>5. CASE ReplayCall(d) \/ ReserveCall(d) BY <1>3, <1>5 DEF ReplayCall, ReserveCall, Reply
<1>6. CASE GiveUp(d) BY <1>3, <1>6 DEF GiveUp
<1>7. CASE RefuseCall(d) BY <1>3, <1>7 DEF RefuseCall
<1> QED BY <1>2, <1>4, <1>5, <1>6, <1>7 DEF CallerStep

\* An attempt reserved for a fenced call has that very call on record, whichever
\* caller, batch, rollback or cancellation came in between.
LEMMA ReservationRecorded ==
    ASSUME IInv, NEW c \in Callers, calls[c].at = "waiting",
           calls[c].input.fenced, calls[c].input.request # NoRequest,
           NEW a \in DOMAIN attempts, ReservedFor(a, calls[c].input)
    PROVE  Replayed(calls[c].input) # {}
<1> DEFINE input == calls[c].input
<1>1. /\ attempts[a].goal = input.goal
      /\ attempts[a].request = input.request
      /\ attempts[a].item = input.item
  BY DEF ReservedFor
<1>2. input \in Input /\ input.item # NoItem BY DEF IInv, AllSeen, CallSeen
<1>3. AnswersMatch(attempts, recorded) /\ recorded \in SUBSET Answer
  BY DEF IInv, RowsInv, RowsTyped
<1>4. PICK r \in recorded : AnswerFor(r, attempts, a) BY <1>1, <1>3 DEF AnswersMatch
<1>5. r.input \in Input BY <1>3 DEF Answer
<1>6. r.input.goal = input.goal /\ r.input.request = input.request BY <1>1, <1>4 DEF AnswerFor
<1>7. r.input.fenced = TRUE /\ r.input.item = input.item
  BY <1>1, <1>2, <1>4, <1>5 DEF AnswerFor, Input
<1>8. input.fenced = TRUE BY <1>2 DEF Input
<1>9. r.input = input BY <1>2, <1>5, <1>6, <1>7, <1>8 DEF Input
<1>10. KeyOf(r.input) = KeyOf(input) BY <1>9
<1> QED BY <1>9, <1>10 DEF Replayed, Earlier

\* A refused call with a request id reserved nothing, however often it was
\* repeated and whatever became of its visit (dispatch.ts: the recorded answer
\* is looked up first, and is recorded in the transaction that reserves).
THEOREM RefusalsReservedNothing == Spec => RefusedReservedNothing
<1>1. ASSUME IInv, Next, NEW c \in Callers,
             calls[c].at = "waiting", calls'[c].at = "refused",
             calls[c].input.fenced, calls[c].input.request # NoRequest,
             NEW a \in DOMAIN attempts
      PROVE  ~ReservedFor(a, calls[c].input)
  <2>1. Replayed(calls[c].input) = {} BY <1>1, RefusalStep DEF RefuseCall
  <2> QED BY <1>1, <2>1, ReservationRecorded
<1>2. IInv /\ [Next]_vars =>
        [\A c \in Callers :
          LET input == calls[c].input IN
          /\ calls[c].at = "waiting" /\ calls'[c].at = "refused"
          /\ input.fenced /\ input.request # NoRequest
          => \A a \in DOMAIN attempts : ~ReservedFor(a, input)]_vars
  BY <1>1
<1> QED BY <1>2, Invariant, PTL DEF Spec, RefusedReservedNothing

=============================================================================

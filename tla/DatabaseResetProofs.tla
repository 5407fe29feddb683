------------------------ MODULE DatabaseResetProofs ------------------------
(***************************************************************************)
(* Theorems about DatabaseReset for any number of resets, clients and      *)
(* power failures.  The inductive invariant IInv says of each reset what   *)
(* it has established at the point where it is (Stage), and of each client *)
(* what keeps its transaction (Safe).                                      *)
(***************************************************************************)
EXTENDS DatabaseReset, TLAPS

Ready    == {"ready"}
Linked   == {"linked"} \cup Ready
Secured  == {"secured"} \cup Linked
Copied   == {"copied"} \cup Secured
Quieted  == {"quiet", "built", "verified"} \cup Copied
Rechecked == {"rechecked", "inspected", "fenced"} \cup Quieted

\* Before the backup has its name, and before the replacement has its place.
Unlinked   == {"idle", "previewed", "confirmed", "locked", "rechecked", "inspected", "fenced",
               "quiet", "built", "verified", "copied", "secured"}
Unreplaced == Unlinked \cup {"linked", "ready"}

Stages == Unreplaced \cup {"refused", "replaced", "cleanup", "unlocking", "marked", "done",
                           "dead", "attended"}

Inside == {"checked", "open", "writing"}

Resets  == [at : Stages, file : Files, rows : SUBSET Clients]
Backups == [linked : BOOLEAN, settled : BOOLEAN, synced : BOOLEAN, rows : SUBSET Clients]
ClientRows == [at : Inside \cup {"idle", "refused", "done"}, file : Files, early : BOOLEAN,
               late : {"no", "fenced", "replaced"}]

TypeOK ==
    /\ target \in Files
    /\ disk \in [Files -> SUBSET Clients]
    /\ marker \in Resetters \cup {NoOne}
    /\ backups \in [Resetters -> Backups]
    /\ settled \in [target : Files, marker : Resetters \cup {NoOne}]
    /\ reset \in [Resetters -> Resets]
    /\ client \in [Clients -> ClientRows]

\* The transactions a reset may not lose.
Timely == {c \in Clients : client[c].at = "done" /\ client[c].late = "no"}

\* A backup no power failure can take away.
Lasting(b) == b.linked /\ b.settled /\ b.synced

InBackup(c) == \E r \in Resetters : Lasting(backups[r]) /\ c \in backups[r].rows

\* What reset r has established when it is where q says.
Stage(r, q) ==
    /\ q.at \in Preparing \cup {"replaced", "cleanup", "unlocking"} => marker = r
    /\ q.at \in Rechecked => q.file = target
    /\ q.at \in Quieted => \A c \in disk[target] \cap Starters : client[c].late # "no"
    /\ q.at \in Copied => disk[target] \cap Timely \subseteq backups[r].rows
    /\ q.at \in Secured => backups[r].synced
    /\ q.at \in Linked => backups[r].linked
    /\ q.at \in Ready => backups[r].settled
    /\ q.at \in Unlinked => ~backups[r].linked
    /\ q.at \in Unreplaced => target # r /\ settled.target # r

\* A client that is past the fence without having met a lock has the database
\* to itself; a transaction is kept in place and, were the power to fail, on
\* what is found then.
Safe(c) ==
    /\ client[c].late # "no" => client[c].early
    /\ client[c].at \in Inside /\ ~client[c].early => marker = NoOne
    /\ client[c].at \in {"open", "writing"} /\ ~client[c].early => client[c].file = target
    /\ \A f \in Files : c \in disk[f] => client[c].at = "done"
    /\ c \in Timely => /\ c \in disk[target] \/ InBackup(c)
                       /\ c \in disk[settled.target] \/ InBackup(c)

IInv ==
    /\ TypeOK
    /\ \A r \in Resetters : Stage(r, reset[r])
    /\ \A c \in Clients : Safe(c)

-----------------------------------------------------------------------------
(* What the invariant says of a reset at work, and the steps that change    *)
(* one row.                                                                 *)

LEMMA InitIInv == Init => IInv
<1> SUFFICES ASSUME Init PROVE IInv
  OBVIOUS
<1>1. TypeOK
  BY DEF Init, TypeOK, Files, Backups, NoBackup, Resets, Stages, Unreplaced, Unlinked, ClientRows
<1>2. ASSUME NEW r \in Resetters PROVE Stage(r, reset[r])
  <2>1. reset[r].at = "idle" /\ reset[r] = [at |-> "idle", file |-> Original, rows |-> {}]
    BY DEF Init
  <2>2. ~backups[r].linked
    BY DEF Init, NoBackup
  <2>3. target # r /\ settled.target # r
    BY NamesAssumption DEF Init
  <2> QED
    BY <2>1, <2>2, <2>3
    DEF Stage, Preparing, Rechecked, Quieted, Copied, Secured, Linked, Ready
<1>3. ASSUME NEW c \in Clients PROVE Safe(c)
  <2>1. client[c].at = "idle" /\ client[c].late = "no"
    BY DEF Init
  <2>2. c \notin Timely
    BY <2>1 DEF Timely
  <2>3. \A f \in Files : c \notin disk[f]
    BY DEF Init
  <2> QED
    BY <2>1, <2>2, <2>3 DEF Safe, Inside
<1> QED
  BY <1>1, <1>2, <1>3 DEF IInv

\* A reset at work holds the lock, so no other is at work.
LEMMA AloneAtWork ==
  ASSUME IInv, NEW r \in Resetters, NEW s \in Resetters, Working(r), Working(s)
  PROVE  marker = r /\ r = s
<1>1. Stage(r, reset[r]) /\ Stage(s, reset[s])
  BY DEF IInv
<1> QED
  BY <1>1 DEF Stage, Working

\* Who does not hold the lock has nothing to establish but that it has made
\* no backup and no replacement.
LEMMA IdleStage ==
  ASSUME IInv, NEW r \in Resetters, NEW s \in Resetters, Working(r), r # s
  PROVE  /\ ~Working(s)
         /\ reset[s].at \notin Preparing \cup {"replaced", "cleanup", "unlocking"}
         /\ reset[s].at \notin Rechecked /\ reset[s].at \notin Quieted
         /\ reset[s].at \notin Copied /\ reset[s].at \notin Secured
         /\ reset[s].at \notin Linked /\ reset[s].at \notin Ready
<1>1. ~Working(s)
  BY AloneAtWork
<1> QED
  BY <1>1 DEF Working, Preparing, Rechecked, Quieted, Copied, Secured, Linked, Ready

\* A client inside the fence without having met a lock means there is none.
LEMMA NoLock ==
  ASSUME IInv, NEW r \in Resetters, Working(r), NEW c \in Clients,
         client[c].at \in Inside, ~client[c].early
  PROVE  FALSE
<1>1. marker = r
  BY AloneAtWork
<1>2. marker = NoOne
  BY DEF IInv, Safe
<1> QED
  BY <1>1, <1>2, NamesAssumption

\* A reset moves on with what its next point asks for, and nothing else of
\* the system changes but SQLite's locks.
LEMMA MoveStep ==
  ASSUME IInv, NEW r \in Resetters, NEW q \in Resets, Stage(r, q),
         reset' = [reset EXCEPT ![r] = q],
         UNCHANGED <<target, disk, marker, backups, settled, client>>
  PROVE  IInv'
<1>1. TypeOK'
  BY DEF IInv, TypeOK
<1>2. ASSUME NEW s \in Resetters PROVE Stage(s, reset[s])'
  <2>1. reset'[s] = IF s = r THEN q ELSE reset[s]
    BY DEF IInv, TypeOK
  <2>2. Stage(s, reset'[s])
    BY <2>1 DEF IInv
  <2> QED
    BY <2>2 DEF Stage, Timely
<1>3. ASSUME NEW c \in Clients PROVE Safe(c)'
  <2>1. Safe(c)
    BY DEF IInv
  <2> QED
    BY <2>1 DEF Safe, Timely, InBackup
<1> QED
  BY <1>1, <1>2, <1>3 DEF IInv

\* The same for a move that changes only the point.
LEMMA GotoStep ==
  ASSUME IInv, NEW r \in Resetters, NEW to \in Stages,
         Stage(r, [reset[r] EXCEPT !.at = to]),
         reset' = [reset EXCEPT ![r].at = to],
         UNCHANGED <<target, disk, marker, backups, settled, client>>
  PROVE  IInv'
<1> DEFINE q == [reset[r] EXCEPT !.at = to]
<1>1. q \in Resets
  BY DEF IInv, TypeOK, Resets
<1>2. reset' = [reset EXCEPT ![r] = q]
  OBVIOUS
<1>3. Stage(r, q)
  OBVIOUS
<1> HIDE DEF q
<1> QED
  BY <1>1, <1>2, <1>3, MoveStep

\* A client moves without writing.
LEMMA ClientMove ==
  ASSUME IInv, NEW c \in Clients, NEW k \in ClientRows,
         client' = [client EXCEPT ![c] = k],
         client[c].at # "done", k.at # "done",
         k.late = client[c].late, k.early = client[c].early,
         k.at \in Inside /\ ~k.early => marker = NoOne,
         k.at \in {"open", "writing"} /\ ~k.early => k.file = target,
         UNCHANGED <<target, disk, marker, backups, settled, reset>>
  PROVE  IInv'
<1>1. TypeOK'
  BY DEF IInv, TypeOK
<1>2. \A d \in Clients : client'[d] = IF d = c THEN k ELSE client[d]
  BY DEF IInv, TypeOK
<1>3. Timely' = Timely
  BY <1>2 DEF Timely
<1>4. \A d \in Clients : client'[d].late = client[d].late
  BY <1>2
<1>5. ASSUME NEW s \in Resetters PROVE Stage(s, reset[s])'
  <2>1. Stage(s, reset[s])
    BY DEF IInv
  <2>2. disk[target] \subseteq Clients
    BY DEF IInv, TypeOK
  <2> QED
    BY <1>3, <1>4, <2>1, <2>2 DEF Stage
<1>6. ASSUME NEW d \in Clients PROVE Safe(d)'
  <2>1. Safe(d) /\ Safe(c)
    BY DEF IInv
  <2>2. InBackup(d)' <=> InBackup(d)
    BY DEF InBackup
  <2>3. \A f \in Files : d \in disk[f] => client'[d].at = "done"
    BY <2>1, <1>2 DEF Safe
  <2>4. client'[d].late # "no" => client'[d].early
    BY <2>1, <1>2 DEF Safe
  <2>5. /\ client'[d].at \in Inside /\ ~client'[d].early => marker = NoOne
        /\ client'[d].at \in {"open", "writing"} /\ ~client'[d].early => client'[d].file = target
    BY <2>1, <1>2 DEF Safe
  <2> QED
    BY <1>3, <2>1, <2>2, <2>3, <2>4, <2>5 DEF Safe
<1> QED
  BY <1>1, <1>5, <1>6 DEF IInv

-----------------------------------------------------------------------------
(* The steps of a reset.                                                    *)

LEMMA PreviewStep ==
  ASSUME IInv, NEW r \in Resetters, Preview(r) PROVE IInv'
<1> DEFINE q == [at |-> "previewed", file |-> target, rows |-> disk[target]]
<1>1. q \in Resets
  BY DEF IInv, TypeOK, Resets, Stages, Unreplaced, Unlinked
<1>2. Stage(r, q)
  <2>1. Stage(r, reset[r]) /\ reset[r].at = "idle"
    BY DEF IInv, Preview
  <2> QED
    BY <2>1 DEF Stage, Preparing, Rechecked, Quieted, Copied, Secured, Linked, Ready,
                Unreplaced, Unlinked
<1>3. reset' = [reset EXCEPT ![r] = q]
  BY DEF Preview
<1>4. UNCHANGED <<target, disk, marker, backups, settled, client>>
  BY DEF Preview, Unchanged
<1> HIDE DEF q
<1> QED
  BY <1>1, <1>2, <1>3, <1>4, MoveStep

\* Every move that only reads, and every one that gives up.
LEMMA ReadingStep ==
  ASSUME IInv, NEW r \in Resetters,
         \/ Confirm(r) \/ Recheck(r) \/ Inspect(r) \/ Fence(r) \/ InspectFenced(r)
         \/ RecheckTarget(r) \/ Fail(r) \/ Cleanup(r) \/ Crash(r)
         \/ (TakeLock(r) /\ marker # NoOne) \/ (Unlock(r) /\ marker # r)
  PROVE  IInv'
<1> DEFINE S(to) == Stage(r, [reset[r] EXCEPT !.at = to])
           M(to) == /\ reset' = [reset EXCEPT ![r].at = to]
                    /\ UNCHANGED <<target, disk, marker, backups, settled, client>>
<1>1. ASSUME NEW to \in Stages, S(to), M(to) PROVE IInv'
  BY <1>1, GotoStep
<1>2. Stage(r, reset[r]) /\ reset[r] \in Resets
  BY DEF IInv, TypeOK
<1>3. \A to : /\ [reset[r] EXCEPT !.at = to].at = to
              /\ [reset[r] EXCEPT !.at = to].file = reset[r].file
  BY <1>2 DEF Resets
<1>4. {"confirmed", "refused", "rechecked", "cleanup", "inspected", "fenced", "quiet", "verified",
       "unlocking", "marked", "dead"} \subseteq Stages
  BY DEF Stages, Unreplaced, Unlinked
<1> HIDE DEF S, M
<1>5. CASE Confirm(r)
  <2>1. /\ reset[r].at = "previewed"
        /\ M("confirmed") \/ M("refused")
    BY <1>5 DEF Confirm, Goto, Unchanged, M
  <2>2. S("confirmed") /\ S("refused")
    BY <1>2, <1>3, <2>1 DEF S, Stage, Preparing, Rechecked, Quieted, Copied, Secured, Linked,
                        Ready, Unreplaced, Unlinked
  <2> QED
    BY <1>1, <1>4, <2>1, <2>2
<1>6. ASSUME reset[r].at \in Preparing \cup {"replaced", "cleanup"} PROVE S("cleanup")
  BY <1>2, <1>3, <1>6 DEF S, Stage, Preparing, Rechecked, Quieted, Copied, Secured, Linked,
                      Ready, Unreplaced, Unlinked
<1>7. CASE Recheck(r)
  <2>1. /\ reset[r].at = "locked"
        /\ (M("rechecked") /\ reset[r].file = target) \/ M("cleanup")
    BY <1>7 DEF Recheck, Goto, Unchanged, M, SameAsPreviewed
  <2>2. S("cleanup")
    BY <1>6, <2>1 DEF Preparing
  <2>3. reset[r].file = target => S("rechecked")
    BY <1>2, <1>3, <2>1 DEF S, Stage, Preparing, Rechecked, Quieted, Copied, Secured, Linked,
                        Ready, Unreplaced, Unlinked
  <2> QED
    BY <1>1, <1>4, <2>1, <2>2, <2>3
<1>8. CASE Inspect(r)
  <2>1. /\ reset[r].at = "rechecked"
        /\ M("inspected") \/ M("cleanup")
    BY <1>8 DEF Inspect, Goto, Unchanged, M
  <2>2. S("cleanup")
    BY <1>6, <2>1 DEF Preparing
  <2>3. S("inspected")
    BY <1>2, <1>3, <2>1 DEF S, Stage, Preparing, Rechecked, Quieted, Copied, Secured, Linked,
                        Ready, Unreplaced, Unlinked
  <2> QED
    BY <1>1, <1>4, <2>1, <2>2, <2>3
<1>9. CASE Fence(r)
  <2>1. /\ reset[r].at = "inspected"
        /\ M("fenced") \/ M("cleanup")
    BY <1>9 DEF Fence, Goto, Unchanged, M
  <2>2. S("cleanup")
    BY <1>6, <2>1 DEF Preparing
  <2>3. S("fenced")
    BY <1>2, <1>3, <2>1 DEF S, Stage, Preparing, Rechecked, Quieted, Copied, Secured, Linked,
                        Ready, Unreplaced, Unlinked
  <2> QED
    BY <1>1, <1>4, <2>1, <2>2, <2>3
<1>10. CASE InspectFenced(r)
  <2>1. /\ reset[r].at = "fenced"
        /\ (M("quiet") /\ disk[target] \cap Starters = {}) \/ M("cleanup")
    BY <1>10 DEF InspectFenced, Goto, Unchanged, M, Quiescent
  <2>2. S("cleanup")
    BY <1>6, <2>1 DEF Preparing
  <2>3. disk[target] \cap Starters = {} => S("quiet")
    BY <1>2, <1>3, <2>1 DEF S, Stage, Preparing, Rechecked, Quieted, Copied, Secured, Linked,
                        Ready, Unreplaced, Unlinked
  <2> QED
    BY <1>1, <1>4, <2>1, <2>2, <2>3
<1>11. CASE RecheckTarget(r)
  <2>1. /\ reset[r].at = "built"
        /\ M("verified") \/ M("cleanup")
    BY <1>11 DEF RecheckTarget, Goto, Unchanged, M
  <2>2. S("cleanup")
    BY <1>6, <2>1 DEF Preparing
  <2>3. S("verified")
    BY <1>2, <1>3, <2>1 DEF S, Stage, Preparing, Rechecked, Quieted, Copied, Secured, Linked,
                        Ready, Unreplaced, Unlinked
  <2> QED
    BY <1>1, <1>4, <2>1, <2>2, <2>3
<1>12. CASE Fail(r)
  <2>1. reset[r].at \in Preparing \cup {"replaced"} /\ M("cleanup")
    BY <1>12 DEF Fail, Unchanged, M
  <2> QED
    BY <1>1, <1>4, <1>6, <2>1
<1>13. CASE Cleanup(r)
  <2>1. /\ reset[r].at = "cleanup"
        /\ M("unlocking") \/ M("marked")
    BY <1>13 DEF Cleanup, Goto, Unchanged, M
  <2>2. S("unlocking") /\ S("marked")
    BY <1>2, <1>3, <2>1 DEF S, Stage, Preparing, Rechecked, Quieted, Copied, Secured, Linked,
                        Ready, Unreplaced, Unlinked
  <2> QED
    BY <1>1, <1>4, <2>1, <2>2
<1>14. CASE Crash(r)
  <2>1. M("dead")
    BY <1>14 DEF Crash, Unchanged, M
  <2>2. S("dead")
    BY <1>3 DEF S, Stage, Preparing, Rechecked, Quieted, Copied, Secured, Linked,
                        Ready, Unreplaced, Unlinked
  <2> QED
    BY <1>1, <1>4, <2>1, <2>2
<1>15. CASE TakeLock(r) /\ marker # NoOne
  <2>1. M("refused")
    BY <1>15 DEF TakeLock, Goto, M
  <2>2. S("refused")
    BY <1>3 DEF S, Stage, Preparing, Rechecked, Quieted, Copied, Secured, Linked,
                        Ready, Unreplaced, Unlinked
  <2> QED
    BY <1>1, <1>4, <2>1, <2>2
<1>16. CASE Unlock(r) /\ marker # r
  <2>1. M("marked")
    BY <1>16 DEF Unlock, Goto, Unchanged, M
  <2>2. S("marked")
    BY <1>3 DEF S, Stage, Preparing, Rechecked, Quieted, Copied, Secured, Linked,
                        Ready, Unreplaced, Unlinked
  <2> QED
    BY <1>1, <1>4, <2>1, <2>2
<1> QED
  BY <1>5, <1>7, <1>8, <1>9, <1>10, <1>11, <1>12, <1>13, <1>14, <1>15, <1>16

\* The lock appears: clients that are past the fence are marked early.
LEMMA TakeLockStep ==
  ASSUME IInv, NEW r \in Resetters, TakeLock(r), marker = NoOne PROVE IInv'
<1> DEFINE q == [reset[r] EXCEPT !.at = "locked"]
<1>1. /\ reset[r].at = "confirmed" /\ marker' = r
      /\ reset' = [reset EXCEPT ![r] = q]
      /\ UNCHANGED <<target, disk, backups, settled>>
  BY DEF TakeLock, Goto
<1>2. \A c \in Clients : client'[c] =
        [client[c] EXCEPT !.early = client[c].early \/ client[c].at \in Inside]
  BY DEF TakeLock, MarkEarly, Inside
<1>3. \A c \in Clients : client[c] \in ClientRows
  BY DEF IInv, TypeOK
<1>4. q \in Resets /\ q.at = "locked"
  BY DEF IInv, TypeOK, Resets, Stages, Unreplaced, Unlinked
<1>5. ASSUME NEW c \in Clients
      PROVE  /\ client'[c] \in ClientRows
             /\ client'[c].at = client[c].at /\ client'[c].late = client[c].late
             /\ client'[c].file = client[c].file
             /\ client[c].early => client'[c].early
             /\ client[c].at \in Inside => client'[c].early
  BY <1>2, <1>3 DEF ClientRows
<1>6. client' = [c \in Clients |-> client'[c]]
  BY DEF TakeLock, MarkEarly
<1> HIDE DEF q
<1>7. TypeOK'
  <2>1. client' \in [Clients -> ClientRows]
    BY <1>5, <1>6
  <2> QED
    BY <1>1, <1>4, <2>1 DEF IInv, TypeOK
<1>8. Timely' = Timely
  BY <1>5 DEF Timely
<1>9. ASSUME NEW s \in Resetters PROVE Stage(s, reset[s])'
  <2>1. Stage(s, reset[s])
    BY DEF IInv
  <2>2. reset'[s] = IF s = r THEN q ELSE reset[s]
    BY <1>1 DEF IInv, TypeOK
  <2>3. CASE s = r
    BY <1>1, <1>4, <2>1, <2>2, <2>3
    DEF Stage, Preparing, Rechecked, Quieted, Copied, Secured, Linked, Ready, Unreplaced, Unlinked
  <2>4. CASE s # r
    <3>1. reset'[s] = reset[s] /\ marker # s
      BY <2>2, <2>4, NamesAssumption
    <3>2. /\ reset[s].at \notin Preparing \cup {"replaced", "cleanup", "unlocking"}
          /\ reset[s].at \notin Quieted /\ reset[s].at \notin Copied
      BY <2>1, <3>1 DEF Stage, Preparing, Quieted, Copied, Secured, Linked, Ready
    <3> QED
      BY <1>1, <2>1, <3>1, <3>2 DEF Stage
  <2> QED
    BY <2>3, <2>4
<1>10. ASSUME NEW c \in Clients PROVE Safe(c)'
  <2>1. Safe(c)
    BY DEF IInv
  <2>2. InBackup(c)' <=> InBackup(c)
    BY <1>1 DEF InBackup
  <2>3. client'[c].at \in Inside => client'[c].early
    BY <1>5
  <2> QED
    BY <1>1, <1>5, <1>8, <2>1, <2>2, <2>3 DEF Safe, Inside
<1> QED
  BY <1>7, <1>9, <1>10 DEF IInv

\* The lock is removed: no reset is at work any more.
LEMMA UnlockStep ==
  ASSUME IInv, NEW r \in Resetters, marker = r,
         Unlock(r) \/ RemoveLock(r)
  PROVE  IInv'
<1>1. PICK to \in {"done", "attended"} :
        reset' = [reset EXCEPT ![r] = [reset[r] EXCEPT !.at = to]]
  BY DEF Unlock, RemoveLock, Goto
<1>2. marker' = NoOne /\ UNCHANGED <<target, disk, backups, settled, client>>
  BY DEF Unlock, RemoveLock, Unchanged
<1> DEFINE q == [reset[r] EXCEPT !.at = to]
<1>3. q \in Resets /\ q.at = to
  BY DEF IInv, TypeOK, Resets, Stages
<1>4. reset' = [reset EXCEPT ![r] = q]
  BY <1>1
<1> HIDE DEF q
<1>5. TypeOK'
  BY <1>2, <1>3, <1>4 DEF IInv, TypeOK
<1>6. ASSUME NEW s \in Resetters PROVE Stage(s, reset[s])'
  <2>1. Stage(s, reset[s])
    BY DEF IInv
  <2>2. reset'[s] = IF s = r THEN q ELSE reset[s]
    BY <1>4 DEF IInv, TypeOK
  <2>3. CASE s = r
    BY <1>2, <1>3, <2>1, <2>2, <2>3
    DEF Stage, Preparing, Rechecked, Quieted, Copied, Secured, Linked, Ready, Unreplaced, Unlinked
  <2>4. CASE s # r
    <3>1. reset'[s] = reset[s] /\ marker # s
      BY <2>2, <2>4
    <3>2. reset[s].at \notin Preparing \cup {"replaced", "cleanup", "unlocking"}
      BY <2>1, <3>1 DEF Stage
    <3> QED
      BY <1>2, <2>1, <3>1, <3>2 DEF Stage, Timely
  <2> QED
    BY <2>3, <2>4
<1>7. ASSUME NEW c \in Clients PROVE Safe(c)'
  <2>1. Safe(c)
    BY DEF IInv
  <2> QED
    BY <1>2, <2>1 DEF Safe, Timely, InBackup
<1> QED
  BY <1>5, <1>6, <1>7 DEF IInv

\* A reset at work moves on and leaves alone what the others have established:
\* they have neither a backup nor a file in place.
LEMMA OthersKeep ==
  ASSUME IInv, NEW r \in Resetters, NEW s \in Resetters, r # s, Working(r),
         reset'[s] = reset[s],
         ~backups[s].linked => ~backups'[s].linked,
         target # s /\ settled.target # s => target' # s /\ settled'.target # s
  PROVE  Stage(s, reset[s])'
<1>1. Stage(s, reset[s])
  BY DEF IInv
<1>2. /\ reset[s].at \notin Preparing \cup {"replaced", "cleanup", "unlocking"}
      /\ reset[s].at \notin Rechecked /\ reset[s].at \notin Quieted
      /\ reset[s].at \notin Copied /\ reset[s].at \notin Secured
      /\ reset[s].at \notin Linked /\ reset[s].at \notin Ready
  BY IdleStage
<1> QED
  BY <1>1, <1>2 DEF Stage

\* The replacement is a file no path names yet.
LEMMA BuildFreshStep ==
  ASSUME IInv, NEW r \in Resetters, BuildFresh(r) PROVE IInv'
<1> DEFINE q == [reset[r] EXCEPT !.at = "built"]
<1>1. /\ reset[r].at = "quiet"
      /\ reset' = [reset EXCEPT ![r] = q]
      /\ disk' = [disk EXCEPT ![r] = {}]
      /\ UNCHANGED <<target, marker, backups, settled, client>>
  BY DEF BuildFresh, Goto
<1>2. Stage(r, reset[r])
  BY DEF IInv
<1>3. target # r /\ settled.target # r
  BY <1>1, <1>2 DEF Stage, Unreplaced, Unlinked
<1>4. q \in Resets /\ q.at = "built" /\ q.file = reset[r].file
  BY DEF IInv, TypeOK, Resets, Stages, Unreplaced, Unlinked
<1> HIDE DEF q
<1>5. r \in Files
  BY DEF Files
<1>6. \A f \in Files : disk'[f] = IF f = r THEN {} ELSE disk[f]
  BY <1>1 DEF IInv, TypeOK
<1>7. disk'[target] = disk[target] /\ disk'[settled.target] = disk[settled.target]
  BY <1>3, <1>6 DEF IInv, TypeOK
<1>8. TypeOK'
  BY <1>1, <1>4, <1>5 DEF IInv, TypeOK
<1>9. reset'[r] = q /\ Working(r) /\ \A s \in Resetters : s # r => reset'[s] = reset[s]
  BY <1>1 DEF IInv, TypeOK, Working, Preparing
<1>10. Stage(r, reset[r])'
  BY <1>1, <1>2, <1>4, <1>7, <1>9
  DEF Stage, Timely, Preparing, Rechecked, Quieted, Copied, Secured, Linked, Ready, Unreplaced,
      Unlinked
<1>11. \A s \in Resetters : s # r => Stage(s, reset[s])'
  BY <1>1, <1>9, OthersKeep
<1>12. ASSUME NEW c \in Clients PROVE Safe(c)'
  <2>1. Safe(c)
    BY DEF IInv
  <2>2. InBackup(c)' <=> InBackup(c)
    BY <1>1 DEF InBackup
  <2>3. \A f \in Files : c \in disk'[f] => client[c].at = "done"
    BY <1>6, <2>1 DEF Safe
  <2> QED
    BY <1>1, <1>7, <2>1, <2>2, <2>3 DEF Safe, Timely
<1> QED
  BY <1>8, <1>10, <1>11, <1>12 DEF IInv

\* A reset works on its own backup, and takes away none that lasts.
LEMMA BackupStep ==
  ASSUME IInv, NEW r \in Resetters, NEW to \in Stages, NEW b \in Backups, Working(r),
         reset' = [reset EXCEPT ![r].at = to],
         backups' = [backups EXCEPT ![r] = b],
         UNCHANGED <<target, disk, marker, settled, client>>,
         Lasting(backups[r]) => Lasting(b) /\ backups[r].rows \subseteq b.rows,
         Stage(r, reset[r])'
  PROVE  IInv'
<1>1. TypeOK'
  <2> DEFINE q == [reset[r] EXCEPT !.at = to]
  <2>1. q \in Resets /\ reset' = [reset EXCEPT ![r] = q]
    BY DEF IInv, TypeOK, Resets
  <2> HIDE DEF q
  <2> QED
    BY <2>1 DEF IInv, TypeOK
<1>2. /\ \A s \in Resetters : s # r => reset'[s] = reset[s] /\ backups'[s] = backups[s]
      /\ backups'[r] = b
  BY DEF IInv, TypeOK
<1>3. \A s \in Resetters : s # r => Stage(s, reset[s])'
  BY <1>2, OthersKeep
<1>4. Stage(r, reset[r])'
  OBVIOUS
<1>5. ASSUME NEW c \in Clients PROVE Safe(c)'
  <2>1. Safe(c)
    BY DEF IInv
  <2>2. InBackup(c) => InBackup(c)'
    BY <1>2 DEF InBackup
  <2> QED
    BY <2>1, <2>2 DEF Safe, Timely
<1> QED
  BY <1>1, <1>3, <1>4, <1>5 DEF IInv

LEMMA CopyStep ==
  ASSUME IInv, NEW r \in Resetters, CopyOriginal(r) PROVE IInv'
<1> DEFINE b == [backups[r] EXCEPT !.rows = disk[target]]
           q == [reset[r] EXCEPT !.at = "copied"]
<1>1. /\ reset[r].at = "verified"
      /\ reset' = [reset EXCEPT ![r].at = "copied"]
      /\ backups' = [backups EXCEPT ![r] = b]
      /\ UNCHANGED <<target, disk, marker, settled, client>>
  BY DEF CopyOriginal, Goto, Unchanged
<1>2. b \in Backups /\ b.rows = disk[target] /\ b.linked = backups[r].linked
  BY DEF IInv, TypeOK, Backups
<1>3. q.at = "copied" /\ q.file = reset[r].file /\ reset'[r] = q /\ backups'[r] = b
  BY <1>1 DEF IInv, TypeOK, Resets
<1>4. Working(r) /\ "copied" \in Stages
  BY <1>1 DEF Working, Preparing, Stages, Unreplaced, Unlinked
<1> HIDE DEF b, q
<1>5. Stage(r, reset[r])
  BY DEF IInv
<1>6. Stage(r, reset[r])'
  BY <1>1, <1>2, <1>3, <1>5
  DEF Stage, Timely, Preparing, Rechecked, Quieted, Copied, Secured, Linked, Ready, Unreplaced,
      Unlinked
<1>7. ~backups[r].linked
  BY <1>1, <1>5 DEF Stage, Unlinked
<1>8. ~Lasting(backups[r])
  BY <1>7 DEF Lasting
<1> QED
  BY <1>1, <1>2, <1>4, <1>6, <1>8, BackupStep

LEMMA SecureStep ==
  ASSUME IInv, NEW r \in Resetters, SecureCopy(r) PROVE IInv'
<1> DEFINE b == [backups[r] EXCEPT !.synced = TRUE]
           q == [reset[r] EXCEPT !.at = "secured"]
<1>1. /\ reset[r].at = "copied"
      /\ reset' = [reset EXCEPT ![r].at = "secured"]
      /\ backups' = [backups EXCEPT ![r] = b]
      /\ UNCHANGED <<target, disk, marker, settled, client>>
  BY DEF SecureCopy, Goto, Unchanged
<1>2. /\ b \in Backups /\ b.synced = TRUE /\ b.rows = backups[r].rows
      /\ b.linked = backups[r].linked
  BY DEF IInv, TypeOK, Backups
<1>3. q.at = "secured" /\ q.file = reset[r].file /\ reset'[r] = q /\ backups'[r] = b
  BY <1>1 DEF IInv, TypeOK, Resets
<1>4. Working(r) /\ "secured" \in Stages
  BY <1>1 DEF Working, Preparing, Stages, Unreplaced, Unlinked
<1> HIDE DEF b, q
<1>5. Stage(r, reset[r])
  BY DEF IInv
<1>6. Stage(r, reset[r])'
  BY <1>1, <1>2, <1>3, <1>5
  DEF Stage, Timely, Preparing, Rechecked, Quieted, Copied, Secured, Linked, Ready, Unreplaced,
      Unlinked
<1>7. ~backups[r].linked
  BY <1>1, <1>5 DEF Stage, Unlinked
<1>8. ~Lasting(backups[r])
  BY <1>7 DEF Lasting
<1> QED
  BY <1>1, <1>2, <1>4, <1>6, <1>8, BackupStep

LEMMA LinkStep ==
  ASSUME IInv, NEW r \in Resetters, LinkBackup(r) PROVE IInv'
<1> DEFINE b == [backups[r] EXCEPT !.linked = TRUE]
           q == [reset[r] EXCEPT !.at = "linked"]
<1>1. /\ reset[r].at = "secured"
      /\ reset' = [reset EXCEPT ![r].at = "linked"]
      /\ backups' = [backups EXCEPT ![r] = b]
      /\ UNCHANGED <<target, disk, marker, settled, client>>
  BY DEF LinkBackup, Goto, Unchanged
<1>2. /\ b \in Backups /\ b.linked = TRUE /\ b.rows = backups[r].rows
      /\ b.synced = backups[r].synced
  BY DEF IInv, TypeOK, Backups
<1>3. q.at = "linked" /\ q.file = reset[r].file /\ reset'[r] = q /\ backups'[r] = b
  BY <1>1 DEF IInv, TypeOK, Resets
<1>4. Working(r) /\ "linked" \in Stages
  BY <1>1 DEF Working, Preparing, Stages, Unreplaced
<1> HIDE DEF b, q
<1>5. Stage(r, reset[r])
  BY DEF IInv
<1>6. Stage(r, reset[r])'
  BY <1>1, <1>2, <1>3, <1>5
  DEF Stage, Timely, Preparing, Rechecked, Quieted, Copied, Secured, Linked, Ready, Unreplaced,
      Unlinked
<1>7. ~backups[r].linked
  BY <1>1, <1>5 DEF Stage, Unlinked
<1>8. ~Lasting(backups[r])
  BY <1>7 DEF Lasting
<1> QED
  BY <1>1, <1>2, <1>4, <1>6, <1>8, BackupStep

\* The directory is flushed: what is linked lasts, and the database that is in
\* place is the one a power failure leaves.
LEMMA Settling ==
  ASSUME IInv, SettleDirectory(target)
  PROVE  /\ backups' \in [Resetters -> Backups]
         /\ settled' \in [target : Files, marker : Resetters \cup {NoOne}]
         /\ settled'.target = target
         /\ \A r \in Resetters : /\ backups'[r].linked = backups[r].linked
                                 /\ backups'[r].settled = backups[r].linked
                                 /\ backups'[r].synced = backups[r].synced
                                 /\ backups'[r].rows = backups[r].rows
         /\ \A c \in Clients : InBackup(c) => InBackup(c)'
<1>1. \A r \in Resetters : backups[r] \in Backups
  BY DEF IInv, TypeOK
<1>2. \A r \in Resetters : /\ backups'[r] = [backups[r] EXCEPT !.settled = backups[r].linked]
                           /\ backups'[r] \in Backups
  BY <1>1 DEF SettleDirectory, Backups
<1>3. \A r \in Resetters : /\ backups'[r].linked = backups[r].linked
                           /\ backups'[r].settled = backups[r].linked
                           /\ backups'[r].synced = backups[r].synced
                           /\ backups'[r].rows = backups[r].rows
  BY <1>1, <1>2 DEF Backups
<1>4. backups' \in [Resetters -> Backups]
  <2>1. backups' = [r \in Resetters |-> backups'[r]]
    BY DEF SettleDirectory
  <2> QED
    BY <1>2, <2>1
<1>5. \A c \in Clients : InBackup(c) => InBackup(c)'
  BY <1>3 DEF InBackup, Lasting
<1>6. settled' \in [target : Files, marker : Resetters \cup {NoOne}] /\ settled'.target = target
  BY DEF SettleDirectory, IInv, TypeOK
<1> QED
  BY <1>3, <1>4, <1>5, <1>6

LEMMA SyncStep ==
  ASSUME IInv, NEW r \in Resetters, SyncBackup(r) \/ SyncReplaced(r) PROVE IInv'
<1>1. PICK to \in {"ready", "cleanup"} :
        /\ reset[r].at = IF to = "ready" THEN "linked" ELSE "replaced"
        /\ reset' = [reset EXCEPT ![r] = [reset[r] EXCEPT !.at = to]]
  BY DEF SyncBackup, SyncReplaced, Goto
<1>2. SettleDirectory(target) /\ UNCHANGED <<target, disk, marker, client>>
  BY DEF SyncBackup, SyncReplaced, Unchanged
<1> DEFINE q == [reset[r] EXCEPT !.at = to]
<1>3. q \in Resets /\ q.at = to /\ q.file = reset[r].file
  BY DEF IInv, TypeOK, Resets, Stages, Unreplaced
<1>4. reset' = [reset EXCEPT ![r] = q]
  BY <1>1
<1> HIDE DEF q
<1>5. Working(r)
  BY <1>1 DEF Working, Preparing
<1>6. /\ backups' \in [Resetters -> Backups]
      /\ settled' \in [target : Files, marker : Resetters \cup {NoOne}]
      /\ settled'.target = target
      /\ \A s \in Resetters : /\ backups'[s].linked = backups[s].linked
                              /\ backups'[s].settled = backups[s].linked
                              /\ backups'[s].synced = backups[s].synced
                              /\ backups'[s].rows = backups[s].rows
      /\ \A c \in Clients : InBackup(c) => InBackup(c)'
  BY <1>2, Settling
<1>7. TypeOK'
  BY <1>2, <1>3, <1>4, <1>6 DEF IInv, TypeOK
<1>8. reset'[r] = q /\ \A s \in Resetters : s # r => reset'[s] = reset[s]
  BY <1>4 DEF IInv, TypeOK
<1>9. Stage(r, reset[r])
  BY DEF IInv
<1>10. Stage(r, reset[r])'
  BY <1>1, <1>2, <1>3, <1>6, <1>8, <1>9
  DEF Stage, Timely, Preparing, Rechecked, Quieted, Copied, Secured, Linked, Ready, Unreplaced,
      Unlinked
<1>11. \A s \in Resetters : s # r => Stage(s, reset[s])'
  BY <1>2, <1>5, <1>6, <1>8, OthersKeep
<1>12. ASSUME NEW c \in Clients PROVE Safe(c)'
  <2>1. Safe(c)
    BY DEF IInv
  <2> QED
    BY <1>2, <1>6, <2>1 DEF Safe, Timely
<1> QED
  BY <1>7, <1>10, <1>11, <1>12 DEF IInv

\* The original leaves its place; what it alone held is in a backup that lasts.
LEMMA ReplaceStep ==
  ASSUME IInv, NEW r \in Resetters, Replace(r) PROVE IInv'
<1> DEFINE q == [reset[r] EXCEPT !.at = "replaced"]
<1>1. /\ reset[r].at = "ready"
      /\ reset' = [reset EXCEPT ![r] = q]
      /\ target' = r
      /\ UNCHANGED <<disk, marker, backups, settled, client>>
  BY DEF Replace, Goto, Unchanged
<1>2. q \in Resets /\ q.at = "replaced"
  BY DEF IInv, TypeOK, Resets, Stages
<1> HIDE DEF q
<1>3. Working(r)
  BY <1>1 DEF Working, Preparing
<1>4. TypeOK'
  BY <1>1, <1>2 DEF IInv, TypeOK, Files
<1>5. reset'[r] = q /\ \A s \in Resetters : s # r => reset'[s] = reset[s]
  BY <1>1 DEF IInv, TypeOK
<1>6. Stage(r, reset[r])
  BY DEF IInv
<1>7. Stage(r, reset[r])'
  BY <1>1, <1>2, <1>5, <1>6
  DEF Stage, Preparing, Rechecked, Quieted, Copied, Secured, Linked, Ready, Unreplaced, Unlinked
<1>8. \A s \in Resetters : s # r => Stage(s, reset[s])'
  BY <1>1, <1>3, <1>5, OthersKeep
<1>9. /\ Lasting(backups[r])
      /\ disk[target] \cap Timely \subseteq backups[r].rows
  BY <1>1, <1>6 DEF Stage, Lasting, Copied, Secured, Linked, Ready
<1>10. ASSUME NEW c \in Clients PROVE Safe(c)'
  <2>1. Safe(c)
    BY DEF IInv
  <2>2. c \in Timely => InBackup(c)
    BY <1>9, <2>1 DEF Safe, InBackup
  <2>3. InBackup(c)' <=> InBackup(c)
    BY <1>1 DEF InBackup
  <2>4. ~(client[c].at \in Inside /\ ~client[c].early)
    BY <1>3, NoLock
  <2> QED
    BY <1>1, <2>1, <2>2, <2>3, <2>4 DEF Safe, Timely, Inside
<1> QED
  BY <1>4, <1>7, <1>8, <1>10 DEF IInv

-----------------------------------------------------------------------------
(* The steps of a client, and the power failure.                            *)

LEMMA ApproachStep ==
  ASSUME IInv, NEW c \in Clients, CheckFence(c) \/ Open(c) \/ Begin(c) \/ Abort(c) PROVE IInv'
<1>1. client[c] \in ClientRows /\ Safe(c) /\ target \in Files
  BY DEF IInv, TypeOK
<1>2. UNCHANGED <<target, disk, marker, backups, settled, reset>>
  BY DEF CheckFence, Open, Begin, Abort, ClientUnchanged
<1>3. CASE CheckFence(c) \/ Begin(c) \/ Abort(c)
  <2>1. PICK to \in {"checked", "writing", "idle", "refused"} :
          /\ client' = [client EXCEPT ![c] = [client[c] EXCEPT !.at = to]]
          /\ client[c].at # "done"
          /\ to = "checked" => marker = NoOne
          /\ to = "writing" => client[c].at = "open"
    BY <1>3 DEF CheckFence, Begin, Abort, At
  <2> DEFINE k == [client[c] EXCEPT !.at = to]
  <2>2. /\ k \in ClientRows /\ k.at = to /\ k.file = client[c].file
        /\ k.late = client[c].late /\ k.early = client[c].early
    BY <1>1 DEF ClientRows, Inside
  <2>3. client' = [client EXCEPT ![c] = k]
    BY <2>1
  <2> HIDE DEF k
  <2>4. k.at \in Inside /\ ~k.early => marker = NoOne
    BY <1>1, <2>1, <2>2 DEF Safe, Inside
  <2>5. k.at \in {"open", "writing"} /\ ~k.early => k.file = target
    BY <1>1, <2>1, <2>2 DEF Safe
  <2>6. client[c].at # "done" /\ k.at # "done"
    BY <2>1, <2>2
  <2> QED
    BY <1>2, <2>2, <2>3, <2>4, <2>5, <2>6, ClientMove
<1>4. CASE Open(c)
  <2> DEFINE k == [client[c] EXCEPT !.at = "open", !.file = target]
  <2>1. client' = [client EXCEPT ![c] = k] /\ client[c].at = "checked"
    BY <1>1, <1>4 DEF Open, IInv, TypeOK
  <2>2. /\ k \in ClientRows /\ k.at = "open" /\ k.file = target
        /\ k.late = client[c].late /\ k.early = client[c].early
    BY <1>1 DEF ClientRows, Inside
  <2> HIDE DEF k
  <2>3. k.at \in Inside /\ ~k.early => marker = NoOne
    BY <1>1, <2>1, <2>2 DEF Safe, Inside
  <2> QED
    BY <1>2, <2>1, <2>2, <2>3, ClientMove
<1> QED
  BY <1>3, <1>4

\* A commit on the file that is in place, while no reset has SQLite's lock, is
\* in time; any other is late, and made by a client that met no fence.
LEMMA CommitStep ==
  ASSUME IInv, NEW c \in Clients, Commit(c) PROVE IInv'
<1> DEFINE k == [client[c] EXCEPT !.at = "done", !.late = Lateness(c)]
<1>1. /\ client[c].at = "writing"
      /\ client' = [client EXCEPT ![c] = k]
      /\ disk' = [disk EXCEPT ![client[c].file] = disk[client[c].file] \cup {c}]
      /\ SettleDirectory(target)
      /\ UNCHANGED <<target, marker, reset>>
  BY DEF Commit, ClientUnchanged
<1>2. /\ client[c] \in ClientRows /\ target \in Files /\ Safe(c)
      /\ client[c].file \in Files
  BY DEF IInv, TypeOK, ClientRows
<1>3. Lateness(c) \in {"no", "fenced", "replaced"}
  BY DEF Lateness
<1>4. /\ k \in ClientRows /\ k.at = "done" /\ k.late = Lateness(c)
      /\ k.early = client[c].early /\ k.file = client[c].file
  BY <1>2, <1>3 DEF ClientRows
<1> HIDE DEF k
<1>5. \A d \in Clients : client'[d] = IF d = c THEN k ELSE client[d]
  BY <1>1 DEF IInv, TypeOK
<1>6. \A f \in Files : disk'[f] = IF f = client[c].file THEN disk[f] \cup {c} ELSE disk[f]
  BY <1>1 DEF IInv, TypeOK
<1>7. /\ backups' \in [Resetters -> Backups]
      /\ settled' \in [target : Files, marker : Resetters \cup {NoOne}]
      /\ settled'.target = target
      /\ \A s \in Resetters : /\ backups'[s].linked = backups[s].linked
                              /\ backups'[s].settled = backups[s].linked
                              /\ backups'[s].synced = backups[s].synced
                              /\ backups'[s].rows = backups[s].rows
      /\ \A d \in Clients : InBackup(d) => InBackup(d)'
  BY <1>1, Settling
<1>8. TypeOK'
  <2>1. disk' \in [Files -> SUBSET Clients]
    BY <1>1, <1>2 DEF IInv, TypeOK
  <2>2. client' \in [Clients -> ClientRows]
    BY <1>1, <1>4 DEF IInv, TypeOK
  <2> QED
    BY <1>1, <1>7, <2>1, <2>2 DEF IInv, TypeOK
<1>9. c \notin Timely /\ \A f \in Files : c \notin disk[f]
  BY <1>1, <1>2 DEF Timely, Safe
<1>10. Timely' = IF Lateness(c) = "no" THEN Timely \cup {c} ELSE Timely
  BY <1>4, <1>5, <1>9 DEF Timely
<1>11. Lateness(c) = "no" => client[c].file = target
  BY DEF Lateness
<1>12. ASSUME NEW r \in Resetters, reset[r].at \in Quieted, reset[r].file = target
       PROVE  Lateness(c) # "no"
  <2>1. Fenced(target)
    BY <1>12 DEF Fenced, Quieted, Copied, Secured, Linked, Ready
  <2> QED
    BY <2>1 DEF Lateness
<1>13. ASSUME NEW r \in Resetters PROVE Stage(r, reset[r])'
  <2>1. Stage(r, reset[r])
    BY DEF IInv
  <2>2. ASSUME reset[r].at \in Quieted
        PROVE  \A d \in disk'[target] \cap Starters : client'[d].late # "no"
    <3>1. reset[r].file = target
      BY <2>1, <2>2 DEF Stage, Rechecked
    <3>2. Lateness(c) # "no"
      BY <1>12, <2>2, <3>1
    <3>3. \A d \in disk[target] \cap Starters : client[d].late # "no" /\ d \in Clients
      BY <2>1, <2>2 DEF Stage, IInv, TypeOK
    <3> QED
      BY <1>2, <1>4, <1>5, <1>6, <3>2, <3>3
  <2>3. ASSUME reset[r].at \in Copied
        PROVE  disk'[target] \cap Timely' \subseteq backups'[r].rows
    <3>1. reset[r].file = target /\ reset[r].at \in Quieted
      BY <2>1, <2>3 DEF Stage, Rechecked, Quieted
    <3>2. Timely' = Timely
      BY <1>10, <1>12, <3>1
    <3>3. disk[target] \cap Timely \subseteq backups[r].rows
      BY <2>1, <2>3 DEF Stage
    <3> QED
      BY <1>2, <1>6, <1>7, <1>9, <3>2, <3>3
  <2>4. reset'[r] = reset[r]
    BY <1>1
  <2>5. /\ reset[r].at \in Secured => backups'[r].synced
        /\ reset[r].at \in Linked => backups'[r].linked
        /\ reset[r].at \in Ready => backups'[r].settled
        /\ reset[r].at \in Unlinked => ~backups'[r].linked
    BY <1>7, <2>1 DEF Stage, Linked
  <2>6. reset[r].at \in Unreplaced => target # r /\ settled'.target # r
    BY <1>7, <2>1 DEF Stage
  <2>7. /\ reset[r].at \in Preparing \cup {"replaced", "cleanup", "unlocking"} => marker = r
        /\ reset[r].at \in Rechecked => reset[r].file = target
    BY <2>1 DEF Stage
  <2> QED
    BY <1>1, <2>2, <2>3, <2>5, <2>6, <2>7 DEF Stage
<1>14. ASSUME ~client[c].early PROVE Lateness(c) = "no"
  <2>1. client[c].file = target /\ marker = NoOne
    BY <1>1, <1>2, <1>14 DEF Safe, Inside
  <2>2. \A r \in Resetters : ~Working(r)
    BY <2>1, AloneAtWork, NamesAssumption
  <2>3. ~Fenced(target)
    BY <2>2 DEF Fenced, Working, Preparing
  <2> QED
    BY <2>1, <2>3 DEF Lateness
<1>15. ASSUME NEW d \in Clients PROVE Safe(d)'
  <2>1. Safe(d)
    BY DEF IInv
  <2>2. client'[d].late # "no" => client'[d].early
    BY <1>4, <1>5, <1>14, <2>1 DEF Safe
  <2>3. /\ client'[d].at \in Inside /\ ~client'[d].early => marker = NoOne
        /\ client'[d].at \in {"open", "writing"} /\ ~client'[d].early => client'[d].file = target
    BY <1>4, <1>5, <2>1 DEF Safe, Inside
  <2>4. \A f \in Files : d \in disk'[f] => client'[d].at = "done"
    BY <1>4, <1>5, <1>6, <2>1 DEF Safe
  <2>5. d \in Timely' => d \in disk'[target] \/ InBackup(d)'
    <3>1. CASE d \in Timely
      BY <1>2, <1>6, <1>7, <2>1, <3>1 DEF Safe
    <3>2. CASE d = c /\ Lateness(c) = "no"
      BY <1>2, <1>6, <1>11, <3>2
    <3> QED
      BY <1>10, <3>1, <3>2
  <2> QED
    BY <1>1, <1>7, <2>2, <2>3, <2>4, <2>5 DEF Safe
<1> QED
  BY <1>8, <1>13, <1>15 DEF IInv

\* After a power failure nobody is at work, and either of the files it may
\* leave in place is one that Safe speaks of.
LEMMA OutageStep ==
  ASSUME IInv, Outage PROVE IInv'
<1>1. /\ target' \in {target, settled.target}
      /\ marker' \in {marker, settled.marker}
      /\ settled' = [target |-> target', marker |-> marker']
      /\ disk' = disk
  BY DEF Outage
<1>2. ASSUME NEW r \in Resetters
      PROVE  /\ reset[r] \in Resets /\ reset'[r] \in Resets
             /\ reset'[r].at \in {"idle", "refused", "marked", "done", "dead", "attended"}
             /\ reset'[r].at = "idle" => reset[r].at = "idle"
  <2>1. reset[r] \in Resets
    BY DEF IInv, TypeOK
  <2>2. reset'[r] = IF Working(r) THEN [reset[r] EXCEPT !.at = "dead"]
                    ELSE IF reset[r].at \in {"previewed", "confirmed"}
                    THEN [reset[r] EXCEPT !.at = "refused"] ELSE reset[r]
    BY DEF Outage
  <2>3. CASE Working(r)
    BY <2>1, <2>2, <2>3 DEF Resets, Stages
  <2>4. CASE ~Working(r) /\ reset[r].at \in {"previewed", "confirmed"}
    BY <2>1, <2>2, <2>4 DEF Resets, Stages
  <2>5. CASE ~Working(r) /\ reset[r].at \notin {"previewed", "confirmed"}
    <3>1. reset'[r] = reset[r]
      BY <2>2, <2>5
    <3>2. reset[r].at \in {"idle", "refused", "marked", "done", "dead", "attended"}
      BY <2>1, <2>5 DEF Resets, Stages, Unreplaced, Unlinked, Working, Preparing
    <3> QED
      BY <2>1, <3>1, <3>2
  <2> QED
    BY <2>3, <2>4, <2>5
<1>3. ASSUME NEW c \in Clients
      PROVE  /\ client'[c] \in ClientRows /\ client'[c].at \notin Inside
             /\ client'[c].late = client[c].late /\ client'[c].early = client[c].early
             /\ client'[c].at = "done" <=> client[c].at = "done"
  <2>1. client[c] \in ClientRows
    BY DEF IInv, TypeOK
  <2>2. client'[c] = IF client[c].at \in Inside THEN [client[c] EXCEPT !.at = "refused"]
                     ELSE client[c]
    BY DEF Outage, Inside
  <2> QED
    BY <2>1, <2>2 DEF ClientRows, Inside
<1>4. PICK kept \in SUBSET Resetters :
        backups' = [r \in Resetters |->
             IF ~backups[r].linked \/ ~(backups[r].settled \/ r \in kept) THEN NoBackup
             ELSE [linked |-> TRUE, settled |-> TRUE, synced |-> TRUE,
                   rows |-> IF backups[r].synced THEN backups[r].rows ELSE {}]]
  BY DEF Outage
<1>5. ASSUME NEW r \in Resetters
      PROVE  /\ backups'[r] \in Backups
             /\ ~backups[r].linked => ~backups'[r].linked
             /\ Lasting(backups[r]) => /\ Lasting(backups'[r])
                                       /\ backups'[r].rows = backups[r].rows
  <2>1. backups[r] \in Backups
    BY DEF IInv, TypeOK
  <2> QED
    BY <1>4, <2>1 DEF Backups, NoBackup, Lasting
<1>6. TypeOK'
  <2>1. backups' \in [Resetters -> Backups]
    <3>1. backups' = [r \in Resetters |-> backups'[r]]
      BY <1>4
    <3> QED
      BY <1>5, <3>1
  <2>2. reset' \in [Resetters -> Resets]
    <3>1. reset' = [r \in Resetters |-> reset'[r]]
      BY DEF Outage
    <3> QED
      BY <1>2, <3>1
  <2>3. client' \in [Clients -> ClientRows]
    <3>1. client' = [c \in Clients |-> client'[c]]
      BY DEF Outage
    <3> QED
      BY <1>3, <3>1
  <2> QED
    BY <1>1, <2>1, <2>2, <2>3 DEF IInv, TypeOK
<1>7. Timely' = Timely
  BY <1>3 DEF Timely
<1>8. ASSUME NEW r \in Resetters PROVE Stage(r, reset[r])'
  <2>1. Stage(r, reset[r])
    BY DEF IInv
  <2>2. reset'[r].at = "idle" => /\ ~backups'[r].linked
                                 /\ target' # r /\ settled'.target # r
    BY <1>1, <1>2, <1>5, <2>1 DEF Stage, Unlinked, Unreplaced
  <2> QED
    BY <1>2, <2>2 DEF Stage, Preparing, Rechecked, Quieted, Copied, Secured, Linked, Ready,
                      Unreplaced, Unlinked
<1>9. ASSUME NEW c \in Clients PROVE Safe(c)'
  <2>1. Safe(c)
    BY DEF IInv
  <2>2. InBackup(c) => InBackup(c)'
    BY <1>5 DEF InBackup
  <2> QED
    BY <1>1, <1>3, <1>7, <2>1, <2>2 DEF Safe, Inside
<1> QED
  BY <1>6, <1>8, <1>9 DEF IInv

LEMMA NextKeeps ==
  ASSUME IInv, [Next]_vars PROVE IInv'
<1>1. ASSUME NEW r \in Resetters, Preview(r) \/ ResetStep(r) \/ Fail(r) \/ Crash(r) \/ RemoveLock(r)
      PROVE  IInv'
  <2>1. CASE \/ Confirm(r) \/ Recheck(r) \/ Inspect(r) \/ Fence(r) \/ InspectFenced(r)
             \/ RecheckTarget(r) \/ Fail(r) \/ Cleanup(r) \/ Crash(r)
    BY <2>1, ReadingStep
  <2>2. CASE TakeLock(r)
    BY <2>2, ReadingStep, TakeLockStep
  <2>3. CASE Unlock(r)
    BY <2>3, ReadingStep, UnlockStep
  <2>4. CASE RemoveLock(r)
    BY <2>4, UnlockStep DEF RemoveLock
  <2> QED
    BY <1>1, <2>1, <2>2, <2>3, <2>4, PreviewStep, BuildFreshStep, CopyStep, SecureStep, LinkStep,
       SyncStep, ReplaceStep DEF ResetStep
<1>2. ASSUME NEW c \in Clients, ClientStep(c) PROVE IInv'
  BY <1>2, ApproachStep, CommitStep DEF ClientStep
<1>3. CASE UNCHANGED vars
  <2>1. TypeOK'
    BY <1>3 DEF vars, IInv, TypeOK
  <2>2. ASSUME NEW r \in Resetters PROVE Stage(r, reset[r])'
    <3>1. Stage(r, reset[r])
      BY DEF IInv
    <3> QED
      BY <1>3, <3>1 DEF vars, Stage, Timely
  <2>3. ASSUME NEW c \in Clients PROVE Safe(c)'
    <3>1. Safe(c)
      BY DEF IInv
    <3> QED
      BY <1>3, <3>1 DEF vars, Safe, Timely, InBackup
  <2> QED
    BY <2>1, <2>2, <2>3 DEF IInv
<1> QED
  BY <1>1, <1>2, <1>3, OutageStep DEF Next

LEMMA Invariance == Spec => []IInv
<1>1. Init => IInv
  BY InitIInv
<1>2. IInv /\ [Next]_vars => IInv'
  BY NextKeeps
<1> QED
  BY <1>1, <1>2, PTL DEF Spec

-----------------------------------------------------------------------------
(* The theorems.                                                            *)

\* Of any number of resets, whatever dies or loses power between the lock file
\* and its removal, one at a time is at work (resetLocalDatabase, db/reset.ts).
THEOREM OneResetAtATime == Spec => []OneReset
<1>1. IInv => OneReset
  BY AloneAtWork DEF OneReset
<1> QED
  BY <1>1, Invariance, PTL

\* A commit on a file that is being replaced comes from a client that had
\* passed assertNoDatabaseReset before the lock file was there.
THEOREM FenceCooperates == Spec => []CooperativeFence
<1>1. IInv => CooperativeFence
  BY DEF IInv, Safe, CooperativeFence
<1> QED
  BY <1>1, Invariance, PTL

\* No transaction that committed in time is lost: it is in the database or in
\* a backup that is linked, whatever fails and whenever the power goes.
THEOREM NothingIsLost == Spec => []NothingLost
<1>1. IInv => NothingLost
  <2> SUFFICES ASSUME IInv, NEW c \in Clients, client[c].at = "done", client[c].late = "no"
               PROVE  c \in Kept
    BY DEF NothingLost, Committed
  <2>1. c \in disk[target] \/ InBackup(c)
    BY DEF IInv, Safe, Timely
  <2> QED
    BY <2>1 DEF Kept, InBackup, Lasting
<1> QED
  BY <1>1, Invariance, PTL

\* A replacement takes no active work away but what was committed after the
\* reset had SQLite's lock (inspectDatabase under BEGIN EXCLUSIVE).
THEOREM ActiveWorkIsKept == Spec => ActiveWorkStays
<1>1. ASSUME IInv, NEW r \in Resetters, reset[r].at = "ready"
      PROVE  \A c \in disk[target] \cap Starters : client[c].late # "no"
  <2>1. Stage(r, reset[r])
    BY <1>1 DEF IInv
  <2> QED
    BY <1>1, <2>1 DEF Stage, Quieted, Copied, Secured, Linked, Ready
<1>2. IInv => [\A r \in Resetters :
                 reset[r].at = "ready" /\ reset'[r].at = "replaced" =>
                    \A c \in disk[target] \cap Starters : client[c].late # "no"]_vars
  BY <1>1
<1> QED
  BY <1>2, Invariance, PTL DEF ActiveWorkStays
=============================================================================

--------------------------- MODULE DatabaseReset ---------------------------
(***************************************************************************)
(* Replacing the local database file under its clients                     *)
(* (packages/core/src/db/reset.ts, and the fence and transactions of       *)
(* db/client.ts): any number of resets and clients, each a process of its  *)
(* own, that may fail at any call, die at any point, or lose power.        *)
(*                                                                         *)
(* A database is the set of the clients whose transaction it holds; of     *)
(* what they wrote it matters only whether it leaves active work, which a  *)
(* reset must refuse.  Paths, file types, symlinks, the schema and the     *)
(* journal's sidecars are left out: the reset refuses what it does not     *)
(* recognise before it takes the lock or as a failure after it.            *)
(***************************************************************************)
EXTENDS Naturals

CONSTANTS Resetters,       \* processes that run resetLocalDatabase, once each
          Clients,         \* processes that run one transaction each
          Starters,        \* the clients whose transaction leaves active work
          Original,        \* the file the database path names at first
          NoOne,
          MaxOutages       \* bound: power failures

ASSUME NamesAssumption == /\ Original \notin Resetters /\ NoOne \notin Resetters \cup Clients
                          /\ Resetters \cap Clients = {}

\* Files are named for who made them: a reset builds one replacement.
Files == {Original} \cup Resetters

VARIABLES target,          \* the file the database path names
          disk,            \* contents of each file
          marker,          \* who holds the reset lock file
          sqlite,          \* who holds SQLite's write lock on each file
          backups,         \* the backup of each reset
          settled,         \* what of target and marker a power failure keeps
          outages,
          reset,           \* each reset: where it is and what it has seen
          client           \* each client: where it is, the file it opened, and for the
                           \* properties whether it got in before a lock and wrote too late

vars == <<target, disk, marker, sqlite, backups, settled, outages, reset, client>>

NoBackup == [linked |-> FALSE, settled |-> FALSE, synced |-> FALSE, rows |-> {}]

Init ==
    /\ target = Original
    /\ disk = [f \in Files |-> {}]
    /\ marker = NoOne
    /\ sqlite = [f \in Files |-> NoOne]
    /\ backups = [r \in Resetters |-> NoBackup]
    /\ settled = [target |-> Original, marker |-> NoOne]
    /\ outages = 0
    /\ reset = [r \in Resetters |-> [at |-> "idle", file |-> Original, rows |-> {}]]
    /\ client = [c \in Clients |-> [at |-> "idle", file |-> Original,
                                    early |-> FALSE, late |-> "no"]]

\* fsync of the directory: its entries survive a power failure.
SettleDirectory(t) ==
    /\ settled' = [target |-> t, marker |-> marker]
    /\ backups' = [r \in Resetters |-> [backups[r] EXCEPT !.settled = backups[r].linked]]

\* When a process closes any descriptor of a file, the system drops all its
\* locks on that file, SQLite's included (POSIX record locks).
CloseFile(p, f) == sqlite' = [sqlite EXCEPT ![f] = IF sqlite[f] = p THEN NoOne ELSE sqlite[f]]

-----------------------------------------------------------------------------
(* resetLocalDatabase. *)

Goto(r, from, to) ==
    /\ reset[r].at = from
    /\ reset' = [reset EXCEPT ![r].at = to]

Unchanged == UNCHANGED <<disk, outages, client>>

\* inspectDatabase, as far as clients matter: no active work.
Quiescent(f) == disk[f] \cap Starters = {}

\* previewLocalDatabaseReset, shown to the operator, who approves it.
Preview(r) ==
    /\ reset[r].at = "idle"
    /\ marker = NoOne
    /\ reset' = [reset EXCEPT ![r] = [at |-> "previewed", file |-> target, rows |-> disk[target]]]
    /\ UNCHANGED <<target, marker, sqlite, backups, settled>> /\ Unchanged

\* What fingerprint compares: the file and its contents.
SameAsPreviewed(r) == target = reset[r].file /\ disk[target] = reset[r].rows

\* The first checks throw before anything was done.
Confirm(r) ==
    /\ Goto(r, "previewed", IF marker = NoOne /\ SameAsPreviewed(r) THEN "confirmed" ELSE "refused")
    /\ UNCHANGED <<target, marker, sqlite, backups, settled>> /\ Unchanged

\* Clients that are past the fence when the lock appears.
MarkEarly ==
    client' = [c \in Clients |->
        [client[c] EXCEPT !.early = client[c].early \/ client[c].at \in {"checked", "open", "writing"}]]

\* Mutant: the lock file is opened for writing without the exclusive flag.
TakeLockOverwriting(r) ==
    /\ Goto(r, "confirmed", "locked")
    /\ marker' = r /\ MarkEarly
    /\ UNCHANGED <<target, disk, outages, sqlite, backups, settled>>

TakeLock(r) ==
    /\ IF marker = NoOne
       THEN Goto(r, "confirmed", "locked") /\ marker' = r /\ MarkEarly
       ELSE Goto(r, "confirmed", "refused") /\ UNCHANGED <<marker, client>>
    /\ UNCHANGED <<target, disk, outages, sqlite, backups, settled>>

Recheck(r) ==
    /\ Goto(r, "locked", IF SameAsPreviewed(r) THEN "rechecked" ELSE "cleanup")
    /\ UNCHANGED <<target, marker, sqlite, backups, settled>> /\ Unchanged

\* Opens the database and looks for active work.
Inspect(r) ==
    /\ Goto(r, "rechecked", IF Quiescent(target) THEN "inspected" ELSE "cleanup")
    /\ UNCHANGED <<target, marker, sqlite, backups, settled>> /\ Unchanged

\* BEGIN EXCLUSIVE.
Fence(r) ==
    /\ IF sqlite[target] = NoOne
       THEN Goto(r, "inspected", "fenced") /\ sqlite' = [sqlite EXCEPT ![target] = r]
       ELSE Goto(r, "inspected", "cleanup") /\ UNCHANGED sqlite
    /\ UNCHANGED <<target, marker, backups, settled>> /\ Unchanged

\* Mutant: the inspection before the fence is not repeated.
TrustFirstInspection(r) ==
    /\ Goto(r, "fenced", "quiet")
    /\ UNCHANGED <<target, marker, sqlite, backups, settled>> /\ Unchanged

InspectFenced(r) ==
    /\ Goto(r, "fenced", IF Quiescent(target) THEN "quiet" ELSE "cleanup")
    /\ UNCHANGED <<target, marker, sqlite, backups, settled>> /\ Unchanged

\* A replacement is migrated, seeded and inspected in a private directory.
BuildFresh(r) ==
    /\ Goto(r, "quiet", "built")
    /\ disk' = [disk EXCEPT ![r] = {}]
    /\ UNCHANGED <<target, marker, sqlite, backups, settled, outages, client>>

\* The last check reads the header of the database file and closes it.
RecheckTarget(r) ==
    /\ Goto(r, "built", IF target = reset[r].file THEN "verified" ELSE "cleanup")
    /\ CloseFile(r, target)
    /\ UNCHANGED <<target, marker, backups, settled>> /\ Unchanged

CopyOriginal(r) ==
    /\ Goto(r, "verified", "copied")
    /\ backups' = [backups EXCEPT ![r].rows = disk[target]]
    /\ CloseFile(r, target)
    /\ UNCHANGED <<target, marker, settled>> /\ Unchanged

\* Mutant: the copy is never flushed.
LeaveCopy(r) ==
    /\ Goto(r, "copied", "secured")
    /\ UNCHANGED <<target, marker, sqlite, settled, backups>> /\ Unchanged

SecureCopy(r) ==
    /\ Goto(r, "copied", "secured")
    /\ backups' = [backups EXCEPT ![r].synced = TRUE]
    /\ UNCHANGED <<target, marker, sqlite, settled>> /\ Unchanged

LinkBackup(r) ==
    /\ Goto(r, "secured", "linked")
    /\ backups' = [backups EXCEPT ![r].linked = TRUE]
    /\ UNCHANGED <<target, marker, sqlite, settled>> /\ Unchanged

SyncBackup(r) ==
    /\ Goto(r, "linked", "ready")
    /\ SettleDirectory(target)
    /\ UNCHANGED <<target, marker, sqlite>> /\ Unchanged

Replace(r) ==
    /\ Goto(r, "ready", "replaced")
    /\ target' = r
    /\ UNCHANGED <<marker, sqlite, backups, settled>> /\ Unchanged

SyncReplaced(r) ==
    /\ Goto(r, "replaced", "cleanup")
    /\ SettleDirectory(target)
    /\ UNCHANGED <<target, marker, sqlite>> /\ Unchanged

Preparing == {"locked", "rechecked", "inspected", "fenced", "quiet", "built", "verified",
              "copied", "secured", "linked", "ready"}

\* From the lock on every error is caught and leads to the cleanup.
Fail(r) ==
    /\ reset[r].at \in Preparing \cup {"replaced"}
    /\ reset' = [reset EXCEPT ![r].at = "cleanup"]
    /\ UNCHANGED <<target, marker, sqlite, backups, settled>> /\ Unchanged

\* Rolls back, closes and removes what was staged; if any of it fails the lock
\* stays as a marker.
Cleanup(r) ==
    /\ \E to \in {"unlocking", "marked"} : Goto(r, "cleanup", to)
    /\ CloseFile(r, reset[r].file)
    /\ UNCHANGED <<target, marker, backups, settled>> /\ Unchanged

Unlock(r) ==
    /\ IF marker = r
       THEN Goto(r, "unlocking", "done") /\ marker' = NoOne
       ELSE Goto(r, "unlocking", "marked") /\ UNCHANGED marker
    /\ UNCHANGED <<target, sqlite, backups, settled>> /\ Unchanged

\* From the lock to its removal.
Working(r) == reset[r].at \in Preparing \cup {"replaced", "cleanup", "unlocking"}

\* The process dies.
Crash(r) ==
    /\ Working(r)
    /\ reset' = [reset EXCEPT ![r].at = "dead"]
    /\ CloseFile(r, reset[r].file)
    /\ UNCHANGED <<target, marker, backups, settled>> /\ Unchanged

\* Somebody inspects and removes the lock of a reset that is over.
RemoveLock(r) ==
    /\ marker = r /\ reset[r].at \in {"dead", "marked", "done", "attended"}
    /\ reset' = [reset EXCEPT ![r].at = "attended"]
    /\ marker' = NoOne
    /\ UNCHANGED <<target, sqlite, backups, settled>> /\ Unchanged

-----------------------------------------------------------------------------
(* Clients: atomic, with the fence of connectRuntimeDb. *)

At(c, from, to) ==
    /\ client[c].at = from
    /\ client' = [client EXCEPT ![c].at = to]

ClientUnchanged == UNCHANGED <<target, marker, outages, reset>>

\* Mutant: the fence is not looked at.
CheckNothing(c) ==
    /\ At(c, "idle", "checked")
    /\ UNCHANGED <<disk, sqlite, backups, settled>> /\ ClientUnchanged

\* assertNoDatabaseReset.
CheckFence(c) ==
    /\ At(c, "idle", IF marker = NoOne THEN "checked" ELSE "refused")
    /\ UNCHANGED <<disk, sqlite, backups, settled>> /\ ClientUnchanged

Open(c) ==
    /\ client[c].at = "checked"
    /\ client' = [client EXCEPT ![c].at = "open", ![c].file = target]
    /\ UNCHANGED <<disk, sqlite, backups, settled>> /\ ClientUnchanged

\* BEGIN IMMEDIATE; a busy database is closed and opened again, for a while.
Begin(c) ==
    /\ IF sqlite[client[c].file] = NoOne
       THEN At(c, "open", "writing") /\ sqlite' = [sqlite EXCEPT ![client[c].file] = c]
       ELSE (\E to \in {"idle", "refused"} : At(c, "open", to)) /\ UNCHANGED sqlite
    /\ UNCHANGED <<disk, backups, settled>> /\ ClientUnchanged

\* A reset that believes it has f to itself.
Fenced(f) == \E r \in Resetters : reset[r].file = f /\
    reset[r].at \in {"fenced", "quiet", "built", "verified", "copied", "secured", "linked", "ready"}

Lateness(c) ==
    IF client[c].file # target THEN "replaced"
    ELSE IF Fenced(client[c].file) THEN "fenced" ELSE "no"

\* A commit also flushes the directory, for the sake of its journal.
Commit(c) ==
    /\ client[c].at = "writing"
    /\ disk' = [disk EXCEPT ![client[c].file] = @ \cup {c}]
    /\ CloseFile(c, client[c].file)
    /\ client' = [client EXCEPT ![c].at = "done", ![c].late = Lateness(c)]
    /\ SettleDirectory(target)
    /\ ClientUnchanged

\* An error or the death of a client rolls its transaction back.
Abort(c) ==
    /\ client[c].at \in {"checked", "open", "writing"}
    /\ client' = [client EXCEPT ![c].at = "refused"]
    /\ CloseFile(c, client[c].file)
    /\ UNCHANGED <<disk, backups, settled>> /\ ClientUnchanged

-----------------------------------------------------------------------------
\* All processes stop; of the directory any mix of flushed and later entries
\* is found again, and of a backup only what was flushed.
Outage ==
    /\ outages < MaxOutages
    /\ outages' = outages + 1
    /\ target' \in {target, settled.target}
    /\ marker' \in {marker, settled.marker}
    /\ settled' = [target |-> target', marker |-> marker']
    /\ \E kept \in SUBSET Resetters :
          backups' = [r \in Resetters |->
             IF ~backups[r].linked \/ ~(backups[r].settled \/ r \in kept) THEN NoBackup
             ELSE [linked |-> TRUE, settled |-> TRUE, synced |-> TRUE,
                   rows |-> IF backups[r].synced THEN backups[r].rows ELSE {}]]
    /\ sqlite' = [f \in Files |-> NoOne]
    /\ reset' = [r \in Resetters |-> IF Working(r) THEN [reset[r] EXCEPT !.at = "dead"]
                                     ELSE IF reset[r].at \in {"previewed", "confirmed"}
                                     THEN [reset[r] EXCEPT !.at = "refused"] ELSE reset[r]]
    /\ client' = [c \in Clients |-> IF client[c].at \in {"checked", "open", "writing"}
                                    THEN [client[c] EXCEPT !.at = "refused"] ELSE client[c]]
    /\ UNCHANGED disk

ResetStep(r) ==
    \/ Confirm(r) \/ TakeLock(r) \/ Recheck(r) \/ Inspect(r) \/ Fence(r) \/ InspectFenced(r)
    \/ BuildFresh(r) \/ RecheckTarget(r) \/ CopyOriginal(r) \/ SecureCopy(r) \/ LinkBackup(r)
    \/ SyncBackup(r) \/ Replace(r) \/ SyncReplaced(r) \/ Cleanup(r) \/ Unlock(r)

ClientStep(c) == CheckFence(c) \/ Open(c) \/ Begin(c) \/ Commit(c) \/ Abort(c)

Next ==
    \/ \E r \in Resetters : Preview(r) \/ ResetStep(r) \/ Fail(r) \/ Crash(r) \/ RemoveLock(r)
    \/ \E c \in Clients : ClientStep(c)
    \/ Outage

Spec == Init /\ [][Next]_vars

-----------------------------------------------------------------------------
Committed == {c \in Clients : client[c].at = "done"}

\* What is in the database or in a backup the operator is left with.
Kept == disk[target] \cup UNION {backups[r].rows : r \in {s \in Resetters : backups[s].linked}}

\* No transaction is lost that committed before a reset took SQLite's lock, or
\* on the database that is in place: whatever fails, dies or loses power at
\* any call, it is in the database or in a retained backup.
NothingLost == {c \in Committed : client[c].late = "no"} \subseteq Kept

\* Only a client that was past the fence when the lock appeared can write to a
\* file that is being replaced.
CooperativeFence == \A c \in Clients : client[c].late # "no" => client[c].early

\* One reset at a time has the lock, through crashes and power failures.
OneReset == \A r, s \in Resetters : Working(r) /\ Working(s) => r = s

\* No active work is replaced but what came in under the fence.
ActiveWorkStays ==
    [][\A r \in Resetters :
          reset[r].at = "ready" /\ reset'[r].at = "replaced" =>
              \A c \in disk[target] \cap Starters : client[c].late # "no"]_vars

-----------------------------------------------------------------------------
\* "The command ... requires SQLite's exclusive fence": from BEGIN EXCLUSIVE to
\* the replacement nobody else commits to the database (cli/db.md, reset.ts).
FenceHolds == \A c \in Clients : client[c].late # "fenced"
=============================================================================

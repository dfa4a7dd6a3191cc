---------------------------- MODULE BackupRestore ----------------------------
(***************************************************************************)
(* Whole ledgers that are copied: Store::backup and Store::restore of      *)
(* continuum-cli/src/tasks.rs.  A backup runs under its ledger's lock; a   *)
(* restore lists its source without any lock, then holds the destination's *)
(* lock while it installs task after task in identifier order.  Both die   *)
(* anywhere, and what a restore installed before it stopped stays.         *)
(*                                                                         *)
(* A ledger is a function from identifiers to the records of a task, the   *)
(* empty sequence where there is no task; nothing is damaged, so that the  *)
(* verify calls of both operations succeed.  A record is known by the      *)
(* workspace that wrote it (its bytes carry an actor and a time, so no two *)
(* workspaces write the same one) and by the dependency it adds.           *)
(*                                                                         *)
(* The lock, the gates and the files of an update are the subject of       *)
(* TaskStore and LedgerFiles: here an update is one step.                  *)
(***************************************************************************)
EXTENDS Naturals, SequencesExt, FiniteSetsExt

CONSTANTS
  Workspaces,
  Ids,         \* keys t-k-<key>, the same in every workspace, in their order
  None,
  LiveSource,  \* may a restore read the ledger of another workspace?
  MaxVersion,  \* bound: versions of a task
  MaxCommits,  \* bound: records written in all
  MaxBackups,  \* bound: backups taken
  MaxJobs      \* bound: backups and restores that run at once

ASSUME CopiesAssumption ==
  /\ Ids \subseteq Nat
  /\ None \notin Ids \cup Workspaces
  /\ LiveSource \in BOOLEAN
  /\ MaxVersion \in Nat \ {0}
  /\ MaxCommits \in Nat
  /\ MaxBackups \in Nat
  /\ MaxJobs \in Nat \ {0}

VARIABLES
  ledgers,  \* the ledger of each workspace
  backups,  \* the finished backup directories
  job       \* the backup or the restore that runs in each workspace

vars == <<ledgers, backups, job>>

Record == [by : Workspaces, dep : Ids \cup {None}]
History == {h \in Seq(Record) : Len(h) <= MaxVersion}
Ledger == [Ids -> History]

(* What a restore reads: a backup never changes, a workspace may.          *)
Source == ({"backup"} \X Ledger) \cup ({"live"} \X Workspaces)

(* A job that is "listed" waits for the lock; todo is what the loop over   *)
(* the listed tasks has left, copy the stage of a backup.                  *)
Job == [kind : {"idle", "backup", "listed", "restore"},
        source : {None} \cup Source,
        todo : SUBSET Ids,
        copy : Ledger]

Empty == [i \in Ids |-> <<>>]
Idle == [kind |-> "idle", source |-> None, todo |-> {}, copy |-> Empty]

Init ==
  /\ ledgers = [w \in Workspaces |-> Empty]
  /\ backups = {}
  /\ job = [w \in Workspaces |-> Idle]

-----------------------------------------------------------------------------
(* Reading and extending a ledger.                                         *)

Tasks(led) == {i \in Ids : led[i] # <<>>}

Deps(led, i) == {r.dep : r \in Range(led[i])} \ {None}

(* depends_on returns Ok(false): all it reaches is there, the target is not*)
NoPath(led, from, target) ==
  \E C \in SUBSET Tasks(led) :
    /\ from \in C
    /\ target \notin C
    /\ \A i \in C : Deps(led, i) \subseteq C

Read(source) == IF source[1] = "live" THEN ledgers[source[2]] ELSE source[2]

Set(w, j) == job' = [job EXCEPT ![w] = j]

MayStart(w) ==
  job[w] = Idle /\ Cardinality({x \in Workspaces : job[x] # Idle}) < MaxJobs

Locked(w) == job[w].kind \in {"backup", "restore"}

(* A workspace keeps the records it wrote, so they count its commits.      *)
Written(w) ==
  {x \in Ids \X (1..MaxVersion) :
     x[2] <= Len(ledgers[w][x[1]]) /\ ledgers[w][x[1]][x[2]].by = w}

Commits == MapThenSumSet(LAMBDA w : Cardinality(Written(w)), Workspaces)

-----------------------------------------------------------------------------
(* Create and update: single steps of TaskStore, kept out by a job that    *)
(* holds the lock.                                                         *)

Commit(w, i, d) ==
  /\ Commits < MaxCommits
  /\ ledgers' = [ledgers EXCEPT ![w][i] = Append(@, [by |-> w, dep |-> d])]
  /\ UNCHANGED <<backups, job>>

Create(w, i) ==
  /\ ~Locked(w)
  /\ i \notin Tasks(ledgers[w])
  /\ Commit(w, i, None)

(* Fault: the version counter is not checked.                              *)
UpdatableForever(w, i) == i \in Tasks(ledgers[w])

Updatable(w, i) ==
  i \in Tasks(ledgers[w]) /\ Len(ledgers[w][i]) < MaxVersion

Update(w, i) ==
  /\ ~Locked(w)
  /\ Updatable(w, i)
  /\ Commit(w, i, None)

(* Fault: the update does not wait for the lock.                           *)
AddDependencyUnlocked(w, i, d) ==
  /\ Updatable(w, i)
  /\ i # d
  /\ NoPath(ledgers[w], d, i)
  /\ Commit(w, i, d)

AddDependency(w, i, d) ==
  /\ ~Locked(w)
  /\ Updatable(w, i)
  /\ i # d
  /\ NoPath(ledgers[w], d, i)
  /\ Commit(w, i, d)

-----------------------------------------------------------------------------
(* backup: lock, list, copy task after task into a stage, verify it, rename*)

StartBackup(w) ==
  /\ MayStart(w)
  /\ Cardinality(backups) < MaxBackups
  /\ Set(w, [Idle EXCEPT !.kind = "backup", !.todo = Tasks(ledgers[w])])
  /\ UNCHANGED <<ledgers, backups>>

CopyTask(w) ==
  LET i == Min(job[w].todo)
  IN  /\ job[w].kind = "backup"
      /\ job[w].todo # {}
      /\ Set(w, [job[w] EXCEPT !.todo = @ \ {i}, !.copy[i] = ledgers[w][i]])
      /\ UNCHANGED <<ledgers, backups>>

FinishBackup(w) ==
  /\ job[w].kind = "backup"
  /\ job[w].todo = {}
  /\ backups' = backups \cup {job[w].copy}
  /\ Set(w, Idle)
  /\ UNCHANGED ledgers

-----------------------------------------------------------------------------
(* restore.                                                                *)

Sources(w) ==
  {"backup"} \X backups
    \cup {"live"} \X (IF LiveSource THEN Workspaces \ {w} ELSE {})

(* The source is listed and verified before the lock is asked for.         *)
ListSource(w) ==
  /\ MayStart(w)
  /\ \E s \in Sources(w) :
       Set(w, [Idle EXCEPT !.kind = "listed", !.source = s, !.todo = Tasks(Read(s))])
  /\ UNCHANGED <<ledgers, backups>>

LockDestination(w) ==
  /\ job[w].kind = "listed"
  /\ Set(w, [job[w] EXCEPT !.kind = "restore"])
  /\ UNCHANGED <<ledgers, backups>>

(* Fault: the tasks come in the order the directory yields them.           *)
MeetsInAnyOrder(w, i) ==
  /\ job[w].kind = "restore"
  /\ i \in job[w].todo

(* The loop meets the identifiers in the order list() sorted them in.      *)
Meets(w, i) ==
  /\ job[w].kind = "restore"
  /\ job[w].todo # {}
  /\ i = Min(job[w].todo)

Done(w, i) == Set(w, [job[w] EXCEPT !.todo = @ \ {i}])

(* Fault: versions are copied in place, and the process may die among them.*)
InstallInPlace(w, i) ==
  /\ Meets(w, i)
  /\ i \notin Tasks(ledgers[w])
  /\ LET h == Read(job[w].source)[i]
     IN  \E n \in 0..Len(h) :
           /\ ledgers' = [ledgers EXCEPT ![w][i] = SubSeq(h, 1, n)]
           /\ IF n = Len(h) THEN Done(w, i) ELSE Set(w, Idle)
  /\ UNCHANGED backups

(* The versions are copied into a stage and renamed into place as one.     *)
Install(w, i) ==
  /\ Meets(w, i)
  /\ i \notin Tasks(ledgers[w])
  /\ ledgers' = [ledgers EXCEPT ![w][i] = Read(job[w].source)[i]]
  /\ Done(w, i)
  /\ UNCHANGED backups

Same(w, i) == ledgers[w][i] = Read(job[w].source)[i]

(* Fault: a task that differs is passed over like an identical one.        *)
ConflictPassedOver(w, i) ==
  /\ Meets(w, i)
  /\ i \in Tasks(ledgers[w])
  /\ ~Same(w, i)
  /\ Done(w, i)
  /\ UNCHANGED <<ledgers, backups>>

SkipIdentical(w, i) ==
  /\ Meets(w, i)
  /\ Same(w, i)
  /\ Done(w, i)
  /\ UNCHANGED <<ledgers, backups>>

(* Fault: the restored task replaces the one that differs.                 *)
ConflictOverwrites(w, i) ==
  /\ Meets(w, i)
  /\ i \in Tasks(ledgers[w])
  /\ ~Same(w, i)
  /\ ledgers' = [ledgers EXCEPT ![w][i] = Read(job[w].source)[i]]
  /\ Done(w, i)
  /\ UNCHANGED backups

(* Conflicting existing task: the restore fails, earlier tasks stay.       *)
Conflict(w, i) ==
  /\ Meets(w, i)
  /\ i \in Tasks(ledgers[w])
  /\ ~Same(w, i)
  /\ Set(w, Idle)
  /\ UNCHANGED <<ledgers, backups>>

FinishRestore(w) ==
  /\ job[w].kind = "restore"
  /\ job[w].todo = {}
  /\ Set(w, Idle)
  /\ UNCHANGED <<ledgers, backups>>

(* The process dies, or a call fails: its stage is never looked at again.  *)
Abort(w) ==
  /\ job[w] # Idle
  /\ Set(w, Idle)
  /\ UNCHANGED <<ledgers, backups>>

-----------------------------------------------------------------------------
Write(w) ==
  \E i \in Ids :
    Create(w, i) \/ Update(w, i) \/ \E d \in Ids : AddDependency(w, i, d)

Backup(w) == StartBackup(w) \/ CopyTask(w) \/ FinishBackup(w)

Restore(w) ==
  \/ ListSource(w) \/ LockDestination(w) \/ FinishRestore(w)
  \/ \E i \in Ids : Install(w, i) \/ SkipIdentical(w, i) \/ Conflict(w, i)

Next == \E w \in Workspaces : Write(w) \/ Backup(w) \/ Restore(w) \/ Abort(w)

Spec == Init /\ [][Next]_vars
-----------------------------------------------------------------------------
(* Correctness.                                                            *)

(* No restore or update brings a task beyond the last version, and a       *)
(* workspace at rest holds nothing of the job it ran.                      *)
TypeOK ==
  /\ ledgers \in [Workspaces -> Ledger]
  /\ backups \subseteq Ledger
  /\ job \in [Workspaces -> Job]
  /\ \A w \in Workspaces : job[w].kind = "idle" => job[w] = Idle

(* No set of tasks waits on itself, although restore never looks at        *)
(* dependencies and an interrupted one leaves some of them missing: the    *)
(* search of AddDependency (tasks.rs:919) is all that refuses a cycle.     *)
Acyclic(led) ==
  ~ \E C \in SUBSET Tasks(led) :
      C # {} /\ \A i \in C : Deps(led, i) \cap C # {}

DepsAcyclic == \A w \in Workspaces : Acyclic(ledgers[w])

(* A dependency missing from a ledger sorts after the task that names it:  *)
(* what an interrupted restore (tasks.rs:1161) left out is what it had not *)
(* reached, in the restored ledger and in the backups later taken of it.   *)
GapsAbove ==
  \A led \in backups \cup Range(ledgers) : \A i \in Ids :
    \A d \in Deps(led, i) \ Tasks(led) : d > i

(* A task that came from elsewhere came whole (tasks.rs:1189-1200): up to  *)
(* the last record this workspace did not write, it is as in some backup.  *)
Foreign(w, h) == {n \in DOMAIN h : h[n].by # w}

ArrivesWhole ==
  \A w \in Workspaces : \A i \in Ids :
    LET h == ledgers[w][i]
    IN  Foreign(w, h) # {} =>
          \E b \in backups : b[i] = SubSeq(h, 1, Max(Foreign(w, h)))

(* No step of anyone rewrites or removes a committed record: a restore     *)
(* fails on a task that differs (tasks.rs:1166-1175), never overwrites it. *)
NothingOverwritten ==
  [][\A w \in Workspaces : \A i \in Ids :
       IsPrefix(ledgers[w][i], ledgers'[w][i])]_vars

(* A restore that reports success (tasks.rs:1208) has every task of the    *)
(* backup as the backup has it, also after interrupted restores.           *)
SuccessIsComplete ==
  [][\A w \in Workspaces : FinishRestore(w) /\ job[w].source[1] = "backup" =>
       \A i \in Tasks(Read(job[w].source)) : Same(w, i)]_vars

(* A backup that is renamed into place (tasks.rs:1131) is the ledger as it *)
(* is then, not a mixture of what it was while it was copied.              *)
BackupIsSnapshot ==
  [][\A b \in backups' \ backups : \E w \in Workspaces : b = ledgers[w]]_vars
=============================================================================

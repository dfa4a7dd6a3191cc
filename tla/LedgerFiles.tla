----------------------------- MODULE LedgerFiles -----------------------------
(***************************************************************************)
(* One task directory of the ledger, at the level of its files: Store::    *)
(* versions, read_record, load_version, commit_in, commit_delta, the       *)
(* directory rename of create_with_key, and verify (tasks.rs).  Writers    *)
(* hold the ledger's flock, readers take no lock at all.  Processes die,   *)
(* the machine loses power, and a record on disk may rot.                  *)
(*                                                                         *)
(* An update is the process that made it and whether it binds an evidence  *)
(* whose record exceeds MAX_FIELD_BYTES; the state of a task is the        *)
(* sequence of its updates, the first being its creation.                  *)
(***************************************************************************)
EXTENDS Naturals, SequencesExt, FiniteSetsExt

CONSTANTS
  Procs,
  None,
  CheckpointInterval,  \* a full snapshot every so many versions (256)
  Keyings,             \* whether tasks are created under an idempotency key
  Longs,               \* whether an update may bind an evidence that is too long
  MaxVersion,          \* bound: versions of the task
  MaxRot               \* bound: records that rot

ASSUME FilesAssumption ==
  /\ None \notin Procs
  /\ CheckpointInterval \in Nat \ {0}
  /\ Keyings \subseteq BOOLEAN
  /\ Longs \subseteq BOOLEAN
  /\ MaxVersion \in Nat \ {0}
  /\ MaxRot \in Nat

VARIABLES
  keyed,     \* is the task created under a key? fixed by the calls that create it
  files,     \* the version files one sees: version -> record; empty, no task
  content,   \* the versions whose bytes are on disk
  synced,    \* how many versions have their names on disk
  holder,    \* the process that holds the flock, or None
  pc,
  task,      \* the task a process has loaded
  low,       \* the versions a reader saw when its directory scan began
  acked      \* the last task a successful writer returned

disk == <<files, content, synced>>
vars == <<keyed, disk, holder, pc, task, low, acked>>

Updates == Procs \X BOOLEAN

Creation(p) == <<p, FALSE>>

TooLong(u) == u[2]

(* Schema 1 is a snapshot of the task, schema 2 the delta of one version.  *)
Record(schema, body) == [schema |-> schema, body |-> body, rotten |-> FALSE]

Init ==
  /\ keyed \in Keyings
  /\ files = [v \in {} |-> None]
  /\ content = {} /\ synced = 0
  /\ holder = None
  /\ pc = [p \in Procs |-> "idle"]
  /\ task = [p \in Procs |-> <<>>]
  /\ low = [p \in Procs |-> {}]
  /\ acked = <<>>

-----------------------------------------------------------------------------
(* Reading the directory.                                                  *)

(* versions(): nonempty, and 1..n without a hole.                          *)
Contiguous(S) == S # {} /\ S = 1..Cardinality(S)

(* Replay from the last snapshot at or after version `from`.               *)
Replay(fs, from, v) ==
  LET s == Max({u \in from..v : fs[u].schema = 1})
  IN  fs[s].body \o [i \in 1..(v - s) |-> Head(fs[s + i].body)]

Readable(fs, from, v) == \A u \in from..v : ~fs[u].rotten

(* load_version: start at the nearest checkpoint if it reads as a snapshot.*)
Start(fs, v) ==
  LET c == (v \div CheckpointInterval) * CheckpointInterval
  IN  IF c > 0 /\ Readable(fs, c, c) /\ fs[c].schema = 1 THEN c ELSE 1

(* apply_stored measures the evidence of a delta again; a snapshot is      *)
(* taken as it is.                                                         *)
Overlong(fs) == {v \in DOMAIN fs : fs[v].schema = 2 /\ TooLong(Head(fs[v].body))}

Replayable(fs, from, v) ==
  Readable(fs, from, v) /\ Overlong(fs) \cap from..v = {}

Loadable(fs, v) == Replayable(fs, Start(fs, v), v)
Loaded(fs, v) == Replay(fs, Start(fs, v), v)

Latest == Max(DOMAIN files)

(* The history the directory stands for.                                   *)
Log == IF Contiguous(DOMAIN files) THEN Replay(files, 1, Latest) ELSE <<>>

-----------------------------------------------------------------------------
(* A call that returns or dies; its temporary file or staging directory    *)
(* has a name no reader looks at.                                          *)

Return(p, where, t) ==
  /\ holder' = IF holder = p THEN None ELSE holder
  /\ pc' = [pc EXCEPT ![p] = where]
  /\ task' = [task EXCEPT ![p] = t]
  /\ low' = [low EXCEPT ![p] = {}]
  /\ UNCHANGED keyed

Fail(p) == Return(p, "idle", <<>>) /\ UNCHANGED <<disk, acked>>

Goto(p, from, to) ==
  /\ pc[p] = from
  /\ pc' = [pc EXCEPT ![p] = to]
  /\ UNCHANGED keyed

(* sync_dir.  Renames reach the disk in order, and a sync of one directory *)
(* flushes every earlier rename, as on the journaled file systems in use.  *)
SyncNames == synced' = Cardinality(DOMAIN files)

-----------------------------------------------------------------------------
(* lock(): init() syncs the root directory, then the flock is polled.      *)

Write(p) ==
  /\ Goto(p, "idle", "init")
  /\ UNCHANGED <<disk, holder, task, low, acked>>

InitRoot(p) ==
  /\ Goto(p, "init", "lock")
  /\ SyncNames
  /\ UNCHANGED <<files, content, holder, task, low, acked>>

(* Fault: the flock is not exclusive.                                      *)
AcquireIgnoringHolder(p) ==
  /\ Goto(p, "lock", "locked")
  /\ holder' = p
  /\ UNCHANGED <<disk, task, low, acked>>

Acquire(p) ==
  /\ holder = None
  /\ Goto(p, "lock", "locked")
  /\ holder' = p
  /\ UNCHANGED <<disk, task, low, acked>>

LockTimeout(p) ==
  /\ pc[p] = "lock"
  /\ holder # None
  /\ Fail(p)

-----------------------------------------------------------------------------
(* create_with_key: version 1 is committed in a staging directory nobody   *)
(* reads, which is then renamed to the task's name.                        *)

Stage(p) ==
  /\ files = <<>>
  /\ Goto(p, "locked", "staged")
  /\ task' = [task EXCEPT ![p] = <<Creation(p)>>]
  /\ UNCHANGED <<disk, holder, low, acked>>

RenameStage(p) ==
  /\ Goto(p, "staged", "syncRoot")
  /\ files' = [v \in {1} |-> Record(1, task[p])]
  /\ content' = {1}
  /\ UNCHANGED <<synced, holder, task, low, acked>>

SyncRoot(p) ==
  /\ pc[p] = "syncRoot"
  /\ SyncNames
  /\ acked' = task[p]
  /\ Return(p, "idle", <<>>)
  /\ UNCHANGED <<files, content>>

(* The key is taken by the same request: the caller gets the task.  The    *)
(* last directory sync was that of init(), before the lock was taken.      *)
ReturnExisting(p) ==
  /\ keyed
  /\ pc[p] = "locked"
  /\ Contiguous(DOMAIN files)
  /\ Loadable(files, 1) /\ Loadable(files, Latest)
  /\ acked' = IF acked = <<>> THEN Loaded(files, 1) ELSE acked
  /\ Return(p, "idle", <<>>)
  /\ UNCHANGED disk

-----------------------------------------------------------------------------
(* update: load, then commit_in writes a temporary file, flushes it,       *)
(* renames it to its version and syncs the directory.                      *)

LoadBase(p) ==
  /\ Contiguous(DOMAIN files)
  /\ Loadable(files, Latest)
  /\ Latest < MaxVersion
  /\ Goto(p, "locked", "flush")
  /\ \E long \in Longs :
       task' = [task EXCEPT ![p] = Append(Loaded(files, Latest), <<p, long>>)]
  /\ UNCHANGED <<disk, holder, low, acked>>

FlushTemp(p) ==
  /\ Goto(p, "flush", "rename")
  /\ Len(task[p]) \notin DOMAIN files
  /\ UNCHANGED <<disk, holder, task, low, acked>>

(* commit_delta: a snapshot at a checkpoint version unless the task has    *)
(* outgrown half a record, and a delta otherwise.                          *)
(* Fault: the checkpoint is taken before the change list is applied.       *)
RecordsBeforeChange(t) ==
  {Record(2, <<Last(t)>>)}
    \cup (IF Len(t) % CheckpointInterval = 0 THEN {Record(1, Front(t))} ELSE {})

RecordsFor(t) ==
  {Record(2, <<Last(t)>>)}
    \cup (IF Len(t) % CheckpointInterval = 0 THEN {Record(1, t)} ELSE {})

(* Fault: the temporary file is renamed without being flushed.             *)
RenameTempUnflushed(p) ==
  LET v == Len(task[p]) IN
    /\ Goto(p, "rename", "syncDir")
    /\ \E r \in RecordsFor(task[p]) :
         files' = [u \in DOMAIN files \cup {v} |-> IF u = v THEN r ELSE files[u]]
    /\ UNCHANGED <<content, synced, holder, task, low, acked>>

RenameTemp(p) ==
  LET v == Len(task[p]) IN
    /\ Goto(p, "rename", "syncDir")
    /\ \E r \in RecordsFor(task[p]) :
         files' = [u \in DOMAIN files \cup {v} |-> IF u = v THEN r ELSE files[u]]
    /\ content' = content \cup {v}
    /\ UNCHANGED <<synced, holder, task, low, acked>>

(* Fault: the directory is not synced.                                     *)
SyncDirSkipped(p) ==
  /\ pc[p] = "syncDir"
  /\ acked' = task[p]
  /\ Return(p, "idle", <<>>)
  /\ UNCHANGED disk

SyncDir(p) ==
  /\ pc[p] = "syncDir"
  /\ SyncNames
  /\ acked' = task[p]
  /\ Return(p, "idle", <<>>)
  /\ UNCHANGED <<files, content>>

-----------------------------------------------------------------------------
(* Readers: load, and verify, which loads every task and then replays all  *)
(* its versions.  A directory scan shows the names present when it began,  *)
(* and any of those that appeared since.                                   *)

BeginRead(p) ==
  /\ \E to \in {"load", "list"} : Goto(p, "idle", to)
  /\ low' = [low EXCEPT ![p] = DOMAIN files]
  /\ UNCHANGED <<disk, holder, task, acked>>

Scans(p) == {S \in SUBSET DOMAIN files : low[p] \subseteq S}

Load(p) ==
  /\ pc[p] \in {"load", "list"}
  /\ \E S \in Scans(p) :
       /\ Contiguous(S)
       /\ Loadable(files, Max(S))
       /\ task' = [task EXCEPT ![p] = Loaded(files, Max(S))]
  /\ pc' = [pc EXCEPT ![p] = IF @ = "load" THEN "read" ELSE "listed"]
  /\ low' = [low EXCEPT ![p] = IF pc[p] = "load" THEN @ ELSE DOMAIN files]
  /\ UNCHANGED <<keyed, disk, holder, acked>>

LoadFails(p) ==
  /\ pc[p] \in {"load", "list"}
  /\ \E S \in Scans(p) :
       Contiguous(S) => ~Loadable(files, Max(S))
  /\ Fail(p)

(* Fault: verify trusts the checkpoint it starts from.                     *)
VerifiedFromCheckpoint(t, S) ==
  Contiguous(S) /\ Loadable(files, Max(S)) /\ Loaded(files, Max(S)) = t

Verified(t, S) ==
  /\ Contiguous(S)
  /\ Replayable(files, 1, Max(S))
  /\ Replay(files, 1, Max(S)) = t

VerifyReplay(p) ==
  /\ pc[p] = "listed"
  /\ \E S \in Scans(p) :
       pc' = [pc EXCEPT ![p] = IF Verified(task[p], S) THEN "verified" ELSE "suspect"]
  /\ UNCHANGED <<keyed, disk, holder, task, low, acked>>

Report(p) ==
  /\ pc[p] \in {"read", "verified", "suspect"}
  /\ Fail(p)

-----------------------------------------------------------------------------
(* Faults.                                                                 *)

(* An I/O error is reported, or the process is killed.                     *)
Abort(p) ==
  /\ pc[p] \notin {"idle", "read", "verified", "suspect"}
  /\ Fail(p)

(* The renames after the last sync may be lost, the youngest first; a      *)
(* record whose bytes were not flushed is garbage.                         *)
PowerLoss ==
  /\ \E n \in synced..Cardinality(DOMAIN files) :
       /\ files' = [v \in 1..n |-> [files[v] EXCEPT !.rotten = @ \/ v \notin content]]
       /\ content' = content \cap 1..n
       /\ synced' = n
  /\ holder' = None
  /\ pc' = [p \in Procs |-> "idle"]
  /\ task' = [p \in Procs |-> <<>>]
  /\ low' = [p \in Procs |-> {}]
  /\ UNCHANGED <<keyed, acked>>

Rotten == {v \in DOMAIN files : files[v].rotten}

Rot(v) ==
  /\ v \in DOMAIN files \ Rotten
  /\ Cardinality(Rotten) < MaxRot
  /\ files' = [files EXCEPT ![v].rotten = TRUE]
  /\ UNCHANGED <<keyed, content, synced, holder, pc, task, low, acked>>

-----------------------------------------------------------------------------
Step(p) ==
  \/ Write(p) \/ InitRoot(p) \/ Acquire(p) \/ LockTimeout(p)
  \/ Stage(p) \/ RenameStage(p) \/ SyncRoot(p) \/ ReturnExisting(p)
  \/ LoadBase(p) \/ FlushTemp(p) \/ RenameTemp(p) \/ SyncDir(p)
  \/ BeginRead(p) \/ Load(p) \/ LoadFails(p) \/ VerifyReplay(p) \/ Report(p)
  \/ Abort(p)

Next == (\E p \in Procs : Step(p)) \/ PowerLoss \/ \E v \in 1..MaxVersion : Rot(v)

Spec == Init /\ [][Next]_vars

-----------------------------------------------------------------------------
(* Properties.                                                             *)

Places == {"idle", "init", "lock", "locked", "staged", "syncRoot", "flush",
           "rename", "syncDir", "load", "list", "listed", "read", "verified",
           "suspect"}

(* Every variable has its type; what is on disk is part of what is seen.   *)
TypeOK ==
  /\ keyed \in Keyings
  /\ DOMAIN files \subseteq 1..MaxVersion
  /\ \A v \in DOMAIN files :
       /\ files[v].body \in Seq(Updates)
       /\ Len(files[v].body) = IF files[v].schema = 1 THEN v ELSE 1
       /\ files[v].rotten \in BOOLEAN
  /\ content \subseteq DOMAIN files
  /\ synced \in 0..Cardinality(DOMAIN files)
  /\ holder \in Procs \cup {None}
  /\ pc \in [Procs -> Places]
  /\ task \in [Procs -> Seq(Updates)] /\ acked \in Seq(Updates)
  /\ low \in [Procs -> SUBSET (1..MaxVersion)]

(* Records whose bytes had reached the disk and decayed there.             *)
Decayed == Rotten \cap content

(* Kills and power losses leave a readable ledger: no hole, no half        *)
(* written record, and the quick load from a checkpoint tells the same     *)
(* history as the replay of every version (commit_in's order of flush,     *)
(* rename and sync; load_version's start).  Apart from decay, it does not  *)
(* load only because its last update bound an evidence that is too long.   *)
LedgerReadable ==
  \/ files = <<>>
  \/ /\ Contiguous(DOMAIN files)
     /\ Decayed = {} /\ Latest \notin Overlong(files) => Loadable(files, Latest)
     /\ Loadable(files, Latest) => Loaded(files, Latest) = Log

(* A reader takes no lock and may scan while versions appear: what it      *)
(* returns is still a state the task went through, no older than the read. *)
ReadsCurrent ==
  \A p \in Procs :
    pc[p] = "read" => IsPrefix(task[p], Log) /\ low[p] \subseteq 1..Len(task[p])

(* verify never accepts a history with a damaged record, not even one a    *)
(* later checkpoint hides from load.                                       *)
AcceptsIntact ==
  \A p \in Procs :
    pc[p] # "verified" /\ pc'[p] = "verified"
      => Rotten \cap (1..Len(task[p])) = {}

VerifiedIntact == [][AcceptsIntact]_vars

(* The directory of a task created without a key implements a history that *)
(* only grows, and of which no crash takes what a writer was told is       *)
(* committed.  (With a key AckedSurvives fails.)                           *)
History ==
  INSTANCE DurableHistory WITH log <- IF keyed THEN <<>> ELSE Log,
                               acked <- IF keyed THEN <<>> ELSE acked,
                               Updates <- Updates

Durable == History!Spec

(* "Provides real power-loss consistency" (playbook 8.4): what a writer    *)
(* was told is committed is in the ledger.                                 *)
AckedSurvives == IsPrefix(acked, Log)

(* "Stop if any version fails checksum, schema, identity, or replay checks"*)
(* (operations runbook): verify complains of a ledger only if it is damaged.*)
ErrorMeansDamage ==
  \A p \in Procs : pc[p] = "suspect" => Rotten # {}
=============================================================================

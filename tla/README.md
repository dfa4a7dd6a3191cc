# ContextSpindle in TLA+

ContextSpindle keeps the tasks of AI agents across context compaction, restarts
and unrelated work.  Its product core is Rust (`crates/continuum-cli`,
`crates/continuum-core`): a durable, versioned task ledger used by many short
CLI processes and long-lived MCP servers at once, next to a bounded, lossy
retrieval memory.  The memory also exists as a Python package (`continuum/`),
by itself, behind a chat history and as a wrapper of the Rust engine, and a Python
script installs the product into Codex.  This directory holds TLA+ models of
these, translated from the source, the TLC runs that check them and TLAPS proofs
about them.

In the runs and proofs a *process* is a CLI call or an MCP server.
Processes share nothing but files.

## Inventory

| component | state | operations | what is hard, what makes it correct | modelled |
|---|---|---|---|---|
| task ledger: create, update (`tasks.rs`) | tasks, each a history of versions | `create_with_key`, `update` under one flock with a 10 s timeout | read-check-write by several processes, deaths, retries by key, change lists whose order matters, evidence that is stored longer than it was measured. No lost update, no cycle, no unjustified status, nothing acknowledged is lost | `TaskStore` |
| task ledger: version files (`tasks.rs`) | one directory per task, one immutable checksummed file per version, a snapshot every 256 versions and deltas between | `versions`, `read_record`, `load_version`, `commit_in`, `commit_delta`, `verify` | readers take no lock, power loss between fsync and rename, checkpoints hide older records. Always readable, always a past or present state, damage is noticed | `LedgerFiles` |
| file lock (`lock.rs`) | one flock per ledger or snapshot | acquire with timeout, release on drop or death | a holder that hangs or dies; every waiter returns | in both |
| backup, restore (`tasks.rs`) | directories with copies of the ledger | `backup`, `restore` | crash in the middle, reruns, conflicts, a live source, references to tasks not yet restored | `BackupRestore` |
| list, search, inbox, children, history, context (`tasks.rs`) | none | reads | byte budget and its reserved line, pagination, ordering | planned (`TaskContext`) |
| memory snapshot (`persistence.rs`, `main.rs`, `hook.rs`) | one file, replaced by rename under a flock | `mutate_engine_transactional`, `save_engine`, `load_engine`; `init`, `sync`, `ingest`, `query`, the post-commit hook | concurrent read-modify-write, deaths, lock timeouts, check-then-act in `init`, blind replacement in `sync`. No acknowledged ingest is lost to another, never a torn file | `MemorySnapshot` |
| command runner (`runner.rs`) | one pending-incident file | `run_command` | the file is shared and unlocked; a failed ingest still clears it. No pair is made up | `MemorySnapshot` |
| adaptive memory (`adaptive_memory.py`, `cold_memory.py`, `revision_engine.py`) | a hot bank and a cold archive: records, embedding matrix, access times, saved states | `observe`, `observe_with_revision`, `retrieve`, `clear` | each bank at its limit, restorations that swap records between full banks, refused events. Every event once, within the budget, unique events survive storms | `MemoryTiers`, `AdaptiveMemory` |
| engine (`api.py`), native wrapper (`native.py`) | the banks, a recurrent state, a step count, a checkpoint file | `step`, `query`, `reset`, `save`, `load` | identifiers after reset and load, torn checkpoints, an object made without `__init__`. A bounded pool of events | `ContinuumEngine`, `NativeEngine` |
| chat history (`langchain.py`), transcript tool (`query_conversation_memory.py`) | messages; a growing transcript and its place in it | `add_message`, `clear`; one invocation | a step that raises after the message is kept, a native engine without `reset`; invocations killed anywhere, lines that fail. Messages or lines and events correspond | `MemoryClients`, `NativeEngine` |
| Codex installer (`install.py`) | skill, binary, `AGENTS.md`, `config.toml` and backups in a Codex home | `install_file`, `install_rule`, `register_mcp` | reruns, two checkouts, deaths between and inside writes, user edits. The user's edits of bundled files survive in a backup, a run that gets past `AGENTS.md` keeps its lines, success means installed | `Installer` |
| Rust memory engine (`engine.rs`, `hot_memory.rs`, `cold_memory.rs`) | a hot tier and a cold tier of records | `step`, `query` | the same decisions as the Python engine's | through `NativeEngine` |
| compact fuse (`fuse.rs`) | an append-only file of snapshots of all sessions | `save`, `restore` | unlocked appends, torn lines, fallback to another session, budget | planned |
| CLI and MCP front ends, hook installation, JSON codec, embedders, C interface | | | sequential, I/O or floating point | no |
| benchmarks, experiments, examples, DiffHound | | | scripts around the product, or out of it (`docs/PRODUCT-SCOPE.md`) | no |

The front ends call the ledger; `update` reads other tasks (dependencies, gates)
under the same lock; readers and `verify` never lock; `task context` also reads
the memory snapshot and goes on without it; the runner and the Git hook write to
the memory snapshot; `fuse restore` reads the ledger's inbox.
The hazards, each at its line, are listed in `PROJECT.json`.

## Modules

| module | what it is |
|---|---|
| `TaskRules` | the vocabulary (tasks, evidence, change lists) and the rules of an update: the `depends_on` search, the decision rule, the status gates |
| `TaskLedger` | abstract: a ledger whose creations and revisions are atomic |
| `TaskStore` | the same calls as processes run them: lock, load, one step per change-list item, gates, commit; errors and deaths anywhere |
| `TaskStoreProofs` | TLAPS proofs about `TaskStore` |
| `DurableHistory` | abstract: a history that grows, of which a power loss may cut an end nobody was told of |
| `LedgerFiles` | one task directory: staging, flush, rename, directory sync, lock-free readers, verify, kill, power loss, bit rot |
| `LedgerFilesProofs` | TLAPS proofs about `LedgerFiles` |
| `BackupRestore` | whole ledgers of several workspaces: backup under the lock, restore task by task in identifier order, interruptions, reruns, conflicts, writers |
| `BackupRestoreProofs` | TLAPS proofs about `BackupRestore` |
| `MemorySnapshot` | the shared `.continuum` directory: snapshot file, its lock, the calls on it, the pending incident of runs |
| `MemorySnapshotProofs` | TLAPS proofs about `MemorySnapshot` |
| `MemoryTiers` | the two banks as values: insertion, eviction, archive, removal |
| `AdaptiveMemory` | retention policies and revision on those banks |
| `ContinuumEngine` | the Python engine: bypass admission, reset, checkpoint |
| `NativeEngine` | the wrapper of the Rust engine, and the transcript tool |
| `MemoryClients` | composes the four above with the chat history; one client per behaviour |
| `AdaptiveMemoryProofs` | lemmas about the banks and the operations on them |
| `MemoryProofs` | TLAPS proofs about `MemoryClients`, built on those lemmas |
| `BoundedPool` | abstract: a pool with a fixed number of slots |
| `Installer` | runs of the Codex installer over a home its user edits |
| `InstallerProofs` | TLAPS proofs about `Installer` |
| `MCTaskStoreDeps`, `MCTaskStoreGates`, `MCLedgerFiles`, `MCBackupRestore`, `MCMemorySnapshot`, `MCMemory`, `MCInstaller` | instances for TLC |

### TaskStore and the code

`ledger` is the committed task of every task directory, `refused` those whose records
`Store::load` does not replay, and `Loads` what it returns: the ledger without
them, which is all that other calls can read.  A process
goes `lock` (polling the flock) -> `load` -> `apply` (one action per item of the
change list, on the private copy `work`) -> `commit` -> `ok`.  `Acceptable` is
the checks before the list is applied, `Gates` those after it.  `Fail` is every
`return Err`: the guard is dropped, nothing is kept.  `Abort` stands for an I/O
error or the death of the process at any step before the rename;
`CommitUnacknowledged` and `CreateUnacknowledged` for one after it: the version
is committed and the caller does not know.

Texts are members of small sets; the SHA-256 of the criteria is the criteria
(no collisions); evidence is a set of bindings, decisions a number; notes, owner,
next action, actor and times are left out (the owner takes part in the comparison
of a retried creation like the goal does).  `NoPath` states what `depends_on`
decides: a set of loadable tasks that contains the start, is closed under
dependencies and does not contain the target.  An item is refused as a whole
(`<<"invalid">>`) where the code validates its text.  The one limit that is not
checked where it matters is modelled: `update` measures an evidence payload
(`tasks.rs:902`), stores the record it is bound in, which is longer (909), and
`apply_stored` measures that one at every load (103-106, 257).  A payload is therefore
short or `long`, a long one being legal by itself and its record too long; `Store` makes
the task refused, unless the version is a checkpoint (every `CheckpointInterval`), which may
be stored as a snapshot and not replayed (`Refusals`).  An expected version 0
means none was given.  `MaxVersion` is `u64::MAX` in the code; the update that
would pass it fails, as `checked_add` does.

A task may be `done` while a dependency was reopened later: the gate is checked
when the task itself is committed, and that is all the invariant claims.  Likewise
`ReferencesResolve` says that a parent or a dependency is a committed task, not that it
still loads: its own update may bind an evidence that is too long.

### LedgerFiles and the code

One task directory, one record per version.  An update is the token of the process that
made it, with whether it binds an evidence that is too long once bound (if `Longs` lets
it), and a task the sequence of its updates, so that histories can be compared.  Such a
version cannot be replayed from its delta (`Overlong`, `Replayable`): `load`, `update`
and `verify` fail on it, for good, since no later version can be written.  `content`
says which records have their bytes on disk, `synced` how many names would survive a
power loss: `sync_dir` flushes every earlier rename (metadata is journaled in order:
ext4, XFS, APFS).  A file system that keeps renames in different directories apart is
outside the model. A directory scan returns the names present when it began and any
subset of those that appeared since.  Reads of immutable records are atomic with the
scan that found them.  `Rot` damages a record on disk; its checksum tells.  A checkpoint
is written when the version is a multiple of `CheckpointInterval`, unless the task has
outgrown half a record, hence the choice in `RecordsFor`.

### BackupRestore and the code

Each workspace has a ledger, a function from identifiers to sequences of records;
creates and updates are single steps (that they are is `StoreIsAtomic`), refused
while a job holds the lock.  Identifiers are the caller's keys, so two workspaces
may give one identifier to different tasks; their order is the order `list()`
sorts them in.  A record carries the workspace that wrote it, which stands for
the bytes that make it unlike every other record, and the dependency it adds.
`StartBackup`, `CopyTask`, `FinishBackup` are the loop of `backup`; `ListSource`
is the unlocked part of `restore`, `LockDestination` the lock, then
`Install` (copy to a stage and rename), `SkipIdentical` or `Conflict` for each
listed task in order, and `FinishRestore`.  `Abort` is a death or an error anywhere;
the stage it leaves has a name nothing reads.  Nothing is damaged here, so the
verify calls succeed, and no update binds an evidence that is too long: such a task
would make `backup` and the listing of `restore` fail before they copy anything.
With `LiveSource` the source may be the ledger of another
workspace, which changes while it is read.

A restore that stopped leaves dependencies on tasks that are not there yet: the
invariant `ReferencesResolve` of `TaskStore` speaks of ledgers that create and
update built.  What still holds is that a search that meets a missing task is
refused, and `GapsAbove`: only larger identifiers are missing.

### MemorySnapshot and the code

An engine is the sequence of the events stepped into it; what it still holds of
them is the matter of the memory modules.  A process goes `wait` (polling the
flock) -> `load` -> `write` (a temporary file of its own, flushed) -> `rename` ->
`unlock`; `sync` and `init` come with an engine of their own (`Brings`) and skip the load.
`sync` replaces what is there on purpose; `init` starts only when it sees no snapshot, and
`replaced` records a sync, or an init whose rename found one after all.
`Timeout` is the end of the poll loop, `Fail` an error before the rename,
`Die` the death of the process, whose lock the kernel drops.  An error or death
after the rename is `Die` at `unlock`: the event is in and the caller was not told.
A run that fails records its incident by `fs::write`, which empties the
file (`Truncate`) and then fills it (`Record`); two of these at once may leave what
does not parse.  A run that succeeds reads the incident, and if it is of its
command ingests a pair and then removes the file, whatever the ingest returned
(`After`, `Forget`).  What another run has yet to write to it then goes to a file without a
name, so that `Forget` ends that run's recording too.

### The memory modules and the code

An embedding is known by its kind; cosines are compared as equal, redundant or
unrelated (`Sim`).  An importance is a level, chosen freely at each event; the
revision score of a candidate is any level, so that a revision may restore any
candidates its limit allows, in any order.  Records, the rows of the matrix,
the access times and the saved states are separate, as in the code, because
keeping them in step is what can go wrong.  A state is known by the event that
led to it.  `observe_with_revision` is the observation and then one `Restore`
for each restoration decided on; one thread calls, so nothing else comes
between.  `ContinuumEngine` always has an archive and the `min_importance` policy
and sends what the hot bank rejects there.  `torch.save` writes the checkpoint in
place, so that a death in it leaves `Torn`; the native save renames.
`NativeEngine` shares the banks: `engine.rs` takes the decisions of `api.py` in
the same order, except that its cold tier breaks ties by the first index, one of
the choices `Victims` has.

`RustNativeEngine.load` makes the object with `cls.__new__` and never sets `step_count`
(`native.py:310`): the first step after a load changes the core's memory and then raises
`AttributeError` (`NativeStepRaises`).  The transcript tool swallows it, counts no new
line and does not save again.  It swallows as well whatever fails before the core step
(`PassOver`, `query_conversation_memory.py:46-57`): the line gives no event, the count of
events that the next invocation takes for the number of known lines is one too
low, and after a save it feeds the last lines it knows once more.  The history variable `trace`
keeps which lines were fed to the memory, in order, and which were passed over.

A chat history has the engine its configuration names.  Over a Python engine
`clear` empties the messages and resets the engine; with `backend="rust"`
(`api.py:73-78`) the engine is a native one without `reset`, and `clear` empties the
messages and raises (`ClearChatRaises`, `langchain.py:49-51`), so that the earlier
events stay.  `ChatInStep` says what holds in both cases.
`MemoryClients` gives the memory one client per
behaviour, so that one run covers them all.

### Installer and the code

A run is `main`: binary, workspace, skill files, `AGENTS.md`, MCP registration, tool
approvals, verification, one action each; two checkouts have different files.
A bundled file is a checkout's version, an edit of the user's, absent or torn.
`AGENTS.md` is the sequence of its parts: lines of the user's, the two markers, the rule
of a checkout, and perhaps the fragment a kill left; `config.toml` the sequence of its
sections: the server's with one of two commands, tool approvals, the user's own.
`install_file` keeps a copy of what differs (`Preserve`) and then overwrites it in place
(`Write`); `write_text` truncates and writes, so that a kill leaves the first parts of the
text and perhaps a fragment (`Cuts`); a fragment that still reads as its section counts
as the section, because `register_mcp` looks only at the server's command and at the
names of the tools.  `Updated` is `install_rule`: the section between
the markers, or one at the end, and an error if the markers are not one pair in order
(`Ambiguous`).  `Register` and `Approve` are the two halves of `register_mcp`.
Between runs the user edits or removes a bundled file, adds lines anywhere or keeps only
his own in any order, adds sections that are not there, points the server elsewhere.
The assumptions on the constants only tell parts apart: an edit is no checkout's
version, a user's line is no rule and no marker, a user's section no tool's.

## Runs

| run | question | bounds | distinct states |
|---|---|---|---|
| `store_deps` | can processes that link tasks at the same time commit a cycle, a dangling reference, anything not atomic? does every call return? | 2 processes, 3 tasks, every dependency, done with and without one, 2 versions, fairness | 210 thousand |
| `store_gates` | do the gates hold, is anything acknowledged lost, does an expected version mean what it says? | 2 processes, 2 tasks (one keyed), 2 goals, 3 criteria, 13 change lists of up to 4 items with and without an expected version, evidence that is too long once bound, 3 versions, the third a checkpoint | 1.26 million |
| `store_evidence` | (violation) does a task that a call returned load? | as `store_gates` | - |
| `files_readers` | is a ledger readable after any crash, are lock-free reads current, does verify notice damage, do the file operations implement a durable history? | 2 processes, each writer or reader, 3 versions, a checkpoint every 2, updates with and without an evidence that is too long, one damaged record, creation with and without a key | 376 thousand |
| `files_retry` | (violation) is an acknowledged keyed creation safe from a power loss? | 2 processes, 2 versions | - |
| `copies` | what do backups, interrupted and repeated restores and writers do to each other's ledgers? | 3 workspaces, 2 task keys, 2 versions each, 6 records, 2 backups, one job at a time, backups as sources | 738 thousand |
| `copies_live` | (violation) does a restore from a live ledger keep dependencies acyclic? | as `copies`, any other workspace as a source | - |
| `files_verify` | (violation) does verify complain only of damage? | 2 processes, 3 versions | - |
| `snapshot` | do concurrent commands lose an ingest, tear the snapshot or make up a pair? | 2 processes, 3 events, 2 commands | 1.39 million |
| `snapshot_init` | (violation) does an init leave an existing snapshot alone? | as `snapshot` | - |
| `memory` | is every event held once and within the budget, is any lost while there is room, do clients and memory stay in step? | 16 memories: hot bank 1-2, archive 0-3, all policies, 3 kinds of events of which 2 are redundant, 3 importances, up to 6 events | 811 thousand |
| `installer` | does any sequence of runs, deaths and edits lose an edit, or report success without an installation? | 2 checkouts, 2 tools, bounded edits and runs | 6.1 million |

Why the bounds suffice: a dependency cycle by race needs two processes and two tasks,
three tasks add the indirect ones; a stale commit needs two processes and two versions,
the expected-version and overwrite cases three; evidence can be fresh, stale, foreign or
malformed with two tasks and two criteria.  At the file level a process is a writer or a
reader as it likes, so two processes give every pair, and three versions with an
interval of two give records before, at and after a checkpoint, and an evidence that is
too long in it, as a delta or in a snapshot, and after it.  Acyclicity needs two
versions of each task, one with a dependency; the gates need the third.  A cycle across
restores needs two ledgers that link the same two keys in opposite directions and a
third to restore both into: three workspaces, six records, two backups.  Jobs of
different workspaces meet only in finished backups, which never change, so running one
at a time loses nothing; the proofs are for any number.  A lost ingest needs two
processes, and three events let one more come between load and rename; a pair needs a
failure and another one that overwrites it, of a different command.  An archive of three
with one redundant pair is the smallest in which a storm could drive out a unique event
while the redundant pair is there; a hot bank of two with two restorations lets the
second restoration meet the record the first one evicted; capacities zero and one are
the boundary.  Two checkouts are needed for a file that differs without being the
user's.  The proofs cover `TaskStore`, `LedgerFiles`, `BackupRestore`, `MemorySnapshot`,
the memory modules and `Installer` for all values of their constants.

Fairness: `FairSpec` is weak fairness of `Step(p)` for each process.  A process that
runs is scheduled by the operating system, and its steps either proceed or return an
error; the poll loop of `FileLockGuard::acquire` always ends by getting the lock or by
the timeout, so no strong fairness of the lock is assumed. No call, death or error is
ever due.  `store_deps` checks `CallsReturn` under it, and therefore without symmetry.
All other properties are safety properties: the memory and the installer run in one
thread and wait for nobody.

Symmetry is used in safety runs only, over processes, interchangeable tasks,
redundant kinds of events, and the checkouts and texts of the installer.

## Findings

* `files_retry`: `create_with_key` that finds its key taken returns the task
  without syncing the root directory.  Its only sync was `init()`'s, made before it
  waited for the lock.  If the first creator dies between its rename and its
  sync in the meantime, the second caller is told the task exists and a power
  loss removes it.  The engineering playbook (8.4) asks for a directory fsync
  after the rename as the ground for real power-loss consistency.  (The same window
  lets an update acknowledge a task whose directory name was never flushed, on a
  file system that does not journal in order.)
* `files_verify`: `verify` holds no lock between `list()` and the replay, so an
  update in between makes it report `Task replay mismatch` on an intact ledger;
  the operations runbook reads any verification error as damage.  `backup` runs
  it under the lock and is not affected.
* `copies_live`: `restore` accepts the ledger of a running workspace, reads it
  without its lock and never looks at dependencies.  A task copied after the
  listing may depend on a smaller, newer task that was not listed; with a task an
  interrupted restore left waiting, the destination gets a dependency cycle,
  although the product scope says cycles are rejected.  Restoring finished backups, as
  the runbook says to, is safe (`CopiesStayAcyclic`).
* `store_evidence`: `update` measures evidence before it binds it and load after.
  A payload just below 64 KiB is accepted, the call succeeds, and no load, `list`, `verify` or
  `backup` accepts the task afterwards; nor does an update that reads it.  The
  product scope says that resuming a task must recover its authoritative latest
  state.  A checkpoint version escapes, as it stores the task whole.
* `snapshot_init`: `init` looks for the snapshot without the lock and saves its empty
  engine under it.  What another process has ingested in between, and was told is saved, is
  replaced, although the operations runbook says that initialization does not
  replace an existing memory snapshot.

Some hazards are as the model shows them and are not promised otherwise strictly
enough to be findings: a native engine made by `load` raises at its first step, and the
transcript tool feeds lines again once it has passed one over (see above); `clear` over a
native engine raises and keeps the events; a run whose ingest fails drops the
incident all the same (`After`, `Forget`); and an installer killed between the name of a
tool's section and its `approval_mode` leaves a section that every later run takes for
complete, so that `SuccessInstalls` promises sections, not what is in them.

What some properties leave open.  `StormSafe` protects unique events from storms of
duplicates, as long as the archive holds fewer kinds than slots; in an archive of as
many kinds as slots one of them has to go.  `LossOnlyWhenFull` permits any loss while
both banks are full: also of a third record when a restoration into a full hot bank
files the evicted one before it takes its candidate out of a full archive, and of a
record evicted for an event that is then refused.  `EditsKept` and `TextKept` speak of
bundled files and of runs that get past `AGENTS.md`: a run killed while it writes
`AGENTS.md` or `config.toml`, which it does in place and without a backup, loses the
lines that come after. `AckedIngested` ends at the first sync or late init.
`TranscriptWhole` promises no more than that no line is missing once a line has been
passed over.

## Proofs

`TaskStoreProofs` proves, for any sets of processes, tasks, texts and requests
(`RulesAssumption`, `StoreAssumption`), everything the safety runs of `TaskStore`
check:

1. `CopiesSafe`: `TypeOK /\ WorkingCopy` is inductive.  `WorkingCopy` is the
   strengthening the rest needs: the lock is held exactly between load and
   return; while it is held the private copy extends the *committed* task, so
   what was checked against the ledger at load or during the list still holds at
   the commit; a dependency already accepted still closes no cycle; a revision
   has a decision or one is still in the list.  One step per action; the actions of the
   other processes are covered by `OthersKept`: they cannot commit under the lock.
2. `StoreIsAtomic`: from that, a commit is a `Revise` of `TaskLedger`, a creation a
   `Create`, and every other step stutters.
3. `StatusIsJustified`, `ReferencesAlwaysResolve`, `DependenciesAcyclic`,
   `AcksAreDurable`: by the three kinds of ledger step (`LedgerStep`).  For acyclicity,
   if a set waited on itself after a commit, its part inside the closed set the
   search visited would have waited on itself before (`CommitAcyclic`).
   `AcksAreDurable` also needs when load refuses a task: `RefusalsJustified` shows that only a
   committed evidence record that is too long makes it, by following a long payload from
   the change list through the working copy (`LongKept`).
4. `ExpectedVersionIsReplaced`: the action property, from the same invariant.

`LedgerFilesProofs` (from `FilesAssumption`: the interval, the versions and the
processes are arbitrary):

1. `FilesInvariant`: `IInv` is inductive.  `Stored` ties the directory to the
   history: version `v` is a snapshot of its first `v` updates or the delta of update
   `v`, and version 1 is a snapshot.  `ReplayIs` and `LoadedIs` show what follows for the
   code's two ways to read: a replay from any snapshot, and the load from the checkpoint,
   give the same state.  `Working`: a process under the lock has
   loaded the history as it is now, so its rename extends it.  `Reading`: names never
   disappear under a reader.  `Disk`: every name seen has its bytes on disk, and without
   a key every acknowledged version has its name there.
2. `AlwaysReadable`, `ReadersSeeStates`, `VerifyIsSound` and `FilesTypeCorrect` follow.  For the
   first, an update that is too long can only be the last one: the load under the lock
   that a later one begins with would have failed.
   `FilesAreDurable` needs what each step does to the history (`Evolves`): a power loss cuts it
   at a synced name, which is never before the last acknowledged one.

`BackupRestoreProofs` (from `CopiesAssumption`):

1. `JobsStaySound`: `IInv` is inductive.  A running backup has copied the ledger as it
   is (writers wait for the lock); a restore that runs has brought over every
   task of its backup it has met.  `CopiesTypeCorrect`, `SuccessMeansComplete`,
   `BackupsAreSnapshots` and `NeverOverwritten` follow step by step.
2. `CopiesStayAcyclic` and `MissingSortsAbove`, under `~LiveSource`.  Acyclicity alone
   is not inductive: installing a task closes a cycle if a task that waits for
   it can be reached from it.  The strengthening is `Guarded`: from no identifier
   above a missing one do dependencies lead to it, stated without reachability as a
   set that dependencies do not leave.  An update keeps it because its search is
   refused when it meets a missing task (`CommitSound`).  A restore keeps it because
   it goes upwards and finds the smaller tasks of its backup identical: below the
   installed task the destination looks like the backup, above it nothing leads
   back (`InstallSound`).
3. `TasksArriveWhole`, under `~LiveSource` too (with a live source there may be no backup
   the task came from).  `ArrivesWhole` speaks of the last record that a
   workspace did not write; what is inductive is `Arrived`: a history is a part that some
   backup has, ending with another's record, and then own records only.  An
   installation would break that if a backup brought a workspace its own records; it
   cannot, as whoever wrote a record still has the task (`AuthorsHave`) and restore
   never touches a task that is there.

`MemorySnapshotProofs` (from `SnapshotAssumption`):

1. `SnapshotInvariant`: `Inv` is inductive.  `LockHeld`: whoever is between load and
   unlock is the holder, so there is one at most.  `Extends`: an engine about to be
   renamed is the snapshot *as it is now* with the event at its end.  `Arrived`: an
   ingest about to be acknowledged is in the snapshot.  `Observed` and
   `IncidentReal`: what is recorded, read or paired is a failure that happened.
   Every step but `Rename` and `Unlock` leaves the snapshot alone; `QuietStep`
   covers them all at once.
2. `SnapshotTypeCorrect`, `AcksInSnapshot`, `PairsObserved` are parts of it.

`MemoryProofs` (from `TiersAssumption`, `MemoryAssumption`, `NativeAssumption` and
`ClientsAssumption`: near pairs are kinds, every client but the direct one has an
archive and the engine's policy, model values are no numbers):

1. `AdaptiveMemoryProofs` says what the operations on sequences do to a bank: an
   eviction takes one identifier, its row, its access time and its state
   (`EvictedOK`), the archive takes a record in for at most one other
   (`ArchivedOK`), a record comes in with a new identifier (`ComeIn`).
   `Twins` is the heart of the diversified archive: with fewer kinds than rows two
   rows are equal, so the most redundant row is one of two equal ones, and dropping
   it loses no kind.
2. The inductive invariant `Inv`: the banks are well formed (`Banks`: distinct
   identifiers below `steps`, nothing in both, rows and times in step, states their own,
   limits), also those of the checkpoint, since a load brings them back; the candidates
   a running revision has yet to restore are not in the hot bank and, as far as the
   archive still holds them, unchanged (`Waiting`), which is what keeps a restoration
   from doubling an event that the restoration before evicted; the tool's memory has an
   event for each line it was fed, and the lines from the first unknown one on are new
   to it (`Tooling`, `Follows`).
3. `EventsOnce`, `WithinBudget`, `OwnFingerprints`, `WholeTranscript`, `MemoryTypes` follow
   from `Inv`.  `NoEarlyLoss` and `StormProof` follow from what each step keeps
   (`Keeps`, `NextInv`).
4. `EngineIsPool`: the banks are disjoint and injective, so the number of events held is
   the sum of the lengths, which is below the slots exactly when a bank has room
   (`Slots`); each step of an engine is then one of the pool (`PoolStep`).
5. `ChatCorresponds`: together with `Inv`, `ChatInStep` is inductive; `add_message` appends
   the number of the step it makes, which is above all before it, a refused one appends
   no number, and `clear` sets both back, or only the messages if it raises: their events
   are then the latest ones, from a later first one on.

`InstallerProofs` (from `InstallerAssumption`; any checkouts, texts, sections, runs and edits,
any finite set of tools):

1. Lemmas about texts as sequences: what joining, slicing, cutting and rewriting do to
   the parts (`Joined`, `Slice`, `CutText`, `Rewritten`), a part counted once has one place
   (`Counted`, `OnceCounted`), a set put in order has each member once (`SetInOrder`).
2. `HomeInvariant`: `IInv` is inductive.  `FilesInstalled`: what a run has put in place by
   the step it is at, which the user cannot undo before it ends.  `VersionsSaved`: at a
   write, the version about to go is in a backup.  `Sections`: no section
   twice, never both commands of the server, and the approvals are added only to
   a file without a fragment in which the server is ours; a file cut between two
   sections is as good as one that the user stopped writing there.
3. `TypeCorrect`, `NoSectionTwice`, `SuccessMeansInstalled` follow, and `UsersVersionsKept` from
   `VersionsSaved` step by step.
4. `UsersLinesKept`: `FoundSection` gives the places of the section that is replaced, or that
   none is there; `NewText` where every part of the new text comes from; the
   user's places of the old and of the new text then correspond one to one in order
   (`OutsideSection`, `OwnCarried` in both directions, `TextReplaced`).

Only model-checked: `CallsReturn`, as liveness is out of the prover's reach.  The runs
that expect a violation state what does not hold, so nothing is to be proved of them.

## Plan

In order of what matters most:

1. `FuseLedger`: appends as separate writes, torn lines, sessions, goal carry-over.
2. `TaskContext`: the budget algorithm as operators over bounded inputs.
3. What holds in place of the findings: `verify` complains only of damage while nothing is
   committed, a live source only grows under the restore that reads it.

## Not modelled

Parsing and printing (`json.rs`, the front ends' arguments), the byte format of the
snapshot and its checksum, floating-point scoring and the recurrence of the temporal
core, embedders and semantic bridges, the installation of the Git hook (one edit of
one script), and the benchmarks, experiments and examples, which feed generated
streams to the memory and keep no state of their own.

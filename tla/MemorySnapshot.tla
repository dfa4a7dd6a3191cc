---------------------------- MODULE MemorySnapshot ----------------------------
(***************************************************************************)
(* The .continuum directory of a workspace, which processes share: the     *)
(* memory snapshot (persistence.rs, lock.rs) with the commands that ingest *)
(* an event, load, synchronise or initialise it (main.rs, hook.rs), and    *)
(* the pending incident of `contextspindle run` (runner.rs).               *)
(*                                                                         *)
(* An engine is known by the events stepped into it, in their order; which *)
(* of them it still holds is the matter of MemoryTiers.  The pair that a   *)
(* run ingests is known by the failure it reports.                         *)
(***************************************************************************)
EXTENDS Naturals, Sequences

CONSTANTS
  Proc,
  Commands,  \* first words of the commands that are run
  Nobody,    \* the lock is free
  None,      \* no command is being run
  NoFile, Torn,
  MaxEvents  \* bound: ingests, failures and transcripts, and the
             \* events in the snapshot

ASSUME SnapshotAssumption ==
  /\ Nobody \notin Proc
  /\ None \notin Commands
  /\ NoFile \notin Seq(Nat)
  /\ MaxEvents \in Nat

VARIABLES
  call,      \* what each process is doing, see Calls
  holder,    \* who has the lock of the snapshot
  snapshot,  \* memory.state
  incident,  \* pending_incident.json
  next,      \* number of the next event
  acked,     \* history: acknowledged ingests
  replaced,  \* history: a sync or a late init has replaced the snapshot
  failures,  \* history: <<failure, command>>
  pairs      \* history: <<failure, command>> of the ingested pairs

files == <<snapshot, incident>>
history == <<acked, replaced, failures, pairs>>
vars == <<call, holder, files, next, history>>

(* step is what the process does next; op the call it is in, an ingest by  *)
(* a run being a "pair"; engine the engine it works on; event the one it   *)
(* ingests, or the failure it records; command what it has run.            *)
Calls == [step : {"idle", "wait", "load", "write", "rename", "unlock",
                  "truncate", "record", "forget"},
          op : {"load", "ingest", "pair", "sync", "init"},
          engine : Seq(Nat), event : Nat, command : Commands \cup {None}]

Idle == [step |-> "idle", op |-> "load", engine |-> <<>>, event |-> 0, command |-> None]

Contents == IF snapshot = NoFile THEN <<>> ELSE snapshot

Init ==
  /\ call = [p \in Proc |-> Idle]
  /\ holder = Nobody
  /\ snapshot = NoFile
  /\ incident = NoFile
  /\ next = 1
  /\ acked = {}
  /\ replaced = FALSE
  /\ failures = {}
  /\ pairs = {}

At(p, step) == call[p].step = step
Become(p, c) == call' = [call EXCEPT ![p] = c]
Goto(p, step) == Become(p, [call[p] EXCEPT !.step = step])

(***************************************************************************)
(* Calls.                                                                  *)
(***************************************************************************)
Start(p, op, eng, ev, cmd) ==
  /\ At(p, "idle")
  /\ Become(p, [step |-> "wait", op |-> op, engine |-> eng, event |-> ev, command |-> cmd])
  /\ UNCHANGED <<holder, files, history>>

NewEvent == next <= MaxEvents /\ next' = next + 1

Ingest(p) == NewEvent /\ Start(p, "ingest", <<>>, next, None)

(* query, inspect and the recall tool.                                     *)
LoadCall(p) == Start(p, "load", <<>>, 0, None) /\ UNCHANGED next

(* sync reads a transcript into a new engine before it takes the lock.     *)
SyncCall(p) == NewEvent /\ Start(p, "sync", <<next>>, 0, None)

(* init looks for a snapshot without the lock and saves an empty engine,   *)
(* over one that another process has saved in between.                     *)
InitCall(p) ==
  /\ snapshot = NoFile
  /\ Start(p, "init", <<>>, 0, None)
  /\ UNCHANGED next

(* What follows the call: a run goes on to remove its incident.            *)
After(p) == IF call[p].op = "pair" THEN [call[p] EXCEPT !.step = "forget"] ELSE Idle

(* 2 s, or 3 s for an ingest, without the lock.                            *)
Timeout(p) ==
  /\ At(p, "wait")
  /\ holder # Nobody
  /\ Become(p, After(p))
  /\ UNCHANGED <<holder, files, next, history>>

(***************************************************************************)
(* Under the lock.                                                         *)
(***************************************************************************)
(* A sync and an init save the engine they come with.                      *)
Brings(p) == call[p].op \in {"sync", "init"}

(* Fault: the lock is taken from whoever has it.                           *)
AcquireIgnoringHolder(p) ==
  /\ At(p, "wait")
  /\ holder' = p
  /\ Goto(p, IF Brings(p) THEN "write" ELSE "load")
  /\ UNCHANGED <<files, next, history>>

Acquire(p) ==
  /\ At(p, "wait")
  /\ holder = Nobody
  /\ holder' = p
  /\ Goto(p, IF Brings(p) THEN "write" ELSE "load")
  /\ UNCHANGED <<files, next, history>>

(* load_engine_unlocked, and the step of an ingest in the engine.          *)
LoadEngine(p) ==
  /\ At(p, "load")
  /\ Become(p, IF call[p].op = "load"
               THEN [call[p] EXCEPT !.step = "unlock"]
               ELSE [call[p] EXCEPT !.step = "write", !.engine = Append(Contents, call[p].event)])
  /\ UNCHANGED <<holder, files, next, history>>

(* Fault: the snapshot is written in place.                                *)
WriteInPlace(p) ==
  /\ At(p, "write")
  /\ Goto(p, "rename")
  /\ snapshot' = Torn
  /\ UNCHANGED <<holder, incident, next, history>>

(* A file with a name of its own is written and flushed.                   *)
WriteTemp(p) ==
  /\ At(p, "write")
  /\ Goto(p, "rename")
  /\ UNCHANGED <<holder, files, next, history>>

Rename(p) ==
  /\ At(p, "rename")
  /\ snapshot' = call[p].engine
  /\ Goto(p, "unlock")
  /\ replaced' = (replaced \/ call[p].op = "sync" \/ (call[p].op = "init" /\ snapshot # NoFile))
  /\ pairs' = IF call[p].op = "pair" THEN pairs \cup {<<call[p].event, call[p].command>>} ELSE pairs
  /\ UNCHANGED <<holder, incident, next, acked, failures>>

Unlock(p) ==
  /\ At(p, "unlock")
  /\ holder' = Nobody
  /\ Become(p, After(p))
  /\ acked' = IF call[p].op = "ingest" THEN acked \cup {call[p].event} ELSE acked
  /\ UNCHANGED <<files, next, replaced, failures, pairs>>

(* An error before the rename gives the lock up.                           *)
Fail(p) ==
  /\ At(p, "load") \/ At(p, "write") \/ At(p, "rename")
  /\ holder' = Nobody
  /\ Become(p, After(p))
  /\ UNCHANGED <<files, next, history>>

(***************************************************************************)
(* contextspindle run.                                                     *)
(***************************************************************************)
RunFails(p) ==
  /\ At(p, "idle")
  /\ NewEvent
  /\ \E c \in Commands :
       /\ Become(p, [step |-> "truncate", op |-> "load", engine |-> <<>>,
                     event |-> next, command |-> c])
       /\ failures' = failures \cup {<<next, c>>}
  /\ UNCHANGED <<holder, files, acked, replaced, pairs>>

(* fs::write empties the file and then writes; over what another run has   *)
(* written meanwhile it may leave that one's tail, which does not parse.   *)
Truncate(p) ==
  /\ At(p, "truncate")
  /\ incident' = Torn
  /\ Goto(p, "record")
  /\ UNCHANGED <<holder, snapshot, next, history>>

Record(p) ==
  /\ At(p, "record")
  /\ \/ incident' = <<call[p].event, call[p].command>>
     \/ incident # Torn /\ incident' = Torn
  /\ Become(p, Idle)
  /\ UNCHANGED <<holder, snapshot, next, history>>

(* Fault: the pair names the command that succeeded, whichever failed.     *)
RunSucceedsWithAny(p) ==
  /\ incident \notin {NoFile, Torn}
  /\ Len(Contents) < MaxEvents
  /\ \E c \in Commands : Start(p, "pair", <<>>, incident[1], c)
  /\ UNCHANGED next

(* A success of the incident's command; any other one changes nothing.     *)
RunSucceeds(p) ==
  /\ incident \notin {NoFile, Torn}
  /\ Len(Contents) < MaxEvents
  /\ Start(p, "pair", <<>>, incident[1], incident[2])
  /\ UNCHANGED next

(* Whatever the ingest returned, the file is removed, the one that is      *)
(* there now; what other runs have yet to write to it goes with it.        *)
Forget(p) ==
  /\ At(p, "forget")
  /\ incident' = NoFile
  /\ call' = [q \in Proc |-> IF q = p \/ At(q, "record") THEN Idle ELSE call[q]]
  /\ UNCHANGED <<holder, snapshot, next, history>>

(* A process dies, and the kernel drops its lock.                          *)
Die(p) ==
  /\ ~At(p, "idle")
  /\ Become(p, Idle)
  /\ holder' = IF holder = p THEN Nobody ELSE holder
  /\ UNCHANGED <<files, next, history>>

Next == \E p \in Proc :
  \/ Ingest(p) \/ LoadCall(p) \/ SyncCall(p) \/ InitCall(p) \/ Timeout(p)
  \/ Acquire(p) \/ LoadEngine(p) \/ WriteTemp(p) \/ Rename(p) \/ Unlock(p) \/ Fail(p)
  \/ RunFails(p) \/ Truncate(p) \/ Record(p) \/ RunSucceeds(p) \/ Forget(p)
  \/ Die(p)

Spec == Init /\ [][Next]_vars

(***************************************************************************)
(* Properties.                                                             *)
(***************************************************************************)
(* The snapshot is a complete engine at every moment, whoever dies.        *)
TypeOK ==
  /\ call \in [Proc -> Calls]
  /\ holder \in Proc \cup {Nobody}
  /\ snapshot \in Seq(Nat) \cup {NoFile}
  /\ incident \in (Nat \X Commands) \cup {NoFile, Torn}
  /\ next \in Nat
  /\ acked \subseteq Nat
  /\ replaced \in BOOLEAN
  /\ failures \subseteq Nat \X Commands
  /\ pairs \subseteq Nat \X (Commands \cup {None})

Held == {Contents[i] : i \in DOMAIN Contents}

(* An ingest that was acknowledged is in the snapshot, whatever other      *)
(* processes ingest at the same time and wherever they die, until a sync   *)
(* saves an engine of its own or an init comes too late.                   *)
AckedIngested == ~replaced => acked \subseteq Held

(* Initialization does not replace an existing memory snapshot.            *)
InitKeepsSnapshot ==
  [][ \A p \in Proc : (At(p, "rename") /\ call[p].op = "init" /\ snapshot' # snapshot) =>
        snapshot = NoFile ]_vars

(* A pair in the snapshot is of a failure that did happen, and names the   *)
(* command that failed, also when several runs share the incident file.    *)
PairObserved == pairs \subseteq failures
=============================================================================

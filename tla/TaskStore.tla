------------------------------ MODULE TaskStore ------------------------------
(***************************************************************************)
(* Store::create_with_key and Store::update as the processes that share a  *)
(* ledger run them (CLI calls and MCP servers, continuum-cli/src/tasks.rs):*)
(* take the ledger's file lock, load, apply the change list item by item   *)
(* to a private copy, check the gates, commit, drop the lock.  A process   *)
(* can die between any two steps; the kernel then releases its flock.      *)
(* How a commit reaches the disk is refined by LedgerFiles.                *)
(***************************************************************************)
EXTENDS TaskRules

CONSTANTS
  Procs,              \* the processes that use the ledger
  CheckpointInterval, \* a full snapshot every so many versions (256)
  Requests            \* the calls they may issue

CreateCalls == [op : {"create"}, key : KeyedIds \cup {None}, origin : Origin]

UpdateCalls == [op : {"update"}, id : Ids, expected : 0..MaxVersion,
                changes : Seq(Changes)]

ASSUME StoreAssumption ==
  /\ None \notin Procs
  /\ CheckpointInterval \in Nat \ {0}
  /\ Requests \subseteq CreateCalls \cup UpdateCalls

VARIABLES
  ledger,   \* the committed tasks
  refused,  \* those of them whose records Store::load refuses
  holder,   \* the process that holds the ledger's flock, or None
  pc,       \* where each process is in its call
  call,     \* the call each process is executing, or executed last
  todo,     \* the part of the change list it has not applied yet
  work      \* its private copy of the task; at "ok", the task it returned

store == <<ledger, refused>>
vars == <<store, holder, pc, call, todo, work>>

Init ==
  /\ ledger = [i \in {} |-> None]
  /\ refused = {}
  /\ holder = None
  /\ pc = [p \in Procs |-> "idle"]
  /\ call = [p \in Procs |-> None]
  /\ todo = [p \in Procs |-> <<>>]
  /\ work = [p \in Procs |-> None]

(* The tasks as Store::load returns them: all but the refused ones.        *)
Loads == [i \in DOMAIN ledger \ refused |-> ledger[i]]

-----------------------------------------------------------------------------
(* A call that returns drops its guard.  An Err is not remembered: the     *)
(* caller is free again, and what the call had prepared is gone.           *)

Forget(p) ==
  /\ holder' = IF holder = p THEN None ELSE holder
  /\ pc' = [pc EXCEPT ![p] = "idle"]
  /\ call' = [call EXCEPT ![p] = None]
  /\ todo' = [todo EXCEPT ![p] = <<>>]
  /\ work' = [work EXCEPT ![p] = None]

Fail(p) == Forget(p) /\ UNCHANGED store

Succeed(p, t) ==
  /\ holder' = None
  /\ pc' = [pc EXCEPT ![p] = "ok"]
  /\ work' = [work EXCEPT ![p] = t]
  /\ UNCHANGED <<call, todo>>

Request(p) ==
  /\ pc[p] \in {"idle", "ok"}
  /\ \E c \in Requests : call' = [call EXCEPT ![p] = c]
  /\ pc' = [pc EXCEPT ![p] = "lock"]
  /\ work' = [work EXCEPT ![p] = None]
  /\ UNCHANGED <<store, holder, todo>>

(* Fault: the flock is not exclusive.                                      *)
AcquireIgnoringHolder(p) ==
  /\ pc[p] = "lock"
  /\ holder' = p
  /\ pc' = [pc EXCEPT ![p] = "load"]
  /\ UNCHANGED <<store, call, todo, work>>

(* FileLockGuard::acquire: poll the flock until it is free or 10 s passed. *)
Acquire(p) ==
  /\ pc[p] = "lock"
  /\ holder = None
  /\ holder' = p
  /\ pc' = [pc EXCEPT ![p] = "load"]
  /\ UNCHANGED <<store, call, todo, work>>

(* Fault: the poll loop never gives up.                                    *)
WaitForever(p) == FALSE

LockTimeout(p) ==
  /\ pc[p] = "lock"
  /\ holder # None
  /\ Fail(p)

-----------------------------------------------------------------------------
(* create_with_key                                                         *)

Creating(p) == pc[p] = "load" /\ call[p].op = "create"

ParentLoads(o) == o.parent # None => o.parent \in DOMAIN Loads

FreeIds(key) ==
  (IF key = None THEN Ids \ KeyedIds ELSE {key}) \ DOMAIN ledger

CreateTask(p) ==
  /\ Creating(p)
  /\ ParentLoads(call[p].origin)
  /\ \E id \in FreeIds(call[p].key) :
       /\ ledger' = Put(ledger, NewTask(id, call[p].origin))
       /\ Succeed(p, NewTask(id, call[p].origin))
  /\ UNCHANGED refused

(* The key is taken: the same request gets the task as it is now.          *)
(* Fault: a taken key answers every request.                               *)
ReturnsAnyExisting(p) ==
  /\ Creating(p)
  /\ ParentLoads(call[p].origin)
  /\ call[p].key \in DOMAIN Loads
  /\ Succeed(p, ledger[call[p].key])
  /\ UNCHANGED store

CreateReturnsExisting(p) ==
  /\ Creating(p)
  /\ ParentLoads(call[p].origin)
  /\ call[p].key \in DOMAIN Loads
  /\ ledger[call[p].key].origin = call[p].origin
  /\ Succeed(p, ledger[call[p].key])
  /\ UNCHANGED store

CreateRefused(p) ==
  /\ Creating(p)
  /\ \/ ~ParentLoads(call[p].origin)
     \/ /\ call[p].key \in DOMAIN ledger
        /\ call[p].key \in refused \/ ledger[call[p].key].origin # call[p].origin
     \/ call[p].key = None /\ FreeIds(None) = {}
  /\ Fail(p)

-----------------------------------------------------------------------------
(* update: the checks before the change list is applied                    *)

Updating(p) == pc[p] = "load" /\ call[p].op = "update"

(* Fault: goal, criteria and cancellation change without a decision.       *)
AcceptableWithoutDecision(c) ==
  /\ c.id \in DOMAIN Loads
  /\ c.expected # 0 => ledger[c.id].version = c.expected
  /\ c.changes # <<>>

Acceptable(c) ==
  /\ c.id \in DOMAIN Loads
  /\ c.expected # 0 => ledger[c.id].version = c.expected
  /\ c.changes # <<>>
  /\ NeedsDecision(c.changes) => HasDecision(c.changes)

LoadForUpdate(p) ==
  /\ Updating(p)
  /\ Acceptable(call[p])
  /\ work' = [work EXCEPT ![p] = ledger[call[p].id]]
  /\ todo' = [todo EXCEPT ![p] = call[p].changes]
  /\ pc' = [pc EXCEPT ![p] = "apply"]
  /\ UNCHANGED <<store, holder, call>>

UpdateRefused(p) ==
  /\ Updating(p)
  /\ ~Acceptable(call[p])
  /\ Fail(p)

-----------------------------------------------------------------------------
(* update: one item of the change list                                     *)

Item(p, c) ==
  /\ pc[p] = "apply"
  /\ todo[p] # <<>>
  /\ Head(todo[p]) = c

Applied(p, t) ==
  /\ work' = [work EXCEPT ![p] = t]
  /\ todo' = [todo EXCEPT ![p] = Tail(@)]
  /\ UNCHANGED <<store, holder, pc, call>>

ApplyField(p) ==
  \/ \E g \in Goals :
       Item(p, <<"goal", g>>) /\ Applied(p, SetGoal(work[p], g))
  \/ \E c \in Criteria :
       Item(p, <<"criteria", c>>) /\ Applied(p, SetCriteria(work[p], c))
  \/ \E s \in Statuses :
       Item(p, <<"status", s>>) /\ Applied(p, SetStatus(work[p], s))
  \/ \E b \in BOOLEAN :
       Item(p, <<"blocker", b>>) /\ Applied(p, SetBlocker(work[p], b))
  \/ Item(p, <<"decision">>) /\ Applied(p, AddDecision(work[p]))
  \/ Item(p, <<"note">>) /\ Applied(p, work[p])

(* A fresh payload is bound to this task and the criteria of the working   *)
(* copy at this point of the list.  The bound record is not measured.      *)
ApplyFreshEvidence(p) ==
  \E long \in BOOLEAN :
    /\ Item(p, <<"evidence", long>>)
    /\ Applied(p, AddEvidence(work[p], Bound(work[p], long)))

ApplyBoundEvidence(p) ==
  \E e \in Evidence :
    /\ Item(p, <<"bound", e>>)
    /\ Applied(p, AddEvidence(work[p], e))

(* Fault: no depends_on search.                                            *)
ApplyDependencyUnchecked(p) ==
  \E d \in Ids :
    /\ Item(p, <<"dependency", d>>)
    /\ d # call[p].id
    /\ Applied(p, AddDependency(work[p], d))

ApplyDependency(p) ==
  \E d \in Ids :
    /\ Item(p, <<"dependency", d>>)
    /\ d # call[p].id
    /\ NoPath(Loads, d, call[p].id)
    /\ Applied(p, AddDependency(work[p], d))

ItemRefused(p) ==
  /\ \/ Item(p, <<"invalid">>)
     \/ \E d \in Ids : /\ Item(p, <<"dependency", d>>)
                       /\ d = call[p].id \/ ~NoPath(Loads, d, call[p].id)
  /\ Fail(p)

-----------------------------------------------------------------------------
(* update: the gates on the final state, then the commit                   *)

(* Fault: the gates guard the transition to done, not the done state.      *)
GatesOnTransition(p) ==
  /\ ledger[call[p].id].status # work[p].status => StatusGate(Loads, work[p])
  /\ work[p].version < MaxVersion

(* Fault: the version wraps instead of failing the call (checked_add).     *)
GatesUnbounded(p) == StatusGate(Loads, work[p])

Gates(p) == StatusGate(Loads, work[p]) /\ work[p].version < MaxVersion

PassGates(p) ==
  /\ pc[p] = "apply"
  /\ todo[p] = <<>>
  /\ Gates(p)
  /\ work' = [work EXCEPT ![p] = NextVersion(work[p])]
  /\ pc' = [pc EXCEPT ![p] = "commit"]
  /\ UNCHANGED <<store, holder, call, todo>>

GatesRefused(p) ==
  /\ pc[p] = "apply"
  /\ todo[p] = <<>>
  /\ ~Gates(p)
  /\ Fail(p)

(* commit_delta stores the change list, bound evidence in place of its     *)
(* payload, and load checks each item of it again: a long one is refused.  *)
(* At a checkpoint version it may store the task, which loads as it is.    *)
Refusals(t, changes) ==
  {HasLongEvidence(changes)}
    \cup (IF t.version % CheckpointInterval = 0 THEN {FALSE} ELSE {})

Store(p) ==
  /\ ledger' = Put(ledger, work[p])
  /\ \E r \in Refusals(work[p], call[p].changes) :
       refused' = IF r THEN refused \cup {work[p].id} ELSE refused

Commit(p) ==
  /\ pc[p] = "commit"
  /\ Store(p)
  /\ Succeed(p, work[p])

-----------------------------------------------------------------------------
(* An I/O error or the death of the process ends a call anywhere, before   *)
(* or after the rename that commits: the version may be committed although *)
(* the caller is told of an error (sync_dir fails) or is no longer there.  *)

Abort(p) ==
  /\ pc[p] \notin {"idle", "ok"}
  /\ Fail(p)

CommitUnacknowledged(p) ==
  /\ pc[p] = "commit"
  /\ Store(p)
  /\ Forget(p)

CreateUnacknowledged(p) ==
  /\ Creating(p)
  /\ ParentLoads(call[p].origin)
  /\ \E id \in FreeIds(call[p].key) :
       ledger' = Put(ledger, NewTask(id, call[p].origin))
  /\ Forget(p)
  /\ UNCHANGED refused

-----------------------------------------------------------------------------
Step(p) ==
  \/ Acquire(p) \/ LockTimeout(p)
  \/ CreateTask(p) \/ CreateReturnsExisting(p) \/ CreateRefused(p)
  \/ LoadForUpdate(p) \/ UpdateRefused(p)
  \/ ApplyField(p) \/ ApplyFreshEvidence(p) \/ ApplyBoundEvidence(p)
  \/ ApplyDependency(p) \/ ItemRefused(p)
  \/ PassGates(p) \/ GatesRefused(p) \/ Commit(p)

Interrupt(p) ==
  Abort(p) \/ CommitUnacknowledged(p) \/ CreateUnacknowledged(p)

Next == \E p \in Procs : Request(p) \/ Step(p) \/ Interrupt(p)

Spec == Init /\ [][Next]_vars

(* A running process is scheduled; nobody has to issue a call, and errors  *)
(* and crashes are never due.                                              *)
FairSpec == Spec /\ \A p \in Procs : WF_vars(Step(p))

-----------------------------------------------------------------------------
(* Properties.                                                             *)

Holding == {"load", "apply", "commit"}

(* Every variable has its type, and a task is stored under its identifier. *)
TypeOK ==
  /\ DOMAIN ledger \subseteq Ids
  /\ ledger \in [DOMAIN ledger -> Task]
  /\ \A i \in DOMAIN ledger : ledger[i].id = i
  /\ refused \subseteq DOMAIN ledger
  /\ holder \in Procs \cup {None}
  /\ pc \in [Procs -> Holding \cup {"idle", "lock", "ok"}]
  /\ call \in [Procs -> Requests \cup {None}]
  /\ todo \in [Procs -> Seq(Changes)]
  /\ work \in [Procs -> Task \cup {None}]

(* The lock is held exactly by the process between load and return, and    *)
(* the copy it works on stays an extension of the committed task: nobody   *)
(* commits under it, it drops nothing, its new dependencies still close no *)
(* cycle, and a revision has, or will get, its decision.                   *)
LockHeld(p) ==
  /\ holder = p <=> pc[p] \in Holding
  /\ pc[p] # "idle" => call[p] \in Requests

CopyExtends(old, new, p) ==
  /\ new \in Task
  /\ new.id = call[p].id
  /\ new.origin = old.origin
  /\ new.version = IF pc[p] = "commit" THEN old.version + 1 ELSE old.version
  /\ call[p].expected # 0 => old.version = call[p].expected
  /\ old.deps \subseteq new.deps
  /\ old.evidence \subseteq new.evidence
  /\ old.decisions <= new.decisions
  /\ \A d \in new.deps \ old.deps : NoPath(ledger, d, call[p].id)
  /\ NeedsDecision(todo[p]) \/ Revised(old, new)
       => HasDecision(todo[p]) \/ old.decisions < new.decisions

CopyJustified(p) ==
  /\ pc[p] \in {"apply", "commit"} =>
       /\ call[p].op = "update"
       /\ call[p].id \in DOMAIN ledger
       /\ CopyExtends(ledger[call[p].id], work[p], p)
  /\ pc[p] = "commit" => todo[p] = <<>> /\ StatusGate(ledger, work[p])

WorkingCopy ==
  \A p \in Procs : LockHeld(p) /\ CopyJustified(p)

(* A task read back as done has its blocker cleared, stated criteria and   *)
(* evidence bound to itself and to its present criteria, however often the *)
(* criteria moved since; a blocked task says why (Store::update's gates on *)
(* the final state, done on every update and not on the transition only).  *)
StatusJustified ==
  \A i \in DOMAIN ledger :
    /\ ledger[i].status = "blocked" => ledger[i].blocker
    /\ ledger[i].status = "done" =>
         ~ledger[i].blocker /\ ledger[i].criteria # NoCriteria
           /\ Attested(ledger[i])

(* No set of tasks waits on itself: each nonempty set has a member none of *)
(* whose dependencies is in the set (the depends_on search of update,      *)
(* against dependencies other processes add at the same time).             *)
DepsAcyclic ==
  \A S \in SUBSET DOMAIN ledger :
    S # {} => \E i \in S : ledger[i].deps \cap S = {}

(* Every parent and every dependency is a committed task.                  *)
ReferencesResolve ==
  \A i \in DOMAIN ledger :
    /\ ledger[i].deps \subseteq DOMAIN ledger
    /\ ledger[i].origin.parent \in DOMAIN ledger \cup {None}

(* What a successful call returned stays in the ledger: the task is there, *)
(* at that version or a later one, with everything it had recorded, and a  *)
(* create returned a task of the request it was given.  It loads, unless   *)
(* some update recorded an evidence whose bound record is too long.        *)
AckHolds(p) ==
  LET t == work[p] IN
    /\ t.id \in DOMAIN ledger
    /\ t = ledger[t.id] \/ t.version < ledger[t.id].version
    /\ t.evidence \subseteq ledger[t.id].evidence
    /\ t.deps \subseteq ledger[t.id].deps
    /\ t.decisions <= ledger[t.id].decisions
    /\ t.id \in refused => \E e \in ledger[t.id].evidence : e.long
    /\ call[p].op = "create" => ledger[t.id].origin = call[p].origin
    /\ call[p].op = "update" => t.id = call[p].id

AckedDurable ==
  \A p \in Procs : pc[p] = "ok" => AckHolds(p)

(* "Resuming a task must recover its authoritative latest state" (product  *)
(* scope, 2): a task that a successful call returned loads.                *)
AckedLoads ==
  \A p \in Procs : pc[p] = "ok" => work[p].id \in DOMAIN Loads

(* An update that names the version it expects replaces exactly that one.  *)
ReplacesExpected ==
  \A p \in Procs :
    pc[p] = "commit" /\ pc'[p] # "commit" /\ ledger' # ledger
        /\ call[p].expected # 0
      => ledger[call[p].id].version = call[p].expected

ExpectedVersionReplaced == [][ReplacesExpected]_vars

(* Create and update are atomic: they implement TaskLedger.                *)
Abstract == INSTANCE TaskLedger

Atomic == Abstract!Spec

(* No call waits for the ledger's lock, or holds it, forever.              *)
CallsReturn ==
  \A p \in Procs : pc[p] = "lock" ~> pc[p] \in {"ok", "idle"}
=============================================================================

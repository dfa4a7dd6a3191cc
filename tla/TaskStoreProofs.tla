--------------------------- MODULE TaskStoreProofs ---------------------------
(* Theorems about TaskStore, for every set of processes, identifiers,      *)
(* texts and requests.                                                     *)
EXTENDS TaskStore, TLAPS

(* Writing a task into a ledger gives a ledger.                            *)
LEMMA PutType ==
  ASSUME NEW led, DOMAIN led \subseteq Ids, led \in [DOMAIN led -> Task],
         NEW t \in Task
  PROVE  /\ DOMAIN Put(led, t) = DOMAIN led \cup {t.id}
         /\ DOMAIN Put(led, t) \subseteq Ids
         /\ Put(led, t) \in [DOMAIN Put(led, t) -> Task]
         /\ Put(led, t)[t.id] = t
         /\ \A i \in DOMAIN led : i # t.id => Put(led, t)[i] = led[i]
  BY DEF Put, Task

(* create_with_key builds a well-formed task.                              *)
LEMMA NewTaskType ==
  ASSUME NEW id \in Ids, NEW o \in Origin
  PROVE  /\ NewTask(id, o) \in Task
         /\ NewTask(id, o).id = id
         /\ NewTask(id, o).origin = o
  BY RulesAssumption DEF NewTask, Task, Origin, Statuses

(* Each edit of a task changes one field of it, within its type.           *)
LEMMA EditType ==
  ASSUME NEW t \in Task
  PROVE  /\ \A g \in Goals : SetGoal(t, g) \in Task
         /\ \A c \in Criteria : SetCriteria(t, c) \in Task
         /\ \A s \in Statuses : SetStatus(t, s) \in Task
         /\ \A b \in BOOLEAN : SetBlocker(t, b) \in Task
         /\ AddDecision(t) \in Task
         /\ \A e \in Evidence : AddEvidence(t, e) \in Task
         /\ \A d \in Ids : AddDependency(t, d) \in Task
         /\ t.version < MaxVersion => NextVersion(t) \in Task
         /\ \A long \in BOOLEAN : Bound(t, long) \in Evidence
  BY RulesAssumption
  DEF Task, SetGoal, SetCriteria, SetStatus, SetBlocker, AddDecision, AddEvidence,
      AddDependency, NextVersion, Bound, Evidence

(* What a request is.                                                      *)
LEMMA RequestType ==
  ASSUME NEW c \in Requests
  PROVE  /\ c.op = "create" => /\ c.key \in KeyedIds \cup {None}
                               /\ c.origin \in Origin
         /\ c.op = "update" => /\ c.id \in Ids
                               /\ c.expected \in 0..MaxVersion
                               /\ c.changes \in Seq(Changes)
         /\ c.op \in {"create", "update"}
  BY StoreAssumption DEF CreateCalls, UpdateCalls

(* A free identifier is an identifier without a task.                      *)
LEMMA FreeIdsType ==
  ASSUME NEW k \in KeyedIds \cup {None}, NEW id \in FreeIds(k)
  PROVE  id \in Ids /\ id \notin DOMAIN ledger
  BY RulesAssumption DEF FreeIds

(* What loads is committed; what Store::load finds right is right.         *)
LEMMA LoadsFacts ==
  /\ DOMAIN Loads = DOMAIN ledger \ refused
  /\ \A i \in DOMAIN Loads : Loads[i] = ledger[i]
  BY DEF Loads

LEMMA LoadsNoPath ==
  ASSUME NEW d, NEW i, NoPath(Loads, d, i)
  PROVE  NoPath(ledger, d, i)
<1>1. PICK C \in SUBSET DOMAIN Loads : d \in C /\ i \notin C /\ Closed(Loads, C)
  BY DEF NoPath
<1>2. C \in SUBSET DOMAIN ledger /\ Closed(ledger, C)
  BY <1>1, LoadsFacts DEF Closed
<1> QED BY <1>1, <1>2 DEF NoPath

LEMMA LoadsGate ==
  ASSUME NEW t, StatusGate(Loads, t)
  PROVE  StatusGate(ledger, t)
<1>1. Finished(Loads, t.deps) => Finished(ledger, t.deps)
  BY LoadsFacts DEF Finished
<1> QED BY <1>1 DEF StatusGate

(* A commit refuses at most its own task, and only for a long evidence.    *)
LEMMA StoreFacts ==
  ASSUME NEW p, Store(p)
  PROVE  /\ ledger' = Put(ledger, work[p])
         /\ \/ refused' = refused
            \/ /\ refused' = refused \cup {work[p].id}
               /\ HasLongEvidence(call[p].changes)
  BY DEF Store, Refusals

-----------------------------------------------------------------------------
(* Type correctness.                                                       *)

(* No task, no call: the initial state is well typed.                      *)
LEMMA InitType == Init => TypeOK
  BY DEF Init, TypeOK

(* A call that ends without committing leaves well-typed state behind.     *)
LEMMA ForgetType ==
  ASSUME NEW p \in Procs, TypeOK, Forget(p)
  PROVE  /\ holder' \in Procs \cup {None}
         /\ pc' \in [Procs -> Holding \cup {"idle", "lock", "ok"}]
         /\ call' \in [Procs -> Requests \cup {None}]
         /\ todo' \in [Procs -> Seq(Changes)]
         /\ work' \in [Procs -> Task \cup {None}]
  BY DEF TypeOK, Forget

LEMMA FailType ==
  ASSUME NEW p \in Procs, TypeOK, Fail(p)
  PROVE  TypeOK'
  BY ForgetType DEF store, TypeOK, Fail

(* Committing a task and ending the call.                                  *)
LEMMA CommitType ==
  ASSUME NEW p \in Procs, TypeOK, NEW t \in Task,
         ledger' = Put(ledger, t), refused' \subseteq refused \cup {t.id},
         Succeed(p, t) \/ Forget(p)
  PROVE  TypeOK'
<1>1. /\ DOMAIN ledger' \subseteq Ids
      /\ ledger' \in [DOMAIN ledger' -> Task]
      /\ \A i \in DOMAIN ledger' : ledger'[i].id = i
      /\ refused' \subseteq DOMAIN ledger'
  <2>1. /\ DOMAIN ledger \subseteq Ids /\ ledger \in [DOMAIN ledger -> Task]
        /\ \A i \in DOMAIN ledger : ledger[i].id = i
    BY DEF TypeOK
  <2>3. refused \subseteq DOMAIN ledger
    BY DEF TypeOK
  <2>2. /\ DOMAIN ledger' = DOMAIN ledger \cup {t.id} /\ DOMAIN ledger' \subseteq Ids
        /\ ledger' \in [DOMAIN ledger' -> Task] /\ ledger'[t.id] = t
        /\ \A i \in DOMAIN ledger : i # t.id => ledger'[i] = ledger[i]
    BY <2>1, PutType
  <2> QED BY <2>1, <2>2, <2>3
<1>2. CASE Succeed(p, t)
  BY <1>1, <1>2 DEF TypeOK, Succeed
<1>3. CASE Forget(p)
  BY <1>1, <1>3, ForgetType DEF TypeOK
<1> QED BY <1>2, <1>3

(* One item applied to the working copy.                                   *)
LEMMA AppliedType ==
  ASSUME NEW p \in Procs, TypeOK, todo[p] # <<>>, NEW t \in Task, Applied(p, t)
  PROVE  TypeOK'
<1>1. Tail(todo[p]) \in Seq(Changes)
  BY DEF TypeOK
<1> QED BY <1>1 DEF store, TypeOK, Applied

(* Every item of the change list keeps the copy a task.                    *)
LEMMA FieldType ==
  ASSUME NEW p \in Procs, TypeOK, work[p] \in Task,
         ApplyField(p) \/ ApplyFreshEvidence(p) \/ ApplyBoundEvidence(p)
           \/ ApplyDependency(p)
  PROVE  \E t \in Task : todo[p] # <<>> /\ Applied(p, t)
  BY EditType
  DEF ApplyField, ApplyFreshEvidence, ApplyBoundEvidence, ApplyDependency, Item

(* The process that commits holds a well-typed task.                       *)
LEMMA TypeStep ==
  ASSUME TypeOK, WorkingCopy, [Next]_vars
  PROVE  TypeOK'
<1>1. CASE UNCHANGED vars
  BY <1>1 DEF store, TypeOK, vars
<1>2. ASSUME NEW p \in Procs, Request(p)  PROVE TypeOK'
  BY <1>2 DEF store, Request, TypeOK
<1>3. ASSUME NEW p \in Procs, Step(p)  PROVE TypeOK'
  <2>0. pc[p] \in {"apply", "commit"} => work[p] \in Task
    BY DEF WorkingCopy, CopyJustified, CopyExtends
  <2>a. pc[p] # "idle" => call[p] \in Requests
    BY DEF WorkingCopy, LockHeld
  <2>1. CASE Acquire(p)
    BY <2>1 DEF store, Acquire, TypeOK, Holding
  <2>2. CASE LockTimeout(p) \/ CreateRefused(p) \/ UpdateRefused(p)
             \/ ItemRefused(p) \/ GatesRefused(p)
    BY <2>2, FailType
    DEF LockTimeout, CreateRefused, UpdateRefused, ItemRefused, GatesRefused
  <2>3. CASE CreateTask(p)
    <3>1. PICK id \in FreeIds(call[p].key) :
             /\ ledger' = Put(ledger, NewTask(id, call[p].origin))
             /\ Succeed(p, NewTask(id, call[p].origin))
      BY <2>3 DEF CreateTask
    <3>2. call[p].origin \in Origin /\ id \in Ids /\ refused' = refused
      BY <2>3, <2>a, RequestType, FreeIdsType DEF CreateTask, Creating
    <3> QED BY <3>1, <3>2, NewTaskType, CommitType
  <2>4. CASE CreateReturnsExisting(p)
    BY <2>4, LoadsFacts DEF store, CreateReturnsExisting, Succeed, TypeOK
  <2>5. CASE LoadForUpdate(p)
    <3>1. call[p].changes \in Seq(Changes)
      BY <2>5, <2>a, RequestType DEF store, LoadForUpdate, Updating
    <3>2. call[p].id \in DOMAIN ledger
      BY <2>5, LoadsFacts DEF LoadForUpdate, Acceptable
    <3> QED BY <2>5, <3>1, <3>2 DEF store, LoadForUpdate, Updating, TypeOK, Holding
  <2>6. CASE ApplyField(p) \/ ApplyFreshEvidence(p) \/ ApplyBoundEvidence(p)
             \/ ApplyDependency(p)
    <3>1. pc[p] = "apply"
      BY <2>6
      DEF ApplyField, ApplyFreshEvidence, ApplyBoundEvidence, ApplyDependency, Item
    <3>2. PICK t \in Task : todo[p] # <<>> /\ Applied(p, t)
      BY <2>6, <2>0, <3>1, FieldType
    <3> QED BY <3>2, AppliedType
  <2>7. CASE PassGates(p)
    <3>1. NextVersion(work[p]) \in Task
      BY <2>7, <2>0, EditType DEF store, PassGates, Gates
    <3> QED BY <2>7, <3>1 DEF store, PassGates, TypeOK, Holding
  <2>8. CASE Commit(p)
    BY <2>8, <2>0, StoreFacts, CommitType DEF Commit
  <2> QED BY <1>3, <2>1, <2>2, <2>3, <2>4, <2>5, <2>6, <2>7, <2>8 DEF Step
<1>4. ASSUME NEW p \in Procs, Interrupt(p)  PROVE TypeOK'
  <2>1. CASE Abort(p)
    BY <2>1, FailType DEF Abort
  <2>2. CASE CommitUnacknowledged(p)
    BY <2>2, StoreFacts, CommitType
    DEF CommitUnacknowledged, WorkingCopy, CopyJustified, CopyExtends
  <2>3. CASE CreateUnacknowledged(p)
    <3>1. PICK id \in FreeIds(call[p].key) :
             ledger' = Put(ledger, NewTask(id, call[p].origin))
      BY <2>3 DEF CreateUnacknowledged
    <3>2. call[p].origin \in Origin /\ id \in Ids /\ refused' = refused
      BY <2>3, RequestType, FreeIdsType
      DEF CreateUnacknowledged, Creating, WorkingCopy, LockHeld
    <3> QED BY <2>3, <3>1, <3>2, NewTaskType, CommitType DEF CreateUnacknowledged
  <2> QED BY <1>4, <2>1, <2>2, <2>3 DEF Interrupt
<1> QED BY <1>1, <1>2, <1>3, <1>4 DEF Next

-----------------------------------------------------------------------------
(* The working copy.                                                       *)

(* Taking the first item off a change list.                                *)
LEMMA ItemsTail ==
  ASSUME NEW s \in Seq(Changes), s # <<>>
  PROVE  /\ Tail(s) \in Seq(Changes)
         /\ ItemsOf(s) = {Head(s)} \cup ItemsOf(Tail(s))
<1>1. Tail(s) \in Seq(Changes) /\ Len(s) \in Nat /\ Len(s) > 0
  OBVIOUS
<1>2. ASSUME NEW i \in DOMAIN s
      PROVE  s[i] = Head(s) \/ s[i] \in ItemsOf(Tail(s))
  <2>1. CASE i = 1
    BY <2>1
  <2>2. CASE i # 1
    <3>1. i - 1 \in DOMAIN Tail(s) /\ Tail(s)[i - 1] = s[i]
      BY <1>1, <2>2
    <3> QED BY <3>1 DEF ItemsOf
  <2> QED BY <2>1, <2>2
<1>3. ASSUME NEW i \in DOMAIN Tail(s)
      PROVE  Tail(s)[i] \in ItemsOf(s)
  <2>1. i + 1 \in DOMAIN s /\ s[i + 1] = Tail(s)[i]
    BY <1>1
  <2> QED BY <2>1 DEF ItemsOf
<1>4. Head(s) \in ItemsOf(s)
  BY <1>1 DEF ItemsOf
<1> QED BY <1>1, <1>2, <1>3, <1>4 DEF ItemsOf

(* What each edit leaves alone.                                            *)
Keeps(t, u) ==
  /\ u.id = t.id /\ u.origin = t.origin /\ u.version = t.version
  /\ t.deps \subseteq u.deps /\ t.evidence \subseteq u.evidence
  /\ t.decisions <= u.decisions

SameClaims(t, u) ==
  u.goal = t.goal /\ u.criteria = t.criteria

(* An edit that only adds to a task keeps a copy an extension of the       *)
(* committed task.                                                         *)
LEMMA EditKeeps ==
  ASSUME NEW t \in Task
  PROVE  /\ \A g : Keeps(t, SetGoal(t, g)) /\ SetGoal(t, g).deps = t.deps
         /\ \A c : Keeps(t, SetCriteria(t, c)) /\ SetCriteria(t, c).deps = t.deps
         /\ \A s : /\ Keeps(t, SetStatus(t, s)) /\ SetStatus(t, s).deps = t.deps
                   /\ SameClaims(t, SetStatus(t, s))
                   /\ SetStatus(t, s).status = s
         /\ \A b : /\ Keeps(t, SetBlocker(t, b)) /\ SetBlocker(t, b).deps = t.deps
                   /\ SameClaims(t, SetBlocker(t, b))
                   /\ SetBlocker(t, b).status = t.status
         /\ /\ Keeps(t, AddDecision(t)) /\ AddDecision(t).deps = t.deps
            /\ AddDecision(t).decisions = t.decisions + 1
         /\ \A e : /\ Keeps(t, AddEvidence(t, e)) /\ AddEvidence(t, e).deps = t.deps
                   /\ SameClaims(t, AddEvidence(t, e))
                   /\ AddEvidence(t, e).status = t.status
         /\ \A d : /\ Keeps(t, AddDependency(t, d))
                   /\ AddDependency(t, d).deps = t.deps \cup {d}
                   /\ SameClaims(t, AddDependency(t, d))
                   /\ AddDependency(t, d).status = t.status
<1> t.decisions \in Nat
  BY DEF Task
<1> QED
  BY DEF Task, Keeps, SameClaims, SetGoal, SetCriteria, SetStatus, SetBlocker,
         AddDecision, AddEvidence, AddDependency

(* Counting the version up changes nothing else of the task.               *)
LEMMA NextVersionKeeps ==
  ASSUME NEW t \in Task
  PROVE  LET u == NextVersion(t) IN
         /\ u.id = t.id /\ u.origin = t.origin /\ u.version = t.version + 1
         /\ u.deps = t.deps /\ u.evidence = t.evidence
         /\ u.decisions = t.decisions /\ u.goal = t.goal
         /\ u.criteria = t.criteria /\ u.status = t.status
         /\ u.blocker = t.blocker
  BY DEF Task, NextVersion

(* A step of one process leaves the copy of every other one justified:     *)
(* only the holder of the lock commits.                                    *)
LEMMA OthersKept ==
  ASSUME NEW p \in Procs, NEW q \in Procs, p # q,
         TypeOK, WorkingCopy,
         pc'[q] = pc[q], call'[q] = call[q], todo'[q] = todo[q], work'[q] = work[q],
         ledger' = ledger \/ holder = p
  PROVE  CopyJustified(q)'
<1>1. CASE ledger' = ledger
  BY <1>1 DEF WorkingCopy, CopyJustified, CopyExtends, StatusGate, Finished,
              NoPath, Closed
<1>2. CASE holder = p
  BY <1>2 DEF WorkingCopy, LockHeld, CopyJustified, Holding
<1> QED BY <1>1, <1>2

(* A call that returns, with or without a commit, gives up the lock.       *)
LEMMA ReturnKeepsCopies ==
  ASSUME NEW p \in Procs, TypeOK, WorkingCopy, pc[p] # "idle",
         (\E t : Succeed(p, t) /\ holder = p) \/ Forget(p),
         ledger' = ledger \/ holder = p
  PROVE  WorkingCopy'
<1>1. /\ holder' = IF holder = p THEN None ELSE holder
      /\ pc'[p] \in {"idle", "ok"}
      /\ pc'[p] = "ok" => call'[p] = call[p]
  BY DEF Succeed, Forget, TypeOK
<1>2. \A q \in Procs \ {p} : /\ pc'[q] = pc[q] /\ call'[q] = call[q]
                            /\ todo'[q] = todo[q] /\ work'[q] = work[q]
  BY DEF Succeed, Forget, TypeOK
<1>3. \A q \in Procs : LockHeld(q)'
  BY <1>1, <1>2, StoreAssumption DEF WorkingCopy, LockHeld, Holding
<1>4. \A q \in Procs \ {p} : CopyJustified(q)'
  BY <1>2, OthersKept
<1>5. CopyJustified(p)'
  BY <1>1 DEF CopyJustified
<1> QED BY <1>3, <1>4, <1>5 DEF WorkingCopy

(* The first component of an item tells what it is.                        *)
LEMMA Tags ==
  /\ LongEvidence[1] = "evidence" /\ <<"decision">>[1] = "decision"
  /\ LongEvidence # <<"decision">>
<1>1. LongEvidence[1] = "evidence" /\ <<"decision">>[1] = "decision"
  BY DEF LongEvidence
<1> QED BY <1>1

(* What the item c does to the copy t of the task i.                       *)
Effect(t, c, u, i) ==
  \/ \E g \in Goals : c = <<"goal", g>> /\ u = SetGoal(t, g)
  \/ \E x \in Criteria : c = <<"criteria", x>> /\ u = SetCriteria(t, x)
  \/ \E s \in Statuses : c = <<"status", s>> /\ u = SetStatus(t, s)
  \/ \E b \in BOOLEAN : c = <<"blocker", b>> /\ u = SetBlocker(t, b)
  \/ c = <<"decision">> /\ u = AddDecision(t)
  \/ c = <<"note">> /\ u = t
  \/ \E e \in Evidence : /\ c # <<"decision">> /\ (c = LongEvidence => e.long = TRUE)
                        /\ u = AddEvidence(t, e)
  \/ \E d \in Ids : /\ c = <<"dependency", d>> /\ NoPath(ledger, d, i)
                   /\ u = AddDependency(t, d)

LEMMA ApplyEffect ==
  ASSUME NEW p \in Procs, TypeOK, work[p] \in Task,
         ApplyField(p) \/ ApplyFreshEvidence(p) \/ ApplyBoundEvidence(p)
           \/ ApplyDependency(p)
  PROVE  Effect(work[p], Head(todo[p]), work'[p], call[p].id)
<1>1. \A t : Applied(p, t) => work'[p] = t
  BY DEF Applied, TypeOK
<1>2. CASE ApplyField(p)
  BY <1>1, <1>2 DEF ApplyField, Item, Effect
<1>3. CASE ApplyFreshEvidence(p)
  <2>1. PICK long \in BOOLEAN :
          Item(p, <<"evidence", long>>) /\ Applied(p, AddEvidence(work[p], Bound(work[p], long)))
    BY <1>3 DEF ApplyFreshEvidence
  <2> DEFINE e == Bound(work[p], long)
             c == Head(todo[p])
  <2>2. e \in Evidence
    BY EditType
  <2>3. e.long = long
    BY DEF Bound
  <2>4. c = <<"evidence", long>> /\ work'[p] = AddEvidence(work[p], e)
    BY <1>1, <2>1 DEF Item
  <2> HIDE DEF e, c
  <2>5. c = LongEvidence => long = TRUE
    BY <2>4 DEF LongEvidence
  <2>6. c[1] = "evidence"
    BY <2>4
  <2>7. c # <<"decision">>
    BY <2>6, Tags
  <2> QED BY <2>2, <2>3, <2>4, <2>5, <2>7 DEF Effect, c
<1>4. CASE ApplyBoundEvidence(p)
  <2>1. PICK e \in Evidence : Item(p, <<"bound", e>>) /\ Applied(p, AddEvidence(work[p], e))
    BY <1>4 DEF ApplyBoundEvidence
  <2> DEFINE c == Head(todo[p])
  <2>2. c = <<"bound", e>> /\ work'[p] = AddEvidence(work[p], e)
    BY <1>1, <2>1 DEF Item
  <2> HIDE DEF c
  <2>3. c[1] = "bound"
    BY <2>2
  <2>4. c # LongEvidence /\ c # <<"decision">>
    BY <2>3, Tags
  <2> QED BY <2>2, <2>4 DEF Effect, c
<1>5. CASE ApplyDependency(p)
  BY <1>1, <1>5, LoadsNoPath DEF ApplyDependency, Item, Effect
<1> QED BY <1>2, <1>3, <1>4, <1>5

LEMMA EffectKeeps ==
  ASSUME NEW t \in Task, NEW c, NEW u, NEW i, Effect(t, c, u, i)
  PROVE  u \in Task /\ Keeps(t, u)
<1>1. Keeps(t, t)
  BY DEF Keeps, Task
<1>2. ASSUME NEW e \in Evidence, u = AddEvidence(t, e)
      PROVE  u \in Task /\ Keeps(t, u)
  BY <1>2, EditType, EditKeeps
<1>3. ASSUME ~\E e \in Evidence : u = AddEvidence(t, e)
      PROVE  u \in Task /\ Keeps(t, u)
  BY <1>1, <1>3, EditType, EditKeeps DEF Effect
<1> QED BY <1>2, <1>3

(* One item applied: the copy still extends the committed task.            *)
LEMMA ApplyKeepsCopies ==
  ASSUME NEW p \in Procs, TypeOK, WorkingCopy,
         ApplyField(p) \/ ApplyFreshEvidence(p) \/ ApplyBoundEvidence(p)
           \/ ApplyDependency(p)
  PROVE  WorkingCopy'
<1> DEFINE old == ledger[call[p].id]
           new == work[p]
           c   == Head(todo[p])
<1>1. /\ pc[p] = "apply" /\ todo[p] # <<>> /\ todo[p] \in Seq(Changes)
      /\ UNCHANGED <<ledger, holder, pc, call>>
      /\ \A q \in Procs \ {p} : todo'[q] = todo[q] /\ work'[q] = work[q]
      /\ todo'[p] = Tail(todo[p])
  BY DEF store, ApplyField, ApplyFreshEvidence, ApplyBoundEvidence, ApplyDependency,
         Item, Applied, TypeOK
<1>2. /\ new \in Task /\ old \in Task /\ call[p].op = "update"
      /\ call[p].id \in DOMAIN ledger /\ CopyExtends(old, new, p)
  BY <1>1 DEF WorkingCopy, CopyJustified, CopyExtends, TypeOK
<1>3. ItemsOf(todo[p]) = {c} \cup ItemsOf(todo'[p])
  BY <1>1, ItemsTail
<1>a. Effect(new, c, work'[p], call[p].id)
  BY <1>2, ApplyEffect
<1>4. work'[p] \in Task /\ Keeps(new, work'[p])
  BY <1>a, <1>2, EffectKeeps
<1>5. \A d \in work'[p].deps \ new.deps : NoPath(ledger, d, call[p].id)
  BY <1>a, <1>2, EditKeeps DEF Effect
<1>6. NeedsDecision(todo'[p]) \/ Revised(old, work'[p])
        => HasDecision(todo'[p]) \/ old.decisions < work'[p].decisions
  <2>1. NeedsDecision(todo[p]) \/ Revised(old, new)
          => HasDecision(todo[p]) \/ old.decisions < new.decisions
    BY <1>2 DEF CopyExtends
  <2>2. NeedsDecision(todo'[p]) => NeedsDecision(todo[p])
    BY <1>3 DEF NeedsDecision
  <2>3. old.decisions \in Nat /\ new.decisions \in Nat /\ work'[p].decisions \in Nat
    BY <1>2, <1>4 DEF Task
  <2>4. CASE c = <<"decision">>
    BY <2>3, <2>4, <1>a, <1>2, EditKeeps DEF Effect, CopyExtends
  <2>5. CASE c # <<"decision">>
    <3>1. HasDecision(todo[p]) => HasDecision(todo'[p])
      BY <1>3, <2>5 DEF HasDecision
    <3>2. Revised(old, work'[p]) => NeedsDecision(todo[p]) \/ Revised(old, new)
      <4>1. CASE NeedsDecision(todo[p])
        BY <4>1
      <4>2. CASE ~NeedsDecision(todo[p])
        <5>1. c[1] \notin {"goal", "criteria"} /\ c # <<"status", "cancelled">>
          BY <1>3, <4>2 DEF NeedsDecision
        <5>2. /\ SameClaims(new, work'[p])
              /\ work'[p].status = "cancelled" => new.status = "cancelled"
          BY <1>a, <1>2, <2>5, <5>1, EditKeeps DEF Effect, SameClaims
        <5> QED BY <5>2 DEF Revised, SameClaims
      <4> QED BY <4>1, <4>2
    <3> QED BY <2>1, <2>2, <2>3, <3>1, <3>2, <1>4 DEF Keeps
  <2> QED BY <2>4, <2>5
<1>7. CopyExtends(old, work[p], p)'
  <2>1. /\ work'[p].id = call[p].id /\ work'[p].origin = old.origin
        /\ work'[p].version = new.version
        /\ old.deps \subseteq work'[p].deps /\ old.evidence \subseteq work'[p].evidence
    BY <1>2, <1>4 DEF CopyExtends, Keeps
  <2>2. old.decisions <= work'[p].decisions
    BY <1>2, <1>4 DEF CopyExtends, Keeps, Task
  <2>3. \A d \in work'[p].deps \ old.deps : NoPath(ledger, d, call[p].id)
    BY <1>2, <1>5 DEF CopyExtends
  <2>4. call[p].expected # 0 => old.version = call[p].expected
    BY <1>2 DEF CopyExtends
  <2> QED BY <1>1, <1>2, <1>4, <1>6, <2>1, <2>2, <2>3, <2>4
          DEF CopyExtends, NoPath, Closed, NeedsDecision, HasDecision, ItemsOf, Revised
<1>8. \A q \in Procs : LockHeld(q)'
  BY <1>1 DEF WorkingCopy, LockHeld
<1>9. \A q \in Procs \ {p} : CopyJustified(q)'
  BY <1>1, OthersKept
<1>10. CopyJustified(p)'
  BY <1>1, <1>2, <1>7 DEF CopyJustified
<1> QED BY <1>8, <1>9, <1>10 DEF WorkingCopy

(* Every step of every process keeps every working copy sound.             *)
LEMMA WorkingCopyStep ==
  ASSUME TypeOK, WorkingCopy, [Next]_vars
  PROVE  WorkingCopy'
<1>1. CASE UNCHANGED vars
  BY <1>1 DEF store, vars, WorkingCopy, LockHeld, CopyJustified, CopyExtends, StatusGate,
              Finished, NoPath, Closed
<1>2. ASSUME NEW p \in Procs, Request(p)  PROVE WorkingCopy'
  <2>1. /\ UNCHANGED <<ledger, holder>> /\ pc[p] \notin Holding
        /\ pc' = [pc EXCEPT ![p] = "lock"] /\ call'[p] \in Requests
    BY <1>2 DEF store, Request, TypeOK, Holding
  <2>2. \A q \in Procs \ {p} : /\ pc'[q] = pc[q] /\ call'[q] = call[q]
                              /\ todo'[q] = todo[q] /\ work'[q] = work[q]
    BY <1>2 DEF store, Request, TypeOK
  <2>3. \A q \in Procs : LockHeld(q)'
    BY <2>1, <2>2 DEF TypeOK, WorkingCopy, LockHeld, Holding
  <2>4. \A q \in Procs \ {p} : CopyJustified(q)'
    BY <2>1, <2>2, OthersKept
  <2>5. CopyJustified(p)'
    BY <2>1 DEF TypeOK, CopyJustified
  <2> QED BY <2>3, <2>4, <2>5 DEF WorkingCopy
<1>3. ASSUME NEW p \in Procs, Step(p)  PROVE WorkingCopy'
  <2>0. pc[p] \in Holding => holder = p
    BY DEF WorkingCopy, LockHeld
  <2>1. CASE Acquire(p)
    <3>1. \A q \in Procs : LockHeld(q)'
      BY <2>1, StoreAssumption DEF store, Acquire, TypeOK, WorkingCopy, LockHeld, Holding
    <3>2. \A q \in Procs \ {p} : CopyJustified(q)'
      BY <2>1, OthersKept DEF store, Acquire, TypeOK
    <3>3. CopyJustified(p)'
      BY <2>1 DEF store, Acquire, TypeOK, CopyJustified
    <3> QED BY <3>1, <3>2, <3>3 DEF WorkingCopy
  <2>2. CASE LockTimeout(p) \/ CreateRefused(p) \/ UpdateRefused(p)
             \/ ItemRefused(p) \/ GatesRefused(p)
    BY <2>2, ReturnKeepsCopies
    DEF store, LockTimeout, CreateRefused, Creating, UpdateRefused, Updating, ItemRefused,
        Item, GatesRefused, Fail
  <2>3. CASE CreateTask(p) \/ CreateReturnsExisting(p) \/ Commit(p)
    <3>1. pc[p] \in Holding /\ \E t : Succeed(p, t)
      BY <2>3 DEF store, CreateTask, CreateReturnsExisting, Creating, Commit, Holding
    <3> QED BY <3>1, <2>0, ReturnKeepsCopies DEF Holding
  <2>4. CASE LoadForUpdate(p)
    <3>1. /\ UNCHANGED <<ledger, holder, call>> /\ pc[p] = "load"
          /\ pc' = [pc EXCEPT ![p] = "apply"]
          /\ work'[p] = ledger[call[p].id] /\ todo'[p] = call[p].changes
          /\ call[p].op = "update" /\ Acceptable(call[p])
          /\ call[p].id \in DOMAIN ledger
          /\ \A q \in Procs \ {p} : todo'[q] = todo[q] /\ work'[q] = work[q]
      BY <2>4, LoadsFacts DEF store, LoadForUpdate, Updating, Acceptable, TypeOK
    <3>2. \A q \in Procs : LockHeld(q)'
      BY <3>1 DEF TypeOK, WorkingCopy, LockHeld, Holding
    <3>3. \A q \in Procs \ {p} : CopyJustified(q)'
      BY <3>1, OthersKept DEF TypeOK
    <3>4. CopyJustified(p)'
      <4>1. pc'[p] = "apply" /\ call'[p] = call[p] /\ ledger' = ledger
        BY <3>1 DEF TypeOK
      <4>2. /\ ledger[call[p].id] \in Task /\ ledger[call[p].id].id = call[p].id
            /\ ledger[call[p].id].decisions \in Nat
        BY <3>1 DEF Acceptable, TypeOK, Task
      <4>3. NeedsDecision(todo'[p]) => HasDecision(todo'[p])
        BY <3>1 DEF Acceptable
      <4> QED
        BY <3>1, <4>1, <4>2, <4>3
        DEF CopyJustified, CopyExtends, Acceptable, Revised
    <3> QED BY <3>2, <3>3, <3>4 DEF WorkingCopy
  <2>5. CASE ApplyField(p) \/ ApplyFreshEvidence(p) \/ ApplyBoundEvidence(p)
             \/ ApplyDependency(p)
    BY <2>5, ApplyKeepsCopies
  <2>6. CASE PassGates(p)
    <3> DEFINE old == ledger[call[p].id]
               new == work[p]
    <3>1. /\ UNCHANGED <<ledger, holder, call, todo>> /\ pc[p] = "apply"
          /\ pc' = [pc EXCEPT ![p] = "commit"] /\ todo[p] = <<>>
          /\ work'[p] = NextVersion(new)
          /\ new.version < MaxVersion /\ StatusGate(ledger, new)
          /\ \A q \in Procs \ {p} : work'[q] = work[q]
      BY <2>6, LoadsGate DEF store, PassGates, Gates, TypeOK
    <3>2. \A q \in Procs : LockHeld(q)'
      BY <3>1 DEF TypeOK, WorkingCopy, LockHeld, Holding
    <3>3. \A q \in Procs \ {p} : CopyJustified(q)'
      BY <3>1, OthersKept DEF TypeOK
    <3>4. /\ call[p].op = "update" /\ call[p].id \in DOMAIN ledger
          /\ CopyExtends(old, new, p) /\ new \in Task
      BY <3>1 DEF WorkingCopy, CopyJustified, CopyExtends
    <3>5. CopyExtends(old, work[p], p)'
      <4>1. pc'[p] = "commit" /\ new.version = old.version
        BY <3>1, <3>4 DEF TypeOK, CopyExtends
      <4>2. work'[p] \in Task
        BY <3>1, <3>4, EditType
      <4>3. /\ new.id = call[p].id /\ new.origin = old.origin
            /\ call[p].expected # 0 => old.version = call[p].expected
            /\ old.deps \subseteq new.deps /\ old.evidence \subseteq new.evidence
            /\ old.decisions <= new.decisions
            /\ \A d \in new.deps \ old.deps : NoPath(ledger, d, call[p].id)
            /\ NeedsDecision(todo[p]) \/ Revised(old, new)
                 => HasDecision(todo[p]) \/ old.decisions < new.decisions
        BY <3>4 DEF CopyExtends
      <4>4. Revised(old, work'[p]) => Revised(old, new)
        BY <3>1, <3>4, NextVersionKeeps DEF Revised
      <4>5. /\ work'[p].id = new.id /\ work'[p].origin = new.origin
            /\ work'[p].version = new.version + 1 /\ work'[p].deps = new.deps
            /\ work'[p].evidence = new.evidence
            /\ work'[p].decisions = new.decisions
        BY <3>1, <3>4, NextVersionKeeps
      <4> HIDE DEF new
      <4> QED
        BY <3>1, <4>1, <4>2, <4>3, <4>4, <4>5
        DEF CopyExtends, NoPath, Closed, NeedsDecision, HasDecision, ItemsOf, Revised
    <3>6. StatusGate(ledger, work[p])'
      BY <3>1, <3>4, NextVersionKeeps DEF StatusGate, Finished, Attested
    <3>7. CopyJustified(p)'
      BY <3>1, <3>4, <3>5, <3>6 DEF CopyJustified, TypeOK
    <3> QED BY <3>2, <3>3, <3>7 DEF WorkingCopy
  <2> QED BY <1>3, <2>1, <2>2, <2>3, <2>4, <2>5, <2>6 DEF Step
<1>4. ASSUME NEW p \in Procs, Interrupt(p)  PROVE WorkingCopy'
  <2>1. CASE Abort(p)
    BY <2>1, ReturnKeepsCopies DEF store, Abort, Fail
  <2>2. CASE CommitUnacknowledged(p) \/ CreateUnacknowledged(p)
    <3>1. pc[p] \in Holding /\ pc[p] # "idle" /\ Forget(p)
      BY <2>2 DEF CommitUnacknowledged, CreateUnacknowledged, Creating, Holding
    <3>2. holder = p
      BY <3>1 DEF WorkingCopy, LockHeld
    <3> QED BY <3>1, <3>2, ReturnKeepsCopies
  <2> QED BY <1>4, <2>1, <2>2 DEF Interrupt
<1> QED BY <1>1, <1>2, <1>3, <1>4 DEF Next

(* Nobody holds the lock or a copy at the start.                           *)
LEMMA InitCopies == Init => WorkingCopy
  BY StoreAssumption DEF Init, WorkingCopy, LockHeld, CopyJustified, Holding

(* The lock is exclusive and the holder's copy always extends what is      *)
(* committed: the invariant the other theorems rest on.                    *)
THEOREM CopiesSafe == Spec => [](TypeOK /\ WorkingCopy)
<1>1. Init => TypeOK /\ WorkingCopy
  BY InitType, InitCopies
<1>2. TypeOK /\ WorkingCopy /\ [Next]_vars => (TypeOK /\ WorkingCopy)'
  BY TypeStep, WorkingCopyStep
<1> QED BY <1>1, <1>2, PTL DEF Spec

(* Every variable keeps its type.                                          *)
THEOREM TypeCorrect == Spec => []TypeOK
  BY CopiesSafe, PTL

-----------------------------------------------------------------------------
(* What a step can do to the committed tasks.                              *)

(* TaskLedger shares the rules of TaskStore.                               *)
LEMMA SameRules ==
  /\ Abstract!Task = Task
  /\ Abstract!Origin = Origin
  /\ \A led, t : Abstract!Put(led, t) = Put(led, t)
  /\ \A id, o : Abstract!NewTask(id, o) = NewTask(id, o)
  /\ \A led, d, i : Abstract!NoPath(led, d, i) = NoPath(led, d, i)
  /\ \A led, t : Abstract!StatusGate(led, t) = StatusGate(led, t)
  /\ \A old, new : Abstract!Revised(old, new) = Revised(old, new)
  BY DEF Abstract!Task, Task, Abstract!Origin, Origin, Abstract!Put, Put,
         Abstract!NewTask, NewTask, Abstract!NoPath, NoPath, Abstract!Closed, Closed,
         Abstract!StatusGate, StatusGate, Abstract!Finished, Finished,
         Abstract!Attested, Attested,
         Abstract!Revised, Revised, Abstract!Evidence, Evidence,
         Abstract!Statuses, Statuses

HasParent(o) == o.parent \in DOMAIN ledger \cup {None}

Creates(id, o) ==
  /\ id \in Ids \ DOMAIN ledger
  /\ o \in Origin
  /\ HasParent(o)
  /\ ledger' = Put(ledger, NewTask(id, o))

Commits(t) ==
  /\ t \in Task
  /\ t.id \in DOMAIN ledger
  /\ Abstract!Extends(ledger[t.id], t)
  /\ \A d \in t.deps \ ledger[t.id].deps : NoPath(ledger, d, t.id)
  /\ StatusGate(ledger, t)
  /\ ledger' = Put(ledger, t)

(* A commit, acknowledged or not, is an update step of the atomic ledger.  *)
LEMMA CommitStep ==
  ASSUME TypeOK, WorkingCopy, NEW p \in Procs, pc[p] = "commit",
         ledger' = Put(ledger, work[p])
  PROVE  Commits(work[p]) /\ work[p].id = call[p].id
<1> DEFINE old == ledger[call[p].id]
           new == work[p]
<1>1. /\ call[p].id \in DOMAIN ledger /\ CopyExtends(old, new, p)
      /\ todo[p] = <<>> /\ StatusGate(ledger, new)
  BY DEF WorkingCopy, CopyJustified
<1>2. new.id = call[p].id /\ new \in Task
  BY <1>1 DEF CopyExtends
<1>3. ~HasDecision(<<>>)
  BY DEF HasDecision, ItemsOf
<1>4. Abstract!Extends(old, new)
  <2>1. old \in Task /\ old.id = call[p].id
    BY <1>1 DEF TypeOK
  <2>2. old.decisions \in Nat /\ new.decisions \in Nat
    BY <1>2, <2>1 DEF Task
  <2> QED BY <1>1, <1>2, <1>3, <2>1, <2>2, SameRules DEF CopyExtends, Abstract!Extends
<1>5. \A d \in new.deps \ old.deps : NoPath(ledger, d, new.id)
  BY <1>1, <1>2 DEF CopyExtends
<1> QED BY <1>1, <1>2, <1>4, <1>5 DEF Commits

(* A step of the store creates a task, commits a version, or leaves the    *)
(* ledger alone.                                                           *)
LEMMA LedgerStep ==
  ASSUME TypeOK, WorkingCopy, [Next]_vars
  PROVE  \/ ledger' = ledger
         \/ \E id, o : Creates(id, o)
         \/ \E t : Commits(t)
<1>1. ASSUME NEW p \in Procs, CreateTask(p) \/ CreateUnacknowledged(p)
      PROVE  \E id, o : Creates(id, o)
  <2>1. PICK id \in FreeIds(call[p].key) :
          ledger' = Put(ledger, NewTask(id, call[p].origin))
    BY <1>1 DEF CreateTask, CreateUnacknowledged
  <2>2. Creating(p) /\ HasParent(call[p].origin)
    BY <1>1, LoadsFacts DEF CreateTask, CreateUnacknowledged, ParentLoads, HasParent
  <2>3. call[p].origin \in Origin /\ id \in Ids \ DOMAIN ledger
    BY <2>2, RequestType, FreeIdsType DEF Creating, WorkingCopy, LockHeld
  <2> QED BY <2>1, <2>2, <2>3 DEF Creates
<1>2. ASSUME NEW p \in Procs, Commit(p) \/ CommitUnacknowledged(p)
      PROVE  \E t : Commits(t)
  BY <1>2, StoreFacts, CommitStep DEF Commit, CommitUnacknowledged
<1>3. ASSUME NEW p \in Procs, Request(p) \/ Step(p) \/ Interrupt(p),
             ~(CreateTask(p) \/ CreateUnacknowledged(p)),
             ~(Commit(p) \/ CommitUnacknowledged(p))
      PROVE  ledger' = ledger
  BY <1>3
  DEF store, Request, Step, Interrupt, Acquire, LockTimeout, CreateReturnsExisting,
      CreateRefused, LoadForUpdate, UpdateRefused, ApplyField, ApplyFreshEvidence,
      ApplyBoundEvidence, ApplyDependency, Applied, ItemRefused, PassGates,
      GatesRefused, Abort, Fail
<1> QED BY <1>1, <1>2, <1>3 DEF store, Next, vars

-----------------------------------------------------------------------------
(* The atomicity theorem: TaskStore implements TaskLedger.                 *)

(* A creation is a Create step of the atomic ledger.                       *)
LEMMA CreateAbstract ==
  ASSUME NEW id, NEW o, Creates(id, o)
  PROVE  Abstract!Create(id) /\ id \in Ids
  BY SameRules DEF Creates, Abstract!Create, HasParent

(* A commit is a Revise step of the atomic ledger.                         *)
LEMMA CommitAbstract ==
  ASSUME TypeOK, NEW t, Commits(t)
  PROVE  Abstract!Revise(t.id) /\ t.id \in Ids
<1>1. ledger'[t.id] = t
  BY PutType DEF TypeOK, Commits
<1> QED BY <1>1, SameRules DEF Commits, Abstract!Revise, TypeOK

(* Every execution of the processes, with every death and every error, is  *)
(* an execution of the atomic ledger.                                      *)
THEOREM StoreIsAtomic == Spec => Atomic
<1>1. Init => Abstract!Init
  BY DEF Init, Abstract!Init
<1>2. TypeOK /\ WorkingCopy /\ [Next]_vars => [Abstract!Next]_ledger
  BY LedgerStep, CreateAbstract, CommitAbstract DEF Abstract!Next
<1> QED BY <1>1, <1>2, CopiesSafe, PTL DEF Spec, Atomic, Abstract!Spec

-----------------------------------------------------------------------------
(* The invariants of the committed ledger.                                 *)

(* What a ledger holds after one task was written into it.                 *)
LEMMA PutFacts ==
  ASSUME TypeOK, NEW t \in Task, ledger' = Put(ledger, t)
  PROVE  /\ DOMAIN ledger' = DOMAIN ledger \cup {t.id}
         /\ ledger'[t.id] = t
         /\ \A i \in DOMAIN ledger : i # t.id => ledger'[i] = ledger[i]
  BY PutType DEF TypeOK

(* What a creation leaves of the tasks that were there.                    *)
LEMMA CreateFacts ==
  ASSUME TypeOK, NEW id, NEW o, Creates(id, o)
  PROVE  /\ DOMAIN ledger' = DOMAIN ledger \cup {id}
         /\ id \notin DOMAIN ledger /\ HasParent(o)
         /\ ledger'[id].deps = {} /\ ledger'[id].status = "open"
         /\ ledger'[id].origin = o
         /\ \A i \in DOMAIN ledger : ledger'[i] = ledger[i]
<1>1. NewTask(id, o) \in Task /\ NewTask(id, o).id = id
  BY NewTaskType DEF Creates
<1>2. /\ NewTask(id, o).deps = {} /\ NewTask(id, o).status = "open"
      /\ NewTask(id, o).origin = o
  BY DEF NewTask
<1> QED BY <1>1, <1>2, PutFacts DEF Creates

(* done and blocked stay justified, whatever is revised afterwards.        *)
THEOREM StatusIsJustified == Spec => []StatusJustified
<1>1. Init => StatusJustified
  BY DEF Init, StatusJustified
<1>2. ASSUME TypeOK, WorkingCopy, StatusJustified, [Next]_vars
      PROVE  StatusJustified'
  <2>1. CASE ledger' = ledger
    BY <1>2, <2>1 DEF StatusJustified
  <2>2. ASSUME NEW id, NEW o, Creates(id, o)  PROVE StatusJustified'
    BY <1>2, <2>2, CreateFacts DEF StatusJustified
  <2>3. ASSUME NEW t, Commits(t)  PROVE StatusJustified'
    BY <1>2, <2>3, PutFacts DEF Commits, StatusJustified, StatusGate
  <2> QED BY <1>2, <2>1, <2>2, <2>3, LedgerStep
<1> QED BY <1>1, <1>2, CopiesSafe, PTL DEF Spec

(* Parents and dependencies stay in the ledger: nothing is ever removed.   *)
THEOREM ReferencesAlwaysResolve == Spec => []ReferencesResolve
<1>1. Init => ReferencesResolve
  BY DEF Init, ReferencesResolve
<1>2. ASSUME TypeOK, WorkingCopy, ReferencesResolve, [Next]_vars
      PROVE  ReferencesResolve'
  <2>1. CASE ledger' = ledger
    BY <1>2, <2>1 DEF ReferencesResolve, HasParent
  <2>2. ASSUME NEW id, NEW o, Creates(id, o)  PROVE ReferencesResolve'
    <3>1. /\ DOMAIN ledger' = DOMAIN ledger \cup {id} /\ HasParent(o)
          /\ ledger'[id].deps = {} /\ ledger'[id].origin = o
          /\ \A i \in DOMAIN ledger : ledger'[i] = ledger[i]
      BY <1>2, <2>2, CreateFacts
    <3>2. ASSUME NEW i \in DOMAIN ledger'
          PROVE  /\ ledger'[i].deps \subseteq DOMAIN ledger'
                 /\ ledger'[i].origin.parent \in DOMAIN ledger' \cup {None}
      <4>1. CASE i = id
        BY <3>1, <4>1 DEF HasParent
      <4>2. CASE i \in DOMAIN ledger
        BY <1>2, <3>1, <4>2 DEF ReferencesResolve, HasParent
      <4> QED BY <3>1, <3>2, <4>1, <4>2
    <3> QED BY <3>2 DEF ReferencesResolve, HasParent
  <2>3. ASSUME NEW t, Commits(t)  PROVE ReferencesResolve'
    <3>1. t.deps \subseteq DOMAIN ledger
      BY <1>2, <2>3 DEF Commits, ReferencesResolve, NoPath, Closed
    <3>2. HasParent(t.origin)
      BY <1>2, <2>3 DEF Commits, ReferencesResolve, Abstract!Extends, HasParent
    <3>3. /\ DOMAIN ledger' = DOMAIN ledger /\ ledger'[t.id] = t
          /\ \A i \in DOMAIN ledger : i # t.id => ledger'[i] = ledger[i]
      BY <1>2, <2>3, PutFacts DEF Commits
    <3> QED BY <1>2, <3>1, <3>2, <3>3 DEF ReferencesResolve, HasParent
  <2> QED BY <1>2, <2>1, <2>2, <2>3, LedgerStep
<1> QED BY <1>1, <1>2, CopiesSafe, PTL DEF Spec

(* A dependency accepted by the depends_on search closes no cycle.  If a   *)
(* set S waited on itself after the commit, it would contain the committed *)
(* task and one of its new dependencies d; the part of S inside the closed *)
(* set that the search from d visited would have waited on itself before.  *)
LEMMA CommitAcyclic ==
  ASSUME TypeOK, DepsAcyclic, ReferencesResolve, NEW t, Commits(t)
  PROVE  DepsAcyclic'
<1>1. /\ t \in Task /\ t.id \in DOMAIN ledger
      /\ DOMAIN ledger' = DOMAIN ledger
      /\ ledger'[t.id] = t
      /\ \A i \in DOMAIN ledger : i # t.id => ledger'[i] = ledger[i]
  BY PutFacts DEF Commits
<1> SUFFICES ASSUME NEW S \in SUBSET DOMAIN ledger, S # {},
                    \A i \in S : ledger'[i].deps \cap S # {}
             PROVE  FALSE
  BY <1>1 DEF DepsAcyclic
<1>2. PICK i \in S : ledger[i].deps \cap S = {}
  BY DEF DepsAcyclic
<1>3. i = t.id
  BY <1>1, <1>2
<1>4. PICK d \in S : d \in t.deps \ ledger[t.id].deps
  BY <1>1, <1>2, <1>3
<1>5. PICK C \in SUBSET DOMAIN ledger :
         d \in C /\ t.id \notin C /\ Closed(ledger, C)
  BY <1>4 DEF Commits, NoPath
<1>6. PICK j \in S \cap C : ledger[j].deps \cap (S \cap C) = {}
  BY <1>4, <1>5 DEF DepsAcyclic
<1>7. ledger[j].deps \subseteq C /\ ledger[j].deps \cap S # {}
  BY <1>1, <1>5, <1>6 DEF Closed
<1> QED BY <1>6, <1>7

(* No cycle of dependencies is ever committed (DepsAcyclic), whatever      *)
(* several processes link at the same time: the depends_on search of       *)
(* update runs under the lock its result is used under.                    *)
THEOREM DependenciesAcyclic == Spec => []DepsAcyclic
<1>1. Init => DepsAcyclic
  BY DEF Init, DepsAcyclic
<1>2. ASSUME TypeOK, WorkingCopy, ReferencesResolve, DepsAcyclic, [Next]_vars
      PROVE  DepsAcyclic'
  <2>1. CASE ledger' = ledger
    BY <1>2, <2>1 DEF DepsAcyclic
  <2>2. ASSUME NEW id, NEW o, Creates(id, o)  PROVE DepsAcyclic'
    <3>1. /\ DOMAIN ledger' = DOMAIN ledger \cup {id}
          /\ ledger'[id].deps = {} /\ id \notin DOMAIN ledger
          /\ \A i \in DOMAIN ledger : ledger'[i] = ledger[i]
      BY <1>2, <2>2, CreateFacts
    <3> SUFFICES ASSUME NEW S \in SUBSET (DOMAIN ledger \cup {id}), S # {}
                 PROVE  \E i \in S : ledger'[i].deps \cap S = {}
      BY <3>1 DEF DepsAcyclic
    <3>2. CASE id \in S
      BY <3>1, <3>2
    <3>3. CASE id \notin S
      BY <1>2, <3>1, <3>3 DEF DepsAcyclic
    <3> QED BY <3>2, <3>3
  <2>3. ASSUME NEW t, Commits(t)  PROVE DepsAcyclic'
    BY <1>2, <2>3, CommitAcyclic
  <2> QED BY <1>2, <2>1, <2>2, <2>3, LedgerStep
<1> QED BY <1>1, <1>2, CopiesSafe, ReferencesAlwaysResolve, PTL DEF Spec

-----------------------------------------------------------------------------
(* What callers were told.                                                 *)

(* A step keeps every task and only extends it.                            *)
LEMMA LedgerGrows ==
  ASSUME TypeOK, WorkingCopy, [Next]_vars, NEW i \in DOMAIN ledger
  PROVE  /\ i \in DOMAIN ledger' /\ ledger'[i] \in Task
         /\ ledger'[i] = ledger[i] \/ ledger[i].version < ledger'[i].version
         /\ ledger'[i].origin = ledger[i].origin
         /\ ledger[i].deps \subseteq ledger'[i].deps
         /\ ledger[i].evidence \subseteq ledger'[i].evidence
         /\ ledger[i].decisions <= ledger'[i].decisions
<1>0. ledger[i] \in Task /\ ledger[i].version \in Nat /\ ledger[i].decisions \in Nat
  BY DEF TypeOK, Task
<1>1. CASE ledger' = ledger
  BY <1>0, <1>1
<1>2. ASSUME NEW id, NEW o, Creates(id, o)
      PROVE  i \in DOMAIN ledger' /\ ledger'[i] = ledger[i]
  BY <1>2, CreateFacts
<1>3. ASSUME NEW t, Commits(t)
      PROVE  /\ i \in DOMAIN ledger'
             /\ \/ ledger'[i] = ledger[i]
                \/ /\ ledger'[i] = t /\ t \in Task
                   /\ Abstract!Extends(ledger[i], t)
  BY <1>3, PutFacts DEF Commits
<1> QED BY <1>0, <1>1, <1>2, <1>3, LedgerStep DEF Abstract!Extends

AckTyped ==
  \A p \in Procs : pc[p] = "ok" => work[p] \in Task

(* A task some process was given stays in the ledger in every step of the  *)
(* others.                                                                 *)
LEMMA AckStep ==
  ASSUME TypeOK, WorkingCopy, [Next]_vars, NEW p \in Procs, pc'[p] = "ok"
  PROVE  \/ pc[p] = "ok" /\ work'[p] = work[p] /\ call'[p] = call[p]
         \/ CreateTask(p) \/ CreateReturnsExisting(p) \/ Commit(p)
<1>1. CASE UNCHANGED vars
  BY <1>1 DEF store, vars
<1>2. ASSUME NEW q \in Procs, Request(q) \/ Step(q) \/ Interrupt(q), q # p
      PROVE  pc[p] = "ok" /\ work'[p] = work[p] /\ call'[p] = call[p]
  BY <1>2
  DEF store, TypeOK, Request, Step, Interrupt, Acquire, LockTimeout, CreateTask,
      CreateReturnsExisting, CreateRefused, LoadForUpdate, UpdateRefused, ApplyField,
      ApplyFreshEvidence, ApplyBoundEvidence, ApplyDependency, Applied, ItemRefused,
      PassGates, GatesRefused, Commit, Abort, CommitUnacknowledged,
      CreateUnacknowledged, Fail, Forget, Succeed
<1>3. ASSUME Request(p) \/ Step(p) \/ Interrupt(p)
      PROVE  CreateTask(p) \/ CreateReturnsExisting(p) \/ Commit(p)
  BY <1>3
  DEF store, TypeOK, Request, Step, Interrupt, Acquire, LockTimeout,
      CreateRefused, LoadForUpdate, UpdateRefused, ApplyField,
      ApplyFreshEvidence, ApplyBoundEvidence, ApplyDependency, Item, Applied,
      ItemRefused, PassGates, GatesRefused, Abort, CommitUnacknowledged,
      CreateUnacknowledged, Fail, Forget
<1> QED BY <1>1, <1>2, <1>3 DEF Next

(* A task that does not load has a long evidence on record, and the change *)
(* list of a call that brings one still holds it or has put it in the copy.*)
TooLong(t) == \E e \in t.evidence : e.long

RefusedLong == \A i \in refused : TooLong(ledger[i])

LongKept(p) ==
  pc[p] \in {"apply", "commit"} /\ HasLongEvidence(call[p].changes)
    => HasLongEvidence(todo[p]) \/ TooLong(work[p])

LongApplied == \A p \in Procs : LongKept(p)

(* An applied item that is a long evidence is in the copy.                 *)
LEMMA ApplyKeepsLong ==
  ASSUME NEW p \in Procs, TypeOK, WorkingCopy, LongKept(p),
         ApplyField(p) \/ ApplyFreshEvidence(p) \/ ApplyBoundEvidence(p)
           \/ ApplyDependency(p)
  PROVE  LongKept(p)'
<1> DEFINE new == work[p]
           c   == Head(todo[p])
<1>1. /\ pc[p] = "apply" /\ todo[p] # <<>> /\ todo[p] \in Seq(Changes)
      /\ call' = call /\ todo'[p] = Tail(todo[p])
  BY DEF ApplyField, ApplyFreshEvidence, ApplyBoundEvidence, ApplyDependency,
         Item, Applied, TypeOK
<1>2. new \in Task
  BY <1>1 DEF WorkingCopy, CopyJustified, CopyExtends
<1>3. ItemsOf(todo[p]) = {c} \cup ItemsOf(todo'[p])
  BY <1>1, ItemsTail
<1>a. Effect(new, c, work'[p], call[p].id)
  BY <1>2, ApplyEffect
<1>4. /\ new.evidence \subseteq work'[p].evidence
      /\ c = LongEvidence => TooLong(work'[p])
  <2>1. CASE \E e \in Evidence : (c = LongEvidence => e.long = TRUE) /\ work'[p] = AddEvidence(new, e)
    <3>1. PICK e \in Evidence : (c = LongEvidence => e.long = TRUE) /\ work'[p] = AddEvidence(new, e)
      BY <2>1
    <3>2. AddEvidence(new, e).evidence = new.evidence \cup {e}
      BY <1>2 DEF AddEvidence, Task
    <3> HIDE DEF c
    <3> QED BY <3>1, <3>2 DEF TooLong
  <2>2. CASE ~\E e \in Evidence : (c = LongEvidence => e.long = TRUE) /\ work'[p] = AddEvidence(new, e)
    <3>1. \/ \E g \in Goals : c = <<"goal", g>> /\ work'[p] = SetGoal(new, g)
          \/ \E x \in Criteria : c = <<"criteria", x>> /\ work'[p] = SetCriteria(new, x)
          \/ \E s \in Statuses : c = <<"status", s>> /\ work'[p] = SetStatus(new, s)
          \/ \E b \in BOOLEAN : c = <<"blocker", b>> /\ work'[p] = SetBlocker(new, b)
          \/ c = <<"decision">> /\ work'[p] = AddDecision(new)
          \/ c = <<"note">> /\ work'[p] = new
          \/ \E d \in Ids : c = <<"dependency", d>> /\ work'[p] = AddDependency(new, d)
      BY <1>a, <2>2 DEF Effect
    <3> HIDE DEF c
    <3>2. c[1] # "evidence"
      BY <3>1
    <3>3. c # LongEvidence
      BY <3>2, Tags
    <3>4. new.evidence \subseteq work'[p].evidence
      BY <1>2, <3>1, EditKeeps DEF Keeps
    <3> QED BY <3>3, <3>4
  <2> QED BY <2>1, <2>2
<1>5. TooLong(new) => TooLong(work'[p])
  BY <1>4 DEF TooLong
<1>6. HasLongEvidence(todo[p]) => c = LongEvidence \/ HasLongEvidence(todo'[p])
  BY <1>3 DEF HasLongEvidence
<1>7. HasLongEvidence(call[p].changes) => HasLongEvidence(todo[p]) \/ TooLong(new)
  BY <1>1 DEF LongKept
<1>8. HasLongEvidence(call'[p].changes) => HasLongEvidence(todo'[p]) \/ TooLong(work'[p])
  BY <1>1, <1>4, <1>5, <1>6, <1>7
<1> QED BY <1>8 DEF LongKept, HasLongEvidence, ItemsOf, TooLong

(* Only a call that brings a long evidence makes its task refuse to load.  *)
THEOREM RefusalsJustified == Spec => [](RefusedLong /\ LongApplied)
<1>1. Init => RefusedLong /\ LongApplied
  BY DEF Init, RefusedLong, LongApplied, LongKept
<1>2. ASSUME TypeOK, WorkingCopy, RefusedLong, LongApplied, [Next]_vars
      PROVE  LongApplied'
  <2>1. ASSUME NEW p \in Procs,
               pc'[p] \notin {"apply", "commit"}
                 \/ (pc'[p] = pc[p] /\ call'[p] = call[p] /\ todo'[p] = todo[p] /\ work'[p] = work[p])
        PROVE  LongKept(p)'
    BY <1>2, <2>1 DEF LongApplied, LongKept
  <2>2. ASSUME NEW p \in Procs, LoadForUpdate(p) PROVE LongKept(p)'
    BY <1>2, <2>2 DEF LongKept, LoadForUpdate, TypeOK
  <2>3. ASSUME NEW p \in Procs, PassGates(p) PROVE LongKept(p)'
    <3>1. pc[p] = "apply" /\ work'[p] = NextVersion(work[p]) /\ todo' = todo /\ call' = call
      BY <1>2, <2>3 DEF PassGates, TypeOK
    <3>2. work[p] \in Task
      BY <1>2, <3>1 DEF WorkingCopy, CopyJustified, CopyExtends
    <3>3. NextVersion(work[p]).evidence = work[p].evidence
      BY <3>2, NextVersionKeeps
    <3>4. LongKept(p)
      BY <1>2 DEF LongApplied
    <3> QED BY <3>1, <3>3, <3>4 DEF LongKept, TooLong
  <2>4. ASSUME NEW p \in Procs,
               ApplyField(p) \/ ApplyFreshEvidence(p) \/ ApplyBoundEvidence(p)
                 \/ ApplyDependency(p)
        PROVE  LongKept(p)'
    BY <1>2, <2>4, ApplyKeepsLong DEF LongApplied
  <2>5. ASSUME NEW p \in Procs, NEW q \in Procs, Request(q) \/ Step(q) \/ Interrupt(q), q # p
        PROVE  pc'[p] = pc[p] /\ call'[p] = call[p] /\ todo'[p] = todo[p] /\ work'[p] = work[p]
    BY <1>2, <2>5
    DEF TypeOK, Request, Step, Interrupt, Acquire, LockTimeout, CreateTask,
        CreateReturnsExisting, CreateRefused, LoadForUpdate, UpdateRefused, ApplyField,
        ApplyFreshEvidence, ApplyBoundEvidence, ApplyDependency, Applied, ItemRefused,
        PassGates, GatesRefused, Commit, Abort, CommitUnacknowledged,
        CreateUnacknowledged, Fail, Forget, Succeed
  <2>6. ASSUME NEW p \in Procs, Request(p) \/ Step(p) \/ Interrupt(p),
               ~LoadForUpdate(p), ~PassGates(p),
               ~(ApplyField(p) \/ ApplyFreshEvidence(p) \/ ApplyBoundEvidence(p)
                   \/ ApplyDependency(p))
        PROVE  pc'[p] \notin {"apply", "commit"}
    BY <1>2, <2>6
    DEF TypeOK, Request, Step, Interrupt, Acquire, LockTimeout, CreateTask,
        CreateReturnsExisting, CreateRefused, UpdateRefused, ItemRefused,
        GatesRefused, Commit, Abort, CommitUnacknowledged, CreateUnacknowledged,
        Fail, Forget, Succeed
  <2>7. CASE UNCHANGED vars
    BY <1>2, <2>7 DEF vars, LongApplied, LongKept, HasLongEvidence, ItemsOf, TooLong
  <2>8. ASSUME NEW q \in Procs, Request(q) \/ Step(q) \/ Interrupt(q), NEW p \in Procs
        PROVE  LongKept(p)'
    BY <2>1, <2>2, <2>3, <2>4, <2>5, <2>6, <2>8
  <2> QED BY <1>2, <2>7, <2>8 DEF Next, LongApplied
<1>3. ASSUME TypeOK, WorkingCopy, RefusedLong, LongApplied, [Next]_vars
      PROVE  RefusedLong'
  <2>1. ASSUME NEW i \in refused PROVE TooLong(ledger[i]) => TooLong(ledger'[i])
    <3>1. i \in DOMAIN ledger
      BY <1>3 DEF TypeOK
    <3> QED BY <1>3, <3>1, LedgerGrows DEF TooLong
  <2>2. CASE refused' \subseteq refused
    BY <1>3, <2>1, <2>2 DEF RefusedLong, TooLong
  <2>3. ASSUME NEW p \in Procs, pc[p] = "commit", Store(p)
        PROVE  RefusedLong'
    <3> DEFINE t == work[p]
    <3>1. ledger' = Put(ledger, t) /\ t \in Task
      BY <1>3, <2>3, StoreFacts DEF WorkingCopy, CopyJustified, CopyExtends
    <3>2. ledger'[t.id] = t
      BY <1>3, <3>1, PutFacts
    <3>3. CASE refused' = refused \cup {t.id} /\ HasLongEvidence(call[p].changes)
      <4>1. todo[p] = <<>>
        BY <1>3, <2>3 DEF WorkingCopy, CopyJustified
      <4>2. ~HasLongEvidence(<<>>)
        BY DEF HasLongEvidence, ItemsOf
      <4>3. TooLong(t)
        BY <1>3, <2>3, <3>3, <4>1, <4>2 DEF LongApplied, LongKept
      <4> QED BY <1>3, <2>1, <3>2, <3>3, <4>3 DEF RefusedLong, TooLong
    <3> QED BY <2>2, <2>3, <3>3, StoreFacts
  <2>4. ASSUME NEW p \in Procs, Request(p) \/ Step(p) \/ Interrupt(p),
               ~(Commit(p) \/ CommitUnacknowledged(p))
        PROVE  refused' = refused
    BY <2>4
    DEF Request, Step, Interrupt, Acquire, LockTimeout, CreateTask, CreateReturnsExisting,
        CreateRefused, LoadForUpdate, UpdateRefused, ApplyField, ApplyFreshEvidence,
        ApplyBoundEvidence, ApplyDependency, Applied, ItemRefused, PassGates,
        GatesRefused, Abort, CreateUnacknowledged, Fail, store
  <2>5. ASSUME NEW p \in Procs, Commit(p) \/ CommitUnacknowledged(p)
        PROVE  pc[p] = "commit" /\ Store(p)
    BY <2>5 DEF Commit, CommitUnacknowledged
  <2>6. CASE UNCHANGED vars
    BY <2>2, <2>6 DEF vars, store
  <2>7. ASSUME NEW p \in Procs, Request(p) \/ Step(p) \/ Interrupt(p)
        PROVE  RefusedLong'
    BY <2>2, <2>3, <2>4, <2>5, <2>7
  <2> QED BY <1>3, <2>6, <2>7 DEF Next
<1> QED BY <1>1, <1>2, <1>3, CopiesSafe, PTL DEF Spec

(* A call that succeeded is never undone or overwritten, and its task      *)
(* loads unless an evidence was bound to it that load refuses as too long. *)
THEOREM AcksAreDurable == Spec => []AckedDurable
<1>1. Init => AckedDurable /\ AckTyped
  BY DEF Init, AckedDurable, AckTyped
<1>2. ASSUME TypeOK, WorkingCopy, AckTyped, AckedDurable, [Next]_vars, RefusedLong'
      PROVE  (AckedDurable /\ AckTyped)'
  <2> SUFFICES ASSUME NEW p \in Procs, pc'[p] = "ok"
               PROVE  /\ work'[p] \in Task
                      /\ AckHolds(p)'
    BY DEF AckedDurable, AckTyped
  <2>0. \A i \in refused' : \E e \in ledger'[i].evidence : e.long
    BY <1>2 DEF RefusedLong, TooLong
  <2>1. CASE pc[p] = "ok" /\ work'[p] = work[p] /\ call'[p] = call[p]
    <3> DEFINE t == work[p]
    <3>1. t \in Task /\ AckHolds(p)
      BY <1>2, <2>1 DEF AckedDurable, AckTyped
    <3>2. t.id \in DOMAIN ledger
      BY <3>1 DEF AckHolds
    <3>3. /\ t.version \in Nat /\ t.decisions \in Nat
          /\ ledger[t.id] \in Task
          /\ ledger[t.id].version \in Nat /\ ledger[t.id].decisions \in Nat
      BY <1>2, <3>1, <3>2 DEF TypeOK, Task
    <3>4. /\ t.id \in DOMAIN ledger' /\ ledger'[t.id] \in Task
          /\ ledger'[t.id] = ledger[t.id] \/ ledger[t.id].version < ledger'[t.id].version
          /\ ledger'[t.id].origin = ledger[t.id].origin
          /\ ledger[t.id].deps \subseteq ledger'[t.id].deps
          /\ ledger[t.id].evidence \subseteq ledger'[t.id].evidence
          /\ ledger[t.id].decisions <= ledger'[t.id].decisions
      BY <1>2, <3>2, LedgerGrows
    <3>5. ledger'[t.id].version \in Nat /\ ledger'[t.id].decisions \in Nat
      BY <3>4 DEF Task
    <3> HIDE DEF t
    <3>6. /\ t = ledger'[t.id] \/ t.version < ledger'[t.id].version
          /\ t.evidence \subseteq ledger'[t.id].evidence
          /\ t.deps \subseteq ledger'[t.id].deps
          /\ t.decisions <= ledger'[t.id].decisions
          /\ call[p].op = "create" => ledger'[t.id].origin = call[p].origin
          /\ call[p].op = "update" => t.id = call[p].id
      BY <3>1, <3>3, <3>4, <3>5 DEF AckHolds, t
    <3> QED BY <2>0, <2>1, <3>1, <3>4, <3>6 DEF AckHolds, t
  <2>2. CASE CreateTask(p)
    <3>1. PICK id \in FreeIds(call[p].key) :
             /\ ledger' = Put(ledger, NewTask(id, call[p].origin))
             /\ Succeed(p, NewTask(id, call[p].origin))
      BY <2>2 DEF CreateTask
    <3> DEFINE t == NewTask(id, call[p].origin)
    <3>2. /\ call[p].op = "create" /\ call[p].origin \in Origin /\ id \in Ids
      BY <1>2, <2>2, RequestType, FreeIdsType
      DEF CreateTask, Creating, WorkingCopy, LockHeld
    <3>3. t \in Task /\ t.origin = call[p].origin
      BY <3>2, NewTaskType
    <3>4. work'[p] = t /\ call'[p] = call[p]
      BY <1>2, <3>1 DEF Succeed, TypeOK
    <3>5. t.id \in DOMAIN ledger' /\ ledger'[t.id] = t
      BY <1>2, <3>1, <3>3, PutFacts
    <3>6. t.decisions \in Nat
      BY <3>3 DEF Task
    <3> HIDE DEF t
    <3> QED BY <2>0, <3>2, <3>3, <3>4, <3>5, <3>6 DEF AckHolds
  <2>3. CASE CreateReturnsExisting(p)
    <3> DEFINE t == ledger[call[p].key]
    <3>1. /\ call[p].op = "create" /\ t.origin = call[p].origin
          /\ t \in Task /\ t.id \in DOMAIN ledger /\ ledger[t.id] = t
          /\ work'[p] = t /\ call'[p] = call[p] /\ ledger' = ledger
      BY <1>2, <2>3, LoadsFacts DEF store, CreateReturnsExisting, Creating, Succeed, TypeOK
    <3>2. t.decisions \in Nat
      BY <3>1 DEF Task
    <3> HIDE DEF t
    <3> QED BY <2>0, <3>1, <3>2 DEF AckHolds
  <2>4. CASE Commit(p)
    <3> DEFINE t == work[p]
    <3>1. /\ pc[p] = "commit" /\ ledger' = Put(ledger, t)
          /\ work'[p] = t /\ call'[p] = call[p]
      BY <1>2, <2>4, StoreFacts DEF Commit, Succeed, TypeOK
    <3>2. t \in Task /\ t.id = call[p].id /\ call[p].op = "update"
      BY <1>2, <3>1, CommitStep DEF Commits, WorkingCopy, CopyJustified
    <3>3. t.id \in DOMAIN ledger' /\ ledger'[t.id] = t
      BY <1>2, <3>1, <3>2, PutFacts
    <3>4. t.decisions \in Nat
      BY <3>2 DEF Task
    <3> HIDE DEF t
    <3> QED BY <2>0, <3>1, <3>2, <3>3, <3>4 DEF AckHolds
  <2> QED BY <1>2, <2>1, <2>2, <2>3, <2>4, AckStep
<1> QED BY <1>1, <1>2, CopiesSafe, RefusalsJustified, PTL DEF Spec

(* A commit that names an expected version replaces exactly that version.  *)
THEOREM ExpectedVersionIsReplaced == Spec => ExpectedVersionReplaced
<1>1. TypeOK /\ WorkingCopy => ReplacesExpected
  BY DEF WorkingCopy, CopyJustified, CopyExtends, ReplacesExpected
<1> QED BY <1>1, CopiesSafe, PTL DEF Spec, ExpectedVersionReplaced
=============================================================================

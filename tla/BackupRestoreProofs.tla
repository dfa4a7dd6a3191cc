------------------------- MODULE BackupRestoreProofs -------------------------
(* Theorems about BackupRestore, for every set of workspaces and           *)
(* identifiers and every bound.                                            *)
EXTENDS BackupRestore, SequenceTheorems, WellFoundedInduction, TLAPS

(* The least identifier of a job is one of its identifiers.                *)
LEMMA MinIsLeast ==
  ASSUME NEW S \in SUBSET Ids, S # {}
  PROVE  Min(S) \in S /\ \A x \in S : Min(S) <= x
<1> DEFINE R == OpToRel(<, Nat)
<1>1. S \subseteq Nat
  BY CopiesAssumption
<1>2. IsWellFoundedOn(R, Nat)
  BY NatLessThanWellFounded
<1>3. PICK x \in S : \A y \in S : <<y, x>> \notin R
  <2> HIDE DEF R
  <2> QED BY <1>1, <1>2, WFMin
<1>4. R = {ss \in Nat \X Nat : ss[1] < ss[2]}
  BY Zenon DEF OpToRel
<1>5. \A y \in S : x <= y
  <2> HIDE DEF R
  <2>1. TAKE y \in S
  <2>2. x \in Nat /\ y \in Nat
    BY <1>1
  <2>3. ~(y < x)
    <3>1. <<y, x>> \in Nat \X Nat => (y < x => <<y, x>> \in R)
      BY <1>4
    <3> QED BY <2>2, <3>1, <1>3
  <2> QED BY <2>2, <2>3
<1> QED
  BY <1>5 DEF Min

-----------------------------------------------------------------------------
(* What the model's helpers do to types.                                   *)

(* A ledger without tasks is a ledger.                                     *)
LEMMA EmptyType == Empty \in Ledger
  BY CopiesAssumption DEF Empty, Ledger, History

(* A workspace without a job.                                              *)
LEMMA IdleType == Idle \in Job
  BY EmptyType DEF Idle, Job

(* A source is read as a ledger.                                           *)
LEMMA ReadType ==
  ASSUME TypeOK, NEW s \in Source
  PROVE  Read(s) \in Ledger
  BY DEF TypeOK, Source, Read

(* A commit appends one record to one task of one workspace.               *)
LEMMA AppendType ==
  ASSUME NEW h \in History, NEW r \in Record, Len(h) < MaxVersion
  PROVE  /\ Append(h, r) \in History
         /\ IsPrefix(h, Append(h, r))
         /\ Append(h, r) # <<>>
         /\ Range(Append(h, r)) = Range(h) \cup {r}
<1>1. h \in Seq(Record) /\ Len(h) \in Nat
  BY DEF History
<1>2. /\ Append(h, r) \in Seq(Record)
      /\ Len(Append(h, r)) = Len(h) + 1
      /\ \A k \in 1..Len(h) : Append(h, r)[k] = h[k]
      /\ Append(h, r)[Len(h) + 1] = r
  BY <1>1
<1>3. Append(h, r) \in History
  BY <1>1, <1>2, CopiesAssumption DEF History
<1>4. IsPrefix(h, Append(h, r))
  BY <1>1, <1>2 DEF IsPrefix
<1>5. Append(h, r) # <<>>
  BY <1>1, <1>2
<1>6. Range(Append(h, r)) = Range(h) \cup {r}
  <2>1. DOMAIN h = 1..Len(h) /\ DOMAIN Append(h, r) = 1..(Len(h) + 1)
    BY <1>1, <1>2
  <2> QED
    BY <1>1, <1>2, <2>1 DEF Range
<1> QED
  BY <1>3, <1>4, <1>5, <1>6

-----------------------------------------------------------------------------
(* The inductive invariant.                                                *)

(* A running backup has copied the ledger as it is; a running restore of a *)
(* backup has brought over all it has met.                                 *)
JobSound(w) ==
  LET j == job[w]
  IN  /\ j.kind = "backup" => \A i \in Ids \ j.todo : j.copy[i] = ledgers[w][i]
      /\ j.kind \in {"listed", "restore"} =>
           /\ j.source \in Source
           /\ j.source[1] = "backup" => j.source[2] \in backups
           /\ ~LiveSource => j.source[1] = "backup"
      /\ j.kind = "listed" /\ j.source[1] = "backup" =>
           Tasks(j.source[2]) \subseteq j.todo
      /\ j.kind = "restore" /\ j.source[1] = "backup" =>
           \A i \in Tasks(j.source[2]) \ j.todo : ledgers[w][i] = j.source[2][i]

JobsSound == \A w \in Workspaces : JobSound(w)

IInv == TypeOK /\ JobsSound

(* Nothing from an identifier above a missing one leads to the missing one:*)
(* some set that dependencies do not leave has all those identifiers and   *)
(* not the missing one.                                                    *)
Closed(led, C) == C \subseteq Ids /\ \A j \in C : Deps(led, j) \subseteq C

Guarded(led) ==
  \A g \in Ids \ Tasks(led) : \E C \in SUBSET Ids :
    Closed(led, C) /\ g \notin C /\ \A x \in Ids : x > g => x \in C

Sound(led) == Acyclic(led) /\ Guarded(led)

AllSound ==
  /\ \A w \in Workspaces : Sound(ledgers[w])
  /\ \A b \in backups : Sound(b)

-----------------------------------------------------------------------------
(* Dependencies and what they lead to.                                     *)

(* Dependencies are identifiers, and a missing task has none.              *)
LEMMA DepsType ==
  ASSUME NEW led \in Ledger, NEW i \in Ids
  PROVE  /\ Deps(led, i) \subseteq Ids
         /\ i \notin Tasks(led) => Deps(led, i) = {}
<1>1. led[i] \in Seq(Record)
  BY DEF Ledger, History
<1>2. Range(led[i]) \subseteq Record
  BY <1>1 DEF Range
<1>3. led[i] = <<>> => Range(led[i]) = {}
  BY DEF Range
<1> QED
  BY <1>2, <1>3 DEF Deps, Record, Tasks

Extended(led, i, r) == [led EXCEPT ![i] = Append(led[i], r)]

(* A record appended to a task adds its dependency and no other.           *)
LEMMA DepsOfAppend ==
  ASSUME NEW led \in Ledger, NEW i \in Ids, NEW r \in Record, Len(led[i]) < MaxVersion
  PROVE  /\ Extended(led, i, r) \in Ledger
         /\ Tasks(Extended(led, i, r)) = Tasks(led) \cup {i}
         /\ Deps(Extended(led, i, r), i) = Deps(led, i) \cup ({r.dep} \ {None})
         /\ \A j \in Ids \ {i} : Deps(Extended(led, i, r), j) = Deps(led, j)
<1>1. led[i] \in History
  BY DEF Ledger
<1>2. /\ Append(led[i], r) \in History
      /\ Append(led[i], r) # <<>>
      /\ Range(Append(led[i], r)) = Range(led[i]) \cup {r}
  BY <1>1, AppendType
<1>3. /\ Extended(led, i, r) \in Ledger
      /\ Extended(led, i, r)[i] = Append(led[i], r)
      /\ \A j \in Ids \ {i} : Extended(led, i, r)[j] = led[j]
  BY <1>2 DEF Ledger, Extended
<1>4. Tasks(Extended(led, i, r)) = Tasks(led) \cup {i}
  BY <1>2, <1>3 DEF Tasks
<1>5. Deps(Extended(led, i, r), i) = Deps(led, i) \cup ({r.dep} \ {None})
  BY <1>2, <1>3 DEF Deps
<1>6. \A j \in Ids \ {i} : Deps(Extended(led, i, r), j) = Deps(led, j)
  BY <1>3 DEF Deps
<1> QED
  BY <1>3, <1>4, <1>5, <1>6

(* A create or an update, with the search of AddDependency if it adds one, *)
(* keeps a sound ledger sound: a search that succeeds met no missing task. *)
LEMMA CommitSound ==
  ASSUME NEW led \in Ledger, Sound(led), NEW i \in Ids, NEW r \in Record,
         Len(led[i]) < MaxVersion,
         r.dep = None \/ NoPath(led, r.dep, i)
  PROVE  Sound(Extended(led, i, r))
<1> DEFINE new == Extended(led, i, r)
<1>1. /\ Tasks(new) = Tasks(led) \cup {i}
      /\ Deps(new, i) = Deps(led, i) \cup ({r.dep} \ {None})
      /\ \A j \in Ids \ {i} : Deps(new, j) = Deps(led, j)
  BY DepsOfAppend
<1>2. \A j \in Ids : j \notin Tasks(led) => Deps(led, j) = {}
  BY DepsType
<1>3. PICK V \in SUBSET Tasks(led) :
        /\ r.dep # None => r.dep \in V /\ i \notin V
        /\ r.dep = None => V = {}
        /\ \A j \in V : Deps(led, j) \subseteq V
  <2>1. CASE r.dep = None
    BY <2>1
  <2>2. CASE r.dep # None
    BY <2>2 DEF NoPath
  <2> QED BY <2>1, <2>2
<1>4. V \subseteq Ids /\ Tasks(led) \subseteq Ids
  BY DEF Tasks
<1> HIDE DEF new
<1>5. Acyclic(new)
  <2> SUFFICES ASSUME NEW Z \in SUBSET Tasks(new), Z # {},
                      \A j \in Z : Deps(new, j) \cap Z # {}
               PROVE  FALSE
    BY DEF Acyclic
  <2>1. CASE Z \cap V # {}
    <3>1. \A j \in Z \cap V : Deps(led, j) \cap (Z \cap V) # {}
      BY <1>1, <1>3, <1>4
    <3>2. Z \cap V \in SUBSET Tasks(led)
      BY <1>3
    <3> QED BY <2>1, <3>1, <3>2 DEF Sound, Acyclic
  <2>2. CASE Z \cap V = {}
    <3>1. ASSUME NEW j \in Z
          PROVE  Deps(led, j) \cap Z # {}
      <4>1. j \in Ids /\ ({r.dep} \ {None}) \cap Z = {}
        BY <1>1, <1>3, <1>4, <2>2
      <4>2. Deps(new, j) \subseteq Deps(led, j) \cup ({r.dep} \ {None})
        BY <1>1, <4>1
      <4> QED BY <4>1, <4>2
    <3>2. Z \in SUBSET Tasks(led)
      BY <1>1, <1>2, <1>4, <3>1
    <3> QED BY <3>1, <3>2 DEF Sound, Acyclic
  <2> QED BY <2>1, <2>2
<1>6. Guarded(new)
  <2> SUFFICES ASSUME NEW g \in Ids \ Tasks(new)
               PROVE  \E C \in SUBSET Ids : /\ Closed(new, C)
                                            /\ g \notin C
                                            /\ \A x \in Ids : x > g => x \in C
    BY DEF Guarded
  <2>1. g \in Ids \ Tasks(led)
    BY <1>1
  <2>2. PICK C \in SUBSET Ids : /\ Closed(led, C)
                                /\ g \notin C
                                /\ \A x \in Ids : x > g => x \in C
    BY <2>1 DEF Sound, Guarded
  <2>3. Closed(new, C \cup V)
    BY <1>1, <1>3, <1>4, <2>2 DEF Closed
  <2>4. g \notin C \cup V
    BY <2>1, <2>2
  <2> QED BY <1>4, <2>2, <2>3, <2>4
<1> QED
  BY <1>5, <1>6 DEF Sound, new

(* What can be reached from i in a ledger.                                 *)
Reach(led, i) == {x \in Ids : \A C \in SUBSET Ids : Closed(led, C) /\ i \in C => x \in C}

(* The reachable set is the least one dependencies do not leave.           *)
LEMMA ReachType ==
  ASSUME NEW led \in Ledger, NEW i \in Ids
  PROVE  /\ Reach(led, i) \subseteq Ids
         /\ i \in Reach(led, i)
         /\ Closed(led, Reach(led, i))
<1>1. \A j \in Ids : Deps(led, j) \subseteq Ids
  BY DepsType
<1>2. ASSUME NEW j \in Reach(led, i), NEW d \in Deps(led, j)
      PROVE  d \in Reach(led, i)
  <2>1. j \in Ids /\ d \in Ids
    BY <1>1 DEF Reach
  <2>2. ASSUME NEW C \in SUBSET Ids, Closed(led, C), i \in C
        PROVE  d \in C
    <3>1. j \in C
      BY <2>2 DEF Reach
    <3> QED BY <2>2, <3>1 DEF Closed
  <2> QED BY <2>1, <2>2 DEF Reach
<1> QED
  BY <1>2 DEF Reach, Closed

(* In a sound ledger, what is reached below i is a task.                   *)
LEMMA ReachBelow ==
  ASSUME NEW led \in Ledger, Sound(led), NEW i \in Ids
  PROVE  \A x \in Reach(led, i) : x < i => x \in Tasks(led)
<1> SUFFICES ASSUME NEW x \in Reach(led, i), x < i, x \notin Tasks(led)
             PROVE  FALSE
  OBVIOUS
<1>1. x \in Ids \ Tasks(led)
  BY DEF Reach
<1>2. PICK C \in SUBSET Ids : /\ Closed(led, C)
                              /\ x \notin C
                              /\ \A y \in Ids : y > x => y \in C
  BY <1>1 DEF Sound, Guarded
<1>3. i \in C
  BY <1>1, <1>2, CopiesAssumption
<1> QED
  BY <1>2, <1>3 DEF Reach

Installed(led, i, source) == [led EXCEPT ![i] = source[i]]

(* Installing a task that is missing keeps a sound ledger sound, if the    *)
(* tasks of the source that sort before it are there as the source has     *)
(* them.  This is where the order of a restore matters.                    *)
LEMMA InstallSound ==
  ASSUME NEW led \in Ledger, Sound(led), NEW src \in Ledger, Sound(src),
         NEW i \in Ids, i \notin Tasks(led),
         \A j \in Tasks(src) : j < i => led[j] = src[j]
  PROVE  Sound(Installed(led, i, src))
<1> DEFINE new == Installed(led, i, src)
           F == {x \in Reach(src, i) : x <= i}
<1>1. /\ Deps(new, i) = Deps(src, i)
      /\ \A j \in Ids \ {i} : Deps(new, j) = Deps(led, j)
      /\ Tasks(new) \subseteq Tasks(led) \cup {i}
      /\ Tasks(led) \subseteq Tasks(new)
  BY DEF Installed, Ledger, Deps, Tasks
<1>2. /\ Tasks(led) \subseteq Ids
      /\ \A j \in Ids : Deps(led, j) \subseteq Ids /\ Deps(src, j) \subseteq Ids
  BY DepsType DEF Tasks
<1>3. /\ Reach(src, i) \subseteq Ids
      /\ i \in Reach(src, i)
      /\ \A j \in Reach(src, i) : Deps(src, j) \subseteq Reach(src, i)
  BY ReachType DEF Closed
<1>4. \A j \in F \ {i} : j \in Tasks(src) /\ j \in Tasks(led) /\ j < i
  <2> SUFFICES ASSUME NEW j \in F \ {i}
               PROVE  j \in Tasks(src) /\ j \in Tasks(led) /\ j < i
    OBVIOUS
  <2>1. j \in Reach(src, i) /\ j < i /\ j \in Ids
    <3>1. j \in Reach(src, i) /\ j <= i /\ j # i
      OBVIOUS
    <3>2. j \in Nat /\ i \in Nat /\ j \in Ids
      BY <1>3, <3>1, CopiesAssumption
    <3> QED BY <3>1, <3>2
  <2>2. j \in Tasks(src)
    BY <2>1, ReachBelow
  <2> QED BY <2>1, <2>2 DEF Tasks
<1>5. \A j \in F : Deps(new, j) = Deps(src, j)
  <2> SUFFICES ASSUME NEW j \in F
               PROVE  Deps(new, j) = Deps(src, j)
    OBVIOUS
  <2>1. CASE j = i
    BY <1>1, <2>1
  <2>2. CASE j # i
    <3>1. led[j] = src[j] /\ j \in Ids
      BY <1>3, <1>4, <2>2
    <3>2. Deps(led, j) = Deps(src, j)
      BY <3>1 DEF Deps
    <3> QED BY <1>1, <2>2, <3>1, <3>2
  <2> QED BY <2>1, <2>2
<1>6. PICK A \in SUBSET Ids : /\ Closed(led, A)
                              /\ i \notin A
                              /\ \A x \in Ids : x > i => x \in A
  BY DEF Sound, Guarded
<1>7. \A x \in Ids : x \in F \/ x \in A \/ x \notin Reach(src, i)
  BY <1>6, CopiesAssumption
<1> HIDE DEF new, F
<1>8. F \subseteq Reach(src, i) /\ i \in F
  BY <1>3, CopiesAssumption DEF F
<1>9. Acyclic(new)
  <2> SUFFICES ASSUME NEW Z \in SUBSET Tasks(new), Z # {},
                      \A j \in Z : Deps(new, j) \cap Z # {}
               PROVE  FALSE
    BY DEF Acyclic
  <2>1. Z \subseteq Ids
    BY <1>1, <1>2
  <2>2. CASE Z \cap A # {}
    <3>1. Z \cap A \in SUBSET Tasks(led)
      BY <1>1, <1>6
    <3>2. \A j \in Z \cap A : Deps(led, j) \cap (Z \cap A) # {}
      BY <1>1, <1>6, <2>1 DEF Closed
    <3> QED BY <2>2, <3>1, <3>2 DEF Sound, Acyclic
  <2>3. CASE Z \cap A = {} /\ i \in Z
    <3>1. \A j \in Z \cap F : Deps(src, j) \cap (Z \cap F) # {}
      BY <1>2, <1>3, <1>5, <1>7, <1>8, <2>1, <2>3
    <3>2. i \in Tasks(src)
      BY <1>8, <2>3, <3>1, DepsType
    <3>3. Z \cap F \in SUBSET Tasks(src)
      BY <1>4, <3>2
    <3> QED BY <1>8, <2>3, <3>1, <3>3 DEF Sound, Acyclic
  <2>4. CASE i \notin Z
    <3>1. Z \in SUBSET Tasks(led)
      BY <1>1, <2>4
    <3>2. \A j \in Z : Deps(led, j) \cap Z # {}
      BY <1>1, <2>1, <2>4
    <3> QED BY <3>1, <3>2 DEF Sound, Acyclic
  <2> QED BY <2>2, <2>3, <2>4
<1>10. Guarded(new)
  <2> SUFFICES ASSUME NEW g \in Ids \ Tasks(new)
               PROVE  \E C \in SUBSET Ids : /\ Closed(new, C)
                                            /\ g \notin C
                                            /\ \A x \in Ids : x > g => x \in C
    BY DEF Guarded
  <2>1. g \in Ids \ Tasks(led)
    BY <1>1
  <2>2. PICK C \in SUBSET Ids : /\ Closed(led, C)
                                /\ g \notin C
                                /\ \A x \in Ids : x > g => x \in C
    BY <2>1 DEF Sound, Guarded
  <2>3. CASE g < i
    <3>1. ASSUME NEW j \in F, NEW d \in Deps(new, j)
          PROVE  d \in C \cup F
      <4>1. d \in Reach(src, i) /\ d \in Ids
        BY <1>3, <1>5, <1>8
      <4>2. d <= i \/ d > g
        BY <2>3, <4>1, CopiesAssumption
      <4> QED BY <2>2, <4>1, <4>2 DEF F
    <3>2. Closed(new, C \cup F)
      BY <1>1, <1>3, <1>8, <2>2, <3>1 DEF Closed
    <3>3. g \notin F
      BY <1>4, <2>1, <2>3, CopiesAssumption
    <3> QED BY <1>3, <1>8, <2>2, <3>2, <3>3
  <2>4. CASE g > i
    <3>1. Closed(new, C \cap A)
      BY <1>1, <1>6, <2>2 DEF Closed
    <3>2. \A x \in Ids : x > g => x \in C \cap A
      BY <1>6, <2>2, <2>4, CopiesAssumption
    <3> QED BY <2>2, <3>1, <3>2
  <2>5. CASE g = i
    <3>1. Closed(new, A)
      BY <1>1, <1>6 DEF Closed
    <3> QED BY <1>6, <2>5, <3>1
  <2> QED BY <2>1, <2>3, <2>4, <2>5, CopiesAssumption
<1> QED
  BY <1>9, <1>10 DEF Sound, new

-----------------------------------------------------------------------------
(* The inductive invariant holds.                                          *)

(* It holds of empty ledgers without jobs.                                 *)
LEMMA InitIInv == Init => IInv
<1> SUFFICES ASSUME Init PROVE IInv
  OBVIOUS
<1>1. TypeOK
  BY EmptyType, IdleType DEF Init, TypeOK
<1>2. JobsSound
  BY DEF Init, JobsSound, JobSound, Idle
<1> QED
  BY <1>1, <1>2 DEF IInv

(* A step that touches no backup and no ledger that a job has copied from  *)
(* or into keeps every job sound.                                          *)
LEMMA CommitIInv ==
  ASSUME IInv, NEW w \in Workspaces, NEW i \in Ids, NEW d \in Ids \cup {None},
         ~Locked(w), Len(ledgers[w][i]) < MaxVersion, Commit(w, i, d)
  PROVE  IInv'
<1> DEFINE r == [by |-> w, dep |-> d]
<1>1. r \in Record /\ ledgers[w] \in Ledger /\ ledgers[w][i] \in History
  BY DEF IInv, TypeOK, Record, Ledger
<1>2. Append(ledgers[w][i], r) \in History
  BY <1>1, AppendType
<1>3. TypeOK'
  BY <1>1, <1>2 DEF IInv, TypeOK, Commit, Ledger
<1>4. \A x \in Workspaces : x # w => ledgers'[x] = ledgers[x]
  BY DEF IInv, TypeOK, Commit
<1>5. JobsSound'
  BY <1>4 DEF IInv, TypeOK, JobsSound, JobSound, Commit, Locked
<1> QED
  BY <1>3, <1>5 DEF IInv

(* Creates and updates keep it.                                            *)
LEMMA WriteIInv ==
  ASSUME IInv, NEW w \in Workspaces, Write(w)
  PROVE  IInv'
<1>1. ASSUME NEW i \in Ids, Create(w, i)
      PROVE  IInv'
  <2>1. Len(ledgers[w][i]) < MaxVersion
    BY <1>1, CopiesAssumption DEF Create, Tasks
  <2> QED BY <1>1, <2>1, CommitIInv DEF Create
<1>2. ASSUME NEW i \in Ids, Update(w, i)
      PROVE  IInv'
  BY <1>2, CommitIInv DEF Update, Updatable
<1>3. ASSUME NEW i \in Ids, NEW d \in Ids, AddDependency(w, i, d)
      PROVE  IInv'
  BY <1>3, CommitIInv DEF AddDependency, Updatable
<1> QED
  BY <1>1, <1>2, <1>3 DEF Write

(* A job that changes while no ledger does.                                *)
LEMMA JobIInv ==
  ASSUME IInv, NEW w \in Workspaces, NEW j \in Job, Set(w, j), ledgers' = ledgers,
         backups \subseteq backups', backups' \subseteq Ledger,
         j.kind = "idle" => j = Idle, JobSound(w)'
  PROVE  IInv'
<1>1. /\ job' \in [Workspaces -> Job]
      /\ job'[w] = j
      /\ \A x \in Workspaces : x # w => job'[x] = job[x]
  BY DEF IInv, TypeOK, Set
<1>2. TypeOK'
  BY <1>1 DEF IInv, TypeOK
<1>3. JobsSound'
  BY <1>1 DEF IInv, JobsSound, JobSound
<1> QED
  BY <1>2, <1>3 DEF IInv

(* A job that ends leaves nothing to be sound.                             *)
LEMMA IdleIInv ==
  ASSUME IInv, NEW w \in Workspaces, Set(w, Idle), ledgers' = ledgers,
         backups \subseteq backups', backups' \subseteq Ledger
  PROVE  IInv'
<1>1. JobSound(w)'
  BY DEF IInv, TypeOK, Set, JobSound, Idle
<1> QED
  BY <1>1, JobIInv, IdleType

(* The steps of a backup keep it.                                          *)
LEMMA BackupIInv ==
  ASSUME IInv, NEW w \in Workspaces, Backup(w)
  PROVE  IInv'
<1> USE DEF IInv, TypeOK
<1>1. ASSUME StartBackup(w)
      PROVE  IInv'
  <2> DEFINE j == [Idle EXCEPT !.kind = "backup", !.todo = Tasks(ledgers[w])]
  <2>1. /\ j \in Job
        /\ j.kind = "backup" /\ j.todo = Tasks(ledgers[w]) /\ j.copy = Empty
    BY IdleType DEF Job, Idle, Tasks
  <2>2. Set(w, j) /\ ledgers' = ledgers /\ backups' = backups
    BY <1>1 DEF StartBackup
  <2>3. JobSound(w)'
    BY <2>1, <2>2 DEF Set, JobSound, Empty, Tasks
  <2> QED BY <2>1, <2>2, <2>3, JobIInv
<1>2. ASSUME CopyTask(w)
      PROVE  IInv'
  <2> DEFINE i == Min(job[w].todo)
             j == [job[w] EXCEPT !.todo = @ \ {i}, !.copy[i] = ledgers[w][i]]
  <2>1. job[w] \in Job /\ job[w].kind = "backup" /\ i \in Ids
    BY <1>2, MinIsLeast DEF CopyTask, Job
  <2>2. /\ j \in Job
        /\ j.kind = "backup"
        /\ j.todo = job[w].todo \ {i}
        /\ j.copy = [job[w].copy EXCEPT ![i] = ledgers[w][i]]
    <3> DEFINE c == [job[w].copy EXCEPT ![i] = ledgers[w][i]]
    <3>1. c \in Ledger
      BY <2>1 DEF Job, Ledger
    <3>2. j = [job[w] EXCEPT !.todo = @ \ {i}, !.copy = c]
      BY <2>1 DEF Job
    <3> HIDE DEF j, c
    <3>3. /\ j \in Job
          /\ j.kind = "backup"
          /\ j.todo = job[w].todo \ {i}
          /\ j.copy = c
      BY <2>1, <3>1, <3>2 DEF Job
    <3> QED BY <3>3 DEF c
  <2>3. Set(w, j) /\ ledgers' = ledgers /\ backups' = backups
    BY <1>2 DEF CopyTask
  <2>4. \A k \in Ids \ job[w].todo : job[w].copy[k] = ledgers[w][k]
    BY <2>1 DEF JobsSound, JobSound
  <2>5. job'[w] = j
    BY <2>3 DEF Set
  <2>6. JobSound(w)'
    <3>1. \A k \in Ids \ j.todo : j.copy[k] = ledgers'[w][k]
      BY <2>1, <2>2, <2>3, <2>4 DEF Job, Ledger
    <3> HIDE DEF j
    <3> QED BY <2>2, <2>5, <3>1 DEF JobSound
  <2> QED BY <2>2, <2>3, <2>6, JobIInv
<1>3. ASSUME FinishBackup(w)
      PROVE  IInv'
  <2>1. job[w].copy \in Ledger
    BY DEF Job
  <2> QED BY <1>3, <2>1, IdleIInv DEF FinishBackup
<1> QED
  BY <1>1, <1>2, <1>3 DEF Backup

(* The source a job reads is a ledger.                                     *)
LEMMA RestoreRead ==
  ASSUME IInv, NEW w \in Workspaces, job[w].kind \in {"listed", "restore"}
  PROVE  /\ Read(job[w].source) \in Ledger
         /\ job[w].source[1] = "backup" => Read(job[w].source) = job[w].source[2]
  BY ReadType DEF IInv, JobsSound, JobSound, Source, Read

(* The loop of a restore is done with a task that is there as the source   *)
(* has it.                                                                 *)
LEMMA DoneIInv ==
  ASSUME IInv, NEW w \in Workspaces, NEW i \in Ids,
         Meets(w, i), Done(w, i), UNCHANGED backups,
         ledgers' \in [Workspaces -> Ledger],
         ledgers'[w][i] = Read(job[w].source)[i],
         \A x \in Workspaces, k \in Ids :
           x # w \/ k # i => ledgers'[x][k] = ledgers[x][k]
  PROVE  IInv'
<1> DEFINE j == [job[w] EXCEPT !.todo = @ \ {i}]
<1>1. /\ job[w] \in Job /\ job[w].kind = "restore"
      /\ job \in [Workspaces -> Job]
      /\ ledgers \in [Workspaces -> Ledger]
  BY DEF IInv, TypeOK, Meets
<1>2. /\ j \in Job
      /\ j.kind = "restore" /\ j.source = job[w].source /\ j.todo = job[w].todo \ {i}
  BY <1>1 DEF Job
<1> HIDE DEF j
<1>3. /\ job' \in [Workspaces -> Job]
      /\ job'[w] = j
      /\ \A x \in Workspaces : x # w => job'[x] = job[x]
  BY <1>1, <1>2 DEF Done, Set, j
<1>4. \A x \in Workspaces : x # w => ledgers'[x] = ledgers[x]
  BY <1>1 DEF Ledger
<1>5. TypeOK'
  BY <1>2, <1>3 DEF IInv, TypeOK
<1>6. JobSound(w)'
  <2>1. JobSound(w)
    BY DEF IInv, JobsSound
  <2>2. ASSUME j.source[1] = "backup", NEW k \in Tasks(j.source[2]) \ j.todo
        PROVE  ledgers'[w][k] = j.source[2][k]
    <3>1. Read(job[w].source) = j.source[2]
      BY <1>1, <1>2, <2>2, RestoreRead
    <3>2. k \in Ids
      BY DEF Tasks
    <3>3. k # i => ledgers[w][k] = j.source[2][k]
      BY <1>1, <1>2, <2>1, <2>2 DEF JobSound
    <3> QED BY <3>1, <3>2, <3>3
  <2> QED BY <1>1, <1>2, <1>3, <2>1, <2>2 DEF JobSound
<1>7. JobsSound'
  BY <1>3, <1>4, <1>6 DEF IInv, JobsSound, JobSound
<1> QED
  BY <1>5, <1>7 DEF IInv

(* The steps of a restore keep it.                                         *)
LEMMA RestoreIInv ==
  ASSUME IInv, NEW w \in Workspaces, Restore(w)
  PROVE  IInv'
<1>1. ASSUME ListSource(w)
      PROVE  IInv'
  <2>1. PICK s \in Sources(w) :
          Set(w, [Idle EXCEPT !.kind = "listed", !.source = s, !.todo = Tasks(Read(s))])
    BY <1>1 DEF ListSource
  <2> DEFINE j == [Idle EXCEPT !.kind = "listed", !.source = s, !.todo = Tasks(Read(s))]
  <2>2. /\ s \in Source
        /\ s[1] = "backup" => s[2] \in backups /\ Read(s) = s[2]
        /\ ~LiveSource => s[1] = "backup"
    BY DEF Sources, Source, Read, IInv, TypeOK
  <2>3. /\ j \in Job
        /\ j.kind = "listed" /\ j.source = s /\ j.todo = Tasks(Read(s))
    BY <2>2, IdleType DEF Job, Idle, Tasks
  <2>4. Set(w, j) /\ ledgers' = ledgers /\ backups' = backups
    BY <1>1, <2>1 DEF ListSource
  <2> HIDE DEF j
  <2>5. job'[w] = j
    BY <2>4 DEF Set, IInv, TypeOK
  <2>6. JobSound(w)'
    BY <2>2, <2>3, <2>4, <2>5 DEF JobSound
  <2>7. backups \subseteq Ledger
    BY DEF IInv, TypeOK
  <2> QED BY <2>3, <2>4, <2>6, <2>7, JobIInv
<1>2. ASSUME LockDestination(w)
      PROVE  IInv'
  <2> DEFINE j == [job[w] EXCEPT !.kind = "restore"]
  <2>1. job[w] \in Job /\ job[w].kind = "listed"
    BY <1>2 DEF IInv, TypeOK, LockDestination
  <2>2. /\ j \in Job
        /\ j.kind = "restore" /\ j.source = job[w].source /\ j.todo = job[w].todo
    BY <2>1 DEF Job
  <2>3. Set(w, j) /\ ledgers' = ledgers /\ backups' = backups
    BY <1>2 DEF LockDestination
  <2> HIDE DEF j
  <2>4. job'[w] = j
    BY <2>3 DEF Set, IInv, TypeOK
  <2>5. JobSound(w)'
    BY <2>1, <2>2, <2>3, <2>4 DEF IInv, JobsSound, JobSound
  <2>6. backups \subseteq Ledger
    BY DEF IInv, TypeOK
  <2> QED BY <2>2, <2>3, <2>5, <2>6, JobIInv
<1>3. ASSUME FinishRestore(w)
      PROVE  IInv'
  BY <1>3, IdleIInv DEF FinishRestore, IInv, TypeOK
<1>4. ASSUME NEW i \in Ids, Install(w, i)
      PROVE  IInv'
  <2>1. Read(job[w].source)[i] \in History
    BY <1>4, RestoreRead DEF Install, Meets, Ledger
  <2>2. /\ ledgers' \in [Workspaces -> Ledger]
        /\ ledgers'[w][i] = Read(job[w].source)[i]
        /\ \A x \in Workspaces, k \in Ids :
             x # w \/ k # i => ledgers'[x][k] = ledgers[x][k]
    BY <1>4, <2>1 DEF Install, IInv, TypeOK, Ledger
  <2> QED BY <1>4, <2>2, DoneIInv DEF Install
<1>5. ASSUME NEW i \in Ids, SkipIdentical(w, i)
      PROVE  IInv'
  BY <1>5, DoneIInv DEF SkipIdentical, Same, IInv, TypeOK
<1>6. ASSUME NEW i \in Ids, Conflict(w, i)
      PROVE  IInv'
  BY <1>6, IdleIInv DEF Conflict, IInv, TypeOK
<1> QED
  BY <1>1, <1>2, <1>3, <1>4, <1>5, <1>6 DEF Restore

(* Every step keeps it.                                                    *)
LEMMA NextIInv == IInv /\ [Next]_vars => IInv'
<1> SUFFICES ASSUME IInv, [Next]_vars
             PROVE  IInv'
  OBVIOUS
<1>1. ASSUME NEW w \in Workspaces, Write(w)
      PROVE  IInv'
  BY <1>1, WriteIInv
<1>2. ASSUME NEW w \in Workspaces, Backup(w)
      PROVE  IInv'
  BY <1>2, BackupIInv
<1>3. ASSUME NEW w \in Workspaces, Restore(w)
      PROVE  IInv'
  BY <1>3, RestoreIInv
<1>4. ASSUME NEW w \in Workspaces, Abort(w)
      PROVE  IInv'
  BY <1>4, IdleIInv DEF Abort, IInv, TypeOK
<1>5. CASE UNCHANGED vars
  BY <1>5 DEF vars, IInv, TypeOK, JobsSound, JobSound
<1> QED
  BY <1>1, <1>2, <1>3, <1>4, <1>5 DEF Next

(* Every job in progress is sound, and every ledger, backup and job has its*)
(* type: the invariant the other theorems rest on.                         *)
THEOREM JobsStaySound == Spec => []IInv
  BY InitIInv, NextIInv, PTL DEF Spec

(* Type correctness: no restore or update goes beyond the last version     *)
(* (tasks.rs:971), and no job leaves anything behind.                      *)
THEOREM CopiesTypeCorrect == Spec => []TypeOK
<1>1. IInv => TypeOK
  BY DEF IInv
<1> QED
  BY <1>1, JobsStaySound, PTL

-----------------------------------------------------------------------------
(* What a step may do to the histories.                                    *)

(* A history is a prefix of itself.                                        *)
LEMMA PrefixSelf ==
  ASSUME NEW h \in History
  PROVE  IsPrefix(h, h)
  BY DEF History, IsPrefix

(* No history is a prefix of any.                                          *)
LEMMA PrefixEmpty ==
  ASSUME NEW h \in History
  PROVE  IsPrefix(<<>>, h)
  BY DEF History, IsPrefix

(* The record a write commits is appended to one history.                  *)
LEMMA CommitExtends ==
  ASSUME IInv, NEW w \in Workspaces, NEW i \in Ids, NEW d \in Ids \cup {None},
         Len(ledgers[w][i]) < MaxVersion, Commit(w, i, d)
  PROVE  \A x \in Workspaces, k \in Ids : IsPrefix(ledgers[x][k], ledgers'[x][k])
<1> SUFFICES ASSUME NEW x \in Workspaces, NEW k \in Ids
             PROVE  IsPrefix(ledgers[x][k], ledgers'[x][k])
  OBVIOUS
<1>1. /\ ledgers \in [Workspaces -> [Ids -> History]]
      /\ ledgers[x][k] \in History
  BY DEF IInv, TypeOK, Ledger
<1>2. CASE x = w /\ k = i
  <2>1. [by |-> w, dep |-> d] \in Record
    BY DEF Record
  <2>2. ledgers'[x][k] = Append(ledgers[x][k], [by |-> w, dep |-> d])
    BY <1>1, <1>2 DEF Commit
  <2> QED BY <1>1, <1>2, <2>1, <2>2, AppendType
<1>3. CASE ~(x = w /\ k = i)
  <2>1. ledgers'[x][k] = ledgers[x][k]
    BY <1>1, <1>3 DEF Commit
  <2> QED BY <1>1, <2>1, PrefixSelf
<1> QED
  BY <1>2, <1>3

(* Whatever any job or writer does, a committed history only grows: a      *)
(* restore never overwrites a task (tasks.rs:1166-1175).                   *)
THEOREM NeverOverwritten == Spec => NothingOverwritten
<1> DEFINE Grows == \A w \in Workspaces : \A i \in Ids :
                      IsPrefix(ledgers[w][i], ledgers'[w][i])
<1>1. IInv /\ [Next]_vars => [Grows]_vars
  <2> SUFFICES ASSUME IInv, NEW w \in Workspaces,
                      Write(w) \/ Backup(w) \/ Restore(w) \/ Abort(w)
               PROVE  Grows
    BY DEF Next
  <2>1. \A x \in Workspaces, k \in Ids : ledgers[x][k] \in History
    BY DEF IInv, TypeOK, Ledger
  <2>2. CASE ledgers' = ledgers
    BY <2>1, <2>2, PrefixSelf
  <2>3. ASSUME NEW i \in Ids, Create(w, i)
        PROVE  Grows
    <3>1. Len(ledgers[w][i]) < MaxVersion
      BY <2>3, CopiesAssumption DEF Create, Tasks
    <3> QED BY <2>3, <3>1, CommitExtends DEF Create
  <2>4. ASSUME NEW i \in Ids, Update(w, i)
        PROVE  Grows
    BY <2>4, CommitExtends DEF Update, Updatable
  <2>5. ASSUME NEW i \in Ids, NEW d \in Ids, AddDependency(w, i, d)
        PROVE  Grows
    BY <2>5, CommitExtends DEF AddDependency, Updatable
  <2>6. ASSUME NEW i \in Ids, Install(w, i)
        PROVE  Grows
    <3>1. Read(job[w].source)[i] \in History
      BY <2>6, RestoreRead DEF Install, Meets, Ledger
    <3>2. ledgers[w][i] = <<>>
      BY <2>6 DEF Install, Tasks
    <3>3. \A x \in Workspaces, k \in Ids :
            \/ x = w /\ k = i /\ ledgers'[x][k] = Read(job[w].source)[i]
            \/ ledgers'[x][k] = ledgers[x][k]
      BY <2>6 DEF Install, IInv, TypeOK, Ledger
    <3> QED BY <2>1, <3>1, <3>2, <3>3, PrefixSelf, PrefixEmpty
  <2> QED
    BY <2>2, <2>3, <2>4, <2>5, <2>6
    DEF Write, Backup, Restore, StartBackup, CopyTask, FinishBackup, ListSource,
        LockDestination, FinishRestore, SkipIdentical, Conflict, Abort
<1> QED
  BY <1>1, JobsStaySound, PTL DEF Spec, NothingOverwritten

(* A restore that reports success has brought over every task of the       *)
(* backup, whatever earlier interrupted restores and writers left          *)
(* (tasks.rs:1161-1208).                                                   *)
THEOREM SuccessMeansComplete == Spec => SuccessIsComplete
<1> DEFINE Complete == \A w \in Workspaces :
             FinishRestore(w) /\ job[w].source[1] = "backup" =>
               \A i \in Tasks(Read(job[w].source)) : Same(w, i)
<1>1. IInv /\ [Next]_vars => [Complete]_vars
  BY RestoreRead DEF IInv, JobsSound, JobSound, FinishRestore, Same
<1> QED
  BY <1>1, JobsStaySound, PTL DEF Spec, SuccessIsComplete

(* A backup that has copied every task has copied the ledger.              *)
LEMMA FinishedCopy ==
  ASSUME IInv, NEW w \in Workspaces, FinishBackup(w)
  PROVE  job[w].copy = ledgers[w]
<1>1. job[w].copy \in Ledger /\ ledgers[w] \in Ledger
  BY DEF IInv, TypeOK, Job
<1>2. \A i \in Ids : job[w].copy[i] = ledgers[w][i]
  BY DEF IInv, JobsSound, JobSound, FinishBackup
<1> QED
  BY <1>1, <1>2 DEF Ledger

(* A finished backup is the ledger of its workspace at that moment         *)
(* (tasks.rs:1112-1131).                                                   *)
THEOREM BackupsAreSnapshots == Spec => BackupIsSnapshot
<1> DEFINE Snapshot == \A b \in backups' \ backups : \E w \in Workspaces : b = ledgers[w]
<1>1. ASSUME IInv, NEW w \in Workspaces, FinishBackup(w)
      PROVE  job[w].copy = ledgers[w]
  BY <1>1, FinishedCopy
<1>2. IInv /\ [Next]_vars => [Snapshot]_vars
  <2> SUFFICES ASSUME IInv, Next PROVE Snapshot
    BY DEF Snapshot
  <2>1. CASE UNCHANGED backups
    BY <2>1
  <2>2. ASSUME NEW w \in Workspaces, FinishBackup(w)
        PROVE  Snapshot
    BY <1>1, <2>2 DEF FinishBackup
  <2> QED
    BY <2>1, <2>2
    DEF Next, Write, Create, Update, AddDependency, Commit, Backup, Restore, StartBackup,
        CopyTask, ListSource, LockDestination, FinishRestore, Install, SkipIdentical,
        Conflict, Abort
<1> QED
  BY <1>2, JobsStaySound, PTL DEF Spec, BackupIsSnapshot

-----------------------------------------------------------------------------
(* No cycle, if restores read backups.                                     *)

(* Ledgers without tasks have neither cycles nor gaps.                     *)
LEMMA InitSound == Init => AllSound
<1> SUFFICES ASSUME Init PROVE AllSound
  OBVIOUS
<1>1. Tasks(Empty) = {} /\ \A i \in Ids : Deps(Empty, i) = {}
  BY EmptyType, DepsType DEF Tasks, Empty
<1>2. Sound(Empty)
  <2>1. Acyclic(Empty)
    BY <1>1 DEF Acyclic
  <2>2. Guarded(Empty)
    <3> SUFFICES ASSUME NEW g \in Ids
                 PROVE  \E C \in SUBSET Ids : /\ Closed(Empty, C)
                                              /\ g \notin C
                                              /\ \A x \in Ids : x > g => x \in C
      BY DEF Guarded
    <3>1. Closed(Empty, Ids \ {g})
      BY <1>1 DEF Closed
    <3>2. \A x \in Ids : x > g => x \in Ids \ {g}
      BY CopiesAssumption
    <3> QED BY <3>1, <3>2
  <2> QED BY <2>1, <2>2 DEF Sound
<1> QED
  BY <1>2 DEF Init, AllSound

(* Creates and updates keep every ledger sound (CommitSound).              *)
LEMMA CommitAllSound ==
  ASSUME IInv, AllSound, NEW w \in Workspaces, NEW i \in Ids, NEW d \in Ids \cup {None},
         Len(ledgers[w][i]) < MaxVersion, Commit(w, i, d),
         d = None \/ NoPath(ledgers[w], d, i)
  PROVE  AllSound'
<1> DEFINE r == [by |-> w, dep |-> d]
<1>1. r \in Record /\ r.dep = d /\ ledgers[w] \in Ledger
  BY DEF IInv, TypeOK, Record
<1>2. Sound(Extended(ledgers[w], i, r))
  <2>1. Sound(ledgers[w])
    BY DEF AllSound
  <2> HIDE DEF r
  <2> QED BY <1>1, <2>1, CommitSound
<1>3. ledgers'[w] = Extended(ledgers[w], i, r)
  BY DEF Commit, Extended, IInv, TypeOK, Ledger
<1>4. \A x \in Workspaces : x # w => ledgers'[x] = ledgers[x]
  BY DEF Commit, IInv, TypeOK
<1>5. backups' = backups
  BY DEF Commit
<1> HIDE DEF r
<1> QED
  BY <1>2, <1>3, <1>4, <1>5 DEF AllSound

(* So does a restore step, as it meets tasks in order (InstallSound).      *)
LEMMA InstallAllSound ==
  ASSUME ~LiveSource, IInv, AllSound, NEW w \in Workspaces, NEW i \in Ids, Install(w, i)
  PROVE  AllSound'
<1> DEFINE src == Read(job[w].source)
<1>1. job[w].kind = "restore" /\ job[w].todo # {} /\ i = Min(job[w].todo)
  BY DEF Install, Meets
<1>2. src \in Ledger /\ src = job[w].source[2] /\ src \in backups
  BY <1>1, RestoreRead DEF IInv, JobsSound, JobSound
<1>3. \A j \in Tasks(src) : j < i => ledgers[w][j] = src[j]
  <2> SUFFICES ASSUME NEW j \in Tasks(src), j < i
               PROVE  ledgers[w][j] = src[j]
    OBVIOUS
  <2>1. job[w].todo \in SUBSET Ids
    BY DEF IInv, TypeOK, Job
  <2>2. \A x \in job[w].todo : i <= x
    BY <1>1, <2>1, MinIsLeast
  <2>3. j \in Ids
    BY DEF Tasks
  <2>4. j \notin job[w].todo
    BY <2>2, <2>3, CopiesAssumption
  <2>5. JobSound(w)
    BY DEF IInv, JobsSound
  <2> QED BY <1>1, <1>2, <2>4, <2>5 DEF JobSound
<1>4. /\ ledgers'[w] = Installed(ledgers[w], i, src)
      /\ \A x \in Workspaces : x # w => ledgers'[x] = ledgers[x]
      /\ backups' = backups
  BY DEF Install, Installed, IInv, TypeOK, Ledger
<1>5. ledgers[w] \in Ledger /\ i \notin Tasks(ledgers[w])
  BY DEF Install, IInv, TypeOK
<1>6. Sound(ledgers[w]) /\ Sound(src)
  BY <1>2 DEF AllSound
<1> HIDE DEF src
<1>7. Sound(Installed(ledgers[w], i, src))
  BY <1>2, <1>3, <1>5, <1>6, InstallSound
<1> QED
  BY <1>4, <1>7 DEF AllSound

(* Every step keeps ledgers and backups sound.                             *)
LEMMA NextSound ==
  ASSUME ~LiveSource
  PROVE  IInv /\ AllSound /\ [Next]_vars => AllSound'
<1> SUFFICES ASSUME IInv, AllSound, [Next]_vars
             PROVE  AllSound'
  OBVIOUS
<1>1. CASE ledgers' = ledgers /\ backups' = backups
  BY <1>1 DEF AllSound
<1>2. ASSUME NEW w \in Workspaces, NEW i \in Ids, Create(w, i)
      PROVE  AllSound'
  <2>1. Len(ledgers[w][i]) < MaxVersion
    BY <1>2, CopiesAssumption DEF Create, Tasks
  <2> QED BY <1>2, <2>1, CommitAllSound DEF Create
<1>3. ASSUME NEW w \in Workspaces, NEW i \in Ids, Update(w, i)
      PROVE  AllSound'
  BY <1>3, CommitAllSound DEF Update, Updatable
<1>4. ASSUME NEW w \in Workspaces, NEW i \in Ids, NEW d \in Ids, AddDependency(w, i, d)
      PROVE  AllSound'
  BY <1>4, CommitAllSound DEF AddDependency, Updatable
<1>5. ASSUME NEW w \in Workspaces, NEW i \in Ids, Install(w, i)
      PROVE  AllSound'
  BY <1>5, InstallAllSound
<1>6. ASSUME NEW w \in Workspaces, FinishBackup(w)
      PROVE  AllSound'
  <2>1. job[w].copy = ledgers[w]
    BY <1>6, FinishedCopy
  <2> QED BY <1>6, <2>1 DEF FinishBackup, AllSound
<1> QED
  BY <1>1, <1>2, <1>3, <1>4, <1>5, <1>6
  DEF Next, Write, Backup, Restore, StartBackup, CopyTask, ListSource, LockDestination,
      FinishRestore, SkipIdentical, Conflict, Abort, vars

(* Ledgers and backups are always sound.                                   *)
LEMMA AlwaysSound ==
  ASSUME ~LiveSource
  PROVE  Spec => []AllSound
<1>1. Init => AllSound
  BY InitSound
<1>2. IInv /\ AllSound /\ [Next]_vars => AllSound'
  BY NextSound
<1> QED
  BY <1>1, <1>2, JobsStaySound, PTL DEF Spec

(* As long as restores read backups, no ledger ever has a dependency cycle,*)
(* although restore (tasks.rs:1161) checks none and may stop anywhere: the *)
(* sorted order and the search of an update (tasks.rs:919) are enough.     *)
THEOREM CopiesStayAcyclic ==
  ASSUME ~LiveSource
  PROVE  Spec => []DepsAcyclic
<1>1. AllSound => DepsAcyclic
  BY DEF AllSound, Sound, DepsAcyclic
<1> QED
  BY <1>1, AlwaysSound, PTL

(* As long as restores read backups, what is missing sorts after whatever  *)
(* names it, in ledgers and in backups.                                    *)
THEOREM MissingSortsAbove ==
  ASSUME ~LiveSource
  PROVE  Spec => []GapsAbove
<1>1. IInv /\ AllSound => GapsAbove
  <2> SUFFICES ASSUME IInv, AllSound,
                      NEW led \in backups \cup Range(ledgers), NEW i \in Ids,
                      NEW d \in Deps(led, i) \ Tasks(led)
               PROVE  d > i
    BY DEF GapsAbove
  <2>1. led \in Ledger /\ Sound(led)
    BY DEF IInv, TypeOK, AllSound, Range
  <2>2. d \in Ids
    BY <2>1, DepsType
  <2>3. PICK C \in SUBSET Ids : /\ Closed(led, C)
                                /\ d \notin C
                                /\ \A x \in Ids : x > d => x \in C
    BY <2>1, <2>2 DEF Sound, Guarded
  <2>4. i \notin C
    BY <2>3 DEF Closed
  <2>5. i # d
    BY <2>1, DepsType
  <2> QED BY <2>2, <2>3, <2>4, <2>5, CopiesAssumption
<1> QED
  BY <1>1, JobsStaySound, AlwaysSound, PTL

-----------------------------------------------------------------------------
(* Tasks arrive whole.                                                     *)

(* Whoever wrote a record still has a task of that identifier, so that a   *)
(* restore never brings a workspace its own records.                       *)
AuthorsHave ==
  \A led \in backups \cup Range(ledgers), i \in Ids :
    \A n \in DOMAIN led[i] : i \in Tasks(ledgers[led[i][n].by])

(* A history is what arrived, as a backup has it and not ending with a     *)
(* record of this workspace, and then what this workspace wrote.           *)
ArrivedUpTo(w, i, m) ==
  LET h == ledgers[w][i]
  IN  /\ m \in 0..Len(h)
      /\ m # 0 => /\ h[m].by # w
                  /\ \E b \in backups : b[i] = SubSeq(h, 1, m)
      /\ \A n \in DOMAIN h : n > m => h[n].by = w

Arrived ==
  /\ AuthorsHave
  /\ \A w \in Workspaces, i \in Ids : \E m \in Nat : ArrivedUpTo(w, i, m)

(* Nothing has arrived in empty ledgers.                                   *)
LEMMA InitArrived == Init => Arrived
<1> SUFFICES ASSUME Init PROVE Arrived
  OBVIOUS
<1>1. \A w \in Workspaces, i \in Ids : ledgers[w][i] = <<>>
  BY DEF Init, Empty
<1>2. AuthorsHave
  BY <1>1 DEF AuthorsHave, Init, Range
<1>3. \A w \in Workspaces, i \in Ids : ArrivedUpTo(w, i, 0)
  BY <1>1 DEF ArrivedUpTo
<1> QED
  BY <1>2, <1>3 DEF Arrived

(* A step that leaves the ledgers, and adds only such backups as are the   *)
(* ledger of a workspace, keeps it.                                        *)
LEMMA SameArrived ==
  ASSUME Arrived, ledgers' = ledgers, backups \subseteq backups',
         backups' \subseteq backups \cup Range(ledgers)
  PROVE  Arrived'
<1>1. AuthorsHave'
  BY DEF Arrived, AuthorsHave
<1>2. ASSUME NEW w \in Workspaces, NEW i \in Ids, NEW m \in Nat, ArrivedUpTo(w, i, m)
      PROVE  ArrivedUpTo(w, i, m)'
  BY <1>2 DEF ArrivedUpTo
<1> QED
  BY <1>1, <1>2 DEF Arrived

(* A step that gives one task of one workspace another history, be it only *)
(* of records that were in some ledger or backup or are its own.           *)
LEMMA ChangeArrived ==
  ASSUME IInv, Arrived, NEW w \in Workspaces, NEW i \in Ids, NEW h \in History,
         h # <<>>, ledgers' = [ledgers EXCEPT ![w][i] = h], backups' = backups,
         \A n \in DOMAIN h : h[n].by = w \/ i \in Tasks(ledgers[h[n].by]),
         \E m \in Nat : ArrivedUpTo(w, i, m)'
  PROVE  Arrived'
<1>1. /\ ledgers \in [Workspaces -> [Ids -> History]]
      /\ backups \subseteq [Ids -> History]
  BY DEF IInv, TypeOK, Ledger
<1>2. /\ ledgers' \in [Workspaces -> [Ids -> History]]
      /\ ledgers'[w][i] = h
      /\ \A x \in Workspaces, k \in Ids : x # w \/ k # i => ledgers'[x][k] = ledgers[x][k]
  BY <1>1
<1>3. \A x \in Workspaces, k \in Ids : k \in Tasks(ledgers[x]) => k \in Tasks(ledgers'[x])
  BY <1>2 DEF Tasks
<1>4. \A led \in [Ids -> History], k \in Ids : \A n \in DOMAIN led[k] : led[k][n].by \in Workspaces
  <2>1. ASSUME NEW led \in [Ids -> History], NEW k \in Ids, NEW n \in DOMAIN led[k]
        PROVE  led[k][n] \in Record
    <3>1. led[k] \in Seq(Record)
      BY DEF History
    <3> QED BY <3>1
  <2> QED BY <2>1 DEF Record
<1>5. ASSUME NEW led \in backups \cup Range(ledgers'), NEW k \in Ids, NEW n \in DOMAIN led[k]
      PROVE  k \in Tasks(ledgers'[led[k][n].by])
  <2>1. led \in [Ids -> History] /\ led[k][n].by \in Workspaces
    BY <1>1, <1>2, <1>4 DEF Range
  <2>2. CASE led \in backups
    BY <1>3, <2>1, <2>2 DEF Arrived, AuthorsHave
  <2>3. ASSUME NEW x \in Workspaces, led = ledgers'[x], x # w \/ k # i
        PROVE  k \in Tasks(ledgers'[led[k][n].by])
    <3>1. led[k] = ledgers[x][k] /\ ledgers[x] \in Range(ledgers)
      BY <1>1, <1>2, <2>3 DEF Range
    <3> QED BY <1>3, <2>1, <3>1 DEF Arrived, AuthorsHave
  <2>4. CASE led = ledgers'[w] /\ k = i
    <3>1. led[k] = h /\ i \in Tasks(ledgers'[w])
      BY <1>2, <2>4 DEF Tasks
    <3> QED BY <1>3, <2>1, <2>4, <3>1
  <2> QED BY <1>2, <2>2, <2>3, <2>4 DEF Range
<1>6. ASSUME NEW x \in Workspaces, NEW k \in Ids
      PROVE  \E m \in Nat : ArrivedUpTo(x, k, m)'
  <2>1. CASE x # w \/ k # i
    <3>1. ledgers'[x][k] = ledgers[x][k]
      BY <1>2, <2>1
    <3>2. PICK m \in Nat : ArrivedUpTo(x, k, m)
      BY DEF Arrived
    <3>3. ArrivedUpTo(x, k, m)'
      BY <3>1, <3>2 DEF ArrivedUpTo
    <3> QED BY <3>3
  <2> QED BY <2>1
<1> QED
  BY <1>5, <1>6 DEF Arrived, AuthorsHave

(* What is to be shown of a history that has changed.                      *)
LEMMA ArrivedNow ==
  ASSUME NEW w \in Workspaces, NEW i \in Ids, NEW h, NEW m \in Nat,
         ledgers'[w][i] = h, backups' = backups, m \in 0..Len(h),
         m # 0 => h[m].by # w /\ \E b \in backups : b[i] = SubSeq(h, 1, m),
         \A n \in DOMAIN h : n > m => h[n].by = w
  PROVE  \E k \in Nat : ArrivedUpTo(w, i, k)'
<1>1. ArrivedUpTo(w, i, m)'
  BY DEF ArrivedUpTo
<1> QED
  BY <1>1

(* What a workspace writes comes after what arrived.                       *)
LEMMA CommitArrived ==
  ASSUME IInv, Arrived, NEW w \in Workspaces, NEW i \in Ids, NEW d \in Ids \cup {None},
         Len(ledgers[w][i]) < MaxVersion, Commit(w, i, d)
  PROVE  Arrived'
<1> DEFINE r == [by |-> w, dep |-> d]
           h == ledgers[w][i]
           g == Append(h, r)
<1>1. r \in Record /\ r.by = w /\ h \in History /\ ledgers[w] \in Range(ledgers)
  BY DEF Record, IInv, TypeOK, Ledger, Range
<1>2. ledgers' = [ledgers EXCEPT ![w][i] = g] /\ backups' = backups
  BY DEF Commit
<1>3. ledgers'[w][i] = g
  BY <1>2 DEF IInv, TypeOK, Ledger
<1> HIDE DEF r
<1>4. g \in History /\ g # <<>>
  BY <1>1, AppendType
<1>5. /\ h \in Seq(Record) /\ Len(h) \in Nat
      /\ DOMAIN h = 1..Len(h) /\ DOMAIN g = 1..(Len(h) + 1) /\ Len(g) = Len(h) + 1
      /\ \A n \in 1..Len(h) : g[n] = h[n]
      /\ g[Len(h) + 1] = r
  BY <1>1 DEF History
<1>6. \A n \in DOMAIN g : g[n].by = w \/ i \in Tasks(ledgers[g[n].by])
  <2>1. \A n \in DOMAIN h : i \in Tasks(ledgers[h[n].by])
    BY <1>1 DEF Arrived, AuthorsHave
  <2> HIDE DEF g, h
  <2> QED BY <1>1, <1>5, <2>1
<1>7. PICK m \in Nat : ArrivedUpTo(w, i, m)
  BY DEF Arrived
<1> HIDE DEF g
<1>8. \E k \in Nat : ArrivedUpTo(w, i, k)'
  <2>1. m \in 0..Len(g)
    BY <1>5, <1>7 DEF ArrivedUpTo
  <2>2. ASSUME m # 0
        PROVE  g[m].by # w /\ \E b \in backups : b[i] = SubSeq(g, 1, m)
    <3>1. m \in 1..Len(h) /\ h[m].by # w
      BY <1>5, <1>7, <2>2 DEF ArrivedUpTo
    <3>2. PICK b \in backups : b[i] = SubSeq(h, 1, m)
      BY <1>7, <2>2 DEF ArrivedUpTo
    <3>3. SubSeq(g, 1, m) = SubSeq(h, 1, m)
      <4>1. g = h \o <<r>> /\ <<r>> \in Seq(Record)
        BY <1>1, <1>5, AppendIsConcat DEF g
      <4>2. 1 \in 1..Len(h) /\ m \in 1..Len(h)
        BY <1>5, <3>1
      <4> HIDE DEF h
      <4> QED BY <1>5, <4>1, <4>2, SubSeqOfConcat1
    <3> QED BY <1>5, <3>1, <3>2, <3>3
  <2>3. ASSUME NEW n \in DOMAIN g, n > m
        PROVE  g[n].by = w
    <3>1. \A k \in DOMAIN h : k > m => h[k].by = w
      BY <1>7 DEF ArrivedUpTo
    <3>2. n \in DOMAIN h \/ n = Len(h) + 1
      BY <1>5
    <3> HIDE DEF h
    <3> QED BY <1>1, <1>5, <2>3, <3>1, <3>2
  <2> QED BY <1>2, <1>3, <2>1, <2>2, <2>3, ArrivedNow
<1> QED
  BY <1>2, <1>4, <1>6, <1>8, ChangeArrived

(* A restore brings over a whole task of a backup, and none of its own.    *)
LEMMA InstallArrived ==
  ASSUME ~LiveSource, IInv, Arrived, NEW w \in Workspaces, NEW i \in Ids, Install(w, i)
  PROVE  Arrived'
<1> DEFINE src == Read(job[w].source)
           h == src[i]
<1>1. src \in Ledger /\ src \in backups
  BY RestoreRead DEF Install, Meets, IInv, JobsSound, JobSound
<1>2. h \in History /\ ledgers' = [ledgers EXCEPT ![w][i] = h] /\ backups' = backups
  BY <1>1 DEF Ledger, Install
<1>3. ledgers'[w][i] = h
  BY <1>2 DEF IInv, TypeOK, Ledger
<1> HIDE DEF src
<1>4. \A n \in DOMAIN h : i \in Tasks(ledgers[h[n].by])
  BY <1>1 DEF Arrived, AuthorsHave
<1>5. i \notin Tasks(ledgers[w])
  BY DEF Install
<1>6. h \in Seq(Record) /\ Len(h) \in Nat /\ DOMAIN h = 1..Len(h)
  BY <1>2 DEF History
<1>7. SubSeq(h, 1, Len(h)) = h
  BY <1>6, SubSeqFull
<1>8. \A n \in DOMAIN h : h[n].by # w
  BY <1>4, <1>5
<1>9. \E b \in backups : b[i] = SubSeq(h, 1, Len(h))
  BY <1>1, <1>7
<1> HIDE DEF h
<1>10. \E k \in Nat : ArrivedUpTo(w, i, k)'
  <2>1. PICK m \in Nat : m = Len(h)
    BY <1>6
  <2>2. m \in 0..Len(h) /\ \A n \in DOMAIN h : n > m => h[n].by = w
    BY <1>6, <2>1
  <2>3. m # 0 => h[m].by # w
    BY <1>6, <1>8, <2>1
  <2>4. \E b \in backups : b[i] = SubSeq(h, 1, m)
    BY <1>9, <2>1
  <2>5. backups' = backups
    BY <1>2
  <2> QED BY <1>3, <2>2, <2>3, <2>4, <2>5, ArrivedNow
<1>11. CASE h # <<>>
  BY <1>2, <1>4, <1>6, <1>10, <1>11, ChangeArrived
<1>12. CASE h = <<>>
  <2>1. ledgers[w][i] = <<>>
    BY <1>5 DEF Tasks
  <2>2. ledgers' = ledgers
    BY <1>2, <1>12, <2>1 DEF IInv, TypeOK, Ledger
  <2> QED BY <1>2, <2>2, SameArrived
<1> QED
  BY <1>11, <1>12

(* Every step keeps it.                                                    *)
LEMMA NextArrived ==
  ASSUME ~LiveSource
  PROVE  IInv /\ Arrived /\ [Next]_vars => Arrived'
<1> SUFFICES ASSUME IInv, Arrived, [Next]_vars
             PROVE  Arrived'
  OBVIOUS
<1>1. CASE ledgers' = ledgers /\ backups' = backups
  BY <1>1, SameArrived
<1>2. ASSUME NEW w \in Workspaces, NEW i \in Ids, Create(w, i)
      PROVE  Arrived'
  <2>1. Len(ledgers[w][i]) < MaxVersion
    BY <1>2, CopiesAssumption DEF Create, Tasks
  <2> QED BY <1>2, <2>1, CommitArrived DEF Create
<1>3. ASSUME NEW w \in Workspaces, NEW i \in Ids, Update(w, i)
      PROVE  Arrived'
  BY <1>3, CommitArrived DEF Update, Updatable
<1>4. ASSUME NEW w \in Workspaces, NEW i \in Ids, NEW d \in Ids, AddDependency(w, i, d)
      PROVE  Arrived'
  BY <1>4, CommitArrived DEF AddDependency, Updatable
<1>5. ASSUME NEW w \in Workspaces, NEW i \in Ids, Install(w, i)
      PROVE  Arrived'
  BY <1>5, InstallArrived
<1>6. ASSUME NEW w \in Workspaces, FinishBackup(w)
      PROVE  Arrived'
  <2>1. job[w].copy = ledgers[w]
    BY <1>6, FinishedCopy
  <2>2. ledgers[w] \in Range(ledgers)
    BY DEF IInv, TypeOK, Range
  <2> QED BY <1>6, <2>1, <2>2, SameArrived DEF FinishBackup
<1> QED
  BY <1>1, <1>2, <1>3, <1>4, <1>5, <1>6
  DEF Next, Write, Backup, Restore, StartBackup, CopyTask, ListSource, LockDestination,
      FinishRestore, SkipIdentical, Conflict, Abort, vars

(* What arrived ends with the last record another workspace wrote.         *)
LEMMA ArrivedIsWhole ==
  ASSUME IInv, Arrived, NEW w \in Workspaces, NEW i \in Ids, Foreign(w, ledgers[w][i]) # {}
  PROVE  \E b \in backups :
           b[i] = SubSeq(ledgers[w][i], 1, Max(Foreign(w, ledgers[w][i])))
<1> DEFINE h == ledgers[w][i]
           F == Foreign(w, h)
<1>1. h \in Seq(Record) /\ DOMAIN h = 1..Len(h) /\ Len(h) \in Nat
  BY DEF IInv, TypeOK, Ledger, History
<1>2. PICK m \in Nat : ArrivedUpTo(w, i, m)
  BY DEF Arrived
<1> HIDE DEF h
<1>3. m \in F /\ \A n \in F : m >= n
  <2>1. /\ m \in 0..Len(h)
        /\ m # 0 => h[m].by # w
        /\ \A n \in DOMAIN h : n > m => h[n].by = w
    BY <1>2 DEF ArrivedUpTo, h
  <2>2. \A n \in F : n \in 1..Len(h) /\ h[n].by # w
    BY <1>1 DEF Foreign
  <2>3. \A n \in F : m >= n
    BY <1>1, <2>1, <2>2
  <2>4. m # 0
    <3>1. PICK n \in F : TRUE
      BY DEF h
    <3> QED BY <2>2, <2>3, <3>1
  <2> QED BY <1>1, <2>1, <2>3, <2>4 DEF Foreign
<1>4. F \subseteq Nat
  BY <1>1 DEF Foreign
<1>5. Max(F) = m
  <2> HIDE DEF F
  <2>1. ASSUME NEW x \in F, \A n \in F : x >= n
        PROVE  x = m
    BY <1>3, <1>4, <2>1
  <2> QED BY <1>3, <2>1 DEF Max
<1>6. m # 0
  BY <1>1, <1>3 DEF Foreign
<1> QED
  BY <1>2, <1>5, <1>6 DEF ArrivedUpTo, h

(* As long as restores read backups, a task that came from elsewhere came  *)
(* whole, also when the restore died or the workspace then wrote more: the *)
(* stage and the rename of tasks.rs:1189-1200.                             *)
THEOREM TasksArriveWhole ==
  ASSUME ~LiveSource
  PROVE  Spec => []ArrivesWhole
<1>1. Init => Arrived
  BY InitArrived
<1>2. IInv /\ Arrived /\ [Next]_vars => Arrived'
  BY NextArrived
<1>3. IInv /\ Arrived => ArrivesWhole
  BY ArrivedIsWhole DEF ArrivesWhole
<1> QED
  BY <1>1, <1>2, <1>3, JobsStaySound, PTL DEF Spec
=============================================================================

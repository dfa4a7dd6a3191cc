----------------------------- MODULE MemoryProofs -----------------------------
(***************************************************************************)
(* Proofs about MemoryClients, for any kinds of events, capacities,        *)
(* policies and clients: no event is held twice, no budget is passed, and  *)
(* an engine is a bounded pool of events.  The invariant says of the       *)
(* memory and of a checkpoint that their banks are well formed (Banks, in  *)
(* AdaptiveMemoryProofs), of waiting candidates that the archive still has *)
(* them unchanged, and of the tool that its memory is at its line.         *)
(***************************************************************************)
EXTENDS MemoryClients, AdaptiveMemoryProofs

(***************************************************************************)
(* The memory.                                                             *)
(***************************************************************************)
(* The candidates a running revision has yet to restore are those of the   *)
(* archive, as far as it still has them, and not in the hot bank.          *)
Waiting ==
  /\ pending \in Seq(ColdRecord) /\ Distinct(pending)
  /\ IdSet(pending) \cap IdSet(hot.recs) = {}
  /\ \A id \in IdSet(pending) : id < steps
  /\ \A i \in DOMAIN pending : \A r \in ToSet(cold.recs) : r.id = pending[i].id => r = pending[i]
  /\ pending # <<>> => conf.client = "direct" /\ conf.archive

Core == conf \in Confs /\ Banks(conf, hot, cold, steps) /\ Waiting

All(room) == IdSet(room.hot.recs) \cup IdSet(room.cold.recs)
Now == [hot |-> hot, cold |-> cold]

(* Nothing but room in a full memory takes an event away.                  *)
Brimful == Len(hot.recs) >= conf.hotCap /\ AtLimit(cold, conf.coldCap)

(* What a step keeps: the events, unless both banks were full, and the     *)
(* kinds a diversified archive has room for.                               *)
Keeps ==
  /\ conf.archive /\ ~Brimful => Held \subseteq Held'
  /\ conf.diverse /\ Cardinality(ToSet(cold.rows)) < conf.coldCap =>
       \A kind \in ToSet(cold.rows) \ ToSet(cold'.rows) :
         pending # <<>> /\ kind = Head(pending).kind

(* The events held, by the lists that hold them.                           *)
LEMMA HeldIs ==
  /\ Held = IdSet(hot.recs) \cup IdSet(cold.recs) \cup IdSet(pending)
  /\ Held' = IdSet(hot'.recs) \cup IdSet(cold'.recs) \cup IdSet(pending')
  /\ Retained = IdSet(hot.recs) \cup IdSet(cold.recs)
  /\ Retained' = IdSet(hot'.recs) \cup IdSet(cold'.recs)
  BY DEF Held, Retained, Ids, ToSet, IdSet

(* Making room loses at most one event of a full archive.                  *)
LEMMA MadeKeeps ==
  ASSUME Core, NEW room, Made(conf, hot, cold, room)
  PROVE  /\ IdSet(room.hot.recs) \subseteq IdSet(hot.recs)
         /\ IdSet(room.cold.recs) \subseteq All(Now)
         /\ conf.archive =>
              \/ All(room) = All(Now)
              \/ Brimful /\ \E w \in IdSet(cold.recs) : All(room) = All(Now) \ {w}
         /\ conf.archive /\ Brimful /\ Len(room.hot.recs) < Len(hot.recs) =>
              \E w \in IdSet(cold.recs) : All(room) = All(Now) \ {w}
         /\ KindsKept(conf, cold, room.cold)
         /\ \A r \in ToSet(room.cold.recs) : r \in ToSet(cold.recs) \/ r.id \in IdSet(hot.recs)
<1>1. IdSet(hot.recs) \cap IdSet(cold.recs) = {} /\ Len(hot.recs) \in Nat
  BY DEF Core, Banks, HotOK
<1>2. All(Now) = IdSet(hot.recs) \cup IdSet(cold.recs)
  BY DEF All, Now
<1>3. CASE IdSet(room.hot.recs) = IdSet(hot.recs) /\ Len(room.hot.recs) = Len(hot.recs) /\ room.cold = cold
  BY <1>1, <1>2, <1>3 DEF All, KindsKept
<1>4. CASE Len(hot.recs) >= conf.hotCap /\ Moved(conf, hot, cold, room)
  <2>1. PICK v \in IdSet(hot.recs) :
          /\ IdSet(room.hot.recs) = IdSet(hot.recs) \ {v}
          /\ IF conf.archive THEN TakesIn(conf, cold, room.cold, v) ELSE room.cold = cold
    BY <1>4 DEF Moved
  <2>2. CASE ~conf.archive
    BY <1>2, <2>1, <2>2 DEF KindsKept
  <2>3. CASE conf.archive
    <3>1. /\ Grown(cold, conf.coldCap, v, room.cold) /\ KindsKept(conf, cold, room.cold)
          /\ \A r \in ToSet(room.cold.recs) : r \in ToSet(cold.recs) \/ r.id = v
      BY <2>1, <2>3 DEF TakesIn
    <3>2. CASE AtLimit(cold, conf.coldCap)
      <4>1. PICK w \in IdSet(cold.recs) : IdSet(room.cold.recs) = (IdSet(cold.recs) \ {w}) \cup {v}
        BY <3>1, <3>2 DEF Grown
      <4>2. All(room) = All(Now) \ {w}
        BY <1>1, <1>2, <2>1, <4>1 DEF All
      <4>3. Brimful
        BY <1>4, <3>2 DEF Brimful
      <4> QED  BY <1>2, <2>1, <3>1, <4>1, <4>2, <4>3
    <3>3. CASE ~AtLimit(cold, conf.coldCap)
      <4>1. IdSet(room.cold.recs) = IdSet(cold.recs) \cup {v}
        BY <3>1, <3>3 DEF Grown
      <4>2. All(room) = All(Now)
        BY <1>2, <2>1, <4>1 DEF All
      <4> QED  BY <1>2, <2>1, <3>1, <3>3, <4>1, <4>2 DEF Brimful
    <3> QED  BY <3>2, <3>3
  <2> QED  BY <2>2, <2>3
<1> QED
  BY <1>3, <1>4 DEF Made

(* Without a revision no candidate waits.                                  *)
LEMMA NoneWaiting ==
  ASSUME pending' = <<>> PROVE Waiting'
<1>1. DOMAIN pending' = {} /\ pending' \in Seq(ColdRecord)
  BY SMT
<1> QED
  BY <1>1 DEF Waiting, Distinct, IdSet

(* An event that is kept: room is made for it, and it comes in.            *)
KeptIn(room) ==
  /\ Banks(conf, room.hot, room.cold, steps) /\ Room(conf, room.hot)
  /\ Made(conf, hot, cold, room)
  /\ IdSet(hot'.recs) = IdSet(room.hot.recs) \cup {steps}
  /\ cold' = room.cold

(* Keep makes room and puts the event in; the state is saved with it.      *)
LEMMA KeepOK ==
  ASSUME Core, conf' = conf, steps' = steps + 1, NEW kind \in Kinds, NEW imp \in Importance,
         NEW state \in {Zeros, steps + 1}, conf.client # "direct" => state = steps + 1,
         Keep(kind, imp, state)
  PROVE  Banks(conf, hot', cold', steps') /\ \E room : KeptIn(room)
<1>1. conf \in Confs /\ steps \in Nat /\ Zeros \in Nat /\ state \in Nat /\ steps + 1 # Zeros
  BY DEF Core, Banks, Zeros
<1>2. Banks(conf, Given(state), cold, steps) /\ Given(state).recs = hot.recs
  BY <1>1, GivenOK DEF Core
<1> DEFINE rec == [id |-> steps, kind |-> kind, imp |-> imp]
           place(b) == IF state = Zeros THEN b ELSE WithState(b, steps, state)
<1>3. PICK room \in Admitted(Given(state), imp) :
        hot' = Inserted(place(room.hot), rec, steps) /\ cold' = room.cold
  BY DEF Keep
<1>4. /\ Banks(conf, room.hot, room.cold, steps) /\ Room(conf, room.hot)
      /\ Made(conf, Given(state), cold, room)
  BY <1>1, <1>2, AdmittedOK
<1>5. Made(conf, hot, cold, room)
  BY <1>2, <1>4 DEF Made, Moved
<1>6. rec \in HotRecord /\ rec.id = steps
  BY <1>1 DEF HotRecord
<1>7. /\ place(room.hot) \in Places(room.hot, rec.id)
      /\ conf.client # "direct" => place(room.hot) = WithState(room.hot, rec.id, rec.id + 1)
  BY <1>1 DEF Places
<1>8. steps \notin IdSet(room.hot.recs) /\ steps \notin IdSet(room.cold.recs)
  BY <1>1, <1>4 DEF Banks
<1>9. steps <= steps + 1 /\ steps < steps + 1 /\ steps + 1 \in Nat
  BY <1>1
<1> HIDE DEF rec, place
<1>2a. /\ Banks(conf, hot', cold', steps + 1)
       /\ IdSet(hot'.recs) = IdSet(room.hot.recs) \cup {steps}
  <2>1. PICK p \in Places(room.hot, rec.id) :
          /\ hot' = Inserted(p, rec, steps)
          /\ conf.client # "direct" => p = WithState(room.hot, rec.id, rec.id + 1)
    BY <1>3, <1>7
  <2>2. rec.id \notin IdSet(room.hot.recs) /\ rec.id \notin IdSet(room.cold.recs) /\ rec.id < steps + 1
    BY <1>6, <1>8, <1>9
  <2>3. /\ Banks(conf, Inserted(p, rec, steps), room.cold, steps + 1)
        /\ IdSet(Inserted(p, rec, steps).recs) = IdSet(room.hot.recs) \cup {rec.id}
    <3> DEFINE b == room.hot
               c == room.cold
               m == steps + 1
               t == rec.id
    <3>1. /\ conf \in Confs /\ m \in Nat /\ steps <= m /\ Banks(conf, b, c, steps) /\ Room(conf, b)
          /\ rec \in HotRecord /\ t \notin IdSet(b.recs) /\ t \notin IdSet(c.recs) /\ t < m
          /\ p \in Places(b, t) /\ steps \in Nat
          /\ conf.client # "direct" => p = WithState(b, t, t + 1)
      BY <1>1, <1>4, <1>6, <1>9, <2>1, <2>2
    <3> HIDE DEF b, c, m
    <3>2. Banks(conf, Inserted(p, rec, steps), c, m)
      BY <3>1, ComeIn
    <3>3. IdSet(Inserted(p, rec, steps).recs) = IdSet(b.recs) \cup {rec.id}
      BY <3>1, ComeIn
    <3> QED  BY <3>2, <3>3 DEF b, c, m
  <2> QED  BY <1>3, <1>6, <2>1, <2>3
<1> QED
  BY <1>3, <1>4, <1>5, <1>2a DEF KeptIn

(* Nothing is lost by it unless both banks were full.                      *)
LEMMA KeptInKeeps ==
  ASSUME Core, NEW room, KeptIn(room), pending = <<>>
  PROVE  Keeps
<1>1. /\ conf.archive /\ ~Brimful => All(room) = All(Now)
      /\ KindsKept(conf, cold, room.cold)
  BY MadeKeeps DEF KeptIn
<1>2. IdSet(pending) = {}
  BY DEF IdSet
<1>3. ASSUME conf.archive, ~Brimful PROVE Held \subseteq Held'
  BY <1>1, <1>2, <1>3, HeldIs DEF KeptIn, All, Now
<1> QED
  BY <1>1, <1>3 DEF Keeps, KindsKept, KeptIn

(* Identifiers are numbers.                                                *)
LEMMA BanksNat ==
  ASSUME NEW k, NEW b, NEW c, NEW n, Banks(k, b, c, n)
  PROVE  n \in Nat /\ IdSet(b.recs) \cup IdSet(c.recs) \in SUBSET Nat
<1>1. \A i \in DOMAIN b.recs : b.recs[i] \in HotRecord
  BY DEF Banks, HotOK
<1>2. \A i \in DOMAIN c.recs : c.recs[i] \in ColdRecord
  BY DEF Banks, ColdOK
<1> QED
  BY <1>1, <1>2 DEF Banks, HotRecord, ColdRecord, IdSet

(* Banks are as good when more events have been fed in.                    *)
LEMMA BanksLater ==
  ASSUME NEW k, NEW b, NEW c, NEW n, Banks(k, b, c, n)
  PROVE  Banks(k, b, c, n + 1)
<1>1. n \in Nat /\ \A id \in IdSet(b.recs) \cup IdSet(c.recs) : id < n
  BY DEF Banks
<1>2. IdSet(b.recs) \cup IdSet(c.recs) \in SUBSET Nat
  BY BanksNat
<1>3. n + 1 \in Nat /\ \A id \in IdSet(b.recs) \cup IdSet(c.recs) : id < n + 1
  BY <1>1, <1>2
<1> QED
  BY <1>3 DEF Banks

(* An event that is discarded leaves the banks as they are.                *)
LEMMA DiscardOK ==
  ASSUME Core, conf' = conf, steps' = steps + 1, NEW imp, NEW state \in Nat,
         Discard(imp, state), cold' = cold, pending = <<>>
  PROVE  Banks(conf, hot', cold', steps') /\ Keeps
<1>1. Banks(conf, hot', cold', steps) /\ hot'.recs = hot.recs
  BY GivenOK DEF Core, Discard
<1>2. Banks(conf, hot', cold', steps')
  BY <1>1, BanksLater
<1>3. IdSet(pending) = {}
  BY DEF IdSet
<1>4. Keeps
  BY <1>1, <1>3, HeldIs DEF Keeps
<1> QED
  BY <1>2, <1>4

(* observe                                                                 *)
LEMMA ObserveOK ==
  ASSUME Core, conf' = conf, Observe
  PROVE  Core' /\ Keeps
<1>1. conf.client = "direct" /\ pending = <<>> /\ pending' = <<>> /\ steps' = steps + 1 /\ steps \in Nat
  BY DEF Observe, Direct, Idle, MoreEvents, Core, Banks
<1>2. PICK kind \in Kinds, imp \in Importance, state \in {Zeros, steps + 1} :
        \/ Keep(kind, imp, state)
        \/ Discard(imp, state) /\ cold' = cold
  BY DEF Observe
<1>3. state \in Nat
  BY <1>1 DEF Zeros
<1>4. Banks(conf, hot', cold', steps') /\ Keeps
  <2>1. CASE Keep(kind, imp, state)
    BY <1>1, <2>1, KeepOK, KeptInKeeps
  <2>2. CASE Discard(imp, state) /\ cold' = cold
    BY <1>1, <1>3, <2>2, DiscardOK
  <2> QED  BY <1>2, <2>1, <2>2
<1> QED
  BY <1>1, <1>4, NoneWaiting DEF Core

(* What a revision chooses comes from the archive, each candidate once.    *)
LEMMA ChosenOK ==
  ASSUME NEW c, ColdOK(c), NEW p \in Chosen(c)
  PROVE  p \in Seq(ColdRecord) /\ Distinct(p) /\ ToSet(p) \subseteq ToSet(c.recs)
<1>1. PICK S \in SUBSET ToSet(c.recs) : p \in SetToSeqs(S)
  BY DEF Chosen, Searched
<1>2. /\ c.recs \in Seq(ColdRecord) /\ Distinct(c.recs) /\ Len(c.recs) \in Nat
      /\ DOMAIN c.recs = 1..Len(c.recs)
  BY DEF ColdOK
<1>3. ToSet(c.recs) \subseteq ColdRecord
  BY <1>2 DEF ToSet
<1>4. Cardinality(S) \in Nat
  <2>1. IsFiniteSet(1..Len(c.recs))  BY <1>2, FS_Interval
  <2>2. c.recs \in Surjection(1..Len(c.recs), ToSet(c.recs))
    BY <1>2 DEF Surjection, ToSet
  <2>3. IsFiniteSet(ToSet(c.recs))  BY <2>1, <2>2, FS_Surjection
  <2> QED  BY <2>3, FS_Subset, FS_CardinalityType
<1>5. p \in [1..Cardinality(S) -> S] /\ \A i, j \in 1..Cardinality(S) : i # j => p[i] # p[j]
  BY <1>1 DEF SetToSeqs
<1>6. p \in Seq(ColdRecord) /\ DOMAIN p = 1..Cardinality(S)
  <2>1. p \in [1..Cardinality(S) -> ColdRecord]  BY <1>1, <1>3, <1>5
  <2> QED  BY <1>4, <2>1
<1>7. ToSet(p) \subseteq S
  BY <1>5 DEF ToSet
<1>8. Distinct(p)
  <2> SUFFICES ASSUME NEW i \in DOMAIN p, NEW j \in DOMAIN p, p[i].id = p[j].id PROVE i = j
    BY DEF Distinct
  <2>1. p[i] \in ToSet(c.recs) /\ p[j] \in ToSet(c.recs)
    BY <1>1, <1>5, <1>6
  <2>2. p[i] = p[j]
    BY <1>2, <2>1 DEF ToSet, Distinct
  <2> QED  BY <1>5, <1>6, <2>2
<1> QED
  BY <1>1, <1>6, <1>7, <1>8

(* observe_with_revision, up to the choice of the candidates               *)
LEMMA ObserveWithRevisionOK ==
  ASSUME Core, conf' = conf, ObserveWithRevision
  PROVE  Core' /\ Keeps
<1>1. /\ conf.client = "direct" /\ conf.archive /\ pending = <<>>
      /\ steps' = steps + 1 /\ steps \in Nat
  BY DEF ObserveWithRevision, Direct, Idle, MoreEvents, Core, Banks
<1>2. PICK kind \in Kinds, imp \in Importance :
        /\ \/ Keep(kind, imp, steps + 1)
           \/ Discard(imp, steps + 1) /\ cold' = cold
        /\ pending' \in IF imp > Trigger THEN Chosen(cold') ELSE {<<>>}
  BY DEF ObserveWithRevision
<1>3. steps + 1 \in Nat
  BY <1>1
<1>4. Banks(conf, hot', cold', steps') /\ Keeps
  <2>1. CASE Keep(kind, imp, steps + 1)
    BY <1>1, <2>1, KeepOK, KeptInKeeps
  <2>2. CASE Discard(imp, steps + 1) /\ cold' = cold
    BY <1>1, <1>3, <2>2, DiscardOK
  <2> QED  BY <1>2, <2>1, <2>2
<1>5. CASE pending' = <<>>
  BY <1>4, <1>5, NoneWaiting DEF Core
<1>6. CASE pending' \in Chosen(cold')
  <2>1. /\ ColdOK(cold') /\ IdSet(hot'.recs) \cap IdSet(cold'.recs) = {}
        /\ \A id \in IdSet(cold'.recs) : id < steps'
    BY <1>4 DEF Banks
  <2>2. pending' \in Seq(ColdRecord) /\ Distinct(pending') /\ ToSet(pending') \subseteq ToSet(cold'.recs)
    BY <1>6, <2>1, ChosenOK
  <2>3. IdSet(pending') \subseteq IdSet(cold'.recs)
    BY <2>2 DEF IdSet, ToSet
  <2>4. \A i \in DOMAIN pending' : \A r \in ToSet(cold'.recs) : r.id = pending'[i].id => r = pending'[i]
    <3>1. Distinct(cold'.recs)  BY <2>1 DEF ColdOK
    <3>2. \A r, q \in ToSet(cold'.recs) : r.id = q.id => r = q
      BY <3>1 DEF Distinct, ToSet
    <3> QED  BY <2>2, <3>2 DEF ToSet
  <2>5. Waiting'
    BY <1>1, <2>1, <2>2, <2>3, <2>4 DEF Waiting
  <2> QED  BY <1>4, <2>5 DEF Core
<1> QED
  BY <1>2, <1>5, <1>6

(* An event that raises has made room all the same.                        *)
LEMMA ObserveRaisesOK ==
  ASSUME Core, conf' = conf, ObserveRaises
  PROVE  Core' /\ Keeps
<1>1. pending = <<>> /\ pending' = <<>> /\ steps' = steps + 1 /\ steps \in Nat
  BY DEF ObserveRaises, Direct, Idle, MoreEvents, Core, Banks
<1>2. PICK imp \in Importance, state \in {Zeros, steps + 1} :
        \/ \E room \in Admitted(Given(state), imp) : hot' = room.hot /\ cold' = room.cold
        \/ Discard(imp, state) /\ cold' = cold
  BY DEF ObserveRaises
<1>3. state \in Nat
  BY <1>1 DEF Zeros
<1>4. Banks(conf, hot', cold', steps') /\ Keeps
  <2>1. ASSUME NEW room \in Admitted(Given(state), imp), hot' = room.hot, cold' = room.cold
        PROVE  Banks(conf, hot', cold', steps') /\ Keeps
    <3>1. Banks(conf, Given(state), cold, steps) /\ Given(state).recs = hot.recs
      BY <1>3, GivenOK DEF Core
    <3>2. Banks(conf, room.hot, room.cold, steps) /\ Made(conf, Given(state), cold, room)
      BY <3>1, AdmittedOK DEF Core
    <3>3. Made(conf, hot, cold, room)
      BY <3>1, <3>2 DEF Made, Moved
    <3>4. Banks(conf, hot', cold', steps')
      BY <1>1, <2>1, <3>2, BanksLater
    <3>5. /\ conf.archive /\ ~Brimful => All(room) = All(Now)
          /\ KindsKept(conf, cold, room.cold)
      BY <3>3, MadeKeeps
    <3>6. IdSet(pending) = {}
      BY <1>1 DEF IdSet
    <3>7. Keeps
      BY <2>1, <3>5, <3>6, HeldIs DEF Keeps, KindsKept, All, Now
    <3> QED  BY <3>4, <3>7
  <2>2. CASE Discard(imp, state) /\ cold' = cold
    BY <1>1, <1>3, <2>2, DiscardOK
  <2> QED  BY <1>2, <2>1, <2>2
<1> QED
  BY <1>1, <1>4, NoneWaiting DEF Core

(* retrieve changes access times only.                                     *)
LEMMA RetrieveOK ==
  ASSUME Core, conf' = conf, Retrieve
  PROVE  Core' /\ Keeps
<1>1. pending = <<>> /\ pending' = <<>> /\ cold' = cold /\ steps' = steps
  BY DEF Retrieve, Direct, Idle
<1>2. PICK S \in SUBSET DOMAIN hot.recs :
        hot' = Hot(hot.recs, hot.rows,
                   [i \in DOMAIN hot.access |-> hot.access[i] + (IF i \in S THEN 1 ELSE 0)],
                   hot.states, hot.last)
  BY DEF Retrieve
<1> DEFINE access == [i \in DOMAIN hot.access |-> hot.access[i] + (IF i \in S THEN 1 ELSE 0)]
<1>3. access \in Seq(Nat) /\ Len(access) = Len(hot.access)
  <2>1. hot.access \in Seq(Nat)  BY DEF Core, Banks, HotOK
  <2>2. access \in [1..Len(hot.access) -> Nat] /\ Len(hot.access) \in Nat  BY <2>1
  <2> HIDE DEF access
  <2> QED  BY <2>2
<1> HIDE DEF access
<1>4. /\ hot'.recs = hot.recs /\ hot'.rows = hot.rows /\ hot'.access = access
      /\ hot'.states = hot.states /\ hot'.last = hot.last
  BY <1>2 DEF Hot, access
<1>5. HotOK(hot') /\ (Stated(hot) => Stated(hot'))
  BY <1>3, <1>4 DEF Core, Banks, HotOK, Stated
<1>6. Banks(conf, hot', cold', steps')
  BY <1>1, <1>4, <1>5 DEF Core, Banks
<1>7. Keeps
  BY <1>1, <1>4, HeldIs DEF Keeps
<1> QED
  BY <1>1, <1>6, <1>7, NoneWaiting DEF Core

(* New banks hold nothing.                                                 *)
LEMMA EmptyBanks ==
  ASSUME conf \in Confs
  PROVE  HotOK(EmptyHot) /\ EmptyHot.recs = <<>> /\ Banks(conf, EmptyHot, EmptyCold, 0)
<1>1. /\ EmptyHot.recs = <<>> /\ EmptyHot.rows = <<>> /\ EmptyHot.access = <<>>
      /\ EmptyHot.states = <<>> /\ EmptyHot.last = 0
  BY DEF EmptyHot, Hot, Zeros
<1>2. EmptyCold.recs = <<>> /\ EmptyCold.rows = <<>> /\ EmptyCold = [recs |-> <<>>, rows |-> <<>>]
  BY DEF EmptyCold
<1>3. DOMAIN <<>> = {} /\ Len(<<>>) = 0
  OBVIOUS
<1>4. \A R : <<>> \in Seq(R)
  OBVIOUS
<1>5. HotOK(EmptyHot) /\ Stated(EmptyHot)
  BY <1>1, <1>3, <1>4 DEF HotOK, Stated, Distinct, IdSet
<1>6. ColdOK(EmptyCold) /\ ColdOwn(EmptyCold)
  BY <1>2, <1>3, <1>4 DEF ColdOK, ColdOwn, Distinct
<1>7. IdSet(<<>>) = {}
  BY <1>3 DEF IdSet
<1>8. conf.hotCap \in Nat
  BY ConfFacts
<1> QED
  BY <1>1, <1>2, <1>3, <1>5, <1>6, <1>7, <1>8 DEF Banks

(* clear empties the hot bank.                                             *)
LEMMA ClearOK ==
  ASSUME Core, conf' = conf, Clear
  PROVE  Core'
<1>1. pending' = <<>> /\ cold' = cold /\ steps' = steps /\ hot' = EmptyHot
  BY DEF Clear, Direct, Idle
<1>2. HotOK(EmptyHot) /\ EmptyHot.recs = <<>> /\ Banks(conf, EmptyHot, EmptyCold, 0)
  BY EmptyBanks DEF Core
<1>3. IdSet(EmptyHot.recs) = {}
  BY <1>2 DEF IdSet
<1>4. Banks(conf, hot', cold', steps')
  BY <1>1, <1>2, <1>3 DEF Core, Banks, Stated
<1> QED
  BY <1>1, <1>4, NoneWaiting DEF Core

(* A new memory is empty.                                                  *)
LEMMA FreshOK ==
  ASSUME Core, conf' = conf, Fresh, conf.client # "direct"
  PROVE  Core'
<1>1. pending = <<>> /\ pending' = <<>>
  BY DEF Core, Waiting, Fresh
<1>2. Banks(conf, hot', cold', steps')
  BY EmptyBanks DEF Core, Fresh
<1> QED
  BY <1>1, <1>2, NoneWaiting DEF Core

(* A restored record has an importance.                                    *)
LEMMA MaxThree ==
  ASSUME NEW x \in Importance, NEW y \in Importance, NEW z \in Importance
  PROVE  Max({x, y, z}) \in Importance
<1>1. x \in Nat /\ y \in Nat /\ z \in Nat
  BY MemoryAssumption DEF Importance
<1>2. \E m \in {x, y, z} : \A n \in {x, y, z} : m >= n
  <2>1. CASE x >= y /\ x >= z  BY <1>1, <2>1
  <2>2. CASE y >= x /\ y >= z  BY <1>1, <2>2
  <2>3. CASE z >= x /\ z >= y  BY <1>1, <2>3
  <2> QED  BY <1>1, <2>1, <2>2, <2>3
<1>3. Max({x, y, z}) \in {x, y, z}
  BY <1>2 DEF Max
<1> QED
  BY <1>3

(* What is left to restore after the first candidate.                      *)
LEMMA TailIds ==
  ASSUME NEW s \in Seq(ColdRecord), Distinct(s), s # <<>>
  PROVE  /\ Tail(s) \in Seq(ColdRecord) /\ Distinct(Tail(s))
         /\ IdSet(Tail(s)) = IdSet(s) \ {Head(s).id}
         /\ \A j \in DOMAIN Tail(s) : \E i \in DOMAIN s : Tail(s)[j] = s[i]
<1> DEFINE t == Tail(s)
<1>1. /\ Len(s) \in Nat /\ Len(s) >= 1 /\ DOMAIN s = 1..Len(s)
      /\ t \in Seq(ColdRecord) /\ DOMAIN t = 1..(Len(s) - 1) /\ Head(s) = s[1]
  OBVIOUS
<1>2. \A j \in 1..(Len(s) - 1) : t[j] = s[j + 1]
  OBVIOUS
<1>3. /\ \A j \in 1..(Len(s) - 1) : j + 1 \in DOMAIN s /\ j + 1 # 1
      /\ \A i \in DOMAIN s \ {1} : i - 1 \in 1..(Len(s) - 1) /\ (i - 1) + 1 = i
      /\ 1 \in DOMAIN s
  BY <1>1
<1> HIDE DEF t
<1>4. Distinct(t)
  <2> SUFFICES ASSUME NEW i \in DOMAIN t, NEW j \in DOMAIN t, t[i].id = t[j].id PROVE i = j
    BY DEF Distinct
  <2>1. i + 1 = j + 1  BY <1>1, <1>2, <1>3 DEF Distinct
  <2> QED  BY <1>1, <2>1
<1>5. IdSet(t) \subseteq IdSet(s) \ {s[1].id}
  BY <1>1, <1>2, <1>3 DEF IdSet, Distinct
<1>6. IdSet(s) \ {s[1].id} \subseteq IdSet(t)
  <2> SUFFICES ASSUME NEW i \in DOMAIN s, s[i].id # s[1].id PROVE s[i].id \in IdSet(t)
    BY DEF IdSet
  <2>1. i - 1 \in DOMAIN t /\ t[i - 1] = s[i]  BY <1>1, <1>2, <1>3
  <2> QED  BY <2>1 DEF IdSet
<1>7. \A j \in DOMAIN t : \E i \in DOMAIN s : t[j] = s[i]
  BY <1>1, <1>2, <1>3
<1> QED
  BY <1>1, <1>4, <1>5, <1>6, <1>7 DEF t

(* _restore_from_cold moves one candidate into the hot bank.               *)
LEMMA RestoreOK ==
  ASSUME Core, conf' = conf, Restore
  PROVE  Core' /\ Keeps
<1> DEFINE cand == Head(pending)
           imp(score) == Max({Floor, cand.imp, score})
           rec(score) == [id |-> cand.id, kind |-> cand.kind, imp |-> imp(score)]
<1>1. /\ pending # <<>> /\ pending' = Tail(pending) /\ steps' = steps
      /\ conf.client = "direct" /\ conf.archive
  BY DEF Restore, Core, Waiting
<1>2. /\ pending \in Seq(ColdRecord) /\ Distinct(pending)
      /\ IdSet(pending) \cap IdSet(hot.recs) = {}
      /\ \A id \in IdSet(pending) : id < steps
      /\ \A i \in DOMAIN pending : \A r \in ToSet(cold.recs) : r.id = pending[i].id => r = pending[i]
  BY DEF Core, Waiting
<1>3. 1 \in DOMAIN pending /\ cand = pending[1] /\ cand \in ColdRecord
  BY <1>1, <1>2
<1>4. /\ cand.id \in Nat /\ cand.kind \in Kinds /\ cand.imp \in Importance
      /\ cand.id \in IdSet(pending) /\ cand.id < steps /\ cand.id \notin IdSet(hot.recs)
  BY <1>2, <1>3 DEF ColdRecord, IdSet
<1>5. steps \in Nat /\ steps - 1 \in Nat /\ steps <= steps
  <2>1. steps \in Nat  BY DEF Core, Banks
  <2> QED  BY <1>4, <2>1
<1> DEFINE made == IF Full(hot)
                   THEN UNION {EvictIndex(hot, i) : i \in Least(Importances(hot))}
                   ELSE {[hot |-> hot, cold |-> cold]}
<1>6. PICK score \in Scores, room \in made :
        /\ hot' = Inserted(room.hot, rec(score), steps - 1)
        /\ cold' = Removed(room.cold, cand.id)
  BY DEF Restore
<1>7. Banks(conf, room.hot, room.cold, steps) /\ Room(conf, room.hot) /\ Made(conf, hot, cold, room)
  <2>1. CASE Full(hot)
    <3>1. PICK i \in Least(Importances(hot)) : room \in EvictIndex(hot, i)
      BY <1>6, <2>1
    <3>2. i \in DOMAIN hot.recs
      BY <3>1 DEF Least, Importances
    <3> QED  BY <2>1, <3>1, <3>2, EvictionMakesRoom DEF Core
  <2>2. CASE ~Full(hot)
    <3>1. room = [hot |-> hot, cold |-> cold]
      BY <1>6, <2>2
    <3>2. Len(hot.recs) \in Nat /\ conf.hotCap \in Nat
      BY ConfFacts DEF Core, Banks, HotOK
    <3> QED  BY <2>2, <3>1, <3>2 DEF Core, Made, Room, Full
  <2> QED  BY <2>1, <2>2
<1> HIDE DEF made
<1>8. /\ IdSet(room.hot.recs) \subseteq IdSet(hot.recs)
      /\ ~Brimful => All(room) = All(Now)
      /\ KindsKept(conf, cold, room.cold)
      /\ \A r \in ToSet(room.cold.recs) : r \in ToSet(cold.recs) \/ r.id \in IdSet(hot.recs)
  BY <1>1, <1>7, MadeKeeps
<1>9. rec(score) \in HotRecord /\ rec(score).id = cand.id
  <2>1. imp(score) \in Importance
    BY <1>4, MaxThree, MemoryAssumption DEF Scores, Importance
  <2> HIDE DEF imp
  <2> QED  BY <1>4, <2>1 DEF HotRecord
<1>2a. /\ ColdOK(cold') /\ IdSet(cold'.recs) = IdSet(room.cold.recs) \ {cand.id}
       /\ Len(cold'.recs) <= Len(room.cold.recs)
  BY <1>6, <1>7, RemovedOK DEF Banks
<1>11. /\ ToSet(cold'.recs) \subseteq ToSet(room.cold.recs)
       /\ \A kind \in ToSet(room.cold.rows) \ ToSet(cold'.rows) :
            \E r \in ToSet(room.cold.recs) : r.id = cand.id /\ r.kind = kind
  BY <1>6, <1>7, RemovedSet DEF Banks
<1>12. Banks(conf, room.hot, cold', steps)
  <2>1. conf.coldCap \in Nat /\ Len(room.cold.recs) \in Nat /\ Len(cold'.recs) \in Nat
    BY <1>7, <1>2a, ConfFacts DEF Core, Banks, ColdOK
  <2>2. Len(cold'.recs) <= conf.coldCap \/ Len(cold'.recs) <= 1
    BY <1>7, <1>2a, <2>1 DEF Banks
  <2> QED  BY <1>1, <1>7, <1>2a, <2>2 DEF Banks
<1> HIDE DEF cand, rec
<1>13. /\ Banks(conf, hot', cold', steps)
       /\ IdSet(hot'.recs) = IdSet(room.hot.recs) \cup {cand.id}
  <2> DEFINE b == room.hot
             c == cold'
             e == rec(score)
  <2>1. /\ conf \in Confs /\ Banks(conf, b, c, steps) /\ Room(conf, b)
        /\ e \in HotRecord /\ e.id \notin IdSet(b.recs) /\ e.id \notin IdSet(c.recs) /\ e.id < steps
        /\ b \in Places(b, e.id) /\ conf.client = "direct"
    BY <1>1, <1>4, <1>7, <1>8, <1>9, <1>2a, <1>12 DEF Core, Places
  <2> HIDE DEF b, c, e
  <2>2. Banks(conf, Inserted(b, e, steps - 1), c, steps)
    BY <1>5, <2>1, ComeIn
  <2>3. IdSet(Inserted(b, e, steps - 1).recs) = IdSet(b.recs) \cup {e.id}
    <3>1. HotOK(b) /\ steps - 1 \in Nat  BY <1>5, <2>1 DEF Banks
    <3> QED  BY <2>1, <3>1, InsertedOK
  <2> QED  BY <1>6, <1>9, <2>2, <2>3 DEF b, c, e
<1>14. /\ pending' \in Seq(ColdRecord) /\ Distinct(pending')
       /\ IdSet(pending') = IdSet(pending) \ {cand.id}
       /\ \A j \in DOMAIN pending' : \E i \in DOMAIN pending : pending'[j] = pending[i]
  BY <1>1, <1>2, TailIds DEF cand
<1>15. Waiting'
  <2>1. IdSet(pending') \cap IdSet(hot'.recs) = {}
    BY <1>2, <1>8, <1>13, <1>14
  <2>2. ASSUME NEW j \in DOMAIN pending', NEW r \in ToSet(cold'.recs), r.id = pending'[j].id
        PROVE  r = pending'[j]
    <3>1. PICK i \in DOMAIN pending : pending'[j] = pending[i]
      BY <1>14
    <3>2. r.id \in IdSet(pending)
      BY <2>2, <3>1 DEF IdSet
    <3>3. r \in ToSet(cold.recs)
      BY <1>2, <1>8, <1>11, <3>2
    <3> QED  BY <1>2, <2>2, <3>1, <3>3
  <2> QED  BY <1>1, <1>2, <1>14, <2>1, <2>2 DEF Waiting
<1>16. ASSUME ~Brimful PROVE Held \subseteq Held'
  <2>1. IdSet(room.hot.recs) \cup IdSet(room.cold.recs) = IdSet(hot.recs) \cup IdSet(cold.recs)
    BY <1>8, <1>16 DEF All, Now
  <2> QED  BY <1>2a, <1>13, <1>14, <2>1, HeldIs
<1>17. ASSUME conf.diverse, Cardinality(ToSet(cold.rows)) < conf.coldCap,
              NEW kind \in ToSet(cold.rows) \ ToSet(cold'.rows)
       PROVE  kind = Head(pending).kind
  <2>1. kind \in ToSet(room.cold.rows)
    BY <1>8, <1>17 DEF KindsKept
  <2>2. PICK r \in ToSet(room.cold.recs) : r.id = cand.id /\ r.kind = kind
    BY <1>11, <2>1
  <2>3. r \in ToSet(cold.recs)
    BY <1>4, <1>8, <2>2
  <2> QED  BY <1>2, <1>3, <2>2, <2>3 DEF cand
<1>18. Keeps
  BY <1>1, <1>16, <1>17 DEF Keeps
<1> QED
  BY <1>1, <1>13, <1>15, <1>18 DEF Core

(***************************************************************************)
(* The engine.                                                             *)
(***************************************************************************)
(* The recurrent state is that of the last event, and a checkpoint is a    *)
(* memory like any other.                                                  *)
Mem ==
  /\ Core
  /\ h \in Nat
  /\ Engine => h = steps
  /\ Saved => /\ Engine
              /\ Banks(conf, file.hot, file.cold, file.steps)
              /\ file.h = file.steps

(* An engine keeps an event by the room it has, or in place of one.        *)
Grows ==
  IF Brimful
  THEN \E w \in IdSet(cold.recs) : Retained' = (Retained \ {w}) \cup {steps}
  ELSE Retained' = Retained \cup {steps}

(* A step of an engine keeps the memory and adds its event.                *)
LEMMA StepOK ==
  ASSUME Mem, conf' = conf, Engine, NEW kind \in Kinds, Step(kind)
  PROVE  Mem' /\ Keeps /\ Grows /\ steps' = steps + 1
<1>1. /\ Core /\ steps' = steps + 1 /\ h' = steps + 1 /\ Folded(h) = steps + 1 /\ file' = file
      /\ pending = <<>> /\ pending' = <<>> /\ steps \in Nat /\ steps + 1 \in Nat
  BY DEF Mem, Step, MoreEvents, Folded, Engine, Core, Banks, Waiting
<1>2. conf.client # "direct" /\ conf.archive /\ conf.mode = "fixed_budget" /\ conf.hotCap \in Nat
  BY <1>1, ConfFacts DEF Engine, Core
<1>3. /\ Len(hot.recs) \in Nat /\ Len(hot.recs) <= conf.hotCap
      /\ IdSet(hot.recs) \cap IdSet(cold.recs) = {}
  BY <1>1, <1>2 DEF Core, Banks, HotOK
<1>4. PICK imp \in Importance :
        \/ Keep(kind, imp, steps + 1)
        \/ /\ Discard(imp, steps + 1)
           /\ cold' \in Archived(cold, conf.coldCap, conf.diverse,
                                 [id |-> steps, kind |-> kind, imp |-> imp, state |-> steps + 1])
  BY <1>1 DEF Step
<1>5. CASE Keep(kind, imp, steps + 1)
  <2>1. Banks(conf, hot', cold', steps') /\ \E room : KeptIn(room)
    BY <1>1, <1>5, KeepOK
  <2>2. PICK room : KeptIn(room)
    BY <2>1
  <2>3. Keeps
    BY <1>1, <2>2, KeptInKeeps
  <2>4. /\ All(room) = All(Now) \/ (Brimful /\ \E w \in IdSet(cold.recs) : All(room) = All(Now) \ {w})
        /\ Brimful /\ Len(room.hot.recs) < Len(hot.recs) =>
             \E w \in IdSet(cold.recs) : All(room) = All(Now) \ {w}
    BY <1>1, <1>2, <2>2, MadeKeeps DEF KeptIn
  <2>5. Retained = All(Now) /\ Retained' = All(room) \cup {steps}
    BY <2>2, HeldIs DEF KeptIn, All, Now
  <2>6. Brimful => Len(room.hot.recs) < Len(hot.recs)
    <3>1. Len(room.hot.recs) \in Nat /\ Len(room.hot.recs) < conf.hotCap
      BY <1>2, <2>2 DEF KeptIn, Banks, HotOK, Room
    <3> QED  BY <1>2, <1>3, <3>1 DEF Brimful
  <2>7. Grows
    BY <2>4, <2>5, <2>6 DEF Grows
  <2> QED  BY <1>1, <2>1, <2>3, <2>7, NoneWaiting DEF Mem, Core, Engine, Saved
<1>6. CASE /\ Discard(imp, steps + 1)
           /\ cold' \in Archived(cold, conf.coldCap, conf.diverse,
                                 [id |-> steps, kind |-> kind, imp |-> imp, state |-> steps + 1])
  <2> DEFINE rec == [id |-> steps, kind |-> kind, imp |-> imp, state |-> steps + 1]
  <2>1. rec \in ColdRecord /\ rec.id = steps /\ rec.state = rec.id + 1
    BY <1>1 DEF ColdRecord
  <2>2. Banks(conf, Given(steps + 1), cold, steps) /\ hot' = Given(steps + 1) /\ hot'.recs = hot.recs
    BY <1>1, <1>6, GivenOK DEF Core, Discard
  <2>3. steps \notin IdSet(hot.recs) /\ steps \notin IdSet(cold.recs)
    BY <1>1 DEF Core, Banks
  <2>4. cold' \in Archived(cold, conf.coldCap, conf.diverse, rec)
    BY <1>6
  <2> HIDE DEF rec
  <2>5. /\ ColdOK(cold') /\ ColdOwn(cold')
        /\ Len(cold'.recs) <= conf.coldCap \/ Len(cold'.recs) <= 1
        /\ TakesIn(conf, cold, cold', steps)
        /\ IdSet(cold'.recs) \subseteq IdSet(cold.recs) \cup {steps}
    <3>1. /\ ColdOK(cold) /\ (Len(cold.recs) <= conf.coldCap \/ Len(cold.recs) <= 1)
          /\ ColdOwn(cold) /\ rec.id \notin IdSet(cold.recs) /\ conf \in Confs
      BY <1>1, <1>2, <2>1, <2>3 DEF Core, Banks
    <3> QED  BY <2>1, <2>4, <3>1, FiledOK
  <2>6. Banks(conf, hot', cold', steps + 1)
    <3>1. IdSet(hot'.recs) \cap IdSet(cold'.recs) = {}
      BY <1>3, <2>2, <2>3, <2>5
    <3>2. Banks(conf, hot', cold, steps + 1)
      BY <2>2, BanksLater
    <3>3. \A id \in IdSet(hot'.recs) \cup IdSet(cold'.recs) : id < steps + 1
      <4>1. steps < steps + 1  BY <1>1
      <4> QED  BY <2>5, <3>2, <4>1 DEF Banks
    <3> QED  BY <1>1, <2>5, <3>1, <3>2, <3>3 DEF Banks
  <2>7. Len(hot.recs) >= conf.hotCap
    <3>1. Admitted(Given(steps + 1), imp) = {}
      BY <1>6 DEF Discard
    <3>2. CASE ~Full(Given(steps + 1))
      <4>1. Admitted(Given(steps + 1), imp) = {[hot |-> Given(steps + 1), cold |-> cold]}
        BY <1>2, <3>2 DEF Admitted
      <4> QED  BY <3>1, <4>1
    <3>3. CASE Full(Given(steps + 1))
      BY <2>2, <3>3 DEF Full
    <3> QED  BY <3>2, <3>3
  <2>8. Grown(cold, conf.coldCap, steps, cold') /\ KindsKept(conf, cold, cold')
    BY <2>5 DEF TakesIn
  <2>9. Grows
    <3>1. Brimful <=> AtLimit(cold, conf.coldCap)
      BY <2>7 DEF Brimful
    <3>2. CASE AtLimit(cold, conf.coldCap)
      <4>1. PICK w \in IdSet(cold.recs) : IdSet(cold'.recs) = (IdSet(cold.recs) \ {w}) \cup {steps}
        BY <2>8, <3>2 DEF Grown
      <4>2. Retained' = (Retained \ {w}) \cup {steps}
        BY <1>3, <2>2, <4>1, HeldIs
      <4> QED  BY <3>1, <3>2, <4>2 DEF Grows
    <3>3. CASE ~AtLimit(cold, conf.coldCap)
      <4>1. IdSet(cold'.recs) = IdSet(cold.recs) \cup {steps}
        BY <2>8, <3>3 DEF Grown
      <4> QED  BY <2>2, <3>1, <3>3, <4>1, HeldIs DEF Grows
    <3> QED  BY <3>2, <3>3
  <2>10. Keeps
    <3>1. ~Brimful => Retained \subseteq Retained'
      BY <2>9 DEF Grows
    <3>2. IdSet(pending) = {}
      BY <1>1 DEF IdSet
    <3> QED  BY <2>8, <3>1, <3>2, HeldIs DEF Keeps, KindsKept
  <2> QED  BY <1>1, <2>6, <2>9, <2>10, NoneWaiting DEF Mem, Core, Engine, Saved
<1> QED
  BY <1>4, <1>5, <1>6

(* A step that leaves the memory alone keeps all.                          *)
LEMMA SameKeeps ==
  ASSUME UNCHANGED memory PROVE Keeps
<1>1. hot' = hot /\ cold' = cold /\ pending' = pending
  BY DEF memory
<1> QED
  BY <1>1, HeldIs DEF Keeps

(* A reset, or a new process, leaves an empty memory.                      *)
LEMMA FreshMem ==
  ASSUME Mem, conf' = conf, Engine, Fresh, file' = file \/ file' = Torn
  PROVE  Mem'
<1>1. Core' /\ h' = 0 /\ steps' = 0
  BY FreshOK DEF Mem, Fresh, Engine, Zeros
<1> QED
  BY <1>1 DEF Mem, Engine, Saved

(* A checkpoint is the memory of the moment.                               *)
LEMMA SaveMem ==
  ASSUME Mem, conf' = conf, Engine, Save
  PROVE  Mem' /\ file'.steps = steps
<1>1. /\ hot' = hot /\ cold' = cold /\ pending' = pending /\ steps' = steps /\ h' = h
      /\ file' = [status |-> "whole", steps |-> steps, h |-> h,
                  hot |-> WithLast(hot, Zeros), cold |-> cold]
  BY DEF Save, memory
<1>2. /\ file'.steps = steps /\ file'.h = h /\ file'.hot = WithLast(hot, Zeros) /\ file'.cold = cold
  BY <1>1
<1> DEFINE b == WithLast(hot, Zeros)
<1>3. /\ b.recs = hot.recs /\ b.rows = hot.rows /\ b.access = hot.access
      /\ b.states = hot.states /\ b.last = 0
  BY DEF WithLast, Hot, Zeros
<1> HIDE DEF b
<1>4. HotOK(b) /\ (Stated(hot) => Stated(b))
  BY <1>3 DEF Mem, Core, Banks, HotOK, Stated
<1>5. Banks(conf, b, cold, steps)
  BY <1>3, <1>4 DEF Mem, Core, Banks
<1>6. Core'
  BY <1>1 DEF Mem, Core, Waiting
<1> QED
  BY <1>1, <1>2, <1>5, <1>6 DEF Mem, Engine, b

(* A load gives the memory of the checkpoint.                              *)
LEMMA LoadMem ==
  ASSUME Mem, conf' = conf, Engine, Load
  PROVE  Mem' /\ steps' = file.steps
<1>1. /\ Saved /\ hot' = file.hot /\ cold' = file.cold /\ steps' = file.steps /\ h' = file.h
      /\ file' = file /\ pending' = pending /\ pending = <<>>
  BY DEF Load, Mem, Core, Waiting, Engine
<1>2. Banks(conf, hot', cold', steps')
  BY <1>1 DEF Mem
<1>3. steps' \in Nat
  BY <1>2 DEF Banks
<1> QED
  BY <1>1, <1>2, <1>3, NoneWaiting DEF Mem, Core, Engine, Saved

(***************************************************************************)
(* The clients.                                                            *)
(***************************************************************************)
(* What a trace says of a memory with so many events, up to a line: every  *)
(* line was fed or passed over, and in order if none was passed over.      *)
Follows(t, events, lines) ==
  /\ t \in Trace /\ events \in Nat /\ lines \in Nat
  /\ Len(t.fed) = events /\ events <= lines
  /\ 0..(lines - 1) \subseteq ToSet(t.fed) \cup t.passed
  /\ t.passed = {} => t.fed = [i \in 1..lines |-> i - 1]

(* A new memory has been fed nothing.                                      *)
LEMMA FollowsNone == Follows(NoTrace, 0, 0) /\ NoTrace \in Trace
<1>1. NoTrace.fed = <<>> /\ NoTrace.passed = {} /\ <<>> \in Seq(Nat) /\ NoTrace \in Trace
  BY DEF NoTrace, Trace
<1>2. 0..(0 - 1) = {} /\ <<>> = [i \in 1..0 |-> i - 1]
  OBVIOUS
<1> QED
  BY <1>1, <1>2 DEF Follows

(* A snapshot has as many events as it says.                               *)
LEMMA FollowsSaved ==
  ASSUME NEW t, NEW n, NEW l, Follows(t, n, l)
  PROVE  Follows(t, n, n) /\ n <= l
<1>1. /\ t \in Trace /\ n \in Nat /\ l \in Nat /\ Len(t.fed) = n /\ n <= l
      /\ 0..(l - 1) \subseteq ToSet(t.fed) \cup t.passed
      /\ t.passed = {} => t.fed = [i \in 1..l |-> i - 1]
  BY DEF Follows
<1>2. 0..(n - 1) \subseteq 0..(l - 1)
  BY <1>1
<1>3. ASSUME t.passed = {} PROVE t.fed = [i \in 1..n |-> i - 1]
  <2>1. t.fed = [i \in 1..l |-> i - 1] /\ t.fed \in Seq(Nat)
    BY <1>1, <1>3 DEF Trace
  <2>2. l = n
    BY <1>1, <2>1
  <2> QED  BY <2>1, <2>2
<1> QED
  BY <1>1, <1>2, <1>3 DEF Follows

(* Feeding the next line.                                                  *)
LEMMA FollowsFed ==
  ASSUME NEW t, NEW n, NEW l, Follows(t, n, l)
  PROVE  Follows([t EXCEPT !.fed = Append(@, l)], n + 1, l + 1)
<1> DEFINE u == [t EXCEPT !.fed = Append(@, l)]
<1>1. /\ t \in Trace /\ n \in Nat /\ l \in Nat /\ Len(t.fed) = n /\ n <= l
      /\ 0..(l - 1) \subseteq ToSet(t.fed) \cup t.passed
      /\ t.passed = {} => t.fed = [i \in 1..l |-> i - 1]
  BY DEF Follows
<1>2. u.fed = Append(t.fed, l) /\ u.passed = t.passed /\ t.fed \in Seq(Nat) /\ u \in Trace
  <2>1. t.fed \in Seq(Nat)
    BY <1>1 DEF Trace
  <2>2. Append(t.fed, l) \in Seq(Nat)
    BY <1>1, <2>1
  <2>3. ASSUME NEW x \in Seq(Nat)
        PROVE  /\ [t EXCEPT !.fed = x] \in Trace
               /\ [t EXCEPT !.fed = x].fed = x
               /\ [t EXCEPT !.fed = x].passed = t.passed
    BY <1>1 DEF Trace
  <2> QED  BY <2>1, <2>2, <2>3
<1> HIDE DEF u
<1>3. Len(u.fed) = n + 1 /\ DOMAIN u.fed = 1..(n + 1) /\ u.fed[n + 1] = l
      /\ \A i \in 1..n : u.fed[i] = t.fed[i]
  BY <1>1, <1>2
<1>4. DOMAIN t.fed = 1..n
  BY <1>1, <1>2
<1>5. ToSet(t.fed) \cup {l} \subseteq ToSet(u.fed)
  <2>1. ASSUME NEW e \in ToSet(t.fed) PROVE e \in ToSet(u.fed)
    <3>1. PICK i \in DOMAIN t.fed : e = t.fed[i]
      BY DEF ToSet
    <3>2. i \in DOMAIN u.fed /\ u.fed[i] = e
      BY <1>1, <1>3, <1>4, <3>1
    <3> QED  BY <3>2 DEF ToSet
  <2>2. n + 1 \in DOMAIN u.fed
    BY <1>1, <1>3
  <2>3. l \in ToSet(u.fed)
    BY <1>3, <2>2 DEF ToSet
  <2> QED  BY <2>1, <2>3
<1>6. 0..((l + 1) - 1) \subseteq ToSet(u.fed) \cup u.passed
  <2>1. 0..((l + 1) - 1) = 0..(l - 1) \cup {l}
    BY <1>1
  <2> QED  BY <1>1, <1>2, <1>5, <2>1
<1>7. ASSUME u.passed = {} PROVE u.fed = [i \in 1..(l + 1) |-> i - 1]
  <2>1. t.fed = [i \in 1..l |-> i - 1]
    BY <1>1, <1>2, <1>7
  <2>2. l = n
    BY <1>1, <1>2, <2>1
  <2>3. \A i \in 1..n : u.fed[i] = i - 1
    BY <1>1, <1>3, <2>1, <2>2
  <2>4. \A i \in 1..(l + 1) : u.fed[i] = i - 1
    BY <1>1, <1>3, <2>2, <2>3
  <2>5. u.fed \in Seq(Nat)
    BY <1>2 DEF Trace
  <2> QED  BY <1>1, <1>3, <2>2, <2>4, <2>5
<1>8. Follows(u, n + 1, l + 1)
  BY <1>1, <1>2, <1>3, <1>6, <1>7 DEF Follows
<1> QED
  BY <1>8 DEF u

(* Passing over the next line.                                             *)
LEMMA FollowsPassed ==
  ASSUME NEW t, NEW n, NEW l, Follows(t, n, l)
  PROVE  Follows([t EXCEPT !.passed = @ \cup {l}], n, l + 1)
<1> DEFINE u == [t EXCEPT !.passed = @ \cup {l}]
<1>1. /\ t \in Trace /\ n \in Nat /\ l \in Nat /\ Len(t.fed) = n /\ n <= l
      /\ 0..(l - 1) \subseteq ToSet(t.fed) \cup t.passed
  BY DEF Follows
<1>2. u.fed = t.fed /\ u.passed = t.passed \cup {l} /\ u \in Trace
  BY <1>1 DEF Trace
<1> HIDE DEF u
<1>3. 0..((l + 1) - 1) = 0..(l - 1) \cup {l}
  BY <1>1
<1>4. Follows(u, n, l + 1)
  BY <1>1, <1>2, <1>3 DEF Follows
<1> QED
  BY <1>4 DEF u

(* The transcript tool: its memory was fed the lines up to the one it is   *)
(* at, and its snapshot never more than there are.                         *)
Tooling ==
  /\ trace \in Trace /\ traceSaved \in Trace
  /\ counted \in Nat \cup {Missing}
  /\ transcript \in Nat /\ known \in Nat /\ news \in Nat
  /\ pos \in 0..transcript \cup {Closed}
  /\ pos # Closed => /\ conf.client = "tool"
                     /\ known <= transcript
                     /\ Follows(trace, steps, IF pos < known THEN known ELSE pos)
  /\ conf.client = "tool" /\ Saved => /\ file.steps <= transcript
                                      /\ Follows(traceSaved, file.steps, file.steps)

Inv == Mem /\ Tooling /\ messages \in Seq(Nat \cup {Refused})

(* The invariant holds of a new memory, client by client.                  *)
LEMMA InitInv == Init => Inv
<1> SUFFICES ASSUME Init PROVE Inv
  OBVIOUS
<1> USE DEF Init, NativeInit, EngineInit, MemoryInit
<1>1. conf \in Confs /\ Banks(conf, hot, cold, steps) /\ pending = <<>> /\ h = 0 /\ file = NoFile
  BY EmptyBanks DEF Zeros
<1>2. DOMAIN pending = {} /\ pending \in Seq(ColdRecord)
  BY <1>1
<1>3. Core
  BY <1>1, <1>2 DEF Core, Waiting, Distinct, IdSet
<1>4. Mem
  BY <1>1, <1>3 DEF Mem, Saved
<1>5. Tooling
  BY <1>1, FollowsNone DEF Tooling, Saved
<1> QED
  BY <1>4, <1>5 DEF Inv

(* Outside the tool its variables mean nothing.                            *)
LEMMA NoTool ==
  ASSUME Tooling, conf' = conf, conf.client # "tool",
         transcript' = transcript, pos' = pos, known' = known, news' = news,
         trace' = trace, traceSaved' = traceSaved, counted' \in Nat \cup {Missing}
  PROVE  Tooling'
  BY DEF Tooling

(* A program that drives the memory itself.                                *)
LEMMA DirectInv ==
  ASSUME Inv, conf.client = "direct", DirectNext, UNCHANGED <<h, file, native, messages>>
  PROVE  Inv' /\ (Clear \/ Keeps)
<1>1. Core /\ conf' = conf /\ Tooling'
  BY NoTool DEF Inv, Mem, DirectNext, native, trail, Tooling
<1>2. Core' /\ (Clear \/ Keeps)
  BY <1>1, ObserveOK, ObserveWithRevisionOK, RestoreOK, ObserveRaisesOK, RetrieveOK, ClearOK
  DEF DirectNext
<1> QED
  BY <1>1, <1>2 DEF Inv, Mem, Engine, Saved

(* A program that uses ContinuumEngine.                                    *)
LEMMA EngineInv ==
  ASSUME Inv, conf.client = "engine", EngineNext, UNCHANGED <<native, messages>>
  PROVE  Inv' /\ (Load \/ steps' = 0 \/ Keeps)
<1>1. Mem /\ Engine /\ conf' = conf /\ Tooling'
  BY NoTool DEF Inv, EngineNext, native, trail, Tooling, Engine
<1>2. ASSUME NEW kind \in Kinds, Step(kind) PROVE Mem' /\ Keeps
  BY <1>1, <1>2, StepOK
<1>3. ASSUME Reset PROVE Mem' /\ steps' = 0
  BY <1>1, <1>3, FreshMem DEF Reset, Fresh
<1>4. ASSUME Save PROVE Mem' /\ Keeps
  BY <1>1, <1>4, SaveMem, SameKeeps DEF Save
<1>5. ASSUME CrashInSave PROVE Mem' /\ steps' = 0
  BY <1>1, <1>5, FreshMem DEF CrashInSave, Fresh
<1>6. ASSUME Load PROVE Mem'
  BY <1>1, <1>6, LoadMem
<1>7. messages' \in Seq(Nat \cup {Refused})
  BY DEF Inv
<1> QED
  BY <1>1, <1>2, <1>3, <1>4, <1>5, <1>6, <1>7 DEF EngineNext, Inv

(* A program that uses the native engine.                                  *)
LEMMA NativeInv ==
  ASSUME Inv, conf.client = "native", NativeNext, UNCHANGED messages
  PROVE  Inv' /\ (Load \/ steps' = 0 \/ Keeps)
<1>1. /\ Mem /\ Engine /\ conf' = conf /\ messages' \in Seq(Nat \cup {Refused})
      /\ transcript' = transcript /\ pos' = pos /\ known' = known /\ news' = news
      /\ trace' = trace /\ traceSaved' = traceSaved
      /\ Tooling /\ counted \in Nat \cup {Missing}
  BY DEF Inv, NativeNext, trail, Tooling, Engine
<1>2. ASSUME NEW kind \in Kinds, NativeStep(kind)
      PROVE  Mem' /\ Keeps /\ counted' \in Nat \cup {Missing}
  BY <1>1, <1>2, StepOK DEF NativeStep
<1>3. ASSUME NEW kind \in Kinds, NativeStepRaises(kind)
      PROVE  Mem' /\ Keeps /\ counted' \in Nat \cup {Missing}
  BY <1>1, <1>3, StepOK DEF NativeStepRaises
<1>4. ASSUME NativeSave, UNCHANGED counted
      PROVE  Mem' /\ Keeps /\ counted' \in Nat \cup {Missing}
  BY <1>1, <1>4, SaveMem, SameKeeps DEF NativeSave, Save
<1>5. ASSUME NativeLoad PROVE Mem' /\ Load /\ counted' \in Nat \cup {Missing}
  BY <1>1, <1>5, LoadMem DEF NativeLoad
<1>6. ASSUME NativeCreate PROVE Mem' /\ steps' = 0 /\ counted' \in Nat \cup {Missing}
  BY <1>1, <1>6, FreshMem DEF NativeCreate, Fresh
<1>7. Mem' /\ (Load \/ steps' = 0 \/ Keeps) /\ counted' \in Nat \cup {Missing}
  BY <1>2, <1>3, <1>4, <1>5, <1>6 DEF NativeNext
<1>8. Tooling'
  BY <1>1, <1>7, NoTool
<1> QED
  BY <1>1, <1>7, <1>8 DEF Inv

(* The transcript tool.                                                    *)
LEMMA ToolInv ==
  ASSUME Inv, conf.client = "tool", ToolNext, UNCHANGED messages
  PROVE  Inv' /\ (Load \/ steps' = 0 \/ Keeps)
<1>1. Mem /\ Engine /\ conf' = conf /\ conf'.client = "tool" /\ messages' \in Seq(Nat \cup {Refused})
  BY DEF Inv, ToolNext, Engine
<1>2. /\ counted \in Nat \cup {Missing} /\ transcript \in Nat /\ known \in Nat /\ news \in Nat
      /\ pos \in 0..transcript \cup {Closed}
      /\ trace \in Trace /\ traceSaved \in Trace
      /\ pos # Closed => /\ known <= transcript
                         /\ Follows(trace, steps, IF pos < known THEN known ELSE pos)
      /\ Saved => file.steps <= transcript /\ Follows(traceSaved, file.steps, file.steps)
      /\ steps \in Nat
      /\ Saved => file.steps \in Nat
  BY <1>1 DEF Inv, Tooling, Mem, Core, Banks
<1>3. ASSUME UNCHANGED <<memory, steps, h, file>>
      PROVE  Mem' /\ Keeps /\ (Saved' <=> Saved) /\ steps' = steps /\ file' = file
  <2>1. hot' = hot /\ cold' = cold /\ pending' = pending /\ steps' = steps /\ h' = h /\ file' = file
    BY <1>3 DEF memory
  <2> QED  BY <1>1, <1>3, <2>1, SameKeeps DEF Mem, Core, Waiting, Engine, Saved
<1>4. ASSUME AppendLine PROVE Mem' /\ Keeps /\ Tooling'
  <2>1. /\ transcript' = transcript + 1 /\ counted' = counted /\ pos' = pos
        /\ known' = known /\ news' = news /\ trace' = trace /\ traceSaved' = traceSaved
    BY <1>4 DEF AppendLine, trail
  <2>2. Mem' /\ Keeps /\ (Saved' <=> Saved) /\ steps' = steps /\ file' = file
    BY <1>3, <1>4 DEF AppendLine
  <2> QED  BY <1>1, <1>2, <2>1, <2>2 DEF Tooling
<1>5. ASSUME Open PROVE Mem' /\ Tooling' /\ (Load \/ steps' = 0)
  <2>1. /\ pos' = 0 /\ known' = steps' /\ news' = 0 /\ transcript' = transcript
        /\ traceSaved' = traceSaved /\ trace' = IF file = NoFile THEN NoTrace ELSE traceSaved
    BY <1>5 DEF Open
  <2>2. CASE file = NoFile /\ NativeCreate
    <3>1. Mem' /\ steps' = 0 /\ counted' = 0 /\ file' = file
      BY <1>1, <2>2, FreshMem DEF NativeCreate, Fresh, Zeros
    <3>2. Follows(trace', steps', IF pos' < known' THEN known' ELSE pos') /\ trace' \in Trace
      BY <2>1, <2>2, <3>1, FollowsNone
    <3> QED  BY <1>1, <1>2, <2>1, <2>2, <3>1, <3>2 DEF Tooling, Saved
  <2>3. CASE NativeLoad
    <3>1. Mem' /\ steps' = file.steps /\ counted' = Missing /\ file' = file /\ Saved /\ Load
      BY <1>1, <2>3, LoadMem DEF NativeLoad, Load
    <3>2. (IF pos' < known' THEN known' ELSE pos') = file.steps
      BY <1>2, <2>1, <3>1
    <3>3. trace' = traceSaved
      BY <2>1, <3>1 DEF Saved
    <3>4. Follows(trace', steps', IF pos' < known' THEN known' ELSE pos')
      BY <1>2, <3>1, <3>2, <3>3
    <3> QED  BY <1>1, <1>2, <2>1, <3>1, <3>3, <3>4 DEF Tooling, Saved
  <2> QED  BY <1>5, <2>2, <2>3 DEF Open
<1>6. ASSUME ReadKnown PROVE Mem' /\ Keeps /\ Tooling'
  <2>1. /\ pos # Closed /\ pos < transcript /\ pos' = pos + 1 /\ pos < known
        /\ transcript' = transcript /\ counted' = counted /\ known' = known /\ news' = news
        /\ trace' = trace /\ traceSaved' = traceSaved
    BY <1>6 DEF ReadKnown, Line, trail
  <2>2. Mem' /\ Keeps /\ (Saved' <=> Saved) /\ steps' = steps /\ file' = file
    BY <1>3, <1>6 DEF ReadKnown
  <2>3. pos \in Nat
    BY <1>2, <2>1
  <2>4. (IF pos' < known' THEN known' ELSE pos') = (IF pos < known THEN known ELSE pos)
    BY <1>2, <2>1, <2>3
  <2>5. Follows(trace', steps', IF pos' < known' THEN known' ELSE pos')
    BY <1>2, <2>1, <2>2, <2>4
  <2> QED  BY <1>1, <1>2, <2>1, <2>2, <2>3, <2>5 DEF Tooling
<1>7. ASSUME ReadNew PROVE Mem' /\ Keeps /\ Tooling'
  <2>1. /\ pos # Closed /\ pos < transcript /\ pos' = pos + 1 /\ pos >= known
        /\ transcript' = transcript /\ known' = known /\ traceSaved' = traceSaved
    BY <1>7 DEF ReadNew, Line
  <2>2. pos \in Nat
    BY <1>2, <2>1
  <2>3. Follows(trace, steps, pos) /\ (IF pos' < known' THEN known' ELSE pos') = pos + 1
    BY <1>2, <2>1, <2>2
  <2>4. CASE Feed
    <3>1. PICK kind \in Kinds :
            /\ Step(kind)
            /\ \/ counted # Missing /\ counted' = counted + 1 /\ news' = news + 1
               \/ counted' = counted /\ news' = news
      BY <2>4 DEF Feed, NativeStep, NativeStepRaises
    <3>2. Mem' /\ Keeps /\ steps' = steps + 1 /\ file' = file
      BY <1>1, <3>1, StepOK DEF Step
    <3>3. trace' = [trace EXCEPT !.fed = Append(@, pos)]
      BY <2>4 DEF Feed
    <3>4. Follows(trace', steps', IF pos' < known' THEN known' ELSE pos')
      BY <2>3, <3>2, <3>3, FollowsFed
    <3>5. trace' \in Trace
      BY <3>4 DEF Follows
    <3> QED  BY <1>1, <1>2, <2>1, <2>2, <3>1, <3>2, <3>4, <3>5 DEF Tooling, Saved
  <2>5. CASE PassOver
    <3>1. Mem' /\ Keeps /\ (Saved' <=> Saved) /\ steps' = steps /\ file' = file
      BY <1>3, <2>5 DEF PassOver
    <3>2. /\ trace' = [trace EXCEPT !.passed = @ \cup {pos}]
          /\ counted' = counted /\ news' = news
      BY <2>5 DEF PassOver
    <3>3. Follows(trace', steps', IF pos' < known' THEN known' ELSE pos')
      BY <2>3, <3>1, <3>2, FollowsPassed
    <3>4. trace' \in Trace
      BY <3>3 DEF Follows
    <3> QED  BY <1>1, <1>2, <2>1, <2>2, <3>1, <3>2, <3>3, <3>4 DEF Tooling
  <2> QED  BY <1>7, <2>4, <2>5 DEF ReadNew
<1>8. ASSUME Answer PROVE Mem' /\ Keeps /\ Tooling'
  <2>1. /\ pos = transcript /\ pos' = Closed
        /\ transcript' = transcript /\ counted' = counted /\ known' = known /\ news' = news
        /\ trace' = trace
    BY <1>8 DEF Answer
  <2>2. pos # Closed
    BY <1>2, <2>1, NativeAssumption
  <2>3. CASE UNCHANGED <<memory, steps, h, file, traceSaved>>
    BY <1>1, <1>2, <1>3, <2>1, <2>3 DEF Tooling
  <2>4. CASE Save /\ traceSaved' = trace
    <3>1. PICK lines \in Nat : lines <= transcript /\ Follows(trace, steps, lines)
      BY <1>2, <2>2, <2>1
    <3>2. Follows(trace, steps, steps) /\ steps <= transcript
      BY <1>2, <3>1, FollowsSaved
    <3>3. Mem' /\ file'.steps = steps /\ Keeps
      BY <1>1, <2>4, SaveMem, SameKeeps DEF Save
    <3> QED  BY <1>1, <1>2, <2>1, <2>4, <3>2, <3>3 DEF Tooling
  <2> QED  BY <1>8, <2>3, <2>4 DEF Answer, NativeSave
<1>9. ASSUME Kill PROVE Mem' /\ Keeps /\ Tooling'
  <2>1. /\ pos' = Closed
        /\ transcript' = transcript /\ counted' = counted /\ known' = known /\ news' = news
        /\ trace' = trace /\ traceSaved' = traceSaved
    BY <1>9 DEF Kill, trail
  <2>2. Mem' /\ Keeps /\ (Saved' <=> Saved) /\ steps' = steps /\ file' = file
    BY <1>3, <1>9 DEF Kill
  <2> QED  BY <1>1, <1>2, <2>1, <2>2 DEF Tooling
<1> QED
  BY <1>1, <1>4, <1>5, <1>6, <1>7, <1>8, <1>9 DEF ToolNext, Inv

(* The chat history.                                                       *)
LEMMA ChatInv ==
  ASSUME Inv, conf.client \in {"chat", "native_chat"}, ChatNext
  PROVE  Inv' /\ (Load \/ steps' = 0 \/ Keeps)
<1>1. /\ Mem /\ Engine /\ Tooling /\ steps \in Nat /\ conf.client # "tool"
      /\ messages \in Seq(Nat \cup {Refused}) /\ counted \in Nat \cup {Missing}
  BY DEF Inv, Tooling, Engine, Mem, Core, Banks
<1>2. /\ conf' = conf /\ transcript' = transcript /\ pos' = pos /\ known' = known
      /\ news' = news /\ trace' = trace /\ traceSaved' = traceSaved
  BY DEF ChatNext, trail
<1>3. ASSUME AddMessage
      PROVE  /\ Mem' /\ Keeps /\ counted' \in Nat \cup {Missing}
             /\ messages' \in Seq(Nat \cup {Refused})
  <2>1. PICK kind \in Kinds :
          Step(kind) /\ (counted' = counted \/ (counted # Missing /\ counted' = counted + 1))
    BY <1>3 DEF AddMessage, NativeStep
  <2>2. Mem' /\ Keeps
    BY <1>1, <1>2, <2>1, StepOK
  <2>3. messages' = Append(messages, steps)
    BY <1>3 DEF AddMessage
  <2>4. messages' \in Seq(Nat \cup {Refused})
    BY <1>1, <2>3
  <2> QED  BY <1>1, <2>1, <2>2, <2>4
<1>4. ASSUME UNCHANGED <<memory, steps, h, file>> PROVE Mem' /\ Keeps
  <2>1. hot' = hot /\ cold' = cold /\ pending' = pending /\ steps' = steps /\ h' = h /\ file' = file
    BY <1>4 DEF memory
  <2> QED  BY <1>1, <1>2, <1>4, <2>1, SameKeeps DEF Mem, Core, Waiting, Engine, Saved
<1>5. ASSUME AddMessageRaises
      PROVE  /\ Mem' /\ Keeps /\ counted' \in Nat \cup {Missing}
             /\ messages' \in Seq(Nat \cup {Refused})
  <2>1. messages' = Append(messages, Refused) /\ UNCHANGED <<memory, steps, h, file, counted>>
    BY <1>5 DEF AddMessageRaises
  <2>2. messages' \in Seq(Nat \cup {Refused})
    BY <1>1, <2>1
  <2> QED  BY <1>1, <1>4, <2>1, <2>2
<1>6. ASSUME ClearChat
      PROVE  /\ Mem' /\ steps' = 0 /\ counted' \in Nat \cup {Missing}
             /\ messages' \in Seq(Nat \cup {Refused})
  BY <1>1, <1>2, <1>6, FreshMem DEF ClearChat, Fresh
<1>7. ASSUME ClearChatRaises
      PROVE  /\ Mem' /\ Keeps /\ counted' \in Nat \cup {Missing}
             /\ messages' \in Seq(Nat \cup {Refused})
  <2>1. messages' = <<>> /\ UNCHANGED <<memory, steps, h, file, counted>>
    BY <1>7 DEF ClearChatRaises
  <2> QED  BY <1>1, <1>4, <2>1
<1>8. /\ Mem' /\ (Load \/ steps' = 0 \/ Keeps) /\ counted' \in Nat \cup {Missing}
      /\ messages' \in Seq(Nat \cup {Refused})
  BY <1>3, <1>5, <1>6, <1>7 DEF ChatNext
<1>9. Tooling'
  BY <1>1, <1>2, <1>8, NoTool
<1> QED
  BY <1>8, <1>9 DEF Inv

(* Every step keeps the invariant; all but a load, a loss of the whole     *)
(* memory and a clear keep what they should.                               *)
LEMMA NextInv ==
  ASSUME Inv, [Next]_vars
  PROVE  Inv' /\ (Load \/ steps' = 0 \/ Clear \/ Keeps)
<1>1. CASE Next
  BY <1>1, DirectInv, EngineInv, NativeInv, ToolInv, ChatInv DEF Next
<1>2. CASE UNCHANGED vars
  <2>1. /\ conf' = conf /\ UNCHANGED memory /\ steps' = steps /\ h' = h /\ file' = file
        /\ UNCHANGED native /\ messages' = messages
    BY <1>2 DEF vars, memory
  <2>2. Keeps
    BY <2>1, SameKeeps
  <2>3. Mem'
    BY <2>1 DEF memory, Inv, Mem, Core, Waiting, Engine, Saved
  <2>4. Tooling'
    BY <2>1 DEF native, trail, Inv, Tooling, Saved
  <2> QED  BY <2>1, <2>2, <2>3, <2>4 DEF Inv
<1> QED
  BY <1>1, <1>2

(***************************************************************************)
(* The pool.                                                               *)
(***************************************************************************)
(* What the steps of an engine come down to.                               *)
SameMemory == UNCHANGED <<memory, steps, h, file>>

(* Each of them steps, starts anew, saves, loads or leaves the memory.     *)
LEMMA Moves ==
  ASSUME Engine, [Next]_vars
  PROVE  /\ conf' = conf
         /\ \/ \E kind \in Kinds : Step(kind)
            \/ Fresh /\ (file' = file \/ file' = Torn)
            \/ Save
            \/ Load
            \/ SameMemory
<1>1. CASE conf.client = "engine" /\ EngineNext
  BY <1>1 DEF EngineNext, Reset, CrashInSave
<1>2. CASE conf.client = "native" /\ NativeNext
  BY <1>2 DEF NativeNext, NativeStep, NativeStepRaises, NativeSave, NativeLoad, NativeCreate
<1>3. CASE conf.client = "tool" /\ ToolNext
  <2>1. conf' = conf
    BY <1>3 DEF ToolNext
  <2>2. CASE AppendLine \/ ReadKnown \/ Kill
    BY <2>1, <2>2 DEF AppendLine, ReadKnown, Kill, SameMemory
  <2>3. CASE Open
    BY <2>1, <2>3 DEF Open, NativeCreate, NativeLoad
  <2>4. CASE ReadNew
    BY <2>1, <2>4 DEF ReadNew, Feed, PassOver, NativeStep, NativeStepRaises, SameMemory
  <2>5. CASE Answer
    BY <2>1, <2>5 DEF Answer, NativeSave, SameMemory
  <2> QED  BY <1>3, <2>2, <2>3, <2>4, <2>5 DEF ToolNext
<1>4. CASE conf.client \in {"chat", "native_chat"} /\ ChatNext
  BY <1>4 DEF ChatNext, AddMessage, NativeStep, AddMessageRaises, ClearChat, ClearChatRaises,
              SameMemory
<1>5. CASE UNCHANGED vars
  BY <1>5 DEF vars, memory, SameMemory
<1> QED
  BY <1>1, <1>2, <1>3, <1>4, <1>5 DEF Engine, Next

(* The slots of an archive; one of capacity 0 has one.                     *)
LEMMA MaxOne ==
  ASSUME NEW n \in Nat
  PROVE  Max({1, n}) = IF n >= 1 THEN n ELSE 1
<1>1. Max({1, n}) = CHOOSE x \in {1, n} : \A y \in {1, n} : x >= y
  BY DEF Max
<1>2. CASE n >= 1
  <2>1. \E x \in {1, n} : \A y \in {1, n} : x >= y  BY <1>2
  <2>2. \A x \in {1, n} : (\A y \in {1, n} : x >= y) => x = n  BY <1>2
  <2> QED  BY <1>1, <1>2, <2>1, <2>2
<1>3. CASE ~(n >= 1)
  <2>1. \E x \in {1, n} : \A y \in {1, n} : x >= y  BY <1>3
  <2>2. \A x \in {1, n} : (\A y \in {1, n} : x >= y) => x = 1  BY <1>3
  <2> QED  BY <1>1, <1>3, <2>1, <2>2
<1> QED
  BY <1>2, <1>3

(* An engine is out of slots exactly when both banks are full.             *)
LEMMA Slots ==
  ASSUME Mem, Engine
  PROVE  /\ Retained \in SUBSET Nat
         /\ Cardinality(Retained) < conf.hotCap + Max({1, conf.coldCap}) <=> ~Brimful
<1>1. /\ HotOK(hot) /\ ColdOK(cold) /\ IdSet(hot.recs) \cap IdSet(cold.recs) = {}
      /\ conf \in Confs /\ conf.client # "direct"
      /\ conf.mode = "fixed_budget" => Len(hot.recs) <= conf.hotCap
      /\ Len(cold.recs) <= conf.coldCap \/ Len(cold.recs) <= 1
  BY DEF Mem, Core, Banks, Engine
<1>2. conf.mode = "fixed_budget" /\ conf.hotCap \in Nat /\ conf.coldCap \in Nat
  BY <1>1, ConfFacts
<1>3. /\ IsFiniteSet(IdSet(hot.recs)) /\ Cardinality(IdSet(hot.recs)) = Len(hot.recs)
      /\ IsFiniteSet(IdSet(cold.recs)) /\ Cardinality(IdSet(cold.recs)) = Len(cold.recs)
      /\ Len(hot.recs) \in Nat /\ Len(cold.recs) \in Nat
      /\ cold.recs # <<>> <=> Len(cold.recs) > 0
  BY <1>1, CountIds DEF HotOK, ColdOK
<1>4. Cardinality({}) = 0
  BY FS_EmptySet
<1>5. Cardinality(Retained) = Len(hot.recs) + Len(cold.recs)
  <2> DEFINE S == IdSet(hot.recs)
             T == IdSet(cold.recs)
  <2>1. Cardinality(S \cup T) = Cardinality(S) + Cardinality(T) - Cardinality(S \cap T)
    BY <1>3, FS_Union
  <2>2. Cardinality(S \cap T) = 0 /\ Retained = S \cup T
    BY <1>1, <1>4, HeldIs
  <2> HIDE DEF S, T
  <2>3. Cardinality(S \cup T) = Cardinality(S) + Cardinality(T) /\ Retained = S \cup T
    <3>1. Cardinality(S) \in Nat /\ Cardinality(T) \in Nat  BY <1>3 DEF S, T
    <3> QED  BY <2>1, <2>2, <3>1
  <2> QED  BY <1>3, <2>3 DEF S, T
<1>6. Brimful <=> Len(hot.recs) >= conf.hotCap /\ Len(cold.recs) >= conf.coldCap /\ Len(cold.recs) > 0
  BY <1>3 DEF Brimful, AtLimit
<1>7. Cardinality(Retained) < conf.hotCap + Max({1, conf.coldCap}) <=> ~Brimful
  <2> DEFINE x == Len(hot.recs)
             y == Len(cold.recs)
             m == conf.hotCap
             n == conf.coldCap
             slots == Max({1, n})
             card == Cardinality(Retained)
  <2>1. /\ x \in Nat /\ y \in Nat /\ m \in Nat /\ n \in Nat /\ x <= m /\ (y <= n \/ y <= 1)
        /\ card = x + y /\ slots = IF n >= 1 THEN n ELSE 1
        /\ Brimful <=> x >= m /\ y >= n /\ y > 0
    BY <1>1, <1>2, <1>3, <1>5, <1>6, MaxOne
  <2> HIDE DEF x, y, m, n, slots, card
  <2>2. card < m + slots <=> ~(x >= m /\ y >= n /\ y > 0)
    <3>1. CASE n >= 1
      <4>1. slots = n  BY <2>1, <3>1
      <4> QED  BY <2>1, <3>1, <4>1
    <3>2. CASE n = 0
      <4>1. slots = 1  BY <2>1, <3>2
      <4> QED  BY <2>1, <3>2, <4>1
    <3> QED  BY <2>1, <3>1, <3>2
  <2> QED  BY <2>1, <2>2 DEF card, m, slots, n
<1>8. Retained \in SUBSET Nat
  BY BanksNat, HeldIs DEF Mem, Core
<1> QED
  BY <1>7, <1>8

(* The pool counts as its user does.                                       *)
LEMMA SameCount ==
  ASSUME NEW S
  PROVE  Pool!Cardinality(S) = Cardinality(S)
  BY DEF Pool!Cardinality, Cardinality

(* Every step of an engine is a step of the pool, or none.                 *)
LEMMA PoolStep ==
  ASSUME Inv, Inv', [Next]_vars
  PROVE  [Pool!Next]_(Pool!vars)
<1> DEFINE slots == IF Engine THEN conf.hotCap + Max({1, conf.coldCap}) ELSE 0
           whole == [next |-> file.steps, kept |-> Ids(file.hot) \cup Ids(file.cold)]
<1>1. CASE ~Engine
  <2>1. Next => DirectNext /\ file' = file
    BY <1>1 DEF Engine, Next
  <2>2. conf' = conf /\ file' = file
    BY <2>1 DEF DirectNext, vars
  <2>3. ~Engine' /\ (Saved' <=> Saved)
    BY <1>1, <2>2 DEF Engine, Saved
  <2> QED  BY <1>1, <2>2, <2>3 DEF Pool!vars
<1>2. CASE Engine
  <2>1. /\ conf' = conf /\ Mem /\ Mem' /\ Engine'
        /\ \/ \E kind \in Kinds : Step(kind)
           \/ Fresh /\ (file' = file \/ file' = Torn)
           \/ Save
           \/ Load
           \/ SameMemory
    BY <1>2, Moves DEF Inv, Engine
  <2>2. slots' = slots /\ steps \in Nat /\ Retained \in SUBSET Nat
    BY <1>2, <2>1, Slots DEF Mem, Core, Banks
  <2>3. file' = file => (IF Saved THEN whole ELSE Nothing)' = IF Saved THEN whole ELSE Nothing
    BY DEF Saved
  <2>4. ASSUME NEW kind \in Kinds, Step(kind) PROVE Pool!Accept
    <3>1. steps' = steps + 1 /\ Grows /\ file' = file
      BY <1>2, <2>1, <2>4, StepOK DEF Step
    <3> DEFINE kept == IF Engine THEN Retained ELSE {}
               next == IF Engine THEN steps ELSE 0
               saved == IF Saved THEN whole ELSE Nothing
    <3>2. Cardinality(kept) < slots <=> ~Brimful
      <4>1. kept = Retained /\ slots = conf.hotCap + Max({1, conf.coldCap})  BY <1>2
      <4> HIDE DEF slots, kept
      <4> QED  BY <1>2, <2>1, <4>1, Slots
    <3>3. kept = Retained /\ kept' = Retained' /\ next' = next + 1 /\ next = steps /\ saved' = saved
      BY <1>2, <2>1, <2>3, <3>1
    <3> HIDE DEF slots, kept, next, saved
    <3>4. IF Cardinality(kept) < slots
          THEN kept' = kept \cup {next}
          ELSE \E victim \in kept : kept' = (kept \ {victim}) \cup {next}
      <4>1. CASE Brimful
        <5>1. PICK w \in IdSet(cold.recs) : Retained' = (Retained \ {w}) \cup {steps}
          BY <3>1, <4>1 DEF Grows
        <5>2. w \in kept
          BY <3>3, HeldIs
        <5> QED  BY <3>2, <3>3, <4>1, <5>1, <5>2
      <4>2. CASE ~Brimful
        BY <3>1, <3>2, <3>3, <4>2 DEF Grows
      <4> QED  BY <4>1, <4>2
    <3>5. next' = next + 1 /\ saved' = saved /\ Pool!Cardinality(kept) = Cardinality(kept)
      BY <3>3, SameCount
    <3>6. IF Pool!Cardinality(kept) < slots
          THEN kept' = kept \cup {next}
          ELSE \E victim \in kept : kept' = (kept \ {victim}) \cup {next}
      BY <3>4, <3>5
    <3> USE DEF slots, kept, next, saved
    <3> QED  BY <3>5, <3>6 DEF Pool!Accept
  <2>5. ASSUME Fresh, file' = file \/ file' = Torn PROVE Pool!Lose
    <3>1. steps' = 0 /\ hot'.recs = <<>> /\ cold'.recs = <<>>
      BY <2>5 DEF Fresh, EmptyHot, Hot, EmptyCold
    <3>2. Retained' = {}
      BY <3>1, HeldIs DEF IdSet
    <3>3. file' = Torn => ~Saved'
      BY DEF Saved
    <3> QED  BY <1>2, <2>1, <2>3, <2>5, <3>1, <3>2, <3>3 DEF Pool!Lose
  <2>6. ASSUME Save PROVE Pool!Save
    <3>1. /\ hot' = hot /\ cold' = cold /\ steps' = steps
          /\ file' = [status |-> "whole", steps |-> steps, h |-> h,
                      hot |-> WithLast(hot, Zeros), cold |-> cold]
      BY <2>6 DEF Save, memory
    <3>2. /\ file'.status = "whole" /\ file'.steps = steps
          /\ file'.hot = WithLast(hot, Zeros) /\ file'.cold = cold
      BY <3>1
    <3>3. Saved'
      BY <3>2 DEF Saved, NoFile, Torn
    <3>4. file'.hot.recs = hot.recs
      BY <3>2 DEF WithLast, Hot
    <3>5. whole' = [next |-> steps, kept |-> Retained]
      BY <3>2, <3>4 DEF Retained, Ids
    <3>6. Retained' = Retained
      BY <3>1 DEF Retained
    <3> QED  BY <1>2, <2>1, <3>1, <3>3, <3>5, <3>6 DEF Pool!Save
  <2>7. ASSUME Load PROVE Pool!Load
    <3>1. /\ Saved /\ hot' = file.hot /\ cold' = file.cold /\ steps' = file.steps /\ file' = file
      BY <2>7 DEF Load
    <3>2. Retained' = whole.kept /\ steps' = whole.next
      BY <3>1 DEF Retained
    <3>3. steps' \in Nat /\ Retained' \in SUBSET Nat
      <4>1. Banks(conf, hot', cold', steps')  BY <2>1, <3>1 DEF Mem
      <4> QED  BY <4>1, BanksNat, HeldIs
    <3>4. whole # Nothing
      <4>1. whole \in [next : Nat, kept : SUBSET Nat]
        BY <3>2, <3>3
      <4> QED  BY <4>1, ClientsAssumption
    <3> QED  BY <1>2, <2>1, <2>3, <3>1, <3>2, <3>4 DEF Pool!Load
  <2>8. ASSUME SameMemory PROVE UNCHANGED Pool!vars
    BY <1>2, <2>1, <2>3, <2>8 DEF SameMemory, memory, Retained, Pool!vars
  <2>9. Pool!Next \/ UNCHANGED Pool!vars
    BY <2>1, <2>2, <2>4, <2>5, <2>6, <2>7, <2>8, <1>2 DEF Pool!Next
  <2> QED  BY <2>9
<1> QED
  BY <1>1, <1>2

(***************************************************************************)
(* The theorems.                                                           *)
(***************************************************************************)
LEMMA Always == Spec => []Inv
<1>1. Inv /\ [Next]_vars => Inv'
  BY NextInv
<1> QED
  BY InitInv, <1>1, PTL DEF Spec

(* What the invariant says, property by property.                          *)
LEMMA InvTypeOK == Inv => TypeOK
<1> SUFFICES ASSUME Inv PROVE TypeOK
  OBVIOUS
<1>1. HotOK(hot) /\ ColdOK(cold) /\ steps \in Nat /\ conf \in Confs /\ h \in Nat
  BY DEF Inv, Mem, Core, Banks
<1>2. Aligned(hot)
  <2> DEFINE recs == hot.recs
             rows == hot.rows
  <2>1. /\ recs \in Seq(HotRecord) /\ rows \in Seq(Kinds) /\ Len(rows) = Len(recs)
        /\ \A i \in DOMAIN recs : rows[i] = recs[i].kind
    BY <1>1 DEF HotOK
  <2> HIDE DEF recs, rows
  <2>2. rows = [i \in DOMAIN recs |-> recs[i].kind]
    BY <2>1
  <2> QED  BY <2>2 DEF Aligned, recs, rows
<1>3. Aligned(cold)
  BY <1>1 DEF ColdOK, Aligned
<1>4. hot.access \in [DOMAIN hot.recs -> Nat]
  BY <1>1 DEF HotOK
<1>5. \A id \in DOMAIN hot.states : hot.states[id] \in Nat
  <2>1. \A id \in IdSet(hot.recs) : id \in Nat
    BY BanksNat DEF Inv, Mem, Core
  <2> QED  BY <1>1, <2>1 DEF HotOK
<1>6. hot.recs \in Seq(HotRecord) /\ hot.last \in Nat /\ cold.recs \in Seq(ColdRecord)
  BY <1>1 DEF HotOK, ColdOK
<1>7. pending \in Seq(ColdRecord) /\ messages \in Seq(Nat \cup {Refused})
  BY DEF Inv, Mem, Core, Waiting
<1>8. /\ counted \in Nat \cup {Missing}
      /\ transcript \in Nat /\ known \in Nat /\ news \in Nat
      /\ pos \in 0..transcript \cup {Closed}
      /\ trace \in Trace /\ traceSaved \in Trace
  BY DEF Inv, Tooling
<1> QED
  BY <1>1, <1>2, <1>3, <1>4, <1>5, <1>6, <1>7, <1>8 DEF TypeOK

(* Distinct identifiers, in the terms of the property.                     *)
LEMMA InvOnce == Inv => EachEventOnce
<1> SUFFICES ASSUME Inv PROVE EachEventOnce
  OBVIOUS
<1>1. /\ Distinct(hot.recs) /\ Distinct(cold.recs)
      /\ IdSet(hot.recs) \cap IdSet(cold.recs) = {}
      /\ IdSet(pending) \cap IdSet(hot.recs) = {}
      /\ \A id \in IdSet(hot.recs) \cup IdSet(cold.recs) : id < steps
  BY DEF Inv, Mem, Core, Waiting, Banks, HotOK, ColdOK
<1>2. IsInjective([i \in DOMAIN hot.recs |-> hot.recs[i].id])
  BY <1>1 DEF IsInjective, Distinct
<1>3. IsInjective([i \in DOMAIN cold.recs |-> cold.recs[i].id])
  BY <1>1 DEF IsInjective, Distinct
<1>4. Ids(hot) = IdSet(hot.recs) /\ Ids(cold) = IdSet(cold.recs)
  BY DEF Ids, ToSet, IdSet
<1>5. \A i \in DOMAIN pending : pending[i].id \in IdSet(pending)
  BY DEF IdSet
<1> QED
  BY <1>1, <1>2, <1>3, <1>4, <1>5 DEF EachEventOnce, Retained

(* The limits, in the terms of the property.                               *)
LEMMA InvBounded == Inv => Bounded
<1> SUFFICES ASSUME Inv PROVE Bounded
  OBVIOUS
<1>1. /\ conf.coldCap \in Nat
      /\ conf.mode = "fixed_budget" => Len(hot.recs) <= conf.hotCap
      /\ Len(cold.recs) <= conf.coldCap \/ Len(cold.recs) <= 1
      /\ Len(cold.recs) \in Nat
  BY ConfFacts DEF Inv, Mem, Core, Banks, ColdOK
<1>2. Max({1, conf.coldCap}) = IF conf.coldCap >= 1 THEN conf.coldCap ELSE 1
  BY <1>1, MaxOne
<1>3. Len(cold.recs) <= Max({1, conf.coldCap})
  BY <1>1, <1>2
<1> QED
  BY <1>1, <1>3 DEF Bounded

(* The states of both banks, in the order in which query scores them.      *)
LEMMA InvOwn == Inv => FingerprintOwn
<1> SUFFICES ASSUME Inv PROVE FingerprintOwn
  OBVIOUS
<1>1. /\ HotOK(hot) /\ ColdOK(cold)
      /\ Engine => Stated(hot) /\ ColdOwn(cold)
  BY DEF Inv, Mem, Core, Banks, Engine
<1>2. DOMAIN hot.states \subseteq Ids(hot) /\ \A id \in DOMAIN hot.states : hot.states[id] = id + 1
  BY <1>1 DEF HotOK, IdSet, Ids, ToSet
<1>3. ASSUME Engine PROVE \A i \in DOMAIN QueryCandidates :
                            QueryCandidates[i].state = QueryCandidates[i].id + 1
  <2> DEFINE own(r) == r.state = r.id + 1
             scored == [i \in DOMAIN hot.recs |->
                         [Candidate(hot, i) EXCEPT !.state =
                            IF hot.recs[i].id \in DOMAIN hot.states THEN @ ELSE Folded(h)]]
  <2>1. \A i \in DOMAIN cold.recs : own(cold.recs[i])
    BY <1>1, <1>3 DEF ColdOwn
  <2>2. ASSUME NEW i \in DOMAIN hot.recs PROVE own(scored[i])
    <3> DEFINE id == hot.recs[i].id
    <3>1. id \in IdSet(hot.recs)
      BY DEF IdSet
    <3>2. id \in DOMAIN hot.states /\ hot.states[id] = id + 1
      BY <1>1, <1>3, <3>1 DEF Stated, HotOK
    <3>3. Candidate(hot, i) = [id |-> id, kind |-> hot.recs[i].kind, imp |-> hot.recs[i].imp,
                               state |-> id + 1]
      BY <3>2 DEF Candidate
    <3>4. scored[i] = [id |-> id, kind |-> hot.recs[i].kind, imp |-> hot.recs[i].imp,
                       state |-> id + 1]
      BY <3>2, <3>3
    <3> HIDE DEF id, scored
    <3> QED  BY <3>4
  <2>3. cold.recs \in Seq(ColdRecord) /\ hot.recs \in Seq(HotRecord)
    BY <1>1 DEF HotOK, ColdOK
  <2>4. QueryCandidates = cold.recs \o scored
    BY DEF QueryCandidates
  <2>5. scored \in Seq({scored[i] : i \in DOMAIN hot.recs}) /\ DOMAIN scored = DOMAIN hot.recs
    BY <2>3
  <2> HIDE DEF own, scored
  <2>6. ASSUME NEW i \in DOMAIN (cold.recs \o scored)
        PROVE  own((cold.recs \o scored)[i])
    <3>1. CASE i \in 1..Len(cold.recs)
      <4>1. (cold.recs \o scored)[i] = cold.recs[i] /\ i \in DOMAIN cold.recs
        BY <2>3, <2>5, <3>1
      <4> QED  BY <2>1, <4>1
    <3>2. CASE i \notin 1..Len(cold.recs)
      <4>1. /\ (cold.recs \o scored)[i] = scored[i - Len(cold.recs)]
            /\ i - Len(cold.recs) \in DOMAIN scored
        BY <2>3, <2>5, <3>2
      <4> QED  BY <2>2, <2>5, <4>1
    <3> QED  BY <3>1, <3>2
  <2> QED  BY <2>4, <2>6 DEF own
<1> QED
  BY <1>2, <1>3 DEF FingerprintOwn

(* Every variable holds what its field is declared to hold, and the rows   *)
(* and access times stay in step with the records.                         *)
THEOREM MemoryTypes == Spec => []TypeOK
  BY Always, InvTypeOK, PTL

(* No event is held twice, whatever the policy, the capacities and the     *)
(* order of evictions, restorations, resets and loads.                     *)
THEOREM EventsOnce == Spec => []EachEventOnce
  BY Always, InvOnce, PTL

(* The hot bank and the archive stay within their capacities.              *)
THEOREM WithinBudget == Spec => []Bounded
  BY Always, InvBounded, PTL

(* A record is scored with the state its own event led to.                 *)
THEOREM OwnFingerprints == Spec => []FingerprintOwn
  BY Always, InvOwn, PTL

(* The running tool has fed its memory every line up to its own, but those *)
(* a failure passed over; if there was none, each once and in order.       *)
THEOREM WholeTranscript == Spec => []TranscriptWhole
<1>1. Inv => TranscriptWhole
  BY DEF Inv, Tooling, Follows, TranscriptWhole
<1> QED
  BY Always, <1>1, PTL

(* A message joins the history together with its event, or without one, and*)
(* both are cleared together, or the messages alone when reset fails.      *)
LEMMA ChatStep ==
  ASSUME Inv, ChatInStep, [Next]_vars
  PROVE  ChatInStep'
<1> SUFFICES ASSUME conf'.client \in {"chat", "native_chat"} PROVE ChatInStep'
  BY DEF ChatInStep
<1>1. conf' = conf
  BY DEF Next, vars, DirectNext, EngineNext, NativeNext, ToolNext, ChatNext
<1>2. /\ steps \in Nat /\ messages \in Seq(Nat \cup {Refused})
      /\ \A i, j \in DOMAIN messages :
           (i < j /\ Refused \notin {messages[i], messages[j]}) => messages[i] < messages[j]
  BY <1>1 DEF Inv, Mem, Core, Banks, ChatInStep
<1>3. DOMAIN messages = 1..Len(messages) /\ Len(messages) \in Nat
  BY <1>2
<1>4. ASSUME NEW e \in Nat \cup {Refused}, messages' = Append(messages, e)
      PROVE  /\ DOMAIN messages' = 1..(Len(messages) + 1)
             /\ \A i \in DOMAIN messages : messages'[i] = messages[i]
             /\ messages'[Len(messages) + 1] = e
             /\ ToSet(messages') = ToSet(messages) \cup {e}
  <2>1. /\ DOMAIN messages' = 1..(Len(messages) + 1)
        /\ \A i \in DOMAIN messages : messages'[i] = messages[i]
        /\ messages'[Len(messages) + 1] = e
    BY <1>2, <1>3, <1>4
  <2> QED  BY <1>3, <2>1 DEF ToSet
<1>5. PICK first \in 0..steps :
        /\ ToSet(messages) \ {Refused} = first..(steps - 1)
        /\ conf.client = "chat" => first = 0
  BY <1>1 DEF ChatInStep
<1>6. ASSUME AddMessage PROVE ChatInStep'
  <2>1. messages' = Append(messages, steps) /\ steps' = steps + 1
    BY <1>6 DEF AddMessage, NativeStep, Step, MoreEvents
  <2>2. ToSet(messages') = ToSet(messages) \cup {steps} /\ steps # Refused
    BY <1>2, <1>4, <2>1, ClientsAssumption
  <2>3. ToSet(messages') \ {Refused} = first..(steps' - 1) /\ first \in 0..steps'
    <3>1. first..((steps + 1) - 1) = first..(steps - 1) \cup {steps}
      BY <1>5, <1>2
    <3>2. first \in 0..(steps + 1)
      BY <1>5, <1>2
    <3>3. ToSet(messages') \ {Refused} = (ToSet(messages) \ {Refused}) \cup {steps}
      BY <2>2
    <3>4. ToSet(messages) \ {Refused} = first..(steps - 1)
      BY <1>5
    <3>5. ToSet(messages') \ {Refused} = first..((steps + 1) - 1)
      BY <3>1, <3>3, <3>4
    <3> QED  BY <2>1, <3>2, <3>5
  <2>4. ASSUME NEW i \in DOMAIN messages', NEW j \in DOMAIN messages', i < j,
               Refused \notin {messages'[i], messages'[j]}
        PROVE  messages'[i] < messages'[j]
    <3>1. i \in DOMAIN messages /\ messages'[i] = messages[i]
      BY <1>2, <1>3, <1>4, <2>1, <2>4
    <3>2. messages[i] \in ToSet(messages) \ {Refused}
      BY <2>4, <3>1 DEF ToSet
    <3>5. messages[i] \in first..(steps - 1)
      BY <1>5, <3>2
    <3>6. messages[i] < steps
      BY <1>5, <1>2, <3>5
    <3>3. CASE j \in DOMAIN messages
      BY <1>2, <1>4, <2>1, <2>4, <3>1, <3>3
    <3>4. CASE j = Len(messages) + 1
      BY <1>2, <1>4, <2>1, <3>1, <3>4, <3>6
    <3> QED  BY <1>2, <1>3, <1>4, <2>1, <2>4, <3>3, <3>4
  <2>5. conf'.client = "chat" => first = 0
    BY <1>1, <1>5
  <2> QED  BY <2>3, <2>4, <2>5 DEF ChatInStep
<1>7. ASSUME AddMessageRaises PROVE ChatInStep'
  <2>1. messages' = Append(messages, Refused) /\ steps' = steps
    BY <1>7 DEF AddMessageRaises
  <2>2. ToSet(messages') \ {Refused} = first..(steps' - 1) /\ first \in 0..steps'
    <3>1. ToSet(messages') \ {Refused} = ToSet(messages) \ {Refused}
      BY <1>4, <2>1
    <3> QED  BY <1>5, <2>1, <3>1
  <2>3. ASSUME NEW i \in DOMAIN messages', NEW j \in DOMAIN messages', i < j,
               Refused \notin {messages'[i], messages'[j]}
        PROVE  messages'[i] < messages'[j]
    BY <1>2, <1>3, <1>4, <2>1, <2>3
  <2>4. conf'.client = "chat" => first = 0
    BY <1>1, <1>5
  <2> QED  BY <2>2, <2>3, <2>4 DEF ChatInStep
<1>8. ASSUME ClearChat PROVE ChatInStep'
  <2>1. messages' = <<>> /\ steps' = 0
    BY <1>8 DEF ClearChat, Fresh
  <2>2. ToSet(messages') \ {Refused} = 0..(0 - 1) /\ DOMAIN messages' = {} /\ 0 \in 0..0
    BY <2>1 DEF ToSet
  <2> QED  BY <2>1, <2>2 DEF ChatInStep
<1>9. ASSUME ClearChatRaises PROVE ChatInStep'
  <2>1. messages' = <<>> /\ steps' = steps /\ conf'.client # "chat"
    BY <1>1, <1>9 DEF ClearChatRaises
  <2>2. ToSet(messages') \ {Refused} = steps..(steps - 1) /\ DOMAIN messages' = {} /\ steps \in 0..steps
    BY <1>2, <2>1 DEF ToSet
  <2> QED  BY <2>1, <2>2 DEF ChatInStep
<1>10. CASE UNCHANGED vars
  BY <1>1, <1>10 DEF vars, ChatInStep
<1> QED
  BY <1>1, <1>6, <1>7, <1>8, <1>9, <1>10 DEF Next, ChatNext

(* The messages that gave an event are the engine's latest, in order, and  *)
(* of a Python engine all.                                                 *)
THEOREM ChatCorresponds == Spec => []ChatInStep
<1>1. Init => ChatInStep
  <2> SUFFICES ASSUME Init PROVE ChatInStep
    OBVIOUS
  <2>1. messages = <<>> /\ steps = 0
    BY DEF Init, NativeInit, EngineInit, MemoryInit
  <2>2. ToSet(messages) \ {Refused} = 0..(0 - 1) /\ DOMAIN messages = {} /\ 0 \in 0..0
    BY <2>1 DEF ToSet
  <2> QED  BY <2>1, <2>2 DEF ChatInStep
<1>2. Inv /\ ChatInStep /\ [Next]_vars => ChatInStep'
  BY ChatStep
<1> QED
  BY Always, <1>1, <1>2, PTL DEF Spec

(* An event is forgotten only when both banks are full.                    *)
THEOREM NoEarlyLoss == Spec => LossOnlyWhenFull
<1> DEFINE Allowed == (~(Held \subseteq Held') /\ steps' > 0 /\ hot' # EmptyHot /\ conf.archive /\ ~Load)
                        => Full(hot) /\ Len(cold.recs) >= conf.coldCap
<1>1. Inv /\ [Next]_vars => Allowed
  <2> SUFFICES ASSUME Inv, [Next]_vars PROVE Allowed
    OBVIOUS
  <2>1. CASE Load \/ steps' = 0
    BY <2>1
  <2>2. CASE Clear
    BY <2>2 DEF Clear
  <2>3. CASE Keeps
    BY <2>3 DEF Keeps, Brimful, AtLimit, Full
  <2> QED  BY <2>1, <2>2, <2>3, NextInv
<1>2. [][Allowed]_vars => LossOnlyWhenFull
  BY PTL DEF LossOnlyWhenFull
<1> HIDE DEF Allowed
<1>3. Spec => [][Allowed]_vars
  BY Always, <1>1, PTL DEF Spec
<1> QED
  BY <1>2, <1>3, PTL

(* A diversified archive that has room for its kinds loses none.           *)
THEOREM StormProof == Spec => StormSafe
<1> DEFINE Allowed == (conf.diverse /\ steps' > 0 /\ ~Load /\ Cardinality(ToSet(cold.rows)) < conf.coldCap)
                        => \A kind \in ToSet(cold.rows) \ ToSet(cold'.rows) :
                             pending # <<>> /\ kind = Head(pending).kind
<1>1. Inv /\ [Next]_vars => Allowed
  <2> SUFFICES ASSUME Inv, [Next]_vars PROVE Allowed
    OBVIOUS
  <2>1. CASE Load \/ steps' = 0
    BY <2>1
  <2>2. CASE Clear
    BY <2>2 DEF Clear
  <2>3. CASE Keeps
    BY <2>3 DEF Keeps
  <2> QED  BY <2>1, <2>2, <2>3, NextInv
<1>2. [][Allowed]_vars => StormSafe
  BY PTL DEF StormSafe
<1> HIDE DEF Allowed
<1>3. Spec => [][Allowed]_vars
  BY Always, <1>1, PTL DEF Spec
<1> QED
  BY <1>2, <1>3, PTL

(* An engine implements a pool of hot_capacity + cold_capacity events, of  *)
(* which none is forgotten while a slot is free.                           *)
THEOREM EngineIsPool == Spec => ActsAsPool
<1>1. Init => Pool!Init
  <2> SUFFICES ASSUME Init PROVE Pool!Init
    OBVIOUS
  <2>1. /\ conf \in Confs /\ steps = 0 /\ file = NoFile
        /\ hot.recs = <<>> /\ cold.recs = <<>>
    BY DEF Init, NativeInit, EngineInit, MemoryInit, EmptyHot, Hot, EmptyCold
  <2>2. Retained = {} /\ ~Saved
    BY <2>1, HeldIs DEF IdSet, Saved
  <2>3. conf.hotCap + Max({1, conf.coldCap}) \in Nat
    <3>1. conf.hotCap \in Nat /\ conf.coldCap \in Nat
      BY <2>1, ConfFacts
    <3>2. Max({1, conf.coldCap}) \in Nat
      BY <3>1, MaxOne
    <3> QED  BY <3>1, <3>2
  <2> QED  BY <2>1, <2>2, <2>3 DEF Pool!Init
<1>2. Inv /\ Inv' /\ [Next]_vars => [Pool!Next]_(Pool!vars)
  BY PoolStep
<1> QED
  BY Always, <1>1, <1>2, PTL DEF Spec, ActsAsPool, Pool!Spec
=============================================================================

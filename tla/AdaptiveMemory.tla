---------------------------- MODULE AdaptiveMemory ----------------------------
(***************************************************************************)
(* AdaptiveMemory with its cold archive and its revision engine, as the    *)
(* Python package's own users drive them (adaptive_memory.py,              *)
(* cold_memory.py, revision_engine.py).  One thread calls; a call of       *)
(* observe_with_revision is the observation followed by one Restore per    *)
(* restoration it has decided on, and nothing comes between them.          *)
(*                                                                         *)
(* Scores are nondeterministic: an importance is any level, a revision     *)
(* picks any candidates it searched, and only comparisons of levels are    *)
(* kept.  The running statistics and the telemetry are left out.           *)
(***************************************************************************)
EXTENDS MemoryTiers

CONSTANTS
  Confs,            \* the ways a memory is built and used, see Conf
  MaxImportance,    \* importances are levels 1..MaxImportance
  Trigger,          \* theta_trigger: above it an event starts a revision
  Floor,            \* the level of the 0.85 a restored record has at least
  MaxRestorations,  \* max_restorations_per_trigger
  MaxRetrievals     \* bound: how far retrievals move an access time

(* horizon bounds the events a client feeds in; archive says whether calls *)
(* pass a cold memory, diverse which one, saving whether the client saves. *)
Conf == [client : {"direct", "engine", "chat", "native_chat", "native", "tool"},
         mode : {"fixed_budget", "threshold"},
         policy : {"min_importance", "fifo", "random", "lru"},
         hotCap : Nat \ {0}, archive : BOOLEAN, diverse : BOOLEAN, coldCap : Nat,
         saving : BOOLEAN, horizon : Nat]

ASSUME MemoryAssumption ==
  /\ Confs \subseteq Conf
  /\ \A c \in Confs : c.client # "direct" =>
       c.mode = "fixed_budget" /\ c.policy = "min_importance" /\ c.archive /\ c.diverse
  /\ MaxImportance \in Nat \ {0}
  /\ Trigger \in 1..MaxImportance
  /\ Floor \in 1..MaxImportance
  /\ MaxRestorations \in Nat
  /\ MaxRetrievals \in Nat

VARIABLES
  conf,
  hot,      \* AdaptiveMemory: records, embeddings_tensor, last_access_time,
            \* _record_states, last_state
  cold,     \* ColdCandidateMemory
  pending,  \* candidates a running revision has yet to restore
  steps     \* events fed in so far: the identifier and the time of the next

memory == <<hot, cold, pending>>

Importance == 1..MaxImportance
HotRecord == [id : Nat, kind : Kinds, imp : Importance]
ColdRecord == [id : Nat, kind : Kinds, imp : Importance, state : Nat]

(* AdaptiveMemory.__init__ and ColdCandidateMemory.__init__                *)
MemoryInit ==
  /\ conf \in Confs
  /\ hot = EmptyHot
  /\ cold = EmptyCold
  /\ pending = <<>>
  /\ steps = 0

(* Fault: the capacity is passed before anything is evicted.               *)
FullBeyond(bank) == Len(bank.recs) > conf.hotCap

(***************************************************************************)
(* Retention.  Each operator yields the banks that are left when room has  *)
(* been made; none means that the event is discarded.                      *)
(***************************************************************************)
Full(bank) == Len(bank.recs) >= conf.hotCap

(* _evict_index                                                            *)
EvictIndex(bank, i) ==
  {[hot |-> Evicted(bank, i), cold |-> c] :
     c \in IF conf.archive
           THEN Archived(cold, conf.coldCap, conf.diverse, Candidate(bank, i))
           ELSE {cold}}

(* _evaluate_fixed_budget_retention: the record to give up for an event.   *)
Outranked(bank, imp) ==
  CASE conf.policy = "fifo" -> {1}
    [] conf.policy = "random" -> DOMAIN bank.recs
    [] conf.policy = "lru" -> Least(bank.access)
    [] conf.policy = "min_importance" ->
         {i \in Least(Importances(bank)) : imp > bank.recs[i].imp}

(* A threshold admits the upper half of the levels, whatever the capacity. *)
Admitted(bank, imp) ==
  CASE conf.mode = "threshold" ->
         IF imp > MaxImportance \div 2 THEN {[hot |-> bank, cold |-> cold]} ELSE {}
    [] conf.mode = "fixed_budget" /\ ~Full(bank) -> {[hot |-> bank, cold |-> cold]}
    [] conf.mode = "fixed_budget" /\ Full(bank) ->
         UNION {EvictIndex(bank, i) : i \in Outranked(bank, imp)}

(* observe.  The state given with an event becomes last_state before any   *)
(* eviction; state None changes nothing.                                   *)
WithLast(bank, state) == Hot(bank.recs, bank.rows, bank.access, bank.states, state)

Given(state) == IF state = Zeros THEN hot ELSE WithLast(hot, state)

Keep(kind, imp, state) ==
  \E room \in Admitted(Given(state), imp) :
    LET stated == IF state = Zeros THEN room.hot ELSE WithState(room.hot, steps, state)
    IN /\ hot' = Inserted(stated, [id |-> steps, kind |-> kind, imp |-> imp], steps)
       /\ cold' = room.cold

(* The caller says what becomes of the archive.                            *)
Discard(imp, state) ==
  /\ Admitted(Given(state), imp) = {}
  /\ hot' = Given(state)

(***************************************************************************)
(* Calls of a client that holds the memory and the archive itself.         *)
(***************************************************************************)
Idle == pending = <<>>
Direct == conf.client = "direct" /\ Idle

MoreEvents == steps < conf.horizon /\ steps' = steps + 1

(* What the weighted revision score of a candidate can be, on the scale of *)
(* the importances, when it is above theta_restore.                        *)
Scores == Importance

(* The candidates a revision may decide to restore, best score first.      *)
Chosen(bank) ==
  UNION {SetToSeqs(S) : S \in {T \in SUBSET Searched(bank) : Cardinality(T) <= MaxRestorations}}

Observe ==
  /\ Direct
  /\ MoreEvents
  /\ \E kind \in Kinds, imp \in Importance, state \in {Zeros, steps + 1} :
       \/ Keep(kind, imp, state)
       \/ Discard(imp, state) /\ UNCHANGED cold
  /\ UNCHANGED pending

(* observe_with_revision.  The event starts a revision even when it is     *)
(* discarded itself, and the archive searched holds what it has evicted.   *)
ObserveWithRevision ==
  /\ Direct
  /\ conf.archive
  /\ MoreEvents
  /\ \E kind \in Kinds, imp \in Importance :
       /\ \/ Keep(kind, imp, steps + 1)
          \/ Discard(imp, steps + 1) /\ UNCHANGED cold
       /\ pending' \in IF imp > Trigger THEN Chosen(cold') ELSE {<<>>}

(* _restore_from_cold: at capacity the least important record goes to the  *)
(* archive before the candidate leaves it.                                 *)
Restore ==
  /\ pending # <<>>
  /\ \E score \in Scores :
       LET cand == Head(pending)
           imp  == Max({Floor, cand.imp, score})
           made == IF Full(hot)
                   THEN UNION {EvictIndex(hot, i) : i \in Least(Importances(hot))}
                   ELSE {[hot |-> hot, cold |-> cold]}
       IN \E room \in made :
            /\ hot' = Inserted(room.hot, [id |-> cand.id, kind |-> cand.kind, imp |-> imp], steps - 1)
            /\ cold' = Removed(room.cold, cand.id)
  /\ pending' = Tail(pending)
  /\ UNCHANGED steps

(* An embedding that is not finite: EventRecord refuses it, but only after *)
(* the room for it has been made.                                          *)
ObserveRaises ==
  /\ Direct
  /\ MoreEvents
  /\ \E imp \in Importance, state \in {Zeros, steps + 1} :
       \/ \E room \in Admitted(Given(state), imp) :
            /\ hot' = room.hot
            /\ cold' = room.cold
       \/ Discard(imp, state) /\ UNCHANGED cold
  /\ UNCHANGED pending

(* retrieve moves the access time of what it returns by one.  Only the lru *)
(* policy reads it.                                                        *)
Retrieve ==
  /\ Direct
  /\ conf.policy = "lru"
  /\ \E S \in SUBSET DOMAIN hot.recs :
       /\ S # {}
       /\ \A i \in S : hot.access[i] < steps + MaxRetrievals
       /\ hot' = Hot(hot.recs, hot.rows,
                     [i \in DOMAIN hot.access |-> hot.access[i] + (IF i \in S THEN 1 ELSE 0)],
                     hot.states, hot.last)
  /\ UNCHANGED <<cold, pending, steps>>

Clear ==
  /\ Direct
  /\ hot.recs # <<>>
  /\ hot' = EmptyHot
  /\ UNCHANGED <<cold, pending, steps>>

DirectNext ==
  /\ UNCHANGED conf
  /\ \/ Observe \/ ObserveWithRevision \/ Restore
     \/ ObserveRaises \/ Retrieve \/ Clear
=============================================================================

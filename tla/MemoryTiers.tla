----------------------------- MODULE MemoryTiers -----------------------------
(***************************************************************************)
(* The two banks of the Python memory as values: the hot bank of           *)
(* continuum/memory/adaptive_memory.py and the cold archive of             *)
(* continuum/memory/cold_memory.py.                                        *)
(*                                                                         *)
(* An embedding is known by its kind.  Two embeddings are equally aligned  *)
(* when they have one kind, redundant (cosine at or above sim_thresh) when *)
(* their kinds are Near, and unrelated otherwise.  A bank keeps a list of  *)
(* records and, in a list of its own, the rows of its embedding matrix     *)
(* (no row at all stands for None).  Operations that may come out in more  *)
(* than one way are sets of the banks they can leave.                      *)
(***************************************************************************)
EXTENDS Naturals, SequencesExt, FiniteSetsExt

CONSTANTS
  Kinds,  \* embeddings
  Near    \* pairs of distinct kinds that are redundant with one another

ASSUME TiersAssumption == \A p \in Near : p \subseteq Kinds

(* The temporal state a call was given, by the number of the input that    *)
(* produced it; Zeros is the zero state.                                   *)
Zeros == 0

Hot(recs, rows, access, states, last) ==
  [recs |-> recs, rows |-> rows, access |-> access, states |-> states, last |-> last]

EmptyHot == Hot(<<>>, <<>>, <<>>, <<>>, Zeros)
EmptyCold == [recs |-> <<>>, rows |-> <<>>]

Ids(bank) == {r.id : r \in ToSet(bank.recs)}

(* The place of the first smallest entry, as argmin finds it.              *)
Least(s) ==
  {i \in DOMAIN s : \A j \in DOMAIN s : s[i] < s[j] \/ (s[i] = s[j] /\ i <= j)}

Importances(bank) == [i \in DOMAIN bank.recs |-> bank.recs[i].imp]

(***************************************************************************)
(* The cold archive.                                                       *)
(***************************************************************************)
Dropped(cold, i) == [recs |-> RemoveAt(cold.recs, i), rows |-> RemoveAt(cold.rows, i)]

Sim(a, b) == IF a = b THEN 2 ELSE IF {a, b} \in Near THEN 1 ELSE 0

(* How redundant row i is: its largest similarity to another row.          *)
Redundancy(rows, i) == Max({Sim(rows[i], rows[j]) : j \in DOMAIN rows \ {i}})

(* The rows the diversified memory may evict.  Redundant rows come first   *)
(* and among them the most redundant; without any, the least score         *)
(* 0.4 * importance + 0.6 * |state| loses, which can be any record's.      *)
Crowded(rows) ==
  IF Len(rows) > 1
  THEN {i \in DOMAIN rows : /\ Redundancy(rows, i) >= 1
                            /\ \A j \in DOMAIN rows : Redundancy(rows, j) <= Redundancy(rows, i)}
  ELSE {}

(* Fault: the least score loses, redundant or not.                         *)
VictimsByScore(cold, diverse) == IF diverse THEN DOMAIN cold.recs ELSE {1}

Victims(cold, diverse) ==
  CASE ~diverse -> {1}
    [] diverse /\ Crowded(cold.rows) # {} -> Crowded(cold.rows)
    [] OTHER -> DOMAIN cold.recs

(* _evict_oldest makes no room in an empty archive, so that one of         *)
(* capacity 0 holds a record all the same.                                 *)
Roomier(cold, diverse) ==
  IF cold.recs = <<>> THEN {cold} ELSE {Dropped(cold, i) : i \in Victims(cold, diverse)}

(* Fault: room is made one record early.                                   *)
ArchivedEarly(cold, cap, diverse, rec) ==
  {[recs |-> Append(c.recs, rec), rows |-> Append(c.rows, rec.kind)] :
     c \in IF Len(cold.recs) + 1 >= cap THEN Roomier(cold, diverse) ELSE {cold}}

Archived(cold, cap, diverse, rec) ==
  {[recs |-> Append(c.recs, rec), rows |-> Append(c.rows, rec.kind)] :
     c \in IF Len(cold.recs) >= cap THEN Roomier(cold, diverse) ELSE {cold}}

(* search, asked for no more candidates than there are: all of them, in an *)
(* order that only the scores of the caller matter for.                    *)
Searched(cold) == ToSet(cold.recs)

(* Fault: a restored candidate stays in the archive.                       *)
RemovedNothing(cold, id) == cold

Removed(cold, id) ==
  IF id \in Ids(cold)
  THEN Dropped(cold, CHOOSE i \in DOMAIN cold.recs :
                       /\ cold.recs[i].id = id
                       /\ \A j \in 1..(i - 1) : cold.recs[j].id # id)
  ELSE cold

(***************************************************************************)
(* The hot bank.                                                           *)
(***************************************************************************)
(* _insert_record; a record comes with a saved state or without.           *)
Inserted(hot, rec, time) ==
  Hot(Append(hot.recs, rec), Append(hot.rows, rec.kind), Append(hot.access, time),
      hot.states, hot.last)

WithState(hot, id, state) ==
  Hot(hot.recs, hot.rows, hot.access,
      [i \in DOMAIN hot.states \cup {id} |-> IF i = id THEN state ELSE hot.states[i]], hot.last)

(* Fault: the access time of an evicted record stays in the list.          *)
EvictedKeepsAccess(hot, i) ==
  Hot(RemoveAt(hot.recs, i), RemoveAt(hot.rows, i), hot.access,
      [id \in DOMAIN hot.states \ {hot.recs[i].id} |-> hot.states[id]], hot.last)

Evicted(hot, i) ==
  Hot(RemoveAt(hot.recs, i), RemoveAt(hot.rows, i), RemoveAt(hot.access, i),
      [id \in DOMAIN hot.states \ {hot.recs[i].id} |-> hot.states[id]], hot.last)

(* What the archive is told of hot record i: the state saved with it, or   *)
(* the last state the memory was given.                                    *)
Candidate(hot, i) ==
  LET rec == hot.recs[i]
  IN [id |-> rec.id, kind |-> rec.kind, imp |-> rec.imp,
      state |-> IF rec.id \in DOMAIN hot.states THEN hot.states[rec.id] ELSE hot.last]
=============================================================================

------------------------- MODULE AdaptiveMemoryProofs -------------------------
(***************************************************************************)
(* Lemmas about the values and operations of MemoryTiers and               *)
(* AdaptiveMemory: what an eviction, an archived record, a restoration and *)
(* an observation do to well formed banks, for any kinds and capacities.   *)
(***************************************************************************)
EXTENDS AdaptiveMemory, FiniteSetTheorems, TLAPS

(***************************************************************************)
(* Lists of records with identifiers.                                      *)
(***************************************************************************)
IdSet(s) == {s[i].id : i \in DOMAIN s}
Distinct(s) == \A i, j \in DOMAIN s : s[i].id = s[j].id => i = j

(* What is left after an eviction, element by element.                     *)
LEMMA RemoveAtElements ==
  ASSUME NEW R, NEW s \in Seq(R), NEW i \in DOMAIN s
  PROVE  /\ RemoveAt(s, i) \in Seq(R)
         /\ Len(RemoveAt(s, i)) = Len(s) - 1
         /\ DOMAIN RemoveAt(s, i) = 1..(Len(s) - 1)
         /\ \A j \in 1..(Len(s) - 1) : RemoveAt(s, i)[j] = IF j < i THEN s[j] ELSE s[j + 1]
<1>1. i \in 1..Len(s) /\ Len(s) \in Nat
  OBVIOUS
<1> DEFINE a == SubSeq(s, 1, i - 1)
           b == SubSeq(s, i + 1, Len(s))
<1>2. /\ a \in Seq(R) /\ Len(a) = i - 1
      /\ \A j \in 1..(i - 1) : a[j] = s[j]
  BY <1>1
<1>3. /\ b \in Seq(R) /\ Len(b) = Len(s) - i
      /\ \A j \in 1..(Len(s) - i) : b[j] = s[i + j]
  BY <1>1
<1>4. RemoveAt(s, i) = a \o b
  BY DEF RemoveAt
<1> HIDE DEF a, b
<1>5. /\ a \o b \in Seq(R) /\ Len(a \o b) = Len(s) - 1
      /\ DOMAIN (a \o b) = 1..(Len(s) - 1)
  BY <1>1, <1>2, <1>3
<1>6. ASSUME NEW j \in 1..(Len(s) - 1)
      PROVE  (a \o b)[j] = IF j < i THEN s[j] ELSE s[j + 1]
  <2>1. CASE j < i
    <3>1. (a \o b)[j] = a[j]  BY <2>1, <1>1, <1>2, <1>3
    <3> QED  BY <3>1, <2>1, <1>1, <1>2
  <2>2. CASE ~(j < i)
    <3>1. (a \o b)[j] = b[j - (i - 1)]  BY <2>2, <1>1, <1>2, <1>3
    <3>2. j - (i - 1) \in 1..(Len(s) - i) /\ i + (j - (i - 1)) = j + 1
      BY <2>2, <1>1
    <3> QED  BY <3>1, <3>2, <2>2, <1>3
  <2> QED  BY <2>1, <2>2
<1> QED
  BY <1>4, <1>5, <1>6

(* It has no element that was not there, and all but element i.            *)
LEMMA RemoveAtSet ==
  ASSUME NEW R, NEW s \in Seq(R), NEW i \in DOMAIN s
  PROVE  /\ ToSet(RemoveAt(s, i)) \subseteq ToSet(s)
         /\ \A k \in DOMAIN s \ {i} : s[k] \in ToSet(RemoveAt(s, i))
<1> DEFINE t == RemoveAt(s, i)
<1>1. i \in 1..Len(s) /\ Len(s) \in Nat /\ DOMAIN s = 1..Len(s)
  OBVIOUS
<1>2. /\ DOMAIN t = 1..(Len(s) - 1)
      /\ \A j \in 1..(Len(s) - 1) : t[j] = IF j < i THEN s[j] ELSE s[j + 1]
  BY RemoveAtElements
<1>3. \A j \in 1..(Len(s) - 1) : j \in DOMAIN s /\ j + 1 \in DOMAIN s
  BY <1>1
<1> HIDE DEF t
<1>4. ToSet(t) \subseteq ToSet(s)
  BY <1>2, <1>3 DEF ToSet
<1>5. ASSUME NEW k \in DOMAIN s \ {i} PROVE s[k] \in ToSet(t)
  <2>1. CASE k < i
    <3>1. k \in 1..(Len(s) - 1) /\ t[k] = s[k]  BY <1>1, <1>2, <2>1
    <3> QED  BY <1>2, <3>1 DEF ToSet
  <2>2. CASE k > i
    <3>1. k - 1 \in 1..(Len(s) - 1) /\ ~(k - 1 < i) /\ (k - 1) + 1 = k  BY <1>1, <2>2
    <3>2. t[k - 1] = s[k]  BY <1>2, <3>1
    <3> QED  BY <1>2, <3>1, <3>2 DEF ToSet
  <2> QED  BY <1>1, <2>1, <2>2
<1> QED
  BY <1>4, <1>5 DEF t

(* An append adds one element.                                             *)
LEMMA AppendSet ==
  ASSUME NEW R, NEW s \in Seq(R), NEW e \in R
  PROVE  ToSet(Append(s, e)) = ToSet(s) \cup {e}
<1> DEFINE t == Append(s, e)
<1>1. Len(s) \in Nat /\ DOMAIN s = 1..Len(s) /\ DOMAIN t = 1..(Len(s) + 1)
  OBVIOUS
<1>2. (\A i \in 1..Len(s) : t[i] = s[i]) /\ t[Len(s) + 1] = e
  OBVIOUS
<1>3. \A i : i \in 1..(Len(s) + 1) <=> i \in 1..Len(s) \/ i = Len(s) + 1
  BY <1>1
<1> HIDE DEF t
<1>4. ToSet(t) \subseteq ToSet(s) \cup {e}
  BY <1>1, <1>2, <1>3 DEF ToSet
<1>5. ToSet(s) \subseteq ToSet(t) /\ e \in ToSet(t)
  BY <1>1, <1>2, <1>3 DEF ToSet
<1> QED
  BY <1>4, <1>5 DEF t

(* An eviction takes one identifier and leaves the others distinct.        *)
LEMMA RemoveIds ==
  ASSUME NEW R, NEW s \in Seq(R), NEW i \in DOMAIN s, Distinct(s)
  PROVE  /\ Distinct(RemoveAt(s, i))
         /\ IdSet(RemoveAt(s, i)) = IdSet(s) \ {s[i].id}
<1> DEFINE t == RemoveAt(s, i)
           at(j) == IF j < i THEN j ELSE j + 1
<1>1. i \in 1..Len(s) /\ Len(s) \in Nat /\ DOMAIN s = 1..Len(s)
  OBVIOUS
<1>2. DOMAIN t = 1..(Len(s) - 1) /\ \A j \in 1..(Len(s) - 1) : t[j] = s[at(j)]
  BY RemoveAtElements
<1>3. \A j \in 1..(Len(s) - 1) : at(j) \in DOMAIN s /\ at(j) # i
  BY <1>1
<1>4. \A j, k \in 1..(Len(s) - 1) : at(j) = at(k) => j = k
  BY <1>1
<1>5. \A k \in DOMAIN s \ {i} : \E j \in 1..(Len(s) - 1) : at(j) = k
  <2> TAKE k \in DOMAIN s \ {i}
  <2>1. CASE k < i  BY <2>1, <1>1
  <2>2. CASE k > i
    <3>1. k - 1 \in 1..(Len(s) - 1) /\ at(k - 1) = k  BY <2>2, <1>1
    <3> QED  BY <3>1
  <2> QED  BY <2>1, <2>2, <1>1
<1> HIDE DEF t, at
<1>6. Distinct(t)
  BY <1>2, <1>3, <1>4 DEF Distinct
<1>7. IdSet(t) \subseteq IdSet(s) \ {s[i].id}
  BY <1>2, <1>3 DEF Distinct, IdSet
<1>8. IdSet(s) \ {s[i].id} \subseteq IdSet(t)
  <2> SUFFICES ASSUME NEW k \in DOMAIN s, s[k].id # s[i].id PROVE s[k].id \in IdSet(t)
    BY DEF IdSet
  <2>1. PICK j \in 1..(Len(s) - 1) : at(j) = k  BY <1>5
  <2> QED  BY <2>1, <1>2 DEF IdSet
<1> QED
  BY <1>6, <1>7, <1>8 DEF t

(* An insertion adds one.                                                  *)
LEMMA AppendIds ==
  ASSUME NEW R, NEW s \in Seq(R), NEW r \in R
  PROVE  /\ Append(s, r) \in Seq(R) /\ Len(Append(s, r)) = Len(s) + 1
         /\ IdSet(Append(s, r)) = IdSet(s) \cup {r.id}
         /\ Distinct(s) /\ r.id \notin IdSet(s) => Distinct(Append(s, r))
<1> DEFINE t == Append(s, r)
<1>1. /\ t \in Seq(R) /\ Len(t) = Len(s) + 1 /\ Len(s) \in Nat
      /\ DOMAIN s = 1..Len(s) /\ DOMAIN t = 1..(Len(s) + 1)
  OBVIOUS
<1>2. \A i \in 1..Len(s) : t[i] = s[i]
  OBVIOUS
<1>3. t[Len(s) + 1] = r
  OBVIOUS
<1>4. \A i \in DOMAIN t : i = Len(s) + 1 \/ i \in DOMAIN s
  BY <1>1
<1>5. \A i \in DOMAIN s : i \in DOMAIN t /\ i # Len(s) + 1
  BY <1>1
<1>6. Len(s) + 1 \in DOMAIN t
  BY <1>1
<1> HIDE DEF t
<1>7. IdSet(t) = IdSet(s) \cup {r.id}
  <2>1. IdSet(t) \subseteq IdSet(s) \cup {r.id}  BY <1>1, <1>2, <1>3, <1>4 DEF IdSet
  <2>2. IdSet(s) \subseteq IdSet(t)  BY <1>1, <1>2, <1>5 DEF IdSet
  <2>3. r.id \in IdSet(t)  BY <1>3, <1>6 DEF IdSet
  <2> QED  BY <2>1, <2>2, <2>3
<1>8. ASSUME Distinct(s), r.id \notin IdSet(s) PROVE Distinct(t)
  <2> SUFFICES ASSUME NEW i \in DOMAIN t, NEW j \in DOMAIN t, t[i].id = t[j].id PROVE i = j
    BY DEF Distinct
  <2>1. CASE i \in DOMAIN s /\ j \in DOMAIN s  BY <2>1, <1>1, <1>2, <1>8 DEF Distinct
  <2>2. CASE i \in DOMAIN s /\ j = Len(s) + 1  BY <2>2, <1>1, <1>2, <1>3, <1>8 DEF IdSet
  <2>3. CASE j \in DOMAIN s /\ i = Len(s) + 1  BY <2>3, <1>1, <1>2, <1>3, <1>8 DEF IdSet
  <2> QED  BY <1>4, <2>1, <2>2, <2>3
<1> QED
  BY <1>1, <1>7, <1>8 DEF t

(* A list with distinct identifiers has as many of them as records.        *)
LEMMA CountIds ==
  ASSUME NEW R, NEW s \in Seq(R), Distinct(s)
  PROVE  IsFiniteSet(IdSet(s)) /\ Cardinality(IdSet(s)) = Len(s)
<1> DEFINE f == [i \in 1..Len(s) |-> s[i].id]
<1>1. Len(s) \in Nat /\ DOMAIN s = 1..Len(s)
  OBVIOUS
<1>2. f \in Bijection(1..Len(s), IdSet(s))
  <2>1. f \in [1..Len(s) -> IdSet(s)]  BY <1>1 DEF IdSet
  <2>2. \A i, j \in 1..Len(s) : f[i] = f[j] => i = j  BY <1>1 DEF Distinct
  <2>3. \A x \in IdSet(s) : \E i \in 1..Len(s) : f[i] = x  BY <1>1 DEF IdSet
  <2> HIDE DEF f
  <2> QED  BY <2>1, <2>2, <2>3 DEF Bijection, Injection, Surjection, IsInjective
<1>3. ExistsBijection(1..Len(s), IdSet(s))
  BY <1>2 DEF ExistsBijection
<1>4. IsFiniteSet(1..Len(s)) /\ Cardinality(1..Len(s)) = Len(s)
  BY <1>1, FS_Interval
<1> QED
  BY <1>3, <1>4, FS_Bijection

(***************************************************************************)
(* The archive.                                                            *)
(***************************************************************************)
ColdOK(c) ==
  /\ c = [recs |-> c.recs, rows |-> c.rows]
  /\ c.recs \in Seq(ColdRecord) /\ Distinct(c.recs)
  /\ c.rows \in Seq(Kinds) /\ Len(c.rows) = Len(c.recs)
  /\ \A i \in DOMAIN c.recs : c.rows[i] = c.recs[i].kind

(* Every candidate carries the state its own event led to.                 *)
ColdOwn(c) == \A i \in DOMAIN c.recs : c.recs[i].state = c.recs[i].id + 1

(* An archive that is full, at capacity 0 with the one record it holds.    *)
AtLimit(c, cap) == Len(c.recs) >= cap /\ c.recs # <<>>

(* Dropping a record leaves an archive in step with itself.                *)
LEMMA DroppedOK ==
  ASSUME NEW c, ColdOK(c), NEW i \in DOMAIN c.recs
  PROVE  /\ ColdOK(Dropped(c, i))
         /\ Len(Dropped(c, i).recs) = Len(c.recs) - 1
         /\ IdSet(Dropped(c, i).recs) = IdSet(c.recs) \ {c.recs[i].id}
         /\ ColdOwn(c) => ColdOwn(Dropped(c, i))
<1> DEFINE n == Len(c.recs)
           s == RemoveAt(c.recs, i)
           t == RemoveAt(c.rows, i)
<1>1. /\ c.recs \in Seq(ColdRecord) /\ Distinct(c.recs) /\ c.rows \in Seq(Kinds)
      /\ Len(c.rows) = n /\ n \in Nat /\ DOMAIN c.recs = 1..n /\ DOMAIN c.rows = 1..n
      /\ \A j \in 1..n : c.rows[j] = c.recs[j].kind
  BY DEF ColdOK
<1>2. /\ s \in Seq(ColdRecord) /\ Len(s) = n - 1 /\ DOMAIN s = 1..(n - 1)
      /\ \A j \in 1..(n - 1) : s[j] = IF j < i THEN c.recs[j] ELSE c.recs[j + 1]
  BY <1>1, RemoveAtElements
<1>3. /\ t \in Seq(Kinds) /\ Len(t) = n - 1
      /\ \A j \in 1..(n - 1) : t[j] = IF j < i THEN c.rows[j] ELSE c.rows[j + 1]
  <2>1. i \in DOMAIN c.rows  BY <1>1
  <2> QED  BY <1>1, <2>1, RemoveAtElements
<1>4. Distinct(s) /\ IdSet(s) = IdSet(c.recs) \ {c.recs[i].id}
  BY <1>1, RemoveIds
<1>5. \A j \in 1..(n - 1) : j \in 1..n /\ j + 1 \in 1..n
  BY <1>1
<1>6. \A j \in 1..(n - 1) : t[j] = s[j].kind
  BY <1>1, <1>2, <1>3, <1>5
<1>7. Dropped(c, i) = [recs |-> s, rows |-> t]
  BY DEF Dropped
<1> HIDE DEF s, t
<1>8. Dropped(c, i).recs = s /\ Dropped(c, i).rows = t
  BY <1>7
<1>9. ColdOK(Dropped(c, i))
  BY <1>2, <1>3, <1>4, <1>6, <1>7, <1>8 DEF ColdOK
<1>10. ASSUME ColdOwn(c) PROVE ColdOwn(Dropped(c, i))
  <2> SUFFICES ASSUME NEW j \in 1..(n - 1) PROVE s[j].state = s[j].id + 1
    BY <1>2, <1>8 DEF ColdOwn
  <2>1. CASE j < i  BY <1>1, <1>2, <1>5, <1>10, <2>1 DEF ColdOwn
  <2>2. CASE ~(j < i)  BY <1>1, <1>2, <1>5, <1>10, <2>2 DEF ColdOwn
  <2> QED  BY <2>1, <2>2
<1> QED
  BY <1>2, <1>4, <1>8, <1>9, <1>10

(* A record put at the end of an archive.                                  *)
Put(c, rec) == [recs |-> Append(c.recs, rec), rows |-> Append(c.rows, rec.kind)]

(* So does putting in a record with a new identifier.                      *)
LEMMA PutOK ==
  ASSUME NEW c, ColdOK(c), NEW rec \in ColdRecord, rec.id \notin IdSet(c.recs)
  PROVE  /\ ColdOK(Put(c, rec))
         /\ Len(Put(c, rec).recs) = Len(c.recs) + 1
         /\ IdSet(Put(c, rec).recs) = IdSet(c.recs) \cup {rec.id}
         /\ ColdOwn(c) /\ rec.state = rec.id + 1 => ColdOwn(Put(c, rec))
<1> DEFINE n == Len(c.recs)
           s == Append(c.recs, rec)
           t == Append(c.rows, rec.kind)
<1>1. /\ c.recs \in Seq(ColdRecord) /\ Distinct(c.recs) /\ c.rows \in Seq(Kinds)
      /\ Len(c.rows) = n /\ n \in Nat /\ DOMAIN c.recs = 1..n /\ DOMAIN c.rows = 1..n
      /\ \A j \in 1..n : c.rows[j] = c.recs[j].kind
  BY DEF ColdOK
<1>2. rec.kind \in Kinds
  BY DEF ColdRecord
<1>3. /\ s \in Seq(ColdRecord) /\ Len(s) = n + 1 /\ DOMAIN s = 1..(n + 1)
      /\ (\A j \in 1..n : s[j] = c.recs[j]) /\ s[n + 1] = rec
  BY <1>1
<1>4. /\ t \in Seq(Kinds) /\ Len(t) = n + 1
      /\ (\A j \in 1..n : t[j] = c.rows[j]) /\ t[n + 1] = rec.kind
  BY <1>1, <1>2
<1>5. Distinct(s) /\ IdSet(s) = IdSet(c.recs) \cup {rec.id}
  BY <1>1, AppendIds
<1>6. \A j \in 1..(n + 1) : j \in 1..n \/ j = n + 1
  BY <1>1
<1>7. \A j \in 1..(n + 1) : t[j] = s[j].kind
  BY <1>1, <1>3, <1>4, <1>6
<1>8. Put(c, rec) = [recs |-> s, rows |-> t]
  BY DEF Put
<1> HIDE DEF s, t
<1>9. Put(c, rec).recs = s /\ Put(c, rec).rows = t
  BY <1>8
<1>10. ColdOK(Put(c, rec))
  BY <1>3, <1>4, <1>5, <1>7, <1>8, <1>9 DEF ColdOK
<1>11. ColdOwn(c) /\ rec.state = rec.id + 1 => ColdOwn(Put(c, rec))
  BY <1>1, <1>3, <1>6, <1>9 DEF ColdOwn
<1> QED
  BY <1>3, <1>5, <1>9, <1>10, <1>11

(* What is evicted is one of the records.                                  *)
LEMMA VictimsIn ==
  ASSUME NEW c, ColdOK(c), c.recs # <<>>, NEW diverse
  PROVE  Victims(c, diverse) \subseteq DOMAIN c.recs
<1>1. 1 \in DOMAIN c.recs /\ DOMAIN c.rows = DOMAIN c.recs
  BY DEF ColdOK
<1>2. Crowded(c.rows) \subseteq DOMAIN c.rows
  BY Zenon DEF Crowded
<1> QED
  BY <1>1, <1>2 DEF Victims

(* An archive takes in event v: below its limit it loses nothing, at its   *)
(* limit one event.                                                        *)
Grown(c, cap, v, d) ==
  /\ ~AtLimit(c, cap) => /\ Len(d.recs) = Len(c.recs) + 1
                         /\ IdSet(d.recs) = IdSet(c.recs) \cup {v}
  /\ AtLimit(c, cap) => /\ Len(d.recs) = Len(c.recs)
                        /\ \E w \in IdSet(c.recs) : IdSet(d.recs) = (IdSet(c.recs) \ {w}) \cup {v}

(* What the archive becomes is an archive, one record longer or full.      *)
LEMMA ArchivedOK ==
  ASSUME NEW c, ColdOK(c), NEW cap \in Nat, NEW diverse,
         NEW rec \in ColdRecord, rec.id \notin IdSet(c.recs),
         NEW d \in Archived(c, cap, diverse, rec)
  PROVE  /\ ColdOK(d)
         /\ ColdOwn(c) /\ rec.state = rec.id + 1 => ColdOwn(d)
         /\ Grown(c, cap, rec.id, d)
<1> DEFINE room == IF Len(c.recs) >= cap THEN Roomier(c, diverse) ELSE {c}
<1>1. PICK b \in room : d = Put(b, rec)
  BY DEF Archived, Put
<1>2. CASE ~AtLimit(c, cap)
  <2>1. b = c  BY <1>1, <1>2 DEF AtLimit, Roomier
  <2> QED  BY <1>1, <1>2, <2>1, PutOK DEF Grown
<1>3. CASE AtLimit(c, cap)
  <2>1. PICK i \in Victims(c, diverse) : b = Dropped(c, i)
    BY <1>1, <1>3 DEF AtLimit, Roomier
  <2>2. i \in DOMAIN c.recs
    BY <1>3, <2>1, VictimsIn DEF AtLimit
  <2>3. /\ ColdOK(b) /\ Len(b.recs) = Len(c.recs) - 1
        /\ IdSet(b.recs) = IdSet(c.recs) \ {c.recs[i].id}
        /\ ColdOwn(c) => ColdOwn(b)
    BY <2>1, <2>2, DroppedOK
  <2>4. c.recs[i].id \in IdSet(c.recs)
    BY <2>2 DEF IdSet
  <2>5. rec.id \notin IdSet(b.recs)
    BY <2>3
  <2>6. /\ ColdOK(d) /\ Len(d.recs) = Len(b.recs) + 1
        /\ IdSet(d.recs) = IdSet(b.recs) \cup {rec.id}
        /\ ColdOwn(b) /\ rec.state = rec.id + 1 => ColdOwn(d)
    BY <1>1, <2>3, <2>5, PutOK
  <2>7. Len(c.recs) \in Nat
    BY DEF ColdOK
  <2>8. Len(d.recs) = Len(c.recs)
    BY <2>3, <2>6, <2>7
  <2> QED  BY <1>3, <2>3, <2>4, <2>6, <2>8 DEF Grown
<1> QED
  BY <1>2, <1>3

(* What an archive holds afterwards was there before or has come in.       *)
LEMMA ArchivedSet ==
  ASSUME NEW c, ColdOK(c), NEW cap, NEW diverse, NEW rec \in ColdRecord,
         NEW d \in Archived(c, cap, diverse, rec)
  PROVE  ToSet(d.recs) \subseteq ToSet(c.recs) \cup {rec}
<1>1. c.recs \in Seq(ColdRecord) /\ c.rows \in Seq(Kinds)
  BY DEF ColdOK
<1>2. PICK b \in (IF Len(c.recs) >= cap THEN Roomier(c, diverse) ELSE {c}) : d = Put(b, rec)
  BY DEF Archived, Put
<1>3. b.recs \in Seq(ColdRecord) /\ ToSet(b.recs) \subseteq ToSet(c.recs)
  <2>1. CASE b = c  BY <1>1, <2>1
  <2>2. CASE b # c
    <3>1. c.recs # <<>> /\ \E i \in Victims(c, diverse) : b = Dropped(c, i)
      BY <1>2, <2>2 DEF Roomier
    <3>2. PICK i \in DOMAIN c.recs : b = Dropped(c, i)
      BY <3>1, VictimsIn
    <3>3. b.recs = RemoveAt(c.recs, i)
      BY <3>2 DEF Dropped
    <3> QED  BY <1>1, <3>2, <3>3, RemoveAtElements, RemoveAtSet
  <2> QED  BY <2>1, <2>2
<1>4. ToSet(d.recs) = ToSet(b.recs) \cup {rec}
  BY <1>2, <1>3, AppendSet DEF Put
<1> QED
  BY <1>3, <1>4

(* No two rows are more similar than equal ones.                           *)
LEMMA MaxSim ==
  ASSUME NEW S \in SUBSET {0, 1, 2}, S # {}
  PROVE  Max(S) \in S /\ \A x \in S : Max(S) >= x
<1>1. \E x \in S : \A y \in S : x >= y
  <2>1. CASE 2 \in S  BY <2>1
  <2>2. CASE 2 \notin S /\ 1 \in S  BY <2>2
  <2>3. CASE 2 \notin S /\ 1 \notin S
    <3>1. S = {0}  BY <2>3
    <3> QED  BY <3>1
  <2> QED  BY <2>1, <2>2, <2>3
<1> QED
  BY <1>1 DEF Max

(* With fewer kinds than records, the most redundant record has a twin.    *)
LEMMA Twins ==
  ASSUME NEW rows \in Seq(Kinds), IsFiniteSet(ToSet(rows)), Cardinality(ToSet(rows)) < Len(rows)
  PROVE  /\ Crowded(rows) # {}
         /\ \A i \in Crowded(rows) : \E j \in DOMAIN rows \ {i} : rows[j] = rows[i]
<1> DEFINE n == Len(rows)
           sims(i) == {Sim(rows[i], rows[j]) : j \in DOMAIN rows \ {i}}
<1>1. n \in Nat /\ DOMAIN rows = 1..n /\ rows \in [1..n -> ToSet(rows)]
  BY DEF ToSet
<1>2. IsFiniteSet(1..n) /\ Cardinality(1..n) = n
  BY <1>1, FS_Interval
<1>3. PICK p, q \in 1..n : p # q /\ rows[p] = rows[q]
  BY <1>1, <1>2, FS_PigeonHole
<1>4. n > 1
  BY <1>1, <1>3
<1>5. \A a, b : Sim(a, b) \in {0, 1, 2} /\ (Sim(a, b) = 2 <=> a = b)
  BY DEF Sim
<1>6. ASSUME NEW i \in 1..n
      PROVE  /\ Redundancy(rows, i) \in sims(i) /\ Redundancy(rows, i) \in {0, 1, 2}
             /\ \A x \in sims(i) : Redundancy(rows, i) >= x
  <2>1. sims(i) \in SUBSET {0, 1, 2}
    BY <1>5
  <2>2. \E j \in 1..n : j # i
    BY <1>1, <1>3
  <2>3. sims(i) # {}
    BY <1>1, <2>2
  <2>4. Redundancy(rows, i) = Max(sims(i))
    BY DEF Redundancy
  <2> HIDE DEF sims
  <2> QED  BY <2>1, <2>3, <2>4, MaxSim
<1>7. \A i \in 1..n : Redundancy(rows, i) <= 2
  BY <1>6
<1>8. Redundancy(rows, p) = 2
  <2>1. Sim(rows[p], rows[q]) = 2 /\ q \in DOMAIN rows \ {p}
    BY <1>1, <1>3, <1>5
  <2>2. 2 \in sims(p)
    BY <2>1
  <2> HIDE DEF sims
  <2> QED  BY <1>6, <2>2
<1>9. p \in Crowded(rows)
  BY <1>1, <1>4, <1>7, <1>8 DEF Crowded
<1>10. ASSUME NEW i \in Crowded(rows) PROVE \E j \in DOMAIN rows \ {i} : rows[j] = rows[i]
  <2>1. i \in 1..n /\ Redundancy(rows, p) <= Redundancy(rows, i)
    BY <1>1, <1>4 DEF Crowded
  <2>2. Redundancy(rows, i) = 2
    BY <1>6, <1>8, <2>1
  <2>3. 2 \in sims(i)
    BY <1>6, <2>1, <2>2
  <2>4. PICK j \in DOMAIN rows \ {i} : Sim(rows[i], rows[j]) = 2
    BY <2>3
  <2> QED  BY <1>5, <2>4
<1> QED
  BY <1>9, <1>10

(* A diversified archive with fewer kinds than slots loses no kind.        *)
KindsKept(k, c, d) ==
  k.diverse /\ Cardinality(ToSet(c.rows)) < k.coldCap => ToSet(c.rows) \subseteq ToSet(d.rows)

(* A victim among equals does not take its kind along.                     *)
LEMMA ArchivedKinds ==
  ASSUME NEW k, k.coldCap \in Nat, NEW c, ColdOK(c), NEW rec \in ColdRecord,
         NEW d \in Archived(c, k.coldCap, k.diverse, rec)
  PROVE  KindsKept(k, c, d)
<1> SUFFICES ASSUME k.diverse, Cardinality(ToSet(c.rows)) < k.coldCap
             PROVE  ToSet(c.rows) \subseteq ToSet(d.rows)
  BY DEF KindsKept
<1>1. /\ c.rows \in Seq(Kinds) /\ Len(c.rows) = Len(c.recs) /\ Len(c.recs) \in Nat
      /\ DOMAIN c.rows = DOMAIN c.recs /\ rec.kind \in Kinds
  BY DEF ColdOK, ColdRecord
<1>2. PICK b \in (IF Len(c.recs) >= k.coldCap THEN Roomier(c, k.diverse) ELSE {c}) :
        d.rows = Append(b.rows, rec.kind)
  <2> DEFINE room == IF Len(c.recs) >= k.coldCap THEN Roomier(c, k.diverse) ELSE {c}
  <2>1. \E b \in room : d = Put(b, rec)  BY Zenon DEF Archived, Put
  <2> HIDE DEF room
  <2>2. PICK b \in room : d = Put(b, rec)  BY <2>1
  <2>3. d.rows = Append(b.rows, rec.kind)  BY <2>2, Zenon DEF Put
  <2>4. \E x \in room : d.rows = Append(x.rows, rec.kind)  BY <2>3
  <2> QED  BY <2>4 DEF room
<1>3. CASE b = c
  BY <1>1, <1>2, <1>3, AppendSet
<1>4. CASE b # c
  <2>1. /\ Len(c.recs) >= k.coldCap /\ c.recs # <<>>
        /\ \E i \in Victims(c, k.diverse) : b = Dropped(c, i)
    BY <1>2, <1>4 DEF Roomier
  <2>2. IsFiniteSet(ToSet(c.rows)) /\ Cardinality(ToSet(c.rows)) \in Nat
    <3> DEFINE n == Len(c.rows)
    <3>1. n \in Int /\ 1 \in Int  BY <1>1
    <3>2. IsFiniteSet(1..n)
      <4> HIDE DEF n
      <4> QED  BY <3>1, FS_Interval
    <3>3. c.rows \in Surjection(1..n, ToSet(c.rows))
      BY <1>1 DEF Surjection, ToSet
    <3>4. IsFiniteSet(ToSet(c.rows))  BY <3>2, <3>3, FS_Surjection
    <3> QED  BY <3>4, FS_CardinalityType
  <2>3. Cardinality(ToSet(c.rows)) < Len(c.rows)
    BY <1>1, <2>1, <2>2
  <2>4. PICK i \in Crowded(c.rows) : b = Dropped(c, i)
    <3>1. Crowded(c.rows) # {}  BY <1>1, <2>2, <2>3, Twins
    <3>2. Victims(c, k.diverse) = Crowded(c.rows)  BY <3>1 DEF Victims
    <3> QED  BY <2>1, <3>2
  <2>5. PICK j \in DOMAIN c.rows \ {i} : c.rows[j] = c.rows[i]
    BY <1>1, <2>2, <2>3, <2>4, Twins
  <2>6. i \in DOMAIN c.rows
    BY <2>4 DEF Crowded
  <2>7. b.rows = RemoveAt(c.rows, i)
    BY <2>4 DEF Dropped
  <2>8. \A x \in DOMAIN c.rows : c.rows[x] \in ToSet(b.rows)
    BY <1>1, <2>5, <2>6, <2>7, RemoveAtSet
  <2>9. b.rows \in Seq(Kinds)
    BY <1>1, <2>6, <2>7, RemoveAtElements
  <2>10. ToSet(d.rows) = ToSet(b.rows) \cup {rec.kind}
    BY <1>1, <1>2, <2>9, AppendSet
  <2> QED  BY <2>8, <2>10 DEF ToSet
<1> QED
  BY <1>3, <1>4

(* remove takes the candidate of an identifier, if there is one.           *)
LEMMA RemovedIs ==
  ASSUME NEW c, ColdOK(c), NEW id
  PROVE  \/ id \notin IdSet(c.recs) /\ Removed(c, id) = c
         \/ \E i \in DOMAIN c.recs : c.recs[i].id = id /\ Removed(c, id) = Dropped(c, i)
<1>1. Ids(c) = IdSet(c.recs)
  BY DEF Ids, ToSet, IdSet
<1>2. Len(c.recs) \in Nat
  BY DEF ColdOK
<1>3. CASE id \notin Ids(c)
  <2>1. Removed(c, id) = c  BY <1>3 DEF Removed
  <2> QED  BY <1>1, <1>3, <2>1
<1>4. CASE id \in Ids(c)
  <2> DEFINE P(i) == c.recs[i].id = id /\ \A j \in 1..(i - 1) : c.recs[j].id # id
  <2>1. PICK k \in DOMAIN c.recs : c.recs[k].id = id
    BY <1>1, <1>4 DEF IdSet
  <2>2. DOMAIN c.recs = 1..Len(c.recs) /\ \A i, j \in DOMAIN c.recs : c.recs[i].id = c.recs[j].id => i = j
    BY DEF ColdOK, Distinct
  <2>3. P(k)
    <3> SUFFICES ASSUME NEW j \in 1..(k - 1) PROVE c.recs[j].id # id
      BY <2>1
    <3>1. j \in DOMAIN c.recs /\ j # k  BY <1>2, <2>1, <2>2
    <3> QED  BY <3>1, <2>1, <2>2
  <2> DEFINE i == CHOOSE i \in DOMAIN c.recs : P(i)
  <2>4. i \in DOMAIN c.recs /\ P(i)
    <3> HIDE DEF P
    <3> QED  BY <2>1, <2>3
  <2>5. Removed(c, id) = Dropped(c, i)
    BY <1>4 DEF Removed
  <2>6. c.recs[i].id = id
    BY <2>4
  <2> HIDE DEF i
  <2> QED  BY <2>4, <2>5, <2>6
<1> QED
  BY <1>3, <1>4

(* A candidate that is removed leaves an archive without it.               *)
LEMMA RemovedOK ==
  ASSUME NEW c, ColdOK(c), NEW id
  PROVE  /\ ColdOK(Removed(c, id))
         /\ IdSet(Removed(c, id).recs) = IdSet(c.recs) \ {id}
         /\ Len(Removed(c, id).recs) <= Len(c.recs)
<1>1. Len(c.recs) \in Nat
  BY DEF ColdOK
<1>2. CASE id \notin IdSet(c.recs) /\ Removed(c, id) = c
  <2>1. IdSet(c.recs) \ {id} = IdSet(c.recs)  BY <1>2
  <2>2. Len(c.recs) <= Len(c.recs)  BY <1>1
  <2> QED  BY <1>2, <2>1, <2>2, Zenon
<1>3. ASSUME NEW i \in DOMAIN c.recs, c.recs[i].id = id, Removed(c, id) = Dropped(c, i)
      PROVE  /\ ColdOK(Removed(c, id))
             /\ IdSet(Removed(c, id).recs) = IdSet(c.recs) \ {id}
             /\ Len(Removed(c, id).recs) <= Len(c.recs)
  <2>1. /\ ColdOK(Dropped(c, i)) /\ Len(Dropped(c, i).recs) = Len(c.recs) - 1
        /\ IdSet(Dropped(c, i).recs) = IdSet(c.recs) \ {c.recs[i].id}
    BY DroppedOK
  <2> QED  BY <1>1, <1>3, <2>1
<1> QED
  BY <1>2, <1>3, RemovedIs

(* It takes no other record, and no kind but the candidate's.              *)
LEMMA RemovedSet ==
  ASSUME NEW c, ColdOK(c), NEW id
  PROVE  /\ ToSet(Removed(c, id).recs) \subseteq ToSet(c.recs)
         /\ \A kind \in ToSet(c.rows) \ ToSet(Removed(c, id).rows) :
              \E r \in ToSet(c.recs) : r.id = id /\ r.kind = kind
<1>1. /\ c.recs \in Seq(ColdRecord) /\ c.rows \in Seq(Kinds) /\ DOMAIN c.rows = DOMAIN c.recs
      /\ \A i \in DOMAIN c.recs : c.rows[i] = c.recs[i].kind
  BY DEF ColdOK
<1>2. CASE Removed(c, id) = c
  BY <1>2
<1>3. ASSUME NEW i \in DOMAIN c.recs, c.recs[i].id = id, Removed(c, id) = Dropped(c, i)
      PROVE  /\ ToSet(Removed(c, id).recs) \subseteq ToSet(c.recs)
             /\ \A kind \in ToSet(c.rows) \ ToSet(Removed(c, id).rows) :
                  \E r \in ToSet(c.recs) : r.id = id /\ r.kind = kind
  <2>1. Removed(c, id).recs = RemoveAt(c.recs, i) /\ Removed(c, id).rows = RemoveAt(c.rows, i)
    BY <1>3 DEF Dropped
  <2>2. ToSet(RemoveAt(c.recs, i)) \subseteq ToSet(c.recs)
    BY <1>1, RemoveAtSet
  <2>3. \A k \in DOMAIN c.rows \ {i} : c.rows[k] \in ToSet(RemoveAt(c.rows, i))
    BY <1>1, RemoveAtSet
  <2>4. \A kind \in ToSet(c.rows) \ ToSet(RemoveAt(c.rows, i)) : kind = c.recs[i].kind
    BY <1>1, <2>3 DEF ToSet
  <2>5. c.recs[i] \in ToSet(c.recs)
    BY DEF ToSet
  <2> QED  BY <1>3, <2>1, <2>2, <2>4, <2>5
<1> QED
  BY <1>2, <1>3, RemovedIs

(***************************************************************************)
(* The hot bank.                                                           *)
(***************************************************************************)
HotOK(b) ==
  /\ b.recs \in Seq(HotRecord) /\ Distinct(b.recs)
  /\ b.rows \in Seq(Kinds) /\ Len(b.rows) = Len(b.recs)
  /\ \A i \in DOMAIN b.recs : b.rows[i] = b.recs[i].kind
  /\ b.access \in Seq(Nat) /\ Len(b.access) = Len(b.recs)
  /\ b.last \in Nat
  /\ DOMAIN b.states \subseteq IdSet(b.recs)
  /\ \A id \in DOMAIN b.states : b.states[id] = id + 1

(* Every record has a state of its own.                                    *)
Stated(b) == IdSet(b.recs) \subseteq DOMAIN b.states

(* An eviction takes the record, its row, its access time and its state.   *)
LEMMA EvictedOK ==
  ASSUME NEW b, HotOK(b), NEW i \in DOMAIN b.recs
  PROVE  /\ HotOK(Evicted(b, i))
         /\ Len(Evicted(b, i).recs) = Len(b.recs) - 1
         /\ IdSet(Evicted(b, i).recs) = IdSet(b.recs) \ {b.recs[i].id}
         /\ Stated(b) => Stated(Evicted(b, i))
<1> DEFINE n == Len(b.recs)
           s == RemoveAt(b.recs, i)
           t == RemoveAt(b.rows, i)
           u == RemoveAt(b.access, i)
           v == [j \in DOMAIN b.states \ {b.recs[i].id} |-> b.states[j]]
<1>1. /\ b.recs \in Seq(HotRecord) /\ Distinct(b.recs) /\ b.rows \in Seq(Kinds)
      /\ b.access \in Seq(Nat) /\ b.last \in Nat
      /\ Len(b.rows) = n /\ Len(b.access) = n /\ n \in Nat
      /\ DOMAIN b.recs = 1..n /\ DOMAIN b.rows = 1..n /\ DOMAIN b.access = 1..n
      /\ \A j \in 1..n : b.rows[j] = b.recs[j].kind
  BY DEF HotOK
<1>2. /\ s \in Seq(HotRecord) /\ Len(s) = n - 1 /\ DOMAIN s = 1..(n - 1)
      /\ \A j \in 1..(n - 1) : s[j] = IF j < i THEN b.recs[j] ELSE b.recs[j + 1]
  BY <1>1, RemoveAtElements
<1>3. /\ t \in Seq(Kinds) /\ Len(t) = n - 1
      /\ \A j \in 1..(n - 1) : t[j] = IF j < i THEN b.rows[j] ELSE b.rows[j + 1]
  <2>1. i \in DOMAIN b.rows  BY <1>1
  <2> QED  BY <1>1, <2>1, RemoveAtElements
<1>4. u \in Seq(Nat) /\ Len(u) = n - 1
  <2>1. i \in DOMAIN b.access  BY <1>1
  <2> QED  BY <1>1, <2>1, RemoveAtElements
<1>5. Distinct(s) /\ IdSet(s) = IdSet(b.recs) \ {b.recs[i].id}
  BY <1>1, RemoveIds
<1>6. \A j \in 1..(n - 1) : j \in 1..n /\ j + 1 \in 1..n
  BY <1>1
<1>7. \A j \in 1..(n - 1) : t[j] = s[j].kind
  BY <1>1, <1>2, <1>3, <1>6
<1>8. /\ DOMAIN v \subseteq IdSet(s)
      /\ \A id \in DOMAIN v : v[id] = id + 1
      /\ Stated(b) => IdSet(s) \subseteq DOMAIN v
  <2>1. DOMAIN b.states \subseteq IdSet(b.recs) /\ \A id \in DOMAIN b.states : b.states[id] = id + 1
    BY DEF HotOK
  <2>2. DOMAIN v = DOMAIN b.states \ {b.recs[i].id} /\ \A id \in DOMAIN v : v[id] = b.states[id]
    OBVIOUS
  <2> QED  BY <1>5, <2>1, <2>2 DEF Stated
<1>9. Evicted(b, i) = [recs |-> s, rows |-> t, access |-> u, states |-> v, last |-> b.last]
  BY Zenon DEF Evicted, Hot
<1> HIDE DEF s, t, u, v
<1>10. /\ Evicted(b, i).recs = s /\ Evicted(b, i).rows = t /\ Evicted(b, i).access = u
       /\ Evicted(b, i).states = v /\ Evicted(b, i).last = b.last
  BY <1>9
<1>11. HotOK(Evicted(b, i))
  BY <1>1, <1>2, <1>3, <1>4, <1>5, <1>7, <1>8, <1>9, <1>10 DEF HotOK
<1> QED
  BY <1>2, <1>5, <1>8, <1>10, <1>11 DEF Stated

(* What the archive is told of an evicted record.                          *)
LEMMA CandidateOK ==
  ASSUME NEW b, HotOK(b), NEW i \in DOMAIN b.recs
  PROVE  /\ Candidate(b, i) \in ColdRecord
         /\ Candidate(b, i).id = b.recs[i].id
         /\ Stated(b) => Candidate(b, i).state = Candidate(b, i).id + 1
<1> DEFINE rec == b.recs[i]
<1>1. rec \in HotRecord /\ rec.id \in IdSet(b.recs)
  BY DEF HotOK, IdSet
<1>2. rec.id \in Nat /\ rec.kind \in Kinds /\ rec.imp \in Importance
  BY <1>1 DEF HotRecord
<1>3. \A id \in DOMAIN b.states : b.states[id] = id + 1
  BY DEF HotOK
<1>4. b.last \in Nat
  BY DEF HotOK
<1> DEFINE state == IF rec.id \in DOMAIN b.states THEN b.states[rec.id] ELSE b.last
<1>5. state \in Nat /\ (rec.id \in DOMAIN b.states => state = rec.id + 1)
  BY <1>2, <1>3, <1>4
<1>6. Candidate(b, i) = [id |-> rec.id, kind |-> rec.kind, imp |-> rec.imp, state |-> state]
  BY Zenon DEF Candidate
<1>7. Stated(b) => rec.id \in DOMAIN b.states
  BY <1>1 DEF Stated
<1> HIDE DEF rec, state
<1> QED
  BY <1>2, <1>5, <1>6, <1>7 DEF ColdRecord, rec

(* The bank a new record is put in: with the record's state, or without.   *)
Places(b, id) == {b, WithState(b, id, id + 1)}

(* A record with a new identifier comes in with its row and its time.      *)
LEMMA InsertedOK ==
  ASSUME NEW b, HotOK(b), NEW rec \in HotRecord, rec.id \notin IdSet(b.recs),
         NEW time \in Nat, NEW place \in Places(b, rec.id)
  PROVE  /\ HotOK(Inserted(place, rec, time))
         /\ Len(Inserted(place, rec, time).recs) = Len(b.recs) + 1
         /\ IdSet(Inserted(place, rec, time).recs) = IdSet(b.recs) \cup {rec.id}
         /\ Stated(b) /\ place = WithState(b, rec.id, rec.id + 1)
              => Stated(Inserted(place, rec, time))
<1> DEFINE n == Len(b.recs)
           s == Append(b.recs, rec)
           t == Append(b.rows, rec.kind)
           u == Append(b.access, time)
           w == [j \in DOMAIN b.states \cup {rec.id} |->
                   IF j = rec.id THEN rec.id + 1 ELSE b.states[j]]
           d == Inserted(place, rec, time)
<1>1. /\ b.recs \in Seq(HotRecord) /\ Distinct(b.recs) /\ b.rows \in Seq(Kinds)
      /\ b.access \in Seq(Nat) /\ b.last \in Nat
      /\ Len(b.rows) = n /\ Len(b.access) = n /\ n \in Nat
      /\ DOMAIN b.recs = 1..n /\ DOMAIN b.rows = 1..n
      /\ \A j \in 1..n : b.rows[j] = b.recs[j].kind
  BY DEF HotOK
<1>2. /\ DOMAIN b.states \subseteq IdSet(b.recs)
      /\ \A id \in DOMAIN b.states : b.states[id] = id + 1
  BY DEF HotOK
<1>3. rec.kind \in Kinds
  BY DEF HotRecord
<1>4. /\ s \in Seq(HotRecord) /\ Len(s) = n + 1 /\ DOMAIN s = 1..(n + 1)
      /\ (\A j \in 1..n : s[j] = b.recs[j]) /\ s[n + 1] = rec
  BY <1>1
<1>5. /\ t \in Seq(Kinds) /\ Len(t) = n + 1
      /\ (\A j \in 1..n : t[j] = b.rows[j]) /\ t[n + 1] = rec.kind
  BY <1>1, <1>3
<1>6. u \in Seq(Nat) /\ Len(u) = n + 1
  BY <1>1
<1>7. Distinct(s) /\ IdSet(s) = IdSet(b.recs) \cup {rec.id}
  BY <1>1, AppendIds
<1>8. \A j \in 1..(n + 1) : j \in 1..n \/ j = n + 1
  BY <1>1
<1>9. \A j \in 1..(n + 1) : t[j] = s[j].kind
  BY <1>1, <1>4, <1>5, <1>8
<1>10. PICK v \in {b.states, w} :
         /\ d = [recs |-> s, rows |-> t, access |-> u, states |-> v, last |-> b.last]
         /\ place = WithState(b, rec.id, rec.id + 1) => v = w
  <2>1. WithState(b, rec.id, rec.id + 1) =
          [recs |-> b.recs, rows |-> b.rows, access |-> b.access, states |-> w, last |-> b.last]
    BY Zenon DEF WithState, Hot
  <2>2. CASE place = WithState(b, rec.id, rec.id + 1)
    <3> HIDE DEF w
    <3>1. /\ place.recs = b.recs /\ place.rows = b.rows /\ place.access = b.access
          /\ place.states = w /\ place.last = b.last
      BY <2>1, <2>2
    <3>2. d = [recs |-> s, rows |-> t, access |-> u, states |-> w, last |-> b.last]
      BY <3>1 DEF Inserted, Hot
    <3> QED  BY <3>2
  <2>3. CASE place = b /\ place # WithState(b, rec.id, rec.id + 1)
    <3>1. d = [recs |-> s, rows |-> t, access |-> u, states |-> b.states, last |-> b.last]
      BY <2>3 DEF Inserted, Hot
    <3> QED  BY <3>1, <2>3
  <2> QED  BY <2>2, <2>3 DEF Places
<1>11. DOMAIN w = DOMAIN b.states \cup {rec.id} /\ \A id \in DOMAIN w : w[id] = id + 1
  BY <1>2
<1> HIDE DEF s, t, u, w, d
<1>12. DOMAIN v \subseteq IdSet(s) /\ \A id \in DOMAIN v : v[id] = id + 1
  BY <1>2, <1>7, <1>10, <1>11
<1>13. /\ d.recs = s /\ d.rows = t /\ d.access = u /\ d.states = v /\ d.last = b.last
       /\ d = [recs |-> s, rows |-> t, access |-> u, states |-> v, last |-> b.last]
  BY <1>10
<1>14. HotOK(d)
  BY <1>1, <1>4, <1>5, <1>6, <1>7, <1>9, <1>12, <1>13 DEF HotOK
<1>15. Stated(b) /\ place = WithState(b, rec.id, rec.id + 1) => Stated(d)
  BY <1>7, <1>10, <1>11, <1>13 DEF Stated
<1> QED
  BY <1>4, <1>7, <1>13, <1>14, <1>15 DEF d

(***************************************************************************)
(* Both banks, as a memory of configuration k holds them when n events     *)
(* have been fed in.                                                       *)
(***************************************************************************)
Banks(k, b, c, n) ==
  /\ n \in Nat /\ HotOK(b) /\ ColdOK(c)
  /\ IdSet(b.recs) \cap IdSet(c.recs) = {}
  /\ \A id \in IdSet(b.recs) \cup IdSet(c.recs) : id < n
  /\ k.mode = "fixed_budget" => Len(b.recs) <= k.hotCap
  /\ Len(c.recs) <= k.coldCap \/ Len(c.recs) <= 1
  /\ k.client # "direct" => Stated(b) /\ ColdOwn(c)

(* The archive c becomes d as it takes in event v.                         *)
TakesIn(k, c, d, v) ==
  /\ Grown(c, k.coldCap, v, d)
  /\ KindsKept(k, c, d)
  /\ \A r \in ToSet(d.recs) : r \in ToSet(c.recs) \/ r.id = v

(* One event leaves the hot bank, for the archive if there is one.         *)
Moved(k, b, c, room) ==
  \E v \in IdSet(b.recs) :
    /\ IdSet(room.hot.recs) = IdSet(b.recs) \ {v}
    /\ Len(room.hot.recs) = Len(b.recs) - 1
    /\ IF k.archive THEN TakesIn(k, c, room.cold, v) ELSE room.cold = c

(* The fields of a configuration.                                          *)
LEMMA ConfFacts ==
  ASSUME conf \in Confs
  PROVE  /\ conf.client \in {"direct", "engine", "chat", "native_chat", "native", "tool"}
         /\ conf.mode \in {"fixed_budget", "threshold"}
         /\ conf.policy \in {"min_importance", "fifo", "random", "lru"}
         /\ conf.hotCap \in Nat \ {0} /\ conf.coldCap \in Nat
         /\ conf.archive \in BOOLEAN /\ conf.diverse \in BOOLEAN /\ conf.horizon \in Nat
         /\ conf.client # "direct" => conf.mode = "fixed_budget" /\ conf.archive
  BY MemoryAssumption DEF Conf

(* What an archive takes in is counted once and its limit holds.           *)
LEMMA FiledOK ==
  ASSUME conf \in Confs, NEW c, ColdOK(c), Len(c.recs) <= conf.coldCap \/ Len(c.recs) <= 1,
         NEW rec \in ColdRecord, rec.id \notin IdSet(c.recs),
         NEW d \in Archived(c, conf.coldCap, conf.diverse, rec)
  PROVE  /\ ColdOK(d)
         /\ ColdOwn(c) /\ rec.state = rec.id + 1 => ColdOwn(d)
         /\ Len(d.recs) <= conf.coldCap \/ Len(d.recs) <= 1
         /\ TakesIn(conf, c, d, rec.id)
         /\ IdSet(d.recs) \subseteq IdSet(c.recs) \cup {rec.id}
         /\ rec.id \in IdSet(d.recs)
<1>1. conf.coldCap \in Nat
  BY ConfFacts
<1>2. /\ ColdOK(d) /\ Grown(c, conf.coldCap, rec.id, d)
      /\ ColdOwn(c) /\ rec.state = rec.id + 1 => ColdOwn(d)
  BY <1>1, ArchivedOK
<1>3. Len(c.recs) \in Nat /\ (c.recs = <<>> => Len(c.recs) = 0)
  BY DEF ColdOK
<1>4. Len(d.recs) <= conf.coldCap \/ Len(d.recs) <= 1
  BY <1>1, <1>2, <1>3 DEF AtLimit, Grown
<1>5. IdSet(d.recs) \subseteq IdSet(c.recs) \cup {rec.id} /\ rec.id \in IdSet(d.recs)
  BY <1>2 DEF Grown
<1>6. KindsKept(conf, c, d)
  BY <1>1, ArchivedKinds
<1>7. \A r \in ToSet(d.recs) : r \in ToSet(c.recs) \/ r.id = rec.id
  <2>1. ToSet(d.recs) \subseteq ToSet(c.recs) \cup {rec}  BY ArchivedSet
  <2> QED  BY <2>1
<1> QED
  BY <1>2, <1>4, <1>5, <1>6, <1>7 DEF TakesIn

(* _evict_index keeps the banks in order and moves one event.              *)
LEMMA EvictIndexOK ==
  ASSUME conf \in Confs, NEW b, NEW n, Banks(conf, b, cold, n),
         NEW i \in DOMAIN b.recs, NEW room \in EvictIndex(b, i)
  PROVE  Banks(conf, room.hot, room.cold, n) /\ Moved(conf, b, cold, room)
<1> DEFINE v == b.recs[i].id
           cand == Candidate(b, i)
<1>1. /\ n \in Nat /\ HotOK(b) /\ ColdOK(cold) /\ IdSet(b.recs) \cap IdSet(cold.recs) = {}
      /\ \A id \in IdSet(b.recs) \cup IdSet(cold.recs) : id < n
      /\ conf.mode = "fixed_budget" => Len(b.recs) <= conf.hotCap
      /\ Len(cold.recs) <= conf.coldCap \/ Len(cold.recs) <= 1
      /\ conf.client # "direct" => Stated(b) /\ ColdOwn(cold)
  BY DEF Banks
<1>2. v \in IdSet(b.recs) /\ v \notin IdSet(cold.recs)
  BY <1>1 DEF IdSet
<1>3. PICK c \in IF conf.archive THEN Archived(cold, conf.coldCap, conf.diverse, cand) ELSE {cold} :
        room = [hot |-> Evicted(b, i), cold |-> c]
  BY DEF EvictIndex
<1>4. room.hot = Evicted(b, i) /\ room.cold = c
  BY <1>3
<1>5. /\ HotOK(room.hot) /\ Len(room.hot.recs) = Len(b.recs) - 1
      /\ IdSet(room.hot.recs) = IdSet(b.recs) \ {v}
      /\ Stated(b) => Stated(room.hot)
  BY <1>1, <1>4, EvictedOK
<1>6. cand \in ColdRecord /\ cand.id = v /\ (Stated(b) => cand.state = cand.id + 1)
  BY <1>1, CandidateOK
<1>7. conf.hotCap \in Nat /\ conf.archive \in BOOLEAN /\ Len(b.recs) \in Nat
      /\ (conf.client # "direct" => conf.archive)
  BY <1>1, ConfFacts DEF HotOK
<1> HIDE DEF v, cand
<1>8. conf.mode = "fixed_budget" => Len(room.hot.recs) <= conf.hotCap
  BY <1>1, <1>5, <1>7
<1>9. CASE conf.archive
  <2>1. c \in Archived(cold, conf.coldCap, conf.diverse, cand)
    BY <1>3, <1>9
  <2>2. /\ ColdOK(c)
        /\ ColdOwn(cold) /\ cand.state = cand.id + 1 => ColdOwn(c)
        /\ Len(c.recs) <= conf.coldCap \/ Len(c.recs) <= 1
        /\ TakesIn(conf, cold, c, cand.id)
        /\ IdSet(c.recs) \subseteq IdSet(cold.recs) \cup {cand.id}
    BY <1>1, <1>2, <1>6, <2>1, FiledOK
  <2>3. IdSet(room.hot.recs) \cap IdSet(c.recs) = {}
    BY <1>1, <1>2, <1>5, <1>6, <2>2
  <2>4. \A id \in IdSet(room.hot.recs) \cup IdSet(c.recs) : id < n
    BY <1>1, <1>2, <1>5, <1>6, <2>2
  <2>5. Banks(conf, room.hot, c, n)
    BY <1>1, <1>5, <1>6, <1>8, <2>2, <2>3, <2>4 DEF Banks
  <2>6. Moved(conf, b, cold, room)
    BY <1>2, <1>4, <1>5, <1>6, <1>9, <2>2 DEF Moved
  <2> QED  BY <1>4, <2>5, <2>6
<1>10. CASE ~conf.archive
  <2>1. c = cold  BY <1>3, <1>10
  <2>2. Banks(conf, room.hot, cold, n)
    BY <1>1, <1>5, <1>7, <1>8, <1>10 DEF Banks
  <2>3. Moved(conf, b, cold, room)
    BY <1>2, <1>4, <1>5, <1>10, <2>1 DEF Moved
  <2> QED  BY <1>4, <2>1, <2>2, <2>3
<1> QED
  BY <1>9, <1>10, <1>7

(* A memory of this budget has room for one more.                          *)
Room(k, b) == k.mode = "fixed_budget" => Len(b.recs) < k.hotCap

(* What making room in bank b may have done.                               *)
Made(k, b, c, room) ==
  \/ IdSet(room.hot.recs) = IdSet(b.recs) /\ Len(room.hot.recs) = Len(b.recs) /\ room.cold = c
  \/ Len(b.recs) >= k.hotCap /\ Moved(k, b, c, room)

(* Every policy gives up a record that is there.                           *)
LEMMA OutrankedIn ==
  ASSUME conf \in Confs, NEW b, HotOK(b), Full(b), NEW imp
  PROVE  Outranked(b, imp) \subseteq DOMAIN b.recs
<1>1. 1 \in DOMAIN b.recs /\ DOMAIN b.access = DOMAIN b.recs
  BY ConfFacts DEF HotOK, Full
<1>2. DOMAIN Importances(b) = DOMAIN b.recs
  BY DEF Importances
<1>3. \A s : Least(s) \subseteq DOMAIN s
  BY DEF Least
<1>4. conf.policy \in {"min_importance", "fifo", "random", "lru"}
  BY ConfFacts
<1>5. CASE conf.policy = "fifo"  BY <1>1, <1>5 DEF Outranked
<1>6. CASE conf.policy = "random"  BY <1>6 DEF Outranked
<1>7. CASE conf.policy = "lru"
  <2>1. Outranked(b, imp) = Least(b.access)  BY <1>7 DEF Outranked
  <2> QED  BY <1>1, <1>3, <2>1
<1>8. CASE conf.policy = "min_importance"
  <2>1. Outranked(b, imp) \subseteq Least(Importances(b))  BY <1>8 DEF Outranked
  <2> QED  BY <1>2, <1>3, <2>1
<1> QED
  BY <1>4, <1>5, <1>6, <1>7, <1>8

(* An eviction from a full bank makes room.                                *)
LEMMA EvictionMakesRoom ==
  ASSUME conf \in Confs, NEW b, NEW n, Banks(conf, b, cold, n), Full(b),
         NEW i \in DOMAIN b.recs, NEW room \in EvictIndex(b, i)
  PROVE  /\ Banks(conf, room.hot, room.cold, n) /\ Room(conf, room.hot)
         /\ Made(conf, b, cold, room)
<1>1. Banks(conf, room.hot, room.cold, n) /\ Moved(conf, b, cold, room)
  BY EvictIndexOK
<1>2. Len(room.hot.recs) = Len(b.recs) - 1
  BY <1>1 DEF Moved
<1>3. /\ conf.hotCap \in Nat /\ Len(b.recs) \in Nat
      /\ conf.mode = "fixed_budget" => Len(b.recs) <= conf.hotCap
  BY ConfFacts DEF Banks, HotOK
<1> QED
  BY <1>1, <1>2, <1>3 DEF Room, Made, Full

(* Retention lets an event in only when there is room for it.              *)
LEMMA AdmittedOK ==
  ASSUME conf \in Confs, NEW b, NEW n, Banks(conf, b, cold, n), NEW imp,
         NEW room \in Admitted(b, imp)
  PROVE  /\ Banks(conf, room.hot, room.cold, n) /\ Room(conf, room.hot)
         /\ Made(conf, b, cold, room)
<1>1. conf.mode \in {"fixed_budget", "threshold"} /\ conf.hotCap \in Nat
  BY ConfFacts
<1>2. Len(b.recs) \in Nat
  BY DEF Banks, HotOK
<1>3. CASE room = [hot |-> b, cold |-> cold] /\ (conf.mode = "fixed_budget" => ~Full(b))
  BY <1>1, <1>2, <1>3 DEF Full, Made, Room
<1>4. CASE conf.mode = "threshold"
  <2>1. room = [hot |-> b, cold |-> cold]  BY <1>4 DEF Admitted
  <2> QED  BY <1>3, <1>4, <2>1
<1>5. CASE conf.mode = "fixed_budget" /\ ~Full(b)
  <2>1. room = [hot |-> b, cold |-> cold]  BY <1>5 DEF Admitted
  <2> QED  BY <1>3, <1>5, <2>1
<1>6. CASE conf.mode = "fixed_budget" /\ Full(b)
  <2>1. PICK i \in Outranked(b, imp) : room \in EvictIndex(b, i)
    BY <1>6 DEF Admitted
  <2>2. i \in DOMAIN b.recs
    BY <1>6, <2>1, OutrankedIn DEF Banks
  <2> QED  BY <1>6, <2>1, <2>2, EvictionMakesRoom
<1> QED
  BY <1>1, <1>4, <1>5, <1>6

(* The state that is given with an event is not part of the banks.         *)
LEMMA GivenOK ==
  ASSUME NEW k, NEW n, NEW state \in Nat, Banks(k, hot, cold, n)
  PROVE  /\ Banks(k, Given(state), cold, n)
         /\ Given(state).recs = hot.recs
<1>1. Given(state) \in {hot, WithLast(hot, state)}
  BY DEF Given
<1>2. CASE Given(state) = hot  BY <1>2
<1>3. CASE Given(state) = WithLast(hot, state)
  <2> DEFINE b == WithLast(hot, state)
  <2>1. /\ b.recs = hot.recs /\ b.rows = hot.rows /\ b.access = hot.access
        /\ b.states = hot.states /\ b.last = state
    BY DEF WithLast, Hot
  <2> HIDE DEF b
  <2>2. HotOK(b) /\ (Stated(hot) => Stated(b))
    BY <2>1 DEF Banks, HotOK, Stated
  <2>3. Banks(k, b, cold, n)
    BY <2>1, <2>2 DEF Banks
  <2> QED  BY <1>3, <2>1, <2>3 DEF b
<1> QED
  BY <1>1, <1>2, <1>3

(* A new event, or a restored one, comes into banks that have room for it. *)
LEMMA ComeIn ==
  ASSUME conf \in Confs, NEW b, NEW c, NEW n, NEW m \in Nat, n <= m,
         Banks(conf, b, c, n), Room(conf, b),
         NEW rec \in HotRecord, rec.id \notin IdSet(b.recs), rec.id \notin IdSet(c.recs), rec.id < m,
         NEW place \in Places(b, rec.id), NEW time \in Nat,
         conf.client # "direct" => place = WithState(b, rec.id, rec.id + 1)
  PROVE  /\ Banks(conf, Inserted(place, rec, time), c, m)
         /\ IdSet(Inserted(place, rec, time).recs) = IdSet(b.recs) \cup {rec.id}
<1> DEFINE d == Inserted(place, rec, time)
<1>1. /\ n \in Nat /\ HotOK(b) /\ ColdOK(c) /\ IdSet(b.recs) \cap IdSet(c.recs) = {}
      /\ \A id \in IdSet(b.recs) \cup IdSet(c.recs) : id < n
      /\ Len(c.recs) <= conf.coldCap \/ Len(c.recs) <= 1
      /\ conf.client # "direct" => Stated(b) /\ ColdOwn(c)
  BY DEF Banks
<1>2. /\ HotOK(d) /\ Len(d.recs) = Len(b.recs) + 1
      /\ IdSet(d.recs) = IdSet(b.recs) \cup {rec.id}
      /\ Stated(b) /\ place = WithState(b, rec.id, rec.id + 1) => Stated(d)
  BY <1>1, InsertedOK
<1>3. Len(b.recs) \in Nat /\ conf.hotCap \in Nat /\ rec.id \in Nat
  BY <1>1, ConfFacts DEF HotOK, HotRecord
<1> HIDE DEF d
<1>4. conf.mode = "fixed_budget" => Len(d.recs) <= conf.hotCap
  BY <1>2, <1>3 DEF Room
<1>5. IdSet(d.recs) \cap IdSet(c.recs) = {}
  BY <1>1, <1>2
<1>6. \A id \in IdSet(b.recs) \cup IdSet(c.recs) : id \in Nat
  <2>1. \A i \in DOMAIN b.recs : b.recs[i] \in HotRecord  BY <1>1 DEF HotOK
  <2>2. \A i \in DOMAIN c.recs : c.recs[i] \in ColdRecord  BY <1>1 DEF ColdOK
  <2> QED  BY <2>1, <2>2 DEF HotRecord, ColdRecord, IdSet
<1>7. \A id \in IdSet(d.recs) \cup IdSet(c.recs) : id < m
  BY <1>1, <1>2, <1>6
<1>8. Banks(conf, d, c, m)
  BY <1>1, <1>2, <1>4, <1>5, <1>7 DEF Banks
<1> QED
  BY <1>2, <1>8 DEF d
=============================================================================

-------------------------- MODULE LedgerFilesProofs --------------------------
(***************************************************************************)
(* Proofs about LedgerFiles, for any number of processes and versions, any *)
(* checkpoint interval and any number of damaged records: whatever is      *)
(* killed when, the directory can be read, every reader sees a state the   *)
(* task went through, and the directory of a task that was created without *)
(* a key is a durable history.                                             *)
(***************************************************************************)
EXTENDS LedgerFiles, FiniteSetTheorems, TLAPS

(***************************************************************************)
(* Numbers and sequences.                                                  *)
(***************************************************************************)
LEMMA Intervals ==
  ASSUME NEW n \in Nat
  PROVE  IsFiniteSet(1..n) /\ Cardinality(1..n) = n
<1>1. n \in Int /\ 1 \in Int
  OBVIOUS
<1>2. IsFiniteSet(1..n) /\ Cardinality(1..n) = IF 1 > n THEN 0 ELSE n - 1 + 1
  BY <1>1, FS_Interval
<1> QED
  BY <1>2

(* The greatest of some numbers in an interval.                            *)
LEMMA MaxIsGreatest ==
  ASSUME NEW a \in Nat, NEW b \in Nat, NEW S \in SUBSET (a..b), S # {}
  PROVE  Max(S) \in S /\ \A x \in S : x <= Max(S)
<1> DEFINE R == OpToRel(<, Nat)
           T == {b - x : x \in S}
<1>1. T \subseteq Nat /\ T # {}
  <2>1. \A x \in S : b - x \in Nat
    OBVIOUS
  <2>2. PICK x : x \in S
    OBVIOUS
  <2>3. b - x \in T
    BY <2>2
  <2> QED  BY <2>1, <2>3
<1>2. IsWellFoundedOn(R, Nat)
  BY NatLessThanWellFounded
<1>3. R = {ss \in Nat \X Nat : ss[1] < ss[2]}
  BY Zenon DEF OpToRel
<1>4. PICK t \in T : \A y \in T : <<y, t>> \notin R
  <2> HIDE DEF R, T
  <2> QED  BY <1>1, <1>2, WFMin
<1>5. \A y \in T : t <= y
  <2> HIDE DEF R, T
  <2>1. TAKE y \in T
  <2>2. t \in Nat /\ y \in Nat
    BY <1>1
  <2>3. ~(y < t)
    <3>1. <<y, t>> \in Nat \X Nat => (y < t => <<y, t>> \in R)
      BY <1>3
    <3> QED  BY <2>2, <3>1, <1>4
  <2> QED  BY <2>2, <2>3
<1>6. PICK m \in S : t = b - m
  OBVIOUS
<1>7. \A x \in S : m >= x
  <2> TAKE x \in S
  <2>1. b - x \in T /\ x \in a..b /\ m \in a..b
    OBVIOUS
  <2>2. b - m <= b - x
    BY <1>5, <1>6, <2>1
  <2> QED  BY <2>1, <2>2
<1>8. Max(S) = CHOOSE x \in S : \A y \in S : x >= y
  BY DEF Max
<1>9. Max(S) \in S /\ \A y \in S : Max(S) >= y
  BY <1>7, <1>8
<1> QED
  BY <1>9

(* The greatest number of an interval is its end.                          *)
LEMMA MaxOfInterval ==
  ASSUME NEW n \in Nat, n > 0
  PROVE  Max(1..n) = n
<1>1. 1..n \in SUBSET (1..n) /\ 1..n # {} /\ n \in 1..n
  OBVIOUS
<1>2. Max(1..n) \in 1..n /\ n <= Max(1..n)
  BY <1>1, MaxIsGreatest
<1> QED
  BY <1>2

(* A scan without a hole shows an initial segment.                         *)
LEMMA Segment ==
  ASSUME NEW n \in Nat, NEW S \in SUBSET (1..n), Contiguous(S)
  PROVE  Max(S) \in 1..n /\ S = 1..Max(S)
<1> DEFINE k == Cardinality(S)
<1>1. S # {} /\ S = 1..k
  BY DEF Contiguous
<1>2. k \in Nat
  <2>1. IsFiniteSet(S)
    BY Intervals, FS_Subset
  <2> QED  BY <2>1, FS_CardinalityType
<1> HIDE DEF k
<1>3. k > 0
  BY <1>1, <1>2
<1>4. Max(1..k) = k
  BY <1>2, <1>3, MaxOfInterval
<1>5. k \in 1..k
  BY <1>2, <1>3
<1>6. Max(S) = k
  BY <1>1, <1>4
<1>7. k \in 1..n
  BY <1>1, <1>5
<1> QED
  BY <1>1, <1>6, <1>7

(* An initial segment has no hole.                                         *)
LEMMA SegmentContiguous ==
  ASSUME NEW n \in Nat, n > 0
  PROVE  Contiguous(1..n)
<1>1. Cardinality(1..n) = n /\ 1 \in 1..n
  BY Intervals
<1> QED
  BY <1>1 DEF Contiguous

(* The part of a history up to a version.                                  *)
LEMMA Part ==
  ASSUME NEW L \in Seq(Updates), NEW v \in 0..Len(L)
  PROVE  /\ SubSeq(L, 1, v) \in Seq(Updates)
         /\ Len(SubSeq(L, 1, v)) = v
         /\ \A i \in 1..v : SubSeq(L, 1, v)[i] = L[i]
         /\ IsPrefix(SubSeq(L, 1, v), L)
<1>1. v \in Nat /\ Len(L) \in Nat /\ v <= Len(L)
  OBVIOUS
<1>2. /\ SubSeq(L, 1, v) \in Seq(Updates) /\ Len(SubSeq(L, 1, v)) = v
      /\ \A i \in 1..v : SubSeq(L, 1, v)[i] = L[i]
  BY <1>1
<1> DEFINE t == SubSeq(L, 1, v)
<1>3. SubSeq(t, 1, v) = t
  <2> HIDE DEF t
  <2>1. t \in Seq(Updates) /\ Len(t) = v
    BY <1>2 DEF t
  <2> QED  BY <1>1, <2>1
<1>4. IsPrefix(t, L)
  <2> HIDE DEF t
  <2> QED  BY <1>1, <1>2, <1>3 DEF IsPrefix, t
<1> QED
  BY <1>2, <1>4

(* All of a history is a part of it.                                       *)
LEMMA PartOfAll ==
  ASSUME NEW L \in Seq(Updates)
  PROVE  SubSeq(L, 1, Len(L)) = L
  OBVIOUS

(***************************************************************************)
(* Records.                                                                *)
(***************************************************************************)
(* The files hold the history L: snapshots its state, deltas its updates.  *)
Holds(r, L, v) ==
  /\ r = [schema |-> r.schema, body |-> r.body, rotten |-> r.rotten]
  /\ r.rotten \in BOOLEAN
  /\ \/ r.schema = 1 /\ r.body = SubSeq(L, 1, v)
     \/ r.schema = 2 /\ r.body = <<L[v]>>

Stored(fs, L) ==
  /\ L \in Seq(Updates)
  /\ DOMAIN fs = 1..Len(L)
  /\ \A v \in 1..Len(L) : Holds(fs[v], L, v)
  /\ L # <<>> => fs[1].schema = 1

(* Replay from a snapshot gives the state at every later version.          *)
LEMMA ReplayIs ==
  ASSUME NEW fs, NEW L, Stored(fs, L),
         NEW from \in 1..Len(L), NEW v \in 1..Len(L), from <= v, fs[from].schema = 1
  PROVE  Replay(fs, from, v) = SubSeq(L, 1, v)
<1> DEFINE S == {u \in from..v : fs[u].schema = 1}
           s == Max(S)
           tail == [i \in 1..(v - s) |-> Head(fs[s + i].body)]
<1>1. L \in Seq(Updates) /\ Len(L) \in Nat
  BY DEF Stored
<1>2. s \in S /\ \A u \in S : u <= s
  <2>1. S \in SUBSET (from..v) /\ from \in S /\ from \in Nat /\ v \in Nat
    BY <1>1
  <2> HIDE DEF S
  <2> QED  BY <2>1, MaxIsGreatest
<1>3. s \in from..v /\ fs[s].schema = 1 /\ \A u \in from..v : fs[u].schema = 1 => u <= s
  BY <1>2
<1>4. Replay(fs, from, v) = fs[s].body \o tail
  BY Zenon DEF Replay
<1> HIDE DEF S, s
<1>5. s \in Nat /\ v \in Nat /\ s <= v /\ s \in 1..Len(L) /\ v <= Len(L)
  BY <1>1, <1>3
<1>6. fs[s].body = SubSeq(L, 1, s)
  BY <1>3, <1>5 DEF Stored, Holds
<1>7. ASSUME NEW i \in 1..(v - s) PROVE tail[i] = L[s + i]
  <2>1. s + i \in 1..Len(L) /\ s + i \in from..v /\ ~(s + i <= s)
    BY <1>3, <1>5
  <2>2. fs[s + i].body = <<L[s + i]>>
    BY <1>3, <2>1 DEF Stored, Holds
  <2> QED  BY <2>2
<1>8. DOMAIN tail = 1..(v - s) /\ tail \in Seq(Updates) /\ Len(tail) = v - s
  <2>1. v - s \in Nat
    BY <1>5
  <2>2. \A i \in 1..(v - s) : L[s + i] \in Updates
    BY <1>1, <1>5
  <2>3. tail \in [1..(v - s) -> Updates]
    <3>1. DOMAIN tail = 1..(v - s) /\ tail = [i \in 1..(v - s) |-> tail[i]]
      OBVIOUS
    <3> HIDE DEF tail
    <3> QED  BY <1>7, <2>2, <3>1
  <2> HIDE DEF tail
  <2> QED  BY <2>1, <2>3
<1>9. /\ SubSeq(L, 1, s) \in Seq(Updates) /\ Len(SubSeq(L, 1, s)) = s
      /\ \A i \in 1..s : SubSeq(L, 1, s)[i] = L[i]
  BY <1>1, <1>5, Part
<1>10. /\ SubSeq(L, 1, v) \in Seq(Updates) /\ Len(SubSeq(L, 1, v)) = v
       /\ \A i \in 1..v : SubSeq(L, 1, v)[i] = L[i]
  BY <1>1, <1>5, Part
<1>11. SubSeq(L, 1, s) \o tail = SubSeq(L, 1, v)
  <2> DEFINE a == SubSeq(L, 1, s)
             c == SubSeq(L, 1, v)
             d == a \o tail
  <2> HIDE DEF a, c, tail
  <2>1. /\ a \in Seq(Updates) /\ Len(a) = s /\ \A i \in 1..s : a[i] = L[i]
        /\ c \in Seq(Updates) /\ Len(c) = v /\ \A i \in 1..v : c[i] = L[i]
    BY <1>9, <1>10 DEF a, c
  <2>2. d \in Seq(Updates) /\ Len(d) = v
    BY <1>5, <1>8, <2>1
  <2>3. ASSUME NEW i \in 1..v PROVE d[i] = c[i]
    <3>1. CASE i <= s
      <4>1. d[i] = a[i]  BY <1>5, <1>8, <2>1, <3>1
      <4> QED  BY <1>5, <2>1, <3>1, <4>1
    <3>2. CASE ~(i <= s)
      <4>1. i - s \in 1..(v - s) /\ s + (i - s) = i  BY <1>5, <3>2
      <4>2. d[i] = tail[i - s]  BY <1>5, <1>8, <2>1, <3>2
      <4> QED  BY <1>7, <2>1, <4>1, <4>2
    <3> QED  BY <3>1, <3>2
  <2> HIDE DEF d
  <2>4. d = c
    BY <2>1, <2>2, <2>3
  <2> QED  BY <2>4 DEF a, c, d
<1> QED
  BY <1>4, <1>6, <1>11

(* A checkpoint is not younger than the version it serves.                 *)
LEMMA Quotient ==
  ASSUME NEW v \in Nat, NEW d \in Nat \ {0}
  PROVE  (v \div d) * d \in 0..v
<1> DEFINE q == v \div d
<1>1. q \in Nat /\ v = d * q + (v % d) /\ v % d \in 0..(d - 1)
  OBVIOUS
<1> HIDE DEF q
<1>2. q * d = d * q /\ d * q \in Nat
  BY <1>1
<1> QED
  BY <1>1, <1>2 DEF q

(* A load starts at a snapshot.                                            *)
LEMMA StartIs ==
  ASSUME NEW fs, NEW L, Stored(fs, L), NEW v \in 1..Len(L)
  PROVE  Start(fs, v) \in 1..v /\ fs[Start(fs, v)].schema = 1
<1> DEFINE c == (v \div CheckpointInterval) * CheckpointInterval
<1>1. L \in Seq(Updates) /\ Len(L) \in Nat /\ L # <<>>
  BY DEF Stored
<1>2. c \in 0..v
  BY <1>1, Quotient, FilesAssumption
<1>3. fs[1].schema = 1
  BY <1>1 DEF Stored
<1>4. Start(fs, v) = IF c > 0 /\ Readable(fs, c, c) /\ fs[c].schema = 1 THEN c ELSE 1
  BY Zenon DEF Start
<1> HIDE DEF c
<1>5. CASE c > 0 /\ Readable(fs, c, c) /\ fs[c].schema = 1
  BY <1>2, <1>4, <1>5
<1>6. CASE ~(c > 0 /\ Readable(fs, c, c) /\ fs[c].schema = 1)
  BY <1>1, <1>3, <1>4, <1>6
<1> QED
  BY <1>5, <1>6

(* The quick load tells what the history was at that version.              *)
LEMMA LoadedIs ==
  ASSUME NEW fs, NEW L, Stored(fs, L), NEW v \in 1..Len(L)
  PROVE  Loaded(fs, v) = SubSeq(L, 1, v)
<1> DEFINE s == Start(fs, v)
<1>1. s \in 1..v /\ fs[s].schema = 1
  BY StartIs
<1>2. Loaded(fs, v) = Replay(fs, s, v)
  BY Zenon DEF Loaded
<1> HIDE DEF s
<1>3. s \in 1..Len(L) /\ s <= v
  BY <1>1 DEF Stored
<1> QED
  BY <1>1, <1>2, <1>3, ReplayIs

(* Files stand for the history they hold.                                  *)
LEMMA HistoryIs ==
  ASSUME NEW fs, NEW L, Stored(fs, L)
  PROVE  /\ L = IF Contiguous(DOMAIN fs) THEN Replay(fs, 1, Max(DOMAIN fs)) ELSE <<>>
         /\ L # <<>> => Max(DOMAIN fs) = Len(L) /\ Contiguous(DOMAIN fs)
<1>1. L \in Seq(Updates) /\ Len(L) \in Nat /\ DOMAIN fs = 1..Len(L)
  BY DEF Stored
<1>2. CASE L = <<>>
  <2>1. DOMAIN fs = {}
    BY <1>1, <1>2
  <2> QED  BY <1>2, <2>1 DEF Contiguous
<1>3. CASE L # <<>>
  <2>1. Len(L) > 0 /\ 1 \in 1..Len(L) /\ Len(L) \in 1..Len(L) /\ 1 <= Len(L)
    BY <1>1, <1>3
  <2>2. Contiguous(DOMAIN fs)
    BY <1>1, <2>1, SegmentContiguous
  <2>3. Max(DOMAIN fs) = Len(L)
    BY <1>1, <2>1, MaxOfInterval
  <2>4. fs[1].schema = 1
    BY <1>3 DEF Stored
  <2>5. Replay(fs, 1, Len(L)) = L
    BY <1>1, <2>1, <2>4, ReplayIs, PartOfAll
  <2> QED  BY <2>2, <2>3, <2>5
<1> QED
  BY <1>2, <1>3

(* The same of the directory.                                              *)
LEMMA LogIs ==
  ASSUME NEW L, Stored(files, L)
  PROVE  Log = L /\ (L # <<>> => Latest = Len(L) /\ Contiguous(DOMAIN files))
  BY HistoryIs DEF Log, Latest

(* After a step, too.                                                      *)
LEMMA NextLogIs ==
  ASSUME NEW L, Stored(files', L)
  PROVE  Log' = L
  BY HistoryIs DEF Log, Latest

(***************************************************************************)
(* How the history changes.                                                *)
(***************************************************************************)
LEMMA RotHolds ==
  ASSUME NEW r, NEW L, NEW v, Holds(r, L, v), NEW b \in BOOLEAN
  PROVE  /\ Holds([r EXCEPT !.rotten = b], L, v)
         /\ [r EXCEPT !.rotten = b].schema = r.schema
<1> DEFINE x == r.schema
           y == r.body
           z == r.rotten
<1>1. r = [schema |-> x, body |-> y, rotten |-> z]
  BY DEF Holds
<1> HIDE DEF x, y, z
<1>2. [r EXCEPT !.rotten = b] = [schema |-> x, body |-> y, rotten |-> b]
  BY <1>1
<1>3. (x = 1 /\ y = SubSeq(L, 1, v)) \/ (x = 2 /\ y = <<L[v]>>)
  BY DEF Holds, x, y
<1> DEFINE r2 == [r EXCEPT !.rotten = b]
<1>4. /\ r2 = [schema |-> x, body |-> y, rotten |-> b]
      /\ r2.schema = x /\ r2.body = y /\ r2.rotten = b
  BY <1>2
<1> HIDE DEF r2
<1>5. Holds(r2, L, v) /\ r2.schema = x
  BY <1>3, <1>4 DEF Holds
<1> QED
  BY <1>5 DEF r2, x

(* A damaged record still has its place.                                   *)
LEMMA RotStored ==
  ASSUME NEW fs, NEW L, Stored(fs, L), NEW v \in DOMAIN fs
  PROVE  Stored([fs EXCEPT ![v].rotten = TRUE], L)
<1> DEFINE gs == [fs EXCEPT ![v].rotten = TRUE]
<1>1. /\ DOMAIN gs = DOMAIN fs
      /\ \A u \in DOMAIN fs : gs[u] = IF u = v THEN [fs[u] EXCEPT !.rotten = TRUE] ELSE fs[u]
  OBVIOUS
<1> HIDE DEF gs
<1>2. ASSUME NEW u \in 1..Len(L) PROVE Holds(gs[u], L, u) /\ gs[u].schema = fs[u].schema
  <2> DEFINE r == fs[u]
             hurt == [r EXCEPT !.rotten = TRUE]
  <2>1. Holds(r, L, u) /\ u \in DOMAIN fs
    BY DEF Stored
  <2>2. gs[u] = hurt \/ gs[u] = r
    BY <1>1, <2>1
  <2> HIDE DEF r
  <2>3. Holds(hurt, L, u) /\ hurt.schema = r.schema
    BY <2>1, RotHolds
  <2> HIDE DEF hurt
  <2>4. Holds(gs[u], L, u) /\ gs[u].schema = r.schema
    BY <2>1, <2>2, <2>3
  <2> QED  BY <2>4 DEF r
<1>3. L # <<>> => 1 \in 1..Len(L)
  BY DEF Stored
<1> QED
  BY <1>1, <1>2, <1>3 DEF Stored, gs

(* A power loss leaves an initial part.                                    *)
LEMMA CutStored ==
  ASSUME NEW fs, NEW L, Stored(fs, L), NEW n \in 0..Len(L), NEW c
  PROVE  Stored([v \in 1..n |-> [fs[v] EXCEPT !.rotten = @ \/ v \notin c]], SubSeq(L, 1, n))
<1> DEFINE gs == [v \in 1..n |-> [fs[v] EXCEPT !.rotten = @ \/ v \notin c]]
           M == SubSeq(L, 1, n)
<1>1. L \in Seq(Updates) /\ Len(L) \in Nat /\ n \in Nat /\ n <= Len(L) /\ 1..n \subseteq 1..Len(L)
  BY DEF Stored
<1>2. M \in Seq(Updates) /\ Len(M) = n /\ \A i \in 1..n : M[i] = L[i]
  BY <1>1, Part
<1>3. ASSUME NEW v \in 1..n PROVE Holds(gs[v], M, v) /\ gs[v].schema = fs[v].schema
  <2> DEFINE r == fs[v]
             b == r.rotten \/ v \notin c
  <2>1. Holds(r, L, v) /\ r.rotten \in BOOLEAN
    BY <1>1 DEF Stored, Holds
  <2>2. b \in BOOLEAN
    BY <2>1
  <2>3. gs[v] = [r EXCEPT !.rotten = b]
    OBVIOUS
  <2> HIDE DEF r, b, gs
  <2>4. Holds(gs[v], L, v) /\ gs[v].schema = r.schema
    BY <2>1, <2>2, <2>3, RotHolds
  <2>5. SubSeq(M, 1, v) = SubSeq(L, 1, v) /\ M[v] = L[v]
    <3> HIDE DEF M
    <3>1. v \in Nat /\ v <= n  BY <1>1
    <3> QED  BY <1>1, <1>2, <3>1
  <2> QED  BY <2>4, <2>5 DEF Holds, r
<1>4. DOMAIN gs = 1..n
  OBVIOUS
<1>5. M # <<>> => 1 \in 1..n /\ L # <<>>
  <2> HIDE DEF M
  <2> QED  BY <1>1, <1>2
<1> HIDE DEF gs, M
<1>6. Stored(gs, M)
  BY <1>2, <1>3, <1>4, <1>5 DEF Stored
<1> QED
  BY <1>6 DEF gs, M

(* A creation begins it.                                                   *)
LEMMA FirstStored ==
  ASSUME NEW t \in Updates
  PROVE  Stored([v \in {1} |-> Record(1, <<t>>)], <<t>>)
<1> DEFINE fs == [v \in {1} |-> Record(1, <<t>>)]
           L == <<t>>
<1>1. L \in Seq(Updates) /\ Len(L) = 1 /\ SubSeq(L, 1, 1) = L
  <2>1. L \in Seq(Updates) /\ Len(L) = 1
    OBVIOUS
  <2> HIDE DEF L
  <2> QED  BY <2>1, PartOfAll
<1>2. DOMAIN fs = 1..Len(L)
  BY <1>1
<1>3. fs[1] = [schema |-> 1, body |-> L, rotten |-> FALSE]
  BY DEF Record
<1> HIDE DEF fs, L
<1>4. Holds(fs[1], L, 1) /\ fs[1].schema = 1
  BY <1>1, <1>3 DEF Holds
<1>5. \A v \in 1..Len(L) : v = 1
  BY <1>1
<1> QED
  BY <1>1, <1>2, <1>4, <1>5 DEF Stored, fs, L

(* A commit appends one update, as a delta or as a checkpoint.             *)
LEMMA NextStored ==
  ASSUME NEW fs, NEW L, Stored(fs, L), L # <<>>, NEW p \in Updates,
         NEW r \in RecordsFor(Append(L, p))
  PROVE  Stored([u \in DOMAIN fs \cup {Len(L) + 1} |-> IF u = Len(L) + 1 THEN r ELSE fs[u]],
                Append(L, p))
<1> DEFINE n == Len(L)
           M == Append(L, p)
           gs == [u \in DOMAIN fs \cup {n + 1} |-> IF u = n + 1 THEN r ELSE fs[u]]
<1>1. L \in Seq(Updates) /\ n \in Nat /\ n > 0 /\ DOMAIN fs = 1..n
  BY DEF Stored
<1>2. /\ M \in Seq(Updates) /\ Len(M) = n + 1 /\ M[n + 1] = p
      /\ \A i \in 1..n : M[i] = L[i]
  BY <1>1
<1>3. DOMAIN gs = 1..(n + 1) /\ gs[n + 1] = r /\ \A u \in 1..n : gs[u] = fs[u]
  BY <1>1
<1>4. Holds(r, M, n + 1)
  <2>1. r \in RecordsFor(M)
    OBVIOUS
  <2> HIDE DEF M, gs
  <2>2. SubSeq(M, 1, n + 1) = M
    BY <1>2, PartOfAll
  <2>3. Last(M) = M[n + 1]
    BY <1>2 DEF Last
  <2>4. r = Record(2, <<M[n + 1]>>) \/ r = Record(1, M)
    BY <2>1, <2>3 DEF RecordsFor
  <2>5. CASE r = Record(2, <<M[n + 1]>>)
    <3>1. r = [schema |-> 2, body |-> <<M[n + 1]>>, rotten |-> FALSE]
      BY <2>5 DEF Record
    <3>2. r.schema = 2 /\ r.body = <<M[n + 1]>> /\ r.rotten = FALSE
      BY <3>1
    <3> QED  BY <3>1, <3>2 DEF Holds
  <2>6. CASE r = Record(1, M)
    <3>1. r = [schema |-> 1, body |-> M, rotten |-> FALSE]
      BY <2>6 DEF Record
    <3>2. r.schema = 1 /\ r.body = M /\ r.rotten = FALSE
      BY <3>1
    <3> QED  BY <2>2, <3>1, <3>2 DEF Holds
  <2> QED  BY <2>4, <2>5, <2>6
<1>5. ASSUME NEW v \in 1..n PROVE Holds(gs[v], M, v)
  <2> HIDE DEF M, gs
  <2>1. v \in Nat /\ v <= n
    BY <1>1
  <2>2. SubSeq(M, 1, v) = SubSeq(L, 1, v) /\ M[v] = L[v]
    BY <1>1, <1>2, <2>1
  <2>3. Holds(fs[v], L, v)
    BY DEF Stored
  <2>4. Holds(fs[v], M, v)
    BY <2>2, <2>3 DEF Holds
  <2>5. gs[v] = fs[v]
    BY <1>3
  <2> QED  BY <2>4, <2>5
<1> HIDE DEF M, gs
<1>6. \A v \in 1..Len(M) : Holds(gs[v], M, v)
  <2> TAKE v \in 1..Len(M)
  <2>1. v \in 1..n \/ v = n + 1
    BY <1>1, <1>2
  <2> QED  BY <1>3, <1>4, <1>5, <2>1
<1>7. gs[1].schema = 1
  BY <1>1, <1>3 DEF Stored
<1>8. Stored(gs, M)
  BY <1>2, <1>3, <1>6, <1>7 DEF Stored
<1> QED
  BY <1>8 DEF gs, M

(***************************************************************************)
(* The inductive invariant.                                                *)
(***************************************************************************)
Holding == {"locked", "staged", "syncRoot", "flush", "rename", "syncDir"}

(* What a process may count on, and what it holds: under the lock the      *)
(* history cannot have changed since it was loaded or renamed.             *)
Working(p) ==
  /\ pc[p] \in Holding <=> holder = p
  /\ pc[p] = "staged" => DOMAIN files = {} /\ task[p] = <<Creation(p)>>
  /\ pc[p] \in {"flush", "rename"} =>
       /\ Log # <<>> /\ Len(Log) < MaxVersion /\ Overlong(files) = {}
       /\ \E u \in Updates : task[p] = Append(Log, u)
  /\ pc[p] \in {"syncRoot", "syncDir"} => task[p] = Log

(* A reader has no lock, but names never disappear under it.               *)
Reading(p) ==
  /\ low[p] \subseteq DOMAIN files
  /\ pc[p] = "read" => IsPrefix(task[p], Log) /\ low[p] \subseteq 1..Len(task[p])

Types ==
  /\ keyed \in BOOLEAN
  /\ keyed \in Keyings
  /\ holder \in Procs \cup {None}
  /\ pc \in [Procs -> Places]
  /\ task \in [Procs -> Seq(Updates)] /\ acked \in Seq(Updates)
  /\ low \in [Procs -> SUBSET (1..MaxVersion)]

(* Every name one sees has its bytes on disk, and what a writer was told   *)
(* is committed has its name there too, unless a key was taken.  No update *)
(* follows one that bound too long an evidence, which would not load.      *)
Disk ==
  /\ Stored(files, Log) /\ Len(Log) <= MaxVersion
  /\ content = DOMAIN files
  /\ Overlong(files) \subseteq {Len(Log)}
  /\ synced \in 0..Len(Log)
  /\ ~keyed => IsPrefix(acked, Log) /\ Len(acked) <= synced

IInv == Types /\ Disk /\ \A p \in Procs : Working(p) /\ Reading(p)

(* What a step does to the history and to what was acknowledged.           *)
Evolves ==
  \/ Log' = Log /\ acked' = acked
  \/ Log' = Log /\ acked' = Log
  \/ \E u \in Updates : Log' = Append(Log, u) /\ acked' = acked
  \/ \E n \in Len(acked)..Len(Log) : Log' = SubSeq(Log, 1, n) /\ acked' = acked

Goes == keyed' = keyed /\ (~keyed => Evolves) /\ AcceptsIntact

(* The facts about the history that the steps need.                        *)
LEMMA LogFacts ==
  ASSUME IInv
  PROVE  /\ Log \in Seq(Updates) /\ Len(Log) \in Nat /\ DOMAIN files = 1..Len(Log)
         /\ IsFiniteSet(DOMAIN files) /\ Cardinality(DOMAIN files) = Len(Log)
         /\ Log # <<>> => Latest = Len(Log) /\ Contiguous(DOMAIN files)
         /\ Contiguous(DOMAIN files) => Log # <<>>
<1>1. Stored(files, Log)
  BY DEF IInv, Disk
<1>2. Log \in Seq(Updates) /\ Len(Log) \in Nat /\ DOMAIN files = 1..Len(Log)
  BY <1>1 DEF Stored
<1>3. Log = <<>> => DOMAIN files = {}
  BY <1>2
<1> QED
  BY <1>1, <1>2, <1>3, LogIs, Intervals DEF Contiguous

(* The history is in the files.                                            *)
LEMMA SameLog ==
  ASSUME files' = files PROVE Log' = Log
  BY DEF Log, Latest

(* At first there is no task.                                              *)
LEMMA InitIInv == Init => IInv
<1> SUFFICES ASSUME Init PROVE IInv
  OBVIOUS
<1>1. DOMAIN files = {}
  BY DEF Init
<1>2. Log = <<>>
  BY <1>1 DEF Log, Contiguous
<1>3. Stored(files, <<>>)
  <2>1. <<>> \in Seq(Updates) /\ Len(<<>>) = 0 /\ 1..0 = {}
    OBVIOUS
  <2> QED  BY <1>1, <2>1 DEF Stored
<1>4. Types
  BY FilesAssumption DEF Init, Types, Places
<1>5. Disk
  <2>1. Overlong(files) = {}
    BY <1>1 DEF Overlong
  <2> QED  BY <1>1, <1>2, <1>3, <2>1, FilesAssumption DEF Init, Disk, IsPrefix
<1>6. ASSUME NEW p \in Procs PROVE Working(p) /\ Reading(p)
  BY <1>1, FilesAssumption DEF Init, Working, Reading, Holding
<1> QED
  BY <1>4, <1>5, <1>6 DEF IInv

(* A step of one process that changes no file.                             *)
LEMMA Quiet ==
  ASSUME IInv, NEW p \in Procs, files' = files, content' = content, keyed' = keyed,
         synced' = synced \/ synced' = Cardinality(DOMAIN files),
         NEW where \in Places, NEW t \in Seq(Updates), NEW l \in SUBSET DOMAIN files,
         pc' = [pc EXCEPT ![p] = where], task' = [task EXCEPT ![p] = t],
         low' = [low EXCEPT ![p] = l],
         holder' \in Procs \cup {None},
         \A q \in Procs \ {p} : holder' = q <=> holder = q,
         Working(p)', Reading(p)',
         acked' \in Seq(Updates),
         ~keyed => acked' = acked \/ (acked' = Log /\ synced' = Cardinality(DOMAIN files)),
         where = "verified" => Rotten \cap (1..Len(task[p])) = {}
  PROVE  IInv' /\ Goes
<1>1. /\ Types /\ Disk /\ Log' = Log /\ Log \in Seq(Updates) /\ Len(Log) \in Nat
      /\ DOMAIN files = 1..Len(Log) /\ Cardinality(DOMAIN files) = Len(Log)
  BY LogFacts, SameLog DEF IInv
<1>2. /\ \A q \in Procs \ {p} : pc'[q] = pc[q] /\ task'[q] = task[q] /\ low'[q] = low[q]
      /\ pc'[p] = where
  BY <1>1 DEF Types
<1>3. Types'
  <2>1. l \in SUBSET (1..MaxVersion)
    BY <1>1, FilesAssumption DEF Disk
  <2> QED  BY <1>1, <2>1 DEF Types
<1>4. Disk'
  <2>1. synced' \in 0..Len(Log)
    BY <1>1 DEF Disk
  <2>2. IsPrefix(Log, Log)
    BY <1>1 DEF IsPrefix
  <2>3. ~keyed => IsPrefix(acked', Log) /\ Len(acked') <= synced'
    <3>1. CASE acked' = acked
      <4>1. ~keyed => IsPrefix(acked, Log) /\ Len(acked) <= synced /\ Len(acked) \in Nat
        BY <1>1 DEF Disk, Types
      <4>2. synced <= synced'
        BY <1>1 DEF Disk
      <4> QED  BY <1>1, <2>1, <3>1, <4>1, <4>2 DEF Disk
    <3>2. CASE acked' = Log /\ synced' = Cardinality(DOMAIN files)
      BY <1>1, <2>2, <3>2
    <3> QED  BY <3>1, <3>2
  <2>4. Stored(files', Log')
    BY <1>1 DEF Disk
  <2> QED  BY <1>1, <2>1, <2>3, <2>4 DEF Disk
<1>5. ASSUME NEW q \in Procs \ {p} PROVE Working(q)' /\ Reading(q)'
  <2>1. Working(q) /\ Reading(q)
    BY DEF IInv
  <2> QED  BY <1>1, <1>2, <2>1 DEF Working, Reading
<1>6. IInv'
  BY <1>3, <1>4, <1>5 DEF IInv
<1>7. AcceptsIntact
  BY <1>2 DEF AcceptsIntact
<1>8. ~keyed => Evolves
  BY <1>1 DEF Evolves
<1> QED
  BY <1>6, <1>7, <1>8 DEF Goes

(* A call that returns or dies leaves no claim behind.                     *)
LEMMA ReturnQuiet ==
  ASSUME IInv, NEW p \in Procs, Return(p, "idle", <<>>), files' = files, content' = content,
         synced' = synced \/ synced' = Cardinality(DOMAIN files),
         acked' \in Seq(Updates),
         ~keyed => acked' = acked \/ (acked' = Log /\ synced' = Cardinality(DOMAIN files))
  PROVE  IInv' /\ Goes
<1>1. /\ holder' = IF holder = p THEN None ELSE holder
      /\ pc' = [pc EXCEPT ![p] = "idle"] /\ task' = [task EXCEPT ![p] = <<>>]
      /\ low' = [low EXCEPT ![p] = {}] /\ keyed' = keyed
  BY DEF Return
<1>2. Types
  BY DEF IInv
<1>3. pc'[p] = "idle" /\ low'[p] = {}
  BY <1>1, <1>2 DEF Types
<1>4. holder' \in Procs \cup {None} /\ holder' # p /\ \A q \in Procs \ {p} : holder' = q <=> holder = q
  BY <1>1, <1>2, FilesAssumption DEF Types
<1>5. Working(p)'
  BY <1>3, <1>4 DEF Working, Holding
<1>6. Reading(p)'
  BY <1>3 DEF Reading
<1>7. "idle" \in Places /\ <<>> \in Seq(Updates) /\ {} \in SUBSET DOMAIN files
  BY DEF Places
<1> QED
  BY <1>1, <1>4, <1>5, <1>6, <1>7, Quiet

(* A failure returns nothing.                                              *)
LEMMA FailOK ==
  ASSUME IInv, NEW p \in Procs, Fail(p)
  PROVE  IInv' /\ Goes
<1>1. /\ Return(p, "idle", <<>>) /\ files' = files /\ content' = content /\ synced' = synced
      /\ acked' = acked
  BY DEF Fail, disk
<1>2. acked \in Seq(Updates)
  BY DEF IInv, Types
<1> QED
  BY <1>1, <1>2, ReturnQuiet

(* A step that changes the lock and a place in the program only.           *)
LEMMA GotoQuiet ==
  ASSUME IInv, NEW p \in Procs, NEW from, NEW to \in Places, Goto(p, from, to),
         to \notin {"read", "verified"},
         files' = files, content' = content, acked' = acked,
         synced' = synced \/ synced' = Cardinality(DOMAIN files),
         low' = low, NEW t \in Seq(Updates), task' = [task EXCEPT ![p] = t],
         holder' \in Procs \cup {None},
         \A q \in Procs \ {p} : holder' = q <=> holder = q,
         to \in Holding <=> holder' = p,
         to = "staged" => DOMAIN files = {} /\ t = <<Creation(p)>>,
         to \in {"flush", "rename"} =>
           /\ Log # <<>> /\ Len(Log) < MaxVersion /\ Overlong(files) = {}
           /\ \E u \in Updates : t = Append(Log, u),
         to \notin {"syncRoot", "syncDir"}
  PROVE  IInv' /\ Goes
<1>1. pc' = [pc EXCEPT ![p] = to] /\ keyed' = keyed
  BY DEF Goto
<1>2. Types /\ Reading(p) /\ Log' = Log
  BY SameLog DEF IInv
<1>3. pc'[p] = to /\ task'[p] = t /\ low' = [low EXCEPT ![p] = low[p]]
  BY <1>1, <1>2 DEF Types
<1>4. Working(p)'
  BY <1>2, <1>3 DEF Working
<1>5. Reading(p)'
  BY <1>2, <1>3 DEF Reading
<1>6. low[p] \in SUBSET DOMAIN files /\ acked' \in Seq(Updates)
  BY <1>2 DEF Reading, Types
<1> QED
  BY <1>1, <1>3, <1>4, <1>5, <1>6, Quiet

(* Waiting for the lock and getting it.                                    *)
LEMMA LockingOK ==
  ASSUME IInv, NEW p \in Procs, Write(p) \/ InitRoot(p) \/ Acquire(p) \/ LockTimeout(p)
  PROVE  IInv' /\ Goes
<1>1. Types /\ Working(p) /\ task = [task EXCEPT ![p] = task[p]] /\ task[p] \in Seq(Updates)
  BY DEF IInv, Types
<1>2. {"init", "lock", "locked"} \subseteq Places
  BY DEF Places
<1>3. CASE Write(p)
  <2>1. /\ Goto(p, "idle", "init") /\ files' = files /\ content' = content /\ synced' = synced
        /\ holder' = holder /\ task' = task /\ low' = low /\ acked' = acked /\ pc[p] = "idle"
    BY <1>3 DEF Write, disk, Goto
  <2>2. /\ task' = [task EXCEPT ![p] = task[p]] /\ holder' # p /\ holder' \in Procs \cup {None}
        /\ "init" \notin Holding /\ \A q \in Procs \ {p} : holder' = q <=> holder = q
    BY <1>1, <2>1 DEF Working, Types, Holding
  <2> QED
    <3> DEFINE to == "init"
               from == "idle"
               t == task[p]
    <3>1. to \in Places /\ t \in Seq(Updates) /\ to \notin {"read", "verified", "staged", "flush", "rename", "syncRoot", "syncDir"}
      BY <1>1, <1>2
    <3>2. Goto(p, from, to) /\ task' = [task EXCEPT ![p] = t] /\ to \notin Holding
      BY <2>1, <2>2
    <3> HIDE DEF to, from, t
    <3> QED  BY <2>1, <2>2, <3>1, <3>2, GotoQuiet
<1>4. CASE InitRoot(p)
  <2>1. /\ Goto(p, "init", "lock") /\ files' = files /\ content' = content
        /\ synced' = Cardinality(DOMAIN files)
        /\ holder' = holder /\ task' = task /\ low' = low /\ acked' = acked /\ pc[p] = "init"
    BY <1>4 DEF InitRoot, SyncNames, Goto
  <2>2. /\ task' = [task EXCEPT ![p] = task[p]] /\ holder' # p /\ holder' \in Procs \cup {None}
        /\ "lock" \notin Holding /\ \A q \in Procs \ {p} : holder' = q <=> holder = q
    BY <1>1, <2>1 DEF Working, Types, Holding
  <2> QED
    <3> DEFINE to == "lock"
               from == "init"
               t == task[p]
    <3>1. to \in Places /\ t \in Seq(Updates) /\ to \notin {"read", "verified", "staged", "flush", "rename", "syncRoot", "syncDir"}
      BY <1>1, <1>2
    <3>2. Goto(p, from, to) /\ task' = [task EXCEPT ![p] = t] /\ to \notin Holding
      BY <2>1, <2>2
    <3> HIDE DEF to, from, t
    <3> QED  BY <2>1, <2>2, <3>1, <3>2, GotoQuiet
<1>5. CASE Acquire(p)
  <2>1. /\ Goto(p, "lock", "locked") /\ files' = files /\ content' = content /\ synced' = synced
        /\ holder = None /\ holder' = p /\ task' = task /\ low' = low /\ acked' = acked
    BY <1>5 DEF Acquire, disk
  <2>2. \A q \in Procs \ {p} : holder' = q <=> holder = q
    BY <2>1, FilesAssumption
  <2> QED  BY <1>1, <1>2, <2>1, <2>2, GotoQuiet DEF Holding
<1>6. CASE LockTimeout(p)
  BY <1>6, FailOK DEF LockTimeout
<1> QED
  BY <1>3, <1>4, <1>5, <1>6

(* Under the lock, before the rename.                                      *)
LEMMA PrepareOK ==
  ASSUME IInv, NEW p \in Procs, Stage(p) \/ LoadBase(p) \/ FlushTemp(p)
  PROVE  IInv' /\ Goes
<1>1. Types /\ Working(p)
  BY DEF IInv
<1>2. {"staged", "flush", "rename"} \subseteq Places
  BY DEF Places
<1>3. CASE Stage(p)
  <2>1. /\ Goto(p, "locked", "staged") /\ files' = files /\ content' = content /\ synced' = synced
        /\ holder' = holder /\ low' = low /\ acked' = acked /\ pc[p] = "locked"
        /\ task' = [task EXCEPT ![p] = <<Creation(p)>>] /\ files = <<>>
    BY <1>3 DEF Stage, disk, Goto
  <2>2. holder = p /\ <<Creation(p)>> \in Seq(Updates) /\ DOMAIN files = {}
    <3>1. Creation(p) \in Updates
      BY DEF Creation, Updates
    <3> QED  BY <1>1, <2>1, <3>1 DEF Working, Holding
  <2> QED
    <3> DEFINE to == "staged"
               from == "locked"
               t == <<Creation(p)>>
    <3>1. /\ to \in Places /\ t \in Seq(Updates) /\ to \notin {"read", "verified", "syncRoot", "syncDir"}
          /\ Goto(p, from, to) /\ task' = [task EXCEPT ![p] = t]
      BY <1>2, <2>1, <2>2
    <3>2. /\ to = "staged" => DOMAIN files = {} /\ t = <<Creation(p)>>
          /\ to \in {"flush", "rename"} =>
               /\ Log # <<>> /\ Len(Log) < MaxVersion /\ Overlong(files) = {}
               /\ \E u \in Updates : t = Append(Log, u)
      BY <2>1, <2>2
    <3>3. /\ to \in Holding <=> holder' = p
          /\ holder' \in Procs \cup {None}
          /\ \A q \in Procs \ {p} : holder' = q <=> holder = q
      BY <2>1, <2>2 DEF Holding
    <3> HIDE DEF to, from, t
    <3> QED  BY <2>1, <3>1, <3>2, <3>3, GotoQuiet
<1>4. CASE LoadBase(p)
  <2>1. /\ Goto(p, "locked", "flush") /\ files' = files /\ content' = content /\ synced' = synced
        /\ holder' = holder /\ low' = low /\ acked' = acked /\ pc[p] = "locked"
        /\ Contiguous(DOMAIN files) /\ Latest < MaxVersion /\ Loadable(files, Latest)
    BY <1>4 DEF LoadBase, disk, Goto
  <2>0. PICK u \in Updates : task' = [task EXCEPT ![p] = Append(Loaded(files, Latest), u)]
    BY <1>4, FilesAssumption DEF LoadBase, Updates
  <2>2. /\ Stored(files, Log) /\ Log # <<>> /\ Latest = Len(Log)
        /\ Log \in Seq(Updates) /\ Len(Log) \in Nat
    BY <2>1, LogFacts DEF IInv, Disk
  <2>3. Loaded(files, Latest) = Log
    <3>1. Len(Log) \in 1..Len(Log)
      BY <2>2
    <3> QED  BY <2>2, <3>1, LoadedIs, PartOfAll
  <2>4. holder = p /\ Append(Log, u) \in Seq(Updates)
    BY <1>1, <2>1, <2>2 DEF Working, Holding
  <2>5. Overlong(files) = {}
    <3>1. Len(Log) \in 1..Len(Log)
      BY <2>2
    <3>2. Start(files, Len(Log)) \in 1..Len(Log)
      BY <2>2, <3>1, StartIs
    <3>3. Len(Log) \in Start(files, Len(Log))..Len(Log)
      BY <2>2, <3>2
    <3>4. Overlong(files) \subseteq {Len(Log)}
      BY DEF IInv, Disk
    <3> QED  BY <2>1, <2>2, <3>3, <3>4 DEF Loadable, Replayable
  <2>6. /\ task' = [task EXCEPT ![p] = Append(Log, u)] /\ Append(Log, u) \in Seq(Updates)
        /\ Len(Log) < MaxVersion
    BY <2>0, <2>1, <2>2, <2>3, <2>4
  <2> QED
    <3> DEFINE to == "flush"
               from == "locked"
               t == Append(Log, u)
    <3>1. /\ to \in Places /\ t \in Seq(Updates) /\ to \notin {"read", "verified", "syncRoot", "syncDir"}
          /\ Goto(p, from, to) /\ task' = [task EXCEPT ![p] = t]
      BY <1>2, <2>1, <2>2, <2>4, <2>5, <2>6
    <3>2. /\ to = "staged" => DOMAIN files = {} /\ t = <<Creation(p)>>
          /\ to \in {"flush", "rename"} =>
               /\ Log # <<>> /\ Len(Log) < MaxVersion /\ Overlong(files) = {}
               /\ \E x \in Updates : t = Append(Log, x)
      BY <2>1, <2>2, <2>4, <2>5, <2>6
    <3>3. /\ to \in Holding <=> holder' = p
          /\ holder' \in Procs \cup {None}
          /\ \A q \in Procs \ {p} : holder' = q <=> holder = q
      BY <2>1, <2>2, <2>4, <2>5, <2>6 DEF Holding
    <3> HIDE DEF to, from, t
    <3> QED  BY <2>1, <3>1, <3>2, <3>3, GotoQuiet
<1>5. CASE FlushTemp(p)
  <2>1. /\ Goto(p, "flush", "rename") /\ files' = files /\ content' = content /\ synced' = synced
        /\ holder' = holder /\ low' = low /\ acked' = acked /\ pc[p] = "flush" /\ task' = task
    BY <1>5 DEF FlushTemp, disk, Goto
  <2>2. /\ holder = p /\ Log # <<>> /\ Len(Log) < MaxVersion /\ Overlong(files) = {}
        /\ \E u \in Updates : task[p] = Append(Log, u)
        /\ task = [task EXCEPT ![p] = task[p]] /\ task[p] \in Seq(Updates)
    BY <1>1, <2>1 DEF Working, Holding, Types
  <2> QED
    <3> DEFINE to == "rename"
               from == "flush"
               t == task[p]
    <3>1. /\ to \in Places /\ t \in Seq(Updates) /\ to \notin {"read", "verified", "syncRoot", "syncDir"}
          /\ Goto(p, from, to) /\ task' = [task EXCEPT ![p] = t]
      BY <1>2, <2>1, <2>2
    <3>2. /\ to = "staged" => DOMAIN files = {} /\ t = <<Creation(p)>>
          /\ to \in {"flush", "rename"} =>
               /\ Log # <<>> /\ Len(Log) < MaxVersion /\ Overlong(files) = {}
               /\ \E u \in Updates : t = Append(Log, u)
      BY <2>1, <2>2
    <3>3. /\ to \in Holding <=> holder' = p
          /\ holder' \in Procs \cup {None}
          /\ \A q \in Procs \ {p} : holder' = q <=> holder = q
      BY <2>1, <2>2 DEF Holding
    <3> HIDE DEF to, from, t
    <3> QED  BY <2>1, <3>1, <3>2, <3>3, GotoQuiet
<1> QED
  BY <1>3, <1>4, <1>5

(* The writer returns.                                                     *)
LEMMA AcknowledgeOK ==
  ASSUME IInv, NEW p \in Procs, SyncRoot(p) \/ SyncDir(p) \/ ReturnExisting(p)
  PROVE  IInv' /\ Goes
<1>1. Types /\ Working(p)
  BY DEF IInv
<1>2. CASE SyncRoot(p) \/ SyncDir(p)
  <2>1. /\ pc[p] \in {"syncRoot", "syncDir"} /\ synced' = Cardinality(DOMAIN files)
        /\ acked' = task[p] /\ Return(p, "idle", <<>>) /\ files' = files /\ content' = content
    BY <1>2 DEF SyncRoot, SyncDir, SyncNames
  <2>2. acked' = Log /\ acked' \in Seq(Updates)
    BY <1>1, <2>1, LogFacts DEF Working
  <2> QED  BY <2>1, <2>2, ReturnQuiet
<1>3. CASE ReturnExisting(p)
  <2>1. /\ keyed /\ Return(p, "idle", <<>>) /\ files' = files /\ content' = content /\ synced' = synced
        /\ Contiguous(DOMAIN files)
        /\ acked' = IF acked = <<>> THEN Loaded(files, 1) ELSE acked
    BY <1>3 DEF ReturnExisting, disk
  <2>2. /\ Stored(files, Log) /\ Log # <<>> /\ Log \in Seq(Updates) /\ Len(Log) \in Nat
    BY <2>1, LogFacts DEF IInv, Disk
  <2>3. Loaded(files, 1) \in Seq(Updates)
    <3>1. 1 \in 1..Len(Log) /\ 1 \in 0..Len(Log)
      BY <2>2
    <3> QED  BY <2>2, <3>1, LoadedIs, Part
  <2>4. acked' \in Seq(Updates)
    BY <1>1, <2>1, <2>3 DEF Types
  <2> QED  BY <2>1, <2>4, ReturnQuiet
<1> QED
  BY <1>2, <1>3

(* What was a state of the task stays one.                                 *)
LEMMA PrefixGrows ==
  ASSUME NEW t \in Seq(Updates), NEW L \in Seq(Updates), IsPrefix(t, L), NEW p \in Updates
  PROVE  IsPrefix(t, Append(L, p))
<1> DEFINE M == Append(L, p)
           n == Len(t)
<1>1. n \in Nat /\ Len(L) \in Nat /\ n <= Len(L) /\ SubSeq(t, 1, n) = SubSeq(L, 1, n)
  BY DEF IsPrefix
<1>2. M \in Seq(Updates) /\ Len(M) = Len(L) + 1 /\ \A i \in 1..Len(L) : M[i] = L[i]
  OBVIOUS
<1> HIDE DEF M, n
<1>3. SubSeq(M, 1, n) = SubSeq(L, 1, n)
  BY <1>1, <1>2
<1>4. n <= Len(M)
  BY <1>1, <1>2
<1> QED
  BY <1>1, <1>3, <1>4 DEF IsPrefix, M, n

(* A rename under the lock makes one more update visible.                  *)
LEMMA RenamedOK ==
  ASSUME IInv, NEW p \in Procs, NEW x \in Updates, holder = p, task[p] = Append(Log, x), Len(Log) < MaxVersion,
         Stored(files', Append(Log, x)), content' = DOMAIN files',
         Overlong(files') \subseteq {Len(Log) + 1},
         synced' = synced, holder' = holder, low' = low, task' = task, acked' = acked,
         keyed' = keyed, NEW to \in {"syncRoot", "syncDir"}, pc' = [pc EXCEPT ![p] = to]
  PROVE  IInv' /\ Goes
<1>1. /\ Types /\ Disk /\ Log \in Seq(Updates) /\ Len(Log) \in Nat /\ DOMAIN files = 1..Len(Log)
      /\ MaxVersion \in Nat
  BY LogFacts, FilesAssumption DEF IInv
<1>2. Log' = Append(Log, x) /\ Len(Append(Log, x)) = Len(Log) + 1
  <2> DEFINE M == Append(Log, x)
  <2>1. Len(M) = Len(Log) + 1
    BY <1>1
  <2> HIDE DEF M
  <2>2. Stored(files', M)
    BY DEF M
  <2>3. Log' = M
    BY <2>2, NextLogIs
  <2> QED  BY <2>1, <2>3 DEF M
<1>3. DOMAIN files' = 1..(Len(Log) + 1)
  BY <1>2 DEF Stored
<1>4. DOMAIN files \subseteq DOMAIN files'
  BY <1>1, <1>3
<1>5. pc'[p] = to /\ to \in Places /\ \A q \in Procs \ {p} : pc'[q] = pc[q]
  BY <1>1 DEF Types, Places
<1>6. Types'
  BY <1>1, <1>5 DEF Types
<1>7. Disk'
  <2>1. synced' \in 0..Len(Log')
    BY <1>1, <1>2 DEF Disk
  <2>2. Len(Log') <= MaxVersion
    BY <1>1, <1>2
  <2>3. ~keyed => IsPrefix(acked', Log') /\ Len(acked') <= synced'
    <3>1. ~keyed => IsPrefix(acked, Log) /\ Len(acked) <= synced
      BY <1>1 DEF Disk
    <3>2. acked \in Seq(Updates)
      BY <1>1 DEF Types
    <3> QED  BY <1>1, <1>2, <3>1, <3>2, PrefixGrows
  <2>4. Overlong(files') \subseteq {Len(Log')}
    BY <1>2
  <2> QED  BY <1>2, <2>1, <2>2, <2>3, <2>4 DEF Disk
<1>8. ASSUME NEW q \in Procs PROVE Reading(q)'
  <2>1. Reading(q) /\ task[q] \in Seq(Updates)
    BY <1>1 DEF IInv, Types
  <2>2. low'[q] \subseteq DOMAIN files'
    BY <1>4, <2>1 DEF Reading
  <2>3. ASSUME pc'[q] = "read" PROVE IsPrefix(task'[q], Log') /\ low'[q] \subseteq 1..Len(task'[q])
    <3>1. pc[q] = "read"
      BY <1>5, <2>3
    <3>2. IsPrefix(task[q], Log) /\ low[q] \subseteq 1..Len(task[q])
      BY <2>1, <3>1 DEF Reading
    <3> QED  BY <1>1, <1>2, <2>1, <3>2, PrefixGrows
  <2> QED  BY <2>2, <2>3 DEF Reading
<1>9. ASSUME NEW q \in Procs PROVE Working(q)'
  <2>1. CASE q = p
    BY <1>2, <1>5, <2>1 DEF Working, Holding
  <2>2. CASE q # p
    <3>1. Working(q) /\ holder # q
      BY <2>2 DEF IInv
    <3>2. pc'[q] = pc[q] /\ pc[q] \notin Holding
      BY <1>5, <2>2, <3>1 DEF Working
    <3> QED  BY <3>1, <3>2 DEF Working, Holding
  <2> QED  BY <2>1, <2>2
<1>10. AcceptsIntact
  BY <1>5 DEF AcceptsIntact
<1>11. Evolves
  BY <1>2 DEF Evolves
<1> QED
  BY <1>6, <1>7, <1>8, <1>9, <1>10, <1>11 DEF IInv, Goes

(* The renames of create and update.                                       *)
LEMMA RenameOK ==
  ASSUME IInv, NEW p \in Procs, RenameStage(p) \/ RenameTemp(p)
  PROVE  IInv' /\ Goes
<1>1. Types /\ Working(p) /\ Disk /\ Log \in Seq(Updates) /\ Len(Log) \in Nat /\ DOMAIN files = 1..Len(Log)
  BY LogFacts DEF IInv
<1>2. CASE RenameStage(p)
  <2>1. /\ pc[p] = "staged" /\ pc' = [pc EXCEPT ![p] = "syncRoot"] /\ keyed' = keyed
        /\ files' = [v \in {1} |-> Record(1, task[p])] /\ content' = {1}
        /\ synced' = synced /\ holder' = holder /\ task' = task /\ low' = low /\ acked' = acked
    BY <1>2 DEF RenameStage, Goto
  <2> DEFINE t == Creation(p)
  <2>2. holder = p /\ DOMAIN files = {} /\ task[p] = <<t>> /\ t \in Updates
    BY <1>1, <2>1 DEF Working, Holding, Creation, Updates
  <2> HIDE DEF t
  <2>3. Log = <<>>
    <3>1. DOMAIN files = {}
      BY <2>2
    <3> QED  BY <1>1, <3>1
  <2>4. Append(Log, t) = <<t>> /\ Len(Log) < MaxVersion
    BY <2>3, FilesAssumption
  <2>5. Stored(files', Append(Log, t)) /\ content' = DOMAIN files'
    BY <2>1, <2>2, <2>4, FirstStored
  <2>6. Overlong(files') = {}
    BY <2>1 DEF Overlong, Record
  <2> QED  BY <2>1, <2>2, <2>4, <2>5, <2>6, RenamedOK
<1>3. CASE RenameTemp(p)
  <2> DEFINE v == Len(task[p])
  <2>1. /\ pc[p] = "rename" /\ pc' = [pc EXCEPT ![p] = "syncDir"] /\ keyed' = keyed
        /\ \E r \in RecordsFor(task[p]) :
             files' = [u \in DOMAIN files \cup {v} |-> IF u = v THEN r ELSE files[u]]
        /\ content' = content \cup {v}
        /\ synced' = synced /\ holder' = holder /\ task' = task /\ low' = low /\ acked' = acked
    BY <1>3 DEF RenameTemp, Goto
  <2>2. holder = p /\ Log # <<>> /\ Len(Log) < MaxVersion /\ Overlong(files) = {}
    BY <1>1, <2>1 DEF Working, Holding
  <2>0. PICK x \in Updates : task[p] = Append(Log, x)
    BY <1>1, <2>1 DEF Working
  <2>3. v = Len(Log) + 1
    BY <1>1, <2>0
  <2> HIDE DEF v
  <2>4. PICK r \in RecordsFor(Append(Log, x)) :
          files' = [u \in DOMAIN files \cup {Len(Log) + 1} |-> IF u = Len(Log) + 1 THEN r ELSE files[u]]
    BY <2>0, <2>1, <2>3
  <2>5. Stored(files', Append(Log, x))
    BY <1>1, <2>2, <2>4, NextStored DEF Disk
  <2>6. content' = DOMAIN files'
    BY <1>1, <2>1, <2>3, <2>4 DEF Disk
  <2>7. Overlong(files') \subseteq {Len(Log) + 1}
    BY <2>2, <2>4 DEF Overlong
  <2> QED  BY <2>0, <2>1, <2>2, <2>5, <2>6, <2>7, RenamedOK
<1> QED
  BY <1>2, <1>3

(* What a scan can show a reader.                                          *)
LEMMA ScanIs ==
  ASSUME IInv, NEW S \in SUBSET DOMAIN files, Contiguous(S)
  PROVE  /\ Max(S) \in 1..Len(Log) /\ S = 1..Max(S)
         /\ Loaded(files, Max(S)) = SubSeq(Log, 1, Max(S))
         /\ Replay(files, 1, Max(S)) = SubSeq(Log, 1, Max(S))
<1> DEFINE m == Max(S)
<1>1. Stored(files, Log) /\ Len(Log) \in Nat /\ DOMAIN files = 1..Len(Log)
  BY LogFacts DEF IInv, Disk
<1>2. m \in 1..Len(Log) /\ S = 1..m
  BY <1>1, Segment
<1> HIDE DEF m
<1>3. Loaded(files, m) = SubSeq(Log, 1, m)
  BY <1>1, <1>2, LoadedIs
<1>4. Replay(files, 1, m) = SubSeq(Log, 1, m)
  <2>1. Log # <<>> /\ 1 \in 1..Len(Log) /\ 1 <= m
    BY <1>1, <1>2
  <2>2. files[1].schema = 1
    BY <1>1, <2>1 DEF Stored
  <2> QED  BY <1>1, <1>2, <2>1, <2>2, ReplayIs
<1> QED
  BY <1>2, <1>3, <1>4 DEF m

(* Readers, and calls that are cut short.                                  *)
LEMMA ReadersOK ==
  ASSUME IInv, NEW p \in Procs,
         BeginRead(p) \/ Load(p) \/ LoadFails(p) \/ VerifyReplay(p) \/ Report(p) \/ Abort(p)
  PROVE  IInv' /\ Goes
<1>1. /\ Types /\ Working(p) /\ Reading(p) /\ (files' = files => Log' = Log)
      /\ Log \in Seq(Updates) /\ Len(Log) \in Nat /\ DOMAIN files = 1..Len(Log)
      /\ task[p] \in Seq(Updates) /\ acked \in Seq(Updates) /\ low[p] \subseteq DOMAIN files
  BY LogFacts, SameLog DEF IInv, Types, Reading
<1>2. {"load", "list", "listed", "read", "verified", "suspect"} \subseteq Places \ Holding
  BY DEF Places, Holding
<1>3. CASE BeginRead(p)
  <2>1. PICK to \in {"load", "list"} : pc[p] = "idle" /\ pc' = [pc EXCEPT ![p] = to] /\ keyed' = keyed
    BY <1>3 DEF BeginRead, Goto
  <2>2. /\ low' = [low EXCEPT ![p] = DOMAIN files] /\ files' = files /\ content' = content
        /\ synced' = synced /\ holder' = holder /\ task' = task /\ acked' = acked
    BY <1>3 DEF BeginRead, disk
  <2>3. /\ pc'[p] = to /\ low'[p] = DOMAIN files /\ holder' # p
        /\ task' = [task EXCEPT ![p] = task[p]] /\ holder' \in Procs \cup {None}
    BY <1>1, <2>1, <2>2 DEF Types, Working, Holding
  <2>4. Working(p)' /\ Reading(p)' /\ to # "verified"
    BY <1>2, <2>2, <2>3 DEF Working, Reading, Holding
  <2>5. to \in Places /\ DOMAIN files \in SUBSET DOMAIN files
    BY <1>2
  <2> HIDE DEF Holding
  <2> QED  BY <1>1, <2>1, <2>2, <2>3, <2>4, <2>5, Quiet
<1>4. CASE Load(p)
  <2> DEFINE where == IF pc[p] = "load" THEN "read" ELSE "listed"
             l == IF pc[p] = "load" THEN low[p] ELSE DOMAIN files
  <2>1. PICK S \in Scans(p) : Contiguous(S) /\ task' = [task EXCEPT ![p] = Loaded(files, Max(S))]
    BY <1>4 DEF Load
  <2>2. /\ pc[p] \in {"load", "list"} /\ keyed' = keyed /\ files' = files /\ content' = content
        /\ synced' = synced /\ holder' = holder /\ acked' = acked
    BY <1>4 DEF Load, disk
  <2>3. pc' = [pc EXCEPT ![p] = where] /\ low' = [low EXCEPT ![p] = l]
    BY <1>1, <1>4 DEF Load, Types
  <2> DEFINE m == Max(S)
             t == Loaded(files, m)
  <2>4. m \in 1..Len(Log) /\ S = 1..m /\ t = SubSeq(Log, 1, m) /\ low[p] \subseteq S
    BY <2>1, ScanIs DEF Scans
  <2> HIDE DEF m, t
  <2>5. t \in Seq(Updates) /\ Len(t) = m /\ IsPrefix(t, Log)
    <3>1. m \in 0..Len(Log)
      BY <1>1, <2>4
    <3> QED  BY <1>1, <2>4, <3>1, Part
  <2>6. task' = [task EXCEPT ![p] = t]
    BY <2>1 DEF m, t
  <2>7. /\ where \in {"read", "listed"} /\ l \in SUBSET DOMAIN files
        /\ where = "read" => l = low[p]
    BY <1>1
  <2> HIDE DEF where, l
  <2>8. pc'[p] = where /\ low'[p] = l /\ task'[p] = t
    BY <1>1, <2>3, <2>6 DEF Types
  <2>9. holder' # p /\ holder' \in Procs \cup {None}
    BY <1>1, <1>2, <2>2 DEF Types, Working
  <2>10. Working(p)'
    BY <1>2, <2>7, <2>8, <2>9 DEF Working, Holding
  <2>11. Reading(p)'
    BY <1>1, <2>2, <2>4, <2>5, <2>7, <2>8 DEF Reading
  <2>12. where \in Places /\ where # "verified"
    BY <1>2, <2>7
  <2> QED  BY <1>1, <2>2, <2>3, <2>5, <2>6, <2>7, <2>9, <2>10, <2>11, <2>12, Quiet
<1>5. CASE LoadFails(p)
  BY <1>5, FailOK DEF LoadFails
<1>6. CASE VerifyReplay(p)
  <2>1. PICK S \in Scans(p) :
          pc' = [pc EXCEPT ![p] = IF Verified(task[p], S) THEN "verified" ELSE "suspect"]
    BY <1>6 DEF VerifyReplay
  <2> DEFINE where == IF Verified(task[p], S) THEN "verified" ELSE "suspect"
  <2>2. /\ pc[p] = "listed" /\ keyed' = keyed /\ files' = files /\ content' = content
        /\ synced' = synced /\ holder' = holder /\ acked' = acked /\ task' = task /\ low' = low
    BY <1>6 DEF VerifyReplay, disk
  <2>3. where = "verified" => Rotten \cap (1..Len(task[p])) = {}
    <3> SUFFICES ASSUME Verified(task[p], S)
                 PROVE  Rotten \cap (1..Len(task[p])) = {}
      OBVIOUS
    <3> DEFINE m == Max(S)
    <3>1. Contiguous(S) /\ Readable(files, 1, m) /\ Replay(files, 1, m) = task[p]
      BY DEF Verified, Replayable
    <3>2. m \in 1..Len(Log) /\ task[p] = SubSeq(Log, 1, m)
      BY <3>1, ScanIs DEF Scans
    <3> HIDE DEF m
    <3>3. Len(task[p]) = m
      <4>1. m \in 0..Len(Log)  BY <1>1, <3>2
      <4> QED  BY <1>1, <3>2, <4>1, Part
    <3> QED  BY <3>1, <3>3 DEF Readable, Rotten
  <2>4. where \in {"verified", "suspect"} /\ pc' = [pc EXCEPT ![p] = where]
    BY <2>1
  <2> HIDE DEF where
  <2>5. /\ pc'[p] = where /\ holder' # p /\ holder' \in Procs \cup {None}
        /\ task' = [task EXCEPT ![p] = task[p]] /\ low' = [low EXCEPT ![p] = low[p]]
    BY <1>1, <1>2, <2>2, <2>4 DEF Types, Working
  <2>6. Working(p)' /\ Reading(p)'
    BY <1>1, <1>2, <2>2, <2>4, <2>5 DEF Working, Reading, Holding
  <2>7. where \in Places
    BY <1>2, <2>4
  <2> QED  BY <1>1, <2>2, <2>3, <2>4, <2>5, <2>6, <2>7, Quiet
<1>7. CASE Report(p) \/ Abort(p)
  BY <1>7, FailOK DEF Report, Abort
<1> QED
  BY <1>3, <1>4, <1>5, <1>6, <1>7

(* The machine loses power.                                                *)
LEMMA PowerLossOK ==
  ASSUME IInv, PowerLoss
  PROVE  IInv' /\ Goes
<1>1. /\ Types /\ Disk /\ Log \in Seq(Updates) /\ Len(Log) \in Nat /\ DOMAIN files = 1..Len(Log)
      /\ Cardinality(DOMAIN files) = Len(Log)
  BY LogFacts DEF IInv
<1>2. PICK n \in synced..Cardinality(DOMAIN files) :
        /\ files' = [v \in 1..n |-> [files[v] EXCEPT !.rotten = @ \/ v \notin content]]
        /\ content' = content \cap 1..n
        /\ synced' = n
  BY DEF PowerLoss
<1>3. /\ holder' = None /\ pc' = [p \in Procs |-> "idle"] /\ task' = [p \in Procs |-> <<>>]
      /\ low' = [p \in Procs |-> {}] /\ keyed' = keyed /\ acked' = acked
  BY DEF PowerLoss
<1>4. n \in 0..Len(Log) /\ synced <= n /\ synced \in Nat
  BY <1>1, <1>2 DEF Disk
<1> DEFINE M == SubSeq(Log, 1, n)
<1>5. Stored(files', M)
  BY <1>1, <1>2, <1>4, CutStored DEF Disk
<1>6. M \in Seq(Updates) /\ Len(M) = n /\ \A i \in 1..n : M[i] = Log[i]
  BY <1>1, <1>4, Part
<1> HIDE DEF M
<1>7. Log' = M
  BY <1>5, NextLogIs
<1>8. Disk'
  <2>1. content' = DOMAIN files'
    BY <1>1, <1>2, <1>4 DEF Disk
  <2>2. Len(M) <= MaxVersion /\ n \in 0..Len(M)
    BY <1>1, <1>4, <1>6, FilesAssumption DEF Disk
  <2>3. ~keyed => IsPrefix(acked, M) /\ Len(acked) <= n
    <3> SUFFICES ASSUME ~keyed PROVE IsPrefix(acked, M) /\ Len(acked) <= n
      OBVIOUS
    <3> DEFINE k == Len(acked)
    <3>1. k \in Nat /\ k <= n /\ n <= Len(Log)
      BY <1>1, <1>4 DEF Disk, Types
    <3>2. SubSeq(acked, 1, k) = SubSeq(Log, 1, k)
      BY <1>1 DEF Disk, IsPrefix
    <3> HIDE DEF k
    <3>3. SubSeq(M, 1, k) = SubSeq(Log, 1, k)
      BY <1>1, <1>6, <3>1
    <3> QED  BY <1>6, <3>1, <3>2, <3>3 DEF IsPrefix, k
  <2>4. Overlong(files') \subseteq {Len(M)}
    <3>1. Overlong(files) \subseteq {Len(Log)}
      BY <1>1 DEF Disk
    <3>2. ASSUME NEW v \in Overlong(files') PROVE v \in Overlong(files) /\ v \in 1..n
      BY <1>1, <1>2, <1>4 DEF Overlong
    <3> QED  BY <1>1, <1>4, <1>6, <3>1, <3>2
  <2> QED  BY <1>2, <1>3, <1>5, <1>7, <2>1, <2>2, <2>3, <2>4 DEF Disk
<1>9. Types'
  BY <1>1, <1>3 DEF Types, Places
<1>10. ASSUME NEW p \in Procs PROVE Working(p)' /\ Reading(p)'
  BY <1>3, FilesAssumption DEF Working, Reading, Holding
<1>11. AcceptsIntact
  BY <1>3 DEF AcceptsIntact
<1>12. ~keyed => Evolves
  <2> SUFFICES ASSUME ~keyed PROVE Evolves
    OBVIOUS
  <2>1. n \in Len(acked)..Len(Log)
    BY <1>1, <1>4 DEF Disk, Types
  <2> QED  BY <1>3, <1>7, <2>1 DEF Evolves, M
<1> QED
  BY <1>3, <1>8, <1>9, <1>10, <1>11, <1>12 DEF IInv, Goes

(* A record decays.                                                        *)
LEMMA RotOK ==
  ASSUME IInv, NEW v, Rot(v)
  PROVE  IInv' /\ Goes
<1>1. /\ v \in DOMAIN files /\ files' = [files EXCEPT ![v].rotten = TRUE]
      /\ keyed' = keyed /\ content' = content /\ synced' = synced /\ holder' = holder
      /\ pc' = pc /\ task' = task /\ low' = low /\ acked' = acked
  BY DEF Rot
<1>2. Stored(files', Log) /\ DOMAIN files' = DOMAIN files
  BY <1>1, RotStored DEF IInv, Disk
<1>3. Log' = Log
  BY <1>2, NextLogIs
<1>7. Overlong(files') = Overlong(files)
  <2>1. \A u \in DOMAIN files : files'[u].schema = files[u].schema /\ files'[u].body = files[u].body
    BY <1>1
  <2> QED  BY <1>2, <2>1 DEF Overlong
<1>4. Types' /\ Disk'
  BY <1>1, <1>2, <1>3, <1>7 DEF IInv, Types, Disk
<1>5. ASSUME NEW p \in Procs PROVE Working(p)' /\ Reading(p)'
  BY <1>1, <1>2, <1>3, <1>7 DEF IInv, Working, Reading
<1>6. AcceptsIntact /\ Evolves
  BY <1>1, <1>3 DEF AcceptsIntact, Evolves
<1> QED
  BY <1>1, <1>4, <1>5, <1>6 DEF IInv, Goes

(* Every step keeps the invariant.                                         *)
LEMMA NextIInv ==
  ASSUME IInv, [Next]_vars
  PROVE  IInv' /\ Goes
<1>1. ASSUME NEW p \in Procs, Step(p) PROVE IInv' /\ Goes
  BY <1>1, LockingOK, PrepareOK, AcknowledgeOK, RenameOK, ReadersOK DEF Step
<1>2. CASE UNCHANGED vars
  <2>1. /\ keyed' = keyed /\ files' = files /\ content' = content /\ synced' = synced
        /\ holder' = holder /\ pc' = pc /\ task' = task /\ low' = low /\ acked' = acked
    BY <1>2 DEF vars, disk
  <2>2. Log' = Log
    BY <2>1, SameLog
  <2>3. Types' /\ Disk'
    BY <2>1, <2>2 DEF IInv, Types, Disk
  <2>4. ASSUME NEW p \in Procs PROVE Working(p)' /\ Reading(p)'
    BY <2>1, <2>2 DEF IInv, Working, Reading
  <2> QED  BY <2>1, <2>2, <2>3, <2>4 DEF IInv, Goes, AcceptsIntact, Evolves
<1> QED
  BY <1>1, <1>2, PowerLossOK, RotOK DEF Next

(***************************************************************************)
(* The theorems.                                                           *)
(***************************************************************************)
(* The invariant of the directory and of those who use it.                 *)
THEOREM FilesInvariant == Spec => []IInv
<1>1. IInv /\ [Next]_vars => IInv'
  BY NextIInv
<1> QED
  BY InitIInv, <1>1, PTL DEF Spec

(* Types, from what the files hold.                                        *)
LEMMA InvTypeOK == IInv => TypeOK
<1> SUFFICES ASSUME IInv PROVE TypeOK
  OBVIOUS
<1>1. /\ Types /\ Disk /\ Log \in Seq(Updates) /\ Len(Log) \in Nat /\ DOMAIN files = 1..Len(Log)
      /\ Cardinality(DOMAIN files) = Len(Log)
  BY LogFacts DEF IInv
<1>2. ASSUME NEW v \in DOMAIN files
      PROVE  /\ files[v].body \in Seq(Updates)
             /\ Len(files[v].body) = IF files[v].schema = 1 THEN v ELSE 1
             /\ files[v].rotten \in BOOLEAN
  <2>1. Holds(files[v], Log, v) /\ v \in 0..Len(Log) /\ v \in 1..Len(Log)
    BY <1>1 DEF Disk, Stored
  <2>2. SubSeq(Log, 1, v) \in Seq(Updates) /\ Len(SubSeq(Log, 1, v)) = v
    BY <1>1, <2>1, Part
  <2>3. <<Log[v]>> \in Seq(Updates) /\ Len(<<Log[v]>>) = 1
    BY <1>1, <2>1
  <2> DEFINE state == SubSeq(Log, 1, v)
             update == <<Log[v]>>
             r == files[v]
  <2>4. /\ r.rotten \in BOOLEAN
        /\ (r.schema = 1 /\ r.body = state) \/ (r.schema = 2 /\ r.body = update)
    BY <2>1 DEF Holds
  <2>5. /\ state \in Seq(Updates) /\ Len(state) = v
        /\ update \in Seq(Updates) /\ Len(update) = 1
    BY <2>2, <2>3
  <2> HIDE DEF state, update, r
  <2>6. /\ r.body \in Seq(Updates) /\ r.rotten \in BOOLEAN
        /\ Len(r.body) = IF r.schema = 1 THEN v ELSE 1
    <3>1. CASE r.schema = 1 /\ r.body = state
      BY <2>4, <2>5, <3>1
    <3>2. CASE r.schema = 2 /\ r.body = update
      <4>1. r.schema # 1
        BY <3>2
      <4> QED  BY <2>4, <2>5, <3>2, <4>1
    <3> QED  BY <2>4, <3>1, <3>2
  <2> QED  BY <2>6 DEF r
<1>3. DOMAIN files \subseteq 1..MaxVersion
  BY <1>1, FilesAssumption DEF Disk
<1>4. content \subseteq DOMAIN files /\ synced \in 0..Cardinality(DOMAIN files)
  BY <1>1 DEF Disk
<1> QED
  BY <1>1, <1>2, <1>3, <1>4 DEF TypeOK, Types

(* Readability, from what the files hold.                                  *)
LEMMA InvReadable == IInv => LedgerReadable
<1> SUFFICES ASSUME IInv, DOMAIN files # {} PROVE
      /\ Contiguous(DOMAIN files)
      /\ Decayed = {} /\ Latest \notin Overlong(files) => Loadable(files, Latest)
      /\ Loadable(files, Latest) => Loaded(files, Latest) = Log
  <2>1. DOMAIN files = {} => files = <<>>
    <3>1. DOMAIN files = {} => files = [v \in {} |-> None]
      BY DEF IInv, Disk, Stored
    <3> QED  BY <3>1
  <2> QED  BY <2>1 DEF LedgerReadable
<1>1. /\ Stored(files, Log) /\ Log \in Seq(Updates) /\ Len(Log) \in Nat /\ DOMAIN files = 1..Len(Log)
      /\ content = DOMAIN files /\ Overlong(files) \subseteq {Len(Log)}
  BY LogFacts DEF IInv, Disk
<1>2. Log # <<>> /\ Len(Log) \in 1..Len(Log)
  BY <1>1
<1>3. Latest = Len(Log) /\ Contiguous(DOMAIN files)
  BY <1>2, LogFacts
<1>4. Loaded(files, Len(Log)) = Log
  BY <1>1, <1>2, LoadedIs, PartOfAll
<1>5. ASSUME Decayed = {}, Len(Log) \notin Overlong(files) PROVE Loadable(files, Len(Log))
  <2>1. Start(files, Len(Log)) \in 1..Len(Log)
    BY <1>1, <1>2, StartIs
  <2>2. \A v \in 1..Len(Log) : ~files[v].rotten
    BY <1>1, <1>5 DEF Decayed, Rotten
  <2>3. Overlong(files) = {}
    BY <1>1, <1>5
  <2> QED  BY <2>1, <2>2, <2>3 DEF Loadable, Replayable, Readable
<1> QED
  BY <1>3, <1>4, <1>5

(* Every variable has its type.                                            *)
THEOREM FilesTypeCorrect == Spec => []TypeOK
  BY FilesInvariant, InvTypeOK, PTL

(* Whatever was killed when, the directory has no hole and no half written *)
(* record, and a load from a checkpoint tells the same as a full replay.   *)
(* If no record decayed, the last update alone can keep it from loading,   *)
(* by binding an evidence that replay refuses as too long.                 *)
THEOREM AlwaysReadable == Spec => []LedgerReadable
  BY FilesInvariant, InvReadable, PTL

(* A reader without a lock sees a state of the task, no older than its     *)
(* read.                                                                   *)
THEOREM ReadersSeeStates == Spec => []ReadsCurrent
<1>1. IInv => ReadsCurrent
  BY DEF IInv, Reading, ReadsCurrent
<1> QED
  BY FilesInvariant, <1>1, PTL

(* verify accepts no history with a damaged record.                        *)
THEOREM VerifyIsSound == Spec => VerifiedIntact
<1>1. IInv /\ [Next]_vars => AcceptsIntact
  BY NextIInv DEF Goes
<1> QED
  BY FilesInvariant, <1>1, PTL DEF Spec, VerifiedIntact

(* The directory of a task created without a key is a durable history: a   *)
(* power loss never takes what a writer was told is committed.             *)
THEOREM FilesAreDurable == Spec => Durable
<1>1. Init => History!Init
  <2> SUFFICES ASSUME Init PROVE History!Init
    OBVIOUS
  <2>1. DOMAIN files = {} /\ acked = <<>>
    BY DEF Init
  <2>2. Log = <<>>
    BY <2>1 DEF Log, Contiguous
  <2> QED  BY <2>1, <2>2 DEF History!Init
<1>2. IInv /\ [Next]_vars =>
        [History!Next]_<<IF keyed THEN <<>> ELSE Log, IF keyed THEN <<>> ELSE acked>>
  <2> SUFFICES ASSUME IInv, [Next]_vars
               PROVE  [History!Next]_<<IF keyed THEN <<>> ELSE Log, IF keyed THEN <<>> ELSE acked>>
    OBVIOUS
  <2>1. keyed' = keyed /\ (~keyed => Evolves)
    BY NextIInv DEF Goes
  <2>2. CASE keyed
    BY <2>1, <2>2
  <2>3. CASE ~keyed
    BY <2>1, <2>3 DEF Evolves, History!Next, History!Extend, History!Acknowledge, History!Lose
  <2> QED  BY <2>2, <2>3
<1> QED
  BY FilesInvariant, <1>1, <1>2, PTL DEF Spec, Durable, History!Spec
=============================================================================

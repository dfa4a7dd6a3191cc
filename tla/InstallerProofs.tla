--------------------------- MODULE InstallerProofs ---------------------------
(***************************************************************************)
(* Theorems about Installer, for any number of runs and edits, any user's  *)
(* lines and sections and any set of tools: no version of the user's is    *)
(* lost, no section of config.toml comes twice, and a run that reports     *)
(* success has installed everything.                                       *)
(***************************************************************************)
EXTENDS Installer, FiniteSetTheorems, SequenceTheorems, TLAPS

(***************************************************************************)
(* Texts as sequences of parts.                                            *)
(***************************************************************************)
(* The parts of a text, by their places.                                   *)
LEMMA PartsOf ==
  ASSUME NEW S, NEW s \in Seq(S)
  PROVE  /\ Len(s) \in Nat /\ DOMAIN s = 1..Len(s)
         /\ ToSet(s) \subseteq S
         /\ \A i \in 1..Len(s) : s[i] \in S /\ s[i] \in ToSet(s)
         /\ \A x \in ToSet(s) : \E i \in 1..Len(s) : s[i] = x
  BY DEF ToSet

(* One text after the other.                                               *)
LEMMA Joined ==
  ASSUME NEW S, NEW s \in Seq(S), NEW t \in Seq(S)
  PROVE  /\ s \o t \in Seq(S)
         /\ Len(s \o t) = Len(s) + Len(t)
         /\ \A i \in 1..Len(s) : (s \o t)[i] = s[i]
         /\ \A i \in 1..Len(t) : (s \o t)[Len(s) + i] = t[i]
         /\ \A i \in 1..(Len(s) + Len(t)) :
              \/ i \in 1..Len(s) /\ (s \o t)[i] = s[i]
              \/ i - Len(s) \in 1..Len(t) /\ (s \o t)[i] = t[i - Len(s)]
         /\ ToSet(s \o t) = ToSet(s) \cup ToSet(t)
<1>1. /\ s \o t \in Seq(S)
      /\ Len(s \o t) = Len(s) + Len(t)
      /\ \A i \in 1..(Len(s) + Len(t)) :
           (s \o t)[i] = IF i <= Len(s) THEN s[i] ELSE t[i - Len(s)]
  BY ConcatProperties
<1>2. Len(s) \in Nat /\ Len(t) \in Nat
  OBVIOUS
<1> DEFINE m == Len(s)
           n == Len(t)
           u == s \o t
<1>3. /\ m \in Nat /\ n \in Nat
      /\ \A i \in 1..(m + n) : u[i] = IF i <= m THEN s[i] ELSE t[i - m]
  BY <1>1, <1>2
<1> HIDE DEF m, n, u
<1>4. \A i \in 1..m : u[i] = s[i]
  BY <1>3, SMT
<1>5. \A i \in 1..n : u[m + i] = t[i]
  BY <1>3
<1>6. \A i \in 1..(m + n) :
        \/ i \in 1..m /\ u[i] = s[i]
        \/ i - m \in 1..n /\ u[i] = t[i - m]
  BY <1>3
<1>7. DOMAIN u = 1..(m + n) /\ DOMAIN s = 1..m /\ DOMAIN t = 1..n
  BY <1>1 DEF u, m, n
<1>8. ToSet(u) = ToSet(s) \cup ToSet(t)
  <2>1. ToSet(u) \subseteq ToSet(s) \cup ToSet(t)
    BY <1>6, <1>7 DEF ToSet
  <2>2. ToSet(s) \subseteq ToSet(u)
    BY <1>3, <1>4, <1>7 DEF ToSet
  <2>3. ToSet(t) \subseteq ToSet(u)
    <3>1. \A i \in 1..n : m + i \in 1..(m + n)
      BY <1>3
    <3> QED  BY <1>5, <1>7, <3>1 DEF ToSet
  <2> QED  BY <2>1, <2>2, <2>3
<1> QED
  BY <1>1, <1>4, <1>5, <1>6, <1>8 DEF u, m, n

(* A part of a text.                                                       *)
LEMMA Slice ==
  ASSUME NEW S, NEW s \in Seq(S), NEW a \in Nat \ {0}, NEW b \in 0..Len(s), a <= b + 1
  PROVE  /\ SubSeq(s, a, b) \in Seq(S)
         /\ Len(SubSeq(s, a, b)) = b + 1 - a
         /\ \A i \in 1..(b + 1 - a) : SubSeq(s, a, b)[i] = s[a + i - 1]
         /\ ToSet(SubSeq(s, a, b)) \subseteq ToSet(s)
<1>1. Len(s) \in Nat /\ DOMAIN s = 1..Len(s)
  OBVIOUS
<1>2. \A i \in a..b : s[i] \in S
  BY <1>1
<1>3. /\ SubSeq(s, a, b) \in Seq(S)
      /\ Len(SubSeq(s, a, b)) = IF a <= b THEN b - a + 1 ELSE 0
      /\ \A i \in 1..(b - a + 1) : SubSeq(s, a, b)[i] = s[a + i - 1]
  BY <1>1, <1>2, SubSeqProperties
<1> DEFINE u == SubSeq(s, a, b)
<1>4. Len(u) = b + 1 - a /\ \A i \in 1..(b + 1 - a) : u[i] = s[a + i - 1]
  <2> HIDE DEF u
  <2> QED  BY <1>1, <1>3 DEF u
<1>5. ToSet(u) \subseteq ToSet(s)
  <2>1. DOMAIN u = 1..(b + 1 - a)
    BY <1>3, <1>4
  <2>2. \A i \in 1..(b + 1 - a) : a + i - 1 \in 1..Len(s)
    BY <1>1
  <2> HIDE DEF u
  <2> QED  BY <1>1, <1>4, <2>1, <2>2 DEF ToSet
<1> QED
  BY <1>3, <1>4, <1>5

(***************************************************************************)
(* Counting parts.                                                         *)
(***************************************************************************)
(* A part is counted 0 times when it is not there and once when it has one *)
(* place.                                                                  *)
LEMMA Counted ==
  ASSUME NEW S, NEW s \in Seq(S), NEW x
  PROVE  /\ Count(x, s) \in Nat
         /\ Count(x, s) = 0 <=> x \notin ToSet(s)
         /\ Count(x, s) = 1 <=> \E i \in DOMAIN s : s[i] = x /\ \A j \in DOMAIN s : s[j] = x => j = i
<1> DEFINE P == {i \in DOMAIN s : s[i] = x}
<1>1. DOMAIN s = 1..Len(s) /\ Len(s) \in Nat
  OBVIOUS
<1>2. IsFiniteSet(DOMAIN s)
  BY <1>1, FS_Interval
<1>3. IsFiniteSet(P)
  BY <1>2, FS_Subset
<1>4. Cardinality(P) \in Nat
  BY <1>3, FS_CardinalityType
<1>5. Cardinality(P) = 0 <=> P = {}
  BY <1>3, FS_EmptySet
<1>6. Cardinality(P) = 1 <=> \E i : P = {i}
  BY <1>3, FS_Singleton
<1>7. P = {} <=> x \notin ToSet(s)
  BY DEF ToSet
<1>8. (\E i : P = {i}) <=> \E i \in DOMAIN s : s[i] = x /\ \A j \in DOMAIN s : s[j] = x => j = i
  <2>1. ASSUME NEW i, P = {i}
        PROVE  i \in DOMAIN s /\ s[i] = x /\ \A j \in DOMAIN s : s[j] = x => j = i
    BY <2>1, Zenon
  <2>2. ASSUME NEW i \in DOMAIN s, s[i] = x, \A j \in DOMAIN s : s[j] = x => j = i
        PROVE  P = {i}
    BY <2>2, Zenon
  <2> QED  BY <2>1, <2>2, Zenon
<1>9. Count(x, s) = Cardinality(P)
  BY DEF Count
<1> HIDE DEF P
<1> QED
  BY <1>4, <1>5, <1>6, <1>7, <1>8, <1>9

(* The parts of a text, each once.                                         *)
Once(s) == \A i, j \in DOMAIN s : s[i] = s[j] => i = j

LEMMA OnceCounted ==
  ASSUME NEW S, NEW s \in Seq(S)
  PROVE  Once(s) <=> \A x \in ToSet(s) : Count(x, s) = 1
<1>1. ASSUME Once(s), NEW x \in ToSet(s) PROVE Count(x, s) = 1
  <2>1. PICK i \in DOMAIN s : s[i] = x
    BY DEF ToSet
  <2>2. \A j \in DOMAIN s : s[j] = x => j = i
    BY <1>1, <2>1 DEF Once
  <2> QED  BY <2>1, <2>2, Counted
<1>2. ASSUME \A x \in ToSet(s) : Count(x, s) = 1, NEW i \in DOMAIN s, NEW j \in DOMAIN s, s[i] = s[j]
      PROVE  i = j
  <2>1. Count(s[i], s) = 1
    BY <1>2 DEF ToSet
  <2>2. PICK k \in DOMAIN s : \A l \in DOMAIN s : s[l] = s[i] => l = k
    BY <2>1, Counted
  <2> QED  BY <1>2, <2>2
<1> QED
  BY <1>1, <1>2 DEF Once

(* A finite set in some order.                                             *)
LEMMA SetInOrder ==
  ASSUME NEW S, IsFiniteSet(S)
  PROVE  SetToSeq(S) \in Seq(S) /\ Once(SetToSeq(S)) /\ ToSet(SetToSeq(S)) = S
<1> DEFINE n == Cardinality(S)
           D == 1..n
           f == SetToSeq(S)
<1>1. n \in Nat /\ ExistsBijection(D, S)
  BY FS_CardinalityType
<1>2. PICK g : g \in Bijection(D, S)
  BY <1>1 DEF ExistsBijection
<1>3. g \in [D -> S] /\ IsInjective(g)
  BY <1>2 DEF Bijection, Injection, IsInjective
<1>4. f \in [D -> S] /\ IsInjective(f)
  BY <1>3 DEF SetToSeq
<1>5. f \in Injection(D, S)
  BY <1>4 DEF Injection, IsInjective
<1>6. IsFiniteSet(D) /\ Cardinality(D) = n
  BY <1>1, FS_Interval
<1>7. f \in Surjection(D, S)
  BY <1>5, <1>6, FS_Injection
<1> HIDE DEF f, n
<1>8. f \in Seq(S)
  BY <1>1, <1>4
<1>9. Once(f)
  BY <1>4 DEF Once, IsInjective
<1>10. ToSet(f) = S
  BY <1>4, <1>7 DEF Surjection, ToSet
<1> QED
  BY <1>8, <1>9, <1>10 DEF f

(* A text rewritten with some of its parts, in any order.                  *)
LEMMA Rewritten ==
  ASSUME NEW S, NEW s \in Seq(S), NEW T \in SUBSET S, NEW t \in SetToSeqs(ToSet(s) \cap T)
  PROVE  t \in Seq(T) /\ Once(t)
<1> DEFINE U == ToSet(s) \cap T
<1>1. DOMAIN s = 1..Len(s) /\ Len(s) \in Nat
  OBVIOUS
<1>2. IsFiniteSet(DOMAIN s)
  BY <1>1, FS_Interval
<1>3. s \in Surjection(DOMAIN s, ToSet(s))
  BY <1>1 DEF Surjection, ToSet
<1>4. IsFiniteSet(ToSet(s))
  BY <1>2, <1>3, FS_Surjection
<1>5. IsFiniteSet(U)
  BY <1>4, FS_Intersection
<1>6. Cardinality(U) \in Nat
  BY <1>5, FS_CardinalityType
<1>7. t \in [1..Cardinality(U) -> U] /\ \A i, j \in 1..Cardinality(U) : i # j => t[i] # t[j]
  BY DEF SetToSeqs
<1> HIDE DEF U
<1>8. t \in Seq(U) /\ DOMAIN t = 1..Cardinality(U)
  BY <1>6, <1>7
<1>9. U \subseteq T
  BY DEF U
<1> QED
  BY <1>7, <1>8, <1>9, SeqMonotonic DEF Once

(* Two texts without a common part.                                        *)
LEMMA JoinedOnce ==
  ASSUME NEW S, NEW s \in Seq(S), NEW t \in Seq(S), Once(s), Once(t),
         ToSet(s) \cap ToSet(t) = {}
  PROVE  Once(s \o t)
<1> DEFINE u == s \o t
           m == Len(s)
           n == Len(t)
<1>1. /\ m \in Nat /\ n \in Nat /\ DOMAIN s = 1..m /\ DOMAIN t = 1..n
      /\ u \in Seq(S) /\ Len(u) = m + n /\ DOMAIN u = 1..(m + n)
      /\ \A i \in 1..(m + n) :
           \/ i \in 1..m /\ u[i] = s[i]
           \/ i - m \in 1..n /\ u[i] = t[i - m]
  BY Joined
<1>2. /\ \A i \in 1..m : s[i] \in ToSet(s)
      /\ \A i \in 1..n : t[i] \in ToSet(t)
  BY PartsOf
<1> HIDE DEF u, m, n
<1>3. ASSUME NEW i \in DOMAIN u, NEW j \in DOMAIN u, u[i] = u[j]
      PROVE  i = j
  <2>1. CASE i \in 1..m /\ u[i] = s[i] /\ j \in 1..m /\ u[j] = s[j]
    BY <1>1, <1>3, <2>1 DEF Once
  <2>2. CASE i - m \in 1..n /\ u[i] = t[i - m] /\ j - m \in 1..n /\ u[j] = t[j - m]
    <3>1. i - m = j - m
      BY <1>1, <1>3, <2>2 DEF Once
    <3> QED  BY <1>1, <3>1
  <2>3. CASE i \in 1..m /\ u[i] = s[i] /\ j - m \in 1..n /\ u[j] = t[j - m]
    BY <1>2, <1>3, <2>3
  <2>4. CASE i - m \in 1..n /\ u[i] = t[i - m] /\ j \in 1..m /\ u[j] = s[j]
    BY <1>2, <1>3, <2>4
  <2> QED  BY <1>1, <2>1, <2>2, <2>3, <2>4
<1> QED
  BY <1>3 DEF Once, u

(* What a kill leaves: the first parts, and perhaps a fragment.            *)
LEMMA CutText ==
  ASSUME NEW S, NEW s \in Seq(S), NEW t \in Cuts(s)
  PROVE  /\ t \in Seq(S \cup {Cut})
         /\ ToSet(t) \subseteq ToSet(s) \cup {Cut}
         /\ Once(s) /\ Cut \notin ToSet(s) => Once(t)
<1>1. PICK n \in 0..(Len(s) - 1) : t = SubSeq(s, 1, n) \/ t = Append(SubSeq(s, 1, n), Cut)
  BY DEF Cuts
<1> DEFINE A == S \cup {Cut}
           u == SubSeq(s, 1, n)
<1>2. Len(s) \in Nat /\ DOMAIN s = 1..Len(s)
  OBVIOUS
<1>3. s \in Seq(A)
  BY SeqMonotonic
<1>4. /\ u \in Seq(A) /\ Len(u) = n
      /\ \A i \in 1..n : u[i] = s[i]
      /\ ToSet(u) \subseteq ToSet(s)
  <2>1. n \in 0..Len(s) /\ 1 <= n + 1 /\ n \in Nat
    BY <1>2
  <2>2. /\ u \in Seq(A) /\ Len(u) = n + 1 - 1
        /\ \A i \in 1..(n + 1 - 1) : u[i] = s[1 + i - 1]
        /\ ToSet(u) \subseteq ToSet(s)
    BY <1>3, <2>1, Slice
  <2> HIDE DEF u
  <2> QED  BY <2>1, <2>2
<1>5. PICK rest \in {<<>>, <<Cut>>} : t = u \o rest
  <2>1. Cut \in A
    OBVIOUS
  <2> HIDE DEF u, A
  <2>2. u \o <<>> = u
    BY <1>4, ConcatEmptySeq
  <2>3. Append(u, Cut) = u \o <<Cut>>
    BY <1>4, <2>1, AppendIsConcat
  <2>4. t = u \/ t = Append(u, Cut)
    BY <1>1 DEF u
  <2>5. CASE t = u
    <3> WITNESS <<>> \in {<<>>, <<Cut>>}
    <3> QED  BY <2>2, <2>5
  <2>6. CASE t = Append(u, Cut)
    <3> WITNESS <<Cut>> \in {<<>>, <<Cut>>}
    <3> QED  BY <2>3, <2>6
  <2> QED  BY <2>4, <2>5, <2>6
<1>6. rest \in Seq(A) /\ ToSet(rest) \subseteq {Cut} /\ Once(rest)
  <2>1. CASE rest = <<>>
    BY <2>1 DEF ToSet, Once
  <2>2. CASE rest = <<Cut>>
    <3>1. DOMAIN rest = {1} /\ rest[1] = Cut /\ rest \in Seq(A)
      BY <2>2
    <3> QED  BY <3>1 DEF ToSet, Once
  <2> QED  BY <2>1, <2>2
<1> HIDE DEF u, A
<1>7. t \in Seq(A) /\ ToSet(t) = ToSet(u) \cup ToSet(rest)
  BY <1>4, <1>5, <1>6, Joined
<1>8. ASSUME Once(s), Cut \notin ToSet(s) PROVE Once(t)
  <2>1. Once(u)
    <3>1. DOMAIN u = 1..n /\ n <= Len(s)
      BY <1>2, <1>4
    <3> QED  BY <1>2, <1>4, <1>8, <3>1 DEF Once
  <2>2. ToSet(u) \cap ToSet(rest) = {}
    BY <1>4, <1>6, <1>8
  <2> QED  BY <1>4, <1>5, <1>6, <2>1, <2>2, JoinedOnce
<1> QED
  BY <1>4, <1>6, <1>7, <1>8 DEF A

(***************************************************************************)
(* The marked section of AGENTS.md.                                        *)
(***************************************************************************)
AgentParts == Texts \cup Checkouts \cup {Start, End, Cut}
ConfigParts == Settings \cup Tools \cup {Wrapper, Elsewhere, Cut}

(* The section is all from s to e, and the only one; or there is none, and *)
(* one is to come at the end.                                              *)
Section(text, s, e) ==
  \/ /\ s \in DOMAIN text /\ e \in DOMAIN text /\ s < e
     /\ text[s] = Start /\ \A i \in DOMAIN text : text[i] = Start => i = s
     /\ text[e] = End /\ \A i \in DOMAIN text : text[i] = End => i = e
  \/ /\ e = Len(text) /\ s = Len(text) + 1
     /\ \A i \in DOMAIN text : text[i] # Start /\ text[i] # End

Replaced(text, s, e, c) ==
  SubSeq(text, 1, s - 1) \o <<Start, c, End>> \o SubSeq(text, e + 1, Len(text))

(* install_rule finds the section, or no marker at all.                    *)
LEMMA FoundSection ==
  ASSUME agents \in Seq(AgentParts), ~Ambiguous
  PROVE  \E s, e \in Nat : Section(agents, s, e) /\ Updated = Replaced(agents, s, e, checkout)
<1>1. DOMAIN agents = 1..Len(agents) /\ Len(agents) \in Nat
  OBVIOUS
<1>2. /\ Count(Start, agents) \in Nat /\ Count(End, agents) \in Nat
      /\ Count(Start, agents) = 0 <=> Start \notin ToSet(agents)
      /\ Count(End, agents) = 0 <=> End \notin ToSet(agents)
  BY Counted
<1>3. CASE Marked
  <2>1. /\ Count(Start, agents) = 1 /\ Count(End, agents) = 1
        /\ Place(Start, agents) < Place(End, agents)
    BY <1>3 DEF Ambiguous
  <2>2. PICK s \in DOMAIN agents : agents[s] = Start /\ \A i \in DOMAIN agents : agents[i] = Start => i = s
    BY <2>1, Counted
  <2>3. PICK e \in DOMAIN agents : agents[e] = End /\ \A i \in DOMAIN agents : agents[i] = End => i = e
    BY <2>1, Counted
  <2>4. Place(Start, agents) = s /\ Place(End, agents) = e
    BY <2>2, <2>3 DEF Place
  <2>5. Section(agents, s, e)
    BY <2>1, <2>2, <2>3, <2>4 DEF Section
  <2>6. Updated = Replaced(agents, s, e, checkout)
    BY <1>3, <2>4 DEF Updated, Replaced, Rule
  <2> QED  BY <1>1, <2>5, <2>6
<1>4. CASE ~Marked
  <2>1. Start \notin ToSet(agents) /\ End \notin ToSet(agents)
    BY <1>2, <1>4 DEF Marked
  <2>2. Section(agents, Len(agents) + 1, Len(agents))
    BY <2>1 DEF Section, ToSet
  <2>3. Updated = agents \o <<Start, checkout, End>>
    BY <1>4 DEF Updated, Rule
  <2>4. /\ SubSeq(agents, 1, Len(agents) + 1 - 1) = agents
        /\ SubSeq(agents, Len(agents) + 1, Len(agents)) = <<>>
    <3>1. Len(agents) + 1 - 1 = Len(agents) /\ Len(agents) < Len(agents) + 1
          /\ Len(agents) \in Int /\ Len(agents) + 1 \in Int
      BY <1>1
    <3> QED  BY <3>1, SubSeqFull, SubSeqEmpty
  <2>5. (agents \o <<Start, checkout, End>>) \o <<>> = agents \o <<Start, checkout, End>>
    <3> DEFINE A == AgentParts \cup {checkout}
    <3>1. agents \in Seq(A) /\ <<Start, checkout, End>> \in Seq(A)
      BY SeqMonotonic DEF AgentParts
    <3> HIDE DEF A
    <3>2. agents \o <<Start, checkout, End>> \in Seq(A)
      BY <3>1, ConcatProperties
    <3> QED  BY <3>2, ConcatEmptySeq
  <2>6. Updated = Replaced(agents, Len(agents) + 1, Len(agents), checkout)
    BY <2>3, <2>4, <2>5 DEF Replaced
  <2> QED  BY <1>1, <2>2, <2>6
<1> QED
  BY <1>3, <1>4

(* The parts of the new text: those before the section, the rule, and      *)
(* those after it.                                                         *)
PartsReplaced(text, s, e, c, new) ==
  /\ new \in Seq(AgentParts)
  /\ Len(new) = s + 2 + Len(text) - e
  /\ \A i \in 1..(s - 1) : new[i] = text[i]
  /\ new[s] = Start /\ new[s + 1] = c /\ new[s + 2] = End
  /\ \A i \in (e + 1)..Len(text) : new[i - e + s + 2] = text[i]

LEMMA NewText ==
  ASSUME NEW text \in Seq(AgentParts), NEW s \in Nat, NEW e \in Nat,
         Section(text, s, e), NEW c \in Checkouts, NEW new, new = Replaced(text, s, e, c)
  PROVE  PartsReplaced(text, s, e, c, new)
<1> DEFINE n == Len(text)
           left == SubSeq(text, 1, s - 1)
           rule == <<Start, c, End>>
           right == SubSeq(text, e + 1, n)
           front == left \o rule
<1>1. n \in Nat /\ DOMAIN text = 1..n
  OBVIOUS
<1>2. s \in 1..(n + 1) /\ e \in 0..n /\ s - 1 \in 0..n /\ e + 1 \in Nat \ {0}
  <2>1. \/ s \in 1..n /\ e \in 1..n
        \/ e = n /\ s = n + 1
    BY <1>1 DEF Section
  <2> HIDE DEF n
  <2> QED  BY <1>1, <2>1
<1>3. /\ left \in Seq(AgentParts) /\ Len(left) = s - 1
      /\ \A i \in 1..(s - 1) : left[i] = text[i]
  <2>1. 1 <= (s - 1) + 1 /\ s - 1 \in 0..Len(text)
    BY <1>2
  <2>2. /\ left \in Seq(AgentParts) /\ Len(left) = (s - 1) + 1 - 1
        /\ \A i \in 1..((s - 1) + 1 - 1) : left[i] = text[1 + i - 1]
    BY <2>1, Slice
  <2> HIDE DEF left
  <2> QED  BY <1>2, <2>2
<1>4. /\ right \in Seq(AgentParts) /\ Len(right) = n - e
      /\ \A i \in 1..(n - e) : right[i] = text[e + i]
  <2>1. e + 1 <= n + 1 /\ n \in 0..Len(text)
    BY <1>1, <1>2
  <2>2. /\ right \in Seq(AgentParts) /\ Len(right) = n + 1 - (e + 1)
        /\ \A i \in 1..(n + 1 - (e + 1)) : right[i] = text[(e + 1) + i - 1]
    BY <1>2, <2>1, Slice
  <2> HIDE DEF right, n
  <2> QED  BY <1>1, <1>2, <2>2
<1>5. /\ rule \in Seq(AgentParts) /\ Len(rule) = 3
      /\ rule[1] = Start /\ rule[2] = c /\ rule[3] = End
  BY DEF AgentParts
<1>0. new = front \o right
  BY DEF Replaced
<1> HIDE DEF left, right, rule, n
<1>6. /\ front \in Seq(AgentParts) /\ Len(front) = s + 2
      /\ \A i \in 1..(s - 1) : front[i] = text[i]
      /\ front[s] = Start /\ front[s + 1] = c /\ front[s + 2] = End
  <2>4. /\ front \in Seq(AgentParts) /\ Len(front) = Len(left) + Len(rule)
        /\ \A i \in 1..Len(left) : front[i] = left[i]
        /\ \A i \in 1..Len(rule) : front[Len(left) + i] = rule[i]
    <3>1. left \in Seq(AgentParts) /\ rule \in Seq(AgentParts)
      BY <1>3, <1>5
    <3> QED  BY <3>1, Joined
  <2> HIDE DEF front
  <2>1. /\ front \in Seq(AgentParts) /\ Len(front) = (s - 1) + 3
        /\ \A i \in 1..(s - 1) : front[i] = left[i]
        /\ \A i \in 1..3 : front[(s - 1) + i] = rule[i]
    BY <1>3, <1>5, <2>4
  <2>2. front[(s - 1) + 1] = rule[1] /\ front[(s - 1) + 2] = rule[2] /\ front[(s - 1) + 3] = rule[3]
    BY <2>1
  <2>3. (s - 1) + 1 = s /\ (s - 1) + 2 = s + 1 /\ (s - 1) + 3 = s + 2
    BY <1>2
  <2> QED  BY <1>3, <1>5, <2>1, <2>2, <2>3
<1> HIDE DEF front
<1>7. /\ new \in Seq(AgentParts) /\ Len(new) = (s + 2) + (n - e)
      /\ \A i \in 1..(s + 2) : new[i] = front[i]
      /\ \A i \in 1..(n - e) : new[(s + 2) + i] = right[i]
  <2>1. /\ new \in Seq(AgentParts) /\ Len(new) = Len(front) + Len(right)
        /\ \A i \in 1..Len(front) : new[i] = front[i]
        /\ \A i \in 1..Len(right) : new[Len(front) + i] = right[i]
    <3>1. front \in Seq(AgentParts) /\ right \in Seq(AgentParts)
      BY <1>4, <1>6
    <3> QED  BY <1>0, <3>1, Joined
  <2> QED  BY <1>4, <1>6, <2>1
<1>8. ASSUME NEW i \in (e + 1)..n PROVE new[i - e + s + 2] = text[i]
  <2>1. i - e \in 1..(n - e) /\ (s + 2) + (i - e) = i - e + s + 2 /\ e + (i - e) = i
    BY <1>1, <1>2
  <2> QED  BY <1>4, <1>7, <2>1
<1>9. \A i \in 1..(s - 1) : new[i] = text[i]
  BY <1>2, <1>6, <1>7
<1>10. s \in 1..(s + 2) /\ s + 1 \in 1..(s + 2) /\ s + 2 \in 1..(s + 2)
  BY <1>2
<1>11. Len(new) = s + 2 + n - e
  BY <1>1, <1>2, <1>7
<1> QED
  BY <1>6, <1>7, <1>8, <1>9, <1>10, <1>11 DEF PartsReplaced, n

(***************************************************************************)
(* The inductive invariant.                                                *)
(***************************************************************************)
(* What a run has installed by the step it is at.                          *)
AfterBinary == {"init", "preserve skill", "write skill", "preserve wrapper", "write wrapper",
                "rule", "register", "approve", "verify"}
AfterSkill == {"preserve wrapper", "write wrapper", "rule", "register", "approve", "verify"}
AfterWrapper == {"rule", "register", "approve", "verify"}
AfterRule == {"register", "approve", "verify"}

HasRule == \E i \in DOMAIN agents : SubSeq(agents, i, i + 2) = Rule

FilesInstalled ==
  /\ pc \in AfterBinary => files["binary"] = checkout
  /\ pc \in AfterSkill => files["skill"] = checkout
  /\ pc \in AfterWrapper => files["wrapper"] = checkout
  /\ pc \in AfterRule => HasRule

(* A version of the user's that is about to be overwritten is in a backup; *)
(* the binary is not the user's.                                           *)
VersionsSaved ==
  /\ files["binary"] \notin Edits
  /\ pc = "write skill" /\ files["skill"] \in Edits => <<"skill", files["skill"]>> \in backups
  /\ pc = "write wrapper" /\ files["wrapper"] \in Edits => <<"wrapper", files["wrapper"]>> \in backups

(* No section comes twice, the server has one command, and the approvals   *)
(* are added to a file that codex could read.                              *)
Sections ==
  /\ Once(config)
  /\ ~({Wrapper, Elsewhere} \subseteq ToSet(config))
  /\ pc \in {"register", "approve"} => ~skipMcp
  /\ pc = "approve" => Server = {Wrapper} /\ Cut \notin ToSet(config)
  /\ pc = "verify" /\ ~skipMcp => Server = {Wrapper} /\ Tools \subseteq ToSet(config)

IInv == TypeOK /\ FilesInstalled /\ VersionsSaved /\ Sections

(* It holds of an empty home.                                              *)
LEMMA InitIInv == Init => IInv
<1> SUFFICES ASSUME Init PROVE IInv
  OBVIOUS
<1>1. /\ pc = "idle" /\ checkout \in Checkouts /\ skipMcp = FALSE
      /\ files = [f \in Files |-> Absent] /\ backups = {}
      /\ agents = <<>> /\ config = <<>> /\ runs = 0 /\ edits = 0
  BY DEF Init
<1>2. TypeOK
  <2>1. runs \in 0..MaxRuns /\ edits \in 0..MaxEdits
    BY <1>1, InstallerAssumption
  <2>2. agents \in Seq(AgentParts) /\ config \in Seq(ConfigParts)
    BY <1>1
  <2> QED  BY <1>1, <2>1, <2>2 DEF TypeOK, AgentParts, ConfigParts
<1>3. FilesInstalled
  BY <1>1 DEF FilesInstalled, AfterBinary, AfterSkill, AfterWrapper, AfterRule
<1>4. VersionsSaved
  BY <1>1, InstallerAssumption DEF VersionsSaved, Files
<1>5. Sections
  <2>1. Once(config) /\ ToSet(config) = {}
    BY <1>1 DEF Once, ToSet
  <2> QED  BY <1>1, <2>1 DEF Sections
<1> QED
  BY <1>2, <1>3, <1>4, <1>5 DEF IInv

(* A run begins with nothing installed.                                    *)
LEMMA BeginIInv ==
  ASSUME IInv, Begin
  PROVE  IInv'
<1>1. /\ pc' = "preserve binary" /\ checkout' \in Checkouts /\ skipMcp' \in BOOLEAN
      /\ runs < MaxRuns /\ runs' = runs + 1
      /\ files' = files /\ backups' = backups /\ agents' = agents
      /\ config' = config /\ edits' = edits
  BY DEF Begin
<1>2. TypeOK'
  <2>1. runs \in 0..MaxRuns /\ MaxRuns \in Nat
    BY InstallerAssumption DEF IInv, TypeOK
  <2>2. runs' \in 0..MaxRuns
    <3>1. runs < MaxRuns /\ runs' = runs + 1
      BY <1>1
    <3> QED  BY <2>1, <3>1
  <2>3. /\ files \in [Files -> Checkouts \cup Edits \cup {Absent, Torn}]
        /\ backups \subseteq Files \X (Checkouts \cup Edits \cup {Torn})
        /\ agents \in Seq(AgentParts) /\ config \in Seq(ConfigParts) /\ edits \in 0..MaxEdits
    BY DEF IInv, TypeOK, AgentParts, ConfigParts
  <2> QED  BY <1>1, <2>2, <2>3, Zenon DEF TypeOK, AgentParts, ConfigParts
<1>3. FilesInstalled'
  BY <1>1 DEF FilesInstalled, AfterBinary, AfterSkill, AfterWrapper, AfterRule
<1>4. VersionsSaved'
  BY <1>1 DEF IInv, VersionsSaved
<1>5. Sections'
  BY <1>1 DEF IInv, Sections
<1> QED
  BY <1>2, <1>3, <1>4, <1>5 DEF IInv

(* A step of a run that leaves config.toml and ends neither in the         *)
(* approvals nor in success.                                               *)
LEMMA SameSections ==
  ASSUME Sections, config' = config, skipMcp' = skipMcp, pc' \notin {"register", "approve", "verify"}
  PROVE  Sections'
  BY DEF Sections

(* Every variable but those that a step of a run changes keeps its type.   *)
LEMMA RunTypes ==
  ASSUME TypeOK, NEW step, Goto(step),
         files' \in [Files -> Checkouts \cup Edits \cup {Absent, Torn}],
         backups' \subseteq Files \X (Checkouts \cup Edits \cup {Torn}),
         agents' \in Seq(AgentParts), config' \in Seq(ConfigParts)
  PROVE  TypeOK'
  BY DEF TypeOK, Goto, AgentParts, ConfigParts

(* A run that ends where it is leaves nothing to be said of its files.     *)
LEMMA EndedIInv ==
  ASSUME IInv, TypeOK', Goto("idle"), files'["binary"] \notin Edits, Sections'
  PROVE  IInv'
<1>1. pc' = "idle"
  BY DEF Goto
<1>2. FilesInstalled'
  BY <1>1 DEF FilesInstalled, AfterBinary, AfterSkill, AfterWrapper, AfterRule
<1>3. VersionsSaved'
  BY <1>1 DEF VersionsSaved
<1> QED
  BY <1>2, <1>3 DEF IInv

(* install_file saves what it is about to overwrite.                       *)
LEMMA PreserveIInv ==
  ASSUME IInv, NEW f \in Files, NEW here, NEW write, Preserve(f, here, write),
         \/ f = "binary" /\ here = "preserve binary" /\ write = "write binary"
         \/ f = "skill" /\ here = "preserve skill" /\ write = "write skill"
         \/ f = "wrapper" /\ here = "preserve wrapper" /\ write = "write wrapper"
  PROVE  IInv'
<1>1. /\ pc = here /\ Goto(write)
      /\ files' = files /\ agents' = agents /\ config' = config
      /\ backups' = IF files[f] \in {Absent, checkout} THEN backups ELSE backups \cup {<<f, files[f]>>}
      /\ pc' = write /\ checkout' = checkout /\ skipMcp' = skipMcp
  BY DEF Preserve, Goto
<1>2. TypeOK'
  <2>1. /\ files \in [Files -> Checkouts \cup Edits \cup {Absent, Torn}]
        /\ backups \subseteq Files \X (Checkouts \cup Edits \cup {Torn})
        /\ agents \in Seq(AgentParts) /\ config \in Seq(ConfigParts)
    BY DEF IInv, TypeOK, AgentParts, ConfigParts
  <2>2. backups' \subseteq Files \X (Checkouts \cup Edits \cup {Torn})
    <3>1. CASE files[f] \in {Absent, checkout}
      BY <1>1, <2>1, <3>1
    <3>2. CASE files[f] \notin {Absent, checkout}
      <4>1. files[f] \in Checkouts \cup Edits \cup {Torn}
        BY <2>1, <3>2
      <4>2. backups' = backups \cup {<<f, files[f]>>}
        BY <1>1, <3>2
      <4>3. <<f, files[f]>> \in Files \X (Checkouts \cup Edits \cup {Torn})
        BY <4>1
      <4> QED  BY <2>1, <4>2, <4>3, Zenon
    <3> QED  BY <3>1, <3>2
  <2> QED  BY <1>1, <2>1, <2>2, RunTypes DEF IInv
<1>3. FilesInstalled'
  BY <1>1 DEF IInv, FilesInstalled, AfterBinary, AfterSkill, AfterWrapper, AfterRule
<1>4. VersionsSaved'
  <2>1. files[f] \in Edits => <<f, files[f]>> \in backups'
    BY <1>1, InstallerAssumption DEF IInv, TypeOK
  <2> QED  BY <1>1, <2>1 DEF IInv, VersionsSaved
<1>5. Sections'
  BY <1>1, SameSections DEF IInv
<1> QED
  BY <1>2, <1>3, <1>4, <1>5 DEF IInv

(* install_file puts the checkout's version in place, or tears it.         *)
LEMMA WriteIInv ==
  ASSUME IInv, NEW f \in Files, NEW here, NEW next, Write(f, here, next),
         \/ f = "binary" /\ here = "write binary" /\ next = "init"
         \/ f = "skill" /\ here = "write skill" /\ next = "preserve wrapper"
         \/ f = "wrapper" /\ here = "write wrapper" /\ next = "rule"
  PROVE  IInv'
<1>1. /\ pc = here /\ backups' = backups /\ agents' = agents /\ config' = config
      /\ \/ files' = [files EXCEPT ![f] = checkout] /\ Goto(next)
         \/ files' = [files EXCEPT ![f] = Torn] /\ Goto("idle")
  BY DEF Write
<1>2. /\ files \in [Files -> Checkouts \cup Edits \cup {Absent, Torn}]
      /\ backups \subseteq Files \X (Checkouts \cup Edits \cup {Torn})
      /\ agents \in Seq(AgentParts) /\ config \in Seq(ConfigParts) /\ checkout \in Checkouts
  BY DEF IInv, TypeOK, AgentParts, ConfigParts
<1>3. TypeOK'
  <2>1. files' \in [Files -> Checkouts \cup Edits \cup {Absent, Torn}]
    BY <1>1, <1>2
  <2> QED  BY <1>1, <1>2, <2>1, RunTypes DEF IInv
<1>4. \A g \in Files : files'[g] \in {files[g], checkout, Torn}
  BY <1>1, <1>2
<1>5. files'["binary"] \notin Edits
  BY <1>2, <1>4, InstallerAssumption DEF IInv, VersionsSaved, Files
<1>6. CASE files' = [files EXCEPT ![f] = checkout] /\ Goto(next)
  <2>1. /\ files'[f] = checkout /\ \A g \in Files \ {f} : files'[g] = files[g]
        /\ pc' = next /\ checkout' = checkout /\ skipMcp' = skipMcp
    BY <1>2, <1>6 DEF Goto
  <2>2. FilesInstalled'
    BY <1>1, <2>1 DEF IInv, FilesInstalled, AfterBinary, AfterSkill, AfterWrapper, AfterRule, Files
  <2>3. VersionsSaved'
    BY <1>5, <2>1 DEF VersionsSaved
  <2>4. Sections'
    BY <1>1, <2>1, SameSections DEF IInv
  <2> QED  BY <1>3, <2>2, <2>3, <2>4 DEF IInv
<1>7. CASE Goto("idle")
  BY <1>1, <1>3, <1>5, <1>7, EndedIInv, SameSections DEF IInv, Goto
<1> QED
  BY <1>1, <1>6, <1>7

(* cargo builds the binary and puts it in place.                           *)
LEMMA CargoIInv ==
  ASSUME IInv, pc = "preserve binary", files' = [files EXCEPT !["binary"] = checkout],
         Goto("init"), UNCHANGED <<backups, agents, config>>
  PROVE  IInv'
<1>1. /\ files \in [Files -> Checkouts \cup Edits \cup {Absent, Torn}] /\ checkout \in Checkouts
      /\ backups \subseteq Files \X (Checkouts \cup Edits \cup {Torn})
      /\ agents \in Seq(AgentParts) /\ config \in Seq(ConfigParts)
      /\ pc' = "init" /\ checkout' = checkout /\ skipMcp' = skipMcp
      /\ backups' = backups /\ agents' = agents /\ config' = config
  BY DEF IInv, TypeOK, AgentParts, ConfigParts, Goto
<1>2. files' \in [Files -> Checkouts \cup Edits \cup {Absent, Torn}] /\ files'["binary"] = checkout
  BY <1>1 DEF Files
<1>3. TypeOK'
  BY <1>1, <1>2, RunTypes DEF IInv
<1>4. FilesInstalled'
  BY <1>1, <1>2 DEF FilesInstalled, AfterBinary, AfterSkill, AfterWrapper, AfterRule
<1>5. VersionsSaved'
  BY <1>1, <1>2, InstallerAssumption DEF VersionsSaved
<1>6. Sections'
  BY <1>1, SameSections DEF IInv
<1> QED
  BY <1>3, <1>4, <1>5, <1>6 DEF IInv

(* The steps that leave the home as it is.                                 *)
LEMMA IdleStepsIInv ==
  ASSUME IInv, InitWorkspace \/ Verify \/ Stop
  PROVE  IInv'
<1>1. /\ files' = files /\ backups' = backups /\ agents' = agents /\ config' = config
      /\ checkout' = checkout /\ skipMcp' = skipMcp /\ runs' = runs /\ edits' = edits
      /\ \/ pc = "init" /\ pc' = "preserve skill"
         \/ pc' = "idle"
  BY DEF InitWorkspace, Verify, Stop, Goto
<1>2. TypeOK'
  BY <1>1 DEF IInv, TypeOK
<1>3. FilesInstalled'
  BY <1>1 DEF IInv, FilesInstalled, AfterBinary, AfterSkill, AfterWrapper, AfterRule
<1>4. VersionsSaved'
  BY <1>1 DEF IInv, VersionsSaved
<1>5. Sections'
  BY <1>1, SameSections DEF IInv
<1> QED
  BY <1>2, <1>3, <1>4, <1>5 DEF IInv

(* install_rule writes a text with the rule in it, or is killed.           *)
LEMMA InstallRuleIInv ==
  ASSUME IInv, InstallRule
  PROVE  IInv'
<1>1. /\ files \in [Files -> Checkouts \cup Edits \cup {Absent, Torn}] /\ checkout \in Checkouts
      /\ backups \subseteq Files \X (Checkouts \cup Edits \cup {Torn})
      /\ agents \in Seq(AgentParts) /\ config \in Seq(ConfigParts)
  BY DEF IInv, TypeOK, AgentParts, ConfigParts
<1>2. /\ pc = "rule" /\ ~Ambiguous
      /\ files' = files /\ backups' = backups /\ config' = config
      /\ \/ agents' = Updated /\ Goto(IF skipMcp THEN "verify" ELSE "register")
         \/ agents' \in Cuts(Updated) /\ Goto("idle")
  BY DEF InstallRule
<1>3. PICK s \in Nat, e \in Nat : Section(agents, s, e) /\ Updated = Replaced(agents, s, e, checkout)
  BY <1>1, <1>2, FoundSection
<1>4. PICK new : new = Replaced(agents, s, e, checkout)
  OBVIOUS
<1>5. /\ new \in Seq(AgentParts) /\ Len(new) = s + 2 + Len(agents) - e
      /\ new[s] = Start /\ new[s + 1] = checkout /\ new[s + 2] = End
  <2>1. /\ agents \in Seq(AgentParts) /\ checkout \in Checkouts
        /\ Section(agents, s, e) /\ new = Replaced(agents, s, e, checkout)
    BY <1>1, <1>3, <1>4
  <2>2. PartsReplaced(agents, s, e, checkout, new)
    BY <2>1, NewText
  <2> QED  BY <2>2 DEF PartsReplaced
<1>6. CASE agents' = Updated /\ Goto(IF skipMcp THEN "verify" ELSE "register")
  <2>1. /\ agents' = new /\ checkout' = checkout /\ skipMcp' = skipMcp
        /\ pc' = IF skipMcp THEN "verify" ELSE "register"
    BY <1>3, <1>4, <1>6 DEF Goto
  <2>2. TypeOK'
    BY <1>1, <1>2, <1>5, <1>6, <2>1, RunTypes DEF IInv
  <2>3. s \in DOMAIN new /\ SubSeq(new, s, s + 2) = <<Start, checkout, End>>
    <3>1. Len(agents) \in Nat /\ DOMAIN agents = 1..Len(agents) /\ Len(new) \in Nat /\ DOMAIN new = 1..Len(new)
      BY <1>1, <1>5
    <3>2. s \in Nat \ {0} /\ s + 2 \in 0..Len(new) /\ s <= (s + 2) + 1
      <4>1. \/ s \in 1..Len(agents) /\ e \in 1..Len(agents)
            \/ e = Len(agents) /\ s = Len(agents) + 1
        BY <1>3, <3>1 DEF Section
      <4>2. s \in 1..(Len(agents) + 1) /\ e \in 0..Len(agents)
        <5>1. PICK n \in Nat : n = Len(agents)
          BY <3>1
        <5>2. \/ s \in 1..n /\ e \in 1..n
              \/ e = n /\ s = n + 1
          BY <4>1, <5>1
        <5>3. s \in 1..(n + 1) /\ e \in 0..n
          BY <5>2
        <5> QED  BY <5>1, <5>3
      <4>3. Len(new) = s + 2 + Len(agents) - e
        BY <1>5
      <4> QED  BY <3>1, <4>2, <4>3
    <3>3. PICK u : u = SubSeq(new, s, s + 2)
      OBVIOUS
    <3>4. /\ u \in Seq(AgentParts) /\ Len(u) = (s + 2) + 1 - s
          /\ \A i \in 1..((s + 2) + 1 - s) : u[i] = new[s + i - 1]
      BY <1>5, <3>2, <3>3, Slice
    <3>5. (s + 2) + 1 - s = 3 /\ s + 1 - 1 = s /\ s + 2 - 1 = s + 1 /\ s + 3 - 1 = s + 2
      BY <3>2
    <3>6. Len(u) = 3 /\ u[1] = Start /\ u[2] = checkout /\ u[3] = End
      <4>1. /\ Len(u) = 3
            /\ u[1] = new[s + 1 - 1] /\ u[2] = new[s + 2 - 1] /\ u[3] = new[s + 3 - 1]
        BY <3>4, <3>5
      <4> QED  BY <1>5, <3>5, <4>1
    <3>7. u = <<Start, checkout, End>>
      BY <3>4, <3>6
    <3>8. s \in 1..Len(new)
      BY <3>1, <3>2
    <3> QED  BY <3>1, <3>3, <3>7, <3>8
  <2>4. HasRule'
    <3>1. checkout' = checkout /\ agents' = new
      BY <2>1
    <3> QED  BY <2>3, <3>1 DEF HasRule, Rule
  <2>5. FilesInstalled'
    BY <1>2, <2>1, <2>4 DEF IInv, FilesInstalled, AfterBinary, AfterSkill, AfterWrapper, AfterRule
  <2>6. VersionsSaved'
    BY <1>2, <2>1 DEF IInv, VersionsSaved
  <2>7. Sections'
    <3>1. pc' = "verify" => skipMcp
      BY <2>1
    <3>2. pc' = "register" => ~skipMcp
      BY <2>1
    <3>3. pc' \in {"verify", "register"}
      BY <2>1
    <3> QED  BY <1>2, <2>1, <3>1, <3>2, <3>3 DEF IInv, Sections
  <2> QED  BY <2>2, <2>5, <2>6, <2>7 DEF IInv
<1>7. CASE agents' \in Cuts(Updated) /\ Goto("idle")
  <2>1. agents' \in Cuts(new)
    BY <1>3, <1>4, <1>7
  <2>2. agents' \in Seq(AgentParts \cup {Cut})
    BY <1>5, <2>1, CutText
  <2>3. AgentParts \cup {Cut} = AgentParts
    BY DEF AgentParts
  <2>4. agents' \in Seq(AgentParts)
    BY <2>2, <2>3
  <2>5. TypeOK'
    BY <1>1, <1>2, <1>7, <2>4, RunTypes DEF IInv
  <2>6. Sections'
    BY <1>2, <1>7, SameSections DEF IInv, Goto
  <2> QED  BY <1>2, <1>7, <2>5, <2>6, EndedIInv DEF IInv, VersionsSaved
<1> QED
  BY <1>2, <1>6, <1>7

(* register_mcp adds the server when nothing of it is there.               *)
LEMMA RegisterIInv ==
  ASSUME IInv, Register
  PROVE  IInv'
<1>1. /\ files \in [Files -> Checkouts \cup Edits \cup {Absent, Torn}] /\ checkout \in Checkouts
      /\ backups \subseteq Files \X (Checkouts \cup Edits \cup {Torn})
      /\ agents \in Seq(AgentParts) /\ config \in Seq(ConfigParts)
  BY DEF IInv, TypeOK, AgentParts, ConfigParts
<1>2. /\ pc = "register" /\ Count(Cut, config) = 0 /\ Goto("approve")
      /\ pc' = "approve" /\ checkout' = checkout /\ skipMcp' = skipMcp
      /\ files' = files /\ backups' = backups /\ agents' = agents
      /\ \/ Server = {Wrapper} /\ config' = config
         \/ Server = {} /\ config' = Append(config, Wrapper)
  BY DEF Register, Goto
<1>3. Cut \notin ToSet(config)
  BY <1>1, <1>2, Counted
<1>4. /\ config' \in Seq(ConfigParts) /\ Once(config')
      /\ ToSet(config') \cap {Wrapper, Elsewhere} = {Wrapper}
      /\ Cut \notin ToSet(config')
  <2>1. CASE Server = {Wrapper} /\ config' = config
    BY <1>1, <1>3, <2>1 DEF IInv, Sections, Server
  <2>2. CASE Server = {} /\ config' = Append(config, Wrapper)
    <3>1. <<Wrapper>> \in Seq(ConfigParts) /\ Once(<<Wrapper>>) /\ ToSet(<<Wrapper>>) = {Wrapper}
      BY DEF ConfigParts, Once, ToSet
    <3>2. config' = config \o <<Wrapper>>
      BY <1>1, <2>2, AppendIsConcat DEF ConfigParts
    <3>3. ToSet(config) \cap {Wrapper, Elsewhere} = {}
      BY <2>2 DEF Server
    <3>4. config' \in Seq(ConfigParts) /\ ToSet(config') = ToSet(config) \cup {Wrapper}
      <4>1. PICK w : w = <<Wrapper>>
        OBVIOUS
      <4>2. w \in Seq(ConfigParts) /\ ToSet(w) = {Wrapper} /\ config' = config \o w
        BY <3>1, <3>2, <4>1
      <4>3. config \o w \in Seq(ConfigParts) /\ ToSet(config \o w) = ToSet(config) \cup ToSet(w)
        BY <1>1, <4>2, Joined
      <4> QED  BY <4>2, <4>3
    <3>5. Once(config')
      BY <1>1, <3>1, <3>2, <3>3, JoinedOnce DEF IInv, Sections
    <3> QED  BY <1>3, <3>3, <3>4, <3>5, InstallerAssumption
  <2> QED  BY <1>2, <2>1, <2>2
<1>5. TypeOK'
  BY <1>1, <1>2, <1>4, RunTypes DEF IInv
<1>6. FilesInstalled'
  <2>1. HasRule' = HasRule
    BY <1>2 DEF HasRule, Rule
  <2> QED  BY <1>2, <2>1 DEF IInv, FilesInstalled, AfterBinary, AfterSkill, AfterWrapper, AfterRule
<1>7. VersionsSaved'
  BY <1>2 DEF IInv, VersionsSaved
<1>8. Sections'
  BY <1>2, <1>4, InstallerAssumption DEF IInv, Sections, Server
<1> QED
  BY <1>5, <1>6, <1>7, <1>8 DEF IInv

(* The approvals are of the tools that config.toml does not mention.       *)
LEMMA ApproveIInv ==
  ASSUME IInv, Approve
  PROVE  IInv'
<1>1. /\ files \in [Files -> Checkouts \cup Edits \cup {Absent, Torn}] /\ checkout \in Checkouts
      /\ backups \subseteq Files \X (Checkouts \cup Edits \cup {Torn})
      /\ agents \in Seq(AgentParts) /\ config \in Seq(ConfigParts)
  BY DEF IInv, TypeOK, AgentParts, ConfigParts
<1>2. /\ pc = "approve" /\ files' = files /\ backups' = backups /\ agents' = agents
      /\ \/ config' = config \o Additions /\ Goto("verify")
         \/ config' \in Cuts(config \o Additions) /\ Goto("idle")
  BY DEF Approve
<1>3. /\ Once(config) /\ ~({Wrapper, Elsewhere} \subseteq ToSet(config))
      /\ Server = {Wrapper} /\ Cut \notin ToSet(config) /\ ~skipMcp
  BY <1>2 DEF IInv, Sections
<1>4. Additions \in Seq(ConfigParts) /\ Once(Additions) /\ ToSet(Additions) = Tools \ ToSet(config)
  <2> DEFINE A == Tools \ ToSet(config)
  <2>1. IsFiniteSet(A)
    BY InstallerAssumption, FS_Difference
  <2>2. A \subseteq ConfigParts
    BY DEF ConfigParts
  <2>3. Additions = SetToSeq(A)
    BY DEF Additions
  <2> HIDE DEF A
  <2>4. SetToSeq(A) \in Seq(A) /\ Once(SetToSeq(A)) /\ ToSet(SetToSeq(A)) = A
    BY <2>1, SetInOrder
  <2> QED  BY <2>2, <2>3, <2>4, SeqMonotonic DEF A
<1>5. PICK all : all = config \o Additions
  OBVIOUS
<1>6. all \in Seq(ConfigParts) /\ ToSet(all) = ToSet(config) \cup Tools
  BY <1>1, <1>4, <1>5, Joined
<1>7. Once(all)
  <2>1. ToSet(config) \cap ToSet(Additions) = {}
    BY <1>4
  <2> QED  BY <1>1, <1>3, <1>4, <1>5, <2>1, JoinedOnce
<1>8. Cut \notin ToSet(all) /\ ToSet(all) \cap {Wrapper, Elsewhere} = {Wrapper}
  BY <1>3, <1>6, InstallerAssumption DEF Server
<1>9. CASE config' = all /\ Goto("verify")
  <2>1. pc' = "verify" /\ checkout' = checkout /\ skipMcp' = skipMcp
    BY <1>9 DEF Goto
  <2>2. TypeOK'
    BY <1>1, <1>2, <1>6, <1>9, RunTypes DEF IInv
  <2>3. FilesInstalled'
    <3>1. HasRule' = HasRule
      BY <1>2, <2>1 DEF HasRule, Rule
    <3> QED  BY <1>2, <2>1, <3>1 DEF IInv, FilesInstalled, AfterBinary, AfterSkill, AfterWrapper, AfterRule
  <2>4. VersionsSaved'
    BY <1>2, <2>1 DEF IInv, VersionsSaved
  <2>5. Sections'
    BY <1>6, <1>7, <1>8, <1>9, <2>1, InstallerAssumption DEF Sections, Server
  <2> QED  BY <2>2, <2>3, <2>4, <2>5 DEF IInv
<1>10. CASE config' \in Cuts(all) /\ Goto("idle")
  <2>1. /\ config' \in Seq(ConfigParts \cup {Cut})
        /\ ToSet(config') \subseteq ToSet(all) \cup {Cut} /\ Once(config')
    BY <1>6, <1>7, <1>8, <1>10, CutText
  <2>2. ConfigParts \cup {Cut} = ConfigParts
    BY DEF ConfigParts
  <2>3. TypeOK'
    BY <1>1, <1>2, <1>10, <2>1, <2>2, RunTypes DEF IInv
  <2>4. Sections'
    BY <1>8, <1>10, <2>1, InstallerAssumption DEF Sections, Goto
  <2> QED  BY <1>2, <1>10, <2>3, <2>4, EndedIInv DEF IInv, VersionsSaved
<1> QED
  BY <1>2, <1>5, <1>9, <1>10

(* The user edits or removes a bundled file, between runs.                 *)
LEMMA EditFileIInv ==
  ASSUME IInv, pc = "idle", EditFile,
         UNCHANGED <<pc, checkout, skipMcp, backups, runs>>, edits' \in 0..MaxEdits
  PROVE  IInv'
<1>1. /\ files \in [Files -> Checkouts \cup Edits \cup {Absent, Torn}] /\ checkout \in Checkouts
      /\ skipMcp \in BOOLEAN
      /\ backups \subseteq Files \X (Checkouts \cup Edits \cup {Torn})
      /\ agents \in Seq(AgentParts) /\ config \in Seq(ConfigParts) /\ runs \in 0..MaxRuns
  BY DEF IInv, TypeOK, AgentParts, ConfigParts
<1>2. /\ pc' = "idle" /\ checkout' = checkout /\ skipMcp' = skipMcp /\ backups' = backups
      /\ runs' = runs /\ agents' = agents /\ config' = config
  BY DEF EditFile
<1>3. PICK f \in {"skill", "wrapper"}, c \in Edits \cup {Absent} : files' = [files EXCEPT ![f] = c]
  BY DEF EditFile
<1>4. /\ files' \in [Files -> Checkouts \cup Edits \cup {Absent, Torn}]
      /\ files'["binary"] = files["binary"]
  BY <1>1, <1>3 DEF Files
<1>5. TypeOK'
  BY <1>1, <1>2, <1>4, Zenon DEF TypeOK, AgentParts, ConfigParts
<1>6. FilesInstalled'
  BY <1>2 DEF FilesInstalled, AfterBinary, AfterSkill, AfterWrapper, AfterRule
<1>7. VersionsSaved'
  BY <1>2, <1>4 DEF IInv, VersionsSaved
<1>8. Sections'
  BY <1>2, SameSections DEF IInv
<1> QED
  BY <1>5, <1>6, <1>7, <1>8 DEF IInv

(* The user edits a text, between runs.                                    *)
LEMMA EditTextIInv ==
  ASSUME IInv, pc = "idle", agents' \in Seq(AgentParts), config' \in Seq(ConfigParts),
         Once(config'), ~({Wrapper, Elsewhere} \subseteq ToSet(config')),
         UNCHANGED <<pc, checkout, skipMcp, files, backups, runs>>, edits' \in 0..MaxEdits
  PROVE  IInv'
<1>1. /\ files \in [Files -> Checkouts \cup Edits \cup {Absent, Torn}] /\ checkout \in Checkouts
      /\ skipMcp \in BOOLEAN
      /\ backups \subseteq Files \X (Checkouts \cup Edits \cup {Torn}) /\ runs \in 0..MaxRuns
  BY DEF IInv, TypeOK
<1>2. /\ pc' = "idle" /\ checkout' = checkout /\ skipMcp' = skipMcp /\ backups' = backups
      /\ runs' = runs /\ files' = files
  OBVIOUS
<1>3. TypeOK'
  BY <1>1, <1>2, Zenon DEF TypeOK, AgentParts, ConfigParts
<1>4. FilesInstalled'
  BY <1>2 DEF FilesInstalled, AfterBinary, AfterSkill, AfterWrapper, AfterRule
<1>5. VersionsSaved'
  BY <1>2 DEF IInv, VersionsSaved
<1>6. Sections'
  BY <1>2 DEF Sections
<1> QED
  BY <1>3, <1>4, <1>5, <1>6 DEF IInv

(* AGENTS.md stays a text of the user's lines, markers and rules.          *)
LEMMA EditAgentsType ==
  ASSUME agents \in Seq(AgentParts), EditAgents
  PROVE  agents' \in Seq(AgentParts)
<1>1. CASE \E line \in (Texts \cup {Start, End}) \ ToSet(agents), i \in 1..(Len(agents) + 1) :
             agents' = InsertAt(agents, i, line)
  <2>1. PICK line \in Texts \cup {Start, End}, i \in 1..(Len(agents) + 1) :
               agents' = InsertAt(agents, i, line)
    BY <1>1
  <2>2. Len(agents) \in Nat
    OBVIOUS
  <2>3. i - 1 \in 0..Len(agents) /\ 1 <= (i - 1) + 1 /\ i \in Nat \ {0}
        /\ Len(agents) \in 0..Len(agents) /\ i <= Len(agents) + 1
    BY <2>2
  <2>4. SubSeq(agents, 1, i - 1) \in Seq(AgentParts)
    BY <2>3, Slice
  <2>5. SubSeq(agents, i, Len(agents)) \in Seq(AgentParts)
    BY <2>3, Slice
  <2>6. <<line>> \in Seq(AgentParts)
    BY DEF AgentParts
  <2>7. SubSeq(agents, 1, i - 1) \o <<line>> \in Seq(AgentParts)
    BY <2>4, <2>6, ConcatProperties
  <2>8. (SubSeq(agents, 1, i - 1) \o <<line>>) \o SubSeq(agents, i, Len(agents)) \in Seq(AgentParts)
    BY <2>5, <2>7, ConcatProperties
  <2> QED  BY <2>1, <2>8 DEF InsertAt
<1>2. CASE agents' \in SetToSeqs(ToSet(agents) \cap Texts)
  <2>1. Texts \subseteq AgentParts
    BY DEF AgentParts
  <2>2. agents' \in Seq(Texts)
    BY <1>2, <2>1, Rewritten
  <2> QED  BY <2>1, <2>2, SeqMonotonic
<1> QED
  BY <1>1, <1>2 DEF EditAgents

(* The user adds no section that is there.                                 *)
LEMMA EditConfigSections ==
  ASSUME config \in Seq(ConfigParts), Once(config),
         ~({Wrapper, Elsewhere} \subseteq ToSet(config)), EditConfig
  PROVE  /\ config' \in Seq(ConfigParts) /\ Once(config')
         /\ ~({Wrapper, Elsewhere} \subseteq ToSet(config'))
<1>1. CASE \E x \in (Settings \cup IF Server = {Wrapper} THEN Tools ELSE {}) \ ToSet(config) :
             config' = Append(config, x)
  <2>1. PICK x \in (Settings \cup Tools) \ ToSet(config) : config' = Append(config, x)
    BY <1>1
  <2>2. PICK w : w = <<x>>
    OBVIOUS
  <2>3. x \in ConfigParts /\ x \notin {Wrapper, Elsewhere}
    BY InstallerAssumption DEF ConfigParts
  <2>4. w \in Seq(ConfigParts) /\ Once(w) /\ ToSet(w) = {x}
    BY <2>2, <2>3 DEF Once, ToSet
  <2>5. config' = config \o w
    BY <2>1, <2>2, <2>3, AppendIsConcat
  <2>6. config \o w \in Seq(ConfigParts) /\ ToSet(config \o w) = ToSet(config) \cup {x}
    BY <2>4, Joined
  <2>7. Once(config \o w)
    <3>1. ToSet(config) \cap ToSet(w) = {}
      BY <2>1, <2>4
    <3> QED  BY <2>4, <3>1, JoinedOnce
  <2> QED  BY <2>3, <2>5, <2>6, <2>7
<1>2. CASE config' = [i \in DOMAIN config |-> IF config[i] = Wrapper THEN Elsewhere ELSE config[i]]
  <2>1. DOMAIN config = 1..Len(config) /\ Len(config) \in Nat
        /\ \A i \in 1..Len(config) : config[i] \in ConfigParts
    OBVIOUS
  <2>2. /\ DOMAIN config' = DOMAIN config
        /\ \A i \in DOMAIN config : config'[i] = IF config[i] = Wrapper THEN Elsewhere ELSE config[i]
    BY <1>2
  <2>3. config' \in Seq(ConfigParts)
    <3>1. \A i \in 1..Len(config) :
            (IF config[i] = Wrapper THEN Elsewhere ELSE config[i]) \in ConfigParts
      BY <2>1 DEF ConfigParts
    <3> QED  BY <1>2, <2>1, <3>1
  <2>4. Once(config')
    <3>1. ~(\E i, j \in DOMAIN config : config[i] = Wrapper /\ config[j] = Elsewhere)
      BY DEF ToSet
    <3> QED  BY <2>2, <3>1 DEF Once
  <2>5. Wrapper \notin ToSet(config')
    BY <2>2, InstallerAssumption DEF ToSet
  <2> QED  BY <2>3, <2>4, <2>5
<1>3. CASE config' \in SetToSeqs(ToSet(config) \cap Settings)
  <2>1. Settings \subseteq ConfigParts
    BY DEF ConfigParts
  <2>2. config' \in Seq(Settings) /\ Once(config')
    BY <1>3, <2>1, Rewritten
  <2>3. ToSet(config') \subseteq Settings
    BY <2>2, PartsOf
  <2> QED  BY <2>1, <2>2, <2>3, SeqMonotonic, InstallerAssumption
<1> QED
  BY <1>1, <1>2, <1>3 DEF EditConfig

(* Every step of the installer and of the user keeps the invariant.        *)
LEMMA NextIInv ==
  ASSUME IInv, [Next]_vars
  PROVE  IInv'
<1>1. CASE Begin
  BY <1>1, BeginIInv
<1>2. CASE InstallBinary
  <2>1. "binary" \in Files
    BY DEF Files
  <2> QED  BY <1>2, <2>1, PreserveIInv, WriteIInv, CargoIInv DEF InstallBinary
<1>3. CASE InstallSkill
  <2>1. "skill" \in Files /\ "wrapper" \in Files
    BY DEF Files
  <2>2. CASE Preserve("skill", "preserve skill", "write skill")
    BY <2>1, <2>2, PreserveIInv
  <2>3. CASE Write("skill", "write skill", "preserve wrapper")
    BY <2>1, <2>3, WriteIInv
  <2>4. CASE Preserve("wrapper", "preserve wrapper", "write wrapper")
    BY <2>1, <2>4, PreserveIInv
  <2>5. CASE Write("wrapper", "write wrapper", "rule")
    BY <2>1, <2>5, WriteIInv
  <2> QED  BY <1>3, <2>2, <2>3, <2>4, <2>5 DEF InstallSkill
<1>4. CASE InitWorkspace \/ Verify \/ Stop
  BY <1>4, IdleStepsIInv
<1>5. CASE InstallRule
  BY <1>5, InstallRuleIInv
<1>6. CASE Register
  BY <1>6, RegisterIInv
<1>7. CASE Approve
  BY <1>7, ApproveIInv
<1>8. CASE User
  <2>1. /\ pc = "idle" /\ edits < MaxEdits /\ edits' = edits + 1
        /\ UNCHANGED <<pc, checkout, skipMcp, backups, runs>>
    BY <1>8 DEF User
  <2>2. edits' \in 0..MaxEdits
    <3>1. edits \in 0..MaxEdits /\ MaxEdits \in Nat
      BY InstallerAssumption DEF IInv, TypeOK
    <3>2. edits < MaxEdits /\ edits' = edits + 1
      BY <2>1
    <3> QED  BY <3>1, <3>2
  <2>3. /\ agents \in Seq(AgentParts) /\ config \in Seq(ConfigParts)
        /\ Once(config) /\ ~({Wrapper, Elsewhere} \subseteq ToSet(config))
    BY DEF IInv, TypeOK, Sections, AgentParts, ConfigParts
  <2>4. CASE EditFile
    BY <2>1, <2>2, <2>4, EditFileIInv
  <2>5. CASE EditAgents
    <3>1. files' = files /\ config' = config
      BY <2>5 DEF EditAgents
    <3>2. agents' \in Seq(AgentParts)
      BY <2>3, <2>5, EditAgentsType
    <3> QED  BY <2>1, <2>2, <2>3, <3>1, <3>2, EditTextIInv
  <2>6. CASE EditConfig
    <3>1. files' = files /\ agents' = agents
      BY <2>6 DEF EditConfig
    <3>2. /\ config' \in Seq(ConfigParts) /\ Once(config')
          /\ ~({Wrapper, Elsewhere} \subseteq ToSet(config'))
      BY <2>3, <2>6, EditConfigSections
    <3> QED  BY <2>1, <2>2, <2>3, <3>1, <3>2, EditTextIInv
  <2> QED  BY <1>8, <2>4, <2>5, <2>6 DEF User
<1>9. CASE UNCHANGED vars
  BY <1>9 DEF vars, IInv, TypeOK, FilesInstalled, VersionsSaved, Sections, HasRule, Rule, Server
<1> QED
  BY <1>1, <1>2, <1>3, <1>4, <1>5, <1>6, <1>7, <1>8, <1>9 DEF Next, Run

(***************************************************************************)
(* The user's lines in AGENTS.md.                                          *)
(***************************************************************************)
(* With one section, the user's lines are those before and after it.       *)
LEMMA OutsideSection ==
  ASSUME NEW text \in Seq(AgentParts), NEW s \in Nat, NEW e \in Nat, Section(text, s, e)
  PROVE  OwnPlaces(text) = {i \in DOMAIN text : text[i] \in Texts /\ (i < s \/ e < i)}
<1>1. DOMAIN text \subseteq Nat /\ Start \notin Texts /\ End \notin Texts
  BY InstallerAssumption
<1>2. ASSUME NEW i \in DOMAIN text, text[i] \in Texts
      PROVE  Inside(text, i) <=> ~(i < s \/ e < i)
  <2>1. CASE /\ s \in DOMAIN text /\ e \in DOMAIN text /\ s < e
             /\ text[s] = Start /\ \A j \in DOMAIN text : text[j] = Start => j = s
             /\ text[e] = End /\ \A j \in DOMAIN text : text[j] = End => j = e
    <3>1. Inside(text, i) <=> s < i /\ i < e
      BY <2>1 DEF Inside
    <3>2. i # s /\ i # e /\ i \in Nat
      BY <1>1, <1>2, <2>1
    <3> QED  BY <3>1, <3>2
  <2>2. CASE /\ e = Len(text) /\ s = Len(text) + 1
             /\ \A j \in DOMAIN text : text[j] # Start /\ text[j] # End
    <3>1. ~Inside(text, i)
      BY <2>2 DEF Inside
    <3>2. i < s
      <4>1. DOMAIN text = 1..Len(text) /\ Len(text) \in Nat
        OBVIOUS
      <4> QED  BY <2>2, <4>1
    <3> QED  BY <3>1, <3>2
  <2> QED  BY <2>1, <2>2 DEF Section
<1> QED
  BY <1>2 DEF OwnPlaces

(* Where lines keep their order from one text to another, so does what is  *)
(* the user's.                                                             *)
LEMMA OwnCarried ==
  ASSUME NEW a, NEW b, NEW h \in [OwnPlaces(a) -> OwnPlaces(b)],
         \A i \in OwnPlaces(a) : b[h[i]] = a[i],
         \A i, j \in OwnPlaces(a) : i < j => h[i] < h[j]
  PROVE  Own(a).lines \subseteq Own(b).lines /\ Own(a).order \subseteq Own(b).order
<1> DEFINE P == OwnPlaces(a)
           Q == OwnPlaces(b)
<1>1. {a[i] : i \in P} \subseteq {b[i] : i \in Q}
  OBVIOUS
<1>2. ASSUME NEW p \in P \X P, p[1] < p[2]
      PROVE  <<a[p[1]], a[p[2]]>> \in {<<b[q[1]], b[q[2]]>> : q \in {r \in Q \X Q : r[1] < r[2]}}
  <2>1. PICK r : r = <<h[p[1]], h[p[2]]>>
    OBVIOUS
  <2>2. p[1] \in P /\ p[2] \in P /\ r[1] = h[p[1]] /\ r[2] = h[p[2]]
    BY <2>1
  <2>3. r \in Q \X Q /\ r[1] < r[2]
    BY <1>2, <2>1, <2>2
  <2>4. <<a[p[1]], a[p[2]]>> = <<b[r[1]], b[r[2]]>>
    BY <2>2
  <2> QED  BY <2>3, <2>4
<1>3. /\ Own(a).lines = {a[i] : i \in P} /\ Own(b).lines = {b[i] : i \in Q}
      /\ Own(a).order = {<<a[p[1]], a[p[2]]>> : p \in {q \in P \X P : q[1] < q[2]}}
      /\ Own(b).order = {<<b[p[1]], b[p[2]]>> : p \in {q \in Q \X Q : q[1] < q[2]}}
  BY DEF Own
<1>4. Own(a).order \subseteq Own(b).order
  <2> HIDE DEF P, Q
  <2> SUFFICES ASSUME NEW x \in Own(a).order PROVE x \in Own(b).order
    OBVIOUS
  <2>1. PICK p \in {q \in P \X P : q[1] < q[2]} : x = <<a[p[1]], a[p[2]]>>
    BY <1>3
  <2> QED  BY <1>2, <1>3, <2>1
<1> QED
  BY <1>1, <1>3, <1>4

(* The new text has one section, and the user's lines of the old one.      *)
LEMMA TextReplaced ==
  ASSUME NEW text \in Seq(AgentParts), NEW s \in Nat, NEW e \in Nat,
         Section(text, s, e), NEW c \in Checkouts, NEW new, new = Replaced(text, s, e, c)
  PROVE  Own(new) = Own(text) /\ Count(Start, new) = 1 /\ Count(End, new) = 1
<1>1. /\ new \in Seq(AgentParts)
      /\ Len(new) = s + 2 + Len(text) - e
      /\ \A i \in 1..(s - 1) : new[i] = text[i]
      /\ new[s] = Start /\ new[s + 1] = c /\ new[s + 2] = End
      /\ \A i \in (e + 1)..Len(text) : new[i - e + s + 2] = text[i]
  <2>1. PartsReplaced(text, s, e, c, new)
    BY NewText
  <2> QED  BY <2>1 DEF PartsReplaced
<1>2. PICK n \in Nat : n = Len(text) /\ DOMAIN text = 1..n
  OBVIOUS
<1>3. s \in 1..(n + 1) /\ e \in 0..n /\ s <= e + 1
  <2>1. \/ s \in 1..n /\ e \in 1..n /\ s < e
        \/ e = n /\ s = n + 1
    BY <1>2 DEF Section
  <2> QED  BY <2>1
<1>4. DOMAIN new = 1..(s + 2 + n - e)
  BY <1>1, <1>2
<1>5. \A i \in DOMAIN text : i < s \/ e < i => text[i] # Start /\ text[i] # End
  <2>1. \A i \in DOMAIN text : i \in Nat
    BY <1>2
  <2> QED  BY <2>1 DEF Section
<1>6. ASSUME NEW i \in DOMAIN new
      PROVE  \/ i \in 1..(s - 1) /\ i \in DOMAIN text /\ new[i] = text[i]
             \/ i \in {s, s + 1, s + 2}
             \/ /\ s + 2 < i /\ i + e - s - 2 \in DOMAIN text /\ e < i + e - s - 2
                /\ new[i] = text[i + e - s - 2]
  <2>1. i \in Nat /\ 1 <= i /\ i <= s + 2 + n - e
    BY <1>3, <1>4
  <2>2. CASE i < s
    <3>1. i \in 1..(s - 1) /\ i \in 1..n
      BY <1>3, <2>1, <2>2
    <3> QED  BY <1>1, <1>2, <3>1
  <2>3. CASE s <= i /\ i <= s + 2
    BY <2>1, <2>3
  <2>4. CASE s + 2 < i
    <3>1. PICK j : j = i + e - s - 2
      OBVIOUS
    <3>2. j \in (e + 1)..n /\ j \in 1..n /\ j - e + s + 2 = i
      BY <1>3, <2>1, <2>4, <3>1
    <3>3. new[i] = text[j]
      BY <1>1, <1>2, <3>2
    <3> QED  BY <1>2, <1>3, <2>4, <3>1, <3>2, <3>3
  <2> QED  BY <2>1, <2>2, <2>3, <2>4
<1>7. /\ s \in DOMAIN new /\ s + 2 \in DOMAIN new /\ s + 2 \in Nat /\ s < s + 2
      /\ s + 1 # s /\ s + 2 # s /\ s + 1 # s + 2
  BY <1>3, <1>4
<1>8. c # Start /\ c # End /\ Start # End
  BY InstallerAssumption
<1>9. ASSUME NEW i \in DOMAIN new
      PROVE  (new[i] = Start => i = s) /\ (new[i] = End => i = s + 2)
  <2>1. CASE i \in 1..(s - 1) /\ i \in DOMAIN text /\ new[i] = text[i]
    BY <1>3, <1>5, <2>1
  <2>2. CASE i \in {s, s + 1, s + 2}
    BY <1>1, <1>8, <2>2
  <2>3. CASE i + e - s - 2 \in DOMAIN text /\ e < i + e - s - 2 /\ new[i] = text[i + e - s - 2]
    BY <1>5, <2>3
  <2> QED  BY <1>6, <2>1, <2>2, <2>3
<1>10. Count(Start, new) = 1 /\ Count(End, new) = 1
  BY <1>1, <1>7, <1>9, Counted
<1>11. Section(new, s, s + 2)
  BY <1>1, <1>7, <1>9 DEF Section
<1>12. /\ OwnPlaces(text) = {i \in DOMAIN text : text[i] \in Texts /\ (i < s \/ e < i)}
       /\ OwnPlaces(new) = {i \in DOMAIN new : new[i] \in Texts /\ (i < s \/ s + 2 < i)}
  BY <1>1, <1>7, <1>11, OutsideSection
<1>13. Own(text).lines \subseteq Own(new).lines /\ Own(text).order \subseteq Own(new).order
  <2> DEFINE h == [i \in OwnPlaces(text) |-> IF i < s THEN i ELSE i - e + s + 2]
  <2>1. ASSUME NEW i \in OwnPlaces(text)
        PROVE  /\ i \in 1..n /\ (i < s \/ e < i)
               /\ h[i] \in OwnPlaces(new) /\ new[h[i]] = text[i]
    <3>1. i \in 1..n /\ text[i] \in Texts /\ (i < s \/ e < i)
      BY <1>2, <1>12
    <3>2. CASE i < s
      <4>1. h[i] = i /\ i \in 1..(s - 1) /\ i \in 1..(s + 2 + n - e)
        BY <1>3, <3>1, <3>2
      <4> QED  BY <1>1, <1>4, <1>12, <3>1, <3>2, <4>1
    <3>3. CASE e < i
      <4>1. PICK j : j = i - e + s + 2
        OBVIOUS
      <4>2. ~(i < s) /\ i \in (e + 1)..n /\ j \in 1..(s + 2 + n - e) /\ s + 2 < j
        BY <1>3, <3>1, <3>3, <4>1
      <4>3. h[i] = j /\ new[j] = text[i]
        BY <1>1, <1>2, <4>1, <4>2
      <4> QED  BY <1>4, <1>12, <3>1, <3>3, <4>2, <4>3
    <3> QED  BY <3>1, <3>2, <3>3
  <2>2. ASSUME NEW i \in OwnPlaces(text), NEW j \in OwnPlaces(text), i < j
        PROVE  h[i] < h[j]
    <3>1. i \in 1..n /\ (i < s \/ e < i) /\ j \in 1..n /\ (j < s \/ e < j)
      BY <2>1
    <3>2. /\ h[i] = IF i < s THEN i ELSE i - e + s + 2
          /\ h[j] = IF j < s THEN j ELSE j - e + s + 2
      OBVIOUS
    <3> HIDE DEF h
    <3> QED  BY <1>3, <2>2, <3>1, <3>2
  <2>3. h \in [OwnPlaces(text) -> OwnPlaces(new)]
    BY <2>1
  <2> HIDE DEF h
  <2> QED  BY <2>1, <2>2, <2>3, OwnCarried
<1>14. Own(new).lines \subseteq Own(text).lines /\ Own(new).order \subseteq Own(text).order
  <2> DEFINE h == [i \in OwnPlaces(new) |-> IF i < s THEN i ELSE i + e - s - 2]
  <2>1. ASSUME NEW i \in OwnPlaces(new)
        PROVE  /\ i \in Nat /\ (i < s \/ s + 2 < i)
               /\ h[i] \in OwnPlaces(text) /\ text[h[i]] = new[i]
    <3>1. i \in DOMAIN new /\ i \in Nat /\ new[i] \in Texts /\ (i < s \/ s + 2 < i)
      BY <1>3, <1>4, <1>12
    <3>2. CASE i < s
      <4>1. h[i] = i /\ i \in DOMAIN text /\ new[i] = text[i]
        <5>1. ~(i \in {s, s + 1, s + 2}) /\ ~(s + 2 < i)
          BY <3>1, <3>2
        <5> QED  BY <1>6, <3>1, <3>2, <5>1
      <4> QED  BY <1>12, <3>1, <3>2, <4>1
    <3>3. CASE s + 2 < i
      <4>1. PICK j : j = i + e - s - 2
        OBVIOUS
      <4>2. ~(i < s) /\ ~(i \in {s, s + 1, s + 2}) /\ ~(i \in 1..(s - 1))
        BY <3>1, <3>3
      <4>3. h[i] = j /\ j \in DOMAIN text /\ e < j /\ new[i] = text[j]
        BY <1>6, <3>1, <4>1, <4>2
      <4> QED  BY <1>12, <3>1, <3>3, <4>3
    <3> QED  BY <3>1, <3>2, <3>3
  <2>2. ASSUME NEW i \in OwnPlaces(new), NEW j \in OwnPlaces(new), i < j
        PROVE  h[i] < h[j]
    <3>1. i \in Nat /\ (i < s \/ s + 2 < i) /\ j \in Nat /\ (j < s \/ s + 2 < j)
      BY <2>1
    <3>2. /\ h[i] = IF i < s THEN i ELSE i + e - s - 2
          /\ h[j] = IF j < s THEN j ELSE j + e - s - 2
      OBVIOUS
    <3> HIDE DEF h
    <3> QED  BY <1>3, <2>2, <3>1, <3>2
  <2>3. h \in [OwnPlaces(new) -> OwnPlaces(text)]
    BY <2>1
  <2> HIDE DEF h
  <2> QED  BY <2>1, <2>2, <2>3, OwnCarried
<1>15. Own(new) = Own(text)
  BY <1>13, <1>14 DEF Own
<1> QED
  BY <1>10, <1>15

(***************************************************************************)
(* The theorems.                                                           *)
(***************************************************************************)
(* The invariant holds in every state of every sequence of runs and edits. *)
THEOREM HomeInvariant == Spec => []IInv
<1>1. Init => IInv
  BY InitIInv
<1>2. IInv /\ [Next]_vars => IInv'
  BY NextIInv
<1> QED
  BY <1>1, <1>2, PTL DEF Spec

(* The Codex home always has the files, the texts and the backups that the *)
(* installer and the user can have given it, torn ones included.           *)
THEOREM TypeCorrect == Spec => []TypeOK
<1>1. IInv => TypeOK
  BY DEF IInv
<1> QED
  BY <1>1, HomeInvariant, PTL

(* No sequence of runs, kills and the user's own sections makes a section  *)
(* of config.toml come twice.                                              *)
THEOREM NoSectionTwice == Spec => []SectionsUnique
<1>1. IInv => SectionsUnique
  <2>1. IInv => config \in Seq(ConfigParts) /\ Once(config)
    BY DEF IInv, TypeOK, Sections, ConfigParts
  <2> QED  BY <2>1, OnceCounted DEF SectionsUnique
<1> QED
  BY <1>1, HomeInvariant, PTL

(* A run that reports success has put its checkout's files, its rule and,  *)
(* unless told not to, the server and a section for each tool in place.    *)
THEOREM SuccessMeansInstalled == Spec => []SuccessInstalls
<1>1. IInv => SuccessInstalls
  <2> SUFFICES ASSUME IInv, pc = "verify"
               PROVE  /\ \A f \in Files : files[f] = checkout
                      /\ HasRule
                      /\ ~skipMcp => Server = {Wrapper} /\ Tools \subseteq ToSet(config)
    BY DEF SuccessInstalls, HasRule
  <2> QED  BY DEF IInv, FilesInstalled, Sections, Files, AfterBinary, AfterSkill, AfterWrapper, AfterRule
<1> QED
  BY <1>1, HomeInvariant, PTL

(* Before a run overwrites a version of the user's, whole or in part, that *)
(* version is in a backup.                                                 *)
THEOREM UsersVersionsKept == Spec => EditsKept
<1>1. ASSUME IInv, Next, NEW f \in Files, files[f] \in Edits, files'[f] # files[f], pc # "idle"
      PROVE  <<f, files[f]>> \in backups'
  <2>1. /\ files \in [Files -> Checkouts \cup Edits \cup {Absent, Torn}]
        /\ files["binary"] \notin Edits
        /\ pc = "write skill" /\ files["skill"] \in Edits => <<"skill", files["skill"]>> \in backups
        /\ pc = "write wrapper" /\ files["wrapper"] \in Edits => <<"wrapper", files["wrapper"]>> \in backups
    BY <1>1 DEF IInv, TypeOK, VersionsSaved
  <2>2. files' # files /\ f # "binary"
    BY <1>1, <2>1
  <2>3. CASE InstallBinary
    <3>1. PICK c \in {checkout, Torn} : files' = [files EXCEPT !["binary"] = c]
      BY <2>2, <2>3 DEF InstallBinary, Preserve, Write
    <3>2. files'[f] = files[f]
      BY <2>1, <2>2, <3>1
    <3> QED  BY <1>1, <3>2
  <2>4. CASE InstallSkill
    <3>1. PICK g \in {"skill", "wrapper"}, c \in {checkout, Torn} :
             /\ files' = [files EXCEPT ![g] = c]
             /\ pc = IF g = "skill" THEN "write skill" ELSE "write wrapper"
             /\ backups' = backups
      BY <2>2, <2>4 DEF InstallSkill, Preserve, Write
    <3>2. f = g
      BY <1>1, <2>1, <3>1
    <3> QED  BY <1>1, <2>1, <3>1, <3>2
  <2>5. ~Begin /\ ~User /\ ~InitWorkspace /\ ~InstallRule /\ ~Register /\ ~Approve /\ ~Verify /\ ~Stop
    BY <1>1, <2>2 DEF Begin, User, InitWorkspace, InstallRule, Register, Approve, Verify, Stop
  <2> QED  BY <1>1, <2>3, <2>4, <2>5 DEF Next, Run
<1>2. IInv /\ [Next]_vars =>
        [\A f \in Files : (files[f] \in Edits /\ files'[f] # files[f] /\ pc # "idle") =>
           <<f, files[f]>> \in backups']_vars
  BY <1>1
<1> QED
  BY <1>2, HomeInvariant, PTL DEF Spec, EditsKept

(* A run that gets past AGENTS.md has left the user's lines as they were,  *)
(* with one marked section among them.                                     *)
THEOREM UsersLinesKept == Spec => TextKept
<1>1. ASSUME IInv, Next, pc = "rule", pc' # "idle"
      PROVE  /\ Own(agents') = Own(agents)
             /\ Count(Start, agents') = 1 /\ Count(End, agents') = 1
  <2>1. InstallRule /\ agents' = Updated
    <3>1. InstallRule
      BY <1>1 DEF Next, Run, Begin, InstallBinary, InitWorkspace, InstallSkill, Preserve, Write,
                  Register, Approve, Verify, Stop, User, Goto
    <3> QED  BY <1>1, <3>1 DEF InstallRule, Goto
  <2>2. agents \in Seq(AgentParts) /\ checkout \in Checkouts /\ ~Ambiguous
    BY <1>1, <2>1 DEF IInv, TypeOK, AgentParts, InstallRule
  <2>3. PICK s \in Nat, e \in Nat : Section(agents, s, e) /\ Updated = Replaced(agents, s, e, checkout)
    BY <2>2, FoundSection
  <2>4. PICK text, new, c : text = agents /\ new = agents' /\ c = checkout
    OBVIOUS
  <2>5. /\ text \in Seq(AgentParts) /\ Section(text, s, e) /\ c \in Checkouts
        /\ new = Replaced(text, s, e, c)
    BY <2>1, <2>2, <2>3, <2>4
  <2>6. Own(new) = Own(text) /\ Count(Start, new) = 1 /\ Count(End, new) = 1
    BY <2>5, TextReplaced
  <2> QED  BY <2>4, <2>6
<1>2. IInv /\ [Next]_vars =>
        [(pc = "rule" /\ pc' # "idle") =>
           /\ Own(agents') = Own(agents)
           /\ Count(Start, agents') = 1 /\ Count(End, agents') = 1]_vars
  BY <1>1
<1> QED
  BY <1>2, HomeInvariant, PTL DEF Spec, TextKept
=============================================================================

------------------------- MODULE MemorySnapshotProofs -------------------------
(***************************************************************************)
(* Proofs about MemorySnapshot, for any number of processes, commands and  *)
(* events.  The argument is the lock's: a process between load and unlock  *)
(* is the holder, so that what it has loaded is still the snapshot when it *)
(* renames its own engine over it.                                         *)
(***************************************************************************)
EXTENDS MemorySnapshot, TLAPS

UnderLock == {"load", "write", "rename", "unlock"}

(* Whoever works on the snapshot has the lock.                             *)
LockHeld == \A p \in Proc : call[p].step \in UnderLock => holder = p

(* An ingest about to be saved extends the snapshot as it is.              *)
Extends(p) ==
  call[p].step \in {"write", "rename"} =>
    \/ Brings(p)
    \/ call[p].op \in {"ingest", "pair"} /\ call[p].engine = Append(Contents, call[p].event)

(* One about to be acknowledged is in it.                                  *)
Arrived(p) ==
  (call[p].step = "unlock" /\ call[p].op = "ingest" /\ ~replaced) => call[p].event \in Held

(* A failure that is recorded, read or paired did happen.                  *)
Observed(p) ==
  (call[p].op = "pair" \/ call[p].step \in {"truncate", "record"}) =>
    <<call[p].event, call[p].command>> \in failures

IncidentReal == incident \notin {NoFile, Torn} => incident \in failures

Inv ==
  /\ TypeOK
  /\ LockHeld
  /\ \A p \in Proc : Extends(p) /\ Arrived(p) /\ Observed(p)
  /\ IncidentReal
  /\ AckedIngested
  /\ PairObserved

(***************************************************************************)
(* Lemmas.                                                                 *)
(***************************************************************************)
(* Appending an event adds it to those of an engine.                       *)
LEMMA AppendHolds ==
  ASSUME NEW s \in Seq(Nat), NEW e \in Nat
  PROVE  /\ Append(s, e) \in Seq(Nat)
         /\ {Append(s, e)[i] : i \in DOMAIN Append(s, e)} = {s[i] : i \in DOMAIN s} \cup {e}
<1> DEFINE t == Append(s, e)
<1>1. t \in Seq(Nat) /\ DOMAIN t = 1..(Len(s) + 1) /\ DOMAIN s = 1..Len(s) /\ Len(s) \in Nat
  OBVIOUS
<1>2. \A i \in 1..Len(s) : t[i] = s[i]
  OBVIOUS
<1>3. t[Len(s) + 1] = e
  OBVIOUS
<1>4. {t[i] : i \in DOMAIN t} \subseteq {s[i] : i \in DOMAIN s} \cup {e}
  <2> SUFFICES ASSUME NEW i \in 1..(Len(s) + 1)
               PROVE  t[i] \in {s[j] : j \in DOMAIN s} \cup {e}
    BY <1>1
  <2>1. CASE i = Len(s) + 1  BY <2>1, <1>3
  <2>2. CASE i # Len(s) + 1
    <3>1. i \in 1..Len(s)  BY <2>2, <1>1
    <3> QED  BY <3>1, <1>1, <1>2
  <2> QED  BY <2>1, <2>2
<1>5. {s[i] : i \in DOMAIN s} \cup {e} \subseteq {t[i] : i \in DOMAIN t}
  <2>1. \A i \in DOMAIN s : i \in DOMAIN t /\ t[i] = s[i]  BY <1>1, <1>2
  <2>2. Len(s) + 1 \in DOMAIN t  BY <1>1
  <2> QED  BY <2>1, <2>2, <1>3
<1> HIDE DEF t
<1>6. {t[i] : i \in DOMAIN t} = {s[i] : i \in DOMAIN s} \cup {e}
  BY <1>4, <1>5
<1> QED  BY <1>1, <1>6 DEF t

(* The snapshot, present or not, stands for an engine.                     *)
LEMMA ContentsType == ASSUME TypeOK PROVE Contents \in Seq(Nat)
BY DEF TypeOK, Contents

(* What Become leaves of the other calls.                                  *)
LEMMA BecomeOne ==
  ASSUME TypeOK, NEW p \in Proc, NEW c \in Calls, Become(p, c)
  PROVE  /\ call' \in [Proc -> Calls]
         /\ call'[p] = c
         /\ \A q \in Proc : q # p => call'[q] = call[q]
BY DEF TypeOK, Become

(* Going to another step keeps the rest of the call.                       *)
LEMMA Moved ==
  ASSUME NEW c \in Calls,
         NEW st \in {"idle", "wait", "load", "write", "rename", "unlock",
                    "truncate", "record", "forget"}
  PROVE  /\ [c EXCEPT !.step = st] \in Calls
         /\ [c EXCEPT !.step = st].step = st
         /\ [c EXCEPT !.step = st].op = c.op
         /\ [c EXCEPT !.step = st].engine = c.engine
         /\ [c EXCEPT !.step = st].event = c.event
         /\ [c EXCEPT !.step = st].command = c.command
BY DEF Calls

(* So does taking the snapshot's engine with an event.                     *)
LEMMA Loaded ==
  ASSUME NEW c \in Calls, NEW e \in Seq(Nat)
  PROVE  LET d == [c EXCEPT !.step = "write", !.engine = e]
         IN  /\ d \in Calls /\ d.step = "write" /\ d.engine = e
             /\ d.op = c.op /\ d.event = c.event /\ d.command = c.command
<1> DEFINE b == [c EXCEPT !.step = "write"]
           d == [c EXCEPT !.step = "write", !.engine = e]
<1>1. /\ b \in Calls /\ b.step = "write" /\ b.op = c.op
      /\ b.event = c.event /\ b.command = c.command
  BY Moved
<1>2. d = [b EXCEPT !.engine = e]
  OBVIOUS
<1> HIDE DEF b, d
<1>3. d \in Calls /\ d.step = b.step /\ d.engine = e /\ d.op = b.op
      /\ d.event = b.event /\ d.command = b.command
  BY <1>1, <1>2 DEF Calls
<1>4. /\ d \in Calls /\ d.step = "write" /\ d.engine = e
      /\ d.op = c.op /\ d.event = c.event /\ d.command = c.command
  BY <1>1, <1>3
<1> QED
  BY <1>4 DEF d

(* The fields of a call.                                                   *)
LEMMA CallFields ==
  ASSUME NEW c \in Calls
  PROVE  /\ c.op \in {"load", "ingest", "pair", "sync", "init"}
         /\ c.engine \in Seq(Nat) /\ c.event \in Nat /\ c.command \in Commands \cup {None}
BY DEF Calls

(* A process's call, and what may follow it, are calls.                     *)
LEMMA StepType ==
  ASSUME TypeOK, NEW p \in Proc
  PROVE  /\ \A st \in {"idle", "wait", "load", "write", "rename", "unlock",
                       "truncate", "record", "forget"} :
              [call[p] EXCEPT !.step = st] \in Calls
         /\ Idle \in Calls /\ After(p) \in Calls /\ call[p] \in Calls
<1>1. call[p] \in Calls
  BY DEF TypeOK
<1>2. ASSUME NEW c \in Calls,
             NEW st \in {"idle", "wait", "load", "write", "rename", "unlock",
                        "truncate", "record", "forget"}
      PROVE  [c EXCEPT !.step = st] \in Calls
  BY <1>2 DEF Calls
<1>3. Idle \in Calls
  BY DEF Idle, Calls
<1>4. After(p) \in Calls
  BY <1>1, <1>2, <1>3 DEF After
<1> QED
  BY <1>1, <1>2, <1>3, <1>4

(* A workspace without .continuum satisfies the invariant.                 *)
LEMMA InitInv == Init => Inv
<1> SUFFICES ASSUME Init PROVE Inv
  OBVIOUS
<1>1. Idle \in Calls  BY DEF Idle, Calls
<1>2. TypeOK  BY <1>1 DEF Init, TypeOK
<1>3. \A p \in Proc : call[p].step = "idle" /\ call[p].op = "load"  BY DEF Init, Idle
<1>4. LockHeld  BY <1>3 DEF LockHeld, UnderLock
<1>5. \A p \in Proc : Extends(p) /\ Arrived(p) /\ Observed(p)
  BY <1>3 DEF Extends, Arrived, Observed
<1> QED
  BY <1>2, <1>4, <1>5 DEF Init, Inv, IncidentReal, AckedIngested, PairObserved

(* A step that leaves the snapshot and what was promised about it alone.   *)
QuietCall(p, c) ==
  /\ c.step \in UnderLock => holder' = p
  /\ c.step \in {"write", "rename"} =>
       c.op \in {"sync", "init"} \/ (c.op \in {"ingest", "pair"} /\ c.engine = Append(Contents, c.event))
  /\ ~(c.step = "unlock" /\ c.op = "ingest")
  /\ (c.op = "pair" \/ c.step \in {"truncate", "record"}) =>
       <<c.event, c.command>> \in failures'

QuietShared(p) ==
  /\ UNCHANGED <<snapshot, acked, replaced, pairs>>
  /\ holder' = holder \/ holder = p \/ holder = Nobody
  /\ failures \subseteq failures'
  /\ incident' \notin {NoFile, Torn} => incident' \in failures'

SharedType ==
  /\ holder' \in Proc \cup {Nobody}
  /\ incident' \in (Nat \X Commands) \cup {NoFile, Torn}
  /\ next' \in Nat
  /\ failures' \subseteq Nat \X Commands

LEMMA QuietOthers ==
  ASSUME Inv, NEW p \in Proc, NEW c \in Calls, call' \in [Proc -> Calls], call'[p] = c,
         \A q \in Proc : q # p => call'[q] \in {call[q], Idle},
         QuietCall(p, c), QuietShared(p), SharedType
  PROVE  Inv'
<1>1. /\ call' \in [Proc -> Calls]
      /\ call'[p] = c
      /\ \A q \in Proc : q # p => call'[q] \in {call[q], Idle}
      /\ Idle.step = "idle" /\ Idle.op = "load"
  BY DEF Idle
<1>2. Contents' = Contents /\ Held' = Held
  BY DEF QuietShared, Contents, Held
<1>3. TypeOK'
  BY <1>1 DEF Inv, TypeOK, QuietShared, SharedType
<1>4. ASSUME NEW q \in Proc, call'[q].step \in UnderLock PROVE holder' = q
  <2>1. CASE q = p  BY <2>1, <1>1, <1>4 DEF QuietCall
  <2>2. CASE q # p
    <3>1. holder = q  BY <2>2, <1>1, <1>4 DEF Inv, LockHeld, UnderLock
    <3> QED  BY <3>1, <2>2, SnapshotAssumption DEF QuietShared
  <2> QED  BY <2>1, <2>2
<1>5. ASSUME NEW q \in Proc PROVE Extends(q)' /\ Arrived(q)' /\ Observed(q)'
  <2>1. CASE q = p
    <3>1. Extends(q)'  BY <2>1, <1>1, <1>2 DEF Extends, Brings, QuietCall
    <3>2. Arrived(q)'  BY <2>1, <1>1 DEF Arrived, QuietCall
    <3>3. Observed(q)'  BY <2>1, <1>1 DEF Observed, QuietCall
    <3> QED  BY <3>1, <3>2, <3>3
  <2>2. CASE q # p
    <3>1. Extends(q) /\ Arrived(q) /\ Observed(q) /\ call'[q] \in {call[q], Idle}
      BY <2>2, <1>1 DEF Inv
    <3>2. Extends(q)'  BY <3>1, <1>1, <1>2 DEF Extends, Brings
    <3>3. Arrived(q)'  BY <3>1, <1>1, <1>2 DEF Arrived, QuietShared
    <3>4. Observed(q)'  BY <3>1, <1>1 DEF Observed, QuietShared
    <3> QED  BY <3>2, <3>3, <3>4
  <2> QED  BY <2>1, <2>2
<1>6. IncidentReal' /\ AckedIngested' /\ PairObserved'
  BY <1>2 DEF Inv, IncidentReal, AckedIngested, PairObserved, QuietShared
<1> QED
  BY <1>3, <1>4, <1>5, <1>6 DEF Inv, LockHeld

LEMMA QuietStep ==
  ASSUME Inv, NEW p \in Proc, NEW c \in Calls, Become(p, c),
         QuietCall(p, c), QuietShared(p), SharedType
  PROVE  Inv'
<1>1. /\ call' \in [Proc -> Calls]
      /\ call'[p] = c
      /\ \A q \in Proc : q # p => call'[q] \in {call[q], Idle}
  BY BecomeOne DEF Inv
<1> QED
  BY <1>1, QuietOthers

(* Entering a call takes no lock and writes nothing.                       *)
LEMMA StartStep ==
  ASSUME Inv, NEW p \in Proc, NEW op \in {"load", "ingest", "pair", "sync", "init"},
         NEW eng \in Seq(Nat), NEW ev \in Nat, NEW cmd \in Commands \cup {None},
         Start(p, op, eng, ev, cmd), next' \in Nat,
         op = "pair" => <<ev, cmd>> \in failures
  PROVE  Inv'
<1> DEFINE c == [step |-> "wait", op |-> op, engine |-> eng, event |-> ev, command |-> cmd]
<1>1. c \in Calls  BY DEF Calls
<1>2. Become(p, c)  BY DEF Start
<1>3. UNCHANGED <<holder, snapshot, incident, acked, replaced, failures, pairs>>
  BY DEF Start, files, history
<1>4. QuietCall(p, c)  BY <1>3 DEF QuietCall, UnderLock
<1>5. QuietShared(p)  BY <1>3 DEF QuietShared, Inv, IncidentReal
<1>6. SharedType  BY <1>3 DEF SharedType, Inv, TypeOK
<1> QED
  BY <1>1, <1>2, <1>4, <1>5, <1>6, QuietStep

(* The five ways to enter a call.                                          *)
LEMMA CallSteps ==
  ASSUME Inv, NEW p \in Proc,
         Ingest(p) \/ LoadCall(p) \/ SyncCall(p) \/ InitCall(p) \/ RunSucceeds(p)
  PROVE  Inv'
<1>1. next \in Nat /\ <<>> \in Seq(Nat) /\ <<next>> \in Seq(Nat)
  BY DEF Inv, TypeOK
<1>2. CASE Ingest(p)
  <2>1. Start(p, "ingest", <<>>, next, None) /\ next' = next + 1  BY <1>2 DEF Ingest, NewEvent
  <2>2. next' \in Nat  BY <1>1, <2>1
  <2> QED  BY <1>1, <2>1, <2>2, StartStep
<1>3. CASE LoadCall(p)
  <2>1. Start(p, "load", <<>>, 0, None) /\ next' = next  BY <1>3 DEF LoadCall
  <2> QED  BY <1>1, <2>1, StartStep
<1>4. CASE SyncCall(p)
  <2>1. Start(p, "sync", <<next>>, 0, None) /\ next' = next + 1  BY <1>4 DEF SyncCall, NewEvent
  <2>2. next' \in Nat  BY <1>1, <2>1
  <2> QED  BY <1>1, <2>1, <2>2, StartStep
<1>5. CASE InitCall(p)
  <2>1. Start(p, "init", <<>>, 0, None) /\ next' = next  BY <1>5 DEF InitCall
  <2> QED  BY <1>1, <2>1, StartStep
<1>6. CASE RunSucceeds(p)
  <2>1. Start(p, "pair", <<>>, incident[1], incident[2]) /\ next' = next
    BY <1>6 DEF RunSucceeds
  <2>2. incident \in failures /\ incident \in Nat \X Commands
    BY <1>6 DEF RunSucceeds, Inv, TypeOK, IncidentReal
  <2>3. incident[1] \in Nat /\ incident[2] \in Commands /\ <<incident[1], incident[2]>> = incident
    BY <2>2
  <2> QED  BY <1>1, <2>1, <2>2, <2>3, StartStep
<1> QED
  BY <1>2, <1>3, <1>4, <1>5, <1>6

(* The steps of a call up to its rename, and the ways to give it up.       *)
LEMMA LockedSteps ==
  ASSUME Inv, NEW p \in Proc, Timeout(p) \/ Acquire(p) \/ LoadEngine(p) \/ WriteTemp(p) \/ Fail(p)
  PROVE  Inv'
<1> DEFINE afterP == After(p)
<1>1. /\ call[p] \in Calls /\ afterP \in Calls /\ Idle \in Calls
      /\ \A st \in {"idle", "wait", "load", "write", "rename", "unlock",
                    "truncate", "record", "forget"} : [call[p] EXCEPT !.step = st] \in Calls
  BY StepType DEF Inv
<1>2. UNCHANGED <<snapshot, incident, acked, replaced, failures, pairs, next>>
  BY DEF Timeout, Acquire, LoadEngine, WriteTemp, Fail, files, history
<1>3. Extends(p) /\ Observed(p) /\ (call[p].step \in UnderLock => holder = p)
  BY DEF Inv, LockHeld
<1>4. Contents \in Seq(Nat) /\ holder \in Proc \cup {Nobody}
  BY ContentsType DEF Inv, TypeOK
<1>5. ASSUME holder' = holder \/ holder \in {p, Nobody}, holder' \in {holder, p, Nobody}
      PROVE  QuietShared(p) /\ SharedType
  BY <1>2, <1>4, <1>5 DEF QuietShared, SharedType, Inv, TypeOK, IncidentReal
<1>6. QuietCall(p, afterP)
  <2>1. CASE call[p].op = "pair"
    <3>1. afterP = [call[p] EXCEPT !.step = "forget"]  BY <2>1 DEF After
    <3>2. afterP.step = "forget" /\ afterP.op = "pair"
          /\ afterP.event = call[p].event /\ afterP.command = call[p].command
      BY <3>1, <1>1, <2>1, Moved
    <3> HIDE DEF afterP
    <3> QED  BY <3>2, <2>1, <1>2, <1>3 DEF QuietCall, UnderLock, Observed
  <2>2. CASE call[p].op # "pair"
    <3>1. afterP.step = "idle" /\ afterP.op = "load"  BY <2>2 DEF After, Idle
    <3> HIDE DEF afterP
    <3> QED  BY <3>1 DEF QuietCall, UnderLock
  <2> QED  BY <2>1, <2>2
<1>7. CASE Timeout(p)
  <2>1. Become(p, afterP) /\ holder' = holder  BY <1>7 DEF Timeout
  <2> HIDE DEF afterP
  <2> QED  BY <1>1, <1>5, <1>6, <2>1, QuietStep
<1>8. CASE Fail(p)
  <2>1. Become(p, afterP) /\ holder' = Nobody /\ holder = p  BY <1>8, <1>3 DEF Fail, At, UnderLock
  <2> HIDE DEF afterP
  <2> QED  BY <1>1, <1>5, <1>6, <2>1, QuietStep
<1>9. CASE Acquire(p)
  <2>1. holder' = p /\ holder = Nobody  BY <1>9 DEF Acquire
  <2>2. CASE Brings(p)
    <3> DEFINE c == [call[p] EXCEPT !.step = "write"]
    <3>1. Become(p, c)  BY <1>9, <2>2 DEF Acquire, Goto
    <3>2. /\ c \in Calls /\ c.op = call[p].op /\ c.event = call[p].event
          /\ c.command = call[p].command /\ c.step = "write"
      BY <1>1, Moved
    <3> HIDE DEF c
    <3>3. QuietCall(p, c)  BY <2>1, <2>2, <3>2, <1>2, <1>3 DEF QuietCall, Observed, Brings
    <3> QED  BY <1>5, <2>1, <3>1, <3>2, <3>3, QuietStep
  <2>3. CASE ~Brings(p)
    <3> DEFINE c == [call[p] EXCEPT !.step = "load"]
    <3>1. Become(p, c)  BY <1>9, <2>3 DEF Acquire, Goto
    <3>2. /\ c \in Calls /\ c.op = call[p].op /\ c.event = call[p].event
          /\ c.command = call[p].command /\ c.step = "load"
      BY <1>1, Moved
    <3> HIDE DEF c
    <3>3. QuietCall(p, c)  BY <2>1, <2>3, <3>2, <1>2, <1>3 DEF QuietCall, Observed
    <3> QED  BY <1>5, <2>1, <3>1, <3>2, <3>3, QuietStep
  <2> QED  BY <2>2, <2>3
<1>10. CASE LoadEngine(p)
  <2>1. holder' = holder /\ holder = p  BY <1>10, <1>3 DEF LoadEngine, At, UnderLock
  <2>2. CASE call[p].op = "load"
    <3> DEFINE c == [call[p] EXCEPT !.step = "unlock"]
    <3>1. Become(p, c)  BY <1>10, <2>2 DEF LoadEngine
    <3>2. c \in Calls /\ c.op = "load" /\ c.step = "unlock"  BY <1>1, <2>2, Moved
    <3> HIDE DEF c
    <3>3. QuietCall(p, c)  BY <2>1, <3>2 DEF QuietCall
    <3> QED  BY <1>5, <2>1, <3>1, <3>2, <3>3, QuietStep
  <2>3. CASE call[p].op # "load"
    <3> DEFINE c == [call[p] EXCEPT !.step = "write", !.engine = Append(Contents, call[p].event)]
    <3>1. Become(p, c)  BY <1>10, <2>3 DEF LoadEngine
    <3>2. Append(Contents, call[p].event) \in Seq(Nat)
      <4>1. call[p].event \in Nat  BY <1>1, CallFields
      <4> QED  BY <4>1, <1>4, AppendHolds
    <3>3. /\ c \in Calls /\ c.op = call[p].op /\ c.step = "write" /\ c.event = call[p].event
          /\ c.command = call[p].command /\ c.engine = Append(Contents, call[p].event)
      BY <1>1, <3>2, Loaded
    <3>4. call[p].op \in {"ingest", "pair", "sync", "init"}  BY <1>1, <2>3, CallFields
    <3> HIDE DEF c
    <3>5. QuietCall(p, c)  BY <2>1, <3>3, <3>4, <1>2, <1>3 DEF QuietCall, Observed
    <3> QED  BY <1>5, <2>1, <3>1, <3>3, <3>5, QuietStep
  <2> QED  BY <2>2, <2>3
<1>11. CASE WriteTemp(p)
  <2> DEFINE c == [call[p] EXCEPT !.step = "rename"]
  <2>1. Become(p, c) /\ holder' = holder /\ holder = p /\ call[p].step = "write"
    BY <1>11, <1>3 DEF WriteTemp, Goto, At, UnderLock
  <2>2. /\ c \in Calls /\ c.op = call[p].op /\ c.step = "rename" /\ c.event = call[p].event
        /\ c.command = call[p].command /\ c.engine = call[p].engine
    BY <1>1, Moved
  <2> HIDE DEF c
  <2>3. QuietCall(p, c)  BY <2>1, <2>2, <1>2, <1>3 DEF QuietCall, Observed, Extends, Brings
  <2> QED  BY <1>5, <2>1, <2>2, <2>3, QuietStep
<1> QED
  BY <1>7, <1>8, <1>9, <1>10, <1>11

(* The runs' own steps, and deaths, end up idle or at their incident.      *)
LEMMA IdleStep ==
  ASSUME Inv, NEW p \in Proc, Become(p, Idle), QuietShared(p), SharedType
  PROVE  Inv'
<1>1. Idle \in Calls  BY StepType DEF Inv
<1>2. Idle.step = "idle" /\ Idle.op = "load"  BY DEF Idle
<1>3. QuietCall(p, Idle)  BY <1>2 DEF QuietCall, UnderLock
<1> QED
  BY <1>1, <1>3, QuietStep

(* A run's steps on the incident, which nothing protects, and deaths.      *)
LEMMA RunSteps ==
  ASSUME Inv, NEW p \in Proc, RunFails(p) \/ Truncate(p) \/ Record(p) \/ Forget(p) \/ Die(p)
  PROVE  Inv'
<1>1. /\ call[p] \in Calls /\ next \in Nat /\ holder \in Proc \cup {Nobody}
      /\ failures \subseteq Nat \X Commands
      /\ incident \in (Nat \X Commands) \cup {NoFile, Torn}
  BY StepType DEF Inv, TypeOK
<1>2. UNCHANGED <<snapshot, acked, replaced, pairs>>
  BY DEF RunFails, Truncate, Record, Forget, Die, files, history
<1>3. Observed(p) /\ IncidentReal
  BY DEF Inv
<1>4. CASE RunFails(p)
  <2>1. PICK cmd \in Commands : /\ Become(p, [step |-> "truncate", op |-> "load", engine |-> <<>>,
                                           event |-> next, command |-> cmd])
                                /\ failures' = failures \cup {<<next, cmd>>}
    BY <1>4 DEF RunFails
  <2> DEFINE c == [step |-> "truncate", op |-> "load", engine |-> <<>>,
                    event |-> next, command |-> cmd]
  <2>2. <<>> \in Seq(Nat)
    OBVIOUS
  <2>3. /\ c \in Calls /\ c.step = "truncate" /\ c.op = "load" /\ c.event = next
        /\ c.command = cmd
    BY <1>1, <2>2 DEF Calls
  <2>4. next' = next + 1 /\ UNCHANGED <<holder, incident>>
    BY <1>4 DEF RunFails, NewEvent, files
  <2> HIDE DEF c
  <2>5. QuietCall(p, c)  BY <2>1, <2>3 DEF QuietCall, UnderLock
  <2>6. QuietShared(p)
    <3>1. failures \subseteq failures'  BY <2>1
    <3> QED  BY <3>1, <1>2, <1>3, <2>4 DEF QuietShared, IncidentReal
  <2>7. SharedType
    <3>1. failures' \subseteq Nat \X Commands  BY <1>1, <2>1
    <3> QED  BY <3>1, <1>1, <2>4 DEF SharedType
  <2>8. Become(p, c)  BY <2>1 DEF c
  <2> QED  BY <2>3, <2>5, <2>6, <2>7, <2>8, QuietStep
<1>5. CASE Truncate(p)
  <2> DEFINE c == [call[p] EXCEPT !.step = "record"]
  <2>1. /\ Become(p, c) /\ incident' = Torn /\ call[p].step = "truncate"
        /\ UNCHANGED <<holder, next, failures>>
    BY <1>5 DEF Truncate, Goto, At, history
  <2>2. /\ c \in Calls /\ c.step = "record" /\ c.op = call[p].op
        /\ c.event = call[p].event /\ c.command = call[p].command
    BY <1>1, Moved
  <2> HIDE DEF c
  <2>3. QuietCall(p, c)  BY <2>1, <2>2, <1>3 DEF QuietCall, UnderLock, Observed
  <2>4. QuietShared(p)  BY <2>1, <1>2 DEF QuietShared
  <2>5. SharedType  BY <2>1, <1>1 DEF SharedType
  <2> QED  BY <2>1, <2>2, <2>3, <2>4, <2>5, QuietStep
<1>6. CASE Record(p)
  <2>1. /\ Become(p, Idle) /\ call[p].step = "record" /\ UNCHANGED <<holder, next, failures>>
        /\ incident' \in {<<call[p].event, call[p].command>>, Torn}
    BY <1>6 DEF Record, At, history
  <2>2. <<call[p].event, call[p].command>> \in failures
    BY <2>1, <1>3 DEF Observed
  <2>3. incident' \in (Nat \X Commands) \cup {Torn}  BY <2>1, <2>2, <1>1
  <2>4. QuietShared(p)  BY <2>1, <2>2, <1>2 DEF QuietShared
  <2>5. SharedType  BY <2>1, <2>3, <1>1 DEF SharedType
  <2> QED  BY <2>1, <2>4, <2>5, IdleStep
<1>7. CASE Forget(p)
  <2>1. /\ call' = [q \in Proc |-> IF q = p \/ At(q, "record") THEN Idle ELSE call[q]]
        /\ incident' = NoFile /\ UNCHANGED <<holder, next, failures>>
    BY <1>7 DEF Forget, history
  <2>2. QuietShared(p)  BY <2>1, <1>2 DEF QuietShared
  <2>3. SharedType  BY <2>1, <1>1 DEF SharedType
  <2>4. Idle \in Calls /\ \A q \in Proc : call[q] \in Calls  BY StepType DEF Inv
  <2>5. /\ call' \in [Proc -> Calls] /\ call'[p] = Idle
        /\ \A q \in Proc : q # p => call'[q] \in {call[q], Idle}
    BY <2>1, <2>4
  <2>6. QuietCall(p, Idle)
    <3>1. Idle.step = "idle" /\ Idle.op = "load"  BY DEF Idle
    <3> QED  BY <3>1 DEF QuietCall, UnderLock
  <2> QED  BY <2>2, <2>3, <2>4, <2>5, <2>6, QuietOthers
<1>8. CASE Die(p)
  <2>1. /\ Become(p, Idle) /\ UNCHANGED <<incident, next, failures>>
        /\ (holder' = holder \/ (holder' = Nobody /\ holder = p))
    BY <1>8 DEF Die, files, history
  <2>2. QuietShared(p)  BY <2>1, <1>2, <1>3 DEF QuietShared, IncidentReal
  <2>3. SharedType  BY <2>1, <1>1 DEF SharedType
  <2> QED  BY <2>1, <2>2, <2>3, IdleStep
<1> QED
  BY <1>4, <1>5, <1>6, <1>7, <1>8

(* The rename publishes what only its own process can have worked on.      *)
LEMMA RenameStep ==
  ASSUME Inv, NEW p \in Proc, Rename(p)
  PROVE  Inv'
<1> DEFINE c == [call[p] EXCEPT !.step = "unlock"]
<1>1. /\ Become(p, c) /\ call[p].step = "rename" /\ snapshot' = call[p].engine
      /\ UNCHANGED <<holder, incident, next, acked, failures>>
      /\ replaced' = (replaced \/ call[p].op = "sync" \/ (call[p].op = "init" /\ snapshot # NoFile))
  BY DEF Rename, Goto, At
<1>2. /\ call[p] \in Calls
      /\ call[p].engine \in Seq(Nat) /\ call[p].event \in Nat
  BY StepType, CallFields DEF Inv
<1>3. /\ c \in Calls /\ c.step = "unlock" /\ c.op = call[p].op
      /\ c.event = call[p].event /\ c.command = call[p].command
  BY <1>2, Moved
<1> HIDE DEF c
<1>4. call' \in [Proc -> Calls] /\ call'[p] = c /\ \A q \in Proc : q # p => call'[q] = call[q]
  BY <1>1, <1>3, BecomeOne DEF Inv
<1>5. holder = p /\ \A q \in Proc : q # p => call[q].step \notin UnderLock
  BY <1>1, SnapshotAssumption DEF Inv, LockHeld, UnderLock
<1>6. Contents \in Seq(Nat) /\ Contents' = call[p].engine
  BY <1>1, <1>2, ContentsType, SnapshotAssumption DEF Inv, Contents
<1>7. call[p].op = "pair" => <<call[p].event, call[p].command>> \in failures
  BY DEF Inv, Observed
<1>8. pairs' \subseteq failures
  <2>1. CASE call[p].op = "pair"
    <3>1. pairs' = pairs \cup {<<call[p].event, call[p].command>>}  BY <2>1 DEF Rename
    <3> QED  BY <3>1, <2>1, <1>7 DEF Inv, PairObserved
  <2>2. CASE call[p].op # "pair"
    <3>1. pairs' = pairs  BY <2>2 DEF Rename
    <3> QED  BY <3>1 DEF Inv, PairObserved
  <2> QED  BY <2>1, <2>2
<1>9. ~replaced' => Held \subseteq Held' /\ (call[p].op = "ingest" => call[p].event \in Held')
  <2> SUFFICES ASSUME ~replaced'
               PROVE  Held \subseteq Held' /\ (call[p].op = "ingest" => call[p].event \in Held')
    OBVIOUS
  <2>1. ~replaced /\ call[p].op # "sync" /\ ~(call[p].op = "init" /\ snapshot # NoFile)  BY <1>1
  <2>2. CASE call[p].op = "init"
    <3>1. Contents = <<>>  BY <2>1, <2>2 DEF Contents
    <3>2. DOMAIN Contents = {}  BY <3>1
    <3>3. Held = {}  BY <3>2 DEF Held
    <3> QED  BY <2>2, <3>3
  <2>3. CASE call[p].op # "init"
    <3>1. Contents' = Append(Contents, call[p].event)
      BY <2>1, <2>3, <1>1, <1>6 DEF Inv, Extends, Brings
    <3> DEFINE t == Append(Contents, call[p].event)
    <3>2. {t[i] : i \in DOMAIN t} = {Contents[i] : i \in DOMAIN Contents} \cup {call[p].event}
      BY <1>2, <1>6, AppendHolds
    <3>3. Contents' = t
      BY <3>1
    <3> HIDE DEF t
    <3>4. Held' = {t[i] : i \in DOMAIN t}
      BY <3>3 DEF Held
    <3>5. Held' = Held \cup {call[p].event}
      BY <3>2, <3>4 DEF Held
    <3> QED  BY <3>5
  <2> QED  BY <2>2, <2>3
<1>10. TypeOK'
  <2>1. failures \subseteq Nat \X Commands /\ replaced \in BOOLEAN  BY DEF Inv, TypeOK
  <2>2. pairs' \subseteq Nat \X (Commands \cup {None})  BY <2>1, <1>8
  <2>3. replaced' \in BOOLEAN  BY <1>1
  <2> QED  BY <2>2, <2>3, <1>1, <1>2, <1>4 DEF Inv, TypeOK
<1>11. LockHeld'
  BY <1>1, <1>4, <1>5 DEF LockHeld
<1>12. ASSUME NEW q \in Proc PROVE Extends(q)' /\ Arrived(q)' /\ Observed(q)'
  <2>1. CASE q = p
    <3>1. Extends(q)'  BY <2>1, <1>3, <1>4 DEF Extends
    <3>2. Arrived(q)'  BY <2>1, <1>3, <1>4, <1>9 DEF Arrived
    <3>3. Observed(q)'  BY <2>1, <1>1, <1>3, <1>4, <1>7 DEF Observed
    <3> QED  BY <3>1, <3>2, <3>3
  <2>2. CASE q # p
    <3>1. call'[q] = call[q] /\ call[q].step \notin UnderLock  BY <2>2, <1>4, <1>5
    <3>2. Extends(q)' /\ Arrived(q)'  BY <3>1 DEF Extends, Arrived, UnderLock
    <3>3. Observed(q)'  BY <3>1, <1>1 DEF Inv, Observed
    <3> QED  BY <3>2, <3>3
  <2> QED  BY <2>1, <2>2
<1>13. IncidentReal'  BY <1>1 DEF Inv, IncidentReal
<1>14. AckedIngested'  BY <1>1, <1>9 DEF Inv, AckedIngested
<1>15. PairObserved'  BY <1>1, <1>8 DEF PairObserved
<1> QED
  BY <1>10, <1>11, <1>12, <1>13, <1>14, <1>15 DEF Inv

(* The acknowledgement comes while the event is in the snapshot.           *)
LEMMA UnlockStep ==
  ASSUME Inv, NEW p \in Proc, Unlock(p)
  PROVE  Inv'
<1> DEFINE c == After(p)
<1>1. /\ Become(p, c) /\ call[p].step = "unlock" /\ holder' = Nobody
      /\ UNCHANGED <<snapshot, incident, next, replaced, failures, pairs>>
      /\ acked' = IF call[p].op = "ingest" THEN acked \cup {call[p].event} ELSE acked
  BY DEF Unlock, At, files
<1>2. c \in Calls /\ call[p] \in Calls /\ call[p].event \in Nat
  BY StepType, CallFields DEF Inv
<1>3. /\ c.step \in {"idle", "forget"}
      /\ c.op = "pair" => call[p].op = "pair" /\ c.event = call[p].event /\ c.command = call[p].command
  <2>1. CASE call[p].op = "pair"
    <3>1. c = [call[p] EXCEPT !.step = "forget"]  BY <2>1 DEF After
    <3> QED  BY <3>1, <2>1, <1>2, Moved
  <2>2. CASE call[p].op # "pair"
    <3>1. c.step = "idle" /\ c.op = "load"  BY <2>2 DEF After, Idle
    <3> QED  BY <3>1
  <2> QED  BY <2>1, <2>2
<1> HIDE DEF c
<1>4. call' \in [Proc -> Calls] /\ call'[p] = c /\ \A q \in Proc : q # p => call'[q] = call[q]
  BY <1>1, <1>2, BecomeOne DEF Inv
<1>5. holder = p /\ \A q \in Proc : q # p => call[q].step \notin UnderLock
  BY <1>1, SnapshotAssumption DEF Inv, LockHeld, UnderLock
<1>6. Contents' = Contents /\ Held' = Held
  BY <1>1 DEF Contents, Held
<1>7. ~replaced => acked' \subseteq Held
  <2> SUFFICES ASSUME ~replaced PROVE acked' \subseteq Held
    OBVIOUS
  <2>1. acked \subseteq Held  BY DEF Inv, AckedIngested
  <2>2. call[p].op = "ingest" => call[p].event \in Held  BY <1>1 DEF Inv, Arrived
  <2> QED  BY <2>1, <2>2, <1>1
<1>8. TypeOK'
  <2>1. acked' \subseteq Nat  BY <1>1, <1>2 DEF Inv, TypeOK
  <2> QED  BY <2>1, <1>1, <1>4 DEF Inv, TypeOK
<1>9. LockHeld'
  <2> SUFFICES ASSUME NEW q \in Proc PROVE call'[q].step \notin UnderLock
    BY DEF LockHeld
  <2>1. CASE q = p  BY <2>1, <1>3, <1>4 DEF UnderLock
  <2>2. CASE q # p  BY <2>2, <1>4, <1>5
  <2> QED  BY <2>1, <2>2
<1>10. ASSUME NEW q \in Proc PROVE Extends(q)' /\ Arrived(q)' /\ Observed(q)'
  <2>1. CASE q = p
    <3>1. Extends(q)' /\ Arrived(q)'  BY <2>1, <1>3, <1>4 DEF Extends, Arrived
    <3>2. Observed(q)'  BY <2>1, <1>1, <1>3, <1>4 DEF Inv, Observed
    <3> QED  BY <3>1, <3>2
  <2>2. CASE q # p
    <3>1. call'[q] = call[q] /\ call[q].step \notin UnderLock  BY <2>2, <1>4, <1>5
    <3>2. Extends(q)' /\ Arrived(q)'  BY <3>1 DEF Extends, Arrived, UnderLock
    <3>3. Observed(q)'  BY <3>1, <1>1 DEF Inv, Observed
    <3> QED  BY <3>2, <3>3
  <2> QED  BY <2>1, <2>2
<1>11. IncidentReal' /\ AckedIngested' /\ PairObserved'
  BY <1>1, <1>6, <1>7 DEF Inv, IncidentReal, AckedIngested, PairObserved
<1> QED
  BY <1>8, <1>9, <1>10, <1>11 DEF Inv

(***************************************************************************)
(* Theorems.                                                               *)
(***************************************************************************)
(* The invariant is inductive.                                             *)
LEMMA NextInv == Inv /\ [Next]_vars => Inv'
<1> SUFFICES ASSUME Inv, [Next]_vars PROVE Inv'
  OBVIOUS
<1>1. CASE Next
  <2>1. PICK p \in Proc :
          \/ Ingest(p) \/ LoadCall(p) \/ SyncCall(p) \/ InitCall(p) \/ Timeout(p)
          \/ Acquire(p) \/ LoadEngine(p) \/ WriteTemp(p) \/ Rename(p) \/ Unlock(p) \/ Fail(p)
          \/ RunFails(p) \/ Truncate(p) \/ Record(p) \/ RunSucceeds(p) \/ Forget(p)
          \/ Die(p)
    BY <1>1 DEF Next
  <2> QED  BY <2>1, CallSteps, LockedSteps, RunSteps, RenameStep, UnlockStep
<1>2. CASE UNCHANGED vars
  <2>1. UNCHANGED <<call, holder, snapshot, incident, next, acked, replaced, failures, pairs>>
    BY <1>2 DEF vars, files, history
  <2>2. Contents' = Contents  BY <2>1 DEF Contents
  <2>3. Held' = Held  BY <2>2 DEF Held
  <2>4. TypeOK'  BY <2>1 DEF Inv, TypeOK
  <2>5. LockHeld'  BY <2>1 DEF Inv, LockHeld
  <2>6. ASSUME NEW q \in Proc PROVE Extends(q)' /\ Arrived(q)' /\ Observed(q)'
    <3>1. Extends(q) /\ Arrived(q) /\ Observed(q)  BY DEF Inv
    <3> QED  BY <3>1, <2>1, <2>2, <2>3 DEF Extends, Brings, Arrived, Observed
  <2>7. IncidentReal' /\ AckedIngested' /\ PairObserved'
    BY <2>1, <2>3 DEF Inv, IncidentReal, AckedIngested, PairObserved
  <2> QED  BY <2>4, <2>5, <2>6, <2>7 DEF Inv
<1> QED
  BY <1>1, <1>2

(* Everything said above of the lock, the engines and the incident holds   *)
(* in every reachable state.                                               *)
THEOREM SnapshotInvariant == Spec => []Inv
BY InitInv, NextInv, PTL DEF Spec

(* Whichever processes die at whatever moment, memory.state is absent or a *)
(* complete engine (persistence.rs writes a file of its own and renames).  *)
THEOREM SnapshotTypeCorrect == Spec => []TypeOK
<1>1. Inv => TypeOK  BY DEF Inv
<1> QED  BY <1>1, SnapshotInvariant, PTL

(* What `contextspindle ingest` acknowledged is in the snapshot until a    *)
(* sync or a late init replaces it, for any number of concurrent processes.*)
THEOREM AcksInSnapshot == Spec => []AckedIngested
<1>1. Inv => AckedIngested  BY DEF Inv
<1> QED  BY <1>1, SnapshotInvariant, PTL

(* `contextspindle run` ingests no pair for a failure that did not happen, *)
(* or of another command, although runs share one file without a lock.     *)
THEOREM PairsObserved == Spec => []PairObserved
<1>1. Inv => PairObserved  BY DEF Inv
<1> QED  BY <1>1, SnapshotInvariant, PTL

=============================================================================

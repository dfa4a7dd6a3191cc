------------------------------ MODULE TaskRules ------------------------------
(***************************************************************************)
(* The vocabulary of the durable task ledger of continuum-cli/src/tasks.rs *)
(* and the rules that Store::update applies before it commits a version.   *)
(*                                                                         *)
(* A ledger is a function: its domain is the set of committed task         *)
(* directories and its values are the tasks Store::load returns for them.  *)
(* Texts are kept to what the rules tell apart: goals and criteria are     *)
(* members of small sets, the blocker is "present" or "blank", decisions   *)
(* are counted, an evidence payload is short or long, notes, owner, next   *)
(* action, actor and timestamps are left out.                              *)
(***************************************************************************)
EXTENDS Naturals, Sequences

CONSTANTS
  Ids,         \* task identifiers
  KeyedIds,    \* the identifiers "t-k-<key>" a caller may ask for
  Goals,       \* goal texts (never blank: validate_text requires one)
  Criteria,    \* completion-criteria texts
  NoCriteria,  \* the blank completion criteria
  MaxVersion,  \* the largest version number (u64::MAX in the code)
  None         \* no parent, no key, nobody, nothing

ASSUME RulesAssumption ==
  /\ KeyedIds \subseteq Ids
  /\ None \notin Ids
  /\ NoCriteria \in Criteria
  /\ MaxVersion \in Nat \ {0}

Statuses == {"open", "active", "blocked", "done", "cancelled"}

(* A stored evidence record as parse_bound_evidence reads it: the task and *)
(* the criteria it is bound to.  The SHA-256 of a criteria text stands for *)
(* that text.  task = None is a record that does not parse: a plain string *)
(* of an old ledger, or a malformed evidence://v1/ string.  A record is    *)
(* long if it exceeds MAX_FIELD_BYTES, which the payload bound in it does  *)
(* not.                                                                    *)
Evidence == [task : Ids \cup {None}, criteria : Criteria, long : BOOLEAN]

(* What version 1 records and nothing changes in the history afterwards.   *)
Origin == [goal : Goals, criteria : Criteria, parent : Ids \cup {None}]

Task == [id        : Ids,
         version   : 1..MaxVersion,
         origin    : Origin,
         goal      : Goals,
         criteria  : Criteria,
         status    : Statuses,
         blocker   : BOOLEAN,
         deps      : SUBSET Ids,
         decisions : Nat,
         evidence  : SUBSET Evidence]

(* One item of the change list of Store::update.  <<"invalid">> is an item *)
(* refused by validate_text, validate_status, validate_id or the unknown   *)
(* key arm; <<"evidence", long>> is a fresh payload that gives a record of *)
(* that length, <<"bound", e>> a pre-bound record passed as is, within the *)
(* limit itself; <<"note">> stands for note, owner and next.               *)
Changes ==
  ({"goal"} \X Goals) \cup ({"criteria"} \X Criteria)
    \cup ({"status"} \X Statuses) \cup ({"blocker"} \X BOOLEAN)
    \cup ({"dependency"} \X Ids) \cup ({"evidence"} \X BOOLEAN)
    \cup ({"bound"} \X {e \in Evidence : ~e.long})
    \cup {<<"decision">>, <<"note">>, <<"invalid">>}

-----------------------------------------------------------------------------
(* Reading and writing a ledger.                                           *)

Put(led, t) ==
  [i \in DOMAIN led \cup {t.id} |-> IF i = t.id THEN t ELSE led[i]]

NewTask(id, o) ==
  [id |-> id, version |-> 1, origin |-> o, goal |-> o.goal,
   criteria |-> o.criteria, status |-> "open", blocker |-> FALSE,
   deps |-> {}, decisions |-> 0, evidence |-> {}]

(* The arms of the match over the keys of a change.                        *)
SetGoal(t, g)       == [t EXCEPT !.goal = g]
SetCriteria(t, c)   == [t EXCEPT !.criteria = c]
SetStatus(t, s)     == [t EXCEPT !.status = s]
SetBlocker(t, b)    == [t EXCEPT !.blocker = b]
AddDecision(t)      == [t EXCEPT !.decisions = @ + 1]
AddEvidence(t, e)   == [t EXCEPT !.evidence = @ \cup {e}]
AddDependency(t, d) == [t EXCEPT !.deps = @ \cup {d}]
NextVersion(t)      == [t EXCEPT !.version = @ + 1]

(* bind_evidence: the record a fresh payload becomes.  The prefix, the two *)
(* bindings and the escapes come on top of what validate_text has measured.*)
Bound(t, long) == [task |-> t.id, criteria |-> t.criteria, long |-> long]

-----------------------------------------------------------------------------
(* The rules of an update.                                                 *)

ItemsOf(changes) == {changes[i] : i \in DOMAIN changes}

LongEvidence == <<"evidence", TRUE>>

HasLongEvidence(changes) == LongEvidence \in ItemsOf(changes)

HasDecision(changes) == <<"decision">> \in ItemsOf(changes)

NeedsDecision(changes) ==
  \E c \in ItemsOf(changes) :
    c[1] \in {"goal", "criteria"} \/ c = <<"status", "cancelled">>

Revised(old, new) ==
  \/ new.goal # old.goal
  \/ new.criteria # old.criteria
  \/ new.status = "cancelled" /\ old.status # "cancelled"

(* The search of depends_on returns Ok(false): every task it reaches can   *)
(* be loaded and none is the target.  The visited set is closed.           *)
Closed(led, C) ==
  C \subseteq DOMAIN led /\ \A i \in C : led[i].deps \subseteq C

NoPath(led, from, target) ==
  \E C \in SUBSET DOMAIN led : from \in C /\ target \notin C /\ Closed(led, C)

Attested(t) == \E e \in t.evidence : e.task = t.id /\ e.criteria = t.criteria

Finished(led, ids) ==
  \A d \in ids : d \in DOMAIN led /\ led[d].status = "done"

StatusGate(led, t) ==
  /\ t.status = "blocked" => t.blocker
  /\ t.status = "done" =>
       /\ ~t.blocker
       /\ t.criteria # NoCriteria
       /\ Finished(led, t.deps)
       /\ Attested(t)
=============================================================================

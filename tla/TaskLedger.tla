----------------------------- MODULE TaskLedger -----------------------------
(***************************************************************************)
(* What the task ledger promises its callers, whatever the number of       *)
(* processes and wherever they die: tasks are created and revised one      *)
(* atomic version at a time, and every version is justified by the version *)
(* it replaces and by the ledger at the moment it is committed.            *)
(* TaskStore implements this specification.                                *)
(***************************************************************************)
EXTENDS TaskRules

VARIABLE ledger

Init == ledger = [i \in {} |-> None]

(* A new task has its own identifier, version 1 and an existing parent.    *)
Create(id) ==
  /\ id \in Ids \ DOMAIN ledger
  /\ \E o \in Origin :
       /\ o.parent # None => o.parent \in DOMAIN ledger
       /\ ledger' = Put(ledger, NewTask(id, o))

(* Nothing recorded is dropped, and a changed goal, changed criteria or a  *)
(* cancellation comes with a decision.                                     *)
Extends(old, new) ==
  /\ new.id = old.id
  /\ new.version = old.version + 1
  /\ new.origin = old.origin
  /\ old.deps \subseteq new.deps
  /\ old.evidence \subseteq new.evidence
  /\ new.decisions >= old.decisions
  /\ Revised(old, new) => new.decisions > old.decisions

Revise(id) ==
  /\ id \in DOMAIN ledger
  /\ LET t == ledger'[id] IN
       /\ t \in Task
       /\ Extends(ledger[id], t)
       /\ \A d \in t.deps \ ledger[id].deps : NoPath(ledger, d, id)
       /\ StatusGate(ledger, t)
       /\ ledger' = Put(ledger, t)

Next == \E id \in Ids : Create(id) \/ Revise(id)

Spec == Init /\ [][Next]_ledger
=============================================================================

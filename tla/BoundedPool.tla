----------------------------- MODULE BoundedPool -----------------------------
(***************************************************************************)
(* What a user of ContinuumEngine is promised about the events themselves: *)
(* the engine keeps a pool of a fixed number of slots.  Every event it     *)
(* accepts is kept; while a slot is free nothing is forgotten, afterwards  *)
(* each event replaces exactly one older one.  A saved pool comes back     *)
(* whole.                                                                  *)
(***************************************************************************)
EXTENDS Naturals, FiniteSets

CONSTANT Nothing  \* no pool has been saved

VARIABLES
  slots,  \* the number of slots, fixed
  next,   \* events accepted, and the identifier of the next one
  kept,   \* identifiers of the events in the pool
  saved   \* the saved pool

vars == <<slots, next, kept, saved>>

Init ==
  /\ slots \in Nat
  /\ next = 0
  /\ kept = {}
  /\ saved = Nothing

Accept ==
  /\ next' = next + 1
  /\ IF Cardinality(kept) < slots
     THEN kept' = kept \cup {next}
     ELSE \E victim \in kept : kept' = (kept \ {victim}) \cup {next}
  /\ UNCHANGED saved

Save ==
  /\ saved' = [next |-> next, kept |-> kept]
  /\ UNCHANGED <<next, kept>>

(* A reset, or the end of the process: the pool is lost, and with it the   *)
(* saved pool if the process was writing one.                              *)
Lose ==
  /\ next' = 0
  /\ kept' = {}
  /\ saved' \in {saved, Nothing}

Load ==
  /\ saved # Nothing
  /\ next' = saved.next
  /\ kept' = saved.kept
  /\ UNCHANGED saved

Next == UNCHANGED slots /\ (Accept \/ Save \/ Lose \/ Load)

Spec == Init /\ [][Next]_vars
=============================================================================

--------------------------- MODULE DurableHistory ---------------------------
(* What a task directory promises: a history of updates that only grows,   *)
(* except that a power loss may cut an end nobody was told of.             *)
EXTENDS Naturals, SequencesExt

CONSTANT Updates

VARIABLES
  log,    \* the committed updates, oldest first
  acked   \* the longest history a writer was told is committed

Init == log = <<>> /\ acked = <<>>

Extend == \E u \in Updates : log' = Append(log, u) /\ UNCHANGED acked

Acknowledge == acked' = log /\ UNCHANGED log

Lose ==
  /\ \E n \in Len(acked)..Len(log) : log' = SubSeq(log, 1, n)
  /\ UNCHANGED acked

Next == Extend \/ Acknowledge \/ Lose

Spec == Init /\ [][Next]_<<log, acked>>
=============================================================================

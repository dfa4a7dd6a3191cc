--------------------------- MODULE ContinuumEngine ---------------------------
(***************************************************************************)
(* ContinuumEngine (continuum/api.py): the recurrent state, the two banks  *)
(* of AdaptiveMemory and a checkpoint file.  The engine observes, and      *)
(* sends what the hot bank rejects to the archive; it never restores, its  *)
(* revision scores are for queries only.                                   *)
(***************************************************************************)
EXTENDS AdaptiveMemory

VARIABLES
  h,    \* h_state, by the number of inputs folded into it since Zeros
  file  \* the checkpoint

Engine == conf.client # "direct"

(* No checkpoint, and one a crash cut short.                               *)
NoFile == [status |-> "none"]
Torn == [status |-> "torn"]

Saved == file \notin {NoFile, Torn}

EngineInit ==
  /\ MemoryInit
  /\ h = Zeros
  /\ file = NoFile

(* TemporalState.step: the next state, known by the inputs folded into it. *)
Folded(state) == state + 1

(* Fault: what the hot bank rejects is dropped.                            *)
StepDropsRejected(kind) ==
  /\ MoreEvents
  /\ h' = Folded(h)
  /\ \E imp \in Importance :
       Keep(kind, imp, Folded(h)) \/ (Discard(imp, Folded(h)) /\ UNCHANGED cold)
  /\ UNCHANGED <<pending, file>>

(* step.  A vector of the wrong size or one that is not finite is refused  *)
(* by _format_tensor or by the temporal model, before anything changes.    *)
Step(kind) ==
  /\ MoreEvents
  /\ h' = Folded(h)
  /\ \E imp \in Importance :
       \/ Keep(kind, imp, Folded(h))
       \/ /\ Discard(imp, Folded(h))
          /\ cold' \in Archived(cold, conf.coldCap, conf.diverse,
                                [id |-> steps, kind |-> kind, imp |-> imp, state |-> Folded(h)])
  /\ UNCHANGED <<pending, file>>

(* query reads only: what it scores, the archive and then the hot bank.  A *)
(* hot record without a state of its own is given the query's.             *)
QueryCandidates ==
  cold.recs \o [i \in DOMAIN hot.recs |->
    [Candidate(hot, i) EXCEPT !.state =
       IF hot.recs[i].id \in DOMAIN hot.states THEN @ ELSE Folded(h)]]

(* reset                                                                   *)
Fresh ==
  /\ h' = Zeros
  /\ hot' = EmptyHot
  /\ cold' = EmptyCold
  /\ steps' = 0
  /\ UNCHANGED pending

Reset == steps > 0 /\ Fresh /\ UNCHANGED file

(* Fault: the states of the hot records are not saved.                     *)
SaveWithoutStates ==
  /\ file' = [status |-> "whole", steps |-> steps, h |-> h,
              hot |-> Hot(hot.recs, hot.rows, hot.access, <<>>, Zeros), cold |-> cold]
  /\ UNCHANGED <<memory, steps, h>>

(* save: the file holds every list, but not last_state.                    *)
Save ==
  /\ file' = [status |-> "whole", steps |-> steps, h |-> h,
              hot |-> WithLast(hot, Zeros), cold |-> cold]
  /\ UNCHANGED <<memory, steps, h>>

(* The process dies while torch.save writes over the checkpoint; a new     *)
(* process begins with a new engine.                                       *)
CrashInSave == Fresh /\ file' = Torn

(* load, in this process or in the next one: a new engine with the file's  *)
(* lists.  A torn file raises.                                             *)
Load ==
  /\ Saved
  /\ steps' = file.steps
  /\ h' = file.h
  /\ hot' = file.hot
  /\ cold' = file.cold
  /\ UNCHANGED <<pending, file>>

EngineNext ==
  /\ UNCHANGED conf
  /\ \/ \E kind \in Kinds : Step(kind)
     \/ Reset
     \/ conf.saving /\ (Save \/ CrashInSave \/ Load)
=============================================================================

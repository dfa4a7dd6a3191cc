----------------------------- MODULE NativeEngine -----------------------------
(***************************************************************************)
(* RustNativeEngine (continuum/native.py), the same engine behind the C    *)
(* interface of continuum-core, and the tool that feeds it a conversation  *)
(* transcript and asks it (tools/query_conversation_memory.py).            *)
(*                                                                         *)
(* The Rust core (engine.rs, hot_memory.rs, cold_memory.rs) takes the same *)
(* decisions in the same order as step of the Python engine, so that its   *)
(* banks are those of ContinuumEngine.  The wrapper adds a step count of   *)
(* its own, and an atomic save in place of torch.save.                     *)
(***************************************************************************)
EXTENDS ContinuumEngine

CONSTANTS
  Missing,  \* no attribute step_count
  Closed    \* the tool is not running

ASSUME NativeAssumption == Missing \notin Nat /\ Closed \notin Nat

VARIABLES
  counted,     \* step_count of the wrapper
  transcript,  \* lines in the transcript; line n has step_index n
  pos,         \* the next line the running tool reads
  known,       \* current_steps: lines the tool takes for known
  news,        \* new_turns
  trace,       \* history: what the tool made of the lines it has read
  traceSaved   \* history: the trace of the snapshot

trail == <<trace, traceSaved>>
native == <<counted, transcript, pos, known, news, trail>>

(* The lines fed to a memory, by event, and the lines passed over.         *)
Trace == [fed : Seq(Nat), passed : SUBSET Nat]
NoTrace == [fed |-> <<>>, passed |-> {}]

NativeInit ==
  /\ EngineInit
  /\ counted = 0
  /\ transcript = 0
  /\ pos = Closed
  /\ known = 0
  /\ news = 0
  /\ trace = NoTrace
  /\ traceSaved = NoTrace

(* step with a timestamp.  The core steps first; the count comes after, so *)
(* that without the attribute the event is in and AttributeError comes out.*)
NativeStep(kind) ==
  /\ counted # Missing
  /\ Step(kind)
  /\ counted' = counted + 1

NativeStepRaises(kind) ==
  /\ counted = Missing
  /\ Step(kind)
  /\ UNCHANGED counted

(* save: the core renames a complete file into place, under its lock.      *)
NativeSave == Save

(* load makes the object without __init__ and never sets step_count.       *)
NativeLoad == Load /\ counted' = Missing

(* A new process; there is no reset.                                       *)
NativeCreate == Fresh /\ counted' = 0 /\ UNCHANGED file

NativeNext ==
  /\ UNCHANGED <<conf, transcript, pos, known, news, trail>>
  /\ \/ \E kind \in Kinds : NativeStep(kind) \/ NativeStepRaises(kind)
     \/ NativeSave /\ UNCHANGED counted
     \/ NativeLoad
     \/ NativeCreate

(***************************************************************************)
(* The tool: every invocation is a process of its own.                     *)
(***************************************************************************)
AppendLine ==
  /\ transcript < conf.horizon
  /\ transcript' = transcript + 1
  /\ UNCHANGED <<memory, steps, h, file, counted, pos, known, news, trail>>

Open ==
  /\ pos = Closed
  /\ IF file = NoFile THEN NativeCreate ELSE NativeLoad
  /\ pos' = 0
  /\ known' = steps'
  /\ news' = 0
  /\ trace' = IF file = NoFile THEN NoTrace ELSE traceSaved
  /\ UNCHANGED <<transcript, traceSaved>>

Line == pos # Closed /\ pos < transcript /\ pos' = pos + 1

ReadKnown ==
  /\ Line
  /\ pos < known
  /\ UNCHANGED <<memory, steps, h, file, counted, transcript, known, news, trail>>

(* The line is stepped.  If step raises after the core has the event, the  *)
(* line is fed but not counted as new.                                     *)
Feed ==
  /\ \E kind \in Kinds :
       \/ NativeStep(kind) /\ news' = news + 1
       \/ NativeStepRaises(kind) /\ UNCHANGED news
  /\ trace' = [trace EXCEPT !.fed = Append(@, pos)]

(* What fails before the core step (parsing, embedding, a refusal of the   *)
(* core) is passed over as well, and gives no event: from then on the      *)
(* events are fewer than the lines.                                        *)
PassOver ==
  /\ trace' = [trace EXCEPT !.passed = @ \cup {pos}]
  /\ UNCHANGED <<memory, steps, h, file, counted, news>>

(* Fault: every line is stepped, known or not.                             *)
ReadEvery == Line /\ (Feed \/ PassOver) /\ UNCHANGED <<transcript, known, traceSaved>>

(* A line the memory does not know yet: its index is not below the count   *)
(* of events the tool began with.                                          *)
ReadNew ==
  /\ Line
  /\ pos >= known
  /\ Feed \/ PassOver
  /\ UNCHANGED <<transcript, known, traceSaved>>

(* At the end of the transcript the tool saves, if it counted a new line,  *)
(* and then answers from the engine it has.                                *)
Answer ==
  /\ pos = transcript
  /\ pos' = Closed
  /\ IF news > 0
     THEN NativeSave /\ traceSaved' = trace
     ELSE UNCHANGED <<memory, steps, h, file, traceSaved>>
  /\ UNCHANGED <<counted, transcript, known, news, trace>>

(* An invocation that is killed leaves the snapshot as it was.             *)
Kill ==
  /\ pos # Closed
  /\ pos' = Closed
  /\ UNCHANGED <<memory, steps, h, file, counted, transcript, known, news, trail>>

ToolNext ==
  /\ UNCHANGED conf
  /\ AppendLine \/ Open \/ ReadKnown \/ ReadNew \/ Answer \/ Kill
=============================================================================

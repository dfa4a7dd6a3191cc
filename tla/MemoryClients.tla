---------------------------- MODULE MemoryClients ----------------------------
(***************************************************************************)
(* The memory of the Python package with each of its clients: a program    *)
(* that drives AdaptiveMemory itself, one that uses ContinuumEngine, one   *)
(* that uses the native engine, the transcript tool, and the chat history  *)
(* of continuum/integrations/langchain.py on top of an engine, which the   *)
(* configured backend makes a Python or a native one.  A behaviour has one *)
(* client, the one its configuration names.                                *)
(***************************************************************************)
EXTENDS NativeEngine

CONSTANTS
  Refused,     \* a message that gave no event
  MaxRefused,  \* bound: refused messages in a history
  Nothing      \* no saved pool, see BoundedPool

ASSUME ClientsAssumption ==
  /\ MaxRefused \in Nat
  /\ Refused \notin Nat
  /\ Nothing \notin [next : Nat, kept : SUBSET Nat]

VARIABLE messages  \* _raw_messages, by the event each one became

vars == <<conf, hot, cold, pending, steps, h, file, native, messages>>

Init == NativeInit /\ messages = <<>>

(* add_message appends first; embed_fn or step may raise after that.       *)
AddMessage ==
  /\ messages' = Append(messages, steps)
  /\ \E kind \in Kinds : IF conf.client = "chat" THEN Step(kind) /\ UNCHANGED counted
                         ELSE NativeStep(kind)

AddMessageRaises ==
  /\ Cardinality({i \in DOMAIN messages : messages[i] = Refused}) < MaxRefused
  /\ messages' = Append(messages, Refused)
  /\ UNCHANGED <<memory, steps, h, file, counted>>

(* Fault: the engine behind the history is not reset.                      *)
ClearMessagesOnly ==
  /\ messages # <<>>
  /\ messages' = <<>>
  /\ UNCHANGED <<memory, steps, h, file, counted>>

(* clear empties the messages and then the engine.                         *)
ClearChat ==
  /\ conf.client = "chat"
  /\ messages # <<>>
  /\ messages' = <<>>
  /\ Fresh
  /\ UNCHANGED <<file, counted>>

(* A native engine has no reset: AttributeError, and the events stay.      *)
ClearChatRaises ==
  /\ conf.client = "native_chat"
  /\ messages # <<>>
  /\ messages' = <<>>
  /\ UNCHANGED <<memory, steps, h, file, counted>>

ChatNext ==
  /\ UNCHANGED <<conf, transcript, pos, known, news, trail>>
  /\ AddMessage \/ AddMessageRaises \/ ClearChat \/ ClearChatRaises

Next ==
  \/ conf.client = "direct" /\ DirectNext /\ UNCHANGED <<h, file, native, messages>>
  \/ conf.client = "engine" /\ EngineNext /\ UNCHANGED <<native, messages>>
  \/ conf.client = "native" /\ NativeNext /\ UNCHANGED messages
  \/ conf.client = "tool" /\ ToolNext /\ UNCHANGED messages
  \/ conf.client \in {"chat", "native_chat"} /\ ChatNext

Spec == Init /\ [][Next]_vars

(***************************************************************************)
(* Properties.                                                             *)
(***************************************************************************)
(* The banks hold what their fields are declared to hold, and the rows of  *)
(* a matrix and the access times stay in step with the records.            *)
Aligned(bank) == bank.rows = [i \in DOMAIN bank.recs |-> bank.recs[i].kind]

TypeOK ==
  /\ conf \in Confs
  /\ hot.recs \in Seq(HotRecord) /\ Aligned(hot)
  /\ hot.access \in [DOMAIN hot.recs -> Nat]
  /\ hot.last \in Nat
  /\ \A id \in DOMAIN hot.states : hot.states[id] \in Nat
  /\ cold.recs \in Seq(ColdRecord) /\ Aligned(cold)
  /\ pending \in Seq(ColdRecord)
  /\ steps \in Nat /\ h \in Nat
  /\ messages \in Seq(Nat \cup {Refused})
  /\ counted \in Nat \cup {Missing}
  /\ transcript \in Nat /\ known \in Nat /\ news \in Nat
  /\ pos \in 0..transcript \cup {Closed}
  /\ trace \in Trace /\ traceSaved \in Trace

Retained == Ids(hot) \cup Ids(cold)

(* No event is held twice, in one bank or in both, whatever evictions,     *)
(* restorations, resets and loads came before; and no identifier that a    *)
(* later event will get is in use.  query would return the event twice and *)
(* remove would take the wrong one.                                        *)
EachEventOnce ==
  /\ IsInjective([i \in DOMAIN hot.recs |-> hot.recs[i].id])
  /\ IsInjective([i \in DOMAIN cold.recs |-> cold.recs[i].id])
  /\ Ids(hot) \cap Ids(cold) = {}
  /\ \A i \in DOMAIN pending : pending[i].id \notin Ids(hot)
  /\ \A id \in Retained : id < steps

(* A memory with a fixed budget never holds more than its capacity, also   *)
(* while a revision restores; the archive neither, except that one of      *)
(* capacity 0 holds one record.                                            *)
Bounded ==
  /\ conf.mode = "fixed_budget" => Len(hot.recs) <= conf.hotCap
  /\ Len(cold.recs) <= Max({1, conf.coldCap})

(* States are kept for hot records only (a state that outlives its record  *)
(* would be a leak, and would be given to another event), and each is the  *)
(* state its own event led to.  Under an engine every record that a query  *)
(* scores carries such a state, also after a load.                         *)
FingerprintOwn ==
  /\ DOMAIN hot.states \subseteq Ids(hot)
  /\ Engine => \A i \in DOMAIN QueryCandidates :
                 QueryCandidates[i].state = QueryCandidates[i].id + 1
  /\ \A id \in DOMAIN hot.states : hot.states[id] = id + 1

(* The diversified archive protects unique events from a storm: as long as *)
(* it holds fewer kinds than it has slots, making room takes one of two    *)
(* events of one kind, and no kind is lost, be it near to others or not.   *)
(* Only the candidate of a restoration may take its kind along.            *)
StormSafe ==
  [][ (conf.diverse /\ steps' > 0 /\ ~Load /\ Cardinality(ToSet(cold.rows)) < conf.coldCap) =>
        \A kind \in ToSet(cold.rows) \ ToSet(cold'.rows) :
          pending # <<>> /\ kind = Head(pending).kind ]_vars

(* An event is forgotten only to make room: when a step drops one, the hot *)
(* bank and the archive were both full.  A client that passes no archive,  *)
(* or clears its bank, asks for the loss.                                  *)
Held == Retained \cup {pending[i].id : i \in DOMAIN pending}

LossOnlyWhenFull ==
  [][ (~(Held \subseteq Held') /\ steps' > 0 /\ hot' # EmptyHot /\ conf.archive /\ ~Load) =>
      Full(hot) /\ Len(cold.recs) >= conf.coldCap ]_vars

(* The messages of a chat history that gave an event are, in order, the    *)
(* latest events of its engine, across refused messages and clear: none is *)
(* missing in between.  With a Python engine they are all its events; a    *)
(* native one keeps those of messages cleared earlier.                     *)
ChatInStep ==
  conf.client \in {"chat", "native_chat"} =>
    /\ \E first \in 0..steps :
         /\ ToSet(messages) \ {Refused} = first..(steps - 1)
         /\ conf.client = "chat" => first = 0
    /\ \A i, j \in DOMAIN messages :
         (i < j /\ Refused \notin {messages[i], messages[j]}) => messages[i] < messages[j]

(* Every answer of the tool is given by a memory to which no line is new,  *)
(* whatever earlier invocations saved or failed to save: up to the line it *)
(* is at, each line was fed to this memory or passed over by a failure.    *)
(* As long as none was passed over, each was fed once and in order.        *)
TranscriptWhole ==
  pos # Closed =>
    LET lines == IF pos < known THEN known ELSE pos
    IN  /\ Len(trace.fed) = steps
        /\ 0..(lines - 1) \subseteq ToSet(trace.fed) \cup trace.passed
        /\ trace.passed = {} => trace.fed = [i \in 1..lines |-> i - 1]

(* An engine acts as a pool of hot_capacity + cold_capacity slots.         *)
Pool == INSTANCE BoundedPool WITH
  slots <- IF Engine THEN conf.hotCap + Max({1, conf.coldCap}) ELSE 0,
  next  <- IF Engine THEN steps ELSE 0,
  kept  <- IF Engine THEN Retained ELSE {},
  saved <- IF Saved THEN [next |-> file.steps, kept |-> Ids(file.hot) \cup Ids(file.cold)]
           ELSE Nothing

ActsAsPool == Pool!Spec
=============================================================================

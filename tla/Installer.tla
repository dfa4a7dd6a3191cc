------------------------------ MODULE Installer ------------------------------
(***************************************************************************)
(* integrations/codex/install.py: what a run of the installer does to the  *)
(* user's Codex home, where the user owns most of what it touches.  A run  *)
(* may be killed before any write or in the middle of one, and be repeated *)
(* from another checkout; between runs the user edits everything.          *)
(*                                                                         *)
(* A text file is the sequence of its parts.  write_text truncates and     *)
(* then writes, so that a kill leaves the first parts of the new text and  *)
(* perhaps a fragment of the next, Cut.  A fragment that reads as its part *)
(* is that part: register_mcp knows a section of config.toml by its name,  *)
(* the server's by its command.                                            *)
(***************************************************************************)
EXTENDS Naturals, SequencesExt, FiniteSetsExt

CONSTANTS
  Checkouts,  \* versions of the bundled files and of the rule
  Edits,      \* contents a user gives a bundled file
  Texts,      \* a user's own lines in AGENTS.md
  Settings,   \* a user's own sections in config.toml
  Tools,      \* READ_TOOLS
  Absent, Torn, Cut, Start, End, Wrapper, Elsewhere,
  MaxRuns, MaxEdits  \* bounds

(* The parts of a file are told apart, and so are versions of a file.      *)
ASSUME InstallerAssumption ==
  /\ MaxRuns \in Nat /\ MaxEdits \in Nat
  /\ IsFiniteSet(Tools)
  /\ {Absent, Torn} \cap Edits = {} /\ Edits \cap Checkouts = {}
  /\ Texts \cap Checkouts = {}
  /\ Start # End /\ Cut \notin {Start, End}
  /\ {Start, End, Cut} \cap (Texts \cup Checkouts) = {}
  /\ Settings \cap Tools = {}
  /\ Wrapper # Elsewhere /\ Cut \notin {Wrapper, Elsewhere}
  /\ {Wrapper, Elsewhere, Cut} \cap (Settings \cup Tools) = {}

VARIABLES
  pc,        \* what the run does next, "idle" without a run
  checkout,  \* of the run
  skipMcp,   \* --skip-mcp
  files,     \* the installed copies of the bundled files
  backups,   \* <<file, content>> of the dated copies
  agents,    \* AGENTS.md
  config,    \* config.toml
  runs, edits

vars == <<pc, checkout, skipMcp, files, backups, agents, config, runs, edits>>

Files == {"binary", "skill", "wrapper"}
Place(part, text) == CHOOSE i \in DOMAIN text : text[i] = part
Count(part, text) == Cardinality({i \in DOMAIN text : text[i] = part})

(* What a kill in the middle of writing text can leave.                    *)
Cuts(text) ==
  LET whole == {SubSeq(text, 1, n) : n \in 0..(Len(text) - 1)}
  IN  whole \cup {Append(t, Cut) : t \in whole}

Init ==
  /\ pc = "idle"
  /\ checkout \in Checkouts
  /\ skipMcp = FALSE
  /\ files = [f \in Files |-> Absent]
  /\ backups = {}
  /\ agents = <<>>
  /\ config = <<>>
  /\ runs = 0
  /\ edits = 0

(***************************************************************************)
(* A run.  RuntimeErrors and kills both end it where it is: Stop.          *)
(***************************************************************************)
Goto(step) == pc' = step /\ UNCHANGED <<checkout, skipMcp, runs, edits>>

Begin ==
  /\ pc = "idle"
  /\ runs < MaxRuns
  /\ runs' = runs + 1
  /\ checkout' \in Checkouts
  /\ skipMcp' \in BOOLEAN
  /\ pc' = "preserve binary"
  /\ UNCHANGED <<files, backups, agents, config, edits>>

(* Fault: a file that is not there is copied too.                          *)
PreserveAlways(f, here, write) ==
  /\ pc = here
  /\ backups' = IF files[f] = checkout THEN backups ELSE backups \cup {<<f, files[f]>>}
  /\ Goto(write)
  /\ UNCHANGED <<files, agents, config>>

(* Fault: one copy of each file is thought to be enough.                   *)
PreserveOnce(f, here, write) ==
  /\ pc = here
  /\ backups' = IF files[f] \in {Absent, checkout} \/ \E b \in backups : b[1] = f
                THEN backups ELSE backups \cup {<<f, files[f]>>}
  /\ Goto(write)
  /\ UNCHANGED <<files, agents, config>>

(* install_file keeps a copy of what differs and then writes in place.     *)
Preserve(f, here, write) ==
  /\ pc = here
  /\ backups' = IF files[f] \in {Absent, checkout} THEN backups ELSE backups \cup {<<f, files[f]>>}
  /\ Goto(write)
  /\ UNCHANGED <<files, agents, config>>

Write(f, here, next) ==
  /\ pc = here
  /\ \/ files' = [files EXCEPT ![f] = checkout] /\ Goto(next)
     \/ files' = [files EXCEPT ![f] = Torn] /\ Goto("idle")
  /\ UNCHANGED <<backups, agents, config>>

InstallSkill ==
  \/ Preserve("skill", "preserve skill", "write skill")
  \/ Write("skill", "write skill", "preserve wrapper")
  \/ Preserve("wrapper", "preserve wrapper", "write wrapper")
  \/ Write("wrapper", "write wrapper", "rule")

(* With --binary; or cargo builds it and puts it in place.                 *)
InstallBinary ==
  \/ Preserve("binary", "preserve binary", "write binary")
  \/ Write("binary", "write binary", "init")
  \/ /\ pc = "preserve binary"
     /\ files' = [files EXCEPT !["binary"] = checkout]
     /\ Goto("init")
     /\ UNCHANGED <<backups, agents, config>>

(* The binary's init creates the workspace, if there is none yet.          *)
InitWorkspace ==
  /\ pc = "init"
  /\ Goto("preserve skill")
  /\ UNCHANGED <<files, backups, agents, config>>

(***************************************************************************)
(* install_rule.                                                           *)
(***************************************************************************)
Rule == <<Start, checkout, End>>
Marked == Count(Start, agents) + Count(End, agents) > 0

Ambiguous ==
  Marked /\ ~(Count(Start, agents) = 1 /\ Count(End, agents) = 1
              /\ Place(Start, agents) < Place(End, agents))

(* Fault: what follows the section is dropped with it.                     *)
UpdatedToEnd ==
  IF Marked THEN SubSeq(agents, 1, Place(Start, agents) - 1) \o Rule ELSE agents \o Rule

Updated ==
  IF Marked
  THEN SubSeq(agents, 1, Place(Start, agents) - 1) \o Rule
         \o SubSeq(agents, Place(End, agents) + 1, Len(agents))
  ELSE agents \o Rule

InstallRule ==
  /\ pc = "rule"
  /\ ~Ambiguous
  /\ \/ agents' = Updated /\ Goto(IF skipMcp THEN "verify" ELSE "register")
     \/ Updated # agents /\ agents' \in Cuts(Updated) /\ Goto("idle")
  /\ UNCHANGED <<files, backups, config>>

(***************************************************************************)
(* register_mcp.  codex reads nothing from a file with a fragment in it.   *)
(***************************************************************************)
Server == ToSet(config) \cap {Wrapper, Elsewhere}

Register ==
  /\ pc = "register"
  /\ Count(Cut, config) = 0
  /\ \/ Server = {Wrapper} /\ UNCHANGED config
     \/ Server = {} /\ config' = Append(config, Wrapper)
  /\ Goto("approve")
  /\ UNCHANGED <<files, backups, agents>>

(* Fault: sections are added for all tools, configured or not.             *)
AdditionsForAll == SetToSeq(Tools)

(* Fault: nothing is added once a tool is configured.                      *)
AdditionsWhenNew ==
  IF ToSet(config) \cap Tools = {} THEN SetToSeq(Tools) ELSE <<>>

Additions == SetToSeq(Tools \ ToSet(config))

Approve ==
  /\ pc = "approve"
  /\ \/ config' = config \o Additions /\ Goto("verify")
     \/ Additions # <<>> /\ config' \in Cuts(config \o Additions) /\ Goto("idle")
  /\ UNCHANGED <<files, backups, agents>>

(* The wrapper's first call; with it the run succeeds.                     *)
Verify ==
  /\ pc = "verify"
  /\ Goto("idle")
  /\ UNCHANGED <<files, backups, agents, config>>

Stop ==
  /\ pc # "idle"
  /\ pc # "verify"
  /\ Goto("idle")
  /\ UNCHANGED <<files, backups, agents, config>>

Run ==
  \/ Begin \/ InstallBinary \/ InitWorkspace \/ InstallSkill
  \/ InstallRule \/ Register \/ Approve \/ Verify \/ Stop

(***************************************************************************)
(* The user, between runs: edits or removes a bundled file, adds lines to  *)
(* AGENTS.md in any place or keeps only such lines, in any order; adds     *)
(* sections to config.toml, points the server elsewhere, or repairs it.    *)
(***************************************************************************)
EditFile == \E f \in {"skill", "wrapper"}, c \in Edits \cup {Absent} :
  files' = [files EXCEPT ![f] = c] /\ UNCHANGED <<agents, config>>

EditAgents ==
  /\ \/ \E line \in (Texts \cup {Start, End}) \ ToSet(agents), i \in 1..(Len(agents) + 1) :
          agents' = InsertAt(agents, i, line)
     \/ Marked /\ agents' \in SetToSeqs(ToSet(agents) \cap Texts)
  /\ UNCHANGED <<files, config>>

EditConfig ==
  /\ \/ \E s \in (Settings \cup IF Server = {Wrapper} THEN Tools ELSE {}) \ ToSet(config) :
          config' = Append(config, s)
     \/ config' = [i \in DOMAIN config |-> IF config[i] = Wrapper THEN Elsewhere ELSE config[i]]
     \/ config' \in SetToSeqs(ToSet(config) \cap Settings)
  /\ UNCHANGED <<files, agents>>

User ==
  /\ pc = "idle"
  /\ edits < MaxEdits
  /\ edits' = edits + 1
  /\ EditFile \/ EditAgents \/ EditConfig
  /\ UNCHANGED <<pc, checkout, skipMcp, backups, runs>>

Next == Run \/ User

Spec == Init /\ [][Next]_vars

(***************************************************************************)
(* Properties.                                                             *)
(***************************************************************************)
TypeOK ==
  /\ checkout \in Checkouts
  /\ skipMcp \in BOOLEAN
  /\ files \in [Files -> Checkouts \cup Edits \cup {Absent, Torn}]
  /\ backups \subseteq Files \X (Checkouts \cup Edits \cup {Torn})
  /\ agents \in Seq(Texts \cup Checkouts \cup {Start, End, Cut})
  /\ config \in Seq(Settings \cup Tools \cup {Wrapper, Elsewhere, Cut})
  /\ runs \in 0..MaxRuns /\ edits \in 0..MaxEdits

(* The installer never destroys a user's version of a bundled file: one    *)
(* that it replaces, or tears, is in a backup by then, whichever earlier   *)
(* runs were killed and whatever they had saved.                           *)
EditsKept ==
  [][ \A f \in Files : (files[f] \in Edits /\ files'[f] # files[f] /\ pc # "idle") =>
        <<f, files[f]>> \in backups' ]_vars

(* The lines outside the marked section are the user's: a run that gets    *)
(* past AGENTS.md leaves them all, in their order, with one section.       *)
Inside(text, i) ==
  \E s, e \in DOMAIN text : text[s] = Start /\ text[e] = End /\ s < i /\ i < e

OwnPlaces(text) == {i \in DOMAIN text : text[i] \in Texts /\ ~Inside(text, i)}

Own(text) ==
  [lines |-> {text[i] : i \in OwnPlaces(text)},
   order |-> {<<text[p[1]], text[p[2]]>> :
                p \in {q \in OwnPlaces(text) \X OwnPlaces(text) : q[1] < q[2]}}]

TextKept ==
  [][ (pc = "rule" /\ pc' # "idle") =>
        /\ Own(agents') = Own(agents)
        /\ Count(Start, agents') = 1 /\ Count(End, agents') = 1 ]_vars

(* TOML refuses a section that comes twice, and Codex would not start any  *)
(* more: no sequence of runs, kills and the user's own sections makes one. *)
SectionsUnique == \A part \in ToSet(config) : Count(part, config) = 1

(* A run that reports success has installed all of its checkout, the rule  *)
(* and a section for each tool included, also when it continues the work   *)
(* of runs that were killed.                                               *)
SuccessInstalls ==
  pc = "verify" =>
    /\ \A f \in Files : files[f] = checkout
    /\ \E i \in DOMAIN agents : SubSeq(agents, i, i + 2) = Rule
    /\ ~skipMcp => Server = {Wrapper} /\ Tools \subseteq ToSet(config)
=============================================================================

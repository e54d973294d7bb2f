-------------------------- MODULE IncrementalBuild --------------------------
(***************************************************************************)
(* BuildTheCode: the tool that compiles, links and optimises the generated *)
(* C++.  A unit runs a command that writes one target.  It is skipped when *)
(* its command is the saved one and each of its dependencies is older than *)
(* the target or has the saved hash.  Commands and hashes are saved in     *)
(* files of the output directory, one hash file for each dependency and    *)
(* not for each unit, after the units of a stage have run.                 *)
(*                                                                         *)
(* A content is a set: empty for a file that does not exist, else with one *)
(* member, a version for a source file and for a target what it was made   *)
(* from.  A saved hash is the content it was computed from.                *)
(***************************************************************************)
EXTENDS Naturals, Sequences, FiniteSets, Functions

CONSTANTS
  Units, Sources,
  Stages,      \* Stages[k]: the units that run in parallel in stage k
  Patches,     \* Patches[k]: the targets patched in place before stage k
  Given,       \* Given[u]: the dependencies named on the command line
  Reads,       \* Reads[u]: the files its command reads
  Listed,      \* Listed[u]: the files in the .d file that ExpandDepends finds
  Removes,     \* the units whose command removes its target when it fails
  Optioned,    \* the units whose command has the options: not those of llvm-link
  Outcomes,    \* what commands do: "written", "failed", "warned"
  MaxBuilds, MaxEdits

\* The dependencies a unit knows of once it has run.
Seen(u) == Given[u] \cup Listed[u]

\* The stages before stage k save a hash of f.
SeenEarlier(k, f) == \E j \in 1..(k - 1) : \E v \in Stages[j] : f \in Seen(v)

\* A unit may read more than it sees: the .d file of a source in a subdirectory
\* is not found, since the target is named after EscapePath of the whole path.
ASSUME BuildAssumption ==
  /\ Units \cap Sources = {}
  /\ Stages \in Seq(SUBSET Units) /\ Patches \in Seq(SUBSET Units)
  /\ Len(Patches) = Len(Stages) /\ Stages # <<>>
  /\ \A u \in Units : Given[u] # {} /\ Seen(u) \subseteq Reads[u]

\* A unit is of one stage, and reads sources and targets of earlier stages. One
\* file is patched before a stage, a target of an earlier one that no earlier
\* stage reads.
ASSUME StagesInOrder ==
  /\ \A u \in Units : \E k \in DOMAIN Stages : u \in Stages[k]
  /\ \A k, l \in DOMAIN Stages : k # l => Stages[k] \cap Stages[l] = {}
  /\ \A k \in DOMAIN Stages : \A u \in Stages[k] :
       Reads[u] \subseteq Sources \cup UNION {Stages[j] : j \in 1..(k - 1)}
  /\ \A k \in DOMAIN Patches : \A f, g \in Patches[k] : f = g
  /\ \A k \in DOMAIN Patches : \A f \in Patches[k] :
       /\ \E j \in 1..(k - 1) : f \in Stages[j]
       /\ \A j \in 1..(k - 1) : \A u \in Stages[j] : f \notin Reads[u]

\* A unit that keeps its old target when it fails, an llvm-link, is alone in its
\* stage: the others there would save the hashes of what it did not read.
ASSUME KeptAlone ==
  \A k \in DOMAIN Stages : \A u \in Stages[k] \ Removes, v \in Stages[k] : u = v

\* A target is named after its unit.
Files == Units \cup Sources

VARIABLES
  content, mtime, \* of each file
  savedCommand,   \* savedCommand[u]: the .comd file
  savedHash,      \* savedHash[f]: the .hash file
  dfile,          \* dfile[u]: the files listed by the .d file
  options,        \* the options of the command line
  clock,
  stage,          \* the stage the build is in, 0 when no build runs
  status,         \* status[u]: "none", Status, or "hashing" and "updated"
  patched,        \* the patches of this stage are done
  toHash,         \* the files CompletedUpdate has yet to hash
  finished,       \* history: the last build finished, nothing was edited since
  builds, edits

disk == <<content, mtime, savedCommand, savedHash, dfile, clock>>
process == <<stage, status, patched, toHash>>
bounds == <<builds, edits>>
vars == <<disk, options, process, finished, bounds>>

Init ==
  /\ content = [f \in Files |-> IF f \in Sources THEN {1} ELSE {}]
  /\ mtime = [f \in Files |-> 0]
  /\ savedCommand = [u \in Units |-> {}]
  /\ savedHash = [f \in Files |-> {}]
  /\ dfile = [u \in Units |-> {}]
  /\ options = 1
  /\ clock = 0
  /\ stage = 0
  /\ status = [u \in Units |-> "none"]
  /\ patched = FALSE
  /\ toHash = {}
  /\ finished = FALSE
  /\ builds = 0
  /\ edits = 0

\* Every write of a file advances the clock.
Write(f, c) ==
  /\ content' = [content EXCEPT ![f] = c]
  /\ clock' = clock + 1
  /\ mtime' = [mtime EXCEPT ![f] = clock']

-----------------------------------------------------------------------------
(* Between two builds.  An edit makes a content that has not been before.  *)

Between == stage = 0 /\ edits < MaxEdits /\ edits' = edits + 1 /\ finished' = FALSE

Edit(f) ==
  /\ Between
  /\ \E v \in content[f] : Write(f, {v + 1})
  /\ UNCHANGED <<savedCommand, savedHash, dfile, options, process, builds>>

ChangeOptions ==
  /\ Between
  /\ options' = options + 1
  /\ UNCHANGED <<disk, process, builds>>

-----------------------------------------------------------------------------
(* ActionUnit and CompileUnit.                                             *)

\* Mutant: the included files do not count.
GivenOnly(u) == Given[u]

\* What ExpandDepends makes of DependFiles.
DependFiles(u) == Given[u] \cup dfile[u]

\* The command of a unit, as far as it changes.
Command(u) == IF u \in Optioned THEN options ELSE 0

IsCommandChanged(u) == savedCommand[u] # {Command(u)}

IsHashChanged(f) == savedHash[f] = {} \/ savedHash[f] # content[f]

\* Mutant: times alone decide.
NewerOnly(u, f) == content[u] = {} \/ content[f] = {} \/ mtime[f] > mtime[u]

IsFileChanged(u, f) ==
  \/ content[u] = {}
  \/ content[f] = {}
  \/ mtime[f] > mtime[u] /\ IsHashChanged(f)

IsNeedDoAction(u) == IsCommandChanged(u) \/ \E f \in DependFiles(u) : IsFileChanged(u, f)

\* What the command of u makes of the files it reads.
Product(u) == {[command |-> Command(u), from |-> [f \in Reads[u] |-> content[f]], patched |-> FALSE]}

\* The process that runs the command of u, and what CompileUnit and ActionUnit
\* make of its error output; the exit code is not looked at.
DoAction(u, outcome) ==
  \/ /\ outcome \in {"written", "warned"}
     /\ \A f \in Reads[u] : content[f] # {}
     /\ Write(u, Product(u))
     /\ dfile' = [dfile EXCEPT ![u] = Listed[u]]
     /\ status' = [status EXCEPT ![u] = IF outcome = "written" THEN "Completed" ELSE "Error"]
  \/ /\ outcome = "failed"
     /\ content' = IF u \in Removes THEN [content EXCEPT ![u] = {}] ELSE content
     /\ status' = [status EXCEPT ![u] = "Error"]
     /\ UNCHANGED <<mtime, clock, dfile>>

Pending == {u \in Stages[stage] : status[u] = "none"}

Invoke(u) ==
  /\ stage # 0
  /\ patched
  /\ u \in Pending
  /\ IF IsNeedDoAction(u) THEN \E outcome \in Outcomes : DoAction(u, outcome)
     ELSE /\ status' = [status EXCEPT ![u] = "Skipped"]
          /\ UNCHANGED <<content, mtime, clock, dfile>>
  /\ UNCHANGED <<savedCommand, savedHash, options, stage, patched, toHash, finished, bounds>>

\* CompletedUpdate of one unit after the other.
UpdateCommand(u) ==
  /\ stage # 0
  /\ Pending = {}
  /\ status[u] = "Completed"
  /\ \A v \in Units : status[v] # "hashing"
  /\ savedCommand' = [savedCommand EXCEPT ![u] = {Command(u)}]
  /\ toHash' = DependFiles(u)
  /\ status' = [status EXCEPT ![u] = "hashing"]
  /\ UNCHANGED <<content, mtime, savedHash, dfile, clock, options, stage, patched, finished, bounds>>

UpdateHash(u, f) ==
  /\ status[u] = "hashing"
  /\ f \in toHash
  /\ savedHash' = [savedHash EXCEPT ![f] = content[f]]
  /\ toHash' = toHash \ {f}
  /\ status' = IF toHash' = {} THEN [status EXCEPT ![u] = "updated"] ELSE status
  /\ UNCHANGED <<content, mtime, savedCommand, dfile, clock, options, stage, patched, finished, bounds>>

-----------------------------------------------------------------------------
(* Maker.Invoke.                                                           *)

EnterStage(k) ==
  /\ stage' = k
  /\ status' = [u \in Units |-> "none"]
  /\ patched' = (k # 0 /\ Patches[k] = {})
  /\ toHash' = {}

StartBuild ==
  /\ stage = 0
  /\ builds < MaxBuilds
  /\ builds' = builds + 1
  /\ EnterStage(1)
  /\ UNCHANGED <<disk, options, finished, edits>>

\* PatchTextFile writes the file even if there is nothing left to replace.
PatchTextFile ==
  /\ stage # 0
  /\ ~patched
  /\ \E f \in Patches[stage] : Write(f, {[c EXCEPT !.patched = TRUE] : c \in content[f]})
  /\ patched' = TRUE
  /\ UNCHANGED <<savedCommand, savedHash, dfile, options, stage, status, toHash, finished, bounds>>

StageOver == stage # 0 /\ patched /\ \A u \in Stages[stage] : status[u] \in {"Skipped", "updated", "Error"}
HasError == \E u \in Units : status[u] = "Error"

NextStage ==
  /\ StageOver
  /\ ~HasError
  /\ EnterStage(IF stage = Len(Stages) THEN 0 ELSE stage + 1)
  /\ finished' = (finished \/ stage = Len(Stages))
  /\ UNCHANGED <<disk, options, bounds>>

\* The build gives up, or is killed between two steps.
Stop ==
  /\ StageOver /\ HasError
  /\ EnterStage(0)
  /\ finished' = FALSE
  /\ UNCHANGED <<disk, options, bounds>>

Kill ==
  /\ stage # 0
  /\ EnterStage(0)
  /\ finished' = FALSE
  /\ UNCHANGED <<disk, options, bounds>>

Next ==
  \/ \E f \in Sources : Edit(f)
  \/ ChangeOptions \/ StartBuild \/ PatchTextFile \/ NextStage \/ Stop \/ Kill
  \/ \E u \in Units : Invoke(u) \/ UpdateCommand(u) \/ \E f \in Files : UpdateHash(u, f)

Spec == Init /\ [][Next]_vars

-----------------------------------------------------------------------------
(* Properties.                                                             *)

AtMostOne(S) == Cardinality(S) <= 1

TypeOK ==
  /\ DOMAIN content = Files /\ \A f \in Files : AtMostOne(content[f]) /\ AtMostOne(savedHash[f])
  /\ \A u \in Units : AtMostOne(savedCommand[u])
  /\ mtime \in [Files -> 0..clock]
  /\ dfile \in [Units -> SUBSET Files]
  /\ stage \in 0..Len(Stages)
  /\ status \in [Units -> {"none", "Skipped", "Completed", "Error", "hashing", "updated"}]
  /\ toHash \subseteq Files
  /\ {patched, finished} \subseteq BOOLEAN

\* When a build ends with "Compile finished.", every target was made with the
\* present options from the present contents of the dependencies its unit knows
\* of, but for those that a unit of an earlier stage has too: its hash hides
\* their edits, and il2cppGC.cpp.bc is not made again for an edit of il2cpp.h.
FinishedIsFresh ==
  finished /\ stage = 0 =>
    \A k \in DOMAIN Stages : \A u \in Stages[k] : \E c \in content[u] :
      /\ c.command = Command(u)
      /\ \A f \in Seen(u) : c.from[f] = content[f] \/ SeenEarlier(k, f)

\* A build after a finished one, with nothing edited in between, runs nothing.
NothingTwice ==
  [][\A u \in Units : finished /\ status[u] = "none" =>
       status'[u] \in {"none", "Skipped"}]_vars
=============================================================================

------------------------ MODULE ApplicationLifecycle ------------------------
(***************************************************************************)
(* The local Code lifecycle: scan, plan, apply and test (verify dispatches *)
(* as test does) as commands of several processes over one project.  They  *)
(* share the working tree, the project's extension pin, scan.json,         *)
(* plan.json and the artifacts the extension leaves for later stages; each *)
(* holds the project's lock shared from its guard to its end, so stages    *)
(* may overlap and only a change of the pin is kept out.  The extension is *)
(* another program: it reads the tree when it runs, may ask for inputs, or *)
(* fail after it wrote.                                                    *)
(*                                                                         *)
(* A hash stands for what it hashes: a plan is named by its content and a  *)
(* fingerprint by the evidence in the source and output directory it was   *)
(* taken of.  Evidence is what static discovery notes of a file (its path, *)
(* declared dependencies, imports), not its text: an edit may leave it as  *)
(* it was.                                                                 *)
(***************************************************************************)
EXTENDS Integers

CONSTANTS
    Commands,        \* the processes
    Versions,        \* versions of the extension a project may pin
    Configurations,  \* what a caller may configure a plan with
    Inputs,          \* names the extension may ask a value for
    Endpoints,       \* the endpoints it may find in the source
    Selections,      \* the sets of them a caller may name
    AllEndpoints,    \* stands for the choice of all it can migrate
    Existing,        \* what the output directory may hold at first
    NoFile,          \* stands for a file, plan or hash there is none of
    MaxOperations,   \* bound on the commands started
    MaxEdits,        \* bound on the edits of the source
    MaxFaults        \* bound on crashes, failing stages and pin changes

ASSUME ExistingAssumption == Existing \subseteq {"absent", "old"}
ASSUME SelectionsAssumption == Selections \subseteq (SUBSET Endpoints) \ {{}}
ASSUME BoundsAssumption == {MaxOperations, MaxEdits, MaxFaults} \subseteq Nat

VARIABLES
    source,      \* the text of the source, new with every edit, and its evidence
    output,      \* the content of the output directory
    pin,         \* the extension version the project pins, Unpinned if none
    guards,      \* the commands that hold the project's lock shared
    scanFile,    \* scan.json
    planFile,    \* plan.json
    artifact,    \* the extension's plan artifact, in its own directory
    command,     \* per process: the command it runs
    bounds       \* operations and faults so far

files == <<scanFile, planFile, artifact>>
tree == <<source, output>>
vars == <<tree, pin, guards, files, command, bounds>>

Unpinned == 0
Saved == "saved"

\* The two fingerprints of the tree: whole, and without the output directory.
Whole == [evidence |-> source.evidence, output |-> output]
Excluded == [evidence |-> source.evidence, output |-> "absent"]

\* "wanted" are the endpoints the caller named, "made" is what an extension planned
\* from what it read, "seen" the tree a dispatch checked; "disturbed" tells of another
\* plan run between this one's run and its digest of the artifact, or between a stage and
\* the check of its artifact.  The settings hold the endpoints that are selected,
\* NoFile when the plan is for whatever the extension finds.
Idle == [pc |-> "idle", op |-> "none", settings |-> NoFile, wanted |-> NoFile,
         fingerprint |-> NoFile, lock |-> Unpinned, asked |-> {}, made |-> NoFile,
         plan |-> NoFile, reviewed |-> NoFile, seen |-> NoFile, digest |-> NoFile,
         disturbed |-> FALSE]

Init ==
    /\ source = [text |-> 0, evidence |-> 0]
    /\ output \in Existing
    /\ pin \in {Unpinned} \cup Versions
    /\ guards = {}
    /\ scanFile = NoFile /\ planFile = NoFile /\ artifact = NoFile
    /\ command = [c \in Commands |-> Idle]
    /\ bounds = [operations |-> 0, faults |-> 0]

-----------------------------------------------------------------------------
At(c, pc) == command[c].pc = pc

Set(c, changes) ==
    command' = [command EXCEPT ![c] =
        [f \in DOMAIN Idle |-> IF f \in DOMAIN changes THEN changes[f] ELSE @[f]]]

Step(c, pc) == Set(c, [pc |-> pc])

\* The command ends, with success or an error, and leaves the guard.
End(c) ==
    /\ command' = [command EXCEPT ![c] = Idle]
    /\ guards' = guards \ {c}

Refuse(c) == End(c) /\ UNCHANGED <<tree, pin, files, bounds>>

Spend == bounds.faults < MaxFaults /\ bounds' = [bounds EXCEPT !.faults = @ + 1]

-----------------------------------------------------------------------------
(* Every command begins here.                                               *)

\* plan takes what it is not given from the saved plan; apply is given the hash its
\* caller has reviewed, that of the plan on disk.
BeginWith(c, changes) ==
    /\ At(c, "idle")
    /\ bounds.operations < MaxOperations
    /\ bounds' = [bounds EXCEPT !.operations = @ + 1]
    /\ Set(c, changes)
    /\ UNCHANGED <<tree, pin, guards, files>>

With(k, endpoints) == [chosen |-> k, endpoints |-> endpoints]

\* An earlier selection is kept by a plan that is given no configuration, and may be by
\* one that is (a new output drops it, and so does another target); naming endpoints
\* resets it.  One that the given configuration holds itself is treated as one kept, and
\* is not a case of its own here.
PlanSettings(wanted) ==
    {With(k, NoFile) : k \in Configurations}
      \cup IF wanted # NoFile \/ planFile = NoFile THEN {}
           ELSE {With(k, planFile.settings.endpoints) : k \in Configurations \cup {planFile.settings.chosen}}

Begin(c) ==
    \/ \E k \in Configurations :
         BeginWith(c, [pc |-> "fingerprint", op |-> "scan", settings |-> With(k, NoFile)])
    \/ \E wanted \in Selections \cup {AllEndpoints, NoFile} : \E settings \in PlanSettings(wanted) :
         BeginWith(c, [pc |-> "fingerprint", op |-> "plan", settings |-> settings,
                       wanted |-> wanted])
    \/ /\ planFile # NoFile
       /\ BeginWith(c, [pc |-> "guard", op |-> "apply", reviewed |-> planFile])
    \/ BeginWith(c, [pc |-> "guard", op |-> "test"])

\* scan and plan fingerprint the repository before anything is locked.
TakeFingerprint(c) ==
    /\ At(c, "fingerprint")
    /\ Set(c, [pc |-> "ensure", fingerprint |-> Whole])
    /\ UNCHANGED <<tree, pin, guards, files, bounds>>

\* _ensure_enabled goes on when an extension is enabled or none is recommended; it
\* adds the default one, which waits for every guard, or ends the command when none
\* is chosen.
EnsureEnabled(c) ==
    /\ At(c, "ensure")
    /\ \/ Step(c, "guard") /\ UNCHANGED <<tree, pin, guards, files, bounds>>
       \/ /\ pin = Unpinned /\ guards = {}
          /\ pin' \in Versions
          /\ Step(c, "guard") /\ UNCHANGED <<tree, guards, files, bounds>>
       \/ pin = Unpinned /\ Refuse(c)

\* execution_guard; scan and plan then read the pin that will stay.  With no extension
\* recommended for the repository, pinned or not, a scan goes on without one and a plan
\* ends; with one recommended and not enabled, both end.
Unguarded(c, next) == Set(c, next) /\ guards' = guards \* MUTANT
Guarded(c, next) == Set(c, next) /\ guards' = guards \cup {c}
Guard(c) ==
    /\ At(c, "guard")
    /\ \/ /\ command[c].op \in {"apply", "test"}
          /\ Guarded(c, [pc |-> "load"]) /\ UNCHANGED <<tree, pin, files, bounds>>
       \/ /\ command[c].op \in {"scan", "plan"} /\ pin # Unpinned
          /\ Guarded(c, [pc |-> "scan", lock |-> pin]) /\ UNCHANGED <<tree, pin, files, bounds>>
       \/ /\ command[c].op = "scan"
          /\ Guarded(c, [pc |-> "scan", lock |-> Unpinned]) /\ UNCHANGED <<tree, pin, files, bounds>>
       \/ command[c].op \in {"scan", "plan"} /\ Refuse(c)

-----------------------------------------------------------------------------
(* scan and plan.                                                           *)

\* A plan reuses a scan of the same source by the same extension and settings;
\* one that forwards environment names never does.
Reusable(c) ==
    /\ scanFile # NoFile
    /\ scanFile = [fingerprint |-> command[c].fingerprint, lock |-> command[c].lock,
                   settings |-> command[c].settings]

ReuseScan(c) ==
    /\ At(c, "scan")
    /\ command[c].op = "plan" /\ Reusable(c)
    /\ Step(c, "run")
    /\ UNCHANGED <<tree, pin, guards, files, bounds>>

Scan(c) ==
    /\ At(c, "scan")
    /\ \/ /\ scanFile' = [fingerprint |-> command[c].fingerprint, lock |-> command[c].lock,
                          settings |-> command[c].settings]
          /\ IF command[c].op = "plan" THEN Step(c, "run") /\ guards' = guards ELSE End(c)
          /\ bounds' = bounds
       \/ /\ Spend /\ End(c)
          /\ scanFile' = scanFile
    /\ UNCHANGED <<tree, pin, planFile, artifact>>

\* What an extension plans, from what it reads when it runs, and the endpoints it says
\* it planned.  It can attest to the files of an existing output directory and retain
\* them.
Made(c, retained, effective) ==
    [source |-> source, chosen |-> command[c].settings.chosen, retained |-> retained,
     effective |-> effective]

\* A run of the plan stage writes the artifact, under the feet of a command that has just
\* had it made or checked.
Disturb(c, changes) ==
    command' = [d \in Commands |->
        IF d = c THEN [f \in DOMAIN Idle |-> IF f \in DOMAIN changes THEN changes[f]
                                             ELSE command[d][f]]
        ELSE [command[d] EXCEPT !.disturbed = @ \/ command[d].pc \in {"attest", "stage"}]]

\* The command ends after its run has written the artifact.
EndAfterRun(c) == Disturb(c, Idle) /\ guards' = guards \ {c}

\* scope_resolved: nothing was named, or the selection is in the settings.
Resolved(c) == command[c].wanted = NoFile \/ command[c].settings.endpoints # NoFile

\* Endpoints are named: the first run tells which ones there are and which ones of the
\* output directory are retained, and the extension is run again for the selection.
ResolveScope(c) ==
    /\ At(c, "run") /\ command[c].op = "plan" /\ ~Resolved(c)
    /\ \E available, retained \in SUBSET Endpoints :
         LET wanted == command[c].wanted
             requested == IF wanted = AllEndpoints THEN available ELSE wanted IN
         /\ retained # {} => output # "absent"
         /\ artifact' = Made(c, retained # {}, NoFile)
         /\ IF requested # {} /\ requested \subseteq available
            THEN /\ Disturb(c, [wanted |-> requested,
                                settings |-> With(command[c].settings.chosen, requested \cup retained)])
                 /\ guards' = guards
            ELSE EndAfterRun(c)
    /\ UNCHANGED <<tree, pin, scanFile, planFile, bounds>>

\* A selection, this command's or an earlier one it took over, must be what was planned.
HonoredInPart(c, effective) == \* MUTANT
    command[c].settings.endpoints = NoFile \/ effective \subseteq command[c].settings.endpoints
Honored(c, effective) ==
    command[c].settings.endpoints = NoFile \/ effective = command[c].settings.endpoints

RunPlan(c) ==
    /\ At(c, "run") /\ command[c].op = "plan" /\ Resolved(c)
    /\ \E retained \in BOOLEAN :
         \E effective \in IF command[c].settings.endpoints = NoFile THEN {NoFile} ELSE SUBSET Endpoints :
           /\ retained => output # "absent"
           /\ artifact' = Made(c, retained, effective)
           /\ IF Honored(c, effective)
              THEN /\ Disturb(c, [pc |-> "attest", asked |-> {}, made |-> Made(c, retained, effective)])
                   /\ guards' = guards
              ELSE EndAfterRun(c)
    /\ UNCHANGED <<tree, pin, scanFile, planFile, bounds>>

\* The extension asks for inputs: every name at most once, and only a caller who
\* can be asked answers.  The answers are configuration like any other.
AnswerInputs(c) ==
    /\ At(c, "run") /\ command[c].op = "plan"
    /\ \E names \in SUBSET Inputs : \E k \in Configurations :
         /\ names # {} /\ names \cap command[c].asked = {}
         /\ Set(c, [asked |-> command[c].asked \cup names,
                    settings |-> With(k, command[c].settings.endpoints)])
    /\ UNCHANGED <<tree, pin, guards, files, bounds>>

\* It refuses, asks again, times out or answers what is not a response, and may
\* have written its artifact by then.
FailPlan(c) ==
    /\ At(c, "run") /\ command[c].op = "plan"
    /\ \/ artifact' = artifact /\ End(c)
       \/ artifact' = Made(c, FALSE, NoFile) /\ EndAfterRun(c)
    /\ Spend
    /\ UNCHANGED <<tree, pin, scanFile, planFile>>

\* A plan that retains files of the output directory is fingerprinted again, without
\* it; the artifact is digested as it is then.
Attested(c) == IF command[c].made.retained THEN Excluded ELSE command[c].fingerprint
Attest(c) ==
    /\ At(c, "attest")
    /\ Set(c, [pc |-> "save", fingerprint |-> Attested(c), digest |-> artifact])
    /\ UNCHANGED <<tree, pin, guards, files, bounds>>

SavePlan(c) ==
    /\ At(c, "save")
    /\ planFile' = [fingerprint |-> command[c].fingerprint, lock |-> command[c].lock,
                    settings |-> command[c].settings, extensionPlan |-> command[c].made,
                    artifact |-> command[c].digest, clean |-> ~command[c].disturbed]
    /\ End(c)
    /\ UNCHANGED <<tree, pin, scanFile, artifact, bounds>>

-----------------------------------------------------------------------------
(* apply and test: _dispatch_locked.                                        *)

Reviewed(c) == command[c].op = "apply" => planFile = command[c].reviewed
LoadPlan(c) ==
    /\ At(c, "load")
    /\ IF planFile = NoFile \/ ~Reviewed(c)
       THEN Refuse(c)
       ELSE /\ Set(c, [pc |-> "source", plan |-> planFile])
            /\ UNCHANGED <<tree, pin, guards, files, bounds>>

\* Files in the output directory are ignored when the plan's fingerprint had none
\* there or excluded them, and must be unchanged otherwise.
Matches(plan) == plan.fingerprint \in {Excluded, Whole}

CheckSource(c) ==
    /\ At(c, "source")
    /\ IF Matches(command[c].plan)
       THEN /\ Set(c, [pc |-> "lock", seen |-> Whole])
            /\ UNCHANGED <<tree, pin, guards, files, bounds>>
       ELSE Refuse(c)

CheckLock(c) ==
    /\ At(c, "lock")
    /\ IF pin = command[c].plan.lock
       THEN Step(c, "artifact") /\ UNCHANGED <<tree, pin, guards, files, bounds>>
       ELSE Refuse(c)

SameArtifact(plan) == artifact = plan.artifact
CheckArtifact(c) ==
    /\ At(c, "artifact")
    /\ IF SameArtifact(command[c].plan)
       THEN Step(c, "stage") /\ UNCHANGED <<tree, pin, guards, files, bounds>>
       ELSE Refuse(c)

\* apply generates the output from the artifact; a stage that fails may have
\* written some of it.
RunStage(c) ==
    /\ At(c, "stage")
    /\ \/ output' = (IF command[c].op = "apply" THEN "generated" ELSE output) /\ bounds' = bounds
       \/ Spend /\ output' \in {output, IF command[c].op = "apply" THEN "partial" ELSE output}
    /\ End(c)
    /\ UNCHANGED <<source, pin, files>>

-----------------------------------------------------------------------------
(* Around the commands.                                                     *)

\* A new text, which may show in the evidence.
Edit ==
    /\ source.text < MaxEdits
    /\ source' \in [text : {source.text + 1}, evidence : {source.evidence, source.evidence + 1}]
    /\ UNCHANGED <<output, pin, guards, files, command, bounds>>

\* Extension commands take the project's lock exclusively.
ChangePin ==
    /\ guards = {}
    /\ Spend
    /\ pin' \in ({Unpinned} \cup Versions) \ {pin}
    /\ UNCHANGED <<tree, guards, files, command>>

Crash(c) ==
    /\ ~At(c, "idle")
    /\ Spend /\ End(c)
    /\ UNCHANGED <<tree, pin, files>>

CommandStep(c) ==
    \/ TakeFingerprint(c) \/ EnsureEnabled(c) \/ Guard(c) \/ ReuseScan(c) \/ Scan(c)
    \/ ResolveScope(c) \/ RunPlan(c) \/ AnswerInputs(c) \/ FailPlan(c) \/ Attest(c) \/ SavePlan(c)
    \/ LoadPlan(c) \/ CheckSource(c) \/ CheckLock(c) \/ CheckArtifact(c) \/ RunStage(c)

Next ==
    \/ \E c \in Commands : Begin(c) \/ CommandStep(c) \/ Crash(c)
    \/ Edit
    \/ ChangePin

Spec == Init /\ [][Next]_vars

-----------------------------------------------------------------------------
TypeOK ==
    /\ source.text \in Nat /\ source.evidence \in 0..source.text
    /\ pin \in Versions \cup {Unpinned}
    /\ guards \subseteq Commands
    /\ \A c \in Commands :
         /\ command[c].op \in {"none", "scan", "plan", "apply", "test"}
         /\ command[c].asked \subseteq Inputs /\ command[c].lock \in Versions \cup {Unpinned}
         /\ c \in guards => ~At(c, "idle")
    /\ bounds.operations \in 0..MaxOperations /\ bounds.faults \in 0..MaxFaults

\* A stage runs only a plan whose extension is the pinned one, for as long as it
\* runs; apply only the reviewed one.  What that plan was made from has the evidence
\* the stage checked, unless it attests to retained files; files that stood in the output
\* directory when it was fingerprinted are unchanged.
NothingUnreviewed ==
    \A c \in Commands : At(c, "stage") =>
      LET plan == command[c].plan
          seen == command[c].seen IN
      /\ pin = plan.lock
      /\ command[c].op = "apply" => plan = command[c].reviewed
      /\ ~plan.extensionPlan.retained =>
           /\ plan.extensionPlan.source.evidence = seen.evidence
           /\ plan.fingerprint.output \in {"absent", seen.output}

\* Unless another plan ran between the plan's own run and its digest, or since the check of
\* the stage, the artifact a stage is given is the one its plan was reviewed with: leftovers
\* of failed plans, and what plans beside wrote at any other time, are seen.
ArtifactAsReviewed ==
    \A c \in Commands : At(c, "stage") /\ command[c].plan.clean /\ ~command[c].disturbed =>
      artifact = command[c].plan.extensionPlan

\* A stage runs what was reviewed: the plan, its extension and its artifact.
StageAsReviewed == TypeOK /\ NothingUnreviewed /\ ArtifactAsReviewed

\* Endpoints that were named are among those the extension planned when it is run the
\* second time, however often it asked in between, and a stage whose plan has a
\* selection, of its own or taken over from the plan before, is given an artifact for
\* exactly these endpoints - never the one an unscoped first run, a refused selection
\* or another command has left - unless another plan ran in these two gaps.
SelectionHonored ==
    \A c \in Commands :
      /\ command[c].pc \in {"attest", "save"} /\ command[c].wanted # NoFile =>
           /\ command[c].settings.endpoints # NoFile
           /\ command[c].wanted \subseteq command[c].settings.endpoints
      /\ LET plan == command[c].plan IN
           /\ At(c, "stage") /\ plan.clean /\ ~command[c].disturbed
           /\ plan.settings.endpoints # NoFile
           => artifact.effective = plan.settings.endpoints
=============================================================================

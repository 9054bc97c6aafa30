----------------------------- MODULE HostedCode -----------------------------
(***************************************************************************)
(* The two Code tasks a host runs by itself: one fixed lifecycle of five   *)
(* stages (CodeLifecycle), and one repair attempt (CodeRepairLifecycle).   *)
(* Both compare snapshots of what they work on between their steps, since  *)
(* anything may change under them; both end at the first disagreement.     *)
(*                                                                         *)
(* The source of the working tree, its text included, stands for the       *)
(* hashed inputs and, for a repair, for the protected files; "selected"    *)
(* are the files a repair may edit.  A task takes the place of every local *)
(* command of a behaviour, with which it shares nothing but the source.    *)
(***************************************************************************)
EXTENDS ApplicationLifecycle, Sequences

ASSUME NoFileAssumption == NoFile \notin [text : Int, evidence : Nat]

VARIABLES
    selected,      \* the content of the files a repair may edit, new with every edit
    hostArtifact,  \* the plan artifact of the hosted lifecycle
    host           \* the task

hosted == <<selected, hostArtifact, host>>

CodeStages == <<"scan", "plan", "apply", "test", "verify">>

\* A snapshot of a repair, and what one run of its checks ran over and found.
Snapshot == [protected |-> source, selected |-> selected]
NoChecks == [over |-> NoFile, passed |-> FALSE]

NoTask == [pc |-> "none", stage |-> 1, initial |-> NoFile, digest |-> NoFile, ran |-> {}, used |-> {},
           frozen |-> NoFile, patched |-> NoFile, before |-> NoChecks, after |-> NoChecks]

HostedInit ==
    /\ Init
    /\ selected = 0
    /\ hostArtifact = NoFile
    /\ host = NoTask

HostAt(pc) == host.pc = pc
HostStep(changes) ==
    host' = [f \in DOMAIN NoTask |-> IF f \in DOMAIN changes THEN changes[f] ELSE host[f]]
HostEnds(outcome) == HostStep([pc |-> outcome])
Kept == UNCHANGED <<vars, selected, hostArtifact>>

BeginTask ==
    /\ HostAt("none") /\ bounds.operations = 0
    /\ bounds' = [bounds EXCEPT !.operations = MaxOperations]
    /\ \/ HostStep([pc |-> "before", initial |-> source])
       \/ HostStep([pc |-> "prepare", frozen |-> Snapshot])
    /\ UNCHANGED <<tree, pin, guards, files, command, selected, hostArtifact>>

-----------------------------------------------------------------------------
(* CodeLifecycle.run.                                                       *)

Stage == CodeStages[host.stage]

\* unchanged(): the inputs and, once there is a plan, its artifacts.
UnchangedInputs == source = host.initial \* MUTANT
Unchanged == source = host.initial /\ (host.digest = NoFile \/ hostArtifact = host.digest)

CheckBefore ==
    /\ HostAt("before")
    /\ IF Unchanged THEN HostStep([pc |-> "execute"]) ELSE HostEnds("refused")
    /\ Kept

\* A stage reads the inputs and the artifacts; the plan stage writes them.
Execute ==
    /\ HostAt("execute")
    /\ hostArtifact' = IF Stage = "plan" THEN source ELSE hostArtifact
    /\ \/ HostStep([pc |-> IF Stage = "plan" THEN "digest" ELSE "after",
                    ran |-> host.ran \cup {source},
                    used |-> IF host.digest = NoFile THEN {} ELSE host.used \cup {hostArtifact}])
       \/ HostEnds("error")
    /\ UNCHANGED <<vars, selected>>

Digest ==
    /\ HostAt("digest")
    /\ HostStep([pc |-> "after", digest |-> hostArtifact])
    /\ Kept

Proceed ==
    IF host.stage = Len(CodeStages) THEN HostEnds("success")
    ELSE HostStep([pc |-> "before", stage |-> host.stage + 1])

CheckAfter ==
    /\ HostAt("after")
    /\ IF ~Unchanged THEN HostEnds("refused")
       ELSE IF Stage = "plan" THEN HostStep([pc |-> "approve"]) ELSE Proceed
    /\ Kept

\* The host returns the plan's hash, another one, or none.
Approve ==
    /\ HostAt("approve")
    /\ \/ HostStep([pc |-> "approved"])
       \/ HostEnds("planned") \/ HostEnds("refused")
    /\ Kept

CheckApproved ==
    /\ HostAt("approved")
    /\ IF Unchanged THEN Proceed ELSE HostEnds("refused")
    /\ Kept

-----------------------------------------------------------------------------
(* CodeRepairLifecycle.run.                                                 *)

\* The test harness is prepared, which may change protected files, and frozen.
Prepare ==
    /\ HostAt("prepare")
    /\ source' = source \/ (source.text < MaxEdits /\ source' = [source EXCEPT !.text = @ + 1])
    /\ HostStep([pc |-> "freeze"])
    /\ UNCHANGED <<output, pin, guards, files, command, bounds, selected, hostArtifact>>

Freeze ==
    /\ HostAt("freeze")
    /\ IF selected = host.frozen.selected
       THEN HostStep([pc |-> "check_before", frozen |-> Snapshot])
       ELSE HostEnds("scope_violation")
    /\ Kept

\* A gate's verdict, its test count included, is the host's.
RunChecks(pc, phase, next) ==
    /\ HostAt(pc)
    /\ \E passed \in BOOLEAN :
          HostStep([f \in {"pc", phase} |-> IF f = "pc" THEN next ELSE [over |-> Snapshot, passed |-> passed]])
    /\ Kept

Judge ==
    /\ HostAt("judge_before")
    /\ IF Snapshot # host.frozen THEN HostEnds("scope_violation")
       ELSE IF host.before.passed THEN HostEnds("already_passed")
       ELSE HostStep([pc |-> "patch"])
    /\ Kept

\* At most one patch; one that changes nothing is an error.
Patch ==
    /\ HostAt("patch")
    /\ selected' \in {selected, selected + 1}
    /\ HostStep([pc |-> "patched"])
    /\ UNCHANGED <<vars, hostArtifact>>

CheckPatch ==
    /\ HostAt("patched")
    /\ IF source # host.frozen.protected THEN HostEnds("scope_violation")
       ELSE IF selected = host.frozen.selected THEN HostEnds("refused")
       ELSE HostStep([pc |-> "check_after", patched |-> Snapshot])
    /\ Kept

VerdictIgnoringEdits == \* MUTANT
    IF source # host.frozen.protected THEN "scope_violation"
    ELSE IF host.after.passed THEN "repaired" ELSE "failed"
Verdict ==
    IF source # host.frozen.protected \/ selected # host.patched.selected THEN "scope_violation"
    ELSE IF host.after.passed THEN "repaired" ELSE "failed"

Conclude ==
    /\ HostAt("judge_after")
    /\ HostEnds(Verdict)
    /\ Kept

-----------------------------------------------------------------------------
\* Somebody edits the selected files or the artifact.
Interfere ==
    /\ host.pc # "none"
    /\ Spend
    /\ \/ selected' = selected + 1 /\ UNCHANGED hostArtifact
       \/ hostArtifact # NoFile /\ hostArtifact' = [hostArtifact EXCEPT !.text = -1] /\ UNCHANGED selected
    /\ UNCHANGED <<tree, pin, guards, files, command, host>>

HostedNext ==
    \/ Next /\ UNCHANGED hosted
    \/ BeginTask
    \/ CheckBefore \/ Execute \/ Digest \/ CheckAfter \/ Approve \/ CheckApproved
    \/ Prepare \/ Freeze \/ RunChecks("check_before", "before", "judge_before") \/ Judge \/ Patch
    \/ CheckPatch \/ RunChecks("check_after", "after", "judge_after") \/ Conclude
    \/ Interfere

HostedSpec == HostedInit /\ [][HostedNext]_<<vars, hosted>>

-----------------------------------------------------------------------------
\* A lifecycle that ends in success ran every stage over the inputs it was started
\* with, and every stage after the plan was given the plan's artifacts as digested
\* when the plan was approved.
StagesOverOneInput ==
    HostAt("success") => host.ran = {host.initial} /\ host.used = {host.digest}

\* A repair that is called repaired failed its checks before and passed them after
\* under the same protected files, the second time over exactly what the one patch
\* left.
RepairProven ==
    HostAt("repaired") =>
      /\ host.before = [over |-> host.frozen, passed |-> FALSE]
      /\ host.after = [over |-> host.patched, passed |-> TRUE]
      /\ host.patched.protected = host.frozen.protected
      /\ host.patched.selected # host.frozen.selected
=============================================================================

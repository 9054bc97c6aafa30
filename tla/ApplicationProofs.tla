-------------------------- MODULE ApplicationProofs --------------------------
(***************************************************************************)
(* What the commands of an application do: a hosted lifecycle and a repair *)
(* that end well, the local commands beside them, and the terminal         *)
(* interface, a state of its own, that starts stages.                      *)
(*                                                                         *)
(* The first two compare content before and after a step that anything may *)
(* run beside.  That this suffices rests on content never coming back: an  *)
(* edit gives the source a greater text, the selected files a greater      *)
(* content, and an altered artifact stays altered.                         *)
(***************************************************************************)
EXTENDS HostedCode, TerminalSession, TLAPS

Sources == [text : Nat, evidence : Nat]
Artifacts == [text : Int, evidence : Nat]
Snapshots == [protected : Sources, selected : Nat]
Altered(a) == [a EXCEPT !.text = -1]

(* What was read of the source at some time: it is the source, or older.    *)
Seen(s) == s \in Sources /\ s.text <= source.text /\ (s.text = source.text => s = source)
SeenAll(s) == s \in Snapshots /\ Seen(s.protected) /\ s.selected <= selected

(* The fields of a task that was begun, whatever it is.                     *)
Typed ==
    /\ source \in Sources /\ selected \in Nat
    /\ hostArtifact \in Artifacts \cup {NoFile}
    /\ host.stage \in 1 .. 5

(* What the lifecycle has run over so far, and with what artifact.          *)
RanOver ==
    /\ Seen(host.initial)
    /\ \A s \in host.ran : Seen(s) /\ host.initial.text <= s.text
    /\ host.pc \in {"digest", "after", "approve", "approved"} \/ host.stage > 1 => host.ran # {}

Digested == host.stage > 2 \/ (host.stage = 2 /\ host.pc \in {"after", "approve", "approved"})
UsedArtifact ==
    /\ host.pc \in {"digest", "approve", "approved"} => host.stage = 2
    /\ host.pc = "digest" => hostArtifact # NoFile
    /\ ~Digested => host.digest = NoFile /\ host.used = {}
    /\ Digested => /\ host.digest \in Artifacts
                   /\ hostArtifact \in {host.digest, Altered(host.digest)}
                   /\ host.used \subseteq {host.digest, Altered(host.digest)}
                   /\ Altered(host.digest) \in host.used => hostArtifact = Altered(host.digest)
    /\ host.stage > 3 \/ (host.stage = 3 /\ host.pc = "after") => host.used # {}

LifecyclePlaces == {"before", "execute", "digest", "after", "approve", "approved"}
LifecycleInv == host.pc \in LifecyclePlaces => RanOver /\ UsedArtifact

(* What the repair has compared so far.                                     *)
FailedBefore == host.before = [over |-> host.frozen, passed |-> FALSE]
OnePatch ==
    /\ host.patched.protected = host.frozen.protected
    /\ host.patched.selected # host.frozen.selected
Checked(checks, since) ==
    /\ checks \in [over : Snapshots, passed : BOOLEAN]
    /\ SeenAll(checks.over)
    /\ since.protected.text <= checks.over.protected.text
    /\ since.selected <= checks.over.selected

RepairInv ==
    /\ host.pc \in {"check_before", "judge_before"} => SeenAll(host.frozen)
    /\ host.pc = "judge_before" => Checked(host.before, host.frozen)
    /\ host.pc \in {"patch", "patched", "check_after", "judge_after"} => FailedBefore
    /\ host.pc \in {"check_after", "judge_after"} => OnePatch /\ SeenAll(host.patched)
    /\ host.pc = "judge_after" => Checked(host.after, host.patched)

NotBegun ==
    host.pc = "none" => host.stage = 1 /\ host.ran = {} /\ host.used = {} /\ host.digest = NoFile

HostedInv == Typed /\ NotBegun /\ LifecycleInv /\ RepairInv /\ StagesOverOneInput /\ RepairProven

-----------------------------------------------------------------------------
(* A local command leaves the source alone or gives it a greater text.      *)
LEMMA NextEdits ==
    ASSUME Typed, [Next]_vars
    PROVE  source' = source \/ (source' \in Sources /\ source'.text > source.text)
<1>1. CASE Edit
  BY <1>1 DEF Edit, Typed, Sources
<1>2. CASE ChangePin
  BY <1>2 DEF ChangePin, tree
<1>3. CASE \E c \in Commands : Begin(c) \/ Crash(c)
  BY <1>3 DEF Begin, BeginWith, Crash, tree
<1>4. ASSUME NEW c \in Commands, CommandStep(c)
      PROVE  source' = source
  <2>1. CASE TakeFingerprint(c) \/ EnsureEnabled(c) \/ Guard(c) \/ ReuseScan(c) \/ Scan(c)
    BY <2>1 DEF TakeFingerprint, EnsureEnabled, Guard, ReuseScan, Scan, Refuse, tree
  <2>2. CASE ResolveScope(c) \/ RunPlan(c) \/ AnswerInputs(c) \/ FailPlan(c) \/ Attest(c) \/ SavePlan(c)
    BY <2>2 DEF ResolveScope, RunPlan, AnswerInputs, FailPlan, Attest, SavePlan, tree
  <2>3. CASE LoadPlan(c) \/ CheckSource(c) \/ CheckLock(c) \/ CheckArtifact(c) \/ RunStage(c)
    BY <2>3 DEF LoadPlan, CheckSource, CheckLock, CheckArtifact, RunStage, Refuse, tree
  <2>. QED
    BY <1>4, <2>1, <2>2, <2>3 DEF CommandStep
<1>5. CASE UNCHANGED vars
  BY <1>5 DEF vars, tree
<1>. QED
  BY <1>1, <1>2, <1>3, <1>4, <1>5 DEF Next

(* What was seen stays seen, also when something is edited.                 *)
LEMMA SeenStays ==
    ASSUME Typed, source' = source \/ (source' \in Sources /\ source'.text > source.text),
           NEW s, Seen(s)
    PROVE  Seen(s)'
BY DEF Seen, Typed, Sources

LEMMA SeenAllStays ==
    ASSUME Typed, source' = source \/ (source' \in Sources /\ source'.text > source.text),
           selected' \in Nat, selected' >= selected,
           NEW s, SeenAll(s)
    PROVE  SeenAll(s)'
<1>1. Seen(s.protected)'
  BY SeenStays DEF SeenAll
<1>. QED
  BY <1>1 DEF SeenAll, Typed, Snapshots

(* Whatever happens beside a task that stands still, what it knows stays    *)
(* true.                                                                    *)
LEMMA Beside ==
    ASSUME HostedInv, UNCHANGED host,
           source' = source \/ (source' \in Sources /\ source'.text > source.text),
           selected' \in Nat, selected' >= selected,
           hostArtifact' = hostArtifact \/ (hostArtifact # NoFile /\ hostArtifact' = Altered(hostArtifact))
    PROVE  HostedInv'
<1>. USE DEF HostedInv
<1>1. Typed'
  BY NoFileAssumption DEF Typed, Artifacts, Altered
<1>2. LifecycleInv'
  <2>. SUFFICES ASSUME host.pc \in LifecyclePlaces PROVE RanOver' /\ UsedArtifact'
    BY DEF LifecycleInv
  <2>1. RanOver'
    BY SeenStays DEF LifecycleInv, RanOver
  <2>2. Digested' = Digested
    BY DEF Digested
  <2>3. CASE Digested
    <3>1. hostArtifact' \in {host.digest, Altered(host.digest)}
      BY <2>3 DEF LifecycleInv, UsedArtifact, Altered, Artifacts
    <3>2. Altered(host.digest) \in host.used => hostArtifact' = Altered(host.digest)
      BY <2>3 DEF LifecycleInv, UsedArtifact, Altered, Artifacts
    <3>3. host.pc # "digest"
      BY <2>3 DEF LifecycleInv, UsedArtifact, Digested
    <3>. QED
      BY <2>1, <2>2, <2>3, <3>1, <3>2, <3>3 DEF LifecycleInv, UsedArtifact
  <2>4. CASE ~Digested
    <3>1. hostArtifact # NoFile => hostArtifact' # NoFile
      BY NoFileAssumption DEF Typed, Altered, Artifacts
    <3>. QED
      BY <2>1, <2>2, <2>4, <3>1 DEF LifecycleInv, UsedArtifact
  <2>. QED
    BY <2>3, <2>4
<1>3. RepairInv'
  BY SeenAllStays DEF RepairInv, FailedBefore, OnePatch, Checked
<1>4. StagesOverOneInput' /\ RepairProven' /\ NotBegun'
  BY DEF StagesOverOneInput, RepairProven, HostAt, NotBegun
<1>. QED
  BY <1>1, <1>2, <1>3, <1>4

-----------------------------------------------------------------------------
(* Every field of the task after a step.                                    *)
LEMMA HostStepFields ==
    ASSUME NEW changes, HostStep(changes)
    PROVE  \A f \in DOMAIN NoTask : host'[f] = IF f \in DOMAIN changes THEN changes[f] ELSE host[f]
BY DEF HostStep

(* Only the plan stage is the second of five.                               *)
LEMMA PlanIsSecond ==
    ASSUME Typed
    PROVE  (Stage = "plan" <=> host.stage = 2) /\ Len(CodeStages) = 5
BY DEF Typed, Stage, CodeStages

(* A task that ends without success claims nothing.                         *)
LEMMA Ended ==
    ASSUME HostedInv, NEW outcome \in {"refused", "error", "planned", "scope_violation", "already_passed", "failed"},
           HostEnds(outcome), source' = source, selected' = selected,
           hostArtifact' \in Artifacts \cup {NoFile}
    PROVE  HostedInv'
<1>1. host'.pc = outcome /\ host'.stage = host.stage
  BY DEF HostEnds, HostStep, NoTask
<1>. QED
  BY <1>1 DEF HostedInv, Typed, NotBegun, LifecycleInv, LifecyclePlaces, RepairInv,
                 StagesOverOneInput, RepairProven, HostAt

(* A check that finds the inputs and the artifacts unchanged knows that     *)
(* every stage so far ran over them.                                        *)
LEMMA UnchangedSince ==
    ASSUME HostedInv, host.pc \in LifecyclePlaces, Unchanged
    PROVE  /\ \A s \in host.ran : s = host.initial
           /\ Digested => \A a \in host.used : a = host.digest
<1>. USE DEF HostedInv, LifecycleInv, Unchanged
<1>1. ASSUME NEW s \in host.ran PROVE s = host.initial
  BY <1>1 DEF RanOver, Seen, Sources
<1>2. ASSUME Digested, NEW a \in host.used PROVE a = host.digest
  BY <1>2, NoFileAssumption DEF UsedArtifact, Artifacts
<1>. QED
  BY <1>1, <1>2

(* A step that leaves the task inside the lifecycle has no repair to prove. *)
LEMMA InLifecycle ==
    ASSUME Typed', LifecycleInv', host'.pc \in LifecyclePlaces
    PROVE  HostedInv'
BY DEF HostedInv, NotBegun, RepairInv, StagesOverOneInput, RepairProven, HostAt, LifecyclePlaces

LEMMA InRepair ==
    ASSUME Typed', RepairInv', host'.pc \in {"prepare", "freeze", "check_before", "judge_before", "patch",
                                             "patched", "check_after", "judge_after"}
    PROVE  HostedInv'
BY DEF HostedInv, NotBegun, LifecycleInv, StagesOverOneInput, RepairProven, HostAt, LifecyclePlaces

LEMMA BeginStep ==
    ASSUME HostedInv, BeginTask
    PROVE  HostedInv'
<1>1. UNCHANGED <<source, selected, hostArtifact>> /\ host.pc = "none"
  BY DEF BeginTask, tree, HostAt
<1>2. host.stage = 1 /\ host.ran = {} /\ host.used = {} /\ host.digest = NoFile /\ Typed
  BY <1>1 DEF HostedInv, NotBegun
<1>3. CASE HostStep([pc |-> "before", initial |-> source])
  <2>1. /\ host'.pc = "before" /\ host'.initial = source /\ host'.stage = 1
        /\ host'.ran = {} /\ host'.used = {} /\ host'.digest = NoFile
    BY <1>2, <1>3, HostStepFields DEF NoTask
  <2>2. Typed'
    BY <1>1, <1>2, <2>1 DEF Typed
  <2>3. LifecycleInv'
    BY <1>1, <1>2, <2>1 DEF LifecycleInv, RanOver, UsedArtifact, Digested, Seen, Typed, Sources
  <2>. QED
    BY <2>1, <2>2, <2>3, InLifecycle DEF LifecyclePlaces
<1>4. CASE HostStep([pc |-> "prepare", frozen |-> Snapshot])
  <2>1. host'.pc = "prepare" /\ host'.stage = 1
    BY <1>2, <1>4, HostStepFields DEF NoTask
  <2>2. Typed' /\ RepairInv'
    BY <1>1, <1>2, <2>1 DEF Typed, RepairInv
  <2>. QED
    BY <2>1, <2>2, InRepair
<1>. QED
  BY <1>3, <1>4 DEF BeginTask

-----------------------------------------------------------------------------
(* The lifecycle.                                                           *)

(* A stage that is left behind ran over the inputs it was checked with; the *)
(* fifth ends the lifecycle.                                                *)
LEMMA ProceedStep ==
    ASSUME HostedInv, Kept, Unchanged, Proceed,
           host.pc = "approved" \/ (host.pc = "after" /\ Stage # "plan")
    PROVE  HostedInv'
<1>. USE DEF HostedInv
<1>1. UNCHANGED <<source, selected, hostArtifact>>
  BY DEF Kept, vars, tree
<1>2. RanOver /\ UsedArtifact /\ host.pc \in LifecyclePlaces
  BY DEF LifecycleInv, LifecyclePlaces
<1>3. host.ran # {} /\ \A s \in host.ran : s = host.initial
  BY <1>2, UnchangedSince DEF RanOver
<1>4. host.stage \in 1 .. 5 /\ (host.pc = "after" => host.stage # 2) /\ (host.pc = "approved" => host.stage = 2)
  BY <1>2, PlanIsSecond DEF Typed, UsedArtifact
<1>5. CASE host.stage = 5
  <2>1. Digested /\ host.used # {}
    BY <1>2, <1>5 DEF Digested, UsedArtifact
  <2>2. \A a \in host.used : a = host.digest
    BY <1>2, <2>1, UnchangedSince
  <2>3. HostStep([pc |-> "success"])
    BY <1>5, PlanIsSecond DEF Proceed, HostEnds
  <2>4. /\ host'.pc = "success" /\ host'.stage = host.stage /\ host'.ran = host.ran
        /\ host'.initial = host.initial /\ host'.used = host.used /\ host'.digest = host.digest
    BY <2>3, HostStepFields DEF NoTask
  <2>5. StagesOverOneInput'
    BY <1>3, <2>1, <2>2, <2>4 DEF StagesOverOneInput
  <2>. QED
    BY <1>1, <2>4, <2>5 DEF Typed, NotBegun, LifecycleInv, LifecyclePlaces, RepairInv, RepairProven, HostAt
<1>6. CASE host.stage # 5
  <2>1. HostStep([pc |-> "before", stage |-> host.stage + 1])
    BY <1>6, PlanIsSecond DEF Proceed
  <2>2. /\ host'.pc = "before" /\ host'.stage = host.stage + 1 /\ host'.ran = host.ran
        /\ host'.initial = host.initial /\ host'.used = host.used /\ host'.digest = host.digest
    BY <2>1, HostStepFields DEF NoTask
  <2>3. Typed'
    BY <1>1, <1>4, <1>6, <2>2 DEF Typed
  <2>4. RanOver'
    BY <1>1, <1>2, <1>3, <2>2 DEF RanOver, Seen
  <2>5. Digested' <=> Digested
    BY <1>4, <2>2 DEF Digested
  <2>6. UsedArtifact'
    BY <1>1, <1>2, <1>4, <2>2, <2>5 DEF UsedArtifact
  <2>. QED
    BY <2>2, <2>3, <2>4, <2>6, InLifecycle DEF LifecycleInv, LifecyclePlaces
<1>. QED
  BY <1>5, <1>6

(* The places between the stages, where nothing but the place changes.      *)
LEMMA MovedOn ==
    ASSUME HostedInv, Kept, NEW to \in {"execute", "approve", "approved"}, HostStep([pc |-> to]),
           \/ host.pc = "before" /\ to = "execute"
           \/ host.pc = "after" /\ Stage = "plan" /\ to = "approve"
           \/ host.pc = "approve" /\ to = "approved"
    PROVE  HostedInv'
<1>1. UNCHANGED <<source, selected, hostArtifact>>
  BY DEF Kept, vars, tree
<1>2. /\ host'.pc = to /\ host'.stage = host.stage /\ host'.ran = host.ran
      /\ host'.initial = host.initial /\ host'.used = host.used /\ host'.digest = host.digest
  BY HostStepFields DEF NoTask
<1>3. Typed /\ RanOver /\ UsedArtifact
  BY DEF HostedInv, LifecycleInv, LifecyclePlaces
<1>4. host.pc \in {"after", "approve"} => host.stage = 2
  BY <1>3, PlanIsSecond DEF UsedArtifact
<1>5. Typed'
  BY <1>1, <1>2, <1>3 DEF Typed
<1>6. RanOver'
  BY <1>1, <1>2, <1>3 DEF RanOver, Seen
<1>7. Digested' <=> Digested
  BY <1>2, <1>4 DEF Digested
<1>8. UsedArtifact'
  BY <1>1, <1>2, <1>3, <1>4, <1>7 DEF UsedArtifact
<1>. QED
  BY <1>2, <1>5, <1>6, <1>8, InLifecycle DEF LifecycleInv, LifecyclePlaces

(* A stage reads the source as it is, and its artifact as it is; only the   *)
(* plan stage, before the digest, writes the artifact.                      *)
LEMMA ExecuteStep ==
    ASSUME HostedInv, Execute
    PROVE  HostedInv'
<1>1. UNCHANGED <<source, selected>> /\ host.pc = "execute"
  BY DEF Execute, vars, tree, HostAt
<1>2. Typed /\ RanOver /\ UsedArtifact
  BY <1>1 DEF HostedInv, LifecycleInv, LifecyclePlaces
<1>3. hostArtifact' = IF host.stage = 2 THEN source ELSE hostArtifact
  BY <1>2, PlanIsSecond DEF Execute
<1>5. CASE HostEnds("error")
  <2>1. hostArtifact' \in Artifacts \cup {NoFile}
    BY <1>2, <1>3 DEF Typed, Sources, Artifacts
  <2>. QED
    BY <1>1, <1>5, <2>1, Ended
<1>6. CASE HostStep([pc |-> IF Stage = "plan" THEN "digest" ELSE "after",
                     ran |-> host.ran \cup {source},
                     used |-> IF host.digest = NoFile THEN {} ELSE host.used \cup {hostArtifact}])
  <2>1. /\ host'.pc = (IF host.stage = 2 THEN "digest" ELSE "after")
        /\ host'.ran = host.ran \cup {source}
        /\ host'.used = (IF host.digest = NoFile THEN {} ELSE host.used \cup {hostArtifact})
        /\ host'.stage = host.stage /\ host'.initial = host.initial /\ host'.digest = host.digest
    BY <1>2, <1>6, HostStepFields, PlanIsSecond DEF NoTask
  <2>2. Typed'
    BY <1>1, <1>2, <1>3, <2>1 DEF Typed, Sources, Artifacts
  <2>3. RanOver'
    BY <1>1, <1>2, <2>1 DEF RanOver, Seen, Typed, Sources
  <2>4. UsedArtifact'
    <3>1. CASE host.stage > 2
      <4>1. Digested /\ Digested' /\ UNCHANGED hostArtifact /\ host'.pc = "after"
        BY <1>2, <1>3, <2>1, <3>1 DEF Digested, Typed
      <4>2. host.digest \in Artifacts /\ host.digest # NoFile
        BY <1>2, <4>1, NoFileAssumption DEF UsedArtifact, Artifacts
      <4>3. host'.used = host.used \cup {hostArtifact}
        BY <2>1, <4>2
      <4>. QED
        BY <1>2, <2>1, <4>1, <4>2, <4>3 DEF UsedArtifact
    <3>2. CASE host.stage <= 2
      <4>1. ~Digested /\ ~Digested'
        BY <1>1, <1>2, <2>1, <3>2 DEF Digested, Typed
      <4>2. host'.pc = "digest" => host'.stage = 2 /\ hostArtifact' # NoFile
        BY <1>2, <1>3, <2>1, NoFileAssumption DEF Typed, Sources
      <4>3. ~(host'.stage > 3) /\ host'.stage # 3 /\ host'.pc \in {"digest", "after"}
        BY <1>2, <2>1, <3>2 DEF Typed
      <4>. QED
        BY <1>2, <2>1, <4>1, <4>2, <4>3 DEF UsedArtifact
    <3>. QED
      BY <1>2, <3>1, <3>2 DEF Typed
  <2>. QED
    BY <2>1, <2>2, <2>3, <2>4, InLifecycle DEF LifecycleInv, LifecyclePlaces
<1>. QED
  BY <1>5, <1>6 DEF Execute

(* The digest is what every later check compares with.                      *)
LEMMA DigestStep ==
    ASSUME HostedInv, Digest
    PROVE  HostedInv'
<1>1. UNCHANGED <<source, selected, hostArtifact>> /\ host.pc = "digest"
  BY DEF Digest, Kept, vars, tree, HostAt
<1>2. /\ host'.pc = "after" /\ host'.digest = hostArtifact /\ host'.ran = host.ran
      /\ host'.stage = host.stage /\ host'.initial = host.initial /\ host'.used = host.used
  BY HostStepFields DEF Digest, NoTask
<1>3. Typed /\ RanOver /\ UsedArtifact
  BY <1>1 DEF HostedInv, LifecycleInv, LifecyclePlaces
<1>4. Typed'
  BY <1>1, <1>2, <1>3 DEF Typed
<1>5. RanOver'
  BY <1>1, <1>2, <1>3 DEF RanOver, Seen
<1>6. UsedArtifact'
  <2>1. host.stage = 2 /\ host.used = {} /\ hostArtifact \in Artifacts
    BY <1>1, <1>3 DEF UsedArtifact, Digested, Typed
  <2>. QED
    BY <1>1, <1>2, <2>1 DEF UsedArtifact, Digested
<1>. QED
  BY <1>2, <1>4, <1>5, <1>6, InLifecycle DEF LifecycleInv, LifecyclePlaces

LEMMA LifecycleStep ==
    ASSUME HostedInv,
           CheckBefore \/ Execute \/ Digest \/ CheckAfter \/ Approve \/ CheckApproved
    PROVE  HostedInv'
<1>1. ASSUME Kept PROVE UNCHANGED <<source, selected>> /\ hostArtifact' \in Artifacts \cup {NoFile}
  BY <1>1 DEF Kept, vars, tree, HostedInv, Typed
<1>2. CASE CheckBefore
  BY <1>1, <1>2, Ended, MovedOn DEF CheckBefore, HostAt
<1>3. CASE CheckAfter
  BY <1>1, <1>3, Ended, MovedOn, ProceedStep DEF CheckAfter, HostAt
<1>4. CASE Approve
  BY <1>1, <1>4, Ended, MovedOn DEF Approve, HostAt
<1>5. CASE CheckApproved
  BY <1>1, <1>5, Ended, ProceedStep DEF CheckApproved, HostAt
<1>. QED
  BY <1>2, <1>3, <1>4, <1>5, ExecuteStep, DigestStep

-----------------------------------------------------------------------------
(* The repair.                                                              *)

(* A snapshot that is taken now has been seen.                              *)
LEMMA SnapshotSeen ==
    ASSUME Typed
    PROVE  SeenAll(Snapshot)
BY DEF SeenAll, Seen, Snapshot, Snapshots, Sources, Typed

(* Content that lay between two equal snapshots is that snapshot.           *)
LEMMA Unmoved ==
    ASSUME Typed, NEW checks, NEW since, Checked(checks, since), since = Snapshot
    PROVE  checks.over = since
<1>1. checks.over \in Snapshots /\ checks.over.protected \in Sources
  BY DEF Checked, SeenAll, Snapshots
<1>2. checks.over.protected.text = source.text /\ checks.over.selected = selected
  BY <1>1 DEF Checked, SeenAll, Seen, Snapshot, Snapshots, Sources, Typed
<1>3. checks.over.protected = source
  BY <1>2 DEF Checked, SeenAll, Seen
<1>. QED
  BY <1>1, <1>2, <1>3 DEF Snapshot, Snapshots

LEMMA PrepareStep ==
    ASSUME HostedInv, Prepare
    PROVE  HostedInv'
<1>1. host'.pc = "freeze" /\ host'.stage = host.stage
  BY HostStepFields DEF Prepare, NoTask
<1>2. Typed'
  BY <1>1 DEF HostedInv, Prepare, Typed, Sources
<1>3. RepairInv'
  BY <1>1 DEF RepairInv
<1>. QED
  BY <1>1, <1>2, <1>3, InRepair

(* The steps of a repair that change nothing but the task.                  *)
LEMMA FreezeStep ==
    ASSUME HostedInv, Freeze
    PROVE  HostedInv'
<1>1. UNCHANGED <<source, selected, hostArtifact>> /\ Typed
  BY DEF Freeze, Kept, vars, tree, HostedInv
<1>2. CASE HostEnds("scope_violation")
  BY <1>1, <1>2, Ended DEF Typed
<1>3. CASE HostStep([pc |-> "check_before", frozen |-> Snapshot])
  <2>1. host'.pc = "check_before" /\ host'.stage = host.stage /\ host'.frozen = Snapshot
    BY <1>3, HostStepFields DEF NoTask
  <2>2. Typed'
    BY <1>1, <2>1 DEF Typed
  <2>3. SeenAll(Snapshot)'
    BY <1>1, SnapshotSeen DEF SeenAll, Seen, Snapshot
  <2>4. SeenAll(host.frozen)'
    BY <1>1, <2>1, <2>3 DEF Snapshot
  <2>. QED
    BY <2>1, <2>2, <2>4, InRepair DEF RepairInv
<1>. QED
  BY <1>2, <1>3 DEF Freeze

LEMMA RunChecksStep ==
    ASSUME HostedInv,
           \/ RunChecks("check_before", "before", "judge_before")
           \/ RunChecks("check_after", "after", "judge_after")
    PROVE  HostedInv'
<1>1. UNCHANGED <<source, selected, hostArtifact>> /\ Typed /\ RepairInv /\ SeenAll(Snapshot)
  BY SnapshotSeen DEF RunChecks, Kept, vars, tree, HostedInv
<1>2. CASE RunChecks("check_before", "before", "judge_before")
  <2>1. PICK passed \in BOOLEAN :
          HostStep([f \in {"pc", "before"} |->
                      IF f = "pc" THEN "judge_before" ELSE [over |-> Snapshot, passed |-> passed]])
    BY <1>2 DEF RunChecks
  <2>2. /\ host'.pc = "judge_before" /\ host'.before = [over |-> Snapshot, passed |-> passed]
        /\ host'.stage = host.stage /\ host'.frozen = host.frozen
    BY <2>1, HostStepFields DEF NoTask
  <2>3. SeenAll(host.frozen)
    BY <1>1, <1>2 DEF RunChecks, HostAt, RepairInv
  <2>4. SeenAll(host.frozen)'
    BY <1>1, <2>2, <2>3 DEF SeenAll, Seen
  <2>5. Checked(host.before, host.frozen)'
    BY <1>1, <2>2, <2>3 DEF Checked, SeenAll, Seen, Snapshot, Snapshots
  <2>. QED
    BY <1>1, <2>2, <2>4, <2>5, InRepair DEF RepairInv, Typed
<1>3. CASE RunChecks("check_after", "after", "judge_after")
  <2>1. PICK passed \in BOOLEAN :
          HostStep([f \in {"pc", "after"} |->
                      IF f = "pc" THEN "judge_after" ELSE [over |-> Snapshot, passed |-> passed]])
    BY <1>3 DEF RunChecks
  <2>2. /\ host'.pc = "judge_after" /\ host'.after = [over |-> Snapshot, passed |-> passed]
        /\ host'.stage = host.stage /\ host'.frozen = host.frozen
        /\ host'.before = host.before /\ host'.patched = host.patched
    BY <2>1, HostStepFields DEF NoTask
  <2>3. FailedBefore /\ OnePatch /\ SeenAll(host.patched)
    BY <1>1, <1>3 DEF RunChecks, HostAt, RepairInv
  <2>4. FailedBefore' /\ OnePatch'
    BY <2>2, <2>3 DEF FailedBefore, OnePatch
  <2>5. SeenAll(host.patched)'
    BY <1>1, <2>2, <2>3 DEF SeenAll, Seen
  <2>6. Checked(host.after, host.patched)'
    BY <1>1, <2>2, <2>3 DEF Checked, SeenAll, Seen, Snapshot, Snapshots
  <2>. QED
    BY <1>1, <2>2, <2>4, <2>5, <2>6, InRepair DEF RepairInv, Typed
<1>. QED
  BY <1>2, <1>3

(* What failed was the frozen content, as nothing moved around the checks.  *)
LEMMA JudgeStep ==
    ASSUME HostedInv, Judge
    PROVE  HostedInv'
<1>1. UNCHANGED <<source, selected, hostArtifact>> /\ Typed /\ RepairInv /\ host.pc = "judge_before"
  BY DEF Judge, Kept, vars, tree, HostedInv, HostAt
<1>2. CASE HostEnds("scope_violation") \/ HostEnds("already_passed")
  BY <1>1, <1>2, Ended DEF Typed
<1>3. CASE Snapshot = host.frozen /\ ~host.before.passed /\ HostStep([pc |-> "patch"])
  <2>1. /\ host'.pc = "patch" /\ host'.before = host.before
        /\ host'.stage = host.stage /\ host'.frozen = host.frozen
    BY <1>3, HostStepFields DEF NoTask
  <2>2. Checked(host.before, host.frozen)
    BY <1>1 DEF RepairInv
  <2>3. host.before.over = host.frozen /\ host.before \in [over : Snapshots, passed : BOOLEAN]
    BY <1>1, <1>3, <2>2, Unmoved DEF Checked
  <2>4. FailedBefore'
    BY <1>3, <2>1, <2>3 DEF FailedBefore
  <2>. QED
    BY <1>1, <2>1, <2>4, InRepair DEF RepairInv, Typed
<1>. QED
  BY <1>2, <1>3 DEF Judge

LEMMA PatchStep ==
    ASSUME HostedInv, Patch
    PROVE  HostedInv'
<1>1. UNCHANGED <<source, hostArtifact>> /\ Typed /\ RepairInv /\ host.pc = "patch"
  BY DEF Patch, vars, tree, HostedInv, HostAt
<1>2. /\ host'.pc = "patched" /\ host'.before = host.before
      /\ host'.stage = host.stage /\ host'.frozen = host.frozen
  BY HostStepFields DEF Patch, NoTask
<1>3. Typed'
  BY <1>1, <1>2 DEF Patch, Typed
<1>4. FailedBefore'
  BY <1>1, <1>2 DEF RepairInv, FailedBefore
<1>. QED
  BY <1>2, <1>3, <1>4, InRepair DEF RepairInv

LEMMA CheckPatchStep ==
    ASSUME HostedInv, CheckPatch
    PROVE  HostedInv'
<1>1. UNCHANGED <<source, selected, hostArtifact>> /\ Typed /\ RepairInv /\ host.pc = "patched"
  BY DEF CheckPatch, Kept, vars, tree, HostedInv, HostAt
<1>2. CASE HostEnds("scope_violation") \/ HostEnds("refused")
  BY <1>1, <1>2, Ended DEF Typed
<1>3. CASE /\ source = host.frozen.protected /\ selected # host.frozen.selected
           /\ HostStep([pc |-> "check_after", patched |-> Snapshot])
  <2>1. /\ host'.pc = "check_after" /\ host'.before = host.before
        /\ host'.stage = host.stage /\ host'.frozen = host.frozen /\ host'.patched = Snapshot
    BY <1>3, HostStepFields DEF NoTask
  <2>2. FailedBefore'
    BY <1>1, <2>1 DEF RepairInv, FailedBefore
  <2>3. OnePatch'
    BY <1>3, <2>1 DEF OnePatch, Snapshot
  <2>4. SeenAll(host.patched)'
    BY <1>1, <2>1, SnapshotSeen DEF SeenAll, Seen, Snapshot
  <2>. QED
    BY <1>1, <2>1, <2>2, <2>3, <2>4, InRepair DEF RepairInv, Typed
<1>. QED
  BY <1>2, <1>3 DEF CheckPatch

(* What passed was what the patch left.                                     *)
LEMMA ConcludeStep ==
    ASSUME HostedInv, Conclude
    PROVE  HostedInv'
<1>1. UNCHANGED <<source, selected, hostArtifact>> /\ Typed /\ RepairInv /\ host.pc = "judge_after"
  BY DEF Conclude, Kept, vars, tree, HostedInv, HostAt
<1>2. CASE HostEnds("scope_violation") \/ HostEnds("failed")
  BY <1>1, <1>2, Ended DEF Typed
<1>3. CASE /\ source = host.frozen.protected /\ selected = host.patched.selected
           /\ host.after.passed /\ HostEnds("repaired")
  <2>1. FailedBefore /\ OnePatch /\ SeenAll(host.patched) /\ Checked(host.after, host.patched)
    BY <1>1 DEF RepairInv
  <2>2. host.patched = Snapshot
    BY <1>3, <2>1 DEF OnePatch, SeenAll, Snapshots, Snapshot
  <2>3. host.after.over = host.patched /\ host.after \in [over : Snapshots, passed : BOOLEAN]
    BY <1>1, <2>1, <2>2, Unmoved DEF Checked
  <2>4. /\ host'.pc = "repaired" /\ host'.stage = host.stage /\ host'.before = host.before
        /\ host'.after = host.after /\ host'.frozen = host.frozen /\ host'.patched = host.patched
    BY <1>3, HostStepFields DEF HostEnds, NoTask
  <2>5. host.after = [over |-> host.patched, passed |-> TRUE]
    BY <1>3, <2>3
  <2>6. RepairProven'
    BY <2>1, <2>4, <2>5 DEF RepairProven, FailedBefore, OnePatch
  <2>. QED
    BY <1>1, <2>4, <2>6
       DEF HostedInv, Typed, NotBegun, LifecycleInv, LifecyclePlaces, RepairInv, StagesOverOneInput, HostAt
<1>. QED
  BY <1>2, <1>3 DEF Conclude, Verdict

-----------------------------------------------------------------------------
(* The behaviour as a whole.                                                *)

LEMMA InterfereStep ==
    ASSUME HostedInv, Interfere
    PROVE  HostedInv'
<1>1. UNCHANGED host /\ source' = source
  BY DEF Interfere, tree
<1>2. selected' \in Nat /\ selected' >= selected
  BY DEF Interfere, HostedInv, Typed
<1>3. hostArtifact' = hostArtifact \/ (hostArtifact # NoFile /\ hostArtifact' = Altered(hostArtifact))
  BY DEF Interfere, Altered
<1>. QED
  BY <1>1, <1>2, <1>3, Beside

LEMMA HostedStep ==
    ASSUME HostedInv, [HostedNext]_<<vars, hosted>>
    PROVE  HostedInv'
<1>1. CASE [Next]_vars /\ UNCHANGED hosted
  <2>1. source' = source \/ (source' \in Sources /\ source'.text > source.text)
    BY <1>1, NextEdits DEF HostedInv
  <2>2. UNCHANGED <<host, hostArtifact>> /\ selected' \in Nat /\ selected' >= selected
    BY <1>1 DEF hosted, HostedInv, Typed
  <2>. QED
    BY <2>1, <2>2, Beside
<1>2. CASE BeginTask \/ Interfere
  BY <1>2, BeginStep, InterfereStep
<1>3. CASE CheckBefore \/ Execute \/ Digest \/ CheckAfter \/ Approve \/ CheckApproved
  BY <1>3, LifecycleStep
<1>4. CASE \/ Prepare \/ Freeze \/ Judge \/ Patch \/ CheckPatch \/ Conclude
           \/ RunChecks("check_before", "before", "judge_before")
           \/ RunChecks("check_after", "after", "judge_after")
  BY <1>4, PrepareStep, FreezeStep, RunChecksStep, JudgeStep, PatchStep, CheckPatchStep, ConcludeStep
<1>. QED
  BY <1>1, <1>2, <1>3, <1>4 DEF HostedNext

LEMMA HostedStart ==
    ASSUME HostedInit
    PROVE  HostedInv
<1>1. /\ source = [text |-> 0, evidence |-> 0] /\ selected = 0 /\ hostArtifact = NoFile
      /\ host.pc = "none" /\ host.stage = 1 /\ host.ran = {} /\ host.used = {} /\ host.digest = NoFile
  BY DEF HostedInit, Init, NoTask
<1>. QED
  BY <1>1 DEF HostedInv, Typed, Sources, NotBegun, LifecycleInv, LifecyclePlaces, RepairInv,
              StagesOverOneInput, RepairProven, HostAt

(* The strengthening both properties follow from.                           *)
THEOREM HostedInvariance == HostedSpec => []HostedInv
BY HostedStart, HostedStep, PTL DEF HostedSpec

(* CodeLifecycle.run: a lifecycle that ends in success ran every stage over *)
(* the inputs it was started with, and every stage after the plan was given *)
(* the artifacts digested when the plan was made, whatever is edited beside *)
(* it and however often.                                                    *)
THEOREM LifecyclesRunOneInput == HostedSpec => []StagesOverOneInput
<1>1. HostedInv => StagesOverOneInput
  BY DEF HostedInv
<1>. QED
  BY <1>1, HostedInvariance, PTL

(* CodeRepairLifecycle.run: an attempt reported as repaired failed its      *)
(* checks over the frozen content and passed them over exactly what the one *)
(* patch left, under the same protected files.                              *)
THEOREM RepairsAreProven == HostedSpec => []RepairProven
<1>1. HostedInv => RepairProven
  BY DEF HostedInv
<1>. QED
  BY <1>1, HostedInvariance, PTL
-----------------------------------------------------------------------------
(* The local lifecycle.  That a stage runs what was reviewed rests on three *)
(* things: evidence is only ever added to, so what was noted of the source  *)
(* when it was fingerprinted and when it was read lies between then and     *)
(* now; a command past its guard holds it, so the pin it checked is still   *)
(* there; and a run of the plan stage marks every command it runs beside.   *)

(* What a command, and a saved plan, note of the evidence, none of it above *)
(* n.                                                                       *)
PlanSound(plan, n) ==
    /\ plan.extensionPlan.source.evidence \in 0 .. n
    /\ ~plan.extensionPlan.retained =>
         plan.fingerprint.evidence \in 0 .. plan.extensionPlan.source.evidence
    /\ plan.clean => plan.artifact = plan.extensionPlan
    /\ plan.settings.endpoints # NoFile =>
         plan.extensionPlan.effective = plan.settings.endpoints

ScanPlaces == {"fingerprint", "ensure", "scan", "run", "attest", "save"}
DispatchPlaces == {"load", "source", "lock", "artifact", "stage"}
GuardedPlaces == {"scan", "run", "attest", "save"} \cup DispatchPlaces

(* The fields of a command, and what it may do where it stands.             *)
Placed(k) ==
    /\ DOMAIN k = DOMAIN Idle
    /\ k.op \in {"none", "scan", "plan", "apply", "test"}
    /\ k.asked \subseteq Inputs /\ k.lock \in Versions \cup {Unpinned}
    /\ k.pc \in {"idle", "guard"} \cup ScanPlaces \cup DispatchPlaces
    /\ k.pc = "guard" => k.op # "none"
    /\ k.pc \in ScanPlaces => k.op \in {"scan", "plan"}
    /\ k.pc \in DispatchPlaces => k.op \in {"apply", "test"}

(* A scan or a plan, with evidence n in the source and a as the artifact.   *)
Planning(k, n, a) ==
    /\ k.op \in {"scan", "plan"} /\ k.pc \in {"ensure", "guard", "scan", "run"} =>
         k.fingerprint.evidence \in 0 .. n
    /\ k.pc \in {"attest", "save"} => k.made.source.evidence \in 0 .. n
    /\ k.pc = "attest" \/ (k.pc = "save" /\ ~k.made.retained) =>
         k.fingerprint.evidence \in 0 .. k.made.source.evidence
    /\ k.pc = "attest" /\ ~k.disturbed => a = k.made
    /\ k.pc = "save" /\ ~k.disturbed => k.digest = k.made
    /\ k.wanted # NoFile => k.settings.endpoints = NoFile \/ k.wanted \subseteq k.settings.endpoints
    /\ k.pc \in {"attest", "save"} =>
         /\ k.wanted # NoFile => k.settings.endpoints # NoFile
         /\ k.settings.endpoints # NoFile => k.made.effective = k.settings.endpoints

(* An apply or a test, while p is pinned.                                   *)
Dispatching(k, n, p, a) ==
    /\ k.pc \in {"source", "lock", "artifact", "stage"} =>
         PlanSound(k.plan, n) /\ (k.op = "apply" => k.plan = k.reviewed)
    /\ k.pc \in {"lock", "artifact", "stage"} /\ ~k.plan.extensionPlan.retained =>
         /\ k.plan.extensionPlan.source.evidence = k.seen.evidence
         /\ k.plan.fingerprint.output \in {"absent", k.seen.output}
    /\ k.pc \in {"artifact", "stage"} => p = k.plan.lock
    /\ k.pc = "stage" /\ ~k.disturbed => a = k.plan.artifact

Sound(c) ==
    /\ Placed(command[c])
    /\ command[c].pc \in GuardedPlaces => c \in guards
    /\ c \in guards => command[c].pc # "idle"
    /\ Planning(command[c], source.evidence, artifact)
    /\ Dispatching(command[c], source.evidence, pin, artifact)

World ==
    /\ source \in Sources /\ source.evidence <= source.text
    /\ pin \in Versions \cup {Unpinned}
    /\ guards \subseteq Commands
    /\ DOMAIN command = Commands
    /\ bounds \in [operations : 0 .. MaxOperations, faults : 0 .. MaxFaults]
    /\ planFile # NoFile => PlanSound(planFile, source.evidence)

LocalInv == World /\ \A c \in Commands : Sound(c)

(* What was noted stays below the evidence as it grows.                     *)
LEMMA NotedStays ==
    ASSUME NEW n \in Nat, NEW m \in Nat, n <= m, NEW plan, PlanSound(plan, n)
    PROVE  PlanSound(plan, m)
BY DEF PlanSound

LEMMA PlanningStays ==
    ASSUME NEW n \in Nat, NEW m \in Nat, n <= m, NEW k, NEW a, Planning(k, n, a)
    PROVE  Planning(k, m, a)
BY DEF Planning

LEMMA DispatchingStays ==
    ASSUME NEW n \in Nat, NEW m \in Nat, n <= m, NEW k, NEW p, NEW a, Dispatching(k, n, p, a)
    PROVE  Dispatching(k, m, p, a)
BY NotedStays DEF Dispatching

(* A command that stands still while another one, or the environment, takes *)
(* a step that leaves the artifact alone.                                   *)
LEMMA StandsStill ==
    ASSUME World, source' \in Sources, source.evidence <= source'.evidence, artifact' = artifact,
           NEW d \in Commands, Sound(d), command'[d] = command[d],
           d \in guards => d \in guards' /\ pin' = pin,
           d \in guards' => d \in guards
    PROVE  Sound(d)'
<1>. DEFINE k == command[d]
<1>1. source.evidence \in Nat /\ source'.evidence \in Nat
  BY DEF World, Sources
<1>2. Planning(k, source'.evidence, artifact)
  BY <1>1, PlanningStays DEF Sound
<1>3. Dispatching(k, source'.evidence, pin, artifact)
  BY <1>1, DispatchingStays DEF Sound
<1>4. Dispatching(k, source'.evidence, pin', artifact)
  BY <1>3 DEF Sound, Dispatching, GuardedPlaces, DispatchPlaces
<1>. QED
  BY <1>2, <1>4 DEF Sound

(* A command beside which the plan stage was run.                           *)
LEMMA IsDisturbed ==
    ASSUME UNCHANGED <<source, pin>>, NEW d \in Commands, Sound(d),
           command'[d] = [command[d] EXCEPT !.disturbed = @ \/ command[d].pc \in {"attest", "stage"}],
           d \in guards <=> d \in guards'
    PROVE  Sound(d)'
<1>. DEFINE k == command[d]
            m == [k EXCEPT !.disturbed = @ \/ k.pc \in {"attest", "stage"}]
<1>1. DOMAIN k = DOMAIN Idle
  BY DEF Sound, Placed
<1>2. /\ \A f \in DOMAIN Idle : f # "disturbed" => m[f] = k[f]
      /\ DOMAIN m = DOMAIN Idle
      /\ ~m.disturbed => ~k.disturbed /\ k.pc \notin {"attest", "stage"}
  BY <1>1 DEF Idle
<1>3. /\ m.pc = k.pc /\ m.op = k.op /\ m.asked = k.asked /\ m.lock = k.lock
      /\ m.settings = k.settings /\ m.wanted = k.wanted
      /\ m.fingerprint = k.fingerprint /\ m.made = k.made /\ m.digest = k.digest
      /\ m.plan = k.plan /\ m.reviewed = k.reviewed /\ m.seen = k.seen
  BY <1>2 DEF Idle
<1>. HIDE DEF m
<1>4. Placed(m)
  BY <1>2, <1>3 DEF Sound, Placed
<1>5. Planning(m, source.evidence, artifact')
  BY <1>2, <1>3 DEF Sound, Planning
<1>6. Dispatching(m, source.evidence, pin, artifact')
  BY <1>2, <1>3 DEF Sound, Dispatching
<1>7. command'[d] = m
  BY DEF m
<1>. QED
  BY <1>3, <1>4, <1>5, <1>6, <1>7 DEF Sound

LEMMA IdleSound ==
    ASSUME NEW c \in Commands, command'[c] = Idle, c \notin guards'
    PROVE  Sound(c)'
BY DEF Sound, Placed, Planning, Dispatching, GuardedPlaces, ScanPlaces, DispatchPlaces, Idle

(* The step of one command is sound when it leaves that one sound.          *)
LEMMA OneMoves ==
    ASSUME LocalInv, World', NEW c \in Commands, Sound(c)',
           UNCHANGED <<source, artifact>>, pin' = pin \/ guards = {},
           \A d \in Commands \ {c} : command'[d] = command[d] /\ (d \in guards <=> d \in guards')
    PROVE  LocalInv'
<1>. SUFFICES ASSUME NEW d \in Commands \ {c} PROVE Sound(d)'
  BY DEF LocalInv
<1>1. World /\ Sound(d) /\ source' \in Sources /\ source.evidence <= source'.evidence
  BY DEF LocalInv, World, Sources
<1>. QED
  BY <1>1, StandsStill

(* What a change of some of the fields leaves.                              *)
LEMMA SetFields ==
    ASSUME LocalInv, NEW c \in Commands, NEW changes, Set(c, changes)
    PROVE  /\ \A f \in DOMAIN Idle :
                command'[c][f] = IF f \in DOMAIN changes THEN changes[f] ELSE command[c][f]
           /\ DOMAIN command'[c] = DOMAIN Idle
           /\ DOMAIN command' = Commands
           /\ \A d \in Commands \ {c} : command'[d] = command[d]
BY DEF Set, LocalInv, World

(* A command that ends, with whatever else it changes.                      *)
LEMMA EndMoves ==
    ASSUME LocalInv, World', NEW c \in Commands, End(c), UNCHANGED <<source, pin, artifact>>
    PROVE  LocalInv'
<1>1. command'[c] = Idle /\ c \notin guards'
  BY DEF End, LocalInv, World
<1>2. \A d \in Commands \ {c} : command'[d] = command[d] /\ (d \in guards <=> d \in guards')
  BY DEF End, LocalInv, World
<1>. QED
  BY <1>1, <1>2, IdleSound, OneMoves

LEMMA EndWorld ==
    ASSUME World, NEW c \in Commands, End(c), UNCHANGED <<source, pin>>,
           planFile' = planFile \/ (planFile' # NoFile => PlanSound(planFile', source.evidence)),
           bounds' = bounds \/ Spend
    PROVE  World'
<1>1. DOMAIN command' = Commands /\ guards' \subseteq Commands
  BY DEF End, World
<1>2. bounds' \in [operations : 0 .. MaxOperations, faults : 0 .. MaxFaults]
  BY BoundsAssumption DEF World, Spend
<1>. QED
  BY <1>1, <1>2 DEF World

LEMMA RefuseStep ==
    ASSUME LocalInv, NEW c \in Commands, Refuse(c)
    PROVE  LocalInv'
BY EndWorld, EndMoves DEF Refuse, LocalInv, tree, files

(* A command that moves on and changes nothing else.                        *)
LEMMA Moves ==
    ASSUME LocalInv, NEW c \in Commands, NEW changes, Set(c, changes),
           UNCHANGED <<source, pin, planFile, artifact>>, guards' \in {guards, guards \cup {c}},
           bounds' \in [operations : 0 .. MaxOperations, faults : 0 .. MaxFaults],
           Sound(c)'
    PROVE  LocalInv'
<1>1. World'
  BY SetFields DEF LocalInv, World
<1>2. \A d \in Commands \ {c} : command'[d] = command[d] /\ (d \in guards <=> d \in guards')
  BY SetFields
<1>. QED
  BY <1>1, <1>2, OneMoves
(* The commands begin.                                                      *)
LEMMA BeginWithStep ==
    ASSUME LocalInv, NEW c \in Commands, NEW changes, BeginWith(c, changes),
           DOMAIN changes \subseteq {"pc", "op", "settings", "wanted", "reviewed"},
           {"pc", "op"} \subseteq DOMAIN changes,
           "wanted" \in DOMAIN changes => "settings" \in DOMAIN changes,
           "settings" \in DOMAIN changes =>
             \/ changes.settings.endpoints = NoFile
             \/ "wanted" \in DOMAIN changes /\ changes.wanted = NoFile,
           \/ changes.pc = "fingerprint" /\ changes.op \in {"scan", "plan"}
           \/ changes.pc = "guard" /\ changes.op \in {"apply", "test"}
    PROVE  LocalInv'
<1>1. /\ command'[c].pc = changes.pc /\ command'[c].op = changes.op
      /\ command'[c].asked = command[c].asked /\ command'[c].lock = command[c].lock
      /\ DOMAIN command'[c] = DOMAIN Idle
  BY SetFields DEF BeginWith, Idle
<1>2. command[c].pc = "idle" /\ Sound(c)
  BY DEF BeginWith, At, LocalInv
<1>3. Placed(command'[c])
  BY <1>1, <1>2 DEF Sound, Placed, ScanPlaces, DispatchPlaces
<1>4. command'[c].wanted # NoFile =>
        command'[c].settings.endpoints = NoFile \/ command'[c].wanted \subseteq command'[c].settings.endpoints
  <2>1. CASE "settings" \in DOMAIN changes
    <3>1. command'[c].settings = changes.settings
      BY <2>1, SetFields DEF BeginWith, Idle
    <3>2. "wanted" \in DOMAIN changes => command'[c].wanted = changes.wanted
      BY SetFields DEF BeginWith, Idle
    <3>. QED
      BY <2>1, <3>1, <3>2
  <2>2. CASE "settings" \notin DOMAIN changes
    <3>1. command'[c].settings = command[c].settings /\ command'[c].wanted = command[c].wanted
      BY <2>2, SetFields DEF BeginWith, Idle
    <3>. QED
      BY <1>2, <3>1 DEF Sound, Planning
  <2>. QED
    BY <2>1, <2>2
<1>5. Sound(c)'
  BY <1>1, <1>2, <1>3, <1>4
     DEF BeginWith, Sound, Planning, Dispatching, GuardedPlaces, DispatchPlaces
<1>6. bounds' \in [operations : 0 .. MaxOperations, faults : 0 .. MaxFaults]
  BY BoundsAssumption DEF BeginWith, LocalInv, World
<1>. QED
  BY <1>5, <1>6, Moves DEF BeginWith, tree, files

LEMMA BeginLocal ==
    ASSUME LocalInv, NEW c \in Commands, Begin(c)
    PROVE  LocalInv'
<1>1. ASSUME NEW k, BeginWith(c, [pc |-> "fingerprint", op |-> "scan", settings |-> With(k, NoFile)])
      PROVE  LocalInv'
  <2>. DEFINE changes == [pc |-> "fingerprint", op |-> "scan", settings |-> With(k, NoFile)]
  <2>1. /\ DOMAIN changes = {"pc", "op", "settings"} /\ changes.pc = "fingerprint" /\ changes.op = "scan"
        /\ changes.settings.endpoints = NoFile
    BY DEF With
  <2>. HIDE DEF changes
  <2>. QED
    BY <1>1, <2>1, BeginWithStep DEF changes
<1>2. ASSUME NEW wanted, NEW settings \in PlanSettings(wanted),
             BeginWith(c, [pc |-> "fingerprint", op |-> "plan", settings |-> settings,
                           wanted |-> wanted])
      PROVE  LocalInv'
  <2>. DEFINE changes == [pc |-> "fingerprint", op |-> "plan", settings |-> settings, wanted |-> wanted]
  <2>1. settings.endpoints = NoFile \/ wanted = NoFile
    BY <1>2 DEF PlanSettings, With
  <2>2. /\ DOMAIN changes = {"pc", "op", "settings", "wanted"} /\ changes.pc = "fingerprint"
        /\ changes.op = "plan" /\ changes.settings = settings /\ changes.wanted = wanted
    OBVIOUS
  <2>. HIDE DEF changes
  <2>. QED
    BY <1>2, <2>1, <2>2, BeginWithStep DEF changes
<1>3. CASE BeginWith(c, [pc |-> "guard", op |-> "apply", reviewed |-> planFile])
  BY <1>3, BeginWithStep
<1>4. CASE BeginWith(c, [pc |-> "guard", op |-> "test"])
  BY <1>4, BeginWithStep
<1>. QED
  BY <1>1, <1>2, <1>3, <1>4 DEF Begin

(* What a command that stands somewhere keeps when only its place changes.  *)
LEMMA StepFields ==
    ASSUME LocalInv, NEW c \in Commands, NEW pc, Step(c, pc)
    PROVE  /\ command'[c].pc = pc /\ DOMAIN command'[c] = DOMAIN Idle
           /\ \A f \in DOMAIN Idle \ {"pc"} : command'[c][f] = command[c][f]
           /\ command'[c].op = command[c].op /\ command'[c].asked = command[c].asked
           /\ command'[c].lock = command[c].lock
           /\ command'[c].settings = command[c].settings /\ command'[c].wanted = command[c].wanted
           /\ command'[c].fingerprint = command[c].fingerprint /\ command'[c].plan = command[c].plan
           /\ command'[c].reviewed = command[c].reviewed /\ command'[c].seen = command[c].seen
           /\ command'[c].disturbed = command[c].disturbed
BY SetFields DEF Step, Idle

LEMMA TakeFingerprintStep ==
    ASSUME LocalInv, NEW c \in Commands, TakeFingerprint(c)
    PROVE  LocalInv'
<1>1. /\ command'[c].pc = "ensure" /\ command'[c].op = command[c].op
      /\ command'[c].asked = command[c].asked /\ command'[c].lock = command[c].lock
      /\ command'[c].settings = command[c].settings /\ command'[c].wanted = command[c].wanted
        /\ command'[c].fingerprint = Whole
      /\ DOMAIN command'[c] = DOMAIN Idle
  BY SetFields DEF TakeFingerprint, Idle
<1>2. command[c].pc = "fingerprint" /\ Sound(c) /\ source.evidence \in Nat
  BY DEF TakeFingerprint, At, LocalInv, World, Sources
<1>3. Placed(command'[c])
  BY <1>1, <1>2 DEF Sound, Placed, ScanPlaces, DispatchPlaces
<1>4. Sound(c)'
  BY <1>1, <1>2, <1>3
     DEF TakeFingerprint, tree, files, Sound, Planning, Dispatching, GuardedPlaces, DispatchPlaces, Whole
<1>. QED
  BY <1>4, Moves DEF TakeFingerprint, tree, files, LocalInv, World

LEMMA EnsureEnabledStep ==
    ASSUME LocalInv, NEW c \in Commands, EnsureEnabled(c)
    PROVE  LocalInv'
<1>1. CASE Refuse(c)
  BY <1>1, RefuseStep
<1>2. CASE /\ Step(c, "guard") /\ UNCHANGED <<tree, guards, files, bounds>>
           /\ pin' = pin \/ (guards = {} /\ pin' \in Versions)
  <2>1. command[c].pc = "ensure" /\ Sound(c)
    BY DEF EnsureEnabled, At, LocalInv
  <2>2. Placed(command'[c])
    BY <1>2, <2>1, StepFields DEF Sound, Placed, ScanPlaces, DispatchPlaces
  <2>3. Sound(c)'
    BY <1>2, <2>1, <2>2, StepFields
       DEF tree, files, Sound, Placed, Planning, Dispatching, GuardedPlaces, DispatchPlaces, ScanPlaces
  <2>4. World'
    BY <1>2, SetFields DEF Step, LocalInv, World, tree, files
  <2>5. \A d \in Commands \ {c} : command'[d] = command[d]
    BY <1>2, SetFields DEF Step
  <2>. QED
    BY <1>2, <2>3, <2>4, <2>5, OneMoves DEF tree, files
<1>. QED
  BY <1>1, <1>2 DEF EnsureEnabled

LEMMA GuardStep ==
    ASSUME LocalInv, NEW c \in Commands, Guard(c)
    PROVE  LocalInv'
<1>1. CASE Refuse(c)
  BY <1>1, RefuseStep
<1>2. command[c].pc = "guard" /\ Sound(c)
  BY DEF Guard, At, LocalInv
<1>3. CASE /\ command[c].op \in {"apply", "test"} /\ Guarded(c, [pc |-> "load"])
           /\ UNCHANGED <<tree, pin, files, bounds>>
  <2>1. /\ command'[c].pc = "load" /\ command'[c].op = command[c].op
        /\ command'[c].asked = command[c].asked /\ command'[c].lock = command[c].lock
        /\ command'[c].settings = command[c].settings /\ command'[c].wanted = command[c].wanted
        /\ DOMAIN command'[c] = DOMAIN Idle
    BY <1>3, SetFields DEF Guarded, Idle
  <2>2. Placed(command'[c])
    BY <1>2, <1>3, <2>1 DEF Sound, Placed, ScanPlaces, DispatchPlaces
  <2>3. Sound(c)'
    BY <1>2, <1>3, <2>1, <2>2 DEF Guarded, Sound, Planning, Dispatching
  <2>. QED
    BY <1>3, <2>3, Moves DEF Guarded, tree, files, LocalInv, World
<1>4. ASSUME NEW lock \in Versions \cup {Unpinned}, command[c].op \in {"scan", "plan"},
             Guarded(c, [pc |-> "scan", lock |-> lock]), UNCHANGED <<tree, pin, files, bounds>>
      PROVE  LocalInv'
  <2>1. /\ command'[c].pc = "scan" /\ command'[c].op = command[c].op
        /\ command'[c].asked = command[c].asked /\ command'[c].lock = lock
        /\ command'[c].settings = command[c].settings /\ command'[c].wanted = command[c].wanted
        /\ command'[c].fingerprint = command[c].fingerprint
        /\ DOMAIN command'[c] = DOMAIN Idle
    BY <1>4, SetFields DEF Guarded, Idle
  <2>2. Placed(command'[c])
    BY <1>2, <1>4, <2>1 DEF Sound, Placed, ScanPlaces, DispatchPlaces, LocalInv, World
  <2>3. Sound(c)'
    BY <1>2, <1>4, <2>1, <2>2
       DEF Guarded, Sound, Placed, Planning, Dispatching, tree
  <2>. QED
    BY <1>4, <2>3, Moves DEF Guarded, tree, files, LocalInv, World
<1>5. pin \in Versions \cup {Unpinned}
  BY DEF LocalInv, World
<1>. QED
  BY <1>1, <1>3, <1>4, <1>5 DEF Guard

-----------------------------------------------------------------------------
(* A scan or a plan whose scan is there goes on to its plan stage.          *)
LEMMA ToRun ==
    ASSUME LocalInv, NEW c \in Commands, command[c].pc = "scan", command[c].op = "plan",
           Step(c, "run"), UNCHANGED <<source, pin, guards, planFile, artifact, bounds>>
    PROVE  LocalInv'
<1>1. Sound(c)
  BY DEF LocalInv
<1>2. Placed(command'[c])
  BY <1>1, StepFields DEF Sound, Placed, ScanPlaces, DispatchPlaces
<1>3. Sound(c)'
  BY <1>1, <1>2, StepFields
     DEF Sound, Planning, Dispatching, GuardedPlaces, DispatchPlaces
<1>. QED
  BY <1>3, Moves DEF Step, LocalInv, World

LEMMA ScanStep ==
    ASSUME LocalInv, NEW c \in Commands, ReuseScan(c) \/ Scan(c)
    PROVE  LocalInv'
<1>1. CASE ReuseScan(c)
  BY <1>1, ToRun DEF ReuseScan, At, tree, files
<1>2. CASE Scan(c) /\ Step(c, "run") /\ command[c].op = "plan" /\ UNCHANGED <<guards, bounds>>
  BY <1>2, ToRun DEF Scan, At, tree
<1>3. CASE Scan(c) /\ End(c) /\ (bounds' = bounds \/ Spend)
  BY <1>3, EndWorld, EndMoves DEF Scan, LocalInv, tree
<1>. QED
  BY <1>1, <1>2, <1>3 DEF Scan

(* A run of the plan stage: the command it belongs to, and the others.      *)
LEMMA DisturbFields ==
    ASSUME LocalInv, NEW c \in Commands, NEW changes, Disturb(c, changes)
    PROVE  /\ DOMAIN command' = Commands
           /\ DOMAIN command'[c] = DOMAIN Idle
           /\ \A f \in DOMAIN Idle :
                command'[c][f] = IF f \in DOMAIN changes THEN changes[f] ELSE command[c][f]
BY DEF Disturb

LEMMA OthersDisturbed ==
    ASSUME LocalInv, NEW c \in Commands, NEW changes, Disturb(c, changes),
           UNCHANGED <<source, pin>>, guards' \in {guards, guards \ {c}},
           NEW d \in Commands \ {c}
    PROVE  Sound(d)'
<1>1. command'[d] = [command[d] EXCEPT !.disturbed = @ \/ command[d].pc \in {"attest", "stage"}]
  BY DEF Disturb
<1>. QED
  BY <1>1, IsDisturbed DEF LocalInv

(* The plan stage has run, and the command ends.                            *)
LEMMA EndAfterRunStep ==
    ASSUME LocalInv, NEW c \in Commands, EndAfterRun(c), UNCHANGED <<source, pin, planFile>>,
           bounds' = bounds \/ Spend
    PROVE  LocalInv'
<1>1. Disturb(c, Idle) /\ guards' = guards \ {c}
  BY DEF EndAfterRun
<1>2. DOMAIN command' = Commands /\ DOMAIN command'[c] = DOMAIN Idle
  BY <1>1, DisturbFields
<1>3. command'[c] = [f \in DOMAIN Idle |-> Idle[f]]
  BY <1>1 DEF Disturb
<1>4. command'[c] = Idle
  BY <1>3 DEF Idle
<1>5. Sound(c)'
  BY <1>1, <1>4, IdleSound
<1>6. bounds' \in [operations : 0 .. MaxOperations, faults : 0 .. MaxFaults]
  BY BoundsAssumption DEF LocalInv, World, Spend
<1>7. World'
  BY <1>1, <1>2, <1>6 DEF LocalInv, World
<1>. QED
  BY <1>1, <1>5, <1>7, OthersDisturbed DEF LocalInv

(* The first run of a plan whose endpoints are named, after which they are  *)
(* in the settings.                                                         *)
LEMMA ResolveScopeStep ==
    ASSUME LocalInv, NEW c \in Commands, ResolveScope(c)
    PROVE  LocalInv'
<1>1. UNCHANGED <<source, output, pin, scanFile, planFile, bounds>> /\ command[c].pc = "run" /\ Sound(c)
  BY DEF ResolveScope, At, tree, LocalInv
<1>2. CASE EndAfterRun(c)
  BY <1>1, <1>2, EndAfterRunStep
<1>3. ASSUME NEW requested, NEW retained,
             Disturb(c, [wanted |-> requested,
                         settings |-> With(command[c].settings.chosen, requested \cup retained)]),
             guards' = guards
      PROVE  LocalInv'
  <2>. DEFINE settings == With(command[c].settings.chosen, requested \cup retained)
  <2>1. /\ command'[c].pc = command[c].pc /\ command'[c].op = command[c].op
        /\ command'[c].fingerprint = command[c].fingerprint /\ command'[c].lock = command[c].lock
        /\ command'[c].asked = command[c].asked
        /\ command'[c].wanted = requested /\ command'[c].settings = settings
        /\ DOMAIN command'[c] = DOMAIN Idle /\ DOMAIN command' = Commands
    BY <1>3, DisturbFields DEF Idle
  <2>2. requested \subseteq settings.endpoints
    BY DEF With
  <2>3. Placed(command'[c])
    BY <1>1, <2>1 DEF Sound, Placed
  <2>4. Planning(command'[c], source.evidence, artifact')
    BY <1>1, <2>1, <2>2 DEF Sound, Placed, Planning
  <2>5. Sound(c)'
    BY <1>1, <1>3, <2>1, <2>3, <2>4 DEF Sound, Dispatching, GuardedPlaces
  <2>6. World'
    BY <1>1, <1>3, <2>1 DEF LocalInv, World
  <2>. QED
    BY <1>1, <1>3, <2>5, <2>6, OthersDisturbed DEF LocalInv
<1>. QED
  BY <1>2, <1>3 DEF ResolveScope

LEMMA RunPlanStep ==
    ASSUME LocalInv, NEW c \in Commands, RunPlan(c)
    PROVE  LocalInv'
<1>1. UNCHANGED <<source, output, pin, scanFile, planFile, bounds>> /\ command[c].pc = "run"
      /\ Resolved(c) /\ Sound(c) /\ source.evidence \in Nat
  BY DEF RunPlan, At, tree, LocalInv, World, Sources
<1>2. CASE EndAfterRun(c)
  BY <1>1, <1>2, EndAfterRunStep
<1>3. ASSUME NEW made, made.source = source, artifact' = made, guards' = guards,
             command[c].settings.endpoints # NoFile => made.effective = command[c].settings.endpoints,
             Disturb(c, [pc |-> "attest", asked |-> {}, made |-> made])
      PROVE  LocalInv'
  <2>1. /\ command'[c].pc = "attest" /\ command'[c].made = made /\ command'[c].op = command[c].op
        /\ command'[c].fingerprint = command[c].fingerprint /\ command'[c].lock = command[c].lock
        /\ command'[c].asked = {}
        /\ command'[c].settings = command[c].settings /\ command'[c].wanted = command[c].wanted
        /\ DOMAIN command'[c] = DOMAIN Idle /\ DOMAIN command' = Commands
    BY <1>3, DisturbFields DEF Idle
  <2>2. Placed(command'[c])
    BY <1>1, <2>1 DEF Sound, Placed, ScanPlaces, DispatchPlaces
  <2>3. Planning(command'[c], source.evidence, artifact')
    BY <1>1, <1>3, <2>1 DEF Sound, Placed, Planning, ScanPlaces, Resolved
  <2>4. Sound(c)'
    BY <1>1, <1>3, <2>1, <2>2, <2>3 DEF Sound, Dispatching, GuardedPlaces
  <2>5. World'
    BY <1>1, <1>3, <2>1 DEF LocalInv, World
  <2>. QED
    BY <1>1, <1>3, <2>4, <2>5, OthersDisturbed DEF LocalInv
<1>4. ASSUME NEW retained, NEW effective, artifact' = Made(c, retained, effective), Honored(c, effective),
             Disturb(c, [pc |-> "attest", asked |-> {}, made |-> Made(c, retained, effective)]),
             guards' = guards
      PROVE  LocalInv'
  BY <1>3, <1>4 DEF Made, Honored
<1>. QED
  BY <1>2, <1>4 DEF RunPlan

LEMMA AnswerInputsStep ==
    ASSUME LocalInv, NEW c \in Commands, AnswerInputs(c)
    PROVE  LocalInv'
<1>1. PICK names \in SUBSET Inputs, k \in Configurations :
        Set(c, [asked |-> command[c].asked \cup names,
                settings |-> With(k, command[c].settings.endpoints)])
  BY DEF AnswerInputs
<1>2. UNCHANGED <<source, pin, guards, planFile, artifact, bounds>> /\ command[c].pc = "run" /\ Sound(c)
  BY DEF AnswerInputs, At, tree, files, LocalInv
<1>. DEFINE settings == With(k, command[c].settings.endpoints)
<1>3. /\ command'[c].pc = command[c].pc /\ command'[c].op = command[c].op
      /\ command'[c].fingerprint = command[c].fingerprint /\ command'[c].lock = command[c].lock
      /\ command'[c].asked = command[c].asked \cup names
      /\ command'[c].settings = settings /\ command'[c].wanted = command[c].wanted
      /\ DOMAIN command'[c] = DOMAIN Idle
  BY <1>1, SetFields DEF Idle
<1>4. settings.endpoints = command[c].settings.endpoints
  BY DEF With
<1>5. Placed(command'[c])
  BY <1>2, <1>3 DEF Sound, Placed
<1>6. Sound(c)'
  BY <1>2, <1>3, <1>4, <1>5 DEF Sound, Placed, Planning, Dispatching, GuardedPlaces
<1>. QED
  BY <1>1, <1>2, <1>6, Moves DEF LocalInv, World

LEMMA FailPlanStep ==
    ASSUME LocalInv, NEW c \in Commands, FailPlan(c)
    PROVE  LocalInv'
<1>1. UNCHANGED <<source, output, pin, scanFile, planFile>> /\ Spend
  BY DEF FailPlan, tree
<1>2. CASE artifact' = artifact /\ End(c)
  BY <1>1, <1>2, EndWorld, EndMoves DEF LocalInv
<1>3. CASE EndAfterRun(c)
  BY <1>1, <1>3, EndAfterRunStep
<1>. QED
  BY <1>2, <1>3 DEF FailPlan

LEMMA AttestStep ==
    ASSUME LocalInv, NEW c \in Commands, Attest(c)
    PROVE  LocalInv'
<1>1. UNCHANGED <<source, pin, guards, planFile, artifact, bounds>> /\ command[c].pc = "attest" /\ Sound(c)
  BY DEF Attest, At, tree, files, LocalInv
<1>2. /\ command'[c].pc = "save" /\ command'[c].op = command[c].op
      /\ command'[c].fingerprint = Attested(c) /\ command'[c].lock = command[c].lock
      /\ command'[c].asked = command[c].asked /\ command'[c].settings = command[c].settings /\ command'[c].wanted = command[c].wanted
      /\ command'[c].made = command[c].made /\ command'[c].disturbed = command[c].disturbed
      /\ command'[c].digest = artifact
      /\ DOMAIN command'[c] = DOMAIN Idle
  BY SetFields DEF Attest, Idle
<1>3. Placed(command'[c])
  BY <1>1, <1>2 DEF Sound, Placed, ScanPlaces, DispatchPlaces
<1>4. Planning(command'[c], source.evidence, artifact)
  BY <1>1, <1>2 DEF Sound, Planning, Attested
<1>5. Sound(c)'
  BY <1>1, <1>2, <1>3, <1>4 DEF Sound, Dispatching, GuardedPlaces
<1>. QED
  BY <1>1, <1>5, Moves DEF Attest, LocalInv, World

(* The saved plan is sound, so that what is dispatched from it is.          *)
LEMMA SavePlanStep ==
    ASSUME LocalInv, NEW c \in Commands, SavePlan(c)
    PROVE  LocalInv'
<1>1. UNCHANGED <<source, pin, artifact, bounds>> /\ command[c].pc = "save" /\ Sound(c) /\ End(c)
  BY DEF SavePlan, At, tree, LocalInv
<1>2. PlanSound(planFile', source.evidence)
  BY <1>1 DEF SavePlan, PlanSound, Sound, Planning
<1>. QED
  BY <1>1, <1>2, EndWorld, EndMoves DEF LocalInv

-----------------------------------------------------------------------------
(* _dispatch_locked: each check leaves what it found in the command.        *)

LEMMA LoadPlanStep ==
    ASSUME LocalInv, NEW c \in Commands, LoadPlan(c)
    PROVE  LocalInv'
<1>1. CASE Refuse(c)
  BY <1>1, RefuseStep
<1>2. CASE /\ planFile # NoFile /\ Reviewed(c) /\ Set(c, [pc |-> "source", plan |-> planFile])
           /\ UNCHANGED <<tree, pin, guards, files, bounds>>
  <2>1. command[c].pc = "load" /\ Sound(c)
    BY DEF LoadPlan, At, LocalInv
  <2>2. /\ command'[c].pc = "source" /\ command'[c].op = command[c].op
        /\ command'[c].asked = command[c].asked /\ command'[c].lock = command[c].lock
        /\ command'[c].settings = command[c].settings /\ command'[c].wanted = command[c].wanted
        /\ command'[c].plan = planFile
        /\ command'[c].reviewed = command[c].reviewed
        /\ DOMAIN command'[c] = DOMAIN Idle
    BY <1>2, SetFields DEF Idle
  <2>3. Placed(command'[c])
    BY <2>1, <2>2 DEF Sound, Placed, ScanPlaces, DispatchPlaces
  <2>4. PlanSound(planFile, source.evidence)
    BY <1>2 DEF LocalInv, World
  <2>5. Dispatching(command'[c], source.evidence, pin, artifact)
    BY <1>2, <2>2, <2>4 DEF Dispatching, Reviewed
  <2>6. Sound(c)'
    BY <1>2, <2>1, <2>2, <2>3, <2>5 DEF tree, files, Sound, Planning, GuardedPlaces, DispatchPlaces
  <2>. QED
    BY <1>2, <2>6, Moves DEF tree, files, LocalInv, World
<1>. QED
  BY <1>1, <1>2 DEF LoadPlan

LEMMA CheckSourceStep ==
    ASSUME LocalInv, NEW c \in Commands, CheckSource(c)
    PROVE  LocalInv'
<1>1. CASE Refuse(c)
  BY <1>1, RefuseStep
<1>2. CASE /\ Matches(command[c].plan) /\ Set(c, [pc |-> "lock", seen |-> Whole])
           /\ UNCHANGED <<tree, pin, guards, files, bounds>>
  <2>1. command[c].pc = "source" /\ Sound(c) /\ source.evidence \in Nat
    BY DEF CheckSource, At, LocalInv, World, Sources
  <2>2. /\ command'[c].pc = "lock" /\ command'[c].op = command[c].op
        /\ command'[c].asked = command[c].asked /\ command'[c].lock = command[c].lock
        /\ command'[c].settings = command[c].settings /\ command'[c].wanted = command[c].wanted
        /\ command'[c].plan = command[c].plan
        /\ command'[c].reviewed = command[c].reviewed /\ command'[c].seen = Whole
        /\ DOMAIN command'[c] = DOMAIN Idle
    BY <1>2, SetFields DEF Idle
  <2>3. Placed(command'[c])
    BY <2>1, <2>2 DEF Sound, Placed, ScanPlaces, DispatchPlaces
  <2>. DEFINE plan == command[c].plan
  <2>4. PlanSound(plan, source.evidence) /\ (command[c].op = "apply" => plan = command[c].reviewed)
    BY <2>1 DEF Sound, Dispatching
  <2>5. plan.fingerprint.evidence = source.evidence /\ plan.fingerprint.output \in {"absent", output}
    BY <1>2 DEF Matches, Excluded, Whole
  <2>6. ~plan.extensionPlan.retained => plan.extensionPlan.source.evidence = source.evidence
    BY <2>1, <2>4, <2>5 DEF PlanSound
  <2>7. Whole.evidence = source.evidence /\ Whole.output = output
    BY DEF Whole
  <2>8. Dispatching(command'[c], source.evidence, pin, artifact)
    BY <2>2, <2>4, <2>5, <2>6, <2>7 DEF Dispatching
  <2>9. Sound(c)'
    BY <1>2, <2>1, <2>2, <2>3, <2>8 DEF tree, files, Sound, Planning, GuardedPlaces, DispatchPlaces
  <2>. QED
    BY <1>2, <2>9, Moves DEF tree, files, LocalInv, World
<1>. QED
  BY <1>1, <1>2 DEF CheckSource

LEMMA CheckLockStep ==
    ASSUME LocalInv, NEW c \in Commands, CheckLock(c)
    PROVE  LocalInv'
<1>1. CASE Refuse(c)
  BY <1>1, RefuseStep
<1>2. CASE /\ pin = command[c].plan.lock /\ Step(c, "artifact")
           /\ UNCHANGED <<tree, pin, guards, files, bounds>>
  <2>1. command[c].pc = "lock" /\ Sound(c)
    BY DEF CheckLock, At, LocalInv
  <2>2. Placed(command'[c])
    BY <1>2, <2>1, StepFields DEF Sound, Placed, ScanPlaces, DispatchPlaces
  <2>3. Dispatching(command'[c], source.evidence, pin, artifact)
    BY <1>2, <2>1, StepFields DEF Sound, Dispatching
  <2>4. Sound(c)'
    BY <1>2, <2>1, <2>2, <2>3, StepFields
       DEF tree, files, Sound, Planning, GuardedPlaces, DispatchPlaces
  <2>. QED
    BY <1>2, <2>4, Moves DEF Step, tree, files, LocalInv, World
<1>. QED
  BY <1>1, <1>2 DEF CheckLock

LEMMA CheckArtifactStep ==
    ASSUME LocalInv, NEW c \in Commands, CheckArtifact(c)
    PROVE  LocalInv'
<1>1. CASE Refuse(c)
  BY <1>1, RefuseStep
<1>2. CASE /\ artifact = command[c].plan.artifact /\ Step(c, "stage")
           /\ UNCHANGED <<tree, pin, guards, files, bounds>>
  <2>1. command[c].pc = "artifact" /\ Sound(c)
    BY DEF CheckArtifact, At, LocalInv
  <2>2. Placed(command'[c])
    BY <1>2, <2>1, StepFields DEF Sound, Placed, ScanPlaces, DispatchPlaces
  <2>3. Dispatching(command'[c], source.evidence, pin, artifact)
    BY <1>2, <2>1, StepFields DEF Sound, Dispatching
  <2>4. Sound(c)'
    BY <1>2, <2>1, <2>2, <2>3, StepFields
       DEF tree, files, Sound, Planning, GuardedPlaces, DispatchPlaces
  <2>. QED
    BY <1>2, <2>4, Moves DEF Step, tree, files, LocalInv, World
<1>. QED
  BY <1>1, <1>2 DEF CheckArtifact, SameArtifact

LEMMA RunStageStep ==
    ASSUME LocalInv, NEW c \in Commands, RunStage(c)
    PROVE  LocalInv'
BY EndWorld, EndMoves DEF RunStage, LocalInv, files

-----------------------------------------------------------------------------
(* Around the commands, and the behaviour as a whole.                       *)

(* A source that gets no less evidence, by whomever it is changed.          *)
LEMMA EditLocal ==
    ASSUME LocalInv, source' \in Sources, source'.evidence <= source'.text,
           source.evidence <= source'.evidence,
           UNCHANGED <<pin, guards, files, command, bounds>>
    PROVE  LocalInv'
<1>1. source.evidence \in Nat /\ source'.evidence \in Nat
  BY DEF LocalInv, World, Sources
<1>2. planFile # NoFile => PlanSound(planFile, source'.evidence)
  BY <1>1, NotedStays DEF LocalInv, World
<1>3. World'
  BY <1>2 DEF LocalInv, World, files
<1>. QED
  BY <1>3, StandsStill DEF LocalInv, files

LEMMA ChangePinStep ==
    ASSUME LocalInv, ChangePin
    PROVE  LocalInv'
<1>1. guards = {} /\ guards' = {} /\ UNCHANGED <<source, planFile, artifact, command>>
      /\ pin' \in Versions \cup {Unpinned}
  BY DEF ChangePin, tree, files
<1>2. bounds' \in [operations : 0 .. MaxOperations, faults : 0 .. MaxFaults]
  BY BoundsAssumption DEF ChangePin, LocalInv, World, Spend
<1>3. World'
  BY <1>1, <1>2 DEF LocalInv, World
<1>4. source' \in Sources /\ source.evidence <= source'.evidence
  BY <1>1 DEF LocalInv, World, Sources
<1>. QED
  BY <1>1, <1>3, <1>4, StandsStill DEF LocalInv

LEMMA LocalStep ==
    ASSUME LocalInv, Next
    PROVE  LocalInv'
<1>1. ASSUME NEW c \in Commands, CommandStep(c)
      PROVE  LocalInv'
  BY <1>1, TakeFingerprintStep, EnsureEnabledStep, GuardStep, ScanStep, RunPlanStep, AnswerInputsStep,
     ResolveScopeStep,
     FailPlanStep, AttestStep, SavePlanStep, LoadPlanStep, CheckSourceStep, CheckLockStep,
     CheckArtifactStep, RunStageStep DEF CommandStep
<1>2. ASSUME NEW c \in Commands, Crash(c)
      PROVE  LocalInv'
  BY <1>2, EndWorld, EndMoves DEF Crash, LocalInv, tree, files
<1>3. CASE Edit
  <2>1. /\ source' \in Sources /\ source'.evidence <= source'.text
        /\ source.evidence <= source'.evidence
    BY <1>3 DEF Edit, LocalInv, World, Sources
  <2>. QED
    BY <1>3, <2>1, EditLocal DEF Edit
<1>. QED
  BY <1>1, <1>2, <1>3, BeginLocal, ChangePinStep DEF Next

(* A task of the host only spends bounds and edits the source.              *)
LEMMA LocalUntouched ==
    ASSUME LocalInv, UNCHANGED vars
    PROVE  LocalInv'
<1>1. UNCHANGED <<source, pin, guards, planFile, artifact, command, bounds>>
  BY DEF vars, tree, files
<1>. QED
  BY <1>1 DEF LocalInv, World, Sound

LEMMA LocalBounds ==
    ASSUME LocalInv, UNCHANGED <<tree, pin, guards, files, command>>,
           bounds' \in [operations : 0 .. MaxOperations, faults : 0 .. MaxFaults]
    PROVE  LocalInv'
<1>1. UNCHANGED <<source, pin, guards, planFile, artifact, command>>
  BY DEF tree, files
<1>. QED
  BY <1>1 DEF LocalInv, World, Sound

LEMMA LocalHosted ==
    ASSUME LocalInv, [HostedNext]_<<vars, hosted>>
    PROVE  LocalInv'
<1>1. CASE Next
  BY <1>1, LocalStep
<1>2. CASE UNCHANGED vars
  BY <1>2, LocalUntouched
<1>3. CASE BeginTask
  <2>1. bounds' \in [operations : 0 .. MaxOperations, faults : 0 .. MaxFaults]
    BY <1>3, BoundsAssumption DEF BeginTask, LocalInv, World
  <2>. QED
    BY <1>3, <2>1, LocalBounds DEF BeginTask
<1>4. CASE Prepare
  <2>1. /\ source' \in Sources /\ source'.evidence <= source'.text
        /\ source.evidence <= source'.evidence
    BY <1>4 DEF Prepare, LocalInv, World, Sources
  <2>. QED
    BY <1>4, <2>1, EditLocal DEF Prepare
<1>5. CASE Interfere
  <2>1. bounds' \in [operations : 0 .. MaxOperations, faults : 0 .. MaxFaults]
    BY <1>5, BoundsAssumption DEF Interfere, LocalInv, World, Spend
  <2>. QED
    BY <1>5, <2>1, LocalBounds DEF Interfere
<1>6. CASE \/ CheckBefore \/ Execute \/ Digest \/ CheckAfter \/ Approve \/ CheckApproved
           \/ Freeze \/ Judge \/ Patch \/ CheckPatch \/ Conclude
           \/ RunChecks("check_before", "before", "judge_before")
           \/ RunChecks("check_after", "after", "judge_after")
  <2>1. UNCHANGED vars
    BY <1>6 DEF CheckBefore, Execute, Digest, CheckAfter, Approve, CheckApproved, Freeze, Judge,
                Patch, CheckPatch, Conclude, RunChecks, Kept
  <2>. QED
    BY <2>1, LocalUntouched
<1>. QED
  BY <1>1, <1>2, <1>3, <1>4, <1>5, <1>6 DEF HostedNext

LEMMA LocalStart ==
    ASSUME HostedInit
    PROVE  LocalInv
<1>1. \A c \in Commands : command[c] = Idle /\ c \notin guards
  BY DEF HostedInit, Init
<1>2. ASSUME NEW c \in Commands PROVE Sound(c)
  BY <1>1 DEF Sound, Placed, Planning, Dispatching, GuardedPlaces, ScanPlaces, DispatchPlaces, Idle
<1>3. World
  BY BoundsAssumption DEF HostedInit, Init, World, Sources
<1>. QED
  BY <1>2, <1>3 DEF LocalInv

(* The strengthening both properties of the local lifecycle follow from.    *)
THEOREM LocalInvariance == HostedSpec => []LocalInv
BY LocalStart, LocalHosted, PTL DEF HostedSpec

(* CodeRuntime._dispatch_locked: a stage runs the plan that was reviewed,   *)
(* made from the evidence it has checked, with the extension the project    *)
(* still pins and, unless another plan was run beside, on the artifact that *)
(* was reviewed; for any number of commands, edits and crashes.             *)
THEOREM StagesRunWhatWasReviewed == HostedSpec => []StageAsReviewed
<1>1. ASSUME LocalInv PROVE TypeOK
  <2>1. \A c \in Commands : Placed(command[c]) /\ (c \in guards => command[c].pc # "idle")
    BY <1>1 DEF LocalInv, Sound
  <2>2. World
    BY <1>1 DEF LocalInv
  <2>. QED
    BY <2>1, <2>2 DEF World, Sources, Placed, TypeOK, At
<1>2. ASSUME LocalInv PROVE NothingUnreviewed
  BY <1>2 DEF LocalInv, Sound, Dispatching, NothingUnreviewed, At
<1>3. ASSUME LocalInv PROVE ArtifactAsReviewed
  BY <1>3 DEF LocalInv, Sound, Dispatching, PlanSound, ArtifactAsReviewed, At
<1>4. LocalInv => StageAsReviewed
  BY <1>1, <1>2, <1>3 DEF StageAsReviewed
<1>. QED
  BY <1>4, LocalInvariance, PTL

(* CodeRuntime.plan: the endpoints a caller names are among those the       *)
(* extension plans, and a stage whose plan has a selection is given an      *)
(* artifact for exactly these endpoints, unless another plan was run beside *)
(* it; for any number of commands, selections, inputs and failed plans.     *)
THEOREM SelectionsAreHonored == HostedSpec => []SelectionHonored
<1>1. ASSUME LocalInv, NEW c \in Commands, command[c].pc \in {"attest", "save"}, command[c].wanted # NoFile
      PROVE  /\ command[c].settings.endpoints # NoFile
             /\ command[c].wanted \subseteq command[c].settings.endpoints
  <2>1. Planning(command[c], source.evidence, artifact)
    BY <1>1 DEF LocalInv, Sound
  <2>. QED
    BY <1>1, <2>1, Zenon DEF Planning
<1>2. ASSUME LocalInv, NEW c \in Commands, command[c].pc = "stage", command[c].plan.clean,
             ~command[c].disturbed, command[c].plan.settings.endpoints # NoFile
      PROVE  artifact.effective = command[c].plan.settings.endpoints
  <2>1. Dispatching(command[c], source.evidence, pin, artifact)
    BY <1>2 DEF LocalInv, Sound
  <2>2. artifact = command[c].plan.artifact /\ PlanSound(command[c].plan, source.evidence)
    BY <1>2, <2>1 DEF Dispatching
  <2>. QED
    BY <1>2, <2>2 DEF PlanSound
<1>3. LocalInv => SelectionHonored
  BY <1>1, <1>2 DEF SelectionHonored, At
<1>. QED
  BY <1>3, LocalInvariance, PTL

-----------------------------------------------------------------------------
(* The terminal interface.                                                 *)

Tasks == {"none", "stage", "install", "poll", "refresh"}
LocalPlaces == {"starting", "running", "answer"}
PollPlaces == {"asking", "settled", "pending", "failed", "timed_out"}
Threads == [task : Tasks, command : LocalStages \cup {"none"}, pc : {"done"} \cup LocalPlaces \cup PollPlaces,
            hash : Hashes, job : Jobs \cup {NoJob}, screen : 0..MaxScreens,
            cancelled : BOOLEAN, deadline : BOOLEAN]

Stages == [kind : {"stage"}, command : LocalStages, of : {0}]
Screens == {Status} \cup Stages
           \cup [kind : {"confirm"}, command : {"apply"}, of : Hashes]
           \cup [kind : {"install"}, command : {"none"}, of : {0}]
           \cup [kind : {"monitor"}, command : {"none"}, of : Jobs]

SessionTyped ==
    /\ stack \in Seq(Screens) /\ Len(stack) \in 1..MaxScreens /\ stack[1] = Status
    /\ busy \in BOOLEAN /\ exited \in BOOLEAN /\ stray \in BOOLEAN
    /\ job \in Jobs \cup {NoJob} /\ settled \subseteq Jobs
    /\ planHash \in Hashes /\ disk \in Hashes /\ chosen \subseteq Hashes
    /\ plans \in 0..MaxPlans /\ disk <= plans
    /\ worker \in [1..MaxWorkers -> Threads]

(* A dialogue is on top, and stands on the stage it belongs to.             *)
Plain == {"status", "stage", "monitor"}
Above(screens) ==
    /\ \A i \in 1..(Len(screens) - 1) : screens[i].kind \in Plain
    /\ \A i \in 2..Len(screens) :
         /\ screens[i].kind = "confirm" => screens[i - 1] = Screen("stage", "apply", 0)
         /\ screens[i].kind = "install" => screens[i - 1] = Screen("stage", "plan", 0)

Polling(t) == t.task \in {"poll", "refresh"}
Formed(t) ==
    /\ t.task \in {"stage", "install"} <=> t.pc \in LocalPlaces
    /\ Polling(t) <=> t.pc \in PollPlaces
    /\ Polling(t) => t.job \in Jobs
    /\ t.command # "none" => t.task = "stage"

(* What the session knows as long as no monitor was left with an answer     *)
(* under way: one local thing is at work and holds the session; ...         *)
LocalThread(t) == t.task \in {"stage", "install"}
Flight(threads, held) ==
    /\ \A v, w \in 1..MaxWorkers : LocalThread(threads[v]) /\ LocalThread(threads[w]) => v = w
    /\ (\E w \in 1..MaxWorkers : LocalThread(threads[w])) => held

(* nothing local runs beside a monitor, whose answers under way are those   *)
(* of the one on top of the stack; ...                                      *)
TopOf(screens) == screens[Len(screens)]
Monitored(screens, threads, monitored) ==
    /\ \A i \in 1..(Len(screens) - 1) : screens[i].kind # "monitor"
    /\ TopOf(screens).kind = "monitor" =>
         monitored # NoJob /\ \A w \in 1..MaxWorkers : ~LocalThread(threads[w])
    /\ \A w \in 1..MaxWorkers : Polling(threads[w]) =>
         TopOf(screens).kind = "monitor" /\ threads[w].screen = Len(screens) /\ ~threads[w].cancelled

(* a stage runs on its screen; ...                                          *)
OnItsScreen(screens, threads) ==
    \A w \in 1..MaxWorkers :
      /\ threads[w].command = "plan" => TopOf(screens) = Screen("stage", "plan", 0)
      /\ threads[w].command = "apply" =>
           TopOf(screens).kind = "confirm" \/ TopOf(screens) = Screen("stage", "apply", 0)

(* and the hash of the session is that of the plan on disk, except while a  *)
(* plan just written is on its way to the loop.                             *)
Settled(threads, hash, saved) ==
    hash \in {NoHash, saved} \/ \E w \in 1..MaxWorkers :
      /\ threads[w].command = "plan" /\ threads[w].pc = "answer"
      /\ threads[w].hash = saved /\ saved # NoHash
OneHash(screens, threads, hash, saved, confirmed) ==
    /\ Settled(threads, hash, saved)
    /\ TopOf(screens).kind = "confirm" => TopOf(screens).of = saved /\ hash = saved
    /\ \A w \in 1..MaxWorkers :
         /\ threads[w].pc = "answer" => threads[w].hash \in {NoHash, saved}
         /\ threads[w].command = "apply" =>
              hash = saved /\ saved \in confirmed /\ (threads[w].pc = "running" => threads[w].hash = saved)

Quiet ==
    /\ Flight(worker, busy)
    /\ Monitored(stack, worker, job)
    /\ OnItsScreen(stack, worker)
    /\ OneHash(stack, worker, planHash, disk, chosen)

SessionInv ==
    SessionTyped /\ Above(stack) /\ (\A w \in 1..MaxWorkers : Formed(worker[w])) /\ (~stray => Quiet)

-----------------------------------------------------------------------------
(* The stack.                                                               *)

LEMMA ScreensAre ==
    ASSUME NEW s \in Screens
    PROVE  /\ s.kind \in {"status", "stage", "confirm", "install", "monitor"}
           /\ s.kind = "stage" => s.command \in LocalStages /\ s = Screen("stage", s.command, 0)
           /\ s.kind = "confirm" => s.of \in Hashes
           /\ s.kind = "monitor" => s.of \in Jobs
BY DEF Screens, Stages, Status, Screen

LEMMA TopIs ==
    ASSUME SessionTyped
    PROVE  /\ Top = stack[Len(stack)] /\ Top \in Screens
           /\ Len(stack) \in Nat \ {0} /\ Len(stack) \in 0..MaxScreens
           /\ ~On("status") => Len(stack) > 1
BY TerminalBounds DEF SessionTyped, Top, Last, On, Status, Screen

LEMMA FrontIs ==
    ASSUME SessionTyped, Above(stack), Len(stack) > 1
    PROVE  /\ Front(stack) \in Seq(Screens)
           /\ Len(Front(stack)) = Len(stack) - 1 /\ Len(Front(stack)) \in 1..MaxScreens
           /\ \A i \in 1..(Len(stack) - 1) : Front(stack)[i] = stack[i]
           /\ Last(Front(stack)) = stack[Len(stack) - 1]
           /\ Last(Front(stack)) \in Screens
           /\ Front(stack)[1] = Status
           /\ Above(Front(stack))
<1>1. Front(stack) = SubSeq(stack, 1, Len(stack) - 1)
  BY DEF Front
<1>2. /\ Front(stack) \in Seq(Screens)
      /\ Len(Front(stack)) = Len(stack) - 1
      /\ \A i \in 1..(Len(stack) - 1) : Front(stack)[i] = stack[i]
  BY <1>1 DEF SessionTyped
<1>3. Len(Front(stack)) \in 1..MaxScreens /\ Front(stack)[1] = Status
  BY <1>2, TerminalBounds DEF SessionTyped
<1>4. Last(Front(stack)) = stack[Len(stack) - 1] /\ Last(Front(stack)) \in Screens
  BY <1>2 DEF Last, SessionTyped
<1>5. Above(Front(stack))
  <2>. DEFINE s == Front(stack)
  <2>1. Len(s) = Len(stack) - 1 /\ Len(stack) \in Nat /\ \A i \in 1..Len(s) : s[i] = stack[i]
    BY <1>2 DEF SessionTyped
  <2>2. \A i \in 1..(Len(s) - 1) : s[i].kind \in Plain
    BY <2>1 DEF Above
  <2>3. ASSUME NEW i \in 2..Len(s)
        PROVE  /\ s[i].kind = "confirm" => s[i - 1] = Screen("stage", "apply", 0)
               /\ s[i].kind = "install" => s[i - 1] = Screen("stage", "plan", 0)
    <3>1. i \in 2..Len(stack) /\ i \in 1..Len(s) /\ i - 1 \in 1..Len(s)
      BY <2>1
    <3>2. s[i] = stack[i] /\ s[i - 1] = stack[i - 1]
      BY <2>1, <3>1
    <3>. QED
      BY <3>1, <3>2 DEF Above
  <2>. QED
    BY <2>2, <2>3 DEF Above
<1>. QED
  BY <1>2, <1>3, <1>4, <1>5

LEMMA PushIs ==
    ASSUME SessionTyped, Above(stack), NEW s \in Screens, Push(s), Top.kind \in Plain,
           s.kind = "confirm" => Top = Screen("stage", "apply", 0),
           s.kind = "install" => Top = Screen("stage", "plan", 0)
    PROVE  /\ stack' \in Seq(Screens)
           /\ Len(stack') = Len(stack) + 1 /\ Len(stack') \in 1..MaxScreens
           /\ \A i \in 1..Len(stack) : stack'[i] = stack[i]
           /\ stack'[1] = Status
           /\ Top' = s
           /\ Above(stack')
<1>1. /\ stack' = Append(stack, s) /\ Len(stack) < MaxScreens
      /\ stack \in Seq(Screens) /\ Len(stack) \in 1..MaxScreens
  BY DEF Push, SessionTyped
<1>2. /\ stack' \in Seq(Screens)
      /\ Len(stack') = Len(stack) + 1
      /\ \A i \in 1..Len(stack) : stack'[i] = stack[i]
      /\ stack'[Len(stack) + 1] = s
  BY <1>1
<1>3. Len(stack') \in 1..MaxScreens /\ stack'[1] = Status
  BY <1>1, <1>2, TerminalBounds DEF SessionTyped
<1>4. Top' = s
  BY <1>2 DEF Top, Last
<1>5. Above(stack')
  <2>1. ASSUME NEW i \in 2..(Len(stack) + 1)
        PROVE  /\ stack'[i].kind = "confirm" => stack'[i - 1] = Screen("stage", "apply", 0)
               /\ stack'[i].kind = "install" => stack'[i - 1] = Screen("stage", "plan", 0)
    <3>1. CASE i = Len(stack) + 1
      BY <1>1, <1>2, <3>1, TopIs
    <3>2. CASE i \in 2..Len(stack)
      BY <1>1, <1>2, <3>2 DEF Above
    <3>. QED
      BY <1>1, <3>1, <3>2
  <2>2. ASSUME NEW i \in 1..Len(stack) PROVE stack'[i].kind \in Plain
    BY <1>1, <1>2, TopIs DEF Above
  <2>. QED
    BY <1>2, <2>1, <2>2 DEF Above
<1>. QED
  BY <1>2, <1>3, <1>4, <1>5

-----------------------------------------------------------------------------
(* The threads.                                                             *)

LEMMA DoneIs ==
    /\ Done \in Threads /\ Done.task = "none" /\ Done.command = "none" /\ Done.pc = "done"
    /\ Formed(Done)
<1>. DEFINE t == Thread("none", "none", NoJob, 0)
<1>1. t \in Threads /\ t.task = "none" /\ t.command = "none"
  BY TerminalBounds DEF Thread, Threads, Tasks, Hashes, NoHash, LocalPlaces
<1>2. Done = [t EXCEPT !.pc = "done"]
  BY DEF Done
<1>3. Done \in Threads /\ Done.task = "none" /\ Done.command = "none" /\ Done.pc = "done"
  BY <1>1, <1>2 DEF Threads
<1>. QED
  BY <1>3 DEF LocalPlaces, PollPlaces, Formed, Polling

(* A new thread takes the place of one that is done.                        *)
LEMMA Begun ==
    ASSUME SessionTyped, NEW t \in Threads, CanStart, StartThread(t)
    PROVE  \E w \in 1..MaxWorkers :
             /\ worker[w] = Done
             /\ worker' \in [1..MaxWorkers -> Threads]
             /\ worker'[w] = t
             /\ \A v \in (1..MaxWorkers) \ {w} : worker'[v] = worker[v]
<1>1. (CHOOSE w \in IdleThreads : TRUE) \in IdleThreads
  BY DEF CanStart
<1>2. PICK w \in IdleThreads : worker' = [worker EXCEPT ![w] = t]
  BY <1>1 DEF StartThread
<1>3. w \in 1..MaxWorkers /\ worker[w] = Done
  BY DEF IdleThreads, SessionTyped
<1>. QED
  BY <1>2, <1>3 DEF SessionTyped

(* What changes of a thread in a step of its own.                           *)
Only(w) == \A v \in (1..MaxWorkers) \ {w} : worker'[v] = worker[v]

LEMMA ThreadEnds ==
    ASSUME SessionTyped, NEW w \in 1..MaxWorkers, Ends(w)
    PROVE  worker' \in [1..MaxWorkers -> Threads] /\ worker'[w] = Done /\ Only(w)
BY DoneIs DEF SessionTyped, Ends, Only

LEMMA PlaceChanges ==
    ASSUME SessionTyped, NEW w \in 1..MaxWorkers, NEW pc \in LocalPlaces \cup PollPlaces, Becomes(w, pc)
    PROVE  /\ worker' \in [1..MaxWorkers -> Threads] /\ Only(w)
           /\ worker'[w].pc = pc /\ worker'[w].hash = worker[w].hash
           /\ worker'[w].task = worker[w].task /\ worker'[w].command = worker[w].command
           /\ worker'[w].job = worker[w].job /\ worker'[w].screen = worker[w].screen
           /\ worker'[w].cancelled = worker[w].cancelled
<1>1. worker[w] \in Threads
  BY DEF SessionTyped
<1>. DEFINE t == [worker[w] EXCEPT !.pc = pc]
<1>3. worker' = [worker EXCEPT ![w] = t]
  BY DEF Becomes
<1>4. t \in Threads
  BY <1>1 DEF Threads
<1>5. worker' \in [1..MaxWorkers -> Threads] /\ Only(w) /\ worker'[w] = t
  BY <1>3, <1>4 DEF SessionTyped, Only
<1>. QED
  BY <1>1, <1>5 DEF Threads

LEMMA HashChanges ==
    ASSUME SessionTyped, NEW w \in 1..MaxWorkers, NEW pc \in LocalPlaces, NEW hash \in Hashes,
           Notes(w, pc, hash)
    PROVE  /\ worker' \in [1..MaxWorkers -> Threads] /\ Only(w)
           /\ worker'[w].pc = pc /\ worker'[w].hash = hash
           /\ worker'[w].task = worker[w].task /\ worker'[w].command = worker[w].command
           /\ worker'[w].job = worker[w].job /\ worker'[w].screen = worker[w].screen
           /\ worker'[w].cancelled = worker[w].cancelled
<1>1. worker[w] \in Threads
  BY DEF SessionTyped
<1>. DEFINE t == [worker[w] EXCEPT !.pc = pc, !.hash = hash]
<1>3. worker' = [worker EXCEPT ![w] = t]
  BY DEF Notes
<1>4. t \in Threads
  BY <1>1 DEF Threads
<1>5. worker' \in [1..MaxWorkers -> Threads] /\ Only(w) /\ worker'[w] = t
  BY <1>3, <1>4 DEF SessionTyped, Only
<1>. QED
  BY <1>1, <1>5 DEF Threads

LEMMA DeadlineChanges ==
    ASSUME SessionTyped, NEW w \in 1..MaxWorkers, worker' = [worker EXCEPT ![w].deadline = TRUE]
    PROVE  /\ worker' \in [1..MaxWorkers -> Threads] /\ Only(w)
           /\ worker'[w].pc = worker[w].pc /\ worker'[w].hash = worker[w].hash
           /\ worker'[w].task = worker[w].task /\ worker'[w].command = worker[w].command
           /\ worker'[w].job = worker[w].job /\ worker'[w].screen = worker[w].screen
           /\ worker'[w].cancelled = worker[w].cancelled
<1>1. worker[w] \in Threads
  BY DEF SessionTyped
<1>. DEFINE t == [worker[w] EXCEPT !.deadline = TRUE]
<1>3. worker' = [worker EXCEPT ![w] = t]
  OBVIOUS
<1>4. t \in Threads
  BY <1>1 DEF Threads
<1>5. worker' \in [1..MaxWorkers -> Threads] /\ Only(w) /\ worker'[w] = t
  BY <1>3, <1>4 DEF SessionTyped, Only
<1>. QED
  BY <1>1, <1>5 DEF Threads

-----------------------------------------------------------------------------
(* Steps of a monitor's threads.                                            *)

Crew(threads) ==
    threads \in [1..MaxWorkers -> Threads] /\ \A w \in 1..MaxWorkers : Formed(threads[w])

LEMMA FormedIs ==
    ASSUME NEW t, Formed(t)
    PROVE  /\ ~LocalThread(t) => t.command \notin {"plan", "apply"} /\ t.pc \notin LocalPlaces
           /\ LocalThread(t) => t.pc \in LocalPlaces
           /\ LocalThread(t) => ~Polling(t)
           /\ Polling(t) <=> t.pc \in PollPlaces
           /\ Polling(t) => t.job \in Jobs
BY DEF Formed, LocalThread, Polling

LEMMA CrewStays ==
    ASSUME Crew(worker), NEW w \in 1..MaxWorkers, Only(w),
           worker' \in [1..MaxWorkers -> Threads], Formed(worker'[w])
    PROVE  Crew(worker')
BY DEF Crew, Only

(* A monitor's thread goes on or ends.                                      *)
PollMoves(w) ==
    /\ Only(w) /\ Polling(worker[w]) /\ ~LocalThread(worker'[w])
    /\ Polling(worker'[w]) => /\ worker'[w].screen = worker[w].screen
                              /\ worker'[w].cancelled = worker[w].cancelled

LEMMA PollsOnly ==
    ASSUME Quiet, Crew(worker), Crew(worker'), NEW w \in 1..MaxWorkers, PollMoves(w)
    PROVE  /\ \A b : Flight(worker', b)
           /\ OnItsScreen(stack, worker')
           /\ OneHash(stack, worker', planHash, disk, chosen)
           /\ \A m : m = job \/ m # NoJob => Monitored(stack, worker', m)
<1>1. TopOf(stack).kind = "monitor" /\ job # NoJob /\ \A v \in 1..MaxWorkers : ~LocalThread(worker[v])
  BY DEF PollMoves, Quiet, Monitored
<1>2. \A v \in 1..MaxWorkers : ~LocalThread(worker'[v])
  BY <1>1 DEF PollMoves, Only
<1>3. \A v \in 1..MaxWorkers : worker'[v].command \notin {"plan", "apply"} /\ worker'[v].pc \notin LocalPlaces
  BY <1>2, FormedIs DEF Crew
<1>4. \A v \in 1..MaxWorkers : worker[v].command \notin {"plan", "apply"} /\ worker[v].pc \notin LocalPlaces
  BY <1>1, FormedIs DEF Crew
<1>5. OneHash(stack, worker', planHash, disk, chosen)
  <2>1. planHash \in {NoHash, disk}
    BY <1>4 DEF Quiet, OneHash, Settled
  <2>. QED
    BY <1>1, <1>3, <2>1 DEF OneHash, Settled, LocalPlaces
<1>6. OnItsScreen(stack, worker')
  BY <1>3 DEF OnItsScreen
<1>7. ASSUME NEW m, m = job \/ m # NoJob PROVE Monitored(stack, worker', m)
  <2>1. \A v \in 1..MaxWorkers : Polling(worker'[v]) =>
          worker'[v].screen = Len(stack) /\ ~worker'[v].cancelled
    BY DEF PollMoves, Only, Quiet, Monitored
  <2>2. \A i \in 1..(Len(stack) - 1) : stack[i].kind # "monitor"
    BY DEF Quiet, Monitored
  <2>. QED
    BY <1>1, <1>2, <1>7, <2>1, <2>2 DEF Monitored
<1>8. \A b : Flight(worker', b)
  BY <1>2 DEF Flight
<1>. QED
  BY <1>5, <1>6, <1>7, <1>8

LEMMA InvParts ==
    ASSUME SessionInv
    PROVE  SessionTyped /\ Above(stack) /\ Crew(worker) /\ (~stray => Quiet)
BY DEF SessionInv, SessionTyped, Crew

(* What the invariant asks after a step.                                    *)
LEMMA InvHolds ==
    ASSUME SessionTyped', Above(stack'), Crew(worker'),
           stray' \/ /\ Flight(worker', busy')
                     /\ Monitored(stack', worker', job')
                     /\ OnItsScreen(stack', worker')
                     /\ OneHash(stack', worker', planHash', disk', chosen')
    PROVE  SessionInv'
BY DEF SessionInv, Crew, Quiet

LEMMA PollStep ==
    ASSUME SessionInv, NEW w \in 1..MaxWorkers, Poll(w)
    PROVE  SessionInv'
<1>1. SessionTyped /\ Above(stack) /\ Crew(worker) /\ (~stray => Quiet)
  BY InvParts
<1>2. PICK pc \in {"settled", "pending", "failed"} : Becomes(w, pc)
  BY DEF Poll
<1>3. Polling(worker[w]) /\ UNCHANGED <<stack, busy, job, planHash, disk, plans, settled, exited, chosen, stray>>
  BY DEF Poll, Polling
<1>4. /\ worker' \in [1..MaxWorkers -> Threads] /\ Only(w)
      /\ worker'[w].pc = pc /\ worker'[w].task = worker[w].task /\ worker'[w].command = worker[w].command
      /\ worker'[w].job = worker[w].job /\ worker'[w].screen = worker[w].screen
      /\ worker'[w].cancelled = worker[w].cancelled
  BY <1>1, <1>2, PlaceChanges DEF PollPlaces
<1>5. Formed(worker'[w])
  BY <1>1, <1>3, <1>4 DEF Crew, Formed, Polling, PollPlaces, LocalPlaces
<1>6. Crew(worker')
  BY <1>1, <1>4, <1>5, CrewStays
<1>7. PollMoves(w)
  BY <1>3, <1>4 DEF PollMoves, Polling, LocalThread
<1>8. ~stray => Quiet'
  BY <1>1, <1>3, <1>6, <1>7, PollsOnly DEF Quiet
<1>9. SessionTyped'
  BY <1>1, <1>3, <1>4 DEF SessionTyped
<1>. QED
  BY <1>1, <1>3, <1>6, <1>8, <1>9, InvHolds DEF Quiet

LEMMA GiveUpStep ==
    ASSUME SessionInv, NEW w \in 1..MaxWorkers, GiveUp(w)
    PROVE  SessionInv'
<1>1. SessionTyped /\ Above(stack) /\ Crew(worker) /\ (~stray => Quiet)
  BY InvParts
<1>2. worker[w].pc \in PollPlaces /\ Ends(w) /\ busy' = (busy /\ ~Released(w))
      /\ UNCHANGED <<stack, job, planHash, disk, plans, settled, exited, chosen, stray>>
  BY DEF GiveUp, PollPlaces
<1>3. Polling(worker[w])
  BY <1>1, <1>2, FormedIs DEF Crew
<1>4. worker' \in [1..MaxWorkers -> Threads] /\ Only(w) /\ worker'[w] = Done
  BY <1>1, <1>2, ThreadEnds
<1>5. Crew(worker')
  BY <1>1, <1>4, DoneIs, CrewStays
<1>6. PollMoves(w)
  BY <1>3, <1>4, DoneIs DEF PollMoves, Polling, LocalThread
<1>7. ~stray => Quiet'
  BY <1>1, <1>2, <1>5, <1>6, PollsOnly DEF Quiet
<1>8. SessionTyped'
  <2>1. busy' \in BOOLEAN
    BY <1>2
  <2>. QED
    BY <1>1, <1>2, <1>4, <2>1 DEF SessionTyped
<1>. QED
  BY <1>1, <1>2, <1>5, <1>7, <1>8, InvHolds DEF Quiet

LEMMA PassDeadlineStep ==
    ASSUME SessionInv, NEW w \in 1..MaxWorkers, PassDeadline(w)
    PROVE  SessionInv'
<1>1. SessionTyped /\ Above(stack) /\ Crew(worker) /\ (~stray => Quiet)
  BY InvParts
<1>2. Polling(worker[w]) /\ worker' = [worker EXCEPT ![w].deadline = TRUE]
      /\ UNCHANGED <<stack, busy, job, planHash, disk, plans, settled, exited, chosen, stray>>
  BY DEF PassDeadline, Polling
<1>3. /\ worker' \in [1..MaxWorkers -> Threads] /\ Only(w)
      /\ worker'[w].pc = worker[w].pc /\ worker'[w].task = worker[w].task /\ worker'[w].command = worker[w].command
      /\ worker'[w].job = worker[w].job /\ worker'[w].screen = worker[w].screen
      /\ worker'[w].cancelled = worker[w].cancelled
  BY <1>1, <1>2, DeadlineChanges
<1>4. Formed(worker'[w])
  BY <1>1, <1>3 DEF Crew, Formed, Polling
<1>5. Crew(worker')
  BY <1>1, <1>3, <1>4, CrewStays
<1>6. PollMoves(w)
  BY <1>2, <1>3 DEF PollMoves, Polling, LocalThread
<1>7. ~stray => Quiet'
  BY <1>1, <1>2, <1>5, <1>6, PollsOnly DEF Quiet
<1>8. SessionTyped'
  BY <1>1, <1>2, <1>3 DEF SessionTyped
<1>. QED
  BY <1>1, <1>2, <1>5, <1>7, <1>8, InvHolds DEF Quiet

(* A poll that is answered shows its run, on its own screen or on none.     *)
LEMMA PolledStep ==
    ASSUME SessionInv, NEW w \in 1..MaxWorkers, Polled(w)
    PROVE  SessionInv'
<1>1. SessionTyped /\ Above(stack) /\ Crew(worker) /\ (~stray => Quiet)
  BY InvParts
<1>2. /\ worker[w].pc \in PollPlaces /\ job' \in {job, worker[w].job} /\ busy' \in {busy, FALSE}
      /\ UNCHANGED <<stack, planHash, disk, plans, settled, exited, chosen, stray>>
  BY DEF Polled, PollPlaces
<1>3. Polling(worker[w]) /\ worker[w].job \in Jobs
  BY <1>1, <1>2, FormedIs DEF Crew
<1>4. Crew(worker') /\ PollMoves(w)
  <2>1. CASE Ends(w)
    <3>1. worker' \in [1..MaxWorkers -> Threads] /\ Only(w) /\ worker'[w] = Done
      BY <1>1, <2>1, ThreadEnds
    <3>2. Crew(worker')
      BY <1>1, <3>1, DoneIs, CrewStays
    <3>. QED
      BY <1>3, <3>1, <3>2, DoneIs DEF PollMoves, Polling, LocalThread
  <2>2. CASE ~Ends(w)
    <3>1. PICK pc \in {"timed_out", "asking"} : Becomes(w, pc)
      BY <2>2 DEF Polled
    <3>2. /\ worker' \in [1..MaxWorkers -> Threads] /\ Only(w)
          /\ worker'[w].pc = pc /\ worker'[w].task = worker[w].task /\ worker'[w].command = worker[w].command
          /\ worker'[w].job = worker[w].job /\ worker'[w].screen = worker[w].screen
          /\ worker'[w].cancelled = worker[w].cancelled
      BY <1>1, <3>1, PlaceChanges DEF PollPlaces
    <3>3. Formed(worker'[w])
      BY <1>1, <1>3, <3>2 DEF Crew, Formed, Polling, PollPlaces, LocalPlaces
    <3>4. Crew(worker')
      BY <1>1, <3>2, <3>3, CrewStays
    <3>. QED
      BY <1>3, <3>2, <3>4 DEF PollMoves, Polling, LocalThread
  <2>. QED
    BY <2>1, <2>2
<1>5. ~stray => Quiet'
  <2>. SUFFICES ASSUME ~stray PROVE Quiet'
    OBVIOUS
  <2>1. job' = job \/ job' # NoJob
    BY <1>2, <1>3, JobsAssumption DEF NoJob
  <2>. QED
    BY <1>1, <1>2, <1>4, <2>1, PollsOnly DEF Quiet
<1>6. SessionTyped'
  <2>1. busy' \in BOOLEAN /\ job' \in Jobs \cup {NoJob}
    BY <1>1, <1>2, <1>3 DEF SessionTyped
  <2>. QED
    BY <1>1, <1>2, <1>4, <2>1 DEF SessionTyped, Crew
<1>. QED
  BY <1>1, <1>2, <1>4, <1>5, <1>6, InvHolds DEF Quiet

LEMMA AroundStep ==
    ASSUME SessionInv, (\E j \in Jobs : JobSettles(j)) \/ Quit \/ UNCHANGED sessionVars
    PROVE  SessionInv'
<1>1. /\ settled' \subseteq Jobs /\ exited' \in BOOLEAN
      /\ UNCHANGED <<stack, busy, job, planHash, disk, plans, worker, chosen, stray>>
  BY DEF SessionInv, SessionTyped, JobSettles, Quit, sessionVars
<1>2. SessionTyped'
  BY <1>1 DEF SessionInv, SessionTyped
<1>3. Crew(worker') /\ Above(stack')
  BY <1>1, InvParts
<1>4. ~stray => Quiet'
  BY <1>1 DEF SessionInv, Quiet
<1>. QED
  BY <1>1, <1>2, <1>3, <1>4, InvHolds DEF Quiet

-----------------------------------------------------------------------------
(* Steps of a stage's or an installation's thread.                          *)

(* It is the only one, so nothing else polls or knows of a command.         *)
LEMMA OnlyLocal ==
    ASSUME Quiet, Crew(worker), NEW w \in 1..MaxWorkers, LocalThread(worker[w])
    PROVE  /\ busy /\ TopOf(stack).kind # "monitor"
           /\ \A v \in (1..MaxWorkers) \ {w} :
                /\ ~LocalThread(worker[v]) /\ ~Polling(worker[v])
                /\ worker[v].command \notin {"plan", "apply"} /\ worker[v].pc \notin LocalPlaces
<1>1. busy /\ TopOf(stack).kind # "monitor"
  BY DEF Quiet, Flight, Monitored
<1>2. ASSUME NEW v \in (1..MaxWorkers) \ {w}
      PROVE  ~LocalThread(worker[v]) /\ ~Polling(worker[v])
  BY <1>1 DEF Quiet, Flight, Monitored
<1>. QED
  BY <1>1, <1>2, FormedIs DEF Crew

(* It goes on with the same task, and the stack stays.                      *)
LEMMA LocalMoves ==
    ASSUME Quiet, Crew(worker), Crew(worker'), NEW w \in 1..MaxWorkers, Only(w),
           LocalThread(worker[w]), worker'[w].task = worker[w].task, worker'[w].command = worker[w].command
    PROVE  Flight(worker', busy) /\ Monitored(stack, worker', job) /\ OnItsScreen(stack, worker')
<1>1. /\ busy /\ TopOf(stack).kind # "monitor"
      /\ \A v \in (1..MaxWorkers) \ {w} : ~LocalThread(worker[v]) /\ ~Polling(worker[v])
  BY OnlyLocal
<1>2. LocalThread(worker'[w])
  BY DEF LocalThread
<1>3. ~Polling(worker'[w])
  BY <1>2 DEF LocalThread, Polling
<1>4. Flight(worker', busy)
  BY <1>1 DEF Flight, Only
<1>5. Monitored(stack, worker', job)
  BY <1>1, <1>3 DEF Monitored, Quiet, Only
<1>6. OnItsScreen(stack, worker')
  BY DEF OnItsScreen, Quiet, Only
<1>. QED
  BY <1>4, <1>5, <1>6

LEMMA BeginWorkStep ==
    ASSUME SessionInv, NEW w \in 1..MaxWorkers, BeginWork(w)
    PROVE  SessionInv'
<1>1. SessionTyped /\ Above(stack) /\ Crew(worker) /\ (~stray => Quiet)
  BY InvParts
<1>2. /\ worker[w].pc = "starting" /\ LocalThread(worker[w]) /\ Notes(w, "running", planHash)
      /\ UNCHANGED <<stack, busy, job, planHash, disk, plans, settled, exited, chosen, stray>>
  BY DEF BeginWork, LocalThread
<1>3. /\ worker' \in [1..MaxWorkers -> Threads] /\ Only(w)
      /\ worker'[w].pc = "running" /\ worker'[w].hash = planHash
      /\ worker'[w].task = worker[w].task /\ worker'[w].command = worker[w].command
      /\ worker'[w].job = worker[w].job
  <2>1. "running" \in LocalPlaces /\ planHash \in Hashes
    BY <1>1 DEF LocalPlaces, SessionTyped
  <2>. QED
    BY <1>1, <1>2, <2>1, HashChanges
<1>4. Formed(worker'[w])
  BY <1>1, <1>2, <1>3 DEF Crew, Formed, Polling, LocalThread, LocalPlaces, PollPlaces
<1>5. Crew(worker')
  BY <1>1, <1>3, <1>4, CrewStays
<1>6. ASSUME ~stray
      PROVE  /\ Flight(worker', busy') /\ Monitored(stack', worker', job')
             /\ OnItsScreen(stack', worker') /\ OneHash(stack', worker', planHash', disk', chosen')
  <2>1. Quiet
    BY <1>1, <1>6
  <2>2. Flight(worker', busy) /\ Monitored(stack, worker', job) /\ OnItsScreen(stack, worker')
    BY <1>1, <1>2, <1>3, <1>5, <2>1, LocalMoves
  <2>3. \A v \in (1..MaxWorkers) \ {w} : worker[v].command \notin {"plan", "apply"} /\ worker[v].pc \notin LocalPlaces
    BY <1>1, <1>2, <2>1, OnlyLocal
  <2>4. planHash \in {NoHash, disk}
    BY <1>2, <2>1, <2>3 DEF Quiet, OneHash, Settled
  <2>5. OneHash(stack, worker', planHash, disk, chosen)
    <3>1. \A v \in (1..MaxWorkers) \ {w} : worker'[v].command \notin {"plan", "apply"} /\ worker'[v].pc # "answer"
      BY <1>3, <2>3 DEF Only, LocalPlaces
    <3>2. worker'[w].command = "apply" => planHash = disk /\ disk \in chosen /\ worker'[w].hash = disk
      BY <1>3, <2>1 DEF Quiet, OneHash
    <3>3. TopOf(stack).kind = "confirm" => TopOf(stack).of = disk /\ planHash = disk
      BY <2>1 DEF Quiet, OneHash
    <3>. QED
      BY <1>3, <2>4, <3>1, <3>2, <3>3 DEF OneHash, Settled
  <2>. QED
    BY <1>2, <2>2, <2>5
<1>7. SessionTyped'
  BY <1>1, <1>2, <1>3 DEF SessionTyped
<1>. QED
  BY <1>1, <1>2, <1>5, <1>6, <1>7, InvHolds

(* The outcome of a stage: a plan that was written, the hash that was       *)
(* applied, or none.                                                        *)
LEMMA EndWorkStep ==
    ASSUME SessionInv, NEW w \in 1..MaxWorkers, EndWork(w)
    PROVE  SessionInv'
<1>1. SessionTyped /\ Above(stack) /\ Crew(worker) /\ (~stray => Quiet)
  BY InvParts
<1>2. /\ worker[w].pc = "running"
      /\ UNCHANGED <<stack, busy, job, planHash, settled, exited, chosen, stray>>
  BY DEF EndWork
<1>3. LocalThread(worker[w])
  BY <1>1, <1>2 DEF Crew, Formed, LocalThread, LocalPlaces
<1>4. PICK hash \in Hashes :
        /\ Notes(w, "answer", hash)
        /\ \/ /\ worker[w].command = "plan" /\ hash = plans + 1
              /\ plans' = plans + 1 /\ disk' = plans + 1 /\ plans < MaxPlans
           \/ hash \in {NoHash, disk} /\ UNCHANGED <<plans, disk>>
  <2>1. NoHash \in Hashes /\ disk \in Hashes /\ plans \in Nat /\ (plans < MaxPlans => plans + 1 \in Hashes)
    BY <1>1, TerminalBounds DEF NoHash, Hashes, SessionTyped
  <2>2. CASE /\ worker[w].command = "plan" /\ plans < MaxPlans
             /\ plans' = plans + 1 /\ disk' = plans + 1
             /\ Notes(w, "answer", plans + 1)
    BY <2>1, <2>2
  <2>3. CASE /\ UNCHANGED <<plans, disk>>
             /\ Notes(w, "answer", IF worker[w].command = "apply" THEN disk ELSE NoHash)
    BY <2>1, <2>3
  <2>4. CASE UNCHANGED <<plans, disk>> /\ Notes(w, "answer", NoHash)
    BY <2>1, <2>4
  <2>. QED
    BY <2>2, <2>3, <2>4 DEF EndWork
<1>5. /\ worker' \in [1..MaxWorkers -> Threads] /\ Only(w)
      /\ worker'[w].pc = "answer" /\ worker'[w].hash = hash
      /\ worker'[w].task = worker[w].task /\ worker'[w].command = worker[w].command
      /\ worker'[w].job = worker[w].job
  BY <1>1, <1>4, HashChanges DEF LocalPlaces
<1>6. Formed(worker'[w])
  BY <1>1, <1>3, <1>5 DEF Crew, Formed, Polling, LocalThread, LocalPlaces, PollPlaces
<1>7. Crew(worker')
  BY <1>1, <1>5, <1>6, CrewStays
<1>8. disk' # disk => hash # NoHash
  BY <1>1, <1>4 DEF SessionTyped, NoHash
<1>9. disk' \in Hashes /\ plans' \in 0..MaxPlans /\ disk' <= plans' /\ hash \in {NoHash, disk'}
  BY <1>1, <1>4, TerminalBounds DEF SessionTyped, Hashes
<1>10. ASSUME ~stray
      PROVE  /\ Flight(worker', busy') /\ Monitored(stack', worker', job')
             /\ OnItsScreen(stack', worker') /\ OneHash(stack', worker', planHash', disk', chosen')
  <2>1. Quiet
    BY <1>1, <1>10
  <2>2. Flight(worker', busy) /\ Monitored(stack, worker', job) /\ OnItsScreen(stack, worker')
    BY <1>1, <1>3, <1>5, <1>7, <2>1, LocalMoves
  <2>3. \A v \in (1..MaxWorkers) \ {w} : worker[v].command \notin {"plan", "apply"} /\ worker[v].pc \notin LocalPlaces
    BY <1>1, <1>3, <2>1, OnlyLocal
  <2>4. \A v \in (1..MaxWorkers) \ {w} : worker'[v].command \notin {"plan", "apply"} /\ worker'[v].pc # "answer"
    BY <1>5, <2>3 DEF Only, LocalPlaces
  <2>5. planHash \in {NoHash, disk}
    BY <1>2, <2>1, <2>3 DEF Quiet, OneHash, Settled
  <2>6. CASE disk' = disk
    <3>1. Settled(worker', planHash, disk')
      BY <2>5, <2>6 DEF Settled
    <3>2. worker'[w].command = "apply" => planHash = disk' /\ disk' \in chosen
      BY <1>5, <2>1, <2>6 DEF Quiet, OneHash
    <3>3. TopOf(stack).kind = "confirm" => TopOf(stack).of = disk' /\ planHash = disk'
      BY <2>1, <2>6 DEF Quiet, OneHash
    <3>4. OneHash(stack, worker', planHash, disk', chosen)
      BY <1>5, <1>9, <2>4, <3>1, <3>2, <3>3 DEF OneHash
    <3>. QED
      BY <1>2, <2>2, <3>4
  <2>7. CASE worker[w].command = "plan" /\ hash = disk' /\ disk' # disk
    <3>1. Settled(worker', planHash, disk')
      BY <1>5, <1>8, <2>7 DEF Settled
    <3>2. TopOf(stack) = Screen("stage", "plan", 0)
      BY <2>1, <2>7 DEF Quiet, OnItsScreen
    <3>3. TopOf(stack).kind # "confirm"
      BY <3>2 DEF Screen
    <3>4. OneHash(stack, worker', planHash, disk', chosen)
      BY <1>5, <1>9, <2>4, <2>7, <3>1, <3>3 DEF OneHash
    <3>. QED
      BY <1>2, <2>2, <3>4
  <2>. QED
    BY <1>4, <2>6, <2>7
<1>11. SessionTyped'
  BY <1>1, <1>2, <1>5, <1>9 DEF SessionTyped
<1>. QED
  BY <1>1, <1>2, <1>7, <1>10, <1>11, InvHolds

(* Its answer reaches the loop: the session is free, and has the hash.      *)
LEMMA FinishStep ==
    ASSUME SessionInv, NEW w \in 1..MaxWorkers, Finish(w)
    PROVE  SessionInv'
<1>1. SessionTyped /\ Above(stack) /\ Crew(worker) /\ (~stray => Quiet)
  BY InvParts
<1>2. /\ LocalThread(worker[w]) /\ worker[w].pc = "answer" /\ Ends(w) /\ busy' = FALSE
      /\ planHash' = IF worker[w].hash # NoHash THEN worker[w].hash ELSE planHash
      /\ UNCHANGED <<stack, job, disk, plans, settled, exited, chosen, stray>>
  BY DEF Finish, LocalThread
<1>3. worker' \in [1..MaxWorkers -> Threads] /\ Only(w) /\ worker'[w] = Done
  BY <1>1, <1>2, ThreadEnds
<1>4. Crew(worker')
  BY <1>1, <1>3, DoneIs, CrewStays
<1>5. worker[w].hash \in Hashes /\ planHash' \in Hashes
  BY <1>1, <1>2 DEF SessionTyped, Threads
<1>6. ASSUME ~stray
      PROVE  /\ Flight(worker', busy') /\ Monitored(stack', worker', job')
             /\ OnItsScreen(stack', worker') /\ OneHash(stack', worker', planHash', disk', chosen')
  <2>1. Quiet
    BY <1>1, <1>6
  <2>2. /\ TopOf(stack).kind # "monitor"
        /\ \A v \in (1..MaxWorkers) \ {w} :
             /\ ~LocalThread(worker[v]) /\ ~Polling(worker[v])
             /\ worker[v].command \notin {"plan", "apply"} /\ worker[v].pc \notin LocalPlaces
    BY <1>1, <1>2, <2>1, OnlyLocal
  <2>3. \A v \in 1..MaxWorkers :
          /\ ~LocalThread(worker'[v]) /\ ~Polling(worker'[v])
          /\ worker'[v].command \notin {"plan", "apply"} /\ worker'[v].pc # "answer"
    BY <1>3, <2>2, DoneIs DEF Only, LocalThread, Polling, LocalPlaces
  <2>4. worker[w].hash \in {NoHash, disk}
    BY <1>2, <2>1 DEF Quiet, OneHash
  <2>5. planHash' \in {NoHash, disk}
    <3>1. CASE worker[w].hash = disk /\ worker[w].hash # NoHash
      BY <1>2, <3>1
    <3>2. CASE worker[w].hash = NoHash
      <4>1. planHash' = planHash
        BY <1>2, <3>2
      <4>2. planHash \in {NoHash, disk}
        BY <2>1, <2>2, <3>2 DEF Quiet, OneHash, Settled
      <4>. QED
        BY <4>1, <4>2
    <3>. QED
      BY <2>4, <3>1, <3>2
  <2>6. TopOf(stack).kind = "confirm" => TopOf(stack).of = disk /\ planHash' = disk
    BY <1>2, <2>1, <2>4 DEF Quiet, OneHash
  <2>7. OneHash(stack, worker', planHash', disk, chosen)
    BY <2>3, <2>5, <2>6 DEF OneHash, Settled
  <2>8. Flight(worker', FALSE)
    BY <2>3 DEF Flight
  <2>9. Monitored(stack, worker', job)
    BY <2>1, <2>2, <2>3 DEF Monitored, Quiet
  <2>10. OnItsScreen(stack, worker')
    BY <2>3 DEF OnItsScreen
  <2>. QED
    BY <1>2, <2>7, <2>8, <2>9, <2>10
<1>7. SessionTyped'
  BY <1>1, <1>2, <1>3, <1>5 DEF SessionTyped
<1>. QED
  BY <1>1, <1>2, <1>4, <1>6, <1>7, InvHolds

-----------------------------------------------------------------------------
(* Steps of the screens.                                                    *)

LEMMA TopIsTop ==
    ASSUME SessionTyped
    PROVE  Top = TopOf(stack) /\ (\A kind : On(kind) <=> TopOf(stack).kind = kind)
BY DEF Top, TopOf, Last, On

LEMMA ScreenIs ==
    ASSUME NEW kind, NEW c, NEW of
    PROVE  /\ Screen(kind, c, of).kind = kind /\ Screen(kind, c, of).command = c
           /\ Screen(kind, c, of).of = of
BY DEF Screen

(* A session that is not held has nothing local at work, and apart from a   *)
(* monitor nothing at all.                                                  *)
Nothing(threads) ==
    \A w \in 1..MaxWorkers :
      /\ ~LocalThread(threads[w]) /\ ~Polling(threads[w])
      /\ threads[w].command \notin {"plan", "apply"} /\ threads[w].pc \notin LocalPlaces

LEMMA FreeIs ==
    ASSUME Quiet, Crew(worker), ~busy, TopOf(stack).kind # "monitor"
    PROVE  Nothing(worker) /\ planHash \in {NoHash, disk}
<1>1. \A w \in 1..MaxWorkers : ~LocalThread(worker[w]) /\ ~Polling(worker[w])
  BY DEF Quiet, Flight, Monitored
<1>2. Nothing(worker)
  BY <1>1, FormedIs DEF Crew, Nothing
<1>3. planHash \in {NoHash, disk}
  BY <1>2 DEF Quiet, OneHash, Settled, Nothing
<1>. QED
  BY <1>2, <1>3

(* Screens without a monitor, and what is quiet under them.                 *)
Clear(screens) ==
    /\ TopOf(screens).kind # "monitor"
    /\ \A i \in 1..(Len(screens) - 1) : screens[i].kind # "monitor"
Calm(screens, threads, held, hash, saved, confirmed) ==
    /\ Flight(threads, held)
    /\ \A m : Monitored(screens, threads, m)
    /\ OnItsScreen(screens, threads)
    /\ OneHash(screens, threads, hash, saved, confirmed)

LEMMA NothingCalm ==
    \A screens, threads, held, hash, saved, confirmed :
      /\ Nothing(threads) /\ Clear(screens) /\ hash \in {NoHash, saved}
      /\ TopOf(screens).kind = "confirm" => TopOf(screens).of = saved /\ hash = saved
      => Calm(screens, threads, held, hash, saved, confirmed)
<1>. SUFFICES ASSUME NEW screens, NEW threads, NEW held, NEW hash, NEW saved, NEW confirmed,
                     Nothing(threads), Clear(screens), hash \in {NoHash, saved},
                     TopOf(screens).kind = "confirm" => TopOf(screens).of = saved /\ hash = saved
              PROVE  Calm(screens, threads, held, hash, saved, confirmed)
  OBVIOUS
<1>1. Flight(threads, held)
  BY DEF Flight, Nothing
<1>2. \A m : Monitored(screens, threads, m)
  BY DEF Monitored, Nothing, Clear
<1>3. OnItsScreen(screens, threads)
  BY DEF OnItsScreen, Nothing
<1>4. OneHash(screens, threads, hash, saved, confirmed)
  BY DEF OneHash, Settled, Nothing, LocalPlaces
<1>. QED
  BY <1>1, <1>2, <1>3, <1>4 DEF Calm

(* A new thread among those there are.                                      *)
LEMMA NewThread ==
    ASSUME SessionTyped, Crew(worker), NEW t \in Threads, Formed(t), CanStart, StartThread(t)
    PROVE  /\ Crew(worker')
           /\ \E w \in 1..MaxWorkers : worker[w] = Done /\ worker'[w] = t /\ Only(w)
<1>1. PICK w \in 1..MaxWorkers :
        /\ worker[w] = Done
        /\ worker' \in [1..MaxWorkers -> Threads]
        /\ worker'[w] = t
        /\ \A v \in (1..MaxWorkers) \ {w} : worker'[v] = worker[v]
  BY Begun
<1>2. Only(w)
  BY <1>1 DEF Only
<1>. QED
  BY <1>1, <1>2, CrewStays

(* A stage or an installation started in a free session, on its screen.     *)
StartsOn(t, screens) ==
    /\ LocalThread(t) /\ t.pc = "starting" /\ Clear(screens) /\ TopOf(screens).kind # "confirm"
    /\ t.command = "plan" => TopOf(screens) = Screen("stage", "plan", 0)
    /\ t.command = "apply" => TopOf(screens) = Screen("stage", "apply", 0)

LEMMA LocalStarts ==
    ASSUME Nothing(worker), Crew(worker'), NEW w \in 1..MaxWorkers, Only(w)
    PROVE  \A screens, hash, saved, confirmed :
             /\ StartsOn(worker'[w], screens) /\ hash \in {NoHash, saved}
             /\ worker'[w].command = "apply" => hash = saved /\ saved \in confirmed
             => Calm(screens, worker', TRUE, hash, saved, confirmed)
<1>. SUFFICES ASSUME NEW screens, NEW hash, NEW saved, NEW confirmed,
                     StartsOn(worker'[w], screens), hash \in {NoHash, saved},
                     worker'[w].command = "apply" => hash = saved /\ saved \in confirmed
              PROVE  Calm(screens, worker', TRUE, hash, saved, confirmed)
  OBVIOUS
<1>1. \A v \in (1..MaxWorkers) \ {w} :
        /\ ~LocalThread(worker'[v]) /\ ~Polling(worker'[v])
        /\ worker'[v].command \notin {"plan", "apply"} /\ worker'[v].pc \notin LocalPlaces
  BY DEF Nothing, Only
<1>2. ~Polling(worker'[w])
  BY DEF StartsOn, LocalThread, Polling
<1>3. Flight(worker', TRUE)
  BY <1>1 DEF Flight
<1>4. \A m : Monitored(screens, worker', m)
  BY <1>1, <1>2 DEF Monitored, StartsOn, Clear
<1>5. OnItsScreen(screens, worker')
  BY <1>1 DEF OnItsScreen, StartsOn
<1>6. OneHash(screens, worker', hash, saved, confirmed)
  BY <1>1 DEF OneHash, Settled, LocalPlaces, StartsOn
<1>. QED
  BY <1>3, <1>4, <1>5, <1>6 DEF Calm

LEMMA CalmHolds ==
    ASSUME SessionTyped', Above(stack'), Crew(worker'),
           stray' \/ Calm(stack', worker', busy', planHash', disk', chosen')
    PROVE  SessionInv'
BY InvHolds DEF Calm

LEMMA StageThread ==
    ASSUME SessionTyped, NEW c \in LocalStages, NEW screen \in 0..MaxScreens
    PROVE  \A t : t = Thread("stage", c, NoJob, screen) =>
             /\ t \in Threads /\ Formed(t) /\ LocalThread(t) /\ t.command = c /\ t.pc = "starting"
<1>. SUFFICES ASSUME NEW t, t = Thread("stage", c, NoJob, screen)
              PROVE  t \in Threads /\ Formed(t) /\ LocalThread(t) /\ t.command = c /\ t.pc = "starting"
  OBVIOUS
<1>1. t \in Threads /\ t.task = "stage" /\ t.command = c /\ t.pc = "starting"
  BY TerminalBounds DEF Thread, Threads, Tasks, Hashes, NoHash, LocalPlaces
<1>. QED
  BY <1>1 DEF Formed, LocalThread, Polling, LocalPlaces, PollPlaces

LEMMA InstallThread ==
    ASSUME SessionTyped, NEW screen \in 0..MaxScreens
    PROVE  \A t : t = Thread("install", "none", NoJob, screen) =>
             /\ t \in Threads /\ Formed(t) /\ LocalThread(t) /\ t.command = "none" /\ t.pc = "starting"
<1>. SUFFICES ASSUME NEW t, t = Thread("install", "none", NoJob, screen)
              PROVE  t \in Threads /\ Formed(t) /\ LocalThread(t) /\ t.command = "none" /\ t.pc = "starting"
  OBVIOUS
<1>1. t \in Threads /\ t.task = "install" /\ t.command = "none" /\ t.pc = "starting"
  BY TerminalBounds DEF Thread, Threads, Tasks, Hashes, NoHash, LocalPlaces
<1>. QED
  BY <1>1 DEF Formed, LocalThread, Polling, LocalPlaces, PollPlaces

LEMMA PollThread ==
    ASSUME SessionTyped, NEW task \in {"poll", "refresh"}, NEW j \in Jobs, NEW screen \in 0..MaxScreens
    PROVE  \A t : t = [Thread(task, "none", j, screen) EXCEPT !.pc = "asking"] =>
             /\ t \in Threads /\ Formed(t) /\ Polling(t) /\ t.screen = screen /\ ~t.cancelled
<1>. SUFFICES ASSUME NEW t, t = [Thread(task, "none", j, screen) EXCEPT !.pc = "asking"]
              PROVE  t \in Threads /\ Formed(t) /\ Polling(t) /\ t.screen = screen /\ ~t.cancelled
  OBVIOUS
<1>. DEFINE s == Thread(task, "none", j, screen)
<1>1. s \in Threads /\ s.task = task /\ s.command = "none" /\ s.job = j /\ s.screen = screen /\ s.cancelled = FALSE
  BY TerminalBounds DEF Thread, Threads, Tasks, Hashes, NoHash, LocalPlaces
<1>2. /\ t \in Threads /\ t.task = task /\ t.command = "none" /\ t.job = j /\ t.screen = screen
      /\ t.cancelled = FALSE /\ t.pc = "asking"
  BY <1>1 DEF Threads, PollPlaces
<1>. QED
  BY <1>2 DEF Formed, Polling, LocalPlaces, PollPlaces

LEMMA OpenStageStep ==
    ASSUME SessionInv, NEW c \in LocalStages, OpenStage(c)
    PROVE  SessionInv'
<1>1. SessionTyped /\ Above(stack) /\ Crew(worker) /\ (~stray => Quiet)
  BY InvParts
<1>. DEFINE s == Screen("stage", c, 0)
<1>2. /\ Top.kind \in Plain /\ ~busy /\ job = NoJob /\ Push(s)
      /\ UNCHANGED <<busy, job, planHash, disk, plans, worker, settled, exited, chosen, stray>>
  BY DEF OpenStage, Plain
<1>3. s \in Screens /\ s.kind = "stage"
  BY DEF Screen, Screens, Stages
<1>4. /\ stack' \in Seq(Screens) /\ Len(stack') = Len(stack) + 1 /\ Len(stack') \in 1..MaxScreens
      /\ \A i \in 1..Len(stack) : stack'[i] = stack[i]
      /\ stack'[1] = Status /\ Top' = s /\ Above(stack')
  BY <1>1, <1>2, <1>3, PushIs
<1>5. SessionTyped'
  BY <1>1, <1>2, <1>4 DEF SessionTyped
<1>6. ASSUME ~stray PROVE Calm(stack', worker', busy', planHash', disk', chosen')
  <2>1. Quiet
    BY <1>1, <1>6
  <2>2. TopOf(stack).kind # "monitor"
    BY <1>2, <2>1 DEF Quiet, Monitored
  <2>3. Nothing(worker) /\ planHash \in {NoHash, disk}
    BY <1>1, <1>2, <2>1, <2>2, FreeIs
  <2>4. TopOf(stack').kind = "stage"
    BY <1>3, <1>4 DEF Top, TopOf, Last
  <2>5. Clear(stack')
    <3>1. \A i \in 1..(Len(stack) - 1) : stack[i].kind # "monitor"
      BY <2>1 DEF Quiet, Monitored
    <3>2. \A i \in 1..(Len(stack') - 1) : stack'[i].kind # "monitor"
      BY <1>1, <1>4, <2>2, <3>1 DEF TopOf, SessionTyped
    <3>. QED
      BY <2>4, <3>2 DEF Clear
  <2>. QED
    BY <1>2, <2>3, <2>4, <2>5, NothingCalm
<1>. QED
  BY <1>1, <1>2, <1>4, <1>5, <1>6, CalmHolds

LEMMA PointStep ==
    ASSUME SessionInv, Point
    PROVE  SessionInv'
<1>1. SessionTyped /\ Above(stack) /\ Crew(worker) /\ (~stray => Quiet)
  BY InvParts
<1>2. /\ On("stage") /\ Top.command = "apply" /\ planHash' \in {disk, planHash} \ {NoHash}
      /\ chosen' = chosen \cup {planHash'}
      /\ UNCHANGED <<stack, busy, job, disk, plans, worker, settled, exited, stray>>
  BY DEF Point
<1>3. planHash' \in Hashes /\ chosen' \subseteq Hashes
  BY <1>1, <1>2 DEF SessionTyped
<1>4. SessionTyped'
  BY <1>1, <1>2, <1>3 DEF SessionTyped
<1>5. ASSUME ~stray PROVE OneHash(stack, worker, planHash', disk, chosen')
  <2>1. Quiet
    BY <1>1, <1>5
  <2>2. TopOf(stack).kind = "stage" /\ TopOf(stack).command = "apply"
    BY <1>1, <1>2, TopIsTop
  <2>3. \A w \in 1..MaxWorkers : worker[w].command # "plan"
    BY <2>1, <2>2, ScreenIs DEF Quiet, OnItsScreen
  <2>4. planHash \in {NoHash, disk}
    BY <2>1, <2>3 DEF Quiet, OneHash, Settled
  <2>5. planHash' = disk
    BY <1>2, <2>4
  <2>. QED
    BY <1>2, <2>1, <2>2, <2>5 DEF Quiet, OneHash, Settled
<1>. QED
  BY <1>1, <1>2, <1>4, <1>5, InvHolds DEF Quiet

(* A stage that is asked for starts, unless the session is held.            *)
LEMMA StartedIs ==
    ASSUME SessionTyped, Crew(worker), NEW c \in LocalStages, NEW screen \in 0..MaxScreens, Started(c, screen)
    PROVE  /\ Crew(worker') /\ busy' \in BOOLEAN
           /\ \/ UNCHANGED <<worker, busy>> /\ busy
              \/ /\ ~busy /\ busy'
                 /\ \E w \in 1..MaxWorkers :
                      Only(w) /\ LocalThread(worker'[w]) /\ worker'[w].pc = "starting" /\ worker'[w].command = c
<1>1. CASE busy
  BY <1>1 DEF Started, MayStart, SessionTyped
<1>2. CASE ~busy
  <2>. DEFINE t == Thread("stage", c, NoJob, screen)
  <2>1. CanStart /\ StartThread(t) /\ busy' = TRUE
    BY <1>2 DEF Started, MayStart
  <2>2. t \in Threads /\ Formed(t) /\ LocalThread(t) /\ t.command = c /\ t.pc = "starting"
    BY StageThread
  <2>3. /\ Crew(worker')
        /\ \E w \in 1..MaxWorkers : worker[w] = Done /\ worker'[w] = t /\ Only(w)
    BY <2>1, <2>2, NewThread
  <2>. QED
    BY <1>2, <2>1, <2>2, <2>3
<1>. QED
  BY <1>1, <1>2 DEF SessionTyped

LEMMA PressRunStep ==
    ASSUME SessionInv, PressRun
    PROVE  SessionInv'
<1>1. SessionTyped /\ Above(stack) /\ Crew(worker) /\ (~stray => Quiet)
  BY InvParts
<1>2. On("stage") /\ UNCHANGED <<job, planHash, disk, plans, settled, exited, chosen, stray>>
  BY DEF PressRun
<1>3. /\ Top \in Screens /\ Top.kind = "stage" /\ Top.command \in LocalStages
      /\ Top = Screen("stage", Top.command, 0) /\ TopOf(stack) = Top
      /\ Len(stack) \in Nat \ {0} /\ Len(stack) \in 0..MaxScreens
  BY <1>1, <1>2, TopIs, TopIsTop, ScreensAre DEF On
<1>4. CASE Top.command = "apply"
  <2>. DEFINE s == Screen("confirm", "apply", planHash)
  <2>1. planHash # NoHash /\ Push(s) /\ UNCHANGED <<busy, worker>>
    BY <1>4 DEF PressRun
  <2>2. s \in Screens /\ s.kind = "confirm" /\ s.of = planHash
    BY <1>1 DEF Screen, Screens, SessionTyped
  <2>3. /\ stack' \in Seq(Screens) /\ Len(stack') = Len(stack) + 1 /\ Len(stack') \in 1..MaxScreens
        /\ \A i \in 1..Len(stack) : stack'[i] = stack[i]
        /\ stack'[1] = Status /\ Top' = s /\ Above(stack')
    BY <1>1, <1>3, <1>4, <2>1, <2>2, PushIs DEF Plain
  <2>4. SessionTyped'
    BY <1>1, <1>2, <2>1, <2>3 DEF SessionTyped
  <2>5. ASSUME ~stray
        PROVE  /\ Flight(worker', busy') /\ Monitored(stack', worker', job')
               /\ OnItsScreen(stack', worker') /\ OneHash(stack', worker', planHash', disk', chosen')
    <3>1. Quiet
      BY <1>1, <2>5
    <3>2. TopOf(stack') = s
      BY <2>3 DEF Top, TopOf, Last
    <3>3. \A w \in 1..MaxWorkers : worker[w].command # "plan" /\ ~Polling(worker[w])
      BY <1>3, <1>4, <3>1, ScreenIs DEF Quiet, OnItsScreen, Monitored
    <3>4. planHash = disk
      BY <2>1, <3>1, <3>3 DEF Quiet, OneHash, Settled
    <3>5. \A i \in 1..(Len(stack') - 1) : stack'[i].kind # "monitor"
      <4>1. \A i \in 1..(Len(stack) - 1) : stack[i].kind # "monitor"
        BY <3>1 DEF Quiet, Monitored
      <4>2. stack[Len(stack)].kind # "monitor"
        BY <1>3 DEF TopOf
      <4>. QED
        BY <1>3, <2>3, <4>1, <4>2
    <3>6. Monitored(stack', worker, job)
      BY <2>2, <3>2, <3>3, <3>5 DEF Monitored
    <3>7. OnItsScreen(stack', worker)
      BY <2>2, <3>2, <3>3 DEF OnItsScreen
    <3>8. OneHash(stack', worker, planHash, disk, chosen)
      BY <2>2, <3>1, <3>2, <3>4 DEF Quiet, OneHash, Settled
    <3>. QED
      BY <1>2, <2>1, <3>1, <3>6, <3>7, <3>8 DEF Quiet
  <2>. QED
    BY <1>1, <1>2, <2>1, <2>3, <2>4, <2>5, InvHolds
<1>5. CASE Top.command # "apply"
  <2>1. Started(Top.command, Len(stack)) /\ stack' = stack
    BY <1>5 DEF PressRun
  <2>2. /\ Crew(worker') /\ busy' \in BOOLEAN
        /\ \/ UNCHANGED <<worker, busy>> /\ busy
           \/ /\ ~busy /\ busy'
              /\ \E w \in 1..MaxWorkers : /\ Only(w) /\ LocalThread(worker'[w]) /\ worker'[w].pc = "starting"
                                          /\ worker'[w].command = Top.command
    BY <1>1, <1>3, <2>1, StartedIs
  <2>3. SessionTyped'
    BY <1>1, <1>2, <2>1, <2>2 DEF SessionTyped, Crew
  <2>4. ASSUME ~stray
        PROVE  /\ Flight(worker', busy') /\ Monitored(stack', worker', job')
               /\ OnItsScreen(stack', worker') /\ OneHash(stack', worker', planHash', disk', chosen')
    <3>1. Quiet
      BY <1>1, <2>4
    <3>2. CASE UNCHANGED <<worker, busy>>
      BY <1>2, <2>1, <3>1, <3>2 DEF Quiet
    <3>3. CASE ~busy /\ busy'
      <4>1. Nothing(worker) /\ planHash \in {NoHash, disk}
        BY <1>1, <1>3, <3>1, <3>3, FreeIs
      <4>2. PICK w \in 1..MaxWorkers : /\ Only(w) /\ LocalThread(worker'[w]) /\ worker'[w].pc = "starting"
                                       /\ worker'[w].command = Top.command
        BY <2>2, <3>3
      <4>3. Clear(stack)
        BY <1>3, <3>1 DEF Quiet, Monitored, Clear
      <4>4. StartsOn(worker'[w], stack) /\ worker'[w].command # "apply"
        BY <1>3, <1>5, <4>2, <4>3 DEF StartsOn
      <4>5. Calm(stack, worker', TRUE, planHash, disk, chosen)
        BY <2>2, <4>1, <4>2, <4>4, LocalStarts
      <4>. QED
        BY <1>2, <2>1, <3>3, <4>5 DEF Calm, Flight
    <3>. QED
      BY <2>2, <3>2, <3>3
  <2>. QED
    BY <1>1, <1>2, <2>1, <2>2, <2>3, <2>4, InvHolds
<1>. QED
  BY <1>4, <1>5

(* Closing the dialogue on top uncovers the stage it belongs to.            *)
LEMMA DialogueClosed ==
    ASSUME SessionTyped, Above(stack), Top.kind \in {"confirm", "install"}, stack' = Front(stack)
    PROVE  /\ stack' \in Seq(Screens) /\ Len(stack') \in 1..MaxScreens /\ stack'[1] = Status /\ Above(stack')
           /\ Len(stack) - 1 \in 0..MaxScreens
           /\ TopOf(stack') = IF Top.kind = "confirm" THEN Screen("stage", "apply", 0) ELSE Screen("stage", "plan", 0)
           /\ TopOf(stack').kind = "stage"
           /\ Quiet => Clear(stack')
<1>1. Len(stack) > 1 /\ Top = stack[Len(stack)] /\ Len(stack) \in Nat /\ Len(stack) \in 0..MaxScreens
  BY TopIs DEF On
<1>2. /\ stack' \in Seq(Screens) /\ Len(stack') = Len(stack) - 1 /\ Len(stack') \in 1..MaxScreens
      /\ \A i \in 1..(Len(stack) - 1) : stack'[i] = stack[i]
      /\ stack'[1] = Status /\ Above(stack')
  BY <1>1, FrontIs
<1>3. TopOf(stack') = stack[Len(stack) - 1]
  BY <1>1, <1>2 DEF TopOf
<1>4. TopOf(stack') = IF Top.kind = "confirm" THEN Screen("stage", "apply", 0) ELSE Screen("stage", "plan", 0)
  BY <1>1, <1>3 DEF Above
<1>5. TopOf(stack').kind = "stage"
  BY <1>4, ScreenIs
<1>6. ASSUME Quiet PROVE Clear(stack')
  <2>1. \A i \in 1..(Len(stack) - 1) : stack[i].kind # "monitor"
    BY <1>6 DEF Quiet, Monitored
  <2>2. \A i \in 1..(Len(stack') - 1) : stack'[i].kind # "monitor"
    BY <1>1, <1>2, <2>1
  <2>. QED
    BY <1>5, <2>2 DEF Clear
<1>7. Len(stack) - 1 \in 0..MaxScreens
  BY <1>1, TerminalBounds
<1>. QED
  BY <1>2, <1>4, <1>5, <1>6, <1>7

LEMMA AnswerStep ==
    ASSUME SessionInv, Answer
    PROVE  SessionInv'
<1>1. SessionTyped /\ Above(stack) /\ Crew(worker) /\ (~stray => Quiet)
  BY InvParts
<1>2. /\ On("confirm") /\ stack' = Front(stack)
      /\ UNCHANGED <<job, planHash, disk, plans, settled, exited, stray>>
  BY DEF Answer
<1>3. Top.kind = "confirm" /\ Top.of \in Hashes /\ TopOf(stack) = Top
  BY <1>1, <1>2, TopIs, TopIsTop, ScreensAre DEF On
<1>4. /\ stack' \in Seq(Screens) /\ Len(stack') \in 1..MaxScreens /\ stack'[1] = Status /\ Above(stack')
      /\ Len(stack) - 1 \in 0..MaxScreens
      /\ TopOf(stack') = Screen("stage", "apply", 0) /\ TopOf(stack').kind = "stage"
      /\ Quiet => Clear(stack')
  BY <1>1, <1>2, <1>3, DialogueClosed
<1>5. /\ Crew(worker') /\ busy' \in BOOLEAN /\ chosen' \in {chosen, {Top.of}}
      /\ \/ UNCHANGED <<worker, busy>>
         \/ /\ ~busy /\ busy' /\ chosen' = {Top.of}
            /\ \E w \in 1..MaxWorkers :
                 Only(w) /\ LocalThread(worker'[w]) /\ worker'[w].pc = "starting" /\ worker'[w].command = "apply"
  <2>1. CASE UNCHANGED <<busy, worker, chosen>>
    BY <1>1, <2>1 DEF SessionTyped
  <2>2. CASE Started("apply", Len(stack) - 1) /\ chosen' = {Top.of}
    <3>1. "apply" \in LocalStages
      BY DEF LocalStages
    <3>. QED
      BY <1>1, <1>4, <2>2, <3>1, StartedIs
  <2>. QED
    BY <2>1, <2>2 DEF Answer
<1>6. SessionTyped'
  <2>1. chosen' \subseteq Hashes
    BY <1>1, <1>3, <1>5 DEF SessionTyped
  <2>. QED
    BY <1>1, <1>2, <1>4, <1>5, <2>1 DEF SessionTyped, Crew
<1>7. ASSUME ~stray
      PROVE  /\ Flight(worker', busy') /\ Monitored(stack', worker', job')
             /\ OnItsScreen(stack', worker') /\ OneHash(stack', worker', planHash', disk', chosen')
  <2>1. Quiet
    BY <1>1, <1>7
  <2>2. planHash = disk /\ Top.of = disk
    BY <1>3, <2>1 DEF Quiet, OneHash
  <2>3. CASE UNCHANGED <<worker, busy>>
    <3>1. \A w \in 1..MaxWorkers : worker[w].command # "plan" /\ ~Polling(worker[w])
      BY <1>3, <2>1, ScreenIs DEF Quiet, OnItsScreen, Monitored
    <3>2. Monitored(stack', worker, job)
      BY <1>4, <2>1, <3>1 DEF Monitored, Clear
    <3>3. OnItsScreen(stack', worker)
      BY <1>4, <3>1 DEF OnItsScreen
    <3>4. \A w \in 1..MaxWorkers : worker[w].command = "apply" => disk \in chosen'
      BY <1>5, <2>1, <2>2 DEF Quiet, OneHash
    <3>5. OneHash(stack', worker, planHash, disk, chosen')
      BY <1>4, <2>1, <2>2, <3>4 DEF Quiet, OneHash, Settled
    <3>. QED
      BY <1>2, <2>1, <2>3, <3>2, <3>3, <3>5 DEF Quiet
  <2>4. CASE ~busy /\ busy' /\ chosen' = {Top.of}
    <3>1. Nothing(worker)
      BY <1>1, <1>3, <2>1, <2>4, FreeIs
    <3>2. CASE UNCHANGED <<worker, busy>>
      BY <2>3, <3>2
    <3>3. CASE \E w \in 1..MaxWorkers :
                 Only(w) /\ LocalThread(worker'[w]) /\ worker'[w].pc = "starting" /\ worker'[w].command = "apply"
      <4>1. PICK w \in 1..MaxWorkers :
              Only(w) /\ LocalThread(worker'[w]) /\ worker'[w].pc = "starting" /\ worker'[w].command = "apply"
        BY <3>3
      <4>2. StartsOn(worker'[w], stack')
        BY <1>4, <2>1, <4>1 DEF StartsOn
      <4>3. Calm(stack', worker', TRUE, planHash, disk, chosen')
        BY <1>5, <2>2, <2>4, <3>1, <4>1, <4>2, LocalStarts
      <4>. QED
        BY <1>2, <2>4, <4>3 DEF Calm, Flight
    <3>. QED
      BY <1>5, <3>2, <3>3
  <2>. QED
    BY <1>5, <2>3, <2>4
<1>. QED
  BY <1>1, <1>2, <1>4, <1>5, <1>6, <1>7, InvHolds

LEMMA PressInstallStep ==
    ASSUME SessionInv, PressInstall
    PROVE  SessionInv'
<1>1. SessionTyped /\ Above(stack) /\ Crew(worker) /\ (~stray => Quiet)
  BY InvParts
<1>. DEFINE s == Screen("install", "none", 0)
            t == Thread("install", "none", NoJob, Len(stack) + 1)
<1>2. /\ On("stage") /\ Top.command = "plan" /\ ~busy /\ CanStart /\ Push(s) /\ busy' = TRUE /\ StartThread(t)
      /\ UNCHANGED <<job, planHash, disk, plans, settled, exited, chosen, stray>>
  BY DEF PressInstall
<1>3. /\ Top = Screen("stage", "plan", 0) /\ Top.kind = "stage" /\ TopOf(stack) = Top
      /\ Len(stack) \in Nat \ {0}
  BY <1>1, <1>2, TopIs, TopIsTop, ScreensAre DEF On
<1>4. s \in Screens /\ s.kind = "install"
  BY DEF Screen, Screens
<1>5. /\ stack' \in Seq(Screens) /\ Len(stack') = Len(stack) + 1 /\ Len(stack') \in 1..MaxScreens
      /\ \A i \in 1..Len(stack) : stack'[i] = stack[i]
      /\ stack'[1] = Status /\ Top' = s /\ Above(stack')
  BY <1>1, <1>2, <1>3, <1>4, PushIs DEF Plain
<1>6. t \in Threads /\ Formed(t) /\ LocalThread(t) /\ t.command = "none" /\ t.pc = "starting"
  <2>1. Len(stack) + 1 \in 0..MaxScreens
    BY <1>3, <1>5
  <2>. QED
    BY <1>1, <2>1, InstallThread
<1>7. Crew(worker') /\ \E w \in 1..MaxWorkers : worker[w] = Done /\ worker'[w] = t /\ Only(w)
  BY <1>1, <1>2, <1>6, NewThread
<1>8. SessionTyped'
  BY <1>1, <1>2, <1>5, <1>7 DEF SessionTyped, Crew
<1>9. ASSUME ~stray PROVE Calm(stack', worker', busy', planHash', disk', chosen')
  <2>1. Quiet
    BY <1>1, <1>9
  <2>2. Nothing(worker) /\ planHash \in {NoHash, disk}
    BY <1>1, <1>2, <1>3, <2>1, FreeIs
  <2>3. TopOf(stack').kind = "install"
    BY <1>4, <1>5 DEF Top, TopOf, Last
  <2>4. Clear(stack')
    <3>1. \A i \in 1..(Len(stack) - 1) : stack[i].kind # "monitor"
      BY <2>1 DEF Quiet, Monitored
    <3>2. \A i \in 1..(Len(stack') - 1) : stack'[i].kind # "monitor"
      BY <1>3, <1>5, <3>1 DEF TopOf
    <3>. QED
      BY <2>3, <3>2 DEF Clear
  <2>5. PICK w \in 1..MaxWorkers : worker'[w] = t /\ Only(w)
    BY <1>7
  <2>6. StartsOn(worker'[w], stack') /\ worker'[w].command # "apply"
    BY <1>6, <2>3, <2>4, <2>5 DEF StartsOn
  <2>7. Calm(stack', worker', TRUE, planHash, disk, chosen)
    BY <1>7, <2>2, <2>5, <2>6, LocalStarts
  <2>. QED
    BY <1>2, <2>7
<1>. QED
  BY <1>1, <1>2, <1>5, <1>7, <1>8, <1>9, CalmHolds

LEMMA CloseInstallStep ==
    ASSUME SessionInv, CloseInstall
    PROVE  SessionInv'
<1>1. SessionTyped /\ Above(stack) /\ Crew(worker) /\ (~stray => Quiet)
  BY InvParts
<1>2. /\ On("install") /\ ~busy /\ stack' = Front(stack)
      /\ UNCHANGED <<job, planHash, disk, plans, settled, exited, chosen, stray>>
  BY DEF CloseInstall
<1>3. Top.kind = "install" /\ TopOf(stack) = Top
  BY <1>1, <1>2, TopIsTop DEF On
<1>4. /\ stack' \in Seq(Screens) /\ Len(stack') \in 1..MaxScreens /\ stack'[1] = Status /\ Above(stack')
      /\ Len(stack) - 1 \in 0..MaxScreens
      /\ TopOf(stack') = Screen("stage", "plan", 0) /\ TopOf(stack').kind = "stage"
      /\ Quiet => Clear(stack')
  BY <1>1, <1>2, <1>3, DialogueClosed
<1>5. /\ Crew(worker') /\ busy' \in BOOLEAN
      /\ \/ UNCHANGED <<worker, busy>>
         \/ /\ busy'
            /\ \E w \in 1..MaxWorkers :
                 Only(w) /\ LocalThread(worker'[w]) /\ worker'[w].pc = "starting" /\ worker'[w].command = "plan"
  <2>1. CASE UNCHANGED <<worker, busy>>
    BY <1>1, <2>1 DEF SessionTyped
  <2>2. CASE Started("plan", Len(stack) - 1)
    <3>1. "plan" \in LocalStages
      BY DEF LocalStages
    <3>. QED
      BY <1>1, <1>4, <2>2, <3>1, StartedIs
  <2>. QED
    BY <2>1, <2>2 DEF CloseInstall
<1>6. SessionTyped'
  BY <1>1, <1>2, <1>4, <1>5 DEF SessionTyped, Crew
<1>7. ASSUME ~stray PROVE Calm(stack', worker', busy', planHash', disk', chosen')
  <2>1. Quiet
    BY <1>1, <1>7
  <2>2. Nothing(worker) /\ planHash \in {NoHash, disk}
    BY <1>1, <1>2, <1>3, <2>1, FreeIs
  <2>3. CASE UNCHANGED <<worker, busy>>
    <3>1. Calm(stack', worker, busy, planHash, disk, chosen)
      BY <1>4, <2>1, <2>2, NothingCalm
    <3>. QED
      BY <1>2, <2>3, <3>1
  <2>4. CASE /\ busy'
             /\ \E w \in 1..MaxWorkers :
                  Only(w) /\ LocalThread(worker'[w]) /\ worker'[w].pc = "starting" /\ worker'[w].command = "plan"
    <3>1. PICK w \in 1..MaxWorkers :
            Only(w) /\ LocalThread(worker'[w]) /\ worker'[w].pc = "starting" /\ worker'[w].command = "plan"
      BY <2>4
    <3>2. StartsOn(worker'[w], stack') /\ worker'[w].command # "apply"
      BY <1>4, <2>1, <3>1 DEF StartsOn
    <3>3. Calm(stack', worker', TRUE, planHash, disk, chosen)
      BY <1>5, <2>2, <3>1, <3>2, LocalStarts
    <3>. QED
      BY <1>2, <2>4, <3>3 DEF Calm, Flight
  <2>. QED
    BY <1>5, <2>3, <2>4
<1>. QED
  BY <1>1, <1>2, <1>4, <1>5, <1>6, <1>7, CalmHolds

LEMMA OpenMonitorStep ==
    ASSUME SessionInv, NEW j \in Jobs, OpenMonitor(j)
    PROVE  SessionInv'
<1>1. SessionTyped /\ Above(stack) /\ Crew(worker) /\ (~stray => Quiet)
  BY InvParts
<1>. DEFINE s == Screen("monitor", "none", j)
            t == [Thread("poll", "none", j, Len(stack) + 1) EXCEPT !.pc = "asking"]
<1>2. /\ On("status") /\ ~busy /\ Push(s) /\ job' = j
      /\ UNCHANGED <<planHash, disk, plans, settled, exited, chosen, stray>>
  BY DEF OpenMonitor
<1>3. /\ Top.kind = "status" /\ TopOf(stack) = Top /\ Len(stack) \in Nat \ {0}
  BY <1>1, <1>2, TopIs, TopIsTop DEF On
<1>4. s \in Screens /\ s.kind = "monitor"
  BY DEF Screen, Screens
<1>5. /\ stack' \in Seq(Screens) /\ Len(stack') = Len(stack) + 1 /\ Len(stack') \in 1..MaxScreens
      /\ \A i \in 1..Len(stack) : stack'[i] = stack[i]
      /\ stack'[1] = Status /\ Top' = s /\ Above(stack')
  BY <1>1, <1>2, <1>3, <1>4, PushIs DEF Plain
<1>6. t \in Threads /\ Formed(t) /\ Polling(t) /\ t.screen = Len(stack) + 1 /\ ~t.cancelled
  <2>1. Len(stack) + 1 \in 0..MaxScreens
    BY <1>3, <1>5
  <2>. QED
    BY <1>1, <2>1, PollThread
<1>7. /\ Crew(worker') /\ busy' \in BOOLEAN
      /\ \/ UNCHANGED worker
         \/ \E w \in 1..MaxWorkers : worker[w] = Done /\ worker'[w] = t /\ Only(w)
  <2>1. CASE busy' = TRUE /\ CanStart /\ StartThread(t)
    BY <1>1, <1>6, <2>1, NewThread
  <2>2. CASE UNCHANGED <<busy, worker>>
    BY <1>1, <2>2 DEF SessionTyped
  <2>. QED
    BY <2>1, <2>2 DEF OpenMonitor
<1>8. SessionTyped'
  BY <1>1, <1>2, <1>5, <1>7 DEF SessionTyped, Crew
<1>9. ASSUME ~stray
      PROVE  /\ Flight(worker', busy') /\ Monitored(stack', worker', job')
             /\ OnItsScreen(stack', worker') /\ OneHash(stack', worker', planHash', disk', chosen')
  <2>1. Quiet
    BY <1>1, <1>9
  <2>2. Nothing(worker) /\ planHash \in {NoHash, disk}
    BY <1>1, <1>2, <1>3, <2>1, FreeIs
  <2>3. TopOf(stack') = s
    BY <1>5 DEF Top, TopOf, Last
  <2>4. \A i \in 1..(Len(stack') - 1) : stack'[i].kind # "monitor"
    <3>1. \A i \in 1..(Len(stack) - 1) : stack[i].kind # "monitor"
      BY <2>1 DEF Quiet, Monitored
    <3>. QED
      BY <1>3, <1>5, <3>1 DEF TopOf
  <2>5. \A v \in 1..MaxWorkers :
          Polling(worker'[v]) => worker'[v].screen = Len(stack') /\ ~worker'[v].cancelled
    BY <1>5, <1>6, <1>7, <2>2 DEF Nothing, Only
  <2>6. \A v \in 1..MaxWorkers : ~LocalThread(worker'[v])
    <3>1. ~LocalThread(t)
      BY <1>6 DEF LocalThread, Polling
    <3>. QED
      BY <1>7, <2>2, <3>1 DEF Nothing, Only
  <2>7. \A v \in 1..MaxWorkers :
          worker'[v].command \notin {"plan", "apply"} /\ worker'[v].pc \notin LocalPlaces
    BY <1>7, <2>6, FormedIs DEF Crew
  <2>8. Monitored(stack', worker', j)
    BY <1>4, <2>3, <2>4, <2>5, <2>6, JobsAssumption DEF Monitored, NoJob
  <2>9. OnItsScreen(stack', worker')
    BY <2>7 DEF OnItsScreen
  <2>10. OneHash(stack', worker', planHash, disk, chosen)
    BY <1>4, <2>2, <2>3, <2>7 DEF OneHash, Settled, LocalPlaces
  <2>11. Flight(worker', busy')
    BY <2>6 DEF Flight
  <2>. QED
    BY <1>2, <2>8, <2>9, <2>10, <2>11
<1>. QED
  BY <1>1, <1>2, <1>5, <1>7, <1>8, <1>9, InvHolds

LEMMA RefreshStep ==
    ASSUME SessionInv, Refresh
    PROVE  SessionInv'
<1>1. SessionTyped /\ Above(stack) /\ Crew(worker) /\ (~stray => Quiet)
  BY InvParts
<1>. DEFINE t == [Thread("refresh", "none", Top.of, Len(stack)) EXCEPT !.pc = "asking"]
<1>2. /\ On("monitor") /\ CanStart /\ StartThread(t)
      /\ UNCHANGED <<stack, busy, job, planHash, disk, plans, settled, exited, chosen, stray>>
  BY DEF Refresh
<1>3. Top.kind = "monitor" /\ TopOf(stack) = Top /\ Top.of \in Jobs /\ Len(stack) \in 0..MaxScreens
  BY <1>1, <1>2, TopIs, TopIsTop, ScreensAre DEF On
<1>4. t \in Threads /\ Formed(t) /\ Polling(t) /\ t.screen = Len(stack) /\ ~t.cancelled
  BY <1>1, <1>3, PollThread
<1>5. Crew(worker') /\ \E w \in 1..MaxWorkers : worker[w] = Done /\ worker'[w] = t /\ Only(w)
  BY <1>1, <1>2, <1>4, NewThread
<1>6. SessionTyped'
  BY <1>1, <1>2, <1>5 DEF SessionTyped, Crew
<1>7. ASSUME ~stray
      PROVE  /\ Flight(worker', busy') /\ Monitored(stack', worker', job')
             /\ OnItsScreen(stack', worker') /\ OneHash(stack', worker', planHash', disk', chosen')
  <2>1. Quiet
    BY <1>1, <1>7
  <2>2. job # NoJob /\ \A v \in 1..MaxWorkers : ~LocalThread(worker[v])
    BY <1>3, <2>1 DEF Quiet, Monitored
  <2>3. \A v \in 1..MaxWorkers : ~LocalThread(worker'[v])
    <3>1. ~LocalThread(t)
      BY <1>4 DEF LocalThread, Polling
    <3>. QED
      BY <1>5, <2>2, <3>1 DEF Only
  <2>4. \A v \in 1..MaxWorkers :
          worker'[v].command \notin {"plan", "apply"} /\ worker'[v].pc \notin LocalPlaces
    BY <1>5, <2>3, FormedIs DEF Crew
  <2>5. planHash \in {NoHash, disk}
    <3>1. \A v \in 1..MaxWorkers : worker[v].command # "plan"
      BY <1>1, <2>2, FormedIs DEF Crew
    <3>. QED
      BY <2>1, <3>1 DEF Quiet, OneHash, Settled
  <2>6. \A v \in 1..MaxWorkers :
          Polling(worker'[v]) => worker'[v].screen = Len(stack) /\ ~worker'[v].cancelled
    <3>1. \A v \in 1..MaxWorkers : Polling(worker[v]) => worker[v].screen = Len(stack) /\ ~worker[v].cancelled
      BY <2>1 DEF Quiet, Monitored
    <3>. QED
      BY <1>4, <1>5, <3>1 DEF Only
  <2>7. Monitored(stack, worker', job)
    BY <1>3, <2>1, <2>2, <2>3, <2>6 DEF Monitored, Quiet
  <2>8. OnItsScreen(stack, worker')
    BY <2>4 DEF OnItsScreen
  <2>9. OneHash(stack, worker', planHash, disk, chosen)
    BY <1>3, <2>4, <2>5 DEF OneHash, Settled, LocalPlaces
  <2>10. Flight(worker', busy)
    BY <2>3 DEF Flight
  <2>. QED
    BY <1>2, <2>7, <2>8, <2>9, <2>10
<1>. QED
  BY <1>1, <1>2, <1>5, <1>6, <1>7, InvHolds

(* Leaving a screen: with no answer under way, nothing is at work after it. *)
LEMMA LeaveIs ==
    ASSUME SessionInv, Leave, Len(stack) > 1, Top.kind \in Plain,
           busy => On("monitor")
    PROVE  /\ stack' \in Seq(Screens) /\ Len(stack') \in 1..MaxScreens /\ stack'[1] = Status /\ Above(stack')
           /\ Crew(worker') /\ job' \in Jobs \cup {NoJob} /\ stray' \in BOOLEAN
           /\ \/ stray'
              \/ \A b : Calm(stack', worker', b, planHash, disk, chosen)
<1>1. SessionTyped /\ Above(stack) /\ Crew(worker) /\ (~stray => Quiet)
  BY InvParts
<1>2. /\ stack' = Front(stack)
      /\ job' = IF Last(Front(stack)).kind = "status" THEN NoJob
                ELSE IF Last(Front(stack)).kind = "monitor" THEN Last(Front(stack)).of ELSE job
  BY DEF Leave, Pop
<1>3. /\ stack' \in Seq(Screens) /\ Len(stack') = Len(stack) - 1 /\ Len(stack') \in 1..MaxScreens
      /\ \A i \in 1..(Len(stack) - 1) : stack'[i] = stack[i]
      /\ Last(Front(stack)) = stack[Len(stack) - 1] /\ Last(Front(stack)) \in Screens
      /\ stack'[1] = Status /\ Above(stack')
  BY <1>1, <1>2, FrontIs
<1>4. job' \in Jobs \cup {NoJob}
  BY <1>1, <1>2, <1>3, ScreensAre DEF SessionTyped
<1>5. worker' = [w \in 1..MaxWorkers |->
                   IF Answering(w) THEN [worker[w] EXCEPT !.cancelled = TRUE] ELSE worker[w]]
  BY <1>1 DEF Leave, SessionTyped
<1>6. ASSUME NEW w \in 1..MaxWorkers
      PROVE  worker'[w] \in Threads /\ Formed(worker'[w])
  <2>1. worker[w] \in Threads /\ Formed(worker[w])
    BY <1>1 DEF Crew
  <2>2. CASE ~Answering(w)
    BY <1>5, <2>1, <2>2
  <2>3. CASE Answering(w)
    <3>1. worker'[w] = [worker[w] EXCEPT !.cancelled = TRUE]
      BY <1>5, <2>3
    <3>2. worker'[w] \in Threads
      BY <2>1, <3>1 DEF Threads
    <3>3. /\ worker'[w].task = worker[w].task /\ worker'[w].pc = worker[w].pc
          /\ worker'[w].job = worker[w].job /\ worker'[w].command = worker[w].command
      BY <2>1, <3>1 DEF Threads
    <3>. QED
      BY <2>1, <3>2, <3>3 DEF Formed, Polling
  <2>. QED
    BY <2>2, <2>3
<1>7. Crew(worker')
  BY <1>5, <1>6 DEF Crew
<1>8. stray' = (stray \/ \E w \in 1..MaxWorkers : Answering(w)) /\ stray' \in BOOLEAN
  BY <1>1 DEF Leave, SessionTyped
<1>9. ASSUME ~stray' PROVE \A b : Calm(stack', worker', b, planHash, disk, chosen)
  <2>1. Quiet /\ \A w \in 1..MaxWorkers : ~Answering(w)
    BY <1>1, <1>8, <1>9
  <2>2. worker' = worker
    BY <1>1, <1>5, <2>1 DEF SessionTyped
  <2>3. \A w \in 1..MaxWorkers : ~Polling(worker[w])
    BY <2>1 DEF Quiet, Monitored, Answering, Polling
  <2>4. \A w \in 1..MaxWorkers : ~LocalThread(worker[w])
    <3>1. CASE busy
      BY <1>1, <2>1, <3>1, TopIsTop DEF Quiet, Monitored
    <3>2. CASE ~busy
      BY <2>1, <3>2 DEF Quiet, Flight
    <3>. QED
      BY <3>1, <3>2
  <2>5. Nothing(worker)
    BY <1>1, <2>3, <2>4, FormedIs DEF Crew, Nothing
  <2>6. planHash \in {NoHash, disk}
    BY <2>1, <2>5 DEF Quiet, OneHash, Settled, Nothing
  <2>7. TopOf(stack') = stack[Len(stack) - 1] /\ Len(stack) \in Nat
    BY <1>1, <1>3, TopIs DEF TopOf
  <2>8. Clear(stack')
    <3>1. \A i \in 1..(Len(stack) - 1) : stack[i].kind # "monitor"
      BY <2>1 DEF Quiet, Monitored
    <3>. QED
      BY <1>3, <2>7, <3>1 DEF Clear
  <2>9. TopOf(stack').kind # "confirm"
    BY <1>1, <2>7 DEF Above, Plain
  <2>. QED
    BY <2>2, <2>5, <2>6, <2>8, <2>9, NothingCalm
<1>. QED
  BY <1>3, <1>4, <1>7, <1>8, <1>9

LEMMA DetachStep ==
    ASSUME SessionInv, Detach
    PROVE  SessionInv'
<1>1. On("monitor") /\ Leave /\ busy' = FALSE /\ UNCHANGED <<planHash, disk, plans, settled, exited, chosen>>
  BY DEF Detach
<1>2. Len(stack) > 1 /\ Top.kind \in Plain
  BY <1>1, InvParts, TopIs DEF On, Plain
<1>3. /\ stack' \in Seq(Screens) /\ Len(stack') \in 1..MaxScreens /\ stack'[1] = Status /\ Above(stack')
      /\ Crew(worker') /\ job' \in Jobs \cup {NoJob} /\ stray' \in BOOLEAN
      /\ \/ stray'
         \/ \A b : Calm(stack', worker', b, planHash, disk, chosen)
  BY <1>1, <1>2, LeaveIs
<1>4. SessionTyped'
  BY <1>1, <1>3, InvParts DEF SessionTyped, Crew
<1>. QED
  BY <1>1, <1>3, <1>4, CalmHolds

LEMMA BackStep ==
    ASSUME SessionInv, Back
    PROVE  SessionInv'
<1>1. ~busy /\ Top.kind \in Plain /\ UNCHANGED <<busy, planHash, disk, plans, settled, chosen>>
  BY DEF Back, Plain
<1>2. CASE Len(stack) = 1
  <2>1. exited' = TRUE /\ UNCHANGED <<stack, job, worker, stray>>
    BY <1>2 DEF Back
  <2>2. SessionTyped'
    BY <1>1, <2>1, InvParts DEF SessionTyped
  <2>3. Crew(worker') /\ Above(stack') /\ (~stray => Quiet)
    BY <2>1, InvParts
  <2>. QED
    BY <1>1, <2>1, <2>2, <2>3, InvHolds DEF Quiet
<1>3. CASE Len(stack) # 1
  <2>1. Leave /\ exited' = exited
    BY <1>3 DEF Back
  <2>2. Len(stack) > 1
    <3>1. Len(stack) \in Nat \ {0}
      BY InvParts, TopIs
    <3>. QED
      BY <1>3, <3>1
  <2>3. /\ stack' \in Seq(Screens) /\ Len(stack') \in 1..MaxScreens /\ stack'[1] = Status /\ Above(stack')
        /\ Crew(worker') /\ job' \in Jobs \cup {NoJob} /\ stray' \in BOOLEAN
        /\ \/ stray'
           \/ \A b : Calm(stack', worker', b, planHash, disk, chosen)
    BY <1>1, <2>1, <2>2, LeaveIs
  <2>4. SessionTyped'
    BY <1>1, <2>1, <2>3, InvParts DEF SessionTyped, Crew
  <2>. QED
    BY <1>1, <2>1, <2>3, <2>4, CalmHolds
<1>. QED
  BY <1>2, <1>3

-----------------------------------------------------------------------------
LEMMA SessionStart ==
    ASSUME SessionInit
    PROVE  SessionInv
<1>1. /\ stack = <<Status>> /\ busy = FALSE /\ job = NoJob /\ planHash = NoHash /\ disk = plans
      /\ plans \in {0, 1} \cap Hashes /\ worker = [w \in 1..MaxWorkers |-> Done]
      /\ settled = {} /\ exited = FALSE /\ chosen = {} /\ stray = FALSE
  BY DEF SessionInit
<1>2. Status \in Screens /\ Status.kind = "status"
  BY DEF Screens, Status, Screen
<1>3. stack \in Seq(Screens) /\ Len(stack) = 1 /\ stack[1] = Status /\ Len(stack) \in 1..MaxScreens
  BY <1>1, <1>2, TerminalBounds
<1>4. Crew(worker)
  BY <1>1, DoneIs DEF Crew
<1>5. SessionTyped
  <2>1. planHash \in Hashes /\ disk \in Hashes /\ plans \in 0..MaxPlans /\ disk <= plans
    BY <1>1, TerminalBounds DEF Hashes, NoHash
  <2>2. worker \in [1..MaxWorkers -> Threads]
    BY <1>4 DEF Crew
  <2>3. /\ busy \in BOOLEAN /\ exited \in BOOLEAN /\ stray \in BOOLEAN /\ job \in Jobs \cup {NoJob}
        /\ settled \subseteq Jobs /\ chosen \subseteq Hashes
    BY <1>1
  <2>. QED
    BY <1>3, <2>1, <2>2, <2>3 DEF SessionTyped
<1>6. Above(stack)
  BY <1>2, <1>3 DEF Above
<1>7. Calm(stack, worker, busy, planHash, disk, chosen)
  <2>1. Nothing(worker)
    BY <1>1, DoneIs DEF Nothing, LocalThread, Polling, LocalPlaces
  <2>2. TopOf(stack).kind = "status"
    BY <1>2, <1>3 DEF TopOf
  <2>3. Clear(stack)
    BY <1>3, <2>2 DEF Clear
  <2>. QED
    BY <1>1, <2>1, <2>2, <2>3, NothingCalm
<1>. QED
  BY <1>4, <1>5, <1>6, <1>7 DEF SessionInv, Crew, Quiet, Calm

LEMMA SessionStays ==
    ASSUME SessionInv, [SessionNext]_sessionVars
    PROVE  SessionInv'
<1>1. CASE \E w \in 1..MaxWorkers : ThreadStep(w) \/ PassDeadline(w)
  BY <1>1, BeginWorkStep, EndWorkStep, FinishStep, PollStep, PolledStep, GiveUpStep, PassDeadlineStep
     DEF ThreadStep
<1>2. CASE \E c \in LocalStages : OpenStage(c)
  BY <1>2, OpenStageStep
<1>3. CASE Point \/ PressRun \/ Answer \/ PressInstall \/ CloseInstall \/ Refresh \/ Detach \/ Back
  BY <1>3, PointStep, PressRunStep, AnswerStep, PressInstallStep, CloseInstallStep, RefreshStep, DetachStep, BackStep
<1>4. CASE \E j \in Jobs : OpenMonitor(j)
  BY <1>4, OpenMonitorStep
<1>5. CASE (\E j \in Jobs : JobSettles(j)) \/ Quit \/ UNCHANGED sessionVars
  BY <1>5, AroundStep
<1>6. DOMAIN worker = 1..MaxWorkers
  BY InvParts DEF SessionTyped
<1>. QED
  BY <1>1, <1>2, <1>3, <1>4, <1>5, <1>6 DEF SessionNext, SessionStep

LEMMA InvGives == SessionInv => OneChosenStage
<1>. SUFFICES ASSUME SessionInv PROVE OneChosenStage
  OBVIOUS
<1>1. SessionTyped /\ Crew(worker) /\ (~stray => Quiet)
  BY InvParts
<1>2. SessionTypeOK
  <2>1. stack # <<>> /\ Head(stack) = Status
    BY <1>1, TopIs DEF SessionTyped
  <2>2. \A w \in 1..MaxWorkers : worker[w].screen \in 0..MaxScreens /\ worker[w].hash \in Hashes
    BY <1>1 DEF SessionTyped, Threads
  <2>. QED
    BY <1>1, <2>1, <2>2 DEF SessionTypeOK, SessionTyped
<1>3. SingleFlight
  BY <1>1 DEF SingleFlight, Quiet, Flight, Local, LocalThread, SessionTyped
<1>4. AppliedWasChosen
  BY <1>1 DEF AppliedWasChosen, Quiet, OneHash, SessionTyped
<1>. QED
  BY <1>2, <1>3, <1>4 DEF OneChosenStage

(* The terminal interface: as long as no monitor was left with an answer    *)
(* under way, at most one stage or installation runs, the session says so,  *)
(* and an apply uses the hash that was confirmed.                           *)
THEOREM OneStageAtATime == SessionSpec => []OneChosenStage
<1>1. SessionInv /\ [SessionNext]_sessionVars => SessionInv'
  BY SessionStays
<1>. QED
  BY <1>1, SessionStart, InvGives, PTL DEF SessionSpec
==============================================================================

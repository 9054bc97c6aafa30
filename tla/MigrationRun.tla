--------------------------- MODULE MigrationRun ---------------------------
(***************************************************************************)
(* The lifecycle of the runs of one migration spec: create, inspect, plan, *)
(* apply and verify of sanka/runtime/engine.py over the runs table of      *)
(* sanka/runtime/state.py, called by command-line invocations (each starts *)
(* with create) and by Python handles that kept a run id.                  *)
(*                                                                         *)
(* A plan is the set of (route, identity) pairs it froze, and its hash is  *)
(* the plan itself.  The execution of apply is abstracted to what          *)
(* ExactApply allows, a batch at a time; ApplyRefinement shows that the    *)
(* route executor implements it for one plan.                              *)
(***************************************************************************)
EXTENDS KeysetSource

CONSTANTS
    Callers,        \* concurrent command-line invocations or handles
    MaxRoute,       \* BOUND: routes of the plan are 1 .. MaxRoute
    MaxRecord,      \* BOUND: record identities are 1 .. MaxRecord
    InitialSources, \* contents of the source before the first command
    BatchSize,
    MaxRuns,        \* BOUND: runs of the spec
    MaxPlans,       \* BOUND: plan operations
    MaxChanges,     \* BOUND: source changes
    MaxMishaps,     \* BOUND: connector errors, records that fail, callers that die
    Handles         \* do callers also use kept run ids

Routes == 1 .. MaxRoute
Records == 1 .. MaxRecord
Items == Routes \X Records
OfRoute(S, t) == {x \in Records : <<t, x>> \in S}
ToRoute(ids, t) == {t} \X ids
(* In the order of their creation seconds. *)
RunIds == 1 .. MaxRuns

ASSUME BoundsAssumption ==
    /\ MaxRoute \in Nat \ {0} /\ MaxRecord \in Nat /\ BatchSize \in Nat \ {0}
    /\ MaxRuns \in Nat \ {0}
    /\ InitialSources \subseteq SUBSET Items
    /\ Handles \in BOOLEAN

VARIABLES
    source,    \* live records of the routes' source objects
    runs,      \* the runs table
    journal,   \* per run: the execution journal, its status and completed routes
    ledger,    \* per run: records with a terminal ledger row
    failed,    \* per run: records with a failed ledger row
    approvals, \* per run: plans whose hash an apply was admitted with
    reviewed,  \* plans that were shown to the operator
    pc, job,   \* per caller: place and locals of the operation
    budget     \* BOUND: what is left of the bounds

execution == <<journal, ledger, failed>>
vars == <<source, runs, execution, approvals, reviewed, pc, job, budget>>

Operations == {"plan", "apply", "verify", "inspect", "migrate"}
RunStatus == {"none", "created", "inspected", "planned", "applying", "applied",
              "verified", "failed"}
Run == [status : RunStatus, inspected : BOOLEAN,
        planned : Nat, plan : SUBSET Items]
NoRun == [status |-> "none", inspected |-> FALSE, planned |-> 0, plan |-> {}]

(* Locals: the operation, its run, the hash the operator passed, the plan  *)
(* it loaded or is reading, the route and page cursor of that reading, and *)
(* the completed routes of apply's snapshot.                               *)
Job == [op : Operations, run : RunIds, hash : SUBSET Items, plan : SUBSET Items,
        route : Routes, cursor : Nat, done : SUBSET Routes]
NoJob == [op |-> "verify", run |-> 1, hash |-> {}, plan |-> {},
          route |-> 1, cursor |-> 0, done |-> {}]
Places == {"idle", "create", "inspect", "plan", "candidates", "save", "apply",
           "refused", "start", "drive", "batch", "batchEnd", "executed", "applied", "failing",
           "verify", "counting", "verified"}

Init ==
    /\ source \in InitialSources
    /\ runs = [r \in RunIds |-> NoRun]
    /\ journal = [r \in RunIds |-> [status |-> "none", completed |-> {}]]
    /\ ledger = [r \in RunIds |-> {}]
    /\ failed = [r \in RunIds |-> {}]
    /\ approvals = [r \in RunIds |-> {}]
    /\ reviewed = {}
    /\ pc = [c \in Callers |-> "idle"]
    /\ job = [c \in Callers |-> NoJob]
    /\ budget = [plans |-> MaxPlans,
                 mishaps |-> MaxMishaps, changes |-> MaxChanges]

Pay(kinds) ==
    /\ \A k \in kinds : budget[k] > 0
    /\ budget' = [k \in DOMAIN budget |-> IF k \in kinds THEN budget[k] - 1 ELSE budget[k]]
Spend(kind) == Pay({kind})
Exists(r) == runs[r].status # "none"
MyRun(c) == runs[job[c].run]
Go(c, place) == pc' = [pc EXCEPT ![c] = place]
(* An operation that has returned leaves no locals. *)
Return(c) == Go(c, "idle") /\ job' = [job EXCEPT ![c] = NoJob]
Cost(op) == IF op \in {"plan", "migrate"} THEN {"plans"} ELSE {}
SetRun(r, status) == runs' = [runs EXCEPT ![r].status = status]

-----------------------------------------------------------------------------
(* create.                                                                 *)

(* find_latest_run orders by the creation second.  (Runs of the same       *)
(* second are ordered by their random ids, which is not modelled.)         *)
IsLatest(r) == Exists(r) /\ \A q \in RunIds : Exists(q) => q <= r

Reusable(r) == IsLatest(r) /\ runs[r].status # "failed"

(* BOUND: every run that is being created finds an id. *)
RoomForRun ==
    Cardinality({r \in RunIds : Exists(r)}) + Cardinality({c \in Callers : pc[c] = "create"}) < MaxRuns

(* A command line invocation: the latest run of the spec unless it failed. *)
(* Only apply takes a plan hash, one the operator has been shown.          *)
Invoke(c, op) ==
    /\ pc[c] = "idle"
    /\ \E hash \in IF op = "apply" THEN reviewed ELSE {{}} :
        \/ \E r \in RunIds :
            /\ Reusable(r)
            /\ job' = [job EXCEPT ![c] = [NoJob EXCEPT !.op = op, !.run = r, !.hash = hash]]
            /\ Go(c, IF op = "migrate" THEN "plan" ELSE op)
            /\ Pay(Cost(op))
        \/ /\ ~\E r \in RunIds : Reusable(r)
           /\ job' = [job EXCEPT ![c] = [NoJob EXCEPT !.op = op, !.hash = hash]]
           /\ Go(c, "create")
           /\ RoomForRun /\ Pay(Cost(op))
    /\ UNCHANGED <<source, runs, execution, approvals, reviewed>>

CreateRun(c) ==
    /\ pc[c] = "create"
    /\ \E r \in RunIds :
        /\ ~Exists(r) /\ \A q \in RunIds : q < r => Exists(q)
        /\ runs' = [runs EXCEPT ![r].status = "created"]
        /\ job' = [job EXCEPT ![c].run = r]
    /\ Go(c, IF job[c].op = "migrate" THEN "plan" ELSE job[c].op)
    /\ UNCHANGED <<source, execution, approvals, reviewed, budget>>

(* A Python handle calls one operation of the run it was made for. *)
UseHandle(c, op) ==
    /\ Handles /\ pc[c] = "idle"
    /\ \E r \in RunIds : \E hash \in IF op = "apply" THEN reviewed ELSE {{}} :
        /\ Exists(r)
        /\ job' = [job EXCEPT ![c] = [NoJob EXCEPT !.op = op, !.run = r, !.hash = hash]]
    /\ Go(c, op)
    /\ Pay(Cost(op))
    /\ UNCHANGED <<source, runs, execution, approvals, reviewed>>

-----------------------------------------------------------------------------
(* inspect and plan.                                                       *)

Inspect(c) ==
    /\ pc[c] = "inspect"
    /\ runs' = [runs EXCEPT ![job[c].run].status = "inspected",
                            ![job[c].run].inspected = TRUE]
    /\ Return(c)
    /\ UNCHANGED <<source, execution, approvals, reviewed, budget>>

(* plan reuses a saved inspection and inspects otherwise. *)
PlanBegin(c) ==
    /\ pc[c] = "plan"
    /\ runs' = IF MyRun(c).inspected THEN runs
               ELSE [runs EXCEPT ![job[c].run].status = "inspected",
                                 ![job[c].run].inspected = TRUE]
    /\ Go(c, "candidates")
    /\ UNCHANGED <<source, execution, approvals, reviewed, job, budget>>

(* _candidate_ids: one page of a route's identities, route after route;    *)
(* the source may change between two pages.                                *)
ReadCandidates(c) ==
    LET t == job[c].route
        live == OfRoute(source, t)
        page == PageOf(live, job[c].cursor, BatchSize)
        read == [job[c] EXCEPT !.plan = @ \cup ToRoute(page, t)]
    IN  /\ pc[c] = "candidates"
        /\ \/ /\ HasMore(live, job[c].cursor, BatchSize)
              /\ job' = [job EXCEPT ![c] = [read EXCEPT !.cursor = LastOf(page, @)]]
              /\ UNCHANGED pc
           \/ /\ ~HasMore(live, job[c].cursor, BatchSize) /\ t < MaxRoute
              /\ job' = [job EXCEPT ![c] = [read EXCEPT !.route = t + 1, !.cursor = 0]]
              /\ UNCHANGED pc
           \/ /\ ~HasMore(live, job[c].cursor, BatchSize) /\ t = MaxRoute
              /\ job' = [job EXCEPT ![c] = [read EXCEPT !.route = 1, !.cursor = 0]]
              /\ Go(c, "save")
        /\ UNCHANGED <<source, runs, execution, approvals, reviewed, budget>>

(* A connector error leaves the run inspected, with its old plan if any. *)
PlanFails(c) ==
    /\ pc[c] = "candidates"
    /\ Spend("mishaps")
    /\ Return(c)
    /\ UNCHANGED <<source, runs, execution, approvals, reviewed>>

(* save_plan replaces the run's plan whatever its status; migrate asks the *)
(* operator and goes on to apply the plan it has just saved.               *)
SavePlan(c) ==
    /\ pc[c] = "save"
    /\ runs' = [runs EXCEPT ![job[c].run].status = "planned",
                            ![job[c].run].planned = @ + 1,
                            ![job[c].run].plan = job[c].plan]
    /\ reviewed' = reviewed \cup {job[c].plan}
    /\ \/ job[c].op = "migrate" /\ Go(c, "apply") /\ job' = [job EXCEPT ![c].hash = job[c].plan]
       \/ Return(c)
    /\ UNCHANGED <<source, execution, approvals, budget>>

-----------------------------------------------------------------------------
(* apply.                                                                  *)

HashAny(c) == MyRun(c).planned > 0                            \* MUTANT
HashMatches(c) == MyRun(c).planned > 0 /\ MyRun(c).plan = job[c].hash

(* The plan is loaded and its hash compared; the connectors are opened     *)
(* before the status is set.                                               *)
ApplyCheck(c) ==
    /\ pc[c] = "apply"
    /\ \/ /\ HashMatches(c)
          /\ job' = [job EXCEPT ![c].plan = MyRun(c).plan]
          /\ approvals' = [approvals EXCEPT ![job[c].run] = @ \cup {job[c].hash}]
          /\ Go(c, "start")
       \/ /\ ~HashMatches(c)
          /\ Go(c, "refused")
          /\ UNCHANGED <<job, approvals>>
    /\ UNCHANGED <<source, runs, execution, reviewed, budget>>

Acknowledge(c) ==
    /\ pc[c] = "refused"
    /\ Return(c)
    /\ UNCHANGED <<source, runs, execution, approvals, reviewed, budget>>

ApplyStart(c) ==
    /\ pc[c] = "start"
    /\ SetRun(job[c].run, "applying")
    /\ Go(c, "drive")
    /\ UNCHANGED <<source, execution, approvals, reviewed, job, budget>>

(* _drive_apply answers a completed journal without executing; otherwise   *)
(* the saved snapshot is resumed, whatever plan it was saved under: only   *)
(* the routes are compared with the reviewed plan, not its candidates.     *)
Drive(c) ==
    /\ pc[c] = "drive"
    /\ Go(c, IF journal[job[c].run].status = "completed" THEN "applied" ELSE "batch")
    /\ job' = [job EXCEPT ![c].done = journal[job[c].run].completed]
    /\ UNCHANGED <<source, runs, execution, approvals, reviewed, budget>>

(* One batch: of the plan's records that are not terminal and still there, *)
(* on routes that are not completed, some are written and some fail.       *)
Batch(c) ==
    LET r == job[c].run
        pending == {i \in (job[c].plan \cap source) \ ledger[r] : i[1] \notin job[c].done}
    IN  /\ pc[c] = "batch"
        /\ \E done \in SUBSET pending : \E bad \in SUBSET (pending \ done) :
            /\ IF bad = {} THEN UNCHANGED budget ELSE Spend("mishaps")
            /\ ledger' = [ledger EXCEPT ![r] = @ \cup done]
            /\ failed' = [failed EXCEPT ![r] = (@ \ done) \cup bad]
        /\ Go(c, "batchEnd")
        /\ UNCHANGED <<source, runs, journal, approvals, reviewed, job>>

(* A route completes when the ledger covers the plan's records of it. *)
RouteCoveredAnyway(c, t) == TRUE                              \* MUTANT
RouteCovered(c, t) ==
    OfRoute(job[c].plan, t) \subseteq OfRoute(ledger[job[c].run], t)

(* The snapshot after a batch, with some covered routes completed: the     *)
(* journal is completed when every route is, running while batches make    *)
(* progress, failed when they stall.                                       *)
BatchEnd(c) ==
    /\ pc[c] = "batchEnd"
    /\ \E new \in SUBSET {t \in Routes \ job[c].done : RouteCovered(c, t)} :
        LET completed == job[c].done \cup new
            Save(status) == journal' = [journal EXCEPT
                ![job[c].run] = [status |-> status, completed |-> completed]]
        IN  /\ job' = [job EXCEPT ![c].done = completed]
            /\ \/ completed = Routes /\ Save("completed") /\ Go(c, "executed")
               \/ completed # Routes /\ Save("running") /\ Go(c, "batch")
               \/ completed # Routes /\ Save("failed") /\ Go(c, "failing")
    /\ UNCHANGED <<source, runs, ledger, failed, approvals, reviewed, budget>>

(* A connector error in a batch: the journal is saved as failed, with the  *)
(* routes the batch had completed before it.                               *)
BatchFails(c) ==
    /\ pc[c] \in {"batch", "batchEnd"}
    /\ Spend("mishaps")
    /\ \E new \in SUBSET {t \in Routes \ job[c].done : RouteCovered(c, t)} :
        journal' = [journal EXCEPT
            ![job[c].run] = [status |-> "failed", completed |-> job[c].done \cup new]]
    /\ Go(c, "failing")
    /\ UNCHANGED <<source, runs, ledger, failed, approvals, reviewed, job>>

EndStatus(c) == IF pc[c] = "failing" THEN "failed" ELSE "applied"

ApplyEnd(c) ==
    /\ pc[c] \in {"executed", "applied", "failing"}
    /\ SetRun(job[c].run, EndStatus(c))
    /\ IF pc[c] # "failing" /\ job[c].op = "migrate"
       THEN Go(c, "verify") /\ UNCHANGED job
       ELSE Return(c)
    /\ UNCHANGED <<source, execution, approvals, reviewed, budget>>

-----------------------------------------------------------------------------
(* verify.                                                                 *)

(* The plan is loaded before the connectors are opened. *)
VerifyBegin(c) ==
    /\ pc[c] = "verify"
    /\ IF MyRun(c).planned > 0
       THEN Go(c, "counting") /\ job' = [job EXCEPT ![c].plan = MyRun(c).plan]
       ELSE Return(c)
    /\ UNCHANGED <<source, runs, execution, approvals, reviewed, budget>>

CountsAgreeAnyway(c) == failed[job[c].run] = {}                \* MUTANT
CountsAgree(c) ==
    /\ failed[job[c].run] = {}
    /\ \A t \in Routes : Cardinality(OfRoute(ledger[job[c].run], t))
                       = Cardinality(OfRoute(job[c].plan, t))

(* Each route's ledger total is compared with the number of planned        *)
(* records.                                                                *)
VerifyCount(c) ==
    /\ pc[c] = "counting"
    /\ IF CountsAgree(c) THEN Go(c, "verified") /\ UNCHANGED job ELSE Return(c)
    /\ UNCHANGED <<source, runs, execution, approvals, reviewed, budget>>

VerifyEnd(c) ==
    /\ pc[c] = "verified"
    /\ SetRun(job[c].run, "verified")
    /\ Return(c)
    /\ UNCHANGED <<source, execution, approvals, reviewed, budget>>

-----------------------------------------------------------------------------
(* The environment.                                                        *)

Crash(c) ==
    /\ pc[c] # "idle"
    /\ Spend("mishaps")
    /\ Return(c)
    /\ UNCHANGED <<source, runs, execution, approvals, reviewed>>

SourceChange ==
    /\ Spend("changes")
    /\ \E x \in Items :
        source' = IF x \in source THEN source \ {x} ELSE source \cup {x}
    /\ UNCHANGED <<runs, execution, approvals, reviewed, pc, job>>

Call(c) ==
    \/ \E op \in Operations \ {"inspect"} : Invoke(c, op)
    \/ \E op \in Operations \ {"migrate"} : UseHandle(c, op)

Step(c) ==
    \/ CreateRun(c) \/ Inspect(c)
    \/ PlanBegin(c) \/ ReadCandidates(c) \/ PlanFails(c) \/ SavePlan(c)
    \/ ApplyCheck(c) \/ Acknowledge(c) \/ ApplyStart(c) \/ Drive(c)
    \/ Batch(c) \/ BatchEnd(c) \/ BatchFails(c) \/ ApplyEnd(c)
    \/ VerifyBegin(c) \/ VerifyCount(c) \/ VerifyEnd(c)

Next ==
    \/ \E c \in Callers : Call(c) \/ Step(c) \/ Crash(c)
    \/ SourceChange

Spec == Init /\ [][Next]_vars

-----------------------------------------------------------------------------
(* PROPERTIES                                                              *)

TypeOK ==
    /\ source \subseteq Items
    /\ runs \in [RunIds -> Run]
    /\ journal \in [RunIds -> [status : {"none", "running", "failed", "completed"},
                              completed : SUBSET Routes]]
    /\ ledger \in [RunIds -> SUBSET Items]
    /\ failed \in [RunIds -> SUBSET Items]
    /\ approvals \in [RunIds -> SUBSET SUBSET Items]
    /\ reviewed \subseteq SUBSET Items
    /\ pc \in [Callers -> Places]
    /\ job \in [Callers -> Job]

(* apply is hash-bound: whatever other callers plan meanwhile, a run only  *)
(* ever writes records of plans an operator passed the hash of.            *)
ApprovedOnly ==
    \A r \in RunIds : ledger[r] \cup failed[r] \subseteq UNION approvals[r]
OnlyApprovedRuns == TypeOK /\ ApprovedOnly

(* A run that says APPLIED has migrated, on every route, the records of a  *)
(* plan that was approved for it, over crashes, re-plans and concurrent    *)
(* callers.                                                                *)
AppliedRoutesCovered ==
    \A r \in RunIds : runs[r].status = "applied" =>
        \A t \in Routes : \E plan \in approvals[r] :
            OfRoute(plan, t) \subseteq OfRoute(ledger[r], t)

(* A run that was planned once and says APPLIED or VERIFIED has migrated   *)
(* the plan: verify's counts agree only when every record is covered.      *)
FirstPlanCovered ==
    \A r \in RunIds : runs[r].status \in {"applied", "verified"} /\ runs[r].planned = 1 =>
        runs[r].plan \subseteq ledger[r]
=============================================================================

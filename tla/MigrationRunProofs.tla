------------------------- MODULE MigrationRunProofs -------------------------
(***************************************************************************)
(* Proofs about MigrationRun, for every number of callers, runs, routes    *)
(* and records: a run only ever writes records of approved plans, and what *)
(* it says of itself at the end (APPLIED, VERIFIED) is true of its ledger, *)
(* over concurrent callers, re-plans and crashes.                          *)
(***************************************************************************)
EXTENDS MigrationRun, FiniteSetTheorems, WellFoundedInduction, TLAPS

-----------------------------------------------------------------------------
(* The inductive invariant: a part about each caller, and one about each   *)
(* run.                                                                    *)

\* Route t of run r is migrated, as far as one of the run's approved plans goes.
Covered(r, t) ==
    \E plan \in approvals[r] : OfRoute(plan, t) \subseteq OfRoute(ledger[r], t)

\* Once its hash was admitted a caller works on an approved plan; the routes it has
\* completed are covered, all of them when it is done; verify goes by the plan it
\* loaded, which is the run's as long as that was planned only once.
Admitted == {"start", "drive", "batch", "batchEnd", "executed", "applied", "failing"}
CallerInv(c) ==
    LET r == job[c].run
    IN  /\ pc[c] \in Admitted => job[c].plan \in approvals[r]
        /\ pc[c] \in {"batch", "batchEnd"} => \A t \in job[c].done : Covered(r, t)
        /\ pc[c] \in {"executed", "applied"} => \A t \in Routes : Covered(r, t)
        /\ pc[c] \in {"counting", "verified"} =>
             /\ runs[r].planned > 0
             /\ runs[r].planned = 1 => job[c].plan = runs[r].plan
        /\ pc[c] = "verified" /\ runs[r].planned = 1 => runs[r].plan \subseteq ledger[r]

RunInv(r) ==
    /\ ledger[r] \cup failed[r] \subseteq UNION approvals[r]
    /\ \A t \in journal[r].completed : Covered(r, t)
    /\ journal[r].status = "completed" => journal[r].completed = Routes
    /\ runs[r].planned = 0 => approvals[r] = {}
    /\ runs[r].planned = 1 => approvals[r] \subseteq {runs[r].plan}
    /\ runs[r].status = "applied" => \A t \in Routes : Covered(r, t)
    /\ runs[r].status = "verified" /\ runs[r].planned = 1 => runs[r].plan \subseteq ledger[r]

Inv ==
    /\ TypeOK
    /\ \A c \in Callers : CallerInv(c)
    /\ \A r \in RunIds : RunInv(r)

\* A step only adds approvals and ledger rows, and a plan is replaced by counting it.
Grows ==
    \A r \in RunIds :
      /\ approvals[r] \subseteq approvals'[r]
      /\ ledger[r] \subseteq ledger'[r]
      /\ \/ runs'[r].planned = runs[r].planned /\ runs'[r].plan = runs[r].plan
         \/ runs'[r].planned = runs[r].planned + 1

-----------------------------------------------------------------------------
(* Types.                                                                  *)

LEMMA NatMinimum ==
    ASSUME NEW T \in SUBSET Nat, T # {}
    PROVE  \E x \in T : \A y \in T : x <= y
<1>1. \A x, y \in Nat : y < x => <<y, x>> \in OpToRel(<, Nat)
  <2>1. SUFFICES ASSUME NEW x \in Nat, NEW y \in Nat, y < x
                 PROVE  <<y, x>> \in {ss \in Nat \X Nat : ss[1] < ss[2]}
    BY Zenon DEF OpToRel
  <2>. QED
    BY <2>1
<1>2. \E x \in T : \A y \in T : <<y, x>> \notin OpToRel(<, Nat)
  BY WFMin, NatLessThanWellFounded
<1>3. PICK x \in T : \A y \in T : ~(y < x)
  BY <1>1, <1>2, Zenon
<1>. QED
  BY <1>3

(* The cursor after a page is an identity, or stays.                       *)
LEMMA LastOfTyped ==
    ASSUME NEW S \in SUBSET Records, NEW d \in Nat
    PROVE  LastOf(S, d) \in Nat
<1>1. CASE S = {}
  BY <1>1 DEF LastOf
<1>2. CASE S # {}
  <2>. DEFINE U == {n \in Nat : \A y \in S : y <= n}
  <2>1. S \subseteq Nat /\ MaxRecord \in U
    BY BoundsAssumption DEF Records
  <2>2. PICK m \in U : \A n \in U : m <= n
    BY <2>1, NatMinimum
  <2>3. m \in S
    <3>1. SUFFICES ASSUME m \notin S
                   PROVE  FALSE
      OBVIOUS
    <3>2. \A y \in S : y < m
      BY <2>1, <3>1
    <3>3. m > 0
      <4>1. PICK y \in S : TRUE
        BY <1>2
      <4>. QED
        BY <2>1, <3>2, <4>1
    <3>4. m - 1 \in U
      BY <2>1, <3>2, <3>3
    <3>. QED
      BY <2>2, <3>4
  <2>4. \E x \in S : \A y \in S : y <= x
    BY <2>3
  <2>. HIDE DEF U
  <2>5. LastOf(S, d) \in S
    BY <1>2, <2>4 DEF LastOf
  <2>. QED
    BY <2>1, <2>5
<1>. QED
  BY <1>1, <1>2

LEMMA NoJobTyped ==
    /\ NoJob \in Job
    /\ \A op \in Operations : \A r \in RunIds : \A hash \in SUBSET Items :
         [NoJob EXCEPT !.op = op, !.run = r, !.hash = hash] \in Job
<1>1. 1 \in RunIds /\ 1 \in Routes
  BY BoundsAssumption DEF RunIds, Routes
<1>2. NoJob \in Job
  BY <1>1 DEF NoJob, Job, Operations
<1>. QED
  BY <1>2 DEF Job

(* A caller returns, or moves on with typed locals.                        *)
LEMMA ReturnTyped ==
    ASSUME TypeOK, NEW c \in Callers, Return(c)
    PROVE  pc' \in [Callers -> Places] /\ job' \in [Callers -> Job]
BY NoJobTyped DEF TypeOK, Return, Go, Places

(* A run with another status, or a saved inspection, or the next plan; a   *)
(* caller's locals with another run, plan or hash.                         *)
LEMMA RecordsTyped ==
    /\ \A run \in Run : \A status \in RunStatus :
         /\ [run EXCEPT !.status = status] \in Run
         /\ [run EXCEPT !.status = status, !.inspected = TRUE] \in Run
         /\ \A plan \in SUBSET Items :
              [run EXCEPT !.status = status, !.planned = @ + 1, !.plan = plan] \in Run
    /\ \A mine \in Job : \A plan \in SUBSET Items :
         /\ \A r \in RunIds : [mine EXCEPT !.run = r] \in Job
         /\ [mine EXCEPT !.plan = plan] \in Job
         /\ [mine EXCEPT !.hash = plan] \in Job
    /\ {"created", "inspected", "planned", "applying", "applied", "verified", "failed"}
         \subseteq RunStatus
<1>1. ASSUME NEW run \in Run, NEW status \in RunStatus
      PROVE  /\ [run EXCEPT !.status = status] \in Run
             /\ [run EXCEPT !.status = status, !.inspected = TRUE] \in Run
             /\ \A plan \in SUBSET Items :
                  [run EXCEPT !.status = status, !.planned = @ + 1, !.plan = plan] \in Run
  <2>. HIDE DEF RunStatus
  <2>1. [run EXCEPT !.status = status] \in Run
    BY <1>1 DEF Run
  <2>2. [run EXCEPT !.status = status, !.inspected = TRUE] \in Run
    BY <1>1 DEF Run
  <2>3. ASSUME NEW plan \in SUBSET Items
        PROVE  [run EXCEPT !.status = status, !.planned = @ + 1, !.plan = plan] \in Run
    <3>1. run.planned \in Nat /\ run.planned + 1 \in Nat /\ run.inspected \in BOOLEAN
      <4>1. run.planned \in Nat /\ run.inspected \in BOOLEAN
        BY <1>1 DEF Run
      <4>. QED
        BY <4>1
    <3>2. ASSUME NEW n \in Nat
          PROVE  [run EXCEPT !.status = status, !.planned = n, !.plan = plan] \in Run
      BY <1>1 DEF Run
    <3>3. [run EXCEPT !.status = status, !.planned = @ + 1, !.plan = plan]
            = [run EXCEPT !.status = status, !.planned = run.planned + 1, !.plan = plan]
      BY Zenon
    <3>. QED
      BY <3>1, <3>2, <3>3, Zenon
  <2>. QED
    BY <2>1, <2>2, <2>3
<1>2. ASSUME NEW mine \in Job, NEW plan \in SUBSET Items
      PROVE  /\ \A r \in RunIds : [mine EXCEPT !.run = r] \in Job
             /\ [mine EXCEPT !.plan = plan] \in Job
             /\ [mine EXCEPT !.hash = plan] \in Job
  BY DEF Job
<1>. QED
  BY <1>1, <1>2 DEF RunStatus

(* One run, or one caller's locals, changed within their types.            *)
LEMMA SetRunTyped ==
    ASSUME TypeOK, NEW r \in RunIds, NEW status \in RunStatus, SetRun(r, status)
    PROVE  runs' \in [RunIds -> Run]
<1>1. runs' = [runs EXCEPT ![r] = [runs[r] EXCEPT !.status = status]] /\ runs \in [RunIds -> Run]
  BY DEF SetRun, TypeOK
<1>2. [runs[r] EXCEPT !.status = status] \in Run
  BY <1>1, RecordsTyped
<1>. QED
  BY <1>1, <1>2

LEMMA InspectTyped ==
    ASSUME TypeOK, NEW r \in RunIds,
           runs' = [runs EXCEPT ![r].status = "inspected", ![r].inspected = TRUE]
    PROVE  runs' \in [RunIds -> Run]
<1>. DEFINE new == [runs[r] EXCEPT !.status = "inspected", !.inspected = TRUE]
<1>1. new \in Run
  BY RecordsTyped DEF TypeOK
<1>2. runs' = [runs EXCEPT ![r] = new] /\ runs \in [RunIds -> Run]
  BY DEF TypeOK
<1>. HIDE DEF new
<1>. QED
  BY <1>1, <1>2

LEMMA TypeInit == Init => TypeOK
<1>. SUFFICES ASSUME Init
              PROVE  TypeOK
  OBVIOUS
<1>1. NoRun \in Run
  BY DEF NoRun, Run, RunStatus
<1>2. source \subseteq Items
  BY BoundsAssumption DEF Init
<1>. QED
  BY <1>1, <1>2, NoJobTyped DEF Init, TypeOK, Places

LEMMA InvokeTyped ==
    ASSUME TypeOK, NEW c \in Callers, Call(c)
    PROVE  TypeOK'
<1>1. ASSUME NEW op \in Operations, NEW r \in RunIds, NEW hash \in SUBSET Items, NEW place \in Places,
             job' = [job EXCEPT ![c] = [NoJob EXCEPT !.op = op, !.run = r, !.hash = hash]],
             Go(c, place)
      PROVE  pc' \in [Callers -> Places] /\ job' \in [Callers -> Job]
  BY <1>1, NoJobTyped DEF TypeOK, Go
<1>2. /\ \A op \in Operations : op # "migrate" => op \in Places
      /\ {"plan", "create"} \subseteq Places
  BY DEF Operations, Places
<1>3. \A op \in Operations : \A hash \in IF op = "apply" THEN reviewed ELSE {{}} : hash \in SUBSET Items
  BY DEF TypeOK
<1>4. ASSUME NEW op \in Operations, Invoke(c, op)
      PROVE  pc' \in [Callers -> Places] /\ job' \in [Callers -> Job]
  <2>1. PICK hash \in IF op = "apply" THEN reviewed ELSE {{}} :
          \/ \E r \in RunIds :
               /\ job' = [job EXCEPT ![c] = [NoJob EXCEPT !.op = op, !.run = r, !.hash = hash]]
               /\ Go(c, IF op = "migrate" THEN "plan" ELSE op)
          \/ /\ job' = [job EXCEPT ![c] = [NoJob EXCEPT !.op = op, !.hash = hash]]
             /\ Go(c, "create")
    BY <1>4 DEF Invoke
  <2>2. CASE \E r \in RunIds :
               /\ job' = [job EXCEPT ![c] = [NoJob EXCEPT !.op = op, !.run = r, !.hash = hash]]
               /\ Go(c, IF op = "migrate" THEN "plan" ELSE op)
    <3>1. (IF op = "migrate" THEN "plan" ELSE op) \in Places
      BY <1>2
    <3>. QED
      BY <1>1, <1>3, <2>2, <3>1
  <2>3. CASE /\ job' = [job EXCEPT ![c] = [NoJob EXCEPT !.op = op, !.hash = hash]]
             /\ Go(c, "create")
    <3>1. 1 \in RunIds
      BY BoundsAssumption DEF RunIds
    <3>2. [NoJob EXCEPT !.op = op, !.hash = hash] \in Job
      BY <1>3, NoJobTyped DEF Job
    <3>. QED
      BY <1>2, <2>3, <3>2 DEF TypeOK, Go
  <2>. QED
    BY <2>1, <2>2, <2>3
<1>5. ASSUME NEW op \in Operations, op # "migrate", UseHandle(c, op)
      PROVE  pc' \in [Callers -> Places] /\ job' \in [Callers -> Job]
  <2>1. PICK hash \in IF op = "apply" THEN reviewed ELSE {{}}, r \in RunIds :
          job' = [job EXCEPT ![c] = [NoJob EXCEPT !.op = op, !.run = r, !.hash = hash]]
    BY <1>5 DEF UseHandle
  <2>. QED
    BY <1>1, <1>2, <1>3, <1>5, <2>1 DEF UseHandle
<1>6. UNCHANGED <<source, runs, execution, approvals, reviewed>>
  BY DEF Call, Invoke, UseHandle
<1>. QED
  BY <1>4, <1>5, <1>6 DEF Call, TypeOK, execution

LEMMA ReadTyped ==
    ASSUME TypeOK, NEW c \in Callers, ReadCandidates(c)
    PROVE  TypeOK'
<1>. DEFINE t == job[c].route
            live == OfRoute(source, t)
            page == PageOf(live, job[c].cursor, BatchSize)
            read == [job[c] EXCEPT !.plan = @ \cup ToRoute(page, t)]
<1>1. t \in Routes /\ page \in SUBSET Records /\ job[c] \in Job
  BY DEF TypeOK, Job, PageOf, After, OfRoute
<1>2. ToRoute(page, t) \subseteq Items
  BY <1>1 DEF ToRoute, Items
<1>3. read \in Job
  BY <1>1, <1>2 DEF Job
<1>4. LastOf(page, read.cursor) \in Nat
  BY <1>1, <1>3, LastOfTyped DEF Job
<1>5. /\ [read EXCEPT !.cursor = LastOf(page, @)] \in Job
      /\ t < MaxRoute => [read EXCEPT !.route = t + 1, !.cursor = 0] \in Job
      /\ [read EXCEPT !.route = 1, !.cursor = 0] \in Job
  <2>1. 1 \in Routes /\ (t < MaxRoute => t + 1 \in Routes)
    BY <1>1, BoundsAssumption DEF Routes
  <2>. HIDE DEF read
  <2>. QED
    BY <1>3, <1>4, <2>1 DEF Job
<1>6. job' \in [Callers -> Job]
  BY <1>5 DEF ReadCandidates, TypeOK
<1>7. pc' \in [Callers -> Places]
  BY DEF ReadCandidates, TypeOK, Go, Places
<1>8. UNCHANGED <<source, runs, execution, approvals, reviewed>>
  BY DEF ReadCandidates
<1>. QED
  BY <1>6, <1>7, <1>8 DEF TypeOK, execution

LEMMA TypeStep == TypeOK /\ [Next]_vars => TypeOK'
<1>. SUFFICES ASSUME TypeOK, [Next]_vars
              PROVE  TypeOK'
  OBVIOUS
<1>. USE DEF execution
<1>1. ASSUME NEW c \in Callers, Step(c)
      PROVE  TypeOK'
  <2>. USE DEF TypeOK
  <2>1. job[c] \in Job /\ job[c].run \in RunIds /\ MyRun(c) \in Run
    BY DEF Job, MyRun
  <2>2. CASE CreateRun(c)
    <3>1. job' \in [Callers -> Job]
      <4>1. PICK r \in RunIds : job' = [job EXCEPT ![c] = [job[c] EXCEPT !.run = r]]
        BY <2>2 DEF CreateRun
      <4>. QED
        BY <2>1, <4>1, RecordsTyped
    <3>2. pc' \in [Callers -> Places]
      BY <2>1, <2>2 DEF CreateRun, Go, Job, Operations, Places
    <3>3. runs' \in [RunIds -> Run]
      <4>1. PICK r \in RunIds : SetRun(r, "created")
        BY <2>2 DEF CreateRun, SetRun
      <4>. QED
        BY <4>1, RecordsTyped, SetRunTyped
    <3>. QED
      BY <2>2, <3>1, <3>2, <3>3 DEF CreateRun
  <2>3. CASE Inspect(c)
    <3>1. runs' \in [RunIds -> Run]
      BY <2>1, <2>3, InspectTyped DEF Inspect
    <3>. QED
      BY <2>3, <3>1, ReturnTyped DEF Inspect
  <2>4. CASE PlanBegin(c)
    <3>1. runs' \in [RunIds -> Run]
      BY <2>1, <2>4, InspectTyped DEF PlanBegin
    <3>. QED
      BY <2>4, <3>1 DEF PlanBegin, Go, Places
  <2>5. CASE ReadCandidates(c)
    BY <2>5, ReadTyped
  <2>6. CASE PlanFails(c)
    BY <2>6, ReturnTyped DEF PlanFails
  <2>7. CASE SavePlan(c)
    <3>1. runs' \in [RunIds -> Run]
      <4>. DEFINE new == [MyRun(c) EXCEPT !.status = "planned", !.planned = @ + 1, !.plan = job[c].plan]
      <4>1. new \in Run
        BY <2>1, RecordsTyped DEF Job
      <4>2. runs' = [runs EXCEPT ![job[c].run] = new]
        BY <2>7 DEF SavePlan, MyRun
      <4>. HIDE DEF new
      <4>. QED
        BY <4>1, <4>2
    <3>2. pc' \in [Callers -> Places] /\ job' \in [Callers -> Job]
      <4>1. CASE Return(c)
        BY <4>1, ReturnTyped
      <4>2. CASE Go(c, "apply") /\ job' = [job EXCEPT ![c].hash = job[c].plan]
        BY <2>1, <4>2 DEF Go, Places, Job
      <4>. QED
        BY <2>7, <4>1, <4>2 DEF SavePlan
    <3>3. reviewed' \subseteq SUBSET Items
      BY <2>1, <2>7 DEF SavePlan, Job
    <3>. QED
      BY <2>7, <3>1, <3>2, <3>3 DEF SavePlan
  <2>8. CASE ApplyCheck(c)
    <3>1. approvals' \in [RunIds -> SUBSET SUBSET Items]
      <4>1. job[c].hash \in SUBSET Items
        BY <2>1 DEF Job
      <4>. QED
        BY <2>1, <2>8, <4>1 DEF ApplyCheck
    <3>2. job' \in [Callers -> Job]
      <4>1. job' \in {job, [job EXCEPT ![c] = [job[c] EXCEPT !.plan = MyRun(c).plan]]}
        BY <2>8 DEF ApplyCheck
      <4>2. MyRun(c).plan \in SUBSET Items
        BY <2>1 DEF Run
      <4>3. [job[c] EXCEPT !.plan = MyRun(c).plan] \in Job
        BY <2>1, <4>2, RecordsTyped
      <4>. QED
        BY <4>1, <4>3
    <3>3. pc' \in [Callers -> Places]
      BY <2>8 DEF ApplyCheck, Go, Places
    <3>. QED
      BY <2>8, <3>1, <3>2, <3>3 DEF ApplyCheck
  <2>9. CASE Acknowledge(c)
    BY <2>9, ReturnTyped DEF Acknowledge
  <2>10. CASE ApplyStart(c)
    <3>1. runs' \in [RunIds -> Run]
      BY <2>1, <2>10, RecordsTyped, SetRunTyped DEF ApplyStart
    <3>. QED
      BY <2>10, <3>1 DEF ApplyStart, Go, Places
  <2>11. CASE Drive(c)
    <3>1. job' \in [Callers -> Job]
      BY <2>1, <2>11 DEF Drive, Job
    <3>. QED
      BY <2>11, <3>1 DEF Drive, Go, Places
  <2>12. CASE Batch(c)
    <3>. DEFINE pending == {i \in (job[c].plan \cap source) \ ledger[job[c].run] : i[1] \notin job[c].done}
    <3>1. PICK done \in SUBSET pending, bad \in SUBSET pending :
            /\ ledger' = [ledger EXCEPT ![job[c].run] = @ \cup done]
            /\ failed' = [failed EXCEPT ![job[c].run] = (@ \ done) \cup bad]
      BY <2>12 DEF Batch
    <3>2. done \subseteq Items /\ bad \subseteq Items
      OBVIOUS
    <3>. HIDE DEF pending
    <3>3. ledger' \in [RunIds -> SUBSET Items] /\ failed' \in [RunIds -> SUBSET Items]
      BY <2>1, <3>1, <3>2
    <3>4. pc' \in [Callers -> Places]
      BY <2>12 DEF Batch, Go, Places
    <3>. QED
      BY <2>12, <3>3, <3>4 DEF Batch
  <2>13. CASE BatchEnd(c)
    <3>1. PICK new \in SUBSET Routes, status \in {"completed", "running", "failed"} :
            /\ job' = [job EXCEPT ![c].done = job[c].done \cup new]
            /\ journal' = [journal EXCEPT ![job[c].run] =
                           [status |-> status, completed |-> job[c].done \cup new]]
      BY <2>13 DEF BatchEnd
    <3>2. job[c].done \cup new \in SUBSET Routes
      BY <2>1 DEF Job
    <3>3. job' \in [Callers -> Job]
      BY <2>1, <3>1, <3>2 DEF Job
    <3>4. journal' \in [RunIds -> [status : {"none", "running", "failed", "completed"},
                                   completed : SUBSET Routes]]
      BY <2>1, <3>1, <3>2
    <3>5. pc' \in [Callers -> Places]
      BY <2>13 DEF BatchEnd, Go, Places
    <3>. QED
      BY <2>13, <3>3, <3>4, <3>5 DEF BatchEnd
  <2>14. CASE BatchFails(c)
    <3>1. PICK new \in SUBSET Routes :
            journal' = [journal EXCEPT ![job[c].run] =
                         [status |-> "failed", completed |-> job[c].done \cup new]]
      BY <2>14 DEF BatchFails
    <3>2. job[c].done \cup new \in SUBSET Routes
      BY <2>1 DEF Job
    <3>3. journal' \in [RunIds -> [status : {"none", "running", "failed", "completed"},
                                   completed : SUBSET Routes]]
      BY <2>1, <3>1, <3>2
    <3>4. pc' \in [Callers -> Places]
      BY <2>14 DEF BatchFails, Go, Places
    <3>. QED
      BY <2>14, <3>3, <3>4 DEF BatchFails
  <2>15. CASE ApplyEnd(c)
    <3>1. runs' \in [RunIds -> Run]
      BY <2>1, <2>15, RecordsTyped, SetRunTyped DEF ApplyEnd, EndStatus
    <3>2. pc' \in [Callers -> Places] /\ job' \in [Callers -> Job]
      BY <2>15, ReturnTyped DEF ApplyEnd, Go, Places
    <3>. QED
      BY <2>15, <3>1, <3>2 DEF ApplyEnd
  <2>16. CASE VerifyBegin(c)
    <3>1. pc' \in [Callers -> Places] /\ job' \in [Callers -> Job]
      <4>1. CASE Return(c)
        BY <4>1, ReturnTyped
      <4>2. CASE Go(c, "counting") /\ job' = [job EXCEPT ![c].plan = MyRun(c).plan]
        BY <2>1, <4>2 DEF Go, Places, Job, Run
      <4>. QED
        BY <2>16, <4>1, <4>2 DEF VerifyBegin
    <3>. QED
      BY <2>16, <3>1 DEF VerifyBegin
  <2>17. CASE VerifyCount(c)
    <3>1. pc' \in [Callers -> Places] /\ job' \in [Callers -> Job]
      BY <2>17, ReturnTyped DEF VerifyCount, Go, Places
    <3>. QED
      BY <2>17, <3>1 DEF VerifyCount
  <2>18. CASE VerifyEnd(c)
    <3>1. runs' \in [RunIds -> Run]
      BY <2>1, <2>18, RecordsTyped, SetRunTyped DEF VerifyEnd
    <3>. QED
      BY <2>18, <3>1, ReturnTyped DEF VerifyEnd
  <2>. QED
    BY <1>1, <2>2, <2>3, <2>4, <2>5, <2>6, <2>7, <2>8, <2>9, <2>10, <2>11, <2>12, <2>13, <2>14,
       <2>15, <2>16, <2>17, <2>18 DEF Step
<1>2. ASSUME NEW c \in Callers, Crash(c)
      PROVE  TypeOK'
  BY <1>2, ReturnTyped DEF Crash, TypeOK
<1>3. CASE SourceChange
  BY <1>3 DEF SourceChange, TypeOK
<1>4. CASE UNCHANGED vars
  BY <1>4 DEF vars, TypeOK
<1>. QED
  BY <1>1, <1>2, <1>3, <1>4, InvokeTyped DEF Next

-----------------------------------------------------------------------------
(* What one step changes.                                                  *)

\* The places of which the invariant says something.
Telling == Admitted \cup {"counting", "verified"}

LEMMA PlacesOfOthers ==
    ASSUME TypeOK, NEW c \in Callers, Call(c) \/ Step(c) \/ Crash(c)
    PROVE  \A d \in Callers \ {c} : pc'[d] = pc[d] /\ job'[d] = job[d]
<1>1. CASE Call(c)
  BY <1>1 DEF Call, Invoke, UseHandle, Go, TypeOK
<1>2. CASE Crash(c)
  BY <1>2 DEF Crash, Return, Go, TypeOK
<1>3. CASE CreateRun(c) \/ Inspect(c) \/ PlanBegin(c) \/ ReadCandidates(c) \/ PlanFails(c) \/ SavePlan(c)
  BY <1>3 DEF CreateRun, Inspect, PlanBegin, ReadCandidates, PlanFails, SavePlan, Return, Go, TypeOK
<1>4. CASE ApplyCheck(c) \/ Acknowledge(c) \/ ApplyStart(c) \/ Drive(c) \/ Batch(c)
  BY <1>4 DEF ApplyCheck, Acknowledge, ApplyStart, Drive, Batch, Return, Go, TypeOK
<1>5. CASE BatchEnd(c) \/ BatchFails(c) \/ ApplyEnd(c)
  BY <1>5 DEF BatchEnd, BatchFails, ApplyEnd, Return, Go, TypeOK
<1>6. CASE VerifyBegin(c) \/ VerifyCount(c) \/ VerifyEnd(c)
  BY <1>6 DEF VerifyBegin, VerifyCount, VerifyEnd, Return, Go, TypeOK
<1>. QED
  BY <1>1, <1>2, <1>3, <1>4, <1>5, <1>6 DEF Step

\* Except for the plan that save_plan replaces, a step changes nothing of a run but
\* its status and its saved inspection.
SamePlan(r) == runs'[r].planned = runs[r].planned /\ runs'[r].plan = runs[r].plan

LEMMA SetRunKeepsPlan ==
    ASSUME TypeOK, NEW r \in RunIds, NEW status \in RunStatus, SetRun(r, status)
    PROVE  /\ \A q \in RunIds : SamePlan(q)
           /\ runs'[r].status = status
           /\ \A q \in RunIds \ {r} : runs'[q] = runs[q]
<1>1. runs' = [runs EXCEPT ![r] = [runs[r] EXCEPT !.status = status]] /\ runs \in [RunIds -> Run]
  BY DEF SetRun, TypeOK
<1>2. runs'[r] = [runs[r] EXCEPT !.status = status] /\ runs[r] \in Run
  BY <1>1
<1>. QED
  BY <1>1, <1>2 DEF SamePlan, Run

LEMMA InspectKeepsPlan ==
    ASSUME TypeOK, NEW r \in RunIds,
           runs' = [runs EXCEPT ![r].status = "inspected", ![r].inspected = TRUE]
    PROVE  /\ \A q \in RunIds : SamePlan(q)
           /\ runs'[r].status = "inspected"
           /\ \A q \in RunIds \ {r} : runs'[q] = runs[q]
<1>1. /\ runs' = [runs EXCEPT ![r] = [runs[r] EXCEPT !.status = "inspected", !.inspected = TRUE]]
      /\ runs \in [RunIds -> Run]
  BY DEF TypeOK
<1>2. /\ runs'[r] = [runs[r] EXCEPT !.status = "inspected", !.inspected = TRUE]
      /\ runs[r] \in Run
  BY <1>1
<1>. QED
  BY <1>1, <1>2 DEF SamePlan, Run

LEMMA SavePlanCounts ==
    ASSUME TypeOK, NEW c \in Callers, SavePlan(c)
    PROVE  /\ runs'[job[c].run].planned = runs[job[c].run].planned + 1
           /\ runs'[job[c].run].status = "planned"
           /\ runs'[job[c].run].plan = job[c].plan
           /\ \A q \in RunIds \ {job[c].run} : runs'[q] = runs[q]
<1>. DEFINE r == job[c].run
<1>1. /\ runs' = [runs EXCEPT ![r] = [runs[r] EXCEPT !.status = "planned", !.planned = @ + 1,
                                                     !.plan = job[c].plan]]
      /\ runs \in [RunIds -> Run] /\ r \in RunIds
  BY DEF SavePlan, TypeOK, Job
<1>2. /\ runs'[r] = [runs[r] EXCEPT !.status = "planned", !.planned = @ + 1, !.plan = job[c].plan]
      /\ runs[r] \in Run
  BY <1>1
<1>. QED
  BY <1>1, <1>2 DEF Run

\* The steps that leave every run's records, approvals and plan alone.
Plain(c) ==
    \/ Call(c) \/ Crash(c) \/ CreateRun(c) \/ Inspect(c) \/ PlanBegin(c) \/ ReadCandidates(c)
    \/ PlanFails(c) \/ Acknowledge(c) \/ ApplyStart(c) \/ Drive(c) \/ VerifyBegin(c) \/ VerifyCount(c)

LEMMA PlainSteps ==
    ASSUME TypeOK, NEW c \in Callers, Plain(c)
    PROVE  /\ UNCHANGED <<journal, ledger, failed, approvals>>
           /\ \A r \in RunIds : SamePlan(r)
           /\ \A r \in RunIds : runs'[r].status \in {"applied", "verified"} =>
                                  runs'[r].status = runs[r].status
<1>. USE DEF execution
<1>. DEFINE Quiet == /\ \A r \in RunIds : SamePlan(r)
                     /\ \A r \in RunIds : runs'[r].status \in {"applied", "verified"} =>
                                            runs'[r].status = runs[r].status
<1>1. job[c].run \in RunIds
  BY DEF TypeOK, Job
<1>2. UNCHANGED <<journal, ledger, failed, approvals>>
  BY DEF Plain, Call, Crash, Invoke, UseHandle, CreateRun, Inspect, PlanBegin, ReadCandidates,
         PlanFails, Acknowledge, ApplyStart, Drive, VerifyBegin, VerifyCount
<1>3. CASE UNCHANGED runs
  BY <1>2, <1>3 DEF SamePlan
<1>4. ASSUME NEW r \in RunIds,
             \/ SetRun(r, "created") \/ SetRun(r, "applying")
             \/ runs' = [runs EXCEPT ![r].status = "inspected", ![r].inspected = TRUE]
      PROVE  Quiet
  <2>1. "created" \in RunStatus /\ "applying" \in RunStatus
    BY DEF RunStatus
  <2>. QED
    BY <1>4, <2>1, SetRunKeepsPlan, InspectKeepsPlan
<1>5. CASE Call(c) \/ Crash(c) \/ ReadCandidates(c) \/ PlanFails(c) \/ Acknowledge(c)
             \/ Drive(c) \/ VerifyBegin(c) \/ VerifyCount(c)
  <2>1. UNCHANGED runs
    BY <1>5 DEF Call, Crash, Invoke, UseHandle, ReadCandidates, PlanFails, Acknowledge, Drive,
                VerifyBegin, VerifyCount
  <2>. QED
    BY <1>2, <1>3, <2>1
<1>6. CASE CreateRun(c)
  <2>1. PICK r \in RunIds : SetRun(r, "created")
    BY <1>6 DEF CreateRun, SetRun
  <2>. QED
    BY <1>2, <1>4, <2>1
<1>7. CASE Inspect(c) \/ PlanBegin(c)
  <2>1. \/ UNCHANGED runs
        \/ runs' = [runs EXCEPT ![job[c].run].status = "inspected", ![job[c].run].inspected = TRUE]
    BY <1>7 DEF Inspect, PlanBegin
  <2>. QED
    BY <1>1, <1>2, <1>3, <1>4, <2>1
<1>8. CASE ApplyStart(c)
  BY <1>1, <1>2, <1>4, <1>8 DEF ApplyStart
<1>. QED
  BY <1>5, <1>6, <1>7, <1>8 DEF Plain

\* Every step of a caller is plain or one of the others.
LEMMA StepKinds ==
    ASSUME NEW c \in Callers, Call(c) \/ Step(c) \/ Crash(c)
    PROVE  \/ Plain(c) \/ SavePlan(c) \/ ApplyCheck(c) \/ Batch(c) \/ BatchEnd(c)
           \/ BatchFails(c) \/ ApplyEnd(c) \/ VerifyEnd(c)
BY DEF Step, Plain

LEMMA StepGrows ==
    ASSUME TypeOK, NEW c \in Callers, Call(c) \/ Step(c) \/ Crash(c)
    PROVE  Grows
<1>. USE DEF execution
<1>1. job[c].run \in RunIds
  BY DEF TypeOK, Job
<1>2. CASE Plain(c)
  BY <1>2, PlainSteps DEF Grows, SamePlan
<1>3. CASE SavePlan(c)
  <2>1. UNCHANGED <<ledger, approvals>>
    BY <1>3 DEF SavePlan
  <2>. QED
    BY <1>3, <2>1, SavePlanCounts DEF Grows
<1>4. CASE ApplyCheck(c)
  BY <1>1, <1>4 DEF ApplyCheck, Grows, TypeOK
<1>5. CASE Batch(c)
  <2>1. UNCHANGED <<runs, approvals>>
    BY <1>5 DEF Batch
  <2>2. PICK new : ledger' = [ledger EXCEPT ![job[c].run] = @ \cup new]
    BY <1>5 DEF Batch
  <2>. QED
    BY <1>1, <2>1, <2>2 DEF Grows, TypeOK
<1>6. CASE BatchEnd(c) \/ BatchFails(c)
  BY <1>6 DEF BatchEnd, BatchFails, Grows
<1>7. CASE ApplyEnd(c) \/ VerifyEnd(c)
  <2>1. UNCHANGED <<ledger, approvals>>
    BY <1>7 DEF ApplyEnd, VerifyEnd
  <2>2. \E status \in RunStatus : SetRun(job[c].run, status)
    BY <1>7 DEF ApplyEnd, VerifyEnd, EndStatus, RunStatus
  <2>. QED
    BY <1>1, <2>1, <2>2, SetRunKeepsPlan DEF Grows, SamePlan
<1>. QED
  BY <1>2, <1>3, <1>4, <1>5, <1>6, <1>7, StepKinds

LEMMA CoveredGrows ==
    ASSUME Grows, NEW r \in RunIds, NEW t, Covered(r, t)
    PROVE  Covered(r, t)'
BY DEF Grows, Covered, OfRoute

LEMMA CallerKeeps ==
    ASSUME TypeOK, Grows, NEW d \in Callers, pc'[d] = pc[d], job'[d] = job[d], CallerInv(d)
    PROVE  CallerInv(d)'
<1>. DEFINE r == job[d].run
<1>1. r \in RunIds /\ runs[r].planned \in Nat
  BY DEF TypeOK, Job, Run
<1>2. /\ approvals[r] \subseteq approvals'[r] /\ ledger[r] \subseteq ledger'[r]
      /\ \/ runs'[r].planned = runs[r].planned /\ runs'[r].plan = runs[r].plan
         \/ runs'[r].planned = runs[r].planned + 1
  BY <1>1 DEF Grows
<1>3. \A t : Covered(r, t) => Covered(r, t)'
  BY <1>1, CoveredGrows
<1>4. runs[r].planned > 0 /\ runs'[r].planned = 1 => SamePlan(r)
  BY <1>1, <1>2 DEF SamePlan
<1>5. runs[r].planned > 0 => runs'[r].planned > 0
  BY <1>1, <1>2
<1>6. pc'[d] \in Admitted => job'[d].plan \in approvals'[r]
  BY <1>2 DEF CallerInv
<1>7. /\ pc'[d] \in {"batch", "batchEnd"} => \A t \in job'[d].done : Covered(r, t)'
      /\ pc'[d] \in {"executed", "applied"} => \A t \in Routes : Covered(r, t)'
  BY <1>3 DEF CallerInv
<1>8. pc'[d] \in {"counting", "verified"} =>
        /\ runs'[r].planned > 0
        /\ runs'[r].planned = 1 => job'[d].plan = runs'[r].plan
  BY <1>4, <1>5 DEF CallerInv, SamePlan
<1>9. pc'[d] = "verified" /\ runs'[r].planned = 1 => runs'[r].plan \subseteq ledger'[r]
  BY <1>2, <1>4 DEF CallerInv, SamePlan
<1>. QED
  BY <1>6, <1>7, <1>8, <1>9 DEF CallerInv

LEMMA RunKeeps ==
    ASSUME NEW r \in RunIds, RunInv(r), SamePlan(r),
           journal'[r] = journal[r], ledger'[r] = ledger[r], failed'[r] = failed[r],
           approvals'[r] = approvals[r],
           runs'[r].status \in {"applied", "verified"} => runs'[r].status = runs[r].status
    PROVE  RunInv(r)'
<1>1. \A t : Covered(r, t) => Covered(r, t)'
  BY DEF Covered
<1>. QED
  BY <1>1 DEF RunInv, SamePlan

-----------------------------------------------------------------------------
(* The invariant of the caller that takes the step.                        *)

LEMMA QuietPlace ==
    ASSUME NEW c \in Callers, pc'[c] \notin Telling
    PROVE  CallerInv(c)'
BY DEF CallerInv, Telling, Admitted

\* Equal counts of finite sets, one within the other, mean equal sets.
LEMMA EqualCounts ==
    ASSUME NEW S \in SUBSET Records, NEW T \in SUBSET S, Cardinality(T) = Cardinality(S)
    PROVE  T = S
<1>1. MaxRecord \in Nat /\ Records = 1 .. MaxRecord
  BY BoundsAssumption DEF Records
<1>2. IsFiniteSet(Records)
  BY <1>1, FS_Interval
<1>3. IsFiniteSet(S)
  BY <1>2, FS_Subset
<1>. QED
  BY <1>3, FS_Subset

(* verify's counts: when the records a run wrote are all of the plan,      *)
(* equal counts on every route mean that the plan is migrated.             *)
LEMMA CountsMeanCovered ==
    ASSUME TypeOK, NEW c \in Callers, CountsAgree(c),
           ledger[job[c].run] \subseteq job[c].plan
    PROVE  job[c].plan \subseteq ledger[job[c].run]
<1>. DEFINE r == job[c].run
<1>1. r \in RunIds /\ job[c].plan \subseteq Items /\ ledger[r] \subseteq Items
  BY DEF TypeOK, Job
<1>2. \A t \in Routes : OfRoute(ledger[r], t) = OfRoute(job[c].plan, t)
  <2>. SUFFICES ASSUME NEW t \in Routes
                PROVE  OfRoute(ledger[r], t) = OfRoute(job[c].plan, t)
    OBVIOUS
  <2>1. /\ OfRoute(job[c].plan, t) \in SUBSET Records
        /\ OfRoute(ledger[r], t) \in SUBSET OfRoute(job[c].plan, t)
    BY DEF OfRoute
  <2>2. Cardinality(OfRoute(ledger[r], t)) = Cardinality(OfRoute(job[c].plan, t))
    BY DEF CountsAgree
  <2>. QED
    BY <2>1, <2>2, EqualCounts
<1>3. SUFFICES ASSUME NEW i \in job[c].plan
               PROVE  i \in ledger[r]
  OBVIOUS
<1>4. PICK t \in Routes, x \in Records : i = <<t, x>>
  BY <1>1 DEF Items
<1>5. x \in OfRoute(job[c].plan, t)
  BY <1>4 DEF OfRoute
<1>6. x \in OfRoute(ledger[r], t)
  BY <1>2, <1>5
<1>. QED
  BY <1>4, <1>6 DEF OfRoute

LEMMA CallerStep ==
    ASSUME Inv, TypeOK', NEW c \in Callers, Call(c) \/ Step(c) \/ Crash(c), Grows
    PROVE  CallerInv(c)'
<1>. USE DEF execution
<1>0. PICK r \in RunIds : r = job[c].run
  BY DEF Inv, TypeOK, Job
<1>1. /\ r = job[c].run /\ r \in RunIds /\ CallerInv(c) /\ RunInv(r) /\ TypeOK
      /\ job[c] \in Job /\ job'[c] \in Job /\ pc[c] \in Places
  BY <1>0 DEF Inv, TypeOK, Job
<1>2. \A t : Covered(r, t) => Covered(r, t)'
  BY <1>1, CoveredGrows
<1>3. CASE Return(c)
  <2>1. pc'[c] = "idle"
    BY <1>1, <1>3 DEF Return, Go, TypeOK
  <2>. QED
    BY <2>1, QuietPlace DEF Telling, Admitted
<1>4. CASE Call(c)
  <2>1. pc'[c] \in Operations \cup {"create"}
    BY <1>1, <1>4 DEF Call, Invoke, UseHandle, Go, TypeOK, Operations
  <2>2. pc'[c] \notin Telling
    BY <2>1 DEF Telling, Admitted, Operations
  <2>. QED
    BY <2>2, QuietPlace
<1>5. CASE Crash(c) \/ Inspect(c) \/ PlanFails(c) \/ Acknowledge(c) \/ VerifyEnd(c)
  BY <1>3, <1>5 DEF Crash, Inspect, PlanFails, Acknowledge, VerifyEnd
<1>6. CASE CreateRun(c)
  <2>1. pc'[c] \in Operations
    BY <1>1, <1>6 DEF CreateRun, Go, TypeOK, Job, Operations
  <2>2. pc'[c] \notin Telling
    BY <2>1 DEF Telling, Admitted, Operations
  <2>. QED
    BY <2>2, QuietPlace
<1>7. CASE PlanBegin(c) \/ ReadCandidates(c)
  <2>1. pc'[c] \in {"candidates", "save"}
    BY <1>1, <1>7 DEF PlanBegin, ReadCandidates, Go, TypeOK
  <2>2. pc'[c] \notin Telling
    BY <2>1 DEF Telling, Admitted
  <2>. QED
    BY <2>2, QuietPlace
<1>8. CASE SavePlan(c)
  <2>1. CASE Go(c, "apply")
    <3>1. pc'[c] = "apply"
      BY <1>1, <2>1 DEF Go, TypeOK
    <3>. QED
      BY <3>1, QuietPlace DEF Telling, Admitted
  <2>. QED
    BY <1>3, <1>8, <2>1 DEF SavePlan
<1>9. CASE ApplyCheck(c)
  <2>1. CASE HashMatches(c)
    <3>1. /\ pc'[c] = "start" /\ job'[c].run = r /\ job'[c].plan = job[c].hash
          /\ job[c].hash \in approvals'[r]
      BY <1>1, <1>9, <2>1 DEF ApplyCheck, HashMatches, MyRun, Go, TypeOK, Job
    <3>. QED
      BY <3>1 DEF CallerInv, Admitted
  <2>2. CASE ~HashMatches(c)
    <3>1. pc'[c] = "refused"
      BY <1>1, <1>9, <2>2 DEF ApplyCheck, Go, TypeOK
    <3>. QED
      BY <3>1, QuietPlace DEF Telling, Admitted
  <2>. QED
    BY <2>1, <2>2
<1>10. CASE ApplyStart(c)
  <2>1. pc[c] = "start" /\ pc'[c] = "drive" /\ job' = job /\ approvals' = approvals
    BY <1>1, <1>10 DEF ApplyStart, Go, TypeOK
  <2>. QED
    BY <1>1, <2>1 DEF CallerInv, Admitted
<1>11. CASE Drive(c)
  <2>1. /\ pc[c] = "drive" /\ approvals' = approvals
        /\ pc'[c] = IF journal[r].status = "completed" THEN "applied" ELSE "batch"
    BY <1>1, <1>11 DEF Drive, Go, TypeOK
  <2>2. job'[c].run = r /\ job'[c].plan = job[c].plan /\ job'[c].done = journal[r].completed
    BY <1>1, <1>11 DEF Drive, TypeOK, Job
  <2>3. job[c].plan \in approvals[r]
    BY <1>1, <2>1 DEF CallerInv, Admitted
  <2>4. \A t \in journal[r].completed : Covered(r, t)'
    BY <1>1, <1>2 DEF RunInv
  <2>5. journal[r].status = "completed" => \A t \in Routes : Covered(r, t)'
    BY <1>1, <2>4 DEF RunInv
  <2>. QED
    BY <2>1, <2>2, <2>3, <2>4, <2>5 DEF CallerInv, Admitted
<1>12. CASE Batch(c)
  <2>1. pc[c] = "batch" /\ pc'[c] = "batchEnd" /\ job' = job /\ approvals' = approvals
    BY <1>1, <1>12 DEF Batch, Go, TypeOK
  <2>2. job[c].plan \in approvals[r] /\ \A t \in job[c].done : Covered(r, t)'
    BY <1>1, <1>2, <2>1 DEF CallerInv, Admitted
  <2>. QED
    BY <1>1, <2>1, <2>2 DEF CallerInv, Admitted
<1>13. CASE BatchEnd(c)
  <2>1. PICK new \in SUBSET {t \in Routes \ job[c].done : RouteCovered(c, t)} :
          /\ job' = [job EXCEPT ![c].done = job[c].done \cup new]
          /\ \/ job[c].done \cup new = Routes /\ Go(c, "executed")
             \/ Go(c, "batch") \/ Go(c, "failing")
    BY <1>13 DEF BatchEnd
  <2>2. job'[c].run = r /\ job'[c].plan = job[c].plan /\ job'[c].done = job[c].done \cup new
    BY <1>1, <2>1 DEF TypeOK, Job
  <2>3. pc[c] = "batchEnd" /\ approvals' = approvals
    BY <1>13 DEF BatchEnd
  <2>4. job[c].plan \in approvals[r]
    BY <1>1, <2>3 DEF CallerInv, Admitted
  <2>5. \A t \in new : Covered(r, t)
    BY <1>1, <2>4 DEF RouteCovered, Covered
  <2>6. \A t \in job[c].done \cup new : Covered(r, t)'
    BY <1>1, <1>2, <2>3, <2>5 DEF CallerInv
  <2>7. \/ pc'[c] = "executed" /\ job[c].done \cup new = Routes
        \/ pc'[c] \in {"batch", "failing"}
    BY <1>1, <2>1 DEF Go, TypeOK
  <2>. QED
    BY <2>2, <2>3, <2>4, <2>6, <2>7 DEF CallerInv, Admitted
<1>14. CASE BatchFails(c)
  <2>1. pc[c] \in {"batch", "batchEnd"} /\ pc'[c] = "failing" /\ job' = job /\ approvals' = approvals
    BY <1>1, <1>14 DEF BatchFails, Go, TypeOK
  <2>. QED
    BY <1>1, <2>1 DEF CallerInv, Admitted
<1>15. CASE ApplyEnd(c)
  <2>1. CASE Go(c, "verify")
    <3>1. pc'[c] = "verify"
      BY <1>1, <2>1 DEF Go, TypeOK
    <3>. QED
      BY <3>1, QuietPlace DEF Telling, Admitted
  <2>. QED
    BY <1>3, <1>15, <2>1 DEF ApplyEnd
<1>16. CASE VerifyBegin(c)
  <2>1. CASE MyRun(c).planned > 0
    <3>1. /\ pc'[c] = "counting" /\ job'[c].run = r /\ job'[c].plan = runs[r].plan /\ runs' = runs
      BY <1>1, <1>16, <2>1 DEF VerifyBegin, MyRun, Go, TypeOK, Job
    <3>. QED
      BY <1>1, <2>1, <3>1 DEF CallerInv, Admitted, MyRun
  <2>. QED
    BY <1>3, <1>16, <2>1 DEF VerifyBegin
<1>17. CASE VerifyCount(c)
  <2>1. CASE CountsAgree(c)
    <3>1. /\ pc[c] = "counting" /\ pc'[c] = "verified" /\ job' = job
          /\ runs' = runs /\ ledger' = ledger
      BY <1>1, <1>17, <2>1 DEF VerifyCount, Go, TypeOK
    <3>2. runs[r].planned > 0 /\ (runs[r].planned = 1 => job[c].plan = runs[r].plan)
      BY <1>1, <3>1 DEF CallerInv
    <3>3. runs[r].planned = 1 => ledger[r] \subseteq job[c].plan
      BY <1>1, <3>2 DEF RunInv
    <3>4. runs[r].planned = 1 => runs[r].plan \subseteq ledger[r]
      BY <1>1, <2>1, <3>2, <3>3, CountsMeanCovered
    <3>. QED
      BY <1>1, <3>1, <3>2, <3>4 DEF CallerInv, Admitted
  <2>. QED
    BY <1>3, <1>17, <2>1 DEF VerifyCount
<1>. QED
  BY <1>4, <1>5, <1>6, <1>7, <1>8, <1>9, <1>10, <1>11, <1>12, <1>13, <1>14, <1>15, <1>16, <1>17 DEF Step

-----------------------------------------------------------------------------
(* The invariant of the runs.                                              *)

LEMMA RunStep ==
    ASSUME Inv, TypeOK', NEW c \in Callers, Call(c) \/ Step(c) \/ Crash(c), Grows, NEW q \in RunIds
    PROVE  RunInv(q)'
<1>. USE DEF execution
<1>. DEFINE r == job[c].run
<1>1. /\ r \in RunIds /\ CallerInv(c) /\ RunInv(r) /\ RunInv(q) /\ TypeOK
      /\ job[c] \in Job /\ pc[c] \in Places /\ runs[r].planned \in Nat
  BY DEF Inv, TypeOK, Job, Run
<1>2. \A t : Covered(q, t) => Covered(q, t)'
  BY <1>1, CoveredGrows
<1>3. CASE Plain(c)
  BY <1>1, <1>3, PlainSteps, RunKeeps
<1>4. CASE SavePlan(c)
  <2>1. UNCHANGED <<journal, ledger, failed, approvals>>
    BY <1>4 DEF SavePlan
  <2>2. CASE q # r
    BY <1>1, <1>4, <2>1, <2>2, SavePlanCounts, RunKeeps DEF SamePlan
  <2>3. CASE q = r
    <3>1. runs'[q].planned = runs[q].planned + 1 /\ runs'[q].status = "planned"
      BY <1>1, <1>4, <2>3, SavePlanCounts
    <3>2. runs'[q].planned # 0 /\ (runs'[q].planned = 1 => approvals[q] = {})
      BY <1>1, <2>3, <3>1 DEF RunInv
    <3>3. \A t \in journal[q].completed : Covered(q, t)'
      BY <1>1, <1>2 DEF RunInv
    <3>. QED
      BY <1>1, <2>1, <3>1, <3>2, <3>3 DEF RunInv
  <2>. QED
    BY <2>2, <2>3
<1>5. CASE ApplyCheck(c)
  <2>1. UNCHANGED <<runs, journal, ledger, failed>>
    BY <1>5 DEF ApplyCheck
  <2>2. CASE approvals'[q] = approvals[q]
    BY <1>1, <2>1, <2>2, RunKeeps DEF SamePlan
  <2>3. CASE approvals'[q] # approvals[q]
    <3>1. HashMatches(c) /\ q = r /\ approvals'[q] = approvals[q] \cup {job[c].hash}
      BY <1>1, <1>5, <2>3 DEF ApplyCheck, TypeOK
    <3>2. runs[q].planned > 0 /\ runs[q].plan = job[c].hash
      BY <3>1 DEF HashMatches, MyRun
    <3>3. runs[q].planned # 0 /\ (runs[q].planned = 1 => approvals'[q] \subseteq {runs[q].plan})
      BY <1>1, <3>1, <3>2 DEF RunInv
    <3>4. UNION approvals[q] \subseteq UNION approvals'[q]
      BY <3>1
    <3>5. /\ \A t \in journal[q].completed : Covered(q, t)'
          /\ runs[q].status = "applied" => \A t \in Routes : Covered(q, t)'
      BY <1>1, <1>2 DEF RunInv
    <3>. QED
      BY <1>1, <2>1, <3>3, <3>4, <3>5 DEF RunInv
  <2>. QED
    BY <2>2, <2>3
<1>6. CASE Batch(c)
  <2>1. UNCHANGED <<runs, journal, approvals>> /\ pc[c] = "batch"
    BY <1>6 DEF Batch
  <2>2. PICK done \in SUBSET job[c].plan, bad \in SUBSET job[c].plan :
          /\ ledger' = [ledger EXCEPT ![r] = @ \cup done]
          /\ failed' = [failed EXCEPT ![r] = (@ \ done) \cup bad]
    BY <1>6 DEF Batch
  <2>3. CASE q # r
    <3>1. ledger'[q] = ledger[q] /\ failed'[q] = failed[q]
      BY <1>1, <2>2, <2>3 DEF TypeOK
    <3>. QED
      BY <1>1, <2>1, <3>1, RunKeeps DEF SamePlan
  <2>4. CASE q = r
    <3>1. job[c].plan \in approvals[q]
      BY <1>1, <2>1, <2>4 DEF CallerInv, Admitted
    <3>2. ledger'[q] = ledger[q] \cup done /\ failed'[q] = (failed[q] \ done) \cup bad
      BY <1>1, <2>2, <2>4 DEF TypeOK
    <3>3. ledger'[q] \cup failed'[q] \subseteq UNION approvals[q]
      BY <1>1, <3>1, <3>2 DEF RunInv
    <3>4. /\ \A t \in journal[q].completed : Covered(q, t)'
          /\ runs[q].status = "applied" => \A t \in Routes : Covered(q, t)'
      BY <1>1, <1>2 DEF RunInv
    <3>5. runs[q].status = "verified" /\ runs[q].planned = 1 => runs[q].plan \subseteq ledger'[q]
      BY <1>1, <3>2 DEF RunInv
    <3>. QED
      BY <1>1, <2>1, <3>3, <3>4, <3>5 DEF RunInv
  <2>. QED
    BY <2>3, <2>4
<1>7. CASE BatchEnd(c) \/ BatchFails(c)
  <2>1. UNCHANGED <<runs, ledger, failed, approvals>> /\ pc[c] \in {"batch", "batchEnd"}
    BY <1>7 DEF BatchEnd, BatchFails
  <2>2. PICK new \in SUBSET {t \in Routes \ job[c].done : RouteCovered(c, t)},
             status \in {"completed", "running", "failed"} :
          /\ journal' = [journal EXCEPT ![r] = [status |-> status, completed |-> job[c].done \cup new]]
          /\ status = "completed" => job[c].done \cup new = Routes
    BY <1>7 DEF BatchEnd, BatchFails
  <2>3. CASE q # r
    <3>1. journal'[q] = journal[q]
      BY <1>1, <2>2, <2>3 DEF TypeOK
    <3>. QED
      BY <1>1, <2>1, <3>1, RunKeeps DEF SamePlan
  <2>4. CASE q = r
    <3>1. job[c].plan \in approvals[q] /\ \A t \in job[c].done : Covered(q, t)
      BY <1>1, <2>1, <2>4 DEF CallerInv, Admitted
    <3>2. \A t \in new : Covered(q, t)
      BY <2>4, <3>1 DEF RouteCovered, Covered
    <3>3. journal'[q] = [status |-> status, completed |-> job[c].done \cup new]
      BY <1>1, <2>2, <2>4 DEF TypeOK
    <3>4. /\ \A t \in journal'[q].completed : Covered(q, t)'
          /\ journal'[q].status = "completed" => journal'[q].completed = Routes
      BY <1>2, <2>2, <3>1, <3>2, <3>3
    <3>5. runs[q].status = "applied" => \A t \in Routes : Covered(q, t)'
      BY <1>1, <1>2 DEF RunInv
    <3>. QED
      BY <1>1, <2>1, <3>4, <3>5 DEF RunInv
  <2>. QED
    BY <2>3, <2>4
<1>8. CASE ApplyEnd(c)
  <2>1. UNCHANGED <<journal, ledger, failed, approvals>> /\ SetRun(r, EndStatus(c))
    BY <1>8 DEF ApplyEnd
  <2>2. /\ EndStatus(c) \in RunStatus
        /\ EndStatus(c) \in {"failed", "applied"}
        /\ EndStatus(c) = "applied" => pc[c] \in {"executed", "applied"}
    BY <1>8 DEF ApplyEnd, EndStatus, RunStatus
  <2>3. SamePlan(q) /\ runs'[r].status = EndStatus(c) /\ (q # r => runs'[q] = runs[q])
    BY <1>1, <2>1, <2>2, SetRunKeepsPlan
  <2>4. CASE q # r \/ EndStatus(c) = "failed"
    BY <1>1, <2>1, <2>3, <2>4, RunKeeps
  <2>5. CASE q = r /\ EndStatus(c) = "applied"
    <3>1. \A t \in Routes : Covered(q, t)'
      BY <1>1, <1>2, <2>2, <2>5 DEF CallerInv
    <3>2. \A t \in journal[q].completed : Covered(q, t)'
      BY <1>1, <1>2 DEF RunInv
    <3>. QED
      BY <1>1, <2>1, <2>3, <2>5, <3>1, <3>2 DEF RunInv, SamePlan
  <2>. QED
    BY <2>2, <2>4, <2>5
<1>9. CASE VerifyEnd(c)
  <2>1. UNCHANGED <<journal, ledger, failed, approvals>> /\ SetRun(r, "verified") /\ pc[c] = "verified"
    BY <1>9 DEF VerifyEnd
  <2>2. SamePlan(q) /\ runs'[r].status = "verified" /\ (q # r => runs'[q] = runs[q])
    <3>1. "verified" \in RunStatus
      BY DEF RunStatus
    <3>. QED
      BY <1>1, <2>1, <3>1, SetRunKeepsPlan
  <2>3. CASE q # r
    BY <1>1, <2>1, <2>2, <2>3, RunKeeps
  <2>4. CASE q = r
    <3>1. runs[q].planned = 1 => runs[q].plan \subseteq ledger[q]
      BY <1>1, <2>1, <2>4 DEF CallerInv
    <3>2. \A t \in journal[q].completed : Covered(q, t)'
      BY <1>1, <1>2 DEF RunInv
    <3>. QED
      BY <1>1, <2>1, <2>2, <2>4, <3>1, <3>2 DEF RunInv, SamePlan
  <2>. QED
    BY <2>3, <2>4
<1>. QED
  BY <1>3, <1>4, <1>5, <1>6, <1>7, <1>8, <1>9, StepKinds

-----------------------------------------------------------------------------
(* The theorems.                                                           *)

LEMMA InvInit == Init => Inv
<1>. SUFFICES ASSUME Init
              PROVE  Inv
  OBVIOUS
<1>1. \A c \in Callers : pc[c] = "idle"
  BY DEF Init
<1>2. \A c \in Callers : CallerInv(c)
  BY <1>1 DEF CallerInv, Admitted
<1>3. \A r \in RunIds : RunInv(r)
  BY DEF Init, RunInv, NoRun
<1>. QED
  BY <1>2, <1>3, TypeInit DEF Inv

LEMMA InvStep == Inv /\ [Next]_vars => Inv'
<1>. SUFFICES ASSUME Inv, [Next]_vars
              PROVE  Inv'
  OBVIOUS
<1>1. TypeOK /\ TypeOK'
  BY TypeStep DEF Inv
<1>2. ASSUME NEW c \in Callers, Call(c) \/ Step(c) \/ Crash(c)
      PROVE  Inv'
  <2>1. Grows
    BY <1>1, <1>2, StepGrows
  <2>2. CallerInv(c)'
    BY <1>1, <1>2, <2>1, CallerStep
  <2>3. ASSUME NEW d \in Callers \ {c}
        PROVE  CallerInv(d)'
    BY <1>1, <1>2, <2>1, PlacesOfOthers, CallerKeeps DEF Inv
  <2>4. \A r \in RunIds : RunInv(r)'
    BY <1>1, <1>2, <2>1, RunStep
  <2>. QED
    BY <1>1, <2>2, <2>3, <2>4 DEF Inv
<1>3. CASE SourceChange \/ UNCHANGED vars
  <2>1. UNCHANGED <<runs, journal, ledger, failed, approvals, pc, job>>
    BY <1>3 DEF SourceChange, vars, execution
  <2>2. \A c \in Callers : CallerInv(c)'
    BY <2>1 DEF Inv, CallerInv, Covered
  <2>3. \A r \in RunIds : RunInv(r)'
    BY <2>1, RunKeeps DEF Inv, SamePlan
  <2>. QED
    BY <1>1, <2>2, <2>3 DEF Inv
<1>. QED
  BY <1>2, <1>3 DEF Next

LEMMA InvAlways == Spec => []Inv
BY InvInit, InvStep, PTL DEF Spec

(* apply is hash-bound: whatever other callers plan, re-plan or crash      *)
(* meanwhile, a run's ledger only ever holds records of plans whose hash   *)
(* an apply of that run was admitted with.                                 *)
THEOREM RunsWriteApprovedPlans == Spec => []OnlyApprovedRuns
<1>1. Inv => OnlyApprovedRuns
  BY DEF Inv, RunInv, OnlyApprovedRuns, ApprovedOnly
<1>. QED
  BY <1>1, InvAlways, PTL

(* A run that says APPLIED has migrated, on every route, the records of a  *)
(* plan that was approved for it.                                          *)
THEOREM AppliedMeansCovered == Spec => []AppliedRoutesCovered
<1>1. Inv => AppliedRoutesCovered
  BY DEF Inv, RunInv, Covered, AppliedRoutesCovered
<1>. QED
  BY <1>1, InvAlways, PTL

(* A run planned once that says APPLIED or VERIFIED has migrated that      *)
(* plan: the counts verify compares can only agree when every planned      *)
(* record is in the ledger, since the ledger holds nothing else.           *)
THEOREM VerifiedMeansMigrated == Spec => []FirstPlanCovered
<1>1. Inv => FirstPlanCovered
  <2>. SUFFICES ASSUME Inv, NEW r \in RunIds, runs[r].status \in {"applied", "verified"},
                       runs[r].planned = 1
                PROVE  runs[r].plan \subseteq ledger[r]
    BY DEF FirstPlanCovered
  <2>1. RunInv(r) /\ runs[r].plan \subseteq Items
    BY DEF Inv, TypeOK, Run
  <2>2. CASE runs[r].status = "verified"
    BY <2>1, <2>2 DEF RunInv
  <2>3. CASE runs[r].status = "applied"
    <3>1. \A t \in Routes : OfRoute(runs[r].plan, t) \subseteq OfRoute(ledger[r], t)
      BY <2>1, <2>3 DEF RunInv, Covered
    <3>2. \A t \in Routes : \A x \in Records : <<t, x>> \in runs[r].plan => <<t, x>> \in ledger[r]
      BY <3>1 DEF OfRoute
    <3>. QED
      BY <2>1, <3>2 DEF Items
  <2>. QED
    BY <2>2, <2>3
<1>. QED
  BY <1>1, InvAlways, PTL
=============================================================================

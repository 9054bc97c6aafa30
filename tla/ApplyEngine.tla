---------------------------- MODULE ApplyEngine ----------------------------
(***************************************************************************)
(* MigrationEngine.apply under its exact reviewed scope: _drive_apply of   *)
(* sanka/runtime/engine.py looping run_batch of execution/routes.py over   *)
(* the SQLite execution state of execution/local.py.                       *)
(*                                                                         *)
(* A process p in Procs is one execution of `apply` for the one run that   *)
(* is modelled.  Processes share the run's ledger and journal and nothing  *)
(* else: a crash forgets snap[p] and work[p].  The steps of a process are  *)
(* the stretches between the awaits whose order two actors can tell apart. *)
(***************************************************************************)
EXTENDS ExecutionLedger, KeysetSource, Sequences

CONSTANTS
    Procs,            \* concurrent executions of apply
    RouteOrder,       \* the plan's routes in execution order
    MaxRecord,        \* BOUND: record identities are 1 .. MaxRecord
    InitialSources,   \* contents of the source when the plan was approved
    Relations,        \* Relations[r][x]: targets <<route, record>> x links to
    References,       \* References[r][x]: targets of x's scalar references
    BatchSize,
    ConflictPolicy,   \* "create", "skip_existing" or "update_existing"
    MaxWriteAttempts, \* MAX_WRITE_ATTEMPTS
    BatchWrites,      \* does the destination write a page in one call
    ReturnsId,        \* subset of BOOLEAN: may a write report no record id
    LinksFail,        \* may a relationship write fail
    LedgerShort,      \* may a host's ledger save fewer rows than it was given
    MaxFaults,        \* BOUND: connector and ledger errors
    MaxCrashes,       \* BOUND: process deaths and escaping exceptions
    MaxInserts,       \* BOUND: records that appear after the plan
    MaxDeletes,       \* BOUND: records that vanish after the plan
    MayCancel         \* may a host record a cancellation in the journal

Routes == {RouteOrder[i] : i \in 1 .. Len(RouteOrder)}
Records == 1 .. MaxRecord
Targets == Routes \X Records

ASSUME RoutesAssumption == RouteOrder \in Seq(STRING)
ASSUME RecordsAssumption == MaxRecord \in Nat
ASSUME SourcesAssumption == InitialSources \subseteq [Routes -> SUBSET Records]
ASSUME LinksAssumption ==
    /\ Relations \in [Routes -> [Records -> SUBSET Targets]]
    /\ References \in [Routes -> [Records -> SUBSET Targets]]
ASSUME PolicyAssumption ==
    /\ BatchSize \in Nat \ {0}
    /\ MaxWriteAttempts \in Nat \ {0}
    /\ ConflictPolicy \in {"create", "skip_existing", "update_existing"}
    /\ ReturnsId \subseteq BOOLEAN /\ ReturnsId # {}
    /\ BatchWrites \in BOOLEAN
    /\ LinksFail \in BOOLEAN /\ LedgerShort \in BOOLEAN /\ MayCancel \in BOOLEAN
ASSUME BoundsAssumption == {MaxFaults, MaxCrashes, MaxInserts, MaxDeletes} \subseteq Nat

VARIABLES
    source,     \* live records of each route's source object
    candidates, \* the identities the reviewed plan froze
    ledger,     \* execution_results
    writes,     \* how often a destination write of the record took effect
    links,      \* relationships present in the destination
    journal,    \* execution_journal: status and snapshot
    runStatus,  \* runs.status
    pc, snap, work, \* per process: place, entry.snapshot, locals of the batch
    budget      \* what is left of the bounds

env == <<source, candidates>>
durable == <<ledger, journal, runStatus>>
destination == <<writes, links>>
vars == <<env, durable, destination, pc, snap, work, budget>>

(* A relationship write that is parked until both ends exist. *)
Link == [src : Records, to : Targets, known : BOOLEAN]

(* The fields of ExecutionSnapshot that steer execution or are reported. *)
Snapshot == [cp : [Routes -> Nat],
             completed : SUBSET Routes,
             migrated : [Routes -> Nat],
             failed : [Routes -> SUBSET Records],
             parked : [Routes -> SUBSET Link]]
EmptySnapshot == [cp |-> [r \in Routes |-> 0],
                  completed |-> {},
                  migrated |-> [r \in Routes |-> 0],
                  failed |-> [r \in Routes |-> {}],
                  parked |-> [r \in Routes |-> {}]]

Marker == [cp : [Routes -> Nat], completed : SUBSET Routes]
ProgressMarker(s) == [cp |-> s.cp, completed |-> s.completed]

(* The locals of one batch: index of the current route, next_checkpoints,  *)
(* has_more and previous_marker, then the locals of the route's page.      *)
PartialOutcomes == UNION {[D -> Outcome] : D \in SUBSET Records}
NoOutcomes == [x \in {} |-> NoRow]
Page == [ids : SUBSET Records, last : Nat, more : BOOLEAN,
         already : SUBSET Records, resolved : SUBSET Targets,
         out : PartialOutcomes, tries : Nat,
         failed : SUBSET Records, terminalCursor : Nat]
NoPage == [ids |-> {}, last |-> 0, more |-> FALSE, already |-> {},
           resolved |-> {}, out |-> NoOutcomes, tries |-> 0,
           failed |-> {}, terminalCursor |-> 0]
Results == {"none", "completed", "failed", "cancelled"}
Work == [route : 1 .. Len(RouteOrder) + 1, nextCp : [Routes -> Nat],
         hasMore : BOOLEAN, marker : Marker, page : Page, result : Results]
NewBatch(marker) == [route |-> 1, nextCp |-> [r \in Routes |-> 0],
                     hasMore |-> FALSE, marker |-> marker, page |-> NoPage,
                     result |-> "none"]
NoWork == NewBatch(ProgressMarker(EmptySnapshot))

Current(p) == RouteOrder[work[p].route]

Init ==
    /\ source \in InitialSources
    /\ candidates = source
    /\ ledger = [r \in Routes |-> [x \in Records |-> NoRow]]
    /\ writes = [r \in Routes |-> [x \in Records |-> 0]]
    /\ links = {}
    /\ journal = [status |-> "none", snap |-> EmptySnapshot]
    /\ runStatus = "planned"
    /\ pc = [p \in Procs |-> "idle"]
    /\ snap = [p \in Procs |-> EmptySnapshot]
    /\ work = [p \in Procs |-> NoWork]
    /\ budget = [faults |-> MaxFaults, crashes |-> MaxCrashes,
                 inserts |-> MaxInserts, deletes |-> MaxDeletes]

Spend(kind) == budget[kind] > 0 /\ budget' = [budget EXCEPT ![kind] = @ - 1]

-----------------------------------------------------------------------------
(* apply and the head of _drive_apply.                                     *)

Start(p) ==
    /\ pc[p] = "idle"
    /\ runStatus' = "applying"
    /\ pc' = [pc EXCEPT ![p] = "load"]
    /\ UNCHANGED <<env, ledger, journal, destination, snap, work, budget>>

(* Ends p's _drive_apply with the given result; Report records it. *)
Return(p, result) ==
    /\ pc' = [pc EXCEPT ![p] = "report"]
    /\ work' = [work EXCEPT ![p] = [NoWork EXCEPT !.result = result]]

(* Journal statuses that are answered without executing anything. *)
AnsweredFailedToo == {"completed", "cancelled", "failed"}     \* MUTANT
Answered == {"completed", "cancelled"}

(* journal.load: a finished or cancelled run is answered from the journal. *)
Load(p) ==
    /\ pc[p] = "load"
    /\ \/ /\ journal.status \in Answered
          /\ Return(p, journal.status)
       \/ /\ journal.status \notin Answered
          /\ pc' = [pc EXCEPT ![p] = "claim"]
          /\ UNCHANGED work
    /\ UNCHANGED <<env, durable, destination, snap, budget>>

(* fence.claim: every apply of a run carries the same attempt identity, so *)
(* only the journal's status decides.  The snapshot is the journal's.      *)
Claim(p) ==
    /\ pc[p] = "claim"
    /\ \/ /\ journal.status = "cancelled"
          /\ Return(p, "cancelled")
          /\ UNCHANGED snap
       \/ /\ journal.status = "completed"
          /\ Return(p, "failed")
          /\ UNCHANGED snap
       \/ /\ journal.status \notin {"cancelled", "completed"}
          /\ snap' = [snap EXCEPT ![p] = journal.snap]
          /\ work' = [work EXCEPT ![p] = NewBatch(ProgressMarker(journal.snap))]
          /\ pc' = [pc EXCEPT ![p] = "route"]
    /\ UNCHANGED <<env, durable, destination, budget>>

-----------------------------------------------------------------------------
(* run_batch, one route at a time.                                         *)

AtRoute(p) == pc[p] = "route" /\ work[p].route <= Len(RouteOrder)

(* The next route of the batch, with the batch's fields changed by b. *)
NextRoute(p, b) ==
    /\ work' = [work EXCEPT ![p] = [b EXCEPT !.route = @ + 1, !.page = NoPage]]
    /\ pc' = [pc EXCEPT ![p] = "route"]

(* retry_pending_relationships: parked links outside excluded whose two    *)
(* ends are known are written; each write succeeds or stays parked.        *)
Linkable(parked, excluded) ==
    {l \in parked : l.src \notin excluded /\ l.known /\ Resolved(ledger, l.to)}
LinkOutcomes(S) == IF LinksFail THEN SUBSET S ELSE {S}
Written(r, S) == {<<r, l.src, l.to>> : l \in S}

(* A completed route is skipped after one retry of its parked links. *)
SkipCompleted(p) ==
    /\ AtRoute(p) /\ Current(p) \in snap[p].completed
    /\ \E done \in LinkOutcomes(Linkable(snap[p].parked[Current(p)], {})) :
        /\ snap' = [snap EXCEPT ![p].parked[Current(p)] = @ \ done]
        /\ links' = links \cup Written(Current(p), done)
    /\ NextRoute(p, work[p])
    /\ UNCHANGED <<env, durable, writes, budget>>

(* A route without candidates completes without a read. *)
CompleteEmpty(p) ==
    /\ AtRoute(p) /\ Current(p) \notin snap[p].completed
    /\ candidates[Current(p)] = {}
    /\ snap' = [snap EXCEPT ![p].completed = @ \cup {Current(p)}]
    /\ NextRoute(p, work[p])
    /\ UNCHANGED <<env, durable, destination, budget>>

MustRead(p) ==
    /\ AtRoute(p) /\ Current(p) \notin snap[p].completed
    /\ candidates[Current(p)] # {}

(* The candidates of the exact scope on a page. *)
PageIds(r, read) == read \cap candidates[r]

(* What is decided before any write: terminal records are skipped, records *)
(* whose scalar reference has no destination id yet fail.                  *)
Prior(r, already, waiting) ==
    [x \in already \cup waiting |->
        IF x \in already
        THEN [status |-> "skipped", known |-> ledger[r][x].known]
        ELSE [status |-> "failed", known |-> FALSE]]

(* Reads the page at the checkpoint, keeps the candidates on it, retries   *)
(* the route's parked links of other records, and looks up which ids are   *)
(* terminal and which targets have destination ids.                        *)
ReadPage(p) ==
    LET r == Current(p)
        cursor == snap[p].cp[r]
        read == PageOf(source[r], cursor, BatchSize)
        ids == PageIds(r, read)
        already == TerminalIds(ledger, r, ids)
        resolved == {t \in Targets : Resolved(ledger, t)}
        waiting == {x \in ids \ already : ~(References[r][x] \subseteq resolved)}
    IN  /\ MustRead(p)
        /\ \E done \in LinkOutcomes(Linkable(snap[p].parked[r], ids)) :
            /\ snap' = [snap EXCEPT ![p].parked[r] = @ \ done]
            /\ links' = links \cup Written(r, done)
        /\ work' = [work EXCEPT ![p].page =
             [NoPage EXCEPT
                !.ids = ids,
                !.last = LastOf(read, cursor),
                !.more = HasMore(source[r], cursor, BatchSize),
                !.already = already,
                !.resolved = resolved,
                !.out = Prior(r, already, waiting),
                !.terminalCursor = cursor]]
        /\ pc' = [pc EXCEPT ![p] = "write"]
        /\ UNCHANGED <<env, durable, writes, budget>>

(* The source raises a DataAccessError: the journal is saved as failed. *)
ReadFails(p) ==
    /\ MustRead(p)
    /\ Spend("faults")
    /\ pc' = [pc EXCEPT ![p] = "abort"]
    /\ UNCHANGED <<env, durable, destination, snap, work>>

-----------------------------------------------------------------------------
(* The write phase: one destination write at a time in page order, or the  *)
(* page in one call.                                                       *)

Unwritten(p) == work[p].page.ids \ DOMAIN work[p].page.out
AtWrite(p) == pc[p] = "write" /\ Unwritten(p) # {}

(* What the destination reports for a write of x under the conflict policy. *)
WriteStatus(r, x) ==
    IF ConflictPolicy = "create" \/ writes[r][x] = 0 THEN "created"
    ELSE IF ConflictPolicy = "skip_existing" THEN "skipped" ELSE "updated"

(* One call for the records ids: the write takes effect for effects, and   *)
(* the records in failed get no result (a write that raises after it took  *)
(* effect is an answer that timed out).                                    *)
Dispatch(p, ids, effects, failed) ==
    LET r == Current(p)
        out == work[p].page.out
    IN  /\ writes' = [writes EXCEPT ![r] = [x \in Records |->
             IF x \in effects THEN @[x] + 1 ELSE @[x]]]
        /\ \E known \in ReturnsId :
             work' = [work EXCEPT
               ![p].page.tries = 0,
               ![p].page.out = [x \in DOMAIN out \cup ids |->
                 IF x \in DOMAIN out THEN out[x]
                 ELSE IF x \in failed THEN [status |-> "failed", known |-> FALSE]
                 ELSE [status |-> WriteStatus(r, x), known |-> known]]]
        /\ UNCHANGED <<env, durable, links, pc, snap>>

NextWrite(p) == IF BatchWrites THEN Unwritten(p) ELSE {FirstOf(Unwritten(p))}

WriteRecords(p) ==
    /\ AtWrite(p)
    /\ Dispatch(p, NextWrite(p), NextWrite(p), {})
    /\ UNCHANGED budget

(* Some of the call's records fail for good: a batch result reports them,  *)
(* or the error is not retryable, or the attempts are used up.             *)
WriteFails(p) ==
    /\ AtWrite(p)
    /\ Spend("faults")
    /\ \E failed \in SUBSET NextWrite(p) \ {{}} : \E effects \in SUBSET failed :
        Dispatch(p, NextWrite(p), (NextWrite(p) \ failed) \cup effects, failed)

(* A retryable DataAccessError: the whole call is repeated. *)
WriteRetried(p) ==
    /\ AtWrite(p)
    /\ work[p].page.tries + 1 < MaxWriteAttempts
    /\ Spend("faults")
    /\ \E effects \in SUBSET NextWrite(p) :
        writes' = [writes EXCEPT ![Current(p)] = [x \in Records |->
            IF x \in effects THEN @[x] + 1 ELSE @[x]]]
    /\ work' = [work EXCEPT ![p].page.tries = @ + 1]
    /\ UNCHANGED <<env, durable, links, pc, snap>>

(* The relationships of the page's records that did not fail. *)
Wanted(p) ==
    LET page == work[p].page
    IN  {l \in Link : /\ l.src \in page.ids
                      /\ page.out[l.src].status # "failed"
                      /\ l.to \in Relations[Current(p)][l.src]
                      /\ l.known = page.out[l.src].known}

(* The relationship phase: each of them is written when both ends were     *)
(* known at the lookup, and parked otherwise; the page's own older parked  *)
(* links are replaced.                                                     *)
LinkPage(p) ==
    LET r == Current(p)
        page == work[p].page
        wanted == Wanted(p)
        writable == {l \in wanted : l.known /\ l.to \in page.resolved}
    IN  /\ pc[p] = "write" /\ Unwritten(p) = {}
        /\ \E done \in LinkOutcomes(writable) :
            /\ links' = links \cup Written(r, done)
            /\ snap' = [snap EXCEPT ![p].parked[r] =
                          {l \in @ : l.src \notin page.ids} \cup (wanted \ done)]
        /\ pc' = [pc EXCEPT ![p] = "persist"]
        /\ UNCHANGED <<env, durable, writes, work, budget>>

-----------------------------------------------------------------------------
(* Persistence, counters and the route's decision.                         *)

NewIdsAll(page) == page.ids                                   \* MUTANT
NewIds(page) == page.ids \ page.already

Persist(p) ==
    LET page == work[p].page
    IN  /\ pc[p] = "persist"
        /\ ledger' = UpsertResults(ledger, Current(p), NewIds(page), page.out)
        /\ pc' = [pc EXCEPT ![p] = "count"]
        /\ UNCHANGED <<env, journal, runStatus, destination, snap, work, budget>>

(* A ledger that saved fewer rows than it was given fails the batch. *)
PersistShort(p) ==
    LET page == work[p].page
    IN  /\ LedgerShort /\ pc[p] = "persist"
        /\ Spend("faults")
        /\ \E saved \in SUBSET NewIds(page) :
            /\ saved # NewIds(page)
            /\ ledger' = UpsertResults(ledger, Current(p), saved, page.out)
        /\ pc' = [pc EXCEPT ![p] = "abort"]
        /\ UNCHANGED <<env, journal, runStatus, destination, snap, work>>

(* The failed-id set after a page: its ids are judged anew. *)
FailedKept(old, ids, failed) == old \cup failed               \* MUTANT
FailedAfter(old, ids, failed) == (old \ ids) \cup failed

(* Failed records another attempt committed meanwhile are repaired to      *)
(* skipped; then the counters, the failed-id set and the cursor of the     *)
(* last terminal record before the first failure are updated.              *)
CountResults(p) ==
    LET r == Current(p)
        page == work[p].page
        failed == {x \in page.ids : /\ page.out[x].status = "failed"
                                    /\ ~IsTerminal(ledger[r][x])}
        prefix == {x \in page.ids \ failed : \A y \in failed : x < y}
    IN  /\ pc[p] = "count"
        /\ snap' = [snap EXCEPT
             ![p].migrated[r] = @ + Cardinality(NewIds(page) \ failed),
             ![p].failed[r] = FailedAfter(@, page.ids, failed)]
        /\ work' = [work EXCEPT
             ![p].page.failed = failed,
             ![p].page.terminalCursor = LastOf(prefix, @)]
        /\ pc' = [pc EXCEPT ![p] = "finish"]
        /\ UNCHANGED <<env, durable, destination, budget>>

(* A route completes on its last page, without a failure, and only when    *)
(* the ledger covers every candidate.                                      *)
CompleteUncovered(p) ==                                       \* MUTANT
    work[p].page.failed = {} /\ ~work[p].page.more
RouteComplete(p) ==
    /\ work[p].page.failed = {} /\ ~work[p].page.more
    /\ Covered(ledger, Current(p), candidates[Current(p)])

(* A failed record keeps the checkpoint before it; a full page moves it to *)
(* the page's cursor; the last page drops it.                              *)
CheckpointPastFailures(page) == IF page.more THEN page.last ELSE 0   \* MUTANT
NextCheckpoint(page) ==
    IF page.failed # {} THEN page.terminalCursor
    ELSE IF page.more THEN page.last ELSE 0

(* End of the route's page; the last page retries every parked link.       *)
FinishRoute(p) ==
    LET r == Current(p)
        page == work[p].page
        retry == IF page.more THEN {} ELSE Linkable(snap[p].parked[r], {})
        complete == RouteComplete(p)
    IN  /\ pc[p] = "finish"
        /\ \E done \in LinkOutcomes(retry) :
            /\ links' = links \cup Written(r, done)
            /\ snap' = [snap EXCEPT
                 ![p].parked[r] = @ \ done,
                 ![p].completed = IF complete THEN @ \cup {r} ELSE @]
        /\ NextRoute(p, [work[p] EXCEPT
             !.hasMore = @ \/ ~complete,
             !.nextCp[r] = NextCheckpoint(page)])
        /\ UNCHANGED <<env, durable, writes, budget>>

-----------------------------------------------------------------------------
(* The tail of _drive_apply's loop.                                        *)

(* journal.save: a cancellation that landed first is kept, with the work.  *)
Save(status, s) ==
    journal' = [status |-> IF journal.status = "cancelled" THEN "cancelled" ELSE status,
                snap |-> s]

(* A batch with work left that changed neither a checkpoint nor the set of *)
(* completed routes.                                                       *)
NeverStalled(p, s) == FALSE                                   \* MUTANT
Stalled(p, s) == work[p].hasMore /\ ProgressMarker(s) = work[p].marker

SaveBatch(p) ==
    LET s == [snap[p] EXCEPT !.cp = work[p].nextCp]
        more == work[p].hasMore
        status == IF Stalled(p, s) THEN "failed" ELSE IF more THEN "running" ELSE "completed"
    IN  /\ pc[p] = "route" /\ work[p].route > Len(RouteOrder)
        /\ snap' = [snap EXCEPT ![p] = s]
        /\ Save(status, s)
        /\ \/ /\ journal.status = "cancelled"
              /\ Return(p, "cancelled")
           \/ /\ journal.status # "cancelled" /\ status # "running"
              /\ Return(p, status)
           \/ /\ journal.status # "cancelled" /\ status = "running"
              /\ work' = [work EXCEPT ![p] = NewBatch(ProgressMarker(s))]
              /\ UNCHANGED pc
        /\ UNCHANGED <<env, ledger, runStatus, destination, budget>>

(* _save_failed: the snapshot as the aborted batch left it. *)
SaveFailed(p) ==
    /\ pc[p] = "abort"
    /\ Save("failed", snap[p])
    /\ Return(p, "failed")
    /\ UNCHANGED <<env, ledger, runStatus, destination, snap, budget>>

RunStatusVerbatim(result) == result                           \* MUTANT
AppliedUnlessFailed(result) ==                                \* MUTANT
    IF result = "failed" THEN "failed" ELSE "applied"
RunStatus(result) == IF result = "completed" THEN "applied" ELSE result

(* The end of apply: the run's status follows the result. *)
Report(p) ==
    /\ pc[p] = "report"
    /\ runStatus' = RunStatus(work[p].result)
    /\ pc' = [pc EXCEPT ![p] = "idle"]
    /\ snap' = [snap EXCEPT ![p] = EmptySnapshot]
    /\ work' = [work EXCEPT ![p] = NoWork]
    /\ UNCHANGED <<env, ledger, journal, destination, budget>>

-----------------------------------------------------------------------------
(* The environment.                                                        *)

(* The process dies, or an exception that is neither a DataAccessError nor *)
(* an ExecutionFault escapes apply: nothing more is saved.                 *)
Crash(p) ==
    /\ pc[p] # "idle"
    /\ Spend("crashes")
    /\ pc' = [pc EXCEPT ![p] = "idle"]
    /\ snap' = [snap EXCEPT ![p] = EmptySnapshot]
    /\ work' = [work EXCEPT ![p] = NoWork]
    /\ UNCHANGED <<env, durable, destination>>

(* A host records a cancellation of the unfinished run. *)
Cancel ==
    /\ MayCancel /\ journal.status \in {"running", "failed"}
    /\ journal' = [journal EXCEPT !.status = "cancelled"]
    /\ UNCHANGED <<env, ledger, runStatus, destination, pc, snap, work, budget>>

SourceInsert ==
    /\ Spend("inserts")
    /\ \E r \in Routes : \E x \in Records \ (source[r] \cup candidates[r]) :
        source' = [source EXCEPT ![r] = @ \cup {x}]
    /\ UNCHANGED <<candidates, durable, destination, pc, snap, work>>

SourceDelete ==
    /\ Spend("deletes")
    /\ \E r \in Routes : \E x \in source[r] :
        source' = [source EXCEPT ![r] = @ \ {x}]
    /\ UNCHANGED <<candidates, durable, destination, pc, snap, work>>

-----------------------------------------------------------------------------
(* One step of a running apply; Start is the caller's, not the code's. *)
Step(p) ==
    \/ Load(p) \/ Claim(p)
    \/ SkipCompleted(p) \/ CompleteEmpty(p) \/ ReadPage(p) \/ ReadFails(p)
    \/ WriteRecords(p) \/ WriteFails(p) \/ WriteRetried(p) \/ LinkPage(p)
    \/ Persist(p) \/ PersistShort(p) \/ CountResults(p) \/ FinishRoute(p)
    \/ SaveBatch(p) \/ SaveFailed(p) \/ Report(p)

Environment == Cancel \/ SourceInsert \/ SourceDelete

Next ==
    \/ \E p \in Procs : Start(p) \/ Step(p) \/ Crash(p)
    \/ Environment

Spec == Init /\ [][Next]_vars

(* A live process keeps executing: nothing in _drive_apply waits for       *)
(* another process.                                                        *)
LiveSpec == Spec /\ \A p \in Procs : WF_vars(Step(p))

-----------------------------------------------------------------------------
(* PROPERTIES                                                              *)

Snapshots == {journal.snap} \cup {snap[p] : p \in Procs}

TypeOK ==
    /\ source \in [Routes -> SUBSET Records]
    /\ candidates \in [Routes -> SUBSET Records]
    /\ ledger \in [Routes -> [Records -> Row]]
    /\ writes \in [Routes -> [Records -> Nat]]
    /\ links \subseteq Routes \X Records \X Targets
    /\ journal \in [status : {"none", "running", "failed", "completed", "cancelled"},
                    snap : Snapshot]
    /\ runStatus \in {"planned", "applying", "applied", "failed", "cancelled"}
    /\ pc \in [Procs -> {"idle", "load", "claim", "route", "write", "persist",
                         "count", "finish", "abort", "report"}]
    /\ snap \in [Procs -> Snapshot]
    /\ work \in [Procs -> Work]

(* A route counts as completed, in any process or in the journal, only     *)
(* when the durable ledger holds a terminal result for every identity the  *)
(* plan froze: across crashes, retries, short saves, source changes and    *)
(* concurrent attempts (the exact-scope completion refusal of run_batch).  *)
CompletedCovered ==
    \A s \in Snapshots : \A r \in s.completed : Covered(ledger, r, candidates[r])

(* What makes the next one inductive: while nothing is left over, every    *)
(* route the batch has passed is completed, and a process that is about to *)
(* report a completed run has a covered one.                               *)
BatchCoveredBy(p) ==
    /\ pc[p] \in {"write", "persist", "count", "finish"}
         => work[p].route <= Len(RouteOrder)
    /\ pc[p] = "persist" => work[p].page.ids \subseteq DOMAIN work[p].page.out
    /\ pc[p] \in {"route", "write", "persist", "count", "finish"} /\ ~work[p].hasMore
         => \A i \in 1 .. work[p].route - 1 : RouteOrder[i] \in snap[p].completed
    /\ pc[p] = "report" => work[p].result # "none"
    /\ work[p].result = "completed"
         => \A r \in Routes : Covered(ledger, r, candidates[r])
BatchCovered == \A p \in Procs : BatchCoveredBy(p)

(* A run that says it is applied has migrated exactly the approved set:    *)
(* "completed" is only ever reached with every route covered, and a        *)
(* re-apply answered from the journal repeats a true answer.               *)
AppliedCovered ==
    journal.status = "completed" \/ runStatus = "applied"
        => \A r \in Routes : Covered(ledger, r, candidates[r])

(* A checkpoint never passes a candidate that still lacks a terminal       *)
(* result, so a resume cannot skip a record the source still serves.       *)
CheckpointSafe ==
    \A r \in Routes : \A x \in candidates[r] \cap source[r] :
        (\/ \E s \in Snapshots : x <= s.cp[r]
         \/ \E p \in Procs : x <= work[p].nextCp[r])
        => IsTerminal(ledger[r][x])

(* Nothing outside the approved set is ever written or recorded, also when *)
(* the source gained records after the approval.                           *)
OnlyCandidates ==
    \A r \in Routes : \A x \in Records \ candidates[r] :
        writes[r][x] = 0 /\ ledger[r][x] = NoRow

(* A terminal row is evidence of a write that took effect: no retry, skip, *)
(* repair or upsert records success for a record never written.            *)
LedgerBacked ==
    \A r \in Routes : \A x \in Records : IsTerminal(ledger[r][x]) => writes[r][x] > 0

(* The reported counters never exceed the ledger they summarise, whatever  *)
(* was skipped, repaired, retried or resumed from an older snapshot.       *)
CountsSound ==
    \A s \in Snapshots : \A r \in Routes :
        s.migrated[r] <= Cardinality(TerminalIds(ledger, r, candidates[r]))

(* While nothing crashed, the report of a completed run counts every       *)
(* candidate exactly once, over any number of failed batches and retries.  *)
CountsExact ==
    journal.status = "completed" /\ budget.crashes = MaxCrashes =>
        \A r \in Routes : journal.snap.migrated[r] = Cardinality(candidates[r])

(* A completed run reports no record the source still serves as failed: a  *)
(* failure is withdrawn from the report once the record went through.  (A  *)
(* record deleted after a crash lost that withdrawal stays reported.)      *)
NoStaleFailure ==
    journal.status = "completed" =>
        \A r \in Routes : journal.snap.failed[r] \cap source[r] = {}

Accounted(s, r, x) ==
    \A t \in Relations[r][x] :
        <<r, x, t>> \in links \/ \E l \in s.parked[r] : l.src = x /\ l.to = t

(* No relationship is forgotten: once a checkpoint or a completed route    *)
(* has left a record behind, each of its relationships is in the           *)
(* destination or parked in the same snapshot.                             *)
LinksAccounted ==
    \A s \in Snapshots : \A r \in Routes : \A x \in candidates[r] \cap source[r] :
        r \in s.completed \/ x <= s.cp[r] => Accounted(s, r, x)

(* What an apply is judged by: the records its checkpoints and completed   *)
(* routes leave behind, within what was approved.                          *)
ProgressTrue == CheckpointSafe /\ BatchCovered /\ OnlyCandidates

(* What its report says: no success without a write, none counted that the *)
(* ledger does not hold, and at the end of an undisturbed run all of them. *)
CountsTrue == LedgerBacked /\ CountsSound /\ CountsExact

(* Failures and relationships inside a page of several records: nothing is *)
(* lost behind the checkpoint, stays reported or is forgotten.             *)
PagesTrue == CheckpointSafe /\ NoStaleFailure /\ LinksAccounted

(* What is still true of a run that two processes apply at once.           *)
SharedRunTrue == AppliedCovered /\ CheckpointSafe /\ CountsSound

(* A terminal row keeps its status and a known destination id for good.    *)
LedgerMonotone ==
    [][\A r \in Routes : \A x \in Records : IsTerminal(ledger[r][x]) =>
        /\ ledger'[r][x].status = ledger[r][x].status
        /\ ledger[r][x].known => ledger'[r][x].known]_vars

(* engine.py: records with a terminal status are skipped without a         *)
(* rewrite, over crashes and re-applies of one process at a time.          *)
NoRewriteOfTerminal ==
    [][\A r \in Routes : \A x \in Records :
        IsTerminal(ledger[r][x]) => writes'[r][x] = writes[r][x]]_vars

(* engine.py: a batch that stops making progress fails the run, so every   *)
(* apply ends.                                                             *)
ApplyTerminates == \A p \in Procs : pc[p] # "idle" ~> pc[p] = "idle"
=============================================================================

------------------------ MODULE ContinuousExecution ------------------------
(***************************************************************************)
(* ContinuousExecutor of sanka/runtime/execution/continuous.py over the    *)
(* journal and the attempt fence of execution/local.py: queued workers     *)
(* claim one job's journal row and loop batches to a terminal entry.       *)
(*                                                                         *)
(* A worker w in Workers is one call of `run` with a connection of its own *)
(* under the attempt identity attempt[w]; two workers may carry the same   *)
(* one, as normalized_attempt_identity gives every call of a job the same  *)
(* default.  They share the journal row, the ledger and the source.  The   *)
(* batch step is the host's: the composition of run_batch and journal.save *)
(* that BatchStep names and the executor's tests build.                    *)
(***************************************************************************)
EXTENDS ExecutionLedger, KeysetSource, Sequences

CONSTANTS
    Workers,
    Attempts,        \* attempt identities
    NumberOf,        \* their attempt numbers
    Assignments,     \* which workers carry which attempt
    RouteOrder,      \* the selected routes in execution order
    MaxRecord,       \* BOUND: record identities are 1 .. MaxRecord
    InitialSources,  \* the source when the scope was frozen
    UnknownTotals,   \* routes whose frozen total is None
    InitialScopes,   \* what the queue persisted: "none", "same", "other"
    BatchSize,
    MaxBatches,      \* max_batches, and the BOUND of batches_completed
    MaxCalls,        \* BOUND: calls of run
    MaxMishaps,      \* BOUND: failing writes, raising steps, worker deaths
    MaxDeletes,      \* BOUND: records that vanish from the source
    MayCancel,       \* may a host cancel the run
    MayRequeue       \* may a host give the row to another job

Routes == {RouteOrder[i] : i \in 1 .. Len(RouteOrder)}
Records == 1 .. MaxRecord

NoAttempt == "none"
ASSUME AttemptsAssumption ==
    /\ NoAttempt \notin Attempts
    /\ NumberOf \in [Attempts -> Nat \ {0}]
    /\ Assignments \subseteq [Workers -> Attempts]
ASSUME ScopeAssumption ==
    /\ InitialSources \subseteq [Routes -> SUBSET Records]
    /\ UnknownTotals \subseteq Routes
    /\ InitialScopes \subseteq {"none", "same", "other"}
ASSUME BoundsAssumption ==
    /\ RouteOrder \in Seq(STRING)
    /\ MaxRecord \in Nat /\ BatchSize \in Nat \ {0} /\ MaxBatches \in Nat
    /\ MayCancel \in BOOLEAN /\ MayRequeue \in BOOLEAN

VARIABLES
    source,  \* live records of each route
    frozen,  \* the records behind the frozen totals and high-water marks
    ledger,  \* execution_results
    row,     \* the execution_journal row, NoJournal when there is none
    attempt, \* the identity each worker was started with
    pc,
    work,    \* per worker: the locals of run and of the current step
    budget   \* what is left of the bounds

vars == <<source, frozen, ledger, row, attempt, pc, work, budget>>

(* ExecutionSnapshot; cursor 0 is "no checkpoint", processed sums created, *)
(* updated and skipped, pages holds the routes of the last batch.          *)
Page == [seen : BOOLEAN, ids : SUBSET Records, more : BOOLEAN]
NoPage == [seen |-> FALSE, ids |-> {}, more |-> FALSE]
Snapshot == [cp : [Routes -> 0 .. MaxRecord], completed : SUBSET Routes,
             processed : [Routes -> Nat], failed : [Routes -> SUBSET Records],
             pages : [Routes -> Page],
             hasMore : BOOLEAN]
NoPages == [r \in Routes |-> NoPage]
EmptySnapshot == [cp |-> [r \in Routes |-> 0], completed |-> {},
                  processed |-> [r \in Routes |-> 0],
                  failed |-> [r \in Routes |-> {}],
                  pages |-> NoPages, hasMore |-> FALSE]
ProgressMarker(snap) == [cp |-> snap.cp, completed |-> snap.completed]

(* JournalEntry; `rebuilt` is durable_results_attempt_id.                  *)
ExecutionStatus == {"queued", "running", "completed", "failed", "cancelled"}
MaybeAttempt == Attempts \cup {NoAttempt}
Scope == {"none", "same", "other"}
Entry == [status : ExecutionStatus, attempt : MaybeAttempt, scope : Scope,
          batches : Nat, rebuilt : MaybeAttempt, snap : Snapshot]
NewEntry(status, a) ==
    [status |-> status, attempt |-> a, scope |-> "none", batches |-> 0,
     rebuilt |-> NoAttempt, snap |-> EmptySnapshot]

(* The row: the entry, and the owner columns the fence compares.           *)
NoJournal == [entry |-> NewEntry("queued", NoAttempt), number |-> 0, job |-> "absent"]
Journal == [entry : Entry, number : Nat, job : {"absent", "ours", "another"}]

Marker == [cp : [Routes -> Nat], completed : SUBSET Routes]

(* batches_completed and previous_progress, the entry the step works on,   *)
(* the index of its current route, next_checkpoints, batch_pages and the   *)
(* ids that were terminal when the page was read; why the run is being     *)
(* marked failed; what it returned, and whether its own loop said so.      *)
Work == [batches : Nat, marker : Marker, entry : Entry,
         at : 1 .. Len(RouteOrder) + 1, nextCp : [Routes -> Nat],
         pages : [Routes -> Page], already : SUBSET Records,
         why : {"none", "raised", "limit"},
         result : {"none", "raised"} \cup ExecutionStatus, looped : BOOLEAN]
NoWork == [batches |-> 0, marker |-> ProgressMarker(EmptySnapshot),
           entry |-> NewEntry("queued", NoAttempt), at |-> 1,
           nextCp |-> EmptySnapshot.cp, pages |-> NoPages, already |-> {},
           why |-> "none", result |-> "none", looped |-> FALSE]

Init ==
    /\ source \in InitialSources
    /\ frozen = source
    /\ ledger = [r \in Routes |-> [x \in Records |-> NoRow]]
    /\ row \in {NoJournal} \cup
               {[NoJournal EXCEPT !.job = "ours", !.entry.scope = s] : s \in InitialScopes}
    /\ attempt \in Assignments
    /\ pc = [w \in Workers |-> "idle"]
    /\ work = [w \in Workers |-> NoWork]
    /\ budget = [calls |-> MaxCalls, mishaps |-> MaxMishaps, deletes |-> MaxDeletes]

Spend(kind) == budget[kind] > 0 /\ budget' = [budget EXCEPT ![kind] = @ - 1]
Goto(w, place) == pc' = [pc EXCEPT ![w] = place]
Return(w, result) ==
    /\ Goto(w, "ended")
    /\ work' = [work EXCEPT ![w] = [NoWork EXCEPT !.result = result]]
RaiseTo(w, place, why) ==
    /\ Goto(w, place)
    /\ work' = [work EXCEPT ![w] = [NoWork EXCEPT !.why = why]]

-----------------------------------------------------------------------------
(* The journal as a worker sees it.                                        *)

Exists == row.job # "absent"
LoadRefused == row.job = "another"
IsCancelled == Exists /\ row.entry.status = "cancelled"
Mine(w) == row.entry.attempt = attempt[w]

(* save: another job's row and a newer attempt's row refuse, a cancelled   *)
(* row stays cancelled under the saved work, any other row is replaced.    *)
SaveOutcome(w) ==
    IF \/ LoadRefused
       \/ Exists /\ row.entry.attempt \notin {NoAttempt, attempt[w]} /\ row.number > 0
    THEN "superseded"
    ELSE IF IsCancelled THEN "cancelled" ELSE "saved"

(* _write_entry_sync: the number column is the claimed attempt's when the  *)
(* entry names it, the row's when the row does, and 0 otherwise.           *)
WriteEntry(w, entry) ==
    row' = [entry |-> entry, job |-> "ours",
            number |-> IF entry.attempt = attempt[w] THEN NumberOf[attempt[w]]
                       ELSE IF entry.attempt = row.entry.attempt THEN row.number ELSE 0]

Save(w, entry) ==
    CASE SaveOutcome(w) = "saved" -> WriteEntry(w, entry)
      [] SaveOutcome(w) = "cancelled" -> WriteEntry(w, [entry EXCEPT !.status = "cancelled"])
      [] OTHER -> UNCHANGED row

-----------------------------------------------------------------------------
(* run, up to its loop.                                                    *)

(* The first journal.load and its two early returns.                       *)
Enter(w) ==
    /\ pc[w] \in {"idle", "ended"}
    /\ Spend("calls")
    /\ IF LoadRefused THEN Return(w, "raised")
       ELSE IF Exists /\ row.entry.status \in {"cancelled", "completed"}
            THEN Return(w, row.entry.status)
            ELSE Goto(w, "claim") /\ work' = [work EXCEPT ![w] = NoWork]
    /\ UNCHANGED <<source, frozen, ledger, row, attempt>>

ClaimableAnyNumber(w) ==                                            \* MUTANT
    row.job = "ours" /\ row.entry.status \in {"queued", "running", "failed"}

(* The compare-and-set of claim. *)
Claimable(w) ==
    /\ row.job = "ours"
    /\ row.entry.status \in {"queued", "running", "failed"}
    /\ \/ row.entry.attempt \in {NoAttempt, attempt[w]}
       \/ row.number < NumberOf[attempt[w]]

ClaimRefused(w) ==
    /\ pc[w] = "claim"
    /\ Exists
    /\ IsCancelled \/ ~Claimable(w)
    /\ Return(w, IF IsCancelled THEN "cancelled" ELSE "raised")
    /\ UNCHANGED <<source, frozen, ledger, row, attempt, budget>>

(* No row yet: the claim is remembered and persisted by the first save. *)
ClaimNothing(w) ==
    /\ pc[w] = "claim"
    /\ ~Exists
    /\ Goto(w, "loop")
    /\ UNCHANGED <<source, frozen, ledger, row, attempt, work, budget>>

(* A won claim, and _validated_scope on the entry it returns. *)
Claim(w) ==
    /\ pc[w] = "claim"
    /\ Exists /\ ~IsCancelled /\ Claimable(w)
    /\ row' = [row EXCEPT !.entry.attempt = attempt[w], !.number = NumberOf[attempt[w]]]
    /\ IF row.entry.scope # "same" THEN RaiseTo(w, "markLoad", "raised")
       ELSE /\ Goto(w, "loop")
            /\ work' = [work EXCEPT ![w].batches = row.entry.batches,
                                    ![w].marker = ProgressMarker(row.entry.snap)]
    /\ UNCHANGED <<source, frozen, ledger, attempt, budget>>

-----------------------------------------------------------------------------
(* The head of the loop: the batch limit, cancellation and the attempt.    *)

LoopLimit(w) ==
    /\ pc[w] = "loop"
    /\ work[w].batches >= MaxBatches
    /\ RaiseTo(w, "markLoad", "limit")
    /\ UNCHANGED <<source, frozen, ledger, row, attempt, budget>>

LoopHead(w) ==
    /\ pc[w] = "loop"
    /\ work[w].batches < MaxBatches
    /\ IF LoadRefused THEN RaiseTo(w, "fault", "raised")
       ELSE IF IsCancelled THEN Return(w, "cancelled")
       ELSE IF Exists /\ ~Mine(w) THEN RaiseTo(w, "fault", "raised")
       ELSE Goto(w, "step") /\ UNCHANGED work
    /\ UNCHANGED <<source, frozen, ledger, row, attempt, budget>>

-----------------------------------------------------------------------------
(* The batch step: load, rebuild, run_batch over every route, save.        *)

TerminalRows(r) == {x \in Records : IsTerminal(ledger[r][x])}
FailedRows(r) == {x \in Records : ledger[r][x].status = "failed"}

(* durable_route_result_state over unique (source, destination) pairs. *)
DurableResults(snap) ==
    [snap EXCEPT !.processed = [r \in Routes |-> Cardinality(TerminalRows(r))],
                 !.failed = [r \in Routes |-> FailedRows(r)]]

(* apply_durable_route_results: once per attempt. *)
Rebuild(entry, a) ==
    IF entry.rebuilt = a THEN entry
    ELSE [entry EXCEPT !.rebuilt = a, !.snap = DurableResults(@)]

(* The loaded entry may already be a newer attempt's: only save is fenced. *)
StepLoad(w) ==
    LET loaded == IF Exists THEN row.entry ELSE NewEntry("running", NoAttempt)
        named == IF loaded.attempt = NoAttempt
                 THEN [loaded EXCEPT !.attempt = attempt[w]] ELSE loaded IN
    /\ pc[w] = "step"
    /\ IF LoadRefused THEN RaiseTo(w, "fault", "raised")
       ELSE /\ Goto(w, "route")
            /\ work' = [work EXCEPT ![w].entry = Rebuild(named, attempt[w]), ![w].at = 1,
                                    ![w].nextCp = EmptySnapshot.cp, ![w].pages = NoPages]
    /\ UNCHANGED <<source, frozen, ledger, row, attempt, budget>>

Current(w) == RouteOrder[work[w].at]
AtRoute(w) == pc[w] = "route" /\ work[w].at <= Len(RouteOrder)

(* A completed route, and a route whose high-water mark is None. *)
SkipRoute(w) ==
    /\ AtRoute(w)
    /\ Current(w) \in work[w].entry.snap.completed \/ frozen[Current(w)] = {}
    /\ work' = [work EXCEPT ![w].at = @ + 1,
                            ![w].entry.snap.completed = @ \cup {Current(w)}]
    /\ UNCHANGED <<source, frozen, ledger, row, attempt, pc, budget>>

(* The route's page and the terminal rows the ledger has for it. *)
ReadPage(w) ==
    /\ AtRoute(w)
    /\ Current(w) \notin work[w].entry.snap.completed /\ frozen[Current(w)] # {}
    /\ LET r == Current(w)
           cp == work[w].entry.snap.cp[r]
           ids == PageOf(source[r], cp, BatchSize) IN
        work' = [work EXCEPT
            ![w].pages[r] = [seen |-> TRUE, ids |-> ids, more |-> HasMore(source[r], cp, BatchSize)],
            ![w].already = TerminalIds(ledger, r, ids)]
    /\ Goto(w, "write")
    /\ UNCHANGED <<source, frozen, ledger, row, attempt, budget>>

(* Writes, upsert, failed-to-skipped repair, counters and the checkpoint:  *)
(* the writes of the records in bad fail, and those another attempt made   *)
(* terminal in the meantime are repaired.                                  *)
CountPage(snap, r, page, already, failed) ==
    [snap EXCEPT !.processed[r] = @ + Cardinality(page.ids \ (already \cup failed)),
                 !.failed[r] = (@ \ page.ids) \cup failed,
                 !.completed = IF failed = {} /\ ~page.more THEN @ \cup {r} ELSE @]

NextCheckpoint(cp, page, failed) ==
    IF failed # {} THEN LastOf({x \in page.ids : x < FirstOf(failed)}, cp)
    ELSE IF page.more THEN LastOf(page.ids, cp) ELSE 0

PersistPage(w) ==
    LET r == Current(w)
        page == work[w].pages[r]
        new == page.ids \ work[w].already IN
    /\ pc[w] = "write"
    /\ \E bad \in SUBSET new :
        LET outcomes == [x \in new |-> IF x \in bad
                THEN [status |-> "failed", known |-> FALSE]
                ELSE [status |-> "created", known |-> TRUE]]
            failed == {x \in bad : ~IsTerminal(ledger'[r][x])} IN
        /\ IF bad = {} THEN UNCHANGED budget ELSE Spend("mishaps")
        /\ ledger' = UpsertResults(ledger, r, new, outcomes)
        /\ work' = [work EXCEPT ![w].at = @ + 1, ![w].already = {},
                ![w].entry.snap = CountPage(@, r, page, work[w].already, failed),
                ![w].nextCp[r] = NextCheckpoint(work[w].entry.snap.cp[r], page, failed)]
    /\ Goto(w, "route")
    /\ UNCHANGED <<source, frozen, row, attempt>>

(* The connector's read or the ledger raises out of the step. *)
StepRaises(w) ==
    /\ pc[w] = "write"
    /\ Spend("mishaps")
    /\ RaiseTo(w, "fault", "raised")
    /\ UNCHANGED <<source, frozen, ledger, row, attempt>>

(* run_batch returns and the step saves its entry.  A step that is told    *)
(* it was superseded or cancelled may raise or return that; one that does  *)
(* not look at the outcome returns its entry, and run's own save decides.  *)
BatchMore(w) == \E r \in Routes : work[w].pages[r].seen
                    /\ r \notin work[w].entry.snap.completed
StepSave(w) ==
    LET entry == [work[w].entry EXCEPT
            !.snap.cp = work[w].nextCp, !.snap.pages = work[w].pages,
            !.snap.hasMore = BatchMore(w),
            !.status = IF BatchMore(w) THEN "running" ELSE "completed"] IN
    /\ pc[w] = "route" /\ work[w].at > Len(RouteOrder)
    /\ Save(w, entry)
    /\ \/ Goto(w, "conclude") /\ work' = [work EXCEPT ![w].entry = entry]
       \/ SaveOutcome(w) = "cancelled" /\ Return(w, "cancelled")
       \/ SaveOutcome(w) = "superseded" /\ RaiseTo(w, "fault", "raised")
    /\ UNCHANGED <<source, frozen, ledger, attempt, budget>>

-----------------------------------------------------------------------------
(* The tail of the loop: stall, reconciliation, frozen totals, save.       *)

Checked(snap) == {r \in Routes : snap.pages[r].seen}

Unchecked(snap) == Checked(snap) # {}                               \* MUTANT

(* reconcile_terminal_batch_pages: does the ledger prove every page of the *)
(* last batch terminal, with no failed row on its routes?                  *)
Reconcilable(snap) ==
    /\ Checked(snap) # {}
    /\ \A r \in Checked(snap) :
        /\ snap.pages[r].ids # {}
        /\ Covered(ledger, r, snap.pages[r].ids)
        /\ FailedRows(r) = {}

Reconciled(snap) ==
    [DurableResults(snap) EXCEPT
        !.cp = [r \in Routes |-> IF r \notin Checked(snap) THEN @[r]
                                 ELSE IF snap.pages[r].more THEN LastOf(snap.pages[r].ids, 0)
                                 ELSE 0],
        !.completed = @ \cup {r \in Checked(snap) : ~snap.pages[r].more},
        !.hasMore = \E r \in Checked(snap) : snap.pages[r].more]

NeverIncomplete(snap) == {}                                         \* MUTANT

(* known_incomplete_route_keys against the frozen totals. *)
Incomplete(snap) ==
    {r \in Routes \ UnknownTotals : snap.processed[r] < Cardinality(frozen[r])}

(* reopen_incomplete_routes: the cursor a reopened route resumes from.     *)
SafeCursor(snap, r) ==
    IF snap.cp[r] # 0 THEN snap.cp[r] ELSE LastOf(snap.pages[r].ids, 0)
Reopened(snap, short) ==
    [snap EXCEPT !.cp = [r \in Routes |-> IF r \in short THEN SafeCursor(snap, r) ELSE @[r]],
                 !.completed = @ \ short,
                 !.hasMore = @ \/ short # {}]

Conclude(w) ==
    LET batch == work[w].entry.snap
        stuck(snap) == snap.hasMore /\ ProgressMarker(snap) = work[w].marker
        settled == IF stuck(batch) /\ Reconcilable(batch) THEN Reconciled(batch) ELSE batch
        short == IF settled.hasMore THEN {} ELSE Incomplete(settled)
        final == Reopened(settled, short)
        stalled == stuck(settled) \/ short # {}
        state == IF stalled THEN "failed" ELSE IF final.hasMore THEN "running" ELSE "completed"
        entry == [work[w].entry EXCEPT !.snap = final, !.status = state, !.scope = "same",
                                       !.batches = work[w].batches + 1] IN
    /\ pc[w] = "conclude"
    /\ IF \E r \in short : SafeCursor(settled, r) = 0
       THEN RaiseTo(w, "fault", "raised") /\ UNCHANGED row
       ELSE /\ Save(w, entry)
            /\ CASE SaveOutcome(w) = "cancelled" -> Return(w, "cancelled")
                 [] SaveOutcome(w) = "superseded" -> RaiseTo(w, "fault", "raised")
                 [] SaveOutcome(w) = "saved" /\ state = "running" ->
                        /\ Goto(w, "loop")
                        /\ work' = [work EXCEPT ![w] = [NoWork EXCEPT
                                !.batches = entry.batches, !.marker = ProgressMarker(settled)]]
                 [] OTHER ->
                        /\ Goto(w, "ended")
                        /\ work' = [work EXCEPT ![w] =
                                [NoWork EXCEPT !.result = state, !.looped = TRUE]]
    /\ UNCHANGED <<source, frozen, ledger, attempt, budget>>

-----------------------------------------------------------------------------
(* The exception handler of run and mark_execution_failed.                 *)

Fault(w) ==
    /\ pc[w] = "fault"
    /\ IF ~LoadRefused /\ IsCancelled THEN Return(w, "cancelled")
       ELSE Goto(w, "markLoad") /\ UNCHANGED work
    /\ UNCHANGED <<source, frozen, ledger, row, attempt, budget>>

(* After the batch limit a refused mark returns what the journal holds.    *)
MarkRefused(w) ==
    Return(w, IF work[w].why = "limit" /\ ~LoadRefused THEN row'.entry.status ELSE "raised")

MarkLoad(w) ==
    /\ pc[w] = "markLoad"
    /\ IF LoadRefused THEN MarkRefused(w)
       ELSE /\ Goto(w, "markSave")
            /\ work' = [work EXCEPT ![w].entry =
                    [(IF Exists THEN row.entry ELSE NewEntry("failed", NoAttempt))
                        EXCEPT !.status = "failed", !.attempt = attempt[w]]]
    /\ UNCHANGED <<source, frozen, ledger, row, attempt, budget>>

MarkSave(w) ==
    /\ pc[w] = "markSave"
    /\ Save(w, work[w].entry)
    /\ IF SaveOutcome(w) = "saved" /\ work[w].why = "limit" THEN Return(w, "failed")
       ELSE MarkRefused(w)
    /\ UNCHANGED <<source, frozen, ledger, attempt, budget>>

-----------------------------------------------------------------------------
(* The world around the workers.                                           *)

Crash(w) ==
    /\ pc[w] \notin {"idle", "ended"}
    /\ Spend("mishaps")
    /\ Goto(w, "idle")
    /\ work' = [work EXCEPT ![w] = NoWork]
    /\ UNCHANGED <<source, frozen, ledger, row, attempt>>

Cancel ==
    /\ MayCancel
    /\ row.job = "ours" /\ row.entry.status \in {"queued", "running", "failed"}
    /\ row' = [row EXCEPT !.entry.status = "cancelled"]
    /\ UNCHANGED <<source, frozen, ledger, attempt, pc, work, budget>>

Requeue ==
    /\ MayRequeue
    /\ row.job = "ours"
    /\ row' = [NoJournal EXCEPT !.job = "another", !.entry.scope = "same"]
    /\ UNCHANGED <<source, frozen, ledger, attempt, pc, work, budget>>

SourceDelete ==
    /\ Spend("deletes")
    /\ \E r \in Routes : \E x \in source[r] :
        source' = [source EXCEPT ![r] = @ \ {x}]
    /\ UNCHANGED <<frozen, ledger, row, attempt, pc, work>>

Step(w) ==
    \/ Enter(w) \/ ClaimRefused(w) \/ ClaimNothing(w) \/ Claim(w)
    \/ LoopLimit(w) \/ LoopHead(w)
    \/ StepLoad(w) \/ SkipRoute(w) \/ ReadPage(w) \/ PersistPage(w) \/ StepRaises(w)
    \/ StepSave(w) \/ Conclude(w)
    \/ Fault(w) \/ MarkLoad(w) \/ MarkSave(w)

Next ==
    \/ \E w \in Workers : Step(w) \/ Crash(w)
    \/ Cancel \/ Requeue \/ SourceDelete

Spec == Init /\ [][Next]_vars

-----------------------------------------------------------------------------
(* PROPERTIES                                                              *)

Places == {"idle", "claim", "loop", "step", "route", "write", "conclude",
           "fault", "markLoad", "markSave", "ended"}

(* Every variable has its shape; a checkpoint is a record or none.         *)
TypeOK ==
    /\ source \in [Routes -> SUBSET Records]
    /\ frozen \in [Routes -> SUBSET Records]
    /\ ledger \in [Routes -> [Records -> Row]]
    /\ row \in Journal
    /\ attempt \in [Workers -> Attempts]
    /\ pc \in [Workers -> Places]
    /\ work \in [Workers -> Work]

(* The fence: once an attempt owns the row only itself or a claim with a   *)
(* higher number takes it; a refused claim and a late save or failure mark *)
(* of an older attempt leave it alone (local.save, local.claim).           *)
OwnerNeverGoesBack ==
    [][(row.job = "ours" /\ row.number > 0 /\ row'.job = "ours") =>
          (row'.entry.attempt = row.entry.attempt \/ row'.number > row.number)]_vars

(* A recorded cancellation is final for the job: no save, failure mark or  *)
(* claim that was already under way revives the run.                       *)
CancellationSticks ==
    [][(IsCancelled /\ row'.job = "ours") => row'.entry.status = "cancelled"]_vars

(* A row that was given to another job is never written by the workers of  *)
(* the old one (the job check of load, save and claim).                    *)
SupersededJobUntouched == [][row.job = "another" => UNCHANGED row]_vars

(* Whoever wrote last, the row keeps its owner, its cancellation and the   *)
(* job it belongs to.                                                      *)
RowFenced == OwnerNeverGoesBack /\ CancellationSticks /\ SupersededJobUntouched

(* The journal counts as processed only what the ledger holds terminal:    *)
(* re-read, repaired and doubly executed pages never inflate a count, so   *)
(* a frozen total is never met by counting a record twice.                 *)
CountsBacked ==
    \A r \in Routes : row.entry.snap.processed[r] <= Cardinality(TerminalRows(r))

(* What a resume will not read again is migrated: a record that is still   *)
(* in the source and lies at or before the saved checkpoint of its route,  *)
(* or on a completed route, has a terminal row.                            *)
NothingPassedOver ==
    \A r \in Routes : \A x \in source[r] :
        (r \in row.entry.snap.completed \/ x <= row.entry.snap.cp[r])
            => IsTerminal(ledger[r][x])

(* A run whose own loop ends "completed" has a terminal row for every      *)
(* record behind every known frozen total.                                 *)
LoopReconciles ==
    \A w \in Workers : work[w].looped /\ work[w].result = "completed" =>
        \A r \in Routes \ UnknownTotals : frozen[r] \subseteq TerminalRows(r)

(* What the row says of the ledger.                                        *)
RowBacked == TypeOK /\ CountsBacked /\ NothingPassedOver
=============================================================================

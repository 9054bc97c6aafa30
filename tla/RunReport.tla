----------------------------- MODULE RunReport -----------------------------
(***************************************************************************)
(* The report in which an execution is persisted: how it is read into a    *)
(* journal entry and written back without losing what the codec does not   *)
(* own, how state saved under older keys moves to the reviewed routes, and *)
(* how the progress of a continuous job is assembled.                      *)
(*                                                                         *)
(* A raw value is judged by its shape (is it the type its key asks for)    *)
(* and by its parts, of which the "blank" one stands for whatever the      *)
(* reader of that key rejects.                                             *)
(***************************************************************************)
EXTENDS Integers, Sequences, FiniteSets, SequencesExt, FiniteSetsExt

-----------------------------------------------------------------------------
(* Reading a report.                                                        *)

Raw(shape, parts) == [shape |-> shape, parts |-> parts]
Empty == Raw(TRUE, {})

\* The readers that drop the parts they reject, the ones that then reject the whole
\* value, and the ones that look only at its shape.
Lenient == {"checkpoints", "completedRoutes", "routeCounts", "routePendingRecordIds",
            "routePendingRelationships", "routeFailedRecordIds", "batchPages"}
Strict == {"status", "counts", "warnings", "routeProgress", "hasMore"}
Whole == {"providerControl"}
OwnedKeys == Lenient \cup Strict \cup Whole
ScopeKeys == {"routeManifest", "selectedRouteKeys", "routeHighWaterMarks", "routeTotals"}
ExecutionKeys == {"jobId", "attemptId", "batchSize", "batchesCompleted", "startedAt",
                  "lastHeartbeatAt", "resumed", "durableResultsAttemptId"}

Parse(key, raw) ==
    CASE ~raw.shape -> {}
      [] key \in Lenient -> raw.parts \ {"blank"}
      [] key \in Strict \cup ExecutionKeys \cup {"routeTotals"} -> IF "blank" \in raw.parts THEN {} ELSE raw.parts
      [] key \in Whole -> raw.parts
      [] OTHER -> {}

\* A key whose value the entry takes over is owned; every other key rides along.
Taken(report) ==
    [key \in {k \in DOMAIN report : Parse(k, report[k]) # {}} |-> Parse(key, report[key])]
Riders(report) ==
    [key \in {k \in DOMAIN report : Parse(k, report[k]) = {}} |-> report[key]]

Without(extras, keys) == [k \in DOMAIN extras \ keys |-> extras[k]]

\* The reviewed scope, read as soon as there is a manifest.  The parts of its values
\* are routes; a key without a value is one whose value is null.
Null == Raw(FALSE, {})
Saved(run, key) == IF key \in DOMAIN run THEN run[key] ELSE Null
HasScope(run) == Saved(run, "routeManifest") # Null
ScopeReadable(run) ==
    LET routes == Saved(run, "routeManifest")
        selected == Saved(run, "selectedRouteKeys")
        marks == Saved(run, "routeHighWaterMarks")
    IN HasScope(run) =>
         /\ routes.shape /\ routes.parts # {} /\ "blank" \notin routes.parts
         /\ selected = Null \/ (selected.shape /\ selected.parts \ {"blank"} \subseteq routes.parts)
         /\ marks \in {Null, Empty} \/ (marks.shape /\ marks.parts = routes.parts)
Scope(run) ==
    LET routes == Saved(run, "routeManifest").parts
        selected == Saved(run, "selectedRouteKeys").parts \ {"blank"}
    IN IF ~HasScope(run) THEN <<>>
       ELSE [routeManifest |-> routes,
             selectedRouteKeys |-> IF selected = {} THEN routes ELSE selected,
             routeHighWaterMarks |-> Saved(run, "routeHighWaterMarks").parts,
             routeTotals |-> Parse("routeTotals", Saved(run, "routeTotals"))]
\* Without a manifest its keys ride along, and with one totals that cannot be read do.
ScopeRiders(run) ==
    [key \in {k \in DOMAIN run \cap ScopeKeys :
                \/ ~HasScope(run)
                \/ k = "routeTotals" /\ run[k] # Null /\ Parse(k, run[k]) = {}} |-> run[key]]

\* load_journal, and _parse_execution for the nested report under "execution".
Load(report) ==
    LET run == Without(report.execution, ScopeKeys) IN
    [owned |-> Taken(report.top), extras |-> Riders(report.top), scope |-> Scope(report.execution),
     run |-> Taken(run), runExtras |-> Riders(run) @@ ScopeRiders(report.execution)]

-----------------------------------------------------------------------------
(* Writing it back.  An extra wins over an owned value of the same key.     *)

Rendered(owned, extras) ==
    [key \in DOMAIN owned \cup DOMAIN extras |->
        IF key \in DOMAIN extras THEN extras[key] ELSE Raw(TRUE, owned[key])]

DumpedScope(scope) ==
    IF scope = <<>> \/ scope.routeTotals # {} THEN scope ELSE Without(scope, {"routeTotals"})
DumpExecution(entry) == Rendered(entry.run @@ DumpedScope(entry.scope), entry.runExtras)
Dump(entry) == [top |-> Rendered(entry.owned, entry.extras), execution |-> DumpExecution(entry)]

\* Assigning a field of the entry: an empty value is not rendered.
Set(owned, key, parts) ==
    [k \in (DOMAIN owned \ {key}) \cup (IF parts = {} THEN {} ELSE {key}) |->
        IF k = key THEN parts ELSE owned[k]]

\* _own_report_key: the saved spelling goes; an empty value rides in its place.
OwnBesideExtras(entry, key) == entry \* MUTANT
Own(entry, key) ==
    [entry EXCEPT !.extras =
        LET kept == Without(@, {key}) IN
        IF key \in DOMAIN entry.owned THEN kept
        ELSE [k \in DOMAIN kept \cup {key} |-> IF k = key THEN Empty ELSE kept[k]]]

OwnAll(entry, keys) == FoldSet(LAMBDA key, e : Own(e, key), entry, keys)

\* What reconcile_terminal_batch_pages and assemble_continuous_report write.
Reconciled == {"counts", "checkpoints", "completedRoutes", "routeCounts",
               "routeFailedRecordIds", "hasMore"}
Reconcile(entry, written) ==
    OwnAll([entry EXCEPT !.owned =
              FoldSet(LAMBDA key, o : Set(o, key, written[key]), @, Reconciled)], Reconciled)

Assembled == {"warnings", "routeProgress"}
Stamped == {"jobId", "batchSize", "batchesCompleted", "startedAt", "lastHeartbeatAt", "resumed"}
Assemble(entry, written) ==
    LET owned == FoldSet(LAMBDA key, o : Set(o, key, written[key]), entry.owned,
                         Assembled \cup {"status"})
        run == FoldSet(LAMBDA key, o : Set(o, key, written[key]), entry.run, Stamped)
    IN OwnAll([entry EXCEPT !.owned = owned, !.extras = Without(@, {"status"}), !.run = run,
                            !.runExtras = Without(@, Stamped)], Assembled)

\* A batch of the apply command changes the snapshot and saves the entry as it is.
BatchKeys == {"checkpoints", "completedRoutes", "routeCounts", "routePendingRecordIds",
              "routePendingRelationships", "routeFailedRecordIds", "batchPages", "hasMore"}
Batch(entry, written) ==
    [entry EXCEPT !.owned = FoldSet(LAMBDA key, o : Set(o, key, written[key]), @, BatchKeys)]

-----------------------------------------------------------------------------
(* Promises of the codec.                                                   *)

Normal(key, raw) == IF Parse(key, raw) = {} THEN raw ELSE Raw(TRUE, Parse(key, raw))

(* Reading and writing a report that is accepted loses nothing: every key   *)
(* comes back, with its own value or, where a reader drops blanks, with the *)
(* rest of it; a scope comes back complete and can be read again, with the  *)
(* routes and marks it was reviewed with and the routes it selected; and a  *)
(* second trip changes nothing more (report_codec.py:17-48).  The one key   *)
(* that goes is a null routeTotals beside a manifest.                       *)
RoundTrip(report) ==
    LET back == Dump(Load(report))
        run == report.execution
        dropped == {k \in DOMAIN run : k = "routeTotals" /\ HasScope(run) /\ run[k] = Null}
        reviewed == IF HasScope(run) THEN ScopeKeys \ {"routeTotals"} ELSE {}
        selected == Saved(run, "selectedRouteKeys").parts \ {"blank"}
    IN ScopeReadable(run) =>
         /\ back.top = [k \in DOMAIN report.top |-> Normal(k, report.top[k])]
         /\ DOMAIN back.execution = (DOMAIN run \ dropped) \cup reviewed
         /\ \A k \in DOMAIN back.execution \ reviewed : back.execution[k] = Normal(k, run[k])
         /\ HasScope(run) =>
              /\ back.execution["routeManifest"] = run["routeManifest"]
              /\ back.execution["routeHighWaterMarks"].parts = Saved(run, "routeHighWaterMarks").parts
              /\ back.execution["selectedRouteKeys"].parts \in {selected, run["routeManifest"].parts} \ {{}}
              /\ selected # {} => back.execution["selectedRouteKeys"].parts = selected
         /\ ScopeReadable(back.execution) /\ Load(back) = Load(report)

Reads(entry, key) ==
    LET top == Load(Dump(entry)) IN
    IF key \in DOMAIN top.owned THEN top.owned[key] ELSE {}
ReadsRun(entry, key) ==
    LET top == Load(Dump(entry)) IN
    IF key \in DOMAIN top.run THEN top.run[key] ELSE {}

\* A report this runtime wrote: it has no key it would not itself take over.
SelfMade(report) == \A key \in DOMAIN report.top \cap OwnedKeys : Parse(key, report.top[key]) # {}

(* What an execution writes is what the next load reads, although the entry *)
(* was read from a report whose own spelling of the key was unusable: the   *)
(* continuous loop takes every key it writes over, and a batch of the apply *)
(* command, which does not, only meets reports of its own.                  *)
WritesSurvive(report, written) ==
    LET entry == Load(report)
        looped == Assemble(Reconcile(entry, written), written)
        batched == Batch(entry, written)
    IN ScopeReadable(report.execution) =>
       /\ \A key \in Reconciled \cup Assembled \cup {"status"} : Reads(looped, key) = written[key]
       /\ \A key \in Stamped : ReadsRun(looped, key) = written[key]
       /\ SelfMade(report) => \A key \in BatchKeys : Reads(batched, key) = written[key]
-----------------------------------------------------------------------------
(* Saved state under the keys of an older format (prepare_route_state).     *)
(* A route of the reviewed manifest has its key, its source and destination *)
(* object and whether it filters its source.                                *)

\* A source object names its route when it has exactly one route without a filter.
Unfiltered(manifest, source) == {r \in manifest : r.source = source /\ ~r.filtered}
Resolves(manifest, key) ==
    IF \E r \in manifest : r.key = key THEN {key}
    ELSE IF Cardinality(Unfiltered(manifest, key)) = 1
         THEN {r.key : r \in Unfiltered(manifest, key)} ELSE {}

\* The saved entries of one field are moved in their order.  A second entry of a route
\* is refused, unless it comes under the route's own key.
Clashes(moved, key, own) == key \in DOMAIN moved /\ ~own

Remap(manifest, saved) ==
    FoldLeft(LAMBDA state, entry :
              LET resolved == Resolves(manifest, entry.key) IN
              IF ~state.ok \/ resolved = {} THEN [state EXCEPT !.ok = FALSE]
              ELSE LET key == CHOOSE k \in resolved : TRUE
                   IN [ok |-> ~Clashes(state.moved, key, entry.key = key),
                       moved |-> [k \in DOMAIN state.moved \cup {key} |->
                                    IF k = key THEN entry.value ELSE state.moved[k]]],
            [ok |-> TRUE, moved |-> <<>>], saved)

(* State that is accepted is kept: every saved entry is found under a route *)
(* it names, and only the route's own later entry may replace it.           *)
RemapKeeps(manifest, saved) ==
    LET result == Remap(manifest, saved) IN
    result.ok => \A i \in DOMAIN saved :
        \E key \in Resolves(manifest, saved[i].key) :
            \/ result.moved[key] = saved[i].value
            \/ \E j \in i + 1 .. Len(saved) : saved[j].key = key /\ saved[i].key # key

-----------------------------------------------------------------------------
(* The progress a continuous job reports (assemble_continuous_report).  The *)
(* counts of a route are the ones of the snapshot or, where it has none,    *)
(* the ledger's of its pair of objects, when no other selected route has    *)
(* the pair.  A total of -1 is unknown.                                     *)

Unknown == -1
Statuses == {"created", "updated", "skipped", "failed"}
NoCounts == [s \in Statuses |-> 0]
Processed(counts) == counts["created"] + counts["updated"] + counts["skipped"]
SumOf(f, S) == FoldSet(LAMBDA x, acc : f[x] + acc, 0, S)

PairOf(r) == <<r.source, r.destination>>
Unique(routes, r) == Cardinality({o \in routes : PairOf(o) = PairOf(r)}) = 1
CountsOf(routes, r, counts, ledger) ==
    IF r.key \in DOMAIN counts THEN counts[r.key]
    ELSE IF Unique(routes, r) THEN ledger[PairOf(r)] ELSE NoCounts

Row(routes, r, counts, ledger, total, completed, state, stalled) ==
    LET mine == CountsOf(routes, r, counts, ledger)
        remaining == IF total = Unknown THEN Unknown ELSE Max({0, total - Processed(mine)})
    IN [processed |-> Processed(mine), failed |-> mine["failed"], total |-> total,
        remaining |-> remaining,
        status |-> IF mine["failed"] > 0 /\ stalled THEN "failed"
                   ELSE IF r.key \in completed \/ remaining = 0 THEN "completed" ELSE state]

Progress(routes, counts, ledger, totals, completed, state, stalled) ==
    LET rows == [r \in routes |->
                   Row(routes, r, counts, ledger, totals[r.key], completed, state, stalled)]
        known == \A r \in routes : totals[r.key] # Unknown
        Of(name) == SumOf([r \in routes |-> Max({0, rows[r][name]})], routes)
    IN [rows |-> rows, processed |-> Of("processed"),
        total |-> IF known THEN Of("total") ELSE Unknown,
        remaining |-> IF known THEN Of("remaining") ELSE Unknown]

(* The reported progress is the ledger's: no record is credited twice, also *)
(* when two filtered routes share their objects and one of them has no      *)
(* counts yet; a job with nothing left to do has every route completed or   *)
(* failed, and one that has all its totals is never reported beyond them.   *)
ProgressHonest(routes, counts, ledger, totals, completed, state, stalled) ==
    LET report == Progress(routes, counts, ledger, totals, completed, state, stalled)
        pairs == {PairOf(r) : r \in routes}
    IN /\ report.processed <= SumOf([p \in pairs |-> Processed(ledger[p])], pairs)
       /\ report.remaining = 0 =>
            \A r \in routes : report.rows[r].status \in {"completed", "failed"}
       /\ report.total # Unknown => report.total <= report.processed + report.remaining
=============================================================================

---------------------------- MODULE NativeBilling ----------------------------
(***************************************************************************)
(* The verification of a native order-billing workflow: the scenarios a    *)
(* Blueprint v4 must declare, the fixture they are pinned to, and the      *)
(* verdict the runtime reaches from the snapshots the host read back.      *)
(*                                                                         *)
(* A scenario: [case, keys, orders, invoices, deliveries], the keys whose  *)
(* orders and invoices exist beforehand; a delivery: [run, at, status,     *)
(* imported, billed, failure, group], billed being cumulative.             *)
(***************************************************************************)
EXTENDS Integers, Sequences, FiniteSets, SequencesExt, TLC

CONSTANT BulkSize       \* the records a bulk fixture needs (2001 in the code)

Incomplete == {"partial", "failed", "cancelled"}
Twice == {"retry", "handoff_retry", "repeated_schedule", "overlap"}
BillingCases == {"complete", "scoped_complete", "empty", "bulk"} \cup Incomplete \cup Twice

-----------------------------------------------------------------------------
(* NativeBillingDelivery and NativeBillingScenario.                         *)

DeliveryShaped(d) == d.status # "complete" => d.failure = "none"

BaselineShaped(s) ==
    /\ Cardinality(s.keys) >= 3
    /\ s.invoices \subseteq s.orders /\ s.orders \subseteq s.keys
    /\ s.invoices # {} /\ s.keys \ s.orders # {} /\ s.orders \ s.invoices # {}

\* What is billed before delivery i, and what the delivery may add to it.
Previous(s, i) == IF i = 1 THEN s.invoices ELSE s.deliveries[i - 1].billed
Billable(s, i) == Previous(s, i) \cup s.deliveries[i].imported
\* The cumulative invoices a delivery may declare.
Cumulative(s, i) ==
    LET d == s.deliveries[i] IN
    /\ d.imported \subseteq s.keys /\ d.billed \subseteq s.keys /\ Previous(s, i) \subseteq d.billed
    /\ CASE d.status # "complete" \/ d.failure = "after_import" -> d.billed = Previous(s, i)
         [] d.failure = "after_invoice_commit" -> d.billed # Previous(s, i) /\ d.billed \subseteq Billable(s, i)
         [] OTHER -> d.billed = Billable(s, i)

First(s) == Head(s.deliveries)
Latest(s) == Last(s.deliveries)
Unbilled(s) == s.orders \ s.invoices

ImportsExercised(s) ==
    CASE s.case \in Incomplete ->
            /\ First(s).status = s.case
            /\ First(s).imported \ s.orders # {} /\ First(s).imported \cap Unbilled(s) # {}
      [] s.case = "empty" -> First(s).imported = {}
      [] s.case = "scoped_complete" ->
            /\ First(s).imported # s.keys /\ First(s).imported \ s.orders # {}
            /\ Unbilled(s) \ First(s).imported # {}
      [] OTHER -> \A i \in DOMAIN s.deliveries : s.deliveries[i].imported = s.keys
RetryExercised(s) ==
    IF s.case \in {"retry", "handoff_retry"}
    THEN /\ First(s).run = Latest(s).run /\ First(s).at = Latest(s).at /\ Latest(s).failure = "none"
         /\ First(s).failure = IF s.case = "handoff_retry" THEN "after_import" ELSE "after_invoice_commit"
    ELSE \A i \in DOMAIN s.deliveries : s.deliveries[i].failure = "none"
SchedulesExercised(s) ==
    /\ s.case \in {"repeated_schedule", "overlap"} => First(s).run # Latest(s).run
    /\ s.case = "repeated_schedule" => First(s).at < Latest(s).at
    /\ IF s.case = "overlap"
       THEN First(s).group # "none" /\ First(s).group = Latest(s).group /\ First(s).at = Latest(s).at
       ELSE \A i \in DOMAIN s.deliveries : s.deliveries[i].group = "none"

Declared(s) ==
    /\ BaselineShaped(s)
    /\ \A i \in DOMAIN s.deliveries : DeliveryShaped(s.deliveries[i])
    /\ Len(s.deliveries) = IF s.case \in Twice THEN 2 ELSE 1
    /\ \A i \in DOMAIN s.deliveries : Cumulative(s, i)
    /\ s.case \notin Incomplete => \A i \in DOMAIN s.deliveries : s.deliveries[i].status = "complete"
    /\ ImportsExercised(s) /\ RetryExercised(s) /\ SchedulesExercised(s)
    /\ s.case = "bulk" => Cardinality(s.keys) >= BulkSize

\* validate_billing_scenarios, for scenarios of the workflow's own mapping and configuration.
Coverage(workflow, scenarios) ==
    /\ Cardinality(scenarios) = Cardinality(BillingCases)
    /\ {s.case : s \in {x \in scenarios : x.required}} = BillingCases
    /\ \A s \in scenarios : s.case = "repeated_schedule" => Latest(s).at - First(s).at = workflow.interval

-----------------------------------------------------------------------------
(* The fixture: pages of records, each with or without the order and the    *)
(* invoice it starts from.  Its pages name every key once, in order, and    *)
(* its baseline is the scenario's.                                          *)

PagedOnce(pages) ==
    \A i, j \in DOMAIN pages : \A m \in DOMAIN pages[i], n \in DOMAIN pages[j] :
        pages[i][m] = pages[j][n] => i = j /\ m = n
FixtureAdmitted(s, fixture) ==
    LET named == [i \in DOMAIN fixture.pages |-> fixture.pages[i].keys] IN
    /\ fixture.orders = s.orders /\ fixture.invoices = s.invoices
    /\ PagedOnce(named) /\ UNION {ToSet(named[i]) : i \in DOMAIN named} = s.keys
    /\ \A i \in DOMAIN fixture.pages :
          LET page == fixture.pages[i] IN
          /\ [n \in DOMAIN page.records |-> page.records[n].key] = page.keys
          /\ \A n \in DOMAIN page.records :
                /\ page.records[n].order = (page.records[n].key \in s.orders)
                /\ page.records[n].invoice = (page.records[n].key \in s.invoices)

\* A snapshot's pages are as complete: every key of the fixture has exactly one row.
SnapshotWhole(s, pages) ==
    /\ \A i \in DOMAIN pages : ToSet(pages[i].keys) = {pages[i].rows[n].key : n \in DOMAIN pages[i].rows}
    /\ PagedOnce([i \in DOMAIN pages |-> [n \in DOMAIN pages[i].rows |-> pages[i].rows[n].key]])
    /\ UNION {{pages[i].rows[n].key : n \in DOMAIN pages[i].rows} : i \in DOMAIN pages} = s.keys

-----------------------------------------------------------------------------
(* evaluate_native_billing_scenario.  A result: [initial, deliveries]; a    *)
(* snapshot gives each key its orders and invoices, [id, sound] and         *)
(* [id, orders, content, sound], sound standing for the customer, source    *)
(* and fields of the oracle; evidence of a delivery: [run, attempt, start,  *)
(* finish, outside, imported, rows] and the delivery it declares to be of,  *)
(* outside being the records beside the fixture's, as in the initial        *)
(* snapshot; dated: the day the oracle of the fixture dates each invoice.   *)

SnapshotsOf(r) == <<r.initial>> \o [i \in DOMAIN r.deliveries |-> r.deliveries[i].rows]
ImportedUpTo(s, n) == UNION {s.deliveries[i].imported : i \in 1 .. n}
OrdersAt(s, n) == s.orders \cup ImportedUpTo(s, n)
InvoicesAt(s, n) == IF n = 0 THEN s.invoices ELSE s.deliveries[n].billed

\* compare_rows of snapshot n, 0 for the initial one: how many there are, ...
Counted(s, rows, n) ==
    \A k \in s.keys : /\ Len(rows[k].orders) = IF k \in OrdersAt(s, n) THEN 1 ELSE 0
                      /\ Len(rows[k].invoices) = IF k \in InvoicesAt(s, n) THEN 1 ELSE 0
\* ... that no two keys share one, ...
IdsOf(rows, k) == {<<"order", rows[k].orders[i].id>> : i \in DOMAIN rows[k].orders}
                  \cup {<<"invoice", rows[k].invoices[i].id>> : i \in DOMAIN rows[k].invoices}
Unshared(s, rows) == \A j, k \in s.keys : j # k => IdsOf(rows, j) \cap IdsOf(rows, k) = {}
\* ... that each is what its key had first (order_ids and invoice_ids), ...
FirstIds(r, k, n, kind) ==
    LET seen == {m \in 1 .. n : SnapshotsOf(r)[m][k][kind] # <<>>} IN
    IF seen = {} THEN {} ELSE {SnapshotsOf(r)[CHOOSE m \in seen : \A o \in seen : m <= o][k][kind][1].id}
Stable(s, r, rows, n) ==
    \A k \in s.keys : /\ \A i \in DOMAIN rows[k].orders : {rows[k].orders[i].id} = FirstIds(r, k, n, "orders")
                      /\ \A i \in DOMAIN rows[k].invoices : {rows[k].invoices[i].id} = FirstIds(r, k, n, "invoices")
\* ... that an invoice is its order's, sound, and unchanged when it was there before.
Linked(s, r, rows, n) ==
    \A k \in s.keys : \A i \in DOMAIN rows[k].invoices :
        /\ rows[k].invoices[i].sound /\ FirstIds(r, k, n, "orders") = ToSet(rows[k].invoices[i].orders)
        /\ Len(rows[k].invoices[i].orders) = 1
        /\ k \in s.invoices => rows[k].invoices = r.initial[k].invoices
Sound(s, rows) == \A k \in s.keys : \A i \in DOMAIN rows[k].orders : rows[k].orders[i].sound
RowsCompare(s, r, n) ==
    LET rows == SnapshotsOf(r)[n + 1] IN
    Counted(s, rows, n) /\ Unshared(s, rows) /\ Stable(s, r, rows, n + 1) /\ Linked(s, r, rows, n + 1) /\ Sound(s, rows)

RunsBound(s, r) ==
    \A i, j \in DOMAIN s.deliveries :
        (s.deliveries[i].run = s.deliveries[j].run) = (r.deliveries[i].run = r.deliveries[j].run)
AttemptsDistinct(r) == \A i, j \in DOMAIN r.deliveries : r.deliveries[i].attempt = r.deliveries[j].attempt => i = j
Timed(s, r) ==
    /\ \A i \in DOMAIN r.deliveries : r.deliveries[i].start < r.deliveries[i].finish
    /\ s.case = "overlap" => \A i, j \in DOMAIN r.deliveries : r.deliveries[i].start < r.deliveries[j].finish
ImportsBound(s, r) ==
    \A i \in DOMAIN r.deliveries :
        LET d == r.deliveries[i] IN
        /\ d.outside = {} /\ DOMAIN d.imported = s.deliveries[i].imported
        /\ \A k \in DOMAIN d.imported : {d.imported[k]} = FirstIds(r, k, i + 1, "orders")

\* An invoice the verification made is dated by the first delivery that bills its key;
\* the times of a scenario are whole days.
FirstBilling(s, k) == CHOOSE i \in DOMAIN s.deliveries :
                         k \in s.deliveries[i].billed /\ \A j \in 1 .. i - 1 : k \notin s.deliveries[j].billed
Dated(s, r) == \A k \in Latest(s).billed \ s.invoices : r.dated[k] = s.deliveries[FirstBilling(s, k)].at

Compares(s, r) ==
    /\ Len(r.deliveries) = Len(s.deliveries) /\ r.outside = {} /\ Dated(s, r)
    /\ \A n \in 0 .. Len(s.deliveries) : RowsCompare(s, r, n)
    /\ \A i \in DOMAIN s.deliveries : r.deliveries[i].declared = s.deliveries[i]
    /\ RunsBound(s, r) /\ AttemptsDistinct(r) /\ Timed(s, r) /\ ImportsBound(s, r)
\* The evidence it retains, 0 being the initial snapshot; one that did not pass has checked nothing when the host said so.
EvaluateNative(s, r) ==
    IF r.outcome # "passed" THEN [scenario |-> s, outcome |-> "failed", checked |-> {}, records |-> 0]
    ELSE [scenario |-> s, outcome |-> IF Compares(s, r) THEN "passed" ELSE "failed",
          checked |-> {0} \cup DOMAIN r.deliveries, records |-> Cardinality(s.keys)]

\* _validate_native_verification: the evidence of every required scenario, complete.
EvidenceComplete(evidence) ==
    /\ {0} \cup DOMAIN evidence.scenario.deliveries \subseteq evidence.checked
    /\ evidence.outcome = "passed" /\ evidence.records = Cardinality(evidence.scenario.keys)

(* BilledOnce: a result that passes billed no key twice: over all snapshots *)
(* a key has one order and one invoice at most, no two keys ever share one, *)
(* every invoice is of its key's order, and what was billed beforehand is   *)
(* as it was; and activation admits the evidence just when it passed.  The  *)
(* runtime compares within a snapshot and with what it saw first; that this *)
(* suffices over all of them rests on the membership being cumulative.      *)
BilledOnce(s, r) ==
    LET all(k, kind) == UNION {{SnapshotsOf(r)[n][k][kind][i].id : i \in DOMAIN SnapshotsOf(r)[n][k][kind]} :
                                  n \in DOMAIN SnapshotsOf(r)}
        evidence == EvaluateNative(s, r)
    IN /\ Declared(s) /\ evidence.outcome = "passed" =>
            /\ \A k \in s.keys, kind \in {"orders", "invoices"} :
                  /\ Cardinality(all(k, kind)) <= 1
                  /\ \A j \in s.keys \ {k} : all(j, kind) \cap all(k, kind) = {}
            /\ \A k \in s.keys : all(k, "invoices") # {} <=> k \in Latest(s).billed
            /\ \A k \in s.invoices : Last(SnapshotsOf(r))[k].invoices = r.initial[k].invoices
       /\ EvidenceComplete(evidence) <=> evidence.outcome = "passed"

-----------------------------------------------------------------------------
(* The target's billing as a verification run uses it, right or with one    *)
(* fault of its own.  An order's or invoice's id is its key and a version.  *)

\* The case that must show each fault.
ShownBy == [f \in {"bills an incomplete import"} |-> "partial"]
    @@ [f \in {"bills a failed import"} |-> "failed"] @@ [f \in {"bills a cancelled import"} |-> "cancelled"]
    @@ [f \in {"bills the unscoped"} |-> "scoped_complete"] @@ [f \in {"bills all on an empty import"} |-> "empty"]
    @@ [f \in {"bills again", "another order", "replaces orders", "replaces invoices", "edits invoices", "shares an invoice",
               "links another order", "unsound order", "starts unclean", "writes elsewhere", "another date"} |-> "complete"]
    @@ [f \in {"bills again on retry", "another run on retry"} |-> "retry"] @@ [f \in {"forgets the handoff"} |-> "handoff_retry"]
    @@ [f \in {"bills again next time", "same run next time"} |-> "repeated_schedule"]
    @@ [f \in {"bills again at once", "one after another"} |-> "overlap"] @@ [f \in {"stops at the limit"} |-> "bulk"]

Again(fault, s, n) ==
    \/ fault = "bills again"
    \/ /\ n = 2
       /\ <<fault, s.case>> \in {<<"bills again on retry", "retry">>, <<"bills again next time", "repeated_schedule">>,
                                 <<"bills again at once", "overlap">>}
Billing(fault, s, n) ==
    LET d == s.deliveries[n]
        due == IF d.failure = "after_invoice_commit" THEN d.billed ELSE d.imported
        unfinished == {<<"bills an incomplete import", "partial">>, <<"bills a failed import", "failed">>,
                       <<"bills a cancelled import", "cancelled">>}
    IN CASE d.status # "complete" -> IF <<fault, d.status>> \in unfinished THEN d.imported ELSE {}
         [] d.status = "complete" /\ (\/ d.failure = "after_import"
                                      \/ n = 2 /\ fault = "forgets the handoff" /\ s.case = "handoff_retry") -> {}
         [] OTHER ->
              IF fault = "bills the unscoped" \/ (fault = "bills all on an empty import" /\ d.imported = {})
              THEN s.orders \cup due
              ELSE IF fault = "stops at the limit" /\ Cardinality(due) >= BulkSize
                   THEN {k \in due : \E j \in due : k < j} ELSE due
OrderOf(k, version, fault) == [id |-> <<k, version>>, sound |-> fault # "unsound order"]
InvoiceOf(k, version, fault, rows) ==
    [id |-> IF fault = "shares an invoice" THEN <<0, 0>> ELSE <<k, version>>, content |-> "drafted", sound |-> TRUE,
     orders |-> IF fault = "links another order" THEN <<<<0, 1>>>> ELSE <<rows[k].orders[1].id>>]
Imported(fault, s, rows, n) ==
    [k \in s.keys |-> IF k \notin s.deliveries[n].imported THEN rows[k]
        ELSE [rows[k] EXCEPT !.orders =
                CASE @ = <<>> -> <<OrderOf(k, 0, fault)>>
                  [] fault = "another order" -> @ \o <<OrderOf(k, n, "none")>>
                  [] fault = "replaces orders" -> <<OrderOf(k, n, "none")>>
                  [] OTHER -> @]]
Billed(fault, s, rows, n) ==
    [k \in s.keys |-> IF k \notin Billing(fault, s, n) THEN rows[k]
        ELSE [rows[k] EXCEPT !.invoices =
                CASE @ = <<>> -> <<InvoiceOf(k, 0, fault, rows)>>
                  [] Again(fault, s, n) -> @ \o <<InvoiceOf(k, n, fault, rows)>>
                  [] fault = "replaces invoices" -> <<InvoiceOf(k, n, fault, rows)>>
                  [] fault = "edits invoices" -> <<[@[1] EXCEPT !.content = "edited"]>>
                  [] OTHER -> @]]
Before(s) ==
    [k \in s.keys |-> [orders |-> IF k \in s.orders THEN <<OrderOf(k, 0, "none")>> ELSE <<>>,
                       invoices |-> IF k \in s.invoices
                                    THEN <<[id |-> <<k, 0>>, content |-> "paid", sound |-> TRUE, orders |-> <<<<k, 0>>>>]>> ELSE <<>>]]
Executed(fault, s) ==
    LET rows[n \in 0 .. Len(s.deliveries)] ==
            IF n = 0 THEN Before(s) ELSE Billed(fault, s, Imported(fault, s, rows[n - 1], n), n)
        run(n) == CASE fault = "another run on retry" -> n [] fault = "same run next time" -> 1 [] OTHER -> s.deliveries[n].run
        start(n) == IF s.case = "overlap" /\ fault # "one after another" THEN 0 ELSE 2 * n
        dated(k) == s.deliveries[FirstBilling(s, k)].at + (IF fault = "another date" THEN 1 ELSE 0)
    IN [outcome |-> "passed", initial |-> rows[0], outside |-> IF fault = "starts unclean" THEN {"other"} ELSE {},
        dated |-> [k \in Latest(s).billed \ s.invoices |-> dated(k)],
        deliveries |-> [n \in DOMAIN s.deliveries |->
            [declared |-> s.deliveries[n], run |-> run(n), attempt |-> n, start |-> start(n), finish |-> start(n) + 1,
             outside |-> IF fault = "writes elsewhere" THEN {"other"} ELSE {},
             imported |-> [k \in s.deliveries[n].imported |-> Last(rows[n][k].orders).id], rows |-> rows[n]]]]

(* CasesTell: a right executor passes every scenario a Blueprint may        *)
(* declare, and each fault is shown by every scenario declared for its      *)
(* case, so that the required coverage misses none of them                  *)
(* (native_verification.py:173-285 and 347-370, with :109-521).             *)
CasesTell(s) ==
    Declared(s) =>
        /\ EvaluateNative(s, Executed("none", s)).outcome = "passed"
        /\ \A fault \in DOMAIN ShownBy :
              ShownBy[fault] = s.case => EvaluateNative(s, Executed(fault, s)).outcome = "failed"

(* CoverageSuffices: scenarios admitted together leave no fault unshown:    *)
(* one of the required ones fails it, and a right executor passes them all. *)
CoverageSuffices(workflow, scenarios) ==
    Coverage(workflow, scenarios) /\ (\A s \in scenarios : Declared(s)) =>
        \A fault \in DOMAIN ShownBy :
            \E s \in scenarios : s.required /\ EvaluateNative(s, Executed(fault, s)).outcome = "failed"

(* PagesWhole: pages that pass as a fixture or as a snapshot hold every key *)
(* once, so a page left out, repeated or sampled is never compared as if    *)
(* it were whole, and the fixture starts where its scenario does.           *)
PagesWhole(s, pages) ==
    LET rows == [i \in DOMAIN pages |-> [keys |-> pages[i].keys, rows |-> pages[i].records]]
        places(k) == {<<i, n>> \in UNION {{i} \X DOMAIN pages[i].records : i \in DOMAIN pages} : pages[i].records[n].key = k}
        held == UNION {ToSet(pages[i].records) : i \in DOMAIN pages}
    IN /\ SnapshotWhole(s, rows) => /\ {r.key : r \in held} = s.keys
                                    /\ \A k \in s.keys : Cardinality(places(k)) = 1
       /\ FixtureAdmitted(s, [orders |-> s.orders, invoices |-> s.invoices, pages |-> pages]) =>
              /\ SnapshotWhole(s, rows)
              /\ {r.key : r \in {x \in held : x.order}} = s.orders
              /\ {r.key : r \in {x \in held : x.invoice}} = s.invoices
=============================================================================

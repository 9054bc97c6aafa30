---------------------------- MODULE MCAlgorithms ----------------------------
(***************************************************************************)
(* The pure parts of the program over bounded inputs: a behaviour picks    *)
(* one input of one algorithm, and each invariant compares what the        *)
(* algorithm makes of it with what it promises.                            *)
(***************************************************************************)
EXTENDS PrivateStorage, FiniteSets, FiniteSetsExt, TLC

VARIABLE sample         \* the input picked, tagged with the algorithm it is for

Is(kind) == sample.kind = kind
Pick(kind, input) == sample' = [kind |-> kind, input |-> input]
Picking(kind) == sample.kind = "none" /\ sample.of = kind

-----------------------------------------------------------------------------
(* Connectors and what crosses the pipe to them. *)

\* A filter is refused without the name of its field.
NamesItsField(type, fields) == type = "SourceFilter" => fields.field.value # ""
Connector == INSTANCE ConnectorProtocol WITH
    WireFields <- [Credentials |-> {"token", "options"}, WriteResult |-> {"record_id"}, SourceFilter |-> {"field"}],
    Constructs <- NamesItsField,
    OrderedType <- [x |-> "str", y |-> "str", n |-> "int"]

UpTo(n, S) == UNION {[1 .. k -> S] : k \in 0 .. n}
Sized(S, n) == UNION {kSubset(k, S) : k \in 0 .. n}

\* Connectors with up to two optional protocols each, for one role or for both.
Optional == {n \in Connector!Capabilities : n \notin Connector!Composite}
ConnectorsOf(role) ==
    {Connector!BaseMethods(role) \cup UNION {Connector!Capability[n] : n \in names} :
        names \in Sized(Optional, 2)}
OneRole == {[role |-> role, connectors |-> [r \in {role} |-> methods]] :
              <<role, methods>> \in {<<r, s>> \in Connector!RoleNames
                  \X (ConnectorsOf("source") \cup ConnectorsOf("destination")) : Connector!BaseMethods(r) \subseteq s}}
BothRoles ==
    {[role |-> role, connectors |-> [source |-> source, destination |-> destination]] :
        role \in Connector!RoleNames, source \in ConnectorsOf("source"),
        destination \in {d \in ConnectorsOf("destination") : d \subseteq Connector!OperationsOf("destination")}}

\* Values nested twice: a dict of one or two names, one of them the marker.
Names == {"a", Connector!Marker}
Flat == {Connector!Atom("x"), [type |-> "set", value |-> {"x", "y"}], [type |-> "set", value |-> {"x", "n"}],
         [type |-> "SourceFilter", value |-> [field |-> Connector!Atom("x")]],
         [type |-> "frozenset", value |-> {}], [type |-> "tuple", value |-> <<>>]}
Dicts(parts) == {Connector!Dict(d) : d \in UNION {[N -> parts] : N \in SUBSET Names}}
Nest(parts) ==
    Dicts(parts)
    \cup {[type |-> t, value |-> <<v, w>>] : t \in {"list", "tuple"}, v \in parts, w \in parts}
    \cup {[type |-> "Credentials", value |-> [token |-> v, options |-> w]] : v \in parts, w \in parts}
    \cup {[type |-> "WriteResult", value |-> [record_id |-> v]] : v \in parts}
Values == Flat \cup Nest(Flat) \cup Nest({Connector!Atom("x")} \cup Dicts({Connector!Atom("x"), Connector!Atom("set")}))

-----------------------------------------------------------------------------
(* Reports.  One key of each reader is foreign, unusable, partly usable or  *)
(* good; the others stand for themselves. *)

Report == INSTANCE RunReport

RawValues == {Report!Raw(shape, parts) : shape \in {TRUE}, parts \in SUBSET {"p", "blank"}}
             \cup {Report!Raw(FALSE, {"p"})}
TopKeys == {"counts", "checkpoints", "batchPages", "warnings", "providerControl", "summary"}
Tops == {[k \in K \cup {"status"} |-> IF k \in K THEN v[k] ELSE Report!Raw(TRUE, {"p"})] :
            <<K, v>> \in UNION {{K} \X [K -> RawValues] : K \in kSubset(2, TopKeys)}}
        \cup {[status |-> v] : v \in RawValues}
Executions == UNION {[K -> RawValues] : K \in {{}, {"jobId"}, {"mode"}}}
\* Scopes over two routes, with one of their other keys.
Scoped == [parts : SUBSET {"p", "q", "blank"}, shape : {TRUE}] \cup {Report!Raw(FALSE, {"p"}), Report!Null}
Scopes == UNION {[K -> Scoped] : K \in {{"routeManifest"}, {"routeTotals"}} \cup
                                     {{"routeManifest", k} : k \in Report!ScopeKeys \ {"routeManifest"}}}
Reports == [top : Tops, execution : Executions]
           \cup [top : {[status |-> Report!Raw(TRUE, {"p"})]}, execution : Scopes]
AllKeys == Report!Reconciled \cup Report!Assembled \cup Report!Stamped \cup Report!BatchKeys \cup {"status"}
Writings == {[k \in AllKeys |-> {"q"}],
             [k \in AllKeys |-> IF k = "status" THEN {"q"} ELSE {}],
             [k \in AllKeys |-> IF k \in {"counts", "batchPages", "status", "jobId"} THEN {"q"} ELSE {}]}

\* Manifests of at most three routes over two source objects, and what was saved.
RouteRow(key, source, filtered) == [key |-> key, source |-> source, destination |-> "x", filtered |-> filtered]
RouteRows == {RouteRow("a|x", "a", FALSE), RouteRow("a|y", "a", FALSE), RouteRow("a|x|f", "a", TRUE),
              RouteRow("b|x", "b", FALSE)}
SavedKeys == {"a", "b", "a|x", "a|x|f"}
Saves == UNION {[1 .. n -> SavedKeys] : n \in 0 .. 3}
SavesOf(keys) == [i \in DOMAIN keys |-> [key |-> keys[i], value |-> i]]
\* A saved dict has no key twice.
Remaps == {[manifest |-> m, saved |-> SavesOf(keys)] :
             m \in SUBSET RouteRows \ {{}}, keys \in {k \in Saves : Cardinality({k[i] : i \in DOMAIN k}) = Len(k)}}

\* Two routes of one pair and one of another; the snapshot's counts never exceed the ledger's.
Shared == {RouteRow("a|x|f", "a", TRUE), RouteRow("a|x|g", "a", TRUE), RouteRow("b|x", "b", FALSE)}
Tally(created, failed) == [s \in Report!Statuses |-> IF s = "created" THEN created ELSE IF s = "failed" THEN failed ELSE 0]
Tallies == {Tally(c, f) : c \in 0 .. 2, f \in 0 .. 1}
Written == [key : {"a|x|f", "a|x|g", "b|x"}, tally : Tallies]
ProgressCases ==
    [routes : (SUBSET Shared) \ {{}}, inLedger : [{"a|x|f", "a|x|g", "b|x"} -> {Tally(0, 0), Tally(1, 1), Tally(2, 0)}],
     counted : SUBSET {"a|x|f", "a|x|g", "b|x"}, totals : [{"a|x|f", "a|x|g", "b|x"} -> {-1, 0, 2}],
     completed : {{}, {"b|x"}}, stalled : BOOLEAN]
LedgerOf(c) ==
    [p \in {<<"a", "x">>, <<"b", "x">>} |->
        [s \in Report!Statuses |-> Report!SumOf([r \in c.routes |->
            IF Report!PairOf(r) = p THEN c.inLedger[r.key][s] ELSE 0], c.routes)]]
CountedOf(c) == [k \in {r.key : r \in c.routes} \cap c.counted |-> c.inLedger[k]]

-----------------------------------------------------------------------------
(* Mappings of one record with two fields: a scalar of every kind and       *)
(* another field, then the owners of a record and its referenced ids.       *)

Mapping == INSTANCE RecordMapping

Fields(kind, source, rules, omits, maps, unmapped) ==
    [kind : {kind}, source : {source}, target : {source}, rule : rules, omitsEmpty : omits,
     required : BOOLEAN, valueMap : maps, unmapped : unmapped]
Entry(field, expected, value) == [when |-> [f \in {field} |-> expected], value |-> value]
ValueMaps == {{Entry("a", "text", "number")}, {Entry("a", "text", "blank"), Entry("b", "one", "text")}}
Rules == {"none", "trim", "number_parse", "boolean_map", "datetime_ms", "json_stringify", "normalize_domain", "unknown"}
Scalars == Fields("scalar", "a", Rules, BOOLEAN, {{}}, {"error"})
           \cup Fields("scalar", "a", {"none", "number_parse"}, BOOLEAN, ValueMaps, {"error", "preserve", "omit"})
Second == Fields("scalar", "b", {"none"}, BOOLEAN, {{}}, {"error"})
          \cup Fields("reference", "b", {"none"}, {FALSE}, {{}}, {"error"})
          \cup Fields("relationship", "b", {"none"}, {FALSE}, {{}}, {"error"})
RecordsOf == [{"a", "b"} -> {"none", "blank", "text", "digits", "one", "two"}]
FieldLists == {<<f>> : f \in {s \in Scalars \cup Second : Mapping!FieldAccepted(s)}}
              \cup {<<f, g>> : f \in Scalars, g \in Second} \cup {<<g, f>> : f \in Scalars, g \in Second}

OwnerFields == {<<[kind |-> "owner", target |-> "a"]>>, <<[kind |-> "owner", target |-> "a"], [kind |-> "owner", target |-> "b"]>>}
Profiles == [id : {"1", "2"}, email : {"", "a@", "f@"}, active : BOOLEAN]
ById(directory) == \A p, q \in directory : p.id = q.id => p = q
Directories == {d \in Sized(Profiles, 2) : ById(d)}
OwnerCases ==
    [fields : OwnerFields,
     properties : {[t \in {} |-> ""]} \cup {[t \in {"a"} |-> v] : v \in {"a@", "1", "?"}} \cup {[a |-> "f@", b |-> "2"]},
     destination : Directories, source : {{}, {[id |-> "1", email |-> "a@", active |-> TRUE]},
        {[id |-> "1", email |-> "a@", active |-> FALSE], [id |-> "2", email |-> "f@", active |-> TRUE]}},
     policy : {"block", "leave_empty", "fallback"}, fallback : {"", "f@", "a@"}]
OwnersIn(c) == [source |-> c.source, destination |-> c.destination, policy |-> c.policy, fallback |-> c.fallback]

IdCases == [ids : SUBSET {"1", "2"}, own : UNION {[D -> {"x", "y"}] : D \in SUBSET {"1", "2"}},
            shared : UNION {[D -> SUBSET {"x", "y"}] : D \in SUBSET {"1", "2"}}]

Pages == [verdicts : {<<>>, <<"valid">>, <<"E", "valid">>, <<"E", "F">>}, hasMore : BOOLEAN, hasCursor : BOOLEAN]
SampledRoutes == [pages : {<<>>} \cup {<<p>> : p \in Pages} \cup (Pages \X Pages), frozenEmpty : {FALSE}]
                 \cup [pages : {<<p>> : p \in Pages}, frozenEmpty : {TRUE}]

-----------------------------------------------------------------------------
(* Inventories of two fields on each side, plans of two objects, manifests  *)
(* of two routes, and exact scopes of two.                                  *)

Planning == INSTANCE MigrationPlanning

SourceField(rank, words) == [rank |-> rank, key |-> words, label |-> {}, family |-> "string"]
TargetField(rank, words, label, writable, unique) ==
    [rank |-> rank, key |-> words, label |-> label, family |-> "string", writable |-> writable, unique |-> unique]
Words == {{"name"}, {"email"}, {"name", "email", "code"}, {"owner", "name"}}
SourceLists == {<<>>} \cup {<<SourceField(1, v)>> : v \in Words} \cup {<<SourceField(1, v), SourceField(2, w)>> : v \in Words, w \in Words}
TargetSets == {{TargetField(1, v, {}, TRUE, FALSE), TargetField(2, w, {"code"}, b, u)} :
                 v \in Words, w \in Words, b \in BOOLEAN, u \in BOOLEAN}
Objects(name) == {[name |-> name, type |-> "T", identity |-> i, known |-> k, selected |-> b, fields |-> f] :
                    i \in {"none", "id"}, k \in BOOLEAN, b \in BOOLEAN, f \in SourceLists}
Matched == {[sources |-> <<o>>, destinations |-> ds] :
              o \in {x \in Objects("o") : x.known /\ x.selected},
              ds \in {<<>>} \cup {<<[name |-> "d", type |-> "T", identities |-> {}, fields |-> t]>> : t \in TargetSets}}
           \cup {[sources |-> <<o, q>>, destinations |-> <<[name |-> "d", type |-> t, identities |-> {},
                      fields |-> {TargetField(1, {"name"}, {}, TRUE, u)}]>>] :
              o \in {x \in Objects("o") : Len(x.fields) = 1}, q \in {x \in Objects("q") : Len(x.fields) = 1},
              t \in {"T", "U"}, u \in BOOLEAN}

ManifestRow(source, target, filter, key, identities) ==
    [source |-> source, target |-> target, filter |-> filter, key |-> key, identities |-> identities]
ManifestRows == {ManifestRow(s, "x", f, k, i) :
    s \in {"", "a"}, f \in {"none", "on"}, k \in {<<>>, <<"a", "x", "none">>, <<"a", "x", "on">>}, i \in {{}, {"id"}}}
Manifests == {<<r>> : r \in ManifestRows} \cup {<<ManifestRow("a", "x", "none", <<>>, {}), r>> : r \in ManifestRows}
             \cup {<<r, ManifestRow("a", "x", "none", <<>>, {})>> : r \in ManifestRows}

RouteA == <<"a", "x", "none">>
RouteB == <<"b", "x", "none">>
Reviewed == [routes |-> {[key |-> k, identities |-> {}] : k \in {RouteA, RouteB}}]
Requests == SUBSET {<<>>, RouteA, RouteB, <<"c">>}
Marked == UNION {[K -> {"none", "5", "blank"}] : K \in SUBSET {RouteA, RouteB}}
Sources == [marks : BOOLEAN, counts : BOOLEAN, bounded : BOOLEAN, fails : {{}, {RouteA}},
            high : [{RouteA, RouteB} -> {"none", "5"}], frozen : {[k \in {RouteA, RouteB} |-> 1]},
            size : {[k \in {RouteA, RouteB} |-> 2]}]
Ids == {[id |-> i, padded |-> b] : i \in {"", "1", "2"}, b \in BOOLEAN}
Exact == UNION {[K -> Sized(Ids, 2)] : K \in SUBSET {RouteA, RouteB}}
Few == UNION {[K -> {{}, {[id |-> "1", padded |-> TRUE]}, {[id |-> "1", padded |-> FALSE], [id |-> "2", padded |-> FALSE]}}] :
                K \in SUBSET {RouteA, RouteB}}

-----------------------------------------------------------------------------
(* Flow: configurations of one field with two nested ones, and plans of two *)
(* resources over what is owned and observed. *)

Reconciliation == INSTANCE FlowReconciliation

Nested == {Reconciliation!Object(f) : f \in UNION {[N -> {Reconciliation!Atom("1"), Reconciliation!Atom("2")}] : N \in SUBSET {"x", "y"}}}
Configurations == {Reconciliation!Object(f) :
    f \in {<<>>} \cup [{"f"} -> Nested \cup {Reconciliation!Atom("1"), Reconciliation!Atom("2")}]}
Paths == {<<"f">>, <<"f", "x">>, <<"f", "y">>}

Setting(v) == Reconciliation!Object([f |-> Reconciliation!Atom(v)])
DesiredOne(other) == [spec : {Setting("1"), Setting("2")}, kind : {"K"}, deps : SUBSET {other}]
OwnedOne(target, other) == [target : {target}, kind : {"K"}, desired : {Setting("1")}, deps : SUBSET {other}]
ObservedOne == [kind : {"K"}, configuration : {Setting("1"), Setting("3")}, active : BOOLEAN]
               \cup {[kind |-> "L", configuration |-> Setting("1"), active |-> FALSE]}
Sides(k, other) ==
    [desired : {<<>>} \cup [{k} -> DesiredOne(other)], owned : {<<>>}, observed : {<<>>}, remove : {{}}]
    \cup [desired : {<<>>} \cup [{k} -> DesiredOne(other)], owned : [{k} -> OwnedOne("t" \o k, other)],
          observed : {<<>>} \cup [{"t" \o k} -> ObservedOne], remove : SUBSET {k}]
Together(s, t) ==
    [desired |-> s.desired @@ t.desired, owned |-> s.owned @@ t.owned,
     observed |-> s.observed @@ t.observed @@ [foreign |-> [kind |-> "K", configuration |-> Setting("1"), active |-> FALSE]],
     remove |-> s.remove \cup t.remove, found |-> {}, supported |-> {"K"}, native |-> Cardinality(DOMAIN s.desired) = 1 /\ t.desired = <<>>]

(* Blueprints: one workflow beside a planned object and property, then one  *)
(* over an existing target with every graph and coverage of its scenarios. *)

Blueprints == INSTANCE FlowBlueprint

Target(kind, key, parent, related, binding) ==
    [kind |-> kind, key |-> key, parent |-> parent, related |-> related, scope |-> "target", binding |-> binding]
References(object, property, key) ==
    [deal |-> Target("object", "deal", "none", "none", "existing"),
     order |-> Target("object", IF object = "resource" THEN key ELSE "order", "none", "none", object),
     company |-> Target("object", "company", "none", "none", "existing"),
     stage |-> Target("property", "stage", "deal", "none", "existing"),
     amount |-> Target("property", "amount", "deal", "none", "existing"),
     name |-> Target("property", IF property = "resource" THEN "p" ELSE "name", "order", "none", property),
     total |-> Target("property", "total", "order", "none", "existing"),
     from |-> Target("relationship", "from", "order", "deal", "existing"),
     to |-> Target("relationship", "to", "order", "company", "existing"),
     acme |-> Target("record", "acme", "company", "none", "existing")]
Some(refs, names) == [r \in names |-> refs[r]]
Won == Blueprints!Literal("won")
Graph(version, operation, condition, fields, associations) ==
    [version |-> version, operation |-> operation, object |-> "deal", creates |-> "order",
     changed |-> IF operation = "record.updated" THEN {"stage"} ELSE {},
     condition |-> IF condition THEN <<Blueprints!EventField("stage", "after"), Won>> ELSE <<>>,
     fields |-> fields, associations |-> associations]
Link(binding, required) == [record |-> binding, required |-> required]
NamedOnly == [name |-> Blueprints!Literal("n")]
Event(operation, before, after) ==
    [operation |-> operation, record |-> "r", after |-> [stage |-> after, amount |-> "1"],
     before |-> IF operation = "record.updated" THEN [stage |-> before, amount |-> "1"] ELSE <<>>]
OtherThan(operation) == IF operation = "record.updated" THEN "record.created" ELSE "record.updated"
NoMatch(g) == IF g.condition # <<>> THEN Event(g.operation, "open", "lost") ELSE Event(OtherThan(g.operation), "open", "won")
ScenarioOf(g, case, times, fields, links, required) ==
    [case |-> case, workflow |-> "w", required |-> required,
     events |-> IF case = "no_match" THEN <<NoMatch(g)>> ELSE [i \in 1 .. times |-> Event(g.operation, "open", "won")],
     fields |-> IF case = "no_match" THEN <<>> ELSE Some(g.fields, fields),
     associations |-> IF case = "no_match" THEN <<>> ELSE Some(g.associations, links)]
Scenarios(g, times, fields, links, skipped, optional) ==
    {ScenarioOf(g, case, IF case = "retry" THEN times ELSE 1, fields, links, case # optional) :
        case \in {"no_match", "match", "retry"} \ {skipped}}
Graphs == {Graph(v, o, c, f, a) : v \in {"v1", "v2"}, o \in {"record.updated", "record.created"}, c \in BOOLEAN,
    f \in {NamedOnly, NamedOnly @@ [total |-> Blueprints!EventField("amount", "after")]},
    a \in {<<>>, [from |-> Link(Blueprints!EventRecord, TRUE)], [from |-> Link(Blueprints!EventRecord, FALSE)],
           [from |-> Link(Blueprints!EventRecord, TRUE), to |-> Link(Blueprints!ExactRecord("acme"), TRUE)]}}
BlueprintOf(g, resources, refs, scenarios) ==
    [version |-> g.version, origin |-> "template", resources |-> resources, references |-> refs, mappings |-> {},
     scenarios |-> scenarios, unsupported |-> FALSE]
OneWorkflow(g, deps) == [w |-> [kind |-> "workflow", deps |-> deps, graph |-> g]]
Verified == {BlueprintOf(g, OneWorkflow(g, {}), References("existing", "existing", "o"),
                 Scenarios(g, times, fields, DOMAIN g.associations \ omitted, skipped, optional)) :
    <<g, fields>> \in UNION {{x} \X SUBSET DOMAIN x.fields : x \in Graphs}, times \in {1, 3}, omitted \in {{}, {"from"}},
    skipped \in {"none", "retry", "no_match"}, optional \in {"none", "match"}}
PlannedOnes ==
    LET g == Graph("v2", "record.updated", TRUE, NamedOnly, <<>>) IN
    {BlueprintOf(g, OneWorkflow(g, w) @@ [o |-> [kind |-> k, deps |-> {}, of |-> "deal"], p |-> [kind |-> "property", deps |-> p, of |-> of]],
        Some(References(object, property, "o"), {"deal", "order", "stage", "amount"} \cup names), Scenarios(g, 2, {"name"}, {}, "none", "none")) :
       w \in SUBSET {"o", "p"}, p \in SUBSET {"o", "w"}, k \in {"object", "property"}, of \in {"order", "deal"},
       object \in {"existing", "resource"}, property \in {"existing", "resource"}, names \in {{"name"}, {"name", "total"}}}

(* Generations: requests and capabilities of one role and one value, and    *)
(* answers with at most two altered fields.                                 *)

Generation == INSTANCE FlowGeneration

CapabilitiesOf(schemas) == [type : {"t"}, schema : schemas, references : {<<>>, [r |-> "object"]}, values : {<<>>, [v |-> {"string"}]}]
RequestsOf(schemas) ==
    [type : {"t", "u"}, schema : schemas, references : {<<>>, [r |-> "object"], [r |-> "record"]},
     values : {<<>>, [v |-> "string"], [v |-> "number"]}, parameters : {{}, {"configuration"}, {"configuration", "verification"}},
     capabilities : {{"c"}}]
Answer(altered, outcome, exit, blueprint, needs) ==
    [altered |-> altered, outcome |-> outcome, exit |-> exit, blueprint |-> blueprint, unsupported |-> FALSE, needs |-> needs,
     reinstalled |-> FALSE]
Answers ==
    {Answer(a, "success", 0, TRUE, {}) : a \in Sized(Generation!Envelope \cup Generation!Output \cup {"configuration", "scenarios"}, 2)}
    \cup {Answer({}, o, e, b, n) : o \in {"success", "error"}, e \in 0 .. 2, b \in BOOLEAN, n \in {{}, {"c"}, {"d"}}}
    \cup {[Answer({}, "success", 0, TRUE, {}) EXCEPT !.unsupported = u, !.reinstalled = r] : u \in BOOLEAN, r \in BOOLEAN}

(* Native billing: scenarios of three keys, one of them billed, and what    *)
(* was read back with one id exchanged.                                     *)

Billing == INSTANCE NativeBilling WITH BulkSize <- 3

DeliveryOf(run, at, status, imported, billed, failure, group) ==
    [run |-> run, at |-> at, status |-> status, imported |-> imported, billed |-> billed, failure |-> failure, group |-> group]
Keys == 1 .. 3
\* What is billed is cumulative, so the key billed beforehand is among it.
BilledOf == {b \in SUBSET Keys : 1 \in b}
Opening == {d \in {DeliveryOf(1, 1, status, imported, billed, failure, group) :
        status \in {"complete"} \cup Billing!Incomplete, imported \in SUBSET Keys, billed \in BilledOf,
        failure \in {"none", "after_import", "after_invoice_commit"}, group \in {"none", "g"}} : Billing!DeliveryShaped(d)}
Closing == {DeliveryOf(run, at, "complete", Keys, billed, failure, group) :
    run \in 1 .. 2, at \in 1 .. 2, billed \in BilledOf, failure \in {"none", "after_import"}, group \in {"none", "g"}}
ScenarioWith(case, deliveries) ==
    [case |-> case, keys |-> Keys, orders |-> {1, 2}, invoices |-> {1}, deliveries |-> deliveries, required |-> TRUE]
BillingScenarios ==
    {s \in {ScenarioWith(case, <<d>>) : case \in Billing!BillingCases \ Billing!Twice, d \in Opening}
           \cup {ScenarioWith(case, <<d, e>>) : case \in Billing!Twice, d \in {x \in Opening : x.status = "complete" /\ x.imported = Keys}, e \in Closing} :
        Billing!Declared(s)}
\* One id of one snapshot is another, everything else is as a right executor leaves it.
Exchanged(s, n, k, kind, id) ==
    LET r == Billing!Executed("none", s)
        put(rows) == IF rows[k][kind] = <<>> THEN [rows EXCEPT ![k][kind] = <<[id |-> id, sound |-> TRUE, content |-> "drafted", orders |-> <<<<k, 0>>>>]>>]
                     ELSE [rows EXCEPT ![k][kind][1].id = id]
    IN IF n = 0 THEN [r EXCEPT !.initial = put(@)] ELSE [r EXCEPT !.deliveries[n].rows = put(@)]

\* One scenario of every case, but for one: left out, given twice, or optional.
SomeOf(case) == CHOOSE s \in BillingScenarios : s.case = case
Coverages ==
    LET all == {SomeOf(case) : case \in Billing!BillingCases}
        retimed(s) == [s EXCEPT !.deliveries[1].at = 5]
    IN {all} \cup {all \ {s} : s \in all} \cup {(all \ {s}) \cup {[s EXCEPT !.required = FALSE]} : s \in all}
       \cup {(all \ {s}) \cup {retimed(t)} : s, t \in all}
\* Two pages of the three keys, a key in either, both or neither, under what the page says it has.
RecordsOf3(k) == [key : {k}, order : BOOLEAN, invoice : {k = 1}]
Paged ==
    LET named == {<<1, 2>>, <<1>>, <<2, 3>>, <<3>>, <<1, 3>>}
        records == UNION {{<<a>> : a \in RecordsOf3(k)} : k \in Keys}
                   \cup UNION {{<<a, b>> : a \in RecordsOf3(j), b \in RecordsOf3(k)} : <<j, k>> \in {<<1, 2>>, <<2, 3>>, <<1, 3>>, <<2, 2>>}}
    IN [keys : named, records : records]

-----------------------------------------------------------------------------
(* Cloud migrations: every list of two words of a command, then what is     *)
(* linked, planned and read behind a few of them. *)

Cloud == INSTANCE CloudMigrate WITH
    Numbers <- [n \in {"3", "0", "2.5"} |-> [value |-> IF n = "3" THEN 3 ELSE IF n = "0" THEN 0 ELSE 2, whole |-> n # "2.5"]]

Bare(key) == [key |-> key, inline |-> Cloud!None]
Given1(key, value) == [key |-> key, inline |-> value]
CloudWords == {Bare(k) : k \in {"--yes", "--wait", "--no-wait", "--new", "--plan-hash", "h", "--timeout", "0", "--help"}}
              \cup {Given1("--plan-hash", "h"), Given1("--plan-hash", "g"), Given1("--timeout", "3"),
                    Given1("--yes", "x"), Given1("--sample-size", "2.5")}
CloudLists == {<<>>, <<Bare("--yes"), Given1("--plan-hash", "h")>>, <<Bare("--no-wait")>>, <<Given1("--plan-hash", "g")>>,
               <<Bare("--wait"), Bare("--timeout"), Bare("3")>>, <<Bare("--new"), Given1("--timeout", "3")>>}
CloudCase(command, words, program, migration, linked, hash, statuses, json, agrees, fails) ==
    [command |-> command, words |-> words, program |-> program, migration |-> migration, linked |-> linked,
     hash |-> hash, statuses |-> statuses, json |-> json, agrees |-> agrees, fails |-> fails]
Seen == {<<"applied">>, <<"planning", "requires_approval">>, <<"planning", "planning", "planning", "paused">>,
         <<"planning", "failed">>, <<"planning", "planning", "planning", "planning", "verified">>}
CloudCases ==
    {CloudCase(c, <<v, w>>, "P", Cloud!None, <<"m">>, "h", <<"applied">>, FALSE, TRUE, 0) :
        c \in Cloud!Commands, v \in CloudWords, w \in CloudWords}
    \cup {CloudCase(c, w, p, m, l, h, <<"verified">>, FALSE, r, f) :
        c \in Cloud!Commands, w \in CloudLists, p \in {Cloud!None, "P"}, m \in {Cloud!None, "m", "x"},
        l \in {<<>>, <<"m">>, <<"n", "m">>}, h \in {"", "h"}, f \in {0, 3}, r \in BOOLEAN}
    \cup {CloudCase(c, w, "P", Cloud!None, <<"m">>, "h", s, j, TRUE, 0) :
        c \in Cloud!Commands, w \in CloudLists, s \in Seen, j \in BOOLEAN}

(* Hosted runs: each command with up to two things that are not in order.   *)

Hosted == INSTANCE CloudRuns WITH
    Numbers <- <<>>, SourceBytes <- 2, ArtifactBytes <- 2

Signed(by, over) == [supported |-> TRUE, key |-> "k", payload |-> "r", signature |-> [by |-> by, over |-> over]]
TrustedKey(id, material) == [id |-> id, ed25519 |-> TRUE, material |-> material]
Kept2(name, bytes) == [name |-> name, content |-> bytes, size |-> 1]
InOrder(command) ==
    [command |-> command, malformed |-> {}, yes |-> FALSE, agrees |-> TRUE, fails |-> 0, run |-> "r", source |-> "s",
     archive |-> [size |-> 1, zip |-> TRUE, content |-> "A"], revision |-> "v", kept |-> [content |-> "A", revision |-> "v"],
     parent |-> [id |-> "r", status |-> "failed", request |-> [source |-> "s", settings |-> "m"]],
     manifest |-> <<Kept2("log", "B"), Kept2("output.zip", "A")>>, candidate |-> "A",
     paths |-> <<[name |-> "a", legal |-> TRUE], [name |-> "b", legal |-> TRUE]>>,
     scenarios |-> <<[id |-> "1", local |-> TRUE, method |-> "GET", body |-> FALSE], [id |-> "2", local |-> TRUE, method |-> "PUT", body |-> TRUE]>>,
     exists |-> FALSE, appears |-> FALSE, saves |-> TRUE, current |-> [certificate |-> Signed("K", "r"), revoked |-> FALSE],
     document |-> Signed("K", "r"), keys |-> <<TrustedKey("k", "K"), TrustedKey("l", "L")>>, online |-> TRUE, offline |-> FALSE,
     artifact |-> "output.zip", received |-> [size |-> 1, content |-> "A"]]
HostedCommands == {"upload", "run", "repair", "certify", "certificate", "certificate-verify", "certificate-revoke", "download",
                   "cancel", "status"}
AmissIn(c) ==
    {[c EXCEPT !.malformed = {o}] : o \in {"--workspace", "--sha256", "--artifact"}}
    \cup {[c EXCEPT !.yes = y, !.agrees = FALSE] : y \in BOOLEAN} \cup {[c EXCEPT !.fails = n] : n \in 1 .. 2}
    \cup {[c EXCEPT !.archive.size = n] : n \in {0, 3}} \cup {[c EXCEPT !.archive.zip = FALSE], [c EXCEPT !.kept.content = "B"]}
    \cup {[c EXCEPT !.revision = "none"], [c EXCEPT !.kept.revision = "none"], [c EXCEPT !.parent.id = "q"]}
    \cup {[c EXCEPT !.parent.status = s] : s \in {"running", "succeeded"}}
    \cup {[c EXCEPT !.parent.request.source = "none"], [c EXCEPT !.parent.request.settings = "none"]}
    \cup {[c EXCEPT !.candidate = "B"], [c EXCEPT !.manifest = <<@[1]>>], [c EXCEPT !.manifest[2].content = "C"], [c EXCEPT !.manifest[1].name = "output.zip"],
          [c EXCEPT !.paths[2].name = "a"], [c EXCEPT !.paths[1].legal = FALSE], [c EXCEPT !.paths = <<>>],
          [c EXCEPT !.scenarios[2].id = "1"], [c EXCEPT !.scenarios[1].body = TRUE], [c EXCEPT !.scenarios[1].local = FALSE]}
    \cup {[c EXCEPT !.exists = TRUE], [c EXCEPT !.appears = TRUE], [c EXCEPT !.saves = FALSE], [c EXCEPT !.current.revoked = TRUE],
          [c EXCEPT !.current.certificate.payload = "q"], [c EXCEPT !.document.payload = "q"], [c EXCEPT !.document.key = "l"],
          [c EXCEPT !.document.supported = FALSE], [c EXCEPT !.keys[2].id = "k"], [c EXCEPT !.keys[1].ed25519 = FALSE],
          [c EXCEPT !.online = FALSE], [c EXCEPT !.offline = TRUE]}
    \cup {[c EXCEPT !.received.size = n, !.manifest[Len(c.manifest)].size = m] : n \in {1, 3}, m \in {1, 3}} \cup {[c EXCEPT !.received.content = "B"]}

(* Custom code: directories of a manifest and two more files, and bundles   *)
(* of up to two members. *)

Code == INSTANCE CodeFunctions WITH
    Numbers <- <<>>, IgnoredParts <- {"node_modules"}, IgnoredNames <- {".sankaignore", ".env"},
    SizeOf <- [A |-> 1, B |-> 2, manifest |-> 1, template |-> 1], MaxFiles <- 3, MaxBytes <- 4

FilePaths == {<<"sanka.json">>, <<"index.js">>, <<"lib", "a">>, <<"lib">>, <<"lib", ".env">>, <<"node_modules", "a">>, <<".sankaignore">>}
Coherent(paths) == \A p \in paths, q \in paths : ~Code!Below(p, q)
DirectoriesOf(paths, links, ignores) ==
    {[files |-> f, links |-> l, ignore |-> i] : f \in [paths -> {"A", "B"}], l \in links, i \in ignores}
CodeDirectories ==
    UNION {DirectoriesOf(paths, {{}, {<<"lib">>} \ paths, {<<"index.js">>} \cap paths},
                         {{}, {[path |-> <<"lib">>, contents |-> TRUE]}, {[path |-> <<"index.js">>, contents |-> FALSE]}}) :
              paths \in {P \in Sized(FilePaths, 3) : Coherent(P)}}
MemberOf(path, kind, bytes) == [path |-> path, kind |-> kind, content |-> bytes]
MembersSent == {MemberOf(p, "file", c) : p \in {<<"sanka.json">>, <<"index.js">>, <<"lib", "a">>, <<"..", "a">>}, c \in {"A", "B"}}
               \cup {MemberOf(<<"lib">>, "directory", "A"), MemberOf(<<"lib">>, "link", "A")}
DistinctMembers == {m \in UpTo(2, MembersSent) : \A j, k \in DOMAIN m : m[j].path = m[k].path => j = k}
CodeCase(command, dir, members) ==
    [command |-> command, dir |-> dir, members |-> members, slug |-> "f", manifestValid |-> TRUE, version |-> IF command = "deploy" THEN <<1>> ELSE <<>>, aliases |-> <<[alias |-> "live", version |-> 2]>>,
     latest |-> 3, versions |-> <<3, 2>>, declared |-> <<Code!BundleIn(members)>>, dryRun |-> FALSE, activate |-> FALSE, force |-> FALSE, entry |-> <<"index.js">>,
     yes |-> FALSE, agrees |-> TRUE, fails |-> 0]
SmallDirectories == {d \in CodeDirectories : Cardinality(DOMAIN d.files) <= 2 /\ d.ignore = {} /\ \A p \in DOMAIN d.files : d.files[p] = "A"}
AnyService(command) ==
    {[CodeCase(command, CHOOSE d \in SmallDirectories : Code!Bundles(d), <<>>)
        EXCEPT !.version = v, !.aliases = a, !.latest = l, !.versions = n, !.agrees = b, !.declared = <<>>, !.dryRun = b, !.activate = ~b, !.fails = f] :
       v \in (IF command = "deploy" THEN {} ELSE {<<>>}) \cup {<<0>>, <<1>>}, a \in {<<>>, <<[alias |-> "live", version |-> 0], [alias |-> "x", version |-> 1]>>}, l \in {0, 3},
       n \in {<<>>, <<3>>, <<3, 2>>}, b \in BOOLEAN, f \in 0 .. 1}
CodeCommands == {"create", "push", "pull", "diff", "deploy", "rollback", "unlock", "lock", "secrets set", "secrets rm", "get"}

-----------------------------------------------------------------------------
(* Extensions: requirements of a root and two distributions, two wheels laid *)
(* out over each other, and two wheels of which one field is altered.        *)

Wheels == INSTANCE ExtensionWheels WITH
    DataRoots <- {"D.data", "other.data"}, Unsafe <- {".."}, Infos <- {"x.dist-info"}, MaxMembers <- 3

Marker(kind) == [kind |-> kind, extra |-> "x"]
Requires(name, marker, extras, admits) == [name |-> name, marker |-> Marker(marker), extras |-> extras, admits |-> admits]
Closures ==
    LET asks(names, markers, extras) == {Requires(d, m, e, {1}) : d \in names, m \in markers, e \in extras}
        rootA == asks({"a"}, {"always"}, {{}, {"x"}})
        rootB == asks({"b"}, {"always"}, {{}, {"x"}})
        later == asks({"a", "b"}, {"always", "extra", "but"}, {{}, {"x"}})
        last == asks({"a", "c", "z"}, {"always", "extra", "but"}, {{}, {"x"}}) \cup {Requires("a", m, {}, {2}) : m \in {"never", "extra"}}
        lists == [r : {<<p>> : p \in rootA} \cup {<<p, q>> : p \in rootA, q \in rootB} \cup {<<q, p>> : p \in rootA, q \in rootB},
                  a : {<<p, q>> : p, q \in later} \cup {<<p>> : p \in later}, b : {<<p>> : p \in last} \cup {<<>>}]
    IN [root : {"r"}, available : {{"r", "a", "b", "c"}}, selected : {[d \in {"r", "a", "b"} |-> 1]}, requires : lists]

Member(path, dir) == [path |-> path, dir |-> dir, plain |-> TRUE]
Members == {Member(<<"p">>, FALSE), Member(<<"p">>, TRUE), Member(<<"p", "m">>, FALSE), Member(<<"D.data", "purelib", "p">>, FALSE),
            Member(<<"D.data", "purelib">>, TRUE), Member(<<"D.data">>, TRUE), Member(<<"x.dist-info", "RECORD">>, FALSE)}
Laid(lists) == {[data |-> "D.data", members |-> l] : l \in lists}
Layouts == {<<v, w>> : v \in Laid(UpTo(3, Members)), w \in Laid(UpTo(1, Members))}

Entries(group, name) == {[group |-> group, name |-> name, valid |-> TRUE]}
Scripted == {<<>>, <<{}>>} \cup {<<Entries(g, n)>> : g \in {"console_scripts", "gui_scripts", "sanka.connectors"}, n \in {"run", "other"}}
            \cup {<<Entries("console_scripts", "run") \cup Entries(g, "other")>> : g \in {"console_scripts", "sanka.connectors"}}
            \cup {<<Entries("sanka.connectors", "run") \cup Entries("sanka.connectors", "other")>>,
                  <<Entries("console_scripts", "run"), {}>>, <<{[group |-> "console_scripts", name |-> "run", valid |-> FALSE]}>>}
WheelOf(distribution, entryFiles) ==
    [distribution |-> distribution, version |-> 1, data |-> "D.data", members |-> <<Member(<<distribution>>, FALSE)>>,
     names |-> <<distribution>>, versions |-> <<1>>, tags |-> {"t"}, declaredTags |-> {"t"}, entryFiles |-> entryFiles,
     requires |-> <<>>]
Requirement(name, url) == Requires(name, "always", {}, {1}) @@ [valid |-> TRUE, url |-> url]
Altered(w) ==
    {w, [w EXCEPT !.names = <<"a", "a">>], [w EXCEPT !.versions = <<2>>], [w EXCEPT !.declaredTags = {}],
     [w EXCEPT !.members = <<Member(<<"..", "p">>, FALSE)>>], [w EXCEPT !.members = <<Member(<<"p">>, TRUE), Member(<<"p">>, FALSE)>>],
     [w EXCEPT !.members = <<Member(<<"other.data", "purelib", "p">>, FALSE)>>]}
    \cup {[w EXCEPT !.requires = <<Requirement(n, u)>>] : n \in {"a", "z"}, u \in BOOLEAN}
InstallCases ==
    [wheels : {<<v>> : v \in Altered(WheelOf("r", <<Entries("console_scripts", "run")>>))}
              \cup {<<WheelOf("r", e), w>> : e \in Scripted, w \in {WheelOf("a", f) : f \in Scripted}}
              \cup {<<v, w>> : v \in Altered(WheelOf("r", <<Entries("console_scripts", "run")>>)), w \in Altered(WheelOf("a", <<>>))},
     manifest : [kind : {"migration", "connector"}, distribution : {"r"}, executable : {"run"}, entryPoint : {"run"},
                 providers : {{"run"}, {"run", "other"}}, wheels : {{"r", "a"}}]]

(* Repositories of two files, catalogs of two entries with an altered field, *)
(* projects over two marketplaces, and ranges of two clauses.                *)

VersionOf(release, pre, number) == [release |-> release, pre |-> pre, number |-> number]
Versions == {VersionOf(<<1, 0>>, "none", 0), VersionOf(<<1, 0, 0>>, "rc", 1), VersionOf(<<1, 0, 0>>, "a", 2),
             VersionOf(<<1, 0, 1>>, "none", 0), VersionOf(<<2, 0>>, "b", 1)}
Catalog == INSTANCE ExtensionCatalog WITH
    Ignored <- {"node_modules"}, Bad <- {"?"}, Runtime <- VersionOf(<<1, 0>>, "none", 0)
Clauses == {[op |-> o, version |-> v] : o \in {"==", ">=", ">", "<=", "<"}, v \in Versions}

FileOf(path, under, metadata, dependencies, imports) ==
    [path |-> path, under |-> under, suffix |-> IF path = "m" THEN "py" ELSE "txt", regular |-> TRUE, text |-> "utf8",
     metadata |-> metadata, parses |-> TRUE, dependencies |-> dependencies, imports |-> imports]
SourceFiles(name) ==
    LET plain(u, d, i) == FileOf(name, u, IF name = "m" THEN "none" ELSE "requirements", d, i)
        full == plain(".", {"djangorestframework"}, {"rest_framework"})
    IN {plain(u, d, i) : u \in {".", "node_modules", "out"}, d \in {{}, {"djangorestframework"}}, i \in {{}, {"rest_framework"}}}
       \cup {[full EXCEPT !.regular = FALSE], [full EXCEPT !.text = "large"], [full EXCEPT !.parses = FALSE]}
Matchers == {[kind |-> "file", value |-> "q"], [kind |-> "dependency", value |-> "djangorestframework"],
             [kind |-> "framework", value |-> "django-rest-framework"]}
MatcherLists == {l \in UpTo(2, Matchers) : Len(l) = 2 => l[1] # l[2]}

ManifestOf(id, matcher, runtime) ==
    [id |-> id, kind |-> "migration", protocol |-> "migration", version |-> 1, distribution |-> "d", distributionVersion |-> 1,
     start |-> "s", commands |-> <<"scan">>, targets |-> <<"t">>, all |-> <<matcher>>, any |-> <<>>, providers |-> <<>>,
     capabilities |-> <<>>, runtime |-> runtime,
     wheels |-> <<[name |-> "w", url |-> "w", sha256 |-> "h", distribution |-> "d", version |-> 1]>>]
Drf == [kind |-> "dependency", value |-> "djangorestframework"]
Absent == [kind |-> "file", value |-> "absent"]
Runs == {}
RunsNot == {[op |-> ">", version |-> VersionOf(<<1, 0>>, "none", 0)]}
E1 == ManifestOf("e", Drf, Runs)
E2 == [ManifestOf("e", Drf, RunsNot) EXCEPT !.version = 2]
E3 == ManifestOf("e", Absent, Runs)
F1 == ManifestOf("f", Drf, Runs)
Market(identity, snapshot, manifests) == [identity |-> identity, snapshot |-> snapshot, manifests |-> manifests]
Contents == {<<>>, <<E1>>, <<E2>>, <<E3>>, <<E1, F1>>, <<E2, F1>>}
Markets == {<<>>} \cup {<<Market("m", s, k)>> : s \in 1 .. 2, k \in Contents}
           \cup {<<Market("m", s, k), Market("n", 1, l)>> : s \in 1 .. 2, k \in Contents, l \in Contents}
LocksOf(id, manifests) ==
    {{}} \cup {{l} : l \in [id : {id}, identity : {"m", "n"}, snapshot : {1}, manifest : manifests, enabled : BOOLEAN]}
Installed(identity, manifest) == [identity |-> identity, snapshot |-> 1, manifest |-> manifest]
Projects ==
    {[markets |-> k, locks |-> l \cup n, disabled |-> d, installed |-> i, evidence |-> {Catalog!Note("dependency", "djangorestframework", [path |-> "q"])}] :
        k \in Markets, l \in LocksOf("e", {E1, E2, E3}), n \in LocksOf("f", {F1}), d \in {{}, {"e"}},
        i \in {{}, {Installed("m", E1), Installed("n", E2)}, {Installed("m", E2), Installed("n", E1), Installed("m", F1)}}}

(* The files of the store over four commands: two places beside the         *)
(* official one, one of them under two spellings, and trees that carry an   *)
(* extension on, in another version or not at all.                          *)

Moved == [E1 EXCEPT !.version = 2, !.distributionVersion = 2]
Tagged(m, tag) == [m EXCEPT !.wheels = <<@[1] @@ [tag |-> tag]>>]
Varied(m, tag) == [m EXCEPT !.wheels = Append(@, [@[1] EXCEPT !.name = "v", !.url = "v", !.tag = tag])]
Stages == [Varied(Tagged(E1, "t"), "v") EXCEPT !.commands = <<"test", "scan", "apply">>]
NextStages == [Tagged([Moved EXCEPT !.wheels[1].version = 2], "t") EXCEPT !.commands = <<"plan">>]
Connects(id, system, tag) ==
    [Tagged(ManifestOf(id, Drf, Runs), tag) EXCEPT !.kind = "connector", !.protocol = "connector", !.start = system,
        !.commands = <<>>, !.providers = <<[name |-> system, roles |-> {"source"}]>>]
EntriesOf(manifests) == [k \in DOMAIN manifests |-> [id |-> manifests[k].id, manifest |-> manifests[k]]]
State == INSTANCE ExtensionState WITH
    Ignored <- {"node_modules"}, Bad <- {"?"}, Runtime <- VersionOf(<<1, 0>>, "none", 0),
    Commits <- {"c1", "c2"}, Trees <- {"T1", "T2", "T3", "T4"}, Lower <- [HOST |-> "host", host |-> "host"],
    Content <- [T1 |-> EntriesOf(<<Stages, Connects("c", "sys", "t")>>),
                T2 |-> EntriesOf(<<NextStages, Connects("d", "sys", "t"), Connects("x", "other", "u")>>),
                T3 |-> EntriesOf(<<Connects("c", "sys", "t")>>),
                T4 |-> <<[id |-> "e", manifest |-> Connects("c", "sys", "t")]>>],
    Official <- [host |-> "host", path |-> "official", source |-> "https", revision |-> "c2"],
    Rank <- [m |-> 1, n |-> 2, official |-> 3], Reserved <- {"hosted"}

Place(form, host, path) == [form |-> form, host |-> host, path |-> path, text |-> form]
Places == {Place("directory", "", "d"), Place("scp", "HOST", "p"), Place("https", "host", "p"), Place("ssh", "host", "official"),
           Place("symlink", "", "d")}
Got(commit, tree) == [commit |-> commit, tree |-> tree]
Adding(places, names, revisions, gots) ==
    [op : {"add_marketplace"}, raw : places, name : names, trust : BOOLEAN, revision : revisions, got : gots]
Upgrading(names, gots) == [op : {"upgrade_marketplace"}, name : names, got : gots, moved : BOOLEAN]
Removing == [op : {"remove_marketplace"}, name : {"m", "n"}]
AddingOne(ids, aliases) ==
    [op : {"add"}, id : ids, alias : aliases, tags : {<<"v", "t">>}, got : {Got("c2", "T1")}]
FirstCommands == {c \in Adding(Places, {"m"}, {"none", "c1"}, {Got("c1", "T1"), Got("c2", "T1")}) : c.trust \/ c.raw.form = "ssh"}
                 \cup AddingOne({"e"}, {"none"})
SecondCommands == AddingOne({"e", "c"}, {"none"})
                  \cup {c \in Adding(Places, {"n"}, {"none"}, {Got("c1", "T2")}) : c.trust}
ThirdCommands == AddingOne({"c", "d", "x"}, {"none", "n"})
                 \cup {c \in Upgrading({"none", "m"}, {Got("c1", "T1"), Got("c1", "T2"), Got("c2", "T2"), Got("c2", "T4")}) : ~c.moved \/ c.name = "m"}
                 \cup {c \in Adding(Places, {"n"}, {"none"}, {Got("c2", "T3")}) : c.trust}
LastCommands == AddingOne({"e", "d"}, {"none", "m"}) \cup Removing \cup [op : {"remove"}, id : {"e", "c"}, tags : {<<"v", "t">>}, default : BOOLEAN]
                \cup {c \in Upgrading({"none"}, {Got("c1", "T1"), Got("c2", "T3")}) : ~c.moved}

Role(id, kind, parent, related) == [id |-> id, kind |-> kind, parent |-> parent, related |-> related]
CapabilityOf(type, references) ==
    [type |-> type, schema |-> "v1", template |-> type, references |-> references, values |-> <<[id |-> "v", types |-> {"string"}]>>]
Capable == {CapabilityOf(t, r) : t \in {"process", "bill"}, r \in {<<>>, <<Role("p", "property", "o", "none")>>,
    <<Role("o", "object", "none", "none"), Role("p", "property", "o", "none")>>, <<Role("o", "object", "none", "none"), Role("o", "record", "o", "none")>>}}
RawManifests ==
    LET flow(k) == [E1 EXCEPT !.kind = "flow", !.protocol = "flow", !.commands = <<"blueprint">>, !.capabilities = k]
        connector(p) == [E1 EXCEPT !.kind = "connector", !.protocol = "connector", !.providers = p]
        provider(n, roles) == [name |-> n, roles |-> roles]
    IN {flow(k) : k \in UpTo(2, Capable)}
       \cup {connector(p) : p \in UpTo(2, {provider(n, r) : n \in {"s", "u"}, r \in {{}, {"source"}, {"source", "destination"}}})}
       \cup {E1, F1, [E1 EXCEPT !.version = 2], [E1 EXCEPT !.commands = <<"scan", "scan">>], [E1 EXCEPT !.all = <<>>],
             [E1 EXCEPT !.wheels = @ \o @], [E1 EXCEPT !.protocol = "flow"]}
CatalogEntries == {[id |-> i, manifest |-> m] : i \in {"e", "f"}, m \in RawManifests}
Catalogs == {<<x>> : x \in CatalogEntries}
            \cup {<<x, y>> : x \in {z \in CatalogEntries : z.manifest \in {E1, F1, E3}}, y \in CatalogEntries}

(* Settings: two in any order or three in a chain, with what was saved, is   *)
(* given and is answered. *)

Settings == INSTANCE ExtensionSettings
SettingOf(id, kind, when, advanced) ==
    [id |-> id, kind |-> kind, choices |-> IF kind = "choice" THEN {"x", "y"} ELSE {}, optional |-> TRUE, advanced |-> advanced,
     when |-> when, default |-> CASE kind = "choice" -> "x" [] kind = "boolean" -> "yes" [] kind = "text" -> Settings!None]
Shows(controller) == {<<>>} \cup {[k \in {controller} |-> v] : v \in {{"x"}, {"yes", "y"}, {Settings!None}}}
SettingsOf(id, controller) == {SettingOf(id, k, w, a) : k \in {"choice", "boolean", "text"}, w \in Shows(controller), a \in BOOLEAN}
Declarations ==
    {<<s, t>> : s \in SettingsOf("a", "b"), t \in SettingsOf("b", "a")}
    \cup {<<SettingOf("a", k, <<>>, FALSE), s, t>> : k \in {"choice", "boolean"},
              s \in {z \in SettingsOf("b", "a") : ~z.advanced}, t \in {z \in SettingsOf("c", "b") : z.kind = "choice"}}
Given == {<<>>, [a |-> "x"], [b |-> "y"], [a |-> "y", b |-> "x"], [output |-> "o"]}
Kept == Given \cup {[selected_endpoints |-> "s", output |-> "p"]}
Replies == {<<FALSE, <<>>>>, <<TRUE, <<>>>>, <<TRUE, [a |-> "y", b |-> "y"]>>}

-----------------------------------------------------------------------------
Kinds == {"connector", "value", "report", "remap", "progress", "record", "owners", "ids", "dry run", "plan", "manifest", "scope", "exact",
          "merge", "flow plan", "verified", "planned", "generated", "billing", "read back", "coverage", "pages",
          "closure", "layout", "install", "repository", "range", "project", "catalog", "settings", "files", "cloud", "hosted", "code", "storage"}
Init == sample \in [kind : {"none"}, of : Kinds] /\ StorageInit

PickOne ==
    \/ Picking("connector") /\ \E c \in OneRole \cup BothRoles : Pick("connector", c)
    \/ Picking("value") /\ \E v \in Values : Pick("value", v)
    \/ Picking("report") /\ \E r \in Reports, w \in Writings : Pick("report", [report |-> r, written |-> w])
    \/ Picking("remap") /\ \E r \in Remaps : Pick("remap", r)
    \/ Picking("progress") /\ \E c \in ProgressCases : Pick("progress", c)
    \/ Picking("record") /\ \E r \in RecordsOf, f \in FieldLists : Pick("record", [record |-> r, fields |-> f])
    \/ Picking("owners") /\ \E c \in OwnerCases : Pick("owners", c)
    \/ Picking("ids") /\ \E c \in IdCases : Pick("ids", c)
    \/ Picking("dry run") /\ \E r \in SampledRoutes, q \in {x \in SampledRoutes : Len(x.pages) = 1}, full \in BOOLEAN, cap \in 1 .. 2 :
          Pick("dry run", [routes |-> <<r, q>>, full |-> full, cap |-> cap])
    \/ Picking("plan") /\ \E c \in Matched : Pick("plan", c)
    \/ Picking("manifest") /\ \E c, e \in Manifests : Pick("manifest", [current |-> c, expected |-> e])
    \/ Picking("scope") /\ \E r \in Requests, m \in Marked, c \in Sources : Pick("scope", [requested |-> r, saved |-> m, source |-> c])
    \/ Picking("exact") /\ \E c \in Exact, o \in Few, r \in {{}, {{}}, {{RouteA}}} :
          Pick("exact", [candidates |-> c, others |-> o, requested |-> r])
    \/ Picking("merge") /\ \E p, q, r \in Configurations : Pick("merge", <<p, q, r>>)
    \/ Picking("flow plan") /\ \E s \in Sides("a", "b"), t \in Sides("b", "a") :
          \/ Pick("flow plan", Together(s, t))
          \/ s.owned = <<>> /\ t.owned = <<>> /\ Pick("flow plan", [Together(s, t) EXCEPT !.found = {"resource"}])
    \/ Picking("verified") /\ \E b \in Verified : Pick("verified", b)
    \/ Picking("planned") /\ \E b \in PlannedOnes : Pick("planned", b)
    \/ Picking("generated") /\ \E v \in {"v1", "v3", "v4", "v5"} : \E c \in CapabilitiesOf({v}), r \in RequestsOf({v}), a \in Answers :
          Pick("generated", [capability |-> c, request |-> r, answer |-> a])
    \/ Picking("billing") /\ \E s \in BillingScenarios : Pick("billing", s)
    \/ Picking("read back") /\ \E s \in BillingScenarios, n \in 0 .. 2, k \in Keys, kind \in {"orders", "invoices"}, id \in Keys \X {0, 5} :
          n <= Len(s.deliveries) /\ Pick("read back", [scenario |-> s, result |-> Exchanged(s, n, k, kind, id)])
    \/ Picking("coverage") /\ \E c \in Coverages : Pick("coverage", c)
    \/ Picking("pages") /\ \E p, q \in Paged : Pick("pages", <<p, q>>)
    \/ Picking("closure") /\ \E c \in Closures : Pick("closure", c)
    \/ Picking("layout") /\ \E w \in Layouts : Pick("layout", w)
    \/ Picking("install") /\ \E c \in InstallCases : Pick("install", c)
    \/ Picking("repository") /\ \E f \in SourceFiles("m"), g \in SourceFiles("q"), p \in UpTo(1, Matchers), q \in MatcherLists :
          Pick("repository", [files |-> {f, g}, manifest |-> [E1 EXCEPT !.all = p, !.any = q]])
    \/ Picking("range") /\ \E c, d \in Clauses, u, v, w \in Versions : Pick("range", <<{c, d}, u, v, w>>)
    \/ Picking("project") /\ \E c \in Projects : Pick("project", c)
    \/ Picking("catalog") /\ \E c \in Catalogs : Pick("catalog", c)
    \/ Picking("files") /\ \E a \in FirstCommands, b \in SecondCommands, c \in ThirdCommands, d \in LastCommands :
          Pick("files", <<a, b, c, d>>)
    \/ Picking("cloud") /\ \E c \in CloudCases : Pick("cloud", c)
    \/ Picking("hosted") /\ \E command \in HostedCommands : \E c \in AmissIn(InOrder(command)) :
          \E d \in {c} \cup AmissIn(c) : Pick("hosted", d)
    \/ Picking("code") /\ \E command \in {"init", "push"}, d \in CodeDirectories : Pick("code", CodeCase(command, d, <<>>))
    \/ Picking("code") /\ \E d \in SmallDirectories, m \in DistinctMembers, f, b \in BOOLEAN :
          \/ f /\ b /\ Pick("code", CodeCase("diff", d, m))
          \/ Pick("code", [CodeCase("pull", d, m) EXCEPT !.force = f, !.declared = IF b THEN @ ELSE <<Code!BundleIn(<<>>)>>])
    \/ Picking("code") /\ \E command \in CodeCommands : \E c \in AnyService(command) : Pick("code", c)
    \/ Picking("settings") /\ \E d \in Declarations, k \in Kept, g \in Given, r \in Replies :
          Pick("settings", [declared |-> d, saved |-> k, explicit |-> g, asked |-> r[1], answers |-> r[2]])

\* The private file is a system of its own: its calls run instead of a pick.
Next ==
    \/ PickOne /\ UNCHANGED storageVars
    \/ Picking("storage") /\ StorageNext /\ UNCHANGED sample
Spec == Init /\ [][Next]_<<sample, storageVars>>

(* Encodings: a proxy has its connector's methods and the host accepts      *)
(* them, and every value that may be sent arrives as it was; a report that  *)
(* is read and written back is whole, what an execution writes is read      *)
(* again, moved state is kept and progress is the ledger's.                 *)
EncodingsFaithful ==
    /\ Is("connector") => Connector!Faithful(sample.input.connectors, sample.input.role)
    /\ Is("value") => Connector!ArrivesWhole(sample.input)
    /\ Is("report") => /\ Report!RoundTrip(sample.input.report)
                       /\ Report!WritesSurvive(sample.input.report, sample.input.written)
    /\ Is("remap") => Report!RemapKeeps(sample.input.manifest, sample.input.saved)
    /\ Is("progress") => LET c == sample.input IN
         Report!ProgressHonest(c.routes, CountedOf(c), LedgerOf(c), c.totals, c.completed, "running", c.stalled)

(* Mappings: the dry run predicts the write, owners and referenced ids are  *)
(* unambiguous, and the verdicts add up.                                    *)
MappingFaithful ==
    /\ Is("record") => /\ Mapping!DryRunPredicts(sample.input.record, sample.input.fields)
                       /\ Mapping!WrittenWhole(sample.input.record, sample.input.fields)
    /\ Is("owners") => Mapping!OwnersSafe(sample.input.properties, sample.input.fields, {"a@", "f@"}, OwnersIn(sample.input))
    /\ Is("ids") => Mapping!IdsUnambiguous(sample.input.ids, sample.input.own, sample.input.shared)
    /\ Is("dry run") => Mapping!VerdictsAddUp(sample.input.routes, sample.input.full, sample.input.cap)

(* Plans and scopes: fields are matched one to one, every object is         *)
(* accounted for, and an approval binds exactly what was reviewed.          *)
PlanningFaithful ==
    /\ Is("plan") => /\ Planning!MatchedOneToOne(sample.input.sources, sample.input.destinations)
                     /\ Planning!PlanAccounts(sample.input.sources, sample.input.destinations, [T |-> "d", U |-> "u"])
    /\ Is("manifest") => Planning!ManifestBinds(sample.input.current, sample.input.expected)
    /\ Is("scope") => Planning!ScopeFrozen(Reviewed, sample.input.requested, sample.input.saved, sample.input.source)
    /\ Is("exact") => Planning!ExactBinds(Reviewed, sample.input.candidates, sample.input.others, sample.input.requested)

(* What is planned is what is written.                                      *)
MigrationFaithful == MappingFaithful /\ PlanningFaithful

(* Flow: merges keep what a user changed, and an accepted plan is safe.     *)
FlowFaithful ==
    /\ Is("merge") => Reconciliation!MergeKeepsEdits(sample.input[1], sample.input[2], sample.input[3], Paths)
    /\ Is("flow plan") => Reconciliation!PlanSafe(sample.input)
    /\ Is("verified") => Blueprints!VerificationTells(sample.input, "w")
    /\ Is("planned") => Blueprints!BuildsInOrder(sample.input)
    /\ Is("generated") => Generation!GenerationBound(sample.input.capability, sample.input.request, sample.input.answer)
    /\ Is("billing") => Billing!CasesTell(sample.input)
    /\ Is("coverage") => Billing!CoverageSuffices([interval |-> 1], sample.input)
    /\ Is("pages") => Billing!PagesWhole(SomeOf("complete"), sample.input)
    /\ Is("read back") => Billing!BilledOnce(sample.input.scenario, sample.input.result)

(* The cloud commands change only what was asked, reviewed and confirmed.   *)
CloudFaithful ==
    /\ Is("cloud") => Cloud!CloudSafe(sample.input)
    /\ Is("hosted") => Hosted!RunsSafe(sample.input)
    /\ Is("code") => Code!FunctionsSafe(sample.input)

(* Extensions: what is installed is complete and starts one way, what is    *)
(* recommended is what is shown and locked, and settings settle.            *)
ExtensionsFaithful ==
    /\ Is("closure") => Wheels!ClosureComplete(sample.input)
    /\ Is("layout") => Wheels!LaidOutWhole(sample.input)
    /\ Is("install") => Wheels!StartsOneWay(sample.input.wheels, sample.input.manifest)
    /\ Is("repository") => Catalog!RecommendedByTheTree(sample.input.files, "out", sample.input.manifest)
    /\ Is("range") => Catalog!RangesHaveNoGap(sample.input[1], sample.input[2], sample.input[3], sample.input[4])
    /\ Is("project") => Catalog!RecommendedHonestly(sample.input)
    /\ Is("catalog") => Catalog!OneManifestEach(sample.input)
    /\ Is("files") =>
         LET states == State!StatesOf(sample.input) IN
         /\ State!WrittenIsReadable(states) /\ State!TrustStays(states)
         /\ State!ResolvedStays(states, sample.input, <<"v", "t">>)
    /\ Is("settings") => LET c == sample.input IN
         Settings!SettingsSettle(c.declared, c.saved, c.explicit, c.asked, c.answers)
=============================================================================

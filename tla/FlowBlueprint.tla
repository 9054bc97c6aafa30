---------------------------- MODULE FlowBlueprint ----------------------------
(***************************************************************************)
(* What a portable Blueprint must say before it is admitted: references    *)
(* that resolve, resources that can be built in an order, and scenarios    *)
(* that assert everything the workflow creates.  Then the evaluation of    *)
(* one scenario against what the target's own executor did.                *)
(*                                                                         *)
(* Shapes the SDK's decoding refuses (another node layout, a name that is  *)
(* no identifier, a duplicate id) are no values of this module.            *)
(***************************************************************************)
EXTENDS FlowReconciliation

-----------------------------------------------------------------------------
(* References: [kind, key, parent, related, scope, binding], "none" for a   *)
(* parent or a related object that is not there.                            *)

ReferenceShaped(r) ==
    /\ r.scope = "source" => r.binding = "existing"
    /\ (r.kind = "object") = (r.parent = "none")
    /\ (r.kind = "relationship") = (r.related # "none")

ExactKey(r) == <<r.scope, r.kind, r.parent, r.binding, r.key>>
ReferencesIndexed(refs) ==
    /\ \A i \in DOMAIN refs : ReferenceShaped(refs[i])
    /\ \A i, j \in DOMAIN refs : ExactKey(refs[i]) = ExactKey(refs[j]) => i = j
    /\ \A i \in DOMAIN refs : \A o \in {refs[i].parent, refs[i].related} \ {"none"} :
          o \in DOMAIN refs /\ refs[o].kind = "object" /\ refs[o].scope = refs[i].scope

Resolves(refs, id, kind) == id \in DOMAIN refs /\ refs[id].kind = kind /\ refs[id].scope = "target"
ResolvesUnder(refs, id, kind, parent) == Resolves(refs, id, kind) /\ refs[id].parent = parent

-----------------------------------------------------------------------------
(* A workflow graph: a trigger, at most one equality condition, one action  *)
(* that creates a record.  A binding is a literal, the event's record, one  *)
(* of its fields before or after, or an exact reference.                    *)

Literal(v) == [kind |-> "literal", value |-> v]
EventRecord == [kind |-> "event_record"]
EventField(f, phase) == [kind |-> "event_field", field |-> f, phase |-> phase]
ExactRecord(r) == [kind |-> "reference", reference |-> r]

Operands(g) == {g.condition[i] : i \in DOMAIN g.condition}
FieldBindings(g) == {g.fields[f] : f \in DOMAIN g.fields}
LinkBindings(g) == {g.associations[a].record : a \in DOMAIN g.associations}

GraphShaped(g) ==
    /\ (g.operation = "record.created") = (g.changed = {})
    /\ g.operation = "record.created" \/ g.condition = <<>> => g.version = "v2"
    /\ g.fields # <<>>
    /\ \A b \in LinkBindings(g) : b.kind \in {"event_record", "reference"}

BindingResolves(b, refs, object) ==
    /\ b.kind = "event_field" => ResolvesUnder(refs, b.field, "property", object)
    /\ b.kind = "reference" => Resolves(refs, b.reference, "record")
LinkResolves(relationship, b, refs, from, object) ==
    /\ ResolvesUnder(refs, relationship, "relationship", from)
    /\ BindingResolves(b, refs, object)
    /\ refs[relationship].related = IF b.kind = "event_record" THEN object ELSE refs[b.reference].parent

GraphResolves(g, refs) ==
    /\ Resolves(refs, g.object, "object") /\ Resolves(refs, g.creates, "object")
    /\ \A f \in g.changed : ResolvesUnder(refs, f, "property", g.object)
    /\ g.operation = "record.created" =>
          \A b \in Operands(g) \cup FieldBindings(g) : b.kind = "event_field" => b.phase # "before"
    /\ \A b \in Operands(g) \cup FieldBindings(g) : BindingResolves(b, refs, g.object)
    /\ \A f \in DOMAIN g.fields : ResolvesUnder(refs, f, "property", g.creates)
    /\ \A a \in DOMAIN g.associations : LinkResolves(a, g.associations[a].record, refs, g.creates, g.object)

\* _graph_references, and what they belong to or relate to.
BindingReferences(bindings) ==
    {b.field : b \in {x \in bindings : x.kind = "event_field"}}
    \cup {b.reference : b \in {x \in bindings : x.kind = "reference"}}
GraphReferences(g) ==
    {g.object, g.creates} \cup g.changed \cup DOMAIN g.fields \cup DOMAIN g.associations
    \cup BindingReferences(Operands(g) \cup FieldBindings(g) \cup LinkBindings(g))
UsedBy(resource) ==
    CASE resource.kind = "workflow" -> GraphReferences(resource.graph)
      [] resource.kind = "property" -> {resource.of}
      [] OTHER -> {}
WithOwners(refs, used) ==
    (used \cup {refs[r].parent : r \in used} \cup {refs[r].related : r \in used}) \ {"none"}

-----------------------------------------------------------------------------
(* Scenarios: [case, required, events, fields, associations]; an event is   *)
(* [operation, record, before, after].                                      *)

ScenarioShaped(s) ==
    /\ s.events # <<>>
    /\ \A i \in DOMAIN s.events : s.events[i].operation = "record.created" => s.events[i].before = <<>>
    /\ IF s.case = "retry" THEN Len(s.events) >= 2 /\ \A i \in DOMAIN s.events : s.events[i] = s.events[1]
       ELSE Len(s.events) = 1
    /\ s.case = "no_match" => s.fields = <<>> /\ s.associations = <<>>
ExpectedCount(s) == IF s.case = "no_match" THEN 0 ELSE 1

\* _validate_scenario: the events have what will be evaluated, and a match asserts
\* every field and every association the action creates.
Evaluated(g, s) ==
    Operands(g) \cup IF s.case = "no_match" THEN {} ELSE FieldBindings(g) \cup {s.fields[f] : f \in DOMAIN s.fields}
EventSupplies(g, s, e) ==
    /\ s.case # "no_match" => e.operation = g.operation
    /\ ~(s.case = "no_match" /\ g.condition = <<>> /\ g.operation = "record.created" /\ e.operation = g.operation)
    /\ e.operation = g.operation =>
          /\ g.changed \subseteq DOMAIN e.before \cap DOMAIN e.after
          /\ \A b \in Evaluated(g, s) : b.kind = "event_field" => b.field \in DOMAIN e[b.phase]
AssertsAll(g, s) == s.case # "no_match" => DOMAIN s.fields = DOMAIN g.fields /\ DOMAIN s.associations = DOMAIN g.associations
ScenarioValid(g, s, refs) ==
    /\ \A i \in DOMAIN s.events :
          /\ EventSupplies(g, s, s.events[i])
          /\ \A f \in DOMAIN s.events[i].before \cup DOMAIN s.events[i].after : ResolvesUnder(refs, f, "property", g.object)
    /\ AssertsAll(g, s)
    /\ \A f \in DOMAIN s.fields : ResolvesUnder(refs, f, "property", g.creates) /\ BindingResolves(s.fields[f], refs, g.object)
    /\ \A a \in DOMAIN s.associations : LinkResolves(a, s.associations[a].record, refs, g.creates, g.object)

-----------------------------------------------------------------------------
(* A Blueprint: [version, origin, resources, references, mappings,          *)
(* scenarios, unsupported], scenarios tagged with their workflow.           *)

Dependencies(b) ==
    /\ \A k \in DOMAIN b.resources : b.resources[k].deps \subseteq DOMAIN b.resources \ {k}
    /\ ~Cyclic(b.resources)

\* A planned reference names a resource of its kind; nothing existing belongs to a planned object.
Planned(b, r) == b.references[r].binding = "resource"
PlannedResolve(b) ==
    \A r \in DOMAIN b.references :
        LET ref == b.references[r] IN
        IF Planned(b, r)
        THEN /\ ref.key \in DOMAIN b.resources /\ b.resources[ref.key].kind = ref.kind
             /\ ref.kind = "property" => b.resources[ref.key].of = ref.parent
        ELSE ref.parent # "none" => ~Planned(b, ref.parent)

MappedTo(b, s) == {m.target : m \in {x \in b.mappings : x.source = s}}
MappingsValid(b) ==
    /\ \A m, n \in b.mappings : m.source = n.source \/ m.target = n.target => m = n
    /\ \A m \in b.mappings :
          /\ m.source \in DOMAIN b.references /\ m.target \in DOMAIN b.references
          /\ LET from == b.references[m.source]  to == b.references[m.target] IN
                /\ from.scope = "source" /\ to.scope = "target" /\ from.kind = to.kind
                /\ from.parent # "none" => MappedTo(b, from.parent) = {to.parent}
                /\ from.related # "none" => MappedTo(b, from.related) = {to.related}
    /\ b.origin = "template" => b.mappings = {} /\ \A r \in DOMAIN b.references : b.references[r].scope = "target"

DependsOnUsed(b, k) ==
    \A r \in WithOwners(b.references, UsedBy(b.resources[k])) :
        Planned(b, r) => b.references[r].key \in b.resources[k].deps
ResourceValid(b, k) ==
    LET resource == b.resources[k] IN
    /\ resource.kind = "workflow" =>
          GraphShaped(resource.graph) /\ resource.graph.version = b.version /\ GraphResolves(resource.graph, b.references)
    /\ resource.kind = "property" => Resolves(b.references, resource.of, "object")
    /\ DependsOnUsed(b, k)

Workflows(b) == {k \in DOMAIN b.resources : b.resources[k].kind = "workflow"}
Cases(b, k) == {s.case : s \in {x \in b.scenarios : x.workflow = k /\ x.required}}
Covered(b) == b.unsupported \/ \A k \in Workflows(b) : Cases(b, k) = {"no_match", "match", "retry"}
ScenariosValid(b) ==
    \A s \in b.scenarios :
        /\ ScenarioShaped(s) /\ s.workflow \in Workflows(b)
        /\ b.version = "v1" => \A i \in DOMAIN s.events : s.events[i].operation = "record.updated"
        /\ ScenarioValid(b.resources[s.workflow].graph, s, b.references)

Admitted(b) ==
    /\ Dependencies(b) /\ ReferencesIndexed(b.references) /\ PlannedResolve(b) /\ MappingsValid(b)
    /\ \A k \in DOMAIN b.resources : ResourceValid(b, k)
    /\ ScenariosValid(b) /\ Covered(b)

(* BuildsInOrder: whatever an admitted Blueprint's resource uses, with the  *)
(* objects that belong to it, exists or was constructed by the time the     *)
(* planner's order reaches the resource (blueprint.py:301, planner.py:21).  *)
BuildsInOrder(b) ==
    Admitted(b) =>
        LET order == Order(b.resources) IN
        \A i \in DOMAIN order :
            \A r \in WithOwners(b.references, UsedBy(b.resources[order[i]])) :
                b.references[r].binding = "existing" \/ \E j \in 1 .. i - 1 : order[j] = b.references[r].key

-----------------------------------------------------------------------------
(* evaluate_scenario.  A result: the input it answers, isolated, outcome,   *)
(* bindings of event records to native ones, the events delivered and the   *)
(* records created, [id, object, fields, associations].                     *)

ValueOf(b, e, refs, bindings) ==
    CASE b.kind = "literal" -> b.value
      [] b.kind = "event_record" -> bindings[e.record]
      [] b.kind = "event_field" /\ b.field \in DOMAIN e[b.phase] -> e[b.phase][b.field]
      [] b.kind = "reference" /\ refs[b.reference].kind = "record" /\ refs[b.reference].binding = "existing" -> refs[b.reference].key
      [] OTHER -> "unbound"

EventRecords(s) == {s.events[i].record : i \in DOMAIN s.events}
ResultRefused(s, result) ==
    \/ result.answers # s.case \/ ~result.isolated \/ result.outcome \notin {"passed", "failed", "skipped"}
    \/ DOMAIN result.bindings # EventRecords(s)
    \/ \E q, r \in DOMAIN result.bindings : q # r /\ result.bindings[q] = result.bindings[r]

AsExpected(g, s, refs, result) ==
    LET expected(b) == ValueOf(b, s.events[1], refs, result.bindings)
        records == result.created
        fieldsMatch(record) ==
            \A f \in DOMAIN s.fields : f \in DOMAIN record.fields /\ record.fields[f] = expected(s.fields[f])
        linksMatch(record) ==
            \A a \in DOMAIN s.associations :
                IF a \in DOMAIN record.associations THEN record.associations[a] = <<expected(s.associations[a].record)>>
                ELSE ~s.associations[a].required
    IN /\ result.delivered = s.events
       /\ Len(records) = ExpectedCount(s) /\ \A i, j \in DOMAIN records : records[i].id = records[j].id => i = j
       /\ \A i \in DOMAIN records :
             records[i].object = g.creates /\ fieldsMatch(records[i]) /\ linksMatch(records[i])
Evaluate(g, s, refs, result) ==
    IF ResultRefused(s, result) THEN "refused"
    ELSE IF result.outcome = "passed" /\ AsExpected(g, s, refs, result) THEN "passed" ELSE "failed"

\* required_scenarios: the runtime's own coverage check before it runs any of them.
RequiredScenarios(b) ==
    IF \A k \in Workflows(b) : {"no_match", "match", "retry"} \subseteq Cases(b, k)
    THEN {s \in b.scenarios : s.required} ELSE {}

(* The target's executor as a verification run uses it, right or with one   *)
(* fault of its own.                                                        *)
Fires(g, e, refs, bindings) ==
    /\ e.operation = g.operation
    /\ g.operation = "record.updated" => \E f \in g.changed : e.before[f] # e.after[f]
    /\ g.condition # <<>> => ValueOf(g.condition[1], e, refs, bindings) = ValueOf(g.condition[2], e, refs, bindings)
Faults == {"none", "fires always", "never fires", "creates again", "drops a delivery", "another object",
           "misses a field", "another value", "misses a link", "another link", "a second link"}
Created(fault, g, e, refs, bindings, id) ==
    LET value(b) == ValueOf(b, e, refs, bindings)
        one == CHOOSE f \in DOMAIN g.fields : TRUE
        links == IF fault = "misses a link" THEN {} ELSE DOMAIN g.associations
        right(a) == value(g.associations[a].record)
    IN [id |-> id, object |-> IF fault = "another object" THEN "other" ELSE g.creates,
        fields |-> [f \in IF fault = "misses a field" THEN DOMAIN g.fields \ {one} ELSE DOMAIN g.fields |->
                       IF fault = "another value" /\ f = one THEN "other" ELSE value(g.fields[f])],
        associations |-> [a \in links |-> CASE fault = "another link" -> <<"other">>
                                            [] fault = "a second link" -> <<right(a), "other">>
                                            [] OTHER -> <<right(a)>>]]
Executed(fault, g, s, refs) ==
    LET bindings == [r \in EventRecords(s) |-> "native"]
        fires == fault # "never fires" /\ (fault = "fires always" \/ Fires(g, s.events[1], refs, bindings))
        times == IF ~fires THEN 0 ELSE IF fault = "creates again" THEN Len(s.events) ELSE 1
    IN [answers |-> s.case, isolated |-> TRUE, outcome |-> "passed", bindings |-> bindings,
        delivered |-> IF fault = "drops a delivery" THEN Tail(s.events) ELSE s.events,
        created |-> [i \in 1 .. times |-> Created(fault, g, s.events[1], refs, bindings, i)]]

\* A fault an optional association forgives is none.
IsFault(fault, g) ==
    CASE fault = "none" -> FALSE
      [] fault = "misses a link" -> \E a \in DOMAIN g.associations : g.associations[a].required
      [] fault \in {"another link", "a second link"} -> g.associations # <<>>
      [] OTHER -> TRUE
\* The reviewer's expectations are the action's own, and the events do what their case says.
Honest(g, s, refs) ==
    /\ (s.case # "no_match") = Fires(g, s.events[1], refs, [r \in EventRecords(s) |-> "native"])
    /\ \A f \in DOMAIN s.fields \cap DOMAIN g.fields : s.fields[f] = g.fields[f]
    /\ \A a \in DOMAIN s.associations \cap DOMAIN g.associations : s.associations[a] = g.associations[a]

(* VerificationTells: for an admitted workflow with honest scenarios, the   *)
(* required scenarios all pass if and only if the executor has no fault:    *)
(* none is missed between what admission asks and what the evaluation       *)
(* compares (blueprint.py:428, verification.py:15-164).                     *)
VerificationTells(b, k) ==
    LET g == b.resources[k].graph
        required == RequiredScenarios(b)
        passes(fault) == \A s \in required : Evaluate(g, s, b.references, Executed(fault, g, s, b.references)) = "passed"
    IN Admitted(b) /\ (\A s \in b.scenarios : Honest(g, s, b.references)) =>
          required # {} /\ \A fault \in Faults : passes(fault) = ~IsFault(fault, g)
=============================================================================

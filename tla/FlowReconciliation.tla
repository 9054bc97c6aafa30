------------------------- MODULE FlowReconciliation -------------------------
(***************************************************************************)
(* How a Flow plan is made: the three-way merge of one owned resource's    *)
(* configuration, and the operations planned for a Blueprint over an       *)
(* installation and one observation of its target.                         *)
(*                                                                         *)
(* A JSON value is an atom (a list counts as one) or an object, a function *)
(* of its fields; Missing is a field that is not there.                    *)
(***************************************************************************)
EXTENDS Naturals, Sequences, FiniteSets, SequencesExt

Missing == [missing |-> TRUE]
Atom(v) == [atom |-> v]
Object(fields) == [fields |-> fields]
IsObject(v) == "fields" \in DOMAIN v
Field(v, k) == IF k \in DOMAIN v.fields THEN v.fields[k] ELSE Missing

-----------------------------------------------------------------------------
(* merge_configuration: previous is what the installation wanted, current   *)
(* what the target has now, desired what the Blueprint wants.               *)

Quiet(value) == [value |-> value, conflicts |-> {}, preserved |-> {}]
Preserving(now, path) == [value |-> now, conflicts |-> {}, preserved |-> {path}]
Overwriting(now, new, path) == [value |-> new, conflicts |-> {}, preserved |-> {}] \* MUTANT
Conflicting(now, new, path) == [value |-> now, conflicts |-> {path}, preserved |-> {}]

RECURSIVE Merge(_, _, _, _)
MergeFields(old, now, new, path) ==
    LET keys == DOMAIN old.fields \cup DOMAIN now.fields \cup DOMAIN new.fields
        merged == [k \in keys |-> Merge(Field(old, k), Field(now, k), Field(new, k), Append(path, k))]
    IN [value |-> Object([k \in {j \in keys : merged[j].value # Missing} |-> merged[k].value]),
        conflicts |-> UNION {merged[k].conflicts : k \in keys},
        preserved |-> UNION {merged[k].preserved : k \in keys}]
Merge(old, now, new, path) ==
    IF now = new THEN Quiet(now)
    ELSE IF old = now THEN Quiet(new)
    ELSE IF old = new /\ ~(IsObject(old) /\ IsObject(now)) THEN Preserving(now, path)
    ELSE IF IsObject(old) /\ IsObject(now) /\ IsObject(new) THEN MergeFields(old, now, new, path)
    ELSE Conflicting(now, new, path)
MergeConfiguration(previous, current, desired) == MergeFields(previous, current, desired, <<>>)

\* The value at a path, and whether a merge left the path to a reviewer.
RECURSIVE At(_, _)
At(v, path) == IF path = <<>> THEN v ELSE IF IsObject(v) THEN At(Field(v, Head(path)), Tail(path)) ELSE Missing
Disputed(merged, path) == \E c \in merged.conflicts : IsPrefix(c, path)

(* MergeKeepsEdits: at every path, an edit of the user alone stays, a wish  *)
(* of the Blueprint alone is taken, both at once is a conflict which leaves *)
(* what is there; and a merge without conflicts, once it is applied, merges *)
(* to itself again (merge.py:53, planned again in planner.py:116).          *)
MergeKeepsEdits(previous, current, desired, paths) ==
    LET merged == MergeConfiguration(previous, current, desired)
        again == MergeConfiguration(desired, merged.value, desired)
    IN /\ \A p \in paths :
            LET old == At(previous, p)  now == At(current, p)  new == At(desired, p)
                nested == IsObject(old) /\ IsObject(now) /\ IsObject(new)
            IN IF Disputed(merged, p) THEN At(merged.value, p) = now
               ELSE nested \/ /\ old = now \/ old = new \/ now = new
                              /\ At(merged.value, p) = IF old = now THEN new ELSE now
       /\ merged.conflicts = {} => again.value = merged.value /\ again.conflicts = {}

-----------------------------------------------------------------------------
(* plan_reconstruction.  A case c has the resources the Blueprint desires   *)
(* (id to spec, kind and deps), the ones the installation owns (id to       *)
(* target, kind, desired and deps), the observed targets (target to kind,   *)
(* configuration and active), the removals asked for, the kinds the target  *)
(* supports and the blockers found beforehand, the observation's and what   *)
(* the Blueprint itself says is unsupported.                                *)

\* _order: whatever depends on nothing that is pending comes next.
RECURSIVE Layered(_, _)
Layered(deps, pending) ==
    LET ready == {k \in pending : deps[k] \cap pending = {}} IN
    IF ready = {} THEN <<>> ELSE SetToSeq(ready) \o Layered(deps, pending \ ready)
DepsOf(resources) == [k \in DOMAIN resources |-> resources[k].deps]
Order(resources) == Layered(DepsOf(resources), DOMAIN resources)
Cyclic(resources) == Len(Order(resources)) < Cardinality(DOMAIN resources)

OmittedOf(c) == [k \in DOMAIN c.owned \ DOMAIN c.desired |-> c.owned[k]]

Refused(c) ==
    \/ \E k \in DOMAIN c.desired : ~(c.desired[k].deps \subseteq DOMAIN c.desired)
    \/ \E j, k \in DOMAIN c.owned : j # k /\ c.owned[j].target = c.owned[k].target
    \/ ~(c.remove \subseteq DOMAIN OmittedOf(c))
    \/ Cyclic(c.desired) \/ Cyclic(OmittedOf(c))

TargetOf(c, k) == IF k \in DOMAIN c.owned THEN c.owned[k].target ELSE "none"
Present(c, k) == TargetOf(c, k) \in DOMAIN c.observed
Now(c, k) == c.observed[TargetOf(c, k)]
Blocked(code, condition) == IF condition THEN {code} ELSE {}

\* A desired resource is created, or merged into what its owner has at the target.
KindKept(c, k) == c.owned[k].kind = c.desired[k].kind /\ Now(c, k).kind = c.owned[k].kind
Merged(c, k) == MergeConfiguration(c.owned[k].desired, Now(c, k).configuration, c.desired[k].spec)
DesiredOperation(c, k) ==
    LET wanted == c.desired[k]
        mergeable == Present(c, k) /\ KindKept(c, k)
        differs == mergeable /\ Merged(c, k).value # Now(c, k).configuration
    IN [id |-> k, kind |-> wanted.kind, target |-> TargetOf(c, k), deps |-> wanted.deps, desired |-> wanted.spec,
        configuration |-> IF mergeable THEN Merged(c, k).value ELSE wanted.spec,
        action |-> IF k \notin DOMAIN c.owned THEN "create" ELSE IF differs THEN "update" ELSE "preserve",
        blockers |->
            Blocked("UNSUPPORTED", wanted.kind \notin c.supported)
            \cup Blocked("OWNED_MISSING", k \in DOMAIN c.owned /\ ~Present(c, k))
            \cup Blocked("KIND_CHANGED", Present(c, k) /\ ~KindKept(c, k))
            \cup Blocked("FIELD_CONFLICT", mergeable /\ Merged(c, k).conflicts # {})
            \cup Blocked("ACTIVE_REPLACEMENT", differs /\ Now(c, k).active)]

\* An omitted resource stays, unless its removal is asked for and nothing stands against it.
Dependents(c, k) ==
    {j \in (DOMAIN c.owned \cup DOMAIN c.desired) \ c.remove :
        k \in IF j \in DOMAIN c.desired THEN c.desired[j].deps ELSE c.owned[j].deps}
InUse(c, k) == Dependents(c, k) # {}
Edited(c, k) == Now(c, k).configuration # c.owned[k].desired
OmittedOperation(c, k) ==
    LET owner == c.owned[k]
        deleting == k \in c.remove
    IN [id |-> k, kind |-> owner.kind, target |-> owner.target, deps |-> owner.deps, desired |-> owner.desired,
        configuration |-> IF Present(c, k) THEN Now(c, k).configuration ELSE Missing,
        action |-> IF deleting THEN "remove" ELSE "preserve",
        blockers |->
            Blocked("IN_USE", deleting /\ InUse(c, k))
            \cup Blocked("ACTIVE_REMOVAL", deleting /\ Present(c, k) /\ Now(c, k).active)
            \cup Blocked("USER_EDITS", deleting /\ Present(c, k) /\ Edited(c, k))
            \cup Blocked("OWNED_MISSING", ~deleting /\ ~Present(c, k))]

OperationsOf(c) ==
    [i \in 1 .. Cardinality(DOMAIN c.desired) |-> DesiredOperation(c, Order(c.desired)[i])]
    \o [i \in 1 .. Cardinality(DOMAIN OmittedOf(c)) |-> OmittedOperation(c, Reverse(Order(OmittedOf(c)))[i])]

\* validate_effective_blueprint: what native verification is given describes the
\* configuration the operations will leave, and nothing else of the artifact changes.
\* Without a separate artifact, a native Blueprint is held against itself.
Effective(c, operations, specs) ==
    /\ DOMAIN specs = DOMAIN c.desired
    /\ \A i \in DOMAIN operations :
          operations[i].id \in DOMAIN specs => specs[operations[i].id] = operations[i].configuration
SelfEffective(c, operations) == Effective(c, operations, [k \in DOMAIN c.desired |-> c.desired[k].spec])

Plan(c) == IF Refused(c) THEN [refused |-> TRUE] ELSE [operations |-> OperationsOf(c)]
Accepted(c, plan) ==
    /\ "operations" \in DOMAIN plan /\ c.found = {}
    /\ \A i \in DOMAIN plan.operations : plan.operations[i].blockers = {}
    /\ c.native => SelfEffective(c, plan.operations)

\* What an installation and its target are once every operation was performed.
Left(plan) == {i \in DOMAIN plan.operations : plan.operations[i].action # "remove"}
After(c, plan) ==
    LET op(k) == plan.operations[CHOOSE i \in Left(plan) : plan.operations[i].id = k]
        at(k) == IF op(k).target = "none" THEN "new " \o k ELSE op(k).target
        ids == {plan.operations[i].id : i \in Left(plan)}
        removed == {plan.operations[i].target : i \in DOMAIN plan.operations \ Left(plan)}
        untouched == DOMAIN c.observed \ ({at(k) : k \in ids} \cup removed)
    IN [c EXCEPT !.remove = {},
                 !.owned = [k \in ids |-> [target |-> at(k), kind |-> op(k).kind, desired |-> op(k).desired, deps |-> op(k).deps]],
                 !.observed = [t \in untouched \cup {at(k) : k \in ids} |->
                     IF t \in untouched THEN c.observed[t]
                     ELSE LET k == CHOOSE j \in ids : at(j) = t IN
                          [kind |-> op(k).kind, configuration |-> op(k).configuration,
                           active |-> t \in DOMAIN c.observed /\ c.observed[t].active]]]

Before(plan, j, k) ==
    \E m, n \in DOMAIN plan.operations : m < n /\ plan.operations[m].id = j /\ plan.operations[n].id = k

(* PlanSafe: an accepted plan has one operation for each resource, builds a *)
(* dependency before and removes it after what needs it, removes nothing    *)
(* that was edited, is active or is still needed by what will be left, and  *)
(* leaves alone what is active or not the installation's; planning again    *)
(* once it was performed only preserves (planner.py:33-205).  That a value  *)
(* only the user changed stays is what MergeKeepsEdits says.                *)
PlanSafe(c) ==
    LET plan == Plan(c)
        after == After(c, plan)
        again == Plan(after)
    IN Accepted(c, plan) =>
         /\ Cardinality({plan.operations[i].id : i \in DOMAIN plan.operations}) = Len(plan.operations)
         /\ {plan.operations[i].id : i \in DOMAIN plan.operations} = DOMAIN c.desired \cup DOMAIN c.owned
         /\ \A k \in DOMAIN c.desired : \A d \in c.desired[k].deps : Before(plan, d, k)
         /\ \A k \in c.remove : \A d \in c.remove \cap c.owned[k].deps : Before(plan, k, d)
         /\ \A k \in c.remove : Present(c, k) => ~Now(c, k).active /\ Now(c, k).configuration = c.owned[k].desired
         /\ \A k \in DOMAIN after.owned : after.owned[k].deps \cap c.remove = {}
         /\ \A t \in DOMAIN c.observed :
               (\A k \in DOMAIN c.owned : c.owned[k].target # t) => after.observed[t] = c.observed[t]
         /\ \A t \in DOMAIN c.observed : c.observed[t].active => after.observed[t] = c.observed[t]
         /\ Accepted([after EXCEPT !.native = FALSE], again)
         /\ \A i \in DOMAIN again.operations : again.operations[i].action = "preserve"
=============================================================================

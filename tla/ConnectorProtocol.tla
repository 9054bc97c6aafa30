------------------------- MODULE ConnectorProtocol -------------------------
(***************************************************************************)
(* What crosses the pipe between a client and its connector host: how a    *)
(* host describes a connector, which methods the client's proxy then has,  *)
(* which calls the host accepts, and how a value is encoded and decoded.   *)
(*                                                                         *)
(* A connector is the set of its methods: the protocols are structural,    *)
(* so what an object supports is what it has.                              *)
(***************************************************************************)
EXTENDS Naturals, Sequences, FiniteSets, SequencesExt

CONSTANTS
    WireFields,         \* the fields of each dataclass that may cross the pipe
    Constructs(_, _),   \* what the constructor of a dataclass takes for its fields
    OrderedType         \* the type an atom is ordered by

RoleNames == {"source", "destination"}

\* The methods of DataReader and DataWriter.
BaseMethods(role) ==
    IF role = "source" THEN {"discover_objects", "inventory", "read_records"}
    ELSE {"automatic_target_object", "inventory", "write_record", "write_relationship"}

\* The optional protocols and the methods each asks for.
Capability ==
    [SupportsIdentityInspection |-> {"inspect"},
     SupportsConfigValidation |-> {"validate"},
     SupportsLimits |-> {"limits"},
     SupportsRecordCounts |-> {"count_records"},
     SupportsHighWaterMark |-> {"high_water_mark"},
     SupportsBoundedReads |-> {"read_records_bounded"},
     SupportsBoundedCounts |-> {"count_records_bounded"},
     SupportsOwnerDirectory |-> {"list_owners"},
     SupportsBatchWrites |-> {"write_records"},
     SupportsBatchRelationshipWrites |-> {"write_relationships"},
     SupportsPropertyProvisioning |-> {"reconcile_properties"},
     SupportsResourceProvisioning |-> {"reconcile_resources"},
     SupportsRetryMetrics |-> {"retry_metrics"},
     SupportsSnapshotBounds |-> {"high_water_mark", "read_records_bounded", "count_records_bounded"},
     SupportsSchemaProvisioning |-> {"reconcile_properties", "reconcile_resources"}]
Capabilities == DOMAIN Capability
Composite == {"SupportsSnapshotBounds", "SupportsSchemaProvisioning"}

-----------------------------------------------------------------------------
(* The host.                                                                *)

SourceOperations == {"discover_objects", "read_records", "count_records", "high_water_mark",
                     "read_records_bounded", "count_records_bounded"}
DestinationOperations == {"automatic_target_object", "write_record", "write_relationship",
                          "write_records", "write_relationships", "reconcile_properties",
                          "reconcile_resources"}
CommonOperations == {"inventory", "inspect", "validate", "limits", "list_owners", "retry_metrics"}
OperationsOf(role) ==
    CommonOperations \cup IF role = "source" THEN SourceOperations ELSE DestinationOperations
Operations == SourceOperations \cup DestinationOperations \cup CommonOperations

Supported(methods) == {name \in Capabilities : Capability[name] \subseteq methods}

\* A registration maps the roles it has to connectors.  _describe refuses one whose
\* connector lacks its role's base methods.
WellFormed(registration) ==
    \A role \in DOMAIN registration : BaseMethods(role) \subseteq registration[role]

Describe(registration) == [role \in DOMAIN registration |-> Supported(registration[role])]

\* invoke_registration: the connector of the role asked for, or of the role the
\* operation belongs to.
RoleOf(role, operation) ==
    IF role # "none" THEN role
    ELSE IF operation \in SourceOperations THEN "source"
    ELSE IF operation \in DestinationOperations THEN "destination" ELSE "none"

Required(operation) ==
    UNION {Capability[name] : name \in {n \in Capabilities \ Composite : operation \in Capability[n]}}

AcceptsCall(registration, role, operation) ==
    LET actual == RoleOf(role, operation) IN
    /\ actual \in DOMAIN registration
    /\ operation \in OperationsOf(actual)
    /\ Required(operation) \subseteq registration[actual]

-----------------------------------------------------------------------------
(* The client.                                                              *)

CommonCapabilities == {"SupportsIdentityInspection", "SupportsConfigValidation", "SupportsLimits",
                       "SupportsOwnerDirectory", "SupportsRetryMetrics"}
RoleCapabilities(role) ==
    CommonCapabilities \cup
      IF role = "source"
      THEN {"SupportsRecordCounts", "SupportsHighWaterMark", "SupportsBoundedReads",
            "SupportsBoundedCounts", "SupportsSnapshotBounds"}
      ELSE {"SupportsBatchWrites", "SupportsBatchRelationshipWrites", "SupportsPropertyProvisioning",
            "SupportsResourceProvisioning", "SupportsSchemaProvisioning"}

ValidDescription(description, role) ==
    /\ role \in DOMAIN description
    /\ \A other \in DOMAIN description : description[other] \subseteq RoleCapabilities(other)

\* The methods of a proxy: its role's base and a mixin for every advertised
\* capability that has one.
RemoteBase(role) ==
    IF role = "source" THEN {"discover_objects", "inventory", "read_records"}
    ELSE {"automatic_target_object", "inventory", "write_record", "write_relationship"}
CommonMixins ==
    [SupportsIdentityInspection |-> {"inspect"}, SupportsConfigValidation |-> {"validate"},
     SupportsLimits |-> {"limits"}]
OwnerMixin == [SupportsOwnerDirectory |-> {"list_owners"}]
RetryMixin == [SupportsRetryMetrics |-> {"retry_metrics"}]
SourceMixins ==
    [SupportsRecordCounts |-> {"count_records"}, SupportsHighWaterMark |-> {"high_water_mark"},
     SupportsBoundedReads |-> {"read_records_bounded"},
     SupportsBoundedCounts |-> {"count_records_bounded"}]
DestinationMixins ==
    [SupportsBatchWrites |-> {"write_records"},
     SupportsBatchRelationshipWrites |-> {"write_relationships"},
     SupportsPropertyProvisioning |-> {"reconcile_properties"},
     SupportsResourceProvisioning |-> {"reconcile_resources"}]
Mixins == CommonMixins @@ OwnerMixin @@ RetryMixin @@ SourceMixins @@ DestinationMixins
ProxyMethods(description, role) ==
    RemoteBase(role) \cup UNION {Mixins[name] : name \in description[role] \cap DOMAIN Mixins}

-----------------------------------------------------------------------------
(* Values.  A value is tagged with its Python type: an "atom", a "list" or  *)
(* "tuple" of values, a "set" or "frozenset" of atoms, a "dict" from names  *)
(* to values, or an object of a dataclass with its fields.  What is sent is *)
(* JSON: atoms, lists and dicts.                                            *)

Marker == "__sanka_wire__"
Atom(a) == [type |-> "atom", value |-> a]
ListOf(items) == [type |-> "list", value |-> items]
Dict(entries) == [type |-> "dict", value |-> entries]
Refusal == [type |-> "refused", value |-> <<>>]

\* A value is refused with any part of it.
Whole(value, parts) == IF Refusal \in parts THEN Refusal ELSE value

Tagged(kind, content) == Dict([key \in {Marker} \cup DOMAIN content |->
                                 IF key = Marker THEN Atom(kind) ELSE content[key]])

\* A dict that holds the marker itself is sent as pairs, so that it is not taken for
\* an object.
PlainDict(entries) == Dict(entries) \* MUTANT
EncodedDict(entries) ==
    IF Marker \notin DOMAIN entries THEN Dict(entries)
    ELSE LET names == SetToSeq(DOMAIN entries) IN
         Tagged("mapping", [items |-> ListOf([i \in DOMAIN names |->
                                         ListOf(<<Atom(names[i]), entries[names[i]]>>)])])

\* sorted(value): the members of a set must share one ordered type.
Sortable(members) == \A a, b \in members : OrderedType[a] = OrderedType[b]

RECURSIVE Encode(_)
Encode(v) ==
    CASE v.type = "atom" -> v
      [] v.type \in {"list", "tuple"} ->
           LET items == [i \in DOMAIN v.value |-> Encode(v.value[i])] IN
           Whole(ListOf(items), Range(items))
      [] v.type \in {"set", "frozenset"} /\ Sortable(v.value) ->
           LET items == SetToSeq(v.value) IN
           Tagged("set", [items |-> ListOf([i \in DOMAIN items |-> Atom(items[i])])])
      [] v.type = "dict" \/ v.type \in DOMAIN WireFields ->
           LET entries == [k \in DOMAIN v.value |-> Encode(v.value[k])] IN
           Whole(IF v.type = "dict" THEN EncodedDict(entries)
                 ELSE Tagged("dataclass", [name |-> Atom(v.type), fields |-> Dict(entries)]),
                 Range(entries))
      [] OTHER -> Refusal

\* The items of a "mapping": pairs of a name and a value, no name twice.
PairsOf(items) ==
    /\ items.type = "list"
    /\ \A i \in DOMAIN items.value :
         /\ items.value[i].type = "list" /\ Len(items.value[i].value) = 2
         /\ items.value[i].value[1].type = "atom"
    /\ \A i, j \in DOMAIN items.value :
         items.value[i].value[1] = items.value[j].value[1] => i = j

RECURSIVE Decode(_)
Decode(j) ==
    LET parts == j.value
        marked == j.type = "dict" /\ Marker \in DOMAIN parts
        Is(kind, keys) == marked /\ parts[Marker] = Atom(kind) /\ DOMAIN parts = {Marker} \cup keys
        Each(entries) == [k \in DOMAIN entries |-> Decode(entries[k])]
    IN CASE j.type = "atom" -> j
         [] j.type = "list" -> Whole(ListOf(Each(parts)), Range(Each(parts)))
         [] j.type = "dict" /\ (~marked \/ parts[Marker] = Atom("null")) ->
              Whole(Dict(Each(parts)), Range(Each(parts)))
         [] Is("mapping", {"items"}) /\ PairsOf(parts.items) ->
              LET pairs == parts.items.value
                  Pair(k) == CHOOSE i \in DOMAIN pairs : pairs[i].value[1].value = k
                  entries == [k \in {pairs[i].value[1].value : i \in DOMAIN pairs} |->
                                Decode(pairs[Pair(k)].value[2])]
              IN Whole(Dict(entries), Range(entries))
         [] Is("set", {"items"}) /\ parts.items.type = "list"
              /\ \A i \in DOMAIN parts.items.value : parts.items.value[i].type = "atom" ->
              [type |-> "set", value |-> {item.value : item \in Range(parts.items.value)}]
         [] Is("dataclass", {"name", "fields"}) /\ parts.fields.type = "dict"
              /\ parts.name.value \in DOMAIN WireFields
              /\ DOMAIN parts.fields.value = WireFields[parts.name.value] ->
              LET fields == Each(parts.fields.value) IN
              IF Constructs(parts.name.value, fields)
              THEN Whole([type |-> parts.name.value, value |-> fields], Range(fields)) ELSE Refusal
         [] OTHER -> Refusal

-----------------------------------------------------------------------------
(* What the two sides promise each other.                                   *)

\* What a value is after a trip: JSON has no tuples and no frozen sets.
RECURSIVE Arrives(_)
Arrives(v) ==
    CASE v.type = "atom" -> v
      [] v.type \in {"list", "tuple"} -> ListOf([i \in DOMAIN v.value |-> Arrives(v.value[i])])
      [] v.type \in {"set", "frozenset"} -> [v EXCEPT !.type = "set"]
      [] OTHER -> [v EXCEPT !.value = [k \in DOMAIN v.value |-> Arrives(v.value[k])]]

\* What may be sent: a value no part of which is a set without an order.
RECURSIVE Sendable(_)
Sendable(v) ==
    CASE v.type = "atom" -> TRUE
      [] v.type \in {"set", "frozenset"} -> Sortable(v.value)
      [] OTHER -> \A k \in DOMAIN v.value : Sendable(v.value[k])

(* A value that may be sent arrives as it was, whatever names its dicts     *)
(* have, the marker of the encoding among them, and any other is refused by *)
(* its sender, never sent in part (connector_host.py:135-228; the client    *)
(* encodes requests and decodes answers with the same two functions).       *)
ArrivesWhole(v) == IF Sendable(v) THEN Decode(Encode(v)) = Arrives(v) ELSE Encode(v) = Refusal

(* A proxy is as good as its connector: when the client accepts what a host *)
(* describes, the proxy of a role has exactly the role's methods that the   *)
(* connector has, and the host accepts a call of each of them, although     *)
(* both sides keep tables of their own (connector_host.py:231-284,          *)
(* connector_client.py:610-650).                                            *)
Faithful(registration, role) ==
    LET description == Describe(registration)
        methods == ProxyMethods(description, role)
    IN WellFormed(registration) /\ ValidDescription(description, role) =>
         /\ methods = registration[role] \cap OperationsOf(role)
         /\ \A operation \in methods : AcceptsCall(registration, role, operation)
=============================================================================

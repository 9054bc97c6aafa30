--------------------------- MODULE RecordMapping ---------------------------
(***************************************************************************)
(* What a reviewed mapping makes of one source record: the properties of   *)
(* its destination record, the references it needs, the owners it names,   *)
(* and the verdict the dry run gives on it beforehand.                     *)
(*                                                                         *)
(* A value is a member of a small set that tells apart what the code does: *)
(* "none" (missing or null), "blank" (a blank string), "text", "digits",   *)
(* "number", "flag", "time" (a transformed value), "one" and "two" (a list *)
(* of one or two record ids), or what a value map puts in its place.  A    *)
(* "text" is one word: a host name, and neither a number nor a date.       *)
(***************************************************************************)
EXTENDS Naturals, Sequences, FiniteSets, SequencesExt, FiniteSetsExt

-----------------------------------------------------------------------------
(* Fields.                                                                  *)

Linked == {"reference", "relationship"}
Text == {"blank", "text", "digits", "json"}     \* the values that are strings

\* The checks of a field at its construction, as far as a run tells them apart.
FieldAccepted(f) ==
    /\ f.omitsEmpty => f.kind = "scalar"
    /\ f.valueMap # {} => f.kind = "scalar"
    /\ \A d, e \in f.valueMap : d.when = e.when => d = e

Failed(code) == [fails |-> code]
Fails(outcome) == "fails" \in DOMAIN outcome
Gives(value) == [value |-> value]
Omits == [omitted |-> TRUE]

\* apply_transform on a value that is there.
Transform(value, rule) ==
    CASE rule = "none" -> Gives(value)
      [] rule \in {"trim", "date_parse", "normalize_email"} -> Gives(IF value \in Text THEN value ELSE "text")
      [] rule = "number_parse" -> IF value \in {"digits", "number"} THEN Gives("number")
                                  ELSE Failed("VALUE_INVALID")
      [] rule = "boolean_map" -> Gives("flag")
      [] rule = "normalize_domain" -> IF value \in {"text", "digits"} THEN Gives(value)
                                      ELSE IF value \in {"number", "flag", "time"} THEN Gives("text")
                                      ELSE Failed("VALUE_INVALID")
      [] rule \in {"datetime_ms", "date_ms"} -> IF value \in {"digits", "number", "time"} THEN Gives("time")
                                 ELSE Failed("VALUE_INVALID")
      [] rule = "json_stringify" -> Gives(IF value \in Text THEN value ELSE "json")
      [] OTHER -> Failed("TRANSFORM_UNSUPPORTED")

\* _apply_value_map: exactly one predicate of the map decides, or the policy does.
Matches(record, f) == {e \in f.valueMap : \A k \in DOMAIN e.when : record[k] = e.when[k]}
MapValue(record, f, value) ==
    LET found == Matches(record, f) IN
    IF Cardinality(found) = 1 THEN Gives((CHOOSE e \in found : TRUE).value)
    ELSE IF Cardinality(found) > 1 THEN Failed("VALUE_MAP_AMBIGUOUS")
    ELSE CASE f.unmapped = "preserve" -> Gives(value)
           [] f.unmapped = "omit" -> Omits
           [] OTHER -> Failed("VALUE_MAP_UNMATCHED")

\* A missing value, or a blank one the field omits, is left out or, when required, refused.
LeftOut(f) == IF f.required THEN Failed("REQUIRED_FIELD_EMPTY") ELSE Omits
Missing(f, value) == value = "none" \/ (f.omitsEmpty /\ value = "blank")

\* One field of destination_properties.
Projected(record, f) ==
    IF Missing(f, record[f.source]) THEN LeftOut(f)
    ELSE LET transformed == Transform(record[f.source], f.rule) IN
         IF Fails(transformed) THEN transformed
         ELSE LET mapped == IF f.valueMap = {} THEN transformed
                            ELSE MapValue(record, f, transformed.value)
              IN IF "value" \in DOMAIN mapped /\ f.omitsEmpty /\ mapped.value = "blank"
                 THEN LeftOut(f) ELSE mapped

Put(properties, target, value) ==
    [t \in DOMAIN properties \cup {target} |-> IF t = target THEN value ELSE properties[t]]

\* destination_properties: the fields in their order, up to the first that fails.
Properties(record, fields) ==
    FoldLeft(LAMBDA done, f :
               IF Fails(done) \/ f.kind \in Linked THEN done
               ELSE LET outcome == Projected(record, f) IN
                    IF Fails(outcome) THEN outcome
                    ELSE IF "value" \in DOMAIN outcome THEN Gives(Put(done.value, f.target, outcome.value))
                    ELSE done,
             Gives(<<>>), fields)

-----------------------------------------------------------------------------
(* References.                                                              *)

\* relationship_source_ids
SourceIds(value) ==
    CASE value \in {"none", "blank"} -> {}
      [] value = "two" -> {"id1", "id2"}
      [] OTHER -> {"id1"}

\* resolve_destination_record_ids: the run's own ledger, then the one shared with
\* compatible runs, where a second candidate of any id stops everything.
ResolveIds(ids, own, shared) ==
    LET missing == ids \ DOMAIN own IN
    IF \E i \in missing \cap DOMAIN shared : Cardinality(shared[i]) > 1 THEN Failed("TARGET_AMBIGUOUS")
    ELSE Gives([i \in (ids \cap DOMAIN own) \cup {i \in missing \cap DOMAIN shared : shared[i] # {}} |->
                  IF i \in DOMAIN own THEN own[i] ELSE CHOOSE d \in shared[i] : TRUE])

\* The checks a reference passes before it is looked up; a dry run makes them too.
ReferenceFault(record, f) ==
    LET ids == SourceIds(record[f.source]) IN
    CASE ids = {} /\ f.required -> Failed("REQUIRED_REFERENCE_EMPTY")
      [] Cardinality(ids) > 1 -> Failed("REFERENCE_AMBIGUOUS")
      [] OTHER -> Omits

Referenced(record, f, resolved) ==
    LET ids == SourceIds(record[f.source])
        fault == ReferenceFault(record, f)
    IN IF Fails(fault) \/ ids = {} THEN fault
       ELSE LET id == CHOOSE i \in ids : TRUE IN
            IF id \in DOMAIN resolved THEN Gives(resolved[id]) ELSE Failed("REFERENCE_PENDING")

-----------------------------------------------------------------------------
(* Owners.  A directory is a set of profiles [id, email, active].           *)

OwnersOf(directory, email) == {p \in directory : p.email = email /\ email # ""}

\* OwnerDirectory.resolve without its fallback: the one active owner of the address.
OneActive(owners) == Cardinality(owners) = 1 /\ \A p \in owners : p.active
Lookup(directory, email, otherwise) ==
    LET owners == OwnersOf(directory, email) IN
    CASE OneActive(owners) -> Gives((CHOOSE p \in owners : p.active).id)
      [] Cardinality(owners) > 1 -> Failed("OWNER_DUPLICATE")
      [] owners # {} -> Failed("OWNER_INACTIVE")
      [] OTHER -> otherwise

ResolveOwner(directory, email, policy, fallback) ==
    Lookup(directory, email,
           CASE policy = "leave_empty" -> Omits
             [] policy = "fallback" /\ fallback = "" -> Failed("FALLBACK_REQUIRED")
             [] policy = "fallback" /\ fallback # email -> Lookup(directory, fallback, Failed("OWNER_NOT_FOUND"))
             [] OTHER -> Failed("OWNER_NOT_FOUND"))

\* email_for_id: an id of the source is read as the address of its active owner.
EmailOf(sources, value) ==
    LET mine == {p \in sources : p.id = value /\ p.active} IN
    IF mine = {} THEN "" ELSE (CHOOSE p \in mine : TRUE).email

\* map_owner_properties; the values of owner fields are addresses or source ids.
MapOwners(properties, fields, addresses, owners) ==
    FoldLeft(LAMBDA done, f :
               IF Fails(done) \/ f.kind # "owner" THEN done
               ELSE LET value == IF f.target \in DOMAIN done.value THEN done.value[f.target] ELSE ""
                        email == IF value \in addresses THEN value ELSE EmailOf(owners.source, value)
                        id == ResolveOwner(owners.destination, email, owners.policy, owners.fallback)
                    IN IF Fails(id) THEN id
                       ELSE IF "value" \in DOMAIN id THEN Gives(Put(done.value, f.target, id.value))
                       ELSE Gives([t \in DOMAIN done.value \ {f.target} |-> done.value[t]]),
             Gives(properties), fields)

-----------------------------------------------------------------------------
(* The record that is written, and the verdict of the dry run on it.        *)

OnlyReferences(fields) == SelectSeq(fields, LAMBDA f : f.kind = "reference")

\* _destination_payload without owners.
Payload(record, fields, resolved) ==
    LET scalars == Properties(record, fields)
        whole == FoldLeft(LAMBDA done, f :
                    IF Fails(done) THEN done
                    ELSE LET target == Referenced(record, f, resolved) IN
                         IF Fails(target) THEN target
                         ELSE IF "value" \in DOMAIN target THEN Gives(Put(done.value, f.target, target.value))
                         ELSE done,
                  scalars, OnlyReferences(fields))
    IN IF Fails(whole) THEN whole
       ELSE IF DOMAIN whole.value = {} THEN Failed("EMPTY_RECORD") ELSE whole

\* _validate_record, given that the record has an identity.
ReferencesChecked(record, fields) ==
    LET faults == SelectSeq(OnlyReferences(fields), LAMBDA f : Fails(ReferenceFault(record, f))) IN
    IF faults = <<>> THEN Gives(<<>>) ELSE ReferenceFault(record, faults[1])
Validate(record, fields) ==
    LET scalars == Properties(record, fields) IN
    IF Fails(scalars) THEN scalars
    ELSE IF Fails(ReferencesChecked(record, fields)) THEN ReferencesChecked(record, fields)
    ELSE IF DOMAIN scalars.value = {} THEN Failed("EMPTY_RECORD") ELSE scalars

-----------------------------------------------------------------------------
(* The dry run over pages of records, each given as the verdict on it.      *)

\* Which pages are read: the first, or with `full` all while the source offers a cursor.
PagesRead(pages, full, frozenEmpty) ==
    IF frozenEmpty \/ pages = <<>> THEN <<>>
    ELSE LET ends == {i \in DOMAIN pages : ~full \/ ~pages[i].hasMore \/ ~pages[i].hasCursor} IN
         SubSeq(pages, 1, IF ends = {} THEN Len(pages) ELSE Min(ends))

NoVerdicts == [sampled |-> 0, valid |-> 0, invalid |-> 0, reasons |-> <<>>, rejects |-> <<>>, truncated |-> FALSE]
Counted(row, verdict, maxRejects) ==
    IF verdict = "valid" THEN [row EXCEPT !.sampled = @ + 1, !.valid = @ + 1]
    ELSE [row EXCEPT !.sampled = @ + 1, !.invalid = @ + 1,
                     !.reasons = Put(@, verdict, IF verdict \in DOMAIN @ THEN @[verdict] + 1 ELSE 1),
                     !.rejects = IF Len(@) < maxRejects THEN Append(@, verdict) ELSE @,
                     !.truncated = @ \/ Len(row.rejects) >= maxRejects]

\* One route; the rejects and their cap go on from route to route.
ValidateRoute(carried, pages, full, frozenEmpty, maxRejects) ==
    FoldLeft(LAMBDA row, verdict : Counted(row, verdict, maxRejects),
             [NoVerdicts EXCEPT !.rejects = carried.rejects, !.truncated = carried.truncated],
             FlattenSeq([i \in DOMAIN PagesRead(pages, full, frozenEmpty) |-> pages[i].verdicts]))
ValidateRoutes(routes, full, maxRejects) ==
    LET rows == FoldLeft(LAMBDA done, r :
                   Append(done, ValidateRoute(IF done = <<>> THEN NoVerdicts ELSE done[Len(done)],
                                              r.pages, full, r.frozenEmpty, maxRejects)),
                 <<>>, routes)
    IN rows

-----------------------------------------------------------------------------
(* A record the dry run accepts is written as it was validated once its     *)
(* references resolve, and one it refuses could not have been written       *)
(* either, save for a record that consists of references only.              *)
DryRunPredicts(record, fields) ==
    LET everything == [i \in {"id1", "id2"} |-> "dest"]
        verdict == Validate(record, fields)
        written == Payload(record, fields, everything)
        scalars == Properties(record, fields)
    IN /\ ~Fails(verdict) => /\ ~Fails(written)
                             /\ \A t \in DOMAIN verdict.value : written.value[t] \in {verdict.value[t], "dest"}
       /\ Fails(written) => verdict = written
       /\ Fails(verdict) /\ ~Fails(written) => verdict = Failed("EMPTY_RECORD") /\ DOMAIN scalars.value = {}

(* A record is never written with an empty value its mapping omits or with  *)
(* one of its required fields missing, and with a reference missing it is   *)
(* refused as pending: no link is silently dropped.                         *)
WrittenWhole(record, fields) ==
    LET written == Payload(record, fields, <<>>)
        resolved == Payload(record, fields, [i \in {"id1", "id2"} |-> "dest"])
    IN ~Fails(resolved) =>
          /\ \A i \in DOMAIN fields : fields[i].required /\ fields[i].kind # "relationship"
                /\ ~(fields[i].unmapped = "omit" /\ fields[i].valueMap # {})
                => fields[i].target \in DOMAIN resolved.value
          /\ \A i \in DOMAIN fields : fields[i].omitsEmpty /\ fields[i].target \in DOMAIN resolved.value
                /\ (\A j \in DOMAIN fields : fields[j].target = fields[i].target => j = i)
                => resolved.value[fields[i].target] # "blank"
          /\ (\E i \in DOMAIN fields : fields[i].kind = "reference" /\ SourceIds(record[fields[i].source]) # {})
                => written = Failed("REFERENCE_PENDING")

(* An id that is used is one the ledgers give: the run's own goes before    *)
(* the shared one, and two shared candidates are never chosen between.      *)
IdsUnambiguous(ids, own, shared) ==
    LET result == ResolveIds(ids, own, shared) IN
    ~Fails(result) => \A i \in DOMAIN result.value :
        IF i \in DOMAIN own THEN result.value[i] = own[i] ELSE shared[i] = {result.value[i]}

(* Every owner a record ends with is active and the only one of its         *)
(* address, whatever the policy, and comes from the record's own address or *)
(* the reviewed fallback; a property is left out only under leave_empty.    *)
OwnersSafe(properties, fields, addresses, owners) ==
    LET result == MapOwners(properties, fields, addresses, owners) IN
    ~Fails(result) => \A i \in DOMAIN fields : fields[i].kind = "owner" =>
        LET t == fields[i].target IN
        IF t \in DOMAIN result.value
        THEN \E p \in owners.destination :
                /\ p.id = result.value[t] /\ p.active
                /\ \A q \in owners.destination : q.email = p.email => q = p
                /\ owners.policy # "fallback" => t \in DOMAIN properties
                     /\ p.email \in {properties[t], EmailOf(owners.source, properties[t])}
        ELSE owners.policy = "leave_empty"

(* Each record of the pages read counts once, each rejection under one      *)
(* reason; the rejects are the first ones, and they are said to be          *)
(* truncated exactly when some were left out.                               *)
VerdictsAddUp(routes, full, maxRejects) ==
    LET rows == ValidateRoutes(routes, full, maxRejects)
        invalid == FoldLeft(LAMBDA n, row : n + row.invalid, 0, rows)
        last == rows[Len(rows)]
    IN /\ \A i \in DOMAIN rows :
            /\ rows[i].sampled = rows[i].valid + rows[i].invalid
            /\ FoldSet(LAMBDA k, n : n + rows[i].reasons[k], 0, DOMAIN rows[i].reasons) = rows[i].invalid
            /\ full /\ ~routes[i].frozenEmpty /\ (\A p \in DOMAIN routes[i].pages : routes[i].pages[p].hasMore = (p < Len(routes[i].pages)) /\ routes[i].pages[p].hasCursor)
                 => rows[i].sampled = FoldLeft(LAMBDA n, p : n + Len(p.verdicts), 0, routes[i].pages)
       /\ Len(last.rejects) = Min({invalid, maxRejects})
       /\ last.truncated = (invalid > maxRejects)
=============================================================================

-------------------------- MODULE ExtensionCatalog --------------------------
(***************************************************************************)
(* From the files of a repository to the extensions recommended for it:    *)
(* the evidence static discovery notes, the catalogs of the registered     *)
(* marketplaces with their manifests, the versions a manifest runs on, and *)
(* what a project has locked, installed and disabled.                      *)
(*                                                                         *)
(* A manifest stands for its digest.  A manifest as it is on disk ("raw")  *)
(* has the same fields, with the checks of single words (identifiers, URLs,*)
(* digests) given by the words that fail them.                             *)
(***************************************************************************)
EXTENDS Naturals, Sequences, FiniteSets, SequencesExt

CONSTANTS Ignored,      \* directories discovery does not enter
          Bad,          \* words that are no identifier, version, digest or URL
          Runtime       \* the version of the running command line

Kinds == {"migration", "connector", "flow"}
Languages == [py |-> "python", ts |-> "typescript"]

-----------------------------------------------------------------------------
(* Discovery.  Of a file's text only what it declares or imports is noted;  *)
(* a malformed metadata file ends discovery, an unreadable one is skipped.  *)

Considered(files, excluded) ==
    {f \in files : f.regular /\ f.under \notin Ignored \cup {excluded}}
Readable(f) == f.text = "utf8"
Declared(f) ==
    IF ~Readable(f) \/ f.metadata = "none" THEN {} ELSE f.dependencies
Imported(f) ==
    IF Readable(f) /\ f.suffix = "py" /\ f.parses THEN f.imports ELSE {}

Malformed(f) ==
    Readable(f) /\ f.metadata \in {"pyproject", "package"} /\ ~f.parses

Note(kind, value, f) == [kind |-> kind, value |-> value, path |-> f.path]
FrameworkFiles(considered) ==
    {f \in considered : "djangorestframework" \in Declared(f) \/ "rest_framework" \in Imported(f)}
NotedAll(considered) ==
    UNION {{Note("file", f.path, f)} \cup (IF f.suffix # "" THEN {Note("file_suffix", f.suffix, f)} ELSE {})
           \cup (IF f.suffix \in DOMAIN Languages THEN {Note("language", Languages[f.suffix], f)} ELSE {})
           \cup {Note("dependency", d, f) : d \in Declared(f)}
           \cup {Note("static_import", i, f) : i \in Imported(f)} : f \in considered}
Evidence(files, excluded) ==
    LET considered == Considered(files, excluded) IN
    NotedAll(considered) \cup {Note("framework", "django-rest-framework", f) : f \in FrameworkFiles(considered)}
Discoverable(files, excluded) == \A f \in Considered(files, excluded) : ~Malformed(f)

-----------------------------------------------------------------------------
(* Versions: three numbers, a stage and its number; a pre-release comes     *)
(* before its release. *)

Stage == [none |-> 3, a |-> 0, b |-> 1, rc |-> 2]
VersionKey(v) ==
    [i \in 1 .. 3 |-> IF i <= Len(v.release) THEN v.release[i] ELSE 0] \o <<Stage[v.pre], v.number>>
Less(u, v) == \E i \in 1 .. 5 : VersionKey(u)[i] < VersionKey(v)[i] /\ \A j \in 1 .. i - 1 : VersionKey(u)[j] = VersionKey(v)[j]
Same(u, v) == VersionKey(u) = VersionKey(v)

Admits(clause, v) ==
    CASE clause.op = "==" -> Same(v, clause.version)
      [] clause.op = ">=" -> ~Less(v, clause.version)
      [] clause.op = ">"  -> Less(clause.version, v)
      [] clause.op = "<=" -> ~Less(clause.version, v)
      [] clause.op = "<"  -> Less(v, clause.version)
Compatible(clauses, v) == \A c \in clauses : Admits(c, v)

-----------------------------------------------------------------------------
(* Manifests and catalogs. *)

Distinct(s) == \A i, j \in DOMAIN s : s[i] = s[j] => i = j
Words(s) == ToSet(s) \cap Bad = {}

RolesResolve(references) ==
    \A i \in DOMAIN references :
       LET role == references[i]
           Object(id) == \E j \in DOMAIN references : references[j].id = id /\ references[j].kind = "object"
       IN /\ role.id \notin Bad /\ role.kind \in {"object", "property", "relationship", "record"}
          /\ (role.parent = "none") <=> (role.kind = "object")
          /\ (role.related # "none") <=> (role.kind = "relationship")
          /\ \A id \in {role.parent, role.related} \ {"none"} : Object(id)
ValueTypes == {"string", "number", "boolean", "null"}

CapabilityLoads(c) ==
    /\ c.type \notin Bad /\ c.schema \in {"v1", "v2", "v3", "v4"}
    /\ c.template = c.type
    /\ Distinct([i \in DOMAIN c.references |-> c.references[i].id]) /\ RolesResolve(c.references)
    /\ Distinct([i \in DOMAIN c.values |-> c.values[i].id])
    /\ \A i \in DOMAIN c.values : c.values[i].types # {} /\ c.values[i].types \subseteq ValueTypes
FlowLoads(m) ==
    /\ m.commands = <<"blueprint">> /\ m.capabilities # <<>>
    /\ \A i \in DOMAIN m.capabilities : CapabilityLoads(m.capabilities[i])
    /\ Distinct([i \in DOMAIN m.capabilities |-> m.capabilities[i].type])

MigrationLoads(m) ==
    /\ m.commands # <<>> /\ Distinct(m.commands)
    /\ ToSet(m.commands) \subseteq {"scan", "plan", "apply", "test", "verify"}
    /\ m.targets # <<>> /\ Distinct(m.targets) /\ Words(m.targets)
    /\ m.all # <<>> \/ m.any # <<>>
    /\ Distinct(m.all) /\ Distinct(m.any)
    /\ \A matcher \in ToSet(m.all) \cup ToSet(m.any) : matcher.value \notin Bad

ConnectorLoads(m) ==
    /\ m.providers # <<>> /\ Distinct([i \in DOMAIN m.providers |-> m.providers[i].name])
    /\ \A p \in ToSet(m.providers) : p.name \notin Bad /\ p.roles # {} /\ p.roles \subseteq {"source", "destination"}
    /\ m.start \in {p.name : p \in ToSet(m.providers)}

WheelsLoad(m) ==
    /\ m.wheels # <<>> /\ Distinct([i \in DOMAIN m.wheels |-> m.wheels[i].name])
    /\ \A w \in ToSet(m.wheels) : w.url = w.name /\ {w.name, w.sha256} \cap Bad = {}
    /\ \E w \in ToSet(m.wheels) : w.distribution = m.distribution /\ w.version = m.version

Loads(m) ==
    /\ m.kind \in Kinds /\ m.protocol = m.kind
    /\ {m.id, m.distribution, m.start} \cap Bad = {}
    /\ m.distributionVersion = m.version
    /\ CASE m.kind = "migration" -> MigrationLoads(m)
         [] m.kind = "flow"      -> FlowLoads(m)
         [] m.kind = "connector" -> ConnectorLoads(m)
    /\ WheelsLoad(m)

\* A catalog: its entries name an identity and the manifest it is to be found in.
CatalogLoads(entries) ==
    /\ Distinct([i \in DOMAIN entries |-> entries[i].id])
    /\ \A i \in DOMAIN entries : entries[i].id = entries[i].manifest.id /\ Loads(entries[i].manifest)

-----------------------------------------------------------------------------
(* What is recommended.  A marketplace is [identity, snapshot, manifests],  *)
(* a lock [id, identity, snapshot, manifest, enabled], an installation      *)
(* [identity, snapshot, manifest].                                          *)

Found(evidence, matcher) == {e \in evidence : e.kind = matcher.kind /\ e.value = matcher.value}
Matched(evidence, m) ==
    /\ m.kind = "migration"
    /\ \A matcher \in ToSet(m.all) : Found(evidence, matcher) # {}
    /\ m.any = <<>> \/ \E matcher \in ToSet(m.any) : Found(evidence, matcher) # {}

Offers(c) ==
    FlattenSeq([i \in DOMAIN c.markets |->
        [k \in DOMAIN c.markets[i].manifests |->
            [identity |-> c.markets[i].identity, snapshot |-> c.markets[i].snapshot,
             manifest |-> c.markets[i].manifests[k], locked |-> FALSE]]])
LockOf(c, id) == {l \in c.locks : l.id = id}
Locked(l) == [identity |-> l.identity, snapshot |-> l.snapshot, manifest |-> l.manifest, locked |-> TRUE]

Scoped(c, offer) == {l \in LockOf(c, offer.manifest.id) : l.identity = offer.identity}
InPlace(c, offer) ==
    IF Scoped(c, offer) = {} THEN offer ELSE Locked(CHOOSE l \in Scoped(c, offer) : TRUE)
\* The catalogs with each locked extension as locked, then the locked ones that the
\* catalog of their marketplace has dropped.
Selected(c) ==
    LET offers == Offers(c)
        dropped == {l \in c.locks : /\ \E i \in DOMAIN c.markets : c.markets[i].identity = l.identity
                                    /\ \A i \in DOMAIN offers : l \notin Scoped(c, offers[i])}
    IN [i \in DOMAIN offers |-> InPlace(c, offers[i])] \o SetToSeq({Locked(l) : l \in dropped})

Recorded(c, s) == [identity |-> s.identity, snapshot |-> s.snapshot, manifest |-> s.manifest] \in c.installed
If(condition, word) == IF condition THEN {word} ELSE {}

\* list_extensions: the catalog's view, in which a disabled extension is neither
\* installed nor locked, and a lock shows only on what it locks.
Listed(c, offer) ==
    LET enabled == {l \in Scoped(c, offer) : l.enabled}
        exact == {l \in enabled : l.snapshot = offer.snapshot /\ l.manifest = offer.manifest}
    IN {"available"}
       \cup If(Recorded(c, offer) /\ offer.manifest.id \notin c.disabled, "installed")
       \cup If(exact # {}, "locked")
       \cup If(enabled # {} /\ exact = {}, "update_available")
       \cup If(~Compatible(offer.manifest.runtime, Runtime), "incompatible")
       \cup If(offer.manifest.id \in c.disabled, "disabled")

\* recommendations: the project's view.
Offered(c, s) == {o \in ToSet(Offers(c)) : o.identity = s.identity /\ o.manifest.id = s.manifest.id}
LockedStatus(c, s) ==
    {"available", "locked"}
    \cup If(Recorded(c, s), "installed")
    \cup If(\E o \in Offered(c, s) : o.manifest # s.manifest \/ o.snapshot # s.snapshot, "update_available")
    \cup If(~Compatible(s.manifest.runtime, Runtime), "incompatible")
    \cup If(s.manifest.id \in c.disabled \/ \E l \in LockOf(c, s.manifest.id) : ~l.enabled, "disabled")
Recommendations(c) ==
    LET matched == SelectSeq(Selected(c), LAMBDA s : Matched(c.evidence, s.manifest))
    IN [i \in DOMAIN matched |->
           [choice |-> matched[i], status |-> IF matched[i].locked THEN LockedStatus(c, matched[i]) ELSE Listed(c, matched[i])]]

\* What the Code lifecycle may run, and whether it does when the lock is resolved.
Enabled(recommendation) ==
    "locked" \in recommendation.status /\ recommendation.status \cap {"disabled", "incompatible"} = {}
SelectionVerified(c, recommendation) ==
    \E l \in LockOf(c, recommendation.choice.manifest.id) : Locked(l) = [recommendation.choice EXCEPT !.locked = TRUE]

-----------------------------------------------------------------------------
(* An extension is recommended on what the repository's considered files    *)
(* show, none of it in a directory that is ignored.                         *)
Shown(f, matcher) ==
    \/ matcher.kind = "file" /\ f.path = matcher.value
    \/ matcher.kind = "dependency" /\ matcher.value \in Declared(f)
    \/ matcher.kind = "framework" /\ ("djangorestframework" \in Declared(f) \/ "rest_framework" \in Imported(f))
RecommendedByTheTree(files, excluded, m) ==
    LET shows(matcher) == \E f \in Considered(files, excluded) : Shown(f, matcher) IN
    Matched(Evidence(files, excluded), m) <=>
      /\ \A i \in DOMAIN m.all : shows(m.all[i])
      /\ m.any # <<>> => \E i \in DOMAIN m.any : shows(m.any[i])

(* No extension is recommended twice from one marketplace, so at most one   *)
(* choice per identity is enabled and the lock it resolves to is the one    *)
(* shown; a lock is recommended as it is, though the catalog moved on or    *)
(* dropped it, with an update shown exactly when there is one; nothing is   *)
(* called installed that is not recorded as it is shown.                    *)
RecommendedHonestly(c) ==
    LET shown == Recommendations(c)
        choice(i) == shown[i].choice IN
    (\A i \in DOMAIN c.markets : Distinct([k \in DOMAIN c.markets[i].manifests |-> c.markets[i].manifests[k].id])) =>
      /\ \A i, j \in DOMAIN shown :
            choice(i).manifest.id = choice(j).manifest.id /\ choice(i).identity = choice(j).identity => i = j
      /\ \A i, j \in DOMAIN shown :
            Enabled(shown[i]) /\ Enabled(shown[j]) /\ choice(i).manifest.id = choice(j).manifest.id => i = j
      /\ \A i \in DOMAIN shown :
            /\ Enabled(shown[i]) => SelectionVerified(c, shown[i])
            /\ "installed" \in shown[i].status => Recorded(c, choice(i))
      /\ \A l \in c.locks :
            (\E k \in DOMAIN c.markets : c.markets[k].identity = l.identity) /\ Matched(c.evidence, l.manifest) =>
              \E i \in DOMAIN shown :
                 /\ choice(i) = Locked(l)
                 /\ ("update_available" \in shown[i].status) <=>
                      \E k \in DOMAIN c.markets : c.markets[k].identity = l.identity /\
                         \E n \in DOMAIN c.markets[k].manifests :
                            /\ c.markets[k].manifests[n].id = l.id
                            /\ <<c.markets[k].snapshot, c.markets[k].manifests[n]>> # <<l.snapshot, l.manifest>>

(* A loaded catalog gives every extension one manifest, and a Flow          *)
(* extension one capability for a type: a request cannot be for two.        *)
OneManifestEach(entries) ==
    CatalogLoads(entries) =>
      \A id \in {e.id : e \in ToSet(entries)} :
         /\ Cardinality({i \in DOMAIN entries : entries[i].manifest.id = id}) = 1
         /\ \A e \in ToSet(entries) : \A t \in {"process", "bill"} :
              Cardinality({k \in DOMAIN e.manifest.capabilities : e.manifest.capabilities[k].type = t}) <= 1

(* The versions a range admits have no gap. *)
RangesHaveNoGap(clauses, u, v, w) ==
    Less(u, v) /\ Less(v, w) /\ Compatible(clauses, u) /\ Compatible(clauses, w) => Compatible(clauses, v)
=============================================================================

--------------------------- MODULE ExtensionStore ---------------------------
(***************************************************************************)
(* The extension store: the commands and lifecycle dispatches of several   *)
(* processes over the files of one user (marketplaces.json,                *)
(* installations.json, disabled.json, snapshots, cached wheels and         *)
(* environments) and of each project (extensions.lock).  Files are written *)
(* one at a time, each atomically, under flock locks; a process may crash  *)
(* or a step fail between any two of them.  A dispatch holds its project's *)
(* lock shared while it resolves the pinned extension and runs it.         *)
(*                                                                         *)
(* An artifact is an extension at the version a snapshot's manifest gives  *)
(* it; two snapshots may carry the same artifact.  Digest, tree and wheel  *)
(* checks are modelled by what they compare: an environment is sealed      *)
(* while its bytes are those its wheels produce.                           *)
(***************************************************************************)
EXTENDS Integers, FiniteSets

CONSTANTS
    Procs, Projects,
    ProjectOf,       \* the project each process works in
    Extensions,
    System,          \* the system type a connector claims, NoSystem for a Code or Flow extension
    Order,           \* marketplace names (aliases of one trusted source), the first listed first
    Snapshots,       \* 1..n, the commits of the source, in order
    Version,         \* per extension and snapshot, the version of its manifest
    Incompatible,    \* artifacts this runtime does not run
    Shared,          \* a dependency wheel every artifact carries
    Default,         \* the extension added without being asked for
    Starts,          \* how the files may stand at first, see Init
    Pinned,          \* per project, what its committed lock pins at first
    MaxOperations,   \* bound on the commands and dispatches started
    MaxFaults        \* bound on the crashes, failed downloads or builds, and changes others make

ASSUME PinAssumption == Pinned \in [Projects -> SUBSET (Extensions \X Snapshots)]
ASSUME StartsAssumption == Starts \subseteq {"empty", "installed", "committed"}
ASSUME ProjectAssumption == ProjectOf \in [Procs -> Projects]
ASSUME SnapshotsAssumption == 1 \in Snapshots /\ Snapshots \subseteq Nat

VARIABLES
    flock,        \* per lock file: its exclusive holder and its shared holders
    configured,   \* marketplaces.json exists
    records,      \* its marketplaces: name and snapshot
    history,      \* its snapshot history
    placed,       \* the snapshot directories
    installations,
    disabled,
    environment,  \* per artifact: absent, sealed, altered or foreign
    wheels,       \* the cached wheels
    pins,         \* per project: its extensions.lock
    head,         \* the commit the marketplace source stands at
    process,      \* per process: what it is doing
    bounds        \* operations and faults so far

user == <<configured, records, history, placed, installations, disabled, environment, wheels>>
vars == <<flock, user, pins, head, process, bounds>>

NoProcess == "nobody"
NoSystem == "none"
Names == DOMAIN Order
Official == CHOOSE n \in Names : \A m \in Names : Order[n] <= Order[m]
Locks == {"marketplaces", "installations"} \cup Projects
Artifacts == {<<e, Version[e][s]>> : e \in Extensions, s \in Snapshots}
Entry == [id : Extensions, snapshot : Snapshots]
Artifact(entry) == <<entry.id, Version[entry.id][entry.snapshot]>>
NoEntry == [id |-> "none", snapshot |-> 0]

ASSUME NobodyAssumption == NoProcess \notin Procs
ASSUME OrderAssumption == \E n \in Names : \A m \in Names : Order[n] <= Order[m]

\* What is committed or installed at first was written by the store: a lock names an
\* extension once and claims a system once, and the first snapshot was installed from.
ASSUME PinnedAssumption ==
    \A j \in Projects : \A k, l \in Pinned[j] :
      k[1] = l[1] \/ System[k[1]] \in {System[l[1]]} \ {NoSystem} => k = l
ASSUME InstalledAssumption ==
    "installed" \in Starts => \A j \in Projects : \A k \in Pinned[j] :
      k[2] = 1 /\ <<k[1], Version[k[1]][1]>> \notin Incompatible

\* An artifact's own wheel and the dependency all of them share.
WheelsOf(artifact) == {artifact, Shared}

Idle == [pc |-> "idle", op |-> "none", id |-> "none", name |-> "none",
         entry |-> NoEntry]

Pins == [j \in Projects |-> {[id |-> k[1], snapshot |-> k[2]] : k \in Pinned[j]}]

\* Nothing yet; the pins with what they name installed; or, in a user directory that is
\* new, only the locks committed with the projects.
Init ==
    /\ flock = [l \in Locks |-> [exclusive |-> NoProcess, shared |-> {}]]
    /\ \E start \in Starts :
         /\ configured = (start = "installed")
         /\ pins = IF start = "empty" THEN [j \in Projects |-> {}] ELSE Pins
         /\ installations = IF configured THEN UNION {pins[j] : j \in Projects} ELSE {}
    /\ records = IF configured THEN {[name |-> Official, snapshot |-> 1]} ELSE {}
    /\ history = {r.snapshot : r \in records}
    /\ placed = history
    /\ disabled = {}
    /\ environment = [a \in Artifacts |->
         IF \E i \in installations : Artifact(i) = a THEN "sealed" ELSE "absent"]
    /\ wheels = UNION {WheelsOf(Artifact(i)) : i \in installations}
    /\ head = 1
    /\ process = [p \in Procs |-> Idle]
    /\ bounds = [operations |-> 0, faults |-> 0]

-----------------------------------------------------------------------------
(* Locks.  flock belongs to the opened file: an exclusive request waits for *)
(* every other opening of the file, those of the same process included.     *)

Project(p) == ProjectOf[p]

Take(p, lock, next) ==
    /\ flock[lock] = [exclusive |-> NoProcess, shared |-> {}]
    /\ flock' = [flock EXCEPT ![lock].exclusive = p]
    /\ process' = [process EXCEPT ![p].pc = next]

TakeNothing(p, lock, next) == \* MUTANT
    /\ flock[lock].exclusive = NoProcess
    /\ process' = [process EXCEPT ![p].pc = next]
    /\ flock' = flock
TakeShared(p, lock, next) ==
    /\ flock[lock].exclusive = NoProcess
    /\ flock' = [flock EXCEPT ![lock].shared = @ \cup {p}]
    /\ process' = [process EXCEPT ![p].pc = next]

\* Leaving the with-blocks, or the process: everything p held is free again.
Released(p) ==
    [l \in Locks |-> [exclusive |-> IF flock[l].exclusive = p THEN NoProcess ELSE flock[l].exclusive,
                      shared |-> flock[l].shared \ {p}]]

Return(p) ==
    /\ flock' = Released(p)
    /\ process' = [process EXCEPT ![p] = Idle]

Step(p, to) ==
    /\ process' = [process EXCEPT ![p].pc = to]
    /\ flock' = flock

\* The command ends with an error: what was written stays.
Refused(p) ==
    /\ Return(p)
    /\ UNCHANGED <<user, pins, head, bounds>>

Start(p, op, id, name, pc) ==
    /\ process[p].pc = "idle"
    /\ bounds.operations < MaxOperations
    /\ bounds' = [bounds EXCEPT !.operations = @ + 1]
    /\ process' = [process EXCEPT ![p] = [Idle EXCEPT !.op = op, !.id = id, !.name = name, !.pc = pc]]
    /\ UNCHANGED <<flock, user, pins, head>>

-----------------------------------------------------------------------------
(* What the store reads.                                                    *)

\* _catalog: of the aliases of one source the first by name speaks for it,
\* unless a marketplace was named.
Speaker == {r \in records : \A q \in records : Order[r.name] <= Order[q.name]}
Catalog(name) == IF name = "any" THEN Speaker ELSE {r \in records : r.name = name}

Trusted == records # {}

PinOf(p) == {k \in pins[Project(p)] : k.id = process[p].id}

Installation(entry) == [id |-> entry.id, snapshot |-> entry.snapshot]

\* _validate_system_claims: another enabled connector of the project's lock
\* already claims the system.
Claimed(j, id) ==
    \E pin \in pins[j] : /\ pin.id # id /\ pin.id \notin disabled
                        /\ System[id] \in {System[pin.id]} \ {NoSystem}

\* A snapshot's manifests are read only from its kept directory, at its recorded digest.
Kept(snapshot) == snapshot \in history \cap placed

\* resolve_locked: the pin is enabled, its source configured, its snapshot kept,
\* its exact installation recorded, its wheels cached and its environment sealed.
Resolves(j, entry) ==
    /\ entry \in pins[j]
    /\ entry.id \notin disabled
    /\ Trusted
    /\ Kept(entry.snapshot)
    /\ Artifact(entry) \notin Incompatible
    /\ Installation(entry) \in installations
    /\ WheelsOf(Artifact(entry)) \subseteq wheels
    /\ environment[Artifact(entry)] = "sealed"

-----------------------------------------------------------------------------
(* Marketplaces: add, upgrade, remove, and the official one on first use.   *)

Known == {r.name : r \in records}

\* A caller names what it sees configured when it starts.
BeginMarketplace(p) ==
    \/ \E n \in Names \ Known : Start(p, "add_marketplace", "none", n, "m_lock")
    \/ \E n \in Known : Start(p, "remove_marketplace", "none", n, "m_lock")
    \/ \E n \in Known \cup {"any"} : Start(p, "upgrade_marketplace", "none", n, "m_lock")

LockMarketplaces(p) ==
    /\ process[p].pc = "m_lock"
    /\ Take(p, "marketplaces", "m_project")
    /\ UNCHANGED <<user, pins, head, bounds>>

LockProjectToo(p) ==
    /\ process[p].pc = "m_project"
    /\ Take(p, Project(p), IF process[p].op = "remove_marketplace" THEN "m_remove" ELSE "m_stage")
    /\ UNCHANGED <<user, pins, head, bounds>>

Named(n) == {r \in records : r.name = n}

Selected(p) == IF process[p].name = "any" THEN records ELSE Named(process[p].name)

\* _snapshot_git and _snapshot_local copy the commit the source stands at to a
\* temporary directory; a name in use, one not configured, a clone that fails or an
\* invalid catalog ends the command here.
StageSnapshot(p) ==
    /\ process[p].pc = "m_stage"
    /\ \/ /\ (process[p].op = "add_marketplace") <=> (Selected(p) = {})
          /\ process' = [process EXCEPT ![p].pc = "m_place", ![p].entry.snapshot = head]
          /\ UNCHANGED <<flock, user, pins, head, bounds>>
       \/ Refused(p)

\* Moved into place, or dropped when that snapshot was placed before, and only then
\* recorded.
PlaceSnapshot(p) ==
    /\ process[p].pc = "m_place"
    /\ placed' = placed \cup {process[p].entry.snapshot}
    /\ Step(p, "m_write")
    /\ UNCHANGED <<configured, records, history, installations, disabled, environment, wheels,
                   pins, head, bounds>>

RememberedLatestOnly(s) == {s} \* MUTANT
Remembered(s) == history \cup {s}

Upgraded(p, s) == (records \ Selected(p)) \cup {[r EXCEPT !.snapshot = s] : r \in Selected(p)}

WriteMarketplaces(p) ==
    /\ process[p].pc = "m_write"
    /\ LET s == process[p].entry.snapshot IN
         /\ records' = IF process[p].op = "add_marketplace"
                       THEN records \cup {[name |-> process[p].name, snapshot |-> s]}
                       ELSE Upgraded(p, s)
         /\ history' = Remembered(s)
    /\ configured' = TRUE
    /\ Return(p)
    /\ UNCHANGED <<placed, installations, disabled, environment, wheels, pins, head, bounds>>

\* The last trusted source of the project's pins stays.
InUseByNobody(j, n) == FALSE \* MUTANT
InUse(j, n) == pins[j] # {} /\ records \ Named(n) = {}

RemoveMarketplace(p) ==
    /\ process[p].pc = "m_remove"
    /\ IF Named(process[p].name) = {} \/ InUse(Project(p), process[p].name)
       THEN Refused(p)
       ELSE /\ records' = records \ Named(process[p].name)
            /\ Return(p)
            /\ UNCHANGED <<configured, history, placed, installations, disabled, environment, wheels,
                           pins, head, bounds>>

\* _ensure_official_marketplace: on first use, under the same two locks, taken by
\* whoever needs the marketplaces, a dispatch that holds its project shared included.
AfterEnsure(p) == IF process[p].op = "dispatch" THEN "d_resolve" ELSE "i_lock"

EnsureLock(p) ==
    /\ process[p].pc = "e_lock"
    /\ IF configured THEN Step(p, AfterEnsure(p)) ELSE Take(p, "marketplaces", "e_project")
    /\ UNCHANGED <<user, pins, head, bounds>>

EnsureProject(p) ==
    /\ process[p].pc = "e_project"
    /\ Take(p, Project(p), "e_write")
    /\ UNCHANGED <<user, pins, head, bounds>>

EnsureOfficial(p) ==
    /\ process[p].pc = "e_write"
    /\ IF configured
       THEN UNCHANGED <<configured, records, history, placed>>
       ELSE /\ configured' = TRUE
            /\ records' = {[name |-> Official, snapshot |-> head]}
            /\ history' = {head}
            /\ placed' = placed \cup {head}
    /\ flock' = [flock EXCEPT !["marketplaces"].exclusive = NoProcess,
                              ![Project(p)].exclusive = NoProcess]
    /\ process' = [process EXCEPT ![p].pc = AfterEnsure(p)]
    /\ UNCHANGED <<installations, disabled, environment, wheels, pins, head, bounds>>

-----------------------------------------------------------------------------
(* Extensions: add (which re-enables), remove, and the workspace's disable. *)

BeginExtension(p) ==
    \E e \in Extensions :
      \/ \E n \in Known \cup {"any"} : Start(p, "add", e, n, "e_lock")
      \/ Start(p, "remove", e, "any", "i_lock")
      \/ /\ e \in {i.id : i \in installations} \cup {k.id : k \in pins[Project(p)]} \cup disabled
         /\ Start(p, "disable", e, "any", "e_lock")

LockInstallations(p) ==
    /\ process[p].pc = "i_lock"
    /\ Take(p, "installations", "i_project")
    /\ UNCHANGED <<user, pins, head, bounds>>

Sequel(op) == CASE op = "add" -> "a_select" [] op = "remove" -> "r_environment" [] OTHER -> "x_disabled"

LockProject(p) ==
    /\ process[p].pc = "i_project"
    /\ Take(p, Project(p), Sequel(process[p].op))
    /\ UNCHANGED <<user, pins, head, bounds>>

\* _select takes the artifact from the one snapshot the catalog offers.
Select(p) ==
    /\ process[p].pc = "a_select"
    /\ \/ \E r \in Catalog(process[p].name) :
            LET entry == [id |-> process[p].id, snapshot |-> r.snapshot] IN
            /\ Kept(r.snapshot)
            /\ Artifact(entry) \notin Incompatible
            /\ ~Claimed(Project(p), entry.id)
            /\ process' = [process EXCEPT ![p].pc = "a_cache", ![p].entry = entry]
            /\ UNCHANGED <<flock, user, pins, head, bounds>>
       \/ Refused(p)

\* A wheel is kept only when its bytes have the declared hash; a download that fails,
\* or wheels that do not close over their dependencies, end the command with some of
\* them cached.
CacheWheels(p) ==
    /\ process[p].pc = "a_cache"
    /\ \/ /\ wheels' = wheels \cup WheelsOf(Artifact(process[p].entry))
          /\ Step(p, "a_rebuild")
          /\ bounds' = bounds
       \/ /\ bounds.faults < MaxFaults
          /\ bounds' = [bounds EXCEPT !.faults = @ + 1]
          /\ \E cached \in SUBSET WheelsOf(Artifact(process[p].entry)) : wheels' = wheels \cup cached
          /\ Return(p)
    /\ UNCHANGED <<configured, records, history, placed, installations, disabled, environment,
                   pins, head>>

\* What _materialize_environment finds at the artifact's place: it keeps a sealed
\* environment the same installation recorded, refuses a recorded one whose launchers
\* it cannot verify, and otherwise deletes what is there before it builds anew.
Recorded(entry) == Installation(entry) \in installations
KeepsWhatever(entry) == environment[Artifact(entry)] # "absent" \* MUTANT
Keeps(entry) == Recorded(entry) /\ environment[Artifact(entry)] = "sealed"

ClearEnvironment(p) ==
    /\ process[p].pc = "a_rebuild"
    /\ LET entry == process[p].entry IN
         IF Recorded(entry) /\ environment[Artifact(entry)] = "foreign"
         THEN Refused(p)
         ELSE /\ environment' = IF Keeps(entry) THEN environment
                                ELSE [environment EXCEPT ![Artifact(entry)] = "absent"]
              /\ Step(p, IF Keeps(entry) THEN "a_record" ELSE "a_build")
              /\ UNCHANGED <<configured, records, history, placed, installations, disabled, wheels,
                             pins, head, bounds>>

\* Built under a temporary name, moved into place and verified there; or the build,
\* or that last check, fails.
BuildEnvironment(p) ==
    /\ process[p].pc = "a_build"
    /\ LET built == Artifact(process[p].entry) IN
         \/ /\ environment' = [environment EXCEPT ![built] = "sealed"]
            /\ Step(p, "a_record")
            /\ bounds' = bounds
         \/ /\ bounds.faults < MaxFaults
            /\ bounds' = [bounds EXCEPT !.faults = @ + 1]
            /\ environment' \in {environment, [environment EXCEPT ![built] = "altered"]}
            /\ Return(p)
    /\ UNCHANGED <<configured, records, history, placed, installations, disabled, wheels, pins, head>>

\* The record of the same artifact, whatever its snapshot, is replaced.
Others(entry) == {i \in installations : Artifact(i) # Artifact(entry)}

RecordInstallation(p) ==
    /\ process[p].pc = "a_record"
    /\ installations' = Others(process[p].entry) \cup {Installation(process[p].entry)}
    /\ Step(p, "a_enable")
    /\ UNCHANGED <<configured, records, history, placed, disabled, environment, wheels, pins, head,
                   bounds>>

Enable(p) ==
    /\ process[p].pc = "a_enable"
    /\ disabled' = disabled \ {process[p].id}
    /\ Step(p, "a_pin")
    /\ UNCHANGED <<configured, records, history, placed, installations, environment, wheels, pins,
                   head, bounds>>

Pin(p) ==
    /\ process[p].pc = "a_pin"
    /\ pins' = [pins EXCEPT ![Project(p)] =
                  {k \in @ : k.id # process[p].id} \cup {process[p].entry}]
    /\ Return(p)
    /\ UNCHANGED <<user, head, bounds>>

\* remove_extension acts on the exact installation of the project's pin, and is
\* refused when another installation has taken the artifact's place.
RemoveEnvironment(p) ==
    /\ process[p].pc = "r_environment"
    /\ \/ /\ PinOf(p) = {}
          /\ Step(p, "r_disabled")
          /\ UNCHANGED <<user, pins, head, bounds>>
       \/ \E entry \in PinOf(p) :
            IF \/ ~Kept(entry.snapshot)
               \/ \E i \in installations : Artifact(i) = Artifact(entry) /\ i # Installation(entry)
            THEN Refused(p)
            ELSE /\ environment' = IF Recorded(entry)
                                   THEN [environment EXCEPT ![Artifact(entry)] = "absent"]
                                   ELSE environment
                 /\ process' = [process EXCEPT ![p].pc = "r_wheels", ![p].entry = entry]
                 /\ UNCHANGED <<flock, configured, records, history, placed, installations,
                                disabled, wheels, pins, head, bounds>>

\* Wheels another installation still lists are kept.
Retained(entry) ==
    UNION {WheelsOf(Artifact(i)) : i \in installations \ {Installation(entry)}}

RemoveWheels(p) ==
    /\ process[p].pc = "r_wheels"
    /\ LET entry == process[p].entry IN
         wheels' = IF Recorded(entry) THEN wheels \ (WheelsOf(Artifact(entry)) \ Retained(entry))
                   ELSE wheels
    /\ Step(p, "r_record")
    /\ UNCHANGED <<configured, records, history, placed, installations, disabled, environment, pins,
                   head, bounds>>

ForgetInstallation(p) ==
    /\ process[p].pc = "r_record"
    /\ installations' = installations \ {Installation(process[p].entry)}
    /\ Step(p, "r_disabled")
    /\ UNCHANGED <<configured, records, history, placed, disabled, environment, wheels, pins, head,
                   bounds>>

\* Only the default extension, added without being asked for, is disabled with it.
DisableDefault(p) ==
    /\ process[p].pc = "r_disabled"
    /\ disabled' = IF process[p].id = Default THEN disabled \cup {Default} ELSE disabled
    /\ Step(p, "r_unpin")
    /\ UNCHANGED <<configured, records, history, placed, installations, environment, wheels, pins,
                   head, bounds>>

Unpin(p) ==
    /\ process[p].pc = "r_unpin"
    /\ pins' = [pins EXCEPT ![Project(p)] = {k \in @ : k.id # process[p].id}]
    /\ Return(p)
    /\ UNCHANGED <<user, head, bounds>>

Disable(p) ==
    /\ process[p].pc = "x_disabled"
    /\ disabled' = disabled \cup {process[p].id}
    /\ Return(p)
    /\ UNCHANGED <<configured, records, history, placed, installations, environment, wheels, pins,
                   head, bounds>>

-----------------------------------------------------------------------------
(* Dispatch: execution_guard, resolve_locked, execution_lease, and the run. *)

BeginDispatch(p) == \E e \in {d \in Extensions : System[d] = NoSystem} : Start(p, "dispatch", e, "any", "d_guard")

Guard(p) ==
    /\ process[p].pc = "d_guard"
    /\ TakeShared(p, Project(p), "d_pin")
    /\ UNCHANGED <<user, pins, head, bounds>>

\* The pin is read before the marketplaces.
ReadPin(p) ==
    /\ process[p].pc = "d_pin"
    /\ IF PinOf(p) = {} \/ process[p].id \in disabled
       THEN Refused(p)
       ELSE /\ Step(p, "e_lock")
            /\ UNCHANGED <<user, pins, head, bounds>>

Resolve(p) ==
    /\ process[p].pc = "d_resolve"
    /\ \/ /\ \A entry \in PinOf(p) : ~Resolves(Project(p), entry)
          /\ Refused(p)
       \/ \E entry \in PinOf(p) :
            /\ Resolves(Project(p), entry)
            /\ process' = [process EXCEPT ![p].pc = "d_lease", ![p].entry = entry]
            /\ UNCHANGED <<flock, user, pins, head, bounds>>

\* The lease resolves once more and opens the script it verified.
Lease(p) ==
    /\ process[p].pc = "d_lease"
    /\ IF Resolves(Project(p), process[p].entry)
       THEN /\ Step(p, "running")
            /\ UNCHANGED <<user, pins, head, bounds>>
       ELSE Refused(p)

Finish(p) ==
    /\ process[p].pc = "running"
    /\ Return(p)
    /\ UNCHANGED <<user, pins, head, bounds>>

-----------------------------------------------------------------------------
(* What happens around the store.                                           *)

\* The process ends between two of its steps; the kernel drops its locks.
Crash(p) ==
    /\ process[p].pc # "idle"
    /\ bounds.faults < MaxFaults
    /\ bounds' = [bounds EXCEPT !.faults = @ + 1]
    /\ Return(p)
    /\ UNCHANGED <<user, pins, head>>

\* The source gains a commit; when, between two commands, makes no difference, since
\* a command reads the source once.
Publish ==
    /\ \A p \in Procs : process[p].pc = "idle"
    /\ head + 1 \in Snapshots
    /\ head' = head + 1
    /\ UNCHANGED <<flock, user, pins, process, bounds>>

\* An environment is edited, or the interpreter it launches is replaced, while no
\* command is at work.
Tamper(a) ==
    /\ \A p \in Procs : process[p].pc \in {"idle", "running"}
    /\ bounds.faults < MaxFaults
    /\ environment[a] = "sealed"
    /\ \E how \in {"altered", "foreign"} : environment' = [environment EXCEPT ![a] = how]
    /\ bounds' = [bounds EXCEPT !.faults = @ + 1]
    /\ UNCHANGED <<flock, configured, records, history, placed, installations, disabled, wheels,
                   pins, head, process>>

StoreStep(p) ==
    \/ LockMarketplaces(p) \/ LockProjectToo(p) \/ StageSnapshot(p) \/ PlaceSnapshot(p) \/ WriteMarketplaces(p)
    \/ RemoveMarketplace(p) \/ EnsureLock(p) \/ EnsureProject(p) \/ EnsureOfficial(p)
    \/ LockInstallations(p) \/ LockProject(p) \/ Select(p) \/ CacheWheels(p) \/ ClearEnvironment(p)
    \/ BuildEnvironment(p) \/ RecordInstallation(p) \/ Enable(p) \/ Pin(p)
    \/ RemoveEnvironment(p) \/ RemoveWheels(p) \/ ForgetInstallation(p) \/ DisableDefault(p)
    \/ Unpin(p) \/ Disable(p) \/ Guard(p) \/ ReadPin(p) \/ Resolve(p) \/ Lease(p) \/ Finish(p)

Next ==
    \/ \E p \in Procs :
         BeginMarketplace(p) \/ BeginExtension(p) \/ BeginDispatch(p) \/ StoreStep(p) \/ Crash(p)
    \/ Publish
    \/ \E a \in Artifacts : Tamper(a)

\* A started command goes on: its steps end, and flock is granted in the end.
Spec == Init /\ [][Next]_vars /\ \A p \in Procs : SF_vars(StoreStep(p))

-----------------------------------------------------------------------------
TypeOK ==
    /\ \A l \in Locks : /\ flock[l].exclusive \in Procs \cup {NoProcess}
                        /\ flock[l].shared \subseteq Procs
                        /\ flock[l].exclusive # NoProcess => flock[l].shared = {}
    /\ records \subseteq [name : Names, snapshot : Snapshots]
    /\ history \subseteq Snapshots /\ placed \subseteq Snapshots
    /\ installations \subseteq Entry
    /\ disabled \subseteq Extensions
    /\ environment \in [Artifacts -> {"absent", "sealed", "altered", "foreign"}]
    /\ \A j \in Projects : pins[j] \subseteq Entry
    /\ \A p \in Procs : process[p].entry \in Entry \cup {[NoEntry EXCEPT !.snapshot = s] : s \in 0..head}

\* The store never writes what it would itself refuse to read, wherever it is
\* interrupted: marketplace names and installed artifacts are unique, a lock names an
\* extension once, and every snapshot a marketplace or a pin uses is in the history
\* with its directory, so an old pin can always be checked against its own manifest.
StateReadable ==
    /\ \A r, q \in records : r.name = q.name => r = q
    /\ \A i, k \in installations : Artifact(i) = Artifact(k) => i = k
    /\ \A j \in Projects : \A i, k \in pins[j] : i.id = k.id => i = k
    /\ \A r \in records : r.snapshot \in history
    /\ configured => \A j \in Projects : \A k \in pins[j] : k.snapshot \in history
    /\ history \subseteq placed

Mutating(p) == process[p].pc \in {"a_select", "a_cache", "a_rebuild", "a_build", "a_record", "a_enable", "a_pin",
                                 "r_environment", "r_wheels", "r_record", "r_disabled", "r_unpin"}

\* Without a crash or a failed build, every enabled pin of a project resolves when
\* no command is inside the store: what one command removes, no other pin needed.
PinnedResolvable ==
    bounds.faults = 0 /\ configured /\ (\A p \in Procs : ~Mutating(p)) =>
      \A j \in Projects : \A k \in pins[j] : k.id \notin disabled => Resolves(j, k)

\* Whatever was interrupted or altered before, an add that ends well leaves an
\* extension that resolves: what it keeps is as good as what it would build.
AddMeansResolvable ==
    [][\A p \in Procs :
         process[p].pc = "a_pin" /\ process'[p].pc = "idle" /\ bounds' = bounds =>
           \E entry \in {process[p].entry} : Resolves(Project(p), entry)']_vars

\* The extension a dispatch runs is the one its project pins, and stays installed,
\* until the run ends.
RunsWhatIsPinned ==
    \A p \in Procs : process[p].pc = "running" =>
      /\ process[p].entry \in pins[Project(p)]
      /\ Installation(process[p].entry) \in installations
      /\ environment[Artifact(process[p].entry)] # "absent"

\* Two enabled connectors of a project never claim one system.
OneClaim ==
    \A j \in Projects : \A i, k \in pins[j] :
      i.id \notin disabled /\ k.id \notin disabled /\ System[i.id] \in {System[k.id]} \ {NoSystem} => i = k

\* What is written is well-formed, can be read again and claims no system twice.
StoreWhole == TypeOK /\ StateReadable /\ OneClaim
=============================================================================

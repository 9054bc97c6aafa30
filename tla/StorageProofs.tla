---------------------------- MODULE StorageProofs ----------------------------
(***************************************************************************)
(* What the program keeps in the user's files: the extension store over    *)
(* the commands and dispatches of any number of processes, and one private *)
(* file over any number of writers and readers.                            *)
(*                                                                         *)
(* The store: each command establishes, file by file and under its locks,  *)
(* what it relies on later, and nobody else may change that meanwhile,     *)
(* because whoever stands inside the store holds installations and the     *)
(* project, and a dispatch holds the project shared.  StoreInv says what   *)
(* holds at each place of each command.                                    *)
(***************************************************************************)
EXTENDS ExtensionStore, PrivateStorage, TLAPS

(* One user has one project.  The commands of two projects share what the   *)
(* user has installed and disabled, and may take it away from each other.   *)
SingleProject == \A i, j \in Projects : i = j

(* Nobody starts from locks that were committed elsewhere: such a lock may  *)
(* name a snapshot this user never had.                                     *)
Scope == SingleProject /\ "committed" \notin Starts

Ops == {"none", "add_marketplace", "remove_marketplace", "upgrade_marketplace",
        "add", "remove", "disable", "dispatch"}

(* Where a process stands: at the marketplaces, before and inside its       *)
(* changes of the extensions, and in a dispatch.                            *)
EnsurePlaces == {"e_lock", "e_project", "e_write"}
StagePlaces == {"m_stage", "m_place", "m_write", "m_remove"}
AddPlaces == {"a_cache", "a_rebuild", "a_build", "a_record", "a_enable", "a_pin"}
RemovePlaces == {"r_environment", "r_wheels", "r_record", "r_disabled", "r_unpin"}
Inside == {"a_select", "x_disabled"} \cup AddPlaces \cup RemovePlaces
DispatchPlaces == {"d_guard", "d_pin", "d_resolve", "d_lease", "running"}
Places == {"idle", "m_lock", "m_project", "i_lock", "i_project"}
          \cup EnsurePlaces \cup StagePlaces \cup Inside \cup DispatchPlaces

(* What it holds there.                                                     *)
MarketplacesHeld == {"m_project", "e_project", "e_write"} \cup StagePlaces
InstallationsHeld == {"i_project"} \cup Inside
ProjectHeld == {"e_write"} \cup StagePlaces \cup Inside
SharedHeld(t) ==
    \/ t.pc \in {"d_pin", "d_resolve", "d_lease", "running"}
    \/ t.pc \in {"e_lock", "e_project", "e_write"} /\ t.op = "dispatch"

Tasks == [pc : Places, op : Ops, id : Extensions \cup {"none"}, name : Names \cup {"any", "none"},
          entry : [id : Extensions \cup {"none"}, snapshot : Nat]]

(* A task that works on an extension has one, and an added marketplace has  *)
(* a name.                                                                  *)
Formed(t) ==
    /\ t.pc \in {"i_lock", "i_project"} \cup EnsurePlaces \cup Inside => t.id \in Extensions
    /\ t.op = "add_marketplace" => t.name \in Names

Flocks == [Locks -> [exclusive : Procs \cup {NoProcess}, shared : SUBSET Procs]]
Typed ==
    /\ flock \in Flocks
    /\ \A l \in Locks : flock[l].exclusive # NoProcess => flock[l].shared = {}
    /\ configured \in BOOLEAN
    /\ records \subseteq [name : Names, snapshot : Snapshots]
    /\ history \subseteq Snapshots /\ placed \subseteq Snapshots
    /\ installations \subseteq Entry
    /\ disabled \subseteq Extensions
    /\ environment \in [Artifacts -> {"absent", "sealed", "altered", "foreign"}]
    /\ pins \in [Projects -> SUBSET Entry]
    /\ head \in Snapshots
    /\ bounds \in [operations : Nat, faults : Nat]
    /\ process \in [Procs -> Tasks]

(* What the files say together; nothing is pinned before there is a source. *)
Readable ==
    /\ StateReadable /\ OneClaim
    /\ ~configured => records = {} /\ history = {}
    /\ \A j \in Projects : pins[j] # {} => records # {}

(* The locks p holds where it stands.                                       *)
Holding(p) ==
    /\ process[p].pc \in MarketplacesHeld => flock["marketplaces"].exclusive = p
    /\ process[p].pc \in InstallationsHeld => flock["installations"].exclusive = p
    /\ process[p].pc \in ProjectHeld => flock[Project(p)].exclusive = p
    /\ SharedHeld(process[p]) => p \in flock[Project(p)].shared

(* What a change of the marketplaces knows of them.                         *)
Staging(p) ==
    /\ process[p].pc \in {"m_place", "m_write"} =>
         /\ process[p].entry.snapshot \in Snapshots
         /\ process[p].op = "add_marketplace" => Selected(p) = {}
    /\ process[p].pc = "m_write" => process[p].entry.snapshot \in placed

(* What an add has established so far of the entry it will pin.             *)
Chosen(p) ==
    /\ process[p].entry \in Entry /\ process[p].entry.id = process[p].id
    /\ Kept(process[p].entry.snapshot) /\ Artifact(process[p].entry) \notin Incompatible
    /\ ~Claimed(Project(p), process[p].id) /\ Trusted

Adding(p) ==
    LET t == process[p]
        entry == t.entry
    IN  /\ t.pc \in AddPlaces => Chosen(p)
        /\ t.pc \in AddPlaces \ {"a_cache"} => WheelsOf(Artifact(entry)) \subseteq wheels
        /\ t.pc \in {"a_record", "a_enable", "a_pin"} => environment[Artifact(entry)] = "sealed"
        /\ t.pc \in {"a_enable", "a_pin"} => Recorded(entry)
        /\ t.pc = "a_pin" => t.id \notin disabled

Removing(p) ==
    process[p].pc \in {"r_wheels", "r_record"} =>
      process[p].entry \in Entry /\ process[p].entry.id = process[p].id

Running(p) ==
    process[p].pc = "running" =>
      /\ process[p].entry \in pins[Project(p)]
      /\ Installation(process[p].entry) \in installations
      /\ environment[Artifact(process[p].entry)] # "absent"

Noted(p) == process[p].entry \in Entry \cup {[NoEntry EXCEPT !.snapshot = s] : s \in 0..head}

Sound(p) ==
    Formed(process[p]) /\ Noted(p) /\ Holding(p) /\ Staging(p) /\ Adding(p) /\ Removing(p) /\ Running(p)

(* While nothing fails, an enabled pin resolves, unless a command is in the *)
(* middle of changing that very extension.                                  *)
Changing == {"a_build", "a_record", "a_enable", "a_pin", "r_wheels", "r_record", "r_disabled", "r_unpin"}
Changed(id) == \E p \in Procs : process[p].pc \in Changing /\ process[p].id = id
Resolvable ==
    bounds.faults = 0 =>
      \A j \in Projects : \A k \in pins[j] :
        k.id \notin disabled /\ ~Changed(k.id) => Resolves(j, k)

StoreInv == Typed /\ Readable /\ (\A p \in Procs : Sound(p)) /\ Resolvable

-----------------------------------------------------------------------------
(* Tasks.                                                                   *)

(* A task that only moves to another place.                                 *)
LEMMA MovesTo ==
    ASSUME Typed, NEW p \in Procs, NEW to \in Places, process' = [process EXCEPT ![p].pc = to]
    PROVE  /\ process' \in [Procs -> Tasks]
           /\ process'[p].pc = to
           /\ process'[p].op = process[p].op /\ process'[p].id = process[p].id
           /\ process'[p].name = process[p].name /\ process'[p].entry = process[p].entry
           /\ \A q \in Procs \ {p} : process'[q] = process[q]
BY DEF Typed, Tasks

(* A task that moves and notes an entry.                                    *)
LEMMA MovesWith ==
    ASSUME Typed, NEW p \in Procs, NEW to \in Places, NEW entry \in Entry,
           process' = [process EXCEPT ![p].pc = to, ![p].entry = entry]
    PROVE  /\ process' \in [Procs -> Tasks]
           /\ process'[p].pc = to /\ process'[p].entry = entry
           /\ process'[p].op = process[p].op /\ process'[p].id = process[p].id
           /\ process'[p].name = process[p].name
           /\ \A q \in Procs \ {p} : process'[q] = process[q]
<1>1. entry \in [id : Extensions \cup {"none"}, snapshot : Nat]
  BY SnapshotsAssumption DEF Entry
<1>. DEFINE t == [process[p] EXCEPT !.pc = to, !.entry = entry]
<1>2. process \in [Procs -> Tasks] /\ process[p] \in Tasks
  BY DEF Typed
<1>3. /\ t \in Tasks /\ t.pc = to /\ t.entry = entry
      /\ t.op = process[p].op /\ t.id = process[p].id /\ t.name = process[p].name
  BY <1>1, <1>2 DEF Tasks
<1>4. process' = [process EXCEPT ![p] = t]
  OBVIOUS
<1>. QED
  BY <1>2, <1>3, <1>4

LEMMA GoesIdle ==
    ASSUME Typed, NEW p \in Procs, process' = [process EXCEPT ![p] = Idle]
    PROVE  /\ process' \in [Procs -> Tasks]
           /\ process'[p] = Idle /\ Idle.pc = "idle" /\ Idle.op = "none" /\ Idle.entry = NoEntry
           /\ \A q \in Procs \ {p} : process'[q] = process[q]
<1>1. Idle \in Tasks
  BY DEF Idle, Tasks, Places, Ops, NoEntry
<1>2. Idle.pc = "idle" /\ Idle.op = "none" /\ Idle.entry = NoEntry
  BY DEF Idle
<1>. QED
  BY <1>1, <1>2 DEF Typed

-----------------------------------------------------------------------------
(* Locks.                                                                   *)

FlocksWhole(f) ==
    f \in Flocks /\ \A l \in Locks : f[l].exclusive # NoProcess => f[l].shared = {}

(* A step of p takes nothing from another process, and may give p locks.    *)
Yields(p, f, g) ==
    \A q \in Procs \ {p} : \A l \in Locks :
      /\ f[l].exclusive = q => g[l].exclusive = q
      /\ q \in f[l].shared => q \in g[l].shared
Gains(p, f, g) ==
    \A l \in Locks :
      /\ f[l].exclusive = p => g[l].exclusive = p
      /\ p \in f[l].shared => p \in g[l].shared

LEMMA ProjectIsLock ==
    ASSUME NEW p \in Procs
    PROVE  Project(p) \in Projects /\ Project(p) \in Locks
BY ProjectAssumption DEF Project, Locks

LEMMA Taken ==
    ASSUME FlocksWhole(flock), NEW p \in Procs, NEW lock \in Locks,
           flock[lock] = [exclusive |-> NoProcess, shared |-> {}],
           flock' = [flock EXCEPT ![lock].exclusive = p]
    PROVE  /\ FlocksWhole(flock') /\ flock'[lock].exclusive = p
           /\ Yields(p, flock, flock') /\ Gains(p, flock, flock')
<1>1. \A l \in Locks : l # lock => flock'[l] = flock[l]
  BY DEF FlocksWhole, Flocks
<1>2. flock'[lock].exclusive = p /\ flock'[lock].shared = {}
  BY DEF FlocksWhole, Flocks
<1>3. flock' \in Flocks
  BY DEF FlocksWhole, Flocks
<1>. QED
  BY <1>1, <1>2, <1>3, NobodyAssumption DEF FlocksWhole, Yields, Gains

LEMMA TakenShared ==
    ASSUME FlocksWhole(flock), NEW p \in Procs, NEW lock \in Locks,
           flock[lock].exclusive = NoProcess,
           flock' = [flock EXCEPT ![lock].shared = @ \cup {p}]
    PROVE  /\ FlocksWhole(flock') /\ p \in flock'[lock].shared
           /\ Yields(p, flock, flock') /\ Gains(p, flock, flock')
<1>1. \A l \in Locks : l # lock => flock'[l] = flock[l]
  BY DEF FlocksWhole, Flocks
<1>2. flock'[lock].exclusive = NoProcess /\ flock'[lock].shared = flock[lock].shared \cup {p}
  BY DEF FlocksWhole, Flocks
<1>3. flock' \in Flocks
  BY DEF FlocksWhole, Flocks
<1>. QED
  BY <1>1, <1>2, <1>3 DEF FlocksWhole, Yields, Gains

LEMMA ReleasedKeeps ==
    ASSUME FlocksWhole(flock), NEW p \in Procs
    PROVE  FlocksWhole(Released(p)) /\ Yields(p, flock, Released(p))
<1>1. Released(p) \in Flocks
  BY DEF Released, FlocksWhole, Flocks
<1>2. \A l \in Locks :
        /\ Released(p)[l].exclusive = (IF flock[l].exclusive = p THEN NoProcess ELSE flock[l].exclusive)
        /\ Released(p)[l].shared = flock[l].shared \ {p}
  BY DEF Released
<1>. QED
  BY <1>1, <1>2 DEF FlocksWhole, Yields

(* EnsureOfficial leaves the two locks it took, which are its own.          *)
LEMMA EnsureKeeps ==
    ASSUME FlocksWhole(flock), NEW p \in Procs,
           flock["marketplaces"].exclusive = p, flock[Project(p)].exclusive = p,
           flock' = [flock EXCEPT !["marketplaces"].exclusive = NoProcess,
                                  ![Project(p)].exclusive = NoProcess]
    PROVE  /\ FlocksWhole(flock') /\ Yields(p, flock, flock')
           /\ \A l \in Locks : flock'[l].shared = flock[l].shared
<1>1. "marketplaces" \in Locks /\ Project(p) \in Locks
  BY ProjectIsLock DEF Locks
<1>2. \A l \in Locks :
        /\ flock'[l].exclusive = (IF l \in {"marketplaces", Project(p)} THEN NoProcess
                                  ELSE flock[l].exclusive)
        /\ flock'[l].shared = flock[l].shared
  BY <1>1 DEF FlocksWhole, Flocks
<1>3. flock' \in Flocks
  BY <1>1 DEF FlocksWhole, Flocks
<1>. QED
  BY <1>1, <1>2, <1>3, NobodyAssumption DEF FlocksWhole, Yields

(* Whoever is inside the project's lock is there alone, and nothing runs.   *)
LEMMA Alone ==
    ASSUME Typed, SingleProject, \A q \in Procs : Holding(q),
           NEW p \in Procs, process[p].pc \in ProjectHeld, NEW q \in Procs \ {p}
    PROVE  process[q].pc \notin ProjectHeld /\ ~SharedHeld(process[q])
<1>1. Project(q) = Project(p) /\ Project(p) \in Locks
  BY ProjectIsLock DEF SingleProject
<1>2. flock[Project(p)].exclusive = p
  BY DEF Holding
<1>3. flock[Project(p)].shared = {}
  BY <1>1, <1>2, NobodyAssumption DEF Typed
<1>. QED
  BY <1>1, <1>2, <1>3 DEF Holding

-----------------------------------------------------------------------------
(* What a step of one process has to show.                                  *)

LEMMA OthersHold ==
    ASSUME NEW p \in Procs, NEW q \in Procs \ {p}, Holding(q), process'[q] = process[q],
           Yields(p, flock, flock')
    PROVE  Holding(q)'
<1>1. Project(q) \in Locks /\ "marketplaces" \in Locks /\ "installations" \in Locks
  BY ProjectIsLock DEF Locks
<1>2. SharedHeld(process'[q]) = SharedHeld(process[q])
  OBVIOUS
<1>. QED
  BY <1>1, <1>2 DEF Holding, Yields

(* A task that stands still among the same files.                           *)
LEMMA StandsStill ==
    ASSUME Typed, NEW q \in Procs, Sound(q), process'[q] = process[q], Holding(q)',
           head' \in Nat, head <= head', UNCHANGED <<user, pins>>
    PROVE  Sound(q)'
<1>1. UNCHANGED <<configured, records, history, placed, installations, disabled, environment,
                  wheels, pins>>
  BY DEF user
<1>2. Noted(q)'
  <2>1. head \in Nat
    BY SnapshotsAssumption DEF Typed
  <2>. QED
    BY <2>1 DEF Sound, Noted
<1>3. Staging(q)'
  BY <1>1 DEF Sound, Staging, Selected, Named
<1>4. Adding(q)'
  BY <1>1 DEF Sound, Adding, Chosen, Kept, Claimed, Trusted, Recorded, Installation
<1>5. Removing(q)' /\ Running(q)'
  BY <1>1 DEF Sound, Removing, Running, Installation
<1>. QED
  BY <1>2, <1>3, <1>4, <1>5 DEF Sound

(* Others are as sound after it: either the files they rely on are the same *)
(* or they rely on none.                                                    *)
LEMMA OthersSound ==
    ASSUME StoreInv, SingleProject, NEW p \in Procs, NEW q \in Procs \ {p},
           process'[q] = process[q], Yields(p, flock, flock'),
           head' \in Nat, head <= head',
           process[p].pc \in ProjectHeld \/ UNCHANGED <<user, pins>>
    PROVE  Sound(q)'
<1>1. Typed /\ Sound(q)
  BY DEF StoreInv
<1>2. Holding(q)'
  BY <1>1, OthersHold DEF Sound
<1>3. CASE UNCHANGED <<user, pins>>
  BY <1>1, <1>2, <1>3, StandsStill
<1>4. CASE process[p].pc \in ProjectHeld
  <2>1. process[q].pc \notin ProjectHeld /\ ~SharedHeld(process[q])
    BY <1>4, Alone DEF StoreInv, Sound
  <2>2. process'[q].pc \notin ProjectHeld /\ process'[q].pc # "running"
    BY <2>1 DEF SharedHeld
  <2>3. Staging(q)' /\ Adding(q)' /\ Removing(q)' /\ Running(q)'
    BY <2>2 DEF Staging, Adding, Removing, Running, ProjectHeld, StagePlaces, Inside, AddPlaces, RemovePlaces
  <2>4. Noted(q)'
    <3>1. head \in Nat
      BY <1>1, SnapshotsAssumption DEF Typed
    <3>. QED
      BY <1>1, <3>1 DEF Sound, Noted
  <2>. QED
    BY <1>1, <1>2, <2>3, <2>4 DEF Sound
<1>. QED
  BY <1>3, <1>4

LEMMA OneSteps ==
    ASSUME StoreInv, SingleProject, NEW p \in Procs,
           \A q \in Procs \ {p} : process'[q] = process[q],
           Yields(p, flock, flock'), head' = head,
           process[p].pc \in ProjectHeld \/ UNCHANGED <<user, pins>>,
           Typed', Readable', Sound(p)', Resolvable'
    PROVE  StoreInv'
<1>1. head' \in Nat /\ head <= head'
  BY SnapshotsAssumption DEF StoreInv, Typed
<1>2. \A q \in Procs \ {p} : Sound(q)'
  BY <1>1, OthersSound
<1>. QED
  BY <1>2 DEF StoreInv

(* A step that leaves the files as they are.                                *)
LEMMA QuietReadable ==
    ASSUME Readable, UNCHANGED <<user, pins>>
    PROVE  Readable'
<1>1. UNCHANGED <<configured, records, history, placed, installations, disabled, pins>>
  BY DEF user
<1>. QED
  BY <1>1 DEF Readable, StateReadable, OneClaim

LEMMA QuietResolves ==
    ASSUME UNCHANGED <<user, pins>>, NEW j, NEW k, Resolves(j, k)
    PROVE  Resolves(j, k)'
<1>1. UNCHANGED <<records, history, placed, installations, disabled, environment, wheels, pins>>
  BY DEF user
<1>. QED
  BY <1>1 DEF Resolves, Trusted, Kept, Installation

(* Whoever changes an extension still does, or something has failed.        *)
LEMMA StillChanged ==
    ASSUME NEW p \in Procs, \A q \in Procs \ {p} : process'[q] = process[q],
           process[p].pc \in Changing => process'[p].pc \in Changing /\ process'[p].id = process[p].id,
           NEW id, Changed(id)
    PROVE  Changed(id)'
BY DEF Changed

LEMMA QuietStep ==
    ASSUME StoreInv, SingleProject, NEW p \in Procs,
           \A q \in Procs \ {p} : process'[q] = process[q],
           process' \in [Procs -> Tasks],
           FlocksWhole(flock'), Yields(p, flock, flock'),
           UNCHANGED <<user, pins, head>>,
           bounds' \in [operations : Nat, faults : Nat],
           bounds'.faults = 0 => bounds.faults = 0,
           \/ bounds'.faults # 0
           \/ process[p].pc \in Changing => process'[p].pc \in Changing /\ process'[p].id = process[p].id,
           Sound(p)'
    PROVE  StoreInv'
<1>1. Typed'
  BY DEF StoreInv, Typed, FlocksWhole, user
<1>2. Readable'
  BY QuietReadable DEF StoreInv
<1>3. Resolvable'
  <2>. SUFFICES ASSUME bounds'.faults = 0, NEW j \in Projects, NEW k \in pins'[j],
                       k.id \notin disabled', ~Changed(k.id)'
                PROVE  Resolves(j, k)'
    BY DEF Resolvable
  <2>1. ~Changed(k.id)
    BY StillChanged
  <2>2. k \in pins[j] /\ k.id \notin disabled
    BY DEF user
  <2>. QED
    BY <2>1, <2>2, QuietResolves DEF StoreInv, Resolvable
<1>. QED
  BY <1>1, <1>2, <1>3, OneSteps

-----------------------------------------------------------------------------
(* The commands that end or go on without changing a file.                  *)

LEMMA IdleSound ==
    ASSUME NEW p \in Procs, process'[p] = Idle, head' \in Nat
    PROVE  Sound(p)'
<1>1. process'[p].pc = "idle" /\ process'[p].op = "none" /\ process'[p].entry = NoEntry
  BY DEF Idle
<1>2. ~SharedHeld(process'[p])
  BY <1>1 DEF SharedHeld
<1>3. Holding(p)'
  BY <1>1, <1>2
     DEF Holding, MarketplacesHeld, InstallationsHeld, ProjectHeld, StagePlaces, Inside, AddPlaces, RemovePlaces
<1>4. Noted(p)'
  BY <1>1 DEF Noted, NoEntry
<1>5. Formed(process'[p])
  BY <1>1 DEF Formed, EnsurePlaces, Inside, AddPlaces, RemovePlaces
<1>. QED
  BY <1>1, <1>3, <1>4, <1>5 DEF Sound, Staging, Adding, Removing, Running, AddPlaces

LEMMA NatHead ==
    ASSUME Typed
    PROVE  head \in Nat
BY SnapshotsAssumption DEF Typed

(* What ends without having changed an extension, or by failing.            *)
LEMMA ReturnQuiet ==
    ASSUME StoreInv, SingleProject, NEW p \in Procs, Return(p),
           UNCHANGED <<user, pins, head>>,
           bounds' \in [operations : Nat, faults : Nat],
           bounds'.faults = 0 => bounds.faults = 0,
           bounds'.faults # 0 \/ process[p].pc \notin Changing
    PROVE  StoreInv'
<1>1. /\ process' \in [Procs -> Tasks] /\ process'[p] = Idle
      /\ \A q \in Procs \ {p} : process'[q] = process[q]
  BY GoesIdle DEF Return, StoreInv
<1>2. FlocksWhole(flock') /\ Yields(p, flock, flock')
  BY ReleasedKeeps DEF Return, StoreInv, Typed, FlocksWhole
<1>3. Sound(p)'
  BY <1>1, IdleSound, NatHead DEF StoreInv
<1>. QED
  BY <1>1, <1>2, <1>3, QuietStep

LEMMA RefusedStep ==
    ASSUME StoreInv, SingleProject, NEW p \in Procs, Refused(p), process[p].pc \notin Changing
    PROVE  StoreInv'
BY ReturnQuiet DEF Refused, StoreInv, Typed

LEMMA CrashStep ==
    ASSUME StoreInv, SingleProject, NEW p \in Procs, Crash(p)
    PROVE  StoreInv'
<1>1. bounds' \in [operations : Nat, faults : Nat] /\ bounds'.faults # 0
  BY DEF Crash, StoreInv, Typed
<1>. QED
  BY <1>1, ReturnQuiet DEF Crash

LEMMA StartStep ==
    ASSUME StoreInv, SingleProject, NEW p \in Procs, NEW op \in Ops \ {"none"},
           NEW id \in Extensions \cup {"none"}, NEW name \in Names \cup {"any"}, NEW pc,
           Start(p, op, id, name, pc),
           \/ pc = "m_lock" /\ (op = "add_marketplace" => name \in Names)
           \/ pc \in {"e_lock", "i_lock"} /\ id \in Extensions /\ op \in {"add", "remove", "disable"}
           \/ pc = "d_guard" /\ op = "dispatch"
    PROVE  StoreInv'
<1>. DEFINE t == [Idle EXCEPT !.op = op, !.id = id, !.name = name, !.pc = pc]
<1>1. /\ t.pc = pc /\ t.op = op /\ t.id = id /\ t.name = name /\ t.entry = NoEntry
      /\ t \in Tasks
  BY DEF Idle, Tasks, Places, EnsurePlaces, DispatchPlaces, NoEntry
<1>. HIDE DEF t
<1>2. process' = [process EXCEPT ![p] = t] /\ UNCHANGED <<flock, user, pins, head>>
      /\ bounds' = [bounds EXCEPT !.operations = @ + 1] /\ process[p].pc = "idle"
  BY DEF Start, t
<1>3. process' \in [Procs -> Tasks] /\ process'[p] = t /\ \A q \in Procs \ {p} : process'[q] = process[q]
  BY <1>1, <1>2 DEF StoreInv, Typed
<1>4. bounds' \in [operations : Nat, faults : Nat] /\ bounds'.faults = bounds.faults
  BY <1>2 DEF StoreInv, Typed
<1>5. Formed(t)
  BY <1>1 DEF Formed, EnsurePlaces, Inside, AddPlaces, RemovePlaces
<1>6. ~SharedHeld(t) /\ t.pc \notin MarketplacesHeld \cup InstallationsHeld \cup ProjectHeld
  BY <1>1 DEF SharedHeld, MarketplacesHeld, InstallationsHeld, ProjectHeld, StagePlaces, Inside,
              AddPlaces, RemovePlaces
<1>7. Noted(p)'
  BY <1>1, <1>2, <1>3, NatHead DEF StoreInv, Noted, NoEntry
<1>8. Sound(p)'
  BY <1>1, <1>3, <1>5, <1>6, <1>7 DEF Sound, Holding, Staging, Adding, Removing, Running, AddPlaces
<1>9. FlocksWhole(flock') /\ Yields(p, flock, flock')
  BY <1>2 DEF StoreInv, Typed, FlocksWhole, Yields
<1>10. process[p].pc \notin Changing
  BY <1>2 DEF Changing
<1>. QED
  BY <1>2, <1>3, <1>4, <1>8, <1>9, <1>10, QuietStep

LEMMA BeginStep ==
    ASSUME StoreInv, SingleProject, NEW p \in Procs,
           BeginMarketplace(p) \/ BeginExtension(p) \/ BeginDispatch(p)
    PROVE  StoreInv'
<1>1. Known \subseteq Names
  BY DEF Known, StoreInv, Typed
<1>2. CASE BeginMarketplace(p)
  BY <1>1, <1>2, StartStep DEF BeginMarketplace, Ops
<1>3. CASE BeginExtension(p)
  BY <1>1, <1>3, StartStep DEF BeginExtension, Ops
<1>4. CASE BeginDispatch(p)
  BY <1>4, StartStep DEF BeginDispatch, Ops
<1>. QED
  BY <1>2, <1>3, <1>4

(* What a process that only takes a lock, or none, has to show: it holds    *)
(* what it should where it goes, and nothing else is asked of it there.     *)
Waits == {"m_lock", "m_project", "m_stage", "m_remove", "i_lock", "i_project", "a_select", "r_environment",
          "r_disabled", "r_unpin", "x_disabled"} \cup EnsurePlaces \cup (DispatchPlaces \ {"running"})

LEMMA WaitsStep ==
    ASSUME StoreInv, SingleProject, NEW p \in Procs, NEW to \in Waits,
           process' = [process EXCEPT ![p].pc = to],
           FlocksWhole(flock'), Yields(p, flock, flock'),
           UNCHANGED <<user, pins, head, bounds>>,
           process[p].pc \notin Changing,
           to \in {"i_lock", "i_project"} \cup EnsurePlaces \cup Inside => process[p].id \in Extensions,
           to \in MarketplacesHeld => flock'["marketplaces"].exclusive = p,
           to \in InstallationsHeld => flock'["installations"].exclusive = p,
           to \in ProjectHeld => flock'[Project(p)].exclusive = p,
           to \in DispatchPlaces \ {"d_guard"} => p \in flock'[Project(p)].shared,
           to \in EnsurePlaces /\ process[p].op = "dispatch" => p \in flock'[Project(p)].shared
    PROVE  StoreInv'
<1>1. to \in Places
  BY DEF Waits, Places, StagePlaces, Inside, RemovePlaces
<1>2. /\ process' \in [Procs -> Tasks] /\ process'[p].pc = to
      /\ process'[p].op = process[p].op /\ process'[p].id = process[p].id
      /\ process'[p].name = process[p].name /\ process'[p].entry = process[p].entry
      /\ \A q \in Procs \ {p} : process'[q] = process[q]
  BY <1>1, MovesTo DEF StoreInv
<1>3. Formed(process'[p])
  BY <1>2 DEF StoreInv, Sound, Formed
<1>4. Noted(p)'
  BY <1>2 DEF StoreInv, Sound, Noted
<1>5. Holding(p)'
  BY <1>2 DEF Holding, SharedHeld, EnsurePlaces, DispatchPlaces
<1>6. to \notin {"m_place", "m_write", "r_wheels", "r_record", "running"} \cup AddPlaces
  BY DEF Waits, EnsurePlaces, DispatchPlaces, AddPlaces
<1>7. Sound(p)'
  BY <1>2, <1>3, <1>4, <1>5, <1>6 DEF Sound, Staging, Adding, Removing, Running, AddPlaces
<1>8. bounds' \in [operations : Nat, faults : Nat]
  BY DEF StoreInv, Typed
<1>. QED
  BY <1>2, <1>7, <1>8, QuietStep

LEMMA TakeStep ==
    ASSUME StoreInv, SingleProject, NEW p \in Procs, NEW lock \in Locks, NEW to \in Waits,
           Take(p, lock, to), UNCHANGED <<user, pins, head, bounds>>,
           process[p].pc \notin Changing,
           to \in {"i_lock", "i_project"} \cup EnsurePlaces \cup Inside => process[p].id \in Extensions,
           to \notin DispatchPlaces,
           to \in EnsurePlaces => process[p].pc \in EnsurePlaces,
           to \in MarketplacesHeld => lock = "marketplaces" \/ process[p].pc \in MarketplacesHeld,
           to \in InstallationsHeld => lock = "installations" \/ process[p].pc \in InstallationsHeld,
           to \in ProjectHeld => lock = Project(p) \/ process[p].pc \in ProjectHeld
    PROVE  StoreInv'
<1>1. /\ FlocksWhole(flock') /\ flock'[lock].exclusive = p
      /\ Yields(p, flock, flock') /\ Gains(p, flock, flock')
  BY Taken DEF Take, StoreInv, Typed, FlocksWhole
<1>2. Holding(p) /\ "marketplaces" \in Locks /\ "installations" \in Locks /\ Project(p) \in Locks
  BY ProjectIsLock DEF StoreInv, Sound, Locks
<1>3. /\ to \in MarketplacesHeld => flock'["marketplaces"].exclusive = p
      /\ to \in InstallationsHeld => flock'["installations"].exclusive = p
      /\ to \in ProjectHeld => flock'[Project(p)].exclusive = p
  BY <1>1, <1>2 DEF Holding, Gains
<1>4. to \in EnsurePlaces /\ process[p].op = "dispatch" => p \in flock'[Project(p)].shared
  BY <1>1, <1>2 DEF Holding, SharedHeld, Gains, EnsurePlaces
<1>5. process' = [process EXCEPT ![p].pc = to]
  BY DEF Take
<1>. QED
  BY <1>1, <1>3, <1>4, <1>5, WaitsStep DEF EnsurePlaces, DispatchPlaces

LEMMA StaysStep ==
    ASSUME StoreInv, SingleProject, NEW p \in Procs, NEW to \in Waits,
           Step(p, to), UNCHANGED <<user, pins, head, bounds>>,
           process[p].pc \notin Changing,
           to \in {"i_lock", "i_project"} \cup EnsurePlaces \cup Inside => process[p].id \in Extensions,
           to \in MarketplacesHeld => process[p].pc \in MarketplacesHeld,
           to \in InstallationsHeld => process[p].pc \in InstallationsHeld,
           to \in ProjectHeld => process[p].pc \in ProjectHeld,
           to \in DispatchPlaces \ {"d_guard"} => SharedHeld(process[p]),
           to \in EnsurePlaces /\ process[p].op = "dispatch" => SharedHeld(process[p])
    PROVE  StoreInv'
<1>1. flock' = flock /\ process' = [process EXCEPT ![p].pc = to] /\ Holding(p)
  BY DEF Step, StoreInv, Sound
<1>2. FlocksWhole(flock') /\ Yields(p, flock, flock')
  BY <1>1 DEF StoreInv, Typed, FlocksWhole, Yields
<1>. QED
  BY <1>1, <1>2, WaitsStep DEF Holding

LEMMA WhereItStands ==
    ASSUME StoreInv, NEW p \in Procs
    PROVE  /\ Sound(p) /\ Formed(process[p]) /\ Holding(p) /\ Staging(p) /\ Adding(p) /\ Removing(p)
           /\ "marketplaces" \in Locks /\ "installations" \in Locks /\ Project(p) \in Locks
BY ProjectIsLock DEF StoreInv, Sound, Locks

LEMMA LockSteps ==
    ASSUME StoreInv, SingleProject, NEW p \in Procs,
           \/ LockMarketplaces(p) \/ LockProjectToo(p) \/ LockInstallations(p) \/ LockProject(p)
    PROVE  StoreInv'
<1>. USE WhereItStands
<1>1. CASE LockMarketplaces(p)
  <2>1. process[p].pc \notin Changing
    BY <1>1 DEF LockMarketplaces, Changing
  <2>. QED
    BY <1>1, <2>1, TakeStep
       DEF LockMarketplaces, Waits, InstallationsHeld, ProjectHeld, EnsurePlaces, StagePlaces, Inside,
           AddPlaces, RemovePlaces, DispatchPlaces
<1>2. CASE LockProjectToo(p)
  <2>1. process[p].pc = "m_project" /\ process[p].pc \notin Changing /\ process[p].pc \in MarketplacesHeld
    BY <1>2 DEF LockProjectToo, Changing, MarketplacesHeld
  <2>2. ASSUME NEW to \in {"m_remove", "m_stage"}, Take(p, Project(p), to) PROVE StoreInv'
    BY <1>2, <2>1, <2>2, TakeStep
       DEF LockProjectToo, Waits, InstallationsHeld, EnsurePlaces, Inside, AddPlaces, RemovePlaces,
           DispatchPlaces
  <2>. QED
    BY <1>2, <2>2 DEF LockProjectToo
<1>3. CASE LockInstallations(p)
  <2>1. process[p].pc = "i_lock" /\ process[p].pc \notin Changing /\ process[p].id \in Extensions
    BY <1>3 DEF LockInstallations, Changing, Formed
  <2>. QED
    BY <1>3, <2>1, TakeStep
       DEF LockInstallations, Waits, MarketplacesHeld, ProjectHeld, EnsurePlaces, StagePlaces, Inside,
           AddPlaces, RemovePlaces, DispatchPlaces
<1>4. CASE LockProject(p)
  <2>1. /\ process[p].pc = "i_project" /\ process[p].pc \notin Changing /\ process[p].id \in Extensions
        /\ process[p].pc \in InstallationsHeld
    BY <1>4 DEF LockProject, Changing, Formed, InstallationsHeld
  <2>2. Sequel(process[p].op) \in {"a_select", "r_environment", "x_disabled"}
    BY DEF Sequel
  <2>3. ASSUME NEW to \in {"a_select", "r_environment", "x_disabled"}, Take(p, Project(p), to)
        PROVE  StoreInv'
    BY <1>4, <2>1, <2>3, TakeStep
       DEF LockProject, Waits, MarketplacesHeld, EnsurePlaces, StagePlaces, DispatchPlaces
  <2>. QED
    BY <1>4, <2>2, <2>3 DEF LockProject
<1>. QED
  BY <1>1, <1>2, <1>3, <1>4

LEMMA GuardStep ==
    ASSUME StoreInv, SingleProject, NEW p \in Procs, Guard(p)
    PROVE  StoreInv'
<1>1. /\ FlocksWhole(flock') /\ p \in flock'[Project(p)].shared /\ Yields(p, flock, flock')
  BY TakenShared, ProjectIsLock DEF Guard, TakeShared, StoreInv, Typed, FlocksWhole
<1>2. process[p].pc \notin Changing
  BY DEF Guard, Changing
<1>. QED
  BY <1>1, <1>2, WaitsStep
     DEF Guard, TakeShared, Waits, MarketplacesHeld, InstallationsHeld, ProjectHeld, EnsurePlaces,
         StagePlaces, Inside, AddPlaces, RemovePlaces, DispatchPlaces

LEMMA ReadPinStep ==
    ASSUME StoreInv, SingleProject, NEW p \in Procs, ReadPin(p)
    PROVE  StoreInv'
<1>1. process[p].pc = "d_pin" /\ process[p].pc \notin Changing /\ SharedHeld(process[p])
  BY DEF ReadPin, Changing, SharedHeld
<1>2. CASE Refused(p)
  BY <1>1, <1>2, RefusedStep
<1>3. CASE PinOf(p) # {} /\ Step(p, "e_lock") /\ UNCHANGED <<user, pins, head, bounds>>
  <2>1. process[p].id \in Extensions
    <3>1. pins[Project(p)] \subseteq Entry
      BY ProjectIsLock DEF StoreInv, Typed
    <3>. QED
      BY <1>3, <3>1 DEF PinOf, Entry
  <2>. QED
    BY <1>1, <1>3, <2>1, StaysStep
       DEF Waits, MarketplacesHeld, InstallationsHeld, ProjectHeld, EnsurePlaces, StagePlaces, Inside,
           AddPlaces, RemovePlaces, DispatchPlaces
<1>. QED
  BY <1>2, <1>3 DEF ReadPin

LEMMA EnsureLockStep ==
    ASSUME StoreInv, SingleProject, NEW p \in Procs, EnsureLock(p) \/ EnsureProject(p)
    PROVE  StoreInv'
<1>. USE WhereItStands
<1>1. process[p].pc \in EnsurePlaces /\ process[p].pc \notin Changing /\ process[p].id \in Extensions
  BY DEF EnsureLock, EnsureProject, EnsurePlaces, Changing, Formed
<1>2. CASE EnsureLock(p) /\ Step(p, AfterEnsure(p)) /\ process[p].op = "dispatch"
  <2>1. SharedHeld(process[p])
    BY <1>1, <1>2 DEF SharedHeld, EnsurePlaces
  <2>. QED
    BY <1>1, <1>2, <2>1, StaysStep
       DEF EnsureLock, AfterEnsure, Waits, MarketplacesHeld, InstallationsHeld, ProjectHeld,
           EnsurePlaces, StagePlaces, Inside, AddPlaces, RemovePlaces, DispatchPlaces
<1>3. CASE EnsureLock(p) /\ Step(p, AfterEnsure(p)) /\ process[p].op # "dispatch"
  BY <1>1, <1>3, StaysStep
     DEF EnsureLock, AfterEnsure, Waits, MarketplacesHeld, InstallationsHeld, ProjectHeld,
         EnsurePlaces, StagePlaces, Inside, AddPlaces, RemovePlaces, DispatchPlaces
<1>4. CASE EnsureLock(p) /\ Take(p, "marketplaces", "e_project")
  BY <1>1, <1>4, TakeStep
     DEF EnsureLock, Waits, InstallationsHeld, ProjectHeld, EnsurePlaces, StagePlaces, Inside, AddPlaces,
         RemovePlaces, DispatchPlaces
<1>5. CASE EnsureProject(p)
  <2>1. process[p].pc \in MarketplacesHeld
    BY <1>5 DEF EnsureProject, MarketplacesHeld
  <2>. QED
    BY <1>1, <1>5, <2>1, TakeStep
       DEF EnsureProject, Waits, InstallationsHeld, EnsurePlaces, Inside, AddPlaces, RemovePlaces,
           DispatchPlaces
<1>. QED
  BY <1>2, <1>3, <1>4, <1>5 DEF EnsureLock

(* A dispatch that resolved, twice, runs what it resolved.                  *)
LEMMA ResolveStep ==
    ASSUME StoreInv, SingleProject, NEW p \in Procs, Resolve(p)
    PROVE  StoreInv'
<1>1. process[p].pc = "d_resolve" /\ process[p].pc \notin Changing /\ SharedHeld(process[p])
  BY DEF Resolve, Changing, SharedHeld
<1>2. CASE Refused(p)
  BY <1>1, <1>2, RefusedStep
<1>3. ASSUME NEW entry \in PinOf(p), UNCHANGED <<flock, user, pins, head, bounds>>,
             process' = [process EXCEPT ![p].pc = "d_lease", ![p].entry = entry]
      PROVE  StoreInv'
  <2>1. entry \in Entry
    BY <1>3, ProjectIsLock DEF PinOf, StoreInv, Typed
  <2>2. /\ process' \in [Procs -> Tasks]
        /\ process'[p].pc = "d_lease" /\ process'[p].entry = entry
        /\ process'[p].op = process[p].op /\ process'[p].id = process[p].id
        /\ process'[p].name = process[p].name
        /\ \A q \in Procs \ {p} : process'[q] = process[q]
    BY <1>3, <2>1, MovesWith DEF Places, DispatchPlaces, StoreInv
  <2>3. Formed(process'[p])
    BY <2>2, WhereItStands DEF Formed, EnsurePlaces, Inside, AddPlaces, RemovePlaces
  <2>4. Noted(p)'
    BY <2>1, <2>2 DEF Noted
  <2>5. Holding(p)'
    BY <1>1, <1>3, <2>2, WhereItStands
       DEF Holding, MarketplacesHeld, InstallationsHeld, ProjectHeld, StagePlaces, Inside, AddPlaces,
           RemovePlaces
  <2>6. Sound(p)'
    BY <2>2, <2>3, <2>4, <2>5 DEF Sound, Staging, Adding, Removing, Running, AddPlaces
  <2>7. FlocksWhole(flock') /\ Yields(p, flock, flock')
    BY <1>3 DEF StoreInv, Typed, FlocksWhole, Yields
  <2>. QED
    BY <1>1, <1>3, <2>2, <2>6, <2>7, QuietStep DEF StoreInv, Typed
<1>. QED
  BY <1>2, <1>3 DEF Resolve

LEMMA LeaseStep ==
    ASSUME StoreInv, SingleProject, NEW p \in Procs, Lease(p)
    PROVE  StoreInv'
<1>1. process[p].pc = "d_lease" /\ process[p].pc \notin Changing /\ SharedHeld(process[p])
  BY DEF Lease, Changing, SharedHeld
<1>2. CASE Refused(p)
  BY <1>1, <1>2, RefusedStep
<1>3. CASE Resolves(Project(p), process[p].entry) /\ Step(p, "running") /\ UNCHANGED <<user, pins, head, bounds>>
  <2>1. /\ process' \in [Procs -> Tasks] /\ process'[p].pc = "running"
        /\ process'[p].op = process[p].op /\ process'[p].id = process[p].id
        /\ process'[p].name = process[p].name /\ process'[p].entry = process[p].entry
        /\ \A q \in Procs \ {p} : process'[q] = process[q]
    BY <1>3, MovesTo DEF Step, Places, DispatchPlaces, StoreInv
  <2>2. Formed(process'[p])
    BY <2>1, WhereItStands DEF Formed, EnsurePlaces, Inside, AddPlaces, RemovePlaces
  <2>3. Noted(p)'
    BY <1>3, <2>1, WhereItStands DEF Noted, Sound
  <2>4. flock' = flock
    BY <1>3 DEF Step
  <2>5. Holding(p)'
    BY <1>1, <2>1, <2>4, WhereItStands
       DEF Holding, MarketplacesHeld, InstallationsHeld, ProjectHeld, StagePlaces, Inside, AddPlaces,
           RemovePlaces
  <2>6. Running(p)'
    BY <1>3, <2>1 DEF Running, Resolves, Installation, user
  <2>7. Sound(p)'
    BY <2>1, <2>2, <2>3, <2>5, <2>6 DEF Sound, Staging, Adding, Removing, AddPlaces
  <2>8. FlocksWhole(flock') /\ Yields(p, flock, flock')
    BY <2>4 DEF StoreInv, Typed, FlocksWhole, Yields
  <2>. QED
    BY <1>1, <1>3, <2>1, <2>7, <2>8, QuietStep DEF StoreInv, Typed
<1>. QED
  BY <1>2, <1>3 DEF Lease

LEMMA FinishStep ==
    ASSUME StoreInv, SingleProject, NEW p \in Procs, Finish(p)
    PROVE  StoreInv'
BY ReturnQuiet DEF Finish, Changing, StoreInv, Typed

-----------------------------------------------------------------------------
(* The changes of the marketplaces.                                         *)

(* Where the extensions and pins stay and the history loses nothing, what   *)
(* resolves goes on resolving.                                              *)
LEMMA MarketResolvable ==
    ASSUME StoreInv, NEW p \in Procs, \A q \in Procs \ {p} : process'[q] = process[q],
           process[p].pc \notin Changing,
           UNCHANGED <<installations, disabled, environment, wheels, pins, bounds>>,
           pins = [j \in Projects |-> {}] \/ (history \subseteq history' /\ placed \subseteq placed'),
           Readable'
    PROVE  Resolvable'
<1>. SUFFICES ASSUME bounds'.faults = 0, NEW j \in Projects, NEW k \in pins'[j],
                     k.id \notin disabled', ~Changed(k.id)'
              PROVE  Resolves(j, k)'
  BY DEF Resolvable
<1>1. Resolves(j, k)
  BY StillChanged DEF StoreInv, Resolvable
<1>2. records' # {} /\ k \in pins[j]
  BY DEF Readable
<1>3. Kept(k.snapshot)'
  BY <1>1, <1>2 DEF Resolves, Kept
<1>. QED
  BY <1>1, <1>2, <1>3 DEF Resolves, Trusted, Installation

LEMMA StageSnapshotStep ==
    ASSUME StoreInv, SingleProject, NEW p \in Procs, StageSnapshot(p)
    PROVE  StoreInv'
<1>1. process[p].pc = "m_stage" /\ process[p].pc \notin Changing
  BY DEF StageSnapshot, Changing
<1>2. CASE Refused(p)
  BY <1>1, <1>2, RefusedStep
<1>3. CASE /\ (process[p].op = "add_marketplace") <=> (Selected(p) = {})
           /\ process' = [process EXCEPT ![p].pc = "m_place", ![p].entry.snapshot = head]
           /\ UNCHANGED <<flock, user, pins, head, bounds>>
  <2>1. head \in Nat /\ head \in Snapshots /\ process[p] \in Tasks
    BY NatHead DEF StoreInv, Typed
  <2>. DEFINE t == [process[p] EXCEPT !.pc = "m_place", !.entry.snapshot = head]
  <2>2. /\ t.pc = "m_place" /\ t.op = process[p].op /\ t.id = process[p].id /\ t.name = process[p].name
        /\ t.entry = [process[p].entry EXCEPT !.snapshot = head]
    BY <2>1 DEF Tasks
  <2>3. t.entry.snapshot = head /\ t.entry.id = process[p].entry.id
        /\ t.entry \in [id : Extensions \cup {"none"}, snapshot : Nat]
    BY <2>1, <2>2 DEF Tasks
  <2>4. t \in Tasks
    BY <2>1, <2>3 DEF Tasks, Places, StagePlaces
  <2>5. t.entry \in Entry \cup {[NoEntry EXCEPT !.snapshot = s] : s \in 0..head}
    <3>1. CASE process[p].entry \in Entry
      BY <2>1, <2>2, <3>1 DEF Entry
    <3>2. CASE process[p].entry \in {[NoEntry EXCEPT !.snapshot = s] : s \in 0..head}
      <4>1. PICK s \in 0..head : process[p].entry = [NoEntry EXCEPT !.snapshot = s]
        BY <3>2
      <4>2. t.entry = [NoEntry EXCEPT !.snapshot = head]
        BY <2>2, <4>1 DEF NoEntry
      <4>. QED
        BY <2>1, <4>2
    <3>. QED
      BY <3>1, <3>2, WhereItStands DEF Sound, Noted
  <2>. HIDE DEF t
  <2>6. /\ process' \in [Procs -> Tasks] /\ process'[p] = t
        /\ \A q \in Procs \ {p} : process'[q] = process[q]
    BY <1>3, <2>4 DEF t, StoreInv, Typed
  <2>7. Formed(t)
    BY <2>2, WhereItStands DEF Formed, EnsurePlaces, Inside, AddPlaces, RemovePlaces
  <2>8. Holding(p)'
    BY <1>1, <1>3, <2>2, <2>6, WhereItStands
       DEF Holding, MarketplacesHeld, InstallationsHeld, ProjectHeld, StagePlaces, Inside, AddPlaces,
           RemovePlaces, SharedHeld, EnsurePlaces
  <2>9. Staging(p)'
    BY <1>3, <2>1, <2>2, <2>3, <2>6 DEF Staging, Selected, Named, user
  <2>10. Noted(p)'
    BY <1>3, <2>5, <2>6 DEF Noted
  <2>11. Sound(p)'
    BY <2>2, <2>6, <2>7, <2>8, <2>9, <2>10 DEF Sound, Adding, Removing, Running, AddPlaces
  <2>12. FlocksWhole(flock') /\ Yields(p, flock, flock')
    BY <1>3 DEF StoreInv, Typed, FlocksWhole, Yields
  <2>. QED
    BY <1>1, <1>3, <2>6, <2>11, <2>12, QuietStep DEF StoreInv, Typed
<1>. QED
  BY <1>2, <1>3 DEF StageSnapshot

LEMMA PlaceSnapshotStep ==
    ASSUME StoreInv, SingleProject, NEW p \in Procs, PlaceSnapshot(p)
    PROVE  StoreInv'
<1>1. /\ process[p].pc = "m_place" /\ process[p].pc \notin Changing
      /\ UNCHANGED <<flock, configured, records, history, installations, disabled, environment, wheels,
                     pins, head, bounds>>
      /\ placed' = placed \cup {process[p].entry.snapshot}
      /\ process' = [process EXCEPT ![p].pc = "m_write"]
  BY DEF PlaceSnapshot, Changing, Step
<1>2. /\ process' \in [Procs -> Tasks] /\ process'[p].pc = "m_write"
      /\ process'[p].op = process[p].op /\ process'[p].id = process[p].id
      /\ process'[p].name = process[p].name /\ process'[p].entry = process[p].entry
      /\ \A q \in Procs \ {p} : process'[q] = process[q]
  BY <1>1, MovesTo DEF Places, StagePlaces, StoreInv
<1>3. process[p].entry.snapshot \in Snapshots
  BY <1>1, WhereItStands DEF Staging
<1>4. Typed'
  BY <1>1, <1>2, <1>3 DEF StoreInv, Typed
<1>5. Readable'
  BY <1>1 DEF StoreInv, Readable, StateReadable, OneClaim
<1>6. Formed(process'[p])
  BY <1>2, WhereItStands DEF Formed, EnsurePlaces, Inside, AddPlaces, RemovePlaces
<1>7. Holding(p)'
  BY <1>1, <1>2, WhereItStands
     DEF Holding, MarketplacesHeld, InstallationsHeld, ProjectHeld, StagePlaces, Inside, AddPlaces,
         RemovePlaces, SharedHeld, EnsurePlaces
<1>8. Staging(p)'
  BY <1>1, <1>2, WhereItStands DEF Staging, Selected, Named
<1>9. Noted(p)'
  BY <1>1, <1>2, WhereItStands DEF Noted, Sound
<1>10. Sound(p)'
  BY <1>2, <1>6, <1>7, <1>8, <1>9 DEF Sound, Adding, Removing, Running, AddPlaces
<1>11. Resolvable'
  BY <1>1, <1>2, <1>5, MarketResolvable
<1>12. Yields(p, flock, flock') /\ process[p].pc \in ProjectHeld
  BY <1>1 DEF Yields, ProjectHeld, StagePlaces
<1>. QED
  BY <1>1, <1>2, <1>4, <1>5, <1>10, <1>11, <1>12, OneSteps

(* A task that ends by writing.                                             *)
LEMMA WritesAndEnds ==
    ASSUME StoreInv, SingleProject, NEW p \in Procs, Return(p), head' = head,
           process[p].pc \in ProjectHeld,
           process' \in [Procs -> Tasks] /\ FlocksWhole(flock') => Typed',
           Readable', Resolvable'
    PROVE  StoreInv'
<1>1. /\ process' \in [Procs -> Tasks] /\ process'[p] = Idle
      /\ \A q \in Procs \ {p} : process'[q] = process[q]
  BY GoesIdle DEF Return, StoreInv
<1>2. FlocksWhole(flock') /\ Yields(p, flock, flock')
  BY ReleasedKeeps DEF Return, StoreInv, Typed, FlocksWhole
<1>3. Sound(p)'
  BY <1>1, IdleSound, NatHead DEF StoreInv
<1>. QED
  BY <1>1, <1>2, <1>3, OneSteps

LEMMA WriteMarketplacesStep ==
    ASSUME StoreInv, SingleProject, NEW p \in Procs, WriteMarketplaces(p)
    PROVE  StoreInv'
<1>. DEFINE s == process[p].entry.snapshot
<1>1. /\ process[p].pc = "m_write" /\ Return(p) /\ configured' = TRUE
      /\ UNCHANGED <<placed, installations, disabled, environment, wheels, pins, head, bounds>>
      /\ history' = history \cup {s}
      /\ records' = IF process[p].op = "add_marketplace"
                    THEN records \cup {[name |-> process[p].name, snapshot |-> s]}
                    ELSE Upgraded(p, s)
  BY DEF WriteMarketplaces, Remembered
<1>2. /\ s \in Snapshots /\ s \in placed
      /\ process[p].op = "add_marketplace" => Selected(p) = {} /\ process[p].name \in Names
  BY <1>1, WhereItStands DEF Staging, Formed
<1>. HIDE DEF s
<1>3. Typed /\ Readable
  BY DEF StoreInv
<1>4. /\ records' \subseteq [name : Names, snapshot : Snapshots]
      /\ \A r, q \in records' : r.name = q.name => r = q
      /\ \A r \in records' : r.snapshot \in history'
      /\ records # {} => records' # {}
  <2>1. CASE process[p].op = "add_marketplace"
    <3>1. \A r \in records : r.name # process[p].name
      BY <1>2, <2>1 DEF Selected, Named
    <3>. QED
      BY <1>1, <1>2, <1>3, <2>1, <3>1 DEF Typed, Readable, StateReadable
  <2>2. CASE process[p].op # "add_marketplace"
    <3>1. records' = Upgraded(p, s)
      BY <1>1, <2>2
    <3>2. \A r \in records : r \in [name : Names, snapshot : Snapshots]
      BY <1>3 DEF Typed
    <3>3. \A r \in records :
            [r EXCEPT !.snapshot = s] = [name |-> r.name, snapshot |-> s] /\ r.name \in Names
      BY <3>2
    <3>4. Selected(p) \subseteq records
      BY DEF Selected, Named
    <3>5. Upgraded(p, s) = (records \ Selected(p)) \cup {[name |-> r.name, snapshot |-> s] : r \in Selected(p)}
      <4>1. {[r EXCEPT !.snapshot = s] : r \in Selected(p)} = {[name |-> r.name, snapshot |-> s] : r \in Selected(p)}
        <5>1. \A r \in Selected(p) : [r EXCEPT !.snapshot = s] = [name |-> r.name, snapshot |-> s]
          BY <3>3, <3>4
        <5>. QED
          BY <5>1
      <4>. QED
        BY <4>1 DEF Upgraded
    <3>6. \A r \in records', q \in records' : r.name = q.name => r = q
      <4>1. \A r \in records \ Selected(p), q \in Selected(p) : r.name # q.name
        BY DEF Selected, Named
      <4>2. \A r, q \in records : r.name = q.name => r = q
        BY <1>3 DEF Readable, StateReadable
      <4>. QED
        BY <3>1, <3>5, <3>4, <4>1, <4>2
    <3>7. records' \subseteq [name : Names, snapshot : Snapshots]
      BY <1>2, <3>1, <3>2, <3>3, <3>5, <3>4
    <3>8. \A r \in records' : r.snapshot \in history'
      BY <1>1, <1>3, <3>1, <3>5, <3>4 DEF Readable, StateReadable
    <3>9. ASSUME NEW r \in records PROVE records' # {}
      <4>1. CASE r \in Selected(p)
        <5>1. [name |-> r.name, snapshot |-> s] \in {[name |-> x.name, snapshot |-> s] : x \in Selected(p)}
          BY <4>1
        <5>. QED
          BY <3>1, <3>5, <5>1
      <4>2. CASE r \notin Selected(p)
        BY <3>1, <3>5, <4>2
      <4>. QED
        BY <4>1, <4>2
    <3>. QED
      BY <3>6, <3>7, <3>8, <3>9
  <2>. QED
    BY <2>1, <2>2
<1>5. Readable'
  <2>1. history' \subseteq placed'
    BY <1>1, <1>2, <1>3 DEF Readable, StateReadable
  <2>2. \A j \in Projects : \A k \in pins[j] : k.snapshot \in history'
    BY <1>1, <1>3 DEF Readable, StateReadable
  <2>3. StateReadable'
    BY <1>1, <1>3, <1>4, <2>1, <2>2 DEF Readable, StateReadable
  <2>4. OneClaim'
    BY <1>1, <1>3 DEF Readable, OneClaim
  <2>. QED
    BY <1>1, <1>3, <1>4, <2>3, <2>4 DEF Readable
<1>6. Resolvable'
  <2>1. /\ \A q \in Procs \ {p} : process'[q] = process[q]
        /\ process[p].pc \notin Changing
    BY <1>1, <1>3, GoesIdle DEF Return, Changing
  <2>. QED
    BY <1>1, <1>5, <2>1, MarketResolvable
<1>7. process' \in [Procs -> Tasks] /\ FlocksWhole(flock') => Typed'
  BY <1>1, <1>2, <1>3, <1>4 DEF Typed, FlocksWhole
<1>8. process[p].pc \in ProjectHeld
  BY <1>1 DEF ProjectHeld, StagePlaces
<1>. QED
  BY <1>1, <1>5, <1>6, <1>7, <1>8, WritesAndEnds

(* The last source stays as long as anything is pinned.                     *)
LEMMA RemoveMarketplaceStep ==
    ASSUME StoreInv, SingleProject, NEW p \in Procs, RemoveMarketplace(p)
    PROVE  StoreInv'
<1>1. process[p].pc = "m_remove" /\ process[p].pc \notin Changing /\ process[p].pc \in ProjectHeld
  BY DEF RemoveMarketplace, Changing, ProjectHeld, StagePlaces
<1>2. CASE Refused(p)
  BY <1>1, <1>2, RefusedStep
<1>3. CASE /\ ~InUse(Project(p), process[p].name)
           /\ records' = records \ Named(process[p].name)
           /\ Return(p)
           /\ UNCHANGED <<configured, history, placed, installations, disabled, environment, wheels,
                          pins, head, bounds>>
  <2>1. Typed /\ Readable
    BY DEF StoreInv
  <2>2. \A j \in Projects : pins'[j] # {} => records' # {}
    BY <1>3, ProjectIsLock DEF InUse, SingleProject
  <2>3. Readable'
    BY <1>3, <2>1, <2>2 DEF Readable, StateReadable, OneClaim
  <2>4. process' \in [Procs -> Tasks] /\ FlocksWhole(flock') => Typed'
    BY <1>3, <2>1 DEF Typed, FlocksWhole
  <2>5. \A q \in Procs \ {p} : process'[q] = process[q]
    BY <1>3, <2>1, GoesIdle DEF Return
  <2>6. Resolvable'
    BY <1>1, <1>3, <2>3, <2>5, MarketResolvable
  <2>. QED
    BY <1>1, <1>3, <2>3, <2>4, <2>6, WritesAndEnds
<1>. QED
  BY <1>2, <1>3 DEF RemoveMarketplace

LEMMA OfficialIsName == Official \in Names
BY OrderAssumption DEF Official

(* On first use nothing is pinned, so that nothing is lost.                 *)
LEMMA EnsureOfficialStep ==
    ASSUME StoreInv, SingleProject, NEW p \in Procs, EnsureOfficial(p)
    PROVE  StoreInv'
<1>1. /\ process[p].pc = "e_write" /\ process[p].pc \notin Changing /\ process[p].pc \in ProjectHeld
      /\ UNCHANGED <<installations, disabled, environment, wheels, pins, head, bounds>>
      /\ process' = [process EXCEPT ![p].pc = AfterEnsure(p)]
      /\ flock' = [flock EXCEPT !["marketplaces"].exclusive = NoProcess,
                                ![Project(p)].exclusive = NoProcess]
  BY DEF EnsureOfficial, Changing, ProjectHeld
<1>2. Typed /\ Readable /\ process[p].id \in Extensions
  BY <1>1, WhereItStands DEF StoreInv, Formed, EnsurePlaces
<1>3. /\ flock["marketplaces"].exclusive = p /\ flock[Project(p)].exclusive = p
      /\ SharedHeld(process[p]) => p \in flock[Project(p)].shared
  BY <1>1, WhereItStands DEF Holding, MarketplacesHeld
<1>4. ~SharedHeld(process[p])
  BY <1>2, <1>3, NobodyAssumption, ProjectIsLock DEF Typed
<1>5. AfterEnsure(p) = "i_lock"
  BY <1>1, <1>4 DEF AfterEnsure, SharedHeld
<1>6. /\ process' \in [Procs -> Tasks] /\ process'[p].pc = "i_lock"
      /\ process'[p].op = process[p].op /\ process'[p].id = process[p].id
      /\ process'[p].name = process[p].name /\ process'[p].entry = process[p].entry
      /\ \A q \in Procs \ {p} : process'[q] = process[q]
  BY <1>1, <1>2, <1>5, MovesTo DEF Places
<1>7. FlocksWhole(flock') /\ Yields(p, flock, flock')
  BY <1>1, <1>2, <1>3, EnsureKeeps DEF Typed, FlocksWhole
<1>8. Formed(process'[p])
  BY <1>2, <1>6, WhereItStands DEF Formed
<1>9. Noted(p)'
  BY <1>1, <1>6, WhereItStands DEF Noted, Sound
<1>10. Holding(p)'
  BY <1>6 DEF Holding, MarketplacesHeld, InstallationsHeld, ProjectHeld, SharedHeld, StagePlaces, Inside,
              AddPlaces, RemovePlaces
<1>11. Sound(p)'
  BY <1>6, <1>8, <1>9, <1>10 DEF Sound, Staging, Adding, Removing, Running, AddPlaces
<1>12. CASE configured
  <2>1. UNCHANGED <<user, pins>>
    BY <1>1, <1>12 DEF EnsureOfficial, user
  <2>. QED
    BY <1>1, <1>2, <1>6, <1>7, <1>11, <2>1, QuietStep DEF Typed
<1>13. CASE ~configured
  <2>1. /\ configured' = TRUE /\ records' = {[name |-> Official, snapshot |-> head]}
        /\ history' = {head} /\ placed' = placed \cup {head}
    BY <1>13 DEF EnsureOfficial
  <2>2. \A j \in Projects : pins[j] = {}
    BY <1>2, <1>13 DEF Readable
  <2>3. Typed'
    <3>1. records' \subseteq [name : Names, snapshot : Snapshots]
      BY <1>2, <2>1, OfficialIsName DEF Typed
    <3>2. history' \subseteq Snapshots /\ placed' \subseteq Snapshots /\ configured' \in BOOLEAN
      BY <1>2, <2>1 DEF Typed
    <3>3. flock' \in Flocks /\ \A l \in Locks : flock'[l].exclusive # NoProcess => flock'[l].shared = {}
      BY <1>7 DEF FlocksWhole
    <3>. QED
      BY <1>1, <1>2, <1>6, <3>1, <3>2, <3>3 DEF Typed
  <2>4. Readable'
    BY <1>1, <1>2, <2>1, <2>2 DEF Readable, StateReadable, OneClaim
  <2>5. pins = [j \in Projects |-> {}]
    BY <1>2, <2>2 DEF Typed
  <2>6. Resolvable'
    BY <1>1, <1>6, <2>4, <2>5, MarketResolvable
  <2>. QED
    BY <1>1, <1>6, <1>7, <1>11, <2>3, <2>4, <2>6, OneSteps
<1>. QED
  BY <1>12, <1>13

-----------------------------------------------------------------------------
(* Inside the locks of an extension command.                                *)

LEMMA MovesInside ==
    ASSUME StoreInv, NEW p \in Procs, process[p].pc \in Inside, NEW to \in Inside,
           Step(p, to), head' = head
    PROVE  /\ process' \in [Procs -> Tasks] /\ process'[p].pc = to
           /\ process'[p].op = process[p].op /\ process'[p].id = process[p].id
           /\ process'[p].name = process[p].name /\ process'[p].entry = process[p].entry
           /\ \A q \in Procs \ {p} : process'[q] = process[q]
           /\ FlocksWhole(flock') /\ Yields(p, flock, flock') /\ flock' = flock
           /\ Formed(process'[p]) /\ Noted(p)' /\ Holding(p)'
           /\ process[p].id \in Extensions
<1>1. flock' = flock
  BY DEF Step
<1>2. /\ process' \in [Procs -> Tasks] /\ process'[p].pc = to
      /\ process'[p].op = process[p].op /\ process'[p].id = process[p].id
      /\ process'[p].name = process[p].name /\ process'[p].entry = process[p].entry
      /\ \A q \in Procs \ {p} : process'[q] = process[q]
  BY MovesTo DEF Step, Places, StoreInv
<1>3. FlocksWhole(flock') /\ Yields(p, flock, flock')
  BY <1>1 DEF StoreInv, Typed, FlocksWhole, Yields
<1>4. process[p].id \in Extensions /\ Formed(process'[p])
  BY <1>2, WhereItStands DEF Formed
<1>5. Noted(p)'
  BY <1>2, WhereItStands DEF Noted, Sound
<1>6. process[p].pc \in InstallationsHeld /\ process[p].pc \in ProjectHeld
  BY DEF InstallationsHeld, ProjectHeld
<1>7. ~SharedHeld(process'[p]) /\ to \notin MarketplacesHeld
  BY <1>2 DEF SharedHeld, Inside, AddPlaces, RemovePlaces, MarketplacesHeld, StagePlaces
<1>8. Holding(p)'
  BY <1>1, <1>2, <1>6, <1>7, WhereItStands DEF Holding
<1>. QED
  BY <1>1, <1>2, <1>3, <1>4, <1>5, <1>8

(* What an inside step has to show, and what its own checks are about.      *)
LEMMA InsideStep ==
    ASSUME StoreInv, SingleProject, NEW p \in Procs, process[p].pc \in Inside, NEW to \in Inside,
           Step(p, to), head' = head,
           process' \in [Procs -> Tasks] /\ FlocksWhole(flock') => Typed',
           Readable', Adding(p)', Removing(p)', Resolvable'
    PROVE  StoreInv'
<1>1. process[p].pc \in ProjectHeld
  BY DEF ProjectHeld
<1>2. to \notin {"m_place", "m_write", "running"}
  BY DEF Inside, AddPlaces, RemovePlaces
<1>3. Sound(p)'
  BY <1>2, MovesInside DEF Sound, Staging, Running
<1>. QED
  BY <1>1, <1>3, MovesInside, OneSteps

(* The catalog offers what is kept, and the claim is checked under the lock.*)
LEMMA SelectStep ==
    ASSUME StoreInv, SingleProject, NEW p \in Procs, Select(p)
    PROVE  StoreInv'
<1>1. process[p].pc = "a_select" /\ process[p].pc \notin Changing /\ process[p].pc \in Inside
  BY DEF Select, Changing, Inside
<1>2. CASE Refused(p)
  BY <1>1, <1>2, RefusedStep
<1>3. ASSUME NEW r \in Catalog(process[p].name), NEW entry,
             entry = [id |-> process[p].id, snapshot |-> r.snapshot],
             Kept(r.snapshot), Artifact(entry) \notin Incompatible, ~Claimed(Project(p), entry.id),
             process' = [process EXCEPT ![p].pc = "a_cache", ![p].entry = entry],
             UNCHANGED <<flock, user, pins, head, bounds>>
      PROVE  StoreInv'
  <2>1. r \in records /\ r.snapshot \in Snapshots
    BY <1>3 DEF Catalog, Speaker, StoreInv, Typed
  <2>2. process[p].id \in Extensions
    BY <1>1, WhereItStands DEF Formed
  <2>3. entry \in Entry /\ entry.id = process[p].id /\ entry.snapshot = r.snapshot
    BY <1>3, <2>1, <2>2 DEF Entry
  <2>4. /\ process' \in [Procs -> Tasks]
        /\ process'[p].pc = "a_cache" /\ process'[p].entry = entry
        /\ process'[p].op = process[p].op /\ process'[p].id = process[p].id
        /\ process'[p].name = process[p].name
        /\ \A q \in Procs \ {p} : process'[q] = process[q]
    <3>1. "a_cache" \in Places
      BY DEF Places, Inside, AddPlaces
    <3>2. process' = [process EXCEPT ![p].pc = "a_cache", ![p].entry = entry]
      BY <1>3
    <3>3. Typed
      BY DEF StoreInv
    <3>. QED
      BY <2>3, <3>1, <3>2, <3>3, MovesWith
  <2>5. Formed(process'[p])
    BY <2>2, <2>4, WhereItStands DEF Formed
  <2>6. Noted(p)'
    BY <2>3, <2>4 DEF Noted
  <2>7. Holding(p)'
    <3>1. /\ "a_cache" \notin MarketplacesHeld /\ ~SharedHeld(process'[p])
          /\ process[p].pc \in InstallationsHeld /\ process[p].pc \in ProjectHeld
      BY <1>1, <2>4 DEF SharedHeld, EnsurePlaces, MarketplacesHeld, StagePlaces, InstallationsHeld, ProjectHeld
    <3>. QED
      BY <1>3, <2>4, <3>1, WhereItStands DEF Holding
  <2>8. Kept(entry.snapshot)' /\ ~Claimed(Project(p), entry.id)' /\ Trusted'
    BY <1>3, <2>1, <2>3 DEF Kept, Claimed, Trusted, user
  <2>9. Adding(p)'
    BY <1>3, <2>3, <2>4, <2>8 DEF Adding, Chosen, AddPlaces
  <2>10. Sound(p)'
    BY <2>4, <2>5, <2>6, <2>7, <2>9 DEF Sound, Staging, Removing, Running
  <2>11. FlocksWhole(flock') /\ Yields(p, flock, flock')
    BY <1>3 DEF StoreInv, Typed, FlocksWhole, Yields
  <2>. QED
    BY <1>1, <1>3, <2>4, <2>10, <2>11, QuietStep DEF StoreInv, Typed
<1>. QED
  BY <1>2, <1>3 DEF Select

LEMMA ChosenStays ==
    ASSUME NEW p, Chosen(p), process'[p].entry = process[p].entry, process'[p].id = process[p].id,
           UNCHANGED <<records, history, placed, disabled, pins>>
    PROVE  Chosen(p)'
BY DEF Chosen, Kept, Claimed, Trusted

(* Resolving is kept by what adds wheels and leaves the rest.               *)
LEMMA CacheWheelsStep ==
    ASSUME StoreInv, SingleProject, NEW p \in Procs, CacheWheels(p)
    PROVE  StoreInv'
<1>1. /\ process[p].pc = "a_cache" /\ process[p].pc \notin Changing /\ process[p].pc \in Inside
      /\ process[p].pc \in ProjectHeld
      /\ UNCHANGED <<configured, records, history, placed, installations, disabled, environment, pins, head>>
  BY DEF CacheWheels, Changing, Inside, AddPlaces, ProjectHeld
<1>2. wheels \subseteq wheels' /\ bounds' \in [operations : Nat, faults : Nat]
      /\ (bounds'.faults = 0 => bounds.faults = 0)
  BY DEF CacheWheels, StoreInv, Typed
<1>3. Readable'
  BY <1>1 DEF StoreInv, Readable, StateReadable, OneClaim
<1>4. process' \in [Procs -> Tasks] /\ FlocksWhole(flock') => Typed'
  BY <1>1, <1>2 DEF StoreInv, Typed, FlocksWhole
<1>5. ASSUME \A q \in Procs \ {p} : process'[q] = process[q] PROVE Resolvable'
  <2>. SUFFICES ASSUME bounds'.faults = 0, NEW j \in Projects, NEW k \in pins'[j],
                       k.id \notin disabled', ~Changed(k.id)'
                PROVE  Resolves(j, k)'
    BY DEF Resolvable
  <2>1. ~Changed(k.id)
    BY <1>1, <1>5, StillChanged
  <2>2. Resolves(j, k)
    BY <1>1, <1>2, <2>1 DEF StoreInv, Resolvable
  <2>. QED
    BY <1>1, <1>2, <2>2 DEF Resolves, Trusted, Kept, Installation
<1>6. CASE /\ Step(p, "a_rebuild")
           /\ wheels' = wheels \cup WheelsOf(Artifact(process[p].entry))
  <2>1. "a_rebuild" \in Inside
    BY DEF Inside, AddPlaces
  <2>2. /\ process'[p].pc = "a_rebuild" /\ process'[p].id = process[p].id
        /\ process'[p].entry = process[p].entry
        /\ \A q \in Procs \ {p} : process'[q] = process[q]
    BY <1>1, <1>6, <2>1, MovesInside
  <2>3. Chosen(p)
    BY <1>1, WhereItStands DEF Adding, AddPlaces
  <2>4. Chosen(p)'
    BY <1>1, <2>2, <2>3, ChosenStays
  <2>5. Adding(p)'
    BY <1>6, <2>2, <2>4 DEF Adding
  <2>6. Removing(p)'
    BY <2>2 DEF Removing
  <2>. QED
    BY <1>1, <1>3, <1>4, <1>5, <1>6, <2>1, <2>2, <2>5, <2>6, InsideStep
<1>7. CASE Return(p)
  <2>1. \A q \in Procs \ {p} : process'[q] = process[q]
    BY <1>7, GoesIdle DEF Return, StoreInv
  <2>. QED
    BY <1>1, <1>3, <1>4, <1>5, <1>7, <2>1, WritesAndEnds
<1>. QED
  BY <1>6, <1>7 DEF CacheWheels

(* An extension that is being changed is not among those asked about.       *)
LEMMA NotChanged ==
    ASSUME NEW p \in Procs, process'[p].pc \in Changing, NEW k, ~Changed(k.id)'
    PROVE  k.id # process'[p].id
BY DEF Changed

LEMMA OtherArtifact ==
    ASSUME NEW k, NEW entry, k.id # entry.id
    PROVE  Artifact(k) # Artifact(entry)
BY DEF Artifact

LEMMA ArtifactIn ==
    ASSUME NEW entry \in Entry
    PROVE  Artifact(entry) \in Artifacts
BY DEF Artifact, Artifacts, Entry

(* A step that changes the environment of its own extension only.           *)
LEMMA EnvironmentResolvable ==
    ASSUME StoreInv, NEW p \in Procs, \A q \in Procs \ {p} : process'[q] = process[q],
           process[p].pc \in Changing => process'[p].pc \in Changing /\ process'[p].id = process[p].id,
           UNCHANGED <<records, history, placed, installations, disabled, wheels, pins>>,
           bounds'.faults = 0 => bounds.faults = 0,
           NEW a, \A b \in Artifacts : b # a => environment'[b] = environment[b],
           \A j \in Projects : \A k \in pins[j] : Artifact(k) = a =>
             Changed(k.id)' \/ bounds'.faults # 0 \/ environment'[a] = environment[a]
    PROVE  Resolvable'
<1>. SUFFICES ASSUME bounds'.faults = 0, NEW j \in Projects, NEW k \in pins'[j],
                     k.id \notin disabled', ~Changed(k.id)'
              PROVE  Resolves(j, k)'
  BY DEF Resolvable
<1>1. Resolves(j, k)
  BY StillChanged DEF StoreInv, Resolvable
<1>2. k \in Entry
  BY DEF StoreInv, Typed
<1>3. environment'[Artifact(k)] = environment[Artifact(k)]
  BY <1>2, ArtifactIn
<1>. QED
  BY <1>1, <1>3 DEF Resolves, Trusted, Kept, Installation

LEMMA SamePinned ==
    ASSUME Readable, UNCHANGED <<configured, records, history, placed, installations, disabled, pins>>
    PROVE  Readable'
BY DEF Readable, StateReadable, OneClaim

LEMMA ClearEnvironmentStep ==
    ASSUME StoreInv, SingleProject, NEW p \in Procs, ClearEnvironment(p)
    PROVE  StoreInv'
<1>. DEFINE entry == process[p].entry
<1>1. process[p].pc = "a_rebuild" /\ process[p].pc \notin Changing /\ process[p].pc \in Inside
  BY DEF ClearEnvironment, Changing, Inside, AddPlaces
<1>2. CASE Refused(p)
  BY <1>1, <1>2, RefusedStep
<1>3. Chosen(p) /\ WheelsOf(Artifact(entry)) \subseteq wheels
  BY <1>1, WhereItStands DEF Adding, AddPlaces
<1>4. entry \in Entry /\ entry.id = process[p].id /\ Artifact(entry) \in Artifacts
  BY <1>3, ArtifactIn DEF Chosen
<1>5. CASE /\ Keeps(entry) /\ environment' = environment /\ Step(p, "a_record")
           /\ UNCHANGED <<configured, records, history, placed, installations, disabled, wheels,
                             pins, head, bounds>>
  <2>1. "a_record" \in Inside /\ "a_record" \in Changing
    BY DEF Inside, AddPlaces, Changing
  <2>2. /\ process'[p].pc = "a_record" /\ process'[p].id = process[p].id
        /\ process'[p].entry = process[p].entry
        /\ \A q \in Procs \ {p} : process'[q] = process[q]
    BY <1>1, <1>5, <2>1, MovesInside
  <2>3. Chosen(p)'
    BY <1>3, <1>5, <2>2, ChosenStays
  <2>4. Adding(p)' /\ Removing(p)'
    BY <1>3, <1>5, <2>2, <2>3 DEF Adding, Removing, Keeps
  <2>5. Readable' /\ (process' \in [Procs -> Tasks] /\ FlocksWhole(flock') => Typed')
    BY <1>5, SamePinned DEF StoreInv, Typed, FlocksWhole
  <2>6. Resolvable'
    BY <1>1, <1>5, <2>2, EnvironmentResolvable
  <2>. QED
    BY <1>1, <1>5, <2>1, <2>4, <2>5, <2>6, InsideStep
<1>6. CASE /\ environment' = [environment EXCEPT ![Artifact(entry)] = "absent"] /\ Step(p, "a_build")
           /\ UNCHANGED <<configured, records, history, placed, installations, disabled, wheels,
                             pins, head, bounds>>
  <2>1. "a_build" \in Inside /\ "a_build" \in Changing
    BY DEF Inside, AddPlaces, Changing
  <2>2. /\ process'[p].pc = "a_build" /\ process'[p].id = process[p].id
        /\ process'[p].entry = process[p].entry
        /\ \A q \in Procs \ {p} : process'[q] = process[q]
    BY <1>1, <1>6, <2>1, MovesInside
  <2>3. Chosen(p)'
    BY <1>3, <1>6, <2>2, ChosenStays
  <2>4. Adding(p)' /\ Removing(p)'
    BY <1>3, <1>6, <2>2, <2>3 DEF Adding, Removing
  <2>5. Readable' /\ (process' \in [Procs -> Tasks] /\ FlocksWhole(flock') => Typed')
    BY <1>6, SamePinned DEF StoreInv, Typed, FlocksWhole
  <2>6. \A b \in Artifacts : b # Artifact(entry) => environment'[b] = environment[b]
    BY <1>6 DEF StoreInv, Typed
  <2>7. \A k : Artifact(k) = Artifact(entry) => Changed(k.id)'
    BY <1>4, <2>1, <2>2, NotChanged, OtherArtifact
  <2>8. Resolvable'
    BY <1>1, <1>6, <2>2, <2>6, <2>7, EnvironmentResolvable
  <2>. QED
    BY <1>1, <1>6, <2>1, <2>4, <2>5, <2>8, InsideStep
<1>. QED
  BY <1>2, <1>5, <1>6 DEF ClearEnvironment

LEMMA BuildEnvironmentStep ==
    ASSUME StoreInv, SingleProject, NEW p \in Procs, BuildEnvironment(p)
    PROVE  StoreInv'
<1>. DEFINE entry == process[p].entry
<1>1. /\ process[p].pc = "a_build" /\ process[p].pc \in Changing /\ process[p].pc \in Inside
      /\ process[p].pc \in ProjectHeld
      /\ UNCHANGED <<configured, records, history, placed, installations, disabled, wheels, pins, head>>
  BY DEF BuildEnvironment, Changing, Inside, AddPlaces, ProjectHeld
<1>2. Chosen(p) /\ WheelsOf(Artifact(entry)) \subseteq wheels
  BY <1>1, WhereItStands DEF Adding, AddPlaces
<1>3. entry \in Entry /\ entry.id = process[p].id /\ Artifact(entry) \in Artifacts
  BY <1>2, ArtifactIn DEF Chosen
<1>4. Readable'
  BY <1>1, SamePinned DEF StoreInv
<1>5. CASE /\ environment' = [environment EXCEPT ![Artifact(entry)] = "sealed"]
           /\ Step(p, "a_record") /\ bounds' = bounds
  <2>1. "a_record" \in Inside /\ "a_record" \in Changing
    BY DEF Inside, AddPlaces, Changing
  <2>2. /\ process'[p].pc = "a_record" /\ process'[p].id = process[p].id
        /\ process'[p].entry = process[p].entry
        /\ \A q \in Procs \ {p} : process'[q] = process[q]
    BY <1>1, <1>5, <2>1, MovesInside
  <2>3. environment'[Artifact(entry)] = "sealed"
    BY <1>3, <1>5 DEF StoreInv, Typed
  <2>4. Chosen(p)'
    BY <1>1, <1>2, <2>2, ChosenStays
  <2>5. Adding(p)' /\ Removing(p)'
    BY <1>1, <1>2, <2>2, <2>3, <2>4 DEF Adding, Removing
  <2>6. process' \in [Procs -> Tasks] /\ FlocksWhole(flock') => Typed'
    BY <1>1, <1>5 DEF StoreInv, Typed, FlocksWhole
  <2>7. \A b \in Artifacts : b # Artifact(entry) => environment'[b] = environment[b]
    BY <1>5 DEF StoreInv, Typed
  <2>8. \A k : Artifact(k) = Artifact(entry) => Changed(k.id)'
    BY <1>3, <2>1, <2>2, NotChanged, OtherArtifact
  <2>9. Resolvable'
    BY <1>1, <1>5, <2>1, <2>2, <2>7, <2>8, EnvironmentResolvable
  <2>. QED
    BY <1>1, <1>4, <1>5, <2>1, <2>5, <2>6, <2>9, InsideStep
<1>6. CASE /\ bounds' = [bounds EXCEPT !.faults = @ + 1] /\ Return(p)
           /\ environment' \in {environment, [environment EXCEPT ![Artifact(entry)] = "altered"]}
  <2>1. bounds' \in [operations : Nat, faults : Nat] /\ bounds'.faults # 0
    BY <1>6 DEF StoreInv, Typed
  <2>2. environment' \in [Artifacts -> {"absent", "sealed", "altered", "foreign"}]
    BY <1>6 DEF StoreInv, Typed
  <2>3. process' \in [Procs -> Tasks] /\ FlocksWhole(flock') => Typed'
    BY <1>1, <2>1, <2>2 DEF StoreInv, Typed, FlocksWhole
  <2>4. Resolvable'
    BY <2>1 DEF Resolvable
  <2>. QED
    BY <1>1, <1>4, <1>6, <2>3, <2>4, WritesAndEnds
<1>. QED
  BY <1>5, <1>6 DEF BuildEnvironment

LEMMA InstallationIs ==
    ASSUME NEW entry \in Entry
    PROVE  Installation(entry) = entry
BY DEF Installation, Entry

(* The steps of a command that goes on changing the same extension.         *)
LEMMA ChangesOn ==
    ASSUME StoreInv, SingleProject, NEW p \in Procs, process[p].pc \in Changing,
           NEW to \in Changing, Step(p, to), UNCHANGED <<head, bounds>>,
           Typed /\ process' \in [Procs -> Tasks] /\ FlocksWhole(flock') => Typed',
           Readable',
           process'[p].pc = to /\ process'[p].id = process[p].id /\ process'[p].entry = process[p].entry =>
             Adding(p)' /\ Removing(p)',
           \A j \in Projects : \A k \in pins'[j] :
             k.id # process[p].id /\ k.id \notin disabled' =>
               k \in pins[j] /\ k.id \notin disabled /\ (Resolves(j, k) => Resolves(j, k)')
    PROVE  StoreInv'
<1>1. process[p].pc \in Inside /\ to \in Inside
  BY DEF Changing, Inside, AddPlaces, RemovePlaces
<1>2. /\ process'[p].pc = to /\ process'[p].id = process[p].id /\ process'[p].entry = process[p].entry
      /\ \A q \in Procs \ {p} : process'[q] = process[q]
  BY <1>1, MovesInside
<1>3. Resolvable'
  <2>. SUFFICES ASSUME bounds'.faults = 0, NEW j \in Projects, NEW k \in pins'[j],
                       k.id \notin disabled', ~Changed(k.id)'
                PROVE  Resolves(j, k)'
    BY DEF Resolvable
  <2>1. k.id # process[p].id
    BY <1>2 DEF Changed
  <2>2. ~Changed(k.id)
    BY <1>2, StillChanged
  <2>. QED
    BY <2>1, <2>2 DEF StoreInv, Resolvable
<1>. QED
  BY <1>1, <1>2, <1>3, InsideStep DEF StoreInv

(* ... and of one that ends having changed it.                              *)
LEMMA ChangesEnd ==
    ASSUME StoreInv, SingleProject, NEW p \in Procs, process[p].pc \in Changing,
           Return(p), UNCHANGED <<head, bounds>>,
           Typed /\ process' \in [Procs -> Tasks] /\ FlocksWhole(flock') => Typed',
           Readable',
           \A j \in Projects : \A k \in pins'[j] :
             \/ Resolves(j, k)'
             \/ k.id # process[p].id /\ k \in pins[j] /\ (Resolves(j, k) => Resolves(j, k)'),
           disabled' = disabled
    PROVE  StoreInv'
<1>1. process[p].pc \in ProjectHeld
  BY DEF Changing, ProjectHeld, Inside, AddPlaces, RemovePlaces
<1>2. \A q \in Procs \ {p} : process'[q] = process[q]
  BY GoesIdle DEF Return, StoreInv
<1>3. Resolvable'
  <2>. SUFFICES ASSUME bounds'.faults = 0, NEW j \in Projects, NEW k \in pins'[j],
                       k.id \notin disabled', ~Changed(k.id)', ~Resolves(j, k)'
                PROVE  FALSE
    BY DEF Resolvable
  <2>1. ~Changed(k.id)
    BY <1>2 DEF Changed
  <2>. QED
    BY <2>1 DEF StoreInv, Resolvable
<1>. QED
  BY <1>1, <1>3, WritesAndEnds DEF StoreInv

LEMMA RecordInstallationStep ==
    ASSUME StoreInv, SingleProject, NEW p \in Procs, RecordInstallation(p)
    PROVE  StoreInv'
<1>. DEFINE entry == process[p].entry
<1>1. /\ process[p].pc = "a_record" /\ process[p].pc \in Changing /\ "a_enable" \in Changing
      /\ Step(p, "a_enable") /\ installations' = Others(entry) \cup {Installation(entry)}
      /\ UNCHANGED <<configured, records, history, placed, disabled, environment, wheels, pins, head, bounds>>
  BY DEF RecordInstallation, Changing
<1>2. Chosen(p) /\ WheelsOf(Artifact(entry)) \subseteq wheels /\ environment[Artifact(entry)] = "sealed"
  BY <1>1, WhereItStands DEF Adding, AddPlaces
<1>3. entry \in Entry /\ entry.id = process[p].id /\ Installation(entry) = entry
  BY <1>2, InstallationIs DEF Chosen
<1>4. Typed /\ Readable
  BY DEF StoreInv
<1>5. installations' \subseteq Entry
  BY <1>1, <1>3, <1>4 DEF Typed, Others
<1>6. \A i, k \in installations' : Artifact(i) = Artifact(k) => i = k
  BY <1>1, <1>3, <1>4 DEF Others, Readable, StateReadable
<1>7. Readable'
  BY <1>1, <1>4, <1>6 DEF Readable, StateReadable, OneClaim
<1>8. Typed /\ process' \in [Procs -> Tasks] /\ FlocksWhole(flock') => Typed'
  BY <1>1, <1>5 DEF Typed, FlocksWhole
<1>9. ASSUME process'[p].pc = "a_enable", process'[p].id = process[p].id, process'[p].entry = entry
      PROVE  Adding(p)' /\ Removing(p)'
  <2>1. Chosen(p)'
    BY <1>1, <1>2, <1>9, ChosenStays
  <2>2. (entry \in installations)'
    BY <1>1, <1>3, <1>9
  <2>. QED
    BY <1>1, <1>2, <1>3, <1>9, <2>1, <2>2 DEF Adding, Removing, Recorded
<1>10. ASSUME NEW j \in Projects, NEW k \in pins'[j], k.id # process[p].id, Resolves(j, k)
       PROVE  Resolves(j, k)'
  <2>1. Installation(k) = k /\ Artifact(k) # Artifact(entry)
    BY <1>1, <1>3, <1>4, <1>10, InstallationIs, OtherArtifact DEF Typed
  <2>2. k \in installations'
    BY <1>1, <1>10, <2>1 DEF Resolves, Others
  <2>. QED
    BY <1>1, <1>10, <2>1, <2>2 DEF Resolves, Trusted, Kept
<1>. QED
  BY <1>1, <1>7, <1>8, <1>9, <1>10, ChangesOn

(* The claim was checked when the extension was selected; nobody pins or    *)
(* enables another one in between.                                          *)
LEMMA EnableStep ==
    ASSUME StoreInv, SingleProject, NEW p \in Procs, Enable(p)
    PROVE  StoreInv'
<1>. DEFINE id == process[p].id
<1>1. /\ process[p].pc = "a_enable" /\ process[p].pc \in Changing /\ "a_pin" \in Changing
      /\ Step(p, "a_pin") /\ disabled' = disabled \ {id}
      /\ UNCHANGED <<configured, records, history, placed, installations, environment, wheels, pins, head,
                     bounds>>
  BY DEF Enable, Changing
<1>2. Chosen(p) /\ Adding(p)
  BY <1>1, WhereItStands DEF Adding, AddPlaces
<1>3. Typed /\ Readable
  BY DEF StoreInv
<1>4. ASSUME NEW x, x = id PROVE ~Claimed(Project(p), x)'
  <2>1. ~Claimed(Project(p), x)
    BY <1>2, <1>4 DEF Chosen
  <2>2. \A pin \in pins[Project(p)] : pin.id # x => (pin.id \notin disabled' <=> pin.id \notin disabled)
    BY <1>1, <1>4
  <2>. QED
    BY <1>1, <2>1, <2>2 DEF Claimed
<1>5. OneClaim'
  <2>. SUFFICES ASSUME NEW j \in Projects, NEW i \in pins[j], NEW k \in pins[j],
                       i.id \notin disabled', k.id \notin disabled',
                       System[i.id] \in {System[k.id]} \ {NoSystem}
                PROVE  i = k
    BY <1>1 DEF OneClaim
  <2>1. j = Project(p)
    BY ProjectIsLock DEF SingleProject
  <2>2. CASE i.id = k.id
    BY <1>3, <2>2 DEF Readable, StateReadable
  <2>3. CASE i.id # k.id /\ i.id = id
    <3>1. ~Claimed(j, i.id)'
      BY <1>4, <2>1, <2>3
    <3>. QED
      BY <1>1, <2>3, <3>1 DEF Claimed
  <2>4. CASE i.id # k.id /\ k.id = id
    <3>1. ~Claimed(j, k.id)'
      BY <1>4, <2>1, <2>4
    <3>. QED
      BY <1>1, <2>4, <3>1 DEF Claimed
  <2>5. CASE i.id # id /\ k.id # id
    BY <1>1, <1>3, <2>5 DEF Readable, OneClaim
  <2>. QED
    BY <2>2, <2>3, <2>4, <2>5
<1>6. Readable'
  BY <1>1, <1>3, <1>5 DEF Readable, StateReadable
<1>7. Typed /\ process' \in [Procs -> Tasks] /\ FlocksWhole(flock') => Typed'
  BY <1>1 DEF Typed, FlocksWhole
<1>8. ASSUME process'[p].pc = "a_pin", process'[p].id = process[p].id,
             process'[p].entry = process[p].entry
      PROVE  Adding(p)' /\ Removing(p)'
  <2>1. Chosen(p)'
    <3>1. (~Claimed(Project(p), process[p].id))'
      BY <1>4, <1>8
    <3>. QED
      BY <1>1, <1>2, <1>8, <3>1 DEF Chosen, Kept, Trusted
  <2>2. id \notin disabled'
    BY <1>1
  <2>. QED
    BY <1>1, <1>2, <1>8, <2>1, <2>2 DEF Adding, Removing, Recorded, Installation, AddPlaces
<1>9. ASSUME NEW j \in Projects, NEW k \in pins'[j], k.id # id, k.id \notin disabled'
      PROVE  k \in pins[j] /\ k.id \notin disabled /\ (Resolves(j, k) => Resolves(j, k)')
  BY <1>1, <1>9 DEF Resolves, Trusted, Kept, Installation
<1>. QED
  BY <1>1, <1>6, <1>7, <1>8, <1>9, ChangesOn

(* What an add pins resolves.                                               *)
LEMMA PinResolves ==
    ASSUME StoreInv, NEW p \in Procs, Pin(p)
    PROVE  /\ process[p].entry \in Entry /\ process[p].entry.id = process[p].id
           /\ pins'[Project(p)] = {k \in pins[Project(p)] : k.id # process[p].id} \cup {process[p].entry}
           /\ \A j \in Projects \ {Project(p)} : pins'[j] = pins[j]
           /\ pins' \in [Projects -> SUBSET Entry]
           /\ UNCHANGED <<configured, records, history, placed, installations, disabled, environment,
                          wheels, head, bounds>>
           /\ \A e : e = process[p].entry => Resolves(Project(p), e)'
<1>. DEFINE entry == process[p].entry
<1>1. process[p].pc = "a_pin"
      /\ UNCHANGED <<configured, records, history, placed, installations, disabled, environment, wheels,
                     head, bounds>>
  BY DEF Pin, user
<1>2. Chosen(p) /\ Adding(p)
  BY <1>1, WhereItStands DEF Adding, AddPlaces
<1>3. entry \in Entry /\ entry.id = process[p].id
  BY <1>2 DEF Chosen
<1>4. /\ pins'[Project(p)] = {k \in pins[Project(p)] : k.id # process[p].id} \cup {entry}
      /\ \A j \in Projects \ {Project(p)} : pins'[j] = pins[j]
      /\ pins' \in [Projects -> SUBSET Entry]
  BY <1>3, ProjectIsLock DEF Pin, StoreInv, Typed
<1>5. /\ entry \in pins'[Project(p)] /\ entry.id \notin disabled'
      /\ Kept(entry.snapshot) /\ Artifact(entry) \notin Incompatible /\ Trusted
      /\ Installation(entry) \in installations /\ WheelsOf(Artifact(entry)) \subseteq wheels
      /\ environment[Artifact(entry)] = "sealed"
  BY <1>1, <1>2, <1>3, <1>4 DEF Adding, Chosen, Recorded, AddPlaces
<1>6. \A e : e = entry => Resolves(Project(p), e)'
  BY <1>1, <1>5 DEF Resolves, Kept, Trusted, Installation
<1>. QED
  BY <1>1, <1>3, <1>4, <1>6

LEMMA PinStep ==
    ASSUME StoreInv, SingleProject, NEW p \in Procs, Pin(p)
    PROVE  StoreInv'
<1>1. /\ process[p].pc = "a_pin" /\ process[p].pc \in Changing /\ Return(p)
      /\ UNCHANGED <<configured, records, history, placed, installations, disabled, environment, wheels,
                     head, bounds>>
  BY DEF Pin, user, Changing
<1>2. Chosen(p)
  BY <1>1, WhereItStands DEF Adding, AddPlaces
<1>3. PICK entry : entry = process[p].entry
  OBVIOUS
<1>4. /\ entry \in Entry /\ entry.id = process[p].id
      /\ pins'[Project(p)] = {k \in pins[Project(p)] : k.id # process[p].id} \cup {entry}
      /\ \A j \in Projects : j = Project(p)
      /\ pins' \in [Projects -> SUBSET Entry]
      /\ Resolves(Project(p), entry)'
  BY <1>3, PinResolves, ProjectIsLock DEF SingleProject
<1>5. Typed /\ Readable
  BY DEF StoreInv
<1>6. StateReadable'
  <2>1. \A i, k \in pins[Project(p)] : i.id = k.id => i = k
    BY <1>5, ProjectIsLock DEF Readable, StateReadable
  <2>2. \A i, k \in pins'[Project(p)] : i.id = k.id => i = k
    BY <1>4, <2>1
  <2>3. entry.snapshot \in history
    BY <1>2, <1>3 DEF Chosen, Kept
  <2>4. configured => \A k \in pins'[Project(p)] : k.snapshot \in history
    BY <1>4, <1>5, <2>3, ProjectIsLock DEF Readable, StateReadable
  <2>. QED
    BY <1>1, <1>4, <1>5, <2>2, <2>4 DEF Readable, StateReadable
<1>7. OneClaim'
  <2>1. \A k \in pins[Project(p)] : k.id # entry.id /\ k.id \notin disabled =>
          ~(System[entry.id] \in {System[k.id]} \ {NoSystem})
    BY <1>2, <1>3, <1>4 DEF Chosen, Claimed
  <2>2. \A i, k \in pins[Project(p)] :
          i.id \notin disabled /\ k.id \notin disabled /\ System[i.id] \in {System[k.id]} \ {NoSystem} => i = k
    BY <1>5, ProjectIsLock DEF Readable, OneClaim
  <2>. SUFFICES ASSUME NEW i \in pins'[Project(p)], NEW k \in pins'[Project(p)],
                       i.id \notin disabled, k.id \notin disabled,
                       System[i.id] \in {System[k.id]} \ {NoSystem}
                PROVE  i = k
    BY <1>1, <1>4 DEF OneClaim
  <2>3. CASE i = entry
    BY <1>4, <2>1, <2>3
  <2>4. CASE i # entry
    BY <1>4, <2>1, <2>2, <2>4
  <2>. QED
    BY <2>3, <2>4
<1>8. Readable'
  <2>1. records # {}
    BY <1>2 DEF Chosen, Trusted
  <2>. QED
    BY <1>1, <1>5, <1>6, <1>7, <2>1 DEF Readable
<1>9. Typed /\ process' \in [Procs -> Tasks] /\ FlocksWhole(flock') => Typed'
  BY <1>1, <1>4 DEF Typed, FlocksWhole
<1>10. ASSUME NEW j \in Projects, NEW k \in pins'[j]
       PROVE  \/ Resolves(j, k)'
              \/ k.id # process[p].id /\ k \in pins[j] /\ (Resolves(j, k) => Resolves(j, k)')
  <2>1. CASE k = entry
    BY <1>4, <2>1
  <2>2. CASE k # entry
    <3>1. k.id # process[p].id /\ k \in pins[j]
      BY <1>4, <1>10, <2>2
    <3>. QED
      BY <1>1, <1>10, <3>1 DEF Resolves, Trusted, Kept, Installation
  <2>. QED
    BY <2>1, <2>2
<1>. QED
  BY <1>1, <1>8, <1>9, <1>10, ChangesEnd

-----------------------------------------------------------------------------
(* Removing and disabling.                                                  *)

LEMMA RemoveEnvironmentStep ==
    ASSUME StoreInv, SingleProject, NEW p \in Procs, RemoveEnvironment(p)
    PROVE  StoreInv'
<1>1. /\ process[p].pc = "r_environment" /\ process[p].pc \notin Changing /\ process[p].pc \in Inside
      /\ process[p].id \in Extensions
      /\ process[p].pc \in InstallationsHeld /\ process[p].pc \in ProjectHeld
  BY WhereItStands
     DEF RemoveEnvironment, Changing, Inside, RemovePlaces, Formed, InstallationsHeld, ProjectHeld
<1>2. CASE Step(p, "r_disabled") /\ UNCHANGED <<user, pins, head, bounds>>
  BY <1>1, <1>2, StaysStep
     DEF Waits, MarketplacesHeld, EnsurePlaces, StagePlaces, DispatchPlaces
<1>3. CASE Refused(p)
  BY <1>1, <1>3, RefusedStep
<1>4. ASSUME NEW entry \in PinOf(p),
             environment' = IF Recorded(entry) THEN [environment EXCEPT ![Artifact(entry)] = "absent"]
                            ELSE environment,
             process' = [process EXCEPT ![p].pc = "r_wheels", ![p].entry = entry],
             UNCHANGED <<flock, configured, records, history, placed, installations, disabled, wheels,
                         pins, head, bounds>>
      PROVE  StoreInv'
  <2>1. entry \in Entry /\ entry.id = process[p].id
    BY <1>4, ProjectIsLock DEF PinOf, StoreInv, Typed
  <2>2. /\ process' \in [Procs -> Tasks]
        /\ process'[p].pc = "r_wheels" /\ process'[p].entry = entry
        /\ process'[p].op = process[p].op /\ process'[p].id = process[p].id
        /\ process'[p].name = process[p].name
        /\ \A q \in Procs \ {p} : process'[q] = process[q]
    <3>1. "r_wheels" \in Places
      BY DEF Places, Inside, RemovePlaces
    <3>2. process' = [process EXCEPT ![p].pc = "r_wheels", ![p].entry = entry]
      BY <1>4
    <3>3. Typed
      BY DEF StoreInv
    <3>. QED
      BY <2>1, <3>1, <3>2, <3>3, MovesWith
  <2>3. Formed(process'[p])
    BY <1>1, <2>2, WhereItStands DEF Formed
  <2>4. Noted(p)'
    BY <2>1, <2>2 DEF Noted
  <2>5. Holding(p)'
    <3>1. "r_wheels" \notin MarketplacesHeld /\ ~SharedHeld(process'[p])
      BY <2>2 DEF SharedHeld, EnsurePlaces, MarketplacesHeld, StagePlaces
    <3>. QED
      BY <1>1, <1>4, <2>2, <3>1, WhereItStands DEF Holding
  <2>6. Sound(p)'
    BY <2>1, <2>2, <2>3, <2>4, <2>5 DEF Sound, Staging, Adding, Removing, Running, AddPlaces
  <2>7. environment' \in [Artifacts -> {"absent", "sealed", "altered", "foreign"}]
        /\ \A b \in Artifacts : b # Artifact(entry) => environment'[b] = environment[b]
    BY <1>4 DEF StoreInv, Typed
  <2>8. Typed'
    BY <1>4, <2>2, <2>7 DEF StoreInv, Typed
  <2>9. Readable'
    BY <1>4, SamePinned DEF StoreInv
  <2>10. \A k : Artifact(k) = Artifact(entry) => Changed(k.id)'
    BY <2>1, <2>2, OtherArtifact DEF Changed, Changing
  <2>11. Resolvable'
    BY <1>1, <1>4, <2>2, <2>7, <2>10, EnvironmentResolvable
  <2>12. Yields(p, flock, flock')
    BY <1>4 DEF Yields
  <2>. QED
    BY <1>1, <1>4, <2>2, <2>6, <2>8, <2>9, <2>11, <2>12, OneSteps
<1>. QED
  BY <1>2, <1>3, <1>4 DEF RemoveEnvironment

(* The wheels of another pin are listed by its installation, and kept.      *)
LEMMA RemoveWheelsStep ==
    ASSUME StoreInv, SingleProject, NEW p \in Procs, RemoveWheels(p)
    PROVE  StoreInv'
<1>. DEFINE entry == process[p].entry
<1>1. /\ process[p].pc = "r_wheels" /\ process[p].pc \in Changing /\ "r_record" \in Changing
      /\ Step(p, "r_record")
      /\ wheels' = IF Recorded(entry) THEN wheels \ (WheelsOf(Artifact(entry)) \ Retained(entry)) ELSE wheels
      /\ UNCHANGED <<configured, records, history, placed, installations, disabled, environment, pins, head,
                     bounds>>
  BY DEF RemoveWheels, Changing
<1>2. entry \in Entry /\ entry.id = process[p].id /\ Typed
  BY <1>1, WhereItStands DEF Removing, StoreInv
<1>3. Readable' /\ (Typed /\ process' \in [Procs -> Tasks] /\ FlocksWhole(flock') => Typed')
  BY <1>1, SamePinned DEF StoreInv, Typed, FlocksWhole
<1>4. ASSUME process'[p].pc = "r_record", process'[p].id = process[p].id, process'[p].entry = entry
      PROVE  Adding(p)' /\ Removing(p)'
  BY <1>2, <1>4 DEF Adding, Removing, AddPlaces
<1>5. ASSUME NEW j \in Projects, NEW k \in pins'[j], k.id # process[p].id, Resolves(j, k)
      PROVE  Resolves(j, k)'
  <2>1. k \in Entry /\ Installation(k) = k /\ Installation(entry) = entry
    BY <1>1, <1>2, <1>5, InstallationIs DEF Typed
  <2>2. k \in installations \ {Installation(entry)}
    BY <1>2, <1>5, <2>1 DEF Resolves
  <2>3. WheelsOf(Artifact(k)) \subseteq Retained(entry)
    BY <2>2 DEF Retained
  <2>4. WheelsOf(Artifact(k)) \subseteq wheels'
    BY <1>1, <1>5, <2>3 DEF Resolves
  <2>. QED
    BY <1>1, <1>5, <2>4 DEF Resolves, Trusted, Kept, Installation
<1>. QED
  BY <1>1, <1>3, <1>4, <1>5, ChangesOn

LEMMA ForgetInstallationStep ==
    ASSUME StoreInv, SingleProject, NEW p \in Procs, ForgetInstallation(p)
    PROVE  StoreInv'
<1>. DEFINE entry == process[p].entry
<1>1. /\ process[p].pc = "r_record" /\ process[p].pc \in Changing /\ "r_disabled" \in Changing
      /\ Step(p, "r_disabled") /\ installations' = installations \ {Installation(entry)}
      /\ UNCHANGED <<configured, records, history, placed, disabled, environment, wheels, pins, head, bounds>>
  BY DEF ForgetInstallation, Changing
<1>2. entry \in Entry /\ entry.id = process[p].id /\ Typed /\ Readable
  BY <1>1, WhereItStands DEF Removing, StoreInv
<1>3. Readable'
  BY <1>1, <1>2 DEF Readable, StateReadable, OneClaim
<1>4. Typed /\ process' \in [Procs -> Tasks] /\ FlocksWhole(flock') => Typed'
  BY <1>1 DEF Typed, FlocksWhole
<1>5. ASSUME process'[p].pc = "r_disabled"
      PROVE  Adding(p)' /\ Removing(p)'
  BY <1>5 DEF Adding, Removing, AddPlaces
<1>6. ASSUME NEW j \in Projects, NEW k \in pins'[j], k.id # process[p].id, Resolves(j, k)
      PROVE  Resolves(j, k)'
  <2>1. k \in Entry /\ Installation(k) = k /\ Installation(entry) = entry
    BY <1>1, <1>2, <1>6, InstallationIs DEF Typed
  <2>2. k \in installations'
    BY <1>1, <1>2, <1>6, <2>1 DEF Resolves
  <2>. QED
    BY <1>1, <1>6, <2>1, <2>2 DEF Resolves, Trusted, Kept
<1>. QED
  BY <1>1, <1>3, <1>4, <1>5, <1>6, ChangesOn

LEMMA DisableDefaultStep ==
    ASSUME StoreInv, SingleProject, NEW p \in Procs, DisableDefault(p)
    PROVE  StoreInv'
<1>1. /\ process[p].pc = "r_disabled" /\ process[p].pc \in Changing /\ "r_unpin" \in Changing
      /\ Step(p, "r_unpin")
      /\ UNCHANGED <<configured, records, history, placed, installations, environment, wheels, pins, head,
                     bounds>>
      /\ disabled \subseteq disabled'
  BY DEF DisableDefault, Changing
<1>2. process[p].id \in Extensions
  BY <1>1, WhereItStands DEF Formed, Inside, RemovePlaces
<1>3. Readable'
  BY <1>1 DEF StoreInv, Readable, StateReadable, OneClaim
<1>4. Typed => disabled' \subseteq Extensions
  BY <1>2 DEF DisableDefault, Typed
<1>5. Typed /\ process' \in [Procs -> Tasks] /\ FlocksWhole(flock') => Typed'
  BY <1>1, <1>4 DEF Typed, FlocksWhole
<1>6. ASSUME process'[p].pc = "r_unpin"
      PROVE  Adding(p)' /\ Removing(p)'
  BY <1>6 DEF Adding, Removing, AddPlaces
<1>7. ASSUME NEW j \in Projects, NEW k \in pins'[j], k.id \notin disabled'
      PROVE  k \in pins[j] /\ k.id \notin disabled /\ (Resolves(j, k) => Resolves(j, k)')
  BY <1>1, <1>7 DEF Resolves, Trusted, Kept, Installation
<1>. QED
  BY <1>1, <1>3, <1>5, <1>6, <1>7, ChangesOn

LEMMA UnpinStep ==
    ASSUME StoreInv, SingleProject, NEW p \in Procs, Unpin(p)
    PROVE  StoreInv'
<1>1. /\ process[p].pc = "r_unpin" /\ process[p].pc \in Changing /\ Return(p)
      /\ UNCHANGED <<configured, records, history, placed, installations, disabled, environment, wheels,
                     head, bounds>>
  BY DEF Unpin, user, Changing
<1>2. /\ pins'[Project(p)] = {k \in pins[Project(p)] : k.id # process[p].id}
      /\ \A j \in Projects : j = Project(p)
      /\ pins' \in [Projects -> SUBSET Entry]
  BY ProjectIsLock DEF Unpin, StoreInv, Typed, SingleProject
<1>3. Readable'
  <2>1. \A j \in Projects : pins'[j] \subseteq pins[j]
    BY <1>2
  <2>. QED
    BY <1>1, <2>1 DEF StoreInv, Readable, StateReadable, OneClaim
<1>4. Typed /\ process' \in [Procs -> Tasks] /\ FlocksWhole(flock') => Typed'
  BY <1>1, <1>2 DEF Typed, FlocksWhole
<1>5. ASSUME NEW j \in Projects, NEW k \in pins'[j]
      PROVE  k.id # process[p].id /\ k \in pins[j] /\ (Resolves(j, k) => Resolves(j, k)')
  BY <1>1, <1>2, <1>5 DEF Resolves, Trusted, Kept, Installation
<1>. QED
  BY <1>1, <1>3, <1>4, <1>5, ChangesEnd

LEMMA DisableStep ==
    ASSUME StoreInv, SingleProject, NEW p \in Procs, Disable(p)
    PROVE  StoreInv'
<1>1. /\ process[p].pc = "x_disabled" /\ process[p].pc \notin Changing /\ process[p].pc \in ProjectHeld
      /\ Return(p) /\ disabled' = disabled \cup {process[p].id}
      /\ UNCHANGED <<configured, records, history, placed, installations, environment, wheels, pins, head,
                     bounds>>
  BY DEF Disable, Changing, ProjectHeld, Inside
<1>2. process[p].id \in Extensions
  BY <1>1, WhereItStands DEF Formed, Inside
<1>3. Readable'
  BY <1>1 DEF StoreInv, Readable, StateReadable, OneClaim
<1>4. process' \in [Procs -> Tasks] /\ FlocksWhole(flock') => Typed'
  BY <1>1, <1>2 DEF StoreInv, Typed, FlocksWhole
<1>5. \A q \in Procs \ {p} : process'[q] = process[q]
  BY <1>1, GoesIdle DEF Return, StoreInv
<1>6. Resolvable'
  <2>. SUFFICES ASSUME bounds'.faults = 0, NEW j \in Projects, NEW k \in pins'[j],
                       k.id \notin disabled', ~Changed(k.id)'
                PROVE  Resolves(j, k)'
    BY DEF Resolvable
  <2>1. ~Changed(k.id)
    BY <1>1, <1>5, StillChanged
  <2>2. Resolves(j, k)
    BY <1>1, <2>1 DEF StoreInv, Resolvable
  <2>. QED
    BY <1>1, <2>2 DEF Resolves, Trusted, Kept, Installation
<1>. QED
  BY <1>1, <1>3, <1>4, <1>6, WritesAndEnds

-----------------------------------------------------------------------------
(* Around the store, and the behaviour as a whole.                          *)

LEMMA AllStand ==
    ASSUME StoreInv, UNCHANGED <<flock, user, pins, process>>, head' \in Nat, head <= head'
    PROVE  \A q \in Procs : Sound(q)'
<1>. SUFFICES ASSUME NEW q \in Procs PROVE Sound(q)'
  OBVIOUS
<1>1. Holding(q)'
  BY WhereItStands DEF Holding
<1>2. Typed /\ Sound(q) /\ process'[q] = process[q]
  BY DEF StoreInv
<1>. QED
  BY <1>1, <1>2, StandsStill

LEMMA AroundStep ==
    ASSUME StoreInv, UNCHANGED <<flock, user, pins, process, bounds>>, head' \in Snapshots, head <= head'
    PROVE  StoreInv'
<1>1. \A q \in Procs : Sound(q)'
  BY AllStand, SnapshotsAssumption
<1>2. Typed'
  BY DEF StoreInv, Typed, user
<1>3. Readable'
  BY QuietReadable DEF StoreInv
<1>4. Resolvable'
  <2>. SUFFICES ASSUME bounds'.faults = 0, NEW j \in Projects, NEW k \in pins'[j],
                       k.id \notin disabled', ~Changed(k.id)'
                PROVE  Resolves(j, k)'
    BY DEF Resolvable
  <2>1. Resolves(j, k)
    BY DEF StoreInv, Resolvable, Changed, user
  <2>. QED
    BY <2>1, QuietResolves
<1>. QED
  BY <1>1, <1>2, <1>3, <1>4 DEF StoreInv

LEMMA TamperStep ==
    ASSUME StoreInv, NEW a \in Artifacts, Tamper(a)
    PROVE  StoreInv'
<1>1. /\ \A p \in Procs : process[p].pc \in {"idle", "running"}
      /\ UNCHANGED <<flock, configured, records, history, placed, installations, disabled, wheels, pins,
                     head, process>>
      /\ bounds' = [bounds EXCEPT !.faults = @ + 1]
  BY DEF Tamper
<1>2. /\ environment' \in [Artifacts -> {"absent", "sealed", "altered", "foreign"}]
      /\ \A b \in Artifacts : environment[b] # "absent" => environment'[b] # "absent"
  BY DEF Tamper, StoreInv, Typed
<1>3. bounds' \in [operations : Nat, faults : Nat] /\ bounds'.faults # 0
  BY <1>1 DEF StoreInv, Typed
<1>4. Typed'
  BY <1>1, <1>2, <1>3 DEF StoreInv, Typed
<1>5. Readable'
  BY <1>1, SamePinned DEF StoreInv
<1>6. Resolvable'
  BY <1>3 DEF Resolvable
<1>7. ASSUME NEW q \in Procs PROVE Sound(q)'
  <2>1. process[q].pc \in {"idle", "running"} /\ process'[q] = process[q]
    BY <1>1
  <2>2. Holding(q)' /\ Noted(q)' /\ Formed(process'[q])
    BY <1>1, WhereItStands DEF Holding, Noted, Sound
  <2>3. Staging(q)' /\ Adding(q)' /\ Removing(q)'
    BY <2>1 DEF Staging, Adding, Removing, AddPlaces
  <2>4. Running(q)'
    <3>. SUFFICES ASSUME process[q].pc = "running"
                  PROVE  /\ process[q].entry \in pins[Project(q)]
                         /\ Installation(process[q].entry) \in installations
                         /\ environment'[Artifact(process[q].entry)] # "absent"
      BY <1>1 DEF Running, Installation
    <3>1. /\ process[q].entry \in pins[Project(q)]
          /\ Installation(process[q].entry) \in installations
          /\ environment[Artifact(process[q].entry)] # "absent"
      BY WhereItStands DEF Sound, Running
    <3>2. Artifact(process[q].entry) \in Artifacts
      BY <3>1, ArtifactIn, ProjectIsLock DEF StoreInv, Typed
    <3>. QED
      BY <1>2, <3>1, <3>2
  <2>. QED
    BY <2>2, <2>3, <2>4 DEF Sound
<1>. QED
  BY <1>4, <1>5, <1>6, <1>7 DEF StoreInv

LEMMA StoreNext ==
    ASSUME StoreInv, SingleProject, [Next]_vars
    PROVE  StoreInv'
<1>1. ASSUME NEW p \in Procs, StoreStep(p)
      PROVE  StoreInv'
  <2>1. CASE \/ LockMarketplaces(p) \/ LockProjectToo(p) \/ StageSnapshot(p) \/ PlaceSnapshot(p)
             \/ WriteMarketplaces(p) \/ RemoveMarketplace(p) \/ EnsureLock(p) \/ EnsureProject(p)
             \/ EnsureOfficial(p) \/ LockInstallations(p) \/ LockProject(p)
    BY <2>1, LockSteps, StageSnapshotStep, PlaceSnapshotStep, WriteMarketplacesStep,
       RemoveMarketplaceStep, EnsureLockStep, EnsureOfficialStep
  <2>2. CASE \/ Select(p) \/ CacheWheels(p) \/ ClearEnvironment(p) \/ BuildEnvironment(p)
             \/ RecordInstallation(p) \/ Enable(p) \/ Pin(p)
    BY <2>2, SelectStep, CacheWheelsStep, ClearEnvironmentStep, BuildEnvironmentStep,
       RecordInstallationStep, EnableStep, PinStep
  <2>3. CASE \/ RemoveEnvironment(p) \/ RemoveWheels(p) \/ ForgetInstallation(p) \/ DisableDefault(p)
             \/ Unpin(p) \/ Disable(p)
    BY <2>3, RemoveEnvironmentStep, RemoveWheelsStep, ForgetInstallationStep, DisableDefaultStep,
       UnpinStep, DisableStep
  <2>4. CASE Guard(p) \/ ReadPin(p) \/ Resolve(p) \/ Lease(p) \/ Finish(p)
    BY <2>4, GuardStep, ReadPinStep, ResolveStep, LeaseStep, FinishStep
  <2>. QED
    BY <1>1, <2>1, <2>2, <2>3, <2>4 DEF StoreStep
<1>2. CASE Publish \/ UNCHANGED vars
  <2>1. head' \in Snapshots /\ head <= head'
    BY <1>2, SnapshotsAssumption DEF Publish, vars, StoreInv, Typed
  <2>. QED
    BY <1>2, <2>1, AroundStep DEF Publish, vars
<1>. QED
  BY <1>1, <1>2, BeginStep, CrashStep, TamperStep DEF Next

LEMMA StoreStart ==
    ASSUME Init, Scope
    PROVE  StoreInv
<1>1. PICK start \in Starts :
        /\ configured = (start = "installed")
        /\ pins = IF start = "empty" THEN [j \in Projects |-> {}] ELSE Pins
        /\ installations = IF configured THEN UNION {pins[j] : j \in Projects} ELSE {}
  BY DEF Init
<1>2. start \in {"empty", "installed"}
  BY StartsAssumption DEF Scope
<1>3. Pins \in [Projects -> SUBSET Entry]
  BY PinAssumption DEF Pins, Entry
<1>4. pins \in [Projects -> SUBSET Entry]
  BY <1>1, <1>3
<1>5. ~configured => \A j \in Projects : pins[j] = {}
  BY <1>1, <1>2
<1>6. configured => pins = Pins
  BY <1>1
<1>7. /\ records = IF configured THEN {[name |-> Official, snapshot |-> 1]} ELSE {}
      /\ history = {r.snapshot : r \in records} /\ placed = history
      /\ disabled = {} /\ head = 1 /\ process = [p \in Procs |-> Idle]
      /\ bounds = [operations |-> 0, faults |-> 0]
      /\ flock = [l \in Locks |-> [exclusive |-> NoProcess, shared |-> {}]]
      /\ wheels = UNION {WheelsOf(Artifact(i)) : i \in installations}
      /\ environment = [a \in Artifacts |->
           IF \E i \in installations : Artifact(i) = a THEN "sealed" ELSE "absent"]
  BY DEF Init
<1>8. history = IF configured THEN {1} ELSE {}
  <2>1. CASE configured
    <3>1. records = {[name |-> Official, snapshot |-> 1]}
      BY <1>7, <2>1
    <3>2. {r.snapshot : r \in {[name |-> Official, snapshot |-> 1]}} = {1}
      OBVIOUS
    <3>. QED
      BY <1>7, <2>1, <3>1, <3>2
  <2>2. CASE ~configured
    <3>1. records = {}
      BY <1>7, <2>2
    <3>. QED
      BY <1>7, <2>2, <3>1
  <2>. QED
    BY <2>1, <2>2
<1>9. \A j \in Projects : \A k \in Pins[j] :
        \E l \in Pinned[j] : k = [id |-> l[1], snapshot |-> l[2]]
  BY DEF Pins
<1>10. configured => \A j \in Projects : \A k \in pins[j] : k.snapshot = 1 /\ Artifact(k) \notin Incompatible
  <2>. SUFFICES ASSUME configured, NEW j \in Projects, NEW k \in pins[j]
                PROVE  k.snapshot = 1 /\ Artifact(k) \notin Incompatible
    OBVIOUS
  <2>1. "installed" \in Starts
    BY <1>1
  <2>2. PICK l \in Pinned[j] : k = [id |-> l[1], snapshot |-> l[2]]
    BY <1>6, <1>9
  <2>3. l[2] = 1 /\ <<l[1], Version[l[1]][1]>> \notin Incompatible
    BY <2>1, InstalledAssumption
  <2>4. k.id = l[1] /\ k.snapshot = 1
    BY <2>2, <2>3
  <2>. QED
    BY <2>3, <2>4 DEF Artifact
<1>11. installations \subseteq Entry
  BY <1>1, <1>4
<1>12. Idle \in Tasks
  BY DEF Idle, Tasks, Places, Ops, NoEntry
<1>13. Typed
  <2>1. records \subseteq [name : Names, snapshot : Snapshots]
    BY <1>7, OfficialIsName, SnapshotsAssumption
  <2>2. flock \in Flocks /\ \A l \in Locks : flock[l].exclusive # NoProcess => flock[l].shared = {}
    BY <1>7 DEF Flocks
  <2>3. configured \in BOOLEAN /\ history \subseteq Snapshots /\ head \in Snapshots
    BY <1>1, <1>7, <1>8, SnapshotsAssumption
  <2>. QED
    BY <1>4, <1>7, <1>11, <1>12, <2>1, <2>2, <2>3 DEF Typed
<1>14. Readable
  <2>1. \A j \in Projects : \A i, k \in pins[j] :
          i.id = k.id \/ System[i.id] \in {System[k.id]} \ {NoSystem} => i = k
    BY <1>5, <1>6, <1>9, PinnedAssumption
  <2>2. \A i, k \in installations : Artifact(i) = Artifact(k) => i = k
    <3>. SUFFICES ASSUME NEW i \in installations, NEW k \in installations, Artifact(i) = Artifact(k)
                  PROVE  i = k
      OBVIOUS
    <3>1. i.id = k.id
      BY DEF Artifact
    <3>2. i.snapshot = 1 /\ k.snapshot = 1
      BY <1>1, <1>10
    <3>3. i \in Entry /\ k \in Entry
      BY <1>11
    <3>. QED
      BY <3>1, <3>2, <3>3 DEF Entry
  <2>3. \A r, q \in records : r.name = q.name => r = q
    BY <1>7
  <2>4. \A r \in records : r.snapshot \in history
    BY <1>7
  <2>5. StateReadable
    BY <1>7, <1>8, <1>10, <2>1, <2>2, <2>3, <2>4 DEF StateReadable
  <2>6. OneClaim
    BY <2>1 DEF OneClaim
  <2>. QED
    BY <1>5, <1>7, <1>8, <2>5, <2>6 DEF Readable
<1>15. ASSUME NEW p \in Procs PROVE Sound(p)
  <2>1. process[p] = Idle /\ Idle.pc = "idle" /\ Idle.op = "none" /\ Idle.entry = NoEntry
    BY <1>7 DEF Idle
  <2>2. Holding(p)
    BY <2>1 DEF Holding, MarketplacesHeld, InstallationsHeld, ProjectHeld, StagePlaces, Inside, AddPlaces,
                RemovePlaces, SharedHeld
  <2>3. Noted(p)
    BY <1>7, <2>1 DEF Noted, NoEntry
  <2>4. Formed(process[p])
    BY <2>1 DEF Formed, EnsurePlaces, Inside, AddPlaces, RemovePlaces
  <2>. QED
    BY <2>1, <2>2, <2>3, <2>4 DEF Sound, Staging, Adding, Removing, Running, AddPlaces
<1>16. Resolvable
  <2>. SUFFICES ASSUME NEW j \in Projects, NEW k \in pins[j] PROVE Resolves(j, k)
    BY DEF Resolvable
  <2>1. configured /\ k \in Entry /\ k \in installations
    BY <1>1, <1>4, <1>5
  <2>2. Installation(k) \in installations
    BY <2>1, InstallationIs
  <2>3. Kept(k.snapshot) /\ Trusted /\ Artifact(k) \notin Incompatible
    BY <1>7, <1>8, <1>10, <2>1 DEF Kept, Trusted
  <2>4. environment[Artifact(k)] = "sealed"
    BY <1>7, <2>1, ArtifactIn
  <2>5. WheelsOf(Artifact(k)) \subseteq wheels
    BY <1>7, <2>1
  <2>. QED
    BY <1>7, <2>2, <2>3, <2>4, <2>5 DEF Resolves
<1>. QED
  BY <1>13, <1>14, <1>15, <1>16 DEF StoreInv

(* The strengthening all four properties follow from.                       *)
THEOREM StoreInvariance == Scope /\ Spec => [](StoreInv /\ Scope)
<1>1. Scope /\ Init => StoreInv /\ Scope
  BY StoreStart
<1>2. StoreInv /\ Scope /\ [Next]_vars => StoreInv' /\ Scope'
  <2>. SUFFICES ASSUME StoreInv, Scope, [Next]_vars PROVE StoreInv' /\ Scope'
    OBVIOUS
  <2>1. SingleProject
    BY DEF Scope
  <2>2. StoreInv'
    BY <2>1, StoreNext
  <2>3. Scope'
    BY DEF Scope, SingleProject
  <2>. QED
    BY <2>2, <2>3
<1>. QED
  BY <1>1, <1>2, PTL DEF Spec

(* ExtensionStore: wherever commands of any number of processes are         *)
(* interrupted, the files are ones the store reads again: names and         *)
(* artifacts are unique, snapshots that are used are kept, and no system is *)
(* claimed twice in the project.                                            *)
THEOREM StoreStaysWhole == Scope /\ Spec => []StoreWhole
<1>1. ASSUME StoreInv PROVE TypeOK
  BY <1>1, SnapshotsAssumption DEF StoreInv, Typed, Sound, Noted, TypeOK, Flocks
<1>2. StoreInv => StoreWhole
  BY <1>1 DEF StoreInv, Readable, StoreWhole
<1>. QED
  BY <1>2, StoreInvariance, PTL

(* While nothing fails, an enabled pin resolves whenever no command is      *)
(* inside the store: what a removal, an upgrade or a replacement takes away *)
(* no other pin needed.                                                     *)
THEOREM EnabledPinsResolve == Scope /\ Spec => []PinnedResolvable
<1>1. ASSUME StoreInv PROVE PinnedResolvable
  BY <1>1 DEF StoreInv, Resolvable, Changed, Changing, PinnedResolvable, Mutating
<1>. QED
  BY <1>1, StoreInvariance, PTL

(* execution_guard: what a dispatch runs is pinned and installed until it   *)
(* ends, whatever other processes add, remove or upgrade meanwhile.         *)
THEOREM RunsStayPinned == Scope /\ Spec => []RunsWhatIsPinned
<1>1. ASSUME StoreInv PROVE RunsWhatIsPinned
  BY <1>1 DEF StoreInv, Sound, Running, RunsWhatIsPinned
<1>. QED
  BY <1>1, StoreInvariance, PTL

(* A process that leaves a_pin without a fault has pinned.                 *)
LEMMA EndsByPin ==
    ASSUME Typed, Next, NEW p \in Procs,
           process[p].pc = "a_pin", process'[p].pc = "idle", bounds' = bounds
    PROVE  Pin(p)
<1>1. /\ bounds \in [operations : Nat, faults : Nat] /\ bounds' = bounds
      /\ process \in [Procs -> Tasks] /\ process'[p] # process[p]
  BY DEF Typed
<1>2. ASSUME NEW q \in Procs, BeginMarketplace(q) \/ BeginExtension(q) \/ BeginDispatch(q) PROVE FALSE
  <2>1. bounds' = [bounds EXCEPT !.operations = @ + 1]
    BY <1>2 DEF BeginMarketplace, BeginExtension, BeginDispatch, Start
  <2>2. bounds.operations = bounds.operations + 1
    BY <1>1, <2>1
  <2>. QED
    BY <1>1, <2>2
<1>3. ASSUME NEW q \in Procs, Crash(q) PROVE FALSE
  <2>1. bounds' = [bounds EXCEPT !.faults = @ + 1]
    BY <1>3 DEF Crash
  <2>2. bounds.faults = bounds.faults + 1
    BY <1>1, <2>1
  <2>. QED
    BY <1>1, <2>2
<1>4. ~Publish /\ \A a \in Artifacts : ~Tamper(a)
  BY <1>1 DEF Publish, Tamper
<1>5. ASSUME NEW q \in Procs, StoreStep(q) PROVE q = p
  <2>1. \/ \E to : process' = [process EXCEPT ![q] = to]
        \/ \E to : process' = [process EXCEPT ![q].pc = to]
        \/ \E to, e : process' = [process EXCEPT ![q].pc = to, ![q].entry = e]
        \/ \E to, e : process' = [process EXCEPT ![q].pc = to, ![q].entry.snapshot = e]
    <3>1. CASE \/ LockMarketplaces(q) \/ LockProjectToo(q) \/ EnsureLock(q) \/ EnsureProject(q)
               \/ LockInstallations(q) \/ LockProject(q) \/ Guard(q)
      BY <3>1 DEF LockMarketplaces, LockProjectToo, EnsureLock, EnsureProject, LockInstallations, LockProject,
                  Guard, Take, TakeShared, Step
    <3>2. CASE StageSnapshot(q)
      BY <3>2 DEF StageSnapshot, Refused, Return
    <3>3. CASE \/ PlaceSnapshot(q) \/ WriteMarketplaces(q) \/ RemoveMarketplace(q) \/ EnsureOfficial(q)
      BY <3>3 DEF PlaceSnapshot, WriteMarketplaces, RemoveMarketplace, EnsureOfficial, Refused, Return, Step
    <3>4. CASE Select(q) \/ RemoveEnvironment(q) \/ Resolve(q)
      <4>1. CASE Select(q)
        BY <4>1 DEF Select, Refused, Return
      <4>2. CASE RemoveEnvironment(q)
        BY <4>2 DEF RemoveEnvironment, Refused, Return, Step
      <4>3. CASE Resolve(q)
        BY <4>3 DEF Resolve, Refused, Return
      <4>. QED
        BY <3>4, <4>1, <4>2, <4>3
    <3>5. CASE CacheWheels(q) \/ ClearEnvironment(q) \/ BuildEnvironment(q)
      BY <3>5 DEF CacheWheels, ClearEnvironment, BuildEnvironment, Refused, Return, Step
    <3>6. CASE \/ RecordInstallation(q) \/ Enable(q) \/ Pin(q) \/ RemoveWheels(q) \/ ForgetInstallation(q)
               \/ DisableDefault(q) \/ Unpin(q) \/ Disable(q)
      BY <3>6 DEF RecordInstallation, Enable, Pin, RemoveWheels, ForgetInstallation, DisableDefault, Unpin, Disable,
                  Return, Step
    <3>7. CASE ReadPin(q) \/ Lease(q) \/ Finish(q)
      BY <3>7 DEF ReadPin, Lease, Finish, Refused, Return, Step
    <3>. QED
      BY <1>5, <3>1, <3>2, <3>3, <3>4, <3>5, <3>6, <3>7 DEF StoreStep
  <2>. QED
    BY <1>1, <2>1
<1>6. PICK q \in Procs : StoreStep(q)
  BY <1>2, <1>3, <1>4 DEF Next
<1>7. StoreStep(p)
  BY <1>5, <1>6
<1>. QED
  BY <1>7 DEF StoreStep, LockMarketplaces, LockProjectToo, StageSnapshot, PlaceSnapshot, WriteMarketplaces,
              RemoveMarketplace, EnsureLock, EnsureProject, EnsureOfficial, LockInstallations, LockProject, Select,
              CacheWheels, ClearEnvironment, BuildEnvironment, RecordInstallation, Enable, RemoveEnvironment,
              RemoveWheels, ForgetInstallation, DisableDefault, Unpin, Disable, Guard, ReadPin, Resolve, Lease, Finish

(* An add that ends well leaves an extension that resolves, whatever was    *)
(* interrupted, failed or altered before.                                   *)
THEOREM AddsResolve == Scope /\ Spec => AddMeansResolvable
<1>. DEFINE Pinning == \A p \in Procs :
              process[p].pc = "a_pin" /\ process'[p].pc = "idle" /\ bounds' = bounds =>
                \E entry \in {process[p].entry} : Resolves(Project(p), entry)'
<1>1. ASSUME StoreInv, [Next]_vars PROVE [Pinning]_vars
  <2>. SUFFICES ASSUME Next, NEW p \in Procs,
                       process[p].pc = "a_pin", process'[p].pc = "idle", bounds' = bounds
                PROVE  \E entry \in {process[p].entry} : Resolves(Project(p), entry)'
    BY <1>1
  <2>1. Pin(p)
    BY <1>1, EndsByPin DEF StoreInv
  <2>2. \A e : e = process[p].entry => Resolves(Project(p), e)'
    BY <1>1, <2>1, PinResolves
  <2>. QED
    BY <2>2
<1>. QED
  BY <1>1, StoreInvariance, PTL DEF AddMeansResolvable, Spec

-----------------------------------------------------------------------------
(* The private file: safe over every failure, crash and power loss.        *)

Calls == Writers \cup Readers
StoragePlaces == {"idle", "filling", "filled", "replaced", "returned", "raised",
           "looked", "reading", "read", "refused", "crashed"}

StorageTyped ==
    /\ published \in Seq(Files) /\ settled \in 1 .. Len(published)
    /\ temporary \subseteq Writers /\ durable \subseteq Files
    /\ content \in [Files -> 0 .. Parts]
    /\ doing \in [Calls -> StoragePlaces]
    /\ held \in [Readers -> [file : Files, parts : 0 .. Parts]]

(* What was made durable is whole, and only such files get the name or are  *)
(* looked up by it.                                                         *)
WholeIsDurable ==
    /\ \A f \in durable : content[f] = Parts
    /\ \A i \in 1 .. Len(published) : published[i] \in durable
    /\ \A r \in Readers : held[r].file \in durable

(* How far a writer has got, as the disk shows it: a rename it has made and *)
(* not settled is there as long as it runs, a settled one for good.         *)
WritersKnow ==
    /\ \A w \in Writers : doing[w] \in {"filled", "replaced", "returned"} => w \in durable
    /\ \A w \in Writers : doing[w] = "replaced" => \E i \in 1 .. Len(published) : published[i] = w
    /\ \A w \in Settling : doing[w] = "returned" => \E i \in 1 .. settled : published[i] = w

StorageInv == StorageTyped /\ WholeIsDurable /\ WritersKnow /\ ReadIsWhole

-----------------------------------------------------------------------------
(* The invariant says all that is promised: the file of the name is the     *)
(* last one published, and every published file is whole.                   *)
LEMMA InvIsSafe == StorageInv => StorageSafe
<1>. SUFFICES ASSUME StorageInv PROVE StorageSafe
  OBVIOUS
<1>. USE DEF StorageInv, StorageTyped
<1>1. StorageTypeOK
  BY DEF StorageTypeOK, ToSet
<1>2. NeverTorn
  BY DEF NeverTorn, Current, Last, WholeIsDurable
<1>3. ReportedIsDurable
  BY DEF ReportedIsDurable, ToSet, WritersKnow
<1>. QED
  BY <1>1, <1>2, <1>3 DEF StorageSafe

(* Only the initial file has the name, and it is whole. *)
LEMMA InitSafe == StorageInit => StorageInv
<1>. SUFFICES ASSUME StorageInit PROVE StorageInv
  OBVIOUS
<1>. USE StorageAssumption DEF StorageInit, Files, Calls, StoragePlaces
<1>1. StorageTyped
  BY DEF StorageTyped
<1>2. WholeIsDurable
  BY DEF WholeIsDurable
<1>3. WritersKnow
  BY DEF WritersKnow
<1>4. ReadIsWhole
  BY DEF ReadIsWhole
<1>. QED
  BY <1>1, <1>2, <1>3, <1>4 DEF StorageInv

(* What a writer does: only an unfinished file is filled, a file is renamed *)
(* after it was made durable, and settling covers the writer's own rename.  *)
LEMMA WriterStep ==
    ASSUME StorageInv, NEW w \in Writers,
           Create(w) \/ Fill(w) \/ Flush(w) \/ Replace(w) \/ Settle(w) \/ Fail(w)
    PROVE  StorageInv'
<1>. USE StorageAssumption DEF StorageInv, Moves, StoragePlaces
<1>0. w \in Files /\ w \in Calls /\ w \notin Readers
  BY DEF Files, Calls
<1>1. CASE Create(w)
  <2>1. StorageTyped'
    BY <1>0, <1>1 DEF Create, StorageTyped
  <2>2. WholeIsDurable' /\ ReadIsWhole' /\ WritersKnow'
    BY <1>0, <1>1 DEF Create, StorageTyped, WholeIsDurable, ReadIsWhole, WritersKnow, Calls
  <2>. QED BY <2>1, <2>2
<1>2. CASE Fill(w)
  <2>1. w \notin durable
    BY <1>0, <1>2 DEF Fill, StorageTyped, WholeIsDurable
  <2>2. StorageTyped'
    BY <1>0, <1>2 DEF Fill, StorageTyped
  <2>3. WholeIsDurable'
    BY <1>0, <1>2, <2>1 DEF Fill, StorageTyped, WholeIsDurable
  <2>4. ReadIsWhole' /\ WritersKnow'
    BY <1>2 DEF Fill, ReadIsWhole, WritersKnow
  <2>. QED BY <2>2, <2>3, <2>4
<1>3. CASE Flush(w)
  <2>1. StorageTyped'
    BY <1>0, <1>3 DEF Flush, StorageTyped
  <2>2. WholeIsDurable' /\ ReadIsWhole'
    BY <1>0, <1>3 DEF Flush, StorageTyped, WholeIsDurable, ReadIsWhole, Calls
  <2>3. WritersKnow'
    BY <1>0, <1>3 DEF Flush, StorageTyped, WritersKnow, Calls
  <2>. QED BY <2>1, <2>2, <2>3
<1>4. CASE Replace(w)
  <2>1. w \in durable
    BY <1>4 DEF Replace, WritersKnow
  <2>2. /\ published' \in Seq(Files) /\ Len(published') = Len(published) + 1
        /\ published'[Len(published')] = w
        /\ \A i \in 1 .. Len(published) : published'[i] = published[i]
    BY <1>0, <1>4 DEF Replace, StorageTyped
  <2>3. StorageTyped'
    <3>1. doing' \in [Calls -> StoragePlaces] /\ temporary' \subseteq Writers
      BY <1>0, <1>4 DEF Replace, StorageTyped
    <3>2. settled' = settled /\ settled \in 1 .. Len(published) /\ Len(published) \in Nat
      BY <1>4 DEF Replace, StorageTyped
    <3>3. settled' \in 1 .. Len(published')
      BY <2>2, <3>2
    <3>. QED
      BY <1>4, <2>2, <3>1, <3>3 DEF Replace, StorageTyped
  <2>4. WholeIsDurable'
    <3>1. UNCHANGED <<durable, content, held>>
      BY <1>4 DEF Replace
    <3>2. ASSUME NEW i \in 1 .. Len(published')
          PROVE  published'[i] \in durable
      <4>0. Len(published) \in Nat
        BY DEF StorageTyped
      <4>1. i = Len(published') \/ i \in 1 .. Len(published)
        BY <2>2, <4>0
      <4>. QED
        BY <2>1, <2>2, <4>1 DEF WholeIsDurable
    <3>. QED
      BY <3>1, <3>2 DEF WholeIsDurable
  <2>5. ReadIsWhole'
    BY <1>0, <1>4 DEF Replace, StorageTyped, ReadIsWhole, Calls
  <2>6. WritersKnow'
    <3>0. Len(published) \in Nat /\ settled' = settled /\ settled \in 1 .. Len(published)
      BY <1>4 DEF Replace, StorageTyped
    <3>1. \A v \in Writers : v # w => doing'[v] = doing[v]
      BY <1>4 DEF Replace, StorageTyped, Calls
    <3>2. doing'[w] = IF w \in Settling THEN "replaced" ELSE "returned"
      BY <1>0, <1>4 DEF Replace, StorageTyped
    <3>3. \A v \in Writers : (\E i \in 1 .. Len(published) : published[i] = v)
                                => \E i \in 1 .. Len(published') : published'[i] = v
      BY <2>2, <3>0
    <3>4. \E i \in 1 .. Len(published') : published'[i] = w
      <4>1. Len(published') \in 1 .. Len(published')
        BY <2>2, <3>0
      <4>. QED
        BY <2>2, <4>1
    <3>5. \A v \in Writers : (\E i \in 1 .. settled : published[i] = v)
                                => \E i \in 1 .. settled' : published'[i] = v
      BY <2>2, <3>0
    <3>6. durable' = durable
      BY <1>4 DEF Replace
    <3>. QED BY <2>1, <3>1, <3>2, <3>3, <3>4, <3>5, <3>6 DEF WritersKnow
  <2>. QED BY <2>3, <2>4, <2>5, <2>6
<1>5. CASE Settle(w)
  <2>1. StorageTyped'
    BY <1>0, <1>5 DEF Settle, StorageTyped
  <2>2. WholeIsDurable' /\ ReadIsWhole'
    BY <1>0, <1>5 DEF Settle, StorageTyped, WholeIsDurable, ReadIsWhole, Calls
  <2>3. WritersKnow'
    BY <1>0, <1>5 DEF Settle, StorageTyped, WritersKnow, Calls
  <2>. QED BY <2>1, <2>2, <2>3
<1>6. CASE Fail(w)
  <2>1. StorageTyped'
    BY <1>0, <1>6 DEF Fail, StorageTyped
  <2>2. WholeIsDurable' /\ ReadIsWhole' /\ WritersKnow'
    BY <1>0, <1>6 DEF Fail, StorageTyped, WholeIsDurable, ReadIsWhole, WritersKnow, Calls
  <2>. QED BY <2>1, <2>2
<1>. QED
  BY <1>1, <1>2, <1>3, <1>4, <1>5, <1>6

(* Readers change nothing but what they hold; what they end with is all     *)
(* that the file they opened has.                                           *)
LEMMA ReaderStep ==
    ASSUME StorageInv, NEW r \in Readers,
           Look(r) \/ OpenFile(r) \/ ReadPart(r) \/ Check(r)
    PROVE  StorageInv'
<1>. USE StorageAssumption DEF StorageInv, Moves, StoragePlaces
<1>0. r \in Calls /\ r \notin Writers
  BY DEF Calls
<1>1. UNCHANGED disk
  BY DEF Look, OpenFile, ReadPart, Check
<1>2. \A w \in Writers : doing'[w] = doing[w]
  BY <1>0 DEF Look, OpenFile, ReadPart, Check, StorageTyped, Calls
<1>3. WritersKnow'
  BY <1>1, <1>2 DEF WritersKnow, disk
<1>4. Current \in durable /\ Current \in Files /\ content[Current] = Parts
  BY DEF StorageTyped, WholeIsDurable, Current, Last
<1>5. held[r].file \in Files /\ content[held[r].file] = Parts /\ held[r].parts \in 0 .. Parts
  BY DEF StorageTyped, WholeIsDurable
<1>6. CASE Look(r)
  <2>1. StorageTyped' /\ WholeIsDurable'
    BY <1>0, <1>1, <1>4, <1>6 DEF Look, disk, StorageTyped, WholeIsDurable
  <2>2. ReadIsWhole'
    BY <1>0, <1>6 DEF Look, StorageTyped, ReadIsWhole, Calls
  <2>. QED BY <1>3, <2>1, <2>2
<1>7. CASE OpenFile(r)
  <2>1. StorageTyped' /\ WholeIsDurable'
    BY <1>0, <1>1, <1>7 DEF OpenFile, disk, StorageTyped, WholeIsDurable
  <2>2. ReadIsWhole'
    BY <1>0, <1>7 DEF OpenFile, StorageTyped, ReadIsWhole, Calls
  <2>. QED BY <1>3, <2>1, <2>2
<1>8. CASE ReadPart(r)
  <2>1. held[r].parts + 1 \in 0 .. Parts
    BY <1>5, <1>8 DEF ReadPart
  <2>2. StorageTyped' /\ WholeIsDurable'
    BY <1>0, <1>1, <1>8, <2>1, SMTT(30) DEF ReadPart, disk, StorageTyped, WholeIsDurable
  <2>3. ReadIsWhole'
    BY <1>0, <1>8 DEF ReadPart, StorageTyped, ReadIsWhole, Calls
  <2>. QED BY <1>3, <2>2, <2>3
<1>9. CASE Check(r)
  <2>1. StorageTyped' /\ WholeIsDurable'
    BY <1>0, <1>1, <1>9 DEF Check, disk, StorageTyped, WholeIsDurable
  <2>2. ReadIsWhole'
    BY <1>0, <1>5, <1>9 DEF Check, StorageTyped, ReadIsWhole, Calls
  <2>. QED BY <1>3, <2>1, <2>2
<1>. QED
  BY <1>6, <1>7, <1>8, <1>9

(* A crash only ends a call. *)
LEMMA StorageCrashStep ==
    ASSUME StorageInv, NEW p \in Calls, StorageCrash(p)
    PROVE  StorageInv'
<1>. USE StorageAssumption DEF StorageInv, StorageCrash, disk, StoragePlaces
<1>1. StorageTyped'
  BY DEF StorageTyped
<1>2. WholeIsDurable' /\ ReadIsWhole' /\ WritersKnow'
  BY DEF StorageTyped, WholeIsDurable, ReadIsWhole, WritersKnow, Calls
<1>. QED BY <1>1, <1>2

(* A power loss takes back renames that were not settled, and content that  *)
(* was not durable: neither is relied on.                                   *)
LEMMA PowerLossStep ==
    ASSUME StorageInv, PowerLoss
    PROVE  StorageInv'
<1>. USE StorageAssumption DEF StorageInv
<1>1. PICK kept \in settled .. Len(published) :
        published' = SubSeq(published, 1, kept) /\ settled' = kept
  BY DEF PowerLoss
<1>2. PICK left \in [Files -> 0 .. Parts] :
        /\ \A f \in Files : left[f] <= content[f] /\ (f \in durable => left[f] = content[f])
        /\ content' = left
  BY DEF PowerLoss
<1>3. /\ published' \in Seq(Files) /\ Len(published') = kept /\ settled' \in 1 .. Len(published')
      /\ kept \in Nat /\ settled <= kept /\ kept <= Len(published)
      /\ \A i \in 1 .. kept : published'[i] = published[i]
  <2>1. published \in Seq(Files) /\ settled \in Nat \ {0} /\ kept \in Nat /\ settled <= kept /\ kept <= Len(published)
    BY <1>1 DEF StorageTyped
  <2>2. published' = SubSeq(published, 1, kept) /\ settled' = kept
    BY <1>1
  <2>3. Len(published') = kept /\ \A i \in 1 .. kept : published'[i] = published[i]
    BY <2>1, <2>2
  <2>4. published' \in Seq(Files)
    BY <2>1, <2>2
  <2>. QED
    BY <2>1, <2>2, <2>3, <2>4
<1>4. UNCHANGED <<durable, held>>
  BY DEF PowerLoss
<1>5. doing' = [p \in Calls |-> IF p \in InFlight THEN "crashed" ELSE doing[p]]
  BY DEF PowerLoss, StorageTyped
<1>6. \A p \in Calls : doing'[p] \in {"idle", "returned", "raised", "read", "refused", "crashed"}
                       /\ (doing'[p] # "crashed" => doing'[p] = doing[p])
  BY <1>5 DEF InFlight, StorageTyped
<1>7. StorageTyped'
  <2>1. doing' \in [Calls -> StoragePlaces]
    BY <1>5 DEF StorageTyped, StoragePlaces
  <2>2. temporary' \subseteq Writers
    <3>1. ToSet(published) \ {"old"} \subseteq Writers
      BY DEF StorageTyped, ToSet, Files
    <3>. QED
      BY <3>1 DEF PowerLoss, StorageTyped
  <2>. QED
    BY <1>2, <1>3, <1>4, <2>1, <2>2 DEF StorageTyped
<1>8. WholeIsDurable'
  <2>1. \A f \in durable' : content'[f] = Parts
    BY <1>2, <1>4 DEF StorageTyped, WholeIsDurable
  <2>2. ASSUME NEW i \in 1 .. Len(published')
        PROVE  published'[i] \in durable'
    <3>1. i \in 1 .. kept /\ i \in 1 .. Len(published)
      BY <1>3 DEF StorageTyped
    <3>. QED
      BY <1>3, <1>4, <3>1 DEF WholeIsDurable
  <2>. QED
    BY <1>4, <2>1, <2>2 DEF WholeIsDurable
<1>9. WritersKnow'
  <2>1. \A w \in Writers : doing'[w] = "returned" => w \in durable
    BY <1>6 DEF WritersKnow, Calls
  <2>2. \A w \in Settling : doing'[w] = "returned" => \E i \in 1 .. settled' : published'[i] = w
    <3>1. SUFFICES ASSUME NEW w \in Settling, doing'[w] = "returned"
                   PROVE  \E i \in 1 .. settled' : published'[i] = w
      OBVIOUS
    <3>2. PICK i \in 1 .. settled : published[i] = w
      BY <1>6, <3>1 DEF WritersKnow, Calls
    <3>3. i \in 1 .. kept
      BY <1>3 DEF StorageTyped
    <3>. QED
      BY <1>1, <1>3, <3>2, <3>3
  <2>. QED
    BY <1>4, <1>6, <2>1, <2>2 DEF WritersKnow, Calls
<1>10. ReadIsWhole'
  BY <1>4, <1>6 DEF ReadIsWhole, Calls
<1>. QED
  BY <1>7, <1>8, <1>9, <1>10

(* Whatever fails and whenever: the file is whole, what was reported stays  *)
(* reported, and what was read is the whole of one content.                 *)
THEOREM PrivateFilesAreSafe == StorageSpec => []StorageSafe
<1>1. StorageInv /\ [StorageNext]_storageVars => StorageInv'
  <2>. SUFFICES ASSUME StorageInv, [StorageNext]_storageVars PROVE StorageInv'
    OBVIOUS
  <2>1. CASE UNCHANGED storageVars
    BY <2>1 DEF StorageInv, StorageTyped, WholeIsDurable, WritersKnow, ReadIsWhole, storageVars, disk
  <2>2. CASE StorageNext
    BY <2>2, WriterStep, ReaderStep, StorageCrashStep, PowerLossStep DEF StorageNext, Calls
  <2>. QED
    BY <2>1, <2>2
<1>. QED
  BY InitSafe, InvIsSafe, <1>1, PTL DEF StorageSpec
==============================================================================

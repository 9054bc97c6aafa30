--------------------------- MODULE ExtensionState ---------------------------
(***************************************************************************)
(* What the files of the extension store say, and what is accepted of them *)
(* when they are read again: the marketplaces with the history of their    *)
(* snapshots, the installations, the disabled ids and the lock of a        *)
(* project.  Every command reads them, checks every field of every record, *)
(* and writes records of its own; a record it would refuse to read ends    *)
(* every later command.  The order of the writes under crashes and other   *)
(* processes is in ExtensionStore; here a command is done or refused.      *)
(*                                                                         *)
(* A tree stands for its digest and a manifest for its own and for that of *)
(* its artifact; "none" is a field that is null.  A source a caller names  *)
(* is [form, host, path, text]: the form decides how it is read, the path  *)
(* is without its slashes and its ".git".                                  *)
(***************************************************************************)
EXTENDS ExtensionCatalog

CONSTANTS Commits,    \* words that are a full commit
          Trees,      \* trees a source may have, which are their own digests
          Content,    \* the catalog of every tree, a sequence of entries
          Official,   \* [host, path, source, revision] of the official marketplace
          Lower,      \* the lower case of a host
          Rank,       \* the place of every marketplace name in the order of names
          Reserved    \* systems only the hosted API runs

None == "none"
NoState == [records |-> <<>>, history |-> {}, installations |-> <<>>, disabled |-> {}, lock |-> <<>>]

-----------------------------------------------------------------------------
(* Sources. *)

OfficialIdentity == <<Official.host, Official.path>>
IdentityOf(raw) ==
    CASE raw.form \in {"directory", "file"} -> <<raw.form, raw.path>>
      [] raw.form \in {"scp", "https", "ssh"} -> <<Lower[raw.host], raw.path>>
Nameable(raw) ==
    /\ raw.form \in {"directory", "file", "scp", "https", "ssh"}
    /\ raw.form \in {"https", "ssh"} => raw.host # "" /\ raw.path # ""
Canonical(raw) ==
    [kind |-> IF raw.form = "directory" THEN "local" ELSE "git", identity |-> IdentityOf(raw),
     source |-> IF IdentityOf(raw) = OfficialIdentity THEN Official.source ELSE raw.text]

\* What a fetch gives: a directory's digest is that of its tree, a clone's the commit
\* it was told to take, or its head.
Wanted(identity, revision) ==
    IF revision # None THEN revision ELSE IF identity = OfficialIdentity THEN Official.revision ELSE None
Fetches(kind, identity, revision, got) ==
    /\ kind = "git" => got.commit \in Commits /\ Wanted(identity, revision) \in {None, got.commit}
    /\ CatalogLoads(Content[got.tree])
Digest(kind, got) == IF kind = "git" THEN got.commit ELSE got.tree

Remembers(history, identity, digest, tree) ==
    \A h \in history : h.identity = identity /\ h.snapshot = digest => h.tree = tree
Snapshot(identity, digest, tree) == [identity |-> identity, snapshot |-> digest, tree |-> tree]

-----------------------------------------------------------------------------
(* What is accepted when it is read. *)

RecordAccepted(r, history) ==
    /\ r.kind \in {"git", "local"} /\ r.trusted \in BOOLEAN
    /\ {r.name, r.source} \cap {"", None} = {}
    /\ Snapshot(r.identity, r.snapshot, r.tree) \in history
    /\ r.kind = "git" =>
         /\ r.snapshot \in Commits /\ r.commit = r.snapshot /\ r.content = None
         /\ r.revision \in {None, r.commit}
    /\ r.kind = "local" =>
         /\ r.snapshot \in Trees /\ r.content = r.snapshot /\ r.tree = r.snapshot
         /\ r.commit = None /\ r.revision = None
    /\ r.root = <<r.identity, r.snapshot>>

MarketplacesAccepted(s) ==
    /\ \A h, g \in s.history : h.identity = g.identity /\ h.snapshot = g.snapshot => h = g
    /\ \A h \in s.history : h.tree \in Trees
    /\ \A i \in DOMAIN s.records : RecordAccepted(s.records[i], s.history)
    /\ Distinct([i \in DOMAIN s.records |-> s.records[i].name])

InstallationsAccepted(s) ==
    /\ \A i \in DOMAIN s.installations :
         LET x == s.installations[i] IN
         /\ x.environment = <<"environments", x.artifact>> /\ x.wheels # {}
         /\ \A w \in x.wheels : {w.name, w.sha256} \cap Bad = {}
    /\ Distinct([i \in DOMAIN s.installations |-> s.installations[i].artifact])

\* The commands of an entry come in the order of their names.
Alphabet == <<"apply", "blueprint", "plan", "scan", "test", "verify">>
Ordered(commands) == SelectSeq(Alphabet, LAMBDA c : c \in commands)
EntryAccepted(e) ==
    /\ {e.id, e.distribution} \cap {"", None} = {}
    /\ e.commands = Ordered(ToSet(e.commands)) /\ e.enabled \in BOOLEAN
    /\ \A p \in ToSet(e.providers) : p.name \notin Bad /\ p.roles # {} /\ p.roles \subseteq {"source", "destination"}
    /\ e.snapshot \in Commits \cup Trees
    /\ e.kind \in Kinds /\ e.protocol = e.kind
    /\ e.kind # "connector" =>
         /\ e.executable # None /\ e.entryPoint = None /\ e.providers = <<>>
         /\ IF e.kind = "flow" THEN e.commands = <<"blueprint">>
            ELSE e.commands # <<>> /\ "blueprint" \notin ToSet(e.commands)
    /\ e.kind = "connector" =>
         /\ e.executable = None /\ e.entryPoint # None /\ e.commands = <<>>
         /\ e.providers # <<>> /\ Distinct([i \in DOMAIN e.providers |-> e.providers[i].name])
LockAccepted(s) ==
    /\ \A i \in DOMAIN s.lock : EntryAccepted(s.lock[i])
    /\ Distinct([i \in DOMAIN s.lock |-> s.lock[i].id])

Accepted(s) == MarketplacesAccepted(s) /\ InstallationsAccepted(s) /\ LockAccepted(s)

-----------------------------------------------------------------------------
(* The marketplace commands; one that is refused changes nothing. *)

RecordOf(name, source, revision, got) ==
    LET digest == Digest(source.kind, got) IN
    [kind |-> source.kind, name |-> name, identity |-> source.identity, source |-> source.source, trusted |-> TRUE,
     snapshot |-> digest, tree |-> got.tree, root |-> <<source.identity, digest>>,
     commit |-> IF source.kind = "git" THEN digest ELSE None,
     content |-> IF source.kind = "git" THEN None ELSE digest, revision |-> revision]

AddMarketplace(s, c) ==
    LET source == Canonical(c.raw)
        digest == Digest(source.kind, c.got)
    IN IF /\ Nameable(c.raw)
          /\ c.revision # None => source.kind = "git" /\ c.revision \in Commits
          /\ source.identity = OfficialIdentity \/ c.trust
          /\ c.name # "" /\ \A i \in DOMAIN s.records : s.records[i].name # c.name
          /\ Fetches(source.kind, source.identity, c.revision, c.got)
          /\ Remembers(s.history, source.identity, digest, c.got.tree)
       THEN [s EXCEPT !.records = Append(@, RecordOf(c.name, source, c.revision, c.got)),
                      !.history = @ \cup {Snapshot(source.identity, digest, c.got.tree)}]
       ELSE s

\* Written before anything else asks for a marketplace, when there is no file.
EnsureOfficial(s, got) ==
    IF s.records # <<>> \/ s.history # {} THEN s
    ELSE AddMarketplace(s, [raw |-> [form |-> "https", host |-> Official.host, path |-> Official.path, text |-> Official.source],
                            name |-> "official", trust |-> TRUE, revision |-> None, got |-> got])

\* Upgrades fetch anew what is chosen, each under its own revision; the fields of where
\* it came from stay, and all of them are checked before anything is written.
Upgraded(r, got) ==
    LET digest == Digest(r.kind, got) IN
    [r EXCEPT !.snapshot = digest, !.tree = got.tree, !.root = <<r.identity, digest>>,
              !.commit = IF r.kind = "git" THEN digest ELSE None,
              !.content = IF r.kind = "git" THEN None ELSE digest]
UpgradeMarketplace(s, c) ==
    LET chosen == {i \in DOMAIN s.records : c.name \in {None, s.records[i].name}}
        fetched == {Snapshot(s.records[i].identity, Digest(s.records[i].kind, c.got), c.got.tree) : i \in chosen}
        records == [i \in DOMAIN s.records |-> IF i \in chosen THEN Upgraded(s.records[i], c.got) ELSE s.records[i]]
    IN IF /\ chosen # {}
          /\ \A i \in chosen : /\ Fetches(s.records[i].kind, s.records[i].identity, s.records[i].revision, c.got)
                               /\ s.records[i].kind = "local" => ~c.moved
          /\ \A f \in fetched : Remembers(s.history \cup fetched, f.identity, f.snapshot, f.tree)
          /\ \A i \in chosen : RecordAccepted(records[i], s.history \cup fetched)
       THEN [s EXCEPT !.records = records, !.history = @ \cup fetched]
       ELSE s

\* The last trusted marketplace of a locked identity stays.
LastOf(s, i) ==
    /\ \E k \in DOMAIN s.lock : s.lock[k].identity = s.records[i].identity
    /\ \A j \in DOMAIN s.records \ {i} : s.records[j].identity # s.records[i].identity \/ ~s.records[j].trusted
RemoveMarketplace(s, c) ==
    IF \E i \in DOMAIN s.records : s.records[i].name = c.name /\ ~LastOf(s, i)
    THEN [s EXCEPT !.records = SelectSeq(@, LAMBDA r : r.name # c.name)]
    ELSE s

-----------------------------------------------------------------------------
(* The extension commands. *)

\* One record for every identity: the official name, or the first by name.
Before(r, t) == \/ r.name = "official" /\ t.name # "official"
                \/ t.name # "official" /\ Rank[r.name] < Rank[t.name]
Named(s, alias) ==
    {i \in DOMAIN s.records : alias = None \/ alias \in {s.records[i].name, s.records[i].identity}}
Preferred(s, alias) ==
    {i \in Named(s, alias) : \A j \in Named(s, alias) \ {i} :
        s.records[j].identity = s.records[i].identity => Before(s.records[i], s.records[j])}
ManifestsOf(r) == {Content[r.tree][k].manifest : k \in DOMAIN Content[r.tree]}
Candidates(s, c) ==
    UNION {{<<s.records[i], m>> : m \in {n \in ManifestsOf(s.records[i]) : n.id = c.id}} :
              i \in Preferred(s, c.alias)}

Systems(providers) == {p.name : p \in ToSet(providers)}
Claims(s, m) ==
    m.kind = "connector" =>
      /\ Systems(m.providers) \cap Reserved = {}
      /\ \A e \in ToSet(s.lock) :
           e.id # m.id /\ e.kind = "connector" /\ e.enabled /\ e.id \notin s.disabled =>
             Systems(m.providers) \cap Systems(e.providers) = {}

\* The wheel of every distribution this interpreter prefers, by the order of its tags.
Usable(m, tags) == {w \in ToSet(m.wheels) : w.tag \in ToSet(tags)}
Place(tags, tag) == CHOOSE i \in DOMAIN tags : tags[i] = tag
Chosen(m, tags) ==
    {w \in Usable(m, tags) : \A v \in Usable(m, tags) :
        v.distribution = w.distribution => Place(tags, w.tag) <= Place(tags, v.tag)}
Builds(m, tags) ==
    /\ \A v, w \in ToSet(m.wheels) : v.distribution = w.distribution => v.version = w.version
    /\ \E w \in Usable(m, tags) : w.distribution = m.distribution

InstallationOf(r, m, tags) ==
    [artifact |-> m, environment |-> <<"environments", m>>, id |-> m.id, manifest |-> m, identity |-> r.identity,
     snapshot |-> r.snapshot, version |-> m.version,
     wheels |-> {[name |-> w.name, sha256 |-> w.sha256] : w \in Chosen(m, tags)}]
EntryOf(r, m) ==
    [id |-> m.id, version |-> m.version, identity |-> r.identity, snapshot |-> r.snapshot, manifest |-> m, artifact |-> m,
     distribution |-> m.distribution, kind |-> m.kind, protocol |-> m.protocol,
     executable |-> IF m.kind = "connector" THEN None ELSE m.start, entryPoint |-> IF m.kind = "connector" THEN m.start ELSE None,
     providers |-> m.providers, commands |-> Ordered(ToSet(m.commands)), enabled |-> TRUE]

Added(s, r, m, tags) ==
    [s EXCEPT !.installations = Append(SelectSeq(@, LAMBDA x : x.artifact # m), InstallationOf(r, m, tags)),
              !.disabled = @ \ {m.id},
              !.lock = Append(SelectSeq(@, LAMBDA e : e.id # m.id), EntryOf(r, m))]
AddExtension(before, c) ==
    LET s == EnsureOfficial(before, c.got) IN
    IF /\ \A i \in Named(s, c.alias) : s.records[i].trusted
       /\ Cardinality(Candidates(s, c)) = 1
       /\ \E offer \in Candidates(s, c) : Compatible(offer[2].runtime, Runtime) /\ Claims(s, offer[2]) /\ Builds(offer[2], c.tags)
    THEN LET offer == CHOOSE o \in Candidates(s, c) : TRUE IN Added(s, offer[1], offer[2], c.tags)
    ELSE s

\* The manifest of a lock, from the snapshot it names, with every field it repeats.
ManifestOfLock(s, e) ==
    {m \in UNION {ManifestsOf(h) : h \in {g \in s.history : g.identity = e.identity /\ g.snapshot = e.snapshot}} :
        m.id = e.id /\ EntryOf(e, m) = [e EXCEPT !.enabled = TRUE] /\ e.artifact = m}
Expected(s, e, m, tags) == InstallationOf(e, m, tags)

RemoveExtension(s, c) ==
    LET entries == {e \in ToSet(s.lock) : e.id = c.id}
        disabled == IF c.default THEN s.disabled \cup {c.id} ELSE s.disabled
    IN IF entries = {} THEN [s EXCEPT !.disabled = disabled]
       ELSE LET e == CHOOSE x \in entries : TRUE
                same == {x \in ToSet(s.installations) : x.artifact = e.artifact}
            IN IF ManifestOfLock(s, e) = {} \/ \E m \in ManifestOfLock(s, e) : \E x \in same : x # Expected(s, e, m, c.tags) THEN s
               ELSE [s EXCEPT !.installations = SelectSeq(@, LAMBDA x : x \notin same), !.disabled = disabled,
                              !.lock = SelectSeq(@, LAMBDA x : x.id # c.id)]

After(s, c) ==
    CASE c.op = "add_marketplace" -> AddMarketplace(s, c)
      [] c.op = "upgrade_marketplace" -> UpgradeMarketplace(s, c)
      [] c.op = "remove_marketplace" -> RemoveMarketplace(s, c)
      [] c.op = "add" -> AddExtension(s, c)
      [] c.op = "remove" -> RemoveExtension(s, c)
\* The state before the first command, between two, and after the last.
StatesOf(commands) ==
    FoldLeft(LAMBDA states, c : Append(states, After(Last(states), c)), <<NoState>>, commands)

\* resolve_locked: what a dispatch may run.
Resolves(s, id, tags) ==
    \E e \in ToSet(s.lock) :
      /\ e.id = id /\ e.enabled /\ id \notin s.disabled
      /\ \E i \in DOMAIN s.records : s.records[i].identity = e.identity /\ s.records[i].trusted
      /\ \E m \in ManifestOfLock(s, e) :
           Compatible(m.runtime, Runtime) /\ Builds(m, tags) /\ Expected(s, e, m, tags) \in ToSet(s.installations)

-----------------------------------------------------------------------------
(* Whatever sequence of commands wrote the files, the next command accepts  *)
(* them: none of their checks refuses what another of them wrote.           *)
WrittenIsReadable(states) == \A i \in DOMAIN states : Accepted(states[i])

(* No command takes an extension away that resolved, but for its own        *)
(* removal: upgrades and removals of marketplaces, and other extensions,    *)
(* leave it as it was, and adding it anew leaves it resolvable.             *)
ResolvedStays(states, commands, tags) ==
    \A i \in DOMAIN commands : \A id \in {e.id : e \in ToSet(states[i].lock)} :
      Resolves(states[i], id, tags) /\ ~(commands[i].op = "remove" /\ commands[i].id = id) =>
        Resolves(states[i + 1], id, tags)

(* A marketplace is fetched only from where it was trusted: what carries    *)
(* the official identity comes from the official place, and what a revision *)
(* pins stays at it through every upgrade.                                  *)
TrustStays(states) ==
    \A i \in DOMAIN states : \A r \in ToSet(states[i].records) :
      /\ r.trusted
      /\ r.identity = OfficialIdentity =>
           r.source = Official.source /\ (r.revision = None => r.commit = Official.revision)
      /\ r.revision # None => r.commit = r.revision
=============================================================================

--------------------------- MODULE CodeFunctions ---------------------------
(***************************************************************************)
(* Custom Code functions: the bundles of sanka_cli/bundle.py and the       *)
(* commands of sanka_cli/commands/functions.py, as scripts like those of   *)
(* CloudMigrate.                                                           *)
(*                                                                         *)
(* A path is the sequence of its parts.  A directory d holds its files, a  *)
(* content per path, the paths that are links leading out of it, and the   *)
(* entries of its .sankaignore.  Bundling is deterministic: a bundle       *)
(* is the contents of its paths, and is its own digest.                    *)
(***************************************************************************)
EXTENDS CloudMigrate

CONSTANTS
    IgnoredParts,   \* names the default patterns ignore with all their contents
    IgnoredNames,   \* names they ignore as a file only
    SizeOf,         \* the bytes of each content
    MaxFiles, MaxBytes

ManifestPath == <<"sanka.json">>
IgnorePath == <<".sankaignore">>
Below(path, prefix) == Len(path) > Len(prefix) /\ SubSeq(path, 1, Len(prefix)) = prefix

-----------------------------------------------------------------------------
(* build_bundle.                                                           *)

(* The default patterns hold at every depth; an entry of .sankaignore is a *)
(* path from the root with its contents, or ("dir/") its contents only.    *)
Ignored(path, entries) ==
    \/ Range(path) \cap IgnoredParts # {}
    \/ Last(path) \in IgnoredNames
    \/ \E e \in entries : Below(path, e.path) \/ (path = e.path /\ ~e.contents)

Collected(d) == {p \in DOMAIN d.files : p \notin d.links /\ ~Ignored(p, d.ignore)}
BundleOf(d) == [p \in Collected(d) |-> d.files[p]]

Bundles(d) ==
    /\ ManifestPath \in Collected(d)
    /\ Cardinality(Collected(d)) <= MaxFiles
    /\ MapThenSumSet(LAMBDA p : SizeOf[d.files[p]], Collected(d)) <= MaxBytes

-----------------------------------------------------------------------------
(* extract_bundle: the members in order, until one is refused; what was    *)
(* written before stays.                                                   *)

Unsafe(path) == path = <<>> \/ path[1] = "" \/ ".." \in Range(path)
(* A link on the way leads out of the destination. *)
Escapes(d, path) == \E p \in d.links : p = path \/ Below(path, p)
(* A file where a directory has to be, or the reverse. *)
Blocked(d, path) == \E p \in DOMAIN d.files : Below(path, p) \/ Below(p, path)

ExtractBundle(members, destination, overwrite) ==
    LET Refused(d, m) ==
            \/ m.kind # "file" \/ Unsafe(m.path) \/ Escapes(d, m.path)
            \/ (m.path \in DOMAIN d.files /\ ~overwrite) \/ Blocked(d, m.path)
        Member(x, m) ==
            CASE ~x.ok \/ m.kind = "directory" -> x
              [] x.ok /\ m.kind # "directory" /\ Refused(x.disk, m) -> [x EXCEPT !.ok = FALSE]
              [] OTHER -> [x EXCEPT !.disk.files = (m.path :> m.content) @@ @]
    IN  FoldLeft(Member, [disk |-> destination, ok |-> TRUE], members)

(* The members of a bundle that build_bundle made, in some order. *)
MembersOf(bundle) ==
    LET paths == SetToSeq(DOMAIN bundle)
    IN  [k \in DOMAIN paths |-> [path |-> paths[k], kind |-> "file", content |-> bundle[paths[k]]]]
BundleIn(members) ==
    [p \in {members[k].path : k \in {j \in DOMAIN members : members[j].kind = "file"}} |->
        (CHOOSE m \in Range(members) : m.path = p /\ m.kind = "file").content]

-----------------------------------------------------------------------------
(* The commands.                                                           *)

LoadManifest(c) == Refuse(ManifestPath \notin DOMAIN c.dir.files \/ ~c.manifestValid)
Build(c) == Refuse(~Bundles(c.dir))

(* The version asked for if there is one (c.version, a sequence of at most *)
(* one), the live one, or the latest; 0 is a version nothing has. *)
LiveVersions(c) == {k \in DOMAIN c.aliases : c.aliases[k].alias = "live" /\ c.aliases[k].version # 0}
ResolvedVersion(c) ==
    CASE c.version # <<>> -> c.version[1]
      [] c.version = <<>> /\ LiveVersions(c) # {} -> c.aliases[Min(LiveVersions(c))].version
      [] OTHER -> c.latest
ResolveVersion(c) ==
    If(c.version = <<>>, <<Get("function", c.slug)>> \o Refuse(ResolvedVersion(c) = 0))

(* The digest is checked when the service declares one. *)
VerifyDigest(c) == Refuse(c.declared # <<>> /\ c.declared # <<BundleIn(c.members)>>)
Downloaded(c) == ResolveVersion(c) \o <<Get("bundle", ResolvedVersion(c))>> \o VerifyDigest(c)

(* A write step holds the directory it leaves. *)
Leaves(d) == <<[kind |-> "write", content |-> d]>>

(* init: a new manifest, and an entry file and .sankaignore unless there.  *)
Scaffold(c) == [p \in {c.entry, IgnorePath} |-> "template"]
InitFunction(c) ==
    Refuse(ManifestPath \in DOMAIN c.dir.files)
    \o Leaves([c.dir EXCEPT !.files = (ManifestPath :> "manifest") @@ @ @@ Scaffold(c)])

(* With --activate the request also asks for the live alias. *)
Push(c) ==
    LoadManifest(c) \o Build(c) \o If(c.dryRun, <<Stop("done")>>)
    \o <<Sends("POST", IF c.activate THEN "live version" ELSE "versions", c.slug, BundleOf(c.dir), FALSE)>>

InSync(c) == c.declared = <<BundleOf(c.dir)>>
Diff(c) == LoadManifest(c) \o Build(c) \o Downloaded(c) \o If(~InSync(c), <<Stop("differs")>>)

Extracted(c) == ExtractBundle(c.members, c.dir, c.force)
Pull(c) == Downloaded(c) \o Leaves(Extracted(c).disk) \o Refuse(~Extracted(c).ok)

(* rollback without --to takes the second of the two newest versions. *)
Live(c, version) == <<Sends("PUT", "live", c.slug, version, FALSE)>>
Rollback(c) ==
    IF c.version # <<>> THEN Live(c, c.version[1])
    ELSE <<Get("versions", c.slug)>>
         \o (IF Len(c.versions) < 2 THEN Refuse(TRUE) ELSE Live(c, c.versions[2]))

FunctionScript(c) ==
    (CASE c.command = "init" -> InitFunction(c)
       [] c.command = "create" -> LoadManifest(c) \o <<Post("functions", c.slug)>>
       [] c.command = "push" -> Push(c)
       [] c.command = "pull" -> Pull(c)
       [] c.command = "diff" -> Diff(c)
       [] c.command = "deploy" -> <<Sends("PUT", "alias", c.slug, c.version[1], FALSE)>>
       [] c.command = "rollback" -> Rollback(c)
       [] c.command = "unlock" -> If(~c.yes, Confirm(c)) \o <<Sends("PATCH", "ui", c.slug, None, FALSE)>>
       [] c.command = "lock" -> <<Sends("PATCH", "git", c.slug, None, FALSE)>>
       [] c.command = "secrets set" -> <<Sends("PUT", "secret", c.slug, None, FALSE)>>
       [] c.command = "secrets rm" -> <<Sends("DELETE", "secret", c.slug, None, FALSE)>>
       [] OTHER -> <<Get(c.command, c.slug)>>)
    \o <<Stop("done")>>

FunctionCommand(c) == Play(FunctionScript(c), c.fails)
DirectoryAfter(c, run) == IF run.wrote = <<>> THEN c.dir ELSE run.wrote[1].content

-----------------------------------------------------------------------------
(* PROPERTIES                                                              *)

(* Without --force no file that was there changes, even when a bundle is   *)
(* refused half way; nothing is written through a link.                    *)
FilesStay(c, run) ==
    LET after == DirectoryAfter(c, run)
    IN  /\ ~(c.command = "pull" /\ c.force) =>
             \A p \in DOMAIN c.dir.files : after.files[p] = c.dir.files[p]
        /\ \A p \in DOMAIN after.files \ DOMAIN c.dir.files :
             \A link \in c.dir.links : p # link /\ ~Below(p, link)

(* A pull that says it is done left every file of the bundle, which has    *)
(* the digest the service declared, if it declared one.                    *)
PulledWhole(c, run) ==
    c.command = "pull" /\ run.end = "done" =>
        LET bundle == BundleIn(c.members)
        IN  /\ c.declared \in {<<>>, <<bundle>>}
            /\ \A p \in DOMAIN bundle : DirectoryAfter(c, run).files[p] = bundle[p]

(* What is pushed can be pulled: into an empty directory a bundle is       *)
(* extracted whole, and bundled again it is the same, whatever             *)
(* .sankaignore said when it was made; a version pushed twice is one.      *)
RoundTrip(c) ==
    Bundles(c.dir) =>
        LET empty == [files |-> <<>>, links |-> {}, ignore |-> {}]
            pulled == ExtractBundle(MembersOf(BundleOf(c.dir)), empty, FALSE)
        IN  pulled.ok /\ Bundles(pulled.disk) /\ BundleOf(pulled.disk) = BundleOf(c.dir)

(* diff says that directory and version agree only when they do, and a     *)
(* push sends what the directory holds, never an ignored or linked file.   *)
SyncTells(c, run) ==
    /\ c.command = "diff" /\ run.end = "done" => BundleOf(c.dir) = BundleIn(c.members)
    /\ c.command = "diff" /\ run.end = "differs" /\ c.declared # <<>> => BundleOf(c.dir) # BundleIn(c.members)
    /\ c.command = "push" => \A k \in DOMAIN run.sent :
         /\ ~c.dryRun /\ ManifestPath \in DOMAIN run.sent[k].hash
         /\ \A p \in DOMAIN run.sent[k].hash :
              p \notin c.dir.links /\ Range(p) \cap IgnoredParts = {} /\ Last(p) \notin IgnoredNames

FunctionsSafe(c) ==
    LET run == FunctionCommand(c)
    IN  FilesStay(c, run) /\ PulledWhole(c, run) /\ RoundTrip(c) /\ SyncTells(c, run)
=============================================================================

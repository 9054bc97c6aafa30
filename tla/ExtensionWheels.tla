--------------------------- MODULE ExtensionWheels ---------------------------
(***************************************************************************)
(* What the store makes of an extension's wheels before it installs them:  *)
(* it inspects each, follows their requirements, lays their files out in   *)
(* one directory and looks for the entry points the manifest declares.     *)
(* Nothing resolves or runs a wheel but this, so what passes is all that   *)
(* an environment will ever hold.                                          *)
(*                                                                         *)
(* A name is a string and a path a sequence of names; the text of METADATA,*)
(* WHEEL and entry_points.txt is given by what their parsers find in it.   *)
(***************************************************************************)
EXTENDS Naturals, Sequences, FiniteSets, SequencesExt, TLC

CONSTANTS DataRoots,     \* the names that end in ".data"
          Unsafe,        \* the names no member may have: "..", "\\", a leading "/"
          Infos,         \* the names that end in ".dist-info"
          MaxMembers     \* MAX_WHEEL_MEMBERS

-----------------------------------------------------------------------------
(* One wheel. *)

\* The directory a wheel's own .data root holds is laid out in place of it.
InstallPath(member, wheel) ==
    IF Head(member.path) \in DataRoots THEN SubSeq(member.path, 3, Len(member.path)) ELSE member.path

Installable(member, wheel) ==
    Head(member.path) \in DataRoots =>
        /\ Head(member.path) = wheel.data
        /\ \/ Len(member.path) = 1 /\ member.dir
           \/ /\ Len(member.path) > 1 /\ member.path[2] = "purelib"
              /\ Len(member.path) >= 3 \/ member.dir

\* A directory's trailing slash does not make it another member.
MembersSafe(wheel) ==
    /\ Len(wheel.members) <= MaxMembers
    /\ \A i \in DOMAIN wheel.members :
          LET member == wheel.members[i] IN
          /\ member.path # <<>> /\ ToSet(member.path) \cap Unsafe = {}
          /\ member.plain
          /\ \A j \in 1 .. i - 1 : wheel.members[j].path # member.path

Inspected(wheel, manifest) ==
    /\ MembersSafe(wheel)
    /\ \A i \in DOMAIN wheel.members : Installable(wheel.members[i], wheel)
    /\ Len(wheel.entryFiles) <= 1
    /\ wheel.names = <<wheel.distribution>> /\ wheel.versions = <<wheel.version>>
    /\ wheel.declaredTags # {} /\ wheel.declaredTags = wheel.tags
    /\ \A i \in DOMAIN wheel.requires : wheel.requires[i].valid /\ ~wheel.requires[i].url
    /\ wheel.distribution = manifest.distribution =>
          /\ wheel.entryFiles # <<>>
          /\ \E e \in wheel.entryFiles[1] :
                IF manifest.kind = "connector"
                THEN e.group = "sanka.connectors" /\ e.name = manifest.entryPoint /\ e.valid
                ELSE e.group = "console_scripts" /\ e.name = manifest.executable /\ e.valid

-----------------------------------------------------------------------------
(* The requirements of a set of wheels.  A marker holds always, never, for  *)
(* one extra, or for anything but one.                                      *)

Holds(marker, extra) ==
    CASE marker.kind = "always" -> TRUE
      [] marker.kind = "never"  -> FALSE
      [] marker.kind = "extra"  -> extra = marker.extra
      [] marker.kind = "but"    -> extra # marker.extra
Active(requirement, extras) ==
    \E e \in IF extras = {} THEN {""} ELSE extras : Holds(requirement.marker, e)

\* One requirement of a distribution whose requested extras are "extras": its
\* distribution is looked at again whenever more is asked of it.
FollowOnce(s, requirement, extras, c) == \* MUTANT
    IF s.verdict # "ok" \/ ~Active(requirement, extras) THEN s
    ELSE IF requirement.name \notin DOMAIN c.selected
    THEN [s EXCEPT !.verdict = IF requirement.name \in c.available THEN "platform" ELSE "undeclared"]
    ELSE IF c.selected[requirement.name] \notin requirement.admits THEN [s EXCEPT !.verdict = "unsatisfied"]
    ELSE IF requirement.name \in DOMAIN s.extras THEN s
    ELSE [s EXCEPT !.extras = (requirement.name :> requirement.extras) @@ @, !.pending = Append(@, requirement.name)]
Follow(s, requirement, extras, c) ==
    LET first == requirement.name \notin DOMAIN s.extras
        before == IF first THEN {} ELSE s.extras[requirement.name]
        after == before \cup requirement.extras
    IN IF s.verdict # "ok" \/ ~Active(requirement, extras) THEN s
       ELSE IF requirement.name \notin DOMAIN c.selected
       THEN [s EXCEPT !.verdict = IF requirement.name \in c.available THEN "platform" ELSE "undeclared"]
       ELSE IF c.selected[requirement.name] \notin requirement.admits
       THEN [s EXCEPT !.verdict = "unsatisfied"]
       ELSE [s EXCEPT !.extras = (requirement.name :> after) @@ @,
                      !.pending = IF first \/ after # before THEN Append(@, requirement.name) ELSE @]

RECURSIVE Worklist(_, _)
Worklist(s, c) ==
    IF s.verdict # "ok" \/ s.pending = <<>> THEN s
    ELSE LET distribution == Last(s.pending)
             extras == s.extras[distribution]
             popped == [s EXCEPT !.pending = Front(@)]
         IN IF <<distribution, extras>> \in s.processed THEN Worklist(popped, c)
            ELSE Worklist(FoldLeft(LAMBDA t, r : Follow(t, r, extras, c),
                                   [popped EXCEPT !.processed = @ \cup {<<distribution, extras>>}],
                                   c.requires[distribution]), c)

Closure(c) ==
    Worklist([verdict |-> "ok", extras |-> c.root :> {}, pending |-> <<c.root>>, processed |-> {}], c)

-----------------------------------------------------------------------------
(* The files of a set of wheels in one directory. *)

Parents(path) == {SubSeq(path, 1, n) : n \in 1 .. Len(path) - 1}

LayMember(s, member, wheel) ==
    LET path == InstallPath(member, wheel)
        directories == Parents(path) \cup (IF member.dir THEN {path} ELSE {})
    IN IF ~s.ok \/ (member.dir /\ path = <<>>) THEN s
       ELSE IF \/ ~member.dir /\ path \in s.files \cup s.directories
               \/ directories \cap s.files # {}
       THEN [s EXCEPT !.ok = FALSE]
       ELSE [s EXCEPT !.directories = @ \cup directories,
                      !.files = IF member.dir THEN @ ELSE @ \cup {path}]

\* The RECORD of a wheel is written anew and not compared.
Recorded(path) == ~(ToSet(path) \cap Infos # {} /\ Last(path) = "RECORD")
LayOut(wheels) ==
    LET laid == FoldLeft(LAMBDA s, w : FoldLeft(LAMBDA t, m : LayMember(t, m, w), s, w.members),
                         [ok |-> TRUE, files |-> {}, directories |-> {}], wheels)
    IN [ok |-> laid.ok, records |-> {p \in laid.files : Recorded(p)}]

-----------------------------------------------------------------------------
(* The entry points of a set of wheels. *)

EntryFile(wheel) == IF wheel.entryFiles = <<>> THEN {} ELSE wheel.entryFiles[1]
EntriesIn(wheels, groups) ==
    UNION {{<<i, e>> : e \in {f \in EntryFile(wheels[i]) : f.group \in groups}} : i \in DOMAIN wheels}
Scripts == {"console_scripts", "gui_scripts"}

OneScript(wheels, manifest) ==
    \E s \in EntriesIn(wheels, Scripts) :
       /\ EntriesIn(wheels, Scripts) = {s}
       /\ s[2].group = "console_scripts" /\ s[2].name = manifest.executable /\ s[2].valid

DeclaredProviders(wheels, manifest) ==
    LET entries == EntriesIn(wheels, {"sanka.connectors"}) IN
    /\ EntriesIn(wheels, Scripts) = {}
    /\ \A s, t \in entries : s[2].name = t[2].name => s = t
    /\ {s[2].name : s \in entries} = manifest.providers
    /\ \A s \in entries : s[2].valid

\* add_extension, once the wheels are chosen and cached; every wheel is hashed
\* again before it is read.
ByDistribution(wheels) == [d \in {wheels[i].distribution : i \in DOMAIN wheels} |->
    (CHOOSE i \in DOMAIN wheels : wheels[i].distribution = d)]
Installs(wheels, manifest) ==
    LET by == ByDistribution(wheels) IN
    /\ \A i \in DOMAIN wheels : Inspected(wheels[i], manifest)
    /\ Closure([root |-> manifest.distribution, available |-> manifest.wheels,
                selected |-> [d \in DOMAIN by |-> wheels[by[d]].version],
                requires |-> [d \in DOMAIN by |-> wheels[by[d]].requires]]).verdict = "ok"
    /\ LayOut(wheels).ok
    /\ IF manifest.kind = "connector" THEN DeclaredProviders(wheels, manifest) ELSE OneScript(wheels, manifest)

-----------------------------------------------------------------------------
(* What is asked of a distribution, whatever the order it is asked in: the  *)
(* least set of distributions and extras that follows from the root.        *)
Follows(asked, c) ==
    UNION {UNION {{<<r.name, x>> : x \in r.extras \cup {""}} :
                     r \in {q \in ToSet(c.requires[d]) : Active(q, {a[2] : a \in {b \in asked : b[1] = d}} \ {""})}} :
              d \in {a[1] : a \in asked} \cap DOMAIN c.selected}
RECURSIVE Asked(_, _)
Asked(asked, c) ==
    LET more == asked \cup Follows(asked, c) IN IF more = asked THEN asked ELSE Asked(more, c)

Met(requirement, c) ==
    requirement.name \in DOMAIN c.selected /\ c.selected[requirement.name] \in requirement.admits
\* With more extras, at least as many requirements are active.
Monotone(c) == \A d \in DOMAIN c.requires : \A r \in ToSet(c.requires[d]) :
    \A e \in {"", "x", "y"} : Holds(r.marker, "") => Holds(r.marker, e)

(* A set of wheels is accepted only if every requirement that holds for what *)
(* is asked of a distribution in the end is met in it, and, when no marker   *)
(* turns false with an extra, if and only if it is.                          *)
ClosureComplete(c) ==
    LET end == Closure(c)
        least == Asked({<<c.root, "">>}, c)
    IN /\ end.verdict = "ok" =>
            \A d \in DOMAIN end.extras : \A r \in ToSet(c.requires[d]) :
               Active(r, end.extras[d]) => Met(r, c) /\ r.name \in DOMAIN end.extras /\ r.extras \subseteq end.extras[r.name]
       /\ Monotone(c) =>
            (end.verdict = "ok") <=> (\A d \in {a[1] : a \in least} \cap DOMAIN c.requires : \A r \in ToSet(c.requires[d]) :
               Active(r, {a[2] : a \in {b \in least : b[1] = d}} \ {""}) => Met(r, c))

(* Wheels are laid out over each other only if, in whatever order, no two    *)
(* files have one path and no file stands where another needs a directory.   *)
LaidOutWhole(wheels) ==
    LET all == {<<i, j>> \in (DOMAIN wheels) \X (1 .. MaxMembers) : j \in DOMAIN wheels[i].members}
        member(a) == wheels[a[1]].members[a[2]]
        path(a) == InstallPath(member(a), wheels[a[1]])
        files == {a \in all : ~member(a).dir}
    IN /\ LayOut(wheels).ok <=>
            \A f \in files : \A a \in all \ {f} :
               path(f) # path(a) /\ path(f) \notin Parents(path(a))
       /\ LayOut(wheels).ok => LayOut(wheels).records = {path(f) : f \in files} \ {p \in {path(f) : f \in files} : ~Recorded(p)}

(* What is installed can be started in one way, that of the manifest: one    *)
(* script or exactly its providers, each once, the primary wheel's among it. *)
StartsOneWay(wheels, manifest) ==
    Installs(wheels, manifest) =>
      \E i \in DOMAIN wheels :
         /\ wheels[i].distribution = manifest.distribution
         /\ IF manifest.kind = "connector"
            THEN /\ \A p \in manifest.providers :
                      Cardinality({k \in DOMAIN wheels : \E e \in EntryFile(wheels[k]) : e.group = "sanka.connectors" /\ e.name = p}) = 1
                 /\ \E e \in EntryFile(wheels[i]) : e.name = manifest.entryPoint
            ELSE \A k \in DOMAIN wheels : \A e \in EntryFile(wheels[k]) :
                   e.group \in Scripts => k = i /\ e.group = "console_scripts" /\ e.name = manifest.executable
=============================================================================

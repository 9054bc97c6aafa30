------------------------- MODULE MigrationPlanning -------------------------
(***************************************************************************)
(* From two inventories to the scope an approval binds: how fields are     *)
(* matched, how the plan's routes are made of them, how a selection, the   *)
(* saved manifest, marks and totals freeze a scope, and how an exact scope *)
(* enumerates the records it may touch.                                    *)
(*                                                                         *)
(* The key and the label of a field are the sets of words in them.         *)
(***************************************************************************)
EXTENDS Integers, Sequences, FiniteSets, SequencesExt, FiniteSetsExt

-----------------------------------------------------------------------------
(* Matching fields (mapping_candidates.py).                                 *)

OwnerWords == {"owner", "salesperson", "assignee"}
WordsOf(f) == f.key \cup f.label

Score(s, t) ==
    (IF s.key # {} /\ s.key = t.key THEN 100
     ELSE IF s.label # {} /\ s.label = t.label THEN 80
     ELSE 15 * Cardinality(WordsOf(s) \cap WordsOf(t)))
    + (IF s.family = t.family THEN 20 ELSE 0)
    + (IF "email" \in WordsOf(s) /\ WordsOf(t) \cap OwnerWords # {} THEN 60 ELSE 0)

Threshold == 50

Rule(s, t) ==
    CASE s.family = t.family -> "none"
      [] t.family = "number" -> "number_parse"
      [] t.family = "date" -> "date_parse"
      [] t.family = "boolean" -> "boolean_map"
      [] OTHER -> "trim"
Kind(s, t) ==
    IF WordsOf(t) \cap OwnerWords # {} /\ ("email" \in WordsOf(s) \/ s.family = "email")
    THEN "owner" ELSE "scalar"

Candidate(source, s, target, t) ==
    [source |-> source.name, field |-> s, target |-> target.name, to |-> t, rule |-> Rule(s, t),
     kind |-> Kind(s, t), identity |-> t.unique \/ t \in target.identities]

\* The best free target of one source field, ties going to the first name.
TargetTaken(t, used) == FALSE \* MUTANT
Taken(t, used) == t \in used
Best(s, target, used) ==
    LET free == {t \in target.fields : t.writable /\ ~Taken(t, used)}
        best == {t \in free : \A o \in free : Score(s, o) <= Score(s, t)}
    IN {t \in best : Score(s, t) >= Threshold /\ \A o \in best : t.rank <= o.rank}

\* The last destination object of a type stands for the type.
TargetOf(source, destinations) ==
    LET same == {i \in DOMAIN destinations : destinations[i].type = source.type} IN
    IF same = {} THEN {} ELSE {destinations[Max(same)]}

\* One source object after the other, each with the targets it has used.
Candidates(sources, destinations) ==
    UNION {UNION {
        FoldLeft(LAMBDA done, s :
                   LET best == Best(s, target, done.used) IN
                   [used |-> done.used \cup best,
                    rows |-> done.rows \cup {Candidate(source, s, target, t) : t \in best}],
                 [used |-> {}, rows |-> {}], source.fields).rows
        : target \in TargetOf(source, destinations)} : source \in Range(sources)}

-----------------------------------------------------------------------------
(* The plan (planner.py).                                                   *)

Selected(sources) ==
    LET wanted == {s \in Range(sources) : s.selected} IN
    IF wanted = {} THEN Range(sources) ELSE wanted

\* mapping_groups, for the rows of one source object.
RowsOf(rows, source) == {r \in rows : r.source = source.name}
IdentityTargets(rows) == {r.to : r \in {x \in rows : x.identity /\ x.kind # "relationship"}}

Automatic(source, rows) ==
    [source |-> source.name, target |-> (CHOOSE r \in rows : TRUE).target, origin |-> "auto",
     identity |-> source.identity, rows |-> rows, identities |-> IdentityTargets(rows)]
\* Without a match every field keeps its own name.
AsIs(source, suggested) ==
    [source |-> source.name, target |-> suggested[source.type], origin |-> "identity",
     identity |-> source.identity, rows |-> {}, identities |-> {source.identity}]

BuildPlan(sources, destinations, suggested) ==
    LET rows == Candidates(sources, destinations)
        planned == {s \in Selected(sources) : s.known /\ s.identity # "none"}
        Route(s) == IF RowsOf(rows, s) # {} THEN Automatic(s, RowsOf(rows, s)) ELSE AsIs(s, suggested)
        routes == {Route(s) : s \in planned}
    IN [routes |-> routes,
        warnings |-> {<<"skipped", s.name>> : s \in Selected(sources) \ planned}
                     \cup {<<"no upsert", r.source>> : r \in {x \in routes : x.identities = {}}}]

-----------------------------------------------------------------------------
(* Manifests and selections (report_codec.py).                              *)

Refused(code) == [refused |-> code]
Refuses(result) == "refused" \in DOMAIN result

\* canonical_route_manifest: every saved key must be the one its row derives.
Derived(row) == <<row.source, row.target, row.filter>>
Canonical(rows) ==
    IF rows = <<>> THEN Refused("MANIFEST_MISSING")
    ELSE IF \E i \in DOMAIN rows : rows[i].source = "" \/ rows[i].target = ""
              \/ rows[i].key \notin {<<>>, Derived(rows[i])}
              \/ \E j \in 1 .. i - 1 : Derived(rows[j]) = Derived(rows[i])
         THEN Refused("MANIFEST_INVALID")
    ELSE [routes |-> {[key |-> Derived(rows[i]), identities |-> rows[i].identities] : i \in DOMAIN rows}]

RequireMatching(current, expected) ==
    IF Refuses(Canonical(current)) THEN Canonical(current)
    ELSE IF Refuses(Canonical(expected)) THEN Canonical(expected)
    ELSE IF Canonical(current) # Canonical(expected) THEN Refused("MANIFEST_CHANGED")
    ELSE Canonical(expected)

\* selected_route_keys: no request, or one of blanks only, selects every route.
Requested(requested) == {k \in requested : k # <<>>}
SelectRoutes(known, requested) ==
    IF Requested(requested) = {} THEN [keys |-> known]
    ELSE IF Requested(requested) \ known # {} THEN Refused("ROUTE_INVALID")
    ELSE [keys |-> Requested(requested)]

-----------------------------------------------------------------------------
(* Marks, totals and the frozen scope (scope.py).  A mark is a position,    *)
(* "none" for a route without records, or "blank".                          *)

Unsupported == "unsupported"

\* execution_route_high_water_marks: the saved marks are for every reviewed route or none.
SavedMarks(saved, known) ==
    IF DOMAIN saved = {} THEN [marks |-> <<>>]
    ELSE IF DOMAIN saved # known \/ \E k \in known : saved[k] = "blank" THEN Refused("MARK_INVALID")
    ELSE [marks |-> saved]

\* A source [marks, counts, bounded, fails, high, frozen, size]: what it supports,
\* and what it holds up to a mark and in all.
FreshMarks(source, known) == IF source.marks THEN [k \in known |-> source.high[k]] ELSE <<>>

Uncountable(source, marks, k) == k \in DOMAIN marks /\ ~source.bounded
Total(source, marks, k) ==
    IF k \in DOMAIN marks /\ marks[k] = "none" THEN 0
    ELSE IF k \in source.fails THEN -1
    ELSE IF k \in DOMAIN marks /\ source.bounded THEN source.frozen[k] ELSE source.size[k]

\* frozen_route_totals: -1 is unknown, never zero.
FrozenTotals(source, marks, keys) ==
    IF ~source.counts THEN [totals |-> [k \in keys |-> -1]]
    ELSE IF \E k \in keys : ~(k \in DOMAIN marks /\ marks[k] = "none") /\ Uncountable(source, marks, k)
         THEN Refused(Unsupported)
    ELSE [totals |-> [k \in keys |-> Total(source, marks, k)]]

FreezeScope(manifest, requested, saved, source) ==
    IF Refuses(manifest) THEN manifest
    ELSE LET known == {r.key : r \in manifest.routes}
             chosen == SelectRoutes(known, requested)
             reused == SavedMarks(saved, known)
         IN IF Refuses(chosen) THEN chosen
            ELSE IF Refuses(reused) THEN reused
            ELSE LET marks == IF DOMAIN reused.marks # {} THEN reused.marks ELSE FreshMarks(source, known)
                     totals == FrozenTotals(source, marks, chosen.keys)
                 IN IF Refuses(totals) THEN totals
                    ELSE [manifest |-> manifest, selected |-> chosen.keys, marks |-> marks, totals |-> totals.totals]

-----------------------------------------------------------------------------
(* Exact scopes.  An id as it was spelled is [id, padded]; a blank one has  *)
(* the id "".  The hash stands for what it is computed from; the request    *)
(* and the approved hash are given as sets of at most one.                  *)

Spelled(ids) == {i.id : i \in ids} \ {""}
CandidateHash(candidates) == [k \in DOMAIN candidates |-> Spelled(candidates[k])]

ExactScope(manifest, candidates, requested, approved) ==
    IF Refuses(manifest) THEN manifest
    ELSE IF DOMAIN candidates = {} THEN Refused("ROUTE_INVALID")
    ELSE LET chosen == SelectRoutes({r.key : r \in manifest.routes},
                                    IF requested = {} THEN DOMAIN candidates ELSE UNION requested)
         IN IF Refuses(chosen) THEN chosen
            ELSE IF chosen.keys # DOMAIN candidates THEN Refused("ROUTE_INVALID")
            ELSE IF ~(approved \subseteq {CandidateHash(candidates)}) THEN Refused("HASH_MISMATCH")
            ELSE [selected |-> chosen.keys, hash |-> CandidateHash(candidates),
                  ids |-> [k \in chosen.keys |-> Spelled(candidates[k])],
                  totals |-> [k \in chosen.keys |-> Cardinality(Spelled(candidates[k]))]]
ScopeHash(manifest, scope) == <<manifest, scope.selected, scope.hash>>
VerifyHash(scope) == CandidateHash([k \in DOMAIN scope.ids |-> {[id |-> i, padded |-> FALSE] : i \in scope.ids[k]}]) = scope.hash

-----------------------------------------------------------------------------
(* Matching is one to one on writable fields that score enough, takes no    *)
(* target another field of the object could not give up, and misses no      *)
(* match: a field left out has no free target that scores enough.           *)
MatchedOneToOne(sources, destinations) ==
    LET rows == Candidates(sources, destinations) IN
    \A source \in Range(sources) : \A target \in TargetOf(source, destinations) :
        LET mine == RowsOf(rows, source)
            used == {r.to : r \in mine}
        IN /\ \A r \in mine : r.target = target.name /\ r.to.writable /\ Score(r.field, r.to) >= Threshold
           /\ \A r, q \in mine : r.to = q.to \/ r.field = q.field => r = q
           /\ \A s \in Range(source.fields) \ {r.field : r \in mine}, t \in target.fields \ used :
                t.writable => Score(s, t) < Threshold

(* Every selected object is planned once or its omission is warned about,   *)
(* and every route either has fields to find its record by or says it can   *)
(* only rely on the ledger.                                                 *)
PlanAccounts(sources, destinations, suggested) ==
    LET plan == BuildPlan(sources, destinations, suggested) IN
    /\ \A s \in Selected(sources) :
         Cardinality({r \in plan.routes : r.source = s.name})
           = (IF <<"skipped", s.name>> \in plan.warnings THEN 0 ELSE 1)
    /\ \A r \in plan.routes : (r.identities = {}) = (<<"no upsert", r.source>> \in plan.warnings)

(* Of two manifests without a blank object, an underived key or a repeated  *)
(* route, the saved one is accepted exactly while the mapping still has its *)
(* routes, filters and identities, in whatever order they are listed.       *)
Rows(rows) == {<<Derived(rows[i]), rows[i].identities>> : i \in DOMAIN rows}
ManifestBinds(current, expected) ==
    LET accepted == ~Refuses(RequireMatching(current, expected))
        wellFormed == ~Refuses(Canonical(current)) /\ ~Refuses(Canonical(expected))
    IN /\ wellFormed => accepted = (Rows(current) = Rows(expected))
       /\ accepted => wellFormed /\ Cardinality(Rows(current)) = Len(expected)

(* A frozen scope selects reviewed routes only, has marks for all of them   *)
(* or for none, and a total for each selected one that is unknown or counts *)
(* exactly what lies below the mark.                                        *)
ScopeFrozen(manifest, requested, saved, source) ==
    LET scope == FreezeScope(manifest, requested, saved, source)
        known == {r.key : r \in manifest.routes}
    IN ~Refuses(scope) =>
        /\ scope.selected # {} /\ scope.selected \subseteq known
        /\ DOMAIN scope.marks \in {{}, known} /\ DOMAIN scope.totals = scope.selected
        /\ \A k \in scope.selected : scope.totals[k] \in
             {-1, IF k \notin DOMAIN scope.marks THEN source.size[k]
                  ELSE IF scope.marks[k] = "none" THEN 0 ELSE source.frozen[k]}

(* An exact scope enumerates exactly the records of its selected routes;    *)
(* its approval survives another spelling of the same ids and nothing else. *)
ExactBinds(manifest, candidates, others, requested) ==
    LET scope == ExactScope(manifest, candidates, requested, {})
        again == ExactScope(manifest, others, requested, {CandidateHash(candidates)})
    IN /\ ~Refuses(scope) =>
            /\ scope.selected = DOMAIN candidates /\ VerifyHash(scope)
            /\ \A k \in scope.selected : scope.totals[k] = Cardinality(scope.ids[k]) /\ "" \notin scope.ids[k]
       /\ ~Refuses(scope) /\ ~Refuses(again) =>
            ScopeHash(manifest, again) = ScopeHash(manifest, scope) /\ again.ids = scope.ids
       /\ ~Refuses(scope) /\ CandidateHash(others) = CandidateHash(candidates) => again = scope
=============================================================================

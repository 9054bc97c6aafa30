-------------------------- MODULE ApplyEngineProofs --------------------------
(***************************************************************************)
(* Proofs about ApplyEngine, for every number of processes, routes and     *)
(* records and every bound: type correctness, and that a run reported as   *)
(* applied has migrated every approved record.                             *)
(***************************************************************************)
EXTENDS ApplyEngine, FiniteSetTheorems, WellFoundedInduction, TLAPS

-----------------------------------------------------------------------------
(* Helpers of KeysetSource and ExecutionLedger.                            *)

(* The naturals are well founded, stated without a relation operator. *)
LEMMA NatMinimum ==
    ASSUME NEW T \in SUBSET Nat, T # {}
    PROVE  \E x \in T : \A y \in T : x <= y
<1>1. \A x, y \in Nat : y < x => <<y, x>> \in OpToRel(<, Nat)
  <2>1. SUFFICES ASSUME NEW x \in Nat, NEW y \in Nat, y < x
                 PROVE  <<y, x>> \in {ss \in Nat \X Nat : ss[1] < ss[2]}
    BY Zenon DEF OpToRel
  <2>. QED
    BY <2>1
<1>2. \E x \in T : \A y \in T : <<y, x>> \notin OpToRel(<, Nat)
  BY WFMin, NatLessThanWellFounded
<1>3. PICK x \in T : \A y \in T : ~(y < x)
  BY <1>1, <1>2, Zenon
<1>. QED
  BY <1>3

(* A nonempty set of identities has a least one. *)
LEMMA FirstOfIn ==
    ASSUME NEW S \in SUBSET Records, S # {}
    PROVE  FirstOf(S) \in S /\ \A y \in S : FirstOf(S) <= y
<1>1. S \subseteq Nat
  BY RecordsAssumption DEF Records
<1>. QED
  BY <1>1, NatMinimum DEF FirstOf

(* LastOf is the greatest identity of the set, or the default. *)
LEMMA LastOfIn ==
    ASSUME NEW S \in SUBSET Records, NEW d
    PROVE  /\ LastOf(S, d) \in S \cup {d}
           /\ \A y \in S : y <= LastOf(S, d)
<1>1. CASE S = {}
  BY <1>1 DEF LastOf
<1>2. CASE S # {}
  <2>. DEFINE U == {n \in Nat : \A y \in S : y <= n}
  <2>1. S \subseteq Nat /\ MaxRecord \in U
    BY RecordsAssumption DEF Records
  <2>2. PICK m \in U : \A n \in U : m <= n
    BY <2>1, NatMinimum
  <2>3. m \in S
    <3>1. SUFFICES ASSUME m \notin S
                   PROVE  FALSE
      OBVIOUS
    <3>2. \A y \in S : y < m
      BY <2>1, <3>1
    <3>3. m > 0
      <4>1. PICK y \in S : TRUE
        BY <1>2
      <4>. QED
        BY <2>1, <3>2, <4>1
    <3>4. m - 1 \in U
      BY <2>1, <3>2, <3>3
    <3>. QED
      BY <2>2, <3>4
  <2>4. \E x \in S : \A y \in S : y <= x
    BY <2>3
  <2>. HIDE DEF U
  <2>. QED
    BY <1>2, <2>4 DEF LastOf
<1>. QED
  BY <1>1, <1>2

(* One row through the upsert: a terminal status is sticky. *)
LEMMA MergeKeeps ==
    ASSUME NEW row \in Row, NEW outcome \in Outcome
    PROVE  /\ Merge(row, outcome) \in Row
           /\ IsTerminal(row) => /\ IsTerminal(Merge(row, outcome))
                                /\ Merge(row, outcome).status = row.status
BY DEF Row, Outcome, Merge, IsTerminal, Status, Terminal

(* An upsert keeps the table's type, and a terminal row keeps its status   *)
(* and a known destination id.                                             *)
LEMMA UpsertKeeps ==
    ASSUME NEW table \in [Routes -> [Records -> Row]], NEW r \in Routes,
           NEW ids \in SUBSET Records, NEW out \in PartialOutcomes,
           ids \subseteq DOMAIN out
    PROVE  /\ UpsertResults(table, r, ids, out) \in [Routes -> [Records -> Row]]
           /\ \A q \in Routes : \A x \in Records :
                IsTerminal(table[q][x]) =>
                  LET new == UpsertResults(table, r, ids, out)[q][x]
                  IN  /\ IsTerminal(new)
                      /\ new.status = table[q][x].status
                      /\ table[q][x].known => new.known
<1>1. PICK D \in SUBSET Records : out \in [D -> Outcome]
  BY DEF PartialOutcomes
<1>2. \A x \in ids : out[x] \in Outcome
  BY <1>1
<1>3. \A row \in Row : \A o \in Outcome : Merge(row, o) \in Row
  BY MergeKeeps
<1>4. \A q \in Routes : \A x \in Records :
        UpsertResults(table, r, ids, out)[q][x] =
          IF q = r /\ x \in ids THEN Merge(table[q][x], out[x]) ELSE table[q][x]
  BY DEF UpsertResults
<1>5. \A q \in Routes : \A x \in Records : table[q][x] \in Row
  OBVIOUS
<1>6. UpsertResults(table, r, ids, out) \in [Routes -> [Records -> Row]]
  BY <1>2, <1>3 DEF UpsertResults
<1>7. ASSUME NEW q \in Routes, NEW x \in Records, IsTerminal(table[q][x])
      PROVE  LET new == UpsertResults(table, r, ids, out)[q][x]
             IN  /\ IsTerminal(new)
                 /\ new.status = table[q][x].status
                 /\ table[q][x].known => new.known
  <2>1. CASE q = r /\ x \in ids
    <3>1. UpsertResults(table, r, ids, out)[q][x] = Merge(table[q][x], out[x])
      BY <1>4, <2>1
    <3>2. table[q][x] \in Row /\ out[x] \in Outcome
      BY <1>2, <1>5, <2>1
    <3>3. /\ IsTerminal(Merge(table[q][x], out[x]))
          /\ Merge(table[q][x], out[x]).status = table[q][x].status
      BY <1>7, <3>2, MergeKeeps
    <3>4. table[q][x].known => Merge(table[q][x], out[x]).known
      BY DEF Merge
    <3>. QED
      BY <3>1, <3>3, <3>4, Zenon
  <2>2. CASE ~(q = r /\ x \in ids)
    <3>1. UpsertResults(table, r, ids, out)[q][x] = table[q][x]
      BY <1>4, <2>2
    <3>. QED
      BY <1>7, <3>1, Zenon
  <2>. QED
    BY <2>1, <2>2
<1>. QED
  BY <1>6, <1>7, Zenon

-----------------------------------------------------------------------------

(* A page holds records of the source object it was read from. *)
LEMMA PageOfSubset ==
    ASSUME NEW S, NEW cursor, NEW n
    PROVE  PageOf(S, cursor, n) \subseteq S
BY DEF PageOf, After

(* Until a batch has gone through RouteOrder it works on one of its routes. *)
LEMMA CurrentRoute ==
    ASSUME NEW p \in Procs, TypeOK, work[p].route <= Len(RouteOrder)
    PROVE  Current(p) \in Routes
<1>1. work[p].route \in 1 .. Len(RouteOrder)
  BY RoutesAssumption DEF TypeOK, Work
<1>. QED
  BY <1>1 DEF Current, Routes

(* The values a process starts from are of their types. *)
LEMMA ConstantsTyped ==
    /\ EmptySnapshot \in Snapshot
    /\ NoPage \in Page
    /\ \A m \in Marker : NewBatch(m) \in Work
    /\ \A s \in Snapshot : ProgressMarker(s) \in Marker
    /\ NoWork \in Work
    /\ \A res \in Results : [NoWork EXCEPT !.result = res] \in Work
<1>1. EmptySnapshot \in Snapshot
  BY DEF EmptySnapshot, Snapshot
<1>2. NoOutcomes \in PartialOutcomes
  BY DEF NoOutcomes, PartialOutcomes
<1>3. NoPage \in Page
  BY <1>2 DEF NoPage, Page
<1>4. \A s \in Snapshot : ProgressMarker(s) \in Marker
  BY DEF Snapshot, ProgressMarker, Marker
<1>5. Len(RouteOrder) \in Nat
  BY RoutesAssumption
<1>6. \A m \in Marker : NewBatch(m) \in Work
  BY <1>3, <1>5 DEF NewBatch, Work, Results
<1>7. NoWork \in Work
  BY <1>1, <1>4, <1>6 DEF NoWork
<1>8. \A res \in Results : [NoWork EXCEPT !.result = res] \in Work
  BY <1>7 DEF Work
<1>. QED
  BY <1>1, <1>3, <1>4, <1>6, <1>7, <1>8

-----------------------------------------------------------------------------
(* Type correctness.                                                       *)

(* A planned run and its idle processes are well typed. *)
LEMMA TypeInit == Init => TypeOK
<1>1. NoRow \in Row
  BY DEF NoRow, Row
<1>2. SUFFICES ASSUME Init
               PROVE  TypeOK
  OBVIOUS
<1>3. source \in [Routes -> SUBSET Records]
  BY <1>2, SourcesAssumption DEF Init
<1>4. journal = [status |-> "none", snap |-> EmptySnapshot]
  BY <1>2 DEF Init
<1>. QED
  BY <1>1, <1>2, <1>3, <1>4, ConstantsTyped DEF Init, TypeOK

(* Every page lookup yields outcomes for some of the page's records. *)
LEMMA ReadPageTyped ==
    ASSUME NEW p \in Procs, TypeOK, ReadPage(p)
    PROVE  work' \in [Procs -> Work]
<1>. DEFINE r == Current(p)
            cursor == snap[p].cp[r]
            read == PageOf(source[r], cursor, BatchSize)
            ids == PageIds(r, read)
            already == TerminalIds(ledger, r, ids)
            resolved == {t \in Targets : Resolved(ledger, t)}
            waiting == {x \in ids \ already : ~(References[r][x] \subseteq resolved)}
            out == Prior(r, already, waiting)
            page == [NoPage EXCEPT
                !.ids = ids,
                !.last = LastOf(read, cursor),
                !.more = HasMore(source[r], cursor, BatchSize),
                !.already = already,
                !.resolved = resolved,
                !.out = out,
                !.terminalCursor = cursor]
<1>1. r \in Routes
  BY CurrentRoute DEF ReadPage, MustRead, AtRoute
<1>2. read \in SUBSET Records /\ cursor \in Nat
  BY <1>1, PageOfSubset DEF TypeOK, Snapshot
<1>3. LastOf(read, cursor) \in Nat
  BY <1>2, LastOfIn, RecordsAssumption DEF Records
<1>4. ids \in SUBSET Records /\ already \in SUBSET Records /\ waiting \in SUBSET Records
  BY <1>2 DEF TerminalIds, PageIds
<1>5. out \in PartialOutcomes
  <2>1. \A x \in already : ledger[r][x] \in Row
    BY <1>1, <1>4 DEF TypeOK
  <2>2. out \in [already \cup waiting -> Outcome]
    BY <2>1 DEF Prior, Outcome, Row, Status, Terminal
  <2>. QED
    BY <1>4, <2>2 DEF PartialOutcomes
<1>6. resolved \in SUBSET Targets /\ HasMore(source[r], cursor, BatchSize) \in BOOLEAN
  BY DEF HasMore
<1>. HIDE DEF r, cursor, read, ids, already, resolved, waiting, out
<1>7. page \in Page
  BY <1>2, <1>3, <1>4, <1>5, <1>6, ConstantsTyped DEF Page
<1>8. work' = [work EXCEPT ![p].page = page]
  BY DEF ReadPage, r, cursor, read, ids, already, resolved, waiting, out
<1>. HIDE DEF page
<1>. QED
  BY <1>7, <1>8, ZenonT(30) DEF TypeOK, Work

(* Retrying links only moves them from the parked set to the destination. *)
LEMMA LinksTyped ==
    ASSUME NEW r \in Routes, NEW S \in SUBSET Link, NEW done \in LinkOutcomes(S)
    PROVE  done \subseteq S /\ Written(r, done) \subseteq Routes \X Records \X Targets
<1>1. done \subseteq S
  BY DEF LinkOutcomes
<1>. QED
  BY <1>1 DEF Written, Link

(* Calling a route completed keeps a snapshot's type. *)
LEMMA CompletedTyped ==
    ASSUME NEW s \in Snapshot, NEW r \in Routes
    PROVE  [s EXCEPT !.completed = @ \cup {r}] \in Snapshot
BY DEF Snapshot

(* Replacing a route's parked links keeps the snapshots' type. *)
LEMMA ParkedTyped ==
    ASSUME TypeOK, NEW p \in Procs, NEW r \in Routes, NEW S \in SUBSET Link
    PROVE  [snap EXCEPT ![p].parked[r] = S] \in [Procs -> Snapshot]
<1>1. snap[p] \in Snapshot
  BY DEF TypeOK
<1>2. [snap[p].parked EXCEPT ![r] = S] \in [Routes -> SUBSET Link]
  BY <1>1 DEF Snapshot
<1>3. [snap[p] EXCEPT !.parked[r] = S] \in Snapshot
  BY <1>1, <1>2 DEF Snapshot
<1>. QED
  BY <1>3 DEF TypeOK

(* Moving on to the next route keeps a batch well typed. *)
LEMMA NextRouteTyped ==
    ASSUME TypeOK, NEW p \in Procs, NEW b \in Work, b.route <= Len(RouteOrder),
           NextRoute(p, b)
    PROVE  work' \in [Procs -> Work] /\ pc' = [pc EXCEPT ![p] = "route"]
<1>1. Len(RouteOrder) \in Nat
  BY RoutesAssumption
<1>2. b.route + 1 \in 1 .. Len(RouteOrder) + 1
  BY <1>1 DEF Work
<1>3. [b EXCEPT !.route = @ + 1, !.page = NoPage] \in Work
  BY <1>2, ConstantsTyped DEF Work
<1>. QED
  BY <1>3 DEF NextRoute, TypeOK

(* A destination call leaves typed write counts and typed outcomes. *)
LEMMA DispatchTyped ==
    ASSUME TypeOK, NEW p \in Procs, Current(p) \in Routes,
           NEW ids \in SUBSET Records, NEW effects, NEW failed,
           Dispatch(p, ids, effects, failed)
    PROVE  /\ writes' \in [Routes -> [Records -> Nat]]
           /\ work' \in [Procs -> Work]
<1>. DEFINE r == Current(p)
            out == work[p].page.out
<1>1. writes' \in [Routes -> [Records -> Nat]]
  BY DEF Dispatch, TypeOK
<1>2. PICK known \in ReturnsId :
        work' = [work EXCEPT
               ![p].page.tries = 0,
               ![p].page.out = [x \in DOMAIN out \cup ids |->
                 IF x \in DOMAIN out THEN out[x]
                 ELSE IF x \in failed THEN [status |-> "failed", known |-> FALSE]
                 ELSE [status |-> WriteStatus(r, x), known |-> known]]]
  BY DEF Dispatch
<1>3. work[p] \in Work /\ work[p].page \in Page
  BY DEF TypeOK, Work
<1>4. PICK D \in SUBSET Records : out \in [D -> Outcome]
  BY <1>3 DEF Page, PartialOutcomes
<1>. DEFINE new == [x \in DOMAIN out \cup ids |->
                 IF x \in DOMAIN out THEN out[x]
                 ELSE IF x \in failed THEN [status |-> "failed", known |-> FALSE]
                 ELSE [status |-> WriteStatus(r, x), known |-> known]]
<1>5. \A x : WriteStatus(r, x) \in Status
  BY DEF WriteStatus, Status, Terminal
<1>6. new \in [D \cup ids -> Outcome]
  BY <1>4, <1>5, PolicyAssumption DEF Outcome, Status
<1>7. new \in PartialOutcomes
  BY <1>6 DEF PartialOutcomes
<1>8. work' = [work EXCEPT ![p].page.tries = 0, ![p].page.out = new]
  BY <1>2
<1>. HIDE DEF new, out, r
<1>9. [work[p].page EXCEPT !.tries = 0, !.out = new] \in Page
  BY <1>3, <1>7 DEF Page
<1>10. [work[p] EXCEPT !.page = [work[p].page EXCEPT !.tries = 0, !.out = new]] \in Work
  BY <1>3, <1>9 DEF Work
<1>11. work' = [work EXCEPT ![p] =
         [work[p] EXCEPT !.page = [work[p].page EXCEPT !.tries = 0, !.out = new]]]
  BY <1>8
<1>. QED
  BY <1>1, <1>10, <1>11 DEF TypeOK

(* A destination call is about records of the page. *)
LEMMA NextWriteSubset ==
    ASSUME TypeOK, NEW p \in Procs, AtWrite(p)
    PROVE  NextWrite(p) \in SUBSET work[p].page.ids /\ work[p].page.ids \in SUBSET Records
<1>1. work[p].page.ids \in SUBSET Records
  BY DEF TypeOK, Work, Page
<1>2. FirstOf(Unwritten(p)) \in Unwritten(p)
  BY <1>1, FirstOfIn DEF AtWrite, Unwritten
<1>. QED
  BY <1>1, <1>2 DEF NextWrite, Unwritten

(* Every step keeps the types (BatchCovered says that the current route    *)
(* exists and that a page is persisted with an outcome for each record).   *)
LEMMA TypeNext ==
    ASSUME TypeOK, BatchCovered, [Next]_vars
    PROVE  TypeOK'
<1>. USE DEF TypeOK
<1>1. ASSUME NEW p \in Procs, Start(p)
      PROVE  TypeOK'
  BY <1>1 DEF Start, env, destination
<1>2. ASSUME NEW p \in Procs, NEW result \in Results, Return(p, result)
      PROVE  work' \in [Procs -> Work] /\ pc' = [pc EXCEPT ![p] = "report"]
  BY <1>2, ConstantsTyped DEF Return
<1>3. ASSUME NEW p \in Procs, Load(p)
      PROVE  TypeOK'
  <2>1. work' \in [Procs -> Work]
    BY <1>2, <1>3 DEF Load, Answered, Results
  <2>. QED
    BY <1>3, <2>1 DEF Load, Return, env, durable, destination
<1>4. ASSUME NEW p \in Procs, Claim(p)
      PROVE  TypeOK'
  <2>1. snap' \in [Procs -> Snapshot]
    BY <1>4 DEF Claim
  <2>2. work' \in [Procs -> Work]
    BY <1>2, <1>4, ConstantsTyped DEF Claim, Results
  <2>. QED
    BY <1>4, <2>1, <2>2 DEF Claim, Return, env, durable, destination
<1>5. ASSUME NEW p \in Procs, SkipCompleted(p)
      PROVE  TypeOK'
  <2>. DEFINE r == Current(p)
  <2>1. r \in Routes
    BY <1>5, CurrentRoute DEF SkipCompleted, AtRoute
  <2>2. snap[p].parked[r] \in SUBSET Link
    BY <2>1 DEF Snapshot
  <2>3. PICK done \in LinkOutcomes(Linkable(snap[p].parked[r], {})) :
          /\ snap' = [snap EXCEPT ![p].parked[r] = @ \ done]
          /\ links' = links \cup Written(r, done)
    BY <1>5 DEF SkipCompleted
  <2>4. Written(r, done) \subseteq Routes \X Records \X Targets
    BY <2>1, <2>2, LinksTyped, SMTT(30) DEF Linkable
  <2>5. snap' \in [Procs -> Snapshot]
    BY <2>1, <2>2, <2>3, ParkedTyped
  <2>6. work' \in [Procs -> Work] /\ pc' = [pc EXCEPT ![p] = "route"]
    BY <1>5, NextRouteTyped DEF SkipCompleted, AtRoute
  <2>. HIDE DEF r
  <2>. QED
    BY <1>5, <2>3, <2>4, <2>5, <2>6 DEF SkipCompleted, env, durable
<1>6. ASSUME NEW p \in Procs, CompleteEmpty(p)
      PROVE  TypeOK'
  <2>1. Current(p) \in Routes
    BY <1>6, CurrentRoute DEF CompleteEmpty, AtRoute
  <2>. snap[p] \in Snapshot
    BY DEF TypeOK
  <2>2. [snap[p] EXCEPT !.completed = @ \cup {Current(p)}] \in Snapshot
    BY <2>1, CompletedTyped
  <2>4. snap' \in [Procs -> Snapshot]
    BY <1>6, <2>2 DEF CompleteEmpty
  <2>3. work' \in [Procs -> Work] /\ pc' = [pc EXCEPT ![p] = "route"]
    BY <1>6, NextRouteTyped DEF CompleteEmpty, AtRoute
  <2>. QED
    BY <1>6, <2>3, <2>4 DEF CompleteEmpty, env, durable, destination
<1>7. ASSUME NEW p \in Procs, ReadPage(p)
      PROVE  TypeOK'
  <2>. DEFINE r == Current(p)
              ids == PageIds(r, PageOf(source[r], snap[p].cp[r], BatchSize))
  <2>1. r \in Routes
    BY <1>7, CurrentRoute DEF ReadPage, MustRead, AtRoute
  <2>2. snap[p].parked[r] \in SUBSET Link
    BY <2>1 DEF Snapshot
  <2>3. PICK done \in LinkOutcomes(Linkable(snap[p].parked[r], ids)) :
          /\ snap' = [snap EXCEPT ![p].parked[r] = @ \ done]
          /\ links' = links \cup Written(r, done)
    BY <1>7 DEF ReadPage
  <2>4. Written(r, done) \subseteq Routes \X Records \X Targets
    BY <2>1, <2>2, LinksTyped, SMTT(30) DEF Linkable
  <2>5. snap' \in [Procs -> Snapshot]
    BY <2>1, <2>2, <2>3, ParkedTyped
  <2>6. work' \in [Procs -> Work]
    BY <1>7, ReadPageTyped
  <2>7. pc' = [pc EXCEPT ![p] = "write"] /\ UNCHANGED <<env, durable, writes>>
    BY <1>7 DEF ReadPage
  <2>. HIDE DEF r, ids
  <2>. QED
    BY <2>3, <2>4, <2>5, <2>6, <2>7 DEF env, durable
<1>8. ASSUME NEW p \in Procs, ReadFails(p)
      PROVE  TypeOK'
  BY <1>8 DEF ReadFails, env, durable, destination
<1>9. ASSUME NEW p \in Procs, AtWrite(p)
      PROVE  /\ Current(p) \in Routes
             /\ NextWrite(p) \in SUBSET Records
  BY <1>9, CurrentRoute, NextWriteSubset DEF AtWrite, BatchCovered, BatchCoveredBy
<1>10. ASSUME NEW p \in Procs, WriteRecords(p)
       PROVE  TypeOK'
  <2>1. writes' \in [Routes -> [Records -> Nat]] /\ work' \in [Procs -> Work]
    BY <1>9, <1>10, DispatchTyped DEF WriteRecords
  <2>. QED
    BY <1>10, <2>1 DEF WriteRecords, Dispatch, env, durable
<1>11. ASSUME NEW p \in Procs, WriteFails(p)
       PROVE  TypeOK'
  <2>1. PICK failed, effects :
          Dispatch(p, NextWrite(p), (NextWrite(p) \ failed) \cup effects, failed)
    BY <1>11 DEF WriteFails
  <2>2. writes' \in [Routes -> [Records -> Nat]] /\ work' \in [Procs -> Work]
    BY <1>9, <1>11, <2>1, DispatchTyped DEF WriteFails
  <2>. QED
    BY <2>1, <2>2 DEF Dispatch, env, durable
<1>12. ASSUME NEW p \in Procs, WriteRetried(p)
       PROVE  TypeOK'
  <2>1. Current(p) \in Routes
    BY <1>9, <1>12 DEF WriteRetried
  <2>2. writes' \in [Routes -> [Records -> Nat]]
    BY <1>12, <2>1 DEF WriteRetried
  <2>6. work[p].page \in Page
    BY DEF Work
  <2>7. work[p].page.tries + 1 \in Nat
    BY <2>6 DEF Page
  <2>3. [work[p].page EXCEPT !.tries = @ + 1] \in Page
    BY <2>6, <2>7 DEF Page
  <2>5. [work[p] EXCEPT !.page = [work[p].page EXCEPT !.tries = @ + 1]] \in Work
    BY <2>3, ZenonT(30) DEF Work
  <2>4. work' \in [Procs -> Work]
    BY <1>12, <2>5 DEF WriteRetried
  <2>. QED
    BY <1>12, <2>2, <2>4 DEF WriteRetried, env, durable
<1>13. ASSUME NEW p \in Procs, LinkPage(p)
       PROVE  TypeOK'
  <2>. DEFINE r == Current(p)
              page == work[p].page
              wanted == Wanted(p)
              writable == {l \in wanted : l.known /\ l.to \in page.resolved}
  <2>1. r \in Routes
    BY <1>13, CurrentRoute DEF LinkPage, BatchCovered, BatchCoveredBy
  <2>2. PICK done \in LinkOutcomes(writable) :
          /\ links' = links \cup Written(r, done)
          /\ snap' = [snap EXCEPT ![p].parked[r] =
                        {l \in @ : l.src \notin page.ids} \cup (wanted \ done)]
    BY <1>13 DEF LinkPage
  <2>3. wanted \in SUBSET Link /\ writable \in SUBSET Link
    BY DEF Wanted
  <2>4. Written(r, done) \subseteq Routes \X Records \X Targets
    <3>. HIDE DEF r, page, wanted, writable
    <3>. QED
      BY <2>1, <2>3, LinksTyped
  <2>5. snap[p].parked[r] \in SUBSET Link
    BY <2>1 DEF Snapshot
  <2>6. {l \in snap[p].parked[r] : l.src \notin page.ids} \cup (wanted \ done) \in SUBSET Link
    BY <2>3, <2>5
  <2>7. snap' = [snap EXCEPT ![p].parked[r] =
                  {l \in snap[p].parked[r] : l.src \notin page.ids} \cup (wanted \ done)]
    BY <2>2
  <2>8. pc' = [pc EXCEPT ![p] = "persist"] /\ UNCHANGED <<env, durable, writes, work>>
    BY <1>13 DEF LinkPage
  <2>. HIDE DEF r, page, wanted, writable
  <2>9. snap' \in [Procs -> Snapshot]
    BY <2>1, <2>6, <2>7, ParkedTyped
  <2>. QED
    BY <2>2, <2>4, <2>8, <2>9 DEF env, durable
<1>14. ASSUME NEW p \in Procs, Persist(p)
       PROVE  TypeOK'
  <2>1. Current(p) \in Routes
    BY <1>14, CurrentRoute DEF Persist, BatchCovered, BatchCoveredBy
  <2>2. work[p].page \in Page
    BY DEF Work
  <2>3. /\ NewIds(work[p].page) \in SUBSET Records
        /\ NewIds(work[p].page) \subseteq DOMAIN work[p].page.out
        /\ work[p].page.out \in PartialOutcomes
    BY <1>14, <2>2 DEF Persist, NewIds, Page, BatchCovered, BatchCoveredBy
  <2>4. ledger' \in [Routes -> [Records -> Row]]
    BY <1>14, <2>1, <2>3, UpsertKeeps DEF Persist
  <2>. QED
    BY <1>14, <2>4 DEF Persist, env, destination
<1>15. ASSUME NEW p \in Procs, PersistShort(p)
       PROVE  TypeOK'
  <2>1. Current(p) \in Routes
    BY <1>15, CurrentRoute DEF PersistShort, BatchCovered, BatchCoveredBy
  <2>2. work[p].page \in Page
    BY DEF Work
  <2>3. /\ NewIds(work[p].page) \in SUBSET Records
        /\ NewIds(work[p].page) \subseteq DOMAIN work[p].page.out
        /\ work[p].page.out \in PartialOutcomes
    BY <1>15, <2>2 DEF PersistShort, NewIds, Page, BatchCovered, BatchCoveredBy
  <2>4. PICK saved \in SUBSET NewIds(work[p].page) :
          ledger' = UpsertResults(ledger, Current(p), saved, work[p].page.out)
    BY <1>15 DEF PersistShort
  <2>5. saved \in SUBSET Records /\ saved \subseteq DOMAIN work[p].page.out
    BY <2>3
  <2>6. ledger' \in [Routes -> [Records -> Row]]
    BY <2>1, <2>3, <2>4, <2>5, UpsertKeeps
  <2>. QED
    BY <1>15, <2>6 DEF PersistShort, env, destination
<1>16. ASSUME NEW p \in Procs, CountResults(p)
       PROVE  TypeOK'
  <2>. DEFINE r == Current(p)
              page == work[p].page
              failed == {x \in page.ids : /\ page.out[x].status = "failed"
                                          /\ ~IsTerminal(ledger[r][x])}
              prefix == {x \in page.ids \ failed : \A y \in failed : x < y}
              n == Cardinality(NewIds(page) \ failed)
  <2>1. r \in Routes
    BY <1>16, CurrentRoute DEF CountResults, BatchCovered, BatchCoveredBy
  <2>2. page \in Page /\ snap[p] \in Snapshot
    BY DEF Work
  <2>3. failed \in SUBSET Records /\ prefix \in SUBSET Records
    BY <2>2 DEF Page
  <2>4. n \in Nat
    <3>1. NewIds(page) \ failed \in SUBSET (1 .. MaxRecord)
      BY <2>2 DEF NewIds, Page, Records
    <3>2. IsFiniteSet(1 .. MaxRecord)
      BY RecordsAssumption, FS_Interval
    <3>3. IsFiniteSet(NewIds(page) \ failed)
      BY <3>1, <3>2, FS_Subset
    <3>. QED
      BY <3>3, FS_CardinalityType
  <2>5. LastOf(prefix, page.terminalCursor) \in Nat
    <3>1. page.terminalCursor \in Nat
      BY <2>2 DEF Page
    <3>2. LastOf(prefix, page.terminalCursor) \in prefix \cup {page.terminalCursor}
      BY <2>3, LastOfIn
    <3>3. Records \subseteq Nat
      BY RecordsAssumption DEF Records
    <3>. HIDE DEF prefix, page
    <3>. QED
      BY <2>3, <3>1, <3>2, <3>3
  <2>6. /\ snap' = [snap EXCEPT ![p].migrated[r] = @ + n,
                               ![p].failed[r] = FailedAfter(@, page.ids, failed)]
        /\ work' = [work EXCEPT ![p].page.failed = failed,
                               ![p].page.terminalCursor = LastOf(prefix, @)]
    BY <1>16 DEF CountResults
  <2>7. pc' = [pc EXCEPT ![p] = "finish"] /\ UNCHANGED <<env, durable, destination>>
    BY <1>16 DEF CountResults
  <2>8. FailedAfter(snap[p].failed[r], page.ids, failed) \in SUBSET Records
    BY <2>1, <2>2, <2>3 DEF Snapshot, FailedAfter
  <2>. HIDE DEF r, page, failed, prefix, n
  <2>9. [snap[p].migrated EXCEPT ![r] = @ + n] \in [Routes -> Nat]
    BY <2>1, <2>2, <2>4 DEF Snapshot
  <2>10. [snap[p].failed EXCEPT ![r] = FailedAfter(@, page.ids, failed)] \in [Routes -> SUBSET Records]
    BY <2>1, <2>2, <2>8 DEF Snapshot
  <2>11. [snap[p] EXCEPT !.migrated = [snap[p].migrated EXCEPT ![r] = @ + n],
                         !.failed = [snap[p].failed EXCEPT ![r] = FailedAfter(@, page.ids, failed)]]
           \in Snapshot
    BY <2>2, <2>9, <2>10 DEF Snapshot
  <2>12. snap' \in [Procs -> Snapshot]
    BY <2>6, <2>11
  <2>13. [page EXCEPT !.failed = failed, !.terminalCursor = LastOf(prefix, @)] \in Page
    BY <2>2, <2>3, <2>5 DEF Page
  <2>14. [work[p] EXCEPT !.page =
            [page EXCEPT !.failed = failed, !.terminalCursor = LastOf(prefix, @)]] \in Work
    BY <2>13, ZenonT(30) DEF Work
  <2>15. work' \in [Procs -> Work]
    BY <2>6, <2>14, ZenonT(30) DEF page
  <2>. QED
    BY <2>7, <2>12, <2>15 DEF env, durable, destination
<1>17. ASSUME NEW p \in Procs, FinishRoute(p)
       PROVE  TypeOK'
  <2>. DEFINE r == Current(p)
              page == work[p].page
              retry == IF page.more THEN {} ELSE Linkable(snap[p].parked[r], {})
              complete == RouteComplete(p)
              cp == NextCheckpoint(page)
              done_routes == IF complete THEN snap[p].completed \cup {r} ELSE snap[p].completed
              batch == [work[p] EXCEPT !.hasMore = @ \/ ~complete, !.nextCp[r] = cp]
  <2>1. r \in Routes /\ work[p].route <= Len(RouteOrder)
    BY <1>17, CurrentRoute DEF FinishRoute, BatchCovered, BatchCoveredBy
  <2>2. page \in Page /\ snap[p] \in Snapshot /\ work[p] \in Work
    BY DEF Work
  <2>3. PICK done \in LinkOutcomes(retry) :
          /\ links' = links \cup Written(r, done)
          /\ snap' = [snap EXCEPT
                 ![p].parked[r] = @ \ done,
                 ![p].completed = IF complete THEN @ \cup {r} ELSE @]
    BY <1>17 DEF FinishRoute
  <2>4. snap[p].parked[r] \in SUBSET Link
    BY <2>1, <2>2 DEF Snapshot
  <2>5. retry \in SUBSET Link
    BY <2>4 DEF Linkable
  <2>6. Written(r, done) \subseteq Routes \X Records \X Targets
    <3>. HIDE DEF r, retry
    <3>. QED
      BY <2>1, <2>5, LinksTyped
  <2>7. cp \in Nat /\ complete \in BOOLEAN
    BY <2>2 DEF Page, NextCheckpoint, RouteComplete, Covered
  <2>8. NextRoute(p, batch) /\ UNCHANGED <<env, durable, writes>>
    BY <1>17 DEF FinishRoute
  <2>9. snap' = [snap EXCEPT ![p].parked[r] = @ \ done, ![p].completed = done_routes]
    BY <2>3
  <2>10. done_routes \in SUBSET Routes
    BY <2>1, <2>2 DEF Snapshot
  <2>. HIDE DEF r, page, retry, complete, cp, done_routes
  <2>11. [snap[p] EXCEPT !.parked = [snap[p].parked EXCEPT ![r] = @ \ done],
                         !.completed = done_routes] \in Snapshot
    <3>1. [snap[p].parked EXCEPT ![r] = @ \ done] \in [Routes -> SUBSET Link]
      BY <2>1, <2>2, <2>4 DEF Snapshot
    <3>. QED
      BY <2>2, <2>10, <3>1 DEF Snapshot
  <2>12. snap' \in [Procs -> Snapshot]
    BY <2>9, <2>11
  <2>13. batch \in Work /\ batch.route <= Len(RouteOrder)
    <3>1. [work[p].nextCp EXCEPT ![r] = cp] \in [Routes -> Nat]
      BY <2>1, <2>2, <2>7 DEF Work
    <3>2. (work[p].hasMore \/ ~complete) \in BOOLEAN
      BY <2>2, <2>7 DEF Work
    <3>. QED
      BY <2>1, <2>2, <3>1, <3>2 DEF Work
  <2>. HIDE DEF batch
  <2>14. work' \in [Procs -> Work] /\ pc' = [pc EXCEPT ![p] = "route"]
    BY <2>8, <2>13, NextRouteTyped
  <2>. QED
    BY <2>3, <2>6, <2>8, <2>12, <2>14 DEF env, durable
<1>18. ASSUME NEW p \in Procs, SaveBatch(p)
       PROVE  TypeOK'
  <2>. DEFINE s == [snap[p] EXCEPT !.cp = work[p].nextCp]
              more == work[p].hasMore
              status == IF Stalled(p, s) THEN "failed" ELSE IF more THEN "running" ELSE "completed"
  <2>1. s \in Snapshot
    <3>1. snap[p] \in Snapshot /\ work[p].nextCp \in [Routes -> Nat]
      BY DEF Work
    <3>. QED
      BY <3>1 DEF Snapshot
  <2>2. status \in {"failed", "running", "completed"}
    OBVIOUS
  <2>3. /\ snap' = [snap EXCEPT ![p] = s]
        /\ Save(status, s)
        /\ \/ journal.status = "cancelled" /\ Return(p, "cancelled")
           \/ status # "running" /\ Return(p, status)
           \/ /\ work' = [work EXCEPT ![p] = NewBatch(ProgressMarker(s))]
              /\ UNCHANGED pc
        /\ UNCHANGED <<env, ledger, runStatus, destination>>
    BY <1>18 DEF SaveBatch
  <2>. HIDE DEF s, status
  <2>4. journal' \in [status : {"none", "running", "failed", "completed", "cancelled"},
                      snap : Snapshot]
    BY <2>1, <2>2, <2>3 DEF Save
  <2>5. work' \in [Procs -> Work]
    BY <1>2, <2>1, <2>2, <2>3, ConstantsTyped, SMTT(30) DEF Results
  <2>. QED
    BY <2>1, <2>3, <2>4, <2>5 DEF Return, env, destination
<1>19. ASSUME NEW p \in Procs, SaveFailed(p)
       PROVE  TypeOK'
  <2>1. work' \in [Procs -> Work]
    BY <1>2, <1>19 DEF SaveFailed, Results
  <2>. QED
    BY <1>19, <2>1 DEF SaveFailed, Save, Return, env, destination
<1>20. ASSUME NEW p \in Procs, Report(p)
       PROVE  TypeOK'
  <2>1. work[p].result \in Results \ {"none"}
    BY <1>20 DEF Work, Report, BatchCovered, BatchCoveredBy
  <2>. QED
    BY <1>20, <2>1, ConstantsTyped DEF Report, RunStatus, Results, env, destination
<1>21. ASSUME NEW p \in Procs, Crash(p)
       PROVE  TypeOK'
  BY <1>21, ConstantsTyped DEF Crash, env, durable, destination
<1>22. ASSUME Cancel
       PROVE  TypeOK'
  BY <1>22 DEF Cancel, env, destination
<1>23. ASSUME SourceInsert \/ SourceDelete
       PROVE  TypeOK'
  <2>1. source' \in [Routes -> SUBSET Records]
    <3>1. CASE SourceInsert
      <4>1. PICK r \in Routes, x \in Records : source' = [source EXCEPT ![r] = @ \cup {x}]
        BY <3>1 DEF SourceInsert
      <4>. QED
        BY <4>1
    <3>2. CASE SourceDelete
      <4>1. PICK r \in Routes, x \in Records : source' = [source EXCEPT ![r] = @ \ {x}]
        BY <3>2 DEF SourceDelete
      <4>. QED
        BY <4>1
    <3>. QED
      BY <1>23, <3>1, <3>2
  <2>2. UNCHANGED <<candidates, durable, destination, pc, snap, work>>
    BY <1>23 DEF SourceInsert, SourceDelete
  <2>. QED
    BY <2>1, <2>2 DEF durable, destination
<1>24. ASSUME UNCHANGED vars
       PROVE  TypeOK'
  BY <1>24 DEF vars, env, durable, destination
<1>. QED
  BY <1>1, <1>3, <1>4, <1>5, <1>6, <1>7, <1>8, <1>10, <1>11, <1>12, <1>13, <1>14, <1>15,
     <1>16, <1>17, <1>18, <1>19, <1>20, <1>21, <1>22, <1>23, <1>24
  DEF Next, Step, Environment

-----------------------------------------------------------------------------
(* Coverage of completed routes.                                           *)

(* Only the two persistence steps change the ledger; none changes the      *)
(* approved set.                                                           *)
LEMMA LedgerFrame ==
    ASSUME [Next]_vars
    PROVE  /\ candidates' = candidates
           /\ ledger' = ledger \/ \E p \in Procs : Persist(p) \/ PersistShort(p)
<1>. DEFINE Framed == candidates' = candidates /\ ledger' = ledger
<1>1. ASSUME NEW p \in Procs, Start(p) \/ Load(p) \/ Claim(p)
      PROVE  Framed
  BY <1>1 DEF Start, Load, Claim, env, durable
<1>2. ASSUME NEW p \in Procs, SkipCompleted(p) \/ CompleteEmpty(p) \/ ReadFails(p)
      PROVE  Framed
  BY <1>2 DEF SkipCompleted, CompleteEmpty, ReadFails, env, durable
<1>3. ASSUME NEW p \in Procs, ReadPage(p)
      PROVE  Framed
  BY <1>3 DEF ReadPage, env, durable
<1>4. ASSUME NEW p \in Procs, WriteRecords(p) \/ WriteFails(p) \/ WriteRetried(p)
      PROVE  Framed
  BY <1>4 DEF WriteRecords, WriteFails, WriteRetried, Dispatch, env, durable
<1>5. ASSUME NEW p \in Procs, LinkPage(p)
      PROVE  Framed
  BY <1>5 DEF LinkPage, env, durable
<1>6. ASSUME NEW p \in Procs, Persist(p) \/ PersistShort(p)
      PROVE  candidates' = candidates
  BY <1>6 DEF Persist, PersistShort, env
<1>7. ASSUME NEW p \in Procs, CountResults(p)
      PROVE  Framed
  BY <1>7 DEF CountResults, env, durable
<1>8. ASSUME NEW p \in Procs, FinishRoute(p)
      PROVE  Framed
  BY <1>8 DEF FinishRoute, env, durable
<1>9. ASSUME NEW p \in Procs, SaveBatch(p)
      PROVE  Framed
  BY <1>9 DEF SaveBatch, env
<1>10. ASSUME NEW p \in Procs, SaveFailed(p) \/ Report(p) \/ Crash(p)
       PROVE  Framed
  BY <1>10 DEF SaveFailed, Report, Crash, env, durable
<1>11. ASSUME Environment \/ UNCHANGED vars
       PROVE  Framed
  BY <1>11 DEF Environment, Cancel, SourceInsert, SourceDelete, vars, env, durable
<1>. QED
  BY <1>1, <1>2, <1>3, <1>4, <1>5, <1>6, <1>7, <1>8, <1>9, <1>10, <1>11 DEF Next, Step

(* A step of p leaves every other process alone.                           *)
LEMMA StepFrame ==
    ASSUME NEW p \in Procs, NEW q \in Procs, p # q, TypeOK,
           Start(p) \/ Step(p) \/ Crash(p)
    PROVE  pc'[q] = pc[q] /\ snap'[q] = snap[q] /\ work'[q] = work[q]
<1>. USE DEF TypeOK
<1>1. CASE Start(p) \/ Load(p) \/ Claim(p)
  BY <1>1 DEF Start, Load, Claim, Return
<1>2. CASE SkipCompleted(p) \/ CompleteEmpty(p) \/ ReadFails(p)
  BY <1>2 DEF SkipCompleted, CompleteEmpty, ReadFails, NextRoute
<1>3. CASE ReadPage(p)
  <2>1. \E page : work' = [work EXCEPT ![p].page = page]
    BY <1>3, Zenon DEF ReadPage
  <2>2. \E done : snap' = [snap EXCEPT ![p].parked[Current(p)] = @ \ done]
    BY <1>3 DEF ReadPage
  <2>3. pc' = [pc EXCEPT ![p] = "write"]
    BY <1>3 DEF ReadPage
  <2>. QED
    BY <2>1, <2>2, <2>3
<1>4. CASE WriteRecords(p) \/ WriteFails(p)
  <2>1. PICK ids, effects, failed : Dispatch(p, ids, effects, failed)
    BY <1>4 DEF WriteRecords, WriteFails
  <2>2. \E o : work' = [work EXCEPT ![p].page.tries = 0, ![p].page.out = o]
    BY <2>1, Zenon DEF Dispatch
  <2>. QED
    BY <2>1, <2>2 DEF Dispatch
<1>5. CASE WriteRetried(p)
  BY <1>5 DEF WriteRetried
<1>6. CASE LinkPage(p)
  <2>1. \E parked : snap' = [snap EXCEPT ![p].parked[Current(p)] = parked]
    BY <1>6 DEF LinkPage
  <2>. QED
    BY <1>6, <2>1 DEF LinkPage
<1>7. CASE Persist(p) \/ PersistShort(p)
  BY <1>7 DEF Persist, PersistShort
<1>8. CASE CountResults(p)
  <2>1. \E f, c : work' = [work EXCEPT ![p].page.failed = f, ![p].page.terminalCursor = c]
    BY <1>8 DEF CountResults
  <2>2. \E m, f : snap' = [snap EXCEPT ![p].migrated[Current(p)] = m,
                                      ![p].failed[Current(p)] = f]
    BY <1>8 DEF CountResults
  <2>. QED
    BY <1>8, <2>1, <2>2 DEF CountResults
<1>9. CASE FinishRoute(p)
  <2>1. \E b : NextRoute(p, b)
    BY <1>9, Zenon DEF FinishRoute
  <2>2. \E parked, completed : snap' = [snap EXCEPT ![p].parked[Current(p)] = parked,
                                                   ![p].completed = completed]
    BY <1>9 DEF FinishRoute
  <2>. QED
    BY <2>1, <2>2 DEF NextRoute
<1>10. CASE SaveBatch(p)
  <2>1. \E s : snap' = [snap EXCEPT ![p] = s]
    BY <1>10 DEF SaveBatch
  <2>2. \E w, c : work' = [work EXCEPT ![p] = w] /\ pc' \in {pc, [pc EXCEPT ![p] = c]}
    BY <1>10, Zenon DEF SaveBatch, Return
  <2>. QED
    BY <2>1, <2>2
<1>11. CASE SaveFailed(p) \/ Report(p) \/ Crash(p)
  BY <1>11 DEF SaveFailed, Report, Crash, Return
<1>. QED
  BY <1>1, <1>2, <1>3, <1>4, <1>5, <1>6, <1>7, <1>8, <1>9, <1>10, <1>11 DEF Step

(* Only these steps touch the journal or the run's status.                 *)
LEMMA JournalFrame ==
    ASSUME [Next]_vars
    PROVE  \/ journal' = journal /\ runStatus' = runStatus
           \/ \E p \in Procs : Start(p) \/ Report(p) \/ SaveBatch(p) \/ SaveFailed(p)
           \/ Cancel
<1>. DEFINE Framed == journal' = journal /\ runStatus' = runStatus
<1>1. ASSUME NEW p \in Procs, Load(p) \/ Claim(p) \/ Crash(p)
      PROVE  Framed
  BY <1>1 DEF Load, Claim, Crash, durable
<1>2. ASSUME NEW p \in Procs, SkipCompleted(p) \/ CompleteEmpty(p) \/ ReadFails(p)
      PROVE  Framed
  BY <1>2 DEF SkipCompleted, CompleteEmpty, ReadFails, durable
<1>3. ASSUME NEW p \in Procs, ReadPage(p)
      PROVE  Framed
  BY <1>3 DEF ReadPage, durable
<1>4. ASSUME NEW p \in Procs, WriteRecords(p) \/ WriteFails(p) \/ WriteRetried(p)
      PROVE  Framed
  BY <1>4 DEF WriteRecords, WriteFails, WriteRetried, Dispatch, durable
<1>5. ASSUME NEW p \in Procs, LinkPage(p)
      PROVE  Framed
  BY <1>5 DEF LinkPage, durable
<1>6. ASSUME NEW p \in Procs, Persist(p) \/ PersistShort(p)
      PROVE  Framed
  BY <1>6 DEF Persist, PersistShort
<1>7. ASSUME NEW p \in Procs, CountResults(p)
      PROVE  Framed
  BY <1>7 DEF CountResults, durable
<1>8. ASSUME NEW p \in Procs, FinishRoute(p)
      PROVE  Framed
  BY <1>8 DEF FinishRoute, durable
<1>9. ASSUME SourceInsert \/ SourceDelete \/ UNCHANGED vars
      PROVE  Framed
  BY <1>9 DEF SourceInsert, SourceDelete, vars, durable
<1>. QED
  BY <1>1, <1>2, <1>3, <1>4, <1>5, <1>6, <1>7, <1>8, <1>9 DEF Next, Step, Environment

(* No step takes a terminal row away, or its status or destination id.     *)
LEMMA RowsStable ==
    ASSUME TypeOK, BatchCovered, [Next]_vars
    PROVE  \A q \in Routes : \A x \in Records : IsTerminal(ledger[q][x]) =>
             /\ IsTerminal(ledger'[q][x])
             /\ ledger'[q][x].status = ledger[q][x].status
             /\ ledger[q][x].known => ledger'[q][x].known
<1>1. CASE ledger' = ledger
  BY <1>1
<1>2. ASSUME NEW p \in Procs, Persist(p) \/ PersistShort(p)
      PROVE  \A q \in Routes : \A x \in Records : IsTerminal(ledger[q][x]) =>
               /\ IsTerminal(ledger'[q][x])
               /\ ledger'[q][x].status = ledger[q][x].status
               /\ ledger[q][x].known => ledger'[q][x].known
  <2>1. PICK ids \in SUBSET NewIds(work[p].page) :
          ledger' = UpsertResults(ledger, Current(p), ids, work[p].page.out)
    BY <1>2 DEF Persist, PersistShort
  <2>2. pc[p] = "persist" /\ Current(p) \in Routes
    BY <1>2, CurrentRoute DEF Persist, PersistShort, BatchCovered, BatchCoveredBy
  <2>3. work[p].page \in Page
    BY DEF TypeOK, Work
  <2>4. /\ ids \in SUBSET Records /\ ids \subseteq DOMAIN work[p].page.out
        /\ work[p].page.out \in PartialOutcomes
    BY <2>1, <2>2, <2>3 DEF NewIds, Page, BatchCovered, BatchCoveredBy
  <2>5. ledger \in [Routes -> [Records -> Row]]
    BY DEF TypeOK
  <2>. QED
    BY <2>1, <2>2, <2>4, <2>5, UpsertKeeps
<1>. QED
  BY <1>1, <1>2, LedgerFrame

(* A covered route stays covered: rows stay and the approved set is fixed. *)
LEMMA CoverageStable ==
    ASSUME TypeOK, BatchCovered, [Next]_vars
    PROVE  \A r \in Routes : Covered(ledger, r, candidates[r])
                               => Covered(ledger, r, candidates[r])'
<1>1. candidates' = candidates
  BY LedgerFrame
<1>. QED
  BY <1>1, RowsStable DEF Covered, TerminalIds, TypeOK

(* The part of the invariant one process answers for. *)
ProcInv(p) ==
    /\ \A r \in snap[p].completed : Covered(ledger, r, candidates[r])
    /\ BatchCoveredBy(p)

(* A process a step leaves alone keeps its invariant. *)
LEMMA ProcUntouched ==
    ASSUME TypeOK, BatchCovered, CompletedCovered, [Next]_vars,
           NEW q \in Procs, pc'[q] = pc[q], snap'[q] = snap[q], work'[q] = work[q]
    PROVE  ProcInv(q)'
<1>1. snap[q].completed \subseteq Routes
  BY DEF TypeOK, Snapshot
<1>2. \A r \in snap[q].completed : Covered(ledger, r, candidates[r])
  BY DEF CompletedCovered, Snapshots
<1>3. \A r \in snap'[q].completed : Covered(ledger, r, candidates[r])'
  BY <1>1, <1>2, CoverageStable
<1>4. BatchCoveredBy(q)'
  BY CoverageStable DEF BatchCovered, BatchCoveredBy
<1>. QED
  BY <1>3, <1>4 DEF ProcInv

(* A process that is idle, loading, claiming or aborting has no batch to   *)
(* answer for.                                                             *)
LEMMA ProcOutside ==
    ASSUME TypeOK, BatchCovered, CompletedCovered, [Next]_vars, NEW p \in Procs,
           snap'[p].completed \subseteq snap[p].completed,
           pc'[p] \in {"idle", "load", "claim", "abort"},
           work'[p] \in {work[p], NoWork}
    PROVE  ProcInv(p)'
<1>1. snap[p].completed \subseteq Routes
  BY DEF TypeOK, Snapshot
<1>2. \A r \in snap'[p].completed : Covered(ledger, r, candidates[r])'
  BY <1>1, CoverageStable DEF CompletedCovered, Snapshots
<1>3. NoWork.result = "none"
  BY DEF NoWork, NewBatch
<1>4. work[p].result = "completed" => \A r \in Routes : Covered(ledger, r, candidates[r])'
  BY CoverageStable DEF BatchCovered, BatchCoveredBy
<1>5. BatchCoveredBy(p)'
  BY <1>3, <1>4 DEF BatchCoveredBy
<1>. QED
  BY <1>2, <1>5 DEF ProcInv

(* A step inside a route's page keeps what the earlier routes completed.   *)
LEMMA ProcInPage ==
    ASSUME TypeOK, BatchCovered, CompletedCovered, [Next]_vars, NEW p \in Procs,
           pc[p] \in {"route", "write", "persist", "count"},
           pc'[p] \in {"write", "persist", "count", "finish"},
           work[p].route <= Len(RouteOrder),
           work'[p].route = work[p].route, work'[p].hasMore = work[p].hasMore,
           work'[p].result = work[p].result,
           snap'[p].completed = snap[p].completed,
           pc'[p] = "persist" => work'[p].page.ids \subseteq DOMAIN work'[p].page.out
    PROVE  ProcInv(p)'
<1>1. snap[p].completed \subseteq Routes
  BY DEF TypeOK, Snapshot
<1>2. \A r \in snap'[p].completed : Covered(ledger, r, candidates[r])'
  BY <1>1, CoverageStable DEF CompletedCovered, Snapshots
<1>3. work[p].result = "completed" => \A r \in Routes : Covered(ledger, r, candidates[r])'
  BY CoverageStable DEF BatchCovered, BatchCoveredBy
<1>4. ~work[p].hasMore
        => \A i \in 1 .. work[p].route - 1 : RouteOrder[i] \in snap[p].completed
  BY DEF BatchCovered, BatchCoveredBy
<1>5. BatchCoveredBy(p)'
  BY <1>3, <1>4 DEF BatchCoveredBy
<1>. QED
  BY <1>2, <1>5 DEF ProcInv

(* A route is left either completed, and covered, or with work left over.  *)
LEMMA ProcNextRoute ==
    ASSUME TypeOK, BatchCovered, CompletedCovered, [Next]_vars, NEW p \in Procs,
           pc[p] \in {"route", "finish"}, work[p].route <= Len(RouteOrder),
           pc'[p] = "route", work'[p].route = work[p].route + 1,
           work'[p].result = work[p].result,
           snap'[p].completed \in {snap[p].completed, snap[p].completed \cup {Current(p)}},
           \/ snap'[p].completed = snap[p].completed
           \/ Covered(ledger, Current(p), candidates[Current(p)]),
           \/ work'[p].hasMore
           \/ ~work[p].hasMore /\ Current(p) \in snap'[p].completed
    PROVE  ProcInv(p)'
<1>1. snap[p].completed \subseteq Routes /\ Current(p) \in Routes
  BY CurrentRoute DEF TypeOK, Snapshot
<1>2. \A r \in snap'[p].completed : Covered(ledger, r, candidates[r])'
  <2>1. \A r \in snap[p].completed : Covered(ledger, r, candidates[r])
    BY DEF CompletedCovered, Snapshots
  <2>2. \A r \in snap'[p].completed : r \in Routes /\ Covered(ledger, r, candidates[r])
    BY <1>1, <2>1
  <2>. QED
    BY <2>2, CoverageStable
<1>3. work[p].result = "completed" => \A r \in Routes : Covered(ledger, r, candidates[r])'
  BY CoverageStable DEF BatchCovered, BatchCoveredBy
<1>4. ~work'[p].hasMore
        => \A i \in 1 .. work'[p].route - 1 : RouteOrder[i] \in snap'[p].completed
  <2>1. SUFFICES ASSUME ~work'[p].hasMore, NEW i \in 1 .. work'[p].route - 1
                 PROVE  RouteOrder[i] \in snap'[p].completed
    OBVIOUS
  <2>2. work[p].route \in Nat
    BY DEF TypeOK, Work
  <2>3. CASE i = work[p].route
    BY <2>1, <2>3 DEF Current
  <2>4. CASE i # work[p].route
    <3>1. i \in 1 .. work[p].route - 1
      BY <2>2, <2>4
    <3>. QED
      BY <2>1, <3>1 DEF BatchCovered, BatchCoveredBy
  <2>. QED
    BY <2>3, <2>4
<1>5. BatchCoveredBy(p)'
  BY <1>3, <1>4 DEF BatchCoveredBy
<1>. QED
  BY <1>2, <1>5 DEF ProcInv

(* A batch that went through every route with nothing left over has        *)
(* completed them all.                                                     *)
LEMMA BatchDone ==
    ASSUME TypeOK, BatchCovered, CompletedCovered, NEW p \in Procs,
           pc[p] = "route", work[p].route > Len(RouteOrder), ~work[p].hasMore
    PROVE  \A r \in Routes : Covered(ledger, r, candidates[r])
<1>1. Len(RouteOrder) \in Nat /\ work[p].route = Len(RouteOrder) + 1
  BY RoutesAssumption DEF TypeOK, Work
<1>2. \A i \in 1 .. Len(RouteOrder) : RouteOrder[i] \in snap[p].completed
  BY <1>1 DEF BatchCovered, BatchCoveredBy
<1>3. Routes \subseteq snap[p].completed
  BY <1>2 DEF Routes
<1>. QED
  BY <1>3 DEF CompletedCovered, Snapshots

(* A process that returns "completed" returns it for a covered run.        *)
LEMMA ProcReturns ==
    ASSUME TypeOK, BatchCovered, CompletedCovered, [Next]_vars, NEW p \in Procs,
           NEW result \in Results \ {"none"}, Return(p, result),
           snap'[p].completed = snap[p].completed,
           result = "completed" => \A r \in Routes : Covered(ledger, r, candidates[r])
    PROVE  ProcInv(p)'
<1>1. snap[p].completed \subseteq Routes
  BY DEF TypeOK, Snapshot
<1>2. \A r \in snap'[p].completed : Covered(ledger, r, candidates[r])'
  BY <1>1, CoverageStable DEF CompletedCovered, Snapshots
<1>3. pc'[p] = "report" /\ work'[p].result = result
  BY DEF Return, TypeOK, NoWork, NewBatch
<1>4. BatchCoveredBy(p)'
  BY <1>3, CoverageStable DEF BatchCoveredBy
<1>. QED
  BY <1>2, <1>4 DEF ProcInv

(* Load and Claim take over what the journal says; a completed journal is  *)
(* answered from, never re-executed.                                       *)
LEMMA ProcClaims ==
    ASSUME TypeOK, BatchCovered, CompletedCovered, AppliedCovered, [Next]_vars,
           NEW p \in Procs, Start(p) \/ Load(p) \/ Claim(p)
    PROVE  ProcInv(p)'
<1>1. CASE Start(p)
  BY <1>1, ProcOutside DEF Start, TypeOK
<1>2. CASE Load(p)
  <2>1. CASE Return(p, journal.status) /\ journal.status \in {"completed", "cancelled"}
    BY <1>2, <2>1, ProcReturns DEF Load, Results, AppliedCovered
  <2>2. CASE pc' = [pc EXCEPT ![p] = "claim"] /\ UNCHANGED work
    BY <1>2, <2>2, ProcOutside DEF Load, TypeOK
  <2>. QED
    BY <1>2, <2>1, <2>2 DEF Load, Answered
<1>3. CASE Claim(p)
  <2>1. CASE UNCHANGED snap /\ (Return(p, "cancelled") \/ Return(p, "failed"))
    BY <2>1, ProcReturns DEF Results
  <2>2. CASE /\ snap' = [snap EXCEPT ![p] = journal.snap]
             /\ work' = [work EXCEPT ![p] = NewBatch(ProgressMarker(journal.snap))]
             /\ pc' = [pc EXCEPT ![p] = "route"]
    <3>1. snap'[p] = journal.snap /\ pc'[p] = "route"
      BY <2>2 DEF TypeOK
    <3>2. work'[p].route = 1 /\ work'[p].result = "none"
      BY <2>2 DEF TypeOK, NewBatch
    <3>3. journal.snap.completed \subseteq Routes
      BY DEF TypeOK, Snapshot
    <3>4. \A r \in snap'[p].completed : Covered(ledger, r, candidates[r])'
      BY <3>1, <3>3, CoverageStable DEF CompletedCovered, Snapshots
    <3>. QED
      BY <3>1, <3>2, <3>4 DEF ProcInv, BatchCoveredBy
  <2>. QED
    BY <1>3, <2>1, <2>2 DEF Claim
<1>. QED
  BY <1>1, <1>2, <1>3

(* The steps that move a batch from one route to the next: a route is      *)
(* completed only without candidates, or with the ledger covering it.      *)
LEMMA ProcRoutes ==
    ASSUME TypeOK, BatchCovered, CompletedCovered, [Next]_vars, NEW p \in Procs,
           SkipCompleted(p) \/ CompleteEmpty(p) \/ FinishRoute(p)
    PROVE  ProcInv(p)'
<1>. DEFINE r == Current(p)
<1>1. snap[p] \in Snapshot /\ work[p] \in Work
  BY DEF TypeOK
<1>2. work[p].route <= Len(RouteOrder) /\ pc[p] \in {"route", "finish"}
  BY DEF SkipCompleted, CompleteEmpty, FinishRoute, AtRoute, BatchCovered, BatchCoveredBy
<1>3. r \in Routes
  BY <1>2, CurrentRoute
<1>4. ASSUME NEW b \in Work, NextRoute(p, b)
      PROVE  /\ pc'[p] = "route"
             /\ work'[p].route = b.route + 1
             /\ work'[p].result = b.result
             /\ work'[p].hasMore = b.hasMore
  <2>1. work'[p] = [b EXCEPT !.route = @ + 1, !.page = NoPage] /\ pc'[p] = "route"
    BY <1>4 DEF NextRoute, TypeOK
  <2>. QED
    BY <1>4, <2>1 DEF Work
<1>5. CASE SkipCompleted(p)
  <2>1. r \in snap[p].completed /\ NextRoute(p, work[p])
    BY <1>5 DEF SkipCompleted
  <2>2. snap'[p].completed = snap[p].completed
    <3>1. PICK done : snap' = [snap EXCEPT ![p].parked[Current(p)] = @ \ done]
      BY <1>5 DEF SkipCompleted
    <3>. QED
      BY <1>1, <3>1 DEF TypeOK, Snapshot
  <2>. QED
    BY <1>1, <1>2, <1>4, <2>1, <2>2, ProcNextRoute
<1>6. CASE CompleteEmpty(p)
  <2>1. candidates[r] = {} /\ NextRoute(p, work[p])
    BY <1>6 DEF CompleteEmpty
  <2>2. snap'[p].completed = snap[p].completed \cup {r}
    BY <1>1, <1>6 DEF CompleteEmpty, TypeOK, Snapshot
  <2>3. Covered(ledger, r, candidates[r])
    BY <2>1 DEF Covered, TerminalIds
  <2>. QED
    BY <1>1, <1>2, <1>4, <2>1, <2>2, <2>3, ProcNextRoute
<1>7. CASE FinishRoute(p)
  <2>. DEFINE page == work[p].page
              complete == RouteComplete(p)
              cp == NextCheckpoint(page)
              batch == [work[p] EXCEPT !.hasMore = @ \/ ~complete, !.nextCp[r] = cp]
  <2>1. NextRoute(p, batch)
    BY <1>7 DEF FinishRoute
  <2>2. PICK done :
          snap' = [snap EXCEPT
                 ![p].parked[r] = @ \ done,
                 ![p].completed = IF complete THEN @ \cup {r} ELSE @]
    BY <1>7 DEF FinishRoute
  <2>. DEFINE Done == complete
  <2>3. Done \in BOOLEAN /\ (Done => Covered(ledger, r, candidates[r]))
    BY DEF RouteComplete, Covered
  <2>4. cp \in Nat
    BY <1>1 DEF Work, Page, NextCheckpoint
  <2>5. snap' = [snap EXCEPT ![p].parked[r] = @ \ done,
                 ![p].completed = IF Done THEN @ \cup {r} ELSE @]
    BY <2>2
  <2>6. batch = [work[p] EXCEPT !.hasMore = @ \/ ~Done, !.nextCp[r] = cp]
    OBVIOUS
  <2>. HIDE DEF Done, cp, batch
  <2>7. snap'[p].completed = IF Done THEN snap[p].completed \cup {r} ELSE snap[p].completed
    BY <1>1, <2>5 DEF TypeOK, Snapshot
  <2>8. /\ batch \in Work /\ batch.route = work[p].route
        /\ batch.result = work[p].result
        /\ batch.hasMore = (work[p].hasMore \/ ~Done)
    BY <1>1, <1>3, <2>3, <2>4, <2>6 DEF Work
  <2>9. /\ pc'[p] = "route" /\ work'[p].route = work[p].route + 1
        /\ work'[p].result = work[p].result
        /\ work'[p].hasMore = (work[p].hasMore \/ ~Done)
    BY <1>4, <2>1, <2>8
  <2>10. work[p].hasMore \in BOOLEAN
    BY <1>1 DEF Work
  <2>. QED
    BY <1>2, <2>3, <2>7, <2>9, <2>10, ProcNextRoute
<1>. QED
  BY <1>5, <1>6, <1>7

(* The steps inside a route's page.                                        *)
LEMMA ProcPages ==
    ASSUME TypeOK, BatchCovered, CompletedCovered, [Next]_vars, NEW p \in Procs,
           \/ ReadPage(p) \/ WriteRecords(p) \/ WriteFails(p) \/ WriteRetried(p)
           \/ LinkPage(p) \/ Persist(p) \/ CountResults(p)
    PROVE  ProcInv(p)'
<1>1. snap[p] \in Snapshot /\ work[p] \in Work
  BY DEF TypeOK
<1>2. /\ pc[p] \in {"route", "write", "persist", "count"}
      /\ work[p].route <= Len(RouteOrder)
  BY DEF ReadPage, MustRead, AtRoute, WriteRecords, WriteFails, WriteRetried, AtWrite,
         LinkPage, Persist, CountResults, BatchCovered, BatchCoveredBy
<1>3. Current(p) \in Routes
  BY <1>2, CurrentRoute
<1>. DEFINE KeepsWork == /\ work'[p].route = work[p].route
                         /\ work'[p].hasMore = work[p].hasMore
                         /\ work'[p].result = work[p].result
            KeepsSnap == snap'[p].completed = snap[p].completed
<1>4. CASE ReadPage(p)
  <2>1. \E page : work' = [work EXCEPT ![p].page = page]
    BY <1>4, Zenon DEF ReadPage
  <2>2. KeepsWork
    BY <1>1, <2>1 DEF TypeOK, Work
  <2>3. KeepsSnap
    <3>1. \E done : snap' = [snap EXCEPT ![p].parked[Current(p)] = @ \ done]
      BY <1>4 DEF ReadPage
    <3>. QED
      BY <1>1, <3>1 DEF TypeOK, Snapshot
  <2>4. pc'[p] = "write"
    BY <1>4 DEF ReadPage, TypeOK
  <2>. QED
    BY <1>2, <2>2, <2>3, <2>4, ProcInPage
<1>5. CASE WriteRecords(p) \/ WriteFails(p)
  <2>1. pc' = pc /\ snap' = snap /\ pc[p] = "write"
    BY <1>5 DEF WriteRecords, WriteFails, Dispatch, AtWrite
  <2>2. \E o : work' = [work EXCEPT ![p].page.tries = 0, ![p].page.out = o]
    <3>1. PICK ids, effects, failed : Dispatch(p, ids, effects, failed)
      BY <1>5 DEF WriteRecords, WriteFails
    <3>. QED
      BY <3>1, Zenon DEF Dispatch
  <2>3. KeepsWork
    BY <1>1, <2>2 DEF TypeOK, Work
  <2>. QED
    BY <1>2, <2>1, <2>3, ProcInPage
<1>6. CASE WriteRetried(p)
  <2>1. pc' = pc /\ snap' = snap /\ pc[p] = "write"
    BY <1>6 DEF WriteRetried, AtWrite
  <2>2. KeepsWork
    BY <1>1, <1>6 DEF WriteRetried, TypeOK, Work
  <2>. QED
    BY <1>2, <2>1, <2>2, ProcInPage
<1>7. CASE LinkPage(p)
  <2>1. pc'[p] = "persist" /\ work' = work
    BY <1>7 DEF LinkPage, TypeOK
  <2>2. work'[p].page.ids \subseteq DOMAIN work'[p].page.out
    BY <1>7, <2>1 DEF LinkPage, Unwritten
  <2>3. KeepsSnap
    <3>1. \E parked : snap' = [snap EXCEPT ![p].parked[Current(p)] = parked]
      BY <1>7 DEF LinkPage
    <3>. QED
      BY <1>1, <3>1 DEF TypeOK, Snapshot
  <2>. QED
    BY <1>2, <2>1, <2>2, <2>3, ProcInPage
<1>8. CASE Persist(p)
  <2>1. pc'[p] = "count" /\ work' = work /\ snap' = snap
    BY <1>8 DEF Persist, TypeOK
  <2>. QED
    BY <1>2, <2>1, ProcInPage
<1>9. CASE CountResults(p)
  <2>1. pc'[p] = "finish"
    BY <1>9 DEF CountResults, TypeOK
  <2>2. \E f, c : work' = [work EXCEPT ![p].page.failed = f, ![p].page.terminalCursor = c]
    BY <1>9 DEF CountResults
  <2>3. KeepsWork
    BY <1>1, <2>2 DEF TypeOK, Work
  <2>4. \E m, f : snap' = [snap EXCEPT ![p].migrated[Current(p)] = m,
                                      ![p].failed[Current(p)] = f]
    BY <1>9 DEF CountResults
  <2>5. KeepsSnap
    BY <1>1, <2>4 DEF TypeOK, Snapshot
  <2>. QED
    BY <1>2, <2>1, <2>3, <2>5, ProcInPage
<1>. QED
  BY <1>4, <1>5, <1>6, <1>7, <1>8, <1>9

(* The steps that end a batch, or the apply: "completed" is saved and      *)
(* returned only when nothing is left over on any route.                   *)
LEMMA ProcEnds ==
    ASSUME TypeOK, BatchCovered, CompletedCovered, [Next]_vars, NEW p \in Procs,
           \/ ReadFails(p) \/ PersistShort(p) \/ SaveFailed(p)
           \/ SaveBatch(p) \/ Report(p) \/ Crash(p)
    PROVE  ProcInv(p)'
<1>1. CASE ReadFails(p) \/ PersistShort(p)
  BY <1>1, ProcOutside DEF ReadFails, PersistShort, TypeOK
<1>2. CASE Report(p) \/ Crash(p)
  BY <1>2, ProcOutside DEF Report, Crash, TypeOK, EmptySnapshot
<1>3. CASE SaveFailed(p)
  BY <1>3, ProcReturns DEF SaveFailed, Results
<1>4. CASE SaveBatch(p)
  <2>. DEFINE s == [snap[p] EXCEPT !.cp = work[p].nextCp]
              more == work[p].hasMore
              status == IF Stalled(p, s) THEN "failed" ELSE IF more THEN "running" ELSE "completed"
  <2>1. snap'[p] = s /\ s.completed = snap[p].completed
    BY <1>4 DEF SaveBatch, TypeOK, Snapshot
  <2>2. status = "completed" => \A r \in Routes : Covered(ledger, r, candidates[r])
    BY <1>4, BatchDone DEF SaveBatch
  <2>3. CASE Return(p, "cancelled")
    BY <2>1, <2>3, ProcReturns DEF Results
  <2>4. CASE status # "running" /\ Return(p, status)
    <3>1. status \in {"failed", "running", "completed"}
      OBVIOUS
    <3>. HIDE DEF s, status
    <3>2. status \in Results \ {"none"}
      BY <2>4, <3>1 DEF Results
    <3>. QED
      BY <2>1, <2>2, <2>4, <3>2, ProcReturns
  <2>5. CASE UNCHANGED pc /\ work' = [work EXCEPT ![p] = NewBatch(ProgressMarker(s))]
    <3>1. pc'[p] = "route" /\ work'[p].route = 1 /\ work'[p].result = "none"
      BY <1>4, <2>5 DEF SaveBatch, TypeOK, NewBatch
    <3>2. snap[p].completed \subseteq Routes
      BY DEF TypeOK, Snapshot
    <3>3. \A r \in snap'[p].completed : Covered(ledger, r, candidates[r])'
      BY <2>1, <3>2, CoverageStable DEF CompletedCovered, Snapshots
    <3>. QED
      BY <3>1, <3>3 DEF ProcInv, BatchCoveredBy
  <2>. QED
    BY <1>4, <2>3, <2>4, <2>5 DEF SaveBatch
<1>. QED
  BY <1>1, <1>2, <1>3, <1>4

-----------------------------------------------------------------------------
(* The inductive invariant and its theorems.                               *)

(* AppliedCovered is not inductive alone: "completed" is the verdict of a  *)
(* batch, so what each batch has passed (BatchCovered) and what a          *)
(* snapshot calls completed (CompletedCovered) belong to it.               *)
IInv == TypeOK /\ CompletedCovered /\ BatchCovered /\ AppliedCovered

(* Every process keeps ProcInv in every step.                              *)
LEMMA ProcNext ==
    ASSUME IInv, [Next]_vars, NEW q \in Procs
    PROVE  ProcInv(q)'
<1>. USE DEF IInv
<1>1. ASSUME NEW p \in Procs, Start(p) \/ Step(p) \/ Crash(p)
      PROVE  /\ p # q => /\ pc'[q] = pc[q] /\ snap'[q] = snap[q]
                          /\ work'[q] = work[q]
             /\ ProcInv(p)'
  <2>1. ProcInv(p)'
    BY <1>1, ProcClaims, ProcRoutes, ProcPages, ProcEnds DEF Step
  <2>2. ASSUME p # q
        PROVE  pc'[q] = pc[q] /\ snap'[q] = snap[q] /\ work'[q] = work[q]
    BY <1>1, <2>2, StepFrame DEF TypeOK
  <2>. QED
    BY <2>1, <2>2
<1>2. CASE Environment \/ UNCHANGED vars
  BY <1>2, ProcUntouched DEF Environment, Cancel, SourceInsert, SourceDelete, vars
<1>. QED
  BY <1>1, <1>2, ProcUntouched DEF Next

(* What the journal and the run's status say stays covered: they only take *)
(* over a snapshot and a verdict of a process.                             *)
LEMMA JournalNext ==
    ASSUME IInv, [Next]_vars
    PROVE  /\ \A r \in journal'.snap.completed : Covered(ledger, r, candidates[r])'
           /\ AppliedCovered'
<1>. USE DEF IInv
<1>. DEFINE AllCovered == \A r \in Routes : Covered(ledger, r, candidates[r])
<1>1. /\ journal.snap.completed \subseteq Routes
      /\ \A r \in journal.snap.completed : Covered(ledger, r, candidates[r])
  BY DEF TypeOK, Snapshot, CompletedCovered, Snapshots
<1>2. ASSUME journal'.snap = journal.snap
      PROVE  \A r \in journal'.snap.completed : Covered(ledger, r, candidates[r])'
  BY <1>1, <1>2, CoverageStable
<1>3. ASSUME journal'.status = "completed" => journal.status = "completed" \/ AllCovered,
             runStatus' = "applied" => runStatus = "applied" \/ AllCovered
      PROVE  AppliedCovered'
  BY <1>3, CoverageStable DEF AppliedCovered
<1>4. CASE journal' = journal /\ runStatus' = runStatus
  BY <1>2, <1>3, <1>4
<1>5. ASSUME NEW p \in Procs, Start(p)
      PROVE  journal' = journal /\ runStatus' = "applying"
  BY <1>5 DEF Start
<1>6. ASSUME NEW p \in Procs, Report(p)
      PROVE  /\ journal' = journal
             /\ runStatus' = "applied" => AllCovered
  <2>1. work[p].result \in Results
    BY DEF TypeOK, Work
  <2>. QED
    BY <1>6, <2>1 DEF Report, RunStatus, Results, BatchCovered, BatchCoveredBy
<1>7. ASSUME NEW p \in Procs, SaveBatch(p) \/ SaveFailed(p)
      PROVE  /\ runStatus' = runStatus
             /\ journal'.snap.completed = snap[p].completed
             /\ journal'.status = "completed" => AllCovered
  <2>1. CASE SaveFailed(p)
    BY <1>7, <2>1 DEF SaveFailed, Save
  <2>2. CASE SaveBatch(p)
    <3>1. ~work[p].hasMore => AllCovered
      BY <2>2, BatchDone DEF SaveBatch
    <3>2. PICK status, s :
            /\ s = [snap[p] EXCEPT !.cp = work[p].nextCp]
            /\ status = "completed" => ~work[p].hasMore
            /\ Save(status, s) /\ runStatus' = runStatus
      BY <2>2 DEF SaveBatch
    <3>3. s.completed = snap[p].completed
      BY <3>2 DEF TypeOK, Snapshot
    <3>4. /\ journal'.snap = s
          /\ journal'.status = "completed" => status = "completed"
      BY <3>2 DEF Save
    <3>. QED
      BY <3>1, <3>2, <3>3, <3>4
  <2>. QED
    BY <1>7, <2>1, <2>2
<1>8. CASE Cancel
  BY <1>2, <1>3, <1>8 DEF Cancel, TypeOK
<1>9. ASSUME NEW p \in Procs, SaveBatch(p) \/ SaveFailed(p)
      PROVE  \A r \in journal'.snap.completed : Covered(ledger, r, candidates[r])'
  <2>1. snap[p].completed \subseteq Routes
    BY DEF TypeOK, Snapshot
  <2>. QED
    BY <1>7, <1>9, <2>1, CoverageStable DEF CompletedCovered, Snapshots
<1>. HIDE DEF AllCovered
<1>. QED
  BY <1>2, <1>3, <1>4, <1>5, <1>6, <1>7, <1>8, <1>9, JournalFrame

(* Init establishes the invariant: no route starts completed.              *)
LEMMA InvInit == Init => IInv
<1>1. ASSUME Init
      PROVE  CompletedCovered /\ BatchCovered /\ AppliedCovered
  BY <1>1 DEF Init, CompletedCovered, Snapshots, EmptySnapshot, NoWork, NewBatch,
              BatchCovered, BatchCoveredBy, AppliedCovered
<1>. QED
  BY <1>1, TypeInit DEF IInv

(* Every step keeps the invariant.                                         *)
LEMMA InvNext == IInv /\ [Next]_vars => IInv'
<1>. SUFFICES ASSUME IInv, [Next]_vars
              PROVE  IInv'
  OBVIOUS
<1>1. TypeOK'
  BY TypeNext DEF IInv
<1>2. \A p \in Procs : ProcInv(p)'
  BY ProcNext
<1>3. CompletedCovered' /\ BatchCovered'
  BY <1>2, JournalNext DEF ProcInv, CompletedCovered, Snapshots, BatchCovered
<1>. QED
  BY <1>1, <1>3, JournalNext DEF IInv

(* The invariant holds in every reachable state of apply.                  *)
THEOREM Invariance == Spec => []IInv
BY InvInit, InvNext, PTL DEF Spec

(* Every variable of apply keeps its type, with any number of processes,   *)
(* crashes, retries and source changes.                                    *)
THEOREM TypeCorrect == Spec => []TypeOK
<1>1. IInv => TypeOK
  BY DEF IInv
<1>. QED
  BY <1>1, Invariance, PTL

(* No snapshot, live or saved, calls a route completed that still has an   *)
(* approved record without a terminal ledger row (run_batch's refusal to   *)
(* complete an uncovered route is enough, whatever the interleaving).      *)
THEOREM RoutesCompleteOnlyCovered == Spec => []CompletedCovered
<1>1. IInv => CompletedCovered
  BY DEF IInv
<1>. QED
  BY <1>1, Invariance, PTL

(* A run whose journal is completed, or whose status is APPLIED, has a     *)
(* terminal ledger row for every record the plan approved.                 *)
THEOREM AppliedRunsAreCovered == Spec => []AppliedCovered
<1>1. IInv => AppliedCovered
  BY DEF IInv
<1>. QED
  BY <1>1, Invariance, PTL

(* A terminal row keeps its status and a known destination id for good,    *)
(* also when a slower concurrent apply upserts the same record again.      *)
THEOREM TerminalRowsStay == Spec => LedgerMonotone
<1>1. IInv /\ [Next]_vars =>
        [\A r \in Routes : \A x \in Records : IsTerminal(ledger[r][x]) =>
           /\ ledger'[r][x].status = ledger[r][x].status
           /\ ledger[r][x].known => ledger'[r][x].known]_vars
  BY RowsStable DEF IInv
<1>. QED
  BY <1>1, Invariance, PTL DEF Spec, LedgerMonotone
=============================================================================

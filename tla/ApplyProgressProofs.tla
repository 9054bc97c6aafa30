------------------------ MODULE ApplyProgressProofs -------------------------
(***************************************************************************)
(* Proofs about ApplyEngine beyond its coverage, for every number of       *)
(* processes, routes and records and every bound: that checkpoints pass no *)
(* unfinished record, that counters and reported failures are those of the *)
(* ledger, that no relationship is forgotten, that terminal records are    *)
(* not written again, and that apply implements ExactApply.                *)
(***************************************************************************)
EXTENDS ApplyEngineProofs, ApplyRefinement

-----------------------------------------------------------------------------
(* Progress and counters.  Three views of the shared state are all that    *)
(* the checkpoints and counters are about; the first only shrinks and the  *)
(* others only grow.                                                       *)

(* Per route: the approved records the source still serves, the approved   *)
(* records with a terminal row, and the records a write took effect for.   *)
Served == [r \in Routes |-> candidates[r] \cap source[r]]
Kept == [r \in Routes |-> TerminalIds(ledger, r, candidates[r])]
Hit == [r \in Routes |-> {x \in Records : writes[r][x] > 0}]
RecordSets == [Routes -> SUBSET Records]

(* Checkpoints pass only records that have a terminal row; counters count  *)
(* only records that have one.                                             *)
Passed(cp, served, kept) ==
    \A r \in Routes : \A x \in served[r] : x <= cp[r] => x \in kept[r]
Counted(s, kept) == \A r \in Routes : s.migrated[r] <= Cardinality(kept[r])
SnapSafe(s, served, kept) == Passed(s.cp, served, kept) /\ Counted(s, kept)

(* What the page a process works on relies on: up to its last record it    *)
(* holds whatever is not terminal yet, a reported success took effect, and *)
(* the counter still leaves room for the page's own records.               *)
InPage == {"write", "persist", "count", "finish"}
PageSafe(page, r, migrated, place, cand, served, kept, hit) ==
    /\ page.ids \subseteq cand[r] /\ DOMAIN page.out \subseteq page.ids
    /\ page.already \subseteq kept[r]
    /\ \A x \in page.ids : x <= page.last
    /\ \A x \in served[r] : x <= page.last => x \in page.ids \cup kept[r]
    /\ \A x \in served[r] : x <= page.terminalCursor => x \in kept[r]
    /\ \A x \in DOMAIN page.out : page.out[x].status \in Terminal => x \in hit[r]
    /\ place # "finish" => migrated <= Cardinality(kept[r] \ NewIds(page))
    /\ place = "count" =>
         /\ page.ids \subseteq DOMAIN page.out
         /\ \A x \in page.ids : page.out[x].status # "failed" => x \in kept[r]
    /\ place = "finish" => page.ids \ page.failed \subseteq kept[r]
WorkSafe(k, s, place, cand, served, kept, hit) ==
    /\ Passed(k.nextCp, served, kept)
    /\ place \in InPage =>
         LET r == RouteOrder[k.route]
         IN  PageSafe(k.page, r, s.migrated[r], place, cand, served, kept, hit)

ProcSafe(p) ==
    /\ SnapSafe(snap[p], Served, Kept)
    /\ WorkSafe(work[p], snap[p], pc[p], candidates, Served, Kept, Hit)
ProgressInv ==
    /\ IInv /\ OnlyCandidates /\ LedgerBacked
    /\ SnapSafe(journal.snap, Served, Kept)
    /\ \A p \in Procs : ProcSafe(p)

(* From old to new, the source only loses records, the ledger only gains   *)
(* terminal rows and the destination only gains writes.                    *)
Grown(served, kept, hit, newServed, newKept, newHit) ==
    \A r \in Routes : /\ newServed[r] \subseteq served[r]
                      /\ kept[r] \subseteq newKept[r]
                      /\ hit[r] \subseteq newHit[r]

(* Sets of records are finite, and a smaller one has no more members.      *)
LEMMA RecordsFinite ==
    /\ Records \subseteq Nat
    /\ \A S \in SUBSET Records : IsFiniteSet(S) /\ Cardinality(S) \in Nat
<1>1. IsFiniteSet(Records)
  BY RecordsAssumption, FS_Interval DEF Records
<1>2. Records \subseteq Nat
  BY RecordsAssumption DEF Records
<1>3. \A S \in SUBSET Records : IsFiniteSet(S)
  BY <1>1, FS_Subset
<1>. QED
  BY <1>2, <1>3, FS_CardinalityType

(* A set of records counts at least as many as any part of it.             *)
LEMMA FewerCount ==
    ASSUME NEW S \in SUBSET Records, NEW T \in SUBSET S
    PROVE  Cardinality(T) <= Cardinality(S)
<1>1. IsFiniteSet(S) /\ T \in SUBSET S
  BY RecordsFinite
<1>. QED
  BY <1>1, FS_Subset

(* Two sets without a common member count together.                        *)
LEMMA ApartCount ==
    ASSUME NEW S \in SUBSET Records, NEW T \in SUBSET Records, S \cap T = {},
           NEW U \in SUBSET Records, S \cup T \subseteq U
    PROVE  Cardinality(S) + Cardinality(T) <= Cardinality(U)
<1>1. /\ IsFiniteSet(S) /\ IsFiniteSet(T) /\ S \cup T \in SUBSET Records
      /\ Cardinality(S) \in Nat /\ Cardinality(T) \in Nat
  BY RecordsFinite
<1>2. Cardinality(S \cup T) = Cardinality(S) + Cardinality(T) - Cardinality(S \cap T)
  BY <1>1, FS_Union
<1>3. Cardinality(S \cap T) = 0
  BY FS_EmptySet
<1>4. Cardinality(S \cup T) <= Cardinality(U)
  BY FewerCount
<1>. QED
  BY <1>1, <1>2, <1>3, <1>4

(* A record of the source after the cursor that is not after the page's    *)
(* last record is on the page.                                             *)
LEMMA PageReads ==
    ASSUME NEW S \in SUBSET Records, NEW cursor \in Nat
    PROVE  LET read == PageOf(S, cursor, BatchSize)
           IN  /\ read \subseteq S
               /\ \A x \in read : x <= LastOf(read, cursor)
               /\ \A x \in S : cursor < x /\ x <= LastOf(read, cursor) => x \in read
<1>. DEFINE read == PageOf(S, cursor, BatchSize)
            last == LastOf(read, cursor)
<1>1. read \in SUBSET Records /\ read \subseteq S
  BY DEF PageOf, After
<1>2. last \in read \cup {cursor} /\ \A x \in read : x <= last
  BY <1>1, LastOfIn
<1>3. ASSUME NEW x \in S, cursor < x, x <= last
      PROVE  x \in read
  <2>. DEFINE Before(z) == {v \in After(S, cursor) : v < z}
  <2>1. x \in After(S, cursor) /\ After(S, cursor) \in SUBSET Records /\ x \in Nat
    BY <1>3, RecordsFinite DEF After
  <2>2. PICK y \in read : x <= y
    <3>. HIDE DEF read, last
    <3>1. last # cursor
      BY <1>3, <2>1
    <3>. QED
      BY <1>2, <1>3, <3>1
  <2>3. y \in Nat /\ Before(y) \in SUBSET Records
    BY <1>1, <2>1, RecordsFinite
  <2>4. Before(x) \in SUBSET Before(y)
    <3>. HIDE DEF read, last
    <3>1. ASSUME NEW v \in After(S, cursor), v < x
          PROVE  v < y
      <4>1. v \in Nat
        BY <2>1, RecordsFinite
      <4>. QED
        BY <2>1, <2>2, <2>3, <3>1, <4>1
    <3>. QED
      BY <3>1
  <2>5. Cardinality(Before(y)) < BatchSize
    BY DEF PageOf
  <2>6. Cardinality(Before(x)) <= Cardinality(Before(y))
    BY <2>3, <2>4, FewerCount
  <2>7. /\ Cardinality(Before(x)) \in Nat /\ Cardinality(Before(y)) \in Nat
        /\ BatchSize \in Nat
    BY <2>3, <2>4, RecordsFinite, PolicyAssumption
  <2>8. Cardinality(Before(x)) < BatchSize
    BY <2>5, <2>6, <2>7
  <2>. QED
    BY <2>1, <2>8 DEF PageOf
<1>. QED
  BY <1>1, <1>2, <1>3

-----------------------------------------------------------------------------
(* What is safe stays safe while the views grow.                           *)

(* The three views are tables of sets of records.                          *)
LEMMA ViewsTyped ==
    ASSUME TypeOK
    PROVE  Served \in RecordSets /\ Kept \in RecordSets /\ Hit \in RecordSets
BY DEF TypeOK, Served, Kept, Hit, RecordSets, TerminalIds

(* A checkpoint stays right when the views move as they may.               *)
LEMMA PassedGrows ==
    ASSUME NEW served, NEW kept, NEW hit, NEW newServed, NEW newKept, NEW newHit,
           Grown(served, kept, hit, newServed, newKept, newHit),
           NEW cp, Passed(cp, served, kept)
    PROVE  Passed(cp, newServed, newKept)
BY DEF Passed, Grown

(* So does a snapshot.                                                     *)
LEMMA SnapGrows ==
    ASSUME NEW served, NEW kept \in RecordSets, NEW hit, NEW newServed,
           NEW newKept \in RecordSets, NEW newHit,
           Grown(served, kept, hit, newServed, newKept, newHit),
           NEW s \in Snapshot, SnapSafe(s, served, kept)
    PROVE  SnapSafe(s, newServed, newKept)
<1>1. ASSUME NEW r \in Routes
      PROVE  s.migrated[r] <= Cardinality(newKept[r])
  <2>1. kept[r] \in SUBSET newKept[r] /\ newKept[r] \in SUBSET Records
        /\ kept[r] \in SUBSET Records
    BY DEF Grown, RecordSets
  <2>2. /\ Cardinality(kept[r]) <= Cardinality(newKept[r])
        /\ Cardinality(kept[r]) \in Nat /\ Cardinality(newKept[r]) \in Nat
    BY <2>1, FewerCount, RecordsFinite
  <2>3. s.migrated[r] \in Nat /\ s.migrated[r] <= Cardinality(kept[r])
    BY DEF SnapSafe, Counted, Snapshot
  <2>. QED
    BY <2>2, <2>3
<1>. QED
  BY <1>1, PassedGrows DEF SnapSafe, Counted

(* So does what is known of a page in work.                                *)
LEMMA PageGrows ==
    ASSUME NEW served, NEW kept \in RecordSets, NEW hit, NEW newServed,
           NEW newKept \in RecordSets, NEW newHit,
           Grown(served, kept, hit, newServed, newKept, newHit),
           NEW page, NEW r \in Routes, NEW migrated \in Nat, NEW place, NEW cand,
           PageSafe(page, r, migrated, place, cand, served, kept, hit)
    PROVE  PageSafe(page, r, migrated, place, cand, newServed, newKept, newHit)
<1>1. /\ newServed[r] \subseteq served[r] /\ kept[r] \subseteq newKept[r]
      /\ hit[r] \subseteq newHit[r]
  BY DEF Grown
<1>2. ASSUME migrated <= Cardinality(kept[r] \ NewIds(page))
      PROVE  migrated <= Cardinality(newKept[r] \ NewIds(page))
  <2>1. /\ newKept[r] \ NewIds(page) \in SUBSET Records
        /\ kept[r] \ NewIds(page) \in SUBSET (newKept[r] \ NewIds(page))
        /\ kept[r] \ NewIds(page) \in SUBSET Records
    BY <1>1 DEF RecordSets
  <2>2. /\ Cardinality(kept[r] \ NewIds(page)) <= Cardinality(newKept[r] \ NewIds(page))
        /\ Cardinality(kept[r] \ NewIds(page)) \in Nat
        /\ Cardinality(newKept[r] \ NewIds(page)) \in Nat
    BY <2>1, FewerCount, RecordsFinite
  <2>. QED
    BY <1>2, <2>2
<1>. QED
  BY <1>1, <1>2 DEF PageSafe

-----------------------------------------------------------------------------
(* How a step changes the views.                                           *)

(* Only the environment changes the source, and only destination calls     *)
(* change what was written.                                                *)
LEMMA ViewsFrame ==
    ASSUME [Next]_vars
    PROVE  /\ source' = source \/ SourceInsert \/ SourceDelete
           /\ \/ writes' = writes
              \/ \E p \in Procs : WriteRecords(p) \/ WriteFails(p) \/ WriteRetried(p)
<1>. DEFINE Framed == source' = source /\ writes' = writes
<1>1. ASSUME NEW p \in Procs, Start(p) \/ Load(p) \/ Claim(p)
      PROVE  Framed
  BY <1>1 DEF Start, Load, Claim, env, destination
<1>2. ASSUME NEW p \in Procs, SkipCompleted(p) \/ CompleteEmpty(p) \/ ReadFails(p)
      PROVE  Framed
  BY <1>2 DEF SkipCompleted, CompleteEmpty, ReadFails, env, destination
<1>3. ASSUME NEW p \in Procs, ReadPage(p)
      PROVE  Framed
  BY <1>3 DEF ReadPage, env
<1>4. ASSUME NEW p \in Procs, WriteRecords(p) \/ WriteFails(p) \/ WriteRetried(p)
      PROVE  source' = source
  BY <1>4 DEF WriteRecords, WriteFails, WriteRetried, Dispatch, env
<1>5. ASSUME NEW p \in Procs, LinkPage(p)
      PROVE  Framed
  BY <1>5 DEF LinkPage, env
<1>6. ASSUME NEW p \in Procs, Persist(p) \/ PersistShort(p)
      PROVE  Framed
  BY <1>6 DEF Persist, PersistShort, env, destination
<1>7. ASSUME NEW p \in Procs, CountResults(p)
      PROVE  Framed
  BY <1>7 DEF CountResults, env, destination
<1>8. ASSUME NEW p \in Procs, FinishRoute(p)
      PROVE  Framed
  BY <1>8 DEF FinishRoute, env
<1>9. ASSUME NEW p \in Procs, SaveBatch(p)
      PROVE  Framed
  BY <1>9 DEF SaveBatch, env, destination
<1>10. ASSUME NEW p \in Procs, SaveFailed(p) \/ Report(p) \/ Crash(p)
       PROVE  Framed
  BY <1>10 DEF SaveFailed, Report, Crash, env, destination
<1>11. ASSUME Cancel \/ UNCHANGED vars
       PROVE  Framed
  BY <1>11 DEF Cancel, vars, env, destination
<1>12. ASSUME SourceInsert \/ SourceDelete
       PROVE  writes' = writes
  BY <1>12 DEF SourceInsert, SourceDelete, destination
<1>. QED
  BY <1>1, <1>2, <1>3, <1>4, <1>5, <1>6, <1>7, <1>8, <1>9, <1>10, <1>11, <1>12
  DEF Next, Step, Environment

(* A destination call takes effect for unwritten records of its page only, *)
(* and a record once written stays written.                                *)
LEMMA WritesPlus ==
    ASSUME TypeOK, NEW p \in Procs,
           WriteRecords(p) \/ WriteFails(p) \/ WriteRetried(p)
    PROVE  \A r \in Routes : \A x \in Records :
             \/ writes'[r][x] = writes[r][x]
             \/ /\ r = Current(p) /\ x \in Unwritten(p)
                /\ writes'[r][x] = writes[r][x] + 1
<1>1. NextWrite(p) \in SUBSET Unwritten(p)
  <2>1. Unwritten(p) \in SUBSET Records
    BY DEF TypeOK, Work, Page, Unwritten
  <2>2. Unwritten(p) # {}
    BY DEF WriteRecords, WriteFails, WriteRetried, AtWrite
  <2>. QED
    BY <2>1, <2>2, FirstOfIn DEF NextWrite
<1>2. PICK effects \in SUBSET Unwritten(p) :
        writes' = [writes EXCEPT ![Current(p)] = [x \in Records |->
                     IF x \in effects THEN @[x] + 1 ELSE @[x]]]
  <2>1. CASE WriteRecords(p)
    BY <1>1, <2>1, Zenon DEF WriteRecords, Dispatch
  <2>2. CASE WriteFails(p)
    <3>1. PICK failed \in SUBSET NextWrite(p) \ {{}} : \E effects \in SUBSET failed :
            Dispatch(p, NextWrite(p), (NextWrite(p) \ failed) \cup effects, failed)
      BY <2>2 DEF WriteFails
    <3>2. PICK effects \in SUBSET failed :
            Dispatch(p, NextWrite(p), (NextWrite(p) \ failed) \cup effects, failed)
      BY <3>1
    <3>3. (NextWrite(p) \ failed) \cup effects \in SUBSET Unwritten(p)
      BY <1>1
    <3>. QED
      BY <3>2, <3>3, Zenon DEF Dispatch
  <2>3. CASE WriteRetried(p)
    <3>1. PICK effects \in SUBSET NextWrite(p) :
            writes' = [writes EXCEPT ![Current(p)] = [x \in Records |->
                         IF x \in effects THEN @[x] + 1 ELSE @[x]]]
      BY <2>3 DEF WriteRetried
    <3>2. effects \in SUBSET Unwritten(p)
      BY <1>1
    <3>. QED
      BY <3>1, <3>2, Zenon
  <2>. QED
    BY <2>1, <2>2, <2>3
<1>3. \A r \in Routes : \A x \in Records : writes'[r][x] =
        IF r = Current(p) /\ x \in effects THEN writes[r][x] + 1 ELSE writes[r][x]
  BY <1>2 DEF TypeOK
<1>. QED
  BY <1>3

(* Every step leaves a smaller source, a larger ledger and more writes.    *)
LEMMA ViewsGrow ==
    ASSUME IInv, [Next]_vars
    PROVE  candidates' = candidates /\ Grown(Served, Kept, Hit, Served', Kept', Hit')
<1>1. TypeOK /\ BatchCovered
  BY DEF IInv
<1>2. candidates' = candidates
  BY LedgerFrame
<1>3. \A r \in Routes : candidates[r] \cap source'[r] \subseteq candidates[r] \cap source[r]
  <2>1. CASE source' = source
    BY <2>1
  <2>2. CASE SourceInsert
    <3>1. PICK q \in Routes : \E x \in Records \ (source[q] \cup candidates[q]) :
            source' = [source EXCEPT ![q] = @ \cup {x}]
      BY <2>2 DEF SourceInsert
    <3>. QED
      BY <1>1, <3>1 DEF TypeOK
  <2>3. CASE SourceDelete
    <3>1. PICK q \in Routes : \E x \in source[q] : source' = [source EXCEPT ![q] = @ \ {x}]
      BY <2>3 DEF SourceDelete
    <3>. QED
      BY <1>1, <3>1 DEF TypeOK
  <2>. QED
    BY <2>1, <2>2, <2>3, ViewsFrame
<1>4. \A r \in Routes : \A x \in candidates[r] :
        IsTerminal(ledger[r][x]) => IsTerminal(ledger'[r][x])
  BY <1>1, RowsStable DEF TypeOK
<1>5. \A r \in Routes : \A x \in Records : writes[r][x] > 0 => writes'[r][x] > 0
  <2>1. ASSUME NEW p \in Procs, WriteRecords(p) \/ WriteFails(p) \/ WriteRetried(p),
               NEW r \in Routes, NEW x \in Records, writes[r][x] > 0
        PROVE  writes'[r][x] > 0
    <3>1. writes[r][x] \in Nat
      BY <1>1 DEF TypeOK
    <3>2. writes'[r][x] \in {writes[r][x], writes[r][x] + 1}
      BY <1>1, <2>1, WritesPlus
    <3>. QED
      BY <2>1, <3>1, <3>2
  <2>. QED
    BY <2>1, ViewsFrame
<1>. QED
  BY <1>2, <1>3, <1>4, <1>5 DEF Grown, Served, Kept, Hit, TerminalIds

-----------------------------------------------------------------------------
(* What each step does to its process, field by field.                     *)

Zero == [r \in Routes |-> 0]
KeepsMarks(p) == /\ snap'[p].cp = snap[p].cp /\ snap'[p].migrated = snap[p].migrated
                 /\ snap'[p].failed = snap[p].failed
KeepsBatch(p) == work'[p].nextCp = work[p].nextCp /\ work'[p].route = work[p].route
Relinks(p, r, done) ==
    /\ snap'[p].parked = [snap[p].parked EXCEPT ![r] = @ \ done]
    /\ links' = links \cup Written(r, done)

(* Before the first route, after the last one, and when the apply ends.    *)
Ends(p) == \/ Start(p) \/ Load(p) \/ Claim(p) \/ ReadFails(p) \/ PersistShort(p)
           \/ SaveFailed(p) \/ Report(p) \/ Crash(p)

(* Such a step leaves no page in work and the process with no snapshot but *)
(* its own, the journal's or the empty one.                                *)
LEMMA EndsShape ==
    ASSUME TypeOK, NEW p \in Procs, Ends(p)
    PROVE  /\ pc'[p] \notin InPage /\ links' = links
           /\ \/ snap'[p] = snap[p] /\ work'[p].nextCp = work[p].nextCp
              \/ /\ snap'[p] \in {snap[p], journal.snap, EmptySnapshot}
                 /\ work'[p].nextCp = Zero
<1>1. /\ NoWork.nextCp = Zero
      /\ \A res : [NoWork EXCEPT !.result = res].nextCp = Zero
      /\ \A m : NewBatch(m).nextCp = Zero
  BY DEF NoWork, NewBatch, Zero
<1>2. links' = links
  BY DEF Ends, Start, Load, Claim, ReadFails, PersistShort, SaveFailed, Report, Crash,
         destination
<1>3. ASSUME NEW res, Return(p, res), snap' = snap
      PROVE  pc'[p] \notin InPage /\ work'[p].nextCp = Zero
  BY <1>1, <1>3 DEF Return, TypeOK, InPage
<1>4. CASE Start(p) \/ ReadFails(p) \/ PersistShort(p)
  BY <1>2, <1>4 DEF Start, ReadFails, PersistShort, TypeOK, InPage
<1>5. CASE Load(p)
  <2>1. snap' = snap
    BY <1>5 DEF Load
  <2>2. CASE Return(p, journal.status)
    BY <1>2, <1>3, <2>1, <2>2
  <2>3. CASE pc' = [pc EXCEPT ![p] = "claim"] /\ UNCHANGED work
    BY <1>2, <2>1, <2>3 DEF TypeOK, InPage
  <2>. QED
    BY <1>5, <2>2, <2>3 DEF Load
<1>6. CASE Claim(p)
  <2>1. CASE \E res : Return(p, res) /\ UNCHANGED snap
    BY <1>2, <1>3, <2>1
  <2>2. CASE /\ snap' = [snap EXCEPT ![p] = journal.snap]
             /\ work' = [work EXCEPT ![p] = NewBatch(ProgressMarker(journal.snap))]
             /\ pc' = [pc EXCEPT ![p] = "route"]
    BY <1>1, <1>2, <2>2 DEF TypeOK, InPage
  <2>. QED
    BY <1>6, <2>1, <2>2 DEF Claim
<1>7. CASE SaveFailed(p)
  BY <1>2, <1>3, <1>7 DEF SaveFailed
<1>8. CASE Report(p) \/ Crash(p)
  BY <1>1, <1>2, <1>8 DEF Report, Crash, TypeOK, InPage
<1>. QED
  BY <1>4, <1>5, <1>6, <1>7, <1>8 DEF Ends

(* A batch is saved with the checkpoints its pages decided on.             *)
LEMMA SaveShape ==
    ASSUME TypeOK, NEW p \in Procs, SaveBatch(p)
    PROVE  /\ snap'[p].cp = work[p].nextCp /\ snap'[p].migrated = snap[p].migrated
           /\ snap'[p].failed = snap[p].failed /\ snap'[p].completed = snap[p].completed
           /\ snap'[p].parked = snap[p].parked /\ links' = links
           /\ journal'.snap = snap'[p] /\ work'[p].nextCp = Zero
           /\ pc'[p] \notin InPage
           /\ journal'.status = "completed" => ~work[p].hasMore
           /\ pc'[p] = "report" \/ (pc'[p] = "route" /\ journal'.status = "running")
<1>1. PICK s : s = [snap[p] EXCEPT !.cp = work[p].nextCp]
  OBVIOUS
<1>2. /\ s.cp = work[p].nextCp /\ s.migrated = snap[p].migrated /\ s.failed = snap[p].failed
      /\ s.completed = snap[p].completed /\ s.parked = snap[p].parked
  BY <1>1 DEF TypeOK, Snapshot
<1>3. snap'[p] = s /\ journal'.snap = s /\ links' = links
  BY <1>1 DEF SaveBatch, Save, TypeOK, destination
<1>4. /\ \A res : [NoWork EXCEPT !.result = res].nextCp = Zero
      /\ \A m : NewBatch(m).nextCp = Zero
  BY DEF NoWork, NewBatch, Zero
<1>5. PICK status :
        /\ status = "completed" => ~work[p].hasMore
        /\ journal'.status = IF journal.status = "cancelled" THEN "cancelled" ELSE status
        /\ \/ \E res : Return(p, res)
           \/ /\ UNCHANGED pc /\ pc[p] = "route"
              /\ journal.status # "cancelled" /\ status = "running"
              /\ \E m : work' = [work EXCEPT ![p] = NewBatch(m)]
  <2>. DEFINE status == IF Stalled(p, s) THEN "failed"
                        ELSE IF work[p].hasMore THEN "running" ELSE "completed"
  <2>1. status = "completed" => ~work[p].hasMore
    OBVIOUS
  <2>2. journal'.status = IF journal.status = "cancelled" THEN "cancelled" ELSE status
    BY <1>1 DEF SaveBatch, Save
  <2>3. \/ \E res : Return(p, res)
        \/ /\ UNCHANGED pc /\ pc[p] = "route"
           /\ journal.status # "cancelled" /\ status = "running"
           /\ work' = [work EXCEPT ![p] = NewBatch(ProgressMarker(s))]
    BY <1>1, Zenon DEF SaveBatch
  <2>. HIDE DEF status
  <2>. QED
    BY <2>1, <2>2, <2>3
<1>6. ASSUME NEW res, Return(p, res)
      PROVE  work'[p].nextCp = Zero /\ pc'[p] = "report"
  BY <1>4, <1>6 DEF Return, TypeOK
<1>7. ASSUME NEW m, UNCHANGED pc, pc[p] = "route",
             work' = [work EXCEPT ![p] = NewBatch(m)]
      PROVE  work'[p].nextCp = Zero /\ pc'[p] = "route"
  BY <1>4, <1>7 DEF TypeOK
<1>8. work'[p].nextCp = Zero /\ pc'[p] \notin InPage
      /\ (pc'[p] = "report" \/ (pc'[p] = "route" /\ journal'.status = "running"))
  BY <1>5, <1>6, <1>7 DEF InPage
<1>9. journal'.status = "completed" => ~work[p].hasMore
  BY <1>5
<1>. QED
  BY <1>2, <1>3, <1>8, <1>9

(* A route that is completed, or has no candidates, is passed by.          *)
LEMMA SkipShape ==
    ASSUME TypeOK, NEW p \in Procs, SkipCompleted(p) \/ CompleteEmpty(p)
    PROVE  /\ Current(p) \in Routes /\ pc[p] = "route" /\ pc'[p] = "route"
           /\ KeepsMarks(p) /\ work'[p].nextCp = work[p].nextCp
           /\ \/ /\ \E done : Relinks(p, Current(p), done)
                 /\ snap'[p].completed = snap[p].completed
              \/ /\ links' = links /\ snap'[p].parked = snap[p].parked
                 /\ snap'[p].completed = snap[p].completed \cup {Current(p)}
                 /\ candidates[Current(p)] = {}
<1>1. snap[p] \in Snapshot /\ work[p] \in Work /\ Current(p) \in Routes /\ pc[p] = "route"
  BY CurrentRoute DEF TypeOK, SkipCompleted, CompleteEmpty, AtRoute
<1>2. NextRoute(p, work[p])
  BY DEF SkipCompleted, CompleteEmpty
<1>3. work'[p].nextCp = work[p].nextCp /\ pc'[p] = "route"
  BY <1>1, <1>2 DEF NextRoute, TypeOK, Work
<1>4. CASE SkipCompleted(p)
  <2>1. PICK done : /\ snap' = [snap EXCEPT ![p].parked[Current(p)] = @ \ done]
                    /\ links' = links \cup Written(Current(p), done)
    BY <1>4 DEF SkipCompleted
  <2>2. KeepsMarks(p) /\ Relinks(p, Current(p), done)
        /\ snap'[p].completed = snap[p].completed
    BY <1>1, <2>1 DEF TypeOK, Snapshot, KeepsMarks, Relinks
  <2>. QED
    BY <1>1, <1>3, <2>2
<1>5. CASE CompleteEmpty(p)
  BY <1>1, <1>3, <1>5 DEF CompleteEmpty, TypeOK, Snapshot, KeepsMarks, destination
<1>. QED
  BY <1>4, <1>5

(* A page is read from the checkpoint on; its terminal records are         *)
(* skipped, those with an unresolved reference fail.                       *)
LEMMA ReadShape ==
    ASSUME TypeOK, NEW p \in Procs, ReadPage(p)
    PROVE  LET r == Current(p)
               page == work'[p].page
               cursor == snap[p].cp[r]
               read == PageOf(source[r], cursor, BatchSize)
           IN  /\ r \in Routes /\ r \notin snap[p].completed
               /\ pc[p] = "route" /\ pc'[p] = "write"
               /\ KeepsMarks(p) /\ KeepsBatch(p) /\ snap'[p].completed = snap[p].completed
               /\ \E done : Relinks(p, r, done)
               /\ UNCHANGED <<source, candidates, ledger, writes, journal, budget>>
               /\ page.ids = read \cap candidates[r] /\ page.last = LastOf(read, cursor)
               /\ page.more = HasMore(source[r], cursor, BatchSize)
               /\ page.already = TerminalIds(ledger, r, page.ids)
               /\ page.terminalCursor = cursor
               /\ page.already \subseteq DOMAIN page.out /\ DOMAIN page.out \subseteq page.ids
               /\ \A x \in DOMAIN page.out :
                    page.out[x].status = IF x \in page.already THEN "skipped" ELSE "failed"
<1>. DEFINE r == Current(p)
            cursor == snap[p].cp[r]
            read == PageOf(source[r], cursor, BatchSize)
            ids == PageIds(r, read)
            already == TerminalIds(ledger, r, ids)
            resolved == {t \in Targets : Resolved(ledger, t)}
            waiting == {x \in ids \ already : ~(References[r][x] \subseteq resolved)}
            more == HasMore(source[r], cursor, BatchSize)
            last == LastOf(read, cursor)
            out == Prior(r, already, waiting)
<1>1. snap[p] \in Snapshot /\ work[p] \in Work /\ r \in Routes /\ pc[p] = "route"
      /\ r \notin snap[p].completed
  BY CurrentRoute DEF TypeOK, ReadPage, MustRead, AtRoute
<1>2. /\ pc'[p] = "write" /\ UNCHANGED <<source, candidates, ledger, writes, journal, budget>>
  BY DEF ReadPage, TypeOK, env, durable
<1>3. PICK done : /\ snap' = [snap EXCEPT ![p].parked[r] = @ \ done]
                  /\ links' = links \cup Written(r, done)
  BY DEF ReadPage
<1>4. KeepsMarks(p) /\ Relinks(p, r, done) /\ snap'[p].completed = snap[p].completed
  BY <1>1, <1>3 DEF TypeOK, Snapshot, KeepsMarks, Relinks
<1>5. PICK page :
        /\ page = [NoPage EXCEPT !.ids = ids, !.last = last, !.more = more,
                     !.already = already, !.resolved = resolved, !.out = out,
                     !.terminalCursor = cursor]
        /\ work' = [work EXCEPT ![p].page = page]
  BY DEF ReadPage
<1>6. /\ page.ids = ids /\ page.last = last /\ page.more = more /\ page.already = already
      /\ page.out = out /\ page.terminalCursor = cursor
  <2>. HIDE DEF ids, last, more, already, resolved, out, cursor
  <2>. QED
    BY <1>5 DEF NoPage
<1>7. work'[p].page = page /\ KeepsBatch(p)
  BY <1>1, <1>5 DEF TypeOK, Work, KeepsBatch
<1>8. /\ already \subseteq DOMAIN out /\ DOMAIN out \subseteq ids
      /\ \A x \in DOMAIN out :
           out[x].status = IF x \in already THEN "skipped" ELSE "failed"
  <2>1. already \subseteq ids /\ waiting \subseteq ids
    BY DEF TerminalIds
  <2>. HIDE DEF already, waiting, ids
  <2>. QED
    BY <2>1 DEF Prior, out
<1>9. ids = read \cap candidates[r]
  BY DEF PageIds
<1>. HIDE DEF out, more, last, read, resolved, waiting
<1>. QED
  BY <1>1, <1>2, <1>4, <1>6, <1>7, <1>8, <1>9 DEF r, read, more, last

(* A destination call adds outcomes to the page; a success is one whose    *)
(* write took effect.                                                      *)
LEMMA WriteShape ==
    ASSUME TypeOK, NEW p \in Procs, Current(p) \in Routes,
           WriteRecords(p) \/ WriteFails(p) \/ WriteRetried(p)
    PROVE  LET old == work[p].page
               new == work'[p].page
           IN  /\ pc[p] = "write" /\ pc' = pc /\ snap' = snap /\ KeepsBatch(p)
               /\ UNCHANGED <<source, candidates, ledger, journal, links>>
               /\ new.ids = old.ids /\ new.last = old.last /\ new.more = old.more
               /\ new.already = old.already /\ new.terminalCursor = old.terminalCursor
               /\ DOMAIN old.out \subseteq DOMAIN new.out
               /\ DOMAIN new.out \subseteq DOMAIN old.out \cup old.ids
               /\ \A x \in DOMAIN old.out : new.out[x] = old.out[x]
               /\ \A x \in DOMAIN new.out \ DOMAIN old.out :
                    new.out[x].status \in Terminal => writes'[Current(p)][x] > 0
<1>. DEFINE r == Current(p)
            old == work[p].page
            new == work'[p].page
<1>1. work[p] \in Work /\ old \in Page /\ old.ids \in SUBSET Records
  BY DEF TypeOK, Work, Page
<1>2. pc[p] = "write" /\ AtWrite(p) /\ UNCHANGED <<source, candidates, ledger, journal, links>>
      /\ pc' = pc /\ snap' = snap
  BY DEF WriteRecords, WriteFails, WriteRetried, AtWrite, Dispatch, env, durable
<1>3. NextWrite(p) \in SUBSET old.ids
  BY <1>2, NextWriteSubset
<1>4. ASSUME NEW out, \E t : work' = [work EXCEPT ![p].page.tries = t, ![p].page.out = out]
      PROVE  /\ KeepsBatch(p) /\ new.out = out
             /\ new.ids = old.ids /\ new.last = old.last /\ new.more = old.more
             /\ new.already = old.already /\ new.terminalCursor = old.terminalCursor
  <2>1. PICK t : work' = [work EXCEPT ![p].page.tries = t, ![p].page.out = out]
    BY <1>4
  <2>2. PICK page : page = [old EXCEPT !.tries = t, !.out = out]
    OBVIOUS
  <2>3. work'[p] = [work[p] EXCEPT !.page = page]
    BY <2>1, <2>2 DEF TypeOK
  <2>4. new = page /\ KeepsBatch(p)
    BY <1>1, <2>3 DEF Work, KeepsBatch
  <2>. QED
    BY <1>1, <2>2, <2>4 DEF Page
<1>5. CASE WriteRetried(p)
  <2>1. PICK t : work' = [work EXCEPT ![p].page.tries = t]
    BY <1>5 DEF WriteRetried
  <2>2. PICK page : page = [old EXCEPT !.tries = t]
    OBVIOUS
  <2>3. work'[p] = [work[p] EXCEPT !.page = page]
    BY <2>1, <2>2 DEF TypeOK
  <2>4. /\ KeepsBatch(p) /\ new.out = old.out
        /\ new.ids = old.ids /\ new.last = old.last /\ new.more = old.more
        /\ new.already = old.already /\ new.terminalCursor = old.terminalCursor
    BY <1>1, <2>2, <2>3 DEF Page, Work, KeepsBatch
  <2>. HIDE DEF old, new
  <2>5. DOMAIN old.out \subseteq DOMAIN old.out \cup old.ids
    OBVIOUS
  <2>. QED
    BY <1>2, <2>4, <2>5 DEF old, new
<1>6. ASSUME NEW ids \in SUBSET old.ids, NEW effects, NEW failed,
             ids \ failed \subseteq effects, Dispatch(p, ids, effects, failed)
      PROVE  /\ KeepsBatch(p)
             /\ new.ids = old.ids /\ new.last = old.last /\ new.more = old.more
             /\ new.already = old.already /\ new.terminalCursor = old.terminalCursor
             /\ DOMAIN old.out \subseteq DOMAIN new.out
             /\ DOMAIN new.out \subseteq DOMAIN old.out \cup old.ids
             /\ \A x \in DOMAIN old.out : new.out[x] = old.out[x]
             /\ \A x \in DOMAIN new.out \ DOMAIN old.out :
                  new.out[x].status \in Terminal => writes'[r][x] > 0
  <2>1. PICK out : \E known \in ReturnsId :
          /\ out = [x \in DOMAIN old.out \cup ids |->
                 IF x \in DOMAIN old.out THEN old.out[x]
                 ELSE IF x \in failed THEN [status |-> "failed", known |-> FALSE]
                 ELSE [status |-> WriteStatus(r, x), known |-> known]]
          /\ work' = [work EXCEPT ![p].page.tries = 0, ![p].page.out = out]
    BY <1>6, Zenon DEF Dispatch
  <2>2. /\ KeepsBatch(p) /\ new.out = out
        /\ new.ids = old.ids /\ new.last = old.last /\ new.more = old.more
        /\ new.already = old.already /\ new.terminalCursor = old.terminalCursor
    BY <1>4, <2>1
  <2>3. ASSUME NEW x \in DOMAIN out \ DOMAIN old.out, out[x].status \in Terminal
        PROVE  writes'[r][x] > 0
    <3>1. x \in ids /\ x \notin failed
      BY <2>1, <2>3 DEF Terminal
    <3>2. x \in effects /\ x \in Records
      BY <1>1, <1>6, <3>1
    <3>3. writes'[r][x] = writes[r][x] + 1 /\ writes[r][x] \in Nat
      BY <1>6, <3>2 DEF Dispatch, TypeOK
    <3>. QED
      BY <3>3
  <2>4. /\ DOMAIN old.out \subseteq DOMAIN out /\ DOMAIN out \subseteq DOMAIN old.out \cup old.ids
        /\ \A x \in DOMAIN old.out : out[x] = old.out[x]
    BY <1>6, <2>1
  <2>. HIDE DEF old, new, r
  <2>. QED
    BY <2>2, <2>3, <2>4
<1>7. CASE WriteRecords(p) \/ WriteFails(p)
  <2>1. PICK effects, failed : /\ Dispatch(p, NextWrite(p), effects, failed)
                               /\ NextWrite(p) \ failed \subseteq effects
    <3>1. CASE WriteRecords(p)
      <4>1. Dispatch(p, NextWrite(p), NextWrite(p), {})
        BY <3>1 DEF WriteRecords
      <4>2. NextWrite(p) \ {} \subseteq NextWrite(p)
        OBVIOUS
      <4>. QED
        BY <4>1, <4>2
    <3>2. CASE WriteFails(p)
      <4>1. PICK failed, effects :
              Dispatch(p, NextWrite(p), (NextWrite(p) \ failed) \cup effects, failed)
        BY <3>2 DEF WriteFails
      <4>2. NextWrite(p) \ failed \subseteq (NextWrite(p) \ failed) \cup effects
        OBVIOUS
      <4>. QED
        BY <4>1, <4>2
    <3>. QED
      BY <1>7, <3>1, <3>2
  <2>. HIDE DEF old, new, r
  <2>. QED
    BY <1>2, <1>3, <1>6, <2>1 DEF old, new, r
<1>. QED
  BY <1>5, <1>7

(* The relationship phase writes or parks what the page's records want.    *)
LEMMA LinkShape ==
    ASSUME TypeOK, NEW p \in Procs, Current(p) \in Routes, LinkPage(p)
    PROVE  LET r == Current(p)
               page == work[p].page
           IN  /\ pc[p] = "write" /\ pc'[p] = "persist" /\ work' = work
               /\ KeepsMarks(p) /\ snap'[p].completed = snap[p].completed
               /\ UNCHANGED <<source, candidates, ledger, writes, journal>>
               /\ page.ids \subseteq DOMAIN page.out
               /\ \E done :
                    /\ links' = links \cup Written(r, done)
                    /\ snap'[p].parked = [snap[p].parked EXCEPT ![r] =
                         {l \in @ : l.src \notin page.ids} \cup (Wanted(p) \ done)]
<1>1. snap[p] \in Snapshot
  BY DEF TypeOK
<1>2. PICK done :
        /\ links' = links \cup Written(Current(p), done)
        /\ snap' = [snap EXCEPT ![p].parked[Current(p)] =
             {l \in @ : l.src \notin work[p].page.ids} \cup (Wanted(p) \ done)]
  BY DEF LinkPage
<1>3. PICK parked : parked = {l \in snap[p].parked[Current(p)] : l.src \notin work[p].page.ids}
                               \cup (Wanted(p) \ done)
  OBVIOUS
<1>4. snap' = [snap EXCEPT ![p].parked[Current(p)] = parked]
  BY <1>2, <1>3
<1>5. /\ KeepsMarks(p) /\ snap'[p].completed = snap[p].completed
      /\ snap'[p].parked = [snap[p].parked EXCEPT ![Current(p)] = parked]
  BY <1>1, <1>4 DEF TypeOK, Snapshot, KeepsMarks
<1>6. /\ pc[p] = "write" /\ pc'[p] = "persist" /\ work' = work
      /\ UNCHANGED <<source, candidates, ledger, writes, journal>>
      /\ work[p].page.ids \subseteq DOMAIN work[p].page.out
  BY DEF LinkPage, Unwritten, TypeOK, env, durable
<1>. QED
  BY <1>2, <1>3, <1>5, <1>6

(* The records without a terminal row fail the page; the counter, the      *)
(* failed-id set and the cursor before the first failure follow.           *)
Judged(page, failed, prefix, led, r) ==
    /\ failed = {x \in page.ids : page.out[x].status = "failed" /\ ~IsTerminal(led[r][x])}
    /\ prefix = {x \in page.ids \ failed : \A y \in failed : x < y}

(* Counting adds the terminal ids that are new and judges the page by what *)
(* the ledger then holds.                                                  *)
LEMMA CountShape ==
    ASSUME TypeOK, NEW p \in Procs, Current(p) \in Routes, CountResults(p)
    PROVE  LET r == Current(p)
               old == work[p].page
               new == work'[p].page
           IN  /\ pc[p] = "count" /\ pc'[p] = "finish" /\ KeepsBatch(p)
               /\ UNCHANGED <<source, candidates, ledger, writes, journal, links>>
               /\ new.ids = old.ids /\ new.last = old.last /\ new.more = old.more
               /\ new.already = old.already /\ new.out = old.out
               /\ snap'[p].cp = snap[p].cp /\ snap'[p].completed = snap[p].completed
               /\ snap'[p].parked = snap[p].parked
               /\ \E failed, prefix :
                    /\ Judged(old, failed, prefix, ledger, r)
                    /\ new.failed = failed
                    /\ new.terminalCursor = LastOf(prefix, old.terminalCursor)
                    /\ snap'[p].migrated = [snap[p].migrated EXCEPT
                         ![r] = @ + Cardinality(NewIds(old) \ failed)]
                    /\ snap'[p].failed = [snap[p].failed EXCEPT
                         ![r] = FailedAfter(@, old.ids, failed)]
<1>. DEFINE r == Current(p)
            old == work[p].page
            new == work'[p].page
<1>1. snap[p] \in Snapshot /\ work[p] \in Work /\ old \in Page
  BY DEF TypeOK, Work
<1>2. PICK failed, prefix, n, f, c :
        /\ Judged(old, failed, prefix, ledger, r)
        /\ n = Cardinality(NewIds(old) \ failed)
        /\ f = FailedAfter(snap[p].failed[r], old.ids, failed)
        /\ c = LastOf(prefix, old.terminalCursor)
        /\ snap' = [snap EXCEPT ![p].migrated[r] = @ + n, ![p].failed[r] = f]
        /\ work' = [work EXCEPT ![p].page.failed = failed, ![p].page.terminalCursor = c]
  <2>. DEFINE failed == {x \in old.ids : /\ old.out[x].status = "failed"
                                         /\ ~IsTerminal(ledger[r][x])}
              prefix == {x \in old.ids \ failed : \A y \in failed : x < y}
              n == Cardinality(NewIds(old) \ failed)
              f == FailedAfter(snap[p].failed[r], old.ids, failed)
              c == LastOf(prefix, old.terminalCursor)
  <2>1. Judged(old, failed, prefix, ledger, r)
    BY DEF Judged
  <2>2. /\ snap' = [snap EXCEPT ![p].migrated[r] = @ + n,
                                ![p].failed[r] = FailedAfter(@, old.ids, failed)]
        /\ work' = [work EXCEPT ![p].page.failed = failed,
                                ![p].page.terminalCursor = LastOf(prefix, @)]
    BY Zenon DEF CountResults
  <2>. HIDE DEF failed, prefix, n, old, r
  <2>3. snap' = [snap EXCEPT ![p].migrated[r] = @ + n, ![p].failed[r] = f]
    BY <1>1, <2>2 DEF TypeOK, Snapshot
  <2>4. work' = [work EXCEPT ![p].page.failed = failed, ![p].page.terminalCursor = c]
    BY <1>1, <2>2 DEF TypeOK, Work, Page, old
  <2>. HIDE DEF f, c
  <2>. QED
    BY <2>1, <2>3, <2>4 DEF n, f, c
<1>3. /\ snap'[p].cp = snap[p].cp /\ snap'[p].completed = snap[p].completed
      /\ snap'[p].parked = snap[p].parked
      /\ snap'[p].migrated = [snap[p].migrated EXCEPT ![r] = @ + n]
      /\ snap'[p].failed = [snap[p].failed EXCEPT ![r] = f]
  BY <1>1, <1>2 DEF TypeOK, Snapshot
<1>4. PICK page : page = [old EXCEPT !.failed = failed, !.terminalCursor = c]
  OBVIOUS
<1>5. work'[p] = [work[p] EXCEPT !.page = page]
  BY <1>2, <1>4 DEF TypeOK
<1>6. /\ new.ids = old.ids /\ new.last = old.last /\ new.more = old.more
      /\ new.already = old.already /\ new.out = old.out
      /\ new.failed = failed /\ new.terminalCursor = c /\ KeepsBatch(p)
  <2>1. new = page /\ KeepsBatch(p)
    BY <1>1, <1>5 DEF Work, KeepsBatch
  <2>. QED
    BY <1>1, <1>4, <2>1 DEF Page
<1>7. /\ pc[p] = "count" /\ pc'[p] = "finish"
      /\ UNCHANGED <<source, candidates, ledger, writes, journal, links>>
  BY DEF CountResults, TypeOK, env, durable, destination
<1>. HIDE DEF old, new, r
<1>8. /\ new.terminalCursor = LastOf(prefix, old.terminalCursor)
      /\ snap'[p].migrated = [snap[p].migrated EXCEPT
           ![r] = @ + Cardinality(NewIds(old) \ failed)]
      /\ snap'[p].failed = [snap[p].failed EXCEPT ![r] = FailedAfter(@, old.ids, failed)]
  BY <1>2, <1>3, <1>6
<1>9. Judged(old, failed, prefix, ledger, r) /\ new.failed = failed
  BY <1>2, <1>6
<1>. QED
  BY <1>3, <1>6, <1>7, <1>8, <1>9 DEF old, new, r

(* The end of a page decides the route's next checkpoint and, on a covered *)
(* route without failures, its completion.                                 *)
LEMMA FinishShape ==
    ASSUME TypeOK, NEW p \in Procs, Current(p) \in Routes, FinishRoute(p)
    PROVE  LET r == Current(p)
               page == work[p].page
           IN  /\ pc[p] = "finish" /\ pc'[p] = "route" /\ KeepsMarks(p)
               /\ UNCHANGED <<source, candidates, ledger, writes, journal>>
               /\ work'[p].nextCp = [work[p].nextCp EXCEPT ![r] = NextCheckpoint(page)]
               /\ \E done : Relinks(p, r, done)
               /\ \/ snap'[p].completed = snap[p].completed
                  \/ /\ snap'[p].completed = snap[p].completed \cup {r}
                     /\ page.failed = {} /\ ~page.more
<1>. DEFINE r == Current(p)
            cp == NextCheckpoint(work[p].page)
            more == ~RouteComplete(p)
<1>1. snap[p] \in Snapshot /\ work[p] \in Work
  BY DEF TypeOK
<1>2. PICK done, completed :
        /\ links' = links \cup Written(r, done)
        /\ snap' = [snap EXCEPT ![p].parked[r] = @ \ done, ![p].completed = completed]
        /\ \/ completed = snap[p].completed
           \/ (completed = snap[p].completed \cup {r} /\ RouteComplete(p))
  <2>1. PICK done :
          /\ links' = links \cup Written(r, done)
          /\ snap' = [snap EXCEPT ![p].parked[r] = @ \ done,
                 ![p].completed = IF RouteComplete(p) THEN @ \cup {r} ELSE @]
    BY DEF FinishRoute
  <2>2. PICK completed : completed = IF RouteComplete(p) THEN snap[p].completed \cup {r}
                                     ELSE snap[p].completed
    OBVIOUS
  <2>3. snap' = [snap EXCEPT ![p].parked[r] = @ \ done, ![p].completed = completed]
    BY <1>1, <2>1, <2>2 DEF TypeOK, Snapshot
  <2>. QED
    BY <2>1, <2>2, <2>3
<1>3. KeepsMarks(p) /\ Relinks(p, r, done) /\ snap'[p].completed = completed
  BY <1>1, <1>2 DEF TypeOK, Snapshot, KeepsMarks, Relinks
<1>4. PICK b : /\ b = [work[p] EXCEPT !.hasMore = @ \/ more, !.nextCp[r] = cp]
               /\ NextRoute(p, b)
  BY Zenon DEF FinishRoute
<1>5. b.nextCp = [work[p].nextCp EXCEPT ![r] = cp] /\ DOMAIN b = DOMAIN work[p]
  <2>. HIDE DEF cp, more, r
  <2>. QED
    BY <1>1, <1>4 DEF Work
<1>6. work'[p].nextCp = b.nextCp /\ pc'[p] = "route"
  <2>1. work'[p] = [b EXCEPT !.route = @ + 1, !.page = NoPage] /\ pc'[p] = "route"
    BY <1>4 DEF NextRoute, TypeOK
  <2>. QED
    BY <1>1, <1>5, <2>1 DEF Work
<1>7. pc[p] = "finish" /\ UNCHANGED <<source, candidates, ledger, writes, journal>>
  BY DEF FinishRoute, env, durable
<1>. QED
  BY <1>2, <1>3, <1>5, <1>6, <1>7 DEF RouteComplete

(* The views before and after a step.                                      *)
LEMMA StepViews ==
    ASSUME IInv, IInv', [Next]_vars
    PROVE  /\ candidates' = candidates /\ Grown(Served, Kept, Hit, Served', Kept', Hit')
           /\ TypeOK /\ TypeOK' /\ BatchCovered
           /\ Served \in RecordSets /\ Kept \in RecordSets /\ Kept' \in RecordSets
<1>1. TypeOK /\ TypeOK' /\ BatchCovered
  BY DEF IInv
<1>2. Kept' \in RecordSets
  BY <1>1 DEF TypeOK, Kept, RecordSets, TerminalIds
<1>. QED
  BY <1>1, <1>2, ViewsGrow, ViewsTyped

-----------------------------------------------------------------------------
(* What a process answers for.                                             *)

(* A process a step leaves alone keeps its part.                           *)
LEMMA SafeUntouched ==
    ASSUME IInv, IInv', [Next]_vars, NEW q \in Procs, ProcSafe(q),
           pc'[q] = pc[q], snap'[q] = snap[q], work'[q] = work[q]
    PROVE  ProcSafe(q)'
<1>1. /\ candidates' = candidates /\ Grown(Served, Kept, Hit, Served', Kept', Hit')
      /\ TypeOK /\ Kept \in RecordSets /\ Kept' \in RecordSets
  BY StepViews
<1>2. snap[q] \in Snapshot /\ work[q] \in Work
  BY <1>1 DEF TypeOK
<1>3. SnapSafe(snap[q], Served', Kept')
  BY <1>1, <1>2, SnapGrows DEF ProcSafe
<1>4. Passed(work[q].nextCp, Served', Kept')
  BY <1>1, PassedGrows DEF ProcSafe, WorkSafe
<1>5. ASSUME pc[q] \in InPage
      PROVE  PageSafe(work[q].page, Current(q), snap[q].migrated[Current(q)], pc[q],
                      candidates, Served', Kept', Hit')
  <2>1. Current(q) \in Routes
    BY <1>1, <1>5, CurrentRoute DEF InPage, IInv, BatchCovered, BatchCoveredBy
  <2>2. snap[q].migrated[Current(q)] \in Nat
    BY <1>2, <2>1 DEF Snapshot
  <2>. QED
    BY <1>1, <1>5, <2>1, <2>2, PageGrows DEF ProcSafe, WorkSafe, Current
<1>6. WorkSafe(work[q], snap[q], pc[q], candidates, Served', Kept', Hit')
  BY <1>4, <1>5 DEF WorkSafe, Current
<1>. QED
  BY <1>1, <1>3, <1>6 DEF ProcSafe

(* Outside a page a process answers for its snapshot and its checkpoints.  *)
LEMMA SafeOutside ==
    ASSUME IInv, IInv', [Next]_vars, NEW p \in Procs,
           SnapSafe(snap'[p], Served, Kept), Passed(work'[p].nextCp, Served, Kept),
           pc'[p] \notin InPage
    PROVE  ProcSafe(p)'
<1>1. /\ Grown(Served, Kept, Hit, Served', Kept', Hit')
      /\ TypeOK /\ Kept \in RecordSets /\ Kept' \in RecordSets
  BY StepViews
<1>2. snap'[p] \in Snapshot
  BY DEF IInv, TypeOK
<1>3. SnapSafe(snap'[p], Served', Kept') /\ Passed(work'[p].nextCp, Served', Kept')
  BY <1>1, <1>2, SnapGrows, PassedGrows
<1>. QED
  BY <1>3 DEF ProcSafe, WorkSafe

(* Inside a page it answers for the page too.                              *)
LEMMA SafeInside ==
    ASSUME IInv, IInv', [Next]_vars, NEW p \in Procs, ProcSafe(p),
           SnapSafe(snap'[p], Served, Kept),
           work'[p].nextCp = work[p].nextCp, work'[p].route = work[p].route,
           PageSafe(work'[p].page, Current(p), snap'[p].migrated[Current(p)], pc'[p],
                    candidates, Served', Kept', Hit')
    PROVE  ProcSafe(p)'
<1>1. /\ candidates' = candidates /\ Grown(Served, Kept, Hit, Served', Kept', Hit')
      /\ TypeOK /\ Kept \in RecordSets /\ Kept' \in RecordSets
  BY StepViews
<1>2. snap'[p] \in Snapshot
  BY DEF IInv, TypeOK
<1>3. SnapSafe(snap'[p], Served', Kept') /\ Passed(work'[p].nextCp, Served', Kept')
  BY <1>1, <1>2, SnapGrows, PassedGrows DEF ProcSafe, WorkSafe
<1>. QED
  BY <1>1, <1>3 DEF ProcSafe, WorkSafe, Current

(* Nothing is passed or counted at first.                                  *)
LEMMA EmptySafe ==
    ASSUME NEW served \in RecordSets, NEW kept \in RecordSets
    PROVE  /\ SnapSafe(EmptySnapshot, served, kept)
           /\ Passed([r \in Routes |-> 0], served, kept)
<1>1. \A r \in Routes : \A x \in served[r] : ~(x <= 0)
  BY RecordsAssumption DEF RecordSets, Records
<1>2. \A r \in Routes : Cardinality(kept[r]) \in Nat
  BY RecordsFinite DEF RecordSets
<1>. QED
  BY <1>1, <1>2 DEF SnapSafe, Counted, Passed, EmptySnapshot

(* A snapshot whose checkpoints and counters did not change.               *)
LEMMA SameMarks ==
    ASSUME NEW p \in Procs, ProcSafe(p),
           snap'[p].cp = snap[p].cp, snap'[p].migrated = snap[p].migrated
    PROVE  SnapSafe(snap'[p], Served, Kept) /\ Passed(work[p].nextCp, Served, Kept)
BY DEF ProcSafe, WorkSafe, SnapSafe, Counted

(* The views when neither the source, the ledger nor the writes change.    *)
LEMMA SameViews ==
    ASSUME UNCHANGED <<source, candidates, ledger>>
    PROVE  Served' = Served /\ Kept' = Kept /\ (UNCHANGED writes => Hit' = Hit)
BY DEF Served, Kept, Hit

(* The steps that begin, end or abort an apply keep the process safe.      *)
LEMMA SafeEnds ==
    ASSUME ProgressInv, IInv', [Next]_vars, NEW p \in Procs, Ends(p)
    PROVE  ProcSafe(p)'
<1>1. IInv /\ ProcSafe(p) /\ SnapSafe(journal.snap, Served, Kept)
      /\ Served \in RecordSets /\ Kept \in RecordSets /\ TypeOK
  BY StepViews DEF ProgressInv
<1>2. SnapSafe(EmptySnapshot, Served, Kept) /\ Passed(Zero, Served, Kept)
  BY <1>1, EmptySafe DEF Zero
<1>3. SnapSafe(snap[p], Served, Kept) /\ Passed(work[p].nextCp, Served, Kept)
  BY <1>1 DEF ProcSafe, WorkSafe
<1>4. SnapSafe(snap'[p], Served, Kept) /\ Passed(work'[p].nextCp, Served, Kept)
  BY <1>1, <1>2, <1>3, EndsShape
<1>. QED
  BY <1>1, <1>4, EndsShape, SafeOutside

(* The batch's save takes over checkpoints that are right.                 *)
LEMMA SafeSave ==
    ASSUME ProgressInv, IInv', [Next]_vars, NEW p \in Procs, SaveBatch(p)
    PROVE  ProcSafe(p)' /\ SnapSafe(journal'.snap, Served, Kept)
<1>1. IInv /\ ProcSafe(p) /\ Served \in RecordSets /\ Kept \in RecordSets /\ TypeOK
  BY StepViews DEF ProgressInv
<1>2. SnapSafe(snap'[p], Served, Kept)
  BY <1>1, SaveShape DEF ProcSafe, SnapSafe, Counted, WorkSafe
<1>3. Passed(work'[p].nextCp, Served, Kept)
  BY <1>1, SaveShape, EmptySafe DEF Zero
<1>. QED
  BY <1>1, <1>2, <1>3, SaveShape, SafeOutside

(* Passing over a route changes no checkpoint and no counter.              *)
LEMMA SafeSkips ==
    ASSUME ProgressInv, IInv', [Next]_vars, NEW p \in Procs,
           SkipCompleted(p) \/ CompleteEmpty(p)
    PROVE  ProcSafe(p)'
<1>1. IInv /\ ProcSafe(p) /\ TypeOK
  BY StepViews DEF ProgressInv
<1>2. /\ snap'[p].cp = snap[p].cp /\ snap'[p].migrated = snap[p].migrated
      /\ work'[p].nextCp = work[p].nextCp /\ pc'[p] \notin InPage
  BY <1>1, SkipShape DEF KeepsMarks, InPage
<1>. QED
  BY <1>1, <1>2, SameMarks, SafeOutside

(* A page is read from the checkpoint on, which passed nothing unfinished. *)
LEMMA SafeReads ==
    ASSUME ProgressInv, IInv', [Next]_vars, NEW p \in Procs, ReadPage(p)
    PROVE  ProcSafe(p)'
<1>. DEFINE r == Current(p)
            page == work'[p].page
            cursor == snap[p].cp[r]
            read == PageOf(source[r], cursor, BatchSize)
<1>1. /\ IInv /\ ProcSafe(p) /\ TypeOK /\ LedgerBacked
      /\ SnapSafe(snap[p], Served, Kept)
  BY StepViews DEF ProgressInv, ProcSafe
<1>2. /\ r \in Routes /\ pc'[p] = "write" /\ KeepsMarks(p) /\ KeepsBatch(p)
      /\ UNCHANGED <<source, candidates, ledger, writes>>
      /\ page.ids = read \cap candidates[r] /\ page.last = LastOf(read, cursor)
      /\ page.already = TerminalIds(ledger, r, page.ids) /\ page.terminalCursor = cursor
      /\ DOMAIN page.out \subseteq page.ids
      /\ \A x \in DOMAIN page.out :
           page.out[x].status = IF x \in page.already THEN "skipped" ELSE "failed"
  BY <1>1, ReadShape
<1>3. source[r] \in SUBSET Records /\ cursor \in Nat /\ candidates[r] \in SUBSET Records
  BY <1>1, <1>2 DEF TypeOK, Snapshot
<1>4. /\ read \subseteq source[r]
      /\ \A x \in read : x <= LastOf(read, cursor)
      /\ \A x \in source[r] : cursor < x /\ x <= LastOf(read, cursor) => x \in read
  BY <1>3, PageReads
<1>5. page.already = page.ids \cap Kept[r]
  BY <1>2 DEF TerminalIds, Kept
<1>6. \A x \in Served[r] : x <= cursor => x \in Kept[r]
  BY <1>1, <1>2 DEF SnapSafe, Passed
<1>7. \A x \in Served[r] : x \in Nat /\ x \in candidates[r] /\ x \in source[r]
  BY <1>2, <1>3, RecordsFinite DEF Served
<1>8. ASSUME NEW x \in Served[r], x <= LastOf(read, cursor)
      PROVE  x \in page.ids \cup Kept[r]
  <2>1. CASE x <= cursor
    BY <1>6, <2>1
  <2>2. CASE cursor < x
    BY <1>2, <1>4, <1>7, <1>8, <2>2
  <2>. QED
    BY <1>3, <1>7, <2>1, <2>2
<1>9. ASSUME NEW x \in DOMAIN page.out, page.out[x].status \in Terminal
      PROVE  x \in Hit[r]
  <2>1. x \in page.already
    BY <1>2, <1>9 DEF Terminal
  <2>2. x \in Records /\ IsTerminal(ledger[r][x])
    BY <1>2, <1>3, <2>1 DEF TerminalIds
  <2>. QED
    BY <1>1, <1>2, <2>2 DEF LedgerBacked, Hit
<1>10. snap[p].migrated[r] <= Cardinality(Kept[r] \ NewIds(page))
  <2>1. Kept[r] \ NewIds(page) = Kept[r]
    BY <1>5 DEF NewIds
  <2>. QED
    BY <1>1, <1>2, <2>1 DEF SnapSafe, Counted
<1>11. /\ page.ids \subseteq candidates[r] /\ DOMAIN page.out \subseteq page.ids
       /\ page.already \subseteq Kept[r] /\ \A x \in page.ids : x <= page.last
  BY <1>2, <1>4, <1>5
<1>. HIDE DEF page, read, cursor, r
<1>12. PageSafe(page, r, snap[p].migrated[r], "write", candidates, Served, Kept, Hit)
  BY <1>2, <1>6, <1>8, <1>9, <1>10, <1>11 DEF PageSafe
<1>13. Served' = Served /\ Kept' = Kept /\ Hit' = Hit
  BY <1>2, SameViews
<1>. QED
  BY <1>1, <1>2, <1>12, <1>13, SameMarks, SafeInside DEF page, r, KeepsMarks, KeepsBatch

(* What a process inside a page relies on.                                 *)
LEMMA PageFacts ==
    ASSUME ProgressInv, IInv', [Next]_vars, NEW p \in Procs, pc[p] \in InPage
    PROVE  /\ IInv /\ ProcSafe(p) /\ TypeOK /\ LedgerBacked
           /\ snap[p] \in Snapshot /\ work[p] \in Work /\ work[p].page \in Page
           /\ Current(p) \in Routes
           /\ Kept \in RecordSets /\ Kept' \in RecordSets /\ candidates' = candidates
           /\ Grown(Served, Kept, Hit, Served', Kept', Hit')
           /\ SnapSafe(snap[p], Served, Kept) /\ Passed(work[p].nextCp, Served, Kept)
           /\ PageSafe(work[p].page, Current(p), snap[p].migrated[Current(p)], pc[p],
                       candidates, Served, Kept, Hit)
<1>1. IInv /\ ProcSafe(p) /\ TypeOK /\ LedgerBacked /\ BatchCovered
      /\ Kept \in RecordSets /\ Kept' \in RecordSets /\ candidates' = candidates
      /\ Grown(Served, Kept, Hit, Served', Kept', Hit')
  BY StepViews DEF ProgressInv
<1>2. snap[p] \in Snapshot /\ work[p] \in Work /\ work[p].page \in Page
  BY <1>1 DEF TypeOK, Work
<1>3. Current(p) \in Routes
  BY <1>1, CurrentRoute DEF InPage, BatchCovered, BatchCoveredBy
<1>. QED
  BY <1>1, <1>2, <1>3 DEF ProcSafe, WorkSafe, Current

(* A reported success is a write that took effect.                         *)
LEMMA SafeWrites ==
    ASSUME ProgressInv, IInv', [Next]_vars, NEW p \in Procs,
           WriteRecords(p) \/ WriteFails(p) \/ WriteRetried(p)
    PROVE  ProcSafe(p)'
<1>. DEFINE r == Current(p)
            old == work[p].page
            new == work'[p].page
<1>1. pc[p] = "write" /\ pc[p] \in InPage
  BY DEF WriteRecords, WriteFails, WriteRetried, AtWrite, InPage
<1>2. /\ IInv /\ ProcSafe(p) /\ TypeOK /\ old \in Page /\ r \in Routes
      /\ Grown(Served, Kept, Hit, Served', Kept', Hit')
      /\ SnapSafe(snap[p], Served, Kept)
      /\ PageSafe(old, r, snap[p].migrated[r], "write", candidates, Served, Kept, Hit)
  BY <1>1, PageFacts
<1>3. /\ snap' = snap /\ pc' = pc /\ KeepsBatch(p)
      /\ UNCHANGED <<source, candidates, ledger>>
      /\ new.ids = old.ids /\ new.last = old.last
      /\ new.already = old.already /\ new.terminalCursor = old.terminalCursor
      /\ DOMAIN new.out \subseteq DOMAIN old.out \cup old.ids
      /\ \A x \in DOMAIN old.out : new.out[x] = old.out[x]
      /\ \A x \in DOMAIN new.out \ DOMAIN old.out :
           new.out[x].status \in Terminal => writes'[r][x] > 0
  BY <1>2, WriteShape
<1>4. DOMAIN new.out \subseteq old.ids /\ old.ids \in SUBSET Records
  BY <1>2, <1>3 DEF PageSafe, Page
<1>5. ASSUME NEW x \in DOMAIN new.out, new.out[x].status \in Terminal
      PROVE  x \in Hit'[r]
  <2>1. CASE x \in DOMAIN old.out
    BY <1>2, <1>3, <1>5, <2>1 DEF PageSafe, Grown
  <2>2. CASE x \notin DOMAIN old.out
    BY <1>2, <1>3, <1>4, <1>5, <2>2 DEF Hit
  <2>. QED
    BY <2>1, <2>2
<1>. HIDE DEF old, new, r
<1>6. PageSafe(new, r, snap[p].migrated[r], "write", candidates, Served, Kept, Hit')
  <2>1. NewIds(new) = NewIds(old)
    BY <1>3 DEF NewIds
  <2>. QED
    BY <1>2, <1>3, <1>4, <1>5, <2>1 DEF PageSafe
<1>7. Served' = Served /\ Kept' = Kept
  BY <1>3, SameViews
<1>. QED
  BY <1>1, <1>2, <1>3, <1>6, <1>7, SafeInside DEF r, new, KeepsBatch

(* Writing a page's relationships touches neither view.                    *)
LEMMA SafeLinks ==
    ASSUME ProgressInv, IInv', [Next]_vars, NEW p \in Procs, LinkPage(p)
    PROVE  ProcSafe(p)'
<1>. DEFINE page == work[p].page
            r == Current(p)
<1>1. pc[p] = "write" /\ pc[p] \in InPage
  BY DEF LinkPage, InPage
<1>2. /\ IInv /\ ProcSafe(p) /\ TypeOK /\ r \in Routes
      /\ PageSafe(page, r, snap[p].migrated[r], "write", candidates, Served, Kept, Hit)
  BY <1>1, PageFacts
<1>3. /\ snap'[p].cp = snap[p].cp /\ snap'[p].migrated = snap[p].migrated
      /\ pc'[p] = "persist" /\ work' = work /\ UNCHANGED <<source, candidates, ledger, writes>>
  BY <1>2, LinkShape DEF KeepsMarks
<1>4. Served' = Served /\ Kept' = Kept /\ Hit' = Hit
  BY <1>3, SameViews
<1>5. PageSafe(page, r, snap[p].migrated[r], "persist", candidates, Served, Kept, Hit)
  BY <1>2 DEF PageSafe
<1>. QED
  BY <1>2, <1>3, <1>4, <1>5, SameMarks, SafeInside

(* The rows of a page land at once: what did not fail is terminal then.    *)
LEMMA SafePersist ==
    ASSUME ProgressInv, IInv', [Next]_vars, NEW p \in Procs, Persist(p)
    PROVE  ProcSafe(p)'
<1>. DEFINE page == work[p].page
            r == Current(p)
<1>1. pc[p] = "persist" /\ pc[p] \in InPage
  BY DEF Persist, InPage
<1>2. /\ IInv /\ ProcSafe(p) /\ TypeOK /\ snap[p] \in Snapshot /\ page \in Page
      /\ r \in Routes /\ candidates' = candidates
      /\ Kept \in RecordSets /\ Kept' \in RecordSets
      /\ Grown(Served, Kept, Hit, Served', Kept', Hit')
      /\ SnapSafe(snap[p], Served, Kept)
      /\ PageSafe(page, r, snap[p].migrated[r], "persist", candidates, Served, Kept, Hit)
  BY <1>1, PageFacts
<1>3. /\ pc'[p] = "count" /\ work' = work /\ snap' = snap
      /\ ledger' = UpsertResults(ledger, r, NewIds(page), page.out)
  BY <1>2 DEF Persist, TypeOK
<1>4. page.ids \subseteq DOMAIN page.out
  BY <1>1, <1>2 DEF IInv, BatchCovered, BatchCoveredBy
<1>5. PICK D \in SUBSET Records : page.out \in [D -> Outcome]
  BY <1>2 DEF Page, PartialOutcomes
<1>6. snap[p].migrated[r] \in Nat
  BY <1>2 DEF Snapshot
<1>7. PageSafe(page, r, snap[p].migrated[r], "persist", candidates, Served', Kept', Hit')
  BY <1>2, <1>6, PageGrows
<1>8. ASSUME NEW x \in page.ids, page.out[x].status # "failed"
      PROVE  x \in Kept'[r]
  <2>1. CASE x \in page.already
    BY <1>7, <2>1 DEF PageSafe
  <2>2. CASE x \notin page.already
    <3>1. x \in NewIds(page) /\ x \in candidates[r] /\ x \in Records
      BY <1>2, <1>8, <2>2 DEF NewIds, PageSafe, Page
    <3>2. page.out[x].status \in Terminal
      BY <1>4, <1>5, <1>8 DEF Outcome, Status
    <3>3. ledger'[r][x] = Merge(ledger[r][x], page.out[x])
      BY <1>2, <1>3, <3>1 DEF UpsertResults, TypeOK
    <3>4. IsTerminal(ledger'[r][x])
      BY <3>2, <3>3 DEF Merge, IsTerminal
    <3>. QED
      BY <1>2, <3>1, <3>4 DEF Kept, TerminalIds
  <2>. QED
    BY <2>1, <2>2
<1>. HIDE DEF page, r
<1>9. PageSafe(page, r, snap[p].migrated[r], "count", candidates, Served', Kept', Hit')
  BY <1>4, <1>7, <1>8 DEF PageSafe
<1>. QED
  BY <1>2, <1>3, <1>9, SafeInside DEF page, r
(* The counter grows by the page's own terminal records, and the cursor of *)
(* the last of them before the first failure passes nothing unfinished.    *)
LEMMA SafeCounts ==
    ASSUME ProgressInv, IInv', [Next]_vars, NEW p \in Procs, CountResults(p)
    PROVE  ProcSafe(p)'
<1>. DEFINE page == work[p].page
            new == work'[p].page
            r == Current(p)
            migrated == snap[p].migrated
<1>1. pc[p] = "count" /\ pc[p] \in InPage
  BY DEF CountResults, InPage
<1>2. /\ IInv /\ ProcSafe(p) /\ TypeOK /\ snap[p] \in Snapshot
      /\ page \in Page /\ r \in Routes /\ Kept \in RecordSets
      /\ SnapSafe(snap[p], Served, Kept)
      /\ PageSafe(page, r, migrated[r], "count", candidates, Served, Kept, Hit)
  BY <1>1, PageFacts
<1>3. /\ pc'[p] = "finish" /\ KeepsBatch(p) /\ UNCHANGED <<source, candidates, ledger, writes>>
      /\ new.ids = page.ids /\ new.last = page.last
      /\ new.already = page.already /\ new.out = page.out /\ snap'[p].cp = snap[p].cp
  BY <1>2, CountShape
<1>4. PICK failed, prefix :
        /\ Judged(page, failed, prefix, ledger, r)
        /\ new.failed = failed
        /\ new.terminalCursor = LastOf(prefix, page.terminalCursor)
        /\ snap'[p].migrated = [snap[p].migrated EXCEPT
             ![r] = @ + Cardinality(NewIds(page) \ failed)]
        /\ snap'[p].failed = [snap[p].failed EXCEPT
             ![r] = FailedAfter(@, page.ids, failed)]
  BY <1>2, CountShape
<1>5. page.ids \ failed \subseteq Kept[r]
  <2>1. page.ids \subseteq candidates[r]
    BY <1>2 DEF PageSafe
  <2>2. ASSUME NEW x \in page.ids \ failed
        PROVE  x \in Kept[r]
    <3>1. CASE page.out[x].status # "failed"
      BY <1>2, <3>1 DEF PageSafe
    <3>2. CASE IsTerminal(ledger[r][x])
      BY <1>2, <2>1, <3>2 DEF Kept, TerminalIds
    <3>. QED
      BY <1>4, <3>1, <3>2 DEF Judged
  <2>. QED
    BY <2>2
<1>6. PICK n : n = Cardinality(NewIds(page) \ failed)
  OBVIOUS
<1>7. migrated[r] + n <= Cardinality(Kept[r]) /\ migrated \in [Routes -> Nat]
  <2>1. /\ NewIds(page) \ failed \in SUBSET Records
        /\ Kept[r] \ NewIds(page) \in SUBSET Records /\ Kept[r] \in SUBSET Records
        /\ (Kept[r] \ NewIds(page)) \cap (NewIds(page) \ failed) = {}
        /\ (Kept[r] \ NewIds(page)) \cup (NewIds(page) \ failed) \subseteq Kept[r]
    BY <1>2, <1>5 DEF NewIds, Page, RecordSets
  <2>2. Cardinality(Kept[r] \ NewIds(page)) + Cardinality(NewIds(page) \ failed)
          <= Cardinality(Kept[r])
    BY <2>1, ApartCount
  <2>3. /\ Cardinality(Kept[r] \ NewIds(page)) \in Nat
        /\ Cardinality(NewIds(page) \ failed) \in Nat /\ Cardinality(Kept[r]) \in Nat
    BY <2>1, RecordsFinite
  <2>4. migrated \in [Routes -> Nat] /\ migrated[r] <= Cardinality(Kept[r] \ NewIds(page))
    BY <1>2 DEF PageSafe, Snapshot
  <2>5. migrated[r] \in Nat
    BY <1>2, <2>4
  <2>. QED
    BY <1>6, <2>2, <2>3, <2>4, <2>5
<1>8. SnapSafe(snap'[p], Served, Kept)
  <2>1. PICK m : m = [migrated EXCEPT ![r] = migrated[r] + n]
    OBVIOUS
  <2>2. snap'[p].migrated = m
    BY <1>4, <1>6, <2>1
  <2>3. \A q \in Routes : migrated[q] <= Cardinality(Kept[q])
    BY <1>2 DEF SnapSafe, Counted
  <2>4. \A q \in Routes : m[q] <= Cardinality(Kept[q])
    BY <1>2, <1>7, <2>1, <2>3
  <2>. QED
    BY <1>2, <1>3, <2>2, <2>4 DEF SnapSafe, Counted
<1>9. ASSUME NEW x \in Served[r], x <= LastOf(prefix, page.terminalCursor)
      PROVE  x \in Kept[r]
  <2>1. page.ids \in SUBSET Records /\ failed \in SUBSET page.ids
        /\ prefix \in SUBSET page.ids /\ x \in Nat
    BY <1>2, <1>4, RecordsFinite DEF Page, Served, TypeOK, Judged
  <2>2. PICK last : last = LastOf(prefix, page.terminalCursor)
    OBVIOUS
  <2>3. last \in prefix \cup {page.terminalCursor}
    BY <2>1, <2>2, LastOfIn
  <2>4. CASE last = page.terminalCursor
    BY <1>2, <1>9, <2>2, <2>4 DEF PageSafe
  <2>5. CASE last \in prefix
    <3>1. last \in Nat /\ last <= page.last /\ page.last \in Nat
      BY <1>2, <2>1, <2>5, RecordsFinite DEF PageSafe, Page
    <3>2. x <= page.last
      BY <1>9, <2>1, <2>2, <3>1
    <3>3. x \in page.ids \cup Kept[r]
      BY <1>2, <3>2 DEF PageSafe
    <3>4. x \notin failed
      <4>1. \A y \in failed : last < y /\ y \in Nat
        BY <1>4, <2>1, <2>5, RecordsFinite DEF Judged
      <4>. QED
        BY <1>9, <2>1, <2>2, <3>1, <4>1
    <3>. QED
      BY <1>5, <3>3, <3>4
  <2>. QED
    BY <2>3, <2>4, <2>5
<1>10. Served' = Served /\ Kept' = Kept /\ Hit' = Hit
  BY <1>3, SameViews
<1>. HIDE DEF page, new, r, migrated
<1>11. PageSafe(new, r, snap'[p].migrated[r], "finish", candidates, Served, Kept, Hit)
  BY <1>2, <1>3, <1>4, <1>5, <1>9 DEF PageSafe
<1>. QED
  BY <1>2, <1>3, <1>8, <1>10, <1>11, SafeInside DEF r, new, KeepsBatch

(* The checkpoint a page decides on passes no record without a terminal    *)
(* row, whether it failed, was full or was the last.                       *)
LEMMA SafeFinish ==
    ASSUME ProgressInv, IInv', [Next]_vars, NEW p \in Procs, FinishRoute(p)
    PROVE  ProcSafe(p)'
<1>. DEFINE page == work[p].page
            r == Current(p)
            cp == NextCheckpoint(page)
<1>1. pc[p] = "finish" /\ pc[p] \in InPage
  BY DEF FinishRoute, InPage
<1>2. /\ IInv /\ ProcSafe(p) /\ TypeOK /\ work[p] \in Work /\ r \in Routes
      /\ SnapSafe(snap[p], Served, Kept) /\ Passed(work[p].nextCp, Served, Kept)
      /\ PageSafe(page, r, snap[p].migrated[r], "finish", candidates, Served, Kept, Hit)
  BY <1>1, PageFacts
<1>3. /\ pc'[p] \notin InPage /\ work'[p].nextCp = [work[p].nextCp EXCEPT ![r] = cp]
      /\ snap'[p].cp = snap[p].cp /\ snap'[p].migrated = snap[p].migrated
  BY <1>2, FinishShape DEF KeepsMarks, InPage
<1>4. ASSUME NEW x \in Served[r], x <= cp
      PROVE  x \in Kept[r]
  <2>1. CASE page.failed # {}
    BY <1>2, <1>4, <2>1 DEF PageSafe, NextCheckpoint
  <2>2. CASE page.failed = {} /\ page.more
    <3>1. page.ids \subseteq Kept[r]
      BY <1>2, <2>2 DEF PageSafe
    <3>2. cp = page.last
      BY <2>2 DEF NextCheckpoint
    <3>. QED
      BY <1>2, <1>4, <3>1, <3>2 DEF PageSafe
  <2>3. CASE page.failed = {} /\ ~page.more
    <3>1. cp = 0 /\ x \in Nat \ {0}
      BY <1>2, <2>3, RecordsAssumption DEF NextCheckpoint, Served, TypeOK, Records
    <3>. QED
      BY <1>4, <3>1
  <2>. QED
    BY <2>1, <2>2, <2>3
<1>5. work[p].nextCp \in [Routes -> Nat]
  BY <1>2 DEF Work
<1>. HIDE DEF cp, r
<1>6. Passed(work'[p].nextCp, Served, Kept)
  BY <1>2, <1>3, <1>4, <1>5 DEF Passed
<1>. QED
  BY <1>2, <1>3, <1>6, SameMarks, SafeOutside

-----------------------------------------------------------------------------
(* The invariant and its theorems.                                         *)

(* What a step may add to the ledger: rows of a page's own records, and a  *)
(* terminal one only for a record that was written.                        *)
LEMMA RowsAdded ==
    ASSUME ProgressInv, IInv', [Next]_vars, NEW r \in Routes, NEW x \in Records
    PROVE  \/ ledger'[r][x] = ledger[r][x]
           \/ /\ x \in candidates[r]
              /\ IsTerminal(ledger'[r][x]) => IsTerminal(ledger[r][x]) \/ x \in Hit[r]
<1>1. ASSUME NEW p \in Procs, Persist(p) \/ PersistShort(p), ledger'[r][x] # ledger[r][x]
      PROVE  /\ x \in candidates[r]
             /\ IsTerminal(ledger'[r][x]) => IsTerminal(ledger[r][x]) \/ x \in Hit[r]
  <2>. DEFINE page == work[p].page
  <2>1. pc[p] = "persist" /\ pc[p] \in InPage
    BY <1>1 DEF Persist, PersistShort, InPage
  <2>2. PICK ids \in SUBSET NewIds(page) :
          ledger' = UpsertResults(ledger, Current(p), ids, page.out)
    BY <1>1 DEF Persist, PersistShort
  <2>3. /\ IInv /\ TypeOK
        /\ PageSafe(page, Current(p), snap[p].migrated[Current(p)], "persist",
                    candidates, Served, Kept, Hit)
    BY <2>1, PageFacts
  <2>4. r = Current(p) /\ x \in ids /\ ledger'[r][x] = Merge(ledger[r][x], page.out[x])
    BY <1>1, <2>2, <2>3 DEF UpsertResults, TypeOK
  <2>5. x \in page.ids /\ x \in DOMAIN page.out
    BY <2>1, <2>3, <2>4 DEF NewIds, IInv, BatchCovered, BatchCoveredBy
  <2>6. IsTerminal(ledger'[r][x]) => IsTerminal(ledger[r][x]) \/ page.out[x].status \in Terminal
    BY <2>4 DEF Merge, IsTerminal
  <2>. QED
    BY <2>3, <2>4, <2>5, <2>6 DEF PageSafe
<1>. QED
  BY <1>1, LedgerFrame

(* What is written or recorded stays approved, and a terminal row stays    *)
(* backed by a write.                                                      *)
LEMMA WrittenNext ==
    ASSUME ProgressInv, IInv', [Next]_vars
    PROVE  OnlyCandidates' /\ LedgerBacked'
<1>1. TypeOK /\ OnlyCandidates /\ LedgerBacked /\ candidates' = candidates
      /\ Grown(Served, Kept, Hit, Served', Kept', Hit')
  BY StepViews DEF ProgressInv
<1>2. ASSUME NEW r \in Routes, NEW x \in Records \ candidates[r]
      PROVE  writes'[r][x] = 0
  <2>1. writes[r][x] = 0
    BY <1>1 DEF OnlyCandidates
  <2>2. ASSUME NEW p \in Procs, WriteRecords(p) \/ WriteFails(p) \/ WriteRetried(p)
        PROVE  r = Current(p) => x \notin Unwritten(p)
    <3>1. pc[p] = "write" /\ pc[p] \in InPage
      BY <2>2 DEF WriteRecords, WriteFails, WriteRetried, AtWrite, InPage
    <3>2. PageSafe(work[p].page, Current(p), snap[p].migrated[Current(p)], pc[p],
                   candidates, Served, Kept, Hit)
      BY <3>1, PageFacts
    <3>. QED
      BY <3>2 DEF PageSafe, Unwritten
  <2>. QED
    BY <1>1, <2>1, <2>2, ViewsFrame, WritesPlus
<1>3. ASSUME NEW r \in Routes, NEW x \in Records \ candidates[r]
      PROVE  ledger'[r][x] = NoRow
  BY <1>1, RowsAdded DEF OnlyCandidates
<1>4. ASSUME NEW r \in Routes, NEW x \in Records, IsTerminal(ledger'[r][x])
      PROVE  writes'[r][x] > 0
  <2>1. IsTerminal(ledger[r][x]) \/ x \in Hit[r]
    BY <1>4, RowsAdded
  <2>2. x \in Hit[r]
    BY <1>1, <2>1 DEF LedgerBacked, Hit
  <2>. QED
    BY <1>1, <2>2 DEF Grown, Hit
<1>. QED
  BY <1>1, <1>2, <1>3, <1>4 DEF OnlyCandidates, LedgerBacked

(* The journal takes over the snapshot of a process, or keeps its own.     *)
LEMMA JournalSafe ==
    ASSUME ProgressInv, IInv', [Next]_vars
    PROVE  SnapSafe(journal.snap, Served, Kept)'
<1>1. /\ TypeOK /\ TypeOK' /\ Kept \in RecordSets /\ Kept' \in RecordSets
      /\ Grown(Served, Kept, Hit, Served', Kept', Hit')
      /\ SnapSafe(journal.snap, Served, Kept)
  BY StepViews DEF ProgressInv
<1>2. SnapSafe(journal'.snap, Served, Kept)
  <2>1. ASSUME NEW p \in Procs, SaveFailed(p)
        PROVE  journal'.snap = snap[p] /\ SnapSafe(snap[p], Served, Kept)
    BY <2>1 DEF SaveFailed, Save, ProgressInv, ProcSafe
  <2>2. ASSUME NEW p \in Procs, Start(p) \/ Report(p)
        PROVE  journal' = journal
    BY <2>2 DEF Start, Report
  <2>3. CASE Cancel
    BY <1>1, <2>3 DEF Cancel, TypeOK
  <2>. QED
    BY <1>1, <2>1, <2>2, <2>3, SafeSave, JournalFrame
<1>3. journal'.snap \in Snapshot
  BY <1>1 DEF TypeOK
<1>. QED
  BY <1>1, <1>2, <1>3, SnapGrows

(* Nothing is passed or counted before the first step.                     *)
LEMMA ProgressInit == Init => ProgressInv
<1>. SUFFICES ASSUME Init
              PROVE  ProgressInv
  OBVIOUS
<1>1. IInv /\ TypeOK /\ Served \in RecordSets /\ Kept \in RecordSets
  BY InvInit, ViewsTyped DEF IInv
<1>2. \A r \in Routes : \A x \in Records :
        writes[r][x] = 0 /\ ledger[r][x] = NoRow /\ ~IsTerminal(ledger[r][x])
  BY DEF Init, NoRow, IsTerminal, Terminal
<1>3. OnlyCandidates /\ LedgerBacked
  BY <1>2 DEF OnlyCandidates, LedgerBacked
<1>4. journal.snap = EmptySnapshot
  BY DEF Init
<1>5. ASSUME NEW p \in Procs
      PROVE  ProcSafe(p)
  <2>1. /\ snap[p] = EmptySnapshot /\ work[p].nextCp = [r \in Routes |-> 0]
        /\ pc[p] \notin InPage
    BY DEF Init, NoWork, NewBatch, InPage
  <2>. QED
    BY <1>1, <2>1, EmptySafe DEF ProcSafe, WorkSafe
<1>. QED
  BY <1>1, <1>3, <1>4, <1>5, EmptySafe DEF ProgressInv

(* Every step of a process and of its environment keeps it.                *)
LEMMA ProgressNext == ProgressInv /\ [Next]_vars => ProgressInv'
<1>. SUFFICES ASSUME ProgressInv, [Next]_vars
              PROVE  ProgressInv'
  OBVIOUS
<1>1. IInv /\ IInv' /\ TypeOK
  BY InvNext DEF ProgressInv, IInv
<1>2. ASSUME NEW p \in Procs, Start(p) \/ Step(p) \/ Crash(p)
      PROVE  ProcSafe(p)'
  BY <1>1, <1>2, SafeEnds, SafeSave, SafeSkips, SafeReads, SafeWrites, SafeLinks,
     SafePersist, SafeCounts, SafeFinish DEF Step, Ends
<1>3. ASSUME NEW q \in Procs
      PROVE  ProcSafe(q)'
  <2>1. ProcSafe(q)
    BY DEF ProgressInv
  <2>2. CASE Environment \/ UNCHANGED vars
    <3>1. pc' = pc /\ snap' = snap /\ work' = work
      BY <2>2 DEF Environment, Cancel, SourceInsert, SourceDelete, vars
    <3>. QED
      BY <1>1, <2>1, <3>1, SafeUntouched
  <2>3. ASSUME NEW p \in Procs, Start(p) \/ Step(p) \/ Crash(p)
        PROVE  ProcSafe(q)'
    <3>1. CASE p = q
      BY <1>2, <2>3, <3>1
    <3>2. CASE p # q
      <4>1. pc'[q] = pc[q] /\ snap'[q] = snap[q] /\ work'[q] = work[q]
        BY <1>1, <2>3, <3>2, StepFrame
      <4>. QED
        BY <1>1, <2>1, <4>1, SafeUntouched
    <3>. QED
      BY <3>1, <3>2
  <2>. QED
    BY <2>2, <2>3 DEF Next
<1>. QED
  BY <1>1, <1>3, WrittenNext, JournalSafe DEF ProgressInv

(* The progress invariant holds in every reachable state of apply.         *)
LEMMA ProgressInvariance == Spec => []ProgressInv
BY ProgressInit, ProgressNext, PTL DEF Spec

(* What the invariant says of the checkpoints and of the counters.         *)
LEMMA ProgressMeans ==
    ASSUME ProgressInv
    PROVE  CheckpointSafe /\ CountsSound
<1>1. \A s \in Snapshots : SnapSafe(s, Served, Kept)
  BY DEF ProgressInv, ProcSafe, Snapshots
<1>2. \A p \in Procs : Passed(work[p].nextCp, Served, Kept)
  BY DEF ProgressInv, ProcSafe, WorkSafe
<1>3. CheckpointSafe
  <2>1. ASSUME NEW r \in Routes, NEW x \in candidates[r] \cap source[r], NEW cp,
               Passed(cp, Served, Kept), x <= cp[r]
        PROVE  IsTerminal(ledger[r][x])
    BY <2>1 DEF Passed, Served, Kept, TerminalIds
  <2>. QED
    BY <1>1, <1>2, <2>1 DEF CheckpointSafe, SnapSafe
<1>4. CountsSound
  BY <1>1 DEF CountsSound, SnapSafe, Counted, Kept
<1>. QED
  BY <1>3, <1>4

(* What an apply leaves behind is settled: a checkpoint, live or saved,    *)
(* passes no approved record the source still serves that lacks a terminal *)
(* row, a batch without leftovers has completed the routes it passed, and  *)
(* nothing outside the approved set is written or recorded; for any number *)
(* of processes, page sizes, crashes, retries and source changes.          *)
THEOREM CheckpointsAreSafe == Spec => []ProgressTrue
<1>1. ProgressInv => ProgressTrue
  BY ProgressMeans DEF ProgressInv, IInv, ProgressTrue
<1>. QED
  BY <1>1, ProgressInvariance, PTL

(* Two processes that apply the same run at once break none of it: applied *)
(* means covered, checkpoints stay safe and no counter exceeds the ledger. *)
THEOREM SharedRunsStayTrue == Spec => []SharedRunTrue
<1>1. ProgressInv => SharedRunTrue
  BY ProgressMeans DEF ProgressInv, IInv, SharedRunTrue
<1>. QED
  BY <1>1, ProgressInvariance, PTL

(* A terminal row is evidence of a write that took effect, and no counter, *)
(* live or saved, exceeds the terminal rows of the approved records.       *)
THEOREM ReportsAreBacked == Spec => [](LedgerBacked /\ CountsSound)
<1>1. ProgressInv => LedgerBacked /\ CountsSound
  BY ProgressMeans DEF ProgressInv
<1>. QED
  BY <1>1, ProgressInvariance, PTL

-----------------------------------------------------------------------------
(* Failures.  A record reported as failed lies ahead of every checkpoint   *)
(* and on a route that is not completed, so it is judged anew before the   *)
(* run can complete.                                                       *)

FailedAhead(s, cp, served) ==
    \A r \in Routes : \A x \in s.failed[r] \cap served[r] : cp[r] < x
FailedSafe(s, cand, served) ==
    /\ FailedAhead(s, s.cp, served)
    /\ \A r \in Routes : s.failed[r] \subseteq cand[r]
    /\ \A r \in s.completed : s.failed[r] \cap served[r] = {}

(* A page holds every served record from the checkpoint up to its last     *)
(* one, or to the end of the source, and no record before the checkpoint.  *)
PageRead(page, r, s, place, cand, served) ==
    /\ r \notin s.completed /\ page.ids \subseteq cand[r]
    /\ \A x \in page.ids : s.cp[r] < x /\ x <= page.last
    /\ \A x \in served[r] : x <= page.last \/ ~page.more => x \in page.ids \/ x <= s.cp[r]
    /\ page.terminalCursor \in page.ids \cup {s.cp[r]}
    /\ place # "finish" => page.terminalCursor = s.cp[r]
    /\ place = "finish" =>
         /\ page.failed \subseteq page.ids /\ s.failed[r] \cap page.ids \subseteq page.failed
         /\ \A y \in page.failed : page.terminalCursor < y
ProcRead(p) ==
    /\ FailedSafe(snap[p], candidates, Served)
    /\ FailedAhead(snap[p], work[p].nextCp, Served)
    /\ pc[p] \in InPage =>
         PageRead(work[p].page, Current(p), snap[p], pc[p], candidates, Served)
PageInv ==
    /\ ProgressInv
    /\ FailedSafe(journal.snap, candidates, Served)
    /\ journal.status = "completed" => Routes \subseteq journal.snap.completed
    /\ \A p \in Procs : ProcRead(p)

(* The source of the approved records only shrinks.                        *)
LEMMA FailedShrinks ==
    ASSUME NEW served, NEW newServed, \A r \in Routes : newServed[r] \subseteq served[r],
           NEW s \in Snapshot, NEW cand
    PROVE  /\ FailedSafe(s, cand, served) => FailedSafe(s, cand, newServed)
           /\ \A cp : FailedAhead(s, cp, served) => FailedAhead(s, cp, newServed)
BY DEF FailedSafe, FailedAhead, Snapshot

(* A page read from a source that since lost records still holds all that  *)
(* the source serves.                                                      *)
LEMMA PageShrinks ==
    ASSUME NEW served, NEW newServed, NEW r, newServed[r] \subseteq served[r],
           NEW page, NEW s, NEW place, NEW cand,
           PageRead(page, r, s, place, cand, served)
    PROVE  PageRead(page, r, s, place, cand, newServed)
BY DEF PageRead

(* What a step starts from.                                                *)
LEMMA ReadViews ==
    ASSUME PageInv, [Next]_vars
    PROVE  /\ ProgressInv /\ ProgressInv' /\ IInv /\ TypeOK /\ TypeOK' /\ BatchCovered
           /\ candidates' = candidates
           /\ \A r \in Routes : Served'[r] \subseteq Served[r]
           /\ Served \in RecordSets
           /\ \A p \in Procs : ProcRead(p) /\ snap[p] \in Snapshot /\ snap'[p] \in Snapshot
<1>1. ProgressInv /\ IInv /\ TypeOK /\ BatchCovered
  BY DEF PageInv, ProgressInv, IInv
<1>2. ProgressInv'
  BY <1>1, ProgressNext
<1>3. TypeOK'
  BY <1>2 DEF ProgressInv, IInv
<1>4. candidates' = candidates /\ \A r \in Routes : Served'[r] \subseteq Served[r]
  BY <1>1, ViewsGrow DEF Grown
<1>5. ASSUME NEW p \in Procs
      PROVE  ProcRead(p) /\ snap[p] \in Snapshot /\ snap'[p] \in Snapshot
  BY <1>1, <1>3 DEF PageInv, TypeOK
<1>. QED
  BY <1>1, <1>2, <1>3, <1>4, <1>5, ViewsTyped

(* A step of another process or of the environment.                        *)
LEMMA ReadUntouched ==
    ASSUME PageInv, [Next]_vars, NEW q \in Procs,
           pc'[q] = pc[q], snap'[q] = snap[q], work'[q] = work[q]
    PROVE  ProcRead(q)'
<1>1. /\ TypeOK /\ BatchCovered /\ candidates' = candidates /\ ProcRead(q) /\ snap[q] \in Snapshot
      /\ \A r \in Routes : Served'[r] \subseteq Served[r]
  BY ReadViews
<1>2. FailedSafe(snap[q], candidates, Served') /\ FailedAhead(snap[q], work[q].nextCp, Served')
  BY <1>1, FailedShrinks DEF ProcRead
<1>3. ASSUME pc[q] \in InPage
      PROVE  PageRead(work[q].page, Current(q), snap[q], pc[q], candidates, Served')
  <2>1. Current(q) \in Routes
    BY <1>1, <1>3, CurrentRoute DEF InPage, BatchCovered, BatchCoveredBy
  <2>. QED
    BY <1>1, <1>3, <2>1, PageShrinks DEF ProcRead
<1>. QED
  BY <1>1, <1>2, <1>3 DEF ProcRead, Current

(* A step that leaves no page in work.                                     *)
LEMMA ReadOutside ==
    ASSUME PageInv, [Next]_vars, NEW p \in Procs,
           FailedSafe(snap'[p], candidates, Served),
           FailedAhead(snap'[p], work'[p].nextCp, Served),
           pc'[p] \notin InPage
    PROVE  ProcRead(p)'
<1>1. /\ candidates' = candidates /\ snap'[p] \in Snapshot
      /\ \A r \in Routes : Served'[r] \subseteq Served[r]
  BY ReadViews
<1>2. /\ FailedSafe(snap'[p], candidates, Served')
      /\ FailedAhead(snap'[p], work'[p].nextCp, Served')
  BY <1>1, FailedShrinks
<1>. QED
  BY <1>1, <1>2 DEF ProcRead

(* A step within a page.                                                   *)
LEMMA ReadInside ==
    ASSUME PageInv, [Next]_vars, NEW p \in Procs, Current(p) \in Routes,
           FailedSafe(snap'[p], candidates, Served),
           FailedAhead(snap'[p], work'[p].nextCp, Served),
           work'[p].route = work[p].route,
           PageRead(work'[p].page, Current(p), snap'[p], pc'[p], candidates, Served)
    PROVE  ProcRead(p)'
<1>1. /\ candidates' = candidates /\ snap'[p] \in Snapshot
      /\ \A r \in Routes : Served'[r] \subseteq Served[r]
  BY ReadViews
<1>2. /\ FailedSafe(snap'[p], candidates, Served')
      /\ FailedAhead(snap'[p], work'[p].nextCp, Served')
  BY <1>1, FailedShrinks
<1>3. PageRead(work'[p].page, Current(p), snap'[p], pc'[p], candidates, Served')
  BY <1>1, PageShrinks
<1>. QED
  BY <1>1, <1>2, <1>3 DEF ProcRead, Current

(* A snapshot whose checkpoints, failures and routes did not change.       *)
LEMMA SameFailed ==
    ASSUME NEW p \in Procs, ProcRead(p), KeepsMarks(p),
           snap'[p].completed = snap[p].completed
    PROVE  /\ FailedSafe(snap'[p], candidates, Served)
           /\ FailedAhead(snap'[p], work[p].nextCp, Served)
BY DEF ProcRead, FailedSafe, FailedAhead, KeepsMarks

(* An empty snapshot reports no failure and passes no record.              *)
LEMMA EmptyRead ==
    ASSUME TypeOK
    PROVE  /\ FailedSafe(EmptySnapshot, candidates, Served)
           /\ \A s \in Snapshot : FailedAhead(s, Zero, Served)
<1>1. \A r \in Routes : \A x \in Served[r] : 0 < x
  BY RecordsAssumption DEF TypeOK, Served, Records
<1>. QED
  BY <1>1 DEF FailedSafe, FailedAhead, EmptySnapshot, Zero

(* The steps that begin, end or abort an apply.                            *)
LEMMA ReadEnds ==
    ASSUME PageInv, [Next]_vars, NEW p \in Procs, Ends(p)
    PROVE  ProcRead(p)'
<1>1. TypeOK /\ ProcRead(p) /\ snap'[p] \in Snapshot /\ FailedSafe(journal.snap, candidates, Served)
  BY ReadViews DEF PageInv
<1>2. /\ FailedSafe(snap'[p], candidates, Served)
      /\ FailedAhead(snap'[p], work'[p].nextCp, Served)
  BY <1>1, EndsShape, EmptyRead DEF ProcRead
<1>. QED
  BY <1>1, <1>2, EndsShape, ReadOutside

(* The save of a batch.                                                    *)
LEMMA ReadSave ==
    ASSUME PageInv, [Next]_vars, NEW p \in Procs, SaveBatch(p)
    PROVE  ProcRead(p)' /\ FailedSafe(journal'.snap, candidates, Served)
<1>1. TypeOK /\ ProcRead(p) /\ snap'[p] \in Snapshot
  BY ReadViews
<1>2. FailedSafe(snap'[p], candidates, Served)
  BY <1>1, SaveShape DEF ProcRead, FailedSafe, FailedAhead
<1>3. FailedAhead(snap'[p], work'[p].nextCp, Served)
  BY <1>1, SaveShape, EmptyRead
<1>. QED
  BY <1>1, <1>2, <1>3, SaveShape, ReadOutside

(* The routes that are passed over, completed or without candidates.       *)
LEMMA ReadSkips ==
    ASSUME PageInv, [Next]_vars, NEW p \in Procs, SkipCompleted(p) \/ CompleteEmpty(p)
    PROVE  ProcRead(p)'
<1>1. TypeOK /\ ProcRead(p)
  BY ReadViews
<1>2. /\ Current(p) \in Routes /\ KeepsMarks(p) /\ work'[p].nextCp = work[p].nextCp
      /\ pc'[p] \notin InPage
  BY <1>1, SkipShape DEF InPage
<1>3. CASE snap'[p].completed = snap[p].completed
  BY <1>1, <1>2, <1>3, SameFailed, ReadOutside
<1>4. CASE /\ snap'[p].completed = snap[p].completed \cup {Current(p)}
           /\ candidates[Current(p)] = {}
  <2>1. FailedSafe(snap'[p], candidates, Served)
    <3>1. Served[Current(p)] = {}
      BY <1>2, <1>4 DEF Served
    <3>. QED
      BY <1>1, <1>2, <1>4, <3>1 DEF ProcRead, FailedSafe, FailedAhead, KeepsMarks
  <2>2. FailedAhead(snap'[p], work'[p].nextCp, Served)
    BY <1>1, <1>2 DEF ProcRead, FailedAhead, KeepsMarks
  <2>. QED
    BY <1>2, <2>1, <2>2, ReadOutside
<1>. QED
  BY <1>1, <1>3, <1>4, SkipShape

(* The page read is the keyset page after the checkpoint, cut to the       *)
(* approved records.                                                       *)
LEMMA ReadReads ==
    ASSUME PageInv, [Next]_vars, NEW p \in Procs, ReadPage(p)
    PROVE  ProcRead(p)'
<1>. DEFINE r == Current(p)
            page == work'[p].page
            cursor == snap[p].cp[r]
            read == PageOf(source[r], cursor, BatchSize)
<1>1. TypeOK /\ ProcRead(p) /\ snap[p] \in Snapshot
  BY ReadViews
<1>2. /\ r \in Routes /\ r \notin snap[p].completed
      /\ pc'[p] = "write" /\ KeepsMarks(p) /\ KeepsBatch(p)
      /\ snap'[p].completed = snap[p].completed
      /\ page.ids = read \cap candidates[r] /\ page.last = LastOf(read, cursor)
      /\ page.more = HasMore(source[r], cursor, BatchSize)
      /\ page.terminalCursor = cursor
  BY <1>1, ReadShape
<1>3. source[r] \in SUBSET Records /\ cursor \in Nat /\ candidates[r] \in SUBSET Records
  BY <1>1, <1>2 DEF TypeOK, Snapshot
<1>4. /\ read \subseteq source[r]
      /\ \A x \in read : x <= LastOf(read, cursor)
      /\ \A x \in source[r] : cursor < x /\ x <= LastOf(read, cursor) => x \in read
  BY <1>3, PageReads
<1>5. read \subseteq After(source[r], cursor) /\ (~page.more => read = After(source[r], cursor))
  <2>1. read \subseteq After(source[r], cursor)
    BY DEF PageOf
  <2>2. page.more = (read # After(source[r], cursor))
    BY <1>2 DEF HasMore
  <2>. QED
    BY <2>1, <2>2
<1>6. ASSUME NEW x \in Served[r], x <= LastOf(read, cursor) \/ ~page.more
      PROVE  x \in page.ids \/ x <= cursor
  <2>1. x \in source[r] /\ x \in candidates[r] /\ x \in Nat
    BY <1>2, <1>3, RecordsFinite DEF Served
  <2>2. cursor < x => x \in read
    BY <1>4, <1>5, <1>6, <2>1 DEF After
  <2>. QED
    BY <1>2, <1>3, <2>1, <2>2
<1>7. \A x \in page.ids : cursor < x /\ x <= LastOf(read, cursor)
  BY <1>2, <1>4, <1>5 DEF After
<1>8. snap'[p].cp = snap[p].cp /\ page.ids \subseteq candidates[r]
  BY <1>2 DEF KeepsMarks
<1>. HIDE DEF page, read, r
<1>9. PageRead(page, r, snap'[p], "write", candidates, Served)
  BY <1>2, <1>6, <1>7, <1>8 DEF PageRead
<1>. QED
  BY <1>1, <1>2, <1>9, SameFailed, ReadInside DEF page, r, KeepsBatch

(* What a process inside a page has read.                                  *)
LEMMA ReadFacts ==
    ASSUME PageInv, [Next]_vars, NEW p \in Procs, pc[p] \in InPage
    PROVE  /\ TypeOK /\ ProcRead(p) /\ Current(p) \in Routes
           /\ snap[p] \in Snapshot /\ work[p] \in Work /\ work[p].page \in Page
           /\ FailedSafe(snap[p], candidates, Served)
           /\ FailedAhead(snap[p], work[p].nextCp, Served)
           /\ PageRead(work[p].page, Current(p), snap[p], pc[p], candidates, Served)
<1>1. TypeOK /\ BatchCovered /\ ProcRead(p)
  BY ReadViews
<1>2. snap[p] \in Snapshot /\ work[p] \in Work /\ work[p].page \in Page
  BY <1>1 DEF TypeOK, Work
<1>3. Current(p) \in Routes
  BY <1>1, CurrentRoute DEF InPage, BatchCovered, BatchCoveredBy
<1>. QED
  BY <1>1, <1>2, <1>3 DEF ProcRead

(* Writing, linking and persisting leave the page as it was read.          *)
LEMMA ReadWrites ==
    ASSUME PageInv, [Next]_vars, NEW p \in Procs,
           \/ WriteRecords(p) \/ WriteFails(p) \/ WriteRetried(p)
           \/ LinkPage(p) \/ Persist(p)
    PROVE  ProcRead(p)'
<1>. DEFINE r == Current(p)
            old == work[p].page
            new == work'[p].page
<1>1. pc[p] \in {"write", "persist"} /\ pc[p] \in InPage
  BY DEF WriteRecords, WriteFails, WriteRetried, AtWrite, LinkPage, Persist, InPage
<1>2. TypeOK /\ ProcRead(p) /\ r \in Routes
      /\ PageRead(old, r, snap[p], pc[p], candidates, Served)
  BY <1>1, ReadFacts
<1>3. /\ KeepsMarks(p) /\ KeepsBatch(p) /\ snap'[p].completed = snap[p].completed
      /\ new.ids = old.ids /\ new.last = old.last /\ new.more = old.more
      /\ new.terminalCursor = old.terminalCursor /\ pc'[p] # "finish"
  <2>1. CASE WriteRecords(p) \/ WriteFails(p) \/ WriteRetried(p)
    BY <1>2, <2>1, WriteShape DEF KeepsMarks
  <2>2. CASE LinkPage(p)
    BY <1>2, <2>2, LinkShape DEF KeepsBatch
  <2>3. CASE Persist(p)
    BY <1>2, <2>3 DEF Persist, KeepsMarks, KeepsBatch, TypeOK
  <2>. QED
    BY <2>1, <2>2, <2>3
<1>. HIDE DEF r, old, new
<1>4. PageRead(new, r, snap'[p], pc'[p], candidates, Served)
  BY <1>1, <1>2, <1>3 DEF PageRead, KeepsMarks
<1>. QED
  BY <1>2, <1>3, <1>4, SameFailed, ReadInside DEF r, new, KeepsBatch

(* The page's failures replace what the report said of its records.  They  *)
(* have no terminal row, so no checkpoint has passed them.                 *)
LEMMA ReadCounts ==
    ASSUME PageInv, [Next]_vars, NEW p \in Procs, CountResults(p)
    PROVE  ProcRead(p)'
<1>. DEFINE r == Current(p)
            page == work[p].page
            new == work'[p].page
<1>1. pc[p] = "count" /\ pc[p] \in InPage
  BY DEF CountResults, InPage
<1>2. /\ TypeOK /\ ProcRead(p) /\ r \in Routes /\ snap[p] \in Snapshot /\ page \in Page
      /\ FailedSafe(snap[p], candidates, Served)
      /\ FailedAhead(snap[p], work[p].nextCp, Served)
      /\ PageRead(page, r, snap[p], "count", candidates, Served)
      /\ work[p].nextCp \in [Routes -> Nat]
  BY <1>1, ReadFacts DEF Work
<1>3. /\ pc'[p] = "finish" /\ KeepsBatch(p)
      /\ new.ids = page.ids /\ new.last = page.last /\ new.more = page.more
      /\ snap'[p].cp = snap[p].cp /\ snap'[p].completed = snap[p].completed
  BY <1>2, CountShape
<1>4. PICK failed, prefix :
        /\ Judged(page, failed, prefix, ledger, r)
        /\ new.failed = failed
        /\ new.terminalCursor = LastOf(prefix, page.terminalCursor)
        /\ snap'[p].migrated = [snap[p].migrated EXCEPT
             ![r] = @ + Cardinality(NewIds(page) \ failed)]
        /\ snap'[p].failed = [snap[p].failed EXCEPT
             ![r] = FailedAfter(@, page.ids, failed)]
  BY <1>2, CountShape
<1>5. PICK f : /\ f = FailedAfter(snap[p].failed[r], page.ids, failed)
               /\ snap'[p].failed = [snap[p].failed EXCEPT ![r] = f]
  BY <1>4
<1>6. /\ failed \subseteq page.ids /\ prefix \subseteq page.ids \ failed
      /\ \A x \in failed : ~IsTerminal(ledger[r][x])
      /\ \A x \in prefix : \A y \in failed : x < y
  BY <1>4 DEF Judged
<1>7. ASSUME NEW x \in failed \cap Served[r]
      PROVE  work[p].nextCp[r] < x
  <2>1. Passed(work[p].nextCp, Served, Kept)
    BY DEF PageInv, ProgressInv, ProcSafe, WorkSafe
  <2>2. x \notin Kept[r] /\ x \in Nat
    BY <1>2, <1>6, <1>7, RecordsFinite DEF Kept, TerminalIds, Page
  <2>3. ~(x <= work[p].nextCp[r])
    BY <1>2, <1>7, <2>1, <2>2 DEF Passed
  <2>. QED
    BY <1>2, <2>2, <2>3
<1>8. /\ f = (snap[p].failed[r] \ page.ids) \cup failed
      /\ \A q \in Routes : snap'[p].failed[q] = IF q = r THEN f ELSE snap[p].failed[q]
  BY <1>2, <1>5 DEF FailedAfter, Snapshot
<1>9. FailedAhead(snap'[p], snap'[p].cp, Served) /\ FailedAhead(snap'[p], work'[p].nextCp, Served)
  <2>1. \A x \in f \cap Served[r] : snap[p].cp[r] < x /\ work[p].nextCp[r] < x
    BY <1>2, <1>6, <1>7, <1>8 DEF FailedSafe, FailedAhead, PageRead
  <2>. QED
    BY <1>2, <1>3, <1>8, <2>1 DEF FailedSafe, FailedAhead, KeepsBatch
<1>10. FailedSafe(snap'[p], candidates, Served)
  <2>1. f \subseteq candidates[r] /\ r \notin snap[p].completed /\ snap[p].completed \subseteq Routes
    BY <1>2, <1>6, <1>8 DEF FailedSafe, PageRead, Snapshot
  <2>. QED
    BY <1>2, <1>3, <1>8, <1>9, <2>1 DEF FailedSafe
<1>11. /\ LastOf(prefix, page.terminalCursor) \in page.ids \cup {snap[p].cp[r]}
       /\ \A y \in failed : LastOf(prefix, page.terminalCursor) < y
  <2>1. prefix \in SUBSET Records
    BY <1>2, <1>6 DEF Page
  <2>2. PICK last : last = LastOf(prefix, page.terminalCursor)
    OBVIOUS
  <2>3. last \in prefix \cup {page.terminalCursor}
    BY <2>1, <2>2, LastOfIn
  <2>4. CASE last \in prefix
    BY <1>6, <2>2, <2>4
  <2>5. CASE last = page.terminalCursor
    <3>1. last = snap[p].cp[r]
      BY <1>2, <2>5 DEF PageRead
    <3>. QED
      BY <1>2, <1>6, <2>2, <3>1 DEF PageRead
  <2>. QED
    BY <2>3, <2>4, <2>5
<1>12. snap'[p].failed[r] \cap page.ids \subseteq failed
  BY <1>2, <1>6, <1>8
<1>. HIDE DEF r, page, new
<1>13. PageRead(new, r, snap'[p], "finish", candidates, Served)
  BY <1>2, <1>3, <1>4, <1>6, <1>11, <1>12 DEF PageRead
<1>. QED
  BY <1>2, <1>3, <1>9, <1>10, <1>13, ReadInside DEF r, new, KeepsBatch

(* The next checkpoint stays behind every failure, and a route completes   *)
(* only when its last page has judged everything that was left.            *)
LEMMA ReadFinish ==
    ASSUME PageInv, [Next]_vars, NEW p \in Procs, FinishRoute(p)
    PROVE  ProcRead(p)'
<1>. DEFINE r == Current(p)
            page == work[p].page
            cp == NextCheckpoint(page)
            s == snap[p]
<1>1. pc[p] = "finish" /\ pc[p] \in InPage
  BY DEF FinishRoute, InPage
<1>2. /\ TypeOK /\ ProcRead(p) /\ r \in Routes /\ s \in Snapshot /\ page \in Page
      /\ FailedSafe(s, candidates, Served) /\ FailedAhead(s, work[p].nextCp, Served)
      /\ PageRead(page, r, s, "finish", candidates, Served)
      /\ work[p].nextCp \in [Routes -> Nat]
  BY <1>1, ReadFacts DEF Work
<1>3. /\ pc'[p] \notin InPage /\ KeepsMarks(p)
      /\ work'[p].nextCp = [work[p].nextCp EXCEPT ![r] = cp]
      /\ \/ snap'[p].completed = s.completed
         \/ /\ snap'[p].completed = s.completed \cup {r}
            /\ page.failed = {} /\ ~page.more
  BY <1>2, FinishShape DEF InPage
<1>4. ASSUME NEW x \in s.failed[r] \cap Served[r]
      PROVE  /\ x \in page.ids => x \in page.failed
             /\ x \notin page.ids => page.more /\ page.last < x
             /\ s.cp[r] < x
             /\ x \in Nat \ {0} /\ page.last \in Nat /\ page.terminalCursor \in Nat
             /\ s.cp[r] \in Nat
  <2>1. x \in Nat \ {0} /\ page.last \in Nat /\ page.terminalCursor \in Nat /\ s.cp[r] \in Nat
    BY <1>2, RecordsAssumption DEF TypeOK, Served, Records, Page, Snapshot
  <2>2. s.cp[r] < x
    BY <1>2 DEF FailedSafe, FailedAhead
  <2>. HIDE DEF s, page, r
  <2>3. x \in page.ids => x \in page.failed
    BY <1>2 DEF PageRead
  <2>4. x \notin page.ids => page.more /\ page.last < x
    BY <1>2, <2>1, <2>2 DEF PageRead
  <2>. QED
    BY <2>1, <2>2, <2>3, <2>4
<1>5. ASSUME NEW x \in s.failed[r] \cap Served[r]
      PROVE  cp < x
  <2>1. CASE page.failed # {}
    <3>1. cp = page.terminalCursor
      BY <2>1 DEF NextCheckpoint
    <3>2. CASE x \in page.ids
      BY <1>2, <1>4, <3>1, <3>2 DEF PageRead
    <3>3. CASE x \notin page.ids
      <4>1. page.terminalCursor \in page.ids \cup {s.cp[r]}
            /\ \A y \in page.ids : y <= page.last
        BY <1>2 DEF PageRead
      <4>2. page.terminalCursor = s.cp[r] \/ page.terminalCursor <= page.last
        BY <4>1
      <4>. QED
        BY <1>4, <3>1, <3>3, <4>2
    <3>. QED
      BY <3>2, <3>3
  <2>2. CASE page.failed = {} /\ page.more
    BY <1>4, <2>2 DEF NextCheckpoint
  <2>3. CASE page.failed = {} /\ ~page.more
    BY <1>4, <2>3 DEF NextCheckpoint
  <2>. QED
    BY <2>1, <2>2, <2>3
<1>6. page.failed = {} /\ ~page.more => s.failed[r] \cap Served[r] = {}
  BY <1>4
<1>. HIDE DEF cp, r, page
<1>7. FailedSafe(snap'[p], candidates, Served)
  BY <1>2, <1>3, <1>6 DEF FailedSafe, FailedAhead, KeepsMarks
<1>8. FailedAhead(snap'[p], work'[p].nextCp, Served)
  BY <1>2, <1>3, <1>5 DEF FailedAhead, KeepsMarks
<1>. QED
  BY <1>3, <1>7, <1>8, ReadOutside

-----------------------------------------------------------------------------
(* The invariant of the failures and its theorem.                          *)

(* The journal takes over a snapshot that is ahead of its failures, and    *)
(* says "completed" only of one whose routes are all completed.            *)
LEMMA JournalRead ==
    ASSUME PageInv, [Next]_vars
    PROVE  /\ FailedSafe(journal'.snap, candidates, Served)
           /\ journal'.status = "completed" => Routes \subseteq journal'.snap.completed
<1>1. TypeOK /\ IInv /\ BatchCovered
  BY ReadViews
<1>2. CASE journal' = journal
  BY <1>2 DEF PageInv
<1>3. CASE Cancel
  BY <1>1, <1>3 DEF Cancel, TypeOK, PageInv
<1>4. ASSUME NEW p \in Procs, SaveFailed(p)
      PROVE  journal'.snap = snap[p] /\ journal'.status # "completed"
  BY <1>4 DEF SaveFailed, Save
<1>5. ASSUME NEW p \in Procs, SaveBatch(p), journal'.status = "completed"
      PROVE  Routes \subseteq journal'.snap.completed
  <2>1. /\ journal'.snap.completed = snap[p].completed /\ ~work[p].hasMore
    BY <1>1, <1>5, SaveShape
  <2>2. Len(RouteOrder) \in Nat /\ work[p].route = Len(RouteOrder) + 1 /\ pc[p] = "route"
    BY <1>1, <1>5, RoutesAssumption DEF SaveBatch, TypeOK, Work
  <2>3. \A i \in 1 .. Len(RouteOrder) : RouteOrder[i] \in snap[p].completed
    BY <1>1, <2>1, <2>2 DEF BatchCovered, BatchCoveredBy
  <2>. QED
    BY <2>1, <2>3 DEF Routes
<1>6. ASSUME NEW p \in Procs, Start(p) \/ Report(p)
      PROVE  journal' = journal
  BY <1>6 DEF Start, Report
<1>. QED
  BY <1>2, <1>3, <1>4, <1>5, <1>6, ReadSave, JournalFrame DEF PageInv, ProcRead

(* Nothing has failed before the first step.                               *)
LEMMA PageInit == Init => PageInv
<1>. SUFFICES ASSUME Init
              PROVE  PageInv
  OBVIOUS
<1>1. ProgressInv /\ TypeOK
  BY ProgressInit DEF ProgressInv, IInv
<1>2. journal.snap = EmptySnapshot /\ journal.status # "completed"
  BY DEF Init
<1>3. ASSUME NEW p \in Procs
      PROVE  ProcRead(p)
  <2>1. /\ snap[p] = EmptySnapshot /\ work[p].nextCp = Zero /\ pc[p] \notin InPage
        /\ snap[p] \in Snapshot
    BY <1>1 DEF Init, NoWork, NewBatch, InPage, Zero, TypeOK
  <2>. QED
    BY <1>1, <2>1, EmptyRead DEF ProcRead
<1>. QED
  BY <1>1, <1>2, <1>3, EmptyRead DEF PageInv

(* Every step of a process and of its environment keeps it.                *)
LEMMA PageNext == PageInv /\ [Next]_vars => PageInv'
<1>. SUFFICES ASSUME PageInv, [Next]_vars
              PROVE  PageInv'
  OBVIOUS
<1>1. /\ IInv /\ TypeOK /\ TypeOK' /\ ProgressInv' /\ candidates' = candidates
      /\ \A r \in Routes : Served'[r] \subseteq Served[r]
  BY ReadViews
<1>2. ASSUME NEW p \in Procs, Start(p) \/ Step(p) \/ Crash(p)
      PROVE  ProcRead(p)'
  BY <1>2, ReadEnds, ReadSave, ReadSkips, ReadReads, ReadWrites, ReadCounts, ReadFinish
  DEF Step, Ends
<1>3. ASSUME NEW q \in Procs
      PROVE  ProcRead(q)'
  <2>1. CASE Environment \/ UNCHANGED vars
    <3>1. pc' = pc /\ snap' = snap /\ work' = work
      BY <2>1 DEF Environment, Cancel, SourceInsert, SourceDelete, vars
    <3>. QED
      BY <3>1, ReadUntouched
  <2>2. ASSUME NEW p \in Procs, Start(p) \/ Step(p) \/ Crash(p)
        PROVE  ProcRead(q)'
    <3>1. CASE p = q
      BY <1>2, <2>2, <3>1
    <3>2. CASE p # q
      <4>1. pc'[q] = pc[q] /\ snap'[q] = snap[q] /\ work'[q] = work[q]
        BY <1>1, <2>2, <3>2, StepFrame
      <4>. QED
        BY <4>1, ReadUntouched
    <3>. QED
      BY <3>1, <3>2
  <2>. QED
    BY <2>1, <2>2 DEF Next
<1>4. journal'.snap \in Snapshot
  BY <1>1 DEF TypeOK
<1>5. FailedSafe(journal'.snap, candidates, Served')
  BY <1>1, <1>4, JournalRead, FailedShrinks
<1>. QED
  BY <1>1, <1>3, <1>5, JournalRead DEF PageInv

(* The invariant of failures holds in every reachable state.               *)
LEMMA PageInvariance == Spec => []PageInv
BY PageInit, PageNext, PTL DEF Spec

(* A completed run reports no record the source still serves as failed,    *)
(* for any number of processes, crashes, retries and source changes: a     *)
(* failure lies ahead of every checkpoint until its record went through.   *)
THEOREM CompletedRunsReportNoStaleFailure == Spec => []NoStaleFailure
<1>1. ASSUME PageInv, journal.status = "completed", NEW r \in Routes
      PROVE  journal.snap.failed[r] \cap source[r] = {}
  <2>1. /\ journal.snap.failed[r] \cap Served[r] = {}
        /\ journal.snap.failed[r] \subseteq candidates[r]
    BY <1>1 DEF PageInv, FailedSafe
  <2>. QED
    BY <2>1 DEF Served
<1>2. PageInv => NoStaleFailure
  BY <1>1 DEF NoStaleFailure
<1>. QED
  BY <1>2, PageInvariance, PTL

-----------------------------------------------------------------------------
(* One process at a time.  What follows assumes that no two processes      *)
(* apply the run at once, as the terminal and the CLI use it.              *)

OneAtATime == \A p, q \in Procs : p = q

(* Between its claim and its save a process works on an unfinished run,    *)
(* and until its rows land the ledger knows of its page what it looked up. *)
Busy == InPage \cup {"route", "abort"}
SoloPage(page, r, place, kept) ==
    /\ place \in {"write", "persist"} => page.ids \cap kept[r] \subseteq page.already
    /\ page.already \subseteq DOMAIN page.out
    /\ \A x \in page.already : page.out[x].status # "failed"
    /\ place = "count" =>
         \A x \in page.ids : page.out[x].status = "failed" => x \notin kept[r]
SoloProc(p) ==
    /\ pc[p] \in Busy => journal.status # "completed"
    /\ pc[p] \in InPage => SoloPage(work[p].page, Current(p), pc[p], Kept)
SoloInv == ProgressInv /\ (OneAtATime => \A p \in Procs : SoloProc(p))

(* A step of the only process, or a step that leaves it alone.             *)
LEMMA SoloSteps ==
    ASSUME OneAtATime, [Next]_vars, NEW q \in Procs
    PROVE  \/ Start(q) \/ Step(q) \/ Crash(q)
           \/ /\ Environment \/ UNCHANGED vars
              /\ pc' = pc /\ snap' = snap /\ work' = work
BY DEF OneAtATime, Next, Environment, Cancel, SourceInsert, SourceDelete, vars

(* A process that is busy after its step works on an unfinished run.       *)
LEMMA SoloBusy ==
    ASSUME OneAtATime, SoloInv, [Next]_vars, NEW p \in Procs, pc'[p] \in Busy
    PROVE  journal'.status # "completed"
<1>1. SoloProc(p) /\ TypeOK
  BY DEF SoloInv, ProgressInv, IInv
<1>2. CASE Start(p) \/ Load(p) \/ SaveFailed(p) \/ Report(p) \/ Crash(p)
  BY <1>1, <1>2 DEF Start, Load, SaveFailed, Report, Crash, Return, TypeOK, Busy, InPage
<1>3. CASE Claim(p)
  BY <1>1, <1>3 DEF Claim, Return, TypeOK, Busy, InPage, durable
<1>4. CASE SaveBatch(p)
  BY <1>1, <1>4, SaveShape DEF Busy, InPage
<1>5. CASE SkipCompleted(p) \/ CompleteEmpty(p) \/ ReadFails(p)
  BY <1>1, <1>5 DEF SkipCompleted, CompleteEmpty, ReadFails, MustRead, AtRoute, SoloProc,
     Busy, durable
<1>6. CASE ReadPage(p)
  BY <1>1, <1>6, ReadShape DEF SoloProc, Busy
<1>7. CASE WriteRecords(p) \/ WriteFails(p) \/ WriteRetried(p)
  BY <1>1, <1>7 DEF WriteRecords, WriteFails, WriteRetried, Dispatch, AtWrite, SoloProc,
     Busy, InPage, durable
<1>8. CASE LinkPage(p)
  BY <1>1, <1>8 DEF LinkPage, SoloProc, Busy, InPage, durable
<1>9. CASE Persist(p) \/ PersistShort(p)
  BY <1>1, <1>9 DEF Persist, PersistShort, SoloProc, Busy, InPage
<1>10. CASE CountResults(p)
  BY <1>1, <1>10 DEF CountResults, SoloProc, Busy, InPage, durable
<1>11. CASE FinishRoute(p)
  BY <1>1, <1>11 DEF FinishRoute, SoloProc, Busy, InPage, durable
<1>12. CASE (Environment \/ UNCHANGED vars) /\ pc' = pc
  <2>1. journal' = journal \/ journal'.status = "cancelled"
    BY <1>1, <1>12 DEF Environment, Cancel, SourceInsert, SourceDelete, vars, durable, TypeOK
  <2>. QED
    BY <1>1, <1>12, <2>1 DEF SoloProc
<1>. QED
  BY <1>2, <1>3, <1>4, <1>5, <1>6, <1>7, <1>8, <1>9, <1>10, <1>11, <1>12, SoloSteps DEF Step

(* What the only process knows of its page stays true in its steps.        *)
LEMMA SoloPages ==
    ASSUME OneAtATime, SoloInv, [Next]_vars, NEW p \in Procs, pc'[p] \in InPage
    PROVE  SoloPage(work[p].page, Current(p), pc[p], Kept)'
<1>. DEFINE r == Current(p)
            old == work[p].page
            new == work'[p].page
<1>1. /\ SoloProc(p) /\ ProgressInv /\ TypeOK /\ IInv /\ IInv' /\ candidates' = candidates
  BY InvNext, ViewsGrow DEF SoloInv, ProgressInv, IInv
<1>2. CASE Ends(p) \/ SkipCompleted(p) \/ CompleteEmpty(p) \/ SaveBatch(p) \/ FinishRoute(p)
  <2>1. FinishRoute(p) => pc'[p] = "route"
    BY <1>1, PageFacts, FinishShape DEF FinishRoute, InPage
  <2>. QED
    BY <1>1, <1>2, <2>1, EndsShape, SkipShape, SaveShape DEF InPage
<1>3. CASE ReadPage(p)
  <2>1. /\ pc'[p] = "write" /\ work'[p].route = work[p].route /\ ledger' = ledger
        /\ new.already = TerminalIds(ledger, r, new.ids) /\ new.ids \subseteq candidates[r]
        /\ new.already \subseteq DOMAIN new.out
        /\ \A x \in DOMAIN new.out :
             new.out[x].status = IF x \in new.already THEN "skipped" ELSE "failed"
    BY <1>1, <1>3, ReadShape DEF KeepsBatch
  <2>2. Kept' = Kept /\ RouteOrder[work'[p].route] = r /\ r \in Routes
    BY <1>1, <1>3, <2>1, ReadShape DEF Kept, Current
  <2>3. new.ids \cap Kept[r] \subseteq new.already
    BY <2>1, <2>2 DEF Kept, TerminalIds
  <2>. HIDE DEF new, r
  <2>. QED
    BY <2>1, <2>2, <2>3 DEF SoloPage, new, Current
<1>4. ASSUME pc[p] \in InPage
      PROVE  r \in Routes /\ SoloPage(old, r, pc[p], Kept)
  BY <1>1, <1>4, PageFacts DEF SoloProc
<1>5. CASE WriteRecords(p) \/ WriteFails(p) \/ WriteRetried(p)
  <2>1. pc[p] = "write" /\ pc[p] \in InPage
    BY <1>5 DEF WriteRecords, WriteFails, WriteRetried, AtWrite, InPage
  <2>2. /\ pc' = pc /\ work'[p].route = work[p].route /\ ledger' = ledger
        /\ new.ids = old.ids /\ new.already = old.already
        /\ DOMAIN old.out \subseteq DOMAIN new.out
        /\ \A x \in DOMAIN old.out : new.out[x] = old.out[x]
    BY <1>1, <1>4, <1>5, <2>1, WriteShape DEF KeepsBatch
  <2>3. Kept' = Kept /\ RouteOrder[work'[p].route] = r
    BY <1>1, <2>2 DEF Kept, Current
  <2>. HIDE DEF new, old, r
  <2>. QED
    BY <1>4, <2>1, <2>2, <2>3 DEF SoloPage, new, Current
<1>6. CASE LinkPage(p)
  <2>1. pc[p] = "write" /\ pc[p] \in InPage
    BY <1>6 DEF LinkPage, InPage
  <2>2. pc'[p] = "persist" /\ work' = work /\ ledger' = ledger
    BY <1>1, <1>4, <1>6, <2>1, LinkShape
  <2>3. Kept' = Kept
    BY <1>1, <2>2 DEF Kept
  <2>. QED
    BY <1>4, <2>1, <2>2, <2>3 DEF SoloPage, Current
<1>7. CASE Persist(p)
  <2>1. pc[p] = "persist" /\ pc[p] \in InPage
    BY <1>7 DEF Persist, InPage
  <2>2. /\ pc'[p] = "count" /\ work' = work /\ old \in Page
        /\ ledger' = UpsertResults(ledger, r, NewIds(old), old.out)
        /\ old.ids \subseteq candidates[r]
    BY <1>1, <1>7, <2>1, PageFacts DEF Persist, TypeOK, PageSafe
  <2>3. ASSUME NEW x \in old.ids, old.out[x].status = "failed"
        PROVE  x \notin Kept'[r]
    <3>1. x \notin old.already /\ x \in Records /\ x \in NewIds(old)
      BY <1>4, <2>1, <2>2, <2>3 DEF SoloPage, Page, NewIds
    <3>2. ~IsTerminal(ledger[r][x])
      BY <1>4, <2>1, <2>2, <3>1 DEF SoloPage, Kept, TerminalIds
    <3>3. ledger'[r][x] = Merge(ledger[r][x], old.out[x])
      BY <1>1, <1>4, <2>1, <2>2, <3>1 DEF UpsertResults, TypeOK
    <3>4. ~IsTerminal(ledger'[r][x])
      BY <2>3, <3>2, <3>3 DEF Merge, IsTerminal, Terminal
    <3>. QED
      BY <1>4, <2>1, <3>4 DEF Kept, TerminalIds
  <2>. HIDE DEF old, r
  <2>. QED
    BY <1>4, <2>1, <2>2, <2>3 DEF SoloPage, old, r, Current
<1>8. CASE CountResults(p)
  <2>1. pc[p] = "count" /\ pc[p] \in InPage
    BY <1>8 DEF CountResults, InPage
  <2>2. /\ pc'[p] = "finish" /\ new.already = old.already /\ new.out = old.out
    BY <1>1, <1>4, <1>8, <2>1, CountShape
  <2>. QED
    BY <1>4, <2>1, <2>2 DEF SoloPage
<1>9. CASE (Environment \/ UNCHANGED vars) /\ pc' = pc /\ work' = work
  <2>1. ledger' = ledger
    BY <1>9 DEF Environment, Cancel, SourceInsert, SourceDelete, vars, durable
  <2>2. Kept' = Kept
    BY <1>1, <2>1 DEF Kept
  <2>. QED
    BY <1>4, <1>9, <2>2 DEF Current
<1>. QED
  BY <1>2, <1>3, <1>5, <1>6, <1>7, <1>8, <1>9, SoloSteps DEF Step, Ends

(* Every step keeps the invariant of the only process.                     *)
LEMMA SoloNext == SoloInv /\ [Next]_vars => SoloInv'
<1>. SUFFICES ASSUME SoloInv, [Next]_vars
              PROVE  SoloInv'
  OBVIOUS
<1>1. ASSUME OneAtATime, NEW p \in Procs
      PROVE  SoloProc(p)'
  BY <1>1, SoloBusy, SoloPages DEF SoloProc
<1>. QED
  BY <1>1, ProgressNext DEF SoloInv

(* It holds in every reachable state.                                      *)
LEMMA SoloInvariance == Spec => []SoloInv
<1>1. Init => SoloInv
  BY ProgressInit DEF Init, SoloInv, SoloProc, Busy, InPage
<1>. QED
  BY <1>1, SoloNext, PTL DEF Spec

(* A destination write is of a record of the page that is not terminal.    *)
LEMMA SoloWrites ==
    ASSUME OneAtATime, SoloInv, [Next]_vars, NEW r \in Routes, NEW x \in Records,
           writes'[r][x] # writes[r][x]
    PROVE  /\ x \in candidates[r] /\ ~IsTerminal(ledger[r][x]) /\ writes'[r][x] > 0
           /\ journal.status # "completed"
           /\ UNCHANGED <<candidates, ledger, journal>>
<1>1. TypeOK /\ ProgressInv /\ IInv'
  BY InvNext DEF SoloInv, ProgressInv, IInv
<1>2. PICK p \in Procs : WriteRecords(p) \/ WriteFails(p) \/ WriteRetried(p)
  BY ViewsFrame
<1>3. pc[p] = "write" /\ pc[p] \in InPage /\ pc[p] \in Busy
  BY <1>2 DEF WriteRecords, WriteFails, WriteRetried, AtWrite, InPage, Busy
<1>4. /\ r = Current(p) /\ x \in work[p].page.ids /\ x \notin DOMAIN work[p].page.out
      /\ writes'[r][x] = writes[r][x] + 1 /\ writes[r][x] \in Nat
  BY <1>1, <1>2, WritesPlus DEF Unwritten, TypeOK
<1>5. /\ work[p].page.ids \subseteq candidates[r] /\ UNCHANGED <<candidates, ledger, journal>>
  BY <1>1, <1>2, <1>3, <1>4, PageFacts, WriteShape DEF PageSafe
<1>6. SoloPage(work[p].page, r, "write", Kept) /\ journal.status # "completed"
  BY <1>3, <1>4 DEF SoloInv, SoloProc
<1>7. x \notin Kept[r]
  BY <1>4, <1>6 DEF SoloPage
<1>. QED
  BY <1>4, <1>5, <1>6, <1>7 DEF Kept, TerminalIds

(* A record with a terminal row is never written again, over any number of *)
(* crashes, re-applies, retries and failed pages of one process at a time. *)
THEOREM TerminalRecordsAreNotRewritten ==
    ASSUME OneAtATime
    PROVE  Spec => NoRewriteOfTerminal
<1>1. ASSUME SoloInv, [Next]_vars
      PROVE  \A r \in Routes : \A x \in Records :
               IsTerminal(ledger[r][x]) => writes'[r][x] = writes[r][x]
  BY <1>1, SoloWrites
<1>2. SoloInv /\ [Next]_vars =>
        [\A r \in Routes : \A x \in Records :
           IsTerminal(ledger[r][x]) => writes'[r][x] = writes[r][x]]_vars
  BY <1>1
<1>. QED
  BY <1>2, SoloInvariance, PTL DEF Spec, NoRewriteOfTerminal

-----------------------------------------------------------------------------
(* Apply keeps the promise.                                                *)

(* Each step of the only process is a step of the promise, or leaves what  *)
(* the promise is about alone.                                             *)
LEMMA StepsKeepPromise ==
    ASSUME OneAtATime, SoloInv, [Next]_vars
    PROVE  [Promise!Next]_(Promise!vars)
<1>. DEFINE A == ApprovedRecords
            W == WrittenRecords
            M == MigratedRecords
<1>1. /\ TypeOK /\ TypeOK' /\ ProgressInv /\ ProgressInv' /\ IInv /\ IInv'
      /\ BatchCovered /\ CompletedCovered /\ candidates' = candidates
  BY InvNext, ProgressNext, ViewsGrow DEF SoloInv, ProgressInv, IInv
<1>2. A' = A
  BY <1>1 DEF ApprovedRecords
<1>3. ASSUME UNCHANGED <<ledger, writes>>
      PROVE  W' = W /\ M' = M
  BY <1>3 DEF WrittenRecords, MigratedRecords
<1>4. CASE \E p \in Procs : WriteRecords(p) \/ WriteFails(p) \/ WriteRetried(p)
  <2>. DEFINE S == {t \in Targets : writes'[t[1]][t[2]] # writes[t[1]][t[2]]}
  <2>1. /\ pc' = pc /\ UNCHANGED <<ledger, journal>> /\ ~Done
    <3>1. PICK p \in Procs : WriteRecords(p) \/ WriteFails(p) \/ WriteRetried(p)
      BY <1>4
    <3>2. pc[p] = "write" /\ pc[p] \in InPage /\ pc[p] \in Busy
      BY <3>1 DEF WriteRecords, WriteFails, WriteRetried, AtWrite, InPage, Busy
    <3>. QED
      BY <1>1, <3>1, <3>2, PageFacts, WriteShape DEF SoloInv, SoloProc, Done
  <2>2. \A t \in S : /\ t[2] \in candidates[t[1]] /\ ~IsTerminal(ledger[t[1]][t[2]])
                     /\ writes'[t[1]][t[2]] > 0
    BY SoloWrites DEF Targets
  <2>3. S \in SUBSET A /\ S \cap M = {}
    BY <2>2 DEF ApprovedRecords, MigratedRecords
  <2>4. W' = W \cup S
    BY <2>2 DEF WrittenRecords
  <2>5. M' = M /\ Done' = Done
    BY <2>1 DEF MigratedRecords, Done
  <2>. HIDE DEF S, A, W, M
  <2>6. Promise!Write(S)
    BY <1>2, <2>1, <2>3, <2>4, <2>5 DEF Promise!Write, A, W, M
  <2>. QED
    BY <2>3, <2>6 DEF Promise!Next, A
<1>5. CASE \E p \in Procs : Persist(p) \/ PersistShort(p)
  <2>1. UNCHANGED <<writes, journal>> /\ ~Done
    BY <1>5 DEF Persist, PersistShort, destination, SoloInv, SoloProc, Busy, InPage, Done
  <2>2. M' \in SUBSET W'
    BY <1>1 DEF ProgressInv, LedgerBacked, MigratedRecords, WrittenRecords, Targets
  <2>3. W' = W /\ Done' = Done
    BY <2>1 DEF WrittenRecords, Done
  <2>4. M \subseteq M'
    BY <1>1, RowsStable DEF MigratedRecords, Targets
  <2>. HIDE DEF A, W, M
  <2>5. M' \in SUBSET W /\ M' = M \cup M'
    BY <2>2, <2>3, <2>4
  <2>6. Promise!Record(M')
    BY <1>2, <2>1, <2>3, <2>5 DEF Promise!Record, A, W, M
  <2>. QED
    BY <2>5, <2>6 DEF Promise!Next, W
<1>6. CASE \E p \in Procs : SaveBatch(p)
  <2>1. PICK p \in Procs : SaveBatch(p)
    BY <1>6
  <2>2. UNCHANGED <<ledger, writes>> /\ ~Done
    BY <2>1 DEF SaveBatch, destination, SoloInv, SoloProc, Busy, Done
  <2>3. CASE ~Done'
    <3>1. UNCHANGED Promise!vars
      BY <1>2, <1>3, <2>2, <2>3 DEF Promise!vars, Done
    <3>. QED
      BY <3>1
  <2>4. CASE Done'
    <3>1. \A r \in Routes : Covered(ledger, r, candidates[r])
      <4>1. ~work[p].hasMore
        BY <1>1, <2>1, <2>4, SaveShape DEF Done
      <4>. QED
        BY <1>1, <2>1, <4>1, BatchDone DEF SaveBatch
    <3>2. A \subseteq M
      BY <3>1 DEF Covered, TerminalIds, ApprovedRecords, MigratedRecords, Targets
    <3>3. M \subseteq A
      <4>1. \A r \in Routes : \A x \in Records \ candidates[r] : ~IsTerminal(ledger[r][x])
        BY <1>1 DEF ProgressInv, OnlyCandidates, NoRow, IsTerminal, Terminal
      <4>. QED
        BY <4>1 DEF ApprovedRecords, MigratedRecords, Targets
    <3>4. Promise!Finish
      BY <1>2, <1>3, <2>2, <2>4, <3>2, <3>3 DEF Promise!Finish
    <3>. QED
      BY <3>4 DEF Promise!Next
  <2>. QED
    BY <2>3, <2>4
<1>7. CASE /\ UNCHANGED <<ledger, writes>>
           /\ \/ journal' = journal \/ Cancel
              \/ \E p \in Procs : Start(p) \/ Report(p) \/ SaveFailed(p)
  <2>1. Done' = Done
    <3>1. CASE journal' = journal
      BY <3>1 DEF Done
    <3>2. CASE Cancel
      BY <1>1, <3>2 DEF Cancel, Done, TypeOK
    <3>3. ASSUME NEW p \in Procs, Start(p) \/ Report(p)
          PROVE  journal' = journal
      BY <3>3 DEF Start, Report
    <3>4. ASSUME NEW p \in Procs, SaveFailed(p)
          PROVE  ~Done /\ ~Done'
      BY <3>4 DEF SaveFailed, Save, SoloInv, SoloProc, Busy, Done
    <3>. QED
      BY <1>7, <3>1, <3>2, <3>3, <3>4 DEF Done
  <2>2. UNCHANGED Promise!vars
    BY <1>2, <1>3, <1>7, <2>1 DEF Promise!vars
  <2>. QED
    BY <2>2
<1>. QED
  BY <1>4, <1>5, <1>6, <1>7, LedgerFrame, ViewsFrame, JournalFrame

(* Apply of one process implements ExactApply: whatever crashes, fails, is *)
(* retried, cancelled or deleted at the source, it writes only approved    *)
(* records that are not migrated, records only what it wrote, and says it  *)
(* is done, once and for good, when every approved record is migrated.     *)
THEOREM ApplyKeepsItsPromise ==
    ASSUME OneAtATime
    PROVE  Spec => ImplementsExactApply
<1>1. Init => Promise!Init
  BY DEF Init, Promise!Init, WrittenRecords, MigratedRecords, Done, NoRow, IsTerminal,
     Terminal, Targets
<1>2. SoloInv /\ [Next]_vars => [Promise!Next]_(Promise!vars)
  BY StepsKeepPromise
<1>. QED
  BY <1>1, <1>2, SoloInvariance, PTL DEF Spec, ImplementsExactApply, Promise!Spec

-----------------------------------------------------------------------------
(* Exact counters.                                                         *)

Exact(s, kept) == \A r \in Routes : s.migrated[r] = Cardinality(kept[r])

(* A page that a ledger reports short was saved whole or not at all.       *)
WholePages == BatchSize = 1 \/ ~LedgerShort

(* While nothing crashed, the counters of the snapshot in use are those of *)
(* the ledger, but for the page whose rows landed and are not counted yet. *)
CountsProc(p) ==
    LET page == work[p].page
        r == Current(p)
    IN  /\ pc[p] \in Busy \ {"count"} => Exact(snap[p], Kept)
        /\ pc[p] = "count" => Exact(snap[p], [Kept EXCEPT ![r] = @ \ NewIds(page)])
        /\ pc[p] \in InPage /\ BatchSize = 1 => \A x, y \in page.ids : x = y
Kinds == {"faults", "crashes", "inserts", "deletes"}
Undisturbed == OneAtATime /\ WholePages /\ budget.crashes = MaxCrashes
CountsInv ==
    /\ SoloInv
    /\ budget \in [Kinds -> Nat] /\ budget.crashes <= MaxCrashes
    /\ Undisturbed =>
         /\ (\A p \in Procs : pc[p] \notin Busy) => Exact(journal.snap, Kept)
         /\ \A p \in Procs : CountsProc(p)

(* Every step keeps the budget or spends one unit of it; a crash spends    *)
(* one of the crashes.                                                     *)
LEMMA BudgetFrame ==
    ASSUME budget \in [Kinds -> Nat], budget.crashes <= MaxCrashes, [Next]_vars
    PROVE  /\ budget' \in [Kinds -> Nat] /\ budget'.crashes <= budget.crashes
           /\ budget'.crashes <= MaxCrashes
           /\ \A p \in Procs : Crash(p) => budget'.crashes < MaxCrashes
<1>. DEFINE Less == budget' \in [Kinds -> Nat] /\ budget'.crashes <= budget.crashes
<1>0. MaxCrashes \in Nat /\ budget.crashes \in Nat
  BY BoundsAssumption DEF Kinds
<1>1. ASSUME NEW kind \in Kinds, Spend(kind)
      PROVE  /\ Less
             /\ kind = "crashes" => budget'.crashes < MaxCrashes
  <2>1. budget[kind] \in Nat \ {0} /\ budget' = [budget EXCEPT ![kind] = @ - 1]
    BY <1>1 DEF Spend
  <2>2. budget[kind] - 1 \in Nat
    BY <2>1
  <2>3. budget' \in [Kinds -> Nat]
    BY <2>1, <2>2
  <2>4. budget'.crashes = IF kind = "crashes" THEN budget.crashes - 1 ELSE budget.crashes
    BY <2>1 DEF Kinds
  <2>. QED
    BY <1>0, <2>1, <2>3, <2>4
<1>2. ASSUME budget' = budget
      PROVE  Less
  BY <1>0, <1>2
<1>. HIDE DEF Less
<1>3. ASSUME NEW p \in Procs, Start(p) \/ Load(p) \/ Claim(p)
      PROVE  Less
  BY <1>2, <1>3 DEF Start, Load, Claim
<1>4. ASSUME NEW p \in Procs, SkipCompleted(p) \/ CompleteEmpty(p) \/ ReadPage(p)
      PROVE  Less
  BY <1>2, <1>4 DEF SkipCompleted, CompleteEmpty, ReadPage
<1>5. ASSUME NEW p \in Procs, ReadFails(p) \/ WriteFails(p) \/ WriteRetried(p) \/ PersistShort(p)
      PROVE  Less
  BY <1>1, <1>5 DEF ReadFails, WriteFails, WriteRetried, PersistShort, Kinds
<1>6. ASSUME NEW p \in Procs, WriteRecords(p) \/ LinkPage(p) \/ Persist(p) \/ CountResults(p)
      PROVE  Less
  BY <1>2, <1>6 DEF WriteRecords, LinkPage, Persist, CountResults
<1>7. ASSUME NEW p \in Procs, FinishRoute(p) \/ SaveBatch(p) \/ SaveFailed(p) \/ Report(p)
      PROVE  Less
  BY <1>2, <1>7 DEF FinishRoute, SaveBatch, SaveFailed, Report
<1>8. ASSUME NEW p \in Procs, Crash(p)
      PROVE  Less /\ budget'.crashes < MaxCrashes
  <2>1. Spend("crashes") /\ "crashes" \in Kinds
    BY <1>8 DEF Crash, Kinds
  <2>. QED
    BY <1>1, <2>1
<1>9. ASSUME Environment \/ UNCHANGED vars
      PROVE  Less
  <2>1. CASE SourceInsert \/ SourceDelete
    <3>1. (Spend("inserts") \/ Spend("deletes")) /\ {"inserts", "deletes"} \subseteq Kinds
      BY <2>1 DEF SourceInsert, SourceDelete, Kinds
    <3>. QED
      BY <1>1, <3>1
  <2>2. CASE Cancel \/ UNCHANGED vars
    BY <1>2, <2>2 DEF Cancel, vars
  <2>. QED
    BY <1>9, <2>1, <2>2 DEF Environment
<1>10. Less
  BY <1>3, <1>4, <1>5, <1>6, <1>7, <1>8, <1>9 DEF Next, Step
<1>11. budget' \in [Kinds -> Nat] /\ budget'.crashes <= budget.crashes
  BY <1>10 DEF Less
<1>12. budget'.crashes \in Nat
  BY <1>11 DEF Kinds
<1>. QED
  BY <1>0, <1>8, <1>11, <1>12

(* What the only process starts a step from, and that none of what the     *)
(* counters are about changes but by their steps.                          *)
LEMMA CountsFacts ==
    ASSUME CountsInv, [Next]_vars, Undisturbed'
    PROVE  /\ Undisturbed /\ OneAtATime /\ SoloInv /\ ProgressInv /\ IInv /\ IInv'
           /\ TypeOK /\ TypeOK' /\ candidates' = candidates
           /\ Kept \in RecordSets /\ Kept' \in RecordSets
           /\ \A p \in Procs : ~Crash(p) /\ CountsProc(p) /\ SoloProc(p)
           /\ (\A p \in Procs : pc[p] \notin Busy) => Exact(journal.snap, Kept)
<1>1. /\ OneAtATime /\ WholePages /\ budget'.crashes = MaxCrashes
      /\ budget \in [Kinds -> Nat] /\ budget.crashes <= MaxCrashes
  BY DEF Undisturbed, CountsInv, WholePages, OneAtATime
<1>2. budget.crashes = MaxCrashes /\ \A p \in Procs : ~Crash(p)
  <2>1. budget.crashes \in Nat /\ MaxCrashes \in Nat
    BY <1>1, BoundsAssumption DEF Kinds
  <2>. QED
    BY <1>1, <2>1, BudgetFrame
<1>3. Undisturbed
  BY <1>1, <1>2 DEF Undisturbed
<1>4. SoloInv /\ ProgressInv /\ IInv /\ IInv' /\ TypeOK /\ TypeOK'
  BY InvNext DEF CountsInv, SoloInv, ProgressInv, IInv
<1>5. \A p \in Procs : CountsProc(p) /\ SoloProc(p)
  BY <1>1, <1>3 DEF CountsInv, SoloInv
<1>. QED
  BY <1>1, <1>2, <1>3, <1>4, <1>5, StepViews DEF CountsInv

(* A page of one holds at most one record.                                 *)
LEMMA PageOfOne ==
    ASSUME NEW S \in SUBSET Records, NEW cursor \in Nat
    PROVE  \A x, y \in PageOf(S, cursor, 1) : x = y
<1>1. SUFFICES ASSUME NEW x \in PageOf(S, cursor, 1), NEW y \in PageOf(S, cursor, 1), x < y
               PROVE  FALSE
  <2>1. PageOf(S, cursor, 1) \subseteq Nat
    BY RecordsFinite DEF PageOf, After
  <2>2. \A x, y \in PageOf(S, cursor, 1) : ~(x < y) /\ ~(y < x) /\ x \in Nat /\ y \in Nat
    BY <1>1, <2>1
  <2>. QED
    BY <2>2
<1>. DEFINE Before == {v \in After(S, cursor) : v < y}
<1>2. x \in Before /\ Before \in SUBSET Records
  BY <1>1 DEF PageOf, After
<1>3. Cardinality(Before) < 1 /\ Cardinality(Before) \in Nat /\ IsFiniteSet(Before)
  BY <1>2, RecordsFinite DEF PageOf
<1>4. Cardinality(Before) = 0
  BY <1>3
<1>5. Before = {}
  BY <1>3, <1>4, FS_EmptySet
<1>. QED
  BY <1>2, <1>5

(* What holds between the steps of a page: the counters follow the ledger. *)
LEMMA CountsSteps ==
    ASSUME CountsInv, [Next]_vars, Undisturbed', NEW p \in Procs
    PROVE  CountsProc(p)'
<1>. DEFINE r == Current(p)
            page == work[p].page
<1>1. /\ Undisturbed /\ OneAtATime /\ SoloInv /\ ProgressInv /\ IInv /\ IInv'
      /\ TypeOK /\ TypeOK' /\ candidates' = candidates
      /\ Kept \in RecordSets /\ Kept' \in RecordSets
      /\ ~Crash(p) /\ CountsProc(p) /\ SoloProc(p)
  BY CountsFacts
<1>2. CASE Start(p) \/ Load(p) \/ SaveFailed(p) \/ Report(p)
  <2>1. pc'[p] \notin Busy /\ pc'[p] # "count" /\ pc'[p] \notin InPage
    BY <1>1, <1>2 DEF Start, Load, SaveFailed, Report, Return, TypeOK, Busy, InPage
  <2>. QED
    BY <2>1 DEF CountsProc
<1>3. CASE Claim(p)
  <2>1. CASE pc'[p] = "report"
    BY <2>1 DEF CountsProc, Busy, InPage
  <2>2. CASE pc'[p] = "route"
    <3>1. snap'[p] = journal.snap /\ ledger' = ledger /\ pc[p] = "claim"
      BY <1>1, <1>3, <2>2 DEF Claim, Return, TypeOK, durable
    <3>2. \A q \in Procs : pc[q] \notin Busy
      BY <1>1, <3>1 DEF OneAtATime, Busy, InPage
    <3>3. Exact(journal.snap, Kept)
      BY <3>2, CountsFacts
    <3>4. Kept' = Kept
      BY <1>1, <3>1 DEF Kept
    <3>. QED
      BY <2>2, <3>1, <3>3, <3>4 DEF CountsProc, InPage
  <2>. QED
    BY <1>1, <1>3, <2>1, <2>2 DEF Claim, Return, TypeOK
<1>4. ASSUME pc[p] \in Busy \ {"count"}, snap'[p].migrated = snap[p].migrated,
             Kept' = Kept, pc'[p] # "count"
      PROVE  Exact(snap'[p], Kept')
  BY <1>1, <1>4 DEF CountsProc, Exact
<1>5. CASE SkipCompleted(p) \/ CompleteEmpty(p) \/ SaveBatch(p)
  <2>1. pc[p] \in Busy \ {"count"} /\ ledger' = ledger
    BY <1>5 DEF SkipCompleted, CompleteEmpty, SaveBatch, AtRoute, Busy, durable
  <2>2. snap'[p].migrated = snap[p].migrated /\ pc'[p] \notin InPage
    BY <1>1, <1>5, SkipShape, SaveShape DEF KeepsMarks, InPage
  <2>3. Kept' = Kept
    BY <1>1, <2>1 DEF Kept
  <2>. QED
    BY <1>4, <2>1, <2>2, <2>3 DEF CountsProc, InPage
<1>6. CASE ReadFails(p)
  <2>1. pc[p] \in Busy \ {"count"} /\ snap' = snap /\ ledger' = ledger /\ pc'[p] = "abort"
    BY <1>1, <1>6 DEF ReadFails, MustRead, AtRoute, Busy, durable, TypeOK
  <2>2. Kept' = Kept
    BY <1>1, <2>1 DEF Kept
  <2>. QED
    BY <1>4, <2>1, <2>2 DEF CountsProc, InPage
<1>7. CASE ReadPage(p)
  <2>1. /\ r \in Routes /\ pc[p] = "route" /\ pc'[p] = "write" /\ KeepsMarks(p)
        /\ ledger' = ledger
        /\ work'[p].page.ids \subseteq PageOf(source[r], snap[p].cp[r], BatchSize)
    BY <1>1, <1>7, ReadShape
  <2>2. BatchSize = 1 => \A x, y \in work'[p].page.ids : x = y
    <3>1. source[r] \in SUBSET Records /\ snap[p].cp[r] \in Nat
      BY <1>1, <2>1 DEF TypeOK, Snapshot
    <3>. QED
      BY <2>1, <3>1, PageOfOne
  <2>3. Kept' = Kept /\ pc[p] \in Busy \ {"count"}
    BY <1>1, <2>1 DEF Kept, Busy
  <2>. QED
    BY <1>4, <2>1, <2>2, <2>3 DEF CountsProc, KeepsMarks
<1>8. ASSUME pc[p] \in InPage
      PROVE  /\ r \in Routes /\ page \in Page /\ snap[p] \in Snapshot
             /\ PageSafe(page, r, snap[p].migrated[r], pc[p], candidates, Served, Kept, Hit)
             /\ SoloPage(page, r, pc[p], Kept)
             /\ BatchSize = 1 => \A x, y \in page.ids : x = y
  BY <1>1, <1>8, PageFacts DEF SoloProc, CountsProc
<1>9. CASE WriteRecords(p) \/ WriteFails(p) \/ WriteRetried(p) \/ LinkPage(p)
  <2>1. pc[p] = "write" /\ pc[p] \in InPage /\ pc[p] \in Busy
    BY <1>9 DEF WriteRecords, WriteFails, WriteRetried, AtWrite, LinkPage, InPage, Busy
  <2>2. /\ snap'[p].migrated = snap[p].migrated /\ ledger' = ledger
        /\ work'[p].page.ids = page.ids /\ pc'[p] \in {"write", "persist"}
    BY <1>1, <1>8, <1>9, <2>1, WriteShape, LinkShape DEF KeepsMarks
  <2>3. Kept' = Kept
    BY <1>1, <2>2 DEF Kept
  <2>. QED
    BY <1>4, <1>8, <2>1, <2>2, <2>3 DEF CountsProc
<1>10. CASE Persist(p)
  <2>1. pc[p] = "persist" /\ pc[p] \in InPage /\ pc[p] \in Busy \ {"count"}
    BY <1>10 DEF Persist, InPage, Busy
  <2>2. /\ pc'[p] = "count" /\ work' = work /\ snap' = snap
        /\ ledger' = UpsertResults(ledger, r, NewIds(page), page.out)
    BY <1>1, <1>10 DEF Persist, TypeOK
  <2>3. NewIds(page) \cap Kept[r] = {}
    BY <1>8, <2>1 DEF SoloPage, NewIds
  <2>4. \A q \in Routes : \A x \in Records : q # r \/ x \notin NewIds(page) =>
          ledger'[q][x] = ledger[q][x]
    BY <1>1, <1>8, <2>1, <2>2 DEF UpsertResults, TypeOK
  <2>5. \A q \in Routes : candidates[q] \in SUBSET Records
    BY <1>1 DEF TypeOK
  <2>6. Kept'[r] \ NewIds(page) = Kept[r] /\ \A q \in Routes \ {r} : Kept'[q] = Kept[q]
    BY <1>1, <1>8, <2>1, <2>3, <2>4, <2>5 DEF Kept, TerminalIds
  <2>7. [Kept' EXCEPT ![r] = @ \ NewIds(page)] = Kept
    BY <1>1, <1>8, <2>1, <2>6 DEF RecordSets
  <2>. HIDE DEF page
  <2>8. /\ Exact(snap'[p], [Kept' EXCEPT ![r] = @ \ NewIds(page)])
        /\ BatchSize = 1 => \A x, y \in page.ids : x = y
    BY <1>1, <1>8, <2>1, <2>2, <2>7 DEF CountsProc
  <2>. QED
    BY <2>2, <2>8 DEF CountsProc, Current, page
<1>11. CASE PersistShort(p)
  <2>1. LedgerShort /\ pc[p] = "persist" /\ pc[p] \in InPage /\ pc[p] \in Busy \ {"count"}
        /\ snap' = snap /\ pc'[p] = "abort"
    BY <1>1, <1>11 DEF PersistShort, InPage, Busy, TypeOK
  <2>2. PICK saved \in SUBSET NewIds(page) :
          /\ saved # NewIds(page)
          /\ ledger' = UpsertResults(ledger, r, saved, page.out)
    BY <1>11 DEF PersistShort
  <2>3. saved = {}
    <3>1. \A x, y \in page.ids : x = y
      BY <1>1, <1>8, <2>1 DEF Undisturbed, WholePages
    <3>2. NewIds(page) \subseteq page.ids
      BY DEF NewIds
    <3>. QED
      BY <2>2, <3>1, <3>2
  <2>4. \A q \in Routes : \A x \in Records : ledger'[q][x] = ledger[q][x]
    BY <1>1, <1>8, <2>1, <2>2, <2>3 DEF UpsertResults, TypeOK
  <2>5. Kept' = Kept
    <3>1. \A q \in Routes : candidates[q] \in SUBSET Records
      BY <1>1 DEF TypeOK
    <3>. QED
      BY <1>1, <2>4, <3>1 DEF Kept, TerminalIds
  <2>. QED
    BY <1>4, <2>1, <2>5 DEF CountsProc, InPage
<1>12. CASE CountResults(p)
  <2>1. pc[p] = "count" /\ pc[p] \in InPage
    BY <1>12 DEF CountResults, InPage
  <2>2. /\ pc'[p] = "finish" /\ ledger' = ledger /\ work'[p].page.ids = page.ids
        /\ \E failed, prefix :
             /\ Judged(page, failed, prefix, ledger, r)
             /\ snap'[p].migrated = [snap[p].migrated EXCEPT
                  ![r] = @ + Cardinality(NewIds(page) \ failed)]
    <3>1. TypeOK /\ r \in Routes
      BY <1>1, <1>8, <2>1
    <3>2. pc'[p] = "finish" /\ ledger' = ledger /\ work'[p].page.ids = page.ids
      BY <1>12, <3>1, CountShape
    <3>3. PICK failed, prefix :
            /\ Judged(page, failed, prefix, ledger, r)
            /\ work'[p].page.failed = failed
            /\ work'[p].page.terminalCursor = LastOf(prefix, page.terminalCursor)
            /\ snap'[p].migrated = [snap[p].migrated EXCEPT
                 ![r] = @ + Cardinality(NewIds(page) \ failed)]
            /\ snap'[p].failed = [snap[p].failed EXCEPT
                 ![r] = FailedAfter(@, page.ids, failed)]
      BY <1>12, <3>1, CountShape
    <3>. QED
      BY <3>2, <3>3
  <2>3. PICK failed, prefix :
          /\ Judged(page, failed, prefix, ledger, r)
          /\ snap'[p].migrated = [snap[p].migrated EXCEPT
               ![r] = @ + Cardinality(NewIds(page) \ failed)]
    BY <2>2
  <2>4. Kept' = Kept
    BY <1>1, <2>2 DEF Kept
  <2>5. /\ Kept[r] = (Kept[r] \ NewIds(page)) \cup (NewIds(page) \ failed)
        /\ page.ids \in SUBSET Records
    <3>1. page.ids \in SUBSET Records /\ page.ids \subseteq candidates[r]
      BY <1>8, <2>1 DEF PageSafe, Page
    <3>2. ASSUME NEW x \in NewIds(page)
          PROVE  x \in Kept[r] <=> x \notin failed
      <4>1. x \in page.ids
        BY DEF NewIds
      <4>2. x \in Kept[r] <=> IsTerminal(ledger[r][x])
        BY <1>8, <2>1, <3>1, <4>1 DEF Kept, TerminalIds
      <4>3. page.out[x].status # "failed" => x \in Kept[r]
        BY <1>8, <2>1, <4>1 DEF PageSafe
      <4>4. x \in failed <=> page.out[x].status = "failed" /\ ~IsTerminal(ledger[r][x])
        BY <2>3, <4>1 DEF Judged
      <4>. QED
        BY <4>2, <4>3, <4>4
    <3>. QED
      BY <3>1, <3>2
  <2>6. Cardinality(Kept[r]) =
          Cardinality(Kept[r] \ NewIds(page)) + Cardinality(NewIds(page) \ failed)
    <3>. DEFINE S == Kept[r] \ NewIds(page)
                T == NewIds(page) \ failed
    <3>1. S \in SUBSET Records /\ T \in SUBSET Records /\ S \cap T = {}
      BY <1>1, <1>8, <2>1, <2>5 DEF RecordSets, NewIds
    <3>2. IsFiniteSet(S) /\ IsFiniteSet(T) /\ Cardinality(S) \in Nat /\ Cardinality(T) \in Nat
      BY <3>1, RecordsFinite
    <3>3. Cardinality(S \cup T) = Cardinality(S) + Cardinality(T) - Cardinality(S \cap T)
      BY <3>2, FS_Union
    <3>4. Cardinality(S \cap T) = 0
      BY <3>1, FS_EmptySet
    <3>5. Kept[r] = S \cup T
      BY <2>5
    <3>. HIDE DEF S, T
    <3>6. Cardinality(Kept[r]) = Cardinality(S) + Cardinality(T)
      BY <3>2, <3>3, <3>4, <3>5
    <3>. QED
      BY <3>6 DEF S, T
  <2>7. Exact(snap[p], [Kept EXCEPT ![r] = @ \ NewIds(page)])
    BY <1>1, <2>1 DEF CountsProc
  <2>8. ASSUME NEW q \in Routes
        PROVE  snap'[p].migrated[q] = Cardinality(Kept[q])
    <3>1. snap[p].migrated \in [Routes -> Nat] /\ Kept \in RecordSets
      BY <1>1, <1>8, <2>1 DEF Snapshot
    <3>2. snap[p].migrated[q] =
            Cardinality(IF q = r THEN Kept[q] \ NewIds(page) ELSE Kept[q])
      BY <2>7, <3>1 DEF Exact, RecordSets
    <3>3. snap'[p].migrated[q] = IF q = r
            THEN snap[p].migrated[q] + Cardinality(NewIds(page) \ failed)
            ELSE snap[p].migrated[q]
      BY <2>3, <3>1
    <3>. HIDE DEF r, page
    <3>. QED
      BY <2>6, <3>2, <3>3
  <2>. QED
    BY <1>8, <2>1, <2>2, <2>4, <2>8 DEF CountsProc, Exact
<1>13. CASE FinishRoute(p)
  <2>1. pc[p] = "finish" /\ pc[p] \in InPage /\ pc[p] \in Busy \ {"count"}
    BY <1>13 DEF FinishRoute, InPage, Busy
  <2>2. pc'[p] = "route" /\ snap'[p].migrated = snap[p].migrated /\ ledger' = ledger
    BY <1>1, <1>8, <1>13, <2>1, FinishShape DEF KeepsMarks
  <2>3. Kept' = Kept
    BY <1>1, <2>2 DEF Kept
  <2>. QED
    BY <1>4, <2>1, <2>2, <2>3 DEF CountsProc, InPage
<1>14. CASE (Environment \/ UNCHANGED vars) /\ pc' = pc /\ snap' = snap /\ work' = work
  <2>1. ledger' = ledger
    BY <1>14 DEF Environment, Cancel, SourceInsert, SourceDelete, vars, durable
  <2>2. Kept' = Kept
    BY <1>1, <2>1 DEF Kept
  <2>. QED
    BY <1>1, <1>14, <2>2 DEF CountsProc, Current
<1>. QED
  BY <1>1, <1>2, <1>3, <1>5, <1>6, <1>7, <1>9, <1>10, <1>11, <1>12, <1>13, <1>14, SoloSteps
  DEF Step

(* What the journal holds between two applies counts the ledger too.       *)
LEMMA CountsJournal ==
    ASSUME CountsInv, [Next]_vars, Undisturbed', \A p \in Procs : pc'[p] \notin Busy
    PROVE  Exact(journal'.snap, Kept')
<1>1. /\ OneAtATime /\ ProgressInv /\ IInv /\ IInv' /\ TypeOK /\ TypeOK'
      /\ candidates' = candidates
      /\ \A p \in Procs : ~Crash(p) /\ CountsProc(p)
      /\ (\A p \in Procs : pc[p] \notin Busy) => Exact(journal.snap, Kept)
  BY CountsFacts
<1>2. CASE Environment \/ UNCHANGED vars
  <2>1. ledger' = ledger /\ pc' = pc /\ journal'.snap = journal.snap
    BY <1>1, <1>2 DEF Environment, Cancel, SourceInsert, SourceDelete, vars, durable, TypeOK
  <2>2. Kept' = Kept
    BY <1>1, <2>1 DEF Kept
  <2>. QED
    BY <1>1, <2>1, <2>2
<1>3. ASSUME NEW p \in Procs, Start(p) \/ Step(p)
      PROVE  Exact(journal'.snap, Kept')
  <2>1. CASE Start(p) \/ Load(p) \/ Claim(p) \/ Report(p)
    <3>1. pc[p] \notin Busy /\ journal' = journal /\ ledger' = ledger
      BY <1>1, <2>1 DEF Start, Load, Claim, Report, Busy, InPage, durable
    <3>2. \A q \in Procs : pc[q] \notin Busy
      BY <1>1, <3>1 DEF OneAtATime
    <3>3. Kept' = Kept
      BY <1>1, <3>1 DEF Kept
    <3>. QED
      BY <1>1, <3>1, <3>2, <3>3
  <2>2. CASE SaveBatch(p) \/ SaveFailed(p)
    <3>1. pc[p] \in Busy \ {"count"} /\ ledger' = ledger
      BY <2>2 DEF SaveBatch, SaveFailed, Busy
    <3>2. journal'.snap.migrated = snap[p].migrated
      <4>1. CASE SaveBatch(p)
        BY <1>1, <4>1, SaveShape
      <4>2. CASE SaveFailed(p)
        BY <4>2 DEF SaveFailed, Save
      <4>. QED
        BY <2>2, <4>1, <4>2
    <3>3. Kept' = Kept
      BY <1>1, <3>1 DEF Kept
    <3>4. Exact(snap[p], Kept)
      BY <1>1, <3>1 DEF CountsProc
    <3>. QED
      BY <3>2, <3>3, <3>4 DEF Exact
  <2>3. pc'[p] \notin Busy
    OBVIOUS
  <2>4. CASE SkipCompleted(p) \/ CompleteEmpty(p) \/ ReadPage(p) \/ ReadFails(p)
    <3>1. pc'[p] \in Busy
      BY <1>1, <2>4, SkipShape, ReadShape DEF ReadFails, TypeOK, Busy, InPage
    <3>. QED
      BY <2>3, <3>1
  <2>5. CASE WriteRecords(p) \/ WriteFails(p) \/ WriteRetried(p)
    <3>1. pc'[p] \in Busy
      BY <2>5 DEF WriteRecords, WriteFails, WriteRetried, Dispatch, AtWrite, Busy, InPage
    <3>. QED
      BY <2>3, <3>1
  <2>6. CASE LinkPage(p) \/ Persist(p) \/ PersistShort(p) \/ CountResults(p)
    <3>1. pc'[p] \in Busy
      BY <1>1, <2>6 DEF LinkPage, Persist, PersistShort, CountResults, TypeOK, Busy, InPage
    <3>. QED
      BY <2>3, <3>1
  <2>7. CASE FinishRoute(p)
    <3>1. pc[p] \in InPage
      BY <2>7 DEF FinishRoute, InPage
    <3>2. pc'[p] \in Busy
      BY <1>1, <2>7, <3>1, PageFacts, FinishShape DEF Busy
    <3>. QED
      BY <2>3, <3>2
  <2>. QED
    BY <1>3, <2>1, <2>2, <2>4, <2>5, <2>6, <2>7 DEF Step
<1>. QED
  BY <1>1, <1>2, <1>3 DEF Next

(* The invariant of the counters holds in every reachable state.           *)
LEMMA CountsInvariance == Spec => []CountsInv
<1>1. Init => CountsInv
  <2>. SUFFICES ASSUME Init
                PROVE  CountsInv
    OBVIOUS
  <2>1. SoloInv
    BY ProgressInit DEF Init, SoloInv, SoloProc, Busy, InPage
  <2>2. budget \in [Kinds -> Nat] /\ budget.crashes <= MaxCrashes
    BY BoundsAssumption DEF Init, Kinds
  <2>3. \A r \in Routes : Kept[r] = {} /\ journal.snap.migrated[r] = 0
    <3>1. \A r \in Routes : candidates[r] \in SUBSET Records
      BY TypeInit DEF TypeOK
    <3>2. \A r \in Routes : \A x \in Records : ~IsTerminal(ledger[r][x])
      BY DEF Init, NoRow, IsTerminal, Terminal
    <3>. QED
      BY <3>1, <3>2 DEF Init, Kept, TerminalIds, EmptySnapshot
  <2>4. Exact(journal.snap, Kept)
    BY <2>3, FS_EmptySet DEF Exact
  <2>5. \A p \in Procs : CountsProc(p)
    BY DEF Init, CountsProc, Busy, InPage
  <2>. QED
    BY <2>1, <2>2, <2>4, <2>5 DEF CountsInv
<1>2. CountsInv /\ [Next]_vars => CountsInv'
  <2>. SUFFICES ASSUME CountsInv, [Next]_vars
                PROVE  CountsInv'
    OBVIOUS
  <2>1. budget' \in [Kinds -> Nat] /\ budget'.crashes <= MaxCrashes
    BY BudgetFrame DEF CountsInv
  <2>2. SoloInv'
    BY SoloNext DEF CountsInv
  <2>3. ASSUME Undisturbed'
        PROVE  /\ (\A p \in Procs : pc'[p] \notin Busy) => Exact(journal'.snap, Kept')
               /\ \A p \in Procs : CountsProc(p)'
    BY <2>3, CountsJournal, CountsSteps
  <2>. QED
    BY <2>1, <2>2, <2>3 DEF CountsInv
<1>. QED
  BY <1>1, <1>2, PTL DEF Spec

(* No success is recorded without a write, no counter exceeds the ledger,  *)
(* and when nothing crashed the report of a completed run counts every     *)
(* approved record once, over any number of failed batches and retries of  *)
(* one process at a time.  (Of a page of several records a ledger that     *)
(* reports it short may have kept a part, which no counter counts again:   *)
(* WholePages excludes it.)                                                *)
THEOREM ReportsCountTheLedger ==
    ASSUME OneAtATime, WholePages
    PROVE  Spec => []CountsTrue
<1>1. ASSUME CountsInv
      PROVE  CountsTrue
  <2>1. ProgressInv /\ IInv /\ TypeOK /\ AppliedCovered
    BY <1>1 DEF CountsInv, SoloInv, ProgressInv, IInv
  <2>2. ASSUME journal.status = "completed", budget.crashes = MaxCrashes, NEW r \in Routes
        PROVE  journal.snap.migrated[r] = Cardinality(candidates[r])
    <3>1. \A p \in Procs : pc[p] \notin Busy
      BY <1>1, <2>2 DEF CountsInv, SoloInv, SoloProc
    <3>2. Exact(journal.snap, Kept)
      BY <1>1, <2>2, <3>1 DEF CountsInv, Undisturbed
    <3>3. Kept[r] = candidates[r]
      BY <2>1, <2>2 DEF AppliedCovered, Covered, Kept
    <3>. QED
      BY <3>2, <3>3 DEF Exact
  <2>3. CountsExact
    BY <2>2 DEF CountsExact
  <2>. QED
    BY <2>1, <2>3, ProgressMeans DEF ProgressInv, CountsTrue
<1>. QED
  BY <1>1, CountsInvariance, PTL

-----------------------------------------------------------------------------
(* Relationships.                                                          *)

(* Each relationship of x is in the destination or parked.                 *)
Linked(parked, present, r, x) ==
    \A t \in Relations[r][x] :
        <<r, x, t>> \in present \/ \E l \in parked[r] : l.src = x /\ l.to = t
LinksAhead(parked, cp, served, present) ==
    \A r \in Routes : \A x \in served[r] : x <= cp[r] => Linked(parked, present, r, x)
LinksSafe(s, served, present) ==
    /\ LinksAhead(s.parked, s.cp, served, present)
    /\ \A r \in s.completed : \A x \in served[r] : Linked(s.parked, present, r, x)
LinksProc(p) ==
    LET page == work[p].page
        Has(x) == Linked(snap[p].parked, links, Current(p), x)
    IN  /\ LinksSafe(snap[p], Served, links)
        /\ LinksAhead(snap[p].parked, work[p].nextCp, Served, links)
        /\ pc[p] \in {"persist", "count"} =>
             \A x \in page.ids : page.out[x].status # "failed" => Has(x)
        /\ pc[p] = "finish" => \A x \in page.ids \ page.failed : Has(x)
LinksInv ==
    /\ PageInv /\ SoloInv
    /\ OneAtATime => /\ LinksSafe(journal.snap, Served, links)
                     /\ \A p \in Procs : LinksProc(p)

(* The source of the approved records shrinks, the destination gains       *)
(* relationships.                                                          *)
LEMMA LinksGrow ==
    ASSUME NEW served, NEW newServed, \A r \in Routes : newServed[r] \subseteq served[r],
           NEW present, NEW newPresent, present \subseteq newPresent
    PROVE  /\ \A parked, r, x : Linked(parked, present, r, x) => Linked(parked, newPresent, r, x)
           /\ \A parked, cp : LinksAhead(parked, cp, served, present)
                                => LinksAhead(parked, cp, newServed, newPresent)
           /\ \A s \in Snapshot : LinksSafe(s, served, present)
                                    => LinksSafe(s, newServed, newPresent)
<1>1. \A parked, r, x : Linked(parked, present, r, x) => Linked(parked, newPresent, r, x)
  BY DEF Linked
<1>2. \A parked, cp : LinksAhead(parked, cp, served, present)
                        => LinksAhead(parked, cp, newServed, newPresent)
  BY <1>1 DEF LinksAhead
<1>3. ASSUME NEW s \in Snapshot, LinksSafe(s, served, present)
      PROVE  LinksSafe(s, newServed, newPresent)
  <2>1. s.completed \subseteq Routes
    BY DEF Snapshot
  <2>. QED
    BY <1>1, <1>2, <1>3, <2>1 DEF LinksSafe
<1>. QED
  BY <1>1, <1>2, <1>3

(* A source that loses records loses no relationship of the others.        *)
LEMMA LinksShrink ==
    ASSUME NEW served, NEW newServed, \A r \in Routes : newServed[r] \subseteq served[r],
           NEW present, NEW s \in Snapshot, NEW cp,
           LinksSafe(s, served, present), LinksAhead(s.parked, cp, served, present)
    PROVE  LinksSafe(s, newServed, present) /\ LinksAhead(s.parked, cp, newServed, present)
<1>1. s.completed \subseteq Routes
  BY DEF Snapshot
<1>. QED
  BY <1>1 DEF LinksSafe, LinksAhead

(* A parked link leaves its place for the destination only.                *)
LEMMA LinkedRelinks ==
    ASSUME NEW p \in Procs, snap[p] \in Snapshot, NEW r \in Routes, NEW done,
           Relinks(p, r, done), NEW q \in Routes, NEW x,
           Linked(snap[p].parked, links, q, x)
    PROVE  Linked(snap'[p].parked, links', q, x)
<1>1. SUFFICES ASSUME NEW t \in Relations[q][x], <<q, x, t>> \notin links'
               PROVE  \E l \in snap'[p].parked[q] : l.src = x /\ l.to = t
  BY DEF Linked
<1>2. PICK l \in snap[p].parked[q] : l.src = x /\ l.to = t
  BY <1>1 DEF Linked, Relinks
<1>3. q = r => l \notin done
  BY <1>1, <1>2 DEF Relinks, Written
<1>4. l \in snap'[p].parked[q]
  BY <1>2, <1>3 DEF Relinks, Snapshot
<1>. QED
  BY <1>2, <1>4

(* What a step of the only process starts from.                            *)
LEMMA LinksFacts ==
    ASSUME LinksInv, OneAtATime, [Next]_vars, NEW p \in Procs
    PROVE  /\ PageInv /\ SoloInv /\ ProgressInv /\ IInv /\ IInv' /\ TypeOK /\ TypeOK'
           /\ candidates' = candidates /\ \A r \in Routes : Served'[r] \subseteq Served[r]
           /\ snap[p] \in Snapshot /\ snap'[p] \in Snapshot
           /\ ProcRead(p) /\ SoloProc(p) /\ LinksProc(p)
           /\ LinksSafe(journal.snap, Served, links)
           /\ pc[p] \in InPage => /\ Current(p) \in Routes /\ work[p].page \in Page
                                  /\ pc[p] \in Busy
<1>1. PageInv /\ SoloInv /\ LinksProc(p) /\ SoloProc(p) /\ LinksSafe(journal.snap, Served, links)
  BY DEF LinksInv, SoloInv
<1>2. /\ ProgressInv /\ IInv /\ IInv' /\ TypeOK /\ TypeOK' /\ candidates' = candidates
      /\ \A r \in Routes : Served'[r] \subseteq Served[r]
  BY <1>1, ReadViews, InvNext
<1>3. ProcRead(p) /\ snap[p] \in Snapshot /\ snap'[p] \in Snapshot
  BY <1>1, ReadViews
<1>. QED
  BY <1>1, <1>2, <1>3, ReadFacts DEF Busy

(* Outside a page: the snapshot's own relationships.                       *)
LEMMA LinksOutside ==
    ASSUME LinksInv, OneAtATime, [Next]_vars, NEW p \in Procs, pc'[p] \notin InPage,
           LinksSafe(snap'[p], Served, links'),
           LinksAhead(snap'[p].parked, work'[p].nextCp, Served, links')
    PROVE  LinksProc(p)'
<1>1. /\ \A r \in Routes : Served'[r] \subseteq Served[r]
      /\ snap'[p] \in Snapshot
  BY LinksFacts
<1>2. /\ LinksSafe(snap'[p], Served', links')
      /\ LinksAhead(snap'[p].parked, work'[p].nextCp, Served', links')
  BY <1>1, LinksShrink
<1>. QED
  BY <1>2 DEF LinksProc, InPage

(* Inside a page: the records the page is done with too.                   *)
LEMMA LinksInside ==
    ASSUME LinksInv, OneAtATime, [Next]_vars, NEW p \in Procs,
           work'[p].route = work[p].route,
           LinksSafe(snap'[p], Served, links'),
           LinksAhead(snap'[p].parked, work'[p].nextCp, Served, links'),
           pc'[p] \in {"persist", "count"} => \A x \in work'[p].page.ids :
             work'[p].page.out[x].status # "failed"
               => Linked(snap'[p].parked, links', Current(p), x),
           pc'[p] = "finish" => \A x \in work'[p].page.ids \ work'[p].page.failed :
             Linked(snap'[p].parked, links', Current(p), x)
    PROVE  LinksProc(p)'
<1>1. /\ \A r \in Routes : Served'[r] \subseteq Served[r]
      /\ snap'[p] \in Snapshot
  BY LinksFacts
<1>2. /\ LinksSafe(snap'[p], Served', links')
      /\ LinksAhead(snap'[p].parked, work'[p].nextCp, Served', links')
  BY <1>1, LinksShrink
<1>. QED
  BY <1>2 DEF LinksProc, Current

(* A snapshot that keeps its checkpoints, its routes and what is linked.   *)
LEMMA SameLinks ==
    ASSUME NEW p \in Procs, LinksProc(p), snap[p] \in Snapshot,
           snap'[p].cp = snap[p].cp, snap'[p].completed = snap[p].completed,
           \A r \in Routes : \A x : Linked(snap[p].parked, links, r, x)
                                      => Linked(snap'[p].parked, links', r, x)
    PROVE  /\ LinksSafe(snap'[p], Served, links')
           /\ LinksAhead(snap'[p].parked, work[p].nextCp, Served, links')
<1>1. snap[p].completed \subseteq Routes
  BY DEF Snapshot
<1>. QED
  BY <1>1 DEF LinksProc, LinksSafe, LinksAhead

(* Nothing is passed at first.                                             *)
LEMMA EmptyLinks ==
    ASSUME TypeOK
    PROVE  \A present : /\ LinksSafe(EmptySnapshot, Served, present)
                        /\ \A parked : LinksAhead(parked, Zero, Served, present)
<1>1. \A r \in Routes : \A x \in Served[r] : ~(x <= 0)
  BY RecordsAssumption DEF TypeOK, Served, Records
<1>. QED
  BY <1>1 DEF LinksSafe, LinksAhead, EmptySnapshot, Zero

(* The steps outside a page keep what is parked for the records passed.    *)
LEMMA LinksOfSteps ==
    ASSUME LinksInv, OneAtATime, [Next]_vars, NEW p \in Procs,
           Ends(p) \/ SaveBatch(p) \/ SkipCompleted(p) \/ CompleteEmpty(p)
    PROVE  LinksProc(p)' /\ (SaveBatch(p) => LinksSafe(journal'.snap, Served, links'))
<1>1. /\ TypeOK /\ snap[p] \in Snapshot /\ LinksProc(p)
      /\ LinksSafe(journal.snap, Served, links)
  BY LinksFacts
<1>2. CASE Ends(p)
  <2>1. LinksSafe(snap'[p], Served, links')
    BY <1>1, <1>2, EndsShape, EmptyLinks DEF LinksProc
  <2>2. LinksAhead(snap'[p].parked, work'[p].nextCp, Served, links')
    BY <1>1, <1>2, EndsShape, EmptyLinks DEF LinksProc
  <2>3. ~SaveBatch(p) \/ LinksSafe(journal'.snap, Served, links')
    BY <1>1, <2>1, SaveShape
  <2>. QED
    BY <1>1, <1>2, <2>1, <2>2, <2>3, EndsShape, LinksOutside
<1>3. CASE SaveBatch(p)
  <2>1. /\ snap'[p].cp = work[p].nextCp /\ snap'[p].completed = snap[p].completed
        /\ snap'[p].parked = snap[p].parked /\ links' = links /\ journal'.snap = snap'[p]
        /\ work'[p].nextCp = Zero /\ pc'[p] \notin InPage
    BY <1>1, <1>3, SaveShape
  <2>2. LinksSafe(snap'[p], Served, links')
    BY <1>1, <2>1 DEF LinksProc, LinksSafe
  <2>3. LinksAhead(snap'[p].parked, work'[p].nextCp, Served, links')
    BY <1>1, <2>1, EmptyLinks
  <2>. QED
    BY <2>1, <2>2, <2>3, LinksOutside
<1>4. CASE SkipCompleted(p) \/ CompleteEmpty(p)
  <2>1. /\ Current(p) \in Routes /\ pc'[p] \notin InPage /\ KeepsMarks(p)
        /\ work'[p].nextCp = work[p].nextCp
    BY <1>1, <1>4, SkipShape DEF InPage
  <2>2. ~SaveBatch(p) \/ LinksSafe(journal'.snap, Served, links')
    <3>1. SaveBatch(p) => work[p].route > Len(RouteOrder) /\ work[p].route <= Len(RouteOrder)
      BY <1>4 DEF SaveBatch, SkipCompleted, CompleteEmpty, AtRoute
    <3>2. work[p].route \in Nat /\ Len(RouteOrder) \in Nat
      BY <1>1, RoutesAssumption DEF TypeOK, Work
    <3>. QED
      BY <3>1, <3>2
  <2>3. CASE \E done : Relinks(p, Current(p), done) /\ snap'[p].completed = snap[p].completed
    <3>1. \A r \in Routes : \A x : Linked(snap[p].parked, links, r, x)
                                     => Linked(snap'[p].parked, links', r, x)
      BY <1>1, <2>1, <2>3, LinkedRelinks
    <3>. QED
      BY <1>1, <2>1, <2>2, <2>3, <3>1, SameLinks, LinksOutside DEF KeepsMarks
  <2>4. CASE /\ links' = links /\ snap'[p].parked = snap[p].parked
             /\ snap'[p].completed = snap[p].completed \cup {Current(p)}
             /\ candidates[Current(p)] = {}
    <3>1. Served[Current(p)] = {}
      BY <2>1, <2>4 DEF Served
    <3>2. LinksSafe(snap'[p], Served, links')
      BY <1>1, <2>1, <2>4, <3>1 DEF LinksProc, LinksSafe, KeepsMarks
    <3>3. LinksAhead(snap'[p].parked, work'[p].nextCp, Served, links')
      BY <1>1, <2>1, <2>4 DEF LinksProc
    <3>. QED
      BY <2>1, <2>2, <3>2, <3>3, LinksOutside
  <2>. QED
    BY <1>1, <1>4, <2>3, <2>4, SkipShape
<1>. QED
  BY <1>2, <1>3, <1>4

(* A page that is read, written or recorded takes nothing away.            *)
LEMMA LinksOfPages ==
    ASSUME LinksInv, OneAtATime, [Next]_vars, NEW p \in Procs,
           \/ ReadPage(p) \/ WriteRecords(p) \/ WriteFails(p) \/ WriteRetried(p)
           \/ Persist(p) \/ CountResults(p)
    PROVE  LinksProc(p)'
<1>. DEFINE r == Current(p)
            old == work[p].page
            new == work'[p].page
<1>1. /\ SoloInv /\ TypeOK /\ snap[p] \in Snapshot /\ LinksProc(p) /\ SoloProc(p)
      /\ pc[p] \in InPage => r \in Routes /\ old \in Page
  BY LinksFacts
<1>2. ASSUME snap'[p].cp = snap[p].cp, snap'[p].completed = snap[p].completed,
             snap'[p].parked = snap[p].parked, links' = links
      PROVE  /\ \A q, x : Linked(snap[p].parked, links, q, x)
                            => Linked(snap'[p].parked, links', q, x)
             /\ LinksSafe(snap'[p], Served, links')
             /\ LinksAhead(snap'[p].parked, work[p].nextCp, Served, links')
  BY <1>1, <1>2, SameLinks
<1>3. CASE ReadPage(p)
  <2>1. /\ r \in Routes /\ pc'[p] = "write" /\ KeepsMarks(p) /\ KeepsBatch(p)
        /\ snap'[p].completed = snap[p].completed /\ \E done : Relinks(p, r, done)
    BY <1>1, <1>3, ReadShape
  <2>2. \A q \in Routes : \A x : Linked(snap[p].parked, links, q, x)
                                   => Linked(snap'[p].parked, links', q, x)
    BY <1>1, <2>1, LinkedRelinks
  <2>. QED
    BY <1>1, <2>1, <2>2, SameLinks, LinksInside DEF KeepsMarks, KeepsBatch
<1>4. CASE WriteRecords(p) \/ WriteFails(p) \/ WriteRetried(p)
  <2>1. pc[p] = "write" /\ pc[p] \in InPage
    BY <1>4 DEF WriteRecords, WriteFails, WriteRetried, AtWrite, InPage
  <2>2. pc' = pc /\ snap' = snap /\ KeepsBatch(p) /\ links' = links
    BY <1>1, <1>4, <2>1, WriteShape
  <2>. QED
    BY <1>2, <2>1, <2>2, LinksInside DEF KeepsBatch
<1>5. CASE Persist(p)
  <2>1. /\ pc[p] = "persist" /\ pc'[p] = "count" /\ snap' = snap /\ work' = work
        /\ links' = links
    BY <1>1, <1>5 DEF Persist, destination, TypeOK
  <2>2. \A x \in old.ids : old.out[x].status # "failed"
          => Linked(snap'[p].parked, links', r, x)
    BY <1>1, <2>1 DEF LinksProc
  <2>. QED
    BY <1>2, <2>1, <2>2, LinksInside
<1>6. CASE CountResults(p)
  <2>1. pc[p] = "count" /\ pc[p] \in InPage
    BY <1>6 DEF CountResults, InPage
  <2>2. /\ pc'[p] = "finish" /\ KeepsBatch(p) /\ links' = links /\ new.ids = old.ids
        /\ snap'[p].cp = snap[p].cp /\ snap'[p].completed = snap[p].completed
        /\ snap'[p].parked = snap[p].parked
        /\ \E failed, prefix : Judged(old, failed, prefix, ledger, r) /\ new.failed = failed
    <3>1. TypeOK /\ r \in Routes
      BY <1>1, <2>1
    <3>2. /\ pc'[p] = "finish" /\ KeepsBatch(p) /\ links' = links /\ new.ids = old.ids
          /\ snap'[p].cp = snap[p].cp /\ snap'[p].completed = snap[p].completed
          /\ snap'[p].parked = snap[p].parked
      BY <1>6, <3>1, CountShape
    <3>3. PICK failed, prefix :
            /\ Judged(old, failed, prefix, ledger, r)
            /\ new.failed = failed
            /\ new.terminalCursor = LastOf(prefix, old.terminalCursor)
            /\ snap'[p].migrated = [snap[p].migrated EXCEPT
                 ![r] = @ + Cardinality(NewIds(old) \ failed)]
            /\ snap'[p].failed = [snap[p].failed EXCEPT
                 ![r] = FailedAfter(@, old.ids, failed)]
      BY <1>6, <3>1, CountShape
    <3>. QED
      BY <3>2, <3>3
  <2>3. ASSUME NEW x \in new.ids \ new.failed
        PROVE  Linked(snap'[p].parked, links', r, x)
    <3>1. x \in old.ids /\ (old.out[x].status = "failed" => IsTerminal(ledger[r][x]))
      BY <2>2, <2>3 DEF Judged
    <3>2. old.ids \subseteq candidates[r]
      BY <2>1, LinksFacts, PageFacts DEF PageSafe
    <3>3. old.out[x].status = "failed" => x \notin Kept[r]
      BY <1>1, <2>1, <3>1 DEF SoloProc, SoloPage
    <3>4. old.out[x].status # "failed"
      BY <1>1, <2>1, <3>1, <3>2, <3>3 DEF Kept, TerminalIds
    <3>. QED
      BY <1>1, <1>2, <2>1, <2>2, <3>1, <3>4 DEF LinksProc
  <2>. HIDE DEF new, r
  <2>. QED
    BY <1>2, <2>2, <2>3, LinksInside DEF KeepsBatch, new, r
<1>. QED
  BY <1>3, <1>4, <1>5, <1>6

(* The relationship phase accounts for every record of the page that did   *)
(* not fail, and leaves the links of all other records where they were.    *)
LEMMA LinksOfPhase ==
    ASSUME LinksInv, OneAtATime, [Next]_vars, NEW p \in Procs, LinkPage(p)
    PROVE  LinksProc(p)'
<1>. DEFINE r == Current(p)
            page == work[p].page
<1>1. pc[p] = "write" /\ pc[p] \in InPage
  BY DEF LinkPage, InPage
<1>2. /\ SoloInv /\ TypeOK /\ snap[p] \in Snapshot /\ LinksProc(p) /\ r \in Routes /\ page \in Page
      /\ PageRead(page, r, snap[p], "write", candidates, Served)
      /\ SoloPage(page, r, "write", Kept)
      /\ Passed(work[p].nextCp, Served, Kept)
  BY <1>1, LinksFacts, PageFacts DEF ProcRead, SoloProc
<1>3. /\ pc'[p] = "persist" /\ work' = work /\ KeepsMarks(p)
      /\ snap'[p].completed = snap[p].completed
      /\ page.ids \subseteq DOMAIN page.out
      /\ \E done :
           /\ links' = links \cup Written(r, done)
           /\ snap'[p].parked = [snap[p].parked EXCEPT ![r] =
                {l \in @ : l.src \notin page.ids} \cup (Wanted(p) \ done)]
  BY <1>2, LinkShape
<1>4. PICK done :
        /\ links' = links \cup Written(r, done)
        /\ snap'[p].parked = [snap[p].parked EXCEPT ![r] =
             {l \in @ : l.src \notin page.ids} \cup (Wanted(p) \ done)]
  BY <1>3
<1>5. /\ snap'[p].parked[r] = {l \in snap[p].parked[r] : l.src \notin page.ids}
                                \cup (Wanted(p) \ done)
      /\ \A q \in Routes \ {r} : snap'[p].parked[q] = snap[p].parked[q]
  BY <1>2, <1>4 DEF Snapshot
<1>6. ASSUME NEW q \in Routes, NEW x, q # r \/ x \notin page.ids,
             Linked(snap[p].parked, links, q, x)
      PROVE  Linked(snap'[p].parked, links', q, x)
  <2>1. SUFFICES ASSUME NEW t \in Relations[q][x], <<q, x, t>> \notin links'
                 PROVE  \E l \in snap'[p].parked[q] : l.src = x /\ l.to = t
    BY DEF Linked
  <2>2. PICK l \in snap[p].parked[q] : l.src = x /\ l.to = t
    BY <1>4, <1>6, <2>1 DEF Linked
  <2>3. l \in snap'[p].parked[q]
    BY <1>5, <1>6, <2>2
  <2>. QED
    BY <2>2, <2>3
<1>7. ASSUME NEW x \in page.ids, page.out[x].status # "failed"
      PROVE  Linked(snap'[p].parked, links', r, x)
  <2>1. SUFFICES ASSUME NEW t \in Relations[r][x], <<r, x, t>> \notin links'
                 PROVE  \E l \in snap'[p].parked[r] : l.src = x /\ l.to = t
    BY DEF Linked
  <2>2. x \in Records /\ page.out[x].known \in BOOLEAN
    <3>1. PICK D \in SUBSET Records : page.out \in [D -> Outcome]
      BY <1>2 DEF Page, PartialOutcomes
    <3>2. page.out[x] \in Outcome
      BY <1>3, <3>1
    <3>. QED
      BY <1>2, <3>2 DEF Outcome, Page
  <2>3. t \in Targets
    BY <1>2, <2>2, LinksAssumption
  <2>4. PICK l : l = [src |-> x, to |-> t, known |-> page.out[x].known]
    OBVIOUS
  <2>5. l \in Link /\ l.src = x /\ l.to = t /\ l.known = page.out[x].known
    BY <2>2, <2>3, <2>4 DEF Link
  <2>6. l \in Wanted(p)
    BY <1>7, <2>5, Zenon DEF Wanted
  <2>7. l \notin done
    BY <1>4, <2>1, <2>5 DEF Written
  <2>. QED
    BY <1>5, <2>5, <2>6, <2>7
<1>8. \A x \in page.ids : x \in Kept[r] => page.out[x].status # "failed"
  BY <1>2 DEF SoloPage
<1>9. \A x \in page.ids : snap[p].cp[r] < x /\ x \in Nat /\ snap[p].cp[r] \in Nat
  BY <1>2, RecordsFinite DEF PageRead, Page, Snapshot
<1>. HIDE DEF page, r
<1>10. ASSUME NEW q \in Routes, NEW x \in Served[q], Linked(snap[p].parked, links, q, x),
              \/ x <= snap[p].cp[q] \/ q \in snap[p].completed
              \/ x <= work[p].nextCp[q]
       PROVE  Linked(snap'[p].parked, links', q, x)
  <2>1. CASE q # r \/ x \notin page.ids
    BY <1>6, <1>10, <2>1
  <2>2. CASE q = r /\ x \in page.ids
    <3>1. r \notin snap[p].completed
      BY <1>2 DEF PageRead
    <3>2. x <= work[p].nextCp[q]
      BY <1>9, <1>10, <2>2, <3>1
    <3>3. x \in Kept[r]
      BY <1>10, <1>2, <2>2, <3>2 DEF Passed
    <3>. QED
      BY <1>7, <1>8, <2>2, <3>3
  <2>. QED
    BY <2>1, <2>2
<1>11. LinksSafe(snap'[p], Served, links')
  <2>1. snap[p].completed \subseteq Routes
    BY <1>2 DEF Snapshot
  <2>. QED
    BY <1>2, <1>3, <1>10, <2>1 DEF LinksProc, LinksSafe, LinksAhead, KeepsMarks
<1>12. LinksAhead(snap'[p].parked, work'[p].nextCp, Served, links')
  BY <1>2, <1>3, <1>10 DEF LinksProc, LinksAhead
<1>. QED
  BY <1>3, <1>7, <1>11, <1>12, LinksInside DEF page, r

(* The checkpoint a page decides on leaves behind only records whose       *)
(* relationships are accounted for, and so does the route's completion.    *)
LEMMA LinksOfFinish ==
    ASSUME LinksInv, OneAtATime, [Next]_vars, NEW p \in Procs, FinishRoute(p)
    PROVE  LinksProc(p)'
<1>. DEFINE r == Current(p)
            page == work[p].page
            cp == NextCheckpoint(page)
<1>1. pc[p] = "finish" /\ pc[p] \in InPage
  BY DEF FinishRoute, InPage
<1>2. /\ TypeOK /\ snap[p] \in Snapshot /\ LinksProc(p) /\ r \in Routes /\ page \in Page
      /\ PageRead(page, r, snap[p], "finish", candidates, Served)
      /\ work[p].nextCp \in [Routes -> Nat]
  BY <1>1, LinksFacts DEF ProcRead, TypeOK, Work
<1>3. /\ pc'[p] \notin InPage /\ KeepsMarks(p)
      /\ work'[p].nextCp = [work[p].nextCp EXCEPT ![r] = cp]
      /\ \E done : Relinks(p, r, done)
      /\ \/ snap'[p].completed = snap[p].completed
         \/ /\ snap'[p].completed = snap[p].completed \cup {r}
            /\ page.failed = {} /\ ~page.more
  BY <1>2, FinishShape DEF InPage
<1>4. \A q \in Routes : \A x : Linked(snap[p].parked, links, q, x)
                                 => Linked(snap'[p].parked, links', q, x)
  BY <1>2, <1>3, LinkedRelinks
<1>5. \A x \in page.ids \ page.failed : Linked(snap[p].parked, links, r, x)
  BY <1>1, <1>2 DEF LinksProc
<1>6. ASSUME NEW x \in Served[r], x <= snap[p].cp[r]
      PROVE  Linked(snap[p].parked, links, r, x)
  BY <1>2, <1>6 DEF LinksProc, LinksSafe, LinksAhead
<1>7. ASSUME NEW x \in Served[r], x <= cp
      PROVE  Linked(snap[p].parked, links, r, x)
  <2>1. x \in Nat \ {0} /\ page.last \in Nat /\ page.terminalCursor \in Nat /\ snap[p].cp[r] \in Nat
    BY <1>2, RecordsAssumption DEF TypeOK, Served, Records, Page, Snapshot
  <2>2. CASE page.failed # {}
    <3>1. cp = page.terminalCursor
      BY <2>2 DEF NextCheckpoint
    <3>2. \A y \in page.failed : page.terminalCursor < y /\ y \in Nat
      BY <1>2, RecordsFinite DEF PageRead, Page
    <3>3. x \notin page.failed
      BY <1>7, <2>1, <3>1, <3>2
    <3>4. page.terminalCursor = snap[p].cp[r] \/ page.terminalCursor <= page.last
      BY <1>2 DEF PageRead
    <3>5. x <= snap[p].cp[r] \/ x \in page.ids
      <4>1. x <= snap[p].cp[r] \/ x <= page.last
        BY <1>7, <2>1, <3>1, <3>4
      <4>. QED
        BY <1>2, <1>7, <4>1 DEF PageRead
    <3>. QED
      BY <1>5, <1>6, <1>7, <3>3, <3>5
  <2>3. CASE page.failed = {} /\ page.more
    <3>1. cp = page.last
      BY <2>3 DEF NextCheckpoint
    <3>2. x <= snap[p].cp[r] \/ x \in page.ids
      BY <1>2, <1>7, <3>1 DEF PageRead
    <3>. QED
      BY <1>5, <1>6, <1>7, <2>3, <3>2
  <2>4. CASE page.failed = {} /\ ~page.more
    BY <1>7, <2>1, <2>4 DEF NextCheckpoint
  <2>. QED
    BY <2>2, <2>3, <2>4
<1>8. ASSUME page.failed = {}, ~page.more, NEW x \in Served[r]
      PROVE  Linked(snap[p].parked, links, r, x)
  <2>1. x <= snap[p].cp[r] \/ x \in page.ids
    BY <1>2, <1>8 DEF PageRead
  <2>. QED
    BY <1>5, <1>6, <1>8, <2>1
<1>. HIDE DEF cp, r, page
<1>9. LinksSafe(snap'[p], Served, links')
  <2>1. snap[p].completed \subseteq Routes
    BY <1>2 DEF Snapshot
  <2>2. LinksAhead(snap'[p].parked, snap'[p].cp, Served, links')
    BY <1>2, <1>3, <1>4 DEF LinksProc, LinksSafe, LinksAhead, KeepsMarks
  <2>3. \A q \in snap'[p].completed : \A x \in Served[q] : Linked(snap'[p].parked, links', q, x)
    BY <1>2, <1>3, <1>4, <1>8, <2>1 DEF LinksProc, LinksSafe
  <2>. QED
    BY <2>2, <2>3 DEF LinksSafe
<1>10. LinksAhead(snap'[p].parked, work'[p].nextCp, Served, links')
  BY <1>2, <1>3, <1>4, <1>7 DEF LinksProc, LinksAhead
<1>. QED
  BY <1>3, <1>9, <1>10, LinksOutside

(* No record is passed before the first step.                              *)
LEMMA LinksInit == Init => LinksInv
<1>. SUFFICES ASSUME Init
              PROVE  LinksInv
  OBVIOUS
<1>1. PageInv /\ TypeOK
  BY PageInit, TypeInit
<1>2. SoloInv
  BY <1>1 DEF PageInv, Init, SoloInv, SoloProc, Busy, InPage
<1>3. journal.snap = EmptySnapshot
  BY DEF Init
<1>4. ASSUME NEW p \in Procs
      PROVE  LinksProc(p)
  <2>1. /\ snap[p] = EmptySnapshot /\ work[p].nextCp = Zero /\ pc[p] = "idle"
    BY DEF Init, NoWork, NewBatch, Zero
  <2>. QED
    BY <1>1, <2>1, EmptyLinks DEF LinksProc
<1>. QED
  BY <1>1, <1>2, <1>3, <1>4, EmptyLinks DEF LinksInv

(* The journal takes over a snapshot whose relationships are accounted     *)
(* for, and the destination keeps what it has.                             *)
LEMMA LinksJournal ==
    ASSUME LinksInv, OneAtATime, [Next]_vars
    PROVE  LinksSafe(journal'.snap, Served, links') /\ links \subseteq links'
<1>1. TypeOK /\ PageInv
  BY ReadViews DEF LinksInv
<1>2. LinksSafe(journal.snap, Served, links) /\ journal.snap \in Snapshot
  BY <1>1 DEF LinksInv, TypeOK
<1>3. ASSUME links \subseteq links', journal'.snap = journal.snap
      PROVE  LinksSafe(journal'.snap, Served, links')
  BY <1>2, <1>3, LinksGrow
<1>4. ASSUME Environment \/ UNCHANGED vars
      PROVE  links' = links /\ journal'.snap = journal.snap
  BY <1>1, <1>4 DEF Environment, Cancel, SourceInsert, SourceDelete, vars, durable,
     destination, TypeOK
<1>5. ASSUME NEW p \in Procs, Start(p) \/ Step(p) \/ Crash(p)
      PROVE  LinksSafe(journal'.snap, Served, links') /\ links \subseteq links'
  <2>1. CASE SaveBatch(p)
    <3>1. links' = links
      BY <1>1, <2>1, SaveShape
    <3>. QED
      BY <2>1, <3>1, LinksOfSteps
  <2>2. CASE SaveFailed(p)
    <3>1. journal'.snap = snap[p] /\ links' = links
      BY <2>2 DEF SaveFailed, Save, destination
    <3>. QED
      BY <3>1 DEF LinksInv, LinksProc
  <2>3. CASE Ends(p) /\ ~SaveFailed(p)
    <3>1. links' = links
      BY <1>1, <2>3, EndsShape
    <3>2. journal' = journal
      BY <2>3 DEF Ends, Start, Load, Claim, ReadFails, PersistShort, Report, Crash, durable
    <3>. QED
      BY <1>3, <3>1, <3>2
  <2>4. CASE SkipCompleted(p) \/ CompleteEmpty(p)
    <3>1. links \subseteq links'
      BY <1>1, <2>4, SkipShape DEF Relinks
    <3>2. journal' = journal
      BY <2>4 DEF SkipCompleted, CompleteEmpty, durable
    <3>. QED
      BY <1>3, <3>1, <3>2
  <2>5. CASE ReadPage(p)
    <3>1. links \subseteq links' /\ journal' = journal
      BY <1>1, <2>5, ReadShape DEF Relinks
    <3>. QED
      BY <1>3, <3>1
  <2>6. CASE /\ pc[p] \in InPage
             /\ \/ WriteRecords(p) \/ WriteFails(p) \/ WriteRetried(p) \/ LinkPage(p)
                \/ CountResults(p) \/ FinishRoute(p)
    <3>1. Current(p) \in Routes
      BY <1>1, <2>6, ReadFacts
    <3>2. links \subseteq links' /\ journal' = journal
      BY <1>1, <2>6, <3>1, WriteShape, LinkShape, CountShape, FinishShape DEF Relinks
    <3>. QED
      BY <1>3, <3>2
  <2>7. CASE Persist(p)
    BY <1>3, <2>7 DEF Persist, destination
  <2>8. WriteRecords(p) \/ WriteFails(p) \/ WriteRetried(p) \/ LinkPage(p)
          \/ CountResults(p) \/ FinishRoute(p) => pc[p] \in InPage
    BY DEF WriteRecords, WriteFails, WriteRetried, AtWrite, LinkPage, CountResults,
       FinishRoute, InPage
  <2>. QED
    BY <1>5, <2>1, <2>2, <2>3, <2>4, <2>5, <2>6, <2>7, <2>8 DEF Step, Ends
<1>. QED
  BY <1>3, <1>4, <1>5 DEF Next

(* Every step of a process and of its environment keeps it.                *)
LEMMA LinksNext == LinksInv /\ [Next]_vars => LinksInv'
<1>. SUFFICES ASSUME LinksInv, [Next]_vars
              PROVE  LinksInv'
  OBVIOUS
<1>1. PageInv' /\ SoloInv'
  BY PageNext, SoloNext DEF LinksInv
<1>2. ASSUME OneAtATime
      PROVE  LinksSafe(journal'.snap, Served', links')
  <2>1. LinksSafe(journal'.snap, Served, links') /\ links' \subseteq links'
    BY <1>2, LinksJournal
  <2>2. \A r \in Routes : Served'[r] \subseteq Served[r]
    BY ReadViews DEF LinksInv
  <2>3. journal'.snap \in Snapshot
    BY <1>1 DEF PageInv, ProgressInv, IInv, TypeOK
  <2>. QED
    BY <2>1, <2>2, <2>3, LinksGrow
<1>3. ASSUME OneAtATime, NEW p \in Procs
      PROVE  LinksProc(p)'
  <2>1. CASE Environment \/ UNCHANGED vars
    <3>1. pc' = pc /\ snap' = snap /\ work' = work /\ links' = links
      BY <2>1 DEF Environment, Cancel, SourceInsert, SourceDelete, vars, destination
    <3>2. /\ LinksProc(p) /\ snap[p] \in Snapshot
          /\ \A r \in Routes : Served'[r] \subseteq Served[r]
      BY <1>3, LinksFacts
    <3>3. /\ LinksSafe(snap[p], Served', links)
          /\ LinksAhead(snap[p].parked, work[p].nextCp, Served', links)
      BY <3>2, LinksShrink DEF LinksProc
    <3>. QED
      BY <3>1, <3>2, <3>3 DEF LinksProc, Current
  <2>. QED
    BY <1>3, <2>1, LinksOfSteps, LinksOfPages, LinksOfPhase, LinksOfFinish, SoloSteps
    DEF Step, Ends
<1>. QED
  BY <1>1, <1>2, <1>3 DEF LinksInv

(* The invariant of relationships holds in every reachable state.          *)
LEMMA LinksInvariance == Spec => []LinksInv
BY LinksInit, LinksNext, PTL DEF Spec

(* What a checkpoint or a completed route of one process leaves behind is  *)
(* settled: every approved record the source still serves has a terminal   *)
(* row, none is reported as failed by a completed run, and each of its     *)
(* relationships is in the destination or parked, for any page size.       *)
THEOREM PagesLoseNothing ==
    ASSUME OneAtATime
    PROVE  Spec => []PagesTrue
<1>1. ASSUME LinksInv
      PROVE  LinksAccounted
  <2>1. \A s \in Snapshots : LinksSafe(s, Served, links)
    BY <1>1 DEF LinksInv, LinksProc, Snapshots
  <2>2. ASSUME NEW s \in Snapshots, NEW r \in Routes, NEW x \in candidates[r] \cap source[r],
               r \in s.completed \/ x <= s.cp[r]
        PROVE  Accounted(s, r, x)
    <3>1. x \in Served[r]
      BY DEF Served
    <3>2. Linked(s.parked, links, r, x)
      BY <2>1, <2>2, <3>1 DEF LinksSafe, LinksAhead
    <3>. QED
      BY <3>2 DEF Linked, Accounted
  <2>. QED
    BY <2>2 DEF LinksAccounted
<1>2. LinksInv => CheckpointSafe
  BY ProgressMeans DEF LinksInv, PageInv
<1>. QED
  BY <1>1, <1>2, LinksInvariance, CompletedRunsReportNoStaleFailure, PTL DEF PagesTrue

=============================================================================

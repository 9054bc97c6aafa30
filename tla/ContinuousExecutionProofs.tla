---------------------- MODULE ContinuousExecutionProofs ----------------------
(***************************************************************************)
(* Proofs about ContinuousExecution, for every number of workers, attempts,*)
(* routes and records and every bound: what the journal row says of the    *)
(* ledger, that a loop that ends "completed" met the frozen totals, and    *)
(* that the row is fenced.                                                 *)
(***************************************************************************)
EXTENDS ContinuousExecution, FiniteSetTheorems, TLAPS

-----------------------------------------------------------------------------
(* The inductive invariant.  Its parts take the tables as arguments, so    *)
(* that they can be said of a step's outcome.                              *)

Done(led, r) == {x \in Records : IsTerminal(led[r][x])}

(* What a snapshot says of the ledger: it counts terminal rows only, and   *)
(* passes over terminal records only.                                      *)
Counted(snap, led) ==
    \A r \in Routes : snap.processed[r] <= Cardinality(Done(led, r))
Passed(done, cp, src, led) ==
    \A r \in Routes : \A x \in src[r] :
        r \in done \/ x <= cp[r] => IsTerminal(led[r][x])
SnapTrue(snap, src, led) ==
    Counted(snap, led) /\ Passed(snap.completed, snap.cp, src, led)

(* A page: every record still in the source up to its last one, or on the  *)
(* whole route when it was the last page, is in it or terminal.            *)
PageTrue(page, r, src, frz, led) ==
    /\ page.ids \subseteq frz[r]
    /\ ~page.seen => page.ids = {}
    /\ page.seen => \A x \in src[r] :
         ~page.more \/ (\E y \in page.ids : x <= y) =>
            x \in page.ids \/ IsTerminal(led[r][x])
PagesTrue(pages, src, frz, led) ==
    \A r \in Routes : PageTrue(pages[r], r, src, frz, led)

(* The page in hand was not counted yet, whoever migrates it meanwhile.    *)
PageInHand(k, led) ==
    LET r == RouteOrder[k.at]
        new == k.pages[r].ids \ k.already
    IN  /\ k.at <= Len(RouteOrder)
        /\ k.pages[r].seen
        /\ k.already \subseteq k.pages[r].ids \cap Done(led, r)
        /\ k.entry.snap.processed[r] <= Cardinality(Done(led, r) \ new)

(* The snapshot a step handed over: its pages, and no more only when every *)
(* route it read is completed.                                             *)
HandedOver(snap, src, frz, led) ==
    /\ PagesTrue(snap.pages, src, frz, led)
    /\ \A r \in Routes : snap.pages[r].seen /\ ~snap.hasMore => r \in snap.completed

(* A loop that ended "completed" met the frozen totals.                    *)
LoopMet(k, frz, led) ==
    k.looped /\ k.result = "completed" =>
        \A r \in Routes \ UnknownTotals : frz[r] \subseteq Done(led, r)

WorkTrue(k, place, src, frz, led) ==
    /\ SnapTrue(k.entry.snap, src, led)
    /\ PagesTrue(k.pages, src, frz, led)
    /\ k.nextCp \in [Routes -> 0 .. MaxRecord]
    /\ Passed({}, k.nextCp, src, led)
    /\ place = "write" => PageInHand(k, led)
    /\ place = "conclude" => HandedOver(k.entry.snap, src, frz, led)
    /\ LoopMet(k, frz, led)

(* Nothing was migrated that was not frozen.                               *)
ScopeTrue(src, frz, led) ==
    \A r \in Routes : src[r] \subseteq frz[r] /\ Done(led, r) \subseteq frz[r]

BackedInv ==
    /\ TypeOK
    /\ ScopeTrue(source, frozen, ledger)
    /\ SnapTrue(row.entry.snap, source, ledger)
    /\ \A w \in Workers : WorkTrue(work[w], pc[w], source, frozen, ledger)

(* What the world does to the tables: the source shrinks, terminal rows    *)
(* stay.                                                                   *)
Grown(src, led, newSrc, newLed) ==
    \A r \in Routes : newSrc[r] \subseteq src[r] /\ Done(led, r) \subseteq Done(newLed, r)

-----------------------------------------------------------------------------
(* Helpers of KeysetSource and ExecutionLedger.                            *)

LEMMA RecordsFinite ==
    /\ MaxRecord \in Nat /\ Records \subseteq Nat /\ Records = 1 .. MaxRecord
    /\ \A S \in SUBSET Records : IsFiniteSet(S) /\ Cardinality(S) \in Nat
<1>1. MaxRecord \in Nat /\ Records = 1 .. MaxRecord
  BY BoundsAssumption DEF Records
<1>2. IsFiniteSet(Records)
  BY <1>1, FS_Interval
<1>3. ASSUME NEW S \in SUBSET Records
      PROVE  IsFiniteSet(S) /\ Cardinality(S) \in Nat
  BY <1>2, FS_Subset, FS_CardinalityType
<1>. QED
  BY <1>1, <1>3

(* A smaller set has no more members.                                      *)
LEMMA FewerCount ==
    ASSUME NEW S \in SUBSET Records, NEW T \in SUBSET S
    PROVE  /\ Cardinality(T) <= Cardinality(S)
           /\ Cardinality(S) <= Cardinality(T) => S = T
<1>1. /\ IsFiniteSet(S) /\ IsFiniteSet(T) /\ T \in SUBSET S
      /\ Cardinality(S) \in Nat /\ Cardinality(T) \in Nat
  BY RecordsFinite
<1>2. Cardinality(T) <= Cardinality(S) /\ (Cardinality(S) = Cardinality(T) => S = T)
  BY <1>1, FS_Subset
<1>. QED
  BY <1>1, <1>2

(* Two sets without a common member count together.                        *)
LEMMA ApartCount ==
    ASSUME NEW S \in SUBSET Records, NEW T \in SUBSET Records, S \cap T = {},
           NEW U \in SUBSET Records, S \cup T \subseteq U
    PROVE  Cardinality(S) + Cardinality(T) <= Cardinality(U)
<1>1. /\ IsFiniteSet(S) /\ IsFiniteSet(T) /\ S \cup T \in SUBSET Records
      /\ Cardinality(S) \in Nat /\ Cardinality(T) \in Nat
  BY RecordsFinite
<1>2. Cardinality(S \cup T) = Cardinality(S) + Cardinality(T) - Cardinality(S \cap T)
  BY <1>1, FS_Union
<1>3. Cardinality(S \cap T) = 0
  BY FS_EmptySet
<1>4. Cardinality(S \cup T) <= Cardinality(U)
  BY FewerCount
<1>. QED
  BY <1>1, <1>2, <1>3, <1>4

LEMMA NatMinimum ==
    ASSUME NEW T \in SUBSET Nat, T # {}
    PROVE  \E x \in T : \A y \in T : x <= y
<1>1. \A x, y \in Nat : y < x => <<y, x>> \in OpToRel(<, Nat)
  <2>1. SUFFICES ASSUME NEW x \in Nat, NEW y \in Nat, y < x
                 PROVE  <<y, x>> \in {ss \in Nat \X Nat : ss[1] < ss[2]}
    BY Zenon DEF OpToRel
  <2>. QED
    BY <2>1
<1>2. \E x \in T : \A y \in T : <<y, x>> \notin OpToRel(<, Nat)
  BY WFMin, NatLessThanWellFounded
<1>3. PICK x \in T : \A y \in T : ~(y < x)
  BY <1>1, <1>2, Zenon
<1>. QED
  BY <1>3

(* A nonempty set of identities has a least one. *)
LEMMA FirstOfIn ==
    ASSUME NEW S \in SUBSET Records, S # {}
    PROVE  FirstOf(S) \in S /\ \A y \in S : FirstOf(S) <= y
BY RecordsFinite, NatMinimum DEF FirstOf

(* LastOf is the greatest identity of the set, or the default. *)
LEMMA LastOfIn ==
    ASSUME NEW S \in SUBSET Records, NEW d
    PROVE  /\ S = {} => LastOf(S, d) = d
           /\ S # {} => LastOf(S, d) \in S /\ \A y \in S : y <= LastOf(S, d)
<1>1. CASE S = {}
  BY <1>1 DEF LastOf
<1>2. CASE S # {}
  <2>. DEFINE U == {n \in Nat : \A y \in S : y <= n}
  <2>1. S \subseteq Nat /\ MaxRecord \in U
    BY RecordsFinite
  <2>2. PICK m \in U : \A n \in U : m <= n
    BY <2>1, NatMinimum
  <2>3. m \in S
    <3>1. SUFFICES ASSUME m \notin S
                   PROVE  FALSE
      OBVIOUS
    <3>2. \A y \in S : y < m
      BY <2>1, <3>1
    <3>3. m > 0
      <4>1. PICK y \in S : TRUE
        BY <1>2
      <4>. QED
        BY <2>1, <3>2, <4>1
    <3>4. m - 1 \in U
      BY <2>1, <3>2, <3>3
    <3>. QED
      BY <2>2, <3>4
  <2>4. \E x \in S : \A y \in S : y <= x
    BY <2>3
  <2>. HIDE DEF U
  <2>. QED
    BY <1>2, <2>4 DEF LastOf
<1>. QED
  BY <1>1, <1>2

(* A record of the source after the cursor is on the page when the page is *)
(* the last one or holds a later record.                                   *)
LEMMA PageReads ==
    ASSUME NEW S \in SUBSET Records, NEW cp \in 0 .. MaxRecord
    PROVE  /\ PageOf(S, cp, BatchSize) \in SUBSET S
           /\ \A x \in S :
                cp < x /\ (~HasMore(S, cp, BatchSize)
                           \/ \E y \in PageOf(S, cp, BatchSize) : x <= y)
                  => x \in PageOf(S, cp, BatchSize)
<1>1. PageOf(S, cp, BatchSize) \in SUBSET S
  BY DEF PageOf, After
<1>2. ASSUME NEW x \in S, cp < x, ~HasMore(S, cp, BatchSize)
      PROVE  x \in PageOf(S, cp, BatchSize)
  BY <1>2 DEF HasMore, After
<1>3. ASSUME NEW x \in S, cp < x, NEW y \in PageOf(S, cp, BatchSize), x <= y
      PROVE  x \in PageOf(S, cp, BatchSize)
  <2>. DEFINE Before(z) == {v \in After(S, cp) : v < z}
  <2>0. x \in After(S, cp) /\ After(S, cp) \in SUBSET Records /\ y \in Records
    BY <1>1, <1>3 DEF After
  <2>1. /\ x \in Nat /\ y \in Nat /\ \A v \in After(S, cp) : v \in Nat
        /\ Before(y) \in SUBSET Records
    BY <2>0, RecordsFinite
  <2>2. Before(x) \in SUBSET Before(y)
    BY <1>3, <2>1
  <2>3. Cardinality(Before(y)) < BatchSize
    BY DEF PageOf
  <2>4. Cardinality(Before(x)) <= Cardinality(Before(y))
    BY <2>1, <2>2, FewerCount
  <2>5. Cardinality(Before(x)) \in Nat /\ Cardinality(Before(y)) \in Nat /\ BatchSize \in Nat
    BY <2>1, <2>2, RecordsFinite, BoundsAssumption
  <2>6. Cardinality(Before(x)) < BatchSize
    BY <2>3, <2>4, <2>5
  <2>. QED
    BY <2>0, <2>6 DEF PageOf
<1>. QED
  BY <1>1, <1>2, <1>3

(* An upsert keeps the table's type and every terminal row; the rows it    *)
(* leaves terminal were terminal or are reported so.                       *)
Upserted(table, r, ids, out, new) ==
    /\ new \in [Routes -> [Records -> Row]]
    /\ \A q \in Routes : Done(table, q) \subseteq Done(new, q)
    /\ \A q \in Routes : q # r => Done(new, q) = Done(table, q)
    /\ Done(new, r) \subseteq Done(table, r) \cup ids
    /\ \A x \in ids : out[x].status \in Terminal => x \in Done(new, r)

LEMMA UpsertKeeps ==
    ASSUME NEW table \in [Routes -> [Records -> Row]], NEW r \in Routes,
           NEW ids \in SUBSET Records, NEW out \in [ids -> Outcome], NEW new,
           new = UpsertResults(table, r, ids, out)
    PROVE  Upserted(table, r, ids, out, new)
<1>1. \A q \in Routes : \A x \in Records :
        new[q][x] = IF q = r /\ x \in ids THEN Merge(table[q][x], out[x]) ELSE table[q][x]
  BY DEF UpsertResults
<1>2. \A x \in ids : Merge(table[r][x], out[x]) \in Row
  BY DEF Row, Outcome, Merge, Status
<1>3. new \in [Routes -> [Records -> Row]]
  BY <1>2 DEF UpsertResults
<1>4. \A x \in ids : IsTerminal(Merge(table[r][x], out[x]))
                       <=> IsTerminal(table[r][x]) \/ out[x].status \in Terminal
  BY DEF Merge, IsTerminal
<1>. QED
  BY <1>1, <1>3, <1>4 DEF Done, Upserted

-----------------------------------------------------------------------------
(* What is true of a snapshot, a page or a worker stays true while the     *)
(* source shrinks and the ledger grows.                                    *)

Sources == [Routes -> SUBSET Records]
Ledgers == [Routes -> [Records -> Row]]

LEMMA DoneCounts ==
    ASSUME NEW led \in Ledgers, NEW new \in Ledgers, NEW r \in Routes,
           Done(led, r) \subseteq Done(new, r), NEW T
    PROVE  /\ Cardinality(Done(led, r) \ T) \in Nat
           /\ Cardinality(Done(led, r) \ T) <= Cardinality(Done(new, r) \ T)
<1>1. /\ Done(led, r) \ T \in SUBSET Records /\ Done(new, r) \ T \in SUBSET Records
      /\ Done(led, r) \ T \in SUBSET (Done(new, r) \ T)
  BY DEF Done
<1>. QED
  BY <1>1, FewerCount, RecordsFinite

LEMMA PassedGrows ==
    ASSUME NEW src \in Sources, NEW newSrc \in Sources, NEW led \in Ledgers,
           NEW newLed \in Ledgers, Grown(src, led, newSrc, newLed),
           NEW done, NEW cp, Passed(done, cp, src, led)
    PROVE  Passed(done, cp, newSrc, newLed)
BY DEF Passed, Grown, Done, Sources

LEMMA SnapGrows ==
    ASSUME NEW src \in Sources, NEW newSrc \in Sources, NEW led \in Ledgers,
           NEW newLed \in Ledgers, Grown(src, led, newSrc, newLed),
           NEW snap \in Snapshot, SnapTrue(snap, src, led)
    PROVE  SnapTrue(snap, newSrc, newLed)
<1>1. ASSUME NEW r \in Routes
      PROVE  snap.processed[r] <= Cardinality(Done(newLed, r))
  <2>1. Done(led, r) \ {} = Done(led, r) /\ Done(newLed, r) \ {} = Done(newLed, r)
    OBVIOUS
  <2>2. /\ Cardinality(Done(led, r)) \in Nat /\ Cardinality(Done(newLed, r)) \in Nat
        /\ Cardinality(Done(led, r)) <= Cardinality(Done(newLed, r))
    <3>1. Done(led, r) \subseteq Done(newLed, r)
      BY DEF Grown
    <3>2. Done(led, r) \in SUBSET Records /\ Done(newLed, r) \in SUBSET Records
      BY DEF Done
    <3>. QED
      BY <3>1, <3>2, FewerCount, RecordsFinite
  <2>3. snap.processed[r] \in Nat /\ snap.processed[r] <= Cardinality(Done(led, r))
    BY DEF SnapTrue, Counted, Snapshot
  <2>. QED
    BY <2>2, <2>3
<1>2. Counted(snap, newLed)
  BY <1>1 DEF Counted
<1>. QED
  BY <1>2, PassedGrows DEF SnapTrue

LEMMA PagesGrow ==
    ASSUME NEW src \in Sources, NEW newSrc \in Sources, NEW led \in Ledgers,
           NEW newLed \in Ledgers, Grown(src, led, newSrc, newLed),
           NEW frz \in Sources, NEW pages, PagesTrue(pages, src, frz, led)
    PROVE  PagesTrue(pages, newSrc, frz, newLed)
BY DEF PagesTrue, PageTrue, Grown, Done, Sources

LEMMA HandGrows ==
    ASSUME NEW led \in Ledgers, NEW newLed \in Ledgers,
           \A r \in Routes : Done(led, r) \subseteq Done(newLed, r),
           NEW k \in Work, PageInHand(k, led)
    PROVE  PageInHand(k, newLed)
<1>. DEFINE r == RouteOrder[k.at]
            new == k.pages[r].ids \ k.already
<1>1. r \in Routes
  BY DEF PageInHand, Work, Routes
<1>2. Done(led, r) \subseteq Done(newLed, r)
  BY <1>1
<1>3. /\ Cardinality(Done(led, r) \ new) \in Nat /\ Cardinality(Done(newLed, r) \ new) \in Nat
      /\ Cardinality(Done(led, r) \ new) <= Cardinality(Done(newLed, r) \ new)
  BY <1>1, <1>2, DoneCounts
<1>4. k.entry.snap.processed[r] \in Nat
  BY <1>1 DEF Work, Entry, Snapshot
<1>5. k.entry.snap.processed[r] <= Cardinality(Done(led, r) \ new)
  BY DEF PageInHand
<1>6. k.entry.snap.processed[r] <= Cardinality(Done(newLed, r) \ new)
  BY <1>3, <1>4, <1>5
<1>7. k.already \subseteq k.pages[r].ids \cap Done(newLed, r)
  BY <1>2 DEF PageInHand
<1>. QED
  BY <1>6, <1>7 DEF PageInHand

LEMMA WorkGrows ==
    ASSUME NEW src \in Sources, NEW newSrc \in Sources, NEW led \in Ledgers,
           NEW newLed \in Ledgers, Grown(src, led, newSrc, newLed),
           NEW frz \in Sources, NEW k \in Work, NEW place,
           WorkTrue(k, place, src, frz, led)
    PROVE  WorkTrue(k, place, newSrc, frz, newLed)
<1>1. k.entry.snap \in Snapshot
  BY DEF Work, Entry
<1>2. SnapTrue(k.entry.snap, newSrc, newLed)
  BY <1>1, SnapGrows DEF WorkTrue
<1>3. PagesTrue(k.pages, newSrc, frz, newLed) /\ Passed({}, k.nextCp, newSrc, newLed)
  BY PagesGrow, PassedGrows DEF WorkTrue
<1>4. place = "write" => PageInHand(k, newLed)
  BY HandGrows DEF WorkTrue, Grown
<1>5. place = "conclude" => HandedOver(k.entry.snap, newSrc, frz, newLed)
  BY PagesGrow DEF WorkTrue, HandedOver
<1>6. LoopMet(k, frz, newLed)
  BY DEF WorkTrue, LoopMet, Grown
<1>. QED
  BY <1>2, <1>3, <1>4, <1>5, <1>6 DEF WorkTrue

-----------------------------------------------------------------------------
(* The values a worker starts from.                                        *)

LEMMA ConstantsTyped ==
    /\ EmptySnapshot \in Snapshot /\ NoPages \in [Routes -> Page]
    /\ \A s \in ExecutionStatus : \A a \in MaybeAttempt : NewEntry(s, a) \in Entry
    /\ \A s \in Snapshot : ProgressMarker(s) \in Marker
    /\ Len(RouteOrder) \in Nat
    /\ NoWork \in Work /\ NoJournal \in Journal
<1>1. NoPages \in [Routes -> Page]
  BY DEF NoPages, NoPage, Page
<1>2. EmptySnapshot \in Snapshot
  BY <1>1, RecordsFinite DEF EmptySnapshot, Snapshot
<1>3. \A s \in ExecutionStatus : \A a \in MaybeAttempt : NewEntry(s, a) \in Entry
  BY <1>2 DEF NewEntry, Entry, Scope, MaybeAttempt
<1>4. \A s \in Snapshot : ProgressMarker(s) \in Marker
  BY RecordsFinite DEF ProgressMarker, Marker, Snapshot
<1>5. Len(RouteOrder) \in Nat
  BY BoundsAssumption
<1>6. NewEntry("queued", NoAttempt) \in Entry
  BY <1>3 DEF ExecutionStatus, MaybeAttempt
<1>7. EmptySnapshot.cp \in [Routes -> Nat]
  BY DEF EmptySnapshot
<1>8. NoWork \in Work
  BY <1>1, <1>2, <1>4, <1>5, <1>6, <1>7 DEF NoWork, Work
<1>9. NoJournal \in Journal
  BY <1>6 DEF NoJournal, Journal
<1>. QED
  BY <1>1, <1>2, <1>3, <1>4, <1>5, <1>8, <1>9

(* An empty snapshot counts and passes nothing.                            *)
LEMMA EmptyTrue ==
    ASSUME NEW src \in Sources, NEW led \in Ledgers
    PROVE  SnapTrue(EmptySnapshot, src, led) /\ Passed({}, EmptySnapshot.cp, src, led)
<1>1. \A r \in Routes : EmptySnapshot.processed[r] <= Cardinality(Done(led, r))
  <2>1. \A r \in Routes : Cardinality(Done(led, r)) \in Nat
    BY RecordsFinite DEF Done
  <2>. QED
    BY <2>1 DEF EmptySnapshot
<1>2. \A r \in Routes : \A x \in src[r] : ~(x <= 0)
  BY RecordsFinite DEF Sources
<1>. QED
  BY <1>1, <1>2 DEF SnapTrue, Counted, Passed, EmptySnapshot

(* A worker that is between two steps holds nothing that could be wrong.   *)
LEMMA IdleTrue ==
    ASSUME NEW src \in Sources, NEW frz, NEW led \in Ledgers, NEW k, NEW place,
           k.entry = NoWork.entry, k.pages = NoPages, k.nextCp = EmptySnapshot.cp,
           LoopMet(k, frz, led), place \notin {"write", "conclude"}
    PROVE  WorkTrue(k, place, src, frz, led)
<1>1. PagesTrue(NoPages, src, frz, led)
  BY DEF PagesTrue, PageTrue, NoPages, NoPage
<1>2. EmptySnapshot.cp \in [Routes -> 0 .. MaxRecord]
  BY ConstantsTyped DEF Snapshot
<1>3. k.entry.snap = EmptySnapshot
  BY DEF NoWork, NewEntry
<1>. QED
  BY <1>1, <1>2, <1>3, EmptyTrue DEF WorkTrue

-----------------------------------------------------------------------------
(* The frame of a step: worker w becomes k at place, the others stay.      *)

Becomes(w, k, place) ==
    work' = [work EXCEPT ![w] = k] /\ pc' = [pc EXCEPT ![w] = place]

LEMMA BackedTyped ==
    ASSUME BackedInv
    PROVE  /\ source \in Sources /\ frozen \in Sources /\ ledger \in Ledgers
           /\ row \in Journal /\ row.entry \in Entry /\ row.entry.snap \in Snapshot
           /\ attempt \in [Workers -> Attempts] /\ pc \in [Workers -> Places]
           /\ \A w \in Workers : work[w] \in Work /\ work[w].entry \in Entry
                                 /\ work[w].entry.snap \in Snapshot
BY DEF BackedInv, TypeOK, Sources, Ledgers, Journal, Entry, Work

LEMMA StepFrame ==
    ASSUME BackedInv, NEW w \in Workers, NEW k \in Work, NEW place \in Places,
           Becomes(w, k, place), UNCHANGED <<source, frozen, attempt>>,
           ledger' \in Ledgers, Grown(source, ledger, source, ledger'),
           ScopeTrue(source, frozen, ledger'),
           WorkTrue(k, place, source, frozen, ledger'),
           row' \in Journal, SnapTrue(row'.entry.snap, source, ledger')
    PROVE  BackedInv'
<1>1. TypeOK'
  BY DEF BackedInv, TypeOK, Becomes, Ledgers
<1>2. ASSUME NEW u \in Workers
      PROVE  WorkTrue(work'[u], pc'[u], source', frozen', ledger')
  <2>1. CASE u = w
    <3>1. work'[u] = k /\ pc'[u] = place
      BY <2>1 DEF Becomes, BackedInv, TypeOK
    <3>. QED
      BY <3>1
  <2>2. CASE u # w
    <3>1. work'[u] = work[u] /\ pc'[u] = pc[u]
      BY <2>2 DEF Becomes, BackedInv, TypeOK
    <3>2. WorkTrue(work[u], pc[u], source, frozen, ledger)
      BY DEF BackedInv
    <3>3. WorkTrue(work[u], pc[u], source, frozen, ledger')
      BY <3>2, BackedTyped, WorkGrows
    <3>. QED
      BY <3>1, <3>3
  <2>. QED
    BY <2>1, <2>2
<1>. QED
  BY <1>1, <1>2 DEF BackedInv

(* Most steps touch neither the ledger nor what the row says of it.        *)
LEMMA QuietStep ==
    ASSUME BackedInv, NEW w \in Workers, NEW k \in Work, NEW place \in Places,
           Becomes(w, k, place), UNCHANGED <<source, frozen, ledger, attempt>>,
           WorkTrue(k, place, source, frozen, ledger),
           row' \in Journal, SnapTrue(row'.entry.snap, source, ledger)
    PROVE  BackedInv'
<1>1. Grown(source, ledger, source, ledger) /\ ledger' \in Ledgers
  BY BackedTyped DEF Grown
<1>2. ScopeTrue(source, frozen, ledger')
  BY DEF BackedInv
<1>. QED
  BY <1>1, <1>2, StepFrame

(* A worker that returns or raises, or begins a turn, holds nothing.       *)
FreshWork(k) ==
    /\ k \in Work /\ k.entry = NoWork.entry /\ k.pages = NoPages
    /\ k.nextCp = EmptySnapshot.cp

LEMMA FreshStep ==
    ASSUME BackedInv, NEW w \in Workers, NEW k, FreshWork(k), LoopMet(k, frozen, ledger),
           NEW place \in Places \ {"write", "conclude"},
           Becomes(w, k, place), UNCHANGED <<source, frozen, ledger, attempt>>,
           row' \in Journal, SnapTrue(row'.entry.snap, source, ledger)
    PROVE  BackedInv'
<1>1. WorkTrue(k, place, source, frozen, ledger)
  BY BackedTyped, IdleTrue DEF FreshWork
<1>. QED
  BY <1>1, QuietStep DEF FreshWork

LEMMA RowStays ==
    ASSUME BackedInv, UNCHANGED row
    PROVE  row' \in Journal /\ SnapTrue(row'.entry.snap, source, ledger)
BY BackedTyped DEF BackedInv

Returned == {"none", "raised"} \cup ExecutionStatus

LEMMA ReturnStep ==
    ASSUME BackedInv, NEW w \in Workers, NEW res \in Returned, Return(w, res),
           UNCHANGED <<source, frozen, ledger, attempt>>,
           row' \in Journal, SnapTrue(row'.entry.snap, source, ledger)
    PROVE  BackedInv'
<1>1. PICK k : k = [NoWork EXCEPT !.result = res]
  OBVIOUS
<1>2. k \in Work
  BY <1>1, ConstantsTyped DEF Work, Returned
<1>3. k.entry = NoWork.entry /\ k.pages = NoPages /\ k.nextCp = EmptySnapshot.cp /\ ~k.looped
  BY <1>1 DEF NoWork
<1>4. Becomes(w, k, "ended")
  BY <1>1 DEF Return, Goto, Becomes
<1>5. FreshWork(k) /\ LoopMet(k, frozen, ledger)
  BY <1>2, <1>3 DEF FreshWork, LoopMet
<1>6. "ended" \in Places \ {"write", "conclude"}
  BY DEF Places
<1>. QED
  BY <1>4, <1>5, <1>6, FreshStep

LEMMA RaiseStep ==
    ASSUME BackedInv, NEW w \in Workers, NEW place \in {"fault", "markLoad"},
           NEW why \in {"raised", "limit"}, RaiseTo(w, place, why),
           UNCHANGED <<source, frozen, ledger, attempt>>,
           row' \in Journal, SnapTrue(row'.entry.snap, source, ledger)
    PROVE  BackedInv'
<1>1. PICK k : k = [NoWork EXCEPT !.why = why]
  OBVIOUS
<1>2. k \in Work
  BY <1>1, ConstantsTyped DEF Work
<1>3. k.entry = NoWork.entry /\ k.pages = NoPages /\ k.nextCp = EmptySnapshot.cp /\ ~k.looped
  BY <1>1 DEF NoWork
<1>4. Becomes(w, k, place)
  BY <1>1 DEF RaiseTo, Goto, Becomes
<1>5. FreshWork(k) /\ LoopMet(k, frozen, ledger)
  BY <1>2, <1>3 DEF FreshWork, LoopMet
<1>6. place \in Places \ {"write", "conclude"}
  BY DEF Places
<1>. QED
  BY <1>4, <1>5, <1>6, FreshStep

(* A step that only moves on.                                              *)
LEMMA GotoStep ==
    ASSUME BackedInv, NEW w \in Workers, NEW place \in Places \ {"write", "conclude"},
           Goto(w, place), UNCHANGED <<source, frozen, ledger, attempt, work>>,
           row' \in Journal, SnapTrue(row'.entry.snap, source, ledger)
    PROVE  BackedInv'
<1>1. PICK k : k = work[w]
  OBVIOUS
<1>2. k \in Work /\ WorkTrue(k, place, source, frozen, ledger)
  BY <1>1, BackedTyped DEF BackedInv, WorkTrue
<1>3. work' = [work EXCEPT ![w] = k]
  BY <1>1 DEF BackedInv, TypeOK
<1>4. Becomes(w, k, place)
  BY <1>3 DEF Goto, Becomes
<1>. QED
  BY <1>2, <1>4, QuietStep

(* Whatever the outcome of a save, the row says no more than the entry or  *)
(* the old row did.                                                        *)
LEMMA SaveKeeps ==
    ASSUME BackedInv, NEW w \in Workers, NEW entry \in Entry,
           SnapTrue(entry.snap, source, ledger), Save(w, entry)
    PROVE  row' \in Journal /\ SnapTrue(row'.entry.snap, source, ledger)
<1>1. ASSUME NEW e \in Entry, e.snap = entry.snap, WriteEntry(w, e)
      PROVE  row' \in Journal /\ SnapTrue(row'.entry.snap, source, ledger)
  <2>1. NumberOf[attempt[w]] \in Nat /\ row.number \in Nat
    BY BackedTyped, AttemptsAssumption DEF Journal
  <2>2. PICK n : /\ row' = [entry |-> e, job |-> "ours", number |-> n]
                 /\ n = IF e.attempt = attempt[w] THEN NumberOf[attempt[w]]
                        ELSE IF e.attempt = row.entry.attempt THEN row.number ELSE 0
    BY <1>1 DEF WriteEntry
  <2>3. n \in Nat
    BY <2>1, <2>2
  <2>. QED
    BY <1>1, <2>2, <2>3 DEF Journal
<1>2. PICK e : e = [entry EXCEPT !.status = "cancelled"]
  OBVIOUS
<1>3. e \in Entry /\ e.snap = entry.snap
  BY <1>2 DEF Entry, ExecutionStatus
<1>4. WriteEntry(w, entry) \/ WriteEntry(w, e) \/ UNCHANGED row
  BY <1>2 DEF Save
<1>. QED
  BY <1>1, <1>3, <1>4, RowStays

-----------------------------------------------------------------------------
(* Every step keeps the invariant: around the batch.                       *)

LEMMA RowStatus ==
    ASSUME BackedInv
    PROVE  row.entry.status \in Returned
BY BackedTyped DEF Entry, Returned

LEMMA EnterKeeps ==
    ASSUME BackedInv, NEW w \in Workers, Enter(w)
    PROVE  BackedInv'
<1>1. UNCHANGED <<source, frozen, ledger, row, attempt>>
  BY DEF Enter
<1>2. CASE Return(w, "raised")
  BY <1>1, <1>2, RowStays, ReturnStep DEF Returned
<1>3. CASE Return(w, row.entry.status)
  BY <1>1, <1>3, RowStays, ReturnStep, RowStatus
<1>4. CASE Goto(w, "claim") /\ work' = [work EXCEPT ![w] = NoWork]
  <2>1. FreshWork(NoWork) /\ LoopMet(NoWork, frozen, ledger)
    BY ConstantsTyped DEF FreshWork, LoopMet, NoWork
  <2>2. Becomes(w, NoWork, "claim") /\ "claim" \in Places \ {"write", "conclude"}
    BY <1>4 DEF Becomes, Goto, Places
  <2>. QED
    BY <1>1, <2>1, <2>2, RowStays, FreshStep
<1>. QED
  BY <1>2, <1>3, <1>4 DEF Enter

LEMMA ClaimRefusedKeeps ==
    ASSUME BackedInv, NEW w \in Workers, ClaimRefused(w)
    PROVE  BackedInv'
<1>1. UNCHANGED <<source, frozen, ledger, row, attempt>>
  BY DEF ClaimRefused
<1>2. PICK res \in Returned : Return(w, res)
  BY DEF ClaimRefused, Returned, ExecutionStatus
<1>. QED
  BY <1>1, <1>2, RowStays, ReturnStep

LEMMA ClaimNothingKeeps ==
    ASSUME BackedInv, NEW w \in Workers, ClaimNothing(w)
    PROVE  BackedInv'
<1>1. /\ UNCHANGED <<source, frozen, ledger, row, attempt, work>> /\ Goto(w, "loop")
      /\ "loop" \in Places \ {"write", "conclude"}
  BY DEF ClaimNothing, Places
<1>. QED
  BY <1>1, RowStays, GotoStep

(* A claim writes the owner only; the turn starts from the row's snapshot. *)
LEMMA ClaimKeeps ==
    ASSUME BackedInv, NEW w \in Workers, Claim(w)
    PROVE  BackedInv'
<1>1. /\ UNCHANGED <<source, frozen, ledger, attempt>>
      /\ row' = [row EXCEPT !.entry.attempt = attempt[w], !.number = NumberOf[attempt[w]]]
  BY DEF Claim
<1>2. attempt[w] \in MaybeAttempt /\ NumberOf[attempt[w]] \in Nat
  BY BackedTyped, AttemptsAssumption DEF MaybeAttempt
<1>3. row' \in Journal /\ row'.entry.snap = row.entry.snap
  BY <1>1, <1>2, BackedTyped DEF Journal, Entry
<1>4. SnapTrue(row'.entry.snap, source, ledger)
  BY <1>3 DEF BackedInv
<1>5. CASE RaiseTo(w, "markLoad", "raised")
  BY <1>1, <1>3, <1>4, <1>5, RaiseStep
<1>6. CASE /\ Goto(w, "loop")
           /\ work' = [work EXCEPT ![w].batches = row.entry.batches,
                                   ![w].marker = ProgressMarker(row.entry.snap)]
  <2>1. PICK k : k = [work[w] EXCEPT !.batches = row.entry.batches,
                                     !.marker = ProgressMarker(row.entry.snap)]
    OBVIOUS
  <2>2. row.entry.batches \in Nat /\ ProgressMarker(row.entry.snap) \in Marker
    BY BackedTyped, ConstantsTyped DEF Entry
  <2>3. k \in Work
    BY <2>1, <2>2, BackedTyped DEF Work
  <2>4. /\ k.entry = work[w].entry /\ k.pages = work[w].pages /\ k.nextCp = work[w].nextCp
        /\ k.looped = work[w].looped /\ k.result = work[w].result
    BY <2>1, BackedTyped DEF Work
  <2>5. WorkTrue(work[w], "loop", source, frozen, ledger)
    BY DEF BackedInv, WorkTrue
  <2>6. WorkTrue(k, "loop", source, frozen, ledger)
    BY <2>4, <2>5 DEF WorkTrue, LoopMet
  <2>7. Becomes(w, k, "loop") /\ "loop" \in Places
    BY <1>6, <2>1, BackedTyped DEF Becomes, Goto, Places
  <2>. QED
    BY <1>1, <1>3, <1>4, <2>3, <2>6, <2>7, QuietStep
<1>. QED
  BY <1>5, <1>6 DEF Claim

LEMMA LoopKeeps ==
    ASSUME BackedInv, NEW w \in Workers, LoopLimit(w) \/ LoopHead(w)
    PROVE  BackedInv'
<1>1. UNCHANGED <<source, frozen, ledger, row, attempt>>
  BY DEF LoopLimit, LoopHead
<1>2. \/ RaiseTo(w, "markLoad", "limit") \/ RaiseTo(w, "fault", "raised")
      \/ Return(w, "cancelled") \/ (Goto(w, "step") /\ UNCHANGED work)
  BY DEF LoopLimit, LoopHead
<1>3. /\ "cancelled" \in Returned /\ "step" \in Places \ {"write", "conclude"}
      /\ row' \in Journal /\ SnapTrue(row'.entry.snap, source, ledger)
  BY <1>1, RowStays DEF Returned, ExecutionStatus, Places
<1>4. CASE RaiseTo(w, "markLoad", "limit")
  BY <1>1, <1>3, <1>4, RaiseStep
<1>5. CASE RaiseTo(w, "fault", "raised")
  BY <1>1, <1>3, <1>5, RaiseStep
<1>6. CASE Return(w, "cancelled")
  BY <1>1, <1>3, <1>6, ReturnStep
<1>7. CASE Goto(w, "step") /\ UNCHANGED work
  BY <1>1, <1>3, <1>7, GotoStep
<1>. QED
  BY <1>2, <1>4, <1>5, <1>6, <1>7

LEMMA FaultKeeps ==
    ASSUME BackedInv, NEW w \in Workers, Fault(w)
    PROVE  BackedInv'
<1>1. UNCHANGED <<source, frozen, ledger, row, attempt>>
  BY DEF Fault
<1>2. /\ "cancelled" \in Returned /\ "markLoad" \in Places \ {"write", "conclude"}
      /\ row' \in Journal /\ SnapTrue(row'.entry.snap, source, ledger)
  BY <1>1, RowStays DEF Returned, ExecutionStatus, Places
<1>3. CASE Return(w, "cancelled")
  BY <1>1, <1>2, <1>3, ReturnStep
<1>4. CASE Goto(w, "markLoad") /\ UNCHANGED work
  BY <1>1, <1>2, <1>4, GotoStep
<1>. QED
  BY <1>3, <1>4 DEF Fault

(* A refused mark returns.                                                 *)
LEMMA MarkRefusedKeeps ==
    ASSUME BackedInv, NEW w \in Workers, MarkRefused(w),
           UNCHANGED <<source, frozen, ledger, attempt>>,
           row' \in Journal, SnapTrue(row'.entry.snap, source, ledger)
    PROVE  BackedInv'
<1>1. row'.entry.status \in Returned /\ "raised" \in Returned
  BY DEF Journal, Entry, Returned
<1>2. PICK res \in Returned : Return(w, res)
  BY <1>1 DEF MarkRefused
<1>. QED
  BY <1>2, ReturnStep

LEMMA MarkLoadKeeps ==
    ASSUME BackedInv, NEW w \in Workers, MarkLoad(w)
    PROVE  BackedInv'
<1>1. /\ UNCHANGED <<source, frozen, ledger, row, attempt>>
      /\ row' \in Journal /\ SnapTrue(row'.entry.snap, source, ledger)
  BY RowStays DEF MarkLoad
<1>2. CASE MarkRefused(w)
  BY <1>1, <1>2, MarkRefusedKeeps
<1>3. CASE /\ Goto(w, "markSave")
           /\ work' = [work EXCEPT ![w].entry =
                    [(IF Exists THEN row.entry ELSE NewEntry("failed", NoAttempt))
                        EXCEPT !.status = "failed", !.attempt = attempt[w]]]
  <2>1. PICK old \in Entry :
          /\ old = IF Exists THEN row.entry ELSE NewEntry("failed", NoAttempt)
          /\ SnapTrue(old.snap, source, ledger)
    <3>1. /\ NewEntry("failed", NoAttempt) \in Entry
          /\ SnapTrue(NewEntry("failed", NoAttempt).snap, source, ledger)
      <4>1. NewEntry("failed", NoAttempt).snap = EmptySnapshot
        BY DEF NewEntry
      <4>. QED
        BY <4>1, ConstantsTyped, EmptyTrue, BackedTyped DEF ExecutionStatus, MaybeAttempt
    <3>2. row.entry \in Entry /\ SnapTrue(row.entry.snap, source, ledger)
      BY BackedTyped DEF BackedInv
    <3>. QED
      BY <3>1, <3>2
  <2>2. PICK entry : entry = [old EXCEPT !.status = "failed", !.attempt = attempt[w]]
    OBVIOUS
  <2>3. attempt[w] \in MaybeAttempt
    BY BackedTyped DEF MaybeAttempt
  <2>4. entry \in Entry /\ entry.snap = old.snap
    BY <2>2, <2>3 DEF Entry, ExecutionStatus
  <2>5. PICK k : k = [work[w] EXCEPT !.entry = entry]
    OBVIOUS
  <2>6. k \in Work
    BY <2>4, <2>5, BackedTyped DEF Work
  <2>7. /\ k.entry = entry /\ k.pages = work[w].pages /\ k.nextCp = work[w].nextCp
        /\ k.looped = work[w].looped /\ k.result = work[w].result
    BY <2>5, BackedTyped DEF Work
  <2>8. WorkTrue(work[w], "loop", source, frozen, ledger)
    BY DEF BackedInv, WorkTrue
  <2>9. WorkTrue(k, "markSave", source, frozen, ledger)
    BY <2>1, <2>4, <2>7, <2>8 DEF WorkTrue, LoopMet
  <2>10. Becomes(w, k, "markSave") /\ "markSave" \in Places
    BY <1>3, <2>1, <2>2, <2>5, BackedTyped DEF Becomes, Goto, Places
  <2>. QED
    BY <1>1, <2>6, <2>9, <2>10, QuietStep
<1>. QED
  BY <1>2, <1>3 DEF MarkLoad

LEMMA MarkSaveKeeps ==
    ASSUME BackedInv, NEW w \in Workers, MarkSave(w)
    PROVE  BackedInv'
<1>1. work[w].entry \in Entry /\ SnapTrue(work[w].entry.snap, source, ledger)
  BY BackedTyped DEF BackedInv, WorkTrue
<1>2. row' \in Journal /\ SnapTrue(row'.entry.snap, source, ledger)
  BY <1>1, SaveKeeps DEF MarkSave
<1>3. UNCHANGED <<source, frozen, ledger, attempt>> /\ "failed" \in Returned
  BY DEF MarkSave, Returned, ExecutionStatus
<1>4. Return(w, "failed") \/ MarkRefused(w)
  BY DEF MarkSave
<1>5. CASE Return(w, "failed")
  BY <1>2, <1>3, <1>5, ReturnStep
<1>6. CASE MarkRefused(w)
  BY <1>2, <1>3, <1>6, MarkRefusedKeeps
<1>. QED
  BY <1>4, <1>5, <1>6

LEMMA CrashKeeps ==
    ASSUME BackedInv, NEW w \in Workers, Crash(w)
    PROVE  BackedInv'
<1>1. UNCHANGED <<source, frozen, ledger, row, attempt>>
  BY DEF Crash
<1>2. FreshWork(NoWork) /\ LoopMet(NoWork, frozen, ledger)
  BY ConstantsTyped DEF FreshWork, LoopMet, NoWork
<1>3. Becomes(w, NoWork, "idle") /\ "idle" \in Places \ {"write", "conclude"}
  BY DEF Crash, Becomes, Goto, Places
<1>. QED
  BY <1>1, <1>2, <1>3, RowStays, FreshStep

LEMMA RowActionsKeep ==
    ASSUME BackedInv, Cancel \/ Requeue
    PROVE  BackedInv'
<1>1. UNCHANGED <<source, frozen, ledger, attempt, pc, work>>
  BY DEF Cancel, Requeue
<1>2. row' \in Journal /\ SnapTrue(row'.entry.snap, source, ledger)
  <2>1. CASE Cancel
    <3>1. row' = [row EXCEPT !.entry.status = "cancelled"]
      BY <2>1 DEF Cancel
    <3>2. row' \in Journal /\ row'.entry.snap = row.entry.snap
      BY <3>1, BackedTyped DEF Journal, Entry, ExecutionStatus
    <3>. QED
      BY <3>2 DEF BackedInv
  <2>2. CASE Requeue
    <3>1. row' = [NoJournal EXCEPT !.job = "another", !.entry.scope = "same"]
      BY <2>2 DEF Requeue
    <3>2. row' \in Journal /\ row'.entry.snap = NoJournal.entry.snap
      BY <3>1, ConstantsTyped DEF Journal, Entry, Scope
    <3>3. NoJournal.entry.snap = EmptySnapshot
      BY DEF NoJournal, NewEntry
    <3>. QED
      BY <3>2, <3>3, EmptyTrue, BackedTyped
  <2>. QED
    BY <2>1, <2>2
<1>3. TypeOK'
  BY <1>1, <1>2 DEF BackedInv, TypeOK
<1>. QED
  BY <1>1, <1>2, <1>3 DEF BackedInv

LEMMA SourceDeleteKeeps ==
    ASSUME BackedInv, SourceDelete
    PROVE  BackedInv'
<1>1. UNCHANGED <<frozen, ledger, row, attempt, pc, work>>
  BY DEF SourceDelete
<1>2. source' \in Sources /\ \A r \in Routes : source'[r] \subseteq source[r]
  BY BackedTyped DEF SourceDelete, Sources
<1>3. Grown(source, ledger, source', ledger) /\ ScopeTrue(source', frozen, ledger)
  BY <1>2 DEF Grown, ScopeTrue, BackedInv
<1>4. \A w \in Workers : WorkTrue(work[w], pc[w], source', frozen, ledger)
  BY <1>2, <1>3, BackedTyped, WorkGrows DEF BackedInv
<1>5. SnapTrue(row.entry.snap, source', ledger)
  BY <1>2, <1>3, BackedTyped, SnapGrows DEF BackedInv
<1>6. TypeOK'
  BY <1>1, <1>2 DEF BackedInv, TypeOK, Sources
<1>. QED
  BY <1>1, <1>3, <1>4, <1>5, <1>6 DEF BackedInv

-----------------------------------------------------------------------------
(* Every step keeps the invariant: the batch.                              *)

(* What the ledger counts is a snapshot's counts.                          *)
LEMMA DurableTrue ==
    ASSUME BackedInv, NEW snap \in Snapshot, SnapTrue(snap, source, ledger), NEW new,
           new = DurableResults(snap)
    PROVE  /\ new \in Snapshot /\ SnapTrue(new, source, ledger)
           /\ new.cp = snap.cp /\ new.completed = snap.completed
           /\ new.pages = snap.pages /\ new.hasMore = snap.hasMore
<1>1. \A r \in Routes : Cardinality(TerminalRows(r)) \in Nat /\ TerminalRows(r) = Done(ledger, r)
  BY RecordsFinite DEF TerminalRows, Done
<1>2. PICK p \in [Routes -> Nat] : p = [r \in Routes |-> Cardinality(TerminalRows(r))]
  BY <1>1
<1>3. PICK f \in [Routes -> SUBSET Records] : f = [r \in Routes |-> FailedRows(r)]
  BY DEF FailedRows
<1>4. new = [snap EXCEPT !.processed = p, !.failed = f]
  BY <1>2, <1>3 DEF DurableResults
<1>5. new \in Snapshot
  BY <1>4 DEF Snapshot
<1>6. /\ new.cp = snap.cp /\ new.completed = snap.completed /\ new.processed = p
      /\ new.pages = snap.pages /\ new.hasMore = snap.hasMore
  BY <1>4 DEF Snapshot
<1>7. \A r \in Routes : p[r] <= Cardinality(Done(ledger, r))
  BY <1>1, <1>2
<1>. QED
  BY <1>5, <1>6, <1>7 DEF SnapTrue, Counted

LEMMA StepLoadKeeps ==
    ASSUME BackedInv, NEW w \in Workers, StepLoad(w)
    PROVE  BackedInv'
<1>1. /\ UNCHANGED <<source, frozen, ledger, row, attempt>>
      /\ row' \in Journal /\ SnapTrue(row'.entry.snap, source, ledger)
  BY RowStays DEF StepLoad
<1>2. CASE RaiseTo(w, "fault", "raised")
  BY <1>1, <1>2, RaiseStep
<1>3. CASE ~LoadRefused
  <2>1. PICK loaded \in Entry :
          /\ loaded = IF Exists THEN row.entry ELSE NewEntry("running", NoAttempt)
          /\ SnapTrue(loaded.snap, source, ledger)
    <3>1. /\ NewEntry("running", NoAttempt) \in Entry
          /\ SnapTrue(NewEntry("running", NoAttempt).snap, source, ledger)
      <4>1. NewEntry("running", NoAttempt).snap = EmptySnapshot
        BY DEF NewEntry
      <4>. QED
        BY <4>1, ConstantsTyped, EmptyTrue, BackedTyped DEF ExecutionStatus, MaybeAttempt
    <3>2. row.entry \in Entry /\ SnapTrue(row.entry.snap, source, ledger)
      BY BackedTyped DEF BackedInv
    <3>. QED
      BY <3>1, <3>2
  <2>2. PICK named : named = IF loaded.attempt = NoAttempt
                             THEN [loaded EXCEPT !.attempt = attempt[w]] ELSE loaded
    OBVIOUS
  <2>3. attempt[w] \in MaybeAttempt
    BY BackedTyped DEF MaybeAttempt
  <2>4. named \in Entry /\ named.snap = loaded.snap
    BY <2>2, <2>3 DEF Entry
  <2>5. PICK entry : entry = Rebuild(named, attempt[w])
    OBVIOUS
  <2>6. entry \in Entry /\ SnapTrue(entry.snap, source, ledger)
    <3>1. CASE entry = named
      BY <2>1, <2>4, <3>1
    <3>2. CASE entry # named
      <4>1. PICK s : s = DurableResults(named.snap)
        OBVIOUS
      <4>2. s \in Snapshot /\ SnapTrue(s, source, ledger)
        BY <2>1, <2>4, <4>1, DurableTrue DEF Entry
      <4>3. entry = [named EXCEPT !.rebuilt = attempt[w], !.snap = s]
        BY <2>5, <3>2, <4>1 DEF Rebuild
      <4>4. entry \in Entry /\ entry.snap = s
        BY <2>3, <2>4, <4>2, <4>3 DEF Entry
      <4>. QED
        BY <4>2, <4>4
    <3>. QED
      BY <3>1, <3>2
  <2>7. PICK k : k = [work[w] EXCEPT !.entry = entry, !.at = 1,
                                     !.nextCp = EmptySnapshot.cp, !.pages = NoPages]
    OBVIOUS
  <2>8. /\ Goto(w, "route")
        /\ work' = [work EXCEPT ![w].entry = Rebuild(named, attempt[w]), ![w].at = 1,
                                ![w].nextCp = EmptySnapshot.cp, ![w].pages = NoPages]
    BY <1>3, <2>1, <2>2 DEF StepLoad
  <2>9. Becomes(w, k, "route") /\ "route" \in Places
    BY <2>5, <2>7, <2>8, BackedTyped DEF Becomes, Goto, Places
  <2>10. EmptySnapshot.cp \in [Routes -> 0 .. MaxRecord] /\ EmptySnapshot.cp \in [Routes -> Nat]
    <3>1. PICK c : c = [r \in Routes |-> 0]
      OBVIOUS
    <3>2. EmptySnapshot.cp = c
      BY <3>1 DEF EmptySnapshot
    <3>3. c \in [Routes -> 0 .. MaxRecord] /\ c \in [Routes -> Nat]
      BY <3>1, RecordsFinite
    <3>. QED
      BY <3>2, <3>3, Zenon
  <2>11. k \in Work
    <3>1. /\ entry \in Entry /\ 1 \in 1 .. Len(RouteOrder) + 1
          /\ NoPages \in [Routes -> Page] /\ work[w] \in Work
      BY <2>6, BackedTyped, ConstantsTyped
    <3>2. PICK c \in [Routes -> Nat] : c = EmptySnapshot.cp
      BY <2>10
    <3>. QED
      BY <2>7, <3>1, <3>2 DEF Work
  <2>12. /\ k.entry = entry /\ k.pages = NoPages /\ k.nextCp = EmptySnapshot.cp
         /\ k.looped = work[w].looped /\ k.result = work[w].result
    BY <2>7, BackedTyped DEF Work
  <2>13. PagesTrue(NoPages, source, frozen, ledger)
    BY DEF PagesTrue, PageTrue, NoPages, NoPage
  <2>14. Passed({}, EmptySnapshot.cp, source, ledger)
    BY EmptyTrue, BackedTyped
  <2>15. LoopMet(k, frozen, ledger)
    BY <2>12 DEF BackedInv, WorkTrue, LoopMet
  <2>16. WorkTrue(k, "route", source, frozen, ledger)
    BY <2>6, <2>10, <2>12, <2>13, <2>14, <2>15 DEF WorkTrue
  <2>. QED
    BY <1>1, <2>9, <2>11, <2>16, QuietStep
<1>. QED
  BY <1>2, <1>3 DEF StepLoad

LEMMA CurrentRoute ==
    ASSUME BackedInv, NEW w \in Workers, work[w].at <= Len(RouteOrder)
    PROVE  work[w].at \in 1 .. Len(RouteOrder) /\ Current(w) \in Routes
<1>1. work[w].at \in 1 .. Len(RouteOrder)
  BY BackedTyped, ConstantsTyped DEF Work
<1>. QED
  BY <1>1 DEF Current, Routes

(* A route is skipped when it is completed or nothing of it was frozen.    *)
LEMMA SkipRouteKeeps ==
    ASSUME BackedInv, NEW w \in Workers, SkipRoute(w)
    PROVE  BackedInv'
<1>1. /\ UNCHANGED <<source, frozen, ledger, row, attempt>>
      /\ row' \in Journal /\ SnapTrue(row'.entry.snap, source, ledger)
  BY RowStays DEF SkipRoute
<1>2. PICK r \in Routes : r = Current(w)
  BY CurrentRoute DEF SkipRoute, AtRoute
<1>3. work[w].at \in 1 .. Len(RouteOrder) /\ Len(RouteOrder) \in Nat
  BY CurrentRoute, ConstantsTyped DEF SkipRoute, AtRoute
<1>4. PICK s : s = [work[w].entry.snap EXCEPT !.completed = @ \cup {r}]
  OBVIOUS
<1>5. s \in Snapshot
  BY <1>4, BackedTyped DEF Snapshot
<1>6. /\ s.completed = work[w].entry.snap.completed \cup {r}
      /\ s.cp = work[w].entry.snap.cp /\ s.processed = work[w].entry.snap.processed
  BY <1>4, BackedTyped DEF Snapshot
<1>7. SnapTrue(s, source, ledger)
  <2>1. SnapTrue(work[w].entry.snap, source, ledger)
    BY DEF BackedInv, WorkTrue
  <2>2. r \in work[w].entry.snap.completed \/ source[r] = {}
    BY <1>2 DEF SkipRoute, BackedInv, ScopeTrue
  <2>. QED
    BY <1>6, <2>1, <2>2 DEF SnapTrue, Counted, Passed
<1>8. PICK e : e = [work[w].entry EXCEPT !.snap = s]
  OBVIOUS
<1>9. e \in Entry /\ e.snap = s
  BY <1>5, <1>8, BackedTyped DEF Entry
<1>10. PICK k : k = [work[w] EXCEPT !.at = @ + 1, !.entry = e]
  OBVIOUS
<1>11. work[w].at + 1 \in 1 .. Len(RouteOrder) + 1
  BY <1>3
<1>12. k \in Work
  BY <1>9, <1>10, <1>11, BackedTyped DEF Work
<1>13. /\ k.entry = e /\ k.pages = work[w].pages /\ k.nextCp = work[w].nextCp
       /\ k.looped = work[w].looped /\ k.result = work[w].result
  BY <1>10, BackedTyped DEF Work
<1>14. WorkTrue(work[w], "route", source, frozen, ledger)
  BY DEF BackedInv, WorkTrue
<1>15. WorkTrue(k, "route", source, frozen, ledger)
  BY <1>7, <1>9, <1>13, <1>14 DEF WorkTrue, LoopMet
<1>16. work' = [work EXCEPT ![w].at = @ + 1, ![w].entry.snap.completed = @ \cup {r}]
  BY <1>2 DEF SkipRoute
<1>17. work' = [work EXCEPT ![w] = k]
  BY <1>4, <1>8, <1>10, <1>16
<1>18. pc' = [pc EXCEPT ![w] = "route"] /\ "route" \in Places
  BY BackedTyped DEF SkipRoute, AtRoute, Places
<1>. QED
  BY <1>1, <1>12, <1>15, <1>17, <1>18, QuietStep DEF Becomes

(* The page read holds what the source has after the checkpoint; what is   *)
(* before it is terminal already.                                          *)
LEMMA ReadPageKeeps ==
    ASSUME BackedInv, NEW w \in Workers, ReadPage(w)
    PROVE  BackedInv'
<1>1. /\ UNCHANGED <<source, frozen, ledger, row, attempt>>
      /\ row' \in Journal /\ SnapTrue(row'.entry.snap, source, ledger)
  BY RowStays DEF ReadPage
<1>2. PICK r \in Routes : r = Current(w)
  BY CurrentRoute DEF ReadPage, AtRoute
<1>3. PICK snap \in Snapshot : snap = work[w].entry.snap
  BY BackedTyped
<1>4. PICK cp \in 0 .. MaxRecord : cp = snap.cp[r]
  BY DEF Snapshot
<1>5. PICK ids : ids = PageOf(source[r], cp, BatchSize)
  OBVIOUS
<1>6. PICK more \in BOOLEAN : more = HasMore(source[r], cp, BatchSize)
  BY DEF HasMore
<1>7. source[r] \in SUBSET Records /\ source[r] \subseteq frozen[r] /\ Done(ledger, r) \in SUBSET Records
  BY BackedTyped DEF Sources, BackedInv, ScopeTrue, Done
<1>8. /\ ids \in SUBSET source[r]
      /\ \A x \in source[r] : cp < x /\ (~more \/ \E y \in ids : x <= y) => x \in ids
  BY <1>5, <1>6, <1>7, PageReads
<1>9. PICK already : already = TerminalIds(ledger, r, ids)
  OBVIOUS
<1>10. /\ already = ids \cap Done(ledger, r)
       /\ already \in SUBSET Records
  BY <1>7, <1>8, <1>9 DEF TerminalIds, Done
<1>11. PICK page : page = [seen |-> TRUE, ids |-> ids, more |-> more]
  OBVIOUS
<1>12. page \in Page
  BY <1>7, <1>8, <1>11 DEF Page
<1>13. \A x \in source[r] : x <= cp => IsTerminal(ledger[r][x])
  BY <1>3, <1>4 DEF BackedInv, WorkTrue, SnapTrue, Passed
<1>14. PageTrue(page, r, source, frozen, ledger)
  <2>1. \A x \in source[r] : x <= cp \/ cp < x
    BY <1>7, RecordsFinite
  <2>. QED
    BY <1>7, <1>8, <1>11, <1>13, <2>1 DEF PageTrue
<1>15. PICK pages : pages = [work[w].pages EXCEPT ![r] = page]
  OBVIOUS
<1>16. /\ pages \in [Routes -> Page] /\ pages[r] = page
       /\ PagesTrue(pages, source, frozen, ledger)
  <2>1. work[w].pages \in [Routes -> Page] /\ PagesTrue(work[w].pages, source, frozen, ledger)
    BY BackedTyped DEF Work, BackedInv, WorkTrue
  <2>. QED
    BY <1>12, <1>14, <1>15, <2>1 DEF PagesTrue
<1>17. PICK k : k = [work[w] EXCEPT !.pages = pages, !.already = already]
  OBVIOUS
<1>18. k \in Work
  <2>1. PICK kw \in Work : kw = work[w]
    BY BackedTyped
  <2>2. k = [kw EXCEPT !.pages = pages, !.already = already]
    BY <1>17, <2>1
  <2>. QED
    BY <1>10, <1>16, <2>2 DEF Work
<1>19. /\ k.entry = work[w].entry /\ k.pages = pages /\ k.nextCp = work[w].nextCp
       /\ k.already = already /\ k.at = work[w].at
       /\ k.looped = work[w].looped /\ k.result = work[w].result
  BY <1>17, BackedTyped DEF Work
<1>20. PageInHand(k, ledger)
  <2>1. RouteOrder[k.at] = r /\ k.at <= Len(RouteOrder)
    BY <1>2, <1>19 DEF Current, ReadPage, AtRoute
  <2>2. Done(ledger, r) \ (ids \ already) = Done(ledger, r)
    BY <1>10
  <2>3. k.entry.snap.processed[r] <= Cardinality(Done(ledger, r))
    BY <1>19 DEF BackedInv, WorkTrue, SnapTrue, Counted
  <2>4. k.pages[r].seen /\ k.pages[r].ids = ids
    BY <1>11, <1>16, <1>19
  <2>. QED
    BY <1>10, <1>19, <2>1, <2>2, <2>3, <2>4 DEF PageInHand
<1>21. WorkTrue(work[w], "route", source, frozen, ledger)
  BY DEF BackedInv, WorkTrue
<1>22. WorkTrue(k, "write", source, frozen, ledger)
  BY <1>16, <1>19, <1>20, <1>21 DEF WorkTrue, LoopMet
<1>23. work' = [work EXCEPT ![w].pages[r] = page, ![w].already = already]
  BY <1>2, <1>3, <1>4, <1>5, <1>6, <1>9, <1>11 DEF ReadPage
<1>24. Becomes(w, k, "write") /\ "write" \in Places
  BY <1>15, <1>17, <1>23 DEF Becomes, ReadPage, Goto, Places
<1>. QED
  BY <1>1, <1>18, <1>22, <1>24, QuietStep

LEMMA StepRaisesKeeps ==
    ASSUME BackedInv, NEW w \in Workers, StepRaises(w)
    PROVE  BackedInv'
<1>1. /\ UNCHANGED <<source, frozen, ledger, row, attempt>>
      /\ row' \in Journal /\ SnapTrue(row'.entry.snap, source, ledger)
  BY RowStays DEF StepRaises
<1>. QED
  BY <1>1, RaiseStep DEF StepRaises

(* A page counted into a snapshot, with the checkpoint that follows.       *)
PageCounted(snap, r, page, already, failed, s, src, led) ==
    /\ s \in Snapshot /\ SnapTrue(s, src, led) /\ s.cp = snap.cp
    /\ NextCheckpoint(snap.cp[r], page, failed) \in 0 .. MaxRecord
    /\ \A x \in src[r] : x <= NextCheckpoint(snap.cp[r], page, failed)
                            => IsTerminal(led[r][x])

(* Counting a page: the records it made terminal are counted once, a route *)
(* is completed only when its last page is terminal throughout.            *)
LEMMA CountPageTrue ==
    ASSUME NEW src \in Sources, NEW frz, NEW led \in Ledgers, NEW snap \in Snapshot,
           SnapTrue(snap, src, led), NEW r \in Routes, NEW page \in Page, page.seen,
           PageTrue(page, r, src, frz, led), NEW already \in SUBSET page.ids,
           NEW failed \in SUBSET page.ids, page.ids \ failed \subseteq Done(led, r),
           snap.processed[r] + Cardinality(page.ids \ (already \cup failed))
               <= Cardinality(Done(led, r)),
           NEW s, s = CountPage(snap, r, page, already, failed)
    PROVE  PageCounted(snap, r, page, already, failed, s, src, led)
<1>1. /\ page.ids \in SUBSET Records /\ failed \in SUBSET Records
      /\ page.ids \ (already \cup failed) \in SUBSET Records
  BY DEF Page
<1>2. PICK n \in Nat : n = Cardinality(page.ids \ (already \cup failed))
  BY <1>1, RecordsFinite
<1>3. PICK p : p = [snap.processed EXCEPT ![r] = @ + n]
  OBVIOUS
<1>4. PICK f : f = [snap.failed EXCEPT ![r] = (@ \ page.ids) \cup failed]
  OBVIOUS
<1>5. PICK c : c = IF failed = {} /\ ~page.more THEN snap.completed \cup {r}
                                                ELSE snap.completed
  OBVIOUS
<1>6. snap.processed \in [Routes -> Nat] /\ snap.failed \in [Routes -> SUBSET Records]
  BY DEF Snapshot
<1>7. p \in [Routes -> Nat] /\ p[r] = snap.processed[r] + n
      /\ \A q \in Routes : q # r => p[q] = snap.processed[q]
  BY <1>2, <1>3, <1>6
<1>8. f \in [Routes -> SUBSET Records] /\ c \in SUBSET Routes
  BY <1>1, <1>4, <1>5, <1>6 DEF Snapshot
<1>9. s = [snap EXCEPT !.processed = p, !.failed = f, !.completed = c]
  BY <1>2, <1>3, <1>4, <1>5 DEF CountPage, Snapshot
<1>10. s \in Snapshot
  BY <1>7, <1>8, <1>9 DEF Snapshot
<1>11. s.processed = p /\ s.completed = c /\ s.cp = snap.cp
  BY <1>9 DEF Snapshot
<1>12. Counted(s, led)
  BY <1>2, <1>7, <1>11 DEF SnapTrue, Counted
<1>13. \A x \in src[r] : x \in page.ids \ failed => IsTerminal(led[r][x])
  BY DEF Done
<1>14. Passed(c, s.cp, src, led)
  <2>1. ASSUME failed = {}, ~page.more, NEW x \in src[r]
        PROVE  IsTerminal(led[r][x])
    BY <1>13, <2>1 DEF PageTrue
  <2>. QED
    BY <1>5, <1>11, <2>1 DEF SnapTrue, Passed
<1>15. snap.cp[r] \in 0 .. MaxRecord
  BY DEF Snapshot
<1>16. src[r] \in SUBSET Records /\ \A x \in src[r] : x \in Nat /\ ~(x <= 0)
  BY RecordsFinite DEF Sources
<1>17. \A x \in src[r] : x <= snap.cp[r] => IsTerminal(led[r][x])
  BY DEF SnapTrue, Passed
<1>18. CASE failed # {}
  <2>1. PICK a \in failed : a = FirstOf(failed) /\ \A y \in failed : a <= y
    BY <1>1, <1>18, FirstOfIn
  <2>2. PICK T \in SUBSET page.ids : T = {x \in page.ids : x < a}
    OBVIOUS
  <2>3. NextCheckpoint(snap.cp[r], page, failed) = LastOf(T, snap.cp[r])
    BY <1>18, <2>1, <2>2 DEF NextCheckpoint
  <2>4. CASE T = {}
    BY <1>1, <1>10, <1>11, <1>12, <1>14, <1>15, <1>17, <2>3, <2>4, LastOfIn DEF SnapTrue, PageCounted
  <2>5. CASE T # {}
    <3>1. PICK z \in T : z = LastOf(T, snap.cp[r])
      BY <1>1, <2>5, LastOfIn
    <3>2. z \in page.ids /\ z < a /\ z \in Records /\ a \in Records
      BY <1>1, <2>2, <3>1
    <3>3. ASSUME NEW x \in src[r], x <= z
          PROVE  IsTerminal(led[r][x])
      <4>1. x \in page.ids \/ IsTerminal(led[r][x])
        BY <3>2, <3>3 DEF PageTrue
      <4>2. x \notin failed
        <5>1. x \in Nat /\ z \in Nat /\ a \in Nat
          BY <1>16, <3>2, RecordsFinite
        <5>. QED
          BY <2>1, <3>2, <3>3, <5>1
      <4>. QED
        BY <1>13, <4>1, <4>2
    <3>4. z \in 0 .. MaxRecord
      BY <3>2, RecordsFinite
    <3>. QED
      BY <1>10, <1>11, <1>12, <1>14, <2>3, <3>1, <3>3, <3>4 DEF SnapTrue, PageCounted
  <2>. QED
    BY <2>4, <2>5
<1>19. CASE failed = {} /\ page.more
  <2>1. NextCheckpoint(snap.cp[r], page, failed) = LastOf(page.ids, snap.cp[r])
    BY <1>19 DEF NextCheckpoint
  <2>2. CASE page.ids = {}
    BY <1>1, <1>10, <1>11, <1>12, <1>14, <1>15, <1>17, <2>1, <2>2, LastOfIn DEF SnapTrue, PageCounted
  <2>3. CASE page.ids # {}
    <3>1. PICK z \in page.ids : z = LastOf(page.ids, snap.cp[r])
      BY <1>1, <2>3, LastOfIn
    <3>2. ASSUME NEW x \in src[r], x <= z
          PROVE  IsTerminal(led[r][x])
      BY <1>13, <1>19, <3>2 DEF PageTrue
    <3>3. z \in 0 .. MaxRecord
      BY <1>1, RecordsFinite
    <3>. QED
      BY <1>10, <1>11, <1>12, <1>14, <2>1, <3>1, <3>2, <3>3 DEF SnapTrue, PageCounted
  <2>. QED
    BY <2>2, <2>3
<1>20. CASE failed = {} /\ ~page.more
  <2>1. NextCheckpoint(snap.cp[r], page, failed) = 0 /\ 0 \in 0 .. MaxRecord
    BY <1>20, RecordsFinite DEF NextCheckpoint
  <2>. QED
    BY <1>10, <1>11, <1>12, <1>14, <1>16, <2>1 DEF SnapTrue, PageCounted
<1>. QED
  BY <1>18, <1>19, <1>20

(* What a page's writes do to the ledger.                                  *)
Wrote(led, r, new, bad, newLed) ==
    /\ newLed \in Ledgers
    /\ \A q \in Routes : Done(led, q) \subseteq Done(newLed, q)
    /\ \A q \in Routes : q # r => Done(newLed, q) = Done(led, q)
    /\ Done(newLed, r) \subseteq Done(led, r) \cup new
    /\ new \ bad \subseteq Done(newLed, r)
WriteOutcomes(new, bad) ==
    [x \in new |-> IF x \in bad THEN [status |-> "failed", known |-> FALSE]
                   ELSE [status |-> "created", known |-> TRUE]]

LEMMA WritesKeep ==
    ASSUME NEW led \in Ledgers, NEW r \in Routes, NEW new \in SUBSET Records,
           NEW bad \in SUBSET new, NEW newLed,
           newLed = UpsertResults(led, r, new, WriteOutcomes(new, bad))
    PROVE  Wrote(led, r, new, bad, newLed)
<1>0. PICK outcomes : outcomes = WriteOutcomes(new, bad)
  OBVIOUS
<1>1. outcomes \in [new -> Outcome]
  BY <1>0 DEF WriteOutcomes, Outcome, Status, Terminal
<1>2. led \in [Routes -> [Records -> Row]]
  BY DEF Ledgers
<1>3. Upserted(led, r, new, outcomes, newLed)
  BY <1>0, <1>1, <1>2, UpsertKeeps
<1>4. \A x \in new \ bad : outcomes[x].status = "created"
  BY <1>0 DEF WriteOutcomes
<1>. QED
  BY <1>3, <1>4 DEF Ledgers, Terminal, Upserted, Wrote

(* PersistPage over the names of its page.                                 *)
Persisted(w, r, page, already, new) ==
    \E bad, failed \in SUBSET new :
        /\ ledger' = UpsertResults(ledger, r, new, WriteOutcomes(new, bad))
        /\ failed = {x \in bad : ~IsTerminal(ledger'[r][x])}
        /\ work' = [work EXCEPT ![w].at = @ + 1, ![w].already = {},
                ![w].entry.snap = CountPage(work[w].entry.snap, r, page, already, failed),
                ![w].nextCp[r] = NextCheckpoint(work[w].entry.snap.cp[r], page, failed)]

LEMMA PagePersisted ==
    ASSUME NEW w, PersistPage(w)
    PROVE  Persisted(w, Current(w), work[w].pages[Current(w)], work[w].already,
                     work[w].pages[Current(w)].ids \ work[w].already)
<1>. DEFINE r == Current(w)
            page == work[w].pages[r]
            new == page.ids \ work[w].already
<1>1. PICK bad \in SUBSET new :
        LET outcomes == [x \in new |-> IF x \in bad
                THEN [status |-> "failed", known |-> FALSE]
                ELSE [status |-> "created", known |-> TRUE]]
            failed == {x \in bad : ~IsTerminal(ledger'[r][x])}
        IN  /\ ledger' = UpsertResults(ledger, r, new, outcomes)
            /\ work' = [work EXCEPT ![w].at = @ + 1, ![w].already = {},
                  ![w].entry.snap = CountPage(work[w].entry.snap, r, page, work[w].already, failed),
                  ![w].nextCp[r] = NextCheckpoint(work[w].entry.snap.cp[r], page, failed)]
  BY Zenon DEF PersistPage
<1>2. PICK failed \in SUBSET new : failed = {x \in bad : ~IsTerminal(ledger'[r][x])}
  OBVIOUS
<1>3. ledger' = UpsertResults(ledger, r, new, WriteOutcomes(new, bad))
  BY <1>1, Zenon DEF WriteOutcomes
<1>. HIDE DEF r, page, new
<1>4. work' = [work EXCEPT ![w].at = @ + 1, ![w].already = {},
                  ![w].entry.snap = CountPage(work[w].entry.snap, r, page, work[w].already, failed),
                  ![w].nextCp[r] = NextCheckpoint(work[w].entry.snap.cp[r], page, failed)]
  BY <1>1, <1>2, Zenon
<1>5. Persisted(w, r, page, work[w].already, new)
  BY <1>2, <1>3, <1>4, Zenon DEF Persisted
<1>. QED
  BY <1>5 DEF r, page, new

LEMMA PageGrows ==
    ASSUME NEW src \in Sources, NEW led \in Ledgers, NEW newLed \in Ledgers, NEW r \in Routes,
           Done(led, r) \subseteq Done(newLed, r), NEW frz, NEW page,
           PageTrue(page, r, src, frz, led)
    PROVE  PageTrue(page, r, src, frz, newLed)
BY DEF PageTrue, Done, Sources

LEMMA PersistPageKeeps ==
    ASSUME BackedInv, NEW w \in Workers, pc[w] = "write", PersistPage(w)
    PROVE  BackedInv'
<1>1. PICK kw : kw = work[w]
  OBVIOUS
<1>2. /\ kw \in Work /\ WorkTrue(kw, "write", source, frozen, ledger)
      /\ kw.entry \in Entry /\ kw.entry.snap \in Snapshot
  BY <1>1, BackedTyped DEF BackedInv
<1>3. PageInHand(kw, ledger)
  BY <1>2 DEF WorkTrue
<1>4. kw.at \in 1 .. Len(RouteOrder) /\ Len(RouteOrder) \in Nat
  BY <1>1, <1>3, CurrentRoute, ConstantsTyped DEF PageInHand
<1>5. PICK r \in Routes : r = Current(w) /\ r = RouteOrder[kw.at]
  BY <1>1, <1>4, CurrentRoute DEF Current
<1>6. PICK page \in Page : page = kw.pages[r]
  BY <1>2 DEF Work
<1>7. PICK already \in SUBSET page.ids : already = kw.already
  BY <1>3, <1>5, <1>6 DEF PageInHand
<1>8. PICK new \in SUBSET page.ids : new = page.ids \ already
  OBVIOUS
<1>9. PICK bad \in SUBSET new, failed \in SUBSET new :
        /\ ledger' = UpsertResults(ledger, r, new, WriteOutcomes(new, bad))
        /\ failed = {x \in bad : ~IsTerminal(ledger'[r][x])}
        /\ work' = [work EXCEPT ![w].at = @ + 1, ![w].already = {},
                ![w].entry.snap = CountPage(work[w].entry.snap, r, page, already, failed),
                ![w].nextCp[r] = NextCheckpoint(work[w].entry.snap.cp[r], page, failed)]
  <2>1. Persisted(w, r, page, already, new)
    BY <1>1, <1>5, <1>6, <1>7, <1>8, PagePersisted
  <2>. QED
    BY <2>1, Zenon DEF Persisted
<1>10. PICK led \in Ledgers :
         /\ led = ledger' /\ Wrote(ledger, r, new, bad, led)
         /\ \A q \in Routes : Done(ledger, q) \subseteq Done(led, q)
         /\ \A q \in Routes : q # r => Done(led, q) = Done(ledger, q)
         /\ Done(led, r) \subseteq Done(ledger, r) \cup new
         /\ new \ bad \subseteq Done(led, r)
  <2>1. ledger \in Ledgers /\ new \in SUBSET Records
    BY BackedTyped DEF Page
  <2>. QED
    <3>1. Wrote(ledger, r, new, bad, ledger')
      BY <1>9, <2>1, WritesKeep
    <3>. QED
      BY <3>1 DEF Wrote
<1>11. /\ UNCHANGED <<source, frozen, attempt, row>>
       /\ pc' = [pc EXCEPT ![w] = "route"] /\ "route" \in Places
  BY DEF PersistPage, Goto, Places
<1>12. source \in Sources /\ frozen \in Sources /\ ledger \in Ledgers
  BY BackedTyped
<1>13. Grown(source, ledger, source, led)
  BY <1>10 DEF Grown
<1>14. PageTrue(page, r, source, frozen, led) /\ page.seen
  <2>1. PageTrue(page, r, source, frozen, ledger)
    BY <1>2, <1>6 DEF WorkTrue, PagesTrue
  <2>2. page.seen
    BY <1>3, <1>5, <1>6 DEF PageInHand
  <2>. QED
    BY <1>10, <1>12, <2>1, <2>2, PageGrows
<1>15. ScopeTrue(source, frozen, led)
  <2>1. page.ids \subseteq frozen[r]
    BY <1>14 DEF PageTrue
  <2>. QED
    BY <1>10, <2>1 DEF ScopeTrue, BackedInv
<1>16. PICK snap \in Snapshot : snap = kw.entry.snap
  BY <1>2
<1>17. SnapTrue(snap, source, led)
  <2>1. SnapTrue(snap, source, ledger)
    BY <1>2, <1>16 DEF WorkTrue
  <2>. QED
    BY <1>10, <1>12, <1>13, <2>1, SnapGrows
<1>18. /\ failed \in SUBSET page.ids /\ failed \cap already = {}
       /\ page.ids \ failed \subseteq Done(led, r)
       /\ page.ids \ (already \cup failed) = new \ failed
  <2>1. failed \in SUBSET new /\ \A x \in bad \ failed : IsTerminal(led[r][x])
    BY <1>9, <1>10
  <2>2. already \subseteq Done(led, r)
    BY <1>3, <1>5, <1>7, <1>10 DEF PageInHand
  <2>3. new \ failed \subseteq Done(led, r)
    BY <1>10, <2>1 DEF Page, Done
  <2>. QED
    BY <1>8, <2>1, <2>2, <2>3
<1>19. snap.processed[r] + Cardinality(page.ids \ (already \cup failed))
           <= Cardinality(Done(led, r))
  <2>1. snap.processed[r] <= Cardinality(Done(ledger, r) \ new) /\ snap.processed[r] \in Nat
    BY <1>3, <1>5, <1>6, <1>7, <1>8, <1>16 DEF PageInHand, Snapshot
  <2>2. /\ Done(ledger, r) \ new \in SUBSET Records /\ new \ failed \in SUBSET Records
        /\ Done(led, r) \in SUBSET Records
        /\ (Done(ledger, r) \ new) \cap (new \ failed) = {}
        /\ (Done(ledger, r) \ new) \cup (new \ failed) \subseteq Done(led, r)
    BY <1>8, <1>10, <1>18 DEF Done, Page
  <2>3. PICK a \in Nat, b \in Nat, c \in Nat :
          /\ a = Cardinality(Done(ledger, r) \ new) /\ b = Cardinality(new \ failed)
          /\ c = Cardinality(Done(led, r))
    BY <2>2, RecordsFinite
  <2>4. a + b <= c
    BY <2>2, <2>3, ApartCount
  <2>5. Cardinality(page.ids \ (already \cup failed)) = b
    BY <1>18, <2>3
  <2>. QED
    BY <2>1, <2>3, <2>4, <2>5
<1>20. PICK s \in Snapshot :
         /\ s = CountPage(snap, r, page, already, failed) /\ SnapTrue(s, source, led)
         /\ NextCheckpoint(snap.cp[r], page, failed) \in 0 .. MaxRecord
         /\ \A x \in source[r] : x <= NextCheckpoint(snap.cp[r], page, failed)
                                   => IsTerminal(led[r][x])
  <2>1. PICK s : s = CountPage(snap, r, page, already, failed)
    OBVIOUS
  <2>2. PageCounted(snap, r, page, already, failed, s, source, led)
    BY <1>12, <1>14, <1>17, <1>18, <1>19, <2>1, CountPageTrue
  <2>. QED
    BY <2>1, <2>2 DEF PageCounted
<1>21. PICK n \in 0 .. MaxRecord : n = NextCheckpoint(snap.cp[r], page, failed)
  BY <1>20
<1>22. PICK e : e = [kw.entry EXCEPT !.snap = s]
  OBVIOUS
<1>23. e \in Entry /\ e.snap = s
  BY <1>2, <1>22 DEF Entry
<1>24. PICK cps : cps = [kw.nextCp EXCEPT ![r] = n]
  OBVIOUS
<1>25. cps \in [Routes -> 0 .. MaxRecord] /\ Passed({}, cps, source, led)
  <2>1. kw.nextCp \in [Routes -> 0 .. MaxRecord] /\ Passed({}, kw.nextCp, source, led)
    BY <1>2, <1>10, <1>12, <1>13, PassedGrows DEF WorkTrue
  <2>. QED
    BY <1>20, <1>21, <1>24, <2>1 DEF Passed
<1>26. PICK k : k = [kw EXCEPT !.at = @ + 1, !.already = {}, !.entry = e, !.nextCp = cps]
  OBVIOUS
<1>27. k \in Work
  <2>1. kw.at + 1 \in 1 .. Len(RouteOrder) + 1
    BY <1>4
  <2>2. cps \in [Routes -> Nat]
    BY <1>25, RecordsFinite
  <2>3. {} \in SUBSET Records
    OBVIOUS
  <2>. QED
    BY <1>2, <1>23, <1>26, <2>1, <2>2, <2>3 DEF Work
<1>28. /\ k.entry = e /\ k.nextCp = cps /\ k.pages = kw.pages
       /\ k.looped = kw.looped /\ k.result = kw.result
  BY <1>2, <1>26 DEF Work
<1>29. WorkTrue(kw, "route", source, frozen, ledger)
  BY <1>2 DEF WorkTrue
<1>30. WorkTrue(kw, "route", source, frozen, led)
  BY <1>2, <1>10, <1>12, <1>13, <1>29, WorkGrows
<1>31. WorkTrue(k, "route", source, frozen, led)
  <2>1. SnapTrue(k.entry.snap, source, led)
    BY <1>20, <1>23, <1>28
  <2>2. PagesTrue(k.pages, source, frozen, led)
    BY <1>28, <1>30 DEF WorkTrue
  <2>3. k.nextCp \in [Routes -> 0 .. MaxRecord] /\ Passed({}, k.nextCp, source, led)
    BY <1>25, <1>28
  <2>4. LoopMet(k, frozen, led)
    BY <1>28, <1>30 DEF WorkTrue, LoopMet
  <2>. QED
    BY <2>1, <2>2, <2>3, <2>4 DEF WorkTrue
<1>32. work' = [work EXCEPT ![w] = k]
  <2>1. work' = [work EXCEPT ![w].at = @ + 1, ![w].already = {},
                             ![w].entry.snap = s, ![w].nextCp[r] = n]
    <3>1. /\ work[w].entry.snap = snap /\ CountPage(snap, r, page, already, failed) = s
          /\ NextCheckpoint(work[w].entry.snap.cp[r], page, failed) = n
      BY <1>1, <1>16, <1>20, <1>21
    <3>2. work' = [work EXCEPT ![w].at = @ + 1, ![w].already = {},
             ![w].entry.snap = CountPage(work[w].entry.snap, r, page, already, failed),
             ![w].nextCp[r] = NextCheckpoint(work[w].entry.snap.cp[r], page, failed)]
      BY <1>9
    <3>3. CountPage(work[w].entry.snap, r, page, already, failed) = s
      BY <3>1, Zenon
    <3>. QED
      BY <3>1, <3>2, <3>3, Zenon
  <2>2. PICK new1 : new1 = [kw EXCEPT !.at = @ + 1, !.already = {}, !.entry.snap = s,
                                     !.nextCp[r] = n]
    OBVIOUS
  <2>3. work' = [work EXCEPT ![w] = new1]
    BY <1>1, <2>1, <2>2, BackedTyped DEF Work
  <2>4. new1 = k
    BY <1>2, <1>22, <1>24, <1>26, <2>2 DEF Work
  <2>. QED
    BY <2>3, <2>4
<1>33. row' \in Journal /\ SnapTrue(row'.entry.snap, source, led)
  <2>1. SnapTrue(row.entry.snap, source, ledger)
    BY DEF BackedInv
  <2>. QED
    BY <1>10, <1>11, <1>12, <1>13, <2>1, BackedTyped, SnapGrows
<1>. QED
  <2>1. Becomes(w, k, "route")
    BY <1>11, <1>32 DEF Becomes
  <2>. QED
    BY <1>10, <1>11, <1>13, <1>15, <1>27, <1>31, <1>33, <2>1, StepFrame

(* What run_batch returns: checkpoints, pages, and whether more is to come. *)
LEMMA BatchReturned ==
    ASSUME BackedInv, NEW w \in Workers, NEW more \in BOOLEAN, more = BatchMore(w),
           NEW status \in ExecutionStatus, NEW e,
           e = [work[w].entry EXCEPT !.snap.cp = work[w].nextCp, !.snap.pages = work[w].pages,
                                     !.snap.hasMore = more, !.status = status]
    PROVE  /\ e \in Entry /\ SnapTrue(e.snap, source, ledger)
           /\ HandedOver(e.snap, source, frozen, ledger)
<1>1. PICK kw \in Work : kw = work[w] /\ kw.entry \in Entry /\ kw.entry.snap \in Snapshot
  BY BackedTyped
<1>2. WorkTrue(kw, pc[w], source, frozen, ledger)
  BY <1>1 DEF BackedInv
<1>3. PICK s : s = [kw.entry.snap EXCEPT !.cp = kw.nextCp, !.pages = kw.pages, !.hasMore = more]
  OBVIOUS
<1>4. kw.nextCp \in [Routes -> 0 .. MaxRecord] /\ kw.pages \in [Routes -> Page]
  BY <1>1, <1>2 DEF WorkTrue, Work
<1>5. s \in Snapshot
  BY <1>1, <1>3, <1>4 DEF Snapshot
<1>6. /\ s.cp = kw.nextCp /\ s.pages = kw.pages /\ s.hasMore = more
      /\ s.completed = kw.entry.snap.completed /\ s.processed = kw.entry.snap.processed
  BY <1>1, <1>3 DEF Snapshot
<1>7. e = [kw.entry EXCEPT !.snap = s, !.status = status]
  BY <1>1, <1>3 DEF Entry
<1>8. e \in Entry /\ e.snap = s
  BY <1>1, <1>5, <1>7 DEF Entry
<1>9. SnapTrue(s, source, ledger)
  BY <1>2, <1>6 DEF WorkTrue, SnapTrue, Counted, Passed
<1>10. HandedOver(s, source, frozen, ledger)
  <2>1. PagesTrue(s.pages, source, frozen, ledger)
    BY <1>2, <1>6 DEF WorkTrue
  <2>2. \A r \in Routes : s.pages[r].seen /\ ~s.hasMore => r \in s.completed
    BY <1>1, <1>6 DEF BatchMore
  <2>. QED
    BY <2>1, <2>2 DEF HandedOver
<1>. QED
  BY <1>8, <1>9, <1>10

LEMMA StepSaveKeeps ==
    ASSUME BackedInv, NEW w \in Workers, StepSave(w)
    PROVE  BackedInv'
<1>1. PICK more \in BOOLEAN : more = BatchMore(w)
  BY DEF BatchMore
<1>2. PICK status \in ExecutionStatus : status = IF more THEN "running" ELSE "completed"
  BY DEF ExecutionStatus
<1>3. PICK e : e = [work[w].entry EXCEPT !.snap.cp = work[w].nextCp, !.snap.pages = work[w].pages,
                                         !.snap.hasMore = more, !.status = status]
  OBVIOUS
<1>4. /\ e \in Entry /\ SnapTrue(e.snap, source, ledger)
      /\ HandedOver(e.snap, source, frozen, ledger)
  BY <1>1, <1>3, BatchReturned
<1>5. /\ Save(w, e)
      /\ \/ Goto(w, "conclude") /\ work' = [work EXCEPT ![w].entry = e]
         \/ Return(w, "cancelled")
         \/ RaiseTo(w, "fault", "raised")
      /\ UNCHANGED <<source, frozen, ledger, attempt>>
  <2>1. e = [work[w].entry EXCEPT
            !.snap.cp = work[w].nextCp, !.snap.pages = work[w].pages,
            !.snap.hasMore = BatchMore(w),
            !.status = IF BatchMore(w) THEN "running" ELSE "completed"]
    BY <1>1, <1>2, <1>3
  <2>. QED
    BY <2>1, Zenon DEF StepSave
<1>6. row' \in Journal /\ SnapTrue(row'.entry.snap, source, ledger)
  BY <1>4, <1>5, SaveKeeps
<1>7. CASE Return(w, "cancelled")
  BY <1>5, <1>6, <1>7, ReturnStep DEF Returned, ExecutionStatus
<1>8. CASE RaiseTo(w, "fault", "raised")
  BY <1>5, <1>6, <1>8, RaiseStep
<1>9. CASE Goto(w, "conclude") /\ work' = [work EXCEPT ![w].entry = e]
  <2>1. PICK k : k = [work[w] EXCEPT !.entry = e]
    OBVIOUS
  <2>2. k \in Work
    BY <1>4, <2>1, BackedTyped DEF Work
  <2>3. /\ k.entry = e /\ k.pages = work[w].pages /\ k.nextCp = work[w].nextCp
        /\ k.looped = work[w].looped /\ k.result = work[w].result
    BY <2>1, BackedTyped DEF Work
  <2>4. WorkTrue(work[w], "loop", source, frozen, ledger)
    BY DEF BackedInv, WorkTrue
  <2>5. WorkTrue(k, "conclude", source, frozen, ledger)
    BY <1>4, <2>3, <2>4 DEF WorkTrue, LoopMet
  <2>6. Becomes(w, k, "conclude") /\ "conclude" \in Places
    BY <1>9, <2>1 DEF Becomes, Goto, Places
  <2>. QED
    BY <1>5, <1>6, <2>2, <2>5, <2>6, QuietStep
<1>. QED
  BY <1>5, <1>7, <1>8, <1>9

(* Reconciliation believes only what the ledger proves.                    *)
LEMMA ReconciledTrue ==
    ASSUME BackedInv, NEW snap \in Snapshot, SnapTrue(snap, source, ledger),
           HandedOver(snap, source, frozen, ledger), Reconcilable(snap),
           NEW s, s = Reconciled(snap)
    PROVE  /\ s \in Snapshot /\ SnapTrue(s, source, ledger)
           /\ HandedOver(s, source, frozen, ledger)
<1>1. PICK d : d = DurableResults(snap)
  OBVIOUS
<1>2. /\ d \in Snapshot /\ SnapTrue(d, source, ledger)
      /\ d.cp = snap.cp /\ d.completed = snap.completed
      /\ d.pages = snap.pages /\ d.hasMore = snap.hasMore
  BY <1>1, DurableTrue
<1>3. PICK cps : cps = [r \in Routes |-> IF r \notin Checked(snap) THEN snap.cp[r]
                                         ELSE IF snap.pages[r].more
                                              THEN LastOf(snap.pages[r].ids, 0) ELSE 0]
  OBVIOUS
<1>4. PICK done : done = snap.completed \cup {r \in Checked(snap) : ~snap.pages[r].more}
  OBVIOUS
<1>5. PICK more \in BOOLEAN : more = \E r \in Checked(snap) : snap.pages[r].more
  OBVIOUS
<1>6. s = [d EXCEPT !.cp = cps, !.completed = done, !.hasMore = more]
  BY <1>1, <1>2, <1>3, <1>4, <1>5 DEF Reconciled
<1>7. \A r \in Routes : /\ snap.pages[r] \in Page /\ snap.pages[r].ids \in SUBSET Records
                        /\ snap.cp[r] \in 0 .. MaxRecord
  BY DEF Snapshot, Page
<1>8. \A r \in Routes : LastOf(snap.pages[r].ids, 0) \in 0 .. MaxRecord
  <2>1. SUFFICES ASSUME NEW r \in Routes
                 PROVE  LastOf(snap.pages[r].ids, 0) \in 0 .. MaxRecord
    OBVIOUS
  <2>2. PICK ids \in SUBSET Records : ids = snap.pages[r].ids
    BY <1>7
  <2>3. CASE ids = {}
    <3>1. LastOf(ids, 0) = 0
      BY <2>3, LastOfIn
    <3>. QED
      BY <2>2, <3>1, RecordsFinite
  <2>4. CASE ids # {}
    <3>1. LastOf(ids, 0) \in Records
      BY <2>4, LastOfIn
    <3>. QED
      BY <2>2, <3>1, RecordsFinite
  <2>. QED
    BY <2>3, <2>4
<1>9. cps \in [Routes -> 0 .. MaxRecord]
  <2>1. 0 \in 0 .. MaxRecord
    BY RecordsFinite
  <2>2. ASSUME NEW r \in Routes
        PROVE  cps[r] \in 0 .. MaxRecord
    BY <1>3, <1>7, <1>8, <2>1
  <2>. QED
    BY <1>3, <2>2
<1>10. done \in SUBSET Routes
  BY <1>4 DEF Snapshot, Checked
<1>11. s \in Snapshot
  BY <1>2, <1>6, <1>9, <1>10 DEF Snapshot
<1>12. /\ s.cp = cps /\ s.completed = done /\ s.hasMore = more
       /\ s.pages = snap.pages /\ s.processed = d.processed
  BY <1>2, <1>6 DEF Snapshot
<1>13. Counted(s, ledger)
  BY <1>2, <1>12 DEF SnapTrue, Counted
<1>14. ASSUME NEW r \in Checked(snap), NEW x \in source[r],
              ~snap.pages[r].more \/ (snap.pages[r].more /\ x <= LastOf(snap.pages[r].ids, 0))
       PROVE  IsTerminal(ledger[r][x])
  <2>0. r \in Routes /\ snap.pages[r].seen
    BY DEF Checked
  <2>1. snap.pages[r].ids # {} /\ Covered(ledger, r, snap.pages[r].ids)
    BY DEF Reconcilable
  <2>2. PageTrue(snap.pages[r], r, source, frozen, ledger)
    BY <2>0 DEF HandedOver, PagesTrue
  <2>3. LastOf(snap.pages[r].ids, 0) \in snap.pages[r].ids
    BY <1>7, <2>0, <2>1, LastOfIn
  <2>4. x \in snap.pages[r].ids \/ IsTerminal(ledger[r][x])
    BY <1>14, <2>0, <2>2, <2>3 DEF PageTrue
  <2>. QED
    BY <2>1, <2>4 DEF Covered, TerminalIds
<1>15. Passed(done, cps, source, ledger)
  <2>1. SUFFICES ASSUME NEW r \in Routes, NEW x \in source[r], r \in done \/ x <= cps[r]
                 PROVE  IsTerminal(ledger[r][x])
    BY DEF Passed
  <2>2. ~(x <= 0)
    BY BackedTyped, RecordsFinite DEF Sources
  <2>3. CASE r \notin Checked(snap)
    <3>1. cps[r] = snap.cp[r]
      BY <1>3, <2>3
    <3>2. r \in snap.completed \/ x <= snap.cp[r]
      BY <1>4, <2>1, <2>3, <3>1
    <3>. QED
      BY <3>2 DEF SnapTrue, Passed
  <2>4. CASE r \in Checked(snap) /\ ~snap.pages[r].more
    BY <1>14, <2>4
  <2>5. CASE r \in Checked(snap) /\ snap.pages[r].more
    <3>1. cps[r] = LastOf(snap.pages[r].ids, 0)
      BY <1>3, <2>5
    <3>2. r \in snap.completed \/ x <= LastOf(snap.pages[r].ids, 0)
      BY <1>4, <2>1, <2>5, <3>1
    <3>3. CASE r \in snap.completed
      BY <3>3 DEF SnapTrue, Passed
    <3>4. CASE x <= LastOf(snap.pages[r].ids, 0)
      BY <1>14, <2>5, <3>4
    <3>. QED
      BY <3>2, <3>3, <3>4
  <2>. QED
    BY <2>3, <2>4, <2>5
<1>16. HandedOver(s, source, frozen, ledger)
  <2>1. \A r \in Routes : s.pages[r].seen /\ ~s.hasMore => r \in s.completed
    BY <1>4, <1>5, <1>12 DEF Checked
  <2>. QED
    BY <1>12, <2>1 DEF HandedOver
<1>. QED
  BY <1>11, <1>12, <1>13, <1>15, <1>16 DEF SnapTrue

(* A reopened route resumes where everything before is terminal.           *)
LEMMA ReopenedTrue ==
    ASSUME BackedInv, NEW snap \in Snapshot, SnapTrue(snap, source, ledger),
           HandedOver(snap, source, frozen, ledger), NEW short \in SUBSET Routes,
           short # {} => ~snap.hasMore, NEW s, s = Reopened(snap, short)
    PROVE  /\ s \in Snapshot /\ SnapTrue(s, source, ledger)
           /\ s.hasMore = (snap.hasMore \/ short # {})
           /\ s.processed = snap.processed
<1>1. \A r \in Routes : /\ snap.pages[r] \in Page /\ snap.pages[r].ids \in SUBSET Records
                        /\ snap.cp[r] \in 0 .. MaxRecord
  BY DEF Snapshot, Page
<1>2. ASSUME NEW r \in short
      PROVE  /\ SafeCursor(snap, r) \in 0 .. MaxRecord
             /\ \A x \in source[r] : x <= SafeCursor(snap, r) => IsTerminal(ledger[r][x])
  <2>1. PICK ids \in SUBSET Records : ids = snap.pages[r].ids
    BY <1>1
  <2>2. CASE snap.cp[r] # 0
    <3>1. SafeCursor(snap, r) = snap.cp[r]
      BY <2>2 DEF SafeCursor
    <3>. QED
      BY <1>1, <3>1 DEF SnapTrue, Passed
  <2>3. CASE snap.cp[r] = 0 /\ ids = {}
    <3>1. SafeCursor(snap, r) = 0
      BY <2>1, <2>3, LastOfIn DEF SafeCursor
    <3>2. \A x \in source[r] : ~(x <= 0)
      BY BackedTyped, RecordsFinite DEF Sources
    <3>. QED
      BY <3>1, <3>2, RecordsFinite
  <2>4. CASE snap.cp[r] = 0 /\ ids # {}
    <3>1. SafeCursor(snap, r) = LastOf(ids, 0)
      BY <2>1, <2>4 DEF SafeCursor
    <3>2. LastOf(ids, 0) \in Records
      BY <2>4, LastOfIn
    <3>3. snap.pages[r].seen /\ ~snap.hasMore
      BY <2>1, <2>4 DEF HandedOver, PagesTrue, PageTrue
    <3>4. r \in snap.completed
      BY <3>3 DEF HandedOver
    <3>5. \A x \in source[r] : IsTerminal(ledger[r][x])
      BY <3>4 DEF SnapTrue, Passed
    <3>. QED
      BY <3>1, <3>2, <3>5, RecordsFinite
  <2>. QED
    BY <2>2, <2>3, <2>4
<1>3. PICK cps : cps = [r \in Routes |-> IF r \in short THEN SafeCursor(snap, r) ELSE snap.cp[r]]
  OBVIOUS
<1>4. cps \in [Routes -> 0 .. MaxRecord]
  <2>1. ASSUME NEW r \in Routes
        PROVE  cps[r] \in 0 .. MaxRecord
    BY <1>1, <1>2, <1>3
  <2>. QED
    BY <1>3, <2>1
<1>5. PICK more \in BOOLEAN : more = (snap.hasMore \/ short # {})
  OBVIOUS
<1>6. s = [snap EXCEPT !.cp = cps, !.completed = snap.completed \ short, !.hasMore = more]
  BY <1>3, <1>5 DEF Reopened, Snapshot
<1>7. snap.completed \ short \in SUBSET Routes
  BY DEF Snapshot
<1>8. s \in Snapshot
  BY <1>4, <1>6, <1>7 DEF Snapshot
<1>9. /\ s.cp = cps /\ s.completed = snap.completed \ short /\ s.hasMore = more
      /\ s.processed = snap.processed
  BY <1>6 DEF Snapshot
<1>10. Counted(s, ledger)
  BY <1>9 DEF SnapTrue, Counted
<1>11. ASSUME NEW r \in Routes, NEW x \in source[r], r \in snap.completed \ short \/ x <= cps[r]
       PROVE  IsTerminal(ledger[r][x])
  <2>1. CASE r \in short
    BY <1>2, <1>3, <1>11, <2>1
  <2>2. CASE r \notin short
    <3>1. cps[r] = snap.cp[r]
      BY <1>3, <2>2
    <3>. QED
      BY <1>11, <3>1 DEF SnapTrue, Passed
  <2>. QED
    BY <2>1, <2>2
<1>12. Passed(s.completed, s.cp, source, ledger)
  BY <1>9, <1>11 DEF Passed
<1>. QED
  BY <1>5, <1>8, <1>9, <1>10, <1>12 DEF SnapTrue

(* Counts that reach a frozen total, when they count terminal rows of the  *)
(* frozen scope only, mean that the scope is migrated.                     *)
LEMMA TotalsMet ==
    ASSUME BackedInv, NEW snap \in Snapshot, Counted(snap, ledger), Incomplete(snap) = {}
    PROVE  \A r \in Routes \ UnknownTotals : frozen[r] \subseteq Done(ledger, r)
<1>1. SUFFICES ASSUME NEW r \in Routes \ UnknownTotals
               PROVE  frozen[r] \subseteq Done(ledger, r)
  OBVIOUS
<1>2. frozen[r] \in SUBSET Records /\ Done(ledger, r) \in SUBSET frozen[r]
  BY BackedTyped DEF Sources, BackedInv, ScopeTrue
<1>3. PICK a \in Nat, b \in Nat, c \in Nat :
        a = snap.processed[r] /\ b = Cardinality(frozen[r]) /\ c = Cardinality(Done(ledger, r))
  <2>1. Done(ledger, r) \in SUBSET Records
    BY DEF Done
  <2>. QED
    BY <1>2, <2>1, RecordsFinite DEF Snapshot
<1>4. ~(a < b) /\ a <= c
  BY <1>3 DEF Incomplete, Counted
<1>5. b <= c
  BY <1>4
<1>. QED
  BY <1>2, <1>3, <1>5, FewerCount

(* The tail of the loop over names of its own.                             *)
Settled(snap, marker) ==
    IF snap.hasMore /\ ProgressMarker(snap) = marker /\ Reconcilable(snap)
    THEN Reconciled(snap) ELSE snap
Concluded(w, settled, short, final, state, entry) ==
    IF \E r \in short : SafeCursor(settled, r) = 0
    THEN RaiseTo(w, "fault", "raised") /\ UNCHANGED row
    ELSE /\ Save(w, entry)
         /\ \/ Return(w, "cancelled")
            \/ RaiseTo(w, "fault", "raised")
            \/ /\ SaveOutcome(w) # "superseded" /\ Goto(w, "loop")
               /\ work' = [work EXCEPT ![w] = [NoWork EXCEPT
                        !.batches = entry.batches, !.marker = ProgressMarker(settled)]]
            \/ /\ Goto(w, "ended") /\ state # "running"
               /\ work' = [work EXCEPT ![w] = [NoWork EXCEPT !.result = state, !.looped = TRUE]]

ConcludedSo(w, settled, short, final, state) ==
    /\ settled = Settled(work[w].entry.snap, work[w].marker)
    /\ short = IF settled.hasMore THEN {} ELSE Incomplete(settled)
    /\ final = Reopened(settled, short)
    /\ state = IF (settled.hasMore /\ ProgressMarker(settled) = work[w].marker) \/ short # {}
               THEN "failed" ELSE IF final.hasMore THEN "running" ELSE "completed"
    /\ Concluded(w, settled, short, final, state,
           [work[w].entry EXCEPT !.snap = final, !.status = state, !.scope = "same",
                                 !.batches = work[w].batches + 1])

LEMMA ConcludeConcluded ==
    ASSUME NEW w, Conclude(w)
    PROVE  \E settled, short, final, state : ConcludedSo(w, settled, short, final, state)
<1>. DEFINE batch == work[w].entry.snap
            stuck(snap) == snap.hasMore /\ ProgressMarker(snap) = work[w].marker
            settled == IF stuck(batch) /\ Reconcilable(batch) THEN Reconciled(batch) ELSE batch
            short == IF settled.hasMore THEN {} ELSE Incomplete(settled)
            final == Reopened(settled, short)
            stalled == stuck(settled) \/ short # {}
            state == IF stalled THEN "failed" ELSE IF final.hasMore THEN "running" ELSE "completed"
            entry == [work[w].entry EXCEPT !.snap = final, !.status = state, !.scope = "same",
                                           !.batches = work[w].batches + 1]
<1>1. IF \E r \in short : SafeCursor(settled, r) = 0
      THEN RaiseTo(w, "fault", "raised") /\ UNCHANGED row
      ELSE /\ Save(w, entry)
           /\ CASE SaveOutcome(w) = "cancelled" -> Return(w, "cancelled")
                [] SaveOutcome(w) = "superseded" -> RaiseTo(w, "fault", "raised")
                [] SaveOutcome(w) = "saved" /\ state = "running" ->
                       /\ Goto(w, "loop")
                       /\ work' = [work EXCEPT ![w] = [NoWork EXCEPT
                               !.batches = entry.batches, !.marker = ProgressMarker(settled)]]
                [] OTHER ->
                       /\ Goto(w, "ended")
                       /\ work' = [work EXCEPT ![w] =
                               [NoWork EXCEPT !.result = state, !.looped = TRUE]]
  BY Zenon DEF Conclude
<1>2. settled = Settled(work[w].entry.snap, work[w].marker)
  BY Zenon DEF Settled
<1>3. short = IF settled.hasMore THEN {} ELSE Incomplete(settled)
  OBVIOUS
<1>4. final = Reopened(settled, short)
  OBVIOUS
<1>5. state = IF (settled.hasMore /\ ProgressMarker(settled) = work[w].marker) \/ short # {}
              THEN "failed" ELSE IF final.hasMore THEN "running" ELSE "completed"
  BY Zenon
<1>6. entry = [work[w].entry EXCEPT !.snap = final, !.status = state, !.scope = "same",
                                    !.batches = work[w].batches + 1]
  OBVIOUS
<1>. HIDE DEF batch, stuck, settled, short, final, stalled, state, entry
<1>7. Concluded(w, settled, short, final, state, entry)
  <2>1. CASE \E r \in short : SafeCursor(settled, r) = 0
    BY <1>1, <2>1 DEF Concluded
  <2>2. CASE ~(\E r \in short : SafeCursor(settled, r) = 0)
    <3>1. Save(w, entry)
      BY <1>1, <2>2
    <3>2. SaveOutcome(w) \in {"cancelled", "superseded", "saved"}
      BY DEF SaveOutcome
    <3>3. CASE SaveOutcome(w) = "cancelled"
      BY <1>1, <2>2, <3>1, <3>3 DEF Concluded
    <3>4. CASE SaveOutcome(w) = "superseded"
      BY <1>1, <2>2, <3>1, <3>4 DEF Concluded
    <3>5. CASE SaveOutcome(w) = "saved" /\ state = "running"
      BY <1>1, <2>2, <3>1, <3>5 DEF Concluded
    <3>6. CASE SaveOutcome(w) = "saved" /\ state # "running"
      BY <1>1, <2>2, <3>1, <3>6 DEF Concluded
    <3>. QED
      BY <3>2, <3>3, <3>4, <3>5, <3>6
  <2>. QED
    BY <2>1, <2>2
<1>8. ConcludedSo(w, settled, short, final, state)
  BY <1>2, <1>3, <1>4, <1>5, <1>6, <1>7, Zenon DEF ConcludedSo
<1>. QED
  BY <1>8

LEMMA ConcludeKeeps ==
    ASSUME BackedInv, NEW w \in Workers, pc[w] = "conclude", Conclude(w)
    PROVE  BackedInv'
<1>1. PICK settled, short, final, state : ConcludedSo(w, settled, short, final, state)
  BY ConcludeConcluded
<1>2. PICK e0 \in Entry, b \in Nat : e0 = work[w].entry /\ b = work[w].batches
  BY BackedTyped DEF Work
<1>3. UNCHANGED <<source, frozen, ledger, attempt>>
  BY DEF Conclude
<1>4. /\ e0.snap \in Snapshot /\ SnapTrue(e0.snap, source, ledger)
      /\ HandedOver(e0.snap, source, frozen, ledger)
  BY <1>2 DEF BackedInv, WorkTrue, Entry
<1>5. /\ settled \in Snapshot /\ SnapTrue(settled, source, ledger)
      /\ HandedOver(settled, source, frozen, ledger)
  <2>1. CASE settled = e0.snap
    BY <1>4, <2>1
  <2>2. CASE settled # e0.snap
    <3>1. Reconcilable(e0.snap) /\ settled = Reconciled(e0.snap)
      BY <1>1, <1>2, <2>2 DEF ConcludedSo, Settled
    <3>. QED
      BY <1>4, <3>1, ReconciledTrue
  <2>. QED
    BY <2>1, <2>2
<1>6. short = IF settled.hasMore THEN {} ELSE Incomplete(settled)
  BY <1>1 DEF ConcludedSo
<1>7. short \in SUBSET Routes /\ (short # {} => ~settled.hasMore)
  BY <1>6 DEF Incomplete
<1>8. /\ final \in Snapshot /\ SnapTrue(final, source, ledger)
      /\ final.hasMore = (settled.hasMore \/ short # {})
  <2>1. final = Reopened(settled, short)
    BY <1>1 DEF ConcludedSo
  <2>. QED
    BY <1>5, <1>7, <2>1, ReopenedTrue
<1>9. state = IF (settled.hasMore /\ ProgressMarker(settled) = work[w].marker) \/ short # {}
              THEN "failed" ELSE IF final.hasMore THEN "running" ELSE "completed"
  BY <1>1 DEF ConcludedSo
<1>10. state \in ExecutionStatus
  BY <1>9 DEF ExecutionStatus
<1>11. PICK e : e = [e0 EXCEPT !.snap = final, !.status = state, !.scope = "same",
                               !.batches = b + 1]
  OBVIOUS
<1>12. e \in Entry /\ e.snap = final /\ e.batches \in Nat
  <2>1. b + 1 \in Nat /\ "same" \in Scope
    BY DEF Scope
  <2>. QED
    BY <1>8, <1>10, <1>11, <2>1 DEF Entry
<1>13. Concluded(w, settled, short, final, state, e)
  BY <1>1, <1>2, <1>11 DEF ConcludedSo
<1>14. row' \in Journal /\ SnapTrue(row'.entry.snap, source, ledger)
  <2>1. Save(w, e) \/ UNCHANGED row
    BY <1>13 DEF Concluded
  <2>. QED
    BY <1>8, <1>12, <2>1, SaveKeeps, RowStays
<1>15. CASE RaiseTo(w, "fault", "raised")
  BY <1>3, <1>14, <1>15, RaiseStep
<1>16. CASE Return(w, "cancelled")
  BY <1>3, <1>14, <1>16, ReturnStep DEF Returned, ExecutionStatus
<1>17. CASE /\ Goto(w, "loop")
            /\ work' = [work EXCEPT ![w] = [NoWork EXCEPT
                    !.batches = e.batches, !.marker = ProgressMarker(settled)]]
  <2>1. PICK k : k = [NoWork EXCEPT !.batches = e.batches, !.marker = ProgressMarker(settled)]
    OBVIOUS
  <2>2. ProgressMarker(settled) \in Marker
    BY <1>5, ConstantsTyped
  <2>3. k \in Work
    BY <1>12, <2>1, <2>2, ConstantsTyped DEF Work
  <2>4. k.entry = NoWork.entry /\ k.pages = NoPages /\ k.nextCp = EmptySnapshot.cp /\ ~k.looped
    BY <2>1 DEF NoWork
  <2>5. FreshWork(k) /\ LoopMet(k, frozen, ledger)
    BY <2>3, <2>4 DEF FreshWork, LoopMet
  <2>6. Becomes(w, k, "loop") /\ "loop" \in Places \ {"write", "conclude"}
    BY <1>17, <2>1 DEF Becomes, Goto, Places
  <2>. QED
    BY <1>3, <1>14, <2>5, <2>6, FreshStep
<1>18. CASE /\ Goto(w, "ended") /\ state # "running"
            /\ work' = [work EXCEPT ![w] = [NoWork EXCEPT !.result = state, !.looped = TRUE]]
  <2>1. PICK k : k = [NoWork EXCEPT !.result = state, !.looped = TRUE]
    OBVIOUS
  <2>2. k \in Work
    BY <1>10, <2>1, ConstantsTyped DEF Work
  <2>3. /\ k.entry = NoWork.entry /\ k.pages = NoPages /\ k.nextCp = EmptySnapshot.cp
        /\ k.result = state
    BY <2>1 DEF NoWork
  <2>4. ASSUME state = "completed"
        PROVE  \A r \in Routes \ UnknownTotals : frozen[r] \subseteq Done(ledger, r)
    <3>1. short = {} /\ ~final.hasMore
      BY <1>9, <2>4
    <3>2. Incomplete(settled) = {}
      BY <1>6, <1>8, <3>1
    <3>. QED
      BY <1>5, <3>2, TotalsMet DEF SnapTrue
  <2>5. FreshWork(k) /\ LoopMet(k, frozen, ledger)
    BY <2>2, <2>3, <2>4 DEF FreshWork, LoopMet
  <2>6. Becomes(w, k, "ended") /\ "ended" \in Places \ {"write", "conclude"}
    BY <1>18, <2>1 DEF Becomes, Goto, Places
  <2>. QED
    BY <1>3, <1>14, <2>5, <2>6, FreshStep
<1>. QED
  BY <1>13, <1>15, <1>16, <1>17, <1>18 DEF Concluded

-----------------------------------------------------------------------------
(* The invariant.                                                          *)

LEMMA BackedInit == Init => BackedInv
<1>1. SUFFICES ASSUME Init
               PROVE  BackedInv
  OBVIOUS
<1>2. NoRow \in Row /\ ~IsTerminal(NoRow)
  BY DEF NoRow, Row, IsTerminal, Terminal
<1>3. source \in Sources /\ frozen = source /\ ledger \in Ledgers
  BY <1>1, <1>2, ScopeAssumption DEF Init, Sources, Ledgers
<1>4. \A r \in Routes : Done(ledger, r) = {}
  BY <1>1, <1>2 DEF Init, Done
<1>5. row \in Journal /\ row.entry.snap = EmptySnapshot
  <2>1. NoJournal.entry.snap = EmptySnapshot
    BY DEF NoJournal, NewEntry
  <2>2. CASE row = NoJournal
    BY <2>1, <2>2, ConstantsTyped
  <2>3. CASE row # NoJournal
    <3>1. PICK s \in InitialScopes : row = [NoJournal EXCEPT !.job = "ours", !.entry.scope = s]
      BY <1>1, <2>3 DEF Init
    <3>2. s \in Scope
      BY ScopeAssumption DEF Scope
    <3>3. row.entry.snap = NoJournal.entry.snap /\ row \in Journal
      BY <3>1, <3>2, ConstantsTyped DEF Journal, Entry
    <3>. QED
      BY <2>1, <3>3
  <2>. QED
    BY <2>2, <2>3
<1>6. \A w \in Workers : work[w] = NoWork /\ pc[w] = "idle"
  BY <1>1 DEF Init
<1>7. TypeOK
  <2>1. attempt \in [Workers -> Attempts]
    BY <1>1, AttemptsAssumption DEF Init
  <2>2. pc \in [Workers -> Places] /\ work \in [Workers -> Work]
    BY <1>1, ConstantsTyped DEF Init, Places
  <2>. QED
    BY <1>3, <1>5, <2>1, <2>2 DEF TypeOK, Sources, Ledgers
<1>8. \A w \in Workers : WorkTrue(work[w], pc[w], source, frozen, ledger)
  <2>1. /\ NoWork.pages = NoPages /\ NoWork.nextCp = EmptySnapshot.cp
        /\ LoopMet(NoWork, frozen, ledger)
    BY DEF NoWork, LoopMet
  <2>2. WorkTrue(NoWork, "idle", source, frozen, ledger)
    BY <1>3, <2>1, IdleTrue
  <2>. QED
    BY <1>6, <2>2
<1>9. ScopeTrue(source, frozen, ledger)
  BY <1>3, <1>4 DEF ScopeTrue
<1>. QED
  BY <1>3, <1>5, <1>7, <1>8, <1>9, EmptyTrue DEF BackedInv

LEMMA BackedNext ==
    ASSUME BackedInv, [Next]_vars
    PROVE  BackedInv'
<1>1. CASE UNCHANGED vars
  BY <1>1 DEF vars, BackedInv, TypeOK
<1>2. CASE Cancel \/ Requeue
  BY <1>2, RowActionsKeep
<1>3. CASE SourceDelete
  BY <1>3, SourceDeleteKeeps
<1>4. ASSUME NEW w \in Workers, Step(w) \/ Crash(w)
      PROVE  BackedInv'
  <2>1. CASE Enter(w)
    BY <2>1, EnterKeeps
  <2>2. CASE ClaimRefused(w)
    BY <2>2, ClaimRefusedKeeps
  <2>3. CASE ClaimNothing(w)
    BY <2>3, ClaimNothingKeeps
  <2>4. CASE Claim(w)
    BY <2>4, ClaimKeeps
  <2>5. CASE LoopLimit(w) \/ LoopHead(w)
    BY <2>5, LoopKeeps
  <2>6. CASE StepLoad(w)
    BY <2>6, StepLoadKeeps
  <2>7. CASE SkipRoute(w)
    BY <2>7, SkipRouteKeeps
  <2>8. CASE ReadPage(w)
    BY <2>8, ReadPageKeeps
  <2>9. CASE PersistPage(w)
    <3>1. pc[w] = "write"
      BY <2>9 DEF PersistPage
    <3>. QED
      BY <2>9, <3>1, PersistPageKeeps
  <2>10. CASE StepRaises(w)
    BY <2>10, StepRaisesKeeps
  <2>11. CASE StepSave(w)
    BY <2>11, StepSaveKeeps
  <2>12. CASE Conclude(w)
    <3>1. pc[w] = "conclude"
      BY <2>12 DEF Conclude
    <3>. QED
      BY <2>12, <3>1, ConcludeKeeps
  <2>13. CASE Fault(w)
    BY <2>13, FaultKeeps
  <2>14. CASE MarkLoad(w)
    BY <2>14, MarkLoadKeeps
  <2>15. CASE MarkSave(w)
    BY <2>15, MarkSaveKeeps
  <2>16. CASE Crash(w)
    BY <2>16, CrashKeeps
  <2>. QED
    BY <1>4, <2>1, <2>2, <2>3, <2>4, <2>5, <2>6, <2>7, <2>8, <2>9, <2>10, <2>11, <2>12,
       <2>13, <2>14, <2>15, <2>16 DEF Step
<1>. QED
  BY <1>1, <1>2, <1>3, <1>4 DEF Next

LEMMA BackedHolds == Spec => []BackedInv
<1>1. BackedInv /\ [Next]_vars => BackedInv'
  BY BackedNext
<1>. QED
  BY <1>1, BackedInit, PTL DEF Spec

(* Whatever any number of workers, twins and attempts do to one job, the   *)
(* row counts as processed only what the ledger holds terminal, and a      *)
(* resume passes over terminal records only (run_batch's counters and      *)
(* checkpoint, apply_durable_route_results, the reconciliation and the     *)
(* reopening of continuous.py).                                            *)
THEOREM RowsAreBacked == Spec => []RowBacked
<1>1. BackedInv => RowBacked
  <2>1. ASSUME BackedInv, NEW r \in Routes
        PROVE  TerminalRows(r) = Done(ledger, r)
    BY DEF TerminalRows, Done
  <2>. QED
    BY <2>1 DEF BackedInv, RowBacked, CountsBacked, NothingPassedOver, SnapTrue, Counted, Passed
<1>. QED
  BY <1>1, BackedHolds, PTL

(* A run whose own loop ends "completed" has migrated every record behind  *)
(* every known frozen total.                                               *)
THEOREM LoopsReconcile == Spec => []LoopReconciles
<1>1. BackedInv => LoopReconciles
  <2>1. ASSUME NEW r \in Routes
        PROVE  TerminalRows(r) = Done(ledger, r)
    BY DEF TerminalRows, Done
  <2>2. UnknownTotals \subseteq Routes
    BY ScopeAssumption
  <2>. QED
    BY <2>1, <2>2 DEF BackedInv, WorkTrue, LoopMet, LoopReconciles
<1>. QED
  BY <1>1, BackedHolds, PTL

-----------------------------------------------------------------------------
(* The fence.                                                              *)

(* Who the workers are: one identity for all, or one for each.             *)
Same(att) == \A u, w \in Workers : att[u] = att[w]
Alone(u, att) == \A w \in Workers : att[w] = att[u] => w = u

(* The number column is that of the identity in the row.                   *)
RowOwned(j) ==
    /\ j.number = IF j.entry.attempt = NoAttempt THEN 0 ELSE NumberOf[j.entry.attempt]
    /\ j.job = "absent" => j.entry.attempt = NoAttempt

(* A turn belongs to the owner, or to a worker that a higher number beat;  *)
(* it began without a row only where identities cannot mix.                *)
TurnFenced(u, j, att) ==
    \/ j.job # "ours" \/ Same(att) \/ Alone(u, att)
    \/ /\ j.entry.attempt # NoAttempt
       /\ j.entry.attempt = att[u] \/ j.number > NumberOf[att[u]]

(* A step on an entry of somebody else's has lost the row for good.        *)
StepFenced(u, j, k, att) ==
    k.entry.attempt # att[u] =>
        \/ j.job = "another"
        \/ /\ j.job = "ours" /\ j.entry.attempt \notin {NoAttempt, att[u]}
           /\ Alone(u, att) \/ j.number > NumberOf[att[u]]

WorkerFenced(u, j, k, place, att) ==
    /\ place \in {"loop", "step"} => TurnFenced(u, j, att)
    /\ place \in {"route", "write", "conclude"} =>
         k.entry.attempt # NoAttempt /\ StepFenced(u, j, k, att)
    /\ place = "markSave" => k.entry.attempt = att[u]

FenceScope(j, att) ==
    j.job # "absent" \/ Same(att) \/ \A u \in Workers : Alone(u, att)

FenceInv ==
    /\ FenceScope(row, attempt) /\ RowOwned(row)
    /\ Same(attempt) => \A u \in Workers : row.entry.attempt \in {NoAttempt, attempt[u]}
    /\ \A u \in Workers : WorkerFenced(u, row, work[u], pc[u], attempt)

(* The only ways the row changes hands: worker w takes it, which it may    *)
(* when nobody owns it, when its identity does, or by a higher number.     *)
Taken(w, j, new, att) ==
    /\ j.job # "another" /\ new.job = "ours"
    /\ new.entry.attempt = att[w] /\ new.number = NumberOf[att[w]]
    /\ \/ j.entry.attempt \in {NoAttempt, att[w]}
       \/ j.job = "ours" /\ j.number < NumberOf[att[w]]

LEMMA NumbersPositive ==
    ASSUME NEW att \in [Workers -> Attempts], NEW u \in Workers
    PROVE  /\ NumberOf[att[u]] \in Nat /\ NumberOf[att[u]] > 0
           /\ att[u] # NoAttempt
BY AttemptsAssumption

LEMMA OthersFenced ==
    ASSUME NEW att \in [Workers -> Attempts], NEW u \in Workers, NEW w \in Workers, u # w,
           NEW j \in Journal, NEW new \in Journal, FenceScope(j, att), RowOwned(j),
           Taken(w, j, new, att), NEW k, NEW place, WorkerFenced(u, j, k, place, att)
    PROVE  WorkerFenced(u, new, k, place, att)
<1>1. /\ NumberOf[att[u]] \in Nat /\ NumberOf[att[u]] > 0 /\ att[u] # NoAttempt
      /\ NumberOf[att[w]] \in Nat /\ NumberOf[att[w]] > 0 /\ att[w] # NoAttempt
      /\ j.number \in Nat
  BY NumbersPositive DEF Journal
<1>2. ASSUME TurnFenced(u, j, att)
      PROVE  TurnFenced(u, new, att)
  BY <1>1, <1>2 DEF TurnFenced, Taken, RowOwned, FenceScope, Journal
<1>3. ASSUME StepFenced(u, j, k, att)
      PROVE  StepFenced(u, new, k, att)
  <2>1. SUFFICES ASSUME k.entry.attempt # att[u]
                 PROVE  /\ new.job = "ours" /\ new.entry.attempt \notin {NoAttempt, att[u]}
                        /\ Alone(u, att) \/ new.number > NumberOf[att[u]]
    BY DEF StepFenced
  <2>2. /\ j.job = "ours" /\ j.entry.attempt \notin {NoAttempt, att[u]}
        /\ Alone(u, att) \/ j.number > NumberOf[att[u]]
    BY <1>3, <2>1 DEF StepFenced, Taken
  <2>3. j.number = NumberOf[j.entry.attempt]
    BY <2>2 DEF RowOwned
  <2>4. att[w] # att[u]
    <3>1. CASE Alone(u, att)
      BY <3>1 DEF Alone
    <3>2. CASE j.number > NumberOf[att[u]]
      BY <1>1, <2>2, <3>2 DEF Taken
    <3>. QED
      BY <2>2, <3>1, <3>2
  <2>5. new.number >= j.number
    BY <1>1, <2>2, <2>3 DEF Taken
  <2>. QED
    BY <1>1, <2>2, <2>4, <2>5 DEF Taken
<1>. QED
  BY <1>2, <1>3 DEF WorkerFenced

(* The fence of save: a step on its own entry takes the row or is refused, *)
(* a step on another's is refused.                                         *)
LEMMA SaveFenced ==
    ASSUME BackedInv, FenceInv, NEW w \in Workers, NEW e, "attempt" \in DOMAIN e,
           StepFenced(w, row, [entry |-> e], attempt), Save(w, e)
    PROVE  \/ SaveOutcome(w) = "superseded" /\ UNCHANGED row
           \/ e.attempt = attempt[w] /\ Taken(w, row, row', attempt)
<1>1. /\ NumberOf[attempt[w]] \in Nat /\ NumberOf[attempt[w]] > 0 /\ attempt[w] # NoAttempt
      /\ row \in Journal /\ attempt[w] \in Attempts
  BY BackedTyped, NumbersPositive
<1>2. row.entry.attempt \in MaybeAttempt
  BY BackedTyped DEF Entry
<1>3. row.entry.attempt # NoAttempt => row.number > 0
  BY <1>2, AttemptsAssumption DEF FenceInv, RowOwned, MaybeAttempt
<1>4. CASE SaveOutcome(w) = "superseded"
  BY <1>4 DEF Save
<1>5. CASE SaveOutcome(w) # "superseded"
  <2>1. /\ row.job # "another"
        /\ row.job # "absent" => row.entry.attempt \in {NoAttempt, attempt[w]}
    BY <1>3, <1>5 DEF SaveOutcome, LoadRefused, Exists
  <2>2. row.entry.attempt \in {NoAttempt, attempt[w]}
    BY <2>1 DEF FenceInv, RowOwned
  <2>5. e.attempt = attempt[w]
    BY <2>1, <2>2 DEF StepFenced
  <2>6. PICK c : c = [e EXCEPT !.status = "cancelled"]
    OBVIOUS
  <2>7. c.attempt = e.attempt
    BY <2>6
  <2>8. WriteEntry(w, e) \/ WriteEntry(w, c)
    BY <1>5, <2>6 DEF Save, SaveOutcome
  <2>9. row'.job = "ours" /\ row'.entry.attempt = attempt[w] /\ row'.number = NumberOf[attempt[w]]
    BY <2>5, <2>7, <2>8 DEF WriteEntry
  <2>. QED
    BY <2>1, <2>2, <2>5, <2>9 DEF Taken
<1>. QED
  BY <1>4, <1>5

(* The workers that do not move stay where they are.                       *)
OnlyMoves(w) == \A u \in Workers : u # w => work'[u] = work[u] /\ pc'[u] = pc[u]

(* A step of worker w keeps the fence when it leaves the row or takes it.  *)
LEMMA FenceFrame ==
    ASSUME BackedInv, BackedInv', FenceInv, NEW w \in Workers, UNCHANGED attempt,
           UNCHANGED row \/ Taken(w, row, row', attempt),
           OnlyMoves(w),
           WorkerFenced(w, row', work'[w], pc'[w], attempt)
    PROVE  FenceInv'
<1>1. row \in Journal /\ row' \in Journal /\ attempt \in [Workers -> Attempts] /\ attempt' = attempt
  BY BackedTyped DEF BackedInv, TypeOK
<1>2. ASSUME NEW u \in Workers
      PROVE  WorkerFenced(u, row', work'[u], pc'[u], attempt)
  <2>1. CASE u = w
    BY <2>1
  <2>2. CASE u # w
    <3>1. WorkerFenced(u, row, work[u], pc[u], attempt)
      BY DEF FenceInv
    <3>0. work'[u] = work[u] /\ pc'[u] = pc[u]
      BY <2>2 DEF OnlyMoves
    <3>2. CASE UNCHANGED row
      BY <3>0, <3>1, <3>2
    <3>3. CASE Taken(w, row, row', attempt)
      <4>1. FenceScope(row, attempt) /\ RowOwned(row)
        BY DEF FenceInv
      <4>2. WorkerFenced(u, row', work[u], pc[u], attempt)
        BY <1>1, <2>2, <3>1, <3>3, <4>1, OthersFenced
      <4>. QED
        BY <3>0, <4>2
    <3>. QED
      BY <3>2, <3>3
  <2>. QED
    BY <2>1, <2>2
<1>3. /\ FenceScope(row', attempt) /\ RowOwned(row')
      /\ Same(attempt) => \A u \in Workers : row'.entry.attempt \in {NoAttempt, attempt[u]}
  <2>1. CASE UNCHANGED row
    BY <2>1 DEF FenceInv
  <2>2. CASE Taken(w, row, row', attempt)
    <3>1. row'.job = "ours" /\ row'.entry.attempt = attempt[w] /\ row'.number = NumberOf[attempt[w]]
          /\ attempt[w] # NoAttempt
      BY <1>1, <2>2, NumbersPositive DEF Taken
    <3>. QED
      BY <3>1 DEF FenceScope, RowOwned, Same
  <2>. QED
    BY <2>1, <2>2
<1>. QED
  BY <1>1, <1>2, <1>3, Zenon DEF FenceInv

LEMMA OthersStay ==
    ASSUME BackedInv, NEW w \in Workers, Step(w) \/ Crash(w)
    PROVE  OnlyMoves(w)
<1>. /\ DOMAIN work = Workers /\ DOMAIN pc = Workers
  BY DEF BackedInv, TypeOK
<1>1. ASSUME NEW res, Return(w, res)
      PROVE  OnlyMoves(w)
  BY <1>1 DEF Return, Goto, OnlyMoves
<1>2. ASSUME NEW place, NEW why, RaiseTo(w, place, why)
      PROVE  OnlyMoves(w)
  BY <1>2 DEF RaiseTo, Goto, OnlyMoves
<1>3. ASSUME NEW place, Goto(w, place), UNCHANGED work
      PROVE  OnlyMoves(w)
  BY <1>3 DEF Goto, OnlyMoves
<1>4. ASSUME NEW place, Goto(w, place), NEW k, work' = [work EXCEPT ![w] = k]
      PROVE  OnlyMoves(w)
  BY <1>4 DEF Goto, OnlyMoves
<1>5. CASE Enter(w)
  BY <1>1, <1>4, <1>5 DEF Enter
<1>6. CASE ClaimRefused(w) \/ ClaimNothing(w)
  BY <1>1, <1>3, <1>6 DEF ClaimRefused, ClaimNothing
<1>7. CASE Claim(w)
  <2>1. CASE RaiseTo(w, "markLoad", "raised")
    BY <1>2, <2>1
  <2>2. CASE ~RaiseTo(w, "markLoad", "raised")
    BY <1>7, <2>2 DEF Claim, Goto, OnlyMoves
  <2>. QED
    BY <2>1, <2>2
<1>8. CASE LoopLimit(w) \/ LoopHead(w)
  BY <1>1, <1>2, <1>3, <1>8 DEF LoopLimit, LoopHead
<1>9. CASE StepLoad(w)
  <2>1. CASE RaiseTo(w, "fault", "raised")
    BY <1>2, <2>1
  <2>2. CASE ~RaiseTo(w, "fault", "raised")
    BY <1>9, <2>2 DEF StepLoad, Goto, OnlyMoves
  <2>. QED
    BY <2>1, <2>2
<1>10. CASE SkipRoute(w)
  BY <1>10 DEF SkipRoute, OnlyMoves
<1>11. CASE ReadPage(w)
  BY <1>11 DEF ReadPage, Goto, OnlyMoves
<1>12. CASE PersistPage(w)
  <2>1. Persisted(w, Current(w), work[w].pages[Current(w)], work[w].already,
                  work[w].pages[Current(w)].ids \ work[w].already)
    BY <1>12, PagePersisted
  <2>2. \A u \in Workers : u # w => work'[u] = work[u]
    BY <2>1 DEF Persisted
  <2>3. \A u \in Workers : u # w => pc'[u] = pc[u]
    BY <1>12 DEF PersistPage, Goto
  <2>. QED
    BY <2>2, <2>3 DEF OnlyMoves
<1>13. CASE StepRaises(w)
  BY <1>2, <1>13 DEF StepRaises
<1>14. CASE StepSave(w)
  <2>1. CASE Return(w, "cancelled") \/ RaiseTo(w, "fault", "raised")
    BY <1>1, <1>2, <2>1
  <2>2. CASE ~(Return(w, "cancelled") \/ RaiseTo(w, "fault", "raised"))
    BY <1>14, <2>2 DEF StepSave, Goto, OnlyMoves
  <2>. QED
    BY <2>1, <2>2
<1>15. CASE Conclude(w)
  <2>1. PICK settled, short, final, state, e : Concluded(w, settled, short, final, state, e)
    BY <1>15, ConcludeConcluded DEF ConcludedSo
  <2>. QED
    BY <1>1, <1>2, <1>4, <2>1 DEF Concluded
<1>16. CASE Fault(w)
  BY <1>1, <1>3, <1>16 DEF Fault
<1>17. CASE MarkLoad(w)
  <2>1. CASE MarkRefused(w)
    BY <1>1, <2>1 DEF MarkRefused
  <2>2. CASE ~MarkRefused(w)
    BY <1>17, <2>2 DEF MarkLoad, Goto, OnlyMoves
  <2>. QED
    BY <2>1, <2>2
<1>18. CASE MarkSave(w)
  BY <1>1, <1>18 DEF MarkSave, MarkRefused
<1>19. CASE Crash(w)
  BY <1>4, <1>19 DEF Crash
<1>. QED
  BY <1>5, <1>6, <1>7, <1>8, <1>9, <1>10, <1>11, <1>12, <1>13, <1>14, <1>15, <1>16,
     <1>17, <1>18, <1>19 DEF Step

(* What a step of w does to the row, and that it leaves w fenced.          *)
StepIsFenced(w) ==
    /\ UNCHANGED row \/ Taken(w, row, row', attempt)
    /\ WorkerFenced(w, row', work'[w], pc'[w], attempt)

LEMMA FreePlace ==
    ASSUME BackedInv, NEW w \in Workers,
           \/ \E res : Return(w, res)
           \/ \E why : RaiseTo(w, "fault", why) \/ RaiseTo(w, "markLoad", why)
           \/ Goto(w, "claim") \/ Goto(w, "markLoad") \/ Goto(w, "idle"),
           UNCHANGED row \/ Taken(w, row, row', attempt)
    PROVE  StepIsFenced(w)
<1>1. pc'[w] \in {"ended", "fault", "markLoad", "claim", "idle"}
  BY DEF Return, RaiseTo, Goto, BackedInv, TypeOK
<1>. QED
  BY <1>1 DEF StepIsFenced, WorkerFenced

LEMMA WorkerNow ==
    ASSUME FenceInv, NEW w \in Workers
    PROVE  WorkerFenced(w, row, work[w], pc[w], attempt)
BY DEF FenceInv

(* A step within the batch goes on with its entry.                         *)
LEMMA EntryStays ==
    ASSUME BackedInv, FenceInv, NEW w \in Workers, UNCHANGED row,
           pc[w] \in {"route", "write"}, pc'[w] \in {"route", "write"},
           work'[w].entry.attempt = work[w].entry.attempt
    PROVE  StepIsFenced(w)
<1>1. work[w].entry.attempt # NoAttempt /\ StepFenced(w, row, work[w], attempt)
  BY WorkerNow DEF WorkerFenced
<1>2. StepFenced(w, row', work'[w], attempt)
  BY <1>1 DEF StepFenced
<1>. QED
  BY <1>1, <1>2 DEF StepIsFenced, WorkerFenced

LEMMA ClaimFenced ==
    ASSUME BackedInv, FenceInv, NEW w \in Workers, Claim(w)
    PROVE  StepIsFenced(w)
<1>1. /\ row \in Journal /\ row.entry \in Entry
      /\ attempt[w] # NoAttempt
  BY BackedTyped, NumbersPositive
<1>2. row'.job = row.job /\ row'.entry.attempt = attempt[w] /\ row'.number = NumberOf[attempt[w]]
  BY <1>1 DEF Claim, Journal, Entry
<1>3. Taken(w, row, row', attempt)
  BY <1>2 DEF Claim, Claimable, Taken
<1>4. CASE RaiseTo(w, "markLoad", "raised")
  BY <1>3, <1>4, FreePlace
<1>5. CASE Goto(w, "loop")
  <2>1. pc'[w] = "loop"
    BY <1>5 DEF Goto, BackedInv, TypeOK
  <2>2. TurnFenced(w, row', attempt)
    BY <1>1, <1>2 DEF TurnFenced
  <2>. QED
    BY <1>3, <2>1, <2>2 DEF StepIsFenced, WorkerFenced
<1>. QED
  BY <1>4, <1>5 DEF Claim

LEMMA TurnsFenced ==
    ASSUME BackedInv, FenceInv, NEW w \in Workers, ClaimNothing(w) \/ LoopLimit(w) \/ LoopHead(w)
    PROVE  StepIsFenced(w)
<1>1. UNCHANGED row
  BY DEF ClaimNothing, LoopLimit, LoopHead
<1>2. CASE ClaimNothing(w)
  <2>1. pc'[w] = "loop" /\ row'.job = "absent"
    BY <1>1, <1>2 DEF ClaimNothing, Exists, Goto, BackedInv, TypeOK
  <2>. QED
    BY <1>1, <2>1 DEF StepIsFenced, WorkerFenced, TurnFenced
<1>3. CASE LoopLimit(w)
  BY <1>1, <1>3, FreePlace DEF LoopLimit
<1>4. CASE LoopHead(w) /\ ~Goto(w, "step")
  BY <1>1, <1>4, FreePlace DEF LoopHead
<1>5. CASE LoopHead(w) /\ Goto(w, "step")
  <2>1. pc[w] = "loop" /\ pc'[w] = "step"
    BY <1>5 DEF LoopHead, Goto, BackedInv, TypeOK
  <2>2. TurnFenced(w, row', attempt)
    BY <1>1, <2>1, WorkerNow DEF WorkerFenced
  <2>. QED
    BY <1>1, <2>1, <2>2 DEF StepIsFenced, WorkerFenced
<1>. QED
  BY <1>2, <1>3, <1>4, <1>5

(* The entry a step loads is its own, or a newer owner's.                  *)
LEMMA StepLoadFenced ==
    ASSUME BackedInv, FenceInv, NEW w \in Workers, StepLoad(w)
    PROVE  StepIsFenced(w)
<1>1. UNCHANGED row
  BY DEF StepLoad
<1>2. CASE RaiseTo(w, "fault", "raised")
  BY <1>1, <1>2, FreePlace
<1>3. CASE ~LoadRefused
  <2>1. PICK loaded \in Entry : loaded = IF Exists THEN row.entry ELSE NewEntry("running", NoAttempt)
    BY BackedTyped, ConstantsTyped DEF ExecutionStatus, MaybeAttempt
  <2>2. PICK named : named = IF loaded.attempt = NoAttempt
                             THEN [loaded EXCEPT !.attempt = attempt[w]] ELSE loaded
    OBVIOUS
  <2>3. attempt[w] \in Attempts /\ attempt[w] # NoAttempt
    BY BackedTyped, NumbersPositive
  <2>4. named.attempt # NoAttempt /\ named.attempt \in {attempt[w], loaded.attempt}
    BY <2>2, <2>3 DEF Entry
  <2>5. /\ work' = [work EXCEPT ![w].entry = Rebuild(named, attempt[w]), ![w].at = 1,
                                ![w].nextCp = EmptySnapshot.cp, ![w].pages = NoPages]
        /\ Goto(w, "route") /\ pc[w] = "step"
    BY <1>3, <2>1, <2>2 DEF StepLoad
  <2>6. named \in Entry
    BY <2>2, <2>3 DEF Entry, MaybeAttempt
  <2>7. Rebuild(named, attempt[w]).attempt = named.attempt
    <3>1. PICK c : c = [named EXCEPT !.rebuilt = attempt[w], !.snap = DurableResults(named.snap)]
      OBVIOUS
    <3>2. c.attempt = named.attempt
      BY <2>6, <3>1 DEF Entry
    <3>3. Rebuild(named, attempt[w]) \in {named, c}
      BY <3>1, Zenon DEF Rebuild
    <3>. QED
      BY <3>2, <3>3
  <2>8. work'[w].entry = Rebuild(named, attempt[w]) /\ pc'[w] = "route"
    <3>1. PICK made : made = Rebuild(named, attempt[w])
      OBVIOUS
    <3>2. work' = [work EXCEPT ![w].entry = made, ![w].at = 1,
                               ![w].nextCp = EmptySnapshot.cp, ![w].pages = NoPages]
      BY <2>5, <3>1
    <3>3. /\ DOMAIN work = Workers /\ work[w] \in Work
          /\ pc \in [Workers -> Places] /\ pc' = [pc EXCEPT ![w] = "route"]
      BY <2>5, BackedTyped DEF Goto, BackedInv, TypeOK
    <3>4. work'[w].entry = made
      BY <3>2, <3>3 DEF Work
    <3>. QED
      BY <3>1, <3>3, <3>4
  <2>9. ASSUME named.attempt # attempt[w]
        PROVE  /\ row.job = "ours" /\ row.entry.attempt \notin {NoAttempt, attempt[w]}
               /\ Alone(w, attempt) \/ row.number > NumberOf[attempt[w]]
    <3>1. loaded.attempt \notin {NoAttempt, attempt[w]}
      BY <2>4, <2>9
    <3>2. Exists /\ row.entry.attempt \notin {NoAttempt, attempt[w]}
      BY <2>1, <3>1 DEF NewEntry
    <3>3. row.job = "ours"
      BY <1>3, <3>2, BackedTyped DEF Exists, LoadRefused, Journal
    <3>4. TurnFenced(w, row, attempt)
      BY <2>5, WorkerNow DEF WorkerFenced
    <3>5. ~Same(attempt)
      BY <3>2 DEF FenceInv
    <3>. QED
      BY <3>2, <3>3, <3>4, <3>5 DEF TurnFenced
  <2>10. StepFenced(w, row', work'[w], attempt)
    BY <1>1, <2>7, <2>8, <2>9 DEF StepFenced
  <2>. QED
    BY <1>1, <2>4, <2>7, <2>8, <2>10 DEF StepIsFenced, WorkerFenced
<1>. QED
  BY <1>2, <1>3 DEF StepLoad

LEMMA PagesFenced ==
    ASSUME BackedInv, FenceInv, NEW w \in Workers, SkipRoute(w) \/ ReadPage(w) \/ PersistPage(w)
    PROVE  StepIsFenced(w)
<1>1. UNCHANGED row /\ pc[w] \in {"route", "write"}
  BY DEF SkipRoute, ReadPage, PersistPage, AtRoute
<1>2. pc'[w] \in {"route", "write"}
  BY DEF SkipRoute, ReadPage, PersistPage, AtRoute, Goto, BackedInv, TypeOK
<1>3. work[w] \in Work /\ work[w].entry \in Entry /\ DOMAIN work = Workers
  BY BackedTyped DEF BackedInv, TypeOK
<1>4. work'[w].entry.attempt = work[w].entry.attempt
  <2>1. CASE SkipRoute(w)
    BY <1>3, <2>1 DEF SkipRoute, Work, Entry
  <2>2. CASE ReadPage(w)
    BY <1>3, <2>2 DEF ReadPage, Work
  <2>3. CASE PersistPage(w)
    <3>1. Persisted(w, Current(w), work[w].pages[Current(w)], work[w].already,
                    work[w].pages[Current(w)].ids \ work[w].already)
      BY <2>3, PagePersisted
    <3>2. PICK r, s, n :
            work' = [work EXCEPT ![w].at = @ + 1, ![w].already = {}, ![w].entry.snap = s,
                                 ![w].nextCp[r] = n]
      BY <3>1 DEF Persisted
    <3>3. PICK kw \in Work, e \in Entry : kw = work[w] /\ e = kw.entry
      BY <1>3
    <3>4. PICK k : k = [kw EXCEPT !.at = @ + 1, !.already = {}, !.entry = [e EXCEPT !.snap = s],
                                  !.nextCp = [@ EXCEPT ![r] = n]]
      OBVIOUS
    <3>5. work'[w] = k
      BY <1>3, <3>2, <3>3, <3>4 DEF Work, Entry
    <3>6. k.entry.attempt = e.attempt
      BY <3>3, <3>4 DEF Work, Entry
    <3>. QED
      BY <3>3, <3>5, <3>6
  <2>. QED
    BY <2>1, <2>2, <2>3
<1>. QED
  BY <1>1, <1>2, <1>4, EntryStays

(* What a worker inside a batch holds, and an entry it makes of it.        *)
LEMMA EntryInHand ==
    ASSUME BackedInv, FenceInv, NEW w \in Workers, pc[w] \in {"route", "conclude"}
    PROVE  /\ work[w].entry \in Entry /\ work[w].entry.attempt # NoAttempt
           /\ StepFenced(w, row, work[w], attempt)
BY WorkerNow, BackedTyped DEF WorkerFenced

LEMMA StepSaveFenced ==
    ASSUME BackedInv, FenceInv, NEW w \in Workers, StepSave(w)
    PROVE  StepIsFenced(w)
<1>1. PICK e0 \in Entry : e0 = work[w].entry /\ e0.attempt # NoAttempt
  BY EntryInHand DEF StepSave
<1>2. StepFenced(w, row, work[w], attempt)
  BY EntryInHand DEF StepSave
<1>3. PICK s, status : [e0 EXCEPT !.snap = s, !.status = status] =
          [work[w].entry EXCEPT
            !.snap.cp = work[w].nextCp, !.snap.pages = work[w].pages,
            !.snap.hasMore = BatchMore(w),
            !.status = IF BatchMore(w) THEN "running" ELSE "completed"]
  <2>1. [e0 EXCEPT !.snap = [[[@ EXCEPT !.cp = work[w].nextCp] EXCEPT !.pages = work[w].pages]
                                 EXCEPT !.hasMore = BatchMore(w)],
                   !.status = IF BatchMore(w) THEN "running" ELSE "completed"] =
          [work[w].entry EXCEPT
            !.snap.cp = work[w].nextCp, !.snap.pages = work[w].pages,
            !.snap.hasMore = BatchMore(w),
            !.status = IF BatchMore(w) THEN "running" ELSE "completed"]
    BY <1>1 DEF Entry
  <2>. QED
    BY <2>1, Zenon
<1>4. PICK e : e = [e0 EXCEPT !.snap = s, !.status = status]
  OBVIOUS
<1>5. e.attempt = e0.attempt /\ "attempt" \in DOMAIN e
  BY <1>1, <1>4 DEF Entry
<1>6. /\ Save(w, e)
      /\ \/ Goto(w, "conclude") /\ work' = [work EXCEPT ![w].entry = e]
         \/ Return(w, "cancelled")
         \/ RaiseTo(w, "fault", "raised")
  BY <1>3, <1>4, Zenon DEF StepSave
<1>7. StepFenced(w, row, [entry |-> e], attempt)
  <2>1. work[w].entry.attempt = e.attempt
    BY <1>1, <1>5
  <2>. QED
    BY <1>2, <2>1 DEF StepFenced
<1>8. UNCHANGED row \/ (e.attempt = attempt[w] /\ Taken(w, row, row', attempt))
  <2>1. Save(w, e)
    BY <1>6
  <2>2. \/ SaveOutcome(w) = "superseded" /\ UNCHANGED row
        \/ e.attempt = attempt[w] /\ Taken(w, row, row', attempt)
    BY <1>5, <1>7, <2>1, SaveFenced
  <2>. QED
    BY <2>2
<1>9. CASE Return(w, "cancelled") \/ RaiseTo(w, "fault", "raised")
  BY <1>8, <1>9, FreePlace
<1>10. CASE Goto(w, "conclude") /\ work' = [work EXCEPT ![w].entry = e]
  <2>1. work'[w].entry = e /\ pc'[w] = "conclude"
    BY <1>10, BackedTyped DEF BackedInv, TypeOK, Goto, Work
  <2>2. StepFenced(w, row', work'[w], attempt)
    BY <1>7, <1>8, <2>1 DEF StepFenced
  <2>. QED
    BY <1>1, <1>5, <1>8, <2>1, <2>2 DEF StepIsFenced, WorkerFenced
<1>. QED
  BY <1>6, <1>9, <1>10

LEMMA ConcludeFenced ==
    ASSUME BackedInv, FenceInv, NEW w \in Workers, Conclude(w)
    PROVE  StepIsFenced(w)
<1>1. PICK settled, short, final, state : ConcludedSo(w, settled, short, final, state)
  BY ConcludeConcluded
<1>2. PICK e0 \in Entry, b \in Nat : e0 = work[w].entry /\ b = work[w].batches
  BY BackedTyped DEF Work
<1>3. StepFenced(w, row, work[w], attempt)
  BY EntryInHand DEF Conclude
<1>4. PICK e : e = [e0 EXCEPT !.snap = final, !.status = state, !.scope = "same",
                              !.batches = b + 1]
  OBVIOUS
<1>5. e.attempt = e0.attempt /\ "attempt" \in DOMAIN e
  BY <1>2, <1>4 DEF Entry
<1>6. Concluded(w, settled, short, final, state, e)
  BY <1>1, <1>2, <1>4 DEF ConcludedSo
<1>7. StepFenced(w, row, [entry |-> e], attempt)
  BY <1>2, <1>3, <1>5 DEF StepFenced
<1>8. CASE UNCHANGED row /\ RaiseTo(w, "fault", "raised")
  BY <1>8, FreePlace
<1>9. CASE Save(w, e)
  <2>1. \/ SaveOutcome(w) = "superseded" /\ UNCHANGED row
        \/ e.attempt = attempt[w] /\ Taken(w, row, row', attempt)
    BY <1>5, <1>7, <1>9, SaveFenced
  <2>2. CASE Return(w, "cancelled") \/ RaiseTo(w, "fault", "raised")
    BY <2>1, <2>2, FreePlace
  <2>3. CASE SaveOutcome(w) # "superseded" /\ Goto(w, "loop")
    <3>1. pc'[w] = "loop"
      BY <2>3 DEF BackedInv, TypeOK, Goto
    <3>2. Taken(w, row, row', attempt)
      BY <2>1, <2>3
    <3>3. TurnFenced(w, row', attempt)
      BY <3>2, BackedTyped, NumbersPositive DEF Taken, TurnFenced
    <3>. QED
      BY <3>1, <3>2, <3>3 DEF StepIsFenced, WorkerFenced
  <2>4. CASE Goto(w, "ended")
    <3>1. pc'[w] = "ended"
      BY <2>4 DEF BackedInv, TypeOK, Goto
    <3>. QED
      BY <2>1, <3>1 DEF StepIsFenced, WorkerFenced
  <2>5. \/ Return(w, "cancelled")
        \/ RaiseTo(w, "fault", "raised")
        \/ SaveOutcome(w) # "superseded" /\ Goto(w, "loop")
        \/ Goto(w, "ended")
        \/ UNCHANGED row /\ RaiseTo(w, "fault", "raised")
    BY <1>6, Zenon DEF Concluded
  <2>. QED
    BY <1>8, <2>2, <2>3, <2>4, <2>5
<1>10. Save(w, e) \/ (UNCHANGED row /\ RaiseTo(w, "fault", "raised"))
  BY <1>6, Zenon DEF Concluded
<1>. QED
  BY <1>8, <1>9, <1>10

LEMMA MarksFenced ==
    ASSUME BackedInv, FenceInv, NEW w \in Workers, MarkLoad(w) \/ MarkSave(w)
    PROVE  StepIsFenced(w)
<1>1. CASE MarkLoad(w) /\ MarkRefused(w)
  <2>1. UNCHANGED row
    BY <1>1 DEF MarkLoad
  <2>. QED
    BY <1>1, <2>1, FreePlace, Zenon DEF MarkRefused
<1>2. CASE MarkLoad(w) /\ ~MarkRefused(w)
  <2>1. PICK old \in Entry : old = IF Exists THEN row.entry ELSE NewEntry("failed", NoAttempt)
    BY BackedTyped, ConstantsTyped DEF ExecutionStatus, MaybeAttempt
  <2>2. PICK e : e = [old EXCEPT !.status = "failed", !.attempt = attempt[w]]
    OBVIOUS
  <2>3. Goto(w, "markSave") /\ work' = [work EXCEPT ![w].entry = e] /\ UNCHANGED row
    BY <1>2, <2>1, <2>2 DEF MarkLoad
  <2>4. e.attempt = attempt[w]
    BY <2>1, <2>2 DEF Entry
  <2>5. work'[w].entry = e /\ pc'[w] = "markSave"
    BY <2>3, BackedTyped DEF BackedInv, TypeOK, Goto, Work
  <2>. QED
    BY <2>3, <2>4, <2>5 DEF StepIsFenced, WorkerFenced
<1>3. CASE MarkSave(w)
  <2>1. PICK e \in Entry : e = work[w].entry
    BY BackedTyped
  <2>2. e.attempt = attempt[w] /\ "attempt" \in DOMAIN e
    BY <1>3, <2>1, WorkerNow DEF MarkSave, WorkerFenced, Entry
  <2>3. StepFenced(w, row, [entry |-> e], attempt) /\ Save(w, e)
    BY <1>3, <2>1, <2>2 DEF StepFenced, MarkSave
  <2>4. UNCHANGED row \/ Taken(w, row, row', attempt)
    BY <2>2, <2>3, SaveFenced
  <2>5. \E res : Return(w, res)
    BY <1>3, Zenon DEF MarkSave, MarkRefused
  <2>. QED
    BY <2>4, <2>5, FreePlace
<1>. QED
  BY <1>1, <1>2, <1>3

LEMMA QuietFenced ==
    ASSUME BackedInv, FenceInv, NEW w \in Workers,
           Enter(w) \/ ClaimRefused(w) \/ StepRaises(w) \/ Fault(w) \/ Crash(w)
    PROVE  StepIsFenced(w)
<1>1. UNCHANGED row
  BY DEF Enter, ClaimRefused, StepRaises, Fault, Crash
<1>2. \/ \E res : Return(w, res)
      \/ RaiseTo(w, "fault", "raised")
      \/ Goto(w, "claim") \/ Goto(w, "markLoad") \/ Goto(w, "idle")
  BY Zenon DEF Enter, ClaimRefused, StepRaises, Fault, Crash
<1>. QED
  BY <1>1, <1>2, FreePlace

LEMMA StepsFenced ==
    ASSUME BackedInv, FenceInv, NEW w \in Workers, Step(w) \/ Crash(w)
    PROVE  StepIsFenced(w)
<1>1. CASE Claim(w)
  BY <1>1, ClaimFenced
<1>2. CASE ClaimNothing(w) \/ LoopLimit(w) \/ LoopHead(w)
  BY <1>2, TurnsFenced
<1>3. CASE StepLoad(w)
  BY <1>3, StepLoadFenced
<1>4. CASE SkipRoute(w) \/ ReadPage(w) \/ PersistPage(w)
  BY <1>4, PagesFenced
<1>5. CASE StepSave(w)
  BY <1>5, StepSaveFenced
<1>6. CASE Conclude(w)
  BY <1>6, ConcludeFenced
<1>7. CASE MarkLoad(w) \/ MarkSave(w)
  BY <1>7, MarksFenced
<1>8. CASE Enter(w) \/ ClaimRefused(w) \/ StepRaises(w) \/ Fault(w) \/ Crash(w)
  BY <1>8, QuietFenced
<1>. QED
  BY <1>1, <1>2, <1>3, <1>4, <1>5, <1>6, <1>7, <1>8 DEF Step

(* The host's own steps: a cancellation leaves the owner, a requeue gives  *)
(* the row to another job.                                                 *)
LEMMA HostFenced ==
    ASSUME BackedInv, FenceInv, Cancel \/ Requeue
    PROVE  FenceInv'
<1>1. UNCHANGED <<attempt, work, pc>> /\ row.job = "ours"
  BY DEF Cancel, Requeue
<1>2. CASE Cancel
  <2>1. row' = [row EXCEPT !.entry.status = "cancelled"]
    BY <1>2 DEF Cancel
  <2>2. row'.job = row.job /\ row'.number = row.number /\ row'.entry.attempt = row.entry.attempt
    BY <2>1, BackedTyped DEF Journal, Entry
  <2>3. \A u \in Workers : WorkerFenced(u, row', work[u], pc[u], attempt)
    BY <2>2 DEF FenceInv, WorkerFenced, TurnFenced, StepFenced
  <2>. QED
    BY <1>1, <2>2, <2>3 DEF FenceInv, FenceScope, RowOwned
<1>3. CASE Requeue
  <2>1. row' = [NoJournal EXCEPT !.job = "another", !.entry.scope = "same"]
    BY <1>3 DEF Requeue
  <2>2. row'.job = "another" /\ row'.number = 0 /\ row'.entry.attempt = NoAttempt
    BY <2>1 DEF NoJournal, NewEntry
  <2>3. \A u \in Workers : WorkerFenced(u, row', work[u], pc[u], attempt)
    BY <2>2 DEF FenceInv, WorkerFenced, TurnFenced, StepFenced
  <2>. QED
    BY <1>1, <2>2, <2>3 DEF FenceInv, FenceScope, RowOwned
<1>. QED
  BY <1>2, <1>3

LEMMA FenceInit == Init /\ FenceScope(row, attempt) => FenceInv
<1>. SUFFICES ASSUME Init, FenceScope(row, attempt)
              PROVE  FenceInv
  OBVIOUS
<1>1. row.entry.attempt = NoAttempt /\ row.number = 0
  <2>1. NoJournal.entry.attempt = NoAttempt /\ NoJournal.number = 0
    BY DEF NoJournal, NewEntry
  <2>2. ASSUME NEW s, row = [NoJournal EXCEPT !.job = "ours", !.entry.scope = s]
        PROVE  row.entry.attempt = NoAttempt /\ row.number = 0
    BY <2>1, <2>2, ConstantsTyped DEF Journal, Entry
  <2>. QED
    BY <2>1, <2>2 DEF Init
<1>2. \A u \in Workers : pc[u] = "idle"
  BY DEF Init
<1>. QED
  BY <1>1, <1>2 DEF FenceInv, RowOwned, WorkerFenced

LEMMA FenceNext ==
    ASSUME BackedInv, BackedInv', FenceInv, [Next]_vars
    PROVE  FenceInv'
<1>1. CASE UNCHANGED <<row, attempt, work, pc>>
  BY <1>1, Zenon DEF FenceInv
<1>2. CASE Cancel \/ Requeue
  BY <1>2, HostFenced
<1>3. ASSUME NEW w \in Workers, Step(w) \/ Crash(w)
      PROVE  FenceInv'
  <2>1. UNCHANGED attempt
    BY <1>3 DEF Step, Enter, ClaimRefused, ClaimNothing, Claim, LoopLimit, LoopHead, StepLoad,
                SkipRoute, ReadPage, PersistPage, StepRaises, StepSave, Conclude, Fault,
                MarkLoad, MarkSave, Crash
  <2>. QED
    BY <1>3, <2>1, StepsFenced, OthersStay, FenceFrame DEF StepIsFenced
<1>. QED
  BY <1>1, <1>2, <1>3 DEF Next, SourceDelete, vars

-----------------------------------------------------------------------------
(* What the fence gives each step of the row.                              *)

(* The one way a worker writes the row.                                    *)
Written(w) ==
    \/ UNCHANGED row \/ Claim(w)
    \/ \E e : Save(w, e)

LEMMA StepWrites ==
    ASSUME NEW w, Step(w) \/ Crash(w)
    PROVE  Written(w)
<1>1. CASE Conclude(w)
  <2>1. PICK settled, short, final, state : ConcludedSo(w, settled, short, final, state)
    BY <1>1, ConcludeConcluded
  <2>. QED
    BY <2>1, Zenon DEF ConcludedSo, Concluded, Written
<1>2. CASE Step(w) /\ ~Conclude(w)
  BY <1>2, Zenon DEF Written, Step, Enter, ClaimRefused, ClaimNothing, LoopLimit, LoopHead,
                StepLoad, SkipRoute, ReadPage, PersistPage, StepRaises, StepSave, Fault,
                MarkLoad, MarkSave
<1>3. CASE Crash(w)
  BY <1>3 DEF Crash, Written
<1>. QED
  BY <1>1, <1>2, <1>3

(* Another job's row is never written, and a cancelled one stays so.       *)
LEMMA WritesAreFenced ==
    ASSUME BackedInv', NEW w, Written(w)
    PROVE  /\ row.job = "another" => UNCHANGED row
           /\ IsCancelled => UNCHANGED row \/ row'.entry.status = "cancelled"
<1>1. CASE Claim(w)
  BY <1>1 DEF Claim, Claimable
<1>2. ASSUME NEW e, Save(w, e)
      PROVE  /\ row.job = "another" => UNCHANGED row
             /\ IsCancelled => UNCHANGED row \/ row'.entry.status = "cancelled"
  <2>1. CASE SaveOutcome(w) = "superseded"
    BY <1>2, <2>1 DEF Save
  <2>2. CASE SaveOutcome(w) = "cancelled"
    <3>1. PICK c : c = [e EXCEPT !.status = "cancelled"]
      OBVIOUS
    <3>2. row'.entry = c /\ row.job # "another"
      BY <1>2, <2>2, <3>1 DEF Save, WriteEntry, SaveOutcome, LoadRefused
    <3>3. "status" \in DOMAIN c
      BY <3>2, BackedTyped DEF BackedInv, TypeOK, Journal, Entry
    <3>. QED
      BY <3>1, <3>2, <3>3
  <2>3. CASE SaveOutcome(w) = "saved"
    BY <2>3 DEF SaveOutcome, LoadRefused
  <2>. QED
    BY <2>1, <2>2, <2>3 DEF SaveOutcome
<1>. QED
  BY <1>1, <1>2 DEF Written

LEMMA OwnerKept ==
    ASSUME BackedInv, FenceInv, NEW w \in Workers, UNCHANGED row \/ Taken(w, row, row', attempt),
           row.job = "ours", row.number > 0
    PROVE  row'.entry.attempt = row.entry.attempt \/ row'.number > row.number
<1>1. row.entry.attempt # NoAttempt
  BY DEF FenceInv, RowOwned
<1>2. row.number \in Nat /\ NumberOf[attempt[w]] \in Nat
  BY BackedTyped, NumbersPositive DEF Journal
<1>. QED
  BY <1>1, <1>2 DEF Taken

(* Another job's row and a cancellation survive every step, whoever the    *)
(* workers are.                                                            *)
LEMMA OutsideKept ==
    ASSUME BackedInv', [Next]_vars
    PROVE  /\ row.job = "another" => UNCHANGED row
           /\ IsCancelled /\ row'.job = "ours" => row'.entry.status = "cancelled"
<1>1. ASSUME NEW w, Written(w)
      PROVE  /\ row.job = "another" => UNCHANGED row
             /\ IsCancelled => row'.entry.status = "cancelled"
  BY <1>1, WritesAreFenced DEF IsCancelled
<1>2. CASE \E w \in Workers : Step(w) \/ Crash(w)
  BY <1>1, <1>2, StepWrites
<1>3. CASE Cancel
  BY <1>3 DEF Cancel, IsCancelled
<1>4. CASE Requeue
  <2>1. row.job = "ours" /\ row'.job = "another"
    BY <1>4 DEF Requeue, NoJournal
  <2>. QED
    BY <2>1
<1>5. CASE UNCHANGED row
  BY <1>5 DEF IsCancelled
<1>. QED
  BY <1>2, <1>3, <1>4, <1>5 DEF Next, SourceDelete, vars

LEMMA OwnersKept ==
    ASSUME BackedInv, FenceInv, [Next]_vars
    PROVE  (row.job = "ours" /\ row.number > 0 /\ row'.job = "ours") =>
             (row'.entry.attempt = row.entry.attempt \/ row'.number > row.number)
<1>1. ASSUME NEW w \in Workers, Step(w) \/ Crash(w), row.job = "ours", row.number > 0
      PROVE  row'.entry.attempt = row.entry.attempt \/ row'.number > row.number
  <2>1. UNCHANGED row \/ Taken(w, row, row', attempt)
    BY <1>1, StepsFenced DEF StepIsFenced
  <2>. QED
    BY <1>1, <2>1, OwnerKept
<1>2. CASE Cancel
  <2>1. row' = [row EXCEPT !.entry.status = "cancelled"]
    BY <1>2 DEF Cancel
  <2>. QED
    BY <2>1, BackedTyped DEF Journal, Entry
<1>3. CASE Requeue
  <2>1. row'.job = "another"
    BY <1>3 DEF Requeue, NoJournal
  <2>. QED
    BY <2>1
<1>4. CASE UNCHANGED row
  BY <1>4
<1>. QED
  BY <1>1, <1>2, <1>3, <1>4 DEF Next, SourceDelete, vars

(* A cancellation that is recorded stays, and a row given to another job   *)
(* is never written again, whatever the workers carry (the job check and   *)
(* the status check of local.save, local.claim and mark_execution_failed). *)
THEOREM CancelledAndSupersededStay == Spec => CancellationSticks /\ SupersededJobUntouched
<1>1. BackedInv' /\ [Next]_vars =>
        [(IsCancelled /\ row'.job = "ours") => row'.entry.status = "cancelled"]_vars
  BY OutsideKept
<1>2. BackedInv' /\ [Next]_vars => [row.job = "another" => UNCHANGED row]_vars
  BY OutsideKept
<1>. QED
  BY <1>1, <1>2, BackedHolds, PTL DEF Spec, CancellationSticks, SupersededJobUntouched

(* An owned row passes only to a higher attempt number, keeps its          *)
(* cancellation and its job, where a row exists when the workers start or  *)
(* their identities do not mix: a job's calls carry its one default        *)
(* identity, or every call one of its own.  Without a row, a worker's      *)
(* claim is in its memory only, and a third worker under the identity of   *)
(* one of two others can still put the older one back.                     *)
THEOREM RowKeepsItsOwner == Spec /\ FenceScope(row, attempt) => RowFenced
<1>1. BackedInv /\ FenceInv /\ [Next]_vars =>
        [(row.job = "ours" /\ row.number > 0 /\ row'.job = "ours") =>
            (row'.entry.attempt = row.entry.attempt \/ row'.number > row.number)]_vars
  BY OwnersKept
<1>2. BackedInv /\ BackedInv' /\ FenceInv /\ [Next]_vars => FenceInv'
  BY FenceNext
<1>3. Spec /\ FenceScope(row, attempt) => []FenceInv
  BY <1>2, FenceInit, BackedHolds, PTL DEF Spec
<1>4. Spec /\ FenceScope(row, attempt) => OwnerNeverGoesBack
  BY <1>1, <1>3, BackedHolds, PTL DEF Spec, OwnerNeverGoesBack
<1>. QED
  BY <1>4, CancelledAndSupersededStay, PTL DEF RowFenced
=============================================================================

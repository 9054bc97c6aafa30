----------------------- MODULE FlowInstallationProofs -----------------------
(***************************************************************************)
(* Proofs about FlowInstallation, for every number of hosts, plans and     *)
(* operations, over lapsing leases, lost responses, crashes and edits: the *)
(* ledger knows what the target holds, what it recorded never changes, and *)
(* only the verified, installed construction is activated.                 *)
(***************************************************************************)
EXTENDS FlowInstallation, FiniteSetTheorems, TLAPS

-----------------------------------------------------------------------------
(* The inductive invariant: the types, what holds of the installation, of  *)
(* each plan and of each caller, and, as long as every discard asked once, *)
(* that an effect without receipt belongs to the selected plan and that    *)
(* whoever may still send one is on that plan or fenced.                   *)

Doc == [saved : BOOLEAN, base : Nat, observed : Nat, ops : Seq(Operation), built : BOOLEAN,
        revision : Nat, observation : Nat, abandoned : BOOLEAN]
Evidence == [verification : {"none", "passed", "failed"}, intent : BOOLEAN, activation : Nat]
Target == [revision : Nat, effects : [Plans -> [Positions -> Nat]], activated : [Plans -> Nat], fence : Nat]
Call == [plan : {NoPlan} \cup Plans, generation : Nat, expected : Nat, i : Nat, receipt : Nat,
         outcome : {"none", "passed", "failed"}]
Places == {"idle", "release", "construct", "operation", "intent", "recover", "check", "assert", "mutate",
           "complete", "compare", "finish", "verify", "unchanged", "previous", "scenario", "run", "judge",
           "activate", "intend", "readback", "unmoved", "authorize", "activating", "confirm", "record",
           "discard", "question", "ask"}

FlowType ==
    /\ install \in Install
    /\ plans \in [Plans -> Doc]
    /\ intents \subseteq Plans \X Positions
    /\ receipts \in [Plans -> [Positions -> Nat]]
    /\ evidence \in [Plans -> Evidence]
    /\ target \in Target
    /\ pc \in [Callers -> Places]
    /\ call \in [Callers -> Call]

\* What the constructions recorded so far made and removed.
MadeBy(action) ==
    {r \in Resources : \E p \in Plans :
        plans[p].built /\ \E i \in DOMAIN plans[p].ops : plans[p].ops[i] = [action |-> action, id |-> r]}

InstallInv ==
    /\ install.resources = MadeBy("create") \ MadeBy("remove")
    /\ target.fence <= install.generation
    /\ install.attempt # NoAttempt => install.generation > 0

OpsInv(p) ==
    /\ ~plans[p].saved => plans[p] = NoDoc
    /\ plans[p].saved => Len(plans[p].ops) \in Positions
    /\ \A i \in DOMAIN plans[p].ops :
         LET o == plans[p].ops[i]
         IN  (o.action = "create" => o.id = <<p, i>>) /\ (o.action = "remove" => o.id \in MadeBy("create"))

LedgerInv(p) ==
    /\ plans[p].built => \A i \in DOMAIN plans[p].ops : receipts[p][i] # 0
    /\ \A i \in Positions :
         /\ receipts[p][i] # 0 => receipts[p][i] = target.effects[p][i] /\ (plans[p].built \/ install.active = p)
         /\ target.effects[p][i] # 0 => i \in DOMAIN plans[p].ops
    /\ install.active = p =>
         /\ plans[p].saved /\ ~plans[p].abandoned
         /\ install.revision = IF plans[p].built THEN plans[p].revision ELSE plans[p].base

ActivationInv(p) ==
    /\ evidence[p].intent /\ evidence[p].activation = 0 => install.active = p
    /\ target.activated[p] # 0 => evidence[p].intent
    /\ evidence[p].activation # 0 => target.activated[p] # 0

Sending == {"recover", "check", "assert", "mutate"}
Intending == {"readback", "unmoved", "authorize", "activating", "confirm", "record"}

CallerInv(c) ==
    LET p == call[c].plan
        i == call[c].i
    IN  /\ pc[c] # "idle" => p \in Plans /\ plans[p].saved
        /\ call[c].generation <= install.generation
        /\ install.attempt \notin {NoAttempt, c} => call[c].generation < install.generation
        /\ pc[c] \in {"construct", "discard"} => i = 1
        /\ pc[c] \in Sending \cup {"operation", "intent", "complete", "ask"} => i \in DOMAIN plans[p].ops
        /\ pc[c] \in Sending \cup {"complete"} => <<p, i>> \in intents
        /\ pc[c] = "complete" => call[c].receipt # 0 /\ call[c].receipt = target.effects[p][i]
        /\ pc[c] \in Intending \cup {"intend"} =>
             /\ plans[p].built /\ evidence[p].verification = "passed"
             /\ call[c].expected = plans[p].observation
        /\ pc[c] \in Intending => evidence[p].intent
        /\ pc[c] \in {"confirm", "record"} => call[c].receipt # 0 /\ target.activated[p] # 0
        /\ pc[c] = "question" => i > 0
        /\ pc[c] = "question" /\ i > 1 =>
             /\ call[c].generation <= target.fence
             /\ Len(plans[p].ops) = 1 /\ Holds(c) => target.effects[p][1] = 0

EffectInv(p) ==
    /\ \A i \in Positions : target.effects[p][i] # 0 /\ receipts[p][i] = 0 =>
          install.active = p /\ <<p, i>> \in intents
    /\ plans[p].abandoned => \A i \in Positions : target.effects[p][i] = 0
SendInv(c) ==
    LET p == call[c].plan
    IN  pc[c] \in Sending \cup {"intent"} =>
            plans[p].built \/ install.active = p \/ call[c].generation < target.fence

FlowInv ==
    /\ FlowType
    /\ InstallInv
    /\ \A p \in Plans : OpsInv(p) /\ LedgerInv(p) /\ ActivationInv(p)
    /\ \A c \in Callers : CallerInv(c)
    /\ DiscardsAskOnce => (\A p \in Plans : EffectInv(p)) /\ (\A c \in Callers : SendInv(c))

-----------------------------------------------------------------------------
(* Types.                                                                  *)

LEMMA PositionsFinite ==
    /\ IsFiniteSet(Resources) /\ Cardinality(Resources) \in Nat
    /\ Positions \subseteq Nat \ {0} /\ MaxCreates + Cardinality(Resources) \in Nat
<1>1. IsFiniteSet(Plans) /\ IsFiniteSet(1 .. MaxCreates)
  BY FlowAssumption, FS_Interval DEF Plans
<1>2. IsFiniteSet(Resources)
  BY <1>1, FS_Product DEF Resources
<1>3. Cardinality(Resources) \in Nat
  BY <1>2, FS_CardinalityType
<1>. QED
  BY <1>2, <1>3, FlowAssumption DEF Positions

LEMMA NoDocTyped == NoDoc \in Doc /\ NoCall \in Call /\ NoEvidence \in Evidence
<1>1. NoDoc \in Doc
  BY DEF NoDoc, Doc
<1>2. NoCall \in Call
  BY DEF NoCall, Call
<1>3. NoEvidence \in Evidence
  BY DEF NoEvidence, Evidence
<1>. QED
  BY <1>1, <1>2, <1>3

(* What the records of the state hold.                                     *)
LEMMA PlansTyped ==
    ASSUME FlowType, NEW p \in Plans
    PROVE  /\ plans[p] \in Doc
           /\ plans[p].saved \in BOOLEAN /\ plans[p].built \in BOOLEAN /\ plans[p].abandoned \in BOOLEAN
           /\ plans[p].base \in Nat /\ plans[p].observed \in Nat
           /\ plans[p].revision \in Nat /\ plans[p].observation \in Nat
           /\ plans[p].ops \in Seq(Operation) /\ Len(plans[p].ops) \in Nat
           /\ DOMAIN plans[p].ops = 1 .. Len(plans[p].ops)
           /\ \A i \in DOMAIN plans[p].ops : plans[p].ops[i] \in Operation
<1>1. plans[p] \in Doc
  BY DEF FlowType
<1>. QED
  BY <1>1 DEF Doc

LEMMA EvidenceTyped ==
    ASSUME FlowType, NEW p \in Plans
    PROVE  /\ evidence[p] \in Evidence
           /\ evidence[p].verification \in {"none", "passed", "failed"}
           /\ evidence[p].intent \in BOOLEAN /\ evidence[p].activation \in Nat
<1>1. evidence[p] \in Evidence
  BY DEF FlowType
<1>. QED
  BY <1>1 DEF Evidence

LEMMA TargetTyped ==
    ASSUME FlowType
    PROVE  /\ target \in Target /\ target.revision \in Nat /\ target.fence \in Nat
           /\ target.effects \in [Plans -> [Positions -> Nat]] /\ target.activated \in [Plans -> Nat]
           /\ \A p \in Plans : target.activated[p] \in Nat /\ \A i \in Positions : target.effects[p][i] \in Nat
           /\ \A p \in Plans : \A i \in Positions : receipts[p][i] \in Nat
<1>1. target \in Target /\ receipts \in [Plans -> [Positions -> Nat]]
  BY DEF FlowType
<1>2. target.effects \in [Plans -> [Positions -> Nat]] /\ target.activated \in [Plans -> Nat]
  BY <1>1 DEF Target
<1>. QED
  BY <1>1, <1>2 DEF Target

LEMMA InstallTyped ==
    ASSUME FlowType
    PROVE  /\ install \in Install /\ install.revision \in Nat /\ install.generation \in Nat
           /\ install.resources \in SUBSET Resources /\ install.active \in {NoPlan} \cup Plans
           /\ install.attempt \in Callers \cup {NoAttempt} /\ install.leased \in BOOLEAN
<1>1. install \in Install
  BY DEF FlowType
<1>. QED
  BY <1>1 DEF Install

LEMMA CallTyped ==
    ASSUME FlowType, NEW c \in Callers
    PROVE  /\ call[c] \in Call /\ call[c].plan \in {NoPlan} \cup Plans
           /\ call[c].generation \in Nat /\ call[c].expected \in Nat /\ call[c].i \in Nat
           /\ call[c].receipt \in Nat /\ call[c].outcome \in {"none", "passed", "failed"}
           /\ pc[c] \in Places
<1>1. call[c] \in Call /\ pc[c] \in Places
  BY DEF FlowType
<1>. QED
  BY <1>1 DEF Call

(* A caller moves on.                                                      *)
LEMMA GoTyped ==
    ASSUME FlowType, NEW c \in Callers, NEW place \in Places, Go(c, place)
    PROVE  /\ pc' \in [Callers -> Places] /\ pc'[c] = place
           /\ \A d \in Callers \ {c} : pc'[d] = pc[d]
BY DEF FlowType, Go

LEMMA CallsTyped ==
    ASSUME FlowType, NEW c \in Callers, NEW k \in Call, call' = [call EXCEPT ![c] = k]
    PROVE  /\ call' \in [Callers -> Call] /\ call'[c] = k
           /\ \A d \in Callers \ {c} : call'[d] = call[d]
BY DEF FlowType

LEMMA CallFields ==
    ASSUME NEW k \in Call, NEW n \in Nat
    PROVE  /\ [k EXCEPT !.generation = n] \in Call /\ [k EXCEPT !.expected = n] \in Call
           /\ [k EXCEPT !.i = n] \in Call /\ [k EXCEPT !.receipt = n] \in Call
           /\ \A o \in {"none", "passed", "failed"} : [k EXCEPT !.outcome = o] \in Call
           /\ \A m \in Nat : [k EXCEPT !.expected = n, !.i = m, !.receipt = 0] \in Call
           /\ \A p \in Plans : [k EXCEPT !.plan = p, !.generation = n] \in Call
BY DEF Call

(* A step on the ledger and the target that touches one field.             *)
LEMMA InstallFields ==
    ASSUME NEW s \in Install
    PROVE  /\ \A p \in {NoPlan} \cup Plans : \A a \in Callers \cup {NoAttempt} : \A b \in BOOLEAN :
                /\ [s EXCEPT !.active = p, !.attempt = a, !.leased = b] \in Install
                /\ \A n \in Nat : [s EXCEPT !.active = p, !.attempt = a, !.leased = b, !.generation = n] \in Install
           /\ [s EXCEPT !.leased = FALSE] \in Install
           /\ \A n \in Nat : \A R \in SUBSET Resources : [s EXCEPT !.revision = n, !.resources = R] \in Install
<1>1. ASSUME NEW p \in {NoPlan} \cup Plans, NEW a \in Callers \cup {NoAttempt}, NEW b \in BOOLEAN
      PROVE  [s EXCEPT !.active = p, !.attempt = a, !.leased = b] \in Install
  BY DEF Install
<1>2. ASSUME NEW p \in {NoPlan} \cup Plans, NEW a \in Callers \cup {NoAttempt}, NEW b \in BOOLEAN, NEW n \in Nat
      PROVE  [s EXCEPT !.active = p, !.attempt = a, !.leased = b, !.generation = n] \in Install
  BY DEF Install
<1>3. [s EXCEPT !.leased = FALSE] \in Install
  BY DEF Install
<1>4. ASSUME NEW n \in Nat, NEW R \in SUBSET Resources
      PROVE  [s EXCEPT !.revision = n, !.resources = R] \in Install
  BY DEF Install
<1>. QED
  BY <1>1, <1>2, <1>3, <1>4

LEMMA DocFields ==
    ASSUME NEW d \in Doc
    PROVE  /\ [d EXCEPT !.abandoned = TRUE] \in Doc
           /\ \A m, n \in Nat : [d EXCEPT !.built = TRUE, !.revision = m, !.observation = n] \in Doc
           /\ \A m, n \in Nat : \A ops \in Seq(Operation) :
                [d EXCEPT !.saved = TRUE, !.base = m, !.observed = n, !.ops = ops] \in Doc
BY DEF Doc

LEMMA TargetFields ==
    ASSUME NEW t \in Target, NEW n \in Nat
    PROVE  /\ [t EXCEPT !.fence = n] \in Target /\ [t EXCEPT !.revision = n] \in Target
           /\ \A m \in Nat : [t EXCEPT !.revision = n, !.fence = m] \in Target
           /\ \A p \in Plans : [t EXCEPT !.activated[p] = n] \in Target
           /\ \A p \in Plans : \A i \in Positions : [t EXCEPT !.effects[p][i] = n] \in Target
<1>1. [t EXCEPT !.fence = n] \in Target /\ [t EXCEPT !.revision = n] \in Target
  BY DEF Target
<1>2. \A m \in Nat : [t EXCEPT !.revision = n, !.fence = m] \in Target
  BY DEF Target
<1>3. ASSUME NEW p \in Plans
      PROVE  [t EXCEPT !.activated[p] = n] \in Target
  <2>1. [t.activated EXCEPT ![p] = n] \in [Plans -> Nat]
    BY DEF Target
  <2>. QED
    BY <2>1 DEF Target
<1>4. ASSUME NEW p \in Plans, NEW i \in Positions
      PROVE  [t EXCEPT !.effects[p][i] = n] \in Target
  <2>1. [t.effects EXCEPT ![p][i] = n] \in [Plans -> [Positions -> Nat]]
    BY DEF Target
  <2>. QED
    BY <2>1 DEF Target
<1>. QED
  BY <1>1, <1>2, <1>3, <1>4

-----------------------------------------------------------------------------
(* What no step takes back, and what a step leaves to the other callers.   *)

Growth ==
    /\ \A p \in Plans :
         /\ plans[p].saved => plans'[p].saved /\ plans'[p].ops = plans[p].ops
         /\ plans[p].built => plans'[p] = plans[p]
         /\ plans[p].abandoned => plans'[p].abandoned
         /\ evidence[p].verification # "none" => evidence'[p].verification = evidence[p].verification
         /\ evidence[p].intent => evidence'[p].intent
         /\ evidence[p].activation # 0 => evidence'[p].activation = evidence[p].activation
         /\ target.activated[p] # 0 => target'.activated[p] = target.activated[p]
         /\ \A i \in Positions :
              /\ receipts[p][i] # 0 => receipts'[p][i] = receipts[p][i]
              /\ target.effects[p][i] # 0 => target'.effects[p][i] = target.effects[p][i]
    /\ intents \subseteq intents'
    /\ target.fence <= target'.fence
    /\ install.generation <= install'.generation

Aside(d) ==
    /\ pc'[d] = pc[d] /\ call'[d] = call[d]
    /\ install'.attempt \notin {NoAttempt, d} => call[d].generation < install'.generation
    /\ Holds(d)' => Holds(d) /\ (target'.effects = target.effects \/ target.fence < call[d].generation)

\* A selected plan is only left when it is built.
KeepsActive == \A p \in Plans : install.active = p => install'.active = p \/ plans'[p].built

LEMMA OthersKept ==
    ASSUME FlowInv, FlowType', Growth, NEW d \in Callers, Aside(d)
    PROVE  CallerInv(d)'
<1>1. PICK p, k, at : p = call[d].plan /\ k = call[d] /\ at = pc[d]
  OBVIOUS
<1>2. call'[d] = k /\ pc'[d] = at /\ call'[d].plan = p
  BY <1>1 DEF Aside
<1>3. CallerInv(d)
  BY DEF FlowInv
<1>4. /\ at # "idle" => p \in Plans /\ plans[p].saved
      /\ k.generation \in Nat /\ install.generation \in Nat /\ install'.generation \in Nat
      /\ k.generation <= install.generation /\ install.generation <= install'.generation
      /\ k.i \in Nat /\ target.fence \in Nat /\ target'.fence \in Nat /\ target.fence <= target'.fence
  BY <1>1, <1>3, CallTyped, InstallTyped, TargetTyped DEF CallerInv, FlowInv, FlowType, Install, Target, Growth
<1>5. at # "idle" => /\ plans'[p].saved /\ plans'[p].ops = plans[p].ops
                     /\ plans[p].built => plans'[p] = plans[p]
                     /\ DOMAIN plans[p].ops \subseteq Positions
  <2>1. ASSUME at # "idle"
        PROVE  DOMAIN plans[p].ops \subseteq Positions
    <3>1. Len(plans[p].ops) \in Positions /\ DOMAIN plans[p].ops = 1 .. Len(plans[p].ops)
      BY <1>4, <2>1, PlansTyped DEF FlowInv, OpsInv
    <3>. QED
      BY <3>1, PositionsFinite DEF Positions
  <2>. QED
    BY <1>4, <2>1 DEF Growth
<1>6. /\ at = "complete" => k.receipt # 0 /\ k.receipt = target'.effects[p][k.i]
      /\ at \in Sending \cup {"complete"} => <<p, k.i>> \in intents'
      /\ at \in Sending \cup {"operation", "intent", "complete", "ask"} => k.i \in DOMAIN plans'[p].ops
  BY <1>1, <1>3, <1>4, <1>5 DEF CallerInv, Growth, Sending
<1>7. /\ at \in Intending \cup {"intend"} =>
           /\ plans'[p].built /\ evidence'[p].verification = "passed" /\ k.expected = plans'[p].observation
      /\ at \in Intending => evidence'[p].intent
      /\ at \in {"confirm", "record"} => k.receipt # 0 /\ target'.activated[p] # 0
  BY <1>1, <1>3, <1>4, <1>5 DEF CallerInv, Growth, Intending
<1>8. at = "question" /\ k.i > 1 =>
        /\ k.generation <= target'.fence
        /\ Len(plans'[p].ops) = 1 /\ Holds(d)' => target'.effects[p][1] = 0
  BY <1>1, <1>3, <1>4, <1>5 DEF CallerInv, Aside
<1>9. /\ install'.attempt \notin {NoAttempt, d} => k.generation < install'.generation
      /\ k.generation <= install'.generation
  BY <1>1, <1>4 DEF Aside
<1>10. /\ at \in {"construct", "discard"} => k.i = 1
       /\ at = "question" => k.i > 0
  BY <1>1, <1>3 DEF CallerInv
<1>11. at # "idle" => p \in Plans /\ plans'[p].saved
  BY <1>4, <1>5
<1>. QED
  BY <1>2, <1>6, <1>7, <1>8, <1>9, <1>10, <1>11 DEF CallerInv

(* A discard that asked several operations stays one.                      *)
LEMMA AskedOnceBefore ==
    ASSUME FlowInv, Growth, DiscardsAskOnce'
    PROVE  DiscardsAskOnce
<1>1. SUFFICES ASSUME NEW p \in Plans, plans[p].abandoned
               PROVE  Len(plans[p].ops) = 1
  BY DEF DiscardsAskOnce
<1>2. plans[p].saved
  BY <1>1 DEF FlowInv, OpsInv, NoDoc
<1>. QED
  BY <1>1, <1>2 DEF Growth, DiscardsAskOnce

LEMMA SendsKept ==
    ASSUME FlowInv, FlowType', Growth, NEW d \in Callers, SendInv(d), pc'[d] = pc[d], call'[d] = call[d],
           install.active = call[d].plan =>
             \/ install'.active = call[d].plan \/ plans'[call[d].plan].built
             \/ call[d].generation < target'.fence
    PROVE  SendInv(d)'
<1>1. pc[d] # "idle" => call[d].plan \in Plans
  BY DEF FlowInv, CallerInv
<1>2. call[d].generation \in Nat /\ target.fence \in Nat /\ target'.fence \in Nat /\ target.fence <= target'.fence
  BY CallTyped, TargetTyped DEF FlowInv, FlowType, Target, Growth
<1>. QED
  BY <1>1, <1>2 DEF SendInv, Growth, Sending

LEMMA AsideSends ==
    ASSUME FlowInv, FlowType', Growth, KeepsActive, DiscardsAskOnce', NEW d \in Callers, Aside(d)
    PROVE  SendInv(d)'
<1>1. SendInv(d)
  BY AskedOnceBefore DEF FlowInv
<1>2. install.active = call[d].plan => install'.active = call[d].plan \/ plans'[call[d].plan].built
           \/ pc[d] = "idle"
  BY DEF KeepsActive, FlowInv, CallerInv
<1>3. pc'[d] = pc[d] /\ call'[d] = call[d]
  BY DEF Aside
<1>4. CASE pc[d] = "idle"
  BY <1>3, <1>4 DEF SendInv, Sending
<1>. QED
  BY <1>1, <1>2, <1>3, <1>4, SendsKept

(* The invariant of a step from its parts: of one caller, and of none.     *)
LEMMA Assembled ==
    ASSUME FlowInv, FlowType', InstallInv', Growth, KeepsActive,
           \A p \in Plans : OpsInv(p)' /\ LedgerInv(p)' /\ ActivationInv(p)',
           NEW c \in Callers, \A d \in Callers \ {c} : Aside(d), CallerInv(c)',
           DiscardsAskOnce' => (\A p \in Plans : EffectInv(p)') /\ SendInv(c)'
    PROVE  FlowInv' /\ Growth
<1>1. \A d \in Callers : CallerInv(d)'
  BY OthersKept
<1>2. DiscardsAskOnce' => (\A p \in Plans : EffectInv(p)') /\ (\A d \in Callers : SendInv(d)')
  BY AsideSends
<1>. QED
  BY <1>1, <1>2 DEF FlowInv

LEMMA BackgroundAssembled ==
    ASSUME FlowInv, FlowType', InstallInv', Growth, KeepsActive,
           \A p \in Plans : OpsInv(p)' /\ LedgerInv(p)' /\ ActivationInv(p)',
           \A d \in Callers : Aside(d),
           DiscardsAskOnce' => \A p \in Plans : EffectInv(p)'
    PROVE  FlowInv' /\ Growth
<1>1. \A d \in Callers : CallerInv(d)'
  BY OthersKept
<1>2. DiscardsAskOnce' => (\A p \in Plans : EffectInv(p)') /\ (\A d \in Callers : SendInv(d)')
  BY AsideSends
<1>. QED
  BY <1>1, <1>2 DEF FlowInv

-----------------------------------------------------------------------------
(* Steps that leave the ledger alone and at most move the target's fence.  *)

\* Places about which the invariant says no more than that a plan is being worked on.
Plain == {"release", "verify", "activate", "compare", "finish", "unchanged", "previous", "scenario", "run", "judge"}

Follows(at, place) ==
    \/ at # "idle" /\ place \in Plain
    \/ at \in Sending /\ place \in Sending
    \/ at \in Intending /\ place \in Intending \ {"confirm", "record"}
    \/ at = "confirm" /\ place = "record"
    \/ at = "discard" /\ place = "question"

SameEffects ==
    /\ target'.effects = target.effects /\ target'.activated = target.activated
    /\ target.fence <= target'.fence /\ target'.fence <= install.generation

LEMMA PlainKept ==
    ASSUME FlowInv, FlowType', Growth, NEW c \in Callers, NEW place \in Plain, pc'[c] = place, pc[c] # "idle",
           call'[c].plan = call[c].plan, call'[c].generation <= install'.generation,
           install'.attempt \notin {NoAttempt, c} => call'[c].generation < install'.generation
    PROVE  CallerInv(c)' /\ SendInv(c)'
<1>1. call[c].plan \in Plans /\ plans[call[c].plan].saved
  BY DEF FlowInv, CallerInv
<1>2. plans'[call[c].plan].saved
  BY <1>1 DEF Growth
<1>3. CallerInv(c)'
  BY <1>1, <1>2 DEF CallerInv, Plain, Sending, Intending
<1>4. SendInv(c)'
  BY DEF SendInv, Plain, Sending
<1>. QED
  BY <1>3, <1>4

LEMMA FollowsKept ==
    ASSUME FlowInv, FlowType', Growth, SameEffects, UNCHANGED ledger, NEW c \in Callers,
           NEW place, pc'[c] = place, call'[c] = call[c], Follows(pc[c], place)
    PROVE  CallerInv(c)' /\ (SendInv(c) => SendInv(c)')
<1>1. CallerInv(c) /\ pc[c] # "idle" /\ UNCHANGED <<install, plans, intents, receipts, evidence>>
  BY DEF FlowInv, Follows, ledger, Sending, Intending
<1>2. CASE place \in Plain
  <2>1. /\ call[c].generation <= install.generation
        /\ install.attempt \notin {NoAttempt, c} => call[c].generation < install.generation
    BY <1>1 DEF CallerInv
  <2>. QED
    BY <1>1, <1>2, <2>1, PlainKept
<1>3. CASE pc[c] \in Sending /\ place \in Sending
  <2>1. CallerInv(c)'
    BY <1>1, <1>3 DEF CallerInv, Sending, Intending, SameEffects
  <2>2. SendInv(c) => SendInv(c)'
    <3>1. call[c].generation \in Nat /\ target.fence \in Nat /\ target'.fence \in Nat
      BY CallTyped, TargetTyped DEF FlowInv, FlowType, Target
    <3>. QED
      BY <1>1, <1>3, <3>1 DEF SendInv, SameEffects
  <2>. QED
    BY <2>1, <2>2
<1>4. CASE pc[c] \in Intending /\ place \in Intending \ {"confirm", "record"}
  BY <1>1, <1>4 DEF CallerInv, SendInv, Sending, Intending, SameEffects
<1>5. CASE pc[c] = "confirm" /\ place = "record"
  BY <1>1, <1>5 DEF CallerInv, SendInv, Sending, Intending, SameEffects
<1>6. CASE pc[c] = "discard" /\ place = "question"
  BY <1>1, <1>6 DEF CallerInv, SendInv, Sending, Intending, SameEffects
<1>. QED
  BY <1>2, <1>3, <1>4, <1>5, <1>6 DEF Follows

LEMMA SameEffectsGrowth ==
    ASSUME FlowInv, UNCHANGED ledger, SameEffects
    PROVE  Growth /\ KeepsActive
<1>1. UNCHANGED <<install, plans, intents, receipts, evidence>>
  BY DEF ledger
<1>2. install.generation \in Nat
  BY InstallTyped DEF FlowInv
<1>. QED
  BY <1>1, <1>2 DEF Growth, KeepsActive, SameEffects

LEMMA QuietParts ==
    ASSUME FlowInv, UNCHANGED ledger, SameEffects
    PROVE  /\ Growth /\ KeepsActive /\ InstallInv'
           /\ \A p \in Plans : OpsInv(p)' /\ LedgerInv(p)' /\ ActivationInv(p)'
           /\ \A d \in Callers : pc'[d] = pc[d] /\ call'[d] = call[d] => Aside(d)
           /\ DiscardsAskOnce' => \A p \in Plans : EffectInv(p)'
<1>1. UNCHANGED <<install, plans, intents, receipts, evidence>>
  BY DEF ledger
<1>2. Growth /\ KeepsActive
  BY SameEffectsGrowth
<1>3. InstallInv'
  BY <1>1 DEF FlowInv, InstallInv, MadeBy, SameEffects
<1>4. ASSUME NEW p \in Plans
      PROVE  OpsInv(p)' /\ LedgerInv(p)' /\ ActivationInv(p)'
  <2>1. OpsInv(p)'
    <3>1. MadeBy("create")' = MadeBy("create")
      BY <1>1 DEF MadeBy
    <3>2. OpsInv(p)
      BY DEF FlowInv
    <3>. QED
      BY <1>1, <3>1, <3>2 DEF OpsInv
  <2>2. LedgerInv(p)'
    BY <1>1 DEF FlowInv, LedgerInv, SameEffects
  <2>3. ActivationInv(p)'
    BY <1>1 DEF FlowInv, ActivationInv, SameEffects
  <2>. QED
    BY <2>1, <2>2, <2>3
<1>5. ASSUME NEW d \in Callers, pc'[d] = pc[d], call'[d] = call[d]
      PROVE  Aside(d)
  <2>1. CallerInv(d)
    BY DEF FlowInv
  <2>. QED
    BY <1>1, <1>5, <2>1 DEF Aside, CallerInv, Holds, SameEffects
<1>6. DiscardsAskOnce' => \A p \in Plans : EffectInv(p)'
  BY <1>1 DEF FlowInv, EffectInv, DiscardsAskOnce, SameEffects
<1>. QED
  BY <1>2, <1>3, <1>4, <1>5, <1>6

LEMMA QuietKept ==
    ASSUME FlowInv, UNCHANGED ledger, SameEffects, FlowType', NEW c \in Callers,
           \A d \in Callers \ {c} : pc'[d] = pc[d] /\ call'[d] = call[d],
           CallerInv(c)', DiscardsAskOnce => SendInv(c)'
    PROVE  FlowInv' /\ Growth
<1>1. DiscardsAskOnce' => DiscardsAskOnce
  BY QuietParts, AskedOnceBefore
<1>. QED
  BY <1>1, QuietParts, Assembled

LEMMA FollowedKept ==
    ASSUME FlowInv, UNCHANGED <<ledger, call>>, SameEffects, target' \in Target, NEW c \in Callers,
           NEW place, Go(c, place), Follows(pc[c], place)
    PROVE  FlowInv' /\ Growth
<1>1. place \in Places
  BY DEF Follows, Plain, Sending, Intending, Places
<1>2. pc' \in [Callers -> Places] /\ pc'[c] = place /\ \A d \in Callers \ {c} : pc'[d] = pc[d]
  BY <1>1, GoTyped DEF FlowInv
<1>3. FlowType'
  BY <1>2 DEF FlowInv, FlowType, ledger
<1>4. Growth
  BY SameEffectsGrowth
<1>5. CallerInv(c)' /\ (SendInv(c) => SendInv(c)')
  BY <1>2, <1>3, <1>4, FollowsKept
<1>6. DiscardsAskOnce => SendInv(c)'
  BY <1>5 DEF FlowInv
<1>. QED
  BY <1>2, <1>3, <1>5, <1>6, QuietKept

\* The target itself is left alone.
LEMMA SameTarget ==
    ASSUME FlowInv, UNCHANGED target
    PROVE  SameEffects /\ target' \in Target
BY TargetTyped DEF FlowInv, InstallInv, SameEffects

LEMMA QuietMoves ==
    ASSUME FlowInv, NEW c \in Callers, UNCHANGED <<ledger, target, call>>, NEW place, Go(c, place),
           Follows(pc[c], place)
    PROVE  FlowInv' /\ Growth
BY SameTarget, FollowedKept

-----------------------------------------------------------------------------
(* The quiet steps: they look at the ledger and the target.                *)

LEMMA ObserveKept ==
    ASSUME FlowInv, NEW c \in Callers, NEW from, NEW to, Observe(c, from, to),
           from # "idle", Follows(from, to)
    PROVE  FlowInv' /\ Growth
<1>1. PICK place : place = IF target.revision = call[c].expected THEN to ELSE "release"
  OBVIOUS
<1>2. Go(c, place) /\ pc[c] = from /\ UNCHANGED <<ledger, target, call>>
  BY <1>1 DEF Observe
<1>3. Follows(pc[c], place)
  BY <1>1, <1>2 DEF Follows, Plain
<1>. QED
  BY <1>2, <1>3, QuietMoves

LEMMA AssertKept ==
    ASSUME FlowInv, NEW c \in Callers, NEW from, NEW to, AssertClaim(c, from, to),
           from # "idle", Follows(from, to)
    PROVE  FlowInv' /\ Growth
<1>1. PICK place : place = IF Holds(c) THEN to ELSE "release"
  OBVIOUS
<1>2. Go(c, place) /\ pc[c] = from /\ UNCHANGED <<ledger, target, call>>
  BY <1>1 DEF AssertClaim
<1>3. Follows(pc[c], place)
  BY <1>1, <1>2 DEF Follows, Plain
<1>. QED
  BY <1>2, <1>3, QuietMoves

LEMMA LooksKept ==
    ASSUME FlowInv, NEW c \in Callers,
           \/ ResponseLost(c) \/ Previous(c) \/ GiveUpLapsed(c) \/ Confirm(c) \/ DiscardBegin(c)
    PROVE  FlowInv' /\ Growth
<1>1. CASE ResponseLost(c)
  BY <1>1, QuietMoves DEF ResponseLost, Follows, Plain
<1>2. CASE Previous(c)
  BY <1>2, QuietMoves DEF Previous, Follows, Plain
<1>3. CASE GiveUpLapsed(c)
  BY <1>3, QuietMoves DEF GiveUpLapsed, Follows, Plain
<1>4. CASE Confirm(c)
  BY <1>4, QuietMoves DEF Confirm, Follows, Plain
<1>5. CASE DiscardBegin(c)
  BY <1>5, QuietMoves DEF DiscardBegin, Follows, Plain
<1>. QED
  BY <1>1, <1>2, <1>3, <1>4, <1>5

(* A quiet step that sets what it expects of the target, or its outcome.   *)
LEMMA QuietSets ==
    ASSUME FlowInv, NEW c \in Callers, UNCHANGED ledger, SameEffects, target' \in Target,
           NEW place \in Places, Go(c, place),
           NEW k \in Call, call' = [call EXCEPT ![c] = k], CallerInv(c)', DiscardsAskOnce => SendInv(c)'
    PROVE  FlowInv' /\ Growth
<1>1. /\ pc' \in [Callers -> Places] /\ call' \in [Callers -> Call]
      /\ \A d \in Callers \ {c} : pc'[d] = pc[d] /\ call'[d] = call[d]
  BY GoTyped, CallsTyped DEF FlowInv
<1>2. FlowType'
  BY <1>1 DEF FlowInv, FlowType, ledger
<1>. QED
  BY <1>1, <1>2, QuietKept

LEMMA QuietSetsPlain ==
    ASSUME FlowInv, NEW c \in Callers, UNCHANGED ledger, SameEffects, target' \in Target,
           NEW place \in Plain, Go(c, place), pc[c] # "idle",
           NEW k \in Call, k.plan = call[c].plan, k.generation = call[c].generation, call' = [call EXCEPT ![c] = k]
    PROVE  FlowInv' /\ Growth
<1>1. place \in Places
  BY DEF Plain, Places
<1>2. /\ pc' \in [Callers -> Places] /\ call' \in [Callers -> Call] /\ pc'[c] = place /\ call'[c] = k
  BY <1>1, GoTyped, CallsTyped DEF FlowInv
<1>3. FlowType' /\ install' = install
  BY <1>2 DEF FlowInv, FlowType, ledger
<1>4. CallerInv(c)
  BY DEF FlowInv
<1>5. Growth
  BY SameEffectsGrowth
<1>6. /\ call'[c].generation <= install'.generation
      /\ install'.attempt \notin {NoAttempt, c} => call'[c].generation < install'.generation
  BY <1>2, <1>3, <1>4 DEF CallerInv
<1>7. CallerInv(c)' /\ SendInv(c)'
  BY <1>2, <1>3, <1>5, <1>6, PlainKept
<1>. QED
  BY <1>1, <1>7, QuietSets

LEMMA ConstructBeginKept ==
    ASSUME FlowInv, NEW c \in Callers, ConstructBegin(c)
    PROVE  FlowInv' /\ Growth
<1>1. CASE Plan(c).built
  BY <1>1, QuietMoves DEF ConstructBegin, Follows, Plain
<1>2. CASE ~Plan(c).built
  <2>1. PICK p, k : p = call[c].plan /\ k = [call[c] EXCEPT !.expected = plans[p].observed]
    OBVIOUS
  <2>2. /\ p \in Plans /\ plans[p].saved /\ call[c].i = 1 /\ pc[c] = "construct"
        /\ call[c].generation <= install.generation
        /\ install.attempt \notin {NoAttempt, c} => call[c].generation < install.generation
    BY <2>1 DEF FlowInv, CallerInv, ConstructBegin
  <2>3. plans[p].observed \in Nat /\ call[c] \in Call /\ 1 \in DOMAIN plans[p].ops
    <3>1. Len(plans[p].ops) \in Positions /\ DOMAIN plans[p].ops = 1 .. Len(plans[p].ops)
      BY <2>2, PlansTyped DEF FlowInv, OpsInv
    <3>2. Len(plans[p].ops) \in Nat \ {0}
      BY <3>1, PositionsFinite
    <3>3. plans[p].observed \in Nat /\ call[c] \in Call
      BY <2>2, PlansTyped, CallTyped DEF FlowInv
    <3>. QED
      BY <3>1, <3>2, <3>3
  <2>4. k \in Call /\ k.plan = p /\ k.i = 1 /\ k.generation = call[c].generation
    <3>1. k \in Call
      BY <2>1, <2>2, <2>3, CallFields
    <3>. QED
      BY <2>1, <2>2, <2>3, <3>1 DEF Call
  <2>5. /\ UNCHANGED ledger /\ target' = target /\ Go(c, "operation")
        /\ call' = [call EXCEPT ![c] = k]
    BY <1>2, <2>1 DEF ConstructBegin, Plan
  <2>6. "operation" \in Places
    BY DEF Places
  <2>7. pc'[c] = "operation" /\ call'[c] = k /\ UNCHANGED <<install, plans, intents, receipts, evidence>>
    BY <2>4, <2>5, <2>6, GoTyped, CallsTyped DEF FlowInv, ledger
  <2>8. CallerInv(c)' /\ SendInv(c)'
    BY <2>2, <2>3, <2>4, <2>7 DEF CallerInv, SendInv, Sending, Intending
  <2>. QED
    BY <2>4, <2>5, <2>6, <2>8, SameTarget, QuietSets
<1>. QED
  BY <1>1, <1>2

LEMMA VerifyBeginKept ==
    ASSUME FlowInv, NEW c \in Callers, VerifyBegin(c)
    PROVE  FlowInv' /\ Growth
<1>1. CASE ~Plan(c).built
  BY <1>1, QuietMoves DEF VerifyBegin, Follows, Plain
<1>2. CASE Plan(c).built
  <2>1. PICK k : k = [call[c] EXCEPT !.expected = plans[call[c].plan].observation]
    OBVIOUS
  <2>2. call[c].plan \in Plans
    BY DEF FlowInv, CallerInv, VerifyBegin
  <2>3. k \in Call /\ k.plan = call[c].plan /\ k.generation = call[c].generation
    <3>1. plans[call[c].plan].observation \in Nat /\ call[c] \in Call
      BY <2>2, PlansTyped, CallTyped DEF FlowInv
    <3>. QED
      <4>1. k \in Call
        BY <2>1, <3>1, CallFields
      <4>. QED
        BY <2>1, <3>1, <4>1 DEF Call
  <2>4. /\ UNCHANGED ledger /\ target' = target /\ Go(c, "unchanged") /\ pc[c] # "idle"
        /\ call' = [call EXCEPT ![c] = k]
    BY <1>2, <2>1 DEF VerifyBegin, Plan
  <2>5. "unchanged" \in Plain
    BY DEF Plain
  <2>. QED
    BY <2>3, <2>4, <2>5, SameTarget, QuietSetsPlain
<1>. QED
  BY <1>1, <1>2

LEMMA ActivateBeginKept ==
    ASSUME FlowInv, NEW c \in Callers, ActivateBegin(c)
    PROVE  FlowInv' /\ Growth
<1>1. CASE ~(Plan(c).built /\ Verified(call[c].plan))
  BY <1>1, QuietMoves DEF ActivateBegin, Follows, Plain
<1>2. CASE Plan(c).built /\ Verified(call[c].plan)
  <2>1. PICK k, place : /\ k = [call[c] EXCEPT !.expected = plans[call[c].plan].observation]
                        /\ place = IF evidence[call[c].plan].activation = 0 THEN "intend" ELSE "release"
    OBVIOUS
  <2>2. /\ call[c].plan \in Plans /\ plans[call[c].plan].saved
        /\ call[c].generation <= install.generation
        /\ install.attempt \notin {NoAttempt, c} => call[c].generation < install.generation
    BY DEF FlowInv, CallerInv, ActivateBegin
  <2>3. /\ k \in Call /\ k.plan = call[c].plan /\ k.generation = call[c].generation
        /\ k.expected = plans[call[c].plan].observation
    <3>1. plans[call[c].plan].observation \in Nat /\ call[c] \in Call
      BY <2>2, PlansTyped, CallTyped DEF FlowInv
    <3>. QED
      <4>1. k \in Call
        BY <2>1, <3>1, CallFields
      <4>. QED
        BY <2>1, <3>1, <4>1 DEF Call
  <2>4. /\ UNCHANGED ledger /\ target' = target /\ Go(c, place) /\ pc[c] # "idle"
        /\ call' = [call EXCEPT ![c] = k]
    BY <1>2, <2>1 DEF ActivateBegin, Plan
  <2>5. CASE place = "release"
    <3>1. "release" \in Plain
      BY DEF Plain
    <3>. QED
      BY <2>3, <2>4, <2>5, <3>1, SameTarget, QuietSetsPlain
  <2>6. CASE place = "intend"
    <3>1. place \in Places
      BY <2>6 DEF Places
    <3>2. pc'[c] = "intend" /\ call'[c] = k /\ UNCHANGED <<install, plans, intents, receipts, evidence>>
      BY <2>3, <2>4, <2>6, <3>1, GoTyped, CallsTyped DEF FlowInv, ledger
    <3>3. plans[call[c].plan].built /\ evidence[call[c].plan].verification = "passed"
      BY <1>2 DEF Plan, Verified
    <3>4. CallerInv(c)' /\ SendInv(c)'
      BY <2>2, <2>3, <3>2, <3>3 DEF CallerInv, SendInv, Sending, Intending
    <3>. QED
      BY <2>3, <2>4, <3>1, <3>4, SameTarget, QuietSets
  <2>. QED
    BY <2>1, <2>5, <2>6
<1>. QED
  BY <1>1, <1>2

LEMMA CrashKept ==
    ASSUME FlowInv, NEW c \in Callers, Crash(c)
    PROVE  FlowInv' /\ Growth
<1>1. /\ UNCHANGED ledger /\ target' = target /\ Go(c, "idle") /\ "idle" \in Places
      /\ NoCall \in Call /\ call' = [call EXCEPT ![c] = NoCall]
  BY NoDocTyped DEF Crash, Places
<1>2. pc'[c] = "idle" /\ call'[c] = NoCall /\ install' = install
  BY <1>1, GoTyped, CallsTyped DEF FlowInv, ledger
<1>3. install.generation \in Nat /\ (install.attempt # NoAttempt => install.generation > 0)
  BY InstallTyped DEF FlowInv, InstallInv
<1>4. CallerInv(c)' /\ SendInv(c)'
  BY <1>2, <1>3 DEF CallerInv, SendInv, Sending, Intending, NoCall
<1>. QED
  BY <1>1, <1>4, SameTarget, QuietSets

-----------------------------------------------------------------------------
(* The target raises its fence, and answers what became of a call.         *)

LEMMA FencedEffects ==
    ASSUME FlowInv, NEW c \in Callers, target' = Fenced(c)
    PROVE  SameEffects /\ target' \in Target /\ call[c].generation <= target'.fence
<1>1. call[c].generation \in Nat /\ call[c].generation <= install.generation /\ target.fence \in Nat
      /\ target \in Target /\ target.fence <= install.generation
  BY CallTyped, TargetTyped DEF FlowInv, CallerInv, InstallInv
<1>2. PICK n : n = IF target.fence < call[c].generation THEN call[c].generation ELSE target.fence
  OBVIOUS
<1>3. target' = [target EXCEPT !.fence = n]
  BY <1>2, Zenon DEF Fenced
<1>4. n \in Nat /\ target.fence <= n /\ call[c].generation <= n /\ n <= install.generation
  BY <1>1, <1>2
<1>5. target' \in Target
  BY <1>1, <1>3, <1>4, TargetFields
<1>6. target'.effects = target.effects /\ target'.activated = target.activated /\ target'.fence = n
  BY <1>1, <1>3 DEF Target
<1>. QED
  BY <1>4, <1>5, <1>6 DEF SameEffects

(* The own facts of a caller that keeps its plan and its claim.            *)
LEMMA OwnCaller ==
    ASSUME FlowInv, NEW c \in Callers, pc[c] # "idle"
    PROVE  /\ call[c].plan \in Plans /\ plans[call[c].plan].saved
           /\ DOMAIN plans[call[c].plan].ops = 1 .. Len(plans[call[c].plan].ops)
           /\ Len(plans[call[c].plan].ops) \in Positions /\ DOMAIN plans[call[c].plan].ops \subseteq Positions
           /\ call[c].generation <= install.generation
           /\ install.attempt \notin {NoAttempt, c} => call[c].generation < install.generation
<1>1. call[c].plan \in Plans /\ plans[call[c].plan].saved
  BY DEF FlowInv, CallerInv
<1>2. /\ Len(plans[call[c].plan].ops) \in Positions
      /\ DOMAIN plans[call[c].plan].ops = 1 .. Len(plans[call[c].plan].ops)
  BY <1>1, PlansTyped DEF FlowInv, OpsInv
<1>3. DOMAIN plans[call[c].plan].ops \subseteq Positions
  BY <1>2, PositionsFinite DEF Positions
<1>. QED
  BY <1>1, <1>2, <1>3 DEF FlowInv, CallerInv

(* A caller that has the target's answer.                                  *)
LEMMA CompleteCaller ==
    ASSUME NEW c \in Callers, NEW p \in Plans, NEW i, pc'[c] = "complete", call'[c].plan = p, call'[c].i = i,
           plans'[p].saved, i \in DOMAIN plans'[p].ops, <<p, i>> \in intents',
           call'[c].receipt # 0, call'[c].receipt = target'.effects[p][i],
           call'[c].generation <= install'.generation,
           install'.attempt \notin {NoAttempt, c} => call'[c].generation < install'.generation
    PROVE  CallerInv(c)' /\ SendInv(c)'
BY DEF CallerInv, SendInv, Sending, Intending

LEMMA ConfirmCaller ==
    ASSUME NEW c \in Callers, NEW p \in Plans, pc'[c] = "confirm", call'[c].plan = p,
           plans'[p].saved, plans'[p].built, call'[c].expected = plans'[p].observation,
           evidence'[p].verification = "passed", evidence'[p].intent,
           call'[c].receipt # 0, target'.activated[p] # 0,
           call'[c].generation <= install'.generation,
           install'.attempt \notin {NoAttempt, c} => call'[c].generation < install'.generation
    PROVE  CallerInv(c)' /\ SendInv(c)'
BY DEF CallerInv, SendInv, Sending, Intending

LEMMA RecoverKept ==
    ASSUME FlowInv, NEW c \in Callers, Recover(c, "recover", Effect(c), "complete", "check", call)
    PROVE  FlowInv' /\ Growth
<1>1. pc[c] = "recover" /\ target' = Fenced(c) /\ UNCHANGED ledger
  BY DEF Recover
<1>2. CASE Effect(c) # 0 /\ Go(c, "complete") /\ call' = [call EXCEPT ![c].receipt = Effect(c)]
  <2>1. PICK k, p, i : k = [call[c] EXCEPT !.receipt = Effect(c)] /\ p = call[c].plan /\ i = call[c].i
    OBVIOUS
  <2>2. /\ p \in Plans /\ i \in DOMAIN plans[p].ops /\ i \in Positions /\ <<p, i>> \in intents
        /\ Effect(c) = target.effects[p][i]
    BY <1>1, <2>1, OwnCaller DEF FlowInv, CallerInv, Sending, Effect
  <2>3. Effect(c) \in Nat /\ call[c] \in Call
    BY <2>2, TargetTyped, CallTyped DEF FlowInv
  <2>4. /\ k \in Call /\ k.plan = p /\ k.i = i /\ k.generation = call[c].generation
        /\ k.receipt = Effect(c)
    <3>1. k \in Call
      BY <2>1, <2>3, CallFields
    <3>. QED
      BY <2>1, <2>3, <3>1 DEF Call
  <2>5. call' = [call EXCEPT ![c] = k] /\ "complete" \in Places
    BY <1>2, <2>1 DEF Places
  <2>6. pc'[c] = "complete" /\ call'[c] = k /\ UNCHANGED <<install, plans, intents, receipts, evidence>>
    BY <1>1, <1>2, <2>4, <2>5, GoTyped, CallsTyped DEF FlowInv, ledger
  <2>7. CallerInv(c)' /\ SendInv(c)'
    <3>1. /\ plans[p].saved /\ call[c].generation <= install.generation
          /\ install.attempt \notin {NoAttempt, c} => call[c].generation < install.generation
          /\ target'.effects = target.effects
      BY <1>1, <2>1, FencedEffects, OwnCaller DEF SameEffects
    <3>2. k.receipt # 0 /\ k.receipt = target'.effects[p][i]
      BY <1>2, <2>2, <2>4, <3>1
    <3>. QED
      BY <2>2, <2>4, <2>6, <3>1, <3>2, CompleteCaller
  <2>. QED
    BY <1>1, <1>2, <2>4, <2>5, <2>7, FencedEffects, QuietSets
<1>3. CASE Go(c, "check") /\ call' = call
  BY <1>1, <1>3, FencedEffects, FollowedKept DEF Follows, Sending
<1>4. CASE Go(c, "release") /\ call' = call
  BY <1>1, <1>4, FencedEffects, FollowedKept DEF Follows, Plain
<1>. QED
  BY <1>2, <1>3, <1>4 DEF Recover

LEMMA ReadbackKept ==
    ASSUME FlowInv, NEW c \in Callers, Recover(c, "readback", Activation(c), "confirm", "unmoved", call)
    PROVE  FlowInv' /\ Growth
<1>1. pc[c] = "readback" /\ target' = Fenced(c) /\ UNCHANGED ledger
  BY DEF Recover
<1>2. CASE Activation(c) # 0 /\ Go(c, "confirm") /\ call' = [call EXCEPT ![c].receipt = Activation(c)]
  <2>1. PICK k, p : k = [call[c] EXCEPT !.receipt = Activation(c)] /\ p = call[c].plan
    OBVIOUS
  <2>2. /\ p \in Plans /\ plans[p].saved /\ plans[p].built
        /\ evidence[p].verification = "passed" /\ evidence[p].intent
        /\ call[c].expected = plans[p].observation /\ Activation(c) = target.activated[p]
    BY <1>1, <2>1 DEF FlowInv, CallerInv, Intending, Activation
  <2>3. Activation(c) \in Nat /\ call[c] \in Call
    BY <2>2, TargetTyped, CallTyped DEF FlowInv
  <2>4. /\ k \in Call /\ k.plan = p /\ k.generation = call[c].generation
        /\ k.receipt = Activation(c) /\ k.expected = plans[p].observation
    <3>1. k \in Call
      BY <2>1, <2>2, <2>3, CallFields
    <3>. QED
      BY <2>1, <2>2, <2>3, <3>1 DEF Call
  <2>5. call' = [call EXCEPT ![c] = k] /\ "confirm" \in Places
    BY <1>2, <2>1 DEF Places
  <2>6. pc'[c] = "confirm" /\ call'[c] = k /\ UNCHANGED <<install, plans, intents, receipts, evidence>>
    BY <1>1, <1>2, <2>4, <2>5, GoTyped, CallsTyped DEF FlowInv, ledger
  <2>7. CallerInv(c)' /\ SendInv(c)'
    <3>1. /\ call[c].generation <= install.generation
          /\ install.attempt \notin {NoAttempt, c} => call[c].generation < install.generation
          /\ target'.activated = target.activated
      BY <1>1, <2>1, FencedEffects, OwnCaller DEF SameEffects
    <3>. QED
      BY <1>2, <2>2, <2>4, <2>6, <3>1 DEF CallerInv, SendInv, Sending, Intending
  <2>. QED
    BY <1>1, <1>2, <2>4, <2>5, <2>7, FencedEffects, QuietSets
<1>3. CASE Go(c, "unmoved") /\ call' = call
  BY <1>1, <1>3, FencedEffects, FollowedKept DEF Follows, Intending
<1>4. CASE Go(c, "release") /\ call' = call
  BY <1>1, <1>4, FencedEffects, FollowedKept DEF Follows, Plain
<1>. QED
  BY <1>2, <1>3, <1>4 DEF Recover

\* Holding the claim still, the asker knows that its answer stays true.
LEMMA AskKept ==
    ASSUME FlowInv, NEW c \in Callers,
           Recover(c, "ask", Effect(c), "release", "question", [call EXCEPT ![c].i = @ + 1])
    PROVE  FlowInv' /\ Growth
<1>1. pc[c] = "ask" /\ target' = Fenced(c) /\ UNCHANGED ledger
  BY DEF Recover
<1>2. PICK p, i : p = call[c].plan /\ i = call[c].i
  OBVIOUS
<1>3. /\ p \in Plans /\ plans[p].saved /\ i \in DOMAIN plans[p].ops /\ i \in Positions /\ i \in Nat /\ i > 0
      /\ DOMAIN plans[p].ops = 1 .. Len(plans[p].ops)
      /\ Effect(c) = target.effects[p][i] /\ Effect(c) \in Nat /\ call[c] \in Call
  <2>1. /\ p \in Plans /\ plans[p].saved /\ i \in DOMAIN plans[p].ops /\ i \in Positions
        /\ DOMAIN plans[p].ops = 1 .. Len(plans[p].ops)
    BY <1>1, <1>2, OwnCaller DEF FlowInv, CallerInv
  <2>2. Effect(c) = target.effects[p][i] /\ Effect(c) \in Nat /\ call[c] \in Call
    BY <1>2, <2>1, TargetTyped, CallTyped DEF FlowInv, Effect
  <2>. QED
    BY <2>1, <2>2, PositionsFinite
<1>4. CASE Go(c, "release") /\ call' = [call EXCEPT ![c].receipt = Effect(c)]
  <2>1. PICK k : k = [call[c] EXCEPT !.receipt = Effect(c)]
    OBVIOUS
  <2>2. k \in Call /\ k.plan = call[c].plan /\ k.generation = call[c].generation /\ "release" \in Plain
    <3>1. k \in Call
      BY <1>3, <2>1, CallFields
    <3>. QED
      BY <1>3, <2>1, <3>1 DEF Call, Plain
  <2>3. call' = [call EXCEPT ![c] = k] /\ pc[c] # "idle"
    BY <1>1, <1>4, <2>1
  <2>. QED
    BY <1>1, <1>4, <2>2, <2>3, FencedEffects, QuietSetsPlain
<1>5. CASE Effect(c) = 0 /\ Go(c, "question") /\ call' = [call EXCEPT ![c].i = @ + 1]
  <2>1. PICK k : k = [call[c] EXCEPT !.i = i + 1]
    OBVIOUS
  <2>2. /\ k \in Call /\ k.plan = p /\ k.i = i + 1 /\ k.generation = call[c].generation
    <3>1. i + 1 \in Nat
      BY <1>3
    <3>2. k \in Call
      BY <1>3, <2>1, <3>1, CallFields
    <3>. QED
      BY <1>2, <1>3, <2>1, <3>2 DEF Call
  <2>3. call' = [call EXCEPT ![c] = k] /\ "question" \in Places
    BY <1>2, <1>5, <2>1 DEF Places
  <2>4. pc'[c] = "question" /\ call'[c] = k /\ UNCHANGED <<install, plans, intents, receipts, evidence>>
    BY <1>1, <1>5, <2>2, <2>3, GoTyped, CallsTyped DEF FlowInv, ledger
  <2>5. Len(plans[p].ops) = 1 => i = 1
    BY <1>3
  <2>6. /\ target'.effects = target.effects /\ call[c].generation <= target'.fence
        /\ call[c].generation <= install.generation
        /\ install.attempt \notin {NoAttempt, c} => call[c].generation < install.generation
    BY <1>1, FencedEffects, OwnCaller DEF SameEffects
  <2>7. CallerInv(c)' /\ SendInv(c)'
    <3>0. target.effects[p][i] = 0
      BY <1>3, <1>5
    <3>1. /\ k.i > 0
          /\ k.generation <= target'.fence
          /\ Len(plans[p].ops) = 1 => target'.effects[p][1] = 0
      <4>1. k.i > 0
        BY <1>3, <2>2
      <4>2. k.generation <= target'.fence
        BY <2>2, <2>6
      <4>. QED
        BY <4>1, <4>2, <2>5, <2>6, <3>0
    <3>. QED
      BY <1>3, <2>2, <2>4, <2>6, <3>1 DEF CallerInv, SendInv, Sending, Intending
  <2>. QED
    BY <1>1, <1>5, <2>2, <2>3, <2>7, FencedEffects, QuietSets
<1>6. CASE Go(c, "release") /\ call' = call
  BY <1>1, <1>6, FencedEffects, FollowedKept DEF Follows, Plain
<1>. QED
  BY <1>4, <1>5, <1>6 DEF Recover

LEMMA RunScenarioKept ==
    ASSUME FlowInv, NEW c \in Callers, RunScenario(c)
    PROVE  FlowInv' /\ Growth
<1>1. pc[c] = "run" /\ target' = Fenced(c) /\ UNCHANGED ledger
  BY DEF RunScenario
<1>2. CASE Go(c, "release") /\ call' = call
  BY <1>1, <1>2, FencedEffects, FollowedKept DEF Follows, Plain
<1>3. ASSUME NEW o \in {"none", "passed", "failed"}, Go(c, "judge"), call' = [call EXCEPT ![c].outcome = o]
      PROVE  FlowInv' /\ Growth
  <2>1. PICK k : k = [call[c] EXCEPT !.outcome = o]
    OBVIOUS
  <2>2. call[c] \in Call
    BY CallTyped DEF FlowInv
  <2>3. k \in Call /\ k.plan = call[c].plan /\ k.generation = call[c].generation /\ "judge" \in Plain
    <3>1. k \in Call
      BY <2>1, <2>2, CallFields
    <3>. QED
      BY <2>1, <2>2, <3>1 DEF Call, Plain
  <2>4. call' = [call EXCEPT ![c] = k] /\ pc[c] # "idle"
    BY <1>1, <1>3, <2>1
  <2>. QED
    BY <1>1, <1>3, <2>3, <2>4, FencedEffects, QuietSetsPlain
<1>4. call[c].outcome \in {"none", "passed", "failed"}
  BY CallTyped DEF FlowInv
<1>5. CASE Go(c, "judge") /\ call' = [call EXCEPT ![c].outcome = IF @ = "none" THEN "passed" ELSE @]
  <2>1. PICK o : o = IF call[c].outcome = "none" THEN "passed" ELSE call[c].outcome
    OBVIOUS
  <2>2. call' = [call EXCEPT ![c].outcome = o] /\ o \in {"none", "passed", "failed"}
    BY <1>4, <1>5, <2>1
  <2>. QED
    BY <1>3, <1>5, <2>2
<1>6. CASE Go(c, "judge") /\ call' = [call EXCEPT ![c].outcome = "failed"]
  BY <1>3, <1>6
<1>. QED
  BY <1>2, <1>5, <1>6 DEF RunScenario

(* A user edits the target.                                                *)
LEMMA UserEditKept ==
    ASSUME FlowInv, UserEdit
    PROVE  FlowInv' /\ Growth
<1>1. target' = [target EXCEPT !.revision = target.revision + 1] /\ UNCHANGED <<ledger, pc, call>>
  BY DEF UserEdit
<1>2. target \in Target /\ target.revision + 1 \in Nat /\ target.fence \in Nat /\ target.fence <= install.generation
  BY TargetTyped DEF FlowInv, InstallInv
<1>3. target' \in Target
  BY <1>1, <1>2, TargetFields
<1>4. SameEffects
  BY <1>1, <1>2 DEF SameEffects, Target
<1>5. FlowType'
  BY <1>1, <1>3 DEF FlowInv, FlowType, ledger
<1>. QED
  BY <1>1, <1>4, <1>5, QuietParts, BackgroundAssembled

-----------------------------------------------------------------------------
(* The claim: taken or renewed, released, and lapsed.                      *)

LEMMA ClaimedParts ==
    ASSUME FlowInv, NEW c \in Callers, NEW p \in Plans, MayClaim(p, c), install' = Claimed(p, c),
           UNCHANGED <<plans, intents, receipts, evidence, target>>
    PROVE  /\ Growth /\ KeepsActive /\ install' \in Install /\ InstallInv'
           /\ \A q \in Plans : OpsInv(q)' /\ LedgerInv(q)' /\ ActivationInv(q)'
           /\ \A d \in Callers \ {c} : pc'[d] = pc[d] /\ call'[d] = call[d] => Aside(d)
           /\ DiscardsAskOnce' => \A q \in Plans : EffectInv(q)'
           /\ install'.active = p /\ install'.attempt = c /\ GenerationFor(c) \in Nat
           /\ install'.generation = GenerationFor(c)
<1>1. /\ install \in Install /\ install.generation \in Nat
      /\ target.fence \in Nat /\ target.fence <= install.generation
      /\ install.attempt # NoAttempt => install.generation > 0
      /\ c # NoAttempt /\ p # NoPlan /\ NoPlan \notin Plans
  BY InstallTyped, TargetTyped, FlowAssumption DEF FlowInv, InstallInv, NoPlan, Plans
<1>2. PICK n : n = GenerationFor(c)
  OBVIOUS
<1>3. /\ n \in Nat /\ install.generation <= n /\ n > 0
      /\ n = install.generation => install.attempt = c
  BY <1>1, <1>2 DEF GenerationFor
<1>4. install' = [install EXCEPT !.active = p, !.attempt = c, !.leased = TRUE, !.generation = n]
  BY <1>2 DEF Claimed
<1>5. install' \in Install
  <2>1. p \in {NoPlan} \cup Plans /\ c \in Callers \cup {NoAttempt} /\ TRUE \in BOOLEAN
    OBVIOUS
  <2>. QED
    BY <1>1, <1>3, <1>4, <2>1 DEF Install
<1>6. /\ install'.active = p /\ install'.attempt = c /\ install'.generation = n
      /\ install'.revision = install.revision /\ install'.resources = install.resources
  BY <1>1, <1>4 DEF Install
<1>7. Growth
  BY <1>1, <1>3, <1>6 DEF Growth
<1>8. /\ \A q \in Plans : install.active = q => q = p
      /\ plans[p].saved /\ ~plans[p].abandoned
      /\ install.revision = IF plans[p].built THEN plans[p].revision ELSE plans[p].base
  BY <1>1 DEF MayClaim
<1>9. KeepsActive
  BY <1>6, <1>8 DEF KeepsActive
<1>10. MadeBy("create")' = MadeBy("create") /\ MadeBy("remove")' = MadeBy("remove")
  BY DEF MadeBy
<1>11. InstallInv'
  BY <1>1, <1>3, <1>6, <1>10 DEF FlowInv, InstallInv
<1>12. ASSUME NEW q \in Plans
       PROVE  OpsInv(q)' /\ LedgerInv(q)' /\ ActivationInv(q)'
  <2>1. OpsInv(q)'
    BY <1>10 DEF FlowInv, OpsInv
  <2>2. LedgerInv(q)'
    BY <1>6, <1>8 DEF FlowInv, LedgerInv
  <2>3. ActivationInv(q)'
    BY <1>6, <1>8 DEF FlowInv, ActivationInv
  <2>. QED
    BY <2>1, <2>2, <2>3
<1>13. ASSUME NEW d \in Callers \ {c}, pc'[d] = pc[d], call'[d] = call[d]
       PROVE  Aside(d)
  <2>1. /\ call[d].generation \in Nat /\ call[d].generation <= install.generation
        /\ install.attempt \notin {NoAttempt, d} => call[d].generation < install.generation
    BY CallTyped DEF FlowInv, CallerInv
  <2>2. call[d].generation < n
    BY <1>1, <1>3, <2>1
  <2>3. ~Holds(d)'
    BY <1>6 DEF Holds
  <2>. QED
    BY <1>6, <1>13, <2>2, <2>3 DEF Aside
<1>14. DiscardsAskOnce' => \A q \in Plans : EffectInv(q)'
  BY <1>6, <1>8 DEF FlowInv, EffectInv, DiscardsAskOnce
<1>. QED
  BY <1>2, <1>3, <1>5, <1>6, <1>7, <1>9, <1>11, <1>12, <1>13, <1>14

\* What a caller must know wherever it goes with its claim.
Knows(place, p, i) ==
    \/ place \in {"construct", "discard"} /\ i = 1
    \/ place \in Plain
    \/ place \in {"intent", "ask"} /\ i \in DOMAIN plans[p].ops

LEMMA ClaimedKept ==
    ASSUME FlowInv, NEW c \in Callers, NEW p \in Plans, MayClaim(p, c), install' = Claimed(p, c),
           UNCHANGED <<plans, intents, receipts, evidence, target>>,
           NEW place \in Places, Go(c, place), NEW k \in Call, call' = [call EXCEPT ![c] = k],
           k.plan = p, k.generation = GenerationFor(c), Knows(place, p, k.i)
    PROVE  FlowInv' /\ Growth
<1>1. /\ pc' \in [Callers -> Places] /\ call' \in [Callers -> Call]
      /\ pc'[c] = place /\ call'[c] = k
      /\ \A d \in Callers \ {c} : pc'[d] = pc[d] /\ call'[d] = call[d]
  BY GoTyped, CallsTyped DEF FlowInv
<1>2. /\ install' \in Install /\ install'.active = p /\ install'.attempt = c
      /\ GenerationFor(c) \in Nat /\ install'.generation = GenerationFor(c)
  BY ClaimedParts
<1>3. FlowType'
  BY <1>1, <1>2 DEF FlowInv, FlowType
<1>4. plans[p].saved
  BY DEF MayClaim
<1>5. CallerInv(c)'
  <2>1. place \notin Sending \cup Intending \cup {"operation", "complete", "intend", "question"}
    BY DEF Knows, Plain, Sending, Intending
  <2>2. place \in {"construct", "discard"} => k.i = 1
    BY DEF Knows, Plain
  <2>3. place \in {"intent", "ask"} => k.i \in DOMAIN plans[p].ops
    BY DEF Knows, Plain
  <2>. QED
    BY <1>1, <1>2, <1>4, <2>1, <2>2, <2>3 DEF CallerInv, Intending
<1>6. SendInv(c)'
  BY <1>1, <1>2 DEF SendInv
<1>. QED
  BY <1>1, <1>3, <1>5, <1>6, ClaimedParts, Assembled

LEMMA BeginKept ==
    ASSUME FlowInv, NEW c \in Callers, Begin(c)
    PROVE  FlowInv' /\ Growth
<1>1. PICK p \in Plans, op \in {"construct", "verify", "activate", "discard"} :
        /\ MayClaim(p, c) /\ install' = Claimed(p, c)
        /\ call' = [call EXCEPT ![c] = [NoCall EXCEPT !.plan = p, !.generation = GenerationFor(c)]]
        /\ Go(c, op)
  BY DEF Begin
<1>2. UNCHANGED <<plans, intents, receipts, evidence, target>>
  BY DEF Begin
<1>3. GenerationFor(c) \in Nat
  BY <1>1, <1>2, ClaimedParts
<1>4. PICK k : k = [NoCall EXCEPT !.plan = p, !.generation = GenerationFor(c)]
  OBVIOUS
<1>5. k \in Call /\ k.plan = p /\ k.generation = GenerationFor(c) /\ k.i = 1
  BY <1>3, <1>4, NoDocTyped, CallFields DEF NoCall
<1>6. op \in Places /\ Knows(op, p, k.i)
  BY <1>5 DEF Places, Knows, Plain
<1>. QED
  BY <1>1, <1>2, <1>4, <1>5, <1>6, ClaimedKept

LEMMA RenewKept ==
    ASSUME FlowInv, NEW c \in Callers, NEW from, NEW to \in Places, Renew(c, from, to), from # "idle",
           Knows(to, call[c].plan, call[c].i)
    PROVE  FlowInv' /\ Growth
<1>1. pc[c] = from /\ UNCHANGED <<plans, intents, receipts, evidence, target>>
  BY DEF Renew
<1>2. CASE Go(c, "release") /\ UNCHANGED <<install, call>>
  BY <1>1, <1>2, QuietMoves DEF Follows, Plain, ledger
<1>3. CASE /\ MayClaim(call[c].plan, c) /\ install' = Claimed(call[c].plan, c) /\ Go(c, to)
           /\ call' = [call EXCEPT ![c].generation = GenerationFor(c)]
  <2>1. PICK p, k : p = call[c].plan /\ k = [call[c] EXCEPT !.generation = GenerationFor(c)]
    OBVIOUS
  <2>2. p \in Plans /\ call[c] \in Call
    BY <1>1, <2>1, OwnCaller, CallTyped DEF FlowInv
  <2>3. GenerationFor(c) \in Nat
    BY <1>1, <1>3, <2>1, <2>2, ClaimedParts
  <2>4. k \in Call
    BY <2>1, <2>2, <2>3, CallFields
  <2>5. k.plan = p /\ k.generation = GenerationFor(c) /\ k.i = call[c].i
    BY <2>1, <2>2 DEF Call
  <2>6. call' = [call EXCEPT ![c] = k]
    BY <1>3, <2>1
  <2>7. MayClaim(p, c) /\ install' = Claimed(p, c) /\ Go(c, to) /\ Knows(to, p, k.i)
    BY <1>3, <2>1, <2>5, Zenon
  <2>. QED
    BY <1>1, <2>2, <2>4, <2>5, <2>6, <2>7, ClaimedKept
<1>. QED
  BY <1>2, <1>3 DEF Renew

LEMMA RenewsKept ==
    ASSUME FlowInv, NEW c \in Callers,
           \/ Renew(c, "operation", "intent") \/ Renew(c, "scenario", "run")
           \/ ~Asked(c) /\ Renew(c, "question", "ask")
    PROVE  FlowInv' /\ Growth
<1>1. CASE Renew(c, "operation", "intent")
  <2>1. call[c].i \in DOMAIN plans[call[c].plan].ops
    BY <1>1 DEF Renew, FlowInv, CallerInv
  <2>2. Knows("intent", call[c].plan, call[c].i) /\ "intent" \in Places
    BY <2>1 DEF Knows, Places
  <2>. QED
    BY <1>1, <2>2, RenewKept
<1>2. CASE Renew(c, "scenario", "run")
  <2>1. Knows("run", call[c].plan, call[c].i) /\ "run" \in Places
    BY DEF Knows, Plain, Places
  <2>. QED
    BY <1>2, <2>1, RenewKept
<1>3. CASE ~Asked(c) /\ Renew(c, "question", "ask")
  <2>1. pc[c] = "question" /\ ~(call[c].i > Len(plans[call[c].plan].ops))
    BY <1>3 DEF Renew, Asked, Ops, Plan
  <2>2. /\ call[c].i > 0 /\ call[c].i \in Nat /\ call[c].plan \in Plans
        /\ DOMAIN plans[call[c].plan].ops = 1 .. Len(plans[call[c].plan].ops)
    BY <2>1, OwnCaller, CallTyped DEF FlowInv, CallerInv
  <2>3. Len(plans[call[c].plan].ops) \in Nat
    BY <2>2, PlansTyped DEF FlowInv
  <2>4. call[c].i \in DOMAIN plans[call[c].plan].ops
    BY <2>1, <2>2, <2>3
  <2>5. Knows("ask", call[c].plan, call[c].i) /\ "ask" \in Places
    BY <2>4 DEF Knows, Places
  <2>. QED
    BY <1>3, <2>5, RenewKept
<1>. QED
  BY <1>1, <1>2, <1>3

\* A plan that is unbuilt, or whose activation is uncertain, stays selected.
LEMMA ReleaseKept ==
    ASSUME FlowInv, NEW c \in Callers, Release(c)
    PROVE  FlowInv' /\ Growth
<1>1. /\ pc[c] = "release" /\ UNCHANGED <<plans, intents, receipts, evidence, target>>
      /\ Go(c, "idle") /\ call' = [call EXCEPT ![c] = NoCall] /\ "idle" \in Places /\ NoCall \in Call
  BY NoDocTyped DEF Release, Places
<1>2. /\ pc' \in [Callers -> Places] /\ call' \in [Callers -> Call]
      /\ pc'[c] = "idle" /\ call'[c] = NoCall
      /\ \A d \in Callers \ {c} : pc'[d] = pc[d] /\ call'[d] = call[d]
  BY <1>1, GoTyped, CallsTyped DEF FlowInv
<1>3. install.generation \in Nat /\ (install.attempt # NoAttempt => install.generation > 0)
  BY InstallTyped DEF FlowInv, InstallInv
<1>4. CASE ~Holds(c)
  <2>1. UNCHANGED ledger /\ install' = install
    BY <1>1, <1>4 DEF Release, ledger
  <2>2. CallerInv(c)' /\ SendInv(c)'
    BY <1>2, <1>3, <2>1 DEF CallerInv, SendInv, Sending, Intending, NoCall
  <2>. QED
    BY <1>1, <2>1, <2>2, SameTarget, QuietSets
<1>5. CASE Holds(c)
  <2>1. PICK p, a : p = call[c].plan /\ a = IF KeepsSelected(p) THEN p ELSE NoPlan
    OBVIOUS
  <2>2. p \in Plans /\ install \in Install /\ install.active = p
    BY <1>1, <1>5, <2>1, OwnCaller, InstallTyped DEF FlowInv, Holds
  <2>3. install' = [install EXCEPT !.active = a, !.attempt = NoAttempt, !.leased = FALSE]
    BY <1>5, <2>1 DEF Release, Released
  <2>4. install' \in Install
    BY <2>1, <2>2, <2>3, InstallFields
  <2>5. /\ install'.active = a /\ install'.attempt = NoAttempt
        /\ install'.generation = install.generation
        /\ install'.revision = install.revision /\ install'.resources = install.resources
    BY <2>2, <2>3 DEF Install
  <2>6. FlowType'
    BY <1>1, <1>2, <2>4 DEF FlowInv, FlowType
  <2>7. Growth
    BY <1>1, <1>3, <2>5, TargetTyped DEF FlowInv, Growth
  <2>8. /\ NoPlan \notin Plans
        /\ ~plans[p].built => a = p
        /\ evidence[p].intent /\ evidence[p].activation = 0 => a = p
        /\ a \in {p, NoPlan}
    BY <2>1 DEF KeepsSelected, NoPlan, Plans
  <2>9. KeepsActive
    BY <1>1, <2>2, <2>5, <2>8 DEF KeepsActive
  <2>10. MadeBy("create")' = MadeBy("create") /\ MadeBy("remove")' = MadeBy("remove")
    BY <1>1 DEF MadeBy
  <2>11. InstallInv'
    BY <1>1, <2>5, <2>10 DEF FlowInv, InstallInv
  <2>12. ASSUME NEW q \in Plans
         PROVE  OpsInv(q)' /\ LedgerInv(q)' /\ ActivationInv(q)'
    <3>1. OpsInv(q)'
      BY <1>1, <2>10 DEF FlowInv, OpsInv
    <3>2. LedgerInv(q)'
      BY <1>1, <2>2, <2>5, <2>8 DEF FlowInv, LedgerInv
    <3>3. ActivationInv(q)'
      BY <1>1, <2>2, <2>5, <2>8 DEF FlowInv, ActivationInv
    <3>. QED
      BY <3>1, <3>2, <3>3
  <2>13. ASSUME NEW d \in Callers \ {c}
         PROVE  Aside(d)
    BY <1>2, <2>5, FlowAssumption DEF Aside, Holds
  <2>14. DiscardsAskOnce' => \A q \in Plans : EffectInv(q)'
    <3>1. SUFFICES ASSUME DiscardsAskOnce', NEW q \in Plans
                   PROVE  EffectInv(q)'
      OBVIOUS
    <3>2. DiscardsAskOnce
      BY <1>1, <3>1 DEF DiscardsAskOnce
    <3>3. EffectInv(q) /\ LedgerInv(q)
      BY <3>2 DEF FlowInv
    <3>4. ASSUME NEW i \in Positions, target.effects[q][i] # 0, receipts[q][i] = 0
          PROVE  a = q
      <4>1. install.active = q /\ q = p
        BY <2>2, <3>3, <3>4 DEF EffectInv
      <4>2. ~plans[q].built
        BY <3>3, <3>4 DEF LedgerInv
      <4>. QED
        BY <2>8, <4>1, <4>2
    <3>. QED
      BY <1>1, <2>5, <3>3, <3>4 DEF EffectInv
  <2>15. CallerInv(c)' /\ SendInv(c)'
    BY <1>2, <1>3, <2>5 DEF CallerInv, SendInv, Sending, Intending, NoCall
  <2>. QED
    BY <2>6, <2>7, <2>9, <2>11, <2>12, <2>13, <2>14, <2>15, Assembled
<1>. QED
  BY <1>4, <1>5

LEMMA LapseKept ==
    ASSUME FlowInv, Lapse
    PROVE  FlowInv' /\ Growth
<1>1. /\ install' = [install EXCEPT !.leased = FALSE] /\ install \in Install
      /\ UNCHANGED <<plans, intents, receipts, evidence, target, pc, call>>
  BY InstallTyped DEF Lapse, FlowInv
<1>2. install' \in Install
  BY <1>1, InstallFields
<1>3. /\ install'.active = install.active /\ install'.attempt = install.attempt
      /\ install'.generation = install.generation /\ ~install'.leased
      /\ install'.revision = install.revision /\ install'.resources = install.resources
  BY <1>1 DEF Install
<1>4. FlowType'
  BY <1>1, <1>2 DEF FlowInv, FlowType
<1>5. Growth /\ KeepsActive
  BY <1>1, <1>3, TargetTyped, InstallTyped DEF FlowInv, Growth, KeepsActive
<1>6. MadeBy("create")' = MadeBy("create") /\ MadeBy("remove")' = MadeBy("remove")
  BY <1>1 DEF MadeBy
<1>7. InstallInv'
  BY <1>1, <1>3, <1>6 DEF FlowInv, InstallInv
<1>8. ASSUME NEW q \in Plans
      PROVE  OpsInv(q)' /\ LedgerInv(q)' /\ ActivationInv(q)'
  <2>1. OpsInv(q)'
    BY <1>1, <1>6 DEF FlowInv, OpsInv
  <2>2. LedgerInv(q)' /\ ActivationInv(q)'
    BY <1>1, <1>3 DEF FlowInv, LedgerInv, ActivationInv
  <2>. QED
    BY <2>1, <2>2
<1>9. ASSUME NEW d \in Callers
      PROVE  Aside(d)
  <2>1. CallerInv(d)
    BY DEF FlowInv
  <2>. QED
    BY <1>1, <1>3, <2>1 DEF Aside, Holds, CallerInv
<1>10. DiscardsAskOnce' => \A q \in Plans : EffectInv(q)'
  BY <1>1, <1>3 DEF FlowInv, EffectInv, DiscardsAskOnce
<1>. QED
  BY <1>4, <1>5, <1>7, <1>8, <1>9, <1>10, BackgroundAssembled

-----------------------------------------------------------------------------
(* What the holder of the claim records: intents, receipts and evidence.   *)

(* The next operation, or the comparison after the last one.               *)
LEMMA Advanced ==
    ASSUME FlowInv, UNCHANGED <<install, plans>>, NEW c \in Callers, pc[c] # "idle",
           call[c].i \in DOMAIN plans[call[c].plan].ops, install.active = call[c].plan,
           NEW revision \in Nat, Go(c, After(c)), Advance(c, revision)
    PROVE  /\ pc' \in [Callers -> Places] /\ call' \in [Callers -> Call]
           /\ \A d \in Callers \ {c} : pc'[d] = pc[d] /\ call'[d] = call[d]
           /\ CallerInv(c)' /\ SendInv(c)'
<1>1. PICK p, i, k, place : /\ p = call[c].plan /\ i = call[c].i /\ place = After(c)
                            /\ k = [call[c] EXCEPT !.expected = revision, !.i = i + 1, !.receipt = 0]
  OBVIOUS
<1>2. /\ p \in Plans /\ plans[p].saved /\ i \in DOMAIN plans[p].ops
      /\ DOMAIN plans[p].ops = 1 .. Len(plans[p].ops) /\ Len(plans[p].ops) \in Nat
      /\ call[c].generation <= install.generation
      /\ install.attempt \notin {NoAttempt, c} => call[c].generation < install.generation
  BY <1>1, OwnCaller, PlansTyped DEF FlowInv
<1>3. call[c] \in Call /\ i \in Nat /\ i + 1 \in Nat
  BY <1>1, CallTyped DEF FlowInv
<1>4. k \in Call
  BY <1>1, <1>3, CallFields
<1>5. k.plan = p /\ k.i = i + 1 /\ k.generation = call[c].generation
  BY <1>1, <1>3 DEF Call
<1>6. call' = [call EXCEPT ![c] = k]
  BY <1>1 DEF Advance
<1>7. /\ place \in {"operation", "compare"} /\ place \in Places
      /\ place = "operation" => i + 1 \in DOMAIN plans[p].ops
  BY <1>1, <1>2, <1>3 DEF After, Ops, Plan, Places
<1>8. /\ pc' \in [Callers -> Places] /\ call' \in [Callers -> Call]
      /\ \A d \in Callers \ {c} : pc'[d] = pc[d] /\ call'[d] = call[d]
      /\ pc'[c] = place /\ call'[c] = k
  <2>1. FlowType /\ Go(c, place)
    BY <1>1 DEF FlowInv
  <2>2. pc' \in [Callers -> Places] /\ pc'[c] = place /\ \A d \in Callers \ {c} : pc'[d] = pc[d]
    BY <1>7, <2>1, GoTyped
  <2>3. call' \in [Callers -> Call] /\ call'[c] = k /\ \A d \in Callers \ {c} : call'[d] = call[d]
    BY <1>4, <1>6, <2>1, CallsTyped
  <2>. QED
    BY <2>2, <2>3
<1>9. CallerInv(c)' /\ SendInv(c)'
  BY <1>2, <1>5, <1>7, <1>8 DEF CallerInv, SendInv, Sending, Intending
<1>. QED
  BY <1>8, <1>9

LEMMA IntentParts ==
    ASSUME FlowInv, UNCHANGED <<install, plans, receipts, evidence, target>>, intents \subseteq intents'
    PROVE  /\ Growth /\ KeepsActive /\ InstallInv'
           /\ \A q \in Plans : OpsInv(q)' /\ LedgerInv(q)' /\ ActivationInv(q)'
           /\ \A d \in Callers : pc'[d] = pc[d] /\ call'[d] = call[d] => Aside(d)
           /\ DiscardsAskOnce' => \A q \in Plans : EffectInv(q)'
<1>1. Growth /\ KeepsActive
  BY TargetTyped, InstallTyped DEF FlowInv, Growth, KeepsActive
<1>2. MadeBy("create")' = MadeBy("create") /\ MadeBy("remove")' = MadeBy("remove")
  BY DEF MadeBy
<1>3. InstallInv'
  BY <1>2 DEF FlowInv, InstallInv
<1>4. ASSUME NEW q \in Plans
      PROVE  OpsInv(q)' /\ LedgerInv(q)' /\ ActivationInv(q)'
  <2>1. OpsInv(q)'
    BY <1>2 DEF FlowInv, OpsInv
  <2>2. LedgerInv(q)' /\ ActivationInv(q)'
    BY DEF FlowInv, LedgerInv, ActivationInv
  <2>. QED
    BY <2>1, <2>2
<1>5. ASSUME NEW d \in Callers, pc'[d] = pc[d], call'[d] = call[d]
      PROVE  Aside(d)
  BY <1>5 DEF Aside, Holds, FlowInv, CallerInv
<1>6. DiscardsAskOnce' => \A q \in Plans : EffectInv(q)'
  BY DEF FlowInv, EffectInv, DiscardsAskOnce
<1>. QED
  BY <1>1, <1>3, <1>4, <1>5, <1>6

LEMMA BeginOperationKept ==
    ASSUME FlowInv, NEW c \in Callers, BeginOperation(c)
    PROVE  FlowInv' /\ Growth
<1>1. pc[c] = "intent" /\ UNCHANGED <<install, plans, receipts, evidence, target>>
  BY DEF BeginOperation
<1>2. CASE Go(c, "release") /\ UNCHANGED <<intents, call>>
  BY <1>1, <1>2, QuietMoves DEF Follows, Plain, ledger
<1>3. CASE /\ Holds(c) /\ intents' = intents \cup {<<call[c].plan, call[c].i>>}
           /\ IF receipts[call[c].plan][call[c].i] # 0
              THEN Go(c, After(c)) /\ Advance(c, receipts[call[c].plan][call[c].i])
              ELSE Go(c, "recover") /\ UNCHANGED call
  <2>1. PICK p, i : p = call[c].plan /\ i = call[c].i
    OBVIOUS
  <2>2. p \in Plans /\ i \in DOMAIN plans[p].ops /\ i \in Positions /\ plans[p].saved
    BY <1>1, <2>1, OwnCaller DEF FlowInv, CallerInv
  <2>3. intents' \subseteq Plans \X Positions /\ intents \subseteq intents' /\ <<p, i>> \in intents'
    BY <1>3, <2>1, <2>2 DEF FlowInv, FlowType
  <2>4. install.active = p
    BY <1>3, <2>1 DEF Holds
  <2>5. CASE receipts[p][i] # 0
    <3>1. receipts[p][i] \in Nat
      BY <2>2, TargetTyped DEF FlowInv
    <3>2. Go(c, After(c)) /\ Advance(c, receipts[p][i])
      BY <1>3, <2>1, <2>5
    <3>3. /\ pc' \in [Callers -> Places] /\ call' \in [Callers -> Call]
          /\ \A d \in Callers \ {c} : pc'[d] = pc[d] /\ call'[d] = call[d]
          /\ CallerInv(c)' /\ SendInv(c)'
      BY <1>1, <2>1, <2>2, <2>4, <3>1, <3>2, Advanced
    <3>4. FlowType'
      BY <1>1, <2>3, <3>3 DEF FlowInv, FlowType
    <3>. QED
      BY <1>1, <2>3, <3>3, <3>4, IntentParts, Assembled
  <2>6. CASE receipts[p][i] = 0
    <3>1. Go(c, "recover") /\ call' = call /\ "recover" \in Places
      BY <1>3, <2>1, <2>6 DEF Places
    <3>2. /\ pc' \in [Callers -> Places] /\ pc'[c] = "recover"
          /\ \A d \in Callers \ {c} : pc'[d] = pc[d] /\ call'[d] = call[d]
      BY <3>1, GoTyped DEF FlowInv
    <3>3. FlowType'
      BY <1>1, <2>3, <3>1, <3>2 DEF FlowInv, FlowType
    <3>4. /\ call[c].generation <= install.generation
          /\ install.attempt \notin {NoAttempt, c} => call[c].generation < install.generation
      BY DEF FlowInv, CallerInv
    <3>5. CallerInv(c)' /\ SendInv(c)'
      BY <1>1, <2>1, <2>2, <2>3, <2>4, <3>1, <3>2, <3>4 DEF CallerInv, SendInv, Sending, Intending
    <3>. QED
      BY <1>1, <2>3, <3>2, <3>3, <3>5, IntentParts, Assembled
  <2>. QED
    BY <2>5, <2>6
<1>. QED
  BY <1>2, <1>3 DEF BeginOperation

LEMMA ReceiptParts ==
    ASSUME FlowInv, UNCHANGED <<install, plans, intents, evidence, target>>,
           NEW p \in Plans, NEW i \in Positions, NEW n \in Nat \ {0}, n = target.effects[p][i],
           receipts[p][i] \in {0, n}, install.active = p, receipts' = [receipts EXCEPT ![p][i] = n]
    PROVE  /\ receipts' \in [Plans -> [Positions -> Nat]]
           /\ Growth /\ KeepsActive /\ InstallInv'
           /\ \A q \in Plans : OpsInv(q)' /\ LedgerInv(q)' /\ ActivationInv(q)'
           /\ \A d \in Callers : pc'[d] = pc[d] /\ call'[d] = call[d] => Aside(d)
           /\ DiscardsAskOnce' => \A q \in Plans : EffectInv(q)'
<1>1. /\ receipts' \in [Plans -> [Positions -> Nat]]
      /\ \A q \in Plans : \A j \in Positions :
           receipts'[q][j] = IF q = p /\ j = i THEN n ELSE receipts[q][j]
  BY DEF FlowInv, FlowType
<1>2. Growth /\ KeepsActive
  BY <1>1, TargetTyped, InstallTyped DEF FlowInv, Growth, KeepsActive
<1>3. MadeBy("create")' = MadeBy("create") /\ MadeBy("remove")' = MadeBy("remove")
  BY DEF MadeBy
<1>4. InstallInv'
  BY <1>3 DEF FlowInv, InstallInv
<1>5. ASSUME NEW q \in Plans
      PROVE  OpsInv(q)' /\ LedgerInv(q)' /\ ActivationInv(q)'
  <2>1. OpsInv(q)'
    BY <1>3 DEF FlowInv, OpsInv
  <2>2. ActivationInv(q)'
    BY DEF FlowInv, ActivationInv
  <2>3. LedgerInv(q)'
    <3>1. LedgerInv(q) /\ (plans[q].built => plans[q].saved)
      BY DEF FlowInv, OpsInv, NoDoc
    <3>2. plans[q].built => DOMAIN plans[q].ops \subseteq Positions
      <4>1. plans[q].built => /\ Len(plans[q].ops) \in Positions
                              /\ DOMAIN plans[q].ops = 1 .. Len(plans[q].ops)
        BY <3>1, PlansTyped DEF FlowInv, OpsInv
      <4>. QED
        BY <4>1, PositionsFinite DEF Positions
    <3>. QED
      BY <1>1, <3>1, <3>2 DEF LedgerInv
  <2>. QED
    BY <2>1, <2>2, <2>3
<1>6. ASSUME NEW d \in Callers, pc'[d] = pc[d], call'[d] = call[d]
      PROVE  Aside(d)
  BY <1>6 DEF Aside, Holds, FlowInv, CallerInv
<1>7. DiscardsAskOnce' => \A q \in Plans : EffectInv(q)'
  BY <1>1 DEF FlowInv, EffectInv, DiscardsAskOnce
<1>. QED
  BY <1>1, <1>2, <1>4, <1>5, <1>6, <1>7

LEMMA CompleteOperationKept ==
    ASSUME FlowInv, NEW c \in Callers, CompleteOperation(c)
    PROVE  FlowInv' /\ Growth
<1>1. pc[c] = "complete" /\ UNCHANGED <<install, plans, intents, evidence, target>>
  BY DEF CompleteOperation
<1>2. CASE Go(c, "release") /\ UNCHANGED <<receipts, call>>
  BY <1>1, <1>2, QuietMoves DEF Follows, Plain, ledger
<1>3. CASE /\ Holds(c) /\ receipts[call[c].plan][call[c].i] \in {0, call[c].receipt}
           /\ receipts' = [receipts EXCEPT ![call[c].plan][call[c].i] = call[c].receipt]
           /\ Go(c, After(c)) /\ Advance(c, call[c].receipt)
  <2>1. PICK p, i, n : p = call[c].plan /\ i = call[c].i /\ n = call[c].receipt
    OBVIOUS
  <2>2. /\ p \in Plans /\ i \in DOMAIN plans[p].ops /\ i \in Positions
        /\ n \in Nat \ {0} /\ n = target.effects[p][i]
    BY <1>1, <2>1, OwnCaller, CallTyped DEF FlowInv, CallerInv
  <2>3. /\ install.active = p /\ receipts[p][i] \in {0, n}
        /\ receipts' = [receipts EXCEPT ![p][i] = n]
    BY <1>3, <2>1 DEF Holds
  <2>4. /\ pc' \in [Callers -> Places] /\ call' \in [Callers -> Call]
        /\ \A d \in Callers \ {c} : pc'[d] = pc[d] /\ call'[d] = call[d]
        /\ CallerInv(c)' /\ SendInv(c)'
    BY <1>1, <1>3, <2>1, <2>2, <2>3, Advanced
  <2>5. FlowType'
    BY <1>1, <2>2, <2>3, <2>4, ReceiptParts DEF FlowInv, FlowType
  <2>. QED
    BY <1>1, <2>2, <2>3, <2>4, <2>5, ReceiptParts, Assembled
<1>. QED
  BY <1>2, <1>3 DEF CompleteOperation

(* Evidence is only added, by the holder of the claim.                     *)
Adds(old, new) ==
    /\ old.verification # "none" => new.verification = old.verification
    /\ old.intent => new.intent
    /\ old.activation # 0 => new.activation = old.activation

LEMMA EvidenceParts ==
    ASSUME FlowInv, UNCHANGED <<install, plans, intents, receipts, target>>,
           NEW p \in Plans, install.active = p, NEW e \in Evidence, evidence' = [evidence EXCEPT ![p] = e],
           Adds(evidence[p], e), e.activation # 0 => target.activated[p] # 0
    PROVE  /\ evidence' \in [Plans -> Evidence] /\ evidence'[p] = e
           /\ Growth /\ KeepsActive /\ InstallInv'
           /\ \A q \in Plans : OpsInv(q)' /\ LedgerInv(q)' /\ ActivationInv(q)'
           /\ \A d \in Callers : pc'[d] = pc[d] /\ call'[d] = call[d] => Aside(d)
           /\ DiscardsAskOnce' => \A q \in Plans : EffectInv(q)'
<1>1. /\ evidence' \in [Plans -> Evidence]
      /\ \A q \in Plans : evidence'[q] = IF q = p THEN e ELSE evidence[q]
  BY DEF FlowInv, FlowType
<1>2. Growth /\ KeepsActive
  BY <1>1, TargetTyped, InstallTyped DEF FlowInv, Growth, KeepsActive, Adds
<1>3. MadeBy("create")' = MadeBy("create") /\ MadeBy("remove")' = MadeBy("remove")
  BY DEF MadeBy
<1>4. InstallInv'
  BY <1>3 DEF FlowInv, InstallInv
<1>5. ASSUME NEW q \in Plans
      PROVE  OpsInv(q)' /\ LedgerInv(q)' /\ ActivationInv(q)'
  <2>1. OpsInv(q)'
    BY <1>3 DEF FlowInv, OpsInv
  <2>2. ActivationInv(q)'
    BY <1>1 DEF FlowInv, ActivationInv, Adds
  <2>3. LedgerInv(q)'
    BY DEF FlowInv, LedgerInv
  <2>. QED
    BY <2>1, <2>2, <2>3
<1>6. ASSUME NEW d \in Callers, pc'[d] = pc[d], call'[d] = call[d]
      PROVE  Aside(d)
  BY <1>6 DEF Aside, Holds, FlowInv, CallerInv
<1>7. DiscardsAskOnce' => \A q \in Plans : EffectInv(q)'
  BY DEF FlowInv, EffectInv, DiscardsAskOnce
<1>. QED
  BY <1>1, <1>2, <1>4, <1>5, <1>6, <1>7

\* The holder saves its evidence and goes on to a plain place, or to its intent's.
Leaves(at, place, e) == place \in Plain \/ (place = "readback" /\ at = "intend" /\ e.intent)

LEMMA EvidenceKept ==
    ASSUME FlowInv, NEW c \in Callers, Holds(c), pc[c] # "idle", NEW p \in Plans, p = call[c].plan,
           UNCHANGED <<install, plans, intents, receipts, target, call>>,
           NEW e \in Evidence, evidence' = [evidence EXCEPT ![p] = e],
           Adds(evidence[p], e), e.activation # 0 => target.activated[p] # 0,
           NEW place \in Places, Go(c, place),
           Leaves(pc[c], place, e)
    PROVE  FlowInv' /\ Growth
<1>2. /\ p \in Plans /\ plans[p].saved /\ install.active = p
      /\ call[c].generation <= install.generation
      /\ install.attempt \notin {NoAttempt, c} => call[c].generation < install.generation
  BY OwnCaller DEF Holds
<1>3. /\ pc' \in [Callers -> Places] /\ pc'[c] = place
      /\ \A d \in Callers \ {c} : pc'[d] = pc[d] /\ call'[d] = call[d]
  BY GoTyped DEF FlowInv
<1>4. evidence' \in [Plans -> Evidence] /\ evidence'[p] = e /\ Growth
  BY <1>2, EvidenceParts
<1>5. FlowType'
  BY <1>3, <1>4 DEF FlowInv, FlowType
<1>6. CASE place \in Plain
  <2>1. CallerInv(c)' /\ SendInv(c)'
    BY <1>2, <1>3, <1>4, <1>5, <1>6, PlainKept
  <2>. QED
    BY <1>2, <1>3, <1>5, <2>1, EvidenceParts, Assembled
<1>7. CASE place = "readback" /\ pc[c] = "intend" /\ e.intent
  <2>1. plans[p].built /\ evidence[p].verification = "passed" /\ call[c].expected = plans[p].observation
    BY <1>7 DEF FlowInv, CallerInv
  <2>2. e.verification = "passed"
    BY <2>1 DEF Adds
  <2>3. CallerInv(c)' /\ SendInv(c)'
    BY <1>2, <1>3, <1>4, <1>7, <2>1, <2>2 DEF CallerInv, SendInv, Sending, Intending
  <2>. QED
    BY <1>2, <1>3, <1>5, <2>3, EvidenceParts, Assembled
<1>. QED
  BY <1>6, <1>7 DEF Leaves

LEMMA EvidenceFields ==
    ASSUME NEW e \in Evidence
    PROVE  /\ \A v \in {"none", "passed", "failed"} :
                /\ [e EXCEPT !.verification = v] \in Evidence
                /\ e.verification \in {"none", v} => Adds(e, [e EXCEPT !.verification = v])
                /\ [e EXCEPT !.verification = v].activation = e.activation
           /\ [e EXCEPT !.intent = TRUE] \in Evidence /\ Adds(e, [e EXCEPT !.intent = TRUE])
           /\ [e EXCEPT !.intent = TRUE].intent /\ [e EXCEPT !.intent = TRUE].activation = e.activation
           /\ \A n \in Nat :
                /\ [e EXCEPT !.activation = n] \in Evidence
                /\ e.activation \in {0, n} => Adds(e, [e EXCEPT !.activation = n])
                /\ [e EXCEPT !.activation = n].activation = n
BY DEF Evidence, Adds

LEMMA SaveVerificationKept ==
    ASSUME FlowInv, NEW c \in Callers, SaveVerification(c)
    PROVE  FlowInv' /\ Growth
<1>1. /\ pc[c] = "scenario" /\ UNCHANGED <<install, plans, intents, receipts, target, call>> /\ Go(c, "release")
      /\ "release" \in Plain /\ "release" \in Places
  BY DEF SaveVerification, Plain, Places
<1>2. CASE ~Holds(c)
  BY <1>1, <1>2, QuietMoves DEF SaveVerification, Follows, Plain, ledger
<1>3. CASE Holds(c)
  <2>1. PICK p, v : /\ p = call[c].plan
                    /\ v = SaveEvidence(evidence[p].verification, call[c].outcome, "none")
    OBVIOUS
  <2>2. p \in Plans /\ evidence[p] \in Evidence /\ v \in {"none", "passed", "failed"}
        /\ evidence[p].verification \in {"none", v}
    BY <1>1, <2>1, OwnCaller, EvidenceTyped, CallTyped DEF FlowInv, SaveEvidence
  <2>3. PICK e : e = [evidence[p] EXCEPT !.verification = v]
    OBVIOUS
  <2>4. evidence' = [evidence EXCEPT ![p] = e]
    BY <1>3, <2>1, <2>3 DEF SaveVerification
  <2>5. e \in Evidence /\ Adds(evidence[p], e) /\ e.activation = evidence[p].activation
    BY <2>2, <2>3, EvidenceFields
  <2>6. e.activation # 0 => target.activated[p] # 0
    BY <2>2, <2>5 DEF FlowInv, ActivationInv
  <2>7. pc[c] # "idle" /\ Leaves(pc[c], "release", e)
    BY <1>1 DEF Leaves
  <2>. QED
    BY <1>1, <1>3, <2>1, <2>2, <2>4, <2>5, <2>6, <2>7, EvidenceKept
<1>. QED
  BY <1>2, <1>3

LEMMA SaveIntentKept ==
    ASSUME FlowInv, NEW c \in Callers, SaveIntent(c)
    PROVE  FlowInv' /\ Growth
<1>1. pc[c] = "intend" /\ UNCHANGED <<install, plans, intents, receipts, target, call>> /\ "readback" \in Places
  BY DEF SaveIntent, Places
<1>2. CASE ~Holds(c)
  BY <1>1, <1>2, QuietMoves DEF SaveIntent, Follows, Plain, ledger
<1>3. CASE Holds(c)
  <2>1. PICK p : p = call[c].plan
    OBVIOUS
  <2>2. p \in Plans /\ evidence[p] \in Evidence
    BY <1>1, <2>1, OwnCaller, EvidenceTyped DEF FlowInv
  <2>3. PICK e : e = [evidence[p] EXCEPT !.intent = TRUE]
    OBVIOUS
  <2>4. evidence' = [evidence EXCEPT ![p] = e] /\ Go(c, "readback")
    BY <1>3, <2>1, <2>3 DEF SaveIntent
  <2>5. e \in Evidence /\ Adds(evidence[p], e) /\ e.intent /\ e.activation = evidence[p].activation
    BY <2>2, <2>3, EvidenceFields
  <2>6. e.activation # 0 => target.activated[p] # 0
    BY <2>2, <2>5 DEF FlowInv, ActivationInv
  <2>7. pc[c] # "idle" /\ Leaves(pc[c], "readback", e)
    BY <1>1, <2>5 DEF Leaves
  <2>. QED
    BY <1>1, <1>3, <2>1, <2>2, <2>4, <2>5, <2>6, <2>7, EvidenceKept
<1>. QED
  BY <1>2, <1>3

LEMMA SaveActivationKept ==
    ASSUME FlowInv, NEW c \in Callers, SaveActivation(c)
    PROVE  FlowInv' /\ Growth
<1>1. /\ pc[c] = "record" /\ UNCHANGED <<install, plans, intents, receipts, target, call>> /\ Go(c, "release")
      /\ "release" \in Plain /\ "release" \in Places
  BY DEF SaveActivation, Plain, Places
<1>2. CASE ~Holds(c)
  BY <1>1, <1>2, QuietMoves DEF SaveActivation, Follows, Plain, ledger
<1>3. CASE Holds(c)
  <2>1. PICK p, n : /\ p = call[c].plan
                    /\ n = SaveEvidence(evidence[p].activation, call[c].receipt, 0)
    OBVIOUS
  <2>2. p \in Plans /\ evidence[p] \in Evidence /\ n \in Nat /\ evidence[p].activation \in {0, n}
    BY <1>1, <2>1, OwnCaller, EvidenceTyped, CallTyped DEF FlowInv, SaveEvidence
  <2>3. PICK e : e = [evidence[p] EXCEPT !.activation = n]
    OBVIOUS
  <2>4. evidence' = [evidence EXCEPT ![p] = e]
    BY <1>3, <2>1, <2>3 DEF SaveActivation
  <2>5. e \in Evidence /\ Adds(evidence[p], e)
    BY <2>2, <2>3, EvidenceFields
  <2>6. e.activation # 0 => target.activated[p] # 0
    BY <1>1, <2>1 DEF FlowInv, CallerInv
  <2>7. pc[c] # "idle" /\ Leaves(pc[c], "release", e)
    BY <1>1 DEF Leaves
  <2>. QED
    BY <1>1, <1>3, <2>1, <2>2, <2>4, <2>5, <2>6, <2>7, EvidenceKept
<1>. QED
  BY <1>2, <1>3

-----------------------------------------------------------------------------
(* What a call does to the target.                                         *)

\* The target says that the call has been done before.
LEMMA AnsweredKept ==
    ASSUME FlowInv, NEW c \in Callers, UNCHANGED <<ledger, target>>, NEW n \in Nat \ {0},
           call' = [call EXCEPT ![c].receipt = n],
           \/ pc[c] = "mutate" /\ Go(c, "complete") /\ n = Effect(c)
           \/ pc[c] = "activating" /\ Go(c, "confirm") /\ n = Activation(c)
    PROVE  FlowInv' /\ Growth
<1>1. PICK k, p, i, place : /\ k = [call[c] EXCEPT !.receipt = n] /\ p = call[c].plan /\ i = call[c].i
                            /\ place = IF pc[c] = "mutate" THEN "complete" ELSE "confirm"
  OBVIOUS
<1>2. call[c] \in Call /\ pc[c] # "idle" /\ Go(c, place) /\ place \in Places
  BY <1>1, CallTyped DEF FlowInv, Places
<1>3. k \in Call
  BY <1>1, <1>2, CallFields
<1>4. /\ k.plan = p /\ k.i = i /\ k.generation = call[c].generation /\ k.receipt = n
      /\ k.expected = call[c].expected
  BY <1>1, <1>2 DEF Call
<1>5. call' = [call EXCEPT ![c] = k]
  BY <1>1
<1>6. pc'[c] = place /\ call'[c] = k /\ UNCHANGED <<install, plans, intents, receipts, evidence>>
  BY <1>2, <1>3, <1>5, GoTyped, CallsTyped DEF FlowInv, ledger
<1>7. /\ p \in Plans /\ plans[p].saved /\ call[c].generation <= install.generation
      /\ install.attempt \notin {NoAttempt, c} => call[c].generation < install.generation
  BY <1>1, <1>2, OwnCaller
<1>8. CASE pc[c] = "mutate"
  <2>1. <<p, i>> \in intents /\ i \in DOMAIN plans[p].ops /\ n = target.effects[p][i] /\ place = "complete"
    BY <1>1, <1>8 DEF FlowInv, CallerInv, Sending, Effect
  <2>2. k.receipt # 0 /\ k.receipt = target'.effects[p][i] /\ pc'[c] = "complete"
    BY <1>4, <1>6, <2>1
  <2>3. CallerInv(c)' /\ SendInv(c)'
    BY <1>4, <1>6, <1>7, <2>1, <2>2, CompleteCaller
  <2>. QED
    BY <1>2, <1>3, <1>5, <2>3, SameTarget, QuietSets
<1>9. CASE pc[c] = "activating"
  <2>1. /\ plans[p].built /\ evidence[p].verification = "passed" /\ evidence[p].intent
        /\ call[c].expected = plans[p].observation /\ n = target.activated[p] /\ place = "confirm"
    BY <1>1, <1>9 DEF FlowInv, CallerInv, Intending, Activation
  <2>2. CallerInv(c)' /\ SendInv(c)'
    BY <1>4, <1>6, <1>7, <2>1 DEF CallerInv, SendInv, Sending, Intending
  <2>. QED
    BY <1>2, <1>3, <1>5, <2>2, SameTarget, QuietSets
<1>. QED
  BY <1>8, <1>9

\* An admitted construction: nobody who holds the claim is older.
LEMMA ConstructsKept ==
    ASSUME FlowInv, NEW c \in Callers, pc[c] = "mutate", UNCHANGED ledger, Effect(c) = 0, Admits(c),
           target' = [[target EXCEPT !.effects[call[c].plan][call[c].i] = target.revision + 1]
                         EXCEPT !.revision = @ + 1, !.fence = call[c].generation],
           call' = [call EXCEPT ![c].receipt = target.revision + 1], Go(c, "complete")
    PROVE  FlowInv' /\ Growth
<1>1. PICK p, i, n, k, g : /\ p = call[c].plan /\ i = call[c].i /\ n = target.revision + 1
                           /\ k = [call[c] EXCEPT !.receipt = n] /\ g = call[c].generation
  OBVIOUS
<1>2. /\ p \in Plans /\ i \in DOMAIN plans[p].ops /\ i \in Positions /\ <<p, i>> \in intents /\ plans[p].saved
      /\ g <= install.generation /\ (install.attempt \notin {NoAttempt, c} => g < install.generation)
  BY <1>1, OwnCaller DEF FlowInv, CallerInv, Sending
<1>3. /\ target \in Target /\ target.revision \in Nat /\ target.fence \in Nat /\ n \in Nat \ {0}
      /\ call[c] \in Call /\ g \in Nat /\ target.fence <= g /\ install.generation \in Nat
      /\ target.effects[p][i] = 0
  BY <1>1, TargetTyped, CallTyped, InstallTyped DEF FlowInv, Admits, Effect
<1>4. PICK t : t = [target EXCEPT !.effects[p][i] = n]
  OBVIOUS
<1>5. t \in Target
  BY <1>2, <1>3, <1>4, TargetFields
<1>6. /\ \A q \in Plans : \A j \in Positions : t.effects[q][j] = IF q = p /\ j = i THEN n ELSE target.effects[q][j]
      /\ t.activated = target.activated /\ t.revision = target.revision
  BY <1>2, <1>3, <1>4 DEF Target
<1>7. target' = [t EXCEPT !.revision = n, !.fence = g]
  <2>1. target' = [t EXCEPT !.revision = @ + 1, !.fence = g]
    BY <1>1, <1>4
  <2>. QED
    BY <1>1, <1>6, <2>1
<1>8. target' \in Target
  BY <1>3, <1>5, <1>7 DEF Target
<1>9. /\ \A q \in Plans : \A j \in Positions :
           target'.effects[q][j] = IF q = p /\ j = i THEN n ELSE target.effects[q][j]
      /\ target'.activated = target.activated /\ target'.fence = g
  <2>1. target'.effects = t.effects /\ target'.activated = t.activated /\ target'.fence = g
    BY <1>5, <1>7 DEF Target
  <2>. QED
    BY <1>6, <2>1
<1>10. k \in Call /\ "complete" \in Places
  BY <1>1, <1>3, CallFields DEF Places
<1>11. k.plan = p /\ k.i = i /\ k.generation = g /\ k.receipt = n
  BY <1>1, <1>3 DEF Call
<1>12. call' = [call EXCEPT ![c] = k]
  BY <1>1
<1>13. /\ pc' \in [Callers -> Places] /\ call' \in [Callers -> Call]
       /\ pc'[c] = "complete" /\ call'[c] = k
       /\ \A d \in Callers \ {c} : pc'[d] = pc[d] /\ call'[d] = call[d]
  BY <1>10, <1>12, GoTyped, CallsTyped DEF FlowInv
<1>14. UNCHANGED <<install, plans, intents, receipts, evidence>>
  BY DEF ledger
<1>15. FlowType'
  BY <1>8, <1>13, <1>14 DEF FlowInv, FlowType
<1>16. Growth /\ KeepsActive
  BY <1>3, <1>9, <1>14 DEF Growth, KeepsActive
<1>17. MadeBy("create")' = MadeBy("create") /\ MadeBy("remove")' = MadeBy("remove")
  BY <1>14 DEF MadeBy
<1>18. InstallInv'
  BY <1>2, <1>9, <1>14, <1>17 DEF FlowInv, InstallInv
<1>19. ASSUME NEW q \in Plans
       PROVE  OpsInv(q)' /\ LedgerInv(q)' /\ ActivationInv(q)'
  <2>1. OpsInv(q)'
    BY <1>14, <1>17 DEF FlowInv, OpsInv
  <2>2. LedgerInv(q)'
    <3>1. LedgerInv(q) /\ LedgerInv(p)
      BY <1>2 DEF FlowInv
    <3>2. receipts[p][i] = 0
      BY <1>2, <1>3, <3>1, TargetTyped DEF LedgerInv, FlowInv
    <3>. QED
      BY <1>2, <1>9, <1>14, <3>1, <3>2 DEF LedgerInv
  <2>3. ActivationInv(q)'
    BY <1>9, <1>14 DEF FlowInv, ActivationInv
  <2>. QED
    BY <2>1, <2>2, <2>3
<1>20. ASSUME NEW d \in Callers \ {c}
       PROVE  Aside(d)
  <2>1. CallerInv(d) /\ call[d].generation \in Nat
    BY CallTyped DEF FlowInv
  <2>2. Holds(d) => g < call[d].generation
    BY <1>2, FlowAssumption DEF Holds
  <2>3. Holds(d)' => Holds(d)
    BY <1>13, <1>14 DEF Holds
  <2>. QED
    BY <1>3, <1>13, <1>14, <2>1, <2>2, <2>3 DEF Aside, CallerInv
<1>21. DiscardsAskOnce' => \A q \in Plans : EffectInv(q)'
  <2>1. SUFFICES ASSUME DiscardsAskOnce', NEW q \in Plans
                 PROVE  EffectInv(q)'
    OBVIOUS
  <2>2. DiscardsAskOnce
    BY <1>14, <2>1 DEF DiscardsAskOnce
  <2>3. EffectInv(q) /\ SendInv(c) /\ LedgerInv(p)
    BY <1>2, <2>2 DEF FlowInv
  <2>4. install.active = p
    <3>1. ~plans[p].built
      <4>1. receipts[p][i] # 0 => receipts[p][i] = target.effects[p][i]
        BY <1>2, <2>3 DEF LedgerInv
      <4>. QED
        BY <1>2, <1>3, <2>3, <4>1 DEF LedgerInv
    <3>. QED
      BY <1>1, <1>3, <2>3, <3>1 DEF SendInv, Sending
  <2>5. ~plans[p].abandoned
    BY <2>3, <2>4 DEF LedgerInv
  <2>. QED
    BY <1>2, <1>9, <1>14, <2>3, <2>4, <2>5 DEF EffectInv
<1>22. CallerInv(c)' /\ SendInv(c)'
  <2>1. k.receipt # 0 /\ k.receipt = target'.effects[p][i]
    BY <1>2, <1>3, <1>9, <1>11
  <2>2. pc'[c] = "complete" /\ call'[c] = k
    BY <1>13
  <2>3. /\ call'[c].plan = p /\ call'[c].i = i /\ call'[c].generation = g
        /\ call'[c].receipt # 0 /\ call'[c].receipt = target'.effects[p][i]
    BY <1>11, <2>1, <2>2
  <2>4. /\ plans'[p].saved /\ i \in DOMAIN plans'[p].ops /\ <<p, i>> \in intents'
        /\ call'[c].generation <= install'.generation
        /\ install'.attempt \notin {NoAttempt, c} => call'[c].generation < install'.generation
    BY <1>2, <1>14, <2>3
  <2>. QED
    BY <1>2, <2>2, <2>3, <2>4, CompleteCaller
<1>. QED
  BY <1>13, <1>15, <1>16, <1>18, <1>19, <1>20, <1>21, <1>22, Assembled

LEMMA TargetConstructKept ==
    ASSUME FlowInv, NEW c \in Callers, TargetConstruct(c)
    PROVE  FlowInv' /\ Growth
<1>1. pc[c] = "mutate" /\ UNCHANGED ledger
  BY DEF TargetConstruct, Mutate
<1>2. CASE Effect(c) # 0 /\ call' = [call EXCEPT ![c].receipt = Effect(c)] /\ Go(c, "complete") /\ UNCHANGED target
  <2>1. Effect(c) \in Nat \ {0}
    BY <1>1, <1>2, OwnCaller, TargetTyped DEF FlowInv, CallerInv, Sending, Effect
  <2>. QED
    BY <1>1, <1>2, <2>1, AnsweredKept
<1>3. CASE /\ Effect(c) = 0 /\ Admits(c)
           /\ target' = [[target EXCEPT !.effects[call[c].plan][call[c].i] = target.revision + 1]
                            EXCEPT !.revision = @ + 1, !.fence = call[c].generation]
           /\ call' = [call EXCEPT ![c].receipt = target.revision + 1] /\ Go(c, "complete")
  BY <1>1, <1>3, ConstructsKept
<1>4. CASE Go(c, "release") /\ UNCHANGED <<target, call>>
  BY <1>1, <1>4, QuietMoves DEF Follows, Plain
<1>. QED
  BY <1>2, <1>3, <1>4, Zenon DEF TargetConstruct, Mutate

\* An admitted activation: the plan is built, verified and intended.
LEMMA ActivatesKept ==
    ASSUME FlowInv, NEW c \in Callers, pc[c] = "activating", UNCHANGED ledger, Activation(c) = 0, Admits(c),
           target' = [[target EXCEPT !.activated[call[c].plan] = target.revision + 1]
                         EXCEPT !.revision = @ + 1, !.fence = call[c].generation],
           call' = [call EXCEPT ![c].receipt = target.revision + 1], Go(c, "confirm")
    PROVE  FlowInv' /\ Growth
<1>1. PICK p, n, k, g : /\ p = call[c].plan /\ n = target.revision + 1
                        /\ k = [call[c] EXCEPT !.receipt = n] /\ g = call[c].generation
  OBVIOUS
<1>2. /\ p \in Plans /\ plans[p].saved /\ g <= install.generation
      /\ install.attempt \notin {NoAttempt, c} => g < install.generation
      /\ plans[p].built /\ evidence[p].verification = "passed" /\ evidence[p].intent
      /\ call[c].expected = plans[p].observation
  BY <1>1, OwnCaller DEF FlowInv, CallerInv, Intending
<1>3. /\ target \in Target /\ target.revision \in Nat /\ target.fence \in Nat /\ n \in Nat \ {0}
      /\ call[c] \in Call /\ g \in Nat /\ target.fence <= g /\ install.generation \in Nat
      /\ target.activated[p] = 0
  BY <1>1, TargetTyped, CallTyped, InstallTyped DEF FlowInv, Admits, Activation
<1>4. PICK t : t = [target EXCEPT !.activated[p] = n]
  OBVIOUS
<1>5. t \in Target
  BY <1>2, <1>3, <1>4, TargetFields
<1>6. /\ \A q \in Plans : t.activated[q] = IF q = p THEN n ELSE target.activated[q]
      /\ t.effects = target.effects /\ t.revision = target.revision
  BY <1>2, <1>3, <1>4 DEF Target
<1>7. target' = [t EXCEPT !.revision = n, !.fence = g]
  <2>1. target' = [t EXCEPT !.revision = @ + 1, !.fence = g]
    BY <1>1, <1>4
  <2>. QED
    BY <1>1, <1>6, <2>1
<1>8. target' \in Target
  BY <1>3, <1>5, <1>7 DEF Target
<1>9. /\ \A q \in Plans : target'.activated[q] = IF q = p THEN n ELSE target.activated[q]
      /\ target'.effects = target.effects /\ target'.fence = g
  <2>1. target'.effects = t.effects /\ target'.activated = t.activated /\ target'.fence = g
    BY <1>5, <1>7 DEF Target
  <2>. QED
    BY <1>6, <2>1
<1>10. k \in Call /\ "confirm" \in Places
  BY <1>1, <1>3, CallFields DEF Places
<1>11. /\ k.plan = p /\ k.generation = g /\ k.receipt = n /\ k.expected = plans[p].observation
  BY <1>1, <1>2, <1>3 DEF Call
<1>12. call' = [call EXCEPT ![c] = k]
  BY <1>1
<1>13. /\ pc' \in [Callers -> Places] /\ call' \in [Callers -> Call]
       /\ pc'[c] = "confirm" /\ call'[c] = k
       /\ \A d \in Callers \ {c} : pc'[d] = pc[d] /\ call'[d] = call[d]
  BY <1>10, <1>12, GoTyped, CallsTyped DEF FlowInv
<1>14. UNCHANGED <<install, plans, intents, receipts, evidence>>
  BY DEF ledger
<1>15. FlowType'
  BY <1>8, <1>13, <1>14 DEF FlowInv, FlowType
<1>16. Growth /\ KeepsActive
  BY <1>3, <1>9, <1>14 DEF Growth, KeepsActive
<1>17. MadeBy("create")' = MadeBy("create") /\ MadeBy("remove")' = MadeBy("remove")
  BY <1>14 DEF MadeBy
<1>18. InstallInv'
  BY <1>2, <1>9, <1>14, <1>17 DEF FlowInv, InstallInv
<1>19. ASSUME NEW q \in Plans
       PROVE  OpsInv(q)' /\ LedgerInv(q)' /\ ActivationInv(q)'
  <2>1. OpsInv(q)'
    BY <1>14, <1>17 DEF FlowInv, OpsInv
  <2>2. LedgerInv(q)'
    BY <1>9, <1>14 DEF FlowInv, LedgerInv
  <2>3. ActivationInv(q)'
    BY <1>2, <1>3, <1>9, <1>14 DEF FlowInv, ActivationInv
  <2>. QED
    BY <2>1, <2>2, <2>3
<1>20. ASSUME NEW d \in Callers \ {c}
       PROVE  Aside(d)
  <2>1. CallerInv(d)
    BY DEF FlowInv
  <2>. QED
    BY <1>9, <1>13, <1>14, <2>1 DEF Aside, Holds, CallerInv
<1>21. DiscardsAskOnce' => \A q \in Plans : EffectInv(q)'
  BY <1>9, <1>14 DEF FlowInv, EffectInv, DiscardsAskOnce
<1>22. CallerInv(c)' /\ SendInv(c)'
  <2>1. /\ pc'[c] = "confirm" /\ call'[c].plan = p /\ call'[c].expected = plans'[p].observation
        /\ call'[c].generation = g /\ call'[c].receipt # 0
    BY <1>3, <1>11, <1>13, <1>14
  <2>2. /\ plans'[p].saved /\ plans'[p].built /\ evidence'[p].verification = "passed" /\ evidence'[p].intent
        /\ target'.activated[p] # 0
        /\ call'[c].generation <= install'.generation
        /\ install'.attempt \notin {NoAttempt, c} => call'[c].generation < install'.generation
    BY <1>2, <1>3, <1>9, <1>14, <2>1
  <2>. QED
    BY <1>2, <2>1, <2>2, ConfirmCaller
<1>. QED
  BY <1>13, <1>15, <1>16, <1>18, <1>19, <1>20, <1>21, <1>22, Assembled

LEMMA TargetActivateKept ==
    ASSUME FlowInv, NEW c \in Callers, TargetActivate(c)
    PROVE  FlowInv' /\ Growth
<1>1. pc[c] = "activating" /\ UNCHANGED ledger
  BY DEF TargetActivate, Mutate
<1>2. CASE Activation(c) # 0 /\ call' = [call EXCEPT ![c].receipt = Activation(c)] /\ Go(c, "confirm")
           /\ UNCHANGED target
  <2>1. Activation(c) \in Nat \ {0}
    BY <1>1, <1>2, OwnCaller, TargetTyped DEF FlowInv, Activation
  <2>. QED
    BY <1>1, <1>2, <2>1, AnsweredKept
<1>3. CASE /\ Activation(c) = 0 /\ Admits(c)
           /\ target' = [[target EXCEPT !.activated[call[c].plan] = target.revision + 1]
                            EXCEPT !.revision = @ + 1, !.fence = call[c].generation]
           /\ call' = [call EXCEPT ![c].receipt = target.revision + 1] /\ Go(c, "confirm")
  BY <1>1, <1>3, ActivatesKept
<1>4. CASE Go(c, "release") /\ UNCHANGED <<target, call>>
  BY <1>1, <1>4, QuietMoves DEF Follows, Plain
<1>. QED
  BY <1>2, <1>3, <1>4, Zenon DEF TargetActivate, Mutate

-----------------------------------------------------------------------------
(* The plans: saved, finished, abandoned.                                  *)

LEMMA FunctionIsSequence ==
    ASSUME NEW S, NEW n \in Nat, NEW f \in [1 .. n -> S]
    PROVE  f \in Seq(S) /\ Len(f) = n /\ DOMAIN f = 1 .. n
OBVIOUS

LEMMA Concatenated ==
    ASSUME NEW S, NEW a \in Seq(S), NEW b \in Seq(S), NEW n \in Nat, NEW m \in Nat, Len(a) = n, Len(b) = m
    PROVE  /\ a \o b \in Seq(S) /\ Len(a \o b) = n + m /\ DOMAIN (a \o b) = 1 .. n + m
           /\ \A i \in 1 .. n : (a \o b)[i] = a[i]
           /\ \A i \in n + 1 .. n + m : (a \o b)[i] = b[i - n]
OBVIOUS

(* A set can be listed.                                                    *)
Listable(gone) ==
    \E s \in [1 .. Cardinality(gone) -> Operation] :
        {s[i] : i \in DOMAIN s} = [action : {"remove"}, id : gone]

LEMMA RemovalsListed ==
    ASSUME NEW gone \in SUBSET Resources
    PROVE  /\ Cardinality(gone) \in Nat /\ Cardinality(gone) <= Cardinality(Resources)
           /\ Listable(gone)
<1>1. IsFiniteSet(gone) /\ Cardinality(gone) \in Nat /\ Cardinality(gone) <= Cardinality(Resources)
  BY PositionsFinite, FS_Subset, FS_CardinalityType
<1>2. PICK n : n = Cardinality(gone)
  OBVIOUS
<1>3. PICK f \in [1 .. n -> gone] : \A r \in gone : \E i \in 1 .. n : f[i] = r
  BY <1>1, <1>2, FS_CardinalityType DEF ExistsBijection, Bijection, Surjection
<1>4. PICK s : s = [i \in 1 .. n |-> [action |-> "remove", id |-> f[i]]]
  OBVIOUS
<1>5. s \in [1 .. n -> Operation] /\ DOMAIN s = 1 .. n
  BY <1>4 DEF Operation
<1>6. {s[i] : i \in DOMAIN s} = [action : {"remove"}, id : gone]
  <2>1. ASSUME NEW i \in 1 .. n
        PROVE  s[i] \in [action : {"remove"}, id : gone]
    BY <1>4
  <2>2. ASSUME NEW o \in [action : {"remove"}, id : gone]
        PROVE  \E i \in 1 .. n : s[i] = o
    <3>1. o.id \in gone /\ o = [action |-> "remove", id |-> o.id]
      OBVIOUS
    <3>2. PICK i \in 1 .. n : f[i] = o.id
      BY <1>3, <3>1
    <3>. QED
      BY <1>4, <3>1, <3>2
  <2>3. {s[i] : i \in 1 .. n} \subseteq [action : {"remove"}, id : gone]
    BY <2>1
  <2>4. [action : {"remove"}, id : gone] \subseteq {s[i] : i \in 1 .. n}
    BY <2>2
  <2>. QED
    BY <1>5, <2>3, <2>4
<1>. QED
  BY <1>1, <1>2, <1>5, <1>6 DEF Listable

ListOf(gone) ==
    CHOOSE s \in [1 .. Cardinality(gone) -> Operation] :
        {s[i] : i \in DOMAIN s} = [action : {"remove"}, id : gone]

LEMMA ListOfLists ==
    ASSUME NEW gone, Listable(gone)
    PROVE  /\ ListOf(gone) \in [1 .. Cardinality(gone) -> Operation]
           /\ {ListOf(gone)[i] : i \in DOMAIN ListOf(gone)} = [action : {"remove"}, id : gone]
BY Zenon DEF Listable, ListOf

(* The operations of a new plan: creations named after their position,     *)
(* then removals of what the installation owns.                            *)
Creations(p, n) == [i \in 1 .. n |-> [action |-> "create", id |-> <<p, i>>]]
PlannedFor(p, gone, ops) ==
    /\ ops \in Seq(Operation) /\ Len(ops) \in Positions
    /\ \A i \in DOMAIN ops :
         /\ ops[i].action = "create" => ops[i].id = <<p, i>>
         /\ ops[i].action = "remove" => ops[i].id \in gone

LEMMA OperationsPlanned ==
    ASSUME FlowInv, NEW p \in Plans, NEW n \in 0 .. MaxCreates, NEW gone \in SUBSET Resources,
           NEW m, m = Cardinality(gone), n + m > 0, NEW remove \in [1 .. m -> Operation],
           {remove[i] : i \in DOMAIN remove} = [action : {"remove"}, id : gone]
    PROVE  PlannedFor(p, gone, Creations(p, n) \o remove)
<1>0. PICK create : create = Creations(p, n)
  OBVIOUS
<1>1. m \in Nat /\ m <= Cardinality(Resources) /\ Cardinality(Resources) \in Nat
  BY RemovalsListed, PositionsFinite
<1>2. n \in Nat /\ n <= MaxCreates /\ MaxCreates \in Nat
  BY FlowAssumption
<1>3. remove \in Seq(Operation) /\ Len(remove) = m /\ DOMAIN remove = 1 .. m
  BY <1>1, FunctionIsSequence
<1>4. \A i \in 1 .. m : remove[i].action = "remove" /\ remove[i].id \in gone
  <2>1. ASSUME NEW i \in 1 .. m
        PROVE  remove[i] \in [action : {"remove"}, id : gone]
    BY <1>3
  <2>. QED
    BY <2>1
<1>5. \A i \in 1 .. n : create[i].action = "create" /\ create[i].id = <<p, i>>
  BY <1>0 DEF Creations
<1>6. create \in [1 .. n -> Operation]
  BY <1>0, <1>2 DEF Operation, Resources, Creations
<1>7. create \in Seq(Operation) /\ Len(create) = n
  BY <1>2, <1>6, FunctionIsSequence
<1>8. PICK ops : ops = create \o remove
  OBVIOUS
<1>9. /\ ops \in Seq(Operation) /\ Len(ops) = n + m /\ DOMAIN ops = 1 .. n + m
      /\ \A i \in 1 .. n : ops[i] = create[i]
      /\ \A i \in n + 1 .. n + m : ops[i] = remove[i - n]
  <2>1. create \in Seq(Operation) /\ remove \in Seq(Operation) /\ Len(create) = n /\ Len(remove) = m
        /\ n \in Nat /\ m \in Nat
    BY <1>1, <1>2, <1>3, <1>7
  <2>2. /\ create \o remove \in Seq(Operation) /\ Len(create \o remove) = n + m
        /\ DOMAIN (create \o remove) = 1 .. n + m
        /\ \A i \in 1 .. n : (create \o remove)[i] = create[i]
        /\ \A i \in n + 1 .. n + m : (create \o remove)[i] = remove[i - n]
    BY <2>1
  <2>. QED
    BY <1>8, <2>2
<1>10. Len(ops) \in Positions
  BY <1>1, <1>2, <1>9 DEF Positions
<1>11. ASSUME NEW i \in DOMAIN ops
       PROVE  /\ ops[i].action = "create" => ops[i].id = <<p, i>>
              /\ ops[i].action = "remove" => ops[i].id \in gone
  <2>1. CASE i \in 1 .. n
    BY <1>5, <1>9, <2>1
  <2>2. CASE i \in n + 1 .. n + m
    <3>1. i - n \in 1 .. m /\ ops[i] = remove[i - n]
      BY <1>1, <1>2, <1>9, <2>2
    <3>. QED
      BY <1>4, <3>1
  <2>3. i \in 1 .. n \/ i \in n + 1 .. n + m
    BY <1>1, <1>2, <1>9
  <2>. QED
    BY <2>1, <2>2, <2>3
<1>. QED
  BY <1>0, <1>8, <1>9, <1>10, <1>11 DEF PlannedFor

LEMMA SavePlanKept ==
    ASSUME FlowInv, SavePlan
    PROVE  FlowInv' /\ Growth
<1>1. UNCHANGED <<install, intents, receipts, evidence, target, pc, call>>
  BY DEF SavePlan
<1>2. PICK p \in Plans, n \in 0 .. MaxCreates, gone \in SUBSET Removable :
        LET create == [i \in 1 .. n |-> [action |-> "create", id |-> <<p, i>>]]
            remove == CHOOSE s \in [1 .. Cardinality(gone) -> Operation] :
                {s[i] : i \in DOMAIN s} = [action : {"remove"}, id : gone]
        IN  /\ ~plans[p].saved /\ \A q \in Plans : q < p => plans[q].saved
            /\ n + Cardinality(gone) > 0
            /\ plans' = [plans EXCEPT ![p] = [NoDoc EXCEPT
                    !.saved = TRUE, !.base = install.revision,
                    !.observed = target.revision, !.ops = create \o remove]]
            /\ UNCHANGED <<install, intents, receipts, evidence, target, pc, call, mishaps>>
  BY Zenon DEF SavePlan
<1>3. PICK ops :
        /\ plans' = [plans EXCEPT ![p] = [NoDoc EXCEPT !.saved = TRUE, !.base = install.revision,
                                                      !.observed = target.revision, !.ops = ops]]
        /\ PlannedFor(p, gone, ops)
  <2>1. PICK create, remove :
          /\ create = [i \in 1 .. n |-> [action |-> "create", id |-> <<p, i>>]]
          /\ remove = CHOOSE s \in [1 .. Cardinality(gone) -> Operation] :
                        {s[i] : i \in DOMAIN s} = [action : {"remove"}, id : gone]
          /\ plans' = [plans EXCEPT ![p] = [NoDoc EXCEPT
                  !.saved = TRUE, !.base = install.revision,
                  !.observed = target.revision, !.ops = create \o remove]]
    BY <1>2, Zenon
  <2>2. gone \in SUBSET Resources
    BY InstallTyped DEF FlowInv, Removable
  <2>3. Listable(gone)
    BY <2>2, RemovalsListed
  <2>4. /\ remove \in [1 .. Cardinality(gone) -> Operation]
        /\ {remove[i] : i \in DOMAIN remove} = [action : {"remove"}, id : gone]
    <3>1. remove = ListOf(gone)
      BY <2>1, Zenon DEF ListOf
    <3>. QED
      BY <2>3, <3>1, ListOfLists
  <2>5. create = Creations(p, n) /\ n + Cardinality(gone) > 0
    BY <1>2, <2>1, Zenon DEF Creations
  <2>6. PICK m : m = Cardinality(gone)
    OBVIOUS
  <2>7. /\ gone \in SUBSET Resources /\ n + m > 0 /\ remove \in [1 .. m -> Operation]
    BY <2>2, <2>4, <2>5, <2>6
  <2>8. PlannedFor(p, gone, Creations(p, n) \o remove)
    BY <2>4, <2>6, <2>7, OperationsPlanned
  <2>. QED
    BY <2>1, <2>5, <2>8, Zenon
<1>4. PICK doc : doc = [NoDoc EXCEPT !.saved = TRUE, !.base = install.revision,
                                     !.observed = target.revision, !.ops = ops]
  OBVIOUS
<1>5. doc \in Doc /\ doc.saved /\ ~doc.built /\ ~doc.abandoned /\ doc.ops = ops
  <2>1. install.revision \in Nat /\ target.revision \in Nat
    BY InstallTyped, TargetTyped DEF FlowInv
  <2>2. doc \in Doc
    BY <1>3, <1>4, <2>1, NoDocTyped, DocFields DEF PlannedFor
  <2>. QED
    BY <1>4, <2>2 DEF NoDoc
<1>6. /\ plans' \in [Plans -> Doc] /\ plans'[p] = doc
      /\ \A q \in Plans \ {p} : plans'[q] = plans[q]
  BY <1>3, <1>4, <1>5 DEF FlowInv, FlowType
<1>7. plans[p] = NoDoc /\ ~plans[p].built /\ ~plans[p].abandoned /\ plans[p].ops = << >>
  BY <1>2 DEF FlowInv, OpsInv, NoDoc
<1>8. FlowType'
  BY <1>1, <1>6 DEF FlowInv, FlowType
<1>9. Growth
  <2>1. target.fence \in Nat /\ install.generation \in Nat
    BY TargetTyped, InstallTyped DEF FlowInv
  <2>2. ~plans[p].saved /\ ~plans[p].built /\ ~plans[p].abandoned
    BY <1>7 DEF NoDoc
  <2>. QED
    BY <1>1, <1>6, <2>1, <2>2 DEF Growth
<1>10. KeepsActive
  BY <1>1 DEF KeepsActive
<1>11. MadeBy("create")' = MadeBy("create") /\ MadeBy("remove")' = MadeBy("remove")
  BY <1>5, <1>6, <1>7 DEF MadeBy
<1>12. InstallInv'
  BY <1>1, <1>11 DEF FlowInv, InstallInv
<1>13. ASSUME NEW q \in Plans
       PROVE  OpsInv(q)' /\ LedgerInv(q)' /\ ActivationInv(q)'
  <2>1. OpsInv(q)'
    <3>1. CASE q = p
      <4>1. gone \subseteq MadeBy("create")
        BY DEF Removable, FlowInv, InstallInv
      <4>. QED
        BY <1>3, <1>5, <1>6, <1>11, <3>1, <4>1 DEF OpsInv, PlannedFor
    <3>2. CASE q # p
      BY <1>6, <1>11, <3>2 DEF FlowInv, OpsInv
    <3>. QED
      BY <3>1, <3>2
  <2>2. LedgerInv(q)'
    <3>1. LedgerInv(q)
      BY DEF FlowInv
    <3>2. CASE q = p
      <4>1. install.active # p /\ \A i \in Positions : receipts[p][i] = 0 /\ target.effects[p][i] = 0
        BY <1>2, <1>7, <3>1, <3>2 DEF LedgerInv
      <4>. QED
        BY <1>1, <1>5, <1>6, <3>2, <4>1 DEF LedgerInv
    <3>3. CASE q # p
      BY <1>1, <1>6, <3>1, <3>3 DEF LedgerInv
    <3>. QED
      BY <3>2, <3>3
  <2>3. ActivationInv(q)'
    BY <1>1 DEF FlowInv, ActivationInv
  <2>. QED
    BY <2>1, <2>2, <2>3
<1>14. ASSUME NEW d \in Callers
       PROVE  Aside(d)
  BY <1>1 DEF Aside, Holds, FlowInv, CallerInv
<1>15. DiscardsAskOnce' => \A q \in Plans : EffectInv(q)'
  <2>1. SUFFICES ASSUME DiscardsAskOnce', NEW q \in Plans
                 PROVE  EffectInv(q)'
    OBVIOUS
  <2>2. EffectInv(q)
    BY <1>9, <2>1, AskedOnceBefore DEF FlowInv
  <2>3. plans'[q].abandoned => plans[q].abandoned
    BY <1>5, <1>6
  <2>. QED
    BY <1>1, <2>2, <2>3 DEF EffectInv
<1>. QED
  BY <1>8, <1>9, <1>10, <1>12, <1>13, <1>14, <1>15, BackgroundAssembled

\* A finished construction replaces what the installation owns.
LEMMA FinishConstructionKept ==
    ASSUME FlowInv, NEW c \in Callers, FinishConstruction(c)
    PROVE  FlowInv' /\ Growth
<1>1. /\ pc[c] = "finish" /\ Go(c, "release") /\ UNCHANGED <<intents, receipts, evidence, target, call>>
      /\ "release" \in Plain /\ "release" \in Places
  BY DEF FinishConstruction, Plain, Places
<1>2. PICK p : p = call[c].plan
  OBVIOUS
<1>3. CASE ~(Holds(c) /\ ~plans[p].built /\ \A i \in DOMAIN plans[p].ops : receipts[p][i] # 0)
  <2>1. UNCHANGED <<install, plans>>
    BY <1>2, <1>3 DEF FinishConstruction, Ops, Plan
  <2>. QED
    BY <1>1, <2>1, QuietMoves DEF Follows, Plain, ledger
<1>4. CASE Holds(c) /\ ~plans[p].built /\ \A i \in DOMAIN plans[p].ops : receipts[p][i] # 0
  <2>1. /\ install' = [install EXCEPT !.revision = @ + 1, !.resources = Owned(c)]
        /\ plans' = [plans EXCEPT ![p].built = TRUE, ![p].revision = install.revision + 1,
                                  ![p].observation = call[c].expected]
    BY <1>2, <1>4 DEF FinishConstruction, Ops, Plan
  <2>2. /\ p \in Plans /\ plans[p].saved /\ install.active = p /\ install \in Install
        /\ install.revision + 1 \in Nat /\ call[c].expected \in Nat /\ plans[p] \in Doc
    BY <1>1, <1>2, <1>4, OwnCaller, InstallTyped, CallTyped, PlansTyped DEF FlowInv, Holds
  <2>3. PICK doc : doc = [plans[p] EXCEPT !.built = TRUE, !.revision = install.revision + 1,
                                          !.observation = call[c].expected]
    OBVIOUS
  <2>4. doc \in Doc
    BY <2>2, <2>3, DocFields
  <2>5. /\ doc.built /\ doc.revision = install.revision + 1
        /\ doc.saved = plans[p].saved /\ doc.ops = plans[p].ops /\ doc.abandoned = plans[p].abandoned
    BY <2>2, <2>3 DEF Doc
  <2>6. /\ plans' \in [Plans -> Doc] /\ plans'[p] = doc
        /\ \A q \in Plans \ {p} : plans'[q] = plans[q]
    <3>1. plans' = [plans EXCEPT ![p] = doc]
      BY <2>1, <2>2, <2>3 DEF FlowInv, FlowType
    <3>. QED
      BY <2>2, <2>4, <3>1 DEF FlowInv, FlowType
  <2>7. PICK R : R = Owned(c)
    OBVIOUS
  <2>8. R = (install.resources \cup {plans[p].ops[i].id : i \in {k \in DOMAIN plans[p].ops : plans[p].ops[k].action = "create"}})
              \ {plans[p].ops[i].id : i \in {k \in DOMAIN plans[p].ops : plans[p].ops[k].action = "remove"}}
    BY <1>2, <2>7 DEF Owned, Ops, Plan
  <2>9. \A i \in DOMAIN plans[p].ops : plans[p].ops[i] \in Operation
    BY <2>2, PlansTyped DEF FlowInv
  <2>10. R \in SUBSET Resources
    BY <2>2, <2>8, <2>9, InstallTyped DEF FlowInv, Operation
  <2>11. install' \in Install
    BY <2>1, <2>2, <2>7, <2>10, InstallFields
  <2>12. /\ install'.revision = install.revision + 1 /\ install'.resources = R
         /\ install'.active = install.active /\ install'.attempt = install.attempt
         /\ install'.generation = install.generation /\ install'.leased = install.leased
    BY <2>1, <2>2, <2>7 DEF Install
  <2>13. /\ pc' \in [Callers -> Places] /\ pc'[c] = "release" /\ call' = call
         /\ \A d \in Callers \ {c} : pc'[d] = pc[d]
    BY <1>1, GoTyped DEF FlowInv
  <2>14. FlowType'
    BY <1>1, <2>6, <2>11, <2>13 DEF FlowInv, FlowType
  <2>15. Growth
    <3>1. target.fence \in Nat /\ install.generation \in Nat
      BY TargetTyped, InstallTyped DEF FlowInv
    <3>. QED
      BY <1>1, <1>4, <2>5, <2>6, <2>12, <3>1 DEF Growth
  <2>16. KeepsActive
    BY <2>12 DEF KeepsActive
  <2>17. ASSUME NEW r \in Resources
         PROVE  /\ r \in MadeBy("create")' <=> r \in MadeBy("create") \/ \E i \in DOMAIN plans[p].ops :
                                                    plans[p].ops[i] = [action |-> "create", id |-> r]
                /\ r \in MadeBy("remove")' <=> r \in MadeBy("remove") \/ \E i \in DOMAIN plans[p].ops :
                                                    plans[p].ops[i] = [action |-> "remove", id |-> r]
    BY <1>4, <2>2, <2>5, <2>6 DEF MadeBy
  <2>18. InstallInv'
    <3>1. \A r \in MadeBy("remove") : \A i \in DOMAIN plans[p].ops :
            plans[p].ops[i] # [action |-> "create", id |-> r]
      <4>1. SUFFICES ASSUME NEW r \in MadeBy("remove"), NEW i \in DOMAIN plans[p].ops,
                            plans[p].ops[i] = [action |-> "create", id |-> r]
                     PROVE  FALSE
        OBVIOUS
      <4>2. r = <<p, i>>
        <5>1. plans[p].ops[i].action = "create" /\ plans[p].ops[i].id = r
          BY <4>1
        <5>. QED
          BY <2>2, <5>1 DEF FlowInv, OpsInv
      <4>3. PICK q \in Plans : plans[q].built /\ \E j \in DOMAIN plans[q].ops :
                                  plans[q].ops[j] = [action |-> "remove", id |-> r]
        BY <4>1 DEF MadeBy
      <4>4. r \in MadeBy("create")
        BY <4>3 DEF FlowInv, OpsInv
      <4>5. PICK q2 \in Plans : plans[q2].built /\ \E j \in DOMAIN plans[q2].ops :
                                  plans[q2].ops[j] = [action |-> "create", id |-> r]
        BY <4>4 DEF MadeBy
      <4>6. PICK j \in DOMAIN plans[q2].ops : plans[q2].ops[j] = [action |-> "create", id |-> r]
        BY <4>5
      <4>7. r = <<q2, j>>
        <5>1. plans[q2].ops[j].action = "create" /\ plans[q2].ops[j].id = r
          BY <4>6
        <5>. QED
          BY <5>1 DEF FlowInv, OpsInv
      <4>8. q2 = p
        BY <4>2, <4>7
      <4>. QED
        BY <1>4, <4>5, <4>8
    <3>2. ASSUME NEW r \in Resources, NEW i \in DOMAIN plans[p].ops
          PROVE  /\ plans[p].ops[i] = [action |-> "create", id |-> r] <=>
                      plans[p].ops[i].action = "create" /\ plans[p].ops[i].id = r
                 /\ plans[p].ops[i] = [action |-> "remove", id |-> r] <=>
                      plans[p].ops[i].action = "remove" /\ plans[p].ops[i].id = r
      BY <2>9 DEF Operation
    <3>3. install.resources = MadeBy("create") \ MadeBy("remove")
      BY DEF FlowInv, InstallInv
    <3>4. ASSUME NEW r \in Resources
          PROVE  r \in R <=> r \in MadeBy("create")' /\ r \notin MadeBy("remove")'
      <4>1. r \in MadeBy("create")' <=> r \in MadeBy("create") \/ \E i \in DOMAIN plans[p].ops :
                                            plans[p].ops[i].action = "create" /\ plans[p].ops[i].id = r
        <5>1. (\E i \in DOMAIN plans[p].ops : plans[p].ops[i] = [action |-> "create", id |-> r])
                <=> \E i \in DOMAIN plans[p].ops : plans[p].ops[i].action = "create" /\ plans[p].ops[i].id = r
          BY <3>2
        <5>. QED
          BY <2>17, <5>1
      <4>2. r \in MadeBy("remove")' <=> r \in MadeBy("remove") \/ \E i \in DOMAIN plans[p].ops :
                                            plans[p].ops[i].action = "remove" /\ plans[p].ops[i].id = r
        <5>1. (\E i \in DOMAIN plans[p].ops : plans[p].ops[i] = [action |-> "remove", id |-> r])
                <=> \E i \in DOMAIN plans[p].ops : plans[p].ops[i].action = "remove" /\ plans[p].ops[i].id = r
          BY <3>2
        <5>. QED
          BY <2>17, <5>1
      <4>3. r \in MadeBy("remove") => ~ \E i \in DOMAIN plans[p].ops :
                                            plans[p].ops[i].action = "create" /\ plans[p].ops[i].id = r
        BY <3>1, <3>2
      <4>4. r \in R <=> /\ \/ r \in install.resources
                           \/ \E i \in DOMAIN plans[p].ops : plans[p].ops[i].action = "create" /\ plans[p].ops[i].id = r
                        /\ ~ \E i \in DOMAIN plans[p].ops : plans[p].ops[i].action = "remove" /\ plans[p].ops[i].id = r
        BY <2>8
      <4>. QED
        BY <3>3, <4>1, <4>2, <4>3, <4>4
    <3>5. MadeBy("create")' \subseteq Resources
      BY DEF MadeBy
    <3>6. install'.resources = MadeBy("create")' \ MadeBy("remove")'
      BY <2>10, <2>12, <3>4, <3>5
    <3>. QED
      BY <1>1, <2>12, <3>6 DEF FlowInv, InstallInv
  <2>19. ASSUME NEW q \in Plans
         PROVE  OpsInv(q)' /\ LedgerInv(q)' /\ ActivationInv(q)'
    <3>1. OpsInv(q)'
      <4>1. OpsInv(q) /\ plans'[q].saved = plans[q].saved /\ plans'[q].ops = plans[q].ops
            /\ (~plans[q].saved => plans'[q] = plans[q])
        BY <2>2, <2>5, <2>6 DEF FlowInv
      <4>2. MadeBy("create") \subseteq MadeBy("create")'
        BY <2>17 DEF MadeBy
      <4>. QED
        BY <4>1, <4>2 DEF OpsInv
    <3>2. LedgerInv(q)'
      <4>1. LedgerInv(q)
        BY DEF FlowInv
      <4>2. CASE q = p
        <5>1. /\ plans'[p].built /\ plans'[p].saved /\ plans'[p].ops = plans[p].ops
              /\ plans'[p].abandoned = plans[p].abandoned /\ plans'[p].revision = install'.revision
              /\ receipts' = receipts /\ target' = target /\ install'.active = p
          BY <1>1, <2>2, <2>5, <2>6, <2>12
        <5>. QED
          BY <1>4, <2>2, <4>1, <4>2, <5>1 DEF LedgerInv
      <4>3. CASE q # p
        BY <1>1, <2>2, <2>6, <2>12, <4>1, <4>3 DEF LedgerInv
      <4>. QED
        BY <4>2, <4>3
    <3>3. ActivationInv(q)'
      BY <1>1, <2>12 DEF FlowInv, ActivationInv
    <3>. QED
      BY <3>1, <3>2, <3>3
  <2>20. ASSUME NEW d \in Callers \ {c}
         PROVE  Aside(d)
    <3>1. CallerInv(d)
      BY DEF FlowInv
    <3>. QED
      BY <1>1, <2>12, <2>13, <3>1 DEF Aside, Holds, CallerInv
  <2>21. DiscardsAskOnce' => \A q \in Plans : EffectInv(q)'
    <3>1. SUFFICES ASSUME DiscardsAskOnce', NEW q \in Plans
                   PROVE  EffectInv(q)'
      OBVIOUS
    <3>2. EffectInv(q)
      BY <2>15, <3>1, AskedOnceBefore DEF FlowInv
    <3>3. plans'[q].abandoned = plans[q].abandoned
      BY <2>5, <2>6
    <3>. QED
      BY <1>1, <2>12, <3>2, <3>3 DEF EffectInv
  <2>22. CallerInv(c)' /\ SendInv(c)'
    <3>1. /\ call'[c].generation <= install'.generation
          /\ install'.attempt \notin {NoAttempt, c} => call'[c].generation < install'.generation
      BY <2>12, <2>13 DEF FlowInv, CallerInv
    <3>. QED
      BY <1>1, <2>13, <2>14, <2>15, <3>1, PlainKept
  <2>. QED
    BY <2>13, <2>14, <2>15, <2>16, <2>18, <2>19, <2>20, <2>21, <2>22, Assembled
<1>. QED
  BY <1>3, <1>4

(* A discarded plan is no longer selected: an older attempt at it is       *)
(* fenced by then, if the discard asked once.                              *)
LEMMA AbandonKept ==
    ASSUME FlowInv, NEW c \in Callers, Abandon(c)
    PROVE  FlowInv' /\ Growth
<1>1. /\ pc[c] = "question" /\ Go(c, "release") /\ UNCHANGED <<intents, receipts, evidence, target, call>>
      /\ "release" \in Plain /\ "release" \in Places
  BY DEF Abandon, Asked, Plain, Places
<1>2. PICK p : p = call[c].plan
  OBVIOUS
<1>3. CASE ~(Holds(c) /\ NoResults(p) /\ evidence[p] = NoEvidence)
  <2>1. UNCHANGED <<install, plans>>
    BY <1>2, <1>3 DEF Abandon
  <2>. QED
    BY <1>1, <2>1, QuietMoves DEF Follows, Plain, ledger
<1>4. CASE Holds(c) /\ NoResults(p) /\ evidence[p] = NoEvidence
  <2>1. /\ plans' = [plans EXCEPT ![p].abandoned = TRUE]
        /\ install' = [install EXCEPT !.active = NoPlan, !.attempt = NoAttempt, !.leased = FALSE]
    BY <1>2, <1>4 DEF Abandon
  <2>2. /\ p \in Plans /\ plans[p].saved /\ install.active = p /\ install.attempt = c
        /\ install.generation = call[c].generation /\ install \in Install /\ plans[p] \in Doc
        /\ DOMAIN plans[p].ops = 1 .. Len(plans[p].ops)
    BY <1>1, <1>2, <1>4, OwnCaller, InstallTyped, PlansTyped DEF FlowInv, Holds
  <2>3. PICK doc : doc = [plans[p] EXCEPT !.abandoned = TRUE]
    OBVIOUS
  <2>4. doc \in Doc
    BY <2>2, <2>3, DocFields
  <2>5. /\ doc.built = plans[p].built /\ doc.saved = plans[p].saved /\ doc.ops = plans[p].ops /\ doc.abandoned
    BY <2>2, <2>3 DEF Doc
  <2>6. /\ plans' \in [Plans -> Doc] /\ plans'[p] = doc
        /\ \A q \in Plans \ {p} : plans'[q] = plans[q]
    <3>1. plans' = [plans EXCEPT ![p] = doc]
      BY <2>1, <2>2, <2>3 DEF FlowInv, FlowType
    <3>. QED
      BY <2>2, <2>4, <3>1 DEF FlowInv, FlowType
  <2>7. install' \in Install
    BY <2>1, <2>2, InstallFields
  <2>8. /\ install'.revision = install.revision /\ install'.resources = install.resources
        /\ install'.active = NoPlan /\ install'.attempt = NoAttempt /\ NoPlan \notin Plans
        /\ install'.generation = install.generation
    BY <2>1, <2>2 DEF Install, NoPlan, Plans
  <2>9. /\ pc' \in [Callers -> Places] /\ pc'[c] = "release" /\ call' = call
        /\ \A d \in Callers \ {c} : pc'[d] = pc[d]
    BY <1>1, GoTyped DEF FlowInv
  <2>10. FlowType'
    BY <1>1, <2>6, <2>7, <2>9 DEF FlowInv, FlowType
  <2>11. ~plans[p].built /\ \A i \in Positions : receipts[p][i] = 0
    BY <1>4 DEF NoResults
  <2>12. Growth
    <3>1. target.fence \in Nat /\ install.generation \in Nat
      BY TargetTyped, InstallTyped DEF FlowInv
    <3>. QED
      BY <1>1, <2>5, <2>6, <2>8, <2>11, <3>1 DEF Growth
  <2>13. MadeBy("create")' = MadeBy("create") /\ MadeBy("remove")' = MadeBy("remove")
    BY <2>5, <2>6, <2>11 DEF MadeBy
  <2>14. InstallInv'
    BY <1>1, <2>8, <2>13 DEF FlowInv, InstallInv
  <2>15. ASSUME NEW q \in Plans
         PROVE  OpsInv(q)' /\ LedgerInv(q)' /\ ActivationInv(q)'
    <3>1. OpsInv(q)'
      <4>1. OpsInv(q) /\ plans'[q].saved = plans[q].saved /\ plans'[q].ops = plans[q].ops
            /\ (~plans[q].saved => plans'[q] = plans[q])
        BY <2>2, <2>5, <2>6 DEF FlowInv
      <4>. QED
        BY <2>13, <4>1 DEF OpsInv
    <3>2. LedgerInv(q)'
      <4>1. LedgerInv(q)
        BY DEF FlowInv
      <4>2. CASE q = p
        BY <1>1, <2>5, <2>6, <2>8, <2>11, <4>1, <4>2 DEF LedgerInv
      <4>3. CASE q # p
        BY <1>1, <2>2, <2>6, <2>8, <4>1, <4>3 DEF LedgerInv
      <4>. QED
        BY <4>2, <4>3
    <3>3. ActivationInv(q)'
      <4>1. ActivationInv(q) /\ (q = p => ~evidence[q].intent)
        BY <1>4 DEF FlowInv, NoEvidence
      <4>. QED
        BY <1>1, <2>2, <4>1 DEF ActivationInv
    <3>. QED
      BY <3>1, <3>2, <3>3
  <2>16. ASSUME NEW d \in Callers \ {c}
         PROVE  Aside(d)
    <3>1. ~Holds(d)'
      BY <2>8, FlowAssumption DEF Holds
    <3>. QED
      BY <1>1, <2>8, <2>9, <3>1 DEF Aside
  <2>17. CallerInv(c)' /\ SendInv(c)'
    <3>1. /\ call'[c].generation <= install'.generation
          /\ install'.attempt \notin {NoAttempt, c} => call'[c].generation < install'.generation
      BY <2>8, <2>9 DEF FlowInv, CallerInv
    <3>. QED
      BY <1>1, <2>9, <2>10, <2>12, <3>1, PlainKept
  <2>18. \A d \in Callers : CallerInv(d)'
    BY <2>10, <2>12, <2>16, <2>17, OthersKept
  <2>19. ASSUME DiscardsAskOnce'
         PROVE  (\A q \in Plans : EffectInv(q)') /\ (\A d \in Callers : SendInv(d)')
    <3>1. Len(plans[p].ops) = 1
      BY <2>2, <2>5, <2>6, <2>19 DEF DiscardsAskOnce
    <3>2. call[c].i \in Nat /\ call[c].i > 1
      BY <1>2, <3>1, CallTyped DEF FlowInv, Abandon, Asked, Ops, Plan
    <3>3. call[c].generation <= target.fence /\ target.effects[p][1] = 0
      BY <1>1, <1>2, <1>4, <3>1, <3>2 DEF FlowInv, CallerInv
    <3>4. DiscardsAskOnce
      BY <2>12, <2>19, AskedOnceBefore
    <3>5. ASSUME NEW q \in Plans
          PROVE  EffectInv(q)'
      <4>1. EffectInv(q) /\ LedgerInv(q)
        BY <3>4 DEF FlowInv
      <4>2. CASE q = p
        <5>1. ASSUME NEW i \in Positions
              PROVE  target.effects[p][i] = 0
          <6>1. target.effects[p][i] # 0 => i \in 1 .. 1
            BY <2>2, <3>1, <4>1, <4>2 DEF LedgerInv
          <6>. QED
            BY <3>3, <6>1
        <5>. QED
          BY <1>1, <4>2, <5>1 DEF EffectInv
      <4>3. CASE q # p
        BY <1>1, <2>2, <2>6, <4>1, <4>3 DEF EffectInv
      <4>. QED
        BY <4>2, <4>3
    <3>6. ASSUME NEW d \in Callers \ {c}
          PROVE  SendInv(d)'
      <4>1. SendInv(d) /\ CallerInv(d)
        BY <3>4 DEF FlowInv
      <4>2. /\ call[d].generation \in Nat /\ call[c].generation \in Nat /\ target.fence \in Nat
            /\ target' = target
        BY <1>1, CallTyped, TargetTyped DEF FlowInv
      <4>3. call[d].generation < call[c].generation
        BY <2>2, <4>1, FlowAssumption DEF CallerInv
      <4>4. call[d].generation < target'.fence
        BY <3>3, <4>2, <4>3
      <4>5. pc'[d] = pc[d] /\ call'[d] = call[d]
        BY <2>9
      <4>. QED
        BY <2>10, <2>12, <4>1, <4>4, <4>5, SendsKept
    <3>. QED
      BY <2>17, <3>5, <3>6
  <2>. QED
    BY <2>10, <2>12, <2>14, <2>15, <2>18, <2>19 DEF FlowInv
<1>. QED
  BY <1>3, <1>4

-----------------------------------------------------------------------------
(* The invariant, and the theorems.                                        *)

LEMMA FlowInit == Init => FlowInv
<1>. SUFFICES ASSUME Init
              PROVE  FlowInv
  OBVIOUS
<1>1. /\ \A p \in Plans : plans[p] = NoDoc /\ evidence[p] = NoEvidence
      /\ \A p \in Plans : \A i \in Positions : receipts[p][i] = 0 /\ target.effects[p][i] = 0
      /\ \A p \in Plans : target.activated[p] = 0
      /\ \A c \in Callers : pc[c] = "idle" /\ call[c] = NoCall
      /\ install.active = NoPlan /\ install.attempt = NoAttempt /\ install.generation = 0 /\ install.resources = {}
      /\ target.fence = 0
  BY DEF Init
<1>2. FlowType
  <2>1. install \in Install
    BY DEF Init, Install
  <2>2. plans \in [Plans -> Doc] /\ evidence \in [Plans -> Evidence] /\ call \in [Callers -> Call]
    BY NoDocTyped DEF Init
  <2>3. receipts \in [Plans -> [Positions -> Nat]]
    BY DEF Init
  <2>4. target \in Target
    BY DEF Init, Target
  <2>5. pc \in [Callers -> Places]
    BY DEF Init, Places
  <2>6. intents \subseteq Plans \X Positions
    BY DEF Init
  <2>. QED
    BY <2>1, <2>2, <2>3, <2>4, <2>5, <2>6 DEF FlowType
<1>3. MadeBy("create") = {} /\ MadeBy("remove") = {}
  BY <1>1 DEF MadeBy, NoDoc
<1>4. InstallInv
  BY <1>1, <1>3 DEF InstallInv
<1>5. ASSUME NEW p \in Plans
      PROVE  OpsInv(p) /\ LedgerInv(p) /\ ActivationInv(p) /\ EffectInv(p)
  <2>1. plans[p] = NoDoc /\ ~NoDoc.saved /\ ~NoDoc.built /\ ~NoDoc.abandoned /\ NoDoc.ops = << >>
        /\ install.active # p
    BY <1>1 DEF NoDoc, NoPlan, Plans
  <2>2. OpsInv(p)
    BY <2>1 DEF OpsInv
  <2>3. LedgerInv(p)
    BY <1>1, <2>1 DEF LedgerInv
  <2>4. ActivationInv(p)
    BY <1>1 DEF ActivationInv, NoEvidence
  <2>5. EffectInv(p)
    BY <1>1, <2>1 DEF EffectInv
  <2>. QED
    BY <2>2, <2>3, <2>4, <2>5
<1>6. ASSUME NEW c \in Callers
      PROVE  CallerInv(c) /\ SendInv(c)
  BY <1>1 DEF CallerInv, SendInv, Sending, Intending, NoCall
<1>. QED
  BY <1>2, <1>4, <1>5, <1>6 DEF FlowInv

\* Every step of a caller.
LEMMA CallersKept ==
    ASSUME FlowInv, NEW c \in Callers, Step(c)
    PROVE  FlowInv' /\ Growth
<1>1. CASE ConstructStep(c)
  <2>1. CASE \/ ConstructBegin(c) \/ BeginOperation(c) \/ CompleteOperation(c) \/ FinishConstruction(c)
             \/ TargetConstruct(c)
    BY <2>1, ConstructBeginKept, BeginOperationKept, CompleteOperationKept, FinishConstructionKept,
       TargetConstructKept
  <2>2. CASE Renew(c, "operation", "intent")
    BY <2>2, RenewsKept
  <2>3. CASE Recover(c, "recover", Effect(c), "complete", "check", call)
    BY <2>3, RecoverKept
  <2>4. CASE Observe(c, "check", "assert")
    BY <2>4, ObserveKept DEF Follows, Sending
  <2>5. CASE AssertClaim(c, "assert", "mutate")
    BY <2>5, AssertKept DEF Follows, Sending
  <2>6. CASE Observe(c, "compare", "finish")
    BY <2>6, ObserveKept DEF Follows, Plain
  <2>. QED
    BY <1>1, <2>1, <2>2, <2>3, <2>4, <2>5, <2>6, Zenon DEF ConstructStep
<1>2. CASE VerifyStep(c)
  <2>1. CASE VerifyBegin(c) \/ RunScenario(c) \/ SaveVerification(c) \/ Previous(c) \/ GiveUpLapsed(c)
    BY <2>1, VerifyBeginKept, RunScenarioKept, SaveVerificationKept, LooksKept
  <2>2. CASE Renew(c, "scenario", "run")
    BY <2>2, RenewsKept
  <2>3. CASE Observe(c, "unchanged", "previous")
    BY <2>3, ObserveKept DEF Follows, Plain
  <2>4. CASE Observe(c, "judge", "scenario")
    BY <2>4, ObserveKept DEF Follows, Plain
  <2>. QED
    BY <1>2, <2>1, <2>2, <2>3, <2>4, Zenon DEF VerifyStep
<1>3. CASE ActivateStep(c)
  <2>1. CASE \/ ActivateBegin(c) \/ SaveIntent(c) \/ TargetActivate(c) \/ Confirm(c) \/ SaveActivation(c)
    BY <2>1, ActivateBeginKept, SaveIntentKept, TargetActivateKept, LooksKept, SaveActivationKept
  <2>2. CASE Recover(c, "readback", Activation(c), "confirm", "unmoved", call)
    BY <2>2, ReadbackKept
  <2>3. CASE Observe(c, "unmoved", "authorize")
    BY <2>3, ObserveKept DEF Follows, Intending
  <2>4. CASE AssertClaim(c, "authorize", "activating")
    BY <2>4, AssertKept DEF Follows, Intending
  <2>. QED
    BY <1>3, <2>1, <2>2, <2>3, <2>4, Zenon DEF ActivateStep
<1>4. CASE DiscardStep(c)
  <2>1. CASE DiscardBegin(c) \/ Abandon(c)
    BY <2>1, LooksKept, AbandonKept
  <2>2. CASE ~Asked(c) /\ Renew(c, "question", "ask")
    BY <2>2, RenewsKept
  <2>3. CASE Recover(c, "ask", Effect(c), "release", "question", [call EXCEPT ![c].i = @ + 1])
    BY <2>3, AskKept
  <2>. QED
    BY <1>4, <2>1, <2>2, <2>3, Zenon DEF DiscardStep
<1>5. CASE Begin(c) \/ Release(c) \/ ResponseLost(c) \/ Crash(c)
  BY <1>5, BeginKept, ReleaseKept, LooksKept, CrashKept
<1>. QED
  BY <1>1, <1>2, <1>3, <1>4, <1>5, Zenon DEF Step

LEMMA FlowStep == FlowInv /\ [Next]_vars => FlowInv' /\ Growth
<1>. SUFFICES ASSUME FlowInv, [Next]_vars
              PROVE  FlowInv' /\ Growth
  OBVIOUS
<1>1. CASE SavePlan \/ UserEdit \/ Lapse
  BY <1>1, SavePlanKept, UserEditKept, LapseKept
<1>2. CASE \E c \in Callers : Step(c)
  BY <1>2, CallersKept
<1>3. CASE UNCHANGED vars
  <2>1. UNCHANGED <<ledger, target, pc, call>>
    BY <1>3 DEF vars
  <2>2. FlowType'
    BY <2>1 DEF FlowInv, FlowType, ledger
  <2>. QED
    BY <2>1, <2>2, SameTarget, QuietParts, BackgroundAssembled
<1>. QED
  BY <1>1, <1>2, <1>3, Zenon DEF Next

LEMMA InstallationKnown == FlowInv => NoOrphans
<1>. SUFFICES ASSUME FlowInv, install.active = NoPlan, DiscardsAskOnce
              PROVE  Created \ Removed = install.resources
  BY DEF NoOrphans
<1>1. ASSUME NEW p \in Plans, NEW i \in DOMAIN plans[p].ops
      PROVE  target.effects[p][i] # 0 <=> plans[p].built
  <2>1. OpsInv(p) /\ LedgerInv(p) /\ EffectInv(p) /\ p # NoPlan
    BY DEF FlowInv, NoPlan, Plans
  <2>2. plans[p].saved
    BY <2>1 DEF OpsInv, NoDoc
  <2>3. i \in Positions
    <3>1. Len(plans[p].ops) \in Positions /\ DOMAIN plans[p].ops = 1 .. Len(plans[p].ops)
      BY <2>1, <2>2, PlansTyped DEF FlowInv, OpsInv
    <3>. QED
      BY <3>1, PositionsFinite DEF Positions
  <2>4. target.effects[p][i] # 0 => plans[p].built
    BY <2>1, <2>3 DEF LedgerInv, EffectInv
  <2>5. plans[p].built => target.effects[p][i] # 0
    BY <2>1, <2>3 DEF LedgerInv
  <2>. QED
    BY <2>4, <2>5
<1>2. Created = MadeBy("create") /\ Removed = MadeBy("remove")
  BY <1>1 DEF Created, Removed, MadeBy
<1>. QED
  BY <1>2 DEF FlowInv, InstallInv

LEMMA LedgerComplete == FlowInv => LedgerKnows
<1>. SUFFICES ASSUME FlowInv
              PROVE  LedgerKnows
  OBVIOUS
<1>1. TypeOK
  <2>1. /\ install \in Install /\ DOMAIN plans = Plans /\ intents \subseteq Plans \X Positions
        /\ receipts \in [Plans -> [Positions -> Nat]]
    BY DEF FlowInv, FlowType
  <2>2. \A p \in Plans : \A i \in DOMAIN plans[p].ops : plans[p].ops[i] \in Operation
    BY PlansTyped DEF FlowInv
  <2>3. \A p \in Plans : evidence[p] \in [verification : {"none", "passed", "failed"},
                                          intent : BOOLEAN, activation : Nat]
    BY EvidenceTyped DEF FlowInv, Evidence
  <2>4. target.revision \in Nat /\ target.fence \in 0 .. install.generation
    BY TargetTyped, InstallTyped DEF FlowInv, InstallInv
  <2>5. \A c \in Callers : call[c].plan \in {NoPlan} \cup Plans
    BY CallTyped DEF FlowInv
  <2>. QED
    BY <2>1, <2>2, <2>3, <2>4, <2>5 DEF TypeOK
<1>2. EffectsRecoverable
  BY DEF FlowInv, EffectInv, ActivationInv, EffectsRecoverable
<1>3. DiscardedWithoutEffect
  BY DEF FlowInv, EffectInv, DiscardedWithoutEffect
<1>. QED
  BY <1>1, <1>2, <1>3 DEF LedgerKnows

(* Only TargetActivate activates anything.                                 *)
LEMMA ActivationsSent ==
    ASSUME FlowInv, Next, NEW p \in Plans, target.activated'[p] # target.activated[p]
    PROVE  \E c \in Callers :
             /\ pc[c] = "activating" /\ Activation(c) = 0 /\ Admits(c)
             /\ target'.activated = [target.activated EXCEPT ![call[c].plan] = target.revision + 1]
<1>1. target' # target /\ ~SameEffects
  BY DEF SameEffects
<1>2. ~UserEdit
  <2>1. UserEdit => target'.activated = target.activated
    BY TargetTyped DEF UserEdit, FlowInv, Target
  <2>. QED
    BY <2>1
<1>3. ~SavePlan /\ ~Lapse
  BY <1>1 DEF SavePlan, Lapse
<1>4. PICK c \in Callers : Step(c)
  BY <1>2, <1>3 DEF Next
<1>5. target' # Fenced(c)
  BY <1>1, FencedEffects
<1>6. \A from, done, found, absent, next : ~Recover(c, from, done, found, absent, next)
  BY <1>5 DEF Recover
<1>7. \A from, to : ~Renew(c, from, to) /\ ~Observe(c, from, to) /\ ~AssertClaim(c, from, to)
  BY <1>1 DEF Renew, Observe, AssertClaim
<1>8. ~TargetConstruct(c)
  <2>1. SUFFICES ASSUME TargetConstruct(c)
                 PROVE  FALSE
    OBVIOUS
  <2>2. /\ target \in Target
        /\ target' = [[target EXCEPT !.effects[call[c].plan][call[c].i] = target.revision + 1]
                            EXCEPT !.revision = @ + 1, !.fence = call[c].generation]
    BY <1>1, <2>1, TargetTyped DEF TargetConstruct, Mutate, FlowInv
  <2>3. target'.activated = target.activated
    BY <2>2 DEF Target
  <2>. QED
    BY <2>3
<1>9. ~Begin(c) /\ ~Release(c) /\ ~ResponseLost(c) /\ ~Crash(c)
  BY <1>1 DEF Begin, Release, ResponseLost, Crash
<1>10. ~ConstructStep(c)
  BY <1>1, <1>6, <1>7, <1>8 DEF ConstructStep, ConstructBegin, BeginOperation, CompleteOperation, FinishConstruction
<1>11. ~VerifyStep(c)
  BY <1>1, <1>5, <1>7 DEF VerifyStep, VerifyBegin, Previous, GiveUpLapsed, RunScenario, SaveVerification
<1>12. ~DiscardStep(c)
  BY <1>1, <1>6, <1>7 DEF DiscardStep, DiscardBegin, Abandon
<1>13. TargetActivate(c)
  BY <1>1, <1>4, <1>6, <1>7, <1>9, <1>10, <1>11, <1>12
     DEF Step, ActivateStep, ActivateBegin, SaveIntent, Confirm, SaveActivation
<1>14. /\ pc[c] = "activating" /\ Activation(c) = 0 /\ Admits(c)
       /\ target' = [[target EXCEPT !.activated[call[c].plan] = target.revision + 1]
                            EXCEPT !.revision = @ + 1, !.fence = call[c].generation]
  BY <1>1, <1>13 DEF TargetActivate, Mutate
<1>15. target \in Target
  BY TargetTyped DEF FlowInv
<1>16. target'.activated = [target.activated EXCEPT ![call[c].plan] = target.revision + 1]
  BY <1>14, <1>15 DEF Target
<1>. QED
  BY <1>14, <1>16

LEMMA ActivationsJustified ==
    ASSUME FlowInv, Next, NEW p \in Plans, target.activated'[p] # target.activated[p]
    PROVE  /\ plans[p].built /\ plans[p].revision = install.revision
           /\ evidence[p].verification = "passed" /\ target.revision = plans[p].observation
<1>1. PICK c \in Callers :
        /\ pc[c] = "activating" /\ Activation(c) = 0 /\ Admits(c)
        /\ target'.activated = [target.activated EXCEPT ![call[c].plan] = target.revision + 1]
  BY ActivationsSent
<1>2. p = call[c].plan
  BY <1>1, TargetTyped DEF FlowInv
<1>3. /\ plans[p].built /\ evidence[p].verification = "passed" /\ evidence[p].intent
      /\ call[c].expected = plans[p].observation
  BY <1>1, <1>2 DEF FlowInv, CallerInv, Intending
<1>4. evidence[p].activation = 0
  BY <1>1, <1>2 DEF FlowInv, ActivationInv, Activation
<1>5. install.active = p
  BY <1>3, <1>4 DEF FlowInv, ActivationInv
<1>6. plans[p].revision = install.revision
  BY <1>3, <1>5 DEF FlowInv, LedgerInv
<1>. QED
  BY <1>1, <1>3, <1>6 DEF Admits

LEMMA FlowAlways == Spec => []FlowInv
<1>1. FlowInv /\ [Next]_vars => FlowInv'
  BY FlowStep
<1>. QED
  BY <1>1, FlowInit, PTL DEF Spec

(* Whenever no plan is selected the target holds exactly what the          *)
(* installation owns, whatever leases, responses and processes were lost   *)
(* on the way (finish_construction, release, abandon).                     *)
THEOREM NothingOrphaned == Spec => []NoOrphans
BY FlowAlways, InstallationKnown, PTL

(* Every effect and activation the ledger has no record of yet belongs to  *)
(* the plan that stays selected, whose intent a retry finds; a discarded   *)
(* plan has none (begin_operation, save_intent, abandon).                  *)
THEOREM EffectsKnown == Spec => []LedgerKnows
BY FlowAlways, LedgerComplete, PTL

(* Receipts, constructions, verifications and activations once recorded    *)
(* are final, whichever attempts race to record them (save_evidence,       *)
(* complete_operation, finish_construction).                               *)
THEOREM EvidenceFinal == Spec => EvidenceStable
<1>1. FlowInv /\ [Next]_vars =>
        [\A p \in Plans :
            /\ \A i \in Positions : receipts[p][i] # 0 => receipts'[p][i] = receipts[p][i]
            /\ plans[p].built => plans'[p] = plans[p]
            /\ evidence[p].verification # "none" =>
                  evidence'[p].verification = evidence[p].verification
            /\ evidence[p].activation # 0 => evidence'[p].activation = evidence[p].activation]_vars
  BY FlowStep DEF Growth
<1>. QED
  BY <1>1, FlowAlways, PTL DEF Spec, EvidenceStable

(* A workflow is only activated from the construction installed now, which *)
(* passed verification, at the very revision of the target it was observed *)
(* at (activate, assert_claim, the target's expected revision).            *)
THEOREM InstalledActivated == Spec => ActivatesInstalled
<1>1. FlowInv /\ [Next]_vars =>
        [\A p \in Plans : target.activated'[p] # target.activated[p] =>
            /\ plans[p].built /\ plans[p].revision = install.revision
            /\ evidence[p].verification = "passed"
            /\ target.revision = plans[p].observation]_vars
  BY ActivationsJustified
<1>. QED
  BY <1>1, FlowAlways, PTL DEF Spec, ActivatesInstalled
=============================================================================

------------------------- MODULE FlowInstallation -------------------------
(***************************************************************************)
(* One Flow installation: the fenced ledger of runtime/flow/sqlite.py, the *)
(* construct, verify, activate and discard protocols that                  *)
(* runtime/flow/lifecycle.py runs over it, and the target service they     *)
(* mutate, as the contract of runtime/flow/host.py describes it.           *)
(*                                                                         *)
(* A caller is a host running one FlowLifecycle method at a time, under an *)
(* attempt identity of its own.  Each step is one ledger transaction or    *)
(* one target call.  The target numbers its changes, so an observation is  *)
(* the revision it was made at.  Plans are those without blockers:         *)
(* creations, then removals of owned resources.                            *)
(***************************************************************************)
EXTENDS FiniteSets, Naturals, Sequences

CONSTANTS
    Callers,       \* hosts calling the lifecycle, each its own attempt identity
    NoAttempt,     \* the ledger's NULL
    MaxPlans,      \* BOUND: plans saved
    MaxCreates,    \* BOUND: creations of one plan
    MaxClaims,     \* BOUND: generations
    MaxMishaps     \* BOUND: lost responses, unknown outcomes, failed scenarios,
                   \* crashes and edits of the target by its users

ASSUME FlowAssumption ==
    /\ NoAttempt \notin Callers
    /\ MaxPlans \in Nat /\ MaxCreates \in Nat

Plans == 1 .. MaxPlans
NoPlan == 0
(* A created resource is named after the operation that creates it. *)
Resources == Plans \X (1 .. MaxCreates)

VARIABLES
    install,   \* the flow_installations row
    plans,     \* flow_plans
    intents,   \* flow_operations rows: <<plan, position>>
    receipts,  \* per plan: resulting target revision per position, or 0
    evidence,  \* per plan: verification, activation intent, activation
    target,    \* the target service: revision, effects, activations
    pc, call,  \* per caller: place and locals
    mishaps    \* BOUND: what is left of them

ledger == <<install, plans, intents, receipts, evidence>>
vars == <<ledger, target, pc, call, mishaps>>

Operation == [action : {"create", "remove"}, id : Resources]
Positions == 1 .. MaxCreates + Cardinality(Resources)

Install == [revision : Nat, resources : SUBSET Resources, active : {NoPlan} \cup Plans,
            attempt : Callers \cup {NoAttempt}, generation : Nat, leased : BOOLEAN]
NoDoc == [saved |-> FALSE, base |-> 0, observed |-> 0, ops |-> << >>,
          built |-> FALSE, revision |-> 0, observation |-> 0, abandoned |-> FALSE]
NoEvidence == [verification |-> "none", intent |-> FALSE, activation |-> 0]
NoCall == [plan |-> NoPlan, generation |-> 0, expected |-> 0, i |-> 1,
           receipt |-> 0, outcome |-> "none"]

Init ==
    /\ install = [revision |-> 0, resources |-> {}, active |-> NoPlan,
                  attempt |-> NoAttempt, generation |-> 0, leased |-> FALSE]
    /\ plans = [p \in Plans |-> NoDoc]
    /\ intents = {}
    /\ receipts = [p \in Plans |-> [i \in Positions |-> 0]]
    /\ evidence = [p \in Plans |-> NoEvidence]
    /\ target = [revision |-> 1, effects |-> [p \in Plans |-> [i \in Positions |-> 0]],
                 activated |-> [p \in Plans |-> 0], fence |-> 0]
    /\ pc = [c \in Callers |-> "idle"]
    /\ call = [c \in Callers |-> NoCall]
    /\ mishaps = MaxMishaps

Mishap == mishaps > 0 /\ mishaps' = mishaps - 1
Go(c, place) == pc' = [pc EXCEPT ![c] = place]
Plan(c) == plans[call[c].plan]
Ops(c) == Plan(c).ops
Op(c) == Ops(c)[call[c].i]

-----------------------------------------------------------------------------
(* The ledger.                                                             *)

(* save_plan: the plan was made for the installation as it is now; the     *)
(* planner blocks the removal of an active resource.                       *)
Removable == {r \in install.resources : target.activated[r[1]] = 0}

SavePlan ==
    \E p \in Plans : \E n \in 0 .. MaxCreates : \E gone \in SUBSET Removable :
        LET create == [i \in 1 .. n |-> [action |-> "create", id |-> <<p, i>>]]
            remove == CHOOSE s \in [1 .. Cardinality(gone) -> Operation] :
                {s[i] : i \in DOMAIN s} = [action : {"remove"}, id : gone]
        IN  /\ ~plans[p].saved /\ \A q \in Plans : q < p => plans[q].saved
            /\ n + Cardinality(gone) > 0
            /\ plans' = [plans EXCEPT ![p] = [NoDoc EXCEPT
                    !.saved = TRUE, !.base = install.revision,
                    !.observed = target.revision, !.ops = create \o remove]]
            /\ UNCHANGED <<install, intents, receipts, evidence, target, pc, call, mishaps>>

(* claim: the plan is selected or none is, no other attempt holds a lease, *)
(* and the installation is the one the plan, or its construction, knows.   *)
MayClaim(p, a) ==
    /\ plans[p].saved /\ ~plans[p].abandoned
    /\ install.active \in {NoPlan, p}
    /\ install.attempt \in {NoAttempt, a} \/ ~install.leased
    /\ install.revision = IF plans[p].built THEN plans[p].revision ELSE plans[p].base

GenerationFor(a) ==
    IF install.attempt = a /\ install.leased THEN install.generation
    ELSE install.generation + 1

Claimed(p, a) ==
    [install EXCEPT !.active = p, !.attempt = a, !.leased = TRUE,
                    !.generation = GenerationFor(a)]

Holds(c) ==
    /\ install.active = call[c].plan /\ install.attempt = c
    /\ install.generation = call[c].generation /\ install.leased

(* A later plan must not race an uncertain one: it stays selected. *)
KeepsNone(p) == FALSE                                         \* MUTANT
KeepsSelected(p) ==
    \/ ~plans[p].built
    \/ evidence[p].intent /\ evidence[p].activation = 0

Released(p) ==
    [install EXCEPT !.active = IF KeepsSelected(p) THEN p ELSE NoPlan,
                    !.attempt = NoAttempt, !.leased = FALSE]

-----------------------------------------------------------------------------
(* Steps every operation shares.                                           *)

Begin(c) ==
    /\ pc[c] = "idle"
    /\ \E p \in Plans : \E op \in {"construct", "verify", "activate", "discard"} :
        /\ MayClaim(p, c) /\ GenerationFor(c) <= MaxClaims
        /\ install' = Claimed(p, c)
        /\ call' = [call EXCEPT ![c] = [NoCall EXCEPT !.plan = p, !.generation = GenerationFor(c)]]
        /\ Go(c, op)
    /\ UNCHANGED <<plans, intents, receipts, evidence, target, mishaps>>

(* Every operation ends by releasing its claim, unless it was fenced. *)
Release(c) ==
    /\ pc[c] = "release"
    /\ install' = IF Holds(c) THEN Released(call[c].plan) ELSE install
    /\ Go(c, "idle") /\ call' = [call EXCEPT ![c] = NoCall]
    /\ UNCHANGED <<plans, intents, receipts, evidence, target, mishaps>>

(* The claim is renewed between bounded operations; a refusal ends the     *)
(* call.                                                                   *)
Renew(c, from, to) ==
    /\ pc[c] = from
    /\ \/ /\ MayClaim(call[c].plan, c) /\ GenerationFor(c) <= MaxClaims
          /\ install' = Claimed(call[c].plan, c)
          /\ call' = [call EXCEPT ![c].generation = GenerationFor(c)]
          /\ Go(c, to)
       \/ /\ ~MayClaim(call[c].plan, c)
          /\ Go(c, "release")
          /\ UNCHANGED <<install, call>>
    /\ UNCHANGED <<plans, intents, receipts, evidence, target, mishaps>>

(* observe, and compare with the expected revision. *)
Observe(c, from, to) ==
    /\ pc[c] = from
    /\ Go(c, IF target.revision = call[c].expected THEN to ELSE "release")
    /\ UNCHANGED <<ledger, target, call, mishaps>>

(* assert_claim, the last look at the ledger before the target is changed. *)
AssertClaim(c, from, to) ==
    /\ pc[c] = from
    /\ Go(c, IF Holds(c) THEN to ELSE "release")
    /\ UNCHANGED <<ledger, target, call, mishaps>>

-----------------------------------------------------------------------------
(* The target (host.py).  A claim is a fencing token: the target refuses a *)
(* mutation older than one it has seen, and answers "absent" only once an  *)
(* older attempt can no longer commit.  Mutations name the revision they   *)
(* expect and are deduplicated by their operation.                         *)

Fenced(c) == [target EXCEPT !.fence = IF @ < call[c].generation THEN call[c].generation ELSE @]
Admits(c) == target.fence <= call[c].generation /\ target.revision = call[c].expected

(* recover and recover_activation: what became of a call that may have     *)
(* been sent; the answer can be that it is unknown.                        *)
Recover(c, from, done, found, absent, next) ==
    /\ pc[c] = from
    /\ target' = Fenced(c)
    /\ \/ /\ done # 0 /\ Go(c, found)
          /\ call' = [call EXCEPT ![c].receipt = done] /\ UNCHANGED mishaps
       \/ /\ done = 0 /\ Go(c, absent)
          /\ call' = next /\ UNCHANGED mishaps
       \/ /\ Mishap /\ Go(c, "release") /\ UNCHANGED call
    /\ UNCHANGED ledger

(* The target answers what it did; changed holds its new effect. *)
Mutate(c, from, done, changed, to) ==
    /\ pc[c] = from
    /\ \/ /\ done # 0
          /\ call' = [call EXCEPT ![c].receipt = done]
          /\ Go(c, to) /\ UNCHANGED target
       \/ /\ done = 0 /\ Admits(c)
          /\ target' = [changed EXCEPT !.revision = @ + 1, !.fence = call[c].generation]
          /\ call' = [call EXCEPT ![c].receipt = target.revision + 1]
          /\ Go(c, to)
       \/ /\ done = 0 /\ ~Admits(c)
          /\ Go(c, "release") /\ UNCHANGED <<target, call>>
    /\ UNCHANGED <<ledger, mishaps>>

(* The effect took place and its response was lost. *)
ResponseLost(c) ==
    /\ pc[c] \in {"complete", "confirm"}
    /\ Mishap
    /\ Go(c, "release")
    /\ UNCHANGED <<ledger, target, call>>

UserEdit ==
    /\ Mishap
    /\ target' = [target EXCEPT !.revision = @ + 1]
    /\ UNCHANGED <<ledger, pc, call>>

-----------------------------------------------------------------------------
(* construct.                                                              *)

Effect(c) == target.effects[call[c].plan][call[c].i]

(* A finished construction is only compared with the target. *)
ConstructBegin(c) ==
    /\ pc[c] = "construct"
    /\ IF Plan(c).built
       THEN Go(c, "release") /\ UNCHANGED call
       ELSE /\ Go(c, "operation")
            /\ call' = [call EXCEPT ![c].expected = Plan(c).observed]
    /\ UNCHANGED <<ledger, target, mishaps>>

(* The next operation, or the final comparison after the last one. *)
After(c) == IF call[c].i < Len(Ops(c)) THEN "operation" ELSE "compare"
Advance(c, revision) ==
    call' = [call EXCEPT ![c].expected = revision, ![c].i = @ + 1, ![c].receipt = 0]

(* begin_operation: the intent is durable before the target is asked, and  *)
(* an operation with a receipt is not sent again.                          *)
BeginOperation(c) ==
    LET p == call[c].plan
        i == call[c].i
    IN  /\ pc[c] = "intent"
        /\ \/ /\ ~Holds(c) /\ Go(c, "release") /\ UNCHANGED <<intents, call>>
           \/ /\ Holds(c)
              /\ intents' = intents \cup {<<p, i>>}
              /\ IF receipts[p][i] # 0
                 THEN Go(c, After(c)) /\ Advance(c, receipts[p][i])
                 ELSE Go(c, "recover") /\ UNCHANGED call
        /\ UNCHANGED <<install, plans, receipts, evidence, target, mishaps>>

TargetConstruct(c) ==
    Mutate(c, "mutate", Effect(c),
           [target EXCEPT !.effects[call[c].plan][call[c].i] = target.revision + 1], "complete")

(* complete_operation: a second result for an operation is a conflict. *)
CompleteOperation(c) ==
    LET p == call[c].plan
        i == call[c].i
    IN  /\ pc[c] = "complete"
        /\ \/ /\ Holds(c) /\ receipts[p][i] \in {0, call[c].receipt}
              /\ receipts' = [receipts EXCEPT ![p][i] = call[c].receipt]
              /\ Go(c, After(c)) /\ Advance(c, call[c].receipt)
           \/ /\ ~(Holds(c) /\ receipts[p][i] \in {0, call[c].receipt})
              /\ Go(c, "release")
              /\ UNCHANGED <<receipts, call>>
        /\ UNCHANGED <<install, plans, intents, evidence, target, mishaps>>

OwnsCreatedOnly(c) == install.resources \cup {o.id : o \in {Ops(c)[i] : i \in DOMAIN Ops(c)}} \* MUTANT
Owned(c) ==
    LET of(action) == {Ops(c)[i].id : i \in {k \in DOMAIN Ops(c) : Ops(c)[k].action = action}}
    IN  (install.resources \cup of("create")) \ of("remove")

(* finish_construction: one transaction replaces the installation and      *)
(* records the construction.                                               *)
FinishConstruction(c) ==
    LET p == call[c].plan
        complete == \A i \in DOMAIN Ops(c) : receipts[p][i] # 0
    IN  /\ pc[c] = "finish"
        /\ Go(c, "release")
        /\ IF Holds(c) /\ ~plans[p].built /\ complete
           THEN /\ install' = [install EXCEPT !.revision = @ + 1, !.resources = Owned(c)]
                /\ plans' = [plans EXCEPT ![p].built = TRUE,
                                          ![p].revision = install.revision + 1,
                                          ![p].observation = call[c].expected]
           ELSE UNCHANGED <<install, plans>>
        /\ UNCHANGED <<intents, receipts, evidence, target, call, mishaps>>

ConstructStep(c) ==
    \/ ConstructBegin(c)
    \/ Renew(c, "operation", "intent")
    \/ BeginOperation(c)
    \/ Recover(c, "recover", Effect(c), "complete", "check", call)
    \/ Observe(c, "check", "assert")
    \/ AssertClaim(c, "assert", "mutate")
    \/ TargetConstruct(c)
    \/ CompleteOperation(c)
    \/ Observe(c, "compare", "finish")
    \/ FinishConstruction(c)

-----------------------------------------------------------------------------
(* verify.                                                                 *)

VerifyBegin(c) ==
    /\ pc[c] = "verify"
    /\ IF Plan(c).built
       THEN Go(c, "unchanged") /\ call' = [call EXCEPT ![c].expected = Plan(c).observation]
       ELSE Go(c, "release") /\ UNCHANGED call
    /\ UNCHANGED <<ledger, target, mishaps>>

(* Evidence is never produced twice. *)
Previous(c) ==
    /\ pc[c] = "previous"
    /\ Go(c, IF evidence[call[c].plan].verification # "none" THEN "release" ELSE "scenario")
    /\ UNCHANGED <<ledger, target, call, mishaps>>

(* Each scenario renews the claim, runs under the target's own semantics   *)
(* and is followed by an observation; it passes, fails, or raises.  A      *)
(* native profile gives up when its lease had lapsed, whether it sees that *)
(* before it renews or by the new generation it is given.                  *)
GiveUpLapsed(c) ==
    /\ pc[c] = "scenario" /\ ~Holds(c)
    /\ Go(c, "release")
    /\ UNCHANGED <<ledger, target, call, mishaps>>

RunScenario(c) ==
    /\ pc[c] = "run"
    /\ \/ /\ call' = [call EXCEPT ![c].outcome = IF @ = "none" THEN "passed" ELSE @]
          /\ Go(c, "judge") /\ UNCHANGED mishaps
       \/ /\ call' = [call EXCEPT ![c].outcome = "failed"]
          /\ Go(c, "judge") /\ Mishap
       \/ Go(c, "release") /\ UNCHANGED <<call, mishaps>>
    /\ target' = Fenced(c)
    /\ UNCHANGED ledger

(* save_evidence, by the holder of the claim alone; a stored document is   *)
(* never replaced.                                                         *)
SaveReplacing(stored, new, none) == new                       \* MUTANT
SaveEvidence(stored, new, none) == IF stored = none THEN new ELSE stored

SaveVerification(c) ==
    /\ pc[c] = "scenario" /\ call[c].outcome # "none"
    /\ evidence' = IF ~Holds(c) THEN evidence ELSE
            [evidence EXCEPT ![call[c].plan].verification = SaveEvidence(@, call[c].outcome, "none")]
    /\ Go(c, "release")
    /\ UNCHANGED <<install, plans, intents, receipts, target, call, mishaps>>

VerifyStep(c) ==
    \/ VerifyBegin(c)
    \/ Observe(c, "unchanged", "previous")
    \/ Previous(c)
    \/ Renew(c, "scenario", "run") \/ GiveUpLapsed(c)
    \/ RunScenario(c)
    \/ Observe(c, "judge", "scenario")
    \/ SaveVerification(c)

-----------------------------------------------------------------------------
(* activate.                                                               *)

(* The approval names the evidence of this construction; evidence that is  *)
(* missing or failed is refused.                                           *)
VerifiedAnyhow(p) == evidence[p].verification # "none"        \* MUTANT
Verified(p) == evidence[p].verification = "passed"

ActivateBegin(c) ==
    /\ pc[c] = "activate"
    /\ IF Plan(c).built /\ Verified(call[c].plan)
       THEN /\ Go(c, IF evidence[call[c].plan].activation = 0 THEN "intend" ELSE "release")
            /\ call' = [call EXCEPT ![c].expected = Plan(c).observation]
       ELSE Go(c, "release") /\ UNCHANGED call
    /\ UNCHANGED <<ledger, target, mishaps>>

SaveIntent(c) ==
    /\ pc[c] = "intend"
    /\ IF Holds(c)
       THEN evidence' = [evidence EXCEPT ![call[c].plan].intent = TRUE] /\ Go(c, "readback")
       ELSE UNCHANGED evidence /\ Go(c, "release")
    /\ UNCHANGED <<install, plans, intents, receipts, target, call, mishaps>>

Activation(c) == target.activated[call[c].plan]

TargetActivate(c) ==
    Mutate(c, "activating", Activation(c),
           [target EXCEPT !.activated[call[c].plan] = target.revision + 1], "confirm")

(* The activated configuration must still be the observed one. *)
Confirm(c) ==
    /\ pc[c] = "confirm"
    /\ Go(c, IF target.revision = call[c].receipt THEN "record" ELSE "release")
    /\ UNCHANGED <<ledger, target, call, mishaps>>

SaveActivation(c) ==
    /\ pc[c] = "record"
    /\ evidence' = IF ~Holds(c) THEN evidence ELSE
            [evidence EXCEPT ![call[c].plan].activation = SaveEvidence(@, call[c].receipt, 0)]
    /\ Go(c, "release")
    /\ UNCHANGED <<install, plans, intents, receipts, target, call, mishaps>>

ActivateStep(c) ==
    \/ ActivateBegin(c)
    \/ SaveIntent(c)
    \/ Recover(c, "readback", Activation(c), "confirm", "unmoved", call)
    \/ Observe(c, "unmoved", "authorize")
    \/ AssertClaim(c, "authorize", "activating")
    \/ TargetActivate(c)
    \/ Confirm(c)
    \/ SaveActivation(c)

-----------------------------------------------------------------------------
(* discard: only a plan that provably had no effect.                       *)

NoResults(p) == ~plans[p].built /\ \A i \in Positions : receipts[p][i] = 0

DiscardBegin(c) ==
    /\ pc[c] = "discard"
    /\ Go(c, IF NoResults(call[c].plan) THEN "question" ELSE "release")
    /\ UNCHANGED <<ledger, target, call, mishaps>>

(* Every planned operation is asked for at the target. *)
Asked(c) == pc[c] = "question" /\ call[c].i > Len(Ops(c))

Abandon(c) ==
    LET p == call[c].plan
    IN  /\ Asked(c)
        /\ IF Holds(c) /\ NoResults(p) /\ evidence[p] = NoEvidence
           THEN /\ plans' = [plans EXCEPT ![p].abandoned = TRUE]
                /\ install' = [install EXCEPT !.active = NoPlan, !.attempt = NoAttempt,
                                              !.leased = FALSE]
           ELSE UNCHANGED <<plans, install>>
        /\ Go(c, "release")
        /\ UNCHANGED <<intents, receipts, evidence, target, call, mishaps>>

DiscardStep(c) ==
    \/ DiscardBegin(c)
    \/ ~Asked(c) /\ Renew(c, "question", "ask")
    \/ Recover(c, "ask", Effect(c), "release", "question", [call EXCEPT ![c].i = @ + 1])
    \/ Abandon(c)

-----------------------------------------------------------------------------
(* The lease lapses while its holder is slow; a process dies without       *)
(* running the release of its finally clause.                              *)

Lapse ==
    /\ install.leased
    /\ install' = [install EXCEPT !.leased = FALSE]
    /\ UNCHANGED <<plans, intents, receipts, evidence, target, pc, call, mishaps>>

Crash(c) ==
    /\ pc[c] # "idle"
    /\ Mishap
    /\ Go(c, "idle") /\ call' = [call EXCEPT ![c] = NoCall]
    /\ UNCHANGED <<ledger, target>>

Step(c) ==
    \/ Begin(c) \/ Release(c)
    \/ ConstructStep(c) \/ VerifyStep(c) \/ ActivateStep(c) \/ DiscardStep(c)
    \/ ResponseLost(c) \/ Crash(c)

Next == SavePlan \/ UserEdit \/ Lapse \/ \E c \in Callers : Step(c)

Spec == Init /\ [][Next]_vars

-----------------------------------------------------------------------------
(* Properties.                                                             *)

TypeOK ==
    /\ install \in Install
    /\ DOMAIN plans = Plans
    /\ \A p \in Plans : \A i \in DOMAIN plans[p].ops : plans[p].ops[i] \in Operation
    /\ intents \subseteq Plans \X Positions
    /\ receipts \in [Plans -> [Positions -> Nat]]
    /\ \A p \in Plans :
        evidence[p] \in [verification : {"none", "passed", "failed"},
                         intent : BOOLEAN, activation : Nat]
    /\ target.revision \in Nat /\ target.fence \in 0 .. install.generation
    /\ \A c \in Callers : call[c].plan \in {NoPlan} \cup Plans

Created == {r \in Resources : \E p \in Plans : \E i \in DOMAIN plans[p].ops :
               plans[p].ops[i] = [action |-> "create", id |-> r] /\ target.effects[p][i] # 0}
Removed == {r \in Resources : \E p \in Plans : \E i \in DOMAIN plans[p].ops :
               plans[p].ops[i] = [action |-> "remove", id |-> r] /\ target.effects[p][i] # 0}

(* A discard of several operations asks for each under a lease of its own, *)
(* and may forget one that was performed between two questions (README);   *)
(* the properties here are about discards that ask once.                   *)
DiscardsAskOnce == \A p \in Plans : plans[p].abandoned => Len(plans[p].ops) = 1

(* Whenever no plan is selected, so that a new one may be made, the target *)
(* holds exactly the resources the installation owns: neither a lapsed     *)
(* lease nor a lost response, a crash or a discard leaves a resource       *)
(* behind that the ledger does not know (finish_construction, abandon).    *)
NoOrphans ==
    install.active = NoPlan /\ DiscardsAskOnce => Created \ Removed = install.resources

(* An effect on the target whose receipt is missing belongs to the plan    *)
(* that stays selected, and its intent is durable: a retry can ask for it  *)
(* (begin_operation before construct, release's active_plan).              *)
EffectsRecoverable ==
    DiscardsAskOnce => \A p \in Plans :
        /\ \A i \in Positions : target.effects[p][i] # 0 /\ receipts[p][i] = 0 =>
              install.active = p /\ <<p, i>> \in intents
        /\ target.activated[p] # 0 /\ evidence[p].activation = 0 =>
              install.active = p /\ evidence[p].intent

(* A workflow is only activated from the construction that is installed    *)
(* now, which passed verification, at the very revision of the target its  *)
(* construction observed: no edit and no later plan comes between          *)
(* verification and activation (activate's observation and assert_claim).  *)
ActivatesInstalled ==
    [][\A p \in Plans : target.activated'[p] # target.activated[p] =>
          /\ plans[p].built /\ plans[p].revision = install.revision
          /\ evidence[p].verification = "passed"
          /\ target.revision = plans[p].observation]_vars

(* What a plan's ledger rows once recorded (receipts, construction,        *)
(* verification, activation) never changes, although several attempts may  *)
(* race to record it (flow.md: evidence is immutable for a plan).          *)
EvidenceStable ==
    [][\A p \in Plans :
        /\ \A i \in Positions : receipts[p][i] # 0 => receipts'[p][i] = receipts[p][i]
        /\ plans[p].built => plans'[p] = plans[p]
        /\ evidence[p].verification # "none" =>
              evidence'[p].verification = evidence[p].verification
        /\ evidence[p].activation # 0 => evidence'[p].activation = evidence[p].activation]_vars

(* A discarded plan has changed nothing and never will: a discard that     *)
(* asks once is fenced against every older attempt (abandon's assertion).  *)
DiscardedWithoutEffect ==
    DiscardsAskOnce =>
        \A p \in Plans : plans[p].abandoned => \A i \in Positions : target.effects[p][i] = 0

(* What the ledger knows of the target, effect by effect and resource by   *)
(* resource.                                                               *)
LedgerKnows == TypeOK /\ EffectsRecoverable /\ DiscardedWithoutEffect
=============================================================================

--------------------------- MODULE MCApplyEngine ---------------------------
(***************************************************************************)
(* Small instances of ApplyEngine.  Two routes, "contacts" read before     *)
(* "deals"; a contact may link to a deal (executed later) and a deal to a  *)
(* contact (executed earlier).                                             *)
(***************************************************************************)
EXTENDS ApplyRefinement, TLC

Contacts == "contacts"
Deals == "deals"

NoTargets == [r \in Routes |-> [x \in Records |-> {}]]

OneRoute == <<Contacts>>
TwoRoutes == <<Contacts, Deals>>

(* Every record links forward to deal 1 and back to contact 1. *)
CrossLinks ==
    [r \in Routes |-> [x \in Records |->
        IF r = Contacts THEN {<<Deals, 1>>} ELSE {<<Contacts, 1>>}]]

(* Contact 1 holds a scalar reference to deal 1, which runs later. *)
ForwardReference ==
    [r \in Routes |-> [x \in Records |->
        IF r = Contacts /\ x = 1 THEN {<<Deals, 1>>} ELSE {}]]

(* Contact 1 references contact 2 of the same route. *)
SelfReference ==
    [r \in Routes |-> [x \in Records |->
        IF r = Contacts /\ x = 1 THEN {<<Contacts, 2>>} ELSE {}]]

(* Contact 1 references contact 2, on the same page, and deal 1, on a later route. *)
WaitingReferences ==
    [r \in Routes |-> [x \in Records |->
        IF r = Contacts /\ x = 1 THEN {<<Contacts, 2>>, <<Deals, 1>>} ELSE {}]]

FullSource == {[r \in Routes |-> Records]}
AllSources == [Routes -> SUBSET Records]
ThreeAndOne == {[r \in Routes |-> IF r = Contacts THEN 1 .. 3 ELSE {1}]}
(* Processes are interchangeable: used by runs that check invariants only. *)
ProcessSymmetry == Permutations(Procs)
=============================================================================

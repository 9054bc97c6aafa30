---------------------------- MODULE ExactApply ----------------------------
(***************************************************************************)
(* What apply promises about one reviewed plan (engine.py's docstring and  *)
(* tenets 3 and 4 of docs/ARCHITECTURE.md): only approved records are      *)
(* written, a record is recorded as migrated after a write of it took      *)
(* effect and is not written again, the run is done when every approved    *)
(* record is migrated, and done is final.                                  *)
(***************************************************************************)
VARIABLES approved, written, migrated, done
vars == <<approved, written, migrated, done>>

Init == written = {} /\ migrated = {} /\ done = FALSE

(* One destination call: a record, or a page of them. *)
Write(S) ==
    /\ ~done /\ S \cap migrated = {}
    /\ written' = written \cup S
    /\ UNCHANGED <<approved, migrated, done>>

Record(S) ==
    /\ ~done
    /\ migrated' = migrated \cup S
    /\ UNCHANGED <<approved, written, done>>

Finish ==
    /\ ~done /\ migrated = approved
    /\ done' = TRUE
    /\ UNCHANGED <<approved, written, migrated>>

Next ==
    \/ \E S \in SUBSET approved : Write(S)
    \/ \E S \in SUBSET written : Record(S)
    \/ Finish

Spec == Init /\ [][Next]_vars

(* With a caller that re-applies an interrupted run, the run gets done. *)
Converges == <>done
=============================================================================

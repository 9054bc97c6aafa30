-------------------------- MODULE ApplyRefinement --------------------------
(***************************************************************************)
(* ApplyEngine implements ExactApply: the approved set is the frozen       *)
(* candidates, written are the records a destination write took effect     *)
(* for, migrated the terminal rows of the ledger, done the journal's       *)
(* "completed".                                                            *)
(***************************************************************************)
EXTENDS ApplyEngine

ApprovedRecords == {t \in Targets : t[2] \in candidates[t[1]]}
WrittenRecords == {t \in Targets : writes[t[1]][t[2]] > 0}
MigratedRecords == {t \in Targets : IsTerminal(ledger[t[1]][t[2]])}
Done == journal.status = "completed"

Promise == INSTANCE ExactApply WITH
    approved <- ApprovedRecords, written <- WrittenRecords,
    migrated <- MigratedRecords, done <- Done

(* Every behaviour of apply, over crashes, faults and source changes, is   *)
(* one the promise allows (one process at a time; see README for two).     *)
ImplementsExactApply == Promise!Spec

(* Every approved record's scalar references are approved records, none of *)
(* them further ahead on its own route than one page reaches: a record that *)
(* waits holds the checkpoint of its route, and the next page is not read.  *)
Resolvable ==
    \A t \in ApprovedRecords : \A u \in References[t[1]][t[2]] :
        u \in ApprovedRecords /\ (u[1] = t[1] => u[2] - t[2] < BatchSize)

(* Checkpoints and ledger make interrupted work resumable: when a caller   *)
(* keeps re-applying, finitely many faults and crashes cannot keep a run   *)
(* whose references resolve and whose source does not change from          *)
(* completing (docs/ARCHITECTURE.md tenet 4).                              *)
ResumeConverges == Resolvable => Promise!Converges

ResumeSpec == LiveSpec /\ \A p \in Procs : WF_vars(Start(p))
=============================================================================

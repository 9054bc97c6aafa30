-------------------------- MODULE ExecutionLedger --------------------------
(***************************************************************************)
(* The durable identity ledger of one run: table execution_results of      *)
(* sanka/runtime/execution/local.py, one row per (route, source record).   *)
(* A row keeps the write status and whether the destination record id is   *)
(* known.  These are pure operators over a table                           *)
(* [Routes -> [Records -> Row]]; the modules that extend this one own the  *)
(* variable.                                                               *)
(***************************************************************************)
EXTENDS FiniteSets, Naturals

Terminal == {"created", "updated", "skipped"}
Status == Terminal \cup {"failed"}

(* What one write reports, and what one row holds. *)
Outcome == [status : Status, known : BOOLEAN]
Row == [status : Status \cup {"none"}, known : BOOLEAN]
NoRow == [status |-> "none", known |-> FALSE]

IsTerminal(row) == row.status \in Terminal

MergeOverwrites(row, outcome) ==                              \* MUTANT
    [status |-> outcome.status, known |-> outcome.known \/ row.known]

(* One row through the ON CONFLICT clause of the upsert: a terminal status *)
(* is sticky and a known destination id is kept (COALESCE).                *)
Merge(row, outcome) ==
    [status |-> IF IsTerminal(row) THEN row.status ELSE outcome.status,
     known  |-> outcome.known \/ row.known]

(* upsert_results: the outcomes of the records in ids land in one table    *)
(* transaction.                                                            *)
UpsertResults(table, r, ids, outcomes) ==
    [table EXCEPT ![r] = [x \in DOMAIN table[r] |->
        IF x \in ids THEN Merge(table[r][x], outcomes[x]) ELSE table[r][x]]]

NoTerminalIds(table, r, ids) == {}                            \* MUTANT

(* terminal_destination_ids: the ids among ids with a terminal row. *)
TerminalIds(table, r, ids) == {x \in ids : IsTerminal(table[r][x])}

(* The lookup of _ExecutionIdentityLedger: the target t = <<route, record>> *)
(* has a terminal row whose destination id is known.                       *)
Resolved(table, t) == IsTerminal(table[t[1]][t[2]]) /\ table[t[1]][t[2]].known

(* _uncovered_candidate_count = 0. *)
Covered(table, r, ids) == TerminalIds(table, r, ids) = ids
=============================================================================

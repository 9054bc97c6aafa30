---------------------------- MODULE CloudMigrate ----------------------------
(***************************************************************************)
(* The cloud migration commands of sanka_cli/commands/cloud_migrate.py,    *)
(* the client of a hosted migration service that is not in this            *)
(* repository.                                                             *)
(*                                                                         *)
(* A command is a script of its requests and of the points where it may    *)
(* stop.  A case c holds what is given (the command, its words, --program  *)
(* and --migration, JSON output or not, what the operator answers) and     *)
(* what the service answers: the migrations linked to the program, the     *)
(* hash of the plan, the statuses that successive readings find, and the   *)
(* request that fails.  --tui, which all of them refuse, is left out.      *)
(***************************************************************************)
EXTENDS Integers, Sequences, SequencesExt, FiniteSetsExt

CONSTANTS
    Numbers     \* the texts that are numbers, with [value, whole]

None == "none"
New == "new"                       \* the id of a migration the service creates

-----------------------------------------------------------------------------
(* Scripts.                                                                *)

Sends(verb, what, id, hash, keyed) ==
    [kind |-> "send", verb |-> verb, what |-> what, id |-> id, hash |-> hash, keyed |-> keyed]
Get(what, id) == Sends("GET", what, id, None, FALSE)
Post(what, id) == Sends("POST", what, id, None, FALSE)
(* apply, repair, verify and review carry a fresh idempotency key. *)
Act(action, id, hash) == Sends("POST", action, id, hash, action \in {"apply", "repair", "verify", "review"})

Stop(how) == [kind |-> "stop", how |-> how]
Refuse(condition) == IF condition THEN <<Stop("refused")>> ELSE <<>>
If(condition, steps) == IF condition THEN steps ELSE <<>>

(* click.confirm: a refusal aborts. *)
Confirm(c) == IF c.agrees THEN <<>> ELSE <<Stop("aborted")>>

(* The steps up to the first stop, or to the request that fails. *)
Play(script, fails) ==
    LET Requests(k) == Cardinality({j \in 1 .. k : script[j].kind = "send"})
        last == Min({k \in DOMAIN script : script[k].kind = "stop"
                        \/ (script[k].kind = "send" /\ Requests(k) = fails)})
        steps == SubSeq(script, 1, last)
    IN  [sent |-> SelectSeq(steps, LAMBDA s : s.kind = "send"),
         wrote |-> SelectSeq(steps, LAMBDA s : s.kind = "write"),
         end |-> IF script[last].kind = "send" THEN "failed" ELSE script[last].how]

-----------------------------------------------------------------------------
(* Options.  A word is [key, inline]; "--key=value" has an inline value.   *)

AllowedFlags == [
    plan |-> {"--force", "--new", "--wait", "--no-wait"},
    apply |-> {"--yes", "--wait", "--no-wait"},
    status |-> {}, verify |-> {}, review |-> {}, pause |-> {},
    repair |-> {"--yes", "--wait", "--no-wait"},
    resume |-> {"--wait", "--no-wait"}, cancel |-> {"--yes"}]
AllowedValues == [
    plan |-> {"--sample-size", "--timeout"},
    apply |-> {"--plan-hash", "--route", "--timeout"},
    status |-> {}, verify |-> {}, review |-> {}, pause |-> {},
    repair |-> {"--plan-hash", "--timeout"},
    resume |-> {"--plan-hash", "--timeout"}, cancel |-> {}]
Commands == DOMAIN AllowedFlags

CloudOptions(command) ==
    [yes |-> FALSE, wait |-> command = "plan", force |-> FALSE, new |-> FALSE,
     sampleSize |-> 10, timeout |-> 600, planHash |-> "", routes |-> <<>>]

FlagSet(options, key) ==
    CASE key = "--no-wait" -> [options EXCEPT !.wait = FALSE]
      [] key = "--wait" -> [options EXCEPT !.wait = TRUE]
      [] key = "--yes" -> [options EXCEPT !.yes = TRUE]
      [] key = "--force" -> [options EXCEPT !.force = TRUE]
      [] key = "--new" -> [options EXCEPT !.new = TRUE]

ValueFits(key, value) ==
    CASE key = "--sample-size" ->
            value \in DOMAIN Numbers /\ Numbers[value].whole /\ Numbers[value].value >= 1
      [] key = "--timeout" -> value \in DOMAIN Numbers /\ Numbers[value].value > 0
      [] OTHER -> TRUE
ValueSet(options, key, value) ==
    CASE key = "--sample-size" -> [options EXCEPT !.sampleSize = Numbers[value].value]
      [] key = "--timeout" -> [options EXCEPT !.timeout = Numbers[value].value]
      [] key = "--plan-hash" -> [options EXCEPT !.planHash = value]
      [] key = "--route" -> [options EXCEPT !.routes = Append(@, value)]

WholeWord(word) == IF word.inline = None THEN word.key ELSE word.key \o "=" \o word.inline

(* The words in order; a value option without an inline value takes the    *)
(* next word, whatever it is.                                              *)
ParseOptions(command, words) ==
    LET Bad(p) == [p EXCEPT !.ok = FALSE]
        Take(p, key, value) ==
            IF ValueFits(key, value)
            THEN [p EXCEPT !.waits = None, !.options = ValueSet(@, key, value)] ELSE Bad(p)
        Word(p, word) ==
            CASE ~p.ok -> p
              [] p.waits # None -> Take(p, p.waits, WholeWord(word))
              [] word.key \in AllowedFlags[command] ->
                   IF word.inline # None THEN Bad(p) ELSE [p EXCEPT !.options = FlagSet(@, word.key)]
              [] word.key \in AllowedValues[command] ->
                   IF word.inline # None THEN Take(p, word.key, word.inline)
                   ELSE [p EXCEPT !.waits = word.key]
              [] OTHER -> Bad(p)
        parsed == FoldLeft(Word, [ok |-> TRUE, waits |-> None, options |-> CloudOptions(command)], words)
    IN  [ok |-> parsed.ok /\ parsed.waits = None, options |-> parsed.options]

(* A case with its words understood. *)
Parsed(c) == c @@ [parsed |-> ParseOptions(c.command, c.words)]
OptionsOf(c) == c.parsed.options

-----------------------------------------------------------------------------
(* Which migration.                                                        *)

Belongs(c) == c.program # None => c.migration \in Range(c.linked)
Creates(c) ==
    /\ c.migration = None /\ c.command = "plan"
    /\ OptionsOf(c).new \/ c.linked = <<>>
MigrationOf(c) ==
    CASE c.migration # None -> c.migration
      [] Creates(c) -> New
      [] c.migration = None /\ ~Creates(c) -> IF c.linked = <<>> THEN None ELSE c.linked[1]

ResolveMigration(c) ==
    If(c.program # None, <<Get("program", c.program)>>)
    \o (IF c.migration # None THEN Refuse(~Belongs(c)) \o <<Get("migration", c.migration)>>
        ELSE Refuse(c.program = None)
             \o (IF Creates(c) THEN <<Post("migrations", c.program)>>
                 ELSE Refuse(Len(c.linked) # 1) \o <<Get("migration", MigrationOf(c))>>))

(* Readings two seconds apart, which take no time themselves, until a      *)
(* terminal status or the deadline.                                        *)
PlanTerminal == {"requires_approval", "failed", "cancelled"}
ExecutionTerminal == {"applied", "verified", "failed", "paused", "cancelled"}
StatusAt(c, k) == c.statuses[Min({k, Len(c.statuses)})]
Readings(c, terminal) ==
    LET timeout == OptionsOf(c).timeout
    IN  Min({k \in 1 .. timeout + 1 : StatusAt(c, k) \in terminal \/ 2 * (k - 1) >= timeout})
PolledStatus(c, terminal) == StatusAt(c, Readings(c, terminal))
PollMigration(c, terminal) ==
    [k \in 1 .. Readings(c, terminal) |-> Get("migration", MigrationOf(c))]
    \o If(PolledStatus(c, terminal) \notin terminal, <<Stop("timed out")>>)

-----------------------------------------------------------------------------
(* The commands.                                                           *)

Plan(c) ==
    <<Post("plan", MigrationOf(c)) @@ [size |-> OptionsOf(c).sampleSize, force |-> OptionsOf(c).force]>>
    \o If(OptionsOf(c).wait,
          PollMigration(c, PlanTerminal)
          \o Refuse(PolledStatus(c, PlanTerminal) # "requires_approval")
          \o <<Get("plan", MigrationOf(c))>>)

(* The reviewed hash given, if any, has to be the plan's.                  *)
HashTaken(c) == TRUE                                                          \* MUTANT
HashAgrees(c) == OptionsOf(c).planHash \in {"", c.hash}
SentHash(c) == IF OptionsOf(c).planHash # "" THEN OptionsOf(c).planHash ELSE c.hash

(* Without --yes the plan is shown and confirmed, which JSON output cannot *)
(* do.                                                                     *)
HashBoundAction(c, action, confirms) ==
    <<Get("plan", MigrationOf(c))>>
    \o Refuse(c.hash = "") \o Refuse(~HashAgrees(c))
    \o If(confirms /\ ~OptionsOf(c).yes, Refuse(c.json) \o Confirm(c))
    \o <<Act(action, MigrationOf(c), SentHash(c))
         @@ [routes |-> IF action = "apply" THEN OptionsOf(c).routes ELSE <<>>]>>
    \o If(OptionsOf(c).wait, PollMigration(c, ExecutionTerminal))

SimpleAction(c, action) ==
    If(action = "cancel" /\ ~OptionsOf(c).yes, Refuse(c.json) \o Confirm(c))
    \o <<Act(action, MigrationOf(c), None)>>

Status(c) ==
    IF c.migration # None
    THEN <<Get("migration", c.migration)>>
         \o If(c.program # None, <<Get("program", c.program)>> \o Refuse(~Belongs(c)))
    ELSE Refuse(c.program = None) \o <<Get("program", c.program)>>
         \o [k \in DOMAIN c.linked |-> Get("migration", c.linked[k])]

Script(c) ==
    If(\E k \in DOMAIN c.words : WholeWord(c.words[k]) \in {"--help", "-h"}, <<Stop("help")>>)
    \o Refuse(~c.parsed.ok)
    \o (CASE c.command = "status" -> Status(c)
          [] c.command = "plan" -> ResolveMigration(c) \o Plan(c)
          [] c.command \in {"apply", "repair"} -> ResolveMigration(c) \o HashBoundAction(c, c.command, TRUE)
          [] c.command = "resume" -> ResolveMigration(c) \o HashBoundAction(c, "resume", FALSE)
          [] OTHER -> ResolveMigration(c) \o SimpleAction(c, c.command))
    \o <<Stop("done")>>

RunCloudCommand(c) == Play(Script(c), c.fails)

-----------------------------------------------------------------------------
(* PROPERTIES                                                              *)

(* Nothing is changed unasked: at most one request changes a migration,    *)
(* none does before the words are understood, and apply, repair and cancel *)
(* were confirmed or given --yes.                                          *)
AskedFirst(c, run) ==
    LET changes == {k \in DOMAIN run.sent : run.sent[k].verb = "POST" /\ run.sent[k].what # "migrations"}
    IN  /\ Cardinality(changes) <= 1
        /\ ~c.parsed.ok => run.sent = <<>>
        /\ \A k \in changes : run.sent[k].what \in {"apply", "repair", "cancel"} =>
             OptionsOf(c).yes \/ (c.agrees /\ ~c.json)

(* What runs is what was reviewed: the hash sent is the one of the plan    *)
(* that this command read of this migration, and the one the operator      *)
(* gave, if any.                                                           *)
BoundToReviewed(c, run) ==
    \A k \in DOMAIN run.sent : run.sent[k].what \in {"apply", "repair", "resume"} =>
          /\ run.sent[k].hash = c.hash /\ c.hash # ""
          /\ OptionsOf(c).planHash \in {"", c.hash}
          /\ \E j \in 1 .. k - 1 : run.sent[j] = Get("plan", run.sent[k].id)

(* A program's commands change its own migrations only, and an ambiguous   *)
(* choice changes none.                                                    *)
OwnMigration(c, run) ==
    \A k \in DOMAIN run.sent : run.sent[k].verb = "POST" /\ run.sent[k].what # "migrations" =>
          /\ c.program # None => run.sent[k].id \in Range(c.linked) \cup {New}
          /\ c.migration = None /\ run.sent[k].id # New => c.linked = <<run.sent[k].id>>
          /\ run.sent[k].id = New => \E j \in 1 .. k - 1 : run.sent[j].what = "migrations"

(* A command that waited and says it is done has read a status that ends   *)
(* the operation, and plan has then read the plan to review.               *)
WaitedForEnd(c, run) ==
    LET readings == {k \in DOMAIN run.sent : run.sent[k].what = "migration"
                       /\ \E j \in 1 .. k - 1 : run.sent[j].what \in {"plan", "apply", "repair", "resume"} /\ run.sent[j].verb = "POST"}
    IN  run.end = "done" /\ OptionsOf(c).wait =>
          IF c.command = "plan"
          THEN StatusAt(c, Cardinality(readings)) = "requires_approval" /\ Last(run.sent).what = "plan"
          ELSE StatusAt(c, Cardinality(readings)) \in ExecutionTerminal

CloudSafe(case) ==
    LET c == Parsed(case)
        run == RunCloudCommand(c)
    IN  AskedFirst(c, run) /\ BoundToReviewed(c, run) /\ OwnMigration(c, run) /\ WaitedForEnd(c, run)
=============================================================================

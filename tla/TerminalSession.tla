-------------------------- MODULE TerminalSession --------------------------
(***************************************************************************)
(* The terminal interface: one event loop that owns the session, a stack   *)
(* of screens, and worker threads that run stages, installations and cloud *)
(* polls and hand their results back to the loop (call_from_thread).  The  *)
(* session's busy flag is what keeps one local task at a time; a worker    *)
(* cannot be stopped, so its result may arrive after its screen has gone.  *)
(*                                                                         *)
(* Plans are numbered in the order they are written; a number stands for   *)
(* the plan's hash.                                                        *)
(***************************************************************************)
EXTENDS Integers, Sequences, FiniteSets, SequencesExt

CONSTANTS
    Jobs,         \* the cloud runs that can be monitored
    MaxPlans,     \* bound on the plans written
    MaxWorkers,   \* bound on the threads at work at once
    MaxScreens    \* bound on the depth of the screen stack

ASSUME TerminalBounds == MaxPlans \in Nat /\ MaxWorkers \in Nat /\ MaxScreens \in Nat \ {0}
ASSUME JobsAssumption == "none" \notin Jobs

VARIABLES
    stack,      \* the screens, the status screen at the bottom
    busy,       \* session.busy
    job,        \* session.job
    planHash,   \* session.plan_hash, NoHash when none was chosen
    disk,       \* the plan in plan.json, NoHash if none
    plans,      \* plans written so far
    worker,     \* the threads
    settled,    \* the cloud runs that have ended, at the service
    exited,     \* the application has ended
    chosen,     \* hashes the user confirmed or pointed at since the apply was asked for
    stray       \* a monitor was left with an answer under way

sessionVars == <<stack, busy, job, planHash, disk, plans, worker, settled, exited, chosen, stray>>

NoHash == 0
NoJob == "none"
Hashes == 0..MaxPlans
\* scan, test and verify differ from a plan that ends without one in nothing that
\* the session keeps.
LocalStages == {"plan", "apply"}

Screen(kind, command, of) == [kind |-> kind, command |-> command, of |-> of]
Status == Screen("status", "none", 0)
Top == Last(stack)
On(kind) == Top.kind = kind

\* A thread: the task it has, where it stands, the hash it read, the job it polls
\* and the screen (its place in the stack) it answers to.
Thread(task, command, of, screen) ==
    [task |-> task, command |-> command, pc |-> "starting", hash |-> NoHash, job |-> of,
     screen |-> screen, cancelled |-> FALSE, deadline |-> FALSE]
Done == [Thread("none", "none", NoJob, 0) EXCEPT !.pc = "done"]

SessionInit ==
    /\ stack = <<Status>>
    /\ busy = FALSE
    /\ job = NoJob
    \* A plan may be there from before.
    /\ planHash = NoHash /\ plans \in {0, 1} \cap Hashes /\ disk = plans
    /\ worker = [w \in 1..MaxWorkers |-> Done]
    /\ settled = {}
    /\ exited = FALSE
    /\ chosen = {}
    /\ stray = FALSE

-----------------------------------------------------------------------------
(* Screens.                                                                 *)

Push(screen) == Len(stack) < MaxScreens /\ stack' = Append(stack, screen)

\* Resuming the status screen forgets the cloud run.
Pop ==
    /\ stack' = Front(stack)
    /\ job' = IF Last(Front(stack)).kind = "status" THEN NoJob
              ELSE IF Last(Front(stack)).kind = "monitor" THEN Last(Front(stack)).of ELSE job

IdleThreads == {w \in DOMAIN worker : worker[w] = Done}
CanStart == IdleThreads # {}
StartThread(thread) == worker' = [worker EXCEPT ![CHOOSE w \in IdleThreads : TRUE] = thread]

\* action_stage: from any screen that is not a dialogue.  A run under way and a
\* monitored cloud run refuse it.
OpenStage(c) ==
    /\ Top.kind \in {"status", "stage", "monitor"}
    /\ ~busy /\ job = NoJob
    /\ Push(Screen("stage", c, 0))
    /\ UNCHANGED <<busy, job, planHash, disk, plans, worker, settled, exited, chosen, stray>>

\* The apply screen lists the plan on disk and the session's; pointing at one
\* chooses it, whatever is running.
Point ==
    /\ On("stage") /\ Top.command = "apply"
    /\ planHash' \in {disk, planHash} \ {NoHash}
    /\ chosen' = chosen \cup {planHash'}
    /\ UNCHANGED <<stack, busy, job, disk, plans, worker, settled, exited, stray>>

-----------------------------------------------------------------------------
(* Running a stage.                                                         *)

StartsWhileBusy == TRUE \* MUTANT
MayStart == ~busy

\* _start: the thread reads the session's hash when it gets to run.
Started(c, screen) ==
    IF MayStart
    THEN /\ CanStart
         /\ StartThread(Thread("stage", c, NoJob, screen))
         /\ busy' = TRUE
    ELSE UNCHANGED <<worker, busy>>

PressRun ==
    /\ On("stage")
    /\ IF Top.command = "apply"
       THEN /\ planHash # NoHash
            /\ Push(Screen("confirm", "apply", planHash))
            /\ UNCHANGED <<busy, worker>>
       ELSE Started(Top.command, Len(stack)) /\ stack' = stack
    /\ UNCHANGED <<job, planHash, disk, plans, settled, exited, chosen, stray>>

\* The answer to "Apply <hash>": no, or yes and the apply begins.
Answer ==
    /\ On("confirm")
    /\ stack' = Front(stack)
    /\ \/ UNCHANGED <<busy, worker, chosen>>
       \/ Started("apply", Len(stack) - 1) /\ chosen' = {Top.of}
    /\ UNCHANGED <<job, planHash, disk, plans, settled, exited, stray>>

\* A plan whose extension is missing offers its installation first, which holds the
\* session the same way.
PressInstall ==
    /\ On("stage") /\ Top.command = "plan"
    /\ ~busy /\ CanStart
    /\ Push(Screen("install", "none", 0))
    /\ busy' = TRUE
    /\ StartThread(Thread("install", "none", NoJob, Len(stack) + 1))
    /\ UNCHANGED <<job, planHash, disk, plans, settled, exited, chosen, stray>>

\* Closing it goes on with the plan when the installation succeeded.
CloseInstall ==
    /\ On("install") /\ ~busy
    /\ stack' = Front(stack)
    /\ Started("plan", Len(stack) - 1) \/ UNCHANGED <<worker, busy>>
    /\ UNCHANGED <<job, planHash, disk, plans, settled, exited, chosen, stray>>

Ends(w) == worker' = [worker EXCEPT ![w] = Done]
Becomes(w, pc) == worker' = [worker EXCEPT ![w].pc = pc]
Notes(w, pc, hash) == worker' = [worker EXCEPT ![w].pc = pc, ![w].hash = hash]

BeginWork(w) ==
    /\ worker[w].pc = "starting"
    /\ worker[w].task \in {"stage", "install"}
    /\ Notes(w, "running", planHash)
    /\ UNCHANGED <<stack, busy, job, planHash, disk, plans, settled, exited, chosen, stray>>

\* run_local always ends with an outcome.  A plan that succeeds replaces plan.json;
\* an apply runs only the plan on disk, and reports its hash.
EndWork(w) ==
    /\ worker[w].pc = "running"
    /\ \/ /\ worker[w].command = "plan" /\ plans < MaxPlans
          /\ plans' = plans + 1 /\ disk' = plans + 1
          /\ Notes(w, "answer", plans + 1)
       \/ /\ worker[w].command = "apply" => worker[w].hash = disk
          /\ UNCHANGED <<plans, disk>>
          /\ Notes(w, "answer", IF worker[w].command = "apply" THEN disk ELSE NoHash)
       \/ UNCHANGED <<plans, disk>> /\ Notes(w, "answer", NoHash)
    /\ UNCHANGED <<stack, busy, job, planHash, settled, exited, chosen, stray>>

\* _finish and _finished, in the loop.
Finish(w) ==
    /\ worker[w].task \in {"stage", "install"} /\ worker[w].pc = "answer"
    /\ busy' = FALSE
    /\ planHash' = IF worker[w].hash # NoHash THEN worker[w].hash ELSE planHash
    /\ Ends(w)
    /\ UNCHANGED <<stack, job, disk, plans, settled, exited, chosen, stray>>

-----------------------------------------------------------------------------
(* Monitoring a cloud run.                                                  *)

\* Opened from the status screen with what the list said of the run; one that has
\* not settled is polled until it has, or for as long as the wait limit.
OpenMonitor(j) ==
    /\ On("status") /\ ~busy /\ CanStart
    /\ Push(Screen("monitor", "none", j))
    /\ job' = j
    /\ \/ /\ busy' = TRUE
          /\ StartThread([Thread("poll", "none", j, Len(stack) + 1) EXCEPT !.pc = "asking"])
       \/ /\ j \in settled
          /\ UNCHANGED <<busy, worker>>
    /\ UNCHANGED <<planHash, disk, plans, settled, exited, chosen, stray>>

\* The refresh button asks once more, beside the poll.
Refresh ==
    /\ On("monitor") /\ CanStart
    /\ StartThread([Thread("refresh", "none", Top.of, Len(stack)) EXCEPT !.pc = "asking"])
    /\ UNCHANGED <<stack, busy, job, planHash, disk, plans, settled, exited, chosen, stray>>

\* The service answers with the run's status, or the request fails.
Poll(w) ==
    /\ worker[w].pc = "asking" /\ worker[w].task \in {"poll", "refresh"}
    /\ \/ Becomes(w, IF worker[w].job \in settled THEN "settled" ELSE "pending")
       \/ Becomes(w, "failed")
    /\ UNCHANGED <<stack, busy, job, planHash, disk, plans, settled, exited, chosen, stray>>

OnScreen(w) == worker[w].screen <= Len(stack) /\ ~worker[w].cancelled

\* _polled.  A screen that is gone refuses to show anything; whether that stops the
\* handler before it settles the session is the library's affair.
Polled(w) ==
    /\ worker[w].pc \in {"settled", "pending"}
    /\ \/ OnScreen(w) /\ job' = worker[w].job
       \/ ~OnScreen(w) /\ job' \in {job, worker[w].job}
    /\ busy' \in IF worker[w].pc = "pending" THEN {busy}
                 ELSE IF OnScreen(w) THEN {FALSE} ELSE {busy, FALSE}
    /\ IF worker[w].pc = "settled" \/ worker[w].task = "refresh" \/ worker[w].cancelled
       THEN Ends(w)
       ELSE Becomes(w, IF worker[w].deadline THEN "timed_out" ELSE "asking")
    /\ UNCHANGED <<stack, planHash, disk, plans, settled, exited, chosen, stray>>

\* _failed and _timed_out clear the flag before they touch the screen.
ReleasedOnFailure(w) == worker[w].pc # "timed_out" \* MUTANT
Released(w) == worker[w].pc \in {"failed", "timed_out"}
GiveUp(w) ==
    /\ worker[w].pc \in {"failed", "timed_out"}
    /\ busy' = (busy /\ ~Released(w))
    /\ Ends(w)
    /\ UNCHANGED <<stack, job, planHash, disk, plans, settled, exited, chosen, stray>>

PassDeadline(w) ==
    /\ worker[w].task = "poll" /\ ~worker[w].deadline
    /\ worker' = [worker EXCEPT ![w].deadline = TRUE]
    /\ UNCHANGED <<stack, busy, job, planHash, disk, plans, settled, exited, chosen, stray>>

\* Leaving a monitor cancels its threads: one that waits stops, one that asks still
\* answers.
Answering(w) ==
    worker[w].task \in {"poll", "refresh"} /\ worker[w].screen = Len(stack)
Leave ==
    /\ Pop
    /\ worker' = [w \in DOMAIN worker |-> IF Answering(w) THEN [worker[w] EXCEPT !.cancelled = TRUE] ELSE worker[w]]
    /\ stray' = (stray \/ \E w \in DOMAIN worker : Answering(w))

\* Detach releases the session; the button reads Close once the screen was shown a
\* settled run, and that showing released it.
Detach ==
    /\ On("monitor")
    /\ Leave
    /\ busy' = FALSE
    /\ UNCHANGED <<planHash, disk, plans, settled, exited, chosen>>

JobSettles(j) ==
    /\ j \notin settled
    /\ settled' = settled \cup {j}
    /\ UNCHANGED <<stack, busy, job, planHash, disk, plans, worker, exited, chosen, stray>>

-----------------------------------------------------------------------------
\* Escape: refused while busy; the status screen quits.
Back ==
    /\ ~busy /\ Top.kind \in {"status", "stage", "monitor"}
    /\ IF Len(stack) = 1
       THEN exited' = TRUE /\ UNCHANGED <<stack, job, worker, stray>>
       ELSE Leave /\ exited' = exited
    /\ UNCHANGED <<busy, planHash, disk, plans, settled, chosen>>

\* q ends the application at any time.  What the threads at work still do then no
\* session sees.
Quit ==
    /\ exited' = TRUE
    /\ UNCHANGED <<stack, busy, job, planHash, disk, plans, worker, settled, chosen, stray>>

ThreadStep(w) == BeginWork(w) \/ EndWork(w) \/ Finish(w) \/ Poll(w) \/ Polled(w) \/ GiveUp(w)

SessionStep ==
    \/ \E c \in LocalStages : OpenStage(c)
    \/ Point \/ PressRun \/ Answer \/ PressInstall \/ CloseInstall
    \/ \E j \in Jobs : OpenMonitor(j) \/ JobSettles(j)
    \/ Refresh \/ Detach \/ Back \/ Quit
    \/ \E w \in DOMAIN worker : ThreadStep(w) \/ PassDeadline(w)

SessionNext == ~exited /\ SessionStep

\* Threads run, their requests and stages are bounded in time, the loop takes what
\* they hand it, and the wait limit passes.
SessionSpec == SessionInit /\ [][SessionNext]_sessionVars
             /\ \A w \in 1..MaxWorkers : WF_sessionVars(~exited /\ ThreadStep(w)) /\ WF_sessionVars(~exited /\ PassDeadline(w))

-----------------------------------------------------------------------------
SessionTypeOK ==
    /\ stack # <<>> /\ Head(stack) = Status
    /\ busy \in BOOLEAN /\ exited \in BOOLEAN /\ stray \in BOOLEAN
    /\ job \in Jobs \cup {NoJob} /\ settled \subseteq Jobs
    /\ {planHash, disk} \cup chosen \subseteq Hashes /\ disk <= plans
    /\ \A w \in DOMAIN worker : worker[w].screen \in 0..MaxScreens /\ worker[w].hash \in Hashes

Local(w) == worker[w].task \in {"stage", "install"}

\* As long as no monitor was left with an answer under way, at most one stage or
\* installation runs at a time, and the session says so.
SingleFlight ==
    ~stray => /\ \A v, w \in DOMAIN worker : Local(v) /\ Local(w) => v = w
              /\ (\E w \in DOMAIN worker : Local(w)) => busy

\* And an apply uses a hash the user confirmed, or pointed at since, never one that
\* a stage brought along in between.
AppliedWasChosen ==
    ~stray => \A w \in DOMAIN worker :
      worker[w].command = "apply" /\ worker[w].pc = "running" => worker[w].hash \in chosen

\* One thing at a time, and the one the user chose.
OneChosenStage == SessionTypeOK /\ SingleFlight /\ AppliedWasChosen

\* The session is never held for good.
BusyClears == busy ~> (~busy \/ exited)
=============================================================================

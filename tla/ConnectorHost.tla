--------------------------- MODULE ConnectorHost ---------------------------
(***************************************************************************)
(* One connector client and the host processes it starts.  The client      *)
(* sends one request line at a time to a host process, without a limit on  *)
(* how long the write takes, and then waits, for a bounded time, for one   *)
(* response line; a reader thread moves the lines the host writes into a   *)
(* queue.  A host loads the connector, answers one line with one line, and *)
(* may print of its own, complain on its standard error, hang or exit at   *)
(* any step.  Several threads share the client (asyncio.to_thread), one at *)
(* a time under its lock.                                                  *)
(*                                                                         *)
(* A provider call leaves a trace in "performed", so that what a caller is *)
(* told can be compared with what was done.                                *)
(***************************************************************************)
EXTENDS Integers, Sequences, FiniteSets, SequencesExt

CONSTANTS
    Callers,        \* the threads that share the client
    MaxRequests,    \* bound on the requests that get an identity
    MaxProcesses,   \* bound on the host processes started
    MaxFaults       \* bound on hangs, exits, stray lines and complaints

ASSUME BoundsAssumption ==
    /\ MaxRequests \in Nat \ {0}
    /\ MaxProcesses \in Nat \ {0}
    /\ MaxFaults \in Nat

VARIABLES
    lock,       \* the caller inside the client, or Free
    caller,     \* per caller: its place in request(), its identity, its outcome
    current,    \* the process the client owns, 0 when it owns none
    requestId,  \* the last identity given
    host,       \* per process: its state, input, output pipe and reader queue
    performed,  \* per request identity: how often the provider was called
    faults      \* faults so far

vars == <<lock, caller, current, requestId, host, performed, faults>>

Free == "free"

\* The lock's own value is no thread.
ASSUME CallersAssumption == Free \notin Callers

Processes == 1..MaxProcesses
Ids == 1..MaxRequests

\* What a host writes: an answer to a request, a line of the connector's own,
\* or, as the reader sees it, the end of the stream.
Answer(id, ok) == [kind |-> "answer", id |-> id, ok |-> ok]
Stray == [kind |-> "stray", id |-> 0, ok |-> FALSE]
Eof == [kind |-> "eof", id |-> 0, ok |-> FALSE]

Unborn == [state |-> "unborn", stdin |-> <<>>, pipe |-> <<>>, queue |-> <<>>,
           eof |-> FALSE, stderr |-> FALSE]

\* What request() gives its caller: a result, an error the host reports, or an
\* error of the client's own, raised before or after the line was written.
BeforeWrite == {"START", "EXIT_BEFORE", "UNSOLICITED", "STDERR_BEFORE", "PAYLOAD"}
AfterWrite == {"EXIT", "BROKEN_PIPE", "STDERR", "TIMEOUT", "MALFORMED"}
Outcomes == {"none", "RESULT", "REMOTE"} \cup BeforeWrite \cup AfterWrite

Idle == [pc |-> "idle", id |-> 0, outcome |-> "none", answer |-> 0]

Init ==
    /\ lock = Free
    /\ caller = [c \in Callers |-> Idle]
    /\ current = 0
    /\ requestId = 0
    /\ host = [p \in Processes |-> Unborn]
    /\ performed = [i \in Ids |-> 0]
    /\ faults = 0

Alive(p) == host[p].state \in {"loading", "ready", "hung"}

-----------------------------------------------------------------------------
(* The client, inside request() with its lock held.                        *)

\* The host table after close(): the process is terminated, and its pipes and
\* queues are dropped with it.
Closed(p) ==
    IF p = 0 THEN host
    ELSE [host EXCEPT ![p] = [Unborn EXCEPT !.state = "exited", !.eof = TRUE]]

At(c, where) ==
    /\ lock = c
    /\ caller[c].pc = where

Move(c, where) == caller' = [caller EXCEPT ![c].pc = where]

\* request() ends for c with this outcome and gives the lock back.
Leave(c, outcome, answer) ==
    /\ caller' = [caller EXCEPT ![c].pc = "done", ![c].outcome = outcome,
                                ![c].answer = answer]
    /\ lock' = Free

\* An error after which the process cannot be trusted to be in step.
Fail(c, outcome) ==
    /\ Leave(c, outcome, 0)
    /\ host' = Closed(current)
    /\ current' = 0
    /\ UNCHANGED <<requestId, performed, faults>>

Request(c) ==
    /\ lock = Free
    /\ caller[c].pc \in {"idle", "done"}
    /\ requestId < MaxRequests
    /\ \E p \in Processes : host[p].state = "unborn"
    /\ lock' = c
    /\ caller' = [caller EXCEPT ![c] = [Idle EXCEPT !.pc = "start"]]
    /\ UNCHANGED <<current, requestId, host, performed, faults>>

\* _start reuses a live process and reports one that exited meanwhile ...
Reuse(c) ==
    /\ At(c, "start")
    /\ current # 0
    /\ IF Alive(current)
       THEN /\ Move(c, "prepare")
            /\ UNCHANGED <<lock, current, requestId, host, performed, faults>>
       ELSE Fail(c, "EXIT_BEFORE")

\* ... or starts one, and listens for a moment for output it did not ask for.
Spawn(c) ==
    /\ At(c, "start")
    /\ current = 0
    /\ \E p \in Processes :
         /\ host[p].state = "unborn"
         /\ \A q \in Processes : host[q].state = "unborn" => p <= q
         /\ host' = [host EXCEPT ![p].state = "loading"]
         /\ current' = p
    /\ Move(c, "listen")
    /\ UNCHANGED <<lock, requestId, performed, faults>>

\* The operating system refuses to start one: the client owns none afterwards.
SpawnFails(c) ==
    /\ At(c, "start")
    /\ current = 0
    /\ Fail(c, "START")

Listen(c) ==
    /\ At(c, "listen")
    /\ IF host[current].queue = <<>>
       THEN /\ Move(c, "prepare")
            /\ UNCHANGED <<lock, current, requestId, host, performed, faults>>
       ELSE Fail(c, IF Head(host[current].queue) = Eof THEN "EXIT_BEFORE"
                                                       ELSE "UNSOLICITED")

\* What stops a request before it gets an identity.
Obstacles ==
    (IF host[current].queue # <<>> THEN {"UNSOLICITED"} ELSE {})
      \cup (IF Alive(current) THEN {} ELSE {"EXIT_BEFORE"})
      \cup (IF host[current].stderr THEN {"STDERR_BEFORE"} ELSE {})

Refuse(c) ==
    /\ At(c, "prepare")
    /\ \E outcome \in Obstacles : Fail(c, outcome)

\* The checks of the queue and of the process are exact at this instant; the
\* complaint on standard error may still be on its way.  A payload that cannot
\* be encoded, or is too long, is refused with its identity spent and the
\* process kept.
Prepare(c) ==
    /\ At(c, "prepare")
    /\ Obstacles \subseteq {"STDERR_BEFORE"}
    /\ requestId' = requestId + 1
    /\ \/ /\ caller' = [caller EXCEPT ![c].pc = "send", ![c].id = requestId + 1]
          /\ lock' = lock
       \/ /\ caller' = [caller EXCEPT ![c].pc = "done", ![c].id = requestId + 1,
                                      ![c].outcome = "PAYLOAD"]
          /\ lock' = Free
    /\ UNCHANGED <<current, host, performed, faults>>

Written(c) ==
    /\ host' = [host EXCEPT ![current].stdin = Append(@, caller[c].id)]
    /\ Move(c, "await")
    /\ UNCHANGED <<lock, current, requestId, performed, faults>>

\* A line that fits the pipe is written at once, whatever the host does; a longer one
\* (a request may have 4 MiB, a pipe holds 64 KiB) leaves the caller in the write until
\* the host reads it.  A pipe nobody reads any more breaks: closing it then breaks a
\* second time when the line is still buffered, and the caller is given the bare error.
Send(c) ==
    /\ At(c, "send")
    /\ \/ Alive(current) /\ Written(c)
       \/ /\ Alive(current)
          /\ Move(c, "write")
          /\ UNCHANGED <<lock, current, requestId, host, performed, faults>>
       \/ ~Alive(current) /\ \E outcome \in {"EXIT", "BROKEN_PIPE"} : Fail(c, outcome)

WriteBreaks(c) ==
    /\ At(c, "write")
    /\ ~Alive(current)
    /\ Fail(c, "EXIT")

\* The wait may end at any moment without a line: how long a host takes is not
\* the client's to say.
TimeOutKeepsHost(c) == \* MUTANT
    /\ At(c, "await")
    /\ host[current].queue = <<>>
    /\ Leave(c, "TIMEOUT", 0)
    /\ UNCHANGED <<current, requestId, host, performed, faults>>
NoTimeOut(c) == At(c, "await") /\ FALSE \* MUTANT
TimeOut(c) ==
    /\ At(c, "await")
    /\ host[current].queue = <<>>
    /\ Fail(c, "TIMEOUT")

\* A line is taken for the answer only when it is a response with this request's
\* identity.
Accepts(line, id) == line.kind = "answer" /\ line.id = id

Receive(c) ==
    /\ At(c, "await")
    /\ host[current].queue # <<>>
    /\ LET line == Head(host[current].queue) IN
         \/ /\ host[current].stderr
            /\ Fail(c, "STDERR")
         \/ /\ line = Eof
            /\ Fail(c, "EXIT")
         \/ /\ line # Eof
            /\ ~Accepts(line, caller[c].id)
            /\ Fail(c, "MALFORMED")
         \/ /\ Accepts(line, caller[c].id)
            /\ host' = [host EXCEPT ![current].queue = Tail(@)]
            /\ Leave(c, IF line.ok THEN "RESULT" ELSE "REMOTE", line.id)
            /\ UNCHANGED <<current, requestId, performed, faults>>

\* The store closes the client (its own close, or the removal of the extension).
Close ==
    /\ lock = Free
    /\ current # 0
    /\ host' = Closed(current)
    /\ current' = 0
    /\ UNCHANGED <<lock, caller, requestId, performed, faults>>

-----------------------------------------------------------------------------
(* The reader thread of a process and the process itself.                  *)

ReadStdout(p) ==
    /\ \/ /\ host[p].pipe # <<>>
          /\ host' = [host EXCEPT ![p].pipe = Tail(@),
                                  ![p].queue = Append(@, Head(host[p].pipe))]
       \/ /\ host[p].state = "exited" /\ ~host[p].eof /\ host[p].pipe = <<>>
          /\ host' = [host EXCEPT ![p].eof = TRUE, ![p].queue = Append(@, Eof)]
    /\ UNCHANGED <<lock, caller, current, requestId, performed, faults>>

Fault == faults < MaxFaults /\ faults' = faults + 1

\* serve: the registrations load, or the host says why not and ends.
Loaded(p) ==
    /\ host[p].state = "loading"
    /\ host' = [host EXCEPT ![p].state = "ready"]
    /\ UNCHANGED <<lock, caller, current, requestId, performed, faults>>

LoadFails(p) ==
    /\ host[p].state = "loading"
    /\ Fault
    /\ host' = [host EXCEPT ![p].state = "exited", ![p].pipe = Append(@, Answer(0, FALSE))]
    /\ UNCHANGED <<lock, caller, current, requestId, performed>>

\* A host that has loaded its connector reads what a caller is still writing.
ReadStdin(p) ==
    /\ p = current
    /\ host[p].state = "ready"
    /\ \E c \in Callers : At(c, "write") /\ Written(c)

\* One line in, one line out: the provider is called once at most (a request the
\* dispatch refuses is not), and whatever happened becomes one response.
Handle(p) ==
    /\ host[p].state = "ready"
    /\ host[p].stdin # <<>>
    /\ LET id == Head(host[p].stdin) IN
         \E called, ok \in BOOLEAN :
           /\ ok => called
           /\ performed' = [performed EXCEPT ![id] = IF called THEN @ + 1 ELSE @]
           /\ host' = [host EXCEPT ![p].stdin = Tail(@),
                                   ![p].pipe = Append(@, Answer(id, ok))]
    /\ UNCHANGED <<lock, caller, current, requestId, faults>>

\* The connector prints, complains, or stops answering.
Misbehave(p) ==
    /\ Alive(p)
    /\ Fault
    /\ \/ host' = [host EXCEPT ![p].pipe = Append(@, Stray)]
       \/ host' = [host EXCEPT ![p].stderr = TRUE]
       \/ host' = [host EXCEPT ![p].state = "hung"]
    /\ UNCHANGED <<lock, caller, current, requestId, performed>>

\* The process ends by itself, before or in the middle of a provider call.
Exit(p) ==
    /\ Alive(p)
    /\ Fault
    /\ host' = [host EXCEPT ![p].state = "exited"]
    /\ \/ performed' = performed
       \/ /\ host[p].state = "ready" /\ host[p].stdin # <<>>
          /\ performed' = [performed EXCEPT ![Head(host[p].stdin)] = @ + 1]
    /\ UNCHANGED <<lock, caller, current, requestId>>

CallerStep(c) ==
    Reuse(c) \/ Spawn(c) \/ SpawnFails(c) \/ Listen(c) \/ Refuse(c) \/ Prepare(c) \/ Send(c)
      \/ WriteBreaks(c) \/ TimeOut(c) \/ Receive(c)

HostStep(p) ==
    ReadStdout(p) \/ Loaded(p) \/ LoadFails(p) \/ ReadStdin(p) \/ Handle(p) \/ Misbehave(p)
      \/ Exit(p)

Next ==
    \/ \E c \in Callers : Request(c) \/ CallerStep(c)
    \/ Close
    \/ \E p \in Processes : HostStep(p)

\* The lock is held by a running thread, whose waits for a process to start, for a line
\* and for a process to end have time limits, so it goes on from each of them.  Nothing
\* is assumed of a host, and so nothing of a write that waits for it to read.
Fairness == \A c \in Callers : WF_vars(CallerStep(c))

Spec == Init /\ [][Next]_vars /\ Fairness

-----------------------------------------------------------------------------
TypeOK ==
    /\ lock \in Callers \cup {Free}
    /\ \A c \in Callers :
         /\ caller[c].pc \in {"idle", "start", "listen", "prepare", "send", "write", "await", "done"}
         /\ caller[c].id \in 0..MaxRequests
         /\ caller[c].outcome \in Outcomes
    /\ current \in 0..MaxProcesses
    /\ requestId \in 0..MaxRequests
    /\ \A p \in Processes :
         host[p].state \in {"unborn", "loading", "ready", "hung", "exited"}
    /\ performed \in [Ids -> Nat]
    /\ faults \in 0..MaxFaults

\* What a process still owes the client: requests it has not answered and answers
\* the client has not taken.
Owes(p) ==
    \/ host[p].stdin # <<>>
    \/ \E line \in ToSet(host[p].pipe) \cup ToSet(host[p].queue) : line.id # 0

\* Whenever nobody waits for an answer, the process the client owns is in step: it
\* owes nothing.  So a late answer of a request that timed out is never left for
\* the next request to find.
InStep ==
    current # 0 => (Owes(current) => \E c \in Callers : At(c, "await"))

\* A caller that is given a result or a provider's error is given the answer to its
\* own request, and a result only when the provider was called for it, once.  One
\* whose payload was refused knows that the provider was not called.
AnswerIsOwn ==
    \A c \in Callers :
      /\ caller[c].outcome \in {"RESULT", "REMOTE"} => caller[c].answer = caller[c].id
      /\ caller[c].outcome = "RESULT" => performed[caller[c].id] = 1
      /\ caller[c].outcome = "PAYLOAD" => performed[caller[c].id] = 0

\* The client never leaves a process running behind that it no longer owns.
NoneStranded == \A p \in Processes : Alive(p) => p = current

\* Between requests, at their end and after a close nothing of an earlier request is
\* left to be taken for a later one.
AnswersInStep == TypeOK /\ InStep /\ AnswerIsOwn /\ NoneStranded

Busy(c) == caller[c].pc \notin {"idle", "done"}

\* The one wait of request() without a time limit: the write of a line longer than the
\* pipe to a host that lives and does not read.
Blocked(c) == caller[c].pc = "write" /\ Alive(current)

\* A request that took the lock ends, whatever its host does - hangs before or after it
\* read the line, dies, prints or complains - with the one exception of that write: a
\* request never rests for good anywhere else, and one whose write is over or broken
\* ends like any other.  (While it rests there its lock keeps every other caller and
\* close() out.)
RequestsReturn == \A c \in Callers : []<>(~Busy(c) \/ Blocked(c))
=============================================================================

------------------------ MODULE ConnectorHostProofs ------------------------
(***************************************************************************)
(* Proofs about ConnectorHost, for every number of threads, requests,      *)
(* processes and faults: whenever nobody waits, the process the client     *)
(* owns is in step, and a caller is only ever given the answer to its own  *)
(* request.                                                                *)
(***************************************************************************)
EXTENDS ConnectorHost, TLAPS

-----------------------------------------------------------------------------
(* The inductive invariant.                                                *)

Places == {"idle", "start", "listen", "prepare", "send", "write", "await", "done"}
Inside == {"start", "listen", "prepare", "send", "write", "await"}
CallerState == [pc : Places, id : 0..MaxRequests, outcome : Outcomes, answer : 0..MaxRequests]

Line == [kind : {"answer", "stray", "eof"}, id : 0..MaxRequests, ok : BOOLEAN]
Living == {"loading", "ready", "hung"}
HostState == [state : Living \cup {"unborn", "exited"}, stdin : Seq(Ids), pipe : Seq(Line),
              queue : Seq(Line), eof : BOOLEAN, stderr : BOOLEAN]

Typed ==
    /\ lock \in Callers \cup {Free}
    /\ caller \in [Callers -> CallerState]
    /\ current \in 0..MaxProcesses
    /\ requestId \in 0..MaxRequests
    /\ host \in [Processes -> HostState]
    /\ performed \in [Ids -> Nat]
    /\ faults \in 0..MaxFaults

\* A process the client has closed.
Gone == [Unborn EXCEPT !.state = "exited", !.eof = TRUE]

\* Lines that answer nothing, and lines one of which answers request i, for which
\* the provider was called n times.
Clean(s) == \A k \in 1..Len(s) : s[k].id = 0
Answers(line, i, n) == line.kind = "answer" /\ line.id = i /\ (line.ok => n = 1)
OneAnswer(s, i, n) ==
    \E k \in 1..Len(s) :
      /\ Answers(s[k], i, n)
      /\ \A j \in 1..Len(s) : j # k => s[j].id = 0

\* What a host holds of request i: the request itself, not answered yet; its answer,
\* once; or nothing at all.
Pending(h, i, n) ==
    /\ h.stdin = <<i>>
    /\ Clean(h.pipe)
    /\ Clean(h.queue)
    /\ h.state \in Living => n = 0
Answered(h, i, n) ==
    /\ h.stdin = <<>>
    /\ \/ OneAnswer(h.pipe, i, n) /\ Clean(h.queue)
       \/ Clean(h.pipe) /\ OneAnswer(h.queue, i, n)
Quiet(h) == h.stdin = <<>> /\ Clean(h.pipe) /\ Clean(h.queue)

\* The lock is held by exactly the caller that is inside request().
LockHeld == \A c \in Callers : lock = c <=> caller[c].pc \in Inside

\* A caller has an outcome once it is done, an identity once it was prepared, and
\* its identity is the last one given while it sends, writes and waits.
CallersTrue ==
    \A c \in Callers :
      /\ caller[c].outcome # "none" => caller[c].pc = "done"
      /\ caller[c].outcome \in {"RESULT", "REMOTE", "PAYLOAD"} => caller[c].id # 0
      /\ caller[c].pc \in {"listen", "prepare", "send", "write", "await"} => current # 0
      /\ caller[c].pc \in {"start", "listen", "prepare"} => requestId < MaxRequests
      /\ caller[c].pc \in {"send", "write", "await"} => caller[c].id = requestId /\ caller[c].id # 0
      /\ caller[c].id <= requestId

Distinct == \A c, d \in Callers : c # d => caller[c].id = 0 \/ caller[c].id # caller[d].id

\* Every process but the client's own was never started or is closed.
NotOwned == \A p \in Processes : p # current => host[p] \in {Unborn, Gone}

Owned ==
    current # 0 =>
      /\ host[current].state # "unborn"
      /\ \A c \in Callers :
           caller[c].pc = "await" =>
             \/ Pending(host[current], caller[c].id, performed[caller[c].id])
             \/ Answered(host[current], caller[c].id, performed[caller[c].id])
      /\ (\A c \in Callers : caller[c].pc # "await") => Quiet(host[current])

\* The provider is not called for an identity that was not sent.
Uncalled ==
    /\ \A i \in Ids : i > requestId => performed[i] = 0
    /\ \A c \in Callers : caller[c].pc \in {"send", "write"} => performed[caller[c].id] = 0

Inv == Typed /\ LockHeld /\ CallersTrue /\ Distinct /\ NotOwned /\ Owned /\ Uncalled /\ AnswerIsOwn

-----------------------------------------------------------------------------
(* Lines through a pipe and a queue.                                       *)

LEMMA Pushed ==
    ASSUME NEW s \in Seq(Line), NEW x \in Line, NEW i \in Ids, NEW n \in Nat
    PROVE  /\ Append(s, x) \in Seq(Line)
           /\ Clean(s) /\ x.id = 0 => Clean(Append(s, x))
           /\ OneAnswer(s, i, n) /\ x.id = 0 => OneAnswer(Append(s, x), i, n)
           /\ Clean(s) /\ Answers(x, i, n) => OneAnswer(Append(s, x), i, n)
<1>. DEFINE t == Append(s, x)
<1>1. /\ t \in Seq(Line)
      /\ Len(t) = Len(s) + 1
      /\ t[Len(s) + 1] = x
      /\ \A k \in 1..Len(s) : t[k] = s[k]
      /\ Len(s) \in Nat
  OBVIOUS
<1>. HIDE DEF t
<1>2. Clean(s) /\ x.id = 0 => Clean(t)
  BY <1>1 DEF Clean
<1>3. ASSUME OneAnswer(s, i, n), x.id = 0
      PROVE  OneAnswer(t, i, n)
  <2>1. PICK k \in 1..Len(s) : Answers(s[k], i, n) /\ \A j \in 1..Len(s) : j # k => s[j].id = 0
    BY <1>3 DEF OneAnswer
  <2>2. k \in 1..Len(t) /\ Answers(t[k], i, n)
    BY <1>1, <2>1
  <2>3. \A j \in 1..Len(t) : j # k => t[j].id = 0
    BY <1>1, <1>3, <2>1
  <2>. QED
    BY <2>2, <2>3 DEF OneAnswer
<1>4. ASSUME Clean(s), Answers(x, i, n)
      PROVE  OneAnswer(t, i, n)
  <2>1. Len(s) + 1 \in 1..Len(t) /\ Answers(t[Len(s) + 1], i, n)
    BY <1>1, <1>4
  <2>2. \A j \in 1..Len(t) : j # Len(s) + 1 => t[j].id = 0
    BY <1>1, <1>4 DEF Clean
  <2>. QED
    BY <2>1, <2>2 DEF OneAnswer
<1>. QED
  BY <1>1, <1>2, <1>3, <1>4 DEF t

LEMMA Popped ==
    ASSUME NEW s \in Seq(Line), s # <<>>, NEW i \in Ids, NEW n \in Nat
    PROVE  /\ Head(s) \in Line /\ Tail(s) \in Seq(Line)
           /\ Clean(s) => Head(s).id = 0 /\ Clean(Tail(s))
           /\ OneAnswer(s, i, n) /\ Head(s).id = 0 => OneAnswer(Tail(s), i, n)
           /\ OneAnswer(s, i, n) /\ Head(s).id # 0 => Answers(Head(s), i, n) /\ Clean(Tail(s))
<1>. DEFINE t == Tail(s)
<1>1. /\ t \in Seq(Line)
      /\ Len(s) \in Nat /\ Len(s) >= 1
      /\ Len(t) = Len(s) - 1
      /\ \A k \in 1..Len(t) : t[k] = s[k + 1]
      /\ Head(s) = s[1] /\ Head(s) \in Line
  OBVIOUS
<1>. HIDE DEF t
<1>2. Clean(s) => Head(s).id = 0 /\ Clean(t)
  BY <1>1 DEF Clean
<1>3. ASSUME OneAnswer(s, i, n), Head(s).id = 0
      PROVE  OneAnswer(t, i, n)
  <2>1. PICK k \in 1..Len(s) : Answers(s[k], i, n) /\ \A j \in 1..Len(s) : j # k => s[j].id = 0
    BY <1>3 DEF OneAnswer
  <2>2. k # 1
    BY <1>1, <1>3, <2>1 DEF Answers, Ids
  <2>3. k - 1 \in 1..Len(t) /\ t[k - 1] = s[k]
    BY <1>1, <2>2
  <2>4. \A j \in 1..Len(t) : j # k - 1 => t[j].id = 0
    BY <1>1, <2>1
  <2>. QED
    BY <2>1, <2>3, <2>4 DEF OneAnswer
<1>4. ASSUME OneAnswer(s, i, n), Head(s).id # 0
      PROVE  Answers(Head(s), i, n) /\ Clean(t)
  <2>1. PICK k \in 1..Len(s) : Answers(s[k], i, n) /\ \A j \in 1..Len(s) : j # k => s[j].id = 0
    BY <1>4 DEF OneAnswer
  <2>2. k = 1
    BY <1>1, <1>4, <2>1
  <2>3. \A j \in 1..Len(t) : t[j].id = 0
    BY <1>1, <2>1, <2>2
  <2>. QED
    BY <1>1, <2>1, <2>2, <2>3 DEF Clean
<1>. QED
  BY <1>1, <1>2, <1>3, <1>4 DEF t

-----------------------------------------------------------------------------
(* The client's steps.                                                     *)

(* The records of a process not started, just started and closed.          *)
LEMMA HostRecords ==
    /\ Unborn \in HostState
    /\ Gone \in HostState
    /\ [Unborn EXCEPT !.state = "loading"] \in HostState
    /\ Unborn.state = "unborn" /\ Gone.state = "exited"
<1>1. <<>> \in Seq(Ids) /\ <<>> \in Seq(Line)
  OBVIOUS
<1>. QED
  BY <1>1 DEF Unborn, Gone, HostState, Living

(* request() ends with an error of the client's own and closes the process. *)
LEMMA FailKeeps ==
    ASSUME Inv, NEW c \in Callers, lock = c, caller[c].pc \in Inside,
           NEW outcome \in (BeforeWrite \cup AfterWrite) \ {"PAYLOAD"},
           Fail(c, outcome)
    PROVE  Inv'
<1>. USE DEF Inv, Fail, Leave
<1>1. /\ caller' = [caller EXCEPT ![c].pc = "done", ![c].outcome = outcome, ![c].answer = 0]
      /\ lock' = Free
      /\ host' = Closed(current)
      /\ current' = 0
      /\ UNCHANGED <<requestId, performed, faults>>
  OBVIOUS
<1>2. /\ \A p \in Processes : host'[p] \in {Unborn, Gone}
      /\ host' \in [Processes -> HostState]
  <2>1. CASE current = 0
    BY <1>1, <2>1, BoundsAssumption DEF Closed, NotOwned, Typed, Processes
  <2>2. CASE current # 0
    <3>1. current \in Processes /\ host' = [host EXCEPT ![current] = Gone]
      BY <1>1, <2>2, BoundsAssumption DEF Closed, Gone, Typed, Processes
    <3>. QED
      BY <3>1, HostRecords DEF NotOwned, Typed
  <2>. QED
    BY <2>1, <2>2
<1>3. Typed'
  <2>1. outcome \in Outcomes /\ 0 \in 0..MaxRequests /\ 0 \in 0..MaxProcesses /\ "done" \in Places
    BY BoundsAssumption DEF Outcomes, Places
  <2>2. [caller[c] EXCEPT !.pc = "done", !.outcome = outcome, !.answer = 0] \in CallerState
    BY <2>1 DEF Typed, CallerState
  <2>3. caller' \in [Callers -> CallerState]
    BY <1>1, <2>2 DEF Typed
  <2>. QED
    BY <1>1, <1>2, <2>1, <2>3 DEF Typed
<1>4. LockHeld'
  BY <1>1, CallersAssumption DEF LockHeld, Typed, CallerState, Inside
<1>5. CallersTrue'
  BY <1>1 DEF CallersTrue, LockHeld, Typed, CallerState, Inside, BeforeWrite, AfterWrite
<1>6. Distinct'
  BY <1>1 DEF Distinct, Typed, CallerState
<1>7. NotOwned' /\ Owned'
  BY <1>1, <1>2 DEF NotOwned, Owned
<1>8. Uncalled'
  BY <1>1 DEF Uncalled, LockHeld, Typed, CallerState
<1>9. AnswerIsOwn'
  BY <1>1 DEF AnswerIsOwn, Typed, CallerState, BeforeWrite, AfterWrite
<1>. QED
  BY <1>3, <1>4, <1>5, <1>6, <1>7, <1>8, <1>9

(* A step that only moves the caller on, within request() and before its   *)
(* identity is given.                                                      *)
LEMMA MoveKeeps ==
    ASSUME Inv, NEW c \in Callers, lock = c, caller[c].pc \in {"start", "listen"},
           current # 0, caller[c].outcome = "none",
           Move(c, "prepare"),
           UNCHANGED <<lock, current, requestId, host, performed, faults>>
    PROVE  Inv'
<1>. USE DEF Inv, Move
<1>1. Typed'
  BY DEF Typed, CallerState, Places
<1>2. LockHeld'
  BY DEF LockHeld, Typed, CallerState, Inside
<1>3. CallersTrue'
  BY DEF CallersTrue, Typed, CallerState
<1>4. Distinct' /\ NotOwned'
  BY DEF Distinct, NotOwned, Typed, CallerState
<1>5. Owned'
  BY DEF Owned, Typed, CallerState
<1>6. Uncalled'
  BY DEF Uncalled, Typed, CallerState
<1>7. AnswerIsOwn'
  BY DEF AnswerIsOwn, Typed, CallerState
<1>. QED
  BY <1>1, <1>2, <1>3, <1>4, <1>5, <1>6, <1>7

LEMMA RequestKeeps ==
    ASSUME Inv, NEW c \in Callers, Request(c)
    PROVE  Inv'
<1>. USE DEF Inv, Request
<1>1. /\ caller' = [caller EXCEPT ![c] = [Idle EXCEPT !.pc = "start"]]
      /\ lock = Free /\ lock' = c
      /\ caller[c].pc \in {"idle", "done"}
      /\ requestId < MaxRequests
      /\ UNCHANGED <<current, requestId, host, performed, faults>>
  OBVIOUS
<1>2. \A d \in Callers : caller[d].pc \notin Inside
  BY <1>1, CallersAssumption DEF LockHeld
<1>3. Typed'
  BY <1>1, BoundsAssumption DEF Typed, CallerState, Places, Idle, Outcomes
<1>4. LockHeld'
  BY <1>1, <1>2 DEF LockHeld, Typed, CallerState, Inside, Idle
<1>5. CallersTrue'
  BY <1>1 DEF CallersTrue, Typed, CallerState, Idle
<1>6. Distinct' /\ NotOwned'
  BY <1>1 DEF Distinct, NotOwned, Typed, CallerState, Idle
<1>7. Owned'
  BY <1>1 DEF Owned, Typed, CallerState, Idle
<1>8. Uncalled'
  BY <1>1 DEF Uncalled, Typed, CallerState, Idle
<1>9. AnswerIsOwn'
  BY <1>1 DEF AnswerIsOwn, Typed, CallerState, Idle
<1>. QED
  BY <1>3, <1>4, <1>5, <1>6, <1>7, <1>8, <1>9

(* A caller that holds the lock is inside request() and has no outcome yet. *)
LEMMA HolderInside ==
    ASSUME Inv, NEW c \in Callers, lock = c
    PROVE  caller[c].pc \in Inside /\ caller[c].outcome = "none"
BY DEF Inv, LockHeld, CallersTrue, Inside

LEMMA ReuseKeeps ==
    ASSUME Inv, NEW c \in Callers, Reuse(c)
    PROVE  Inv'
<1>1. lock = c /\ caller[c].pc = "start" /\ current # 0
  BY DEF Reuse, At
<1>2. CASE Alive(current)
  BY <1>1, <1>2, HolderInside, MoveKeeps DEF Reuse
<1>3. CASE ~Alive(current)
  <2>1. Fail(c, "EXIT_BEFORE")
    BY <1>3 DEF Reuse
  <2>. QED
    BY <1>1, <2>1, FailKeeps DEF BeforeWrite, Inside
<1>. QED
  BY <1>2, <1>3

LEMMA ListenKeeps ==
    ASSUME Inv, NEW c \in Callers, Listen(c)
    PROVE  Inv'
<1>1. lock = c /\ caller[c].pc = "listen" /\ current # 0
  BY DEF Listen, At, Inv, CallersTrue
<1>2. CASE host[current].queue = <<>>
  BY <1>1, <1>2, HolderInside, MoveKeeps DEF Listen
<1>3. CASE host[current].queue # <<>>
  <2>1. \E outcome \in {"EXIT_BEFORE", "UNSOLICITED"} : Fail(c, outcome)
    BY <1>3 DEF Listen
  <2>. QED
    BY <1>1, <2>1, FailKeeps DEF BeforeWrite, Inside
<1>. QED
  BY <1>2, <1>3

LEMMA SpawnKeeps ==
    ASSUME Inv, NEW c \in Callers, Spawn(c)
    PROVE  Inv'
<1>. USE DEF Inv
<1>1. /\ lock = c /\ caller[c].pc = "start" /\ current = 0
      /\ caller' = [caller EXCEPT ![c].pc = "listen"]
      /\ UNCHANGED <<lock, requestId, performed, faults>>
  BY DEF Spawn, At, Move
<1>2. PICK p \in Processes :
        /\ host[p].state = "unborn"
        /\ host' = [host EXCEPT ![p].state = "loading"]
        /\ current' = p
  BY DEF Spawn
<1>3. host[p] = Unborn /\ p # 0
  BY <1>1, <1>2, BoundsAssumption, HostRecords DEF NotOwned, Processes
<1>4. /\ host' \in [Processes -> HostState]
      /\ host'[p] = [Unborn EXCEPT !.state = "loading"]
      /\ \A q \in Processes : q # p => host'[q] = host[q]
  <2>1. host' = [host EXCEPT ![p] = [Unborn EXCEPT !.state = "loading"]]
    BY <1>2, <1>3
  <2>. QED
    BY <2>1, HostRecords DEF Typed
<1>5. Typed'
  <2>1. caller' \in [Callers -> CallerState]
    BY <1>1 DEF Typed, CallerState, Places
  <2>. QED
    BY <1>1, <1>2, <1>4, <2>1, BoundsAssumption DEF Typed, Processes
<1>6. LockHeld'
  BY <1>1 DEF LockHeld, Typed, CallerState, Inside
<1>7. CallersTrue'
  BY <1>1, <1>2, <1>3, HolderInside DEF CallersTrue, Typed, CallerState
<1>8. Distinct'
  BY <1>1 DEF Distinct, Typed, CallerState
<1>9. NotOwned'
  BY <1>1, <1>2, <1>4, BoundsAssumption DEF NotOwned, Processes
<1>10. Owned'
  <2>1. \A d \in Callers : caller'[d].pc # "await"
    BY <1>1 DEF LockHeld, Typed, CallerState, Inside
  <2>2. Quiet(host'[p]) /\ host'[p].state # "unborn"
    BY <1>4 DEF Quiet, Clean, Unborn
  <2>. QED
    BY <1>2, <2>1, <2>2 DEF Owned
<1>11. Uncalled'
  BY <1>1 DEF Uncalled, Typed, CallerState
<1>12. AnswerIsOwn'
  BY <1>1 DEF AnswerIsOwn, Typed, CallerState
<1>. QED
  BY <1>5, <1>6, <1>7, <1>8, <1>9, <1>10, <1>11, <1>12

LEMMA RefuseKeeps ==
    ASSUME Inv, NEW c \in Callers, Refuse(c)
    PROVE  Inv'
<1>1. PICK outcome \in Obstacles : Fail(c, outcome)
  BY DEF Refuse
<1>2. outcome \in (BeforeWrite \cup AfterWrite) \ {"PAYLOAD"}
  BY DEF Obstacles, BeforeWrite
<1>3. lock = c /\ caller[c].pc \in Inside
  BY DEF Refuse, At, Inside
<1>. QED
  BY <1>1, <1>2, <1>3, FailKeeps

LEMMA PrepareKeeps ==
    ASSUME Inv, NEW c \in Callers, Prepare(c)
    PROVE  Inv'
<1>. USE DEF Inv
<1>1. /\ lock = c /\ caller[c].pc = "prepare"
      /\ requestId' = requestId + 1
      /\ UNCHANGED <<current, host, performed, faults>>
  BY DEF Prepare, At
<1>2. requestId < MaxRequests /\ requestId + 1 \in Ids /\ performed[requestId + 1] = 0
  BY <1>1, BoundsAssumption DEF CallersTrue, Uncalled, Typed, Ids
<1>3. \A d \in Callers : d # c => caller[d].pc \notin Inside
  BY <1>1 DEF LockHeld
<1>4. \/ /\ caller' = [caller EXCEPT ![c].pc = "send", ![c].id = requestId + 1]
         /\ lock' = lock
      \/ /\ caller' = [caller EXCEPT ![c].pc = "done", ![c].id = requestId + 1,
                                      ![c].outcome = "PAYLOAD"]
         /\ lock' = Free
  BY DEF Prepare
<1>5. PICK new \in CallerState :
        /\ caller' = [caller EXCEPT ![c] = new]
        /\ new.id = requestId + 1
        /\ \/ new.pc = "send" /\ new.outcome = "none" /\ lock' = lock
           \/ new.pc = "done" /\ new.outcome = "PAYLOAD" /\ lock' = Free
  <2>1. requestId + 1 \in 0..MaxRequests /\ caller[c] \in CallerState /\ caller[c].outcome = "none"
    BY <1>1, <1>2, HolderInside DEF Typed, Ids
  <2>2. CASE /\ caller' = [caller EXCEPT ![c].pc = "send", ![c].id = requestId + 1]
             /\ lock' = lock
    <3>. DEFINE new == [caller[c] EXCEPT !.pc = "send", !.id = requestId + 1]
    <3>1. /\ new \in CallerState
          /\ new.id = requestId + 1 /\ new.pc = "send" /\ new.outcome = "none"
      BY <2>1 DEF CallerState, Places
    <3>2. caller' = [caller EXCEPT ![c] = new]
      BY <2>2 DEF Typed
    <3>. HIDE DEF new
    <3>. QED
      BY <2>2, <3>1, <3>2
  <2>3. CASE /\ caller' = [caller EXCEPT ![c].pc = "done", ![c].id = requestId + 1,
                                         ![c].outcome = "PAYLOAD"]
             /\ lock' = Free
    <3>. DEFINE new == [caller[c] EXCEPT !.pc = "done", !.id = requestId + 1, !.outcome = "PAYLOAD"]
    <3>1. /\ new \in CallerState
          /\ new.id = requestId + 1 /\ new.pc = "done" /\ new.outcome = "PAYLOAD"
      BY <2>1 DEF CallerState, Places, Outcomes, BeforeWrite
    <3>2. caller' = [caller EXCEPT ![c] = new]
      BY <2>3 DEF Typed
    <3>. HIDE DEF new
    <3>. QED
      BY <2>3, <3>1, <3>2
  <2>. QED
    BY <1>4, <2>2, <2>3
<1>6. /\ caller'[c] = new
      /\ \A d \in Callers : d # c => caller'[d] = caller[d]
  BY <1>5 DEF Typed
<1>7. Typed'
  BY <1>1, <1>2, <1>5 DEF Typed, Ids
<1>8. LockHeld'
  BY <1>1, <1>3, <1>5, <1>6, CallersAssumption DEF LockHeld, Inside
<1>9. CallersTrue'
  <2>1. requestId \in Nat
    BY DEF Typed
  <2>2. ASSUME NEW d \in Callers, d # c
        PROVE  /\ caller'[d] = caller[d]
               /\ caller[d].pc \notin Inside
               /\ caller[d].id <= requestId /\ caller[d].id \in Nat
    BY <1>3, <1>6, <2>2 DEF CallersTrue, Typed, CallerState
  <2>3. current # 0
    BY <1>1 DEF CallersTrue
  <2>. QED
    BY <1>1, <1>2, <1>5, <1>6, <2>1, <2>2, <2>3 DEF CallersTrue, Inside
<1>10. Distinct'
  BY <1>5, <1>6 DEF Distinct, CallersTrue, Typed, CallerState
<1>11. NotOwned'
  BY <1>1 DEF NotOwned
<1>12. Owned'
  <2>1. Quiet(host[current]) /\ host[current].state # "unborn"
    BY <1>1, <1>3 DEF Owned, CallersTrue, Inside
  <2>2. \A d \in Callers : caller'[d].pc # "await"
    BY <1>3, <1>5, <1>6 DEF Inside
  <2>. QED
    BY <1>1, <2>1, <2>2 DEF Owned
<1>13. Uncalled'
  BY <1>1, <1>2, <1>3, <1>5, <1>6 DEF Uncalled, Inside, Typed, Ids
<1>14. AnswerIsOwn'
  BY <1>1, <1>2, <1>5, <1>6 DEF AnswerIsOwn
<1>. QED
  BY <1>7, <1>8, <1>9, <1>10, <1>11, <1>12, <1>13, <1>14

(* The line reaches the host, at once or when the host reads it: the host  *)
(* then holds this one request and nothing else.                           *)
LEMMA WrittenKeeps ==
    ASSUME Inv, NEW c \in Callers, lock = c, caller[c].pc \in {"send", "write"}, Written(c)
    PROVE  Inv'
<1>. USE DEF Inv
<1>1. current # 0 /\ current \in Processes
  BY DEF CallersTrue, Typed, Processes
<1>2. \A d \in Callers : d # c => caller[d].pc \notin Inside
  BY DEF LockHeld
<1>. DEFINE i == caller[c].id
            h == [host[current] EXCEPT !.stdin = Append(@, i)]
<1>3. /\ host' = [host EXCEPT ![current] = h]
      /\ caller' = [caller EXCEPT ![c].pc = "await"]
      /\ UNCHANGED <<lock, current, requestId, performed, faults>>
  BY DEF Written, Move, Typed
<1>4. i \in Ids /\ performed[i] = 0
  BY DEF CallersTrue, Typed, CallerState, Ids, Uncalled
<1>5. Quiet(host[current]) /\ host[current].state # "unborn" /\ host[current] \in HostState
  BY <1>1, <1>2 DEF Owned, Inside, Typed
<1>6. /\ h \in HostState
      /\ h.stdin = <<i>> /\ h.pipe = host[current].pipe /\ h.queue = host[current].queue
      /\ h.state = host[current].state
  <2>1. Append(host[current].stdin, i) = <<i>> /\ <<i>> \in Seq(Ids)
    BY <1>4, <1>5 DEF Quiet
  <2>. QED
    BY <1>5, <2>1 DEF HostState
<1>. HIDE DEF h
<1>7. Pending(h, i, performed[i])
  BY <1>4, <1>5, <1>6 DEF Pending, Quiet
<1>8. /\ host'[current] = h
      /\ \A p \in Processes : p # current => host'[p] = host[p]
  BY <1>1, <1>3 DEF Typed
<1>9. Typed'
  BY <1>3, <1>6 DEF Typed, CallerState, Places
<1>10. LockHeld'
  BY <1>3 DEF LockHeld, Typed, CallerState, Inside
<1>11. CallersTrue' /\ Distinct'
  BY <1>1, <1>3 DEF CallersTrue, Distinct, Typed, CallerState
<1>12. NotOwned'
  BY <1>3, <1>8 DEF NotOwned
<1>13. Owned'
  <2>1. \A d \in Callers : caller'[d].pc = "await" => d = c
    BY <1>2, <1>3 DEF Inside, Typed, CallerState
  <2>2. caller'[c].pc = "await" /\ caller'[c].id = i
    BY <1>3 DEF Typed, CallerState
  <2>. QED
    BY <1>3, <1>5, <1>6, <1>7, <1>8, <2>1, <2>2 DEF Owned
<1>14. Uncalled' /\ AnswerIsOwn'
  BY <1>3 DEF Uncalled, AnswerIsOwn, Typed, CallerState
<1>. QED
  BY <1>9, <1>10, <1>11, <1>12, <1>13, <1>14

(* A line longer than the pipe leaves the caller in its write.             *)
LEMMA BlockKeeps ==
    ASSUME Inv, NEW c \in Callers, lock = c, caller[c].pc = "send",
           Move(c, "write"),
           UNCHANGED <<lock, current, requestId, host, performed, faults>>
    PROVE  Inv'
<1>. USE DEF Inv, Move
<1>1. Typed'
  BY DEF Typed, CallerState, Places
<1>2. LockHeld'
  BY DEF LockHeld, Typed, CallerState, Inside
<1>3. CallersTrue'
  BY DEF CallersTrue, Typed, CallerState
<1>4. Distinct' /\ NotOwned'
  BY DEF Distinct, NotOwned, Typed, CallerState
<1>5. Owned'
  BY DEF Owned, Typed, CallerState
<1>6. Uncalled'
  BY DEF Uncalled, Typed, CallerState
<1>7. AnswerIsOwn'
  BY DEF AnswerIsOwn, Typed, CallerState
<1>. QED
  BY <1>1, <1>2, <1>3, <1>4, <1>5, <1>6, <1>7

LEMMA SendKeeps ==
    ASSUME Inv, NEW c \in Callers, Send(c)
    PROVE  Inv'
<1>1. lock = c /\ caller[c].pc = "send" /\ caller[c].pc \in Inside
  BY DEF Send, At, Inside
<1>2. CASE Written(c)
  BY <1>1, <1>2, WrittenKeeps
<1>3. CASE /\ Move(c, "write")
           /\ UNCHANGED <<lock, current, requestId, host, performed, faults>>
  BY <1>1, <1>3, BlockKeeps
<1>4. CASE \E outcome \in {"EXIT", "BROKEN_PIPE"} : Fail(c, outcome)
  BY <1>1, <1>4, FailKeeps DEF AfterWrite
<1>. QED
  BY <1>2, <1>3, <1>4 DEF Send

(* The client's other ways to end a request by itself: no process could be *)
(* started, the pipe broke under a write, the wait was over.               *)
LEMMA SpawnFailsKeeps ==
    ASSUME Inv, NEW c \in Callers, SpawnFails(c)
    PROVE  Inv'
<1>1. Fail(c, "START") /\ lock = c /\ caller[c].pc \in Inside
  BY DEF SpawnFails, At, Inside
<1>. QED
  BY <1>1, FailKeeps DEF BeforeWrite

LEMMA WriteBreaksKeeps ==
    ASSUME Inv, NEW c \in Callers, WriteBreaks(c)
    PROVE  Inv'
<1>1. Fail(c, "EXIT") /\ lock = c /\ caller[c].pc \in Inside
  BY DEF WriteBreaks, At, Inside
<1>. QED
  BY <1>1, FailKeeps DEF AfterWrite

LEMMA TimeOutKeeps ==
    ASSUME Inv, NEW c \in Callers, TimeOut(c)
    PROVE  Inv'
<1>1. Fail(c, "TIMEOUT") /\ lock = c /\ caller[c].pc \in Inside
  BY DEF TimeOut, At, Inside
<1>. QED
  BY <1>1, FailKeeps DEF AfterWrite

LEMMA ReceiveKeeps ==
    ASSUME Inv, NEW c \in Callers, Receive(c)
    PROVE  Inv'
<1>. USE DEF Inv
<1>. DEFINE q == host[current].queue
            line == Head(q)
            i == caller[c].id
<1>1. /\ lock = c /\ caller[c].pc = "await" /\ q # <<>>
      /\ current # 0 /\ current \in Processes
  BY DEF Receive, At, CallersTrue, Typed, Processes
<1>2. \A d \in Callers : d # c => caller[d].pc \notin Inside
  BY <1>1 DEF LockHeld
<1>3. CASE \E outcome \in {"STDERR", "EXIT", "MALFORMED"} : Fail(c, outcome)
  BY <1>1, <1>3, FailKeeps DEF AfterWrite, Inside
<1>4. CASE /\ Accepts(line, i)
           /\ host' = [host EXCEPT ![current].queue = Tail(@)]
           /\ Leave(c, IF line.ok THEN "RESULT" ELSE "REMOTE", line.id)
           /\ UNCHANGED <<current, requestId, performed, faults>>
  <2>. DEFINE h == [host[current] EXCEPT !.queue = Tail(@)]
              outcome == IF line.ok THEN "RESULT" ELSE "REMOTE"
  <2>1. /\ i \in Ids /\ line.id = i /\ performed[i] \in Nat
        /\ host[current] \in HostState /\ q \in Seq(Line) /\ host[current].state # "unborn"
    BY <1>1, <1>4 DEF CallersTrue, Typed, CallerState, HostState, Ids, Accepts, Owned
  <2>2. line.id # 0 /\ line \in Line
    BY <1>1, <2>1, Popped DEF Ids
  <2>3. ~Clean(q)
    BY <1>1, <2>1, <2>2, Popped
  <2>4. /\ host[current].stdin = <<>> /\ Clean(host[current].pipe)
        /\ OneAnswer(q, i, performed[i])
    BY <1>1, <2>3 DEF Owned, Pending, Answered
  <2>5. Clean(Tail(q)) /\ (line.ok => performed[i] = 1) /\ Tail(q) \in Seq(Line)
    BY <1>1, <2>1, <2>2, <2>4, Popped DEF Answers
  <2>6. /\ h \in HostState /\ Quiet(h) /\ h.state # "unborn"
        /\ host' = [host EXCEPT ![current] = h]
    BY <1>4, <2>1, <2>4, <2>5 DEF HostState, Quiet, Typed
  <2>. HIDE DEF h
  <2>7. /\ caller' = [caller EXCEPT ![c].pc = "done", ![c].outcome = outcome, ![c].answer = i]
        /\ lock' = Free
        /\ UNCHANGED <<current, requestId, performed, faults>>
    BY <1>4, <2>1 DEF Leave
  <2>8. /\ outcome \in Outcomes \ {"none", "PAYLOAD"}
        /\ outcome = "RESULT" => performed[i] = 1
    BY <2>5 DEF Outcomes, BeforeWrite, AfterWrite
  <2>. HIDE DEF outcome
  <2>. DEFINE new == [caller[c] EXCEPT !.pc = "done", !.outcome = outcome, !.answer = i]
  <2>9. /\ new \in CallerState
        /\ new.pc = "done" /\ new.outcome = outcome /\ new.answer = i /\ new.id = i
        /\ caller' = [caller EXCEPT ![c] = new]
    BY <2>1, <2>7, <2>8 DEF Typed, CallerState, Places, Ids
  <2>. HIDE DEF new
  <2>10. /\ caller'[c] = new
         /\ \A d \in Callers : d # c => caller'[d] = caller[d]
    BY <2>9 DEF Typed
  <2>11. Typed'
    <3>1. caller' \in [Callers -> CallerState]
      BY <2>9 DEF Typed
    <3>2. host' \in [Processes -> HostState]
      BY <2>6 DEF Typed
    <3>3. lock' = Free /\ UNCHANGED <<current, requestId, performed, faults>>
      BY <2>7
    <3>. QED
      BY <3>1, <3>2, <3>3 DEF Typed
  <2>12. LockHeld'
    BY <1>2, <2>7, <2>9, <2>10, CallersAssumption DEF LockHeld, Inside
  <2>13. CallersTrue'
    <3>1. UNCHANGED <<current, requestId>>
      BY <2>7
    <3>2. new.pc = "done" /\ new.id = caller[c].id
      BY <2>9
    <3>3. caller[c].id # 0 /\ caller[c].id <= requestId
      BY <1>1 DEF CallersTrue
    <3>. QED
      BY <2>10, <3>1, <3>2, <3>3 DEF CallersTrue
  <2>14. Distinct'
    BY <2>9, <2>10 DEF Distinct
  <2>15. NotOwned'
    BY <2>6, <2>7 DEF NotOwned, Typed
  <2>16. Owned'
    <3>1. \A d \in Callers : caller'[d].pc # "await"
      BY <1>2, <2>9, <2>10 DEF Inside
    <3>2. host'[current'] = h
      BY <1>1, <2>6, <2>7 DEF Typed
    <3>. QED
      BY <2>6, <3>1, <3>2 DEF Owned
  <2>17. Uncalled'
    BY <2>7, <2>9, <2>10 DEF Uncalled
  <2>18. AnswerIsOwn'
    <3>1. ASSUME NEW d \in Callers, d # c
          PROVE  caller'[d] = caller[d] /\ performed' = performed
      BY <2>7, <2>10, <3>1
    <3>2. /\ caller'[c].answer = caller'[c].id
          /\ caller'[c].outcome = "RESULT" => performed'[caller'[c].id] = 1
          /\ caller'[c].outcome # "PAYLOAD"
      BY <2>7, <2>8, <2>9, <2>10
    <3>. QED
      BY <3>1, <3>2 DEF AnswerIsOwn
  <2>. QED
    BY <2>11, <2>12, <2>13, <2>14, <2>15, <2>16, <2>17, <2>18
<1>. QED
  BY <1>3, <1>4 DEF Receive

LEMMA CloseKeeps ==
    ASSUME Inv, Close
    PROVE  Inv'
<1>. USE DEF Inv, Close
<1>1. \A c \in Callers : caller[c].pc \notin Inside
  BY CallersAssumption DEF LockHeld
<1>2. current \in Processes /\ host' = [host EXCEPT ![current] = Gone]
  BY DEF Closed, Gone, Typed, Processes
<1>3. /\ \A p \in Processes : host'[p] \in {Unborn, Gone}
      /\ host' \in [Processes -> HostState]
  BY <1>2, HostRecords DEF NotOwned, Typed
<1>4. Typed'
  BY <1>3, BoundsAssumption DEF Typed
<1>5. LockHeld' /\ CallersTrue' /\ Distinct'
  BY <1>1 DEF LockHeld, CallersTrue, Distinct, Inside
<1>6. NotOwned' /\ Owned' /\ Uncalled' /\ AnswerIsOwn'
  BY <1>3 DEF NotOwned, Owned, Uncalled, AnswerIsOwn
<1>. QED
  BY <1>4, <1>5, <1>6

-----------------------------------------------------------------------------
(* The steps of a host and of the thread that reads it.                    *)

(* Only the process the client owns takes a step, and a step of it keeps   *)
(* what the client relies on when it does so for this one process and      *)
(* calls the provider for no other identity than the awaited one.          *)
LEMMA HostKeeps ==
    ASSUME Inv, current # 0, NEW h \in HostState,
           host' = [host EXCEPT ![current] = h],
           performed' \in [Ids -> Nat], faults' \in 0..MaxFaults,
           UNCHANGED <<lock, caller, current, requestId>>,
           h.state # "unborn",
           \A c \in Callers : caller[c].pc = "await" =>
             \/ Pending(h, caller[c].id, performed'[caller[c].id])
             \/ Answered(h, caller[c].id, performed'[caller[c].id]),
           (\A c \in Callers : caller[c].pc # "await") => Quiet(h),
           \A i \in Ids : performed'[i] = performed[i]
             \/ \E c \in Callers : caller[c].pc = "await" /\ caller[c].id = i
    PROVE  Inv'
<1>. USE DEF Inv
<1>1. /\ current \in Processes
      /\ host'[current] = h
      /\ \A p \in Processes : p # current => host'[p] = host[p]
  BY DEF Typed, Processes
<1>2. Typed'
  BY DEF Typed
<1>3. LockHeld' /\ CallersTrue' /\ Distinct'
  BY DEF LockHeld, CallersTrue, Distinct
<1>4. NotOwned' /\ Owned'
  BY <1>1 DEF NotOwned, Owned
<1>5. ASSUME NEW d \in Callers, caller[d].pc # "await", caller[d].id \in Ids
      PROVE  performed'[caller[d].id] = performed[caller[d].id]
  BY <1>5 DEF Distinct, Ids
<1>6. Uncalled'
  <2>1. ASSUME NEW i \in Ids, i > requestId
        PROVE  performed'[i] = 0
    BY <2>1 DEF Uncalled, CallersTrue, Typed, Ids
  <2>2. ASSUME NEW c \in Callers, caller[c].pc \in {"send", "write"}
        PROVE  performed'[caller[c].id] = 0
    <3>1. caller[c].pc # "await" /\ caller[c].id \in Ids
      BY <2>2 DEF CallersTrue, Typed, CallerState, Ids
    <3>2. performed[caller[c].id] = 0
      BY <2>2 DEF Uncalled
    <3>. QED
      BY <1>5, <3>1, <3>2
  <2>. QED
    BY <2>1, <2>2 DEF Uncalled
<1>7. AnswerIsOwn'
  <2>1. ASSUME NEW c \in Callers, caller[c].outcome \in {"RESULT", "REMOTE", "PAYLOAD"}
        PROVE  performed'[caller[c].id] = performed[caller[c].id]
    <3>1. caller[c].pc # "await" /\ caller[c].id \in Ids
      BY <2>1 DEF CallersTrue, Typed, CallerState, Ids
    <3>. QED
      BY <1>5, <3>1
  <2>. QED
    BY <2>1 DEF AnswerIsOwn
<1>. QED
  BY <1>2, <1>3, <1>4, <1>6, <1>7

(* What a host owes stays as it is when only lines that answer nothing are *)
(* added to its pipe or its queue, and when it stops or moves on.          *)
LEMMA LinesKeep ==
    ASSUME NEW g \in HostState, NEW h \in HostState, NEW i \in Ids, NEW n \in Nat,
           h.stdin = g.stdin,
           h.state \in Living => g.state \in Living,
           h.pipe = g.pipe \/ \E x \in Line : x.id = 0 /\ h.pipe = Append(g.pipe, x),
           h.queue = g.queue \/ \E x \in Line : x.id = 0 /\ h.queue = Append(g.queue, x)
    PROVE  /\ Pending(g, i, n) => Pending(h, i, n)
           /\ Answered(g, i, n) => Answered(h, i, n)
           /\ Quiet(g) => Quiet(h)
<1>1. g.pipe \in Seq(Line) /\ g.queue \in Seq(Line)
  BY DEF HostState
<1>2. /\ Clean(g.pipe) => Clean(h.pipe)
      /\ OneAnswer(g.pipe, i, n) => OneAnswer(h.pipe, i, n)
  BY <1>1, Pushed
<1>3. /\ Clean(g.queue) => Clean(h.queue)
      /\ OneAnswer(g.queue, i, n) => OneAnswer(h.queue, i, n)
  BY <1>1, Pushed
<1>. QED
  BY <1>2, <1>3 DEF Pending, Answered, Quiet

(* The lines a host may write are lines.                                   *)
LEMMA LineRecords ==
    /\ Stray \in Line /\ Stray.id = 0
    /\ Eof \in Line /\ Eof.id = 0
BY BoundsAssumption DEF Stray, Eof, Line

LEMMA AnswerRecords ==
    ASSUME NEW i \in 0..MaxRequests, NEW ok \in BOOLEAN
    PROVE  /\ Answer(i, ok) \in Line
           /\ Answer(i, ok).id = i /\ Answer(i, ok).ok = ok /\ Answer(i, ok).kind = "answer"
BY DEF Answer, Line

(* Such a step, as a step of the whole system.                             *)
LEMMA ChatterKeeps ==
    ASSUME Inv, current # 0, NEW h \in HostState,
           host' = [host EXCEPT ![current] = h],
           faults' \in 0..MaxFaults,
           UNCHANGED <<lock, caller, current, requestId, performed>>,
           h.state # "unborn",
           h.stdin = host[current].stdin,
           h.state \in Living => host[current].state \in Living,
           \/ h.pipe = host[current].pipe
           \/ \E x \in Line : x.id = 0 /\ h.pipe = Append(host[current].pipe, x),
           \/ h.queue = host[current].queue
           \/ \E x \in Line : x.id = 0 /\ h.queue = Append(host[current].queue, x)
    PROVE  Inv'
<1>1. host[current] \in HostState /\ performed' \in [Ids -> Nat]
  BY DEF Inv, Typed, Processes
<1>2. ASSUME NEW c \in Callers, caller[c].pc = "await"
      PROVE  \/ Pending(h, caller[c].id, performed'[caller[c].id])
             \/ Answered(h, caller[c].id, performed'[caller[c].id])
  <2>1. caller[c].id \in Ids /\ performed[caller[c].id] \in Nat
    BY <1>2 DEF Inv, CallersTrue, Typed, CallerState, Ids
  <2>2. \/ Pending(host[current], caller[c].id, performed[caller[c].id])
        \/ Answered(host[current], caller[c].id, performed[caller[c].id])
    BY <1>2 DEF Inv, Owned
  <2>. QED
    BY <1>1, <2>1, <2>2, LinesKeep
<1>3. ASSUME \A c \in Callers : caller[c].pc # "await"
      PROVE  Quiet(h)
  <2>1. Quiet(host[current])
    BY <1>3 DEF Inv, Owned
  <2>2. 1 \in Ids /\ 0 \in Nat
    BY BoundsAssumption DEF Ids
  <2>. QED
    BY <1>1, <2>1, <2>2, LinesKeep
<1>. QED
  BY <1>1, <1>2, <1>3, HostKeeps

LEMMA ReadStdinKeeps ==
    ASSUME Inv, NEW p \in Processes, ReadStdin(p)
    PROVE  Inv'
<1>1. PICK c \in Callers : lock = c /\ caller[c].pc = "write" /\ Written(c)
  BY DEF ReadStdin, At
<1>. QED
  BY <1>1, WrittenKeeps

(* A process the client does not own is not started or closed, with        *)
(* nothing left to read.                                                   *)
LEMMA OnlyCurrentSteps ==
    ASSUME Inv, NEW p \in Processes, HostStep(p)
    PROVE  p = current /\ current # 0 /\ host[p] \in HostState /\ host[p].state # "unborn"
<1>1. ASSUME p # current
      PROVE  FALSE
  <2>1. host[p] \in {Unborn, Gone}
    BY <1>1 DEF Inv, NotOwned
  <2>2. /\ host[p].pipe = <<>> /\ host[p].state \in {"unborn", "exited"}
        /\ host[p].state = "exited" => host[p].eof
    <3>1. /\ Unborn.pipe = <<>> /\ Unborn.state = "unborn"
          /\ Gone.pipe = <<>> /\ Gone.state = "exited" /\ Gone.eof = TRUE
      BY DEF Unborn, Gone
    <3>. QED
      BY <2>1, <3>1
  <2>. QED
    BY <1>1, <2>2 DEF HostStep, ReadStdout, Loaded, LoadFails, ReadStdin, Handle, Misbehave, Exit, Alive
<1>2. p # 0
  BY DEF Processes
<1>. QED
  BY <1>1, <1>2 DEF Inv, Typed, Owned

LEMMA ReadStdoutKeeps ==
    ASSUME Inv, NEW p \in Processes, ReadStdout(p)
    PROVE  Inv'
<1>. DEFINE g == host[p]
<1>1. p = current /\ current # 0 /\ g \in HostState /\ g.state # "unborn"
  BY OnlyCurrentSteps DEF HostStep
<1>2. g.pipe \in Seq(Line) /\ g.queue \in Seq(Line) /\ performed \in [Ids -> Nat] /\ faults \in 0..MaxFaults
  BY <1>1 DEF HostState, Inv, Typed
<1>3. UNCHANGED <<lock, caller, current, requestId, performed, faults>>
  BY DEF ReadStdout
<1>4. CASE /\ g.pipe # <<>>
           /\ host' = [host EXCEPT ![p].pipe = Tail(@), ![p].queue = Append(@, Head(host[p].pipe))]
  <2>. DEFINE x == Head(g.pipe)
              h == [g EXCEPT !.pipe = Tail(g.pipe), !.queue = Append(g.queue, x)]
  <2>1. 1 \in Ids /\ 0 \in Nat
    BY BoundsAssumption DEF Ids
  <2>2. x \in Line /\ Tail(g.pipe) \in Seq(Line)
    BY <1>2, <1>4, <2>1, Popped
  <2>3. Append(g.queue, x) \in Seq(Line)
    BY <1>2, <2>1, <2>2, Pushed
  <2>4. /\ h \in HostState /\ h.state = g.state /\ h.stdin = g.stdin
        /\ h.pipe = Tail(g.pipe) /\ h.queue = Append(g.queue, x)
        /\ host' = [host EXCEPT ![current] = h]
    BY <1>1, <1>4, <2>2, <2>3 DEF HostState, Inv, Typed
  <2>. HIDE DEF h
  <2>5. Quiet(g) => Quiet(h)
    BY <1>2, <1>4, <2>1, <2>2, <2>4, Popped, Pushed DEF Quiet
  <2>6. ASSUME NEW i \in Ids, NEW n \in Nat
        PROVE  /\ Pending(g, i, n) => Pending(h, i, n)
               /\ Answered(g, i, n) => Answered(h, i, n)
    <3>1. Clean(g.pipe) => x.id = 0 /\ Clean(Tail(g.pipe))
      BY <1>2, <1>4, <2>6, Popped
    <3>2. OneAnswer(g.pipe, i, n) =>
            \/ x.id = 0 /\ OneAnswer(Tail(g.pipe), i, n)
            \/ Answers(x, i, n) /\ Clean(Tail(g.pipe))
      BY <1>2, <1>4, <2>6, Popped
    <3>3. /\ Clean(g.queue) /\ x.id = 0 => Clean(h.queue)
          /\ OneAnswer(g.queue, i, n) /\ x.id = 0 => OneAnswer(h.queue, i, n)
          /\ Clean(g.queue) /\ Answers(x, i, n) => OneAnswer(h.queue, i, n)
      BY <1>2, <2>2, <2>4, <2>6, Pushed
    <3>. QED
      BY <2>4, <3>1, <3>2, <3>3 DEF Pending, Answered
  <2>7. \A c \in Callers : caller[c].pc = "await" =>
          /\ caller[c].id \in Ids /\ performed[caller[c].id] \in Nat
          /\ \/ Pending(g, caller[c].id, performed[caller[c].id])
             \/ Answered(g, caller[c].id, performed[caller[c].id])
    <3>1. SUFFICES ASSUME NEW c \in Callers, caller[c].pc = "await"
                   PROVE  /\ caller[c].id \in Ids /\ performed[caller[c].id] \in Nat
                          /\ \/ Pending(g, caller[c].id, performed[caller[c].id])
                             \/ Answered(g, caller[c].id, performed[caller[c].id])
      OBVIOUS
    <3>2. caller[c].id \in Ids
      BY <3>1 DEF Inv, CallersTrue, Typed, CallerState, Ids
    <3>. QED
      BY <1>1, <1>2, <3>1, <3>2 DEF Inv, Owned
  <2>8. (\A c \in Callers : caller[c].pc # "await") => Quiet(g)
    BY <1>1 DEF Inv, Owned
  <2>. HIDE DEF g
  <2>. QED
    BY <1>1, <1>2, <1>3, <2>4, <2>5, <2>6, <2>7, <2>8, HostKeeps
<1>5. CASE host' = [host EXCEPT ![p].eof = TRUE, ![p].queue = Append(@, Eof)]
  <2>. DEFINE h == [g EXCEPT !.eof = TRUE, !.queue = Append(g.queue, Eof)]
  <2>1. Append(g.queue, Eof) \in Seq(Line)
    BY <1>2, LineRecords
  <2>2. /\ h \in HostState /\ h.state = g.state /\ h.stdin = g.stdin
        /\ h.pipe = g.pipe /\ h.queue = Append(g.queue, Eof)
        /\ host' = [host EXCEPT ![current] = h]
    BY <1>1, <1>5, <2>1 DEF HostState, Inv, Typed
  <2>. HIDE DEF h
  <2>. QED
    BY <1>1, <1>2, <1>3, <2>2, LineRecords, ChatterKeeps
<1>. QED
  BY <1>4, <1>5 DEF ReadStdout

LEMMA LoadKeeps ==
    ASSUME Inv, NEW p \in Processes, Loaded(p) \/ LoadFails(p) \/ Misbehave(p)
    PROVE  Inv'
<1>. DEFINE g == host[p]
<1>1. p = current /\ current # 0 /\ g \in HostState /\ g.state # "unborn"
  BY OnlyCurrentSteps DEF HostStep
<1>2. /\ g.pipe \in Seq(Line) /\ faults' \in 0..MaxFaults
      /\ g.state \in Living
      /\ UNCHANGED <<lock, caller, current, requestId, performed>>
  <2>1. g.pipe \in Seq(Line) /\ faults \in 0..MaxFaults
    BY <1>1 DEF HostState, Inv, Typed
  <2>2. Fault => faults' \in 0..MaxFaults
    BY <2>1, BoundsAssumption DEF Fault
  <2>. QED
    BY <2>1, <2>2 DEF Loaded, LoadFails, Misbehave, Alive, Living
<1>3. PICK h \in HostState :
        /\ host' = [host EXCEPT ![p] = h]
        /\ h.state # "unborn" /\ h.stdin = g.stdin /\ h.queue = g.queue
        /\ h.pipe = g.pipe \/ \E x \in Line : x.id = 0 /\ h.pipe = Append(g.pipe, x)
  <2>1. CASE Loaded(p)
    <3>. DEFINE h == [g EXCEPT !.state = "ready"]
    <3>1. /\ h \in HostState /\ h.state = "ready" /\ h.stdin = g.stdin
          /\ h.queue = g.queue /\ h.pipe = g.pipe
          /\ host' = [host EXCEPT ![p] = h]
      BY <1>1, <2>1 DEF Loaded, HostState, Living, Inv, Typed
    <3>. QED
      BY <3>1
  <2>2. CASE LoadFails(p)
    <3>. DEFINE x == Answer(0, FALSE)
                h == [g EXCEPT !.state = "exited", !.pipe = Append(g.pipe, x)]
    <3>1. x \in Line /\ x.id = 0 /\ Append(g.pipe, x) \in Seq(Line)
      <4>1. 0 \in 0..MaxRequests
        BY BoundsAssumption
      <4>2. x \in Line /\ x.id = 0
        BY <4>1, AnswerRecords
      <4>. HIDE DEF x
      <4>. QED
        BY <1>2, <4>2
    <3>. HIDE DEF x
    <3>2. /\ h \in HostState /\ h.state = "exited" /\ h.stdin = g.stdin
          /\ h.queue = g.queue /\ h.pipe = Append(g.pipe, x)
      BY <1>1, <3>1 DEF HostState
    <3>3. host' = [host EXCEPT ![p] = h]
      BY <2>2 DEF LoadFails, Inv, Typed, x
    <3>. HIDE DEF h
    <3>. QED
      BY <3>1, <3>2, <3>3
  <2>3. CASE Misbehave(p) /\ host' = [host EXCEPT ![p].pipe = Append(@, Stray)]
    <3>. DEFINE h == [g EXCEPT !.pipe = Append(g.pipe, Stray)]
    <3>1. Stray \in Line /\ Stray.id = 0 /\ Append(g.pipe, Stray) \in Seq(Line)
      BY <1>2, LineRecords
    <3>2. /\ h \in HostState /\ h.state = g.state /\ h.stdin = g.stdin
          /\ h.queue = g.queue /\ h.pipe = Append(g.pipe, Stray)
      BY <1>1, <3>1 DEF HostState
    <3>3. host' = [host EXCEPT ![p] = h]
      BY <2>3 DEF Inv, Typed
    <3>. HIDE DEF h
    <3>. QED
      BY <1>1, <3>1, <3>2, <3>3
  <2>4. CASE host' = [host EXCEPT ![p].stderr = TRUE]
    <3>. DEFINE h == [g EXCEPT !.stderr = TRUE]
    <3>1. /\ h \in HostState /\ h.state = g.state /\ h.stdin = g.stdin
          /\ h.queue = g.queue /\ h.pipe = g.pipe
          /\ host' = [host EXCEPT ![p] = h]
      BY <1>1, <2>4 DEF HostState, Inv, Typed
    <3>. QED
      BY <1>1, <3>1
  <2>5. CASE host' = [host EXCEPT ![p].state = "hung"]
    <3>. DEFINE h == [g EXCEPT !.state = "hung"]
    <3>1. /\ h \in HostState /\ h.state = "hung" /\ h.stdin = g.stdin
          /\ h.queue = g.queue /\ h.pipe = g.pipe
          /\ host' = [host EXCEPT ![p] = h]
      BY <1>1, <2>5 DEF HostState, Living, Inv, Typed
    <3>. QED
      BY <3>1
  <2>. QED
    BY <2>1, <2>2, <2>3, <2>4, <2>5 DEF Misbehave
<1>. QED
  BY <1>1, <1>2, <1>3, ChatterKeeps

LEMMA HandleKeeps ==
    ASSUME Inv, NEW p \in Processes, Handle(p)
    PROVE  Inv'
<1>. DEFINE g == host[p]
            i == Head(g.stdin)
<1>1. p = current /\ current # 0 /\ g \in HostState /\ g.state = "ready" /\ g.stdin # <<>>
  BY OnlyCurrentSteps DEF HostStep, Handle
<1>2. PICK called \in BOOLEAN, ok \in BOOLEAN :
        /\ ok => called
        /\ performed' = [performed EXCEPT ![i] = IF called THEN @ + 1 ELSE @]
        /\ host' = [host EXCEPT ![p].stdin = Tail(@), ![p].pipe = Append(@, Answer(i, ok))]
  BY DEF Handle
<1>3. UNCHANGED <<lock, caller, current, requestId, faults>>
  BY DEF Handle
<1>4. PICK c \in Callers : caller[c].pc = "await"
  BY <1>1 DEF Inv, Owned, Quiet
<1>5. \A d \in Callers : d # c => caller[d].pc # "await"
  BY <1>4 DEF Inv, LockHeld, Inside
<1>6. Pending(g, caller[c].id, performed[caller[c].id])
  BY <1>1, <1>4 DEF Inv, Owned, Answered
<1>7. /\ i = caller[c].id /\ i \in Ids /\ performed[i] = 0 /\ Tail(g.stdin) = <<>>
      /\ Clean(g.pipe) /\ Clean(g.queue) /\ g.pipe \in Seq(Line)
  BY <1>1, <1>4, <1>6 DEF Pending, Living, Inv, CallersTrue, Typed, CallerState, HostState, Ids
<1>. DEFINE x == Answer(i, ok)
            n == IF called THEN 1 ELSE 0
            h == [g EXCEPT !.stdin = <<>>, !.pipe = Append(g.pipe, x)]
<1>8. performed' = [performed EXCEPT ![i] = n] /\ performed \in [Ids -> Nat] /\ n \in Nat
  BY <1>2, <1>7 DEF Inv, Typed
<1>9. x \in Line /\ Answers(x, i, n)
  <2>1. i \in 0..MaxRequests
    BY <1>7 DEF Ids
  <2>2. x \in Line /\ x.id = i /\ x.ok = ok /\ x.kind = "answer"
    BY <2>1, AnswerRecords
  <2>. HIDE DEF x
  <2>. QED
    BY <1>2, <2>2 DEF Answers
<1>. HIDE DEF x, n
<1>10. OneAnswer(Append(g.pipe, x), i, n) /\ Append(g.pipe, x) \in Seq(Line)
  BY <1>7, <1>8, <1>9, Pushed
<1>11. <<>> \in Seq(Ids)
  OBVIOUS
<1>12. /\ h \in HostState /\ h.state = g.state /\ h.stdin = <<>>
       /\ h.queue = g.queue /\ h.pipe = Append(g.pipe, x)
  BY <1>1, <1>10, <1>11 DEF HostState
<1>13. host' = [host EXCEPT ![current] = h]
  BY <1>1, <1>2, <1>7 DEF Inv, Typed, x
<1>. HIDE DEF h
<1>14. performed'[i] = n /\ performed' \in [Ids -> Nat] /\ \A j \in Ids : j # i => performed'[j] = performed[j]
  BY <1>7, <1>8
<1>15. Answered(h, i, n)
  BY <1>7, <1>10, <1>12 DEF Answered
<1>16. faults' \in 0..MaxFaults
  BY <1>3 DEF Inv, Typed
<1>. HIDE DEF i, g
<1>. QED
  BY <1>1, <1>3, <1>4, <1>5, <1>7, <1>12, <1>13, <1>14, <1>15, <1>16, HostKeeps

LEMMA ExitKeeps ==
    ASSUME Inv, NEW p \in Processes, Exit(p)
    PROVE  Inv'
<1>. DEFINE g == host[p]
            h == [g EXCEPT !.state = "exited"]
<1>1. p = current /\ current # 0 /\ g \in HostState
  BY OnlyCurrentSteps DEF HostStep
<1>2. /\ faults' \in 0..MaxFaults
      /\ UNCHANGED <<lock, caller, current, requestId>>
      /\ host' = [host EXCEPT ![current] = h]
  <2>1. faults \in 0..MaxFaults /\ faults < MaxFaults /\ faults' = faults + 1
    BY DEF Exit, Fault, Inv, Typed
  <2>2. host' = [host EXCEPT ![current] = h]
    BY <1>1 DEF Exit, Inv, Typed
  <2>3. faults' \in 0..MaxFaults
    BY <2>1, BoundsAssumption
  <2>4. UNCHANGED <<lock, caller, current, requestId>>
    BY DEF Exit
  <2>. QED
    BY <2>2, <2>3, <2>4
<1>3. /\ h \in HostState /\ h.state = "exited" /\ h.stdin = g.stdin
      /\ h.pipe = g.pipe /\ h.queue = g.queue
  BY <1>1 DEF HostState
<1>. HIDE DEF h
<1>4. CASE performed' = performed
  BY <1>1, <1>2, <1>3, <1>4, ChatterKeeps DEF Living
<1>5. CASE /\ g.state = "ready" /\ g.stdin # <<>>
           /\ performed' = [performed EXCEPT ![Head(g.stdin)] = @ + 1]
  <2>1. PICK c \in Callers : caller[c].pc = "await"
    BY <1>1, <1>5 DEF Inv, Owned, Quiet
  <2>2. \A d \in Callers : d # c => caller[d].pc # "await"
    BY <2>1 DEF Inv, LockHeld, Inside
  <2>3. Pending(g, caller[c].id, performed[caller[c].id])
    BY <1>1, <1>5, <2>1 DEF Inv, Owned, Answered
  <2>4. Head(g.stdin) = caller[c].id /\ caller[c].id \in Ids /\ performed \in [Ids -> Nat]
    BY <2>1, <2>3 DEF Pending, Inv, CallersTrue, Typed, CallerState, Ids
  <2>5. performed' \in [Ids -> Nat] /\ \A j \in Ids : j # caller[c].id => performed'[j] = performed[j]
    BY <1>5, <2>4
  <2>6. Pending(h, caller[c].id, performed'[caller[c].id])
    BY <1>3, <2>3 DEF Pending, Living
  <2>. HIDE DEF g
  <2>. QED
    BY <1>1, <1>2, <1>3, <2>1, <2>2, <2>4, <2>5, <2>6, HostKeeps
<1>. QED
  BY <1>4, <1>5 DEF Exit

-----------------------------------------------------------------------------
(* The invariant, and the property the run checks.                         *)

LEMMA InvInit == Init => Inv
<1>. SUFFICES ASSUME Init
              PROVE  Inv
  OBVIOUS
<1>. USE DEF Init
<1>1. Idle \in CallerState /\ Idle.pc = "idle" /\ Idle.outcome = "none" /\ Idle.id = 0
  BY BoundsAssumption DEF Idle, CallerState, Places, Outcomes
<1>2. Typed
  BY <1>1, HostRecords, BoundsAssumption DEF Typed
<1>3. LockHeld /\ CallersTrue /\ Distinct
  BY <1>1, CallersAssumption DEF LockHeld, CallersTrue, Distinct, Inside
<1>4. NotOwned /\ Owned
  BY DEF NotOwned, Owned
<1>5. Uncalled /\ AnswerIsOwn
  BY <1>1 DEF Uncalled, AnswerIsOwn
<1>. QED
  BY <1>2, <1>3, <1>4, <1>5 DEF Inv

LEMMA InvStep == Inv /\ [Next]_vars => Inv'
<1>. SUFFICES ASSUME Inv, [Next]_vars
              PROVE  Inv'
  OBVIOUS
<1>1. ASSUME NEW c \in Callers, Request(c) \/ CallerStep(c)
      PROVE  Inv'
  BY <1>1, RequestKeeps, ReuseKeeps, SpawnKeeps, ListenKeeps, RefuseKeeps, PrepareKeeps,
     SpawnFailsKeeps, SendKeeps, WriteBreaksKeeps, TimeOutKeeps, ReceiveKeeps DEF CallerStep
<1>2. ASSUME NEW p \in Processes, HostStep(p)
      PROVE  Inv'
  BY <1>2, ReadStdoutKeeps, LoadKeeps, ReadStdinKeeps, HandleKeeps, ExitKeeps DEF HostStep
<1>3. CASE UNCHANGED vars
  BY <1>3 DEF vars, Inv, Typed, LockHeld, CallersTrue, Distinct, NotOwned, Owned, Uncalled,
              AnswerIsOwn
<1>. QED
  BY <1>1, <1>2, <1>3, CloseKeeps DEF Next

LEMMA InvAlways == Spec => []Inv
BY InvInit, InvStep, PTL DEF Spec

(* An idle process owes nothing, as the run's property says it.            *)
LEMMA QuietOwesNothing ==
    ASSUME NEW p \in Processes, host[p] \in HostState, Quiet(host[p])
    PROVE  ~Owes(p)
<1>1. \A k \in 1..Len(host[p].pipe) : host[p].pipe[k].id = 0
  BY DEF Quiet, Clean
<1>2. \A k \in 1..Len(host[p].queue) : host[p].queue[k].id = 0
  BY DEF Quiet, Clean
<1>3. DOMAIN host[p].pipe = 1..Len(host[p].pipe) /\ DOMAIN host[p].queue = 1..Len(host[p].queue)
  BY DEF HostState
<1>4. \A line \in ToSet(host[p].pipe) \cup ToSet(host[p].queue) : line.id = 0
  BY <1>1, <1>2, <1>3 DEF ToSet
<1>. QED
  BY <1>4 DEF Owes, Quiet

LEMMA InvImplies == Inv => AnswersInStep
<1>. SUFFICES ASSUME Inv
              PROVE  AnswersInStep
  OBVIOUS
<1>1. TypeOK
  BY DEF Inv, Typed, CallerState, HostState, Places, Living, TypeOK
<1>2. InStep
  <2>1. SUFFICES ASSUME current # 0, \A c \in Callers : ~At(c, "await")
                 PROVE  ~Owes(current)
    BY DEF InStep
  <2>2. \A c \in Callers : caller[c].pc # "await"
    BY <2>1 DEF At, Inv, LockHeld, Inside
  <2>3. current \in Processes /\ host[current] \in HostState
    BY <2>1 DEF Inv, Typed, Processes
  <2>. QED
    BY <2>1, <2>2, <2>3, QuietOwesNothing DEF Inv, Owned
<1>3. NoneStranded
  BY HostRecords DEF Inv, NotOwned, NoneStranded, Alive
<1>. QED
  BY <1>1, <1>2, <1>3 DEF Inv, AnswersInStep

(* In every reachable state: whenever nobody waits, the process the client *)
(* owns has no request left to answer and no answer left to be taken, so   *)
(* the late answer of a request that timed out is never taken for the next *)
(* one's; a result belongs to the caller's own request and its provider    *)
(* was called for it exactly once; a refused payload called no provider;   *)
(* and no process runs that the client does not own.                       *)
THEOREM CallersGetTheirOwnAnswers == Spec => []AnswersInStep
BY InvAlways, InvImplies, PTL
=============================================================================

--------------------------- MODULE SuccessProofs ---------------------------
(***************************************************************************)
(* Whatever fails, is repeated, delayed or restarted, a client is told of  *)
(* success only if a service ran for it (SuccessMeansRun).                 *)
(*                                                                         *)
(* Statuses are all that the handlers go by: a callback of the PO is taken *)
(* for a result when the request is UNPROTECTING, one of a service when it *)
(* is IN_PROGRESS.  The invariant says what has happened by the time each  *)
(* of them is written, and while a task that will write it is pending.     *)
(*                                                                         *)
(* And it ran once, and once more for each fault (RunsPerFault): the last  *)
(* part counts what is on its way to a run.                                *)
(***************************************************************************)
EXTENDS PrivacyProofs, Integers

\* what was done for i, by the runs r
Ran(i, r) == r[i] > 0

\* a status and a response that are only written when a service has run
Success(status, code) == \/ status \in {"IN_PROGRESS", "UNPROTECTING"}
                         \/ status = "FINISHED" /\ code = 200

\* request() on its way to the peer, which a request of the peer never is
Outbound(t) == \/ t.do \in {"protect", "forward"}
               \/ t.do = "find" /\ t.at \in {"request", "resume"}

\* what the pending task t stands for
Earns(t, r) ==
    /\ \/ t.do \in Writes /\ Success(t.status, t.resp.status)
       \/ t.do \in {"served", "callback"} /\ t.resp.status \in {200, 202}
       \/ t.at = "unprotect" /\ t.do # "write"
       => Ran(Root(t), r)
    /\ t.do \in {"protect", "unprotect", "started"} => t.at \in {"request", "unprotect"}
    /\ t.do = "saveThenUnprotect" => t.at = "unprotect"
    /\ Outbound(t) => t.req.original_id = NoId

\* what the document d of id i stands for
DocRoot(i, d) == IF d.request.original_id = NoId THEN i ELSE d.request.original_id

EarnsDoc(i, d, r) ==
    d # NoDoc =>
        /\ d.origin = "local" => d.request.original_id = NoId
        /\ Len(d.log) > 0 /\ Success(d.status, lastResponse(d).status) => Ran(DocRoot(i, d), r)

\* a task works for whom its document says
Agrees(t, d) == d # NoDoc => t.req.original_id = d.request.original_id

Earned ==
    /\ \A b \in Broker : \A t \in DOMAIN tasks[b] : Earns(t, runs) /\ Agrees(t, db[b][t.id])
    /\ \A b \in Broker, i \in Id : EarnsDoc(i, db[b][i], runs)
    /\ SuccessMeansRun

-----------------------------------------------------------------------------
(* How a step may change runs, tasks and documents. *)

RunsGrow == \A i \in Id : Ran(i, runs) => Ran(i, runs')

\* a task that is new at b
Newcomer(b, u) == Earns(u, runs') /\ Agrees(u, db'[b][u.id])

TasksEarn ==
    \A b \in Broker : \A u \in DOMAIN tasks'[b] : u \in DOMAIN tasks[b] \/ Newcomer(b, u)

RequestsKept ==
    \A b \in Broker, i \in used :
        db'[b][i] # NoDoc => db[b][i] # NoDoc /\ db'[b][i].request = db[b][i].request

DocsEarn == \A b \in Broker, i \in Id : EarnsDoc(i, db'[b][i], runs')

\* The root of a task is an id.
LEMMA RootIsId ==
    ASSUME NEW STATE t, t \in Task
    PROVE  Root(t) \in Id
BY DEF Root, Task, Request

\* So is that of a document.
LEMMA DocRootIsId ==
    ASSUME NEW i \in Id, NEW STATE d, d \in Doc
    PROVE  DocRoot(i, d) \in Id
BY DEF DocRoot, Doc, Request

\* Runs are never taken back, so what was earned stays earned.
LEMMA EarnedKept ==
    ASSUME IInv, Earned, RunsGrow, TasksEarn, RequestsKept, DocsEarn, SuccessMeansRun'
    PROVE  Earned'
<1>1. ASSUME NEW b \in Broker, NEW u \in DOMAIN tasks'[b]
      PROVE  Earns(u, runs') /\ Agrees(u, db'[b][u.id])
  <2>1. CASE u \in DOMAIN tasks[b]
    <3>1. /\ u \in Task /\ u.id \in used /\ Root(u) \in Id
          /\ Earns(u, runs) /\ Agrees(u, db[b][u.id])
      BY <2>1, PendingIsTask, RootIsId DEF IInv, Earned
    <3>2. Earns(u, runs')
      BY <3>1 DEF Earns, RunsGrow
    <3>3. Agrees(u, db'[b][u.id])
      BY <3>1 DEF Agrees, RequestsKept
    <3> QED
      BY <3>2, <3>3
  <2>2. CASE Newcomer(b, u)
    BY <2>2 DEF Newcomer
  <2> QED
    BY <1>1, <2>1, <2>2 DEF TasksEarn
<1> QED
  BY <1>1 DEF Earned, DocsEarn

\* A document that stays as it is, or goes, needs no new run.
LEMMA DocsStay ==
    ASSUME IInv, Earned, RunsGrow,
           \A b \in Broker, i \in Id : db'[b][i] \in {db[b][i], NoDoc}
    PROVE  RequestsKept /\ DocsEarn
<1>1. ASSUME NEW b \in Broker, NEW i \in Id, db[b][i] # NoDoc
      PROVE  EarnsDoc(i, db[b][i], runs')
  <2>1. DocRoot(i, db[b][i]) \in Id /\ EarnsDoc(i, db[b][i], runs)
    BY <1>1, DocRootIsId DEF IInv, Brokers, Stores, Earned
  <2> QED
    BY <2>1 DEF EarnsDoc, RunsGrow
<1>2. DocsEarn
  BY <1>1 DEF DocsEarn, EarnsDoc
<1>3. RequestsKept
  BY DEF RequestsKept, IInv, Brokers
<1> QED
  BY <1>2, <1>3

\* A step that changes no document and answers nobody.
LEMMA SteadyEarned ==
    ASSUME IInv, Earned, RunsGrow, TasksEarn, UNCHANGED answers,
           \A b \in Broker, i \in Id : db'[b][i] \in {db[b][i], NoDoc}
    PROVE  Earned'
<1>1. SuccessMeansRun'
  BY DEF Earned, SuccessMeansRun, RunsGrow, Ran
<1> QED
  BY <1>1, DocsStay, EarnedKept

\* what a task of the same request may become
Turns(t, u) == /\ u.id = t.id /\ u.req.original_id = t.req.original_id
               /\ Earns(u, runs')

\* A task that another one became agrees with the document as that did.
LEMMA TurnsNew ==
    ASSUME IInv, Earned, RequestsKept, NEW b \in Broker, NEW t \in DOMAIN tasks[b],
           NEW STATE u, Turns(t, u)
    PROVE  Newcomer(b, u)
<1>1. t.id \in used /\ Agrees(t, db[b][t.id])
  BY PendingIsTask DEF IInv, Earned
<1> QED
  BY <1>1 DEF Newcomer, Turns, Agrees, RequestsKept

\* A task becomes another one.
LEMMA OnwardEarns ==
    ASSUME IInv, NEW b \in Broker, NEW t \in DOMAIN tasks[b],
           NEW STATE u, Newcomer(b, u), Becomes(b, t, u)
    PROVE  TasksEarn
<1>1. IsABag(tasks[b]) /\ DOMAIN tasks = Broker
  BY DEF IInv, Brokers, Tasks
<1> DEFINE rest == BagRemove(tasks[b], t)
<1>2. tasks' = [tasks EXCEPT ![b] = BagAdd(rest, u)]
  BY DEF Becomes, Swap
<1>3. IsABag(rest) /\ DOMAIN rest \subseteq DOMAIN tasks[b]
  BY <1>1, RemovedBag
<1> HIDE DEF rest
<1>4. DOMAIN BagAdd(rest, u) = DOMAIN rest \cup {u}
  BY <1>3, AddedBag
<1> QED
  BY <1>1, <1>2, <1>3, <1>4 DEF TasksEarn

\* A task ends, or all of a broker do.
LEMMA EndEarns ==
    ASSUME IInv, NEW b \in Broker, NEW t, Done(b, t) \/ Crashes(b)
    PROVE  TasksEarn
<1>1. IsABag(tasks[b]) /\ DOMAIN tasks = Broker
  BY DEF IInv, Brokers, Tasks
<1>2. DOMAIN BagRemove(tasks[b], t) \subseteq DOMAIN tasks[b]
  BY <1>1, RemovedBag
<1> QED
  BY <1>1, <1>2, EmptyIsBag DEF TasksEarn, Done, Drop, Crashes

\* A task starts.
LEMMA StartEarns ==
    ASSUME IInv, NEW b \in Broker, NEW STATE u, Newcomer(b, u), tasks' = Start(b, u)
    PROVE  TasksEarn
<1>1. IsABag(tasks[b]) /\ DOMAIN tasks = Broker
  BY DEF IInv, Brokers, Tasks
<1>2. DOMAIN BagAdd(tasks[b], u) = DOMAIN tasks[b] \cup {u}
  BY <1>1, AddedBag
<1> QED
  BY <1>1, <1>2 DEF TasksEarn, Start

\* A call between the brokers.
LEMMA CallEarns ==
    ASSUME IInv, NEW b \in Broker, NEW t \in DOMAIN tasks[b],
           NEW STATE u, Newcomer(b, u), NEW STATE v,
           \E mine \in {tasks, Swap(b, t, u)} :
               \/ tasks' = mine
               \/ /\ tasks' = [mine EXCEPT ![Peer[b]] = BagAdd(@, v)]
                  /\ Newcomer(Peer[b], v)
    PROVE  TasksEarn
<1> DEFINE p == Peer[b]
           rest == BagRemove(tasks[b], t)
<1> PICK mine \in {tasks, Swap(b, t, u)} :
        \/ tasks' = mine
        \/ tasks' = [mine EXCEPT ![p] = BagAdd(@, v)] /\ Newcomer(p, v)
  OBVIOUS
<1>1. /\ p \in Broker /\ p # b /\ DOMAIN tasks = Broker
      /\ \A c \in Broker : IsABag(tasks[c])
  BY PeerIsBroker DEF IInv, Brokers, Tasks
<1>2. IsABag(rest) /\ DOMAIN rest \subseteq DOMAIN tasks[b]
  BY <1>1, RemovedBag
<1>3. mine = tasks \/ mine = [tasks EXCEPT ![b] = BagAdd(rest, u)]
  BY DEF Swap
<1> HIDE DEF p, rest
<1>4. DOMAIN BagAdd(rest, u) = DOMAIN rest \cup {u}
  BY <1>2, AddedBag
<1>5. /\ DOMAIN mine = Broker /\ mine[p] = tasks[p]
      /\ \A c \in Broker : \A w \in DOMAIN mine[c] : w \in DOMAIN tasks[c] \/ Newcomer(c, w)
  BY <1>1, <1>2, <1>3, <1>4
<1>6. CASE tasks' = mine
  BY <1>5, <1>6 DEF TasksEarn
<1>7. CASE tasks' = [mine EXCEPT ![p] = BagAdd(@, v)] /\ Newcomer(p, v)
  <2>1. DOMAIN BagAdd(tasks[p], v) = DOMAIN tasks[p] \cup {v}
    BY <1>1, AddedBag
  <2>2. tasks' = [mine EXCEPT ![p] = BagAdd(tasks[p], v)]
    BY <1>5, <1>7
  <2> QED
    BY <1>1, <1>5, <1>7, <2>1, <2>2 DEF TasksEarn
<1> QED
  BY <1>6, <1>7

\* An operation that continues with another one, while no document changes.
LEMMA OnwardEarned ==
    ASSUME IInv, Earned, UNCHANGED <<db, answers>>, RunsGrow, NEW b \in Broker,
           NEW t \in DOMAIN tasks[b], NEW STATE u, Turns(t, u), Becomes(b, t, u)
    PROVE  Earned'
<1>1. RequestsKept
  BY DocsStay
<1>2. Newcomer(b, u)
  BY <1>1, TurnsNew
<1>3. TasksEarn
  BY <1>2, OnwardEarns
<1> QED
  BY <1>3, SteadyEarned

-----------------------------------------------------------------------------
(* The operations of a broker that change no document. *)

\* A pending task, and what it stands for.
LEMMA PendingEarns ==
    ASSUME IInv, Earned, RunsGrow, NEW b \in Broker, NEW t \in DOMAIN tasks[b]
    PROVE  t \in Task /\ t.id \in used /\ Root(t) \in Id /\ Earns(t, runs) /\ Earns(t, runs')
<1>1. t \in Task /\ t.id \in used /\ Root(t) \in Id /\ Earns(t, runs)
  BY PendingIsTask, RootIsId DEF IInv, Earned
<1> QED
  BY <1>1 DEF Earns, RunsGrow

\* A task that becomes a write.
LEMMA WriteTurns ==
    ASSUME NEW STATE t, t \in Task, NEW STATE status, NEW STATE resp,
           Success(status, resp.status) => Ran(Root(t), runs')
    PROVE  Turns(t, Write(t, status, resp))
<1> DEFINE u == Write(t, status, resp)
<1>1. /\ u.do = "write" /\ u.id = t.id /\ u.at = t.at /\ u.req = t.req
      /\ u.status = status /\ u.resp = resp
  BY DEF Write, Task
<1> HIDE DEF u
<1>2. Root(u) = Root(t)
  BY <1>1 DEF Root
<1>3. Turns(t, u)
  BY <1>1, <1>2 DEF Turns, Earns, Outbound, Writes
<1> QED
  BY <1>3 DEF u

\* A result that is kept or returned.
LEMMA ConcludeTurns ==
    ASSUME NEW STATE t, t \in Task, NEW STATE resp,
           resp.status \in {200, 202} \/ t.at = "unprotect" => Ran(Root(t), runs')
    PROVE  Turns(t, Conclude(t, resp))
<1> DEFINE u == Return(t, resp)
<1>1. u.do = "callback" /\ u.id = t.id /\ u.at = t.at /\ u.req = t.req /\ u.resp = resp
  BY DEF Return, Task
<1> HIDE DEF u
<1>2. Root(u) = Root(t)
  BY <1>1 DEF Root
<1>3. Turns(t, u)
  BY <1>1, <1>2 DEF Turns, Earns, Outbound, Writes
<1>4. Turns(t, Write(t, "FINISHED", resp))
  BY WriteTurns DEF Success
<1> QED
  BY <1>3, <1>4 DEF Conclude, u

\* Another operation of the same handler.
LEMMA NextTurns ==
    ASSUME IInv, Earned, RunsGrow, NEW b \in Broker, NEW t \in DOMAIN tasks[b],
           t.do # "write",
           NEW do \in {"service", "forward", "relocated", "accepted", "delete",
                       "protect", "started", "saveThenUnprotect"},
           do = "protect" => t.at = "request",
           do \in {"protect", "forward"} => Outbound(t),
           do = "started" => t.do \in {"protect", "unprotect"},
           do = "saveThenUnprotect" => t.at = "unprotect"
    PROVE  Turns(t, [t EXCEPT !.do = do])
<1> DEFINE u == [t EXCEPT !.do = do]
<1>1. t \in Task /\ Earns(t, runs')
  BY PendingEarns
<1>2. /\ u.do = do /\ u.id = t.id /\ u.at = t.at /\ u.req = t.req
      /\ u.status = t.status /\ u.resp = t.resp
  BY <1>1 DEF Task
<1> HIDE DEF u
<1>3. Root(u) = Root(t)
  BY <1>2 DEF Root
<1>4. Turns(t, u)
  BY <1>1, <1>2, <1>3 DEF Turns, Earns, Outbound, Writes
<1> QED
  BY <1>4 DEF u

\* The lookup of a service ends.
LEMMA FoundEarned ==
    ASSUME IInv, Earned, NEW b \in Broker, NEW t \in DOMAIN tasks[b],
           \/ FoundLocal(b, t) \/ FoundExternal(b, t)
           \/ FoundOrigin(b, t) \/ NotFound(b, t)
    PROVE  Earned'
<1>1. t.do = "find" /\ UNCHANGED <<db, runs, answers>>
  BY DEF FoundLocal, FoundExternal, FoundOrigin, NotFound, Located, Running
<1>2. RunsGrow /\ t \in Task /\ Earns(t, runs')
  BY <1>1, PendingEarns DEF RunsGrow
<1> DEFINE next(do) == [t EXCEPT !.do = do]
<1>3. CASE FoundLocal(b, t)
  <2>1. Becomes(b, t, next("service")) /\ Turns(t, next("service"))
    BY <1>1, <1>2, <1>3, NextTurns DEF FoundLocal
  <2> HIDE DEF next
  <2> QED
    BY <1>1, <1>2, <2>1, OnwardEarned
<1>4. CASE FoundExternal(b, t)
  <2> DEFINE u == Return(t, Error(404))
  <2>1. \/ t.at = "forward" /\ Becomes(b, t, u)
        \/ t.at = "request" /\ Becomes(b, t, next("protect"))
        \/ t.at # "forward" /\ Becomes(b, t, next("forward"))
    BY <1>4 DEF FoundExternal
  <2>2. /\ t.at # "forward" => Turns(t, next("forward"))
        /\ t.at = "request" => Turns(t, next("protect"))
    <3>1. t.at # "forward" => Outbound(t)
      BY <1>1, <1>4 DEF FoundExternal, Outbound
    <3> QED
      BY <1>1, <1>2, <3>1, NextTurns
  <2>3. t.at = "forward" => Turns(t, u)
    <3>1. Error(404).status = 404
      BY DEF Error, Answer
    <3>2. t.at = "forward" => u = Conclude(t, Error(404))
      BY DEF Conclude
    <3> HIDE DEF u
    <3>3. t.at = "forward" => Turns(t, Conclude(t, Error(404)))
      BY <1>2, <3>1, ConcludeTurns
    <3> QED
      BY <3>2, <3>3
  <2> HIDE DEF u, next
  <2> QED
    BY <1>1, <1>2, <2>1, <2>2, <2>3, OnwardEarned
<1>5. CASE FoundOrigin(b, t)
  <2> DEFINE u == Write(t, "FINISHED", t.resp)
  <2>1. /\ t.at = "unprotect"
        /\ Becomes(b, t, u) \/ Becomes(b, t, next("saveThenUnprotect"))
    BY <1>5 DEF FoundOrigin
  <2>2. Ran(Root(t), runs')
    BY <1>1, <1>2, <2>1 DEF Earns
  <2>3. Turns(t, u) /\ Turns(t, next("saveThenUnprotect"))
    BY <1>1, <1>2, <2>1, <2>2, WriteTurns, NextTurns
  <2> HIDE DEF u, next
  <2> QED
    BY <1>1, <1>2, <2>1, <2>3, OnwardEarned
<1>6. CASE NotFound(b, t)
  <2> PICK code \in {404, 500} :
          \/ Crashes(b)
          \/ t.at # "unprotect" /\ Becomes(b, t, Conclude(t, Error(code)))
    BY <1>6 DEF NotFound
  <2> DEFINE u == Conclude(t, Error(code))
  <2>1. CASE Crashes(b)
    BY <1>1, <1>2, <2>1, EndEarns, SteadyEarned DEF IInv, Brokers
  <2>2. CASE t.at # "unprotect" /\ Becomes(b, t, u)
    <3>1. Error(code).status = code
      BY DEF Error, Answer
    <3>2. Turns(t, u)
      BY <1>2, <2>2, <3>1, ConcludeTurns
    <3> HIDE DEF u
    <3> QED
      BY <1>1, <1>2, <2>2, <3>2, OnwardEarned
  <2> QED
    BY <2>1, <2>2
<1> QED
  BY <1>3, <1>4, <1>5, <1>6

\* A service runs: that is what is earned.
LEMMA ServiceEarned ==
    ASSUME IInv, Earned, NEW b \in Broker, NEW t \in DOMAIN tasks[b],
           \/ \E code \in {200, 202, 500} :
                  ServiceAnswers(b, t, code) \/ ServiceRunsAgain(b, t, code)
           \/ \E code \in {404, 500, 503} : ServiceFails(b, t, code)
           \/ ServiceServed(b, t) \/ ServiceMoved(b, t)
    PROVE  Earned'
<1>1. /\ t.do \in {"service", "relocated", "served"} /\ UNCHANGED <<db, answers>>
      /\ t \in Task /\ Root(t) \in Id /\ runs \in [Id -> Nat]
  BY PendingIsTask, RootIsId DEF ServiceAnswers, ServiceRunsAgain, ServiceFails, ServiceServed,
     ServiceMoved, Running, IInv, World
<1>2. RunsGrow
  BY <1>1 DEF RunsGrow, Ran, ServiceAnswers, ServiceRunsAgain, ServiceFails, ServiceServed,
     ServiceMoved, Runs
<1>3. Earns(t, runs')
  BY <1>2, PendingEarns
<1>4. CASE \E code \in {200, 202, 500} : ServiceAnswers(b, t, code)
  <2> PICK code \in {200, 202, 500} : ServiceAnswers(b, t, code)
    BY <1>4
  <2> DEFINE r == Answer(code, IF code = 200 THEN Computed(t.req.body) ELSE "message")
             u == [t EXCEPT !.do = "served", !.resp = r]
  <2>1. Becomes(b, t, u) /\ Ran(Root(t), runs')
    BY <1>1 DEF ServiceAnswers, Runs, Ran
  <2> HIDE DEF r
  <2>2. u.do = "served" /\ u.id = t.id /\ u.at = t.at /\ u.req = t.req
    BY <1>1 DEF Task
  <2> HIDE DEF u
  <2>3. Turns(t, u)
    BY <1>1, <2>1, <2>2 DEF Turns, Earns, Outbound, Root, Writes
  <2> QED
    BY <1>1, <1>2, <2>1, <2>3, OnwardEarned
<1>5. CASE \E code \in {200, 202, 500} : ServiceRunsAgain(b, t, code)
  <2>1. UNCHANGED tasks
    BY <1>5 DEF ServiceRunsAgain
  <2> QED
    BY <1>1, <1>2, <2>1, SteadyEarned DEF TasksEarn, IInv, Brokers
<1>6. CASE \E code \in {404, 500, 503} : ServiceFails(b, t, code)
  <2> PICK code \in {404, 500, 503} : ServiceFails(b, t, code)
    BY <1>6
  <2> DEFINE u == Conclude(t, Error(code))
  <2>1. Becomes(b, t, u) /\ Error(code).status = code
    BY DEF ServiceFails, Error, Answer
  <2>2. t.at = "unprotect" => Ran(Root(t), runs')
    BY <1>1, <1>3 DEF Earns
  <2>3. Turns(t, u)
    BY <1>1, <2>1, <2>2, ConcludeTurns
  <2> HIDE DEF u
  <2> QED
    BY <1>1, <1>2, <2>1, <2>3, OnwardEarned
<1>7. CASE ServiceServed(b, t)
  <2> DEFINE u == Write(t, "IN_PROGRESS", t.resp)
             v == Conclude(t, t.resp)
  <2>1. /\ t.do = "served"
        /\ \/ t.resp.status = 202 /\ Becomes(b, t, u)
           \/ Becomes(b, t, v)
    BY <1>7 DEF ServiceServed, Running
  <2>2. t.resp.status \in {200, 202} \/ t.at = "unprotect" => Ran(Root(t), runs')
    BY <1>3, <2>1 DEF Earns
  <2>3. (t.resp.status = 202 => Turns(t, u)) /\ Turns(t, v)
    BY <1>1, <2>2, WriteTurns, ConcludeTurns
  <2> HIDE DEF u, v
  <2> QED
    BY <1>1, <1>2, <2>1, <2>3, OnwardEarned
<1>8. CASE ServiceMoved(b, t)
  <2> DEFINE u == [t EXCEPT !.do = "relocated"]
  <2>1. Becomes(b, t, u)
    BY <1>8 DEF ServiceMoved
  <2>2. Turns(t, u)
    BY <1>1, <1>2, NextTurns
  <2> HIDE DEF u
  <2> QED
    BY <1>1, <1>2, <2>1, <2>2, OnwardEarned
<1> QED
  BY <1>4, <1>5, <1>6, <1>7, <1>8

\* The PO starts a process; unprotect() does so for a result.
LEMMA POEarned ==
    ASSUME IInv, Earned, NEW b \in Broker, NEW t \in DOMAIN tasks[b],
           \/ \E ok \in BOOLEAN : POStarts(b, t, ok) \/ POStartsAgain(b, t, ok)
           \/ POStarted(b, t) \/ PORefuses(b, t) \/ POSaysNothing(b, t)
    PROVE  Earned'
<1>1. /\ t.do \in {"protect", "unprotect", "started"} /\ UNCHANGED <<db, runs, answers>>
      /\ db \in [Broker -> Stores]
  BY DEF POStarts, POStartsAgain, POStarted, PORefuses, POSaysNothing, Running, IInv, Brokers
<1>2. RunsGrow /\ t \in Task /\ Earns(t, runs')
  BY <1>1, PendingEarns DEF RunsGrow
<1>3. CASE \E ok \in BOOLEAN : POStarts(b, t, ok)
  <2> DEFINE u == [t EXCEPT !.do = "started"]
  <2>1. Becomes(b, t, u) /\ t.do \in {"protect", "unprotect"}
    BY <1>3 DEF POStarts, Running
  <2>2. Turns(t, u)
    BY <1>1, <1>2, <2>1, NextTurns
  <2> HIDE DEF u
  <2> QED
    BY <1>1, <1>2, <2>1, <2>2, OnwardEarned
<1>4. CASE \E ok \in BOOLEAN : POStartsAgain(b, t, ok)
  <2>1. UNCHANGED tasks
    BY <1>4 DEF POStartsAgain
  <2> QED
    BY <1>1, <1>2, <2>1, SteadyEarned DEF TasksEarn
<1>5. CASE POStarted(b, t)
  <2> DEFINE status == IF t.at = "request" THEN "PROTECTING" ELSE "UNPROTECTING"
             u == Write(t, status, Answer(200, "process"))
  <2>1. Becomes(b, t, u)
    BY <1>5 DEF POStarted
  <2>2. t.at # "request" => Ran(Root(t), runs')
    BY <1>1, <1>2 DEF Earns
  <2>3. ASSUME NEW resp PROVE Success(status, resp.status) => Ran(Root(t), runs')
    BY <2>2 DEF Success
  <2>4. Turns(t, u)
    BY <1>2, <2>3, WriteTurns
  <2> HIDE DEF u
  <2> QED
    BY <1>1, <1>2, <2>1, <2>4, OnwardEarned
<1>6. CASE PORefuses(b, t)
  <2> DEFINE u == Write(t, "FINISHED", Error(503))
  <2>1. Becomes(b, t, u) /\ Error(503).status = 503
    BY <1>6 DEF PORefuses, Error, Answer
  <2>2. Turns(t, u)
    BY <1>2, <2>1, WriteTurns DEF Success
  <2> HIDE DEF u
  <2> QED
    BY <1>1, <1>2, <2>1, <2>2, OnwardEarned
<1>7. CASE POSaysNothing(b, t)
  BY <1>1, <1>2, <1>7, EndEarns, SteadyEarned DEF POSaysNothing
<1> QED
  BY <1>3, <1>4, <1>5, <1>6, <1>7

\* The answers of the peer to a forwarded request.
LEMMA PeerEarned ==
    ASSUME IInv, Earned, NEW b \in Broker, NEW t \in DOMAIN tasks[b],
           \/ ForwardAcked(b, t) \/ PeerFails(b, t)
           \/ PeerUnreachable(b, t) \/ CallAbandoned(b, t)
    PROVE  Earned'
<1>1. /\ t.do \in {"accepted", "forward", "callback"} /\ UNCHANGED <<db, runs, answers>>
      /\ db \in [Broker -> Stores]
  BY DEF ForwardAcked, PeerFails, PeerUnreachable, CallAbandoned, Running, IInv, Brokers
<1>2. RunsGrow /\ t \in Task
  BY <1>1, PendingEarns DEF RunsGrow
<1>3. CASE ForwardAcked(b, t)
  <2> DEFINE u == Write(t, "FORWARDED", [Error(202) EXCEPT !.unprotectParams = (t.at = "resume")])
  <2>1. Becomes(b, t, u) /\ Turns(t, u)
    BY <1>2, <1>3, WriteTurns DEF ForwardAcked, Success
  <2> HIDE DEF u
  <2> QED
    BY <1>1, <1>2, <2>1, OnwardEarned
<1>4. CASE PeerFails(b, t)
  <2> DEFINE u == Write(t, "FINISHED", Error(500))
             v == [t EXCEPT !.do = "delete"]
  <2>1. Becomes(b, t, u) \/ Becomes(b, t, v)
    BY <1>4 DEF PeerFails
  <2>2. Error(500).status = 500
    BY DEF Error, Answer
  <2>3. Turns(t, u)
    BY <1>2, <2>2, WriteTurns DEF Success
  <2>4. Turns(t, v)
    BY <1>1, <1>2, NextTurns
  <2> HIDE DEF u, v
  <2> QED
    BY <1>1, <1>2, <2>1, <2>3, <2>4, OnwardEarned
<1>5. CASE PeerUnreachable(b, t) \/ CallAbandoned(b, t)
  BY <1>1, <1>2, <1>5, EndEarns, SteadyEarned DEF PeerUnreachable, CallAbandoned
<1> QED
  BY <1>3, <1>4, <1>5

\* A result is taken from a peer whose service has run.
LEMMA CallbackTakenEarned ==
    ASSUME IInv, Earned, NEW b \in Broker, NEW t \in DOMAIN tasks[b], CallbackTaken(b, t)
    PROVE  Earned'
<1> DEFINE p == Peer[b]
           i == t.req.original_id
           doc == db[p][i]
           started == TakeResult(p, i, t.resp)
           v == CHOOSE u \in started : TRUE
           lost == [t EXCEPT !.do = "delete"]
<1>1. /\ t.do = "callback" /\ UNCHANGED <<db, runs, answers>>
      /\ db \in [Broker -> Stores] /\ p \in Broker
  BY PeerIsBroker DEF CallbackTaken, Running, IInv, Brokers
<1>2. RunsGrow /\ t \in Task /\ Earns(t, runs') /\ RequestsKept
  BY <1>1, PendingEarns, DocsStay DEF RunsGrow
<1>3. i \in Id /\ Root(t) = i
  BY <1>1, NoIdAssumption DEF IInv, Brokers, Tasks, Sound, Addressed, Root
<1>4. Newcomer(b, lost)
  BY <1>1, <1>2, NextTurns, TurnsNew
<1>5. ASSUME started # {} PROVE Newcomer(p, v)
  <2> DEFINE found == [Work("find", "unprotect", i, doc.request) EXCEPT
                           !.resp = t.resp, !.log = doc.log]
             failed == Write(found, "FINISHED", t.resp)
  <2>1. doc # NoDoc /\ doc.status = "FORWARDED" /\ doc.origin = "local"
    BY <1>1, <1>3, <1>5 DEF TakeResult, IInv, Brokers, Docs
  <2>2. doc.request.original_id = NoId /\ db'[p][i] = doc
    BY <1>1, <1>3, <2>1 DEF Earned, EarnsDoc
  <2>3. v \in started
    BY <1>5
  <2>4. t.resp.status \in {200, 202, 404, 500, 503}
    BY <1>2 DEF Task, Response, Code
  <2>5. \/ v = found /\ t.resp.status < 300
        \/ v = failed /\ t.resp.status >= 300
    <3>1. started = IF t.resp.status >= 300 THEN {failed} ELSE {found}
      BY <2>1 DEF TakeResult
    <3> HIDE DEF v, started, found, failed
    <3> QED
      BY <2>3, <2>4, <3>1
  <2>6. /\ found.id = i /\ found.at = "unprotect" /\ found.do = "find"
        /\ found.req = doc.request
        /\ failed.id = i /\ failed.at = "unprotect" /\ failed.do = "write"
        /\ failed.req = doc.request /\ failed.status = "FINISHED" /\ failed.resp = t.resp
    BY DEF Work, Write
  <2> HIDE DEF v, started, found, failed, doc, i, p
  <2>7. CASE v = found /\ t.resp.status < 300
    <3>1. Ran(i, runs')
      BY <1>1, <1>2, <1>3, <2>4, <2>7 DEF Earns
    <3>2. Root(v) = i
      BY <2>2, <2>6, <2>7 DEF Root
    <3> QED
      BY <2>2, <2>6, <2>7, <3>1, <3>2 DEF Newcomer, Earns, Agrees, Writes
  <2>8. CASE v = failed /\ t.resp.status >= 300
    BY <2>2, <2>4, <2>6, <2>8 DEF Newcomer, Earns, Agrees, Writes, Success
  <2> QED
    BY <2>5, <2>7, <2>8
<1>6. \E mine \in {tasks, Swap(b, t, lost)} :
          \/ tasks' = mine
          \/ tasks' = [mine EXCEPT ![p] = BagAdd(@, v)] /\ Newcomer(p, v)
  <2>1. \E mine \in {tasks, Swap(b, t, lost)} :
            tasks' = IF started = {} THEN mine ELSE [mine EXCEPT ![p] = BagAdd(@, v)]
    BY DEF CallbackTaken
  <2> HIDE DEF started, v, lost
  <2> QED
    BY <1>5, <2>1
<1> HIDE DEF started, v, lost
<1>7. TasksEarn
  BY <1>4, <1>6, CallEarns
<1> QED
  BY <1>1, <1>2, <1>7, SteadyEarned

-----------------------------------------------------------------------------
(* The steps that change documents, and those of clients. *)

\* The peer's document, just created, has no entry yet.
LEMMA CreatedEarns ==
    ASSUME IInv, Earned, UNCHANGED runs, NEW b \in Broker, NEW i \in Id \ used,
           NEW origin \in {"local", "external"}, NEW STATE req,
           origin = "local" => req.original_id = NoId,
           db' = [db EXCEPT ![b][i] = createRequest(origin, req)]
    PROVE  RunsGrow /\ RequestsKept /\ DocsEarn /\ db'[b][i].request = req
<1> DEFINE d == createRequest(origin, req)
<1>1. Len(d.log) = 0 /\ d.origin = origin /\ d.request = req
  BY DEF createRequest
<1> HIDE DEF d
<1>2. \A c \in Broker, j \in Id :
          db'[c][j] = IF c = b /\ j = i THEN d ELSE db[c][j]
  BY DEF d, IInv, Brokers, Stores
<1>3. RunsGrow
  BY DEF RunsGrow
<1>4. used \subseteq Id
  BY DEF IInv, Brokers
<1>5. RequestsKept
  BY <1>2, <1>4 DEF RequestsKept
<1>6. EarnsDoc(i, d, runs')
  BY <1>1 DEF EarnsDoc
<1>7. DocsEarn
  BY <1>2, <1>6 DEF DocsEarn, Earned
<1> QED
  BY <1>1, <1>2, <1>3, <1>5, <1>7

\* A client creates a request.
LEMMA CreateEarned ==
    ASSUME IInv, Earned, NEW b \in Broker, NEW i \in ClientId, NEW s \in Service,
           NEW skip \in BOOLEAN, Create(b, i, s, skip)
    PROVE  Earned'
<1> DEFINE req == [service |-> s, skip_po |-> skip, body |-> "data", original_id |-> NoId]
           u == Work("find", "request", i, req)
<1>1. /\ req.original_id = NoId /\ i \in Id \ used
      /\ u.id = i /\ u.at = "request" /\ u.do = "find" /\ u.req = req
  BY IdAssumption DEF Create, Work
<1>2. /\ db' = [db EXCEPT ![b][i] = createRequest("local", req)]
      /\ tasks' = Start(b, u) /\ UNCHANGED <<runs, answers>>
  BY DEF Create
<1> HIDE DEF req, u
<1>3. RunsGrow /\ RequestsKept /\ DocsEarn /\ db'[b][i].request = req
  <2>1. UNCHANGED runs /\ i \in Id \ used
    BY <1>1, <1>2
  <2>2. ASSUME NEW r, r.original_id = NoId,
               db' = [db EXCEPT ![b][i] = createRequest("local", r)]
        PROVE  RunsGrow /\ RequestsKept /\ DocsEarn /\ db'[b][i].request = r
    BY <2>1, <2>2, CreatedEarns
  <2> QED
    BY <1>1, <1>2, <2>2
<1>4. Newcomer(b, u)
  BY <1>1, <1>3 DEF Newcomer, Earns, Agrees, Writes
<1>5. TasksEarn
  BY <1>2, <1>4, StartEarns
<1>6. SuccessMeansRun'
  BY <1>2 DEF Earned, SuccessMeansRun
<1> QED
  BY <1>3, <1>5, <1>6, EarnedKept

\* The peer accepts a forwarded one.
LEMMA ForwardAcceptedEarned ==
    ASSUME IInv, Earned, NEW b \in Broker, NEW t \in DOMAIN tasks[b], NEW j \in Id,
           ForwardAccepted(b, t, j)
    PROVE  Earned'
<1> DEFINE req == [t.req EXCEPT !.original_id = t.id, !.skip_po = FALSE]
           u == [t EXCEPT !.do = "accepted"]
           v == Work("find", "forward", j, req)
           p == Peer[b]
<1>1. /\ t.do = "forward" /\ p \in Broker /\ j \in Id \ used
      /\ db' = [db EXCEPT ![p][j] = createRequest("external", req)]
      /\ UNCHANGED <<runs, answers>>
  BY PeerIsBroker DEF ForwardAccepted, Accept, Running
<1>2. v.id = j /\ v.at = "forward" /\ v.do = "find" /\ v.req = req
  BY DEF Work
<1>3. \E mine \in {tasks, Swap(b, t, u)} : tasks' = [mine EXCEPT ![p] = BagAdd(@, v)]
  BY DEF ForwardAccepted, Accept, Start
<1> HIDE DEF req, v
<1>4. RunsGrow /\ RequestsKept /\ DocsEarn /\ db'[p][j].request = req
  BY <1>1, CreatedEarns
<1>5. Newcomer(b, u)
  BY <1>1, <1>4, NextTurns, TurnsNew
<1>6. Newcomer(p, v)
  BY <1>2, <1>4 DEF Newcomer, Earns, Outbound, Agrees, Writes
<1> HIDE DEF u
<1>7. TasksEarn
  BY <1>3, <1>5, <1>6, CallEarns
<1>8. SuccessMeansRun'
  BY <1>1 DEF Earned, SuccessMeansRun
<1> QED
  BY <1>4, <1>7, <1>8, EarnedKept

\* What follows a write.
LEMMA AfterWriteEarns ==
    ASSUME IInv, Earned, RunsGrow, RequestsKept, NEW b \in Broker, NEW t \in DOMAIN tasks[b],
           t.do \in Writes \cup {"delete"}, AfterWrite(b, t)
    PROVE  TasksEarn
<1>1. t \in Task /\ Earns(t, runs')
  BY PendingEarns
<1>2. CASE Done(b, t) \/ Crashes(b)
  BY <1>2, EndEarns
<1>3. CASE t.do = "saveThenUnprotect" /\ ~Crashes(b)
  <2> DEFINE u == [t EXCEPT !.do = "unprotect",
                            !.resp.unprotectParams = t.log[2].unprotectParams]
             w == Write(t, "FINISHED", t.resp)
  <2>1. Becomes(b, t, u) \/ Becomes(b, t, w)
    BY <1>3 DEF AfterWrite
  <2>2. t.at = "unprotect" /\ Ran(Root(t), runs')
    BY <1>1, <1>3 DEF Earns
  <2>3. u.do = "unprotect" /\ u.id = t.id /\ u.at = t.at /\ u.req = t.req
    BY <1>1 DEF Task
  <2>4. Turns(t, w)
    BY <1>1, <2>2, WriteTurns
  <2> HIDE DEF u, w
  <2>5. Turns(t, u)
    BY <2>2, <2>3 DEF Turns, Earns, Outbound, Root, Writes
  <2>6. Newcomer(b, u) /\ Newcomer(b, w)
    BY <2>4, <2>5, TurnsNew
  <2> QED
    BY <2>1, <2>6, OnwardEarns
<1> QED
  BY <1>2, <1>3 DEF AfterWrite, Writes

\* updateRequest writes what its task stands for.
LEMMA ApplyWriteEarned ==
    ASSUME IInv, Earned, NEW b \in Broker, NEW t \in DOMAIN tasks[b], ApplyWrite(b, t)
    PROVE  Earned'
<1>1. /\ t.do \in Writes /\ AfterWrite(b, t) /\ UNCHANGED <<runs, answers>>
      /\ db' = [db EXCEPT ![b] = updateRequest(db[b], t.id, t.status, t.resp)]
      /\ db \in [Broker -> Stores] /\ used \subseteq Id
  BY DEF ApplyWrite, Running, IInv, Brokers
<1>2. RunsGrow
  BY <1>1 DEF RunsGrow
<1>3. /\ t \in Task /\ t.id \in Id /\ Earns(t, runs) /\ Agrees(t, db[b][t.id])
      /\ t.resp \in Response
  BY PendingIsTask DEF IInv, Earned, Task
<1> DEFINE old == db[b][t.id]
           d == [old EXCEPT !.status = t.status, !.log = Append(@, t.resp)]
<1>4. CASE old = NoDoc
  <2>1. db' = db
    BY <1>1, <1>3, <1>4 DEF updateRequest
  <2>2. RequestsKept
    BY <1>1, <1>2, <2>1, DocsStay
  <2>3. TasksEarn
    BY <1>1, <1>2, <2>2, AfterWriteEarns
  <2> QED
    BY <1>1, <1>2, <2>1, <2>3, SteadyEarned
<1>5. CASE old # NoDoc
  <2>1. old \in Doc /\ old.log \in Seq(Response)
    BY <1>1, <1>3, <1>5 DEF Stores, Doc
  <2>2. d.status = t.status /\ d.request = old.request /\ d.origin = old.origin
        /\ d.log = Append(old.log, t.resp)
    BY <2>1 DEF Doc
  <2>3. \A c \in Broker, j \in Id :
            db'[c][j] = IF c = b /\ j = t.id THEN d ELSE db[c][j]
    <3>1. db' = [db EXCEPT ![b] = [db[b] EXCEPT ![t.id] = d]]
      BY <1>1, <1>5 DEF updateRequest
    <3> HIDE DEF d
    <3> QED
      BY <1>1, <1>3, <3>1 DEF Stores
  <2>4. lastResponse(d) = t.resp
    BY <1>3, <2>1, <2>2 DEF lastResponse
  <2> HIDE DEF d
  <2>5. DocRoot(t.id, d) = Root(t)
    BY <1>3, <1>5, <2>2 DEF DocRoot, Root, Agrees
  <2>6. EarnsDoc(t.id, old, runs)
    BY <1>3 DEF Earned
  <2>7. EarnsDoc(t.id, d, runs')
    BY <1>1, <1>3, <1>5, <2>2, <2>4, <2>5, <2>6 DEF EarnsDoc, Earns
  <2>8. DocsEarn
    BY <1>1, <2>3, <2>7 DEF DocsEarn, Earned
  <2>9. RequestsKept
    BY <1>1, <1>5, <2>2, <2>3 DEF RequestsKept
  <2>10. TasksEarn
    BY <1>1, <1>2, <2>9, AfterWriteEarns
  <2>11. SuccessMeansRun'
    BY <1>1 DEF Earned, SuccessMeansRun
  <2> QED
    BY <1>2, <2>8, <2>9, <2>10, <2>11, EarnedKept
<1> QED
  BY <1>4, <1>5

\* A write that fails, a deletion that completes, a process that stops or starts.
LEMMA RemovalEarned ==
    ASSUME IInv, Earned, NEW b \in Broker,
           \/ \E t \in DOMAIN tasks[b] : WriteFails(b, t) \/ Delete(b, t)
           \/ Stop(b) \/ Restart(b)
    PROVE  Earned'
<1>1. /\ UNCHANGED <<runs, answers>>
      /\ \A c \in Broker, i \in Id : db'[c][i] \in {db[c][i], NoDoc}
  BY DEF WriteFails, Delete, Stop, Restart, deleteRequest, IInv, Brokers, Stores
<1>2. RunsGrow
  BY <1>1 DEF RunsGrow
<1>3. RequestsKept
  BY <1>1, <1>2, DocsStay
<1>4. TasksEarn
  <2>1. ASSUME NEW t \in DOMAIN tasks[b], WriteFails(b, t) PROVE TasksEarn
    <3>1. t.do \in Writes \cup {"delete"} /\ AfterWrite(b, t)
      BY <2>1 DEF WriteFails, Running
    <3> QED
      BY <1>2, <1>3, <3>1, AfterWriteEarns
  <2>2. ASSUME NEW t \in DOMAIN tasks[b], Delete(b, t) PROVE TasksEarn
    BY <2>2, EndEarns DEF Delete
  <2>3. CASE Stop(b)
    BY <2>3, EndEarns DEF Stop
  <2>4. CASE Restart(b)
    BY <2>4 DEF Restart, TasksEarn
  <2> QED
    BY <2>1, <2>2, <2>3, <2>4
<1> QED
  BY <1>1, <1>2, <1>4, SteadyEarned

\* A result is fetched from a document that says a service has run.
LEMMA GetResultEarned ==
    ASSUME IInv, Earned, NEW b \in Broker, NEW i \in ClientId, GetResult(b, i)
    PROVE  Earned'
<1> DEFINE doc == db[b][i]
           u == Work("delete", "request", i, doc.request)
           last == lastResponse(doc)
<1>1. /\ i \in Id /\ doc # NoDoc /\ doc.status = "FINISHED" /\ UNCHANGED <<db, runs>>
      /\ tasks' = Start(b, u)
      /\ answers' = [answers EXCEPT ![i] = Append(@, last)]
  BY IdAssumption DEF GetResult
<1>2. /\ answers[i] \in Seq(Response) /\ answers \in [Id -> Seq(Response)]
      /\ Len(doc.log) > 0 /\ doc.origin = "local" /\ db \in [Broker -> Stores]
  BY <1>1 DEF IInv, World, Brokers, Docs
<1>3. u.id = i /\ u.at = "request" /\ u.do = "delete" /\ u.req = doc.request
  BY DEF Work
<1>4. last.status = 200 => Ran(i, runs)
  <2>1. EarnsDoc(i, doc, runs)
    BY <1>1 DEF Earned
  <2> HIDE DEF last
  <2>2. DocRoot(i, doc) = i
    BY <1>1, <1>2, <2>1 DEF EarnsDoc, DocRoot
  <2> QED
    BY <1>1, <1>2, <2>1, <2>2 DEF EarnsDoc, Success, last
<1> HIDE DEF u, last
<1>5. SuccessMeansRun'
  <2>1. ASSUME NEW j \in Id, NEW k \in DOMAIN answers'[j], answers'[j][k].status = 200
        PROVE  runs[j] > 0
    <3>1. CASE j # i
      BY <1>1, <1>2, <2>1, <3>1 DEF Earned, SuccessMeansRun
    <3>2. CASE j = i
      <4>1. answers'[i] = Append(answers[i], last)
        BY <1>1, <1>2
      <4>2. \/ k \in DOMAIN answers[i] /\ answers'[i][k] = answers[i][k]
            \/ answers'[i][k] = last
        BY <1>2, <2>1, <3>2, <4>1
      <4> QED
        BY <1>1, <1>4, <2>1, <3>2, <4>2 DEF Earned, SuccessMeansRun, Ran
    <3> QED
      BY <3>1, <3>2
  <2> QED
    BY <1>1, <2>1 DEF SuccessMeansRun
<1>6. RunsGrow /\ RequestsKept /\ DocsEarn
  BY <1>1, <1>2, DocsStay DEF RunsGrow
<1>7. Newcomer(b, u)
  BY <1>1, <1>3 DEF Newcomer, Earns, Outbound, Agrees, Writes
<1>8. TasksEarn
  BY <1>1, <1>7, StartEarns
<1> QED
  BY <1>5, <1>6, <1>8, EarnedKept

-----------------------------------------------------------------------------
(* Callbacks of the PO and of the services. *)

\* requestCallback() goes by the status, which says whether a service has run.
LEMMA ContinuationEarns ==
    ASSUME IInv, Earned, NEW c \in DOMAIN owed, UNCHANGED <<db, runs>>,
           db[c.to][c.id] # NoDoc, ~Unreadable(db[c.to][c.id]),
           NEW u \in Continuation(db[c.to][c.id], c)
    PROVE  Newcomer(c.to, u)
<1> DEFINE doc == db[c.to][c.id]
           t == Work("write", "callback", c.id, doc.request)
           value == IF c.from = "po" THEN "envelope" ELSE c.value
           resumed == [t EXCEPT !.do = "find", !.at = "resume", !.req.body = c.value]
           failed == Write(t, "FINISHED", Error(500))
           dropped == [failed EXCEPT !.do = "writeNoCallback"]
           unprotected == Write(t, "FINISHED", Answer(200, c.value))
           kept == Write(t, "FINISHED", Answer(200, value))
           returned == Return(t, Answer(200, value))
<1>1. c.to \in Broker /\ c.id \in Id /\ doc \in Doc
  BY DEF IInv, World, Callback, Brokers, Stores
<1>2. /\ t \in Task /\ t.id = c.id /\ t.at = "callback" /\ t.req = doc.request
  BY <1>1, WorkIsTask DEF Doc, Operation, Stage, Work
<1>3. /\ doc.status \in {"UNPROTECTING", "IN_PROGRESS"} => Ran(DocRoot(c.id, doc), runs)
      /\ doc.status = "UNPROTECTING" => doc.origin = "local"
      /\ doc.status = "PROTECTING" => doc.request.original_id = NoId
  BY <1>1 DEF Earned, EarnsDoc, Success, Unreadable, IInv, Brokers, Docs
<1> DEFINE Same(w) == /\ w.id = c.id /\ w.at # "unprotect"
                      /\ w.req.original_id = doc.request.original_id
           Failing(w) == /\ Same(w)
                         /\ \/ w.do = "find" /\ w.req.original_id = NoId
                            \/ /\ w.do \in {"write", "writeNoCallback"}
                               /\ w.status = "FINISHED" /\ w.resp.status = 500
           Succeeding(w) == Same(w) /\ w.do \in {"write", "callback"}
<1>4. /\ Error(500).status = 500
      /\ t.id = c.id /\ t.at = "callback" /\ t.req = doc.request
  BY <1>2 DEF Error, Answer
<1>5. /\ doc.status = "PROTECTING" => Failing(resumed)
      /\ Failing(failed) /\ Failing(dropped)
  <2>1. doc.status = "PROTECTING" => Failing(resumed)
    BY <1>1, <1>2, <1>3 DEF Task, Doc, Request
  <2>2. Failing(failed) /\ Failing(dropped)
    BY <1>2, <1>4 DEF Write, Writes, Task
  <2> QED
    BY <2>1, <2>2
<1>6. Succeeding(unprotected) /\ Succeeding(kept) /\ Succeeding(returned)
  BY <1>2 DEF Write, Return, Task
<1>7. \/ u \in {failed, dropped}
      \/ doc.status = "PROTECTING" /\ u = resumed
      \/ doc.status = "UNPROTECTING" /\ u = unprotected
      \/ doc.status = "IN_PROGRESS" /\ u \in {kept, returned}
  BY <1>3 DEF Continuation
<1> HIDE DEF t, resumed, failed, dropped, unprotected, kept, returned
<1>8. Failing(u) \/ (Succeeding(u) /\ doc.status \in {"UNPROTECTING", "IN_PROGRESS"})
  BY <1>5, <1>6, <1>7
<1>9. Same(u) => Root(u) = DocRoot(c.id, doc)
  BY DEF Root, DocRoot
<1>10. Failing(u) => Earns(u, runs')
  BY DEF Earns, Outbound, Writes, Success
<1>11. Succeeding(u) /\ Ran(Root(u), runs) => Earns(u, runs')
  BY DEF Earns, Outbound, Writes
<1>12. Earns(u, runs') /\ Same(u)
  BY <1>3, <1>8, <1>9, <1>10, <1>11
<1> QED
  BY <1>1, <1>12 DEF Newcomer, Agrees

\* A callback arrives, is repeated or gets lost.
LEMMA CallbackEarned ==
    ASSUME IInv, Earned, NEW c \in DOMAIN owed, RequestCallback(c) \/ CallbackLost(c)
    PROVE  Earned'
<1> DEFINE doc == db[c.to][c.id]
           started == Continuation(doc, c)
           v == CHOOSE u \in started : TRUE
<1>1. UNCHANGED <<db, runs, answers>> /\ c.to \in Broker /\ db \in [Broker -> Stores]
  BY DEF RequestCallback, CallbackLost, IInv, World, Callback, Brokers
<1>2. \/ UNCHANGED tasks
      \/ Crashes(c.to)
      \/ /\ doc # NoDoc /\ ~Unreadable(doc) /\ started # {}
         /\ tasks' = Start(c.to, v)
  BY DEF RequestCallback, CallbackLost
<1>3. ASSUME doc # NoDoc, ~Unreadable(doc), started # {}, tasks' = Start(c.to, v)
      PROVE  TasksEarn
  <2>1. v \in started
    BY <1>3
  <2>2. Newcomer(c.to, v)
    BY <1>1, <1>3, <2>1, ContinuationEarns
  <2> HIDE DEF v
  <2> QED
    BY <1>1, <1>3, <2>2, StartEarns
<1> HIDE DEF started, v
<1>4. TasksEarn
  BY <1>1, <1>2, <1>3, EndEarns DEF TasksEarn
<1> QED
  BY <1>1, <1>4, SteadyEarned DEF RunsGrow

-----------------------------------------------------------------------------
\* Nothing is stored or pending at the start ...
LEMMA InitEarned == Init => Earned
BY EmptyIsBag DEF Init, Earned, EarnsDoc, SuccessMeansRun

\* ... and every step keeps what was earned.
LEMMA NextEarned ==
    ASSUME IInv, Earned, [Next]_vars
    PROVE  Earned'
<1>1. ASSUME NEW b \in Broker, NEW t \in DOMAIN tasks[b], Complete(b, t) PROVE Earned'
  <2>1. CASE ApplyWrite(b, t)
    BY <2>1, ApplyWriteEarned
  <2>2. CASE WriteFails(b, t) \/ Delete(b, t)
    BY <2>2, RemovalEarned
  <2>3. CASE \/ FoundLocal(b, t) \/ FoundExternal(b, t)
             \/ FoundOrigin(b, t) \/ NotFound(b, t)
    BY <2>3, FoundEarned
  <2>4. CASE \E j \in Id : ForwardAccepted(b, t, j)
    BY <2>4, ForwardAcceptedEarned
  <2>5. CASE \/ ForwardAcked(b, t) \/ PeerFails(b, t)
             \/ PeerUnreachable(b, t) \/ CallAbandoned(b, t)
    BY <2>5, PeerEarned
  <2> QED
    BY <1>1, <2>1, <2>2, <2>3, <2>4, <2>5, ServiceEarned, POEarned, CallbackTakenEarned
    DEF Complete
<1>2. CASE UNCHANGED vars
  BY <1>2, SteadyEarned DEF vars, RunsGrow, TasksEarn, IInv, Brokers
<1>3. CASE Client
  BY <1>3, CreateEarned, GetResultEarned DEF Client
<1>4. ASSUME NEW c \in DOMAIN owed, RequestCallback(c) \/ CallbackLost(c) PROVE Earned'
  BY <1>4, CallbackEarned
<1>5. ASSUME NEW b \in Broker, Stop(b) \/ Restart(b) PROVE Earned'
  BY <1>5, RemovalEarned
<1> QED
  BY <1>1, <1>2, <1>3, <1>4, <1>5 DEF Next, Progress

\* Whatever fails, is repeated, arrives early or is restarted: no stray, early or
\* repeated callback of the PO, of a service or of the peer passes for a result, so a
\* client is told of success only if a service ran for it.
THEOREM SuccessWasRun == Spec => []SuccessMeansRun
<1>1. IInv /\ Earned /\ [Next]_vars => Earned'
  BY NextEarned
<1>2. Earned => SuccessMeansRun
  BY DEF Earned
<1> QED
  BY <1>1, <1>2, InitEarned, Invariance, InitIInv, StepIInv, PTL DEF Spec

-----------------------------------------------------------------------------
(***************************************************************************)
(* A service runs once for a request, and once more for each fault         *)
(* (RunsPerFault).                                                         *)
(*                                                                         *)
(* Each run is paid for in advance: with the request itself when it is     *)
(* created, with a fault when something is repeated.  What is paid for and *)
(* has not run yet is a token: a pending operation on its way to a         *)
(* service, or a callback of the PO that sends a request on.  One token    *)
(* becomes another, a run, or nothing; bags hold several copies of equal   *)
(* operations, and each copy is a token of its own.                        *)
(***************************************************************************)

\* an instance: BagsExt brings another copy of FiniteSets along
FS == INSTANCE FiniteSetTheorems

\* a pending operation on its way to a service
Spends(t) == \/ t.do \in {"service", "relocated", "protect", "forward"}
             \/ t.do = "find" /\ t.at # "unprotect"

\* a callback that sends a request on
Sends(c) == EndsProcess(c) /\ c.value = "protected"

\* the k-th copy of e in the bag B
Copy(B, e, k) == e \in DOMAIN B /\ k \in 1 .. B[e]

\* the tokens of request i among the tasks T and the callbacks C
TaskTokens(T, i) == {x \in Broker \X Task \X Nat :
    Copy(T[x[1]], x[2], x[3]) /\ Spends(x[2]) /\ Root(x[2]) = i}
CallTokens(C, i) == {x \in Callback \X Nat :
    Copy(C, x[1], x[2]) /\ Sends(x[1]) /\ x[1].id = i}

\* how many tokens of i one copy of t or c is
TaskCost(t, i) == IF Spends(t) /\ Root(t) = i THEN 1 ELSE 0
CallCost(c, i) == IF Sends(c) /\ c.id = i THEN 1 ELSE 0

\* the tasks when u has joined those of b, and when one copy of u has left
Joined(T, b, u) == [T EXCEPT ![b] = BagAdd(T[b], u)]
Left(T, b, u)   == [T EXCEPT ![b] = BagRemove(T[b], u)]

Budget == \A i \in Id :
    /\ FS!IsFiniteSet(TaskTokens(tasks, i)) /\ FS!IsFiniteSet(CallTokens(owed, i))
    /\ FS!Cardinality(TaskTokens(tasks, i)) + FS!Cardinality(CallTokens(owed, i)) + runs[i]
           <= faults + IF i \in used THEN 1 ELSE 0

-----------------------------------------------------------------------------
(* Tokens of bags. *)

\* Adding an element adds one copy of it.
LEMMA AddedCopy ==
    ASSUME NEW B, IsABag(B), NEW e
    PROVE  \E n \in Nat : /\ ~Copy(B, e, n)
                          /\ \A d, k : Copy(BagAdd(B, e), d, k) <=>
                                           Copy(B, d, k) \/ (d = e /\ k = n)
<1> DEFINE R == BagAdd(B, e)
<1>1. CASE e \in DOMAIN B
  <2>1. B[e] \in Nat /\ DOMAIN R = DOMAIN B
    BY <1>1 DEF IsABag, BagAdd
  <2>2. R[e] = B[e] + 1 /\ \A d \in DOMAIN B : d # e => R[d] = B[d]
    BY <1>1 DEF BagAdd
  <2> HIDE DEF R
  <2>3. /\ ~Copy(B, e, B[e] + 1)
        /\ \A d, k : Copy(R, d, k) <=> Copy(B, d, k) \/ (d = e /\ k = B[e] + 1)
    BY <1>1, <2>1, <2>2 DEF Copy
  <2> QED
    BY <2>1, <2>3 DEF R
<1>2. CASE e \notin DOMAIN B
  <2>1. DOMAIN R = DOMAIN B \cup {e} /\ R[e] = 1 /\ \A d \in DOMAIN B : R[d] = B[d]
    BY <1>2 DEF BagAdd
  <2> HIDE DEF R
  <2>2. ~Copy(B, e, 1) /\ \A d, k : Copy(R, d, k) <=> Copy(B, d, k) \/ (d = e /\ k = 1)
    BY <1>2, <2>1 DEF Copy
  <2> QED
    BY <2>2 DEF R
<1> QED
  BY <1>1, <1>2

\* Removing one removes the last copy.
LEMMA RemovedCopy ==
    ASSUME NEW B, IsABag(B), NEW e \in DOMAIN B
    PROVE  \E n \in Nat : /\ Copy(B, e, n)
                          /\ \A d, k : Copy(BagRemove(B, e), d, k) <=>
                                           Copy(B, d, k) /\ ~(d = e /\ k = n)
<1> DEFINE R == BagRemove(B, e)
<1>1. B[e] \in Nat /\ B[e] > 0
  BY DEF IsABag
<1>2. \/ B[e] = 1 /\ DOMAIN R = DOMAIN B \ {e} /\ \A d \in DOMAIN R : R[d] = B[d]
      \/ /\ DOMAIN R = DOMAIN B /\ R[e] = B[e] - 1
         /\ \A d \in DOMAIN B : d # e => R[d] = B[d]
  BY DEF BagRemove
<1> HIDE DEF R
<1>3. /\ Copy(B, e, B[e])
      /\ \A d, k : Copy(R, d, k) <=> Copy(B, d, k) /\ ~(d = e /\ k = B[e])
  BY <1>1, <1>2 DEF Copy
<1> QED
  BY <1>1, <1>3 DEF R

\* A set with one element more or less.
LEMMA OneMore ==
    ASSUME NEW S, FS!IsFiniteSet(S), NEW x, x \notin S
    PROVE  FS!IsFiniteSet(S \cup {x}) /\ FS!Cardinality(S \cup {x}) = FS!Cardinality(S) + 1
BY FS!FS_AddElement

\* The same for one that is taken away.
LEMMA OneLess ==
    ASSUME NEW S, FS!IsFiniteSet(S), NEW x \in S
    PROVE  FS!IsFiniteSet(S \ {x}) /\ FS!Cardinality(S \ {x}) = FS!Cardinality(S) - 1
BY FS!FS_RemoveElement

\* A task that joins adds what it costs.
LEMMA TaskAdded ==
    ASSUME NEW T, DOMAIN T = Broker, NEW b \in Broker, IsABag(T[b]), NEW u \in Task,
           NEW i, FS!IsFiniteSet(TaskTokens(T, i))
    PROVE  /\ FS!IsFiniteSet(TaskTokens(Joined(T, b, u), i))
           /\ FS!Cardinality(TaskTokens(Joined(T, b, u), i))
                  = FS!Cardinality(TaskTokens(T, i)) + TaskCost(u, i)
<1> DEFINE R == Joined(T, b, u)
<1> PICK n \in Nat : /\ ~Copy(T[b], u, n)
                     /\ \A d, k : Copy(BagAdd(T[b], u), d, k) <=>
                                      Copy(T[b], d, k) \/ (d = u /\ k = n)
  BY AddedCopy
<1> DEFINE z == <<b, u, n>>
<1>1. z \in Broker \X Task \X Nat /\ z[1] = b /\ z[2] = u /\ z[3] = n
  OBVIOUS
<1>2. \A x \in Broker \X Task \X Nat : x = z <=> x[1] = b /\ x[2] = u /\ x[3] = n
  OBVIOUS
<1> HIDE DEF z
<1>3. \A x \in Broker \X Task \X Nat :
          Copy(R[x[1]], x[2], x[3]) <=> Copy(T[x[1]], x[2], x[3]) \/ x = z
  BY <1>2 DEF Joined
<1>4. z \notin TaskTokens(T, i)
  BY <1>1 DEF TaskTokens
<1>5. CASE Spends(u) /\ Root(u) = i
  <2>1. TaskTokens(R, i) = TaskTokens(T, i) \cup {z}
    BY <1>1, <1>3, <1>5 DEF TaskTokens
  <2> DEFINE S == TaskTokens(T, i)
  <2> HIDE DEF S
  <2>2. FS!IsFiniteSet(S \cup {z}) /\ FS!Cardinality(S \cup {z}) = FS!Cardinality(S) + 1
    BY <1>4, OneMore DEF S
  <2> QED
    BY <1>5, <2>1, <2>2 DEF TaskCost, S
<1>6. CASE ~(Spends(u) /\ Root(u) = i)
  <2>1. TaskTokens(R, i) = TaskTokens(T, i)
    BY <1>1, <1>3, <1>6 DEF TaskTokens
  <2>2. FS!Cardinality(TaskTokens(T, i)) \in Nat
    BY FS!FS_CardinalityType
  <2> QED
    BY <1>6, <2>1, <2>2 DEF TaskCost
<1> QED
  BY <1>5, <1>6

\* One that is taken away takes its cost with it.
LEMMA TaskRemoved ==
    ASSUME NEW T, DOMAIN T = Broker, NEW b \in Broker, IsABag(T[b]), NEW u \in Task,
           u \in DOMAIN T[b], NEW i, FS!IsFiniteSet(TaskTokens(T, i))
    PROVE  /\ FS!IsFiniteSet(TaskTokens(Left(T, b, u), i))
           /\ FS!Cardinality(TaskTokens(Left(T, b, u), i))
                  = FS!Cardinality(TaskTokens(T, i)) - TaskCost(u, i)
<1> DEFINE R == Left(T, b, u)
<1> PICK n \in Nat : /\ Copy(T[b], u, n)
                     /\ \A d, k : Copy(BagRemove(T[b], u), d, k) <=>
                                      Copy(T[b], d, k) /\ ~(d = u /\ k = n)
  BY RemovedCopy
<1> DEFINE z == <<b, u, n>>
<1>1. z \in Broker \X Task \X Nat /\ z[1] = b /\ z[2] = u /\ z[3] = n
  OBVIOUS
<1>2. \A x \in Broker \X Task \X Nat : x = z <=> x[1] = b /\ x[2] = u /\ x[3] = n
  OBVIOUS
<1> HIDE DEF z
<1>3. \A x \in Broker \X Task \X Nat :
          Copy(R[x[1]], x[2], x[3]) <=> Copy(T[x[1]], x[2], x[3]) /\ x # z
  BY <1>2 DEF Left
<1>4. CASE Spends(u) /\ Root(u) = i
  <2>1. z \in TaskTokens(T, i)
    BY <1>1, <1>4 DEF TaskTokens
  <2>2. TaskTokens(R, i) = TaskTokens(T, i) \ {z}
    BY <1>1, <1>3, <1>4 DEF TaskTokens
  <2> DEFINE S == TaskTokens(T, i)
  <2> HIDE DEF S
  <2>3. FS!IsFiniteSet(S \ {z}) /\ FS!Cardinality(S \ {z}) = FS!Cardinality(S) - 1
    BY <2>1, OneLess DEF S
  <2> QED
    BY <1>4, <2>2, <2>3 DEF TaskCost, S
<1>5. CASE ~(Spends(u) /\ Root(u) = i)
  <2>1. TaskTokens(R, i) = TaskTokens(T, i)
    BY <1>1, <1>3, <1>5 DEF TaskTokens
  <2>2. FS!Cardinality(TaskTokens(T, i)) \in Nat
    BY FS!FS_CardinalityType
  <2> QED
    BY <1>5, <2>1, <2>2 DEF TaskCost
<1> QED
  BY <1>4, <1>5

\* When a broker stops its tokens are gone.
LEMMA TasksGone ==
    ASSUME NEW T, DOMAIN T = Broker, NEW b \in Broker, NEW i, FS!IsFiniteSet(TaskTokens(T, i)),
           NEW R, R = [T EXCEPT ![b] = EmptyBag]
    PROVE  /\ FS!IsFiniteSet(TaskTokens(R, i))
           /\ FS!Cardinality(TaskTokens(R, i)) <= FS!Cardinality(TaskTokens(T, i))
<1>1. TaskTokens(R, i) \subseteq TaskTokens(T, i)
  BY EmptyIsBag DEF TaskTokens, Copy
<1> QED
  BY <1>1, FS!FS_Subset

\* A callback that is owed adds what it costs ...
LEMMA CallAdded ==
    ASSUME NEW C, IsABag(C), NEW c \in Callback, NEW i, FS!IsFiniteSet(CallTokens(C, i))
    PROVE  /\ FS!IsFiniteSet(CallTokens(BagAdd(C, c), i))
           /\ FS!Cardinality(CallTokens(BagAdd(C, c), i))
                  = FS!Cardinality(CallTokens(C, i)) + CallCost(c, i)
<1> DEFINE R == BagAdd(C, c)
<1> PICK n \in Nat : /\ ~Copy(C, c, n)
                     /\ \A d, k : Copy(R, d, k) <=> Copy(C, d, k) \/ (d = c /\ k = n)
  BY AddedCopy
<1> HIDE DEF R
<1> DEFINE z == <<c, n>>
<1>1. z \in Callback \X Nat /\ z[1] = c /\ z[2] = n
  OBVIOUS
<1>2. \A x \in Callback \X Nat : x = z <=> x[1] = c /\ x[2] = n
  OBVIOUS
<1> HIDE DEF z
<1>3. \A x \in Callback \X Nat : Copy(R, x[1], x[2]) <=> Copy(C, x[1], x[2]) \/ x = z
  BY <1>2
<1>4. z \notin CallTokens(C, i)
  BY <1>1 DEF CallTokens
<1>5. CASE Sends(c) /\ c.id = i
  <2>1. CallTokens(R, i) = CallTokens(C, i) \cup {z}
    BY <1>1, <1>3, <1>5 DEF CallTokens
  <2> QED
    BY <1>4, <1>5, <2>1, OneMore DEF CallCost, R
<1>6. CASE ~(Sends(c) /\ c.id = i)
  <2>1. CallTokens(R, i) = CallTokens(C, i)
    BY <1>1, <1>3, <1>6 DEF CallTokens
  <2>2. FS!Cardinality(CallTokens(C, i)) \in Nat
    BY FS!FS_CardinalityType
  <2> QED
    BY <1>6, <2>1, <2>2 DEF CallCost, R
<1> QED
  BY <1>5, <1>6

\* ... and takes it away when it has come.
LEMMA CallRemoved ==
    ASSUME NEW C, IsABag(C), NEW c \in Callback, c \in DOMAIN C, NEW i,
           FS!IsFiniteSet(CallTokens(C, i))
    PROVE  /\ FS!IsFiniteSet(CallTokens(BagRemove(C, c), i))
           /\ FS!Cardinality(CallTokens(BagRemove(C, c), i))
                  = FS!Cardinality(CallTokens(C, i)) - CallCost(c, i)
<1> DEFINE R == BagRemove(C, c)
<1> PICK n \in Nat : /\ Copy(C, c, n)
                     /\ \A d, k : Copy(R, d, k) <=> Copy(C, d, k) /\ ~(d = c /\ k = n)
  BY RemovedCopy
<1> HIDE DEF R
<1> DEFINE z == <<c, n>>
<1>1. z \in Callback \X Nat /\ z[1] = c /\ z[2] = n
  OBVIOUS
<1>2. \A x \in Callback \X Nat : x = z <=> x[1] = c /\ x[2] = n
  OBVIOUS
<1> HIDE DEF z
<1>3. \A x \in Callback \X Nat : Copy(R, x[1], x[2]) <=> Copy(C, x[1], x[2]) /\ x # z
  BY <1>2
<1>4. CASE Sends(c) /\ c.id = i
  <2>1. z \in CallTokens(C, i)
    BY <1>1, <1>4 DEF CallTokens
  <2>2. CallTokens(R, i) = CallTokens(C, i) \ {z}
    BY <1>1, <1>3, <1>4 DEF CallTokens
  <2> QED
    BY <1>4, <2>1, <2>2, OneLess DEF CallCost, R
<1>5. CASE ~(Sends(c) /\ c.id = i)
  <2>1. CallTokens(R, i) = CallTokens(C, i)
    BY <1>1, <1>3, <1>5 DEF CallTokens
  <2>2. FS!Cardinality(CallTokens(C, i)) \in Nat
    BY FS!FS_CardinalityType
  <2> QED
    BY <1>5, <2>1, <2>2 DEF CallCost, R
<1> QED
  BY <1>4, <1>5

-----------------------------------------------------------------------------
(* How a step may move tokens. *)

TasksMove(i, d) ==
    /\ FS!IsFiniteSet(TaskTokens(tasks', i))
    /\ FS!Cardinality(TaskTokens(tasks', i)) <= FS!Cardinality(TaskTokens(tasks, i)) + d
CallsMove(i, d) ==
    /\ FS!IsFiniteSet(CallTokens(owed', i))
    /\ FS!Cardinality(CallTokens(owed', i)) <= FS!Cardinality(CallTokens(owed, i)) + d

\* what step may add to the tokens of i and its runs
Allowed(i, d) == d <= faults' - faults + IF i \in used' \ used THEN 1 ELSE 0

\* Tokens and runs are added for new requests and for faults.
LEMMA BudgetKept ==
    ASSUME IInv, IInv', Budget, used \subseteq used',
           \A i \in Id : \E d \in Int, e \in Int :
               TasksMove(i, d) /\ CallsMove(i, e) /\ Allowed(i, d + e + runs'[i] - runs[i])
    PROVE  Budget'
<1>1. ASSUME NEW i \in Id
      PROVE  /\ FS!IsFiniteSet(TaskTokens(tasks', i)) /\ FS!IsFiniteSet(CallTokens(owed', i))
             /\ FS!Cardinality(TaskTokens(tasks', i)) + FS!Cardinality(CallTokens(owed', i))
                    + runs'[i] <= faults' + IF i \in used' THEN 1 ELSE 0
  <2>1. PICK d \in Int, e \in Int :
            TasksMove(i, d) /\ CallsMove(i, e) /\ Allowed(i, d + e + runs'[i] - runs[i])
    OBVIOUS
  <2>2. /\ runs[i] \in Nat /\ runs'[i] \in Nat /\ faults \in Nat /\ faults' \in Nat
    BY DEF IInv, World
  <2>3. /\ FS!IsFiniteSet(TaskTokens(tasks, i)) /\ FS!IsFiniteSet(CallTokens(owed, i))
        /\ FS!IsFiniteSet(TaskTokens(tasks', i)) /\ FS!IsFiniteSet(CallTokens(owed', i))
    BY <2>1 DEF Budget, TasksMove, CallsMove
  <2> DEFINE a == FS!Cardinality(TaskTokens(tasks, i))
             c == FS!Cardinality(CallTokens(owed, i))
             x == FS!Cardinality(TaskTokens(tasks', i))
             y == FS!Cardinality(CallTokens(owed', i))
  <2>4. a \in Nat /\ c \in Nat /\ x \in Nat /\ y \in Nat
    BY <2>3, FS!FS_CardinalityType
  <2>5. /\ a + c + runs[i] <= faults + (IF i \in used THEN 1 ELSE 0)
        /\ x <= a + d /\ y <= c + e
    BY <2>1 DEF Budget, TasksMove, CallsMove
  <2> HIDE DEF a, c, x, y
  <2>6. x + y + runs'[i] <= faults' + (IF i \in used' THEN 1 ELSE 0)
    BY <2>1, <2>2, <2>4, <2>5 DEF Allowed
  <2> QED
    BY <2>3, <2>6 DEF x, y
<1> QED
  BY <1>1 DEF Budget

\* The tasks as they are.
LEMMA SameTokens ==
    ASSUME Budget
    PROVE  /\ UNCHANGED tasks => \A i \in Id : TasksMove(i, 0)
           /\ UNCHANGED owed => \A i \in Id : CallsMove(i, 0)
<1>1. ASSUME NEW i \in Id
      PROVE  /\ FS!Cardinality(TaskTokens(tasks, i)) \in Nat
             /\ FS!Cardinality(CallTokens(owed, i)) \in Nat
  BY FS!FS_CardinalityType DEF Budget
<1> QED
  BY <1>1 DEF Budget, TasksMove, CallsMove

\* A task becomes another one.
LEMMA OnwardTokens ==
    ASSUME IInv, IInv', Budget, NEW b \in Broker, NEW t \in DOMAIN tasks[b], NEW STATE u,
           Becomes(b, t, u)
    PROVE  \A i \in Id : TasksMove(i, TaskCost(u, i) - TaskCost(t, i))
<1> DEFINE R == Left(tasks, b, t)
<1>1. DOMAIN tasks = Broker /\ IsABag(tasks[b]) /\ t \in Task
  BY PendingIsTask DEF IInv, Brokers, Tasks
<1>2. DOMAIN R = Broker /\ R[b] = BagRemove(tasks[b], t) /\ IsABag(R[b])
  BY <1>1, RemovedBag DEF Left
<1>3. tasks' = Joined(R, b, u)
  BY <1>1 DEF Becomes, Swap, Left, Joined
<1> HIDE DEF R
<1>4. u \in DOMAIN tasks'[b]
  <2>1. DOMAIN BagAdd(R[b], u) = DOMAIN R[b] \cup {u}
    BY <1>2, AddedBag
  <2> QED
    BY <1>2, <1>3, <2>1 DEF Joined
<1>5. u \in Task
  BY <1>4 DEF IInv, Brokers, Tasks, Sound
<1>6. ASSUME NEW i \in Id
      PROVE  TasksMove(i, TaskCost(u, i) - TaskCost(t, i))
  <2>1. FS!IsFiniteSet(TaskTokens(tasks, i))
    BY DEF Budget
  <2>2. /\ FS!IsFiniteSet(TaskTokens(R, i))
        /\ FS!Cardinality(TaskTokens(R, i))
               = FS!Cardinality(TaskTokens(tasks, i)) - TaskCost(t, i)
    BY <1>1, <2>1, TaskRemoved DEF R
  <2>3. /\ FS!IsFiniteSet(TaskTokens(tasks', i))
        /\ FS!Cardinality(TaskTokens(tasks', i))
               = FS!Cardinality(TaskTokens(R, i)) + TaskCost(u, i)
    BY <1>2, <1>3, <1>5, <2>2, TaskAdded
  <2>4. /\ FS!Cardinality(TaskTokens(tasks, i)) \in Nat
        /\ FS!Cardinality(TaskTokens(tasks', i)) \in Nat
    BY <2>1, <2>3, FS!FS_CardinalityType
  <2>5. TaskCost(u, i) \in Int /\ TaskCost(t, i) \in Int
    BY DEF TaskCost
  <2> QED
    BY <2>2, <2>3, <2>4, <2>5 DEF TasksMove
<1> QED
  BY <1>6

\* A task ends, or all of a broker do.
LEMMA EndTokens ==
    ASSUME IInv, Budget, NEW b \in Broker, NEW t \in DOMAIN tasks[b], Done(b, t)
    PROVE  \A i \in Id : TasksMove(i, 0)
<1>1. DOMAIN tasks = Broker /\ IsABag(tasks[b]) /\ t \in Task
  BY PendingIsTask DEF IInv, Brokers, Tasks
<1>2. tasks' = Left(tasks, b, t)
  BY DEF Done, Drop, Left
<1>3. ASSUME NEW i \in Id
      PROVE  TasksMove(i, 0)
  <2>1. FS!IsFiniteSet(TaskTokens(tasks, i))
    BY DEF Budget
  <2>2. /\ FS!IsFiniteSet(TaskTokens(tasks', i))
        /\ FS!Cardinality(TaskTokens(tasks', i))
               = FS!Cardinality(TaskTokens(tasks, i)) - TaskCost(t, i)
    BY <1>1, <1>2, <2>1, TaskRemoved
  <2>3. FS!Cardinality(TaskTokens(tasks, i)) \in Nat
    BY <2>1, FS!FS_CardinalityType
  <2> QED
    BY <2>2, <2>3 DEF TasksMove, TaskCost
<1> QED
  BY <1>3

\* The process of a broker ends.
LEMMA CrashTokens ==
    ASSUME IInv, Budget, NEW b \in Broker, Crashes(b)
    PROVE  \A i \in Id : TasksMove(i, 0)
<1>1. DOMAIN tasks = Broker
  BY DEF IInv, Brokers, Tasks
<1>2. tasks' = [tasks EXCEPT ![b] = EmptyBag]
  BY DEF Crashes
<1>3. ASSUME NEW i \in Id
      PROVE  TasksMove(i, 0)
  <2>1. FS!IsFiniteSet(TaskTokens(tasks, i))
    BY DEF Budget
  <2>2. /\ FS!IsFiniteSet(TaskTokens(tasks', i))
        /\ FS!Cardinality(TaskTokens(tasks', i)) <= FS!Cardinality(TaskTokens(tasks, i))
    BY <1>1, <1>2, <2>1, TasksGone
  <2>3. FS!Cardinality(TaskTokens(tasks, i)) \in Nat
    BY <2>1, FS!FS_CardinalityType
  <2> QED
    BY <2>2, <2>3 DEF TasksMove
<1> QED
  BY <1>3

\* A task starts.
LEMMA StartTokens ==
    ASSUME IInv, IInv', Budget, NEW b \in Broker, NEW STATE u, tasks' = Start(b, u)
    PROVE  \A i \in Id : TasksMove(i, TaskCost(u, i))
<1>1. DOMAIN tasks = Broker /\ IsABag(tasks[b])
  BY DEF IInv, Brokers, Tasks
<1>2. tasks' = Joined(tasks, b, u)
  BY DEF Start, Joined
<1>3. u \in DOMAIN tasks'[b]
  <2>1. DOMAIN BagAdd(tasks[b], u) = DOMAIN tasks[b] \cup {u}
    BY <1>1, AddedBag
  <2> QED
    BY <1>1, <1>2, <2>1 DEF Joined
<1>4. u \in Task
  BY <1>3 DEF IInv, Brokers, Tasks, Sound
<1>5. ASSUME NEW i \in Id
      PROVE  TasksMove(i, TaskCost(u, i))
  <2>1. FS!IsFiniteSet(TaskTokens(tasks, i))
    BY DEF Budget
  <2>2. /\ FS!IsFiniteSet(TaskTokens(tasks', i))
        /\ FS!Cardinality(TaskTokens(tasks', i))
               = FS!Cardinality(TaskTokens(tasks, i)) + TaskCost(u, i)
    BY <1>1, <1>2, <1>4, <2>1, TaskAdded
  <2>3. FS!Cardinality(TaskTokens(tasks, i)) \in Nat
    BY <2>1, FS!FS_CardinalityType
  <2> QED
    BY <2>2, <2>3 DEF TasksMove, TaskCost
<1> QED
  BY <1>5

\* A call between the brokers: one starts at the peer, while at b a task may
\* become another one.
LEMMA CallTasks ==
    ASSUME IInv, IInv', Budget, NEW b \in Broker, NEW t \in DOMAIN tasks[b],
           NEW STATE u, NEW STATE v,
           tasks' = [Swap(b, t, u) EXCEPT ![Peer[b]] = BagAdd(@, v)]
    PROVE  \A i \in Id : TasksMove(i, TaskCost(u, i) - TaskCost(t, i) + TaskCost(v, i))
<1> DEFINE p == Peer[b]
           R == Left(tasks, b, t)
           Q == Joined(R, b, u)
<1>1. /\ DOMAIN tasks = Broker /\ IsABag(tasks[b]) /\ IsABag(tasks[p]) /\ t \in Task
      /\ p \in Broker /\ p # b
  BY PendingIsTask, PeerIsBroker DEF IInv, Brokers, Tasks
<1>2. /\ DOMAIN R = Broker /\ R[b] = BagRemove(tasks[b], t) /\ IsABag(R[b])
      /\ R[p] = tasks[p]
  BY <1>1, RemovedBag DEF Left
<1>3. Q = Swap(b, t, u)
  BY <1>1 DEF Swap, Left, Joined
<1> HIDE DEF R
<1> HIDE DEF p
<1>4. /\ DOMAIN Q = Broker /\ Q[p] = tasks[p] /\ Q[b] = BagAdd(R[b], u)
      /\ IsABag(Q[p])
  BY <1>1, <1>2 DEF Joined
<1> HIDE DEF Q
<1>5. tasks' = Joined(Q, p, v)
  BY <1>3 DEF Joined, p
<1>6. u \in DOMAIN tasks'[b] /\ v \in DOMAIN tasks'[p]
  <2>1. DOMAIN BagAdd(R[b], u) = DOMAIN R[b] \cup {u}
    BY <1>2, AddedBag
  <2>2. DOMAIN BagAdd(Q[p], v) = DOMAIN Q[p] \cup {v}
    BY <1>4, AddedBag
  <2> QED
    BY <1>1, <1>4, <1>5, <2>1, <2>2 DEF Joined
<1>7. u \in Task /\ v \in Task
  BY <1>1, <1>6 DEF IInv, Brokers, Tasks, Sound
<1>8. ASSUME NEW i \in Id
      PROVE  TasksMove(i, TaskCost(u, i) - TaskCost(t, i) + TaskCost(v, i))
  <2>1. FS!IsFiniteSet(TaskTokens(tasks, i))
    BY DEF Budget
  <2>2. /\ FS!IsFiniteSet(TaskTokens(R, i))
        /\ FS!Cardinality(TaskTokens(R, i))
               = FS!Cardinality(TaskTokens(tasks, i)) - TaskCost(t, i)
    BY <1>1, <2>1, TaskRemoved DEF R
  <2>3. /\ FS!IsFiniteSet(TaskTokens(Q, i))
        /\ FS!Cardinality(TaskTokens(Q, i)) = FS!Cardinality(TaskTokens(R, i)) + TaskCost(u, i)
    BY <1>2, <1>7, <2>2, TaskAdded DEF Q
  <2>4. /\ FS!IsFiniteSet(TaskTokens(tasks', i))
        /\ FS!Cardinality(TaskTokens(tasks', i))
               = FS!Cardinality(TaskTokens(Q, i)) + TaskCost(v, i)
    <3>1. p \in Broker /\ FS!IsFiniteSet(TaskTokens(Q, i))
      BY <1>1, <2>3
    <3>2. /\ FS!IsFiniteSet(TaskTokens(Joined(Q, p, v), i))
          /\ FS!Cardinality(TaskTokens(Joined(Q, p, v), i))
                 = FS!Cardinality(TaskTokens(Q, i)) + TaskCost(v, i)
      BY <1>4, <1>7, <3>1, TaskAdded
    <3> QED
      BY <1>5, <3>2
  <2>5. /\ FS!Cardinality(TaskTokens(tasks, i)) \in Nat
        /\ FS!Cardinality(TaskTokens(tasks', i)) \in Nat
    BY <2>1, <2>4, FS!FS_CardinalityType
  <2>6. TaskCost(u, i) \in Int /\ TaskCost(t, i) \in Int /\ TaskCost(v, i) \in Int
    BY DEF TaskCost
  <2> QED
    BY <2>2, <2>3, <2>4, <2>5, <2>6 DEF TasksMove
<1> QED
  BY <1>8

\* A callback is owed, or one that was owed has come or is lost.
LEMMA OwedTokens ==
    ASSUME IInv, IInv', Budget, NEW STATE c
    PROVE  /\ owed' = BagAdd(owed, c) => \A i \in Id : CallsMove(i, CallCost(c, i))
           /\ c \in DOMAIN owed /\ owed' = BagRemove(owed, c)
                  => \A i \in Id : CallsMove(i, 0 - CallCost(c, i))
<1>1. IsABag(owed) /\ DOMAIN owed \subseteq Callback /\ DOMAIN owed' \subseteq Callback
  BY DEF IInv, World
<1>2. ASSUME NEW i \in Id
      PROVE  /\ FS!IsFiniteSet(CallTokens(owed, i))
             /\ FS!Cardinality(CallTokens(owed, i)) \in Nat
             /\ CallCost(c, i) \in Int
  BY FS!FS_CardinalityType DEF Budget, CallCost
<1>3. ASSUME owed' = BagAdd(owed, c), NEW i \in Id
      PROVE  CallsMove(i, CallCost(c, i))
  <2>1. c \in Callback
    BY <1>1, <1>3, AddedBag
  <2>2. /\ FS!IsFiniteSet(CallTokens(owed', i))
        /\ FS!Cardinality(CallTokens(owed', i))
               = FS!Cardinality(CallTokens(owed, i)) + CallCost(c, i)
    BY <1>1, <1>2, <1>3, <2>1, CallAdded
  <2> QED
    BY <1>2, <2>2 DEF CallsMove
<1>4. ASSUME c \in DOMAIN owed, owed' = BagRemove(owed, c), NEW i \in Id
      PROVE  CallsMove(i, 0 - CallCost(c, i))
  <2>1. /\ FS!IsFiniteSet(CallTokens(owed', i))
        /\ FS!Cardinality(CallTokens(owed', i))
               = FS!Cardinality(CallTokens(owed, i)) - CallCost(c, i)
    BY <1>1, <1>2, <1>4, CallRemoved
  <2> QED
    BY <1>2, <2>1 DEF CallsMove
<1> QED
  BY <1>3, <1>4

-----------------------------------------------------------------------------
(* The operations that start nothing. *)

\* a step in which nothing runs and the PO owes nothing more
Calm == /\ UNCHANGED <<owed, runs>> /\ used \subseteq used'
        /\ faults' \in Int /\ faults <= faults'

\* u is on its way to a service only if t was, for the same request
Cheaper(t, u) == Spends(u) => Spends(t) /\ Root(u) = Root(t)

\* A fault may be spent, none is taken back.
LEMMA FaultsGrow ==
    ASSUME IInv, NoFault \/ UNCHANGED faults \/ \E kind : Fault(kind)
    PROVE  faults' \in Int /\ faults <= faults'
<1>1. faults \in Nat
  BY EnvironmentAssumption DEF IInv, World
<1> QED
  BY <1>1 DEF NoFault, Fault

\* Tasks that end are never missed.
LEMMA CalmBudget ==
    ASSUME IInv, IInv', Budget, Calm, \A i \in Id : TasksMove(i, 0)
    PROVE  Budget'
<1>1. \A i \in Id : CallsMove(i, 0)
  BY SameTokens DEF Calm
<1>2. ASSUME NEW i \in Id
      PROVE  Allowed(i, 0 + 0 + runs'[i] - runs[i])
  <2>1. runs[i] \in Nat /\ runs'[i] = runs[i] /\ faults \in Nat
    BY EnvironmentAssumption DEF IInv, World, Calm
  <2> QED
    BY <2>1 DEF Allowed, Calm
<1> QED
  BY <1>1, <1>2, BudgetKept DEF Calm

\* A task that becomes another one needs no more than it had.
LEMMA OnwardBudget ==
    ASSUME IInv, IInv', Budget, Calm, NEW b \in Broker, NEW t \in DOMAIN tasks[b],
           NEW STATE u, Cheaper(t, u), Becomes(b, t, u)
    PROVE  Budget'
<1>1. ASSUME NEW i \in Id
      PROVE  TasksMove(i, 0)
  <2>1. TasksMove(i, TaskCost(u, i) - TaskCost(t, i))
    BY OnwardTokens
  <2>2. TaskCost(u, i) \in Int /\ TaskCost(t, i) \in Int /\ TaskCost(u, i) <= TaskCost(t, i)
    BY DEF TaskCost, Cheaper
  <2>3. FS!IsFiniteSet(TaskTokens(tasks, i)) /\ FS!IsFiniteSet(TaskTokens(tasks', i))
    BY <2>1 DEF TasksMove, Budget
  <2>4. /\ FS!Cardinality(TaskTokens(tasks, i)) \in Nat
        /\ FS!Cardinality(TaskTokens(tasks', i)) \in Nat
    BY <2>3, FS!FS_CardinalityType
  <2> QED
    BY <2>1, <2>2, <2>4 DEF TasksMove
<1> QED
  BY <1>1, CalmBudget

\* Nor does one that ends, or all of a broker do.
LEMMA EndBudget ==
    ASSUME IInv, IInv', Budget, Calm, NEW b \in Broker, NEW t \in DOMAIN tasks[b],
           Done(b, t) \/ Crashes(b)
    PROVE  Budget'
BY EndTokens, CrashTokens, CalmBudget

\* What writes, deletes or returns a result is not on its way to a service.
LEMMA WriteFree ==
    ASSUME NEW STATE t, t \in Task, NEW STATE status, NEW STATE resp
    PROVE  /\ ~Spends(Write(t, status, resp)) /\ ~Spends(Return(t, resp))
           /\ ~Spends(Conclude(t, resp))
<1>1. Write(t, status, resp).do = "write" /\ Write(t, "FINISHED", resp).do = "write"
  BY DEF Write, Task
<1>2. Return(t, resp).do = "callback"
  BY DEF Return, Task
<1> QED
  BY <1>1, <1>2 DEF Spends, Conclude

\* Another operation of the same handler.
LEMMA NextCheaper ==
    ASSUME NEW STATE t, t \in Task, NEW do \in Operation \ {"find"},
           do \in {"service", "relocated", "protect", "forward"} => Spends(t)
    PROVE  Cheaper(t, [t EXCEPT !.do = do])
<1> DEFINE u == [t EXCEPT !.do = do]
<1>1. u.do = do /\ u.id = t.id /\ u.req = t.req
  BY DEF Task
<1> HIDE DEF u
<1>2. Cheaper(t, u)
  BY <1>1 DEF Cheaper, Spends, Root
<1> QED
  BY <1>2 DEF u

\* The lookup of a service ends.
LEMMA FoundBudget ==
    ASSUME IInv, IInv', Budget, NEW b \in Broker, NEW t \in DOMAIN tasks[b],
           \/ FoundLocal(b, t) \/ FoundExternal(b, t)
           \/ FoundOrigin(b, t) \/ NotFound(b, t)
    PROVE  Budget'
<1>1. /\ t.do = "find" /\ UNCHANGED <<owed, runs, used>>
      /\ NoFault \/ \E kind : Fault(kind)
  BY DEF FoundLocal, FoundExternal, FoundOrigin, NotFound, Located, Running
<1>2. Calm /\ t \in Task
  BY <1>1, FaultsGrow, PendingIsTask DEF Calm, IInv
<1> DEFINE next(do) == [t EXCEPT !.do = do]
<1>3. Cheaper(t, next("saveThenUnprotect"))
  BY <1>2, NextCheaper DEF Operation
<1>4. Spends(t) => \A do \in {"service", "protect", "forward"} : Cheaper(t, next(do))
  BY <1>2, NextCheaper DEF Operation
<1>5. t.at # "unprotect" => Spends(t)
  BY <1>1 DEF Spends
<1> HIDE DEF next
<1>6. \/ Crashes(b)
      \/ \E status, resp :
             Becomes(b, t, Write(t, status, resp)) \/ Becomes(b, t, Return(t, resp))
      \/ Becomes(b, t, next("saveThenUnprotect"))
      \/ /\ t.at # "unprotect"
         /\ \E do \in {"service", "protect", "forward"} : Becomes(b, t, next(do))
  <2>1. CASE FoundLocal(b, t)
    BY <2>1 DEF FoundLocal, next
  <2>2. CASE FoundExternal(b, t)
    BY <2>2 DEF FoundExternal, next
  <2>3. CASE FoundOrigin(b, t)
    BY <2>3 DEF FoundOrigin, next
  <2>4. CASE NotFound(b, t)
    BY <2>4 DEF NotFound, Conclude
  <2> QED
    BY <2>1, <2>2, <2>3, <2>4
<1>7. ASSUME NEW status, NEW resp,
             Becomes(b, t, Write(t, status, resp)) \/ Becomes(b, t, Return(t, resp))
      PROVE  Budget'
  <2> DEFINE w == Write(t, status, resp)
             r == Return(t, resp)
  <2>1. ~Spends(w) /\ ~Spends(r)
    BY <1>2, WriteFree
  <2>2. Becomes(b, t, w) \/ Becomes(b, t, r)
    BY <1>7
  <2>3. Cheaper(t, w) /\ Cheaper(t, r)
    BY <2>1 DEF Cheaper
  <2> HIDE DEF w, r
  <2> QED
    BY <1>2, <2>2, <2>3, OnwardBudget
<1>8. CASE Crashes(b)
  BY <1>2, <1>8, EndBudget
<1> QED
  BY <1>2, <1>3, <1>4, <1>5, <1>6, <1>7, <1>8, OnwardBudget

-----------------------------------------------------------------------------
(* A service runs for a token, or for a fault. *)

\* The run, and a callback that sends nothing on.
LEMMA RunsCost ==
    ASSUME IInv, IInv', Budget, NEW b \in Broker, NEW t \in DOMAIN tasks[b], Spends(t),
           NEW code \in {200, 202, 500}, Runs(b, t, code)
    PROVE  \A i \in Id : CallsMove(i, 0) /\ runs'[i] - runs[i] = TaskCost(t, i)
<1> DEFINE c == [to |-> b, id |-> t.id, from |-> "service", ok |-> FALSE,
                 value |-> Computed(t.req.body)]
<1>1. runs' = [runs EXCEPT ![Root(t)] = @ + 1] /\ (owed' = owed \/ owed' = BagAdd(owed, c))
  BY DEF Runs
<1>2. \A i \in Id : CallCost(c, i) = 0
  BY DEF CallCost, Sends, EndsProcess
<1> HIDE DEF c
<1>3. \A i \in Id : CallsMove(i, 0)
  <2>1. CASE owed' = owed
    BY <2>1, SameTokens
  <2>2. CASE owed' = BagAdd(owed, c)
    <3>1. \A i \in Id : CallsMove(i, CallCost(c, i))
      BY <2>2, OwedTokens
    <3> QED
      BY <1>2, <3>1
  <2> QED
    BY <1>1, <2>1, <2>2
<1>4. ASSUME NEW i \in Id
      PROVE  runs'[i] - runs[i] = TaskCost(t, i)
  <2>1. runs \in [Id -> Nat] /\ runs[i] \in Nat
    BY DEF IInv, World
  <2> QED
    BY <1>1, <2>1 DEF TaskCost
<1> QED
  BY <1>3, <1>4

\* The call to a service ends, or is made once more.
LEMMA ServiceBudget ==
    ASSUME IInv, IInv', Budget, NEW b \in Broker, NEW t \in DOMAIN tasks[b],
           \/ \E code \in {200, 202, 500} :
                  ServiceAnswers(b, t, code) \/ ServiceRunsAgain(b, t, code)
           \/ \E code \in {404, 500, 503} : ServiceFails(b, t, code)
           \/ ServiceServed(b, t) \/ ServiceMoved(b, t)
    PROVE  Budget'
<1>1. t \in Task /\ faults \in Nat
  BY PendingIsTask, EnvironmentAssumption DEF IInv, World
<1>2. CASE \E code \in {200, 202, 500} : ServiceAnswers(b, t, code)
  <2> PICK code \in {200, 202, 500} : ServiceAnswers(b, t, code)
    BY <1>2
  <2> DEFINE u == [t EXCEPT !.do = "served", !.resp =
                       Answer(code, IF code = 200 THEN Computed(t.req.body) ELSE "message")]
  <2>1. /\ Spends(t) /\ Runs(b, t, code) /\ Becomes(b, t, u) /\ UNCHANGED <<used, faults>>
    BY DEF ServiceAnswers, Running, Spends
  <2>2. u.do = "served"
    BY <1>1 DEF Task
  <2> HIDE DEF u
  <2>3. \A i \in Id : TaskCost(u, i) = 0 /\ TaskCost(t, i) \in {0, 1}
    BY <2>2 DEF TaskCost, Spends
  <2>4. \A i \in Id : CallsMove(i, 0) /\ runs'[i] - runs[i] = TaskCost(t, i)
    BY <2>1, RunsCost
  <2>5. \A i \in Id : TasksMove(i, TaskCost(u, i) - TaskCost(t, i))
    BY <2>1, OnwardTokens
  <2>6. ASSUME NEW i \in Id
        PROVE  \E d \in Int, e \in Int :
                   /\ TasksMove(i, d) /\ CallsMove(i, e)
                   /\ Allowed(i, d + e + runs'[i] - runs[i])
    <3>1. runs[i] \in Nat /\ runs'[i] \in Nat
      BY DEF IInv, World
    <3> DEFINE d == 0 - TaskCost(t, i)
    <3>2. d \in Int /\ d + 0 + runs'[i] - runs[i] = 0
      BY <2>3, <2>4, <3>1
    <3>3. TasksMove(i, d) /\ CallsMove(i, 0)
      BY <2>3, <2>4, <2>5
    <3>4. Allowed(i, 0)
      BY <1>1, <2>1 DEF Allowed
    <3> HIDE DEF d
    <3> QED
      BY <3>2, <3>3, <3>4
  <2> QED
    BY <2>1, <2>6, BudgetKept
<1>3. CASE \E code \in {200, 202, 500} : ServiceRunsAgain(b, t, code)
  <2> PICK code \in {200, 202, 500} : ServiceRunsAgain(b, t, code)
    BY <1>3
  <2>1. /\ Spends(t) /\ Runs(b, t, code) /\ UNCHANGED <<tasks, used>>
        /\ faults' = faults + 1
    BY DEF ServiceRunsAgain, Running, Spends, Fault
  <2>2. \A i \in Id : CallsMove(i, 0) /\ runs'[i] - runs[i] = TaskCost(t, i)
    BY <2>1, RunsCost
  <2>3. \A i \in Id : TasksMove(i, 0)
    BY <2>1, SameTokens
  <2>4. ASSUME NEW i \in Id
        PROVE  Allowed(i, 0 + 0 + runs'[i] - runs[i])
    <3>1. runs[i] \in Nat /\ runs'[i] \in Nat
      BY DEF IInv, World
    <3>2. TaskCost(t, i) \in {0, 1}
      BY DEF TaskCost
    <3> QED
      BY <1>1, <2>1, <2>2, <3>1, <3>2 DEF Allowed
  <2> QED
    BY <2>1, <2>2, <2>3, <2>4, BudgetKept
<1>4. CASE \/ \E code \in {404, 500, 503} : ServiceFails(b, t, code)
           \/ ServiceServed(b, t) \/ ServiceMoved(b, t)
  <2>1. /\ UNCHANGED <<owed, runs, used>>
        /\ UNCHANGED faults \/ \E kind : Fault(kind)
    BY <1>4 DEF ServiceFails, ServiceServed, ServiceMoved
  <2>2. Calm
    BY <2>1, FaultsGrow DEF Calm
  <2> DEFINE moved == [t EXCEPT !.do = "relocated"]
  <2>3. \/ \E status, resp : Becomes(b, t, Write(t, status, resp))
        \/ \E resp : Becomes(b, t, Conclude(t, resp))
        \/ Spends(t) /\ Becomes(b, t, moved)
    BY <1>4 DEF ServiceFails, ServiceServed, ServiceMoved, Running, Spends
  <2>4. Spends(t) => Cheaper(t, moved)
    BY <1>1, NextCheaper DEF Operation
  <2> HIDE DEF moved
  <2>5. ASSUME NEW status, NEW resp,
               Becomes(b, t, Write(t, status, resp)) \/ Becomes(b, t, Conclude(t, resp))
        PROVE  Budget'
    <3> DEFINE w == Write(t, status, resp)
               r == Conclude(t, resp)
    <3>1. Cheaper(t, w) /\ Cheaper(t, r)
      BY <1>1, WriteFree DEF Cheaper
    <3>2. Becomes(b, t, w) \/ Becomes(b, t, r)
      BY <2>5
    <3> HIDE DEF w, r
    <3> QED
      BY <2>2, <3>1, <3>2, OnwardBudget
  <2> QED
    BY <2>2, <2>3, <2>4, <2>5, OnwardBudget
<1> QED
  BY <1>2, <1>3, <1>4

-----------------------------------------------------------------------------
(* The PO: the token of protect() becomes the callback that sends on. *)

\* What the callback of the process may send on is what protect() was asked for.
LEMMA ProcessCost ==
    ASSUME IInv, IInv', Budget, Earned, NEW b \in Broker, NEW t \in DOMAIN tasks[b],
           t.do \in {"protect", "unprotect"}, NEW ok \in BOOLEAN, Process(b, t, ok)
    PROVE  \A i \in Id : \E e \in 0 .. TaskCost(t, i) : CallsMove(i, e)
<1> DEFINE c == [to |-> b, id |-> t.id, from |-> "po", ok |-> ok,
                 value |-> IF t.do = "protect" THEN "protected" ELSE "result"]
<1>1. owed' = BagAdd(owed, c)
  BY DEF Process
<1>2. Sends(c) => t.do = "protect"
  BY DEF Sends
<1>3. c.id = t.id
  OBVIOUS
<1> HIDE DEF c
<1>4. t.do = "protect" => Root(t) = t.id
  BY DEF Earned, Earns, Outbound, Root
<1>5. \A i \in Id : CallCost(c, i) \in 0 .. TaskCost(t, i)
  BY <1>2, <1>3, <1>4 DEF CallCost, TaskCost, Spends
<1>6. \A i \in Id : CallsMove(i, CallCost(c, i))
  BY <1>1, OwedTokens
<1> QED
  BY <1>5, <1>6

\* The PO starts a process, once or twice, or does not.
LEMMA POBudget ==
    ASSUME IInv, IInv', Budget, Earned, NEW b \in Broker, NEW t \in DOMAIN tasks[b],
           \/ \E ok \in BOOLEAN : POStarts(b, t, ok) \/ POStartsAgain(b, t, ok)
           \/ POStarted(b, t) \/ PORefuses(b, t) \/ POSaysNothing(b, t)
    PROVE  Budget'
<1>1. t \in Task /\ faults \in Nat /\ \A i \in Id : TaskCost(t, i) \in {0, 1}
  BY PendingIsTask, EnvironmentAssumption DEF IInv, World, TaskCost
<1>2. CASE \E ok \in BOOLEAN : POStarts(b, t, ok)
  <2> PICK ok \in BOOLEAN : POStarts(b, t, ok)
    BY <1>2
  <2> DEFINE u == [t EXCEPT !.do = "started"]
  <2>1. /\ t.do \in {"protect", "unprotect"} /\ Process(b, t, ok) /\ Becomes(b, t, u)
        /\ UNCHANGED <<used, runs, faults>>
    BY DEF POStarts, Running
  <2>2. u.do = "started"
    BY <1>1 DEF Task
  <2> HIDE DEF u
  <2>3. \A i \in Id : TaskCost(u, i) = 0
    BY <2>2 DEF TaskCost, Spends
  <2>4. \A i \in Id : \E e \in 0 .. TaskCost(t, i) : CallsMove(i, e)
    BY <2>1, ProcessCost
  <2>5. \A i \in Id : TasksMove(i, TaskCost(u, i) - TaskCost(t, i))
    BY <2>1, OnwardTokens
  <2>6. ASSUME NEW i \in Id
        PROVE  \E d \in Int, e \in Int :
                   /\ TasksMove(i, d) /\ CallsMove(i, e)
                   /\ Allowed(i, d + e + runs'[i] - runs[i])
    <3>1. runs[i] \in Nat /\ runs'[i] = runs[i]
      BY <2>1 DEF IInv, World
    <3> PICK e \in 0 .. TaskCost(t, i) : CallsMove(i, e)
      BY <2>4
    <3> DEFINE d == 0 - TaskCost(t, i)
    <3>2. d \in Int /\ e \in Int /\ d + e + runs'[i] - runs[i] <= 0
      BY <1>1, <3>1
    <3>3. TasksMove(i, d)
      BY <2>3, <2>5
    <3>4. Allowed(i, d + e + runs'[i] - runs[i])
      BY <1>1, <2>1, <3>2 DEF Allowed
    <3> QED
      BY <3>2, <3>3, <3>4
  <2> QED
    BY <2>1, <2>6, BudgetKept
<1>3. CASE \E ok \in BOOLEAN : POStartsAgain(b, t, ok)
  <2> PICK ok \in BOOLEAN : POStartsAgain(b, t, ok)
    BY <1>3
  <2>1. /\ t.do \in {"protect", "unprotect"} /\ Process(b, t, ok)
        /\ UNCHANGED <<tasks, used, runs>> /\ faults' = faults + 1
    BY DEF POStartsAgain, Running, Fault
  <2>2. \A i \in Id : \E e \in 0 .. TaskCost(t, i) : CallsMove(i, e)
    BY <2>1, ProcessCost
  <2>3. \A i \in Id : TasksMove(i, 0)
    BY <2>1, SameTokens
  <2>4. ASSUME NEW i \in Id
        PROVE  \E d \in Int, e \in Int :
                   /\ TasksMove(i, d) /\ CallsMove(i, e)
                   /\ Allowed(i, d + e + runs'[i] - runs[i])
    <3>1. runs[i] \in Nat /\ runs'[i] = runs[i]
      BY <2>1 DEF IInv, World
    <3> PICK e \in 0 .. TaskCost(t, i) : CallsMove(i, e)
      BY <2>2
    <3>2. e \in Int /\ 0 + e + runs'[i] - runs[i] <= 1
      BY <1>1, <3>1
    <3>3. Allowed(i, 0 + e + runs'[i] - runs[i])
      BY <1>1, <2>1, <3>2 DEF Allowed
    <3> QED
      BY <2>3, <3>2, <3>3
  <2> QED
    BY <2>1, <2>4, BudgetKept
<1>4. CASE POStarted(b, t) \/ PORefuses(b, t) \/ POSaysNothing(b, t)
  <2>1. /\ UNCHANGED <<owed, runs, used>>
        /\ UNCHANGED faults \/ \E kind : Fault(kind)
        /\ Done(b, t) \/ \E status, resp : Becomes(b, t, Write(t, status, resp))
    BY <1>4 DEF POStarted, PORefuses, POSaysNothing
  <2>2. Calm
    BY <2>1, FaultsGrow DEF Calm
  <2>3. ASSUME NEW status, NEW resp, Becomes(b, t, Write(t, status, resp))
        PROVE  Budget'
    <3> DEFINE w == Write(t, status, resp)
    <3>1. Cheaper(t, w) /\ Becomes(b, t, w)
      BY <1>1, <2>3, WriteFree DEF Cheaper
    <3> HIDE DEF w
    <3> QED
      BY <2>2, <3>1, OnwardBudget
  <2> QED
    BY <2>1, <2>2, <2>3, EndBudget
<1> QED
  BY <1>2, <1>3, <1>4

-----------------------------------------------------------------------------
(* The collections, the clients and the peer. *)

\* A write or a deletion completes or fails; a process stops or starts.
LEMMA StoreBudget ==
    ASSUME IInv, IInv', Budget, NEW b \in Broker,
           \/ \E t \in DOMAIN tasks[b] : ApplyWrite(b, t) \/ WriteFails(b, t) \/ Delete(b, t)
           \/ Stop(b) \/ Restart(b)
    PROVE  Budget'
<1>1. /\ UNCHANGED <<owed, runs, used>>
      /\ UNCHANGED faults \/ \E kind : Fault(kind)
  BY DEF ApplyWrite, WriteFails, Delete, Stop, Restart
<1>2. Calm
  BY <1>1, FaultsGrow DEF Calm
<1>3. ASSUME NEW t \in DOMAIN tasks[b], AfterWrite(b, t), t.do \in Writes \cup {"delete"}
      PROVE  Budget'
  <2> DEFINE u == [t EXCEPT !.do = "unprotect",
                            !.resp.unprotectParams = t.log[2].unprotectParams]
             w == Write(t, "FINISHED", t.resp)
  <2>1. Done(b, t) \/ Crashes(b) \/ Becomes(b, t, u) \/ Becomes(b, t, w)
    BY <1>3 DEF AfterWrite, Writes
  <2>2. t \in Task
    BY PendingIsTask DEF IInv
  <2>3. u.do = "unprotect" /\ ~Spends(w)
    BY <2>2, WriteFree DEF Task
  <2>4. Cheaper(t, u) /\ Cheaper(t, w)
    BY <2>3 DEF Cheaper, Spends
  <2> HIDE DEF u, w
  <2> QED
    BY <1>2, <2>1, <2>4, OnwardBudget, EndBudget
<1>4. ASSUME NEW t \in DOMAIN tasks[b], ApplyWrite(b, t) \/ WriteFails(b, t) PROVE Budget'
  <2>1. AfterWrite(b, t) /\ t.do \in Writes \cup {"delete"}
    BY <1>4 DEF ApplyWrite, WriteFails, Running
  <2> QED
    BY <1>3, <2>1
<1>5. ASSUME NEW t \in DOMAIN tasks[b], Delete(b, t) PROVE Budget'
  BY <1>2, <1>5, EndBudget DEF Delete
<1>6. CASE Stop(b)
  BY <1>2, <1>6, CrashTokens, CalmBudget DEF Stop
<1>7. CASE Restart(b)
  BY <1>2, <1>7, SameTokens, CalmBudget DEF Restart
<1> QED
  BY <1>4, <1>5, <1>6, <1>7

\* A new request pays for one run of its own.
LEMMA ClientBudget ==
    ASSUME IInv, IInv', Budget, NEW b \in Broker, NEW k \in ClientId,
           \/ \E s \in Service, skip \in BOOLEAN : Create(b, k, s, skip)
           \/ GetResult(b, k)
    PROVE  Budget'
<1>1. \A i \in Id : CallsMove(i, 0)
  BY SameTokens DEF Create, GetResult
<1>2. /\ UNCHANGED <<runs, faults>> /\ used \subseteq used' /\ faults \in Nat
      /\ \A i \in Id : runs[i] \in Nat
  <2>1. UNCHANGED <<runs, faults>> /\ used \subseteq used'
    BY DEF Create, GetResult
  <2> QED
    BY <2>1, EnvironmentAssumption DEF IInv, World
<1>3. ASSUME NEW s \in Service, NEW skip \in BOOLEAN, Create(b, k, s, skip) PROVE Budget'
  <2> DEFINE req == [service |-> s, skip_po |-> skip, body |-> "data", original_id |-> NoId]
             u == Work("find", "request", k, req)
  <2>1. tasks' = Start(b, u) /\ used' = used \cup {k} /\ k \notin used
    BY <1>3 DEF Create
  <2>2. Root(u) = k
    BY DEF Root, Work
  <2> HIDE DEF u
  <2>3. \A i \in Id : TasksMove(i, TaskCost(u, i))
    BY <2>1, StartTokens
  <2>4. ASSUME NEW i \in Id
        PROVE  TaskCost(u, i) \in Int /\ Allowed(i, TaskCost(u, i) + 0 + runs'[i] - runs[i])
    BY <1>2, <2>1, <2>2 DEF Allowed, TaskCost
  <2> QED
    BY <1>1, <1>2, <2>3, <2>4, BudgetKept
<1>4. CASE GetResult(b, k)
  <2> DEFINE u == Work("delete", "request", k, db[b][k].request)
  <2>1. tasks' = Start(b, u) /\ UNCHANGED used
    BY <1>4 DEF GetResult
  <2>2. ~Spends(u)
    BY DEF Spends, Work
  <2> HIDE DEF u
  <2>3. \A i \in Id : TasksMove(i, 0)
    BY <2>1, <2>2, StartTokens DEF TaskCost
  <2>4. Calm
    BY <1>2, <1>4, <2>1 DEF Calm, GetResult
  <2> QED
    BY <2>3, <2>4, CalmBudget
<1> QED
  BY <1>3, <1>4

\* The peer accepts a request: the token moves there with it.
LEMMA ForwardAcceptedBudget ==
    ASSUME IInv, IInv', Budget, Earned, NEW b \in Broker, NEW t \in DOMAIN tasks[b],
           NEW j \in Id, ForwardAccepted(b, t, j)
    PROVE  Budget'
<1> DEFINE req == [t.req EXCEPT !.original_id = t.id, !.skip_po = FALSE]
           u == [t EXCEPT !.do = "accepted"]
           v == Work("find", "forward", j, req)
           p == Peer[b]
<1>1. /\ t.do = "forward" /\ t \in Task /\ p \in Broker
      /\ UNCHANGED <<owed, runs>> /\ used \subseteq used'
      /\ faults \in Nat /\ \A i \in Id : runs[i] \in Nat
  BY PeerIsBroker, PendingIsTask, EnvironmentAssumption
  DEF ForwardAccepted, Accept, Running, IInv, World
<1>2. \/ faults' = faults /\ tasks' = [Swap(b, t, u) EXCEPT ![p] = BagAdd(@, v)]
      \/ faults' = faults + 1 /\ tasks' = Start(p, v)
  BY DEF ForwardAccepted, Accept, NoFault, Fault
<1>3. Root(t) = t.id /\ Spends(t)
  BY <1>1 DEF Earned, Earns, Outbound, Root, Spends
<1>4. ~Spends(u)
  BY <1>1 DEF Spends, Task
<1>5. Root(v) = t.id
  <2>1. v.req = req
    BY DEF Work
  <2>2. req.original_id = t.id /\ t.id \in Id
    BY <1>1 DEF Task, Request
  <2> HIDE DEF req, v
  <2> QED
    BY <2>1, <2>2, NoIdAssumption DEF Root
<1> HIDE DEF u, v, p
<1>6. \A i \in Id : /\ TaskCost(u, i) = 0 /\ TaskCost(t, i) \in {0, 1}
                    /\ TaskCost(v, i) \in 0 .. TaskCost(t, i)
  BY <1>3, <1>4, <1>5 DEF TaskCost
<1>7. ASSUME NEW i \in Id
      PROVE  \E d \in Int, e \in Int :
                 /\ TasksMove(i, d) /\ CallsMove(i, e)
                 /\ Allowed(i, d + e + runs'[i] - runs[i])
  <2>1. CallsMove(i, 0)
    BY <1>1, SameTokens
  <2>2. CASE faults' = faults /\ tasks' = [Swap(b, t, u) EXCEPT ![p] = BagAdd(@, v)]
    <3> DEFINE d == TaskCost(u, i) - TaskCost(t, i) + TaskCost(v, i)
    <3>1. TasksMove(i, d)
      BY <2>2, CallTasks DEF p
    <3>2. d \in Int /\ Allowed(i, d + 0 + runs'[i] - runs[i])
      BY <1>1, <1>6, <2>2 DEF Allowed
    <3> HIDE DEF d
    <3> QED
      BY <2>1, <3>1, <3>2
  <2>3. CASE faults' = faults + 1 /\ tasks' = Start(p, v)
    <3>1. TasksMove(i, TaskCost(v, i))
      BY <1>1, <2>3, StartTokens
    <3>2. TaskCost(v, i) \in Int /\ Allowed(i, TaskCost(v, i) + 0 + runs'[i] - runs[i])
      BY <1>1, <1>6, <2>3 DEF Allowed
    <3> QED
      BY <2>1, <3>1, <3>2
  <2> QED
    BY <1>2, <2>2, <2>3
<1> QED
  BY <1>1, <1>7, BudgetKept

\* The answers of the peer to a call.
LEMMA PeerBudget ==
    ASSUME IInv, IInv', Budget, NEW b \in Broker, NEW t \in DOMAIN tasks[b],
           \/ ForwardAcked(b, t) \/ PeerFails(b, t)
           \/ PeerUnreachable(b, t) \/ CallAbandoned(b, t)
    PROVE  Budget'
<1>1. /\ UNCHANGED <<owed, runs, used>>
      /\ NoFault \/ UNCHANGED faults \/ \E kind : Fault(kind)
  BY DEF ForwardAcked, PeerFails, PeerUnreachable, CallAbandoned
<1>2. Calm /\ t \in Task
  BY <1>1, FaultsGrow, PendingIsTask DEF Calm, IInv
<1> DEFINE sent == [t EXCEPT !.do = "delete"]
<1>3. \/ Done(b, t) \/ Crashes(b) \/ Becomes(b, t, sent)
      \/ \E status, resp : Becomes(b, t, Write(t, status, resp))
  BY DEF ForwardAcked, PeerFails, PeerUnreachable, CallAbandoned
<1>4. Cheaper(t, sent)
  BY <1>2, NextCheaper DEF Operation
<1> HIDE DEF sent
<1>5. ASSUME NEW status, NEW resp, Becomes(b, t, Write(t, status, resp))
      PROVE  Budget'
  <2> DEFINE w == Write(t, status, resp)
  <2>1. Cheaper(t, w) /\ Becomes(b, t, w)
    BY <1>2, <1>5, WriteFree DEF Cheaper
  <2> HIDE DEF w
  <2> QED
    BY <1>2, <2>1, OnwardBudget
<1> QED
  BY <1>2, <1>3, <1>4, <1>5, EndBudget, OnwardBudget

\* A result that the peer sends does not start a run, however often it comes.
LEMMA CallbackTakenBudget ==
    ASSUME IInv, IInv', Budget, NEW b \in Broker, NEW t \in DOMAIN tasks[b],
           CallbackTaken(b, t)
    PROVE  Budget'
<1> DEFINE p == Peer[b]
           i == t.req.original_id
           doc == db[p][i]
           started == TakeResult(p, i, t.resp)
           v == CHOOSE u \in started : TRUE
           lost == [t EXCEPT !.do = "delete"]
<1>1. /\ t \in Task /\ p \in Broker /\ UNCHANGED <<owed, runs, used>>
      /\ NoFault \/ \E kind : Fault(kind)
  BY PeerIsBroker, PendingIsTask DEF CallbackTaken, IInv
<1>2. Calm
  BY <1>1, FaultsGrow DEF Calm
<1>3. lost.do = "delete"
  BY <1>1 DEF Task
<1>4. started # {} => ~Spends(v)
  <2> DEFINE found == [Work("find", "unprotect", i, doc.request) EXCEPT
                           !.resp = t.resp, !.log = doc.log]
             failed == Write(found, "FINISHED", t.resp)
  <2>1. started \in {{}, {found}, {failed}}
    BY DEF TakeResult
  <2>2. found.do = "find" /\ found.at = "unprotect" /\ failed.do = "write"
    BY DEF Work, Write
  <2> HIDE DEF started, found, failed
  <2>3. started # {} => v \in {found, failed}
    BY <2>1
  <2> HIDE DEF v
  <2> QED
    BY <2>2, <2>3 DEF Spends
<1>5. \/ tasks' = tasks
      \/ Becomes(b, t, lost)
      \/ started # {} /\ tasks' = Start(p, v)
      \/ started # {} /\ tasks' = [Swap(b, t, lost) EXCEPT ![p] = BagAdd(@, v)]
  BY DEF CallbackTaken, Becomes, Start
<1> HIDE DEF started, v, lost, i, doc, p
<1>6. CASE tasks' = tasks
  BY <1>2, <1>6, SameTokens, CalmBudget
<1>7. CASE Becomes(b, t, lost)
  <2>1. Cheaper(t, lost)
    BY <1>3 DEF Cheaper, Spends
  <2> QED
    BY <1>2, <1>7, <2>1, OnwardBudget
<1>8. CASE started # {} /\ tasks' = Start(p, v)
  <2>1. \A k \in Id : TaskCost(v, k) = 0
    BY <1>4, <1>8 DEF TaskCost
  <2>2. \A k \in Id : TasksMove(k, TaskCost(v, k))
    BY <1>1, <1>8, StartTokens
  <2> QED
    BY <1>2, <2>1, <2>2, CalmBudget
<1>9. CASE started # {} /\ tasks' = [Swap(b, t, lost) EXCEPT ![p] = BagAdd(@, v)]
  <2>1. \A k \in Id : TasksMove(k, TaskCost(lost, k) - TaskCost(t, k) + TaskCost(v, k))
    BY <1>9, CallTasks DEF p
  <2>2. ASSUME NEW k \in Id PROVE TasksMove(k, 0)
    <3>1. TaskCost(lost, k) = 0 /\ TaskCost(v, k) = 0 /\ TaskCost(t, k) \in {0, 1}
      BY <1>3, <1>4, <1>9 DEF TaskCost, Spends
    <3> DEFINE x == FS!Cardinality(TaskTokens(tasks, k))
               y == FS!Cardinality(TaskTokens(tasks', k))
    <3>2. FS!IsFiniteSet(TaskTokens(tasks, k)) /\ FS!IsFiniteSet(TaskTokens(tasks', k))
      BY <2>1 DEF TasksMove, Budget
    <3>3. x \in Nat /\ y \in Nat
      BY <3>2, FS!FS_CardinalityType
    <3>4. y <= x + (TaskCost(lost, k) - TaskCost(t, k) + TaskCost(v, k))
      BY <2>1 DEF TasksMove
    <3> HIDE DEF x, y
    <3>5. y <= x + 0
      BY <3>1, <3>3, <3>4
    <3> QED
      BY <3>2, <3>5 DEF TasksMove, x, y
  <2> QED
    BY <1>2, <2>2, CalmBudget
<1> QED
  BY <1>5, <1>6, <1>7, <1>8, <1>9

-----------------------------------------------------------------------------
(* Callbacks. *)

\* What requestCallback() sends on is paid for by the callback: while a request
\* is PROTECTING, the PO owes it no result in clear (Private).
LEMMA ContinuationCost ==
    ASSUME IInv, Private, Earned, NEW c \in DOMAIN owed, db[c.to][c.id] # NoDoc,
           NEW u \in Continuation(db[c.to][c.id], c)
    PROVE  \A i \in Id : TaskCost(u, i) \in 0 .. CallCost(c, i)
<1> DEFINE doc == db[c.to][c.id]
           t == Work("write", "callback", c.id, doc.request)
           value == IF c.from = "po" THEN "envelope" ELSE c.value
           resumed == [t EXCEPT !.do = "find", !.at = "resume", !.req.body = c.value]
           failed == Write(t, "FINISHED", Error(500))
           dropped == [failed EXCEPT !.do = "writeNoCallback"]
           unprotected == Write(t, "FINISHED", Answer(200, c.value))
           kept == Write(t, "FINISHED", Answer(200, value))
           returned == Return([t EXCEPT !.req.original_id = c.id], Answer(200, c.value))
           passed == Return(t, Answer(200, value))
<1>1. c.to \in Broker /\ c.id \in Id /\ doc \in Doc
  BY DEF IInv, World, Callback, Brokers, Stores
<1>2. /\ t \in Task /\ t.id = c.id /\ t.req = doc.request
  BY <1>1, WorkIsTask DEF Doc, Operation, Stage, Work
<1>3. doc.status = "PROTECTING" => doc.request.original_id = NoId
  BY <1>1 DEF Earned, EarnsDoc, IInv, Brokers, Docs
<1>4. doc.status = "PROTECTING" /\ EndsProcess(c) => Sends(c)
  <2>1. doc.status = "PROTECTING" => Protects(c.to, c.id)
    BY <1>1 DEF Protects, Has
  <2>2. EndsProcess(c) /\ c.value # "protected" => Undone(c.to, c.id)
    BY <1>1 DEF Undone, Clear
  <2>3. ~(Undone(c.to, c.id) /\ Protects(c.to, c.id))
    BY <1>1 DEF Private
  <2> QED
    BY <2>1, <2>2, <2>3 DEF Sends
<1>5. resumed.id = c.id /\ resumed.req.original_id = doc.request.original_id
  <2>1. t.req \in Request
    BY <1>2 DEF Task
  <2> QED
    BY <1>2, <2>1 DEF Task, Request
<1>6. \A w \in {failed, dropped, unprotected, kept, returned, passed} :
          w.do \in {"write", "writeNoCallback", "callback"}
  <2>1. failed.do = "write" /\ unprotected.do = "write" /\ kept.do = "write"
    BY <1>2 DEF Write, Task
  <2>2. dropped.do = "writeNoCallback"
    BY <1>2 DEF Write, Task
  <2>3. returned.do = "callback" /\ passed.do = "callback"
    BY <1>2 DEF Return, Task
  <2> HIDE DEF t, failed, dropped, unprotected, kept, returned, passed
  <2> QED
    BY <2>1, <2>2, <2>3
<1>7. \/ u \in {failed, dropped, unprotected, kept, returned, passed}
      \/ doc.status = "PROTECTING" /\ EndsProcess(c) /\ u = resumed
  <2>1. CASE doc.status = "PROTECTING"
    BY <2>1 DEF Continuation
  <2>2. CASE doc.status = "UNPROTECTING"
    <3>1. Continuation(doc, c) = {IF ~EndsProcess(c) THEN dropped
                                  ELSE IF doc.origin = "local" THEN unprotected
                                  ELSE returned}
      BY <2>2 DEF Continuation
    <3> QED
      BY <3>1
  <2>3. CASE doc.status = "IN_PROGRESS"
    BY <2>3 DEF Continuation
  <2> QED
    BY <2>1, <2>2, <2>3 DEF Continuation
<1> HIDE DEF t, resumed, failed, dropped, unprotected, kept, returned, passed
<1>8. Spends(u) => Sends(c) /\ Root(u) = c.id
  BY <1>3, <1>4, <1>5, <1>6, <1>7 DEF Spends, Root
<1> QED
  BY <1>8 DEF TaskCost, CallCost

\* A callback arrives, is repeated or gets lost.
LEMMA CallbackBudget ==
    ASSUME IInv, IInv', Budget, Private, Earned, NEW c \in DOMAIN owed,
           RequestCallback(c) \/ CallbackLost(c)
    PROVE  Budget'
<1> DEFINE doc == db[c.to][c.id]
           started == Continuation(doc, c)
           v == CHOOSE u \in started : TRUE
<1>1. /\ c.to \in Broker /\ UNCHANGED <<runs, used>> /\ faults \in Nat
      /\ \A i \in Id : runs[i] \in Nat /\ CallCost(c, i) \in {0, 1}
  <2>1. c.to \in Broker /\ faults \in Nat /\ \A i \in Id : runs[i] \in Nat
    BY EnvironmentAssumption DEF IInv, World, Callback
  <2>2. UNCHANGED <<runs, used>>
    BY DEF RequestCallback, CallbackLost
  <2> QED
    BY <2>1, <2>2 DEF CallCost
<1>2. \/ owed' = BagRemove(owed, c) /\ faults' = faults
      \/ owed' = owed /\ faults' = faults + 1
      \/ owed' = BagRemove(owed, c) /\ faults' = faults + 1
  BY DEF RequestCallback, CallbackLost, NoFault, Fault
<1>3. \/ UNCHANGED tasks
      \/ Crashes(c.to)
      \/ doc # NoDoc /\ started # {} /\ tasks' = Start(c.to, v)
  BY DEF RequestCallback, CallbackLost
<1>4. doc # NoDoc /\ started # {} => \A i \in Id : TaskCost(v, i) \in 0 .. CallCost(c, i)
  <2>1. started # {} => v \in started
    OBVIOUS
  <2> HIDE DEF v
  <2> QED
    BY <2>1, ContinuationCost
<1> HIDE DEF started, v, doc
<1>5. ASSUME NEW i \in Id
      PROVE  \E d \in 0 .. CallCost(c, i) : TasksMove(i, d)
  <2>1. 0 \in 0 .. CallCost(c, i)
    BY <1>1
  <2>2. CASE UNCHANGED tasks
    BY <2>1, <2>2, SameTokens
  <2>3. CASE Crashes(c.to)
    BY <1>1, <2>1, <2>3, CrashTokens
  <2>4. CASE doc # NoDoc /\ started # {} /\ tasks' = Start(c.to, v)
    <3>1. TasksMove(i, TaskCost(v, i))
      BY <1>1, <2>4, StartTokens
    <3> QED
      BY <1>4, <2>4, <3>1
  <2> QED
    BY <1>3, <2>2, <2>3, <2>4
<1>6. ASSUME NEW i \in Id
      PROVE  \E d \in Int, e \in Int :
                 /\ TasksMove(i, d) /\ CallsMove(i, e)
                 /\ Allowed(i, d + e + runs'[i] - runs[i])
  <2> PICK d \in 0 .. CallCost(c, i) : TasksMove(i, d)
    BY <1>5
  <2> DEFINE e == 0 - CallCost(c, i)
  <2>1. /\ e \in Int /\ d \in Int
        /\ d + e + runs'[i] - runs[i] <= 0 /\ d + 0 + runs'[i] - runs[i] <= 1
    BY <1>1
  <2> HIDE DEF e
  <2>2. CASE owed' = BagRemove(owed, c) /\ (faults' = faults \/ faults' = faults + 1)
    <3>1. CallsMove(i, e)
      BY <2>2, OwedTokens DEF e
    <3>2. Allowed(i, d + e + runs'[i] - runs[i])
      BY <1>1, <2>1, <2>2 DEF Allowed
    <3> QED
      BY <2>1, <3>1, <3>2
  <2>3. CASE owed' = owed /\ faults' = faults + 1
    <3>1. CallsMove(i, 0)
      BY <2>3, SameTokens
    <3>2. Allowed(i, d + 0 + runs'[i] - runs[i])
      BY <1>1, <2>1, <2>3 DEF Allowed
    <3> QED
      BY <2>1, <3>1, <3>2
  <2> QED
    BY <1>2, <2>2, <2>3
<1> QED
  BY <1>1, <1>6, BudgetKept

-----------------------------------------------------------------------------
\* There are no tokens at the start ...
LEMMA InitBudget == Init => Budget
<1> SUFFICES ASSUME Init PROVE Budget
  OBVIOUS
<1>1. ASSUME NEW i \in Id
      PROVE  TaskTokens(tasks, i) = {} /\ CallTokens(owed, i) = {}
  BY EmptyIsBag DEF Init, TaskTokens, CallTokens, Copy
<1>2. FS!IsFiniteSet({}) /\ FS!Cardinality({}) = 0
  BY FS!FS_EmptySet
<1>3. \A i \in Id : runs[i] = 0 /\ i \notin used /\ faults = 0
  BY DEF Init
<1>4. ASSUME NEW i \in Id
      PROVE  /\ FS!IsFiniteSet(TaskTokens(tasks, i)) /\ FS!IsFiniteSet(CallTokens(owed, i))
             /\ FS!Cardinality(TaskTokens(tasks, i)) = 0
             /\ FS!Cardinality(CallTokens(owed, i)) = 0
  BY <1>1, <1>2
<1>5. ASSUME NEW i \in Id, NEW x, NEW y, x = 0, y = 0
      PROVE  x + y + runs[i] <= faults + IF i \in used THEN 1 ELSE 0
  BY <1>3, <1>5
<1> QED
  BY <1>4, <1>5 DEF Budget

\* ... and every step pays for what it adds.
LEMMA NextBudget ==
    ASSUME IInv, IInv', Private, Earned, Budget, [Next]_vars
    PROVE  Budget'
<1>1. ASSUME NEW b \in Broker, NEW t \in DOMAIN tasks[b], Complete(b, t) PROVE Budget'
  <2>1. CASE ApplyWrite(b, t) \/ WriteFails(b, t) \/ Delete(b, t)
    BY <2>1, StoreBudget
  <2>2. CASE \/ FoundLocal(b, t) \/ FoundExternal(b, t)
             \/ FoundOrigin(b, t) \/ NotFound(b, t)
    BY <2>2, FoundBudget
  <2>3. CASE \E j \in Id : ForwardAccepted(b, t, j)
    BY <2>3, ForwardAcceptedBudget
  <2>4. CASE \/ ForwardAcked(b, t) \/ PeerFails(b, t)
             \/ PeerUnreachable(b, t) \/ CallAbandoned(b, t)
    BY <2>4, PeerBudget
  <2> QED
    BY <1>1, <2>1, <2>2, <2>3, <2>4, ServiceBudget, POBudget, CallbackTakenBudget
    DEF Complete
<1>2. CASE UNCHANGED vars
  <2>1. UNCHANGED <<tasks, owed, runs, used, faults>>
    BY <1>2 DEF vars
  <2>2. Calm
    BY <2>1, FaultsGrow DEF Calm
  <2> QED
    BY <2>1, <2>2, SameTokens, CalmBudget
<1>3. CASE Client
  BY <1>3, ClientBudget DEF Client
<1>4. ASSUME NEW c \in DOMAIN owed, RequestCallback(c) \/ CallbackLost(c) PROVE Budget'
  BY <1>4, CallbackBudget
<1>5. ASSUME NEW b \in Broker, Stop(b) \/ Restart(b) PROVE Budget'
  BY <1>5, StoreBudget
<1> QED
  BY <1>1, <1>2, <1>3, <1>4, <1>5 DEF Next, Progress

\* A service runs once for a request and once more for each fault, whatever the
\* faults and their order: neither the retries of a call nor repeated callbacks of
\* the PO, of a service or of the peer multiply.
THEOREM RunsArePaidFor == Spec => []RunsPerFault
<1>1. IInv /\ Private /\ [Next]_vars => Private'
  BY NextPrivate
<1>2. IInv /\ Earned /\ [Next]_vars => Earned'
  BY NextEarned
<1>3. IInv /\ IInv' /\ Private /\ Earned /\ Budget /\ [Next]_vars => Budget'
  BY NextBudget
<1>4. IInv /\ Budget => RunsPerFault
  <2> SUFFICES ASSUME IInv, Budget, NEW i \in Id PROVE runs[i] <= 1 + faults
    BY DEF RunsPerFault
  <2> DEFINE x == FS!Cardinality(TaskTokens(tasks, i))
             y == FS!Cardinality(CallTokens(owed, i))
  <2>1. x \in Nat /\ y \in Nat
    BY FS!FS_CardinalityType DEF Budget
  <2>2. x + y + runs[i] <= faults + IF i \in used THEN 1 ELSE 0
    BY DEF Budget
  <2>3. runs[i] \in Nat /\ faults \in Nat
    BY EnvironmentAssumption DEF IInv, World
  <2> HIDE DEF x, y
  <2> QED
    BY <2>1, <2>2, <2>3
<1> QED
  BY <1>1, <1>2, <1>3, <1>4, InitIInv, StepIInv, Invariance, InitPrivate, InitEarned,
     InitBudget, PTL DEF Spec
=============================================================================

-------------------------- MODULE ForwardingProofs --------------------------
(***************************************************************************)
(* What holds of Forwarding for every number of brokers' requests, every   *)
(* set of faults and every order of events: its types, and that a request  *)
(* of the other domain is never parked (ForwardedRequestsStayOpen).        *)
(*                                                                         *)
(* The invariant: the operations pending for a request of the other domain *)
(* are those forward() and the IN_PROGRESS branch of requestCallback()     *)
(* start, and the only status they write is IN_PROGRESS.  Ids are never    *)
(* given twice, so an operation that outlives its document meets no other. *)
(***************************************************************************)
EXTENDS Forwarding, TLAPS

Stores == [Id -> Doc \cup {NoDoc}]

External(b, i) == db[b][i] # NoDoc /\ db[b][i].origin = "external"

RemoteOperation == {"find", "service", "relocated", "served", "callback", "delete"}

\* the tasks that may be pending for a request of the other domain
Remote(t) ==
    \/ t.at = "forward" /\ t.do \in RemoteOperation
    \/ t.at = "forward" /\ t.do = "write" /\ t.status = "IN_PROGRESS"
    \/ t.at = "callback" /\ t.do \in {"callback", "delete"}

\* a result of the other domain's request is sent to a request of that domain
Addressed(t) ==
    t.at = "forward" \/ t.do = "callback" => t.req.original_id \in Id

Sound(b, t) == /\ t \in Task /\ t.id \in used /\ Addressed(t)
               /\ External(b, t.id) => Remote(t)

Tasks == /\ DOMAIN tasks = Broker
         /\ \A b \in Broker : /\ IsABag(tasks[b])
                              /\ \A t \in DOMAIN tasks[b] : Sound(b, t)

\* a status other than the first comes with a response, in a local request
Docs == \A b \in Broker, i \in Id : db[b][i] # NoDoc =>
            /\ i \in used
            /\ db[b][i].status # "IN_PROGRESS" =>
                   Len(db[b][i].log) > 0 /\ db[b][i].origin = "local"
            /\ db[b][i].origin = "external" => db[b][i].request.original_id \in Id

Brokers == /\ up \in [Broker -> BOOLEAN]
           /\ db \in [Broker -> Stores]
           /\ used \subseteq Id
           /\ Tasks
           /\ Docs

World == /\ IsABag(owed) /\ DOMAIN owed \subseteq Callback
         /\ answers \in [Id -> Seq(Response)]
         /\ runs \in [Id -> Nat]
         /\ faults \in 0 .. MaxFaults

IInv == Brokers /\ World

-----------------------------------------------------------------------------
(* Bags, documents and faults. *)

\* Adding an element to a bag gives a bag with that element.
LEMMA AddedBag ==
    ASSUME NEW B, IsABag(B), NEW x
    PROVE  IsABag(BagAdd(B, x)) /\ DOMAIN BagAdd(B, x) = DOMAIN B \cup {x}
BY DEF IsABag, BagAdd

\* Removing one gives a bag with no other elements.
LEMMA RemovedBag ==
    ASSUME NEW B, IsABag(B), NEW x
    PROVE  IsABag(BagRemove(B, x)) /\ DOMAIN BagRemove(B, x) \subseteq DOMAIN B
BY DEF IsABag, BagRemove

\* The empty bag is a bag.
LEMMA EmptyIsBag == IsABag(EmptyBag) /\ DOMAIN EmptyBag = {}
BY DEF IsABag, EmptyBag, SetToBag

\* A step spends at most one fault, and only while the budget lasts.
LEMMA FaultsBounded ==
    ASSUME faults \in 0 .. MaxFaults,
           NoFault \/ UNCHANGED faults \/ \E kind : Fault(kind)
    PROVE  faults' \in 0 .. MaxFaults
BY EnvironmentAssumption DEF NoFault, Fault

\* The peer of a broker is another broker.
LEMMA PeerIsBroker ==
    ASSUME NEW b \in Broker
    PROVE  Peer[b] \in Broker /\ Peer[b] # b
BY BrokerAssumption

\* updateRequest appends to the document, if there is one, and leaves the
\* others and every origin as they are.
LEMMA UpdatedStore ==
    ASSUME NEW store \in Stores, NEW i \in Id, NEW status \in Status,
           NEW response \in Response, NEW j \in Id
    PROVE  LET s == updateRequest(store, i, status, response)
           IN  /\ s \in Stores
               /\ s[j] = NoDoc <=> store[j] = NoDoc
               /\ s[j] # NoDoc => /\ s[j].origin = store[j].origin
                                  /\ s[j].request = store[j].request
               /\ j # i => s[j] = store[j]
               /\ j = i /\ s[j] # NoDoc => s[j].status = status /\ Len(s[j].log) > 0
<1> DEFINE s == updateRequest(store, i, status, response)
<1>1. CASE store[i] = NoDoc
  BY <1>1 DEF updateRequest
<1>2. CASE store[i] # NoDoc
  <2>1. store[i] \in Doc
    BY <1>2 DEF Stores
  <2> DEFINE d == [store[i] EXCEPT !.status = status, !.log = Append(@, response)]
  <2>2. store[i].log \in Seq(Response) /\ store[i].origin \in {"local", "external"}
    BY <2>1 DEF Doc
  <2>3. Append(store[i].log, response) \in Seq(Response) /\ Len(Append(store[i].log, response)) > 0
    BY <2>2
  <2>4. d \in Doc /\ d.status = status /\ d.origin = store[i].origin
        /\ d.request = store[i].request /\ d.log = Append(store[i].log, response)
    BY <2>1, <2>3 DEF Doc
  <2>5. d # NoDoc
    BY <2>4, NoDocAssumption
  <2>6. s = [store EXCEPT ![i] = d]
    BY <1>2 DEF updateRequest
  <2> HIDE DEF d, s
  <2>7. s \in Stores
    BY <2>4, <2>6 DEF Stores
  <2> QED
    BY <1>2, <2>3, <2>4, <2>5, <2>6, <2>7 DEF Stores, s
<1> QED
  BY <1>1, <1>2

-----------------------------------------------------------------------------
(* How a step changes the stores, and the tasks. *)

\* No request of the other domain appears under an id already given.
StoresKept ==
    /\ db' \in [Broker -> Stores]
    /\ used \subseteq used' /\ used' \subseteq Id
    /\ Docs'
    /\ \A b \in Broker, i \in used :
           db'[b][i] # NoDoc /\ db'[b][i].origin = "external" => External(b, i)

\* a task that is new, or that another one became
Fits(b, u) == /\ u \in Task /\ u.id \in used' /\ Addressed(u)
              /\ db'[b][u.id] # NoDoc /\ db'[b][u.id].origin = "external" => Remote(u)

TasksKept ==
    /\ up' \in [Broker -> BOOLEAN]
    /\ DOMAIN tasks' = Broker
    /\ \A b \in Broker :
           /\ IsABag(tasks'[b])
           /\ \A u \in DOMAIN tasks'[b] : u \in DOMAIN tasks[b] \/ Fits(b, u)

\* A step that keeps stores and tasks keeps the invariant of the brokers.
LEMMA KeptIsEnough ==
    ASSUME Brokers, StoresKept, TasksKept
    PROVE  Brokers'
<1>1. ASSUME NEW b \in Broker, NEW u \in DOMAIN tasks'[b]
      PROVE  Sound(b, u)'
  <2>1. CASE u \in DOMAIN tasks[b]
    <3>1. Sound(b, u)
      BY <2>1 DEF Brokers, Tasks
    <3> QED
      BY <3>1 DEF Sound, StoresKept, External, Remote
  <2>2. CASE Fits(b, u)
    BY <2>2 DEF Fits, Sound, External, Remote
  <2> QED
    BY <1>1, <2>1, <2>2 DEF TasksKept
<1>2. Tasks'
  BY <1>1 DEF Tasks, TasksKept
<1> QED
  BY <1>2 DEF Brokers, StoresKept, TasksKept

\* A step that leaves the collections alone keeps the stores.
LEMMA SameStores ==
    ASSUME Brokers, UNCHANGED <<db, used>>
    PROVE  StoresKept
BY DEF Brokers, StoresKept, Docs, External

\* Whatever an operation writes, the document it writes to keeps its origin,
\* and only IN_PROGRESS is written to a request of the other domain.
LEMMA WrittenStores ==
    ASSUME Brokers, NEW b \in Broker, NEW t \in DOMAIN tasks[b],
           t.do \in Writes, UNCHANGED used,
           db' = [db EXCEPT ![b] = updateRequest(@, t.id, t.status, t.resp)]
    PROVE  StoresKept
<1> DEFINE s == updateRequest(db[b], t.id, t.status, t.resp)
<1>1. Sound(b, t) /\ db \in [Broker -> Stores] /\ used \subseteq Id /\ Docs
  BY DEF Brokers, Tasks
<1>2. db[b] \in Stores /\ t.id \in Id /\ t.status \in Status /\ t.resp \in Response
  BY <1>1 DEF Sound, Task
<1>3. \A j \in Id : /\ s \in Stores
                    /\ s[j] = NoDoc <=> db[b][j] = NoDoc
                    /\ s[j] # NoDoc => /\ s[j].origin = db[b][j].origin
                                       /\ s[j].request = db[b][j].request
                    /\ j # t.id => s[j] = db[b][j]
                    /\ j = t.id /\ s[j] # NoDoc => s[j].status = t.status /\ Len(s[j].log) > 0
  BY <1>2, UpdatedStore
<1>4. db' = [db EXCEPT ![b] = s]
  OBVIOUS
<1>5. External(b, t.id) => t.status = "IN_PROGRESS"
  BY <1>1 DEF Sound, Remote, Writes, RemoteOperation
<1>6. s \in Stores
  BY <1>2, <1>3
<1> HIDE DEF s
<1>7. db' \in [Broker -> Stores]
  BY <1>1, <1>4, <1>6
<1>8. ASSUME NEW c \in Broker, NEW i \in Id
      PROVE  /\ db'[c][i] = NoDoc <=> db[c][i] = NoDoc
             /\ db'[c][i] # NoDoc => /\ db'[c][i].origin = db[c][i].origin
                                     /\ db'[c][i].request = db[c][i].request
             /\ ~(c = b /\ i = t.id) => db'[c][i] = db[c][i]
  BY <1>1, <1>3, <1>4
<1>9. db'[b][t.id] # NoDoc => db'[b][t.id].status = t.status /\ Len(db'[b][t.id].log) > 0
  BY <1>1, <1>2, <1>3, <1>4
<1>10. ASSUME NEW c \in Broker, NEW i \in Id, db'[c][i] # NoDoc
       PROVE  /\ i \in used
              /\ db'[c][i].status # "IN_PROGRESS" =>
                    Len(db'[c][i].log) > 0 /\ db'[c][i].origin = "local"
              /\ db'[c][i].origin = "external" => db'[c][i].request.original_id \in Id
  <2>1. db[c][i] # NoDoc /\ i \in used /\ db[c][i].origin \in {"local", "external"}
    BY <1>1, <1>8, <1>10 DEF Docs, Stores, Doc
  <2>2. CASE c = b /\ i = t.id
    BY <1>1, <1>5, <1>8, <1>9, <1>10, <2>1, <2>2 DEF External, Docs
  <2>3. CASE ~(c = b /\ i = t.id)
    BY <1>1, <1>8, <1>10, <2>3 DEF Docs
  <2> QED
    BY <2>1, <2>2, <2>3
<1>11. Docs'
  BY <1>10 DEF Docs
<1> QED
  BY <1>1, <1>7, <1>8, <1>11 DEF StoresKept, External

\* Deleting documents, one or all, keeps the rest.
LEMMA EmptiedStores ==
    ASSUME Brokers, UNCHANGED used, db' \in [Broker -> Stores],
           \A b \in Broker, i \in Id : db'[b][i] \in {db[b][i], NoDoc}
    PROVE  StoresKept
BY DEF Brokers, StoresKept, Docs, External

\* A document is created under an id that was not given before.
LEMMA CreatedStores ==
    ASSUME Brokers, NEW b \in Broker, NEW i \in Id \ used,
           NEW origin \in {"local", "external"}, NEW STATE req, req \in Request,
           origin = "external" => req.original_id \in Id,
           db' = [db EXCEPT ![b][i] = createRequest(origin, req)],
           used' = used \cup {i}
    PROVE  StoresKept
<1> DEFINE d == createRequest(origin, req)
<1>1. d \in Doc /\ d.status = "IN_PROGRESS" /\ d.origin = origin /\ d.request = req
  BY DEF createRequest, Doc, Status
<1>2. d # NoDoc
  BY <1>1, NoDocAssumption
<1> HIDE DEF d
<1>3. db' = [db EXCEPT ![b] = [db[b] EXCEPT ![i] = d]]
  BY DEF d, Brokers
<1>4. db' \in [Broker -> Stores]
  BY <1>1, <1>3 DEF Brokers, Stores
<1>5. \A c \in Broker, j \in Id :
          db'[c][j] = IF c = b /\ j = i THEN d ELSE db[c][j]
  BY <1>3 DEF Brokers, Stores
<1>6. Docs'
  BY <1>1, <1>5 DEF Docs, Brokers
<1> QED
  BY <1>4, <1>5, <1>6 DEF StoresKept, Brokers, External

\* A task that becomes another one of the same request.
LEMMA BecomesKeeps ==
    ASSUME Brokers, StoresKept, NEW b \in Broker, NEW t \in DOMAIN tasks[b],
           NEW STATE u, u \in Task, u.id = t.id,
           Remote(t) => Remote(u), Addressed(t) => Addressed(u),
           Becomes(b, t, u)
    PROVE  TasksKept
<1>1. Sound(b, t) /\ Fits(b, u)
  BY DEF Brokers, Tasks, Sound, Fits, StoresKept
<1>2. /\ IsABag(BagRemove(tasks[b], t))
      /\ DOMAIN BagRemove(tasks[b], t) \subseteq DOMAIN tasks[b]
  BY RemovedBag DEF Brokers, Tasks
<1>3. /\ IsABag(BagAdd(BagRemove(tasks[b], t), u))
      /\ DOMAIN BagAdd(BagRemove(tasks[b], t), u) \subseteq DOMAIN tasks[b] \cup {u}
  BY <1>2, AddedBag
<1>4. tasks' = [tasks EXCEPT ![b] = BagAdd(BagRemove(tasks[b], t), u)] /\ up' = up
  BY DEF Becomes, Swap
<1> QED
  BY <1>1, <1>3, <1>4 DEF Brokers, Tasks, TasksKept

\* A task that ends without starting another keeps the tasks.
LEMMA DoneKeeps ==
    ASSUME Brokers, NEW b \in Broker, NEW t \in DOMAIN tasks[b], Done(b, t)
    PROVE  TasksKept
<1>1. /\ IsABag(BagRemove(tasks[b], t))
      /\ DOMAIN BagRemove(tasks[b], t) \subseteq DOMAIN tasks[b]
  BY RemovedBag DEF Brokers, Tasks
<1>2. tasks' = [tasks EXCEPT ![b] = BagRemove(tasks[b], t)] /\ up' = up
  BY DEF Done, Drop
<1> QED
  BY <1>1, <1>2 DEF Brokers, Tasks, TasksKept

\* A process that ends takes its tasks with it and keeps those of its peer.
LEMMA CrashKeeps ==
    ASSUME Brokers, NEW b \in Broker, Crashes(b)
    PROVE  TasksKept
BY EmptyIsBag DEF Crashes, Brokers, Tasks, TasksKept

\* A task that is started beside the others.
LEMMA StartKeeps ==
    ASSUME Brokers, NEW b \in Broker, NEW STATE u, Fits(b, u),
           tasks' = Start(b, u), up' = up
    PROVE  TasksKept
<1>1. /\ IsABag(BagAdd(tasks[b], u))
      /\ DOMAIN BagAdd(tasks[b], u) = DOMAIN tasks[b] \cup {u}
  BY AddedBag DEF Brokers, Tasks
<1>2. tasks' = [tasks EXCEPT ![b] = BagAdd(tasks[b], u)]
  BY DEF Start
<1> QED
  BY <1>1, <1>2 DEF Brokers, Tasks, TasksKept

\* A step that leaves processes and tasks alone keeps the tasks.
LEMMA SameTasks ==
    ASSUME Brokers, UNCHANGED <<up, tasks>>
    PROVE  TasksKept
BY DEF Brokers, Tasks, TasksKept

\* What the helpers build.
LEMMA WorkIsTask ==
    ASSUME NEW do \in Operation, NEW at \in Stage, NEW i \in Id,
           NEW STATE req, req \in Request
    PROVE  LET t == Work(do, at, i, req)
           IN  t \in Task /\ t.do = do /\ t.at = at /\ t.id = i /\ t.req = req
BY DEF Work, Task, Error, Answer, Response, Code, Body, Status

\* An answer made by the broker is an entry of a log.
LEMMA AnswerIsResponse ==
    ASSUME NEW code \in Code, NEW body \in Body
    PROVE  Answer(code, body) \in Response /\ Error(code) \in Response
BY DEF Answer, Error, Response, Body

\* A task turned into a write of an entry is a task.
LEMMA WriteIsTask ==
    ASSUME NEW STATE t, t \in Task, NEW status \in Status, NEW STATE resp, resp \in Response
    PROVE  LET u == Write(t, status, resp)
           IN  /\ u \in Task /\ u.id = t.id /\ u.at = t.at
               /\ u.do = "write" /\ u.status = status
               /\ Addressed(t) => Addressed(u)
BY DEF Write, Task, Operation, Addressed

\* A task turned into the return of a result is a task.
LEMMA ReturnIsTask ==
    ASSUME NEW STATE t, t \in Task, NEW STATE resp, resp \in Response
    PROVE  LET u == Return(t, resp)
           IN  u \in Task /\ u.id = t.id /\ u.at = t.at /\ u.do = "callback" /\ u.req = t.req
BY DEF Return, Task, Operation

\* forward() never keeps a result.
LEMMA ConcludeIsTask ==
    ASSUME NEW STATE t, t \in Task, NEW STATE resp, resp \in Response, t.do # "callback"
    PROVE  LET u == Conclude(t, resp)
           IN  /\ u \in Task /\ u.id = t.id
               /\ Remote(t) /\ t.do # "delete" => Remote(u)
               /\ Addressed(t) => Addressed(u)
<1>1. CASE t.at = "forward"
  BY <1>1, ReturnIsTask DEF Conclude, Remote, RemoteOperation, Addressed
<1>2. CASE t.at # "forward"
  <2>1. Conclude(t, resp) = Write(t, "FINISHED", resp)
    BY <1>2 DEF Conclude
  <2>2. /\ Write(t, "FINISHED", resp) \in Task
        /\ Write(t, "FINISHED", resp).id = t.id
        /\ Addressed(t) => Addressed(Write(t, "FINISHED", resp))
    BY WriteIsTask DEF Status
  <2> QED
    BY <1>2, <2>1, <2>2 DEF Remote
<1> QED
  BY <1>1, <1>2

-----------------------------------------------------------------------------
(* One lemma per action: what it does to the stores and the tasks. *)

Kept == StoresKept /\ TasksKept

\* Most completed operations leave the store alone and become another one.
LEMMA OnwardKeeps ==
    ASSUME Brokers, NEW b \in Broker, NEW t \in DOMAIN tasks[b],
           NEW STATE u, u \in Task, u.id = t.id,
           Remote(t) => Remote(u), Addressed(t) => Addressed(u),
           Becomes(b, t, u), UNCHANGED <<db, used>>
    PROVE  Kept
<1>1. StoresKept
  BY SameStores
<1>2. TasksKept
  BY <1>1, BecomesKeeps
<1> QED
  BY <1>1, <1>2 DEF Kept

\* What is pending is a sound task.
LEMMA PendingIsTask ==
    ASSUME Brokers, NEW b \in Broker, NEW t \in DOMAIN tasks[b]
    PROVE  t \in Task /\ t.id \in used /\ t.id \in Id
BY DEF Brokers, Tasks, Sound

\* A new request takes an id that no task and no document has.
LEMMA CreateKeeps ==
    ASSUME Brokers, NEW b \in Broker, NEW i \in ClientId, NEW s \in Service,
           NEW skip \in BOOLEAN, Create(b, i, s, skip)
    PROVE  Kept
<1> DEFINE req == [service |-> s, skip_po |-> skip, body |-> "data", original_id |-> NoId]
           u == Work("find", "request", i, req)
<1>1. req \in Request /\ i \in Id \ used
  BY IdAssumption DEF Create, Request, Body
<1>2. /\ db' = [db EXCEPT ![b][i] = createRequest("local", req)]
      /\ tasks' = Start(b, u) /\ up' = up /\ used' = used \cup {i}
  BY DEF Create
<1>3. u \in Task /\ u.id = i /\ Addressed(u)
  BY <1>1, WorkIsTask DEF Operation, Stage, Addressed
<1>4. StoresKept
  BY <1>1, <1>2, CreatedStores
<1>5. db'[b][i].origin = "local"
  BY <1>1, <1>2 DEF Brokers, Stores, createRequest
<1>6. Fits(b, u)
  BY <1>2, <1>3, <1>5 DEF Fits
<1> HIDE DEF u
<1>7. TasksKept
  BY <1>2, <1>6, StartKeeps
<1> QED
  BY <1>4, <1>7 DEF Kept

\* getresult starts the deletion of a finished, hence local, request.
LEMMA GetResultKeeps ==
    ASSUME Brokers, NEW b \in Broker, NEW i \in ClientId, GetResult(b, i)
    PROVE  Kept
<1> DEFINE u == Work("delete", "request", i, db[b][i].request)
<1>1. i \in used /\ i \in Id /\ db[b][i] \in Doc /\ db[b][i].origin = "local"
  BY IdAssumption DEF GetResult, Brokers, Docs, Stores
<1>2. u \in Task /\ u.id = i /\ Addressed(u)
  BY <1>1, WorkIsTask DEF Operation, Stage, Doc, Addressed
<1>3. tasks' = Start(b, u) /\ up' = up /\ UNCHANGED <<db, used>>
  BY DEF GetResult
<1>4. Fits(b, u)
  BY <1>1, <1>2, <1>3 DEF Fits
<1> HIDE DEF u
<1>5. StoresKept /\ TasksKept
  BY <1>3, <1>4, SameStores, StartKeeps
<1> QED
  BY <1>5 DEF Kept

\* What follows a write is the end of the task or a call for a local request.
LEMMA AfterWriteKeeps ==
    ASSUME Brokers, StoresKept, NEW b \in Broker, NEW t \in DOMAIN tasks[b],
           t.do \in Writes \cup {"delete"}, AfterWrite(b, t)
    PROVE  TasksKept
<1>1. t \in Task
  BY PendingIsTask
<1>2. CASE t.do \in {"write", "delete"}
  BY <1>2, DoneKeeps DEF AfterWrite
<1>3. CASE t.do = "writeNoCallback"
  BY <1>3, CrashKeeps DEF AfterWrite
<1>4. CASE t.do = "saveThenUnprotect"
  <2> DEFINE u == [t EXCEPT !.do = "unprotect",
                            !.resp.unprotectParams = t.log[2].unprotectParams]
             w == Write(t, "FINISHED", t.resp)
  <2>1. ~Remote(t)
    BY <1>4 DEF Remote, RemoteOperation
  <2>2. \/ Crashes(b)
        \/ Len(t.log) >= 2 /\ Becomes(b, t, u)
        \/ Becomes(b, t, w)
    BY <1>1, <1>4 DEF AfterWrite, Task
  <2>3. ASSUME Len(t.log) >= 2, Becomes(b, t, u)
        PROVE  TasksKept
    <3>1. t.log[2] \in Response /\ t.resp \in Response
      BY <1>1, <2>3 DEF Task
    <3>2. [t.resp EXCEPT !.unprotectParams = t.log[2].unprotectParams] \in Response
      BY <3>1 DEF Response
    <3>3. u \in Task /\ u.id = t.id /\ (Addressed(t) => Addressed(u))
      BY <1>1, <3>2 DEF Task, Operation, Addressed
    <3> HIDE DEF u
    <3> QED
      BY <2>1, <2>3, <3>3, BecomesKeeps
  <2>4. w \in Task /\ w.id = t.id /\ (Addressed(t) => Addressed(w))
    BY <1>1, WriteIsTask DEF Task, Status
  <2> HIDE DEF u, w
  <2> QED
    BY <2>1, <2>2, <2>3, <2>4, CrashKeeps, BecomesKeeps
<1> QED
  BY <1>2, <1>3, <1>4 DEF Writes

\* updateRequest completes.
LEMMA ApplyWriteKeeps ==
    ASSUME Brokers, NEW b \in Broker, NEW t \in DOMAIN tasks[b], ApplyWrite(b, t)
    PROVE  Kept
<1>1. StoresKept
  BY WrittenStores DEF ApplyWrite, Running
<1>2. TasksKept
  BY <1>1, AfterWriteKeeps DEF ApplyWrite, Running
<1> QED
  BY <1>1, <1>2 DEF Kept

\* updateRequest or deleteRequest fails.
LEMMA WriteFailsKeeps ==
    ASSUME Brokers, NEW b \in Broker, NEW t \in DOMAIN tasks[b], WriteFails(b, t)
    PROVE  Kept
<1>1. StoresKept
  BY SameStores DEF WriteFails
<1>2. TasksKept
  BY <1>1, AfterWriteKeeps DEF WriteFails, Running
<1> QED
  BY <1>1, <1>2 DEF Kept

\* deleteRequest completes.
LEMMA DeleteKeeps ==
    ASSUME Brokers, NEW b \in Broker, NEW t \in DOMAIN tasks[b], Delete(b, t)
    PROVE  Kept
<1>1. db' = [db EXCEPT ![b] = [db[b] EXCEPT ![t.id] = NoDoc]] /\ used' = used
  BY DEF Delete, deleteRequest
<1>2. StoresKept
  BY <1>1, EmptiedStores DEF Brokers, Stores
<1>3. TasksKept
  BY DoneKeeps DEF Delete
<1> QED
  BY <1>2, <1>3 DEF Kept

\* The process of a broker is stopped.
LEMMA StopKeeps ==
    ASSUME Brokers, NEW b \in Broker, Stop(b)
    PROVE  Kept
BY SameStores, CrashKeeps DEF Stop, Kept

\* It starts again, with its collection or with an empty one.
LEMMA RestartKeeps ==
    ASSUME Brokers, NEW b \in Broker, Restart(b)
    PROVE  Kept
<1>1. StoresKept
  BY EmptiedStores DEF Restart, Brokers, Stores
<1>2. TasksKept
  BY DEF Restart, Brokers, Tasks, TasksKept
<1> QED
  BY <1>1, <1>2 DEF Kept

\* findWithLocation finds the service, for a request that is under way.
LEMMA FoundKeeps ==
    ASSUME Brokers, NEW b \in Broker, NEW t \in DOMAIN tasks[b],
           FoundLocal(b, t) \/ FoundExternal(b, t)
    PROVE  Kept
<1>1. t \in Task /\ UNCHANGED <<db, used>> /\ t.do = "find"
  BY PendingIsTask DEF FoundLocal, FoundExternal, Located, Running
<1> DEFINE next(do) == [t EXCEPT !.do = do]
<1>2. /\ next("service") \in Task /\ next("service").id = t.id
      /\ Remote(t) => Remote(next("service"))
      /\ Addressed(t) => Addressed(next("service"))
  BY <1>1 DEF Task, Operation, Remote, RemoteOperation, Addressed
<1>3. \A do \in {"protect", "forward"} :
          /\ next(do) \in Task /\ next(do).id = t.id
          /\ Addressed(t) => Addressed(next(do))
  BY <1>1 DEF Task, Operation, Addressed
<1>4. /\ Return(t, Error(404)) \in Task /\ Return(t, Error(404)).id = t.id
      /\ Return(t, Error(404)).at = t.at /\ Return(t, Error(404)).do = "callback"
      /\ Return(t, Error(404)).req = t.req
  BY <1>1, AnswerIsResponse, ReturnIsTask DEF Code, Body
<1>5. \/ Becomes(b, t, next("service"))
      \/ t.at = "forward" /\ Becomes(b, t, Return(t, Error(404)))
      \/ t.at # "forward" /\ \E do \in {"protect", "forward"} : Becomes(b, t, next(do))
  BY DEF FoundLocal, FoundExternal
<1>6. t.at # "forward" => ~Remote(t)
  BY <1>1 DEF Remote
<1>7. t.at = "forward" => /\ Remote(Return(t, Error(404)))
                          /\ Addressed(t) => Addressed(Return(t, Error(404)))
  BY <1>4 DEF Remote, RemoteOperation, Addressed
<1> HIDE DEF next
<1>8. CASE Becomes(b, t, next("service"))
  BY <1>1, <1>2, <1>8, OnwardKeeps
<1>9. CASE t.at = "forward" /\ Becomes(b, t, Return(t, Error(404)))
  BY <1>1, <1>4, <1>7, <1>9, OnwardKeeps
<1>10. CASE t.at # "forward" /\ Becomes(b, t, next("protect"))
  BY <1>1, <1>3, <1>6, <1>10, OnwardKeeps
<1>11. CASE t.at # "forward" /\ Becomes(b, t, next("forward"))
  BY <1>1, <1>3, <1>6, <1>11, OnwardKeeps
<1> QED
  BY <1>5, <1>8, <1>9, <1>10, <1>11

\* findWithLocation finds the service a result came from.
LEMMA FoundOriginKeeps ==
    ASSUME Brokers, NEW b \in Broker, NEW t \in DOMAIN tasks[b], FoundOrigin(b, t)
    PROVE  Kept
<1> DEFINE u == IF t.req.skip_po THEN Write(t, "FINISHED", t.resp)
                                 ELSE [t EXCEPT !.do = "saveThenUnprotect"]
<1>1. t \in Task /\ UNCHANGED <<db, used>> /\ ~Remote(t)
  BY PendingIsTask DEF FoundOrigin, Located, Running, Remote
<1>2. u \in Task /\ u.id = t.id /\ (Addressed(t) => Addressed(u))
  BY <1>1, WriteIsTask DEF Task, Operation, Status, Addressed
<1>3. Becomes(b, t, u)
  BY DEF FoundOrigin
<1> HIDE DEF u
<1> QED
  BY <1>1, <1>2, <1>3, OnwardKeeps

\* findWithLocation finds no service, or fails.
LEMMA NotFoundKeeps ==
    ASSUME Brokers, NEW b \in Broker, NEW t \in DOMAIN tasks[b], NotFound(b, t)
    PROVE  Kept
<1> PICK code \in {404, 500} :
        IF t.at = "unprotect" THEN Crashes(b) ELSE Becomes(b, t, Conclude(t, Error(code)))
  BY DEF NotFound
<1>1. t \in Task /\ UNCHANGED <<db, used>> /\ t.do = "find"
  BY PendingIsTask DEF NotFound, Running
<1>2. CASE t.at = "unprotect"
  BY <1>1, <1>2, SameStores, CrashKeeps DEF Kept
<1>3. CASE t.at # "unprotect"
  <2> DEFINE u == Conclude(t, Error(code))
  <2>1. Error(code) \in Response
    BY AnswerIsResponse DEF Code, Body
  <2>2. /\ u \in Task /\ u.id = t.id
        /\ Remote(t) => Remote(u)
        /\ Addressed(t) => Addressed(u)
    BY <1>1, <2>1, ConcludeIsTask
  <2>3. Becomes(b, t, u)
    BY <1>3
  <2> HIDE DEF u
  <2> QED
    BY <1>1, <2>2, <2>3, OnwardKeeps
<1> QED
  BY <1>2, <1>3

\* RestHandler.request and its continuations.
LEMMA ServiceKeeps ==
    ASSUME Brokers, NEW b \in Broker, NEW t \in DOMAIN tasks[b],
           \/ \E code \in {200, 202, 500} :
                  ServiceAnswers(b, t, code) \/ ServiceRunsAgain(b, t, code)
           \/ \E code \in {404, 500, 503} : ServiceFails(b, t, code)
           \/ ServiceServed(b, t) \/ ServiceMoved(b, t)
    PROVE  Kept
<1>1. t \in Task
  BY PendingIsTask
<1>2. CASE \E code \in {200, 202, 500} : ServiceAnswers(b, t, code)
  <2> PICK code \in {200, 202, 500} : ServiceAnswers(b, t, code)
    BY <1>2
  <2> DEFINE r == Answer(code, IF code = 200 THEN Computed(t.req.body) ELSE "message")
             u == [t EXCEPT !.do = "served", !.resp = r]
  <2>1. r \in Response
    BY AnswerIsResponse DEF Code, Body, Computed
  <2> HIDE DEF r
  <2>2. /\ u \in Task /\ u.id = t.id
        /\ u.at = t.at /\ u.req = t.req /\ u.do = "served"
    BY <1>1, <2>1 DEF Task, Operation
  <2>3. t.do \in {"service", "relocated"} /\ UNCHANGED <<db, used>> /\ Becomes(b, t, u)
    BY DEF r,  ServiceAnswers, Running
  <2> HIDE DEF u
  <2>4. (Remote(t) => Remote(u)) /\ (Addressed(t) => Addressed(u))
    BY <2>2, <2>3 DEF Remote, RemoteOperation, Addressed
  <2> QED
    BY <2>2, <2>3, <2>4, OnwardKeeps
<1>3. CASE \E code \in {200, 202, 500} : ServiceRunsAgain(b, t, code)
  BY <1>3, SameStores, SameTasks DEF ServiceRunsAgain, Kept
<1>4. CASE \E code \in {404, 500, 503} : ServiceFails(b, t, code)
  <2> PICK code \in {404, 500, 503} : ServiceFails(b, t, code)
    BY <1>4
  <2>1. /\ t.do \in {"service", "relocated"} /\ UNCHANGED <<db, used>>
        /\ Becomes(b, t, Conclude(t, Error(code)))
    BY DEF ServiceFails, Running
  <2>2. Error(code) \in Response
    BY AnswerIsResponse DEF Code, Body
  <2>3. /\ Conclude(t, Error(code)) \in Task /\ Conclude(t, Error(code)).id = t.id
        /\ Remote(t) => Remote(Conclude(t, Error(code)))
        /\ Addressed(t) => Addressed(Conclude(t, Error(code)))
    BY <1>1, <2>1, <2>2, ConcludeIsTask
  <2> QED
    BY <2>1, <2>3, OnwardKeeps
<1>5. CASE ServiceServed(b, t)
  <2>1. t.do = "served" /\ UNCHANGED <<db, used>> /\ t.resp \in Response
    BY <1>1, <1>5 DEF ServiceServed, Running, Task
  <2>2. CASE t.resp.status = 202
    <3> DEFINE u == Write(t, "IN_PROGRESS", t.resp)
    <3>0. "IN_PROGRESS" \in Status
      BY DEF Status
    <3>1. /\ u \in Task /\ u.id = t.id /\ u.at = t.at
          /\ u.do = "write" /\ u.status = "IN_PROGRESS"
          /\ Addressed(t) => Addressed(u)
      BY <1>1, <2>1, <3>0, WriteIsTask
    <3>2. Remote(t) => Remote(u)
      BY <2>1, <3>1 DEF Remote, RemoteOperation
    <3>3. Becomes(b, t, u)
      BY <1>5, <2>2 DEF ServiceServed
    <3> HIDE DEF u
    <3> QED
      BY <2>1, <3>1, <3>2, <3>3, OnwardKeeps
  <2>3. CASE t.resp.status # 202
    <3>1. Becomes(b, t, Conclude(t, t.resp))
      BY <1>5, <2>3 DEF ServiceServed
    <3>2. /\ Conclude(t, t.resp) \in Task /\ Conclude(t, t.resp).id = t.id
          /\ Remote(t) => Remote(Conclude(t, t.resp))
          /\ Addressed(t) => Addressed(Conclude(t, t.resp))
      BY <1>1, <2>1, ConcludeIsTask
    <3> QED
      BY <2>1, <3>1, <3>2, OnwardKeeps
  <2> QED
    BY <2>2, <2>3
<1>6. CASE ServiceMoved(b, t)
  <2> DEFINE u == [t EXCEPT !.do = "relocated"]
  <2>1. t.do = "service" /\ UNCHANGED <<db, used>> /\ Becomes(b, t, u)
    BY <1>6 DEF ServiceMoved, Running
  <2>2. /\ u \in Task /\ u.id = t.id
        /\ Remote(t) => Remote(u)
        /\ Addressed(t) => Addressed(u)
    BY <1>1, <2>1 DEF Task, Operation, Remote, RemoteOperation, Addressed
  <2> HIDE DEF u
  <2> QED
    BY <2>1, <2>2, OnwardKeeps
<1> QED
  BY <1>2, <1>3, <1>4, <1>5, <1>6

\* protect, unprotect and their continuations: none works for the peer's request.
LEMMA POKeeps ==
    ASSUME Brokers, NEW b \in Broker, NEW t \in DOMAIN tasks[b],
           \/ \E ok \in BOOLEAN : POStarts(b, t, ok) \/ POStartsAgain(b, t, ok)
           \/ POStarted(b, t) \/ PORefuses(b, t) \/ POSaysNothing(b, t)
    PROVE  Kept
<1>1. t \in Task
  BY PendingIsTask
<1>2. CASE \E ok \in BOOLEAN : POStarts(b, t, ok)
  <2> DEFINE u == [t EXCEPT !.do = "started"]
  <2>1. ~Remote(t) /\ UNCHANGED <<db, used>> /\ Becomes(b, t, u)
    BY <1>2 DEF POStarts, Running, Remote, RemoteOperation
  <2>2. u \in Task /\ u.id = t.id /\ (Addressed(t) => Addressed(u))
    BY <1>1 DEF Task, Operation, Addressed
  <2> HIDE DEF u
  <2> QED
    BY <2>1, <2>2, OnwardKeeps
<1>3. CASE \E ok \in BOOLEAN : POStartsAgain(b, t, ok)
  BY <1>3, SameStores, SameTasks DEF POStartsAgain, Kept
<1>4. CASE POStarted(b, t)
  <2> DEFINE status == IF t.at = "request" THEN "PROTECTING" ELSE "UNPROTECTING"
             u == Write(t, status, Answer(200, "process"))
  <2>1. ~Remote(t) /\ UNCHANGED <<db, used>> /\ Becomes(b, t, u)
    BY <1>4 DEF POStarted, Running, Remote, RemoteOperation
  <2>2. status \in Status /\ Answer(200, "process") \in Response
    BY AnswerIsResponse DEF Status, Code, Body
  <2> HIDE DEF status
  <2>3. u \in Task /\ u.id = t.id /\ (Addressed(t) => Addressed(u))
    BY <1>1, <2>2, WriteIsTask
  <2> HIDE DEF u
  <2> QED
    BY <2>1, <2>3, OnwardKeeps
<1>5. CASE PORefuses(b, t)
  <2> DEFINE u == Write(t, "FINISHED", Error(503))
  <2>1. ~Remote(t) /\ UNCHANGED <<db, used>> /\ Becomes(b, t, u)
    BY <1>5 DEF PORefuses, Running, Remote, RemoteOperation
  <2>2. "FINISHED" \in Status /\ Error(503) \in Response
    BY AnswerIsResponse DEF Status, Code, Body
  <2>3. u \in Task /\ u.id = t.id /\ (Addressed(t) => Addressed(u))
    BY <1>1, <2>2, WriteIsTask
  <2> HIDE DEF u
  <2> QED
    BY <2>1, <2>3, OnwardKeeps
<1>6. CASE POSaysNothing(b, t)
  BY <1>6, SameStores, DoneKeeps DEF POSaysNothing, Kept
<1> QED
  BY <1>2, <1>3, <1>4, <1>5, <1>6

\* A call between the brokers: the task of b may become another one, and one
\* may start at its peer.
LEMMA CallKeeps ==
    ASSUME Brokers, NEW b \in Broker, NEW t \in DOMAIN tasks[b],
           NEW STATE u, Fits(b, u), NEW STATE v, up' = up,
           \/ tasks' \in {tasks, Swap(b, t, u)}
           \/ /\ Fits(Peer[b], v)
              /\ \E mine \in {tasks, Swap(b, t, u)} :
                     tasks' = [mine EXCEPT ![Peer[b]] = BagAdd(@, v)]
    PROVE  TasksKept
<1> PICK mine \in {tasks, Swap(b, t, u)} :
        \/ tasks' = mine
        \/ Fits(Peer[b], v) /\ tasks' = [mine EXCEPT ![Peer[b]] = BagAdd(@, v)]
  OBVIOUS
<1> DEFINE swapped == BagAdd(BagRemove(tasks[b], t), u)
           p == Peer[b]
<1>1. p \in Broker /\ p # b
  BY PeerIsBroker
<1>2. DOMAIN tasks = Broker /\ \A c \in Broker : IsABag(tasks[c])
  BY DEF Brokers, Tasks
<1>3. /\ IsABag(BagRemove(tasks[b], t))
      /\ DOMAIN BagRemove(tasks[b], t) \subseteq DOMAIN tasks[b]
  BY <1>2, RemovedBag
<1>4. IsABag(swapped) /\ DOMAIN swapped \subseteq DOMAIN tasks[b] \cup {u}
  <2> DEFINE rest == BagRemove(tasks[b], t)
  <2> HIDE DEF rest
  <2>1. IsABag(BagAdd(rest, u)) /\ DOMAIN BagAdd(rest, u) = DOMAIN rest \cup {u}
    BY <1>3, AddedBag DEF rest
  <2> QED
    BY <1>3, <2>1 DEF rest
<1> HIDE DEF swapped, p
<1>5. mine = tasks \/ mine = [tasks EXCEPT ![b] = swapped]
  BY DEF Swap, swapped
<1>6. /\ DOMAIN mine = Broker /\ mine[p] = tasks[p]
      /\ \A c \in Broker : /\ IsABag(mine[c])
                           /\ \A w \in DOMAIN mine[c] : w \in DOMAIN tasks[c] \/ Fits(c, w)
  BY <1>1, <1>2, <1>4, <1>5
<1>7. CASE tasks' = mine
  BY <1>6, <1>7 DEF TasksKept, Brokers
<1>8. CASE Fits(p, v) /\ tasks' = [mine EXCEPT ![p] = BagAdd(@, v)]
  <2>1. IsABag(BagAdd(tasks[p], v)) /\ DOMAIN BagAdd(tasks[p], v) = DOMAIN tasks[p] \cup {v}
    BY <1>1, <1>2, AddedBag
  <2>2. tasks' = [mine EXCEPT ![p] = BagAdd(tasks[p], v)]
    BY <1>6, <1>8
  <2> QED
    BY <1>1, <1>6, <1>8, <2>1, <2>2 DEF TasksKept, Brokers
<1> QED
  BY <1>7, <1>8 DEF p

\* The peer creates the forwarded request under a fresh id.
LEMMA ForwardAcceptedKeeps ==
    ASSUME Brokers, NEW b \in Broker, NEW t \in DOMAIN tasks[b], NEW j \in Id,
           ForwardAccepted(b, t, j)
    PROVE  Kept
<1> DEFINE req == [t.req EXCEPT !.original_id = t.id, !.skip_po = FALSE]
           u == [t EXCEPT !.do = "accepted"]
           v == Work("find", "forward", j, req)
<1>1. t \in Task /\ t.id \in Id /\ t.id \in used /\ t.do = "forward"
  BY PendingIsTask DEF ForwardAccepted, Running
<1>2. req \in Request /\ req.original_id \in Id
  BY <1>1 DEF Task, Request
<1>3. Peer[b] \in Broker /\ Peer[b] # b
  BY PeerIsBroker
<1>4. /\ j \in Id \ used /\ used' = used \cup {j} /\ up' = up
      /\ db' = [db EXCEPT ![Peer[b]][j] = createRequest("external", req)]
  BY DEF ForwardAccepted, Accept
<1>5. \/ tasks' = [Swap(b, t, u) EXCEPT ![Peer[b]] = BagAdd(@, v)]
      \/ tasks' = Start(Peer[b], v)
  BY DEF ForwardAccepted, Accept
<1>6. v \in Task /\ v.id = j /\ v.do = "find" /\ v.at = "forward" /\ Addressed(v)
  <2> HIDE DEF req
  <2>1. v \in Task /\ v.id = j /\ v.do = "find" /\ v.at = "forward" /\ v.req = req
    BY <1>2, WorkIsTask DEF Operation, Stage
  <2> HIDE DEF v
  <2> QED
    BY <1>2, <2>1 DEF Addressed
<1>7. u \in Task /\ u.id = t.id /\ (Addressed(t) => Addressed(u))
  BY <1>1 DEF Task, Operation, Addressed
<1> HIDE DEF req, u, v
<1>8. StoresKept
  BY <1>2, <1>3, <1>4, CreatedStores
<1>9. Fits(Peer[b], v)
  BY <1>4, <1>6 DEF Fits, Remote, RemoteOperation
<1>10. ~Remote(t) /\ Sound(b, t)
  BY <1>1 DEF Remote, RemoteOperation, Brokers, Tasks
<1>11. Fits(b, u)
  BY <1>1, <1>7, <1>8, <1>10 DEF Fits, StoresKept, Sound
<1>12. ASSUME tasks' = [Swap(b, t, u) EXCEPT ![Peer[b]] = BagAdd(@, v)]
       PROVE  TasksKept
  BY <1>4, <1>8, <1>9, <1>11, <1>12, CallKeeps
<1>13. ASSUME tasks' = Start(Peer[b], v)
       PROVE  TasksKept
  BY <1>3, <1>4, <1>9, <1>13, StartKeeps
<1> QED
  BY <1>5, <1>8, <1>12, <1>13 DEF Kept

\* The origin has the 202 of its peer.
LEMMA ForwardAckedKeeps ==
    ASSUME Brokers, NEW b \in Broker, NEW t \in DOMAIN tasks[b], ForwardAcked(b, t)
    PROVE  Kept
<1> DEFINE r == [Error(202) EXCEPT !.unprotectParams = (t.at = "resume")]
           u == Write(t, "FORWARDED", r)
<1>1. t \in Task /\ ~Remote(t)
  BY PendingIsTask DEF ForwardAcked, Running, Remote, RemoteOperation
<1>2. r \in Response
  <2>1. \A flag \in BOOLEAN : [Error(202) EXCEPT !.unprotectParams = flag] \in Response
    BY DEF Error, Answer, Response, Code, Body
  <2> QED
    BY <2>1
<1>3. "FORWARDED" \in Status
  BY DEF Status
<1>4. UNCHANGED <<db, used>> /\ Becomes(b, t, u)
  BY DEF ForwardAcked
<1> HIDE DEF r
<1>5. u \in Task /\ u.id = t.id /\ (Addressed(t) => Addressed(u))
  BY <1>1, <1>2, <1>3, WriteIsTask
<1> HIDE DEF u
<1> QED
  BY <1>1, <1>4, <1>5, OnwardKeeps

\* forwardCallback() works on FORWARDED requests only, which are local.
LEMMA TakenIsTask ==
    ASSUME Brokers, StoresKept, UNCHANGED db, NEW b \in Broker, NEW i \in Id,
           NEW STATE resp, resp \in Response, NEW u \in TakeResult(b, i, resp)
    PROVE  Fits(b, u)
<1> DEFINE doc == db[b][i]
           t == Work("find", "unprotect", i, doc.request)
           v == [t EXCEPT !.resp = resp, !.log = doc.log]
<1>1. doc # NoDoc /\ doc.status = "FORWARDED"
  BY DEF TakeResult
<1>2. doc \in Doc /\ i \in used /\ doc.origin = "local"
  BY <1>1 DEF Brokers, Stores, Docs
<1>3. t \in Task /\ t.id = i /\ t.at = "unprotect" /\ t.do = "find"
  BY <1>2, WorkIsTask DEF Doc, Operation, Stage
<1>4. v \in Task /\ v.id = i /\ Addressed(v)
  BY <1>2, <1>3 DEF Task, Doc, Addressed
<1>5. "FINISHED" \in Status
  BY DEF Status
<1>6. u = v \/ u = Write(v, "FINISHED", resp)
  BY <1>1 DEF TakeResult, Write
<1> HIDE DEF v
<1>7. u \in Task /\ u.id = i /\ Addressed(u)
  BY <1>4, <1>5, <1>6, WriteIsTask
<1> QED
  BY <1>2, <1>7 DEF Fits, StoresKept

\* A result reaches the origin, whose request is FORWARDED, hence local.
LEMMA CallbackTakenKeeps ==
    ASSUME Brokers, NEW b \in Broker, NEW t \in DOMAIN tasks[b], CallbackTaken(b, t)
    PROVE  Kept
<1> DEFINE p == Peer[b]
           i == t.req.original_id
           started == TakeResult(p, i, t.resp)
           v == CHOOSE u \in started : TRUE
           lost == [t EXCEPT !.do = "delete"]
<1>1. t \in Task /\ t.do = "callback" /\ UNCHANGED <<db, used>> /\ up' = up
  BY PendingIsTask DEF CallbackTaken, Running
<1>2. Sound(b, t)
  BY DEF Brokers, Tasks
<1>3. lost \in Task /\ lost.id = t.id /\ (Addressed(t) => Addressed(lost))
  BY <1>1 DEF Task, Operation, Addressed
<1>4. Remote(t) => Remote(lost)
  BY <1>1 DEF Remote, RemoteOperation, Task
<1>5. StoresKept
  BY <1>1, SameStores
<1>6. p \in Broker
  BY PeerIsBroker
<1>7. Fits(b, lost)
  BY <1>2, <1>3, <1>4, <1>5 DEF Fits, StoresKept, Sound
<1>8. \E mine \in {tasks, Swap(b, t, lost)} :
          tasks' = IF started = {} THEN mine ELSE [mine EXCEPT ![p] = BagAdd(@, v)]
  BY DEF CallbackTaken
<1>9. started # {} => Fits(p, v)
  <2> SUFFICES ASSUME started # {}
               PROVE  Fits(p, v)
    OBVIOUS
  <2>1. v \in started
    OBVIOUS
  <2>2. i \in Id
    BY <1>1, <1>2 DEF Sound, Addressed
  <2>3. t.resp \in Response
    BY <1>1 DEF Task
  <2> HIDE DEF v, p, i
  <2> QED
    BY <1>1, <1>5, <1>6, <2>1, <2>2, <2>3, TakenIsTask
<1> HIDE DEF started, v, lost
<1>10. TasksKept
  BY <1>1, <1>5, <1>7, <1>8, <1>9, CallKeeps
<1> QED
  BY <1>5, <1>10 DEF Kept

\* A call to the peer fails in one of the ways it can.
LEMMA PeerKeeps ==
    ASSUME Brokers, NEW b \in Broker, NEW t \in DOMAIN tasks[b],
           PeerFails(b, t) \/ PeerUnreachable(b, t) \/ CallAbandoned(b, t)
    PROVE  Kept
<1>1. StoresKept
  BY SameStores DEF PeerFails, PeerUnreachable, CallAbandoned
<1>2. CASE PeerFails(b, t)
  <2> DEFINE u == IF t.do = "forward" THEN Write(t, "FINISHED", Error(500))
                                      ELSE [t EXCEPT !.do = "delete"]
  <2>1. t \in Task /\ t.do \in {"forward", "callback"} /\ Becomes(b, t, u)
    BY <1>2, PendingIsTask DEF PeerFails, Running
  <2>2. "FINISHED" \in Status /\ Error(500) \in Response
    BY AnswerIsResponse DEF Status, Code, Body
  <2>3. /\ Write(t, "FINISHED", Error(500)) \in Task
        /\ Write(t, "FINISHED", Error(500)).id = t.id
        /\ Addressed(t) => Addressed(Write(t, "FINISHED", Error(500)))
    BY <2>1, <2>2, WriteIsTask
  <2>4. /\ [t EXCEPT !.do = "delete"] \in Task /\ [t EXCEPT !.do = "delete"].id = t.id
        /\ Remote(t) => Remote([t EXCEPT !.do = "delete"])
        /\ Addressed(t) => Addressed([t EXCEPT !.do = "delete"])
    BY <2>1 DEF Task, Operation, Remote, RemoteOperation, Addressed
  <2>5. t.do = "forward" => ~Remote(t)
    BY DEF Remote, RemoteOperation
  <2>6. /\ u \in Task /\ u.id = t.id
        /\ Remote(t) => Remote(u)
        /\ Addressed(t) => Addressed(u)
    BY <2>3, <2>4, <2>5
  <2> HIDE DEF u
  <2>7. TasksKept
    BY <1>1, <2>1, <2>6, BecomesKeeps
  <2> QED
    BY <1>1, <2>7 DEF Kept
<1>3. CASE PeerUnreachable(b, t)
  BY <1>1, <1>3, CrashKeeps DEF PeerUnreachable, Kept
<1>4. CASE CallAbandoned(b, t)
  BY <1>1, <1>4, DoneKeeps DEF CallAbandoned, Kept
<1> QED
  BY <1>2, <1>3, <1>4

\* requestCallback() finishes nothing that came from the other domain.
LEMMA ContinuationFits ==
    ASSUME Brokers, StoresKept, UNCHANGED db, NEW c \in Callback,
           db[c.to][c.id] # NoDoc, NEW u \in Continuation(db[c.to][c.id], c)
    PROVE  Fits(c.to, u)
<1> DEFINE doc == db[c.to][c.id]
           t == Work("write", "callback", c.id, doc.request)
           value == IF c.from = "po" THEN "envelope" ELSE c.value
           resumed == [t EXCEPT !.do = "find", !.at = "resume", !.req.body = c.value]
           failed == Write(t, "FINISHED", Error(500))
           dropped == [failed EXCEPT !.do = "writeNoCallback"]
           unprotected == Write(t, "FINISHED", Answer(200, c.value))
           kept == Write(t, "FINISHED", Answer(200, value))
           own == [t EXCEPT !.req.original_id = c.id]
           returned == Return(t, Answer(200, value))
<1>1. /\ c.to \in Broker /\ c.id \in Id /\ c.value \in Body /\ value \in Body
      /\ doc # NoDoc /\ doc \in Doc /\ c.id \in used
      /\ doc.status # "IN_PROGRESS" => doc.origin = "local"
      /\ doc.origin = "external" => doc.request.original_id \in Id
  BY DEF Callback, Brokers, Stores, Docs, Body
<1>2. t \in Task /\ t.id = c.id /\ t.at = "callback" /\ t.do = "write" /\ t.req = doc.request
  BY <1>1, WorkIsTask DEF Doc, Operation, Stage
<1>3. /\ Error(500) \in Response /\ Answer(200, value) \in Response
      /\ Answer(200, c.value) \in Response
  BY <1>1, AnswerIsResponse DEF Code, Body
<1>4. "FINISHED" \in Status
  BY DEF Status
<1> HIDE DEF t, value
<1>5. resumed \in Task /\ resumed.id = c.id /\ Addressed(resumed)
  <2>1. [t.req EXCEPT !.body = c.value] \in Request
    BY <1>1, <1>2 DEF Task, Request
  <2> QED
    BY <1>2, <2>1 DEF Task, Operation, Stage, Addressed
<1>6. /\ failed \in Task /\ failed.id = c.id /\ failed.at = "callback" /\ Addressed(failed)
      /\ kept \in Task /\ kept.id = c.id /\ Addressed(kept)
      /\ unprotected \in Task /\ unprotected.id = c.id /\ Addressed(unprotected)
  <2>1. Addressed(t)
    BY <1>2 DEF Addressed
  <2> QED
    BY <1>2, <1>3, <1>4, <2>1, WriteIsTask
<1> HIDE DEF failed, kept, unprotected
<1>7. dropped \in Task /\ dropped.id = c.id /\ Addressed(dropped)
  BY <1>6 DEF Task, Operation, Addressed
<1>8. /\ returned \in Task /\ returned.id = c.id /\ returned.do = "callback"
      /\ returned.at = "callback" /\ returned.req = doc.request
  BY <1>2, <1>3, ReturnIsTask
<1> HIDE DEF resumed, dropped, returned
<1>9. CASE doc.status = "IN_PROGRESS"
  <2>1. \/ doc.origin = "local" /\ u = kept
        \/ doc.origin # "local" /\ u = returned
    BY <1>9 DEF Continuation, t, value, kept, returned
  <2>2. doc.origin # "local" => Addressed(returned)
    BY <1>1, <1>8 DEF Addressed, Doc
  <2> QED
    BY <1>1, <1>6, <1>8, <2>1, <2>2 DEF Fits, StoresKept, Remote
<1>10. CASE doc.status # "IN_PROGRESS"
  <2>1. doc.origin = "local"
    BY <1>1, <1>10
  <2>2. u \in {resumed, failed, dropped, unprotected}
    BY <1>10, <2>1 DEF Continuation, t, resumed, failed, dropped, unprotected
  <2>3. u \in Task /\ u.id = c.id /\ Addressed(u)
    BY <1>5, <1>6, <1>7, <2>2
  <2> QED
    BY <1>1, <2>1, <2>3 DEF Fits, StoresKept
<1> QED
  BY <1>9, <1>10

\* requestCallback starts what the request's status and origin allow.
LEMMA RequestCallbackKeeps ==
    ASSUME Brokers, NEW c \in Callback, RequestCallback(c)
    PROVE  Kept
<1> DEFINE doc == db[c.to][c.id]
           started == Continuation(doc, c)
           v == CHOOSE u \in started : TRUE
<1>1. UNCHANGED <<db, used>> /\ c.to \in Broker
  BY DEF RequestCallback, Callback
<1>2. StoresKept
  BY <1>1, SameStores
<1>3. \/ UNCHANGED <<up, tasks>>
      \/ Crashes(c.to)
      \/ doc # NoDoc /\ up' = up /\ started = {} /\ tasks' = tasks
      \/ doc # NoDoc /\ up' = up /\ started # {} /\ tasks' = Start(c.to, v)
  BY DEF RequestCallback
<1>4. ASSUME doc # NoDoc, up' = up, started # {}, tasks' = Start(c.to, v)
      PROVE  TasksKept
  <2>1. v \in started
    BY <1>4
  <2>2. Fits(c.to, v)
    BY <1>1, <1>2, <1>4, <2>1, ContinuationFits
  <2> HIDE DEF v
  <2> QED
    BY <1>1, <1>4, <2>2, StartKeeps
<1> HIDE DEF started, v
<1>5. TasksKept
  BY <1>1, <1>3, <1>4, SameTasks, CrashKeeps
<1> QED
  BY <1>2, <1>5 DEF Kept

\* A callback that is lost changes neither stores nor tasks.
LEMMA CallbackLostKeeps ==
    ASSUME Brokers, NEW c, CallbackLost(c)
    PROVE  Kept
BY SameStores, SameTasks DEF CallbackLost, Kept

-----------------------------------------------------------------------------
(* The rest of the world: callbacks, answers, runs and faults. *)

\* A callback of the PO or of a service is one more in the bag.
LEMMA OwedGrows ==
    ASSUME IsABag(owed), DOMAIN owed \subseteq Callback,
           NEW STATE c, c \in Callback, owed' = BagAdd(owed, c)
    PROVE  IsABag(owed') /\ DOMAIN owed' \subseteq Callback
<1>1. IsABag(BagAdd(owed, c)) /\ DOMAIN BagAdd(owed, c) = DOMAIN owed \cup {c}
  BY AddedBag
<1> QED
  BY <1>1

\* A callback that arrives is not owed any more.
LEMMA OwedShrinks ==
    ASSUME IsABag(owed), DOMAIN owed \subseteq Callback,
           NEW c, owed' \in {owed, BagRemove(owed, c)}
    PROVE  IsABag(owed') /\ DOMAIN owed' \subseteq Callback
BY RemovedBag

OwedKept == IsABag(owed') /\ DOMAIN owed' \subseteq Callback
RunsKept == runs' \in [Id -> Nat]
AnswersKept == answers' \in [Id -> Seq(Response)]
FaultsKept == faults' \in 0 .. MaxFaults

\* What a client is given is an entry of a log.
LEMMA GetResultAnswers ==
    ASSUME IInv, NEW b \in Broker, NEW i \in ClientId, GetResult(b, i)
    PROVE  AnswersKept
<1>1. i \in Id /\ db[b][i] \in Doc /\ Len(db[b][i].log) > 0
  BY IdAssumption DEF GetResult, IInv, Brokers, Docs, Stores
<1>2. lastResponse(db[b][i]) \in Response
  BY <1>1 DEF lastResponse, Doc
<1>3. answers[i] \in Seq(Response)
  BY <1>1 DEF IInv, World
<1>4. Append(answers[i], lastResponse(db[b][i])) \in Seq(Response)
  BY <1>2, <1>3
<1>5. answers' = [answers EXCEPT ![i] = Append(answers[i], lastResponse(db[b][i]))]
  BY DEF GetResult
<1> QED
  BY <1>4, <1>5 DEF IInv, World, AnswersKept

\* A service that runs counts one run and owes at most one callback.
LEMMA RunsKeeps ==
    ASSUME IInv, NEW b \in Broker, NEW t \in DOMAIN tasks[b],
           NEW code \in {200, 202, 500}, Runs(b, t, code)
    PROVE  OwedKept /\ RunsKept
<1> DEFINE c == [to |-> b, id |-> t.id, from |-> "service",
                 ok |-> FALSE, value |-> Computed(t.req.body)]
<1>1. t \in Task /\ t.id \in Id
  BY PendingIsTask DEF IInv
<1>2. Root(t) \in Id
  BY <1>1 DEF Root, Task, Request
<1>3. RunsKept
  BY <1>2 DEF Runs, RunsKept, IInv, World
<1>4. c \in Callback
  BY <1>1 DEF Callback, Computed, Body
<1>5. owed' = owed \/ owed' = BagAdd(owed, c)
  BY DEF Runs
<1> HIDE DEF c
<1>6. OwedKept
  BY <1>4, <1>5, OwedGrows DEF OwedKept, IInv, World
<1> QED
  BY <1>3, <1>6

\* A process that the PO starts owes a callback.
LEMMA ProcessKeeps ==
    ASSUME IInv, NEW b \in Broker, NEW t \in DOMAIN tasks[b],
           NEW ok \in BOOLEAN, Process(b, t, ok)
    PROVE  OwedKept
<1> DEFINE c == [to |-> b, id |-> t.id, from |-> "po", ok |-> ok,
                 value |-> IF t.do = "protect" THEN "protected" ELSE "result"]
<1>1. t.id \in Id
  BY PendingIsTask DEF IInv
<1>2. c \in Callback
  BY <1>1 DEF Callback, Body
<1>3. owed' = BagAdd(owed, c)
  BY DEF Process
<1> HIDE DEF c
<1> QED
  BY <1>2, <1>3, OwedGrows DEF OwedKept, IInv, World

\* The budget of faults is kept by each completion of an operation.
LEMMA FaultKept ==
    ASSUME IInv, NoFault \/ UNCHANGED faults \/ \E kind : Fault(kind)
    PROVE  FaultsKept
BY FaultsBounded DEF IInv, World, FaultsKept

\* A step that touches none of these variables keeps their types.
LEMMA SameWorld ==
    ASSUME IInv
    PROVE  /\ UNCHANGED owed => OwedKept
           /\ UNCHANGED runs => RunsKept
           /\ UNCHANGED answers => AnswersKept
           /\ UNCHANGED faults => FaultsKept
BY DEF IInv, World, OwedKept, RunsKept, AnswersKept, FaultsKept

\* The operations of a broker.
LEMMA CompleteKeeps ==
    ASSUME IInv, NEW b \in Broker, NEW t \in DOMAIN tasks[b], Complete(b, t)
    PROVE  IInv'
<1>1. Kept
  BY ApplyWriteKeeps, WriteFailsKeeps, DeleteKeeps, FoundKeeps, FoundOriginKeeps,
     NotFoundKeeps, ServiceKeeps, POKeeps, ForwardAcceptedKeeps, ForwardAckedKeeps,
     CallbackTakenKeeps, PeerKeeps DEF Complete, IInv
<1>2. Brokers'
  BY <1>1, KeptIsEnough DEF Kept, IInv
<1>3. UNCHANGED answers
  BY DEF Complete, ApplyWrite, WriteFails, Delete, FoundLocal, FoundExternal, FoundOrigin,
     Located, NotFound, ServiceAnswers, ServiceRunsAgain, ServiceFails, ServiceServed,
     ServiceMoved, POStarts, POStartsAgain, POStarted, PORefuses, POSaysNothing,
     ForwardAccepted, ForwardAcked, CallbackTaken, PeerFails, PeerUnreachable, CallAbandoned
<1>4. RunsKept
  <2>1. CASE \E code \in {200, 202, 500} : ServiceAnswers(b, t, code) \/ ServiceRunsAgain(b, t, code)
    BY <2>1, RunsKeeps DEF ServiceAnswers, ServiceRunsAgain
  <2>2. CASE UNCHANGED runs
    BY <2>2, SameWorld
  <2> QED
    BY <2>1, <2>2 DEF Complete, ApplyWrite, WriteFails, Delete, FoundLocal, FoundExternal,
       FoundOrigin, Located, NotFound, ServiceFails, ServiceServed, ServiceMoved, POStarts,
       POStartsAgain, POStarted, PORefuses, POSaysNothing, ForwardAccepted, ForwardAcked,
       CallbackTaken, PeerFails, PeerUnreachable, CallAbandoned
<1>5. OwedKept
  <2>1. CASE \E code \in {200, 202, 500} : ServiceAnswers(b, t, code) \/ ServiceRunsAgain(b, t, code)
    BY <2>1, RunsKeeps DEF ServiceAnswers, ServiceRunsAgain
  <2>2. CASE \E ok \in BOOLEAN : POStarts(b, t, ok) \/ POStartsAgain(b, t, ok)
    BY <2>2, ProcessKeeps DEF POStarts, POStartsAgain
  <2>3. CASE UNCHANGED owed
    BY <2>3, SameWorld
  <2> QED
    BY <2>1, <2>2, <2>3 DEF Complete, ApplyWrite, WriteFails, Delete, FoundLocal,
       FoundExternal, FoundOrigin, Located, NotFound, ServiceFails, ServiceServed,
       ServiceMoved, POStarted, PORefuses, POSaysNothing, ForwardAccepted, ForwardAcked,
       CallbackTaken, PeerFails, PeerUnreachable, CallAbandoned
<1>6. NoFault \/ UNCHANGED faults \/ \E kind : Fault(kind)
  <2>1. CASE FoundLocal(b, t) \/ FoundExternal(b, t) \/ FoundOrigin(b, t) \/ NotFound(b, t)
    BY <2>1 DEF FoundLocal, FoundExternal, FoundOrigin, Located, NotFound
  <2>2. CASE \E code \in {200, 202, 500} :
                 ServiceAnswers(b, t, code) \/ ServiceRunsAgain(b, t, code)
    BY <2>2 DEF ServiceAnswers, ServiceRunsAgain
  <2>3. CASE \E code \in {404, 500, 503} : ServiceFails(b, t, code)
    BY <2>3 DEF ServiceFails
  <2>4. CASE \E ok \in BOOLEAN : POStarts(b, t, ok) \/ POStartsAgain(b, t, ok)
    BY <2>4 DEF POStarts, POStartsAgain
  <2>5. CASE \E j \in Id : ForwardAccepted(b, t, j)
    BY <2>5 DEF ForwardAccepted, Accept
  <2>6. CASE CallbackTaken(b, t)
    BY <2>6 DEF CallbackTaken
  <2>7. CASE PeerFails(b, t) \/ PeerUnreachable(b, t) \/ CallAbandoned(b, t)
    BY <2>7 DEF PeerFails, PeerUnreachable, CallAbandoned
  <2>8. CASE ApplyWrite(b, t) \/ WriteFails(b, t) \/ Delete(b, t)
    BY <2>8 DEF ApplyWrite, WriteFails, Delete
  <2>9. CASE \/ ServiceServed(b, t) \/ ServiceMoved(b, t) \/ POStarted(b, t)
             \/ PORefuses(b, t) \/ POSaysNothing(b, t) \/ ForwardAcked(b, t)
    BY <2>9 DEF ServiceServed, ServiceMoved, POStarted, PORefuses, POSaysNothing, ForwardAcked
  <2> QED
    BY <2>1, <2>2, <2>3, <2>4, <2>5, <2>6, <2>7, <2>8, <2>9 DEF Complete
<1>7. FaultsKept
  BY <1>6, FaultKept
<1>8. AnswersKept
  BY <1>3, SameWorld
<1> QED
  BY <1>2, <1>4, <1>5, <1>7, <1>8
     DEF IInv, World, OwedKept, RunsKept, AnswersKept, FaultsKept

-----------------------------------------------------------------------------
\* The invariant holds at the start ...
LEMMA InitIInv == Init => IInv
<1> SUFFICES ASSUME Init
             PROVE  IInv
  OBVIOUS
<1>1. [i \in Id |-> NoDoc] \in Stores
  BY DEF Stores
<1>2. Brokers
  BY <1>1, EmptyIsBag DEF Init, Brokers, Tasks, Docs
<1>3. World
  BY EmptyIsBag, EnvironmentAssumption DEF Init, World
<1> QED
  BY <1>2, <1>3 DEF IInv

\* ... and every step preserves it.
LEMMA StepIInv == IInv /\ [Next]_vars => IInv'
<1> SUFFICES ASSUME IInv, [Next]_vars
             PROVE  IInv'
  OBVIOUS
<1>1. ASSUME NEW b \in Broker, NEW i \in ClientId, NEW s \in Service,
             NEW skip \in BOOLEAN, Create(b, i, s, skip)
      PROVE  IInv'
  <2>1. Brokers'
    BY <1>1, CreateKeeps, KeptIsEnough DEF IInv, Kept
  <2>2. OwedKept /\ RunsKept /\ AnswersKept /\ FaultsKept
    BY <1>1, SameWorld DEF Create
  <2> QED
    BY <2>1, <2>2 DEF IInv, World, OwedKept, RunsKept, AnswersKept, FaultsKept
<1>2. ASSUME NEW b \in Broker, NEW i \in ClientId, GetResult(b, i)
      PROVE  IInv'
  <2>1. Brokers'
    BY <1>2, GetResultKeeps, KeptIsEnough DEF IInv, Kept
  <2>2. OwedKept /\ RunsKept /\ FaultsKept
    BY <1>2, SameWorld DEF GetResult
  <2>3. AnswersKept
    BY <1>2, GetResultAnswers
  <2> QED
    BY <2>1, <2>2, <2>3 DEF IInv, World, OwedKept, RunsKept, AnswersKept, FaultsKept
<1>3. ASSUME NEW b \in Broker, NEW t \in DOMAIN tasks[b], Complete(b, t)
      PROVE  IInv'
  BY <1>3, CompleteKeeps
<1>4. ASSUME NEW c \in DOMAIN owed, RequestCallback(c) \/ CallbackLost(c)
      PROVE  IInv'
  <2>1. c \in Callback /\ Brokers
    BY DEF IInv, World
  <2>2. Brokers'
    BY <1>4, <2>1, RequestCallbackKeeps, CallbackLostKeeps, KeptIsEnough DEF Kept
  <2>3. RunsKept /\ AnswersKept
    BY <1>4, SameWorld DEF RequestCallback, CallbackLost
  <2>4. FaultsKept
    BY <1>4, FaultKept DEF RequestCallback, CallbackLost
  <2>5. owed' \in {owed, BagRemove(owed, c)}
    BY <1>4 DEF RequestCallback, CallbackLost
  <2>6. OwedKept
    BY <2>5, OwedShrinks DEF IInv, World, OwedKept
  <2> QED
    BY <2>2, <2>3, <2>4, <2>6 DEF IInv, World, OwedKept, RunsKept, AnswersKept, FaultsKept
<1>5. ASSUME NEW b \in Broker, Stop(b) \/ Restart(b)
      PROVE  IInv'
  <2>1. Brokers'
    BY <1>5, StopKeeps, RestartKeeps, KeptIsEnough DEF IInv, Kept
  <2>2. OwedKept /\ RunsKept /\ AnswersKept
    BY <1>5, SameWorld DEF Stop, Restart
  <2>3. FaultsKept
    BY <1>5, FaultKept DEF Stop, Restart
  <2> QED
    BY <2>1, <2>2, <2>3 DEF IInv, World, OwedKept, RunsKept, AnswersKept, FaultsKept
<1>6. CASE UNCHANGED vars
  BY <1>6 DEF vars, IInv, Brokers, World, Tasks, Docs, Sound, External
<1> QED
  BY <1>1, <1>2, <1>3, <1>4, <1>5, <1>6 DEF Next, Client, Progress

\* The invariant holds in every state of every behaviour.
LEMMA Invariance == Spec => []IInv
BY InitIInv, StepIInv, PTL DEF Spec

\* Every document, pending operation, owed callback and answer of the two
\* brokers has its type in every reachable state: no status but the five of
\* the schema is ever stored, and no FINISHED request is without a response.
THEOREM TypeCorrect == Spec => []TypeOK
<1>1. IInv => TypeOK
  BY DEF IInv, Brokers, World, Tasks, Sound, Stores, TypeOK
<1> QED
  BY <1>1, Invariance, PTL

\* Whatever fails, is repeated or arrives early, and whatever the settings of
\* the two brokers: forward() and requestCallback() never park the request
\* of the other domain.
THEOREM StaysOpen == Spec => []ForwardedRequestsStayOpen
<1>1. IInv => ForwardedRequestsStayOpen
  BY DEF IInv, Brokers, Docs, ForwardedRequestsStayOpen, Exists
<1> QED
  BY <1>1, Invariance, PTL
=============================================================================

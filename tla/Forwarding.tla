----------------------------- MODULE Forwarding -----------------------------
(***************************************************************************)
(* The ForwardingHandler of two brokers (request_forwarding/forward.js),   *)
(* with the REST calls it makes (rest.js), the protection connector behind *)
(* it and the controllers in front of it.  Every broker runs the same      *)
(* code: it is the origin of the requests of its own clients and the       *)
(* remote end of those its peer forwards.                                  *)
(*                                                                         *)
(* A broker is one Node.js process, so a callback runs to its end without  *)
(* interruption.  What is pending between two callbacks is a task: the     *)
(* asynchronous operation the handler waits for with the variables its     *)
(* closure keeps.  An action completes one operation and runs the          *)
(* continuation up to the next operation.  Operations of one broker        *)
(* complete in any order: HTTP calls are independent and the database      *)
(* driver uses a pool of connections.                                      *)
(***************************************************************************)
EXTENDS RequestStore, FiniteSets, Bags, BagsExt

CONSTANTS
    Broker,
    Peer,         \* Peer[b]: the broker of the external domain (broker_ed)
    ClientId,     \* the ids the clients' requests get
    Nowhere,
    Home,         \* Home[s]: the domain where s is deployed, or Nowhere
    HasPO,        \* the brokers whose PO_CONNECTOR is not no_po
    Testing,      \* the brokers that wipe their database when they start
    Early,        \* who may call back before its answer is recorded
    Faults,       \* the kinds of faults that may happen ...
    MaxFaults,    \* ... and how many of them: a bound
    MaxAnswers    \* how often a client fetches a result: a bound

Callers == {"po", "service", "broker"}

ASSUME BrokerAssumption ==
    /\ Peer \in [Broker -> Broker]
    /\ \A b \in Broker : Peer[b] # b /\ Peer[Peer[b]] = b
ASSUME IdAssumption == ClientId \subseteq Id
ASSUME HomeAssumption == Nowhere \notin Broker /\ Home \in [Service -> Broker \cup {Nowhere}]
ASSUME EnvironmentAssumption ==
    /\ HasPO \subseteq Broker /\ Testing \subseteq Broker
    /\ Early \subseteq Callers
    /\ MaxFaults \in Nat /\ MaxAnswers \in Nat

VARIABLES
    up,       \* up[b]: the process of b is running
    db,       \* db[b]: the requests collection of b
    tasks,    \* tasks[b]: the bag of operations b waits for
    owed,     \* bag of callbacks the PO and the services owe to a broker
    used,     \* the ids handed out so far
    answers,  \* answers[i]: the results handed to the client of i, in order
    runs,     \* runs[i]: how often a service ran on behalf of i
    faults    \* faults spent

vars == <<up, db, tasks, owed, used, answers, runs, faults>>

-----------------------------------------------------------------------------
(***************************************************************************)
(* A task: `do` is the operation waited for and `at` the function of the   *)
(* code that continues.  For a call, `req` is what was sent; `resp` is the *)
(* answer, the entry to write or the result to return; `status` the one to *)
(* write; `log` the log of the document the handler read.                  *)
(***************************************************************************)
Operation == {"find", "service", "relocated", "served", "protect", "unprotect",
              "started", "forward", "accepted", "callback", "write",
              "saveThenUnprotect", "writeNoCallback", "delete"}

Stage == {"request", "resume", "forward", "unprotect", "callback"}

Task == [do : Operation, at : Stage, id : Id, req : Request, resp : Response,
         status : Status, log : Seq(Response)]

Callback == [to : Broker, id : Id, from : {"po", "service"}, ok : BOOLEAN,
             value : Body]

Answer(code, body) == [status |-> code, body |-> body, unprotectParams |-> FALSE]
Error(code) == Answer(code, "message")

Work(do, at, i, req) ==
    [do |-> do, at |-> at, id |-> i, req |-> req, resp |-> Error(202),
     status |-> "IN_PROGRESS", log |-> << >>]

Write(t, status, resp) ==
    [t EXCEPT !.do = "write", !.status = status, !.resp = resp]

\* RestHandler.forwardCallback: hand a result to the broker it came from
Return(t, resp) == [t EXCEPT !.do = "callback", !.resp = resp]

\* mutant: every result is kept for a client, also that of the peer's request
Conclude_keeps(t, resp) == Write(t, "FINISHED", resp)

\* forward() returns a result to the origin, request() keeps it for the client
Conclude(t, resp) ==
    IF t.at = "forward" THEN Return(t, resp) ELSE Write(t, "FINISHED", resp)

Root(t) == IF t.req.original_id = NoId THEN t.id ELSE t.req.original_id

Swap(b, t, u) == [tasks EXCEPT ![b] = BagAdd(BagRemove(@, t), u)]
Drop(b, t)    == [tasks EXCEPT ![b] = BagRemove(@, t)]
Start(b, u)   == [tasks EXCEPT ![b] = BagAdd(@, u)]

Becomes(b, t, u) == tasks' = Swap(b, t, u) /\ up' = up
Done(b, t)       == tasks' = Drop(b, t) /\ up' = up

\* an uncaught exception ends the process and everything it was waiting for
Crashes(b) == /\ up' = [up EXCEPT ![b] = FALSE]
              /\ tasks' = [tasks EXCEPT ![b] = EmptyBag]

Fault(kind) == kind \in Faults /\ faults < MaxFaults /\ faults' = faults + 1
NoFault == faults' = faults

Running(b, t, operations) == up[b] /\ t.do \in operations

\* the caller waits until broker b has nothing pending for request i
OnTime(caller, b, i) ==
    caller \in Early \/ \A t \in DOMAIN tasks[b] : t.id # i

-----------------------------------------------------------------------------
(* A client creates a request and fetches its result. *)

Create(b, i, s, skip) ==
    /\ up[b] /\ i \in ClientId \ used
    /\ LET req == [service |-> s, skip_po |-> skip, body |-> "data", original_id |-> NoId]
       IN  /\ db' = [db EXCEPT ![b][i] = createRequest("local", req)]
           /\ tasks' = Start(b, Work("find", "request", i, req))
    /\ used' = used \cup {i}
    /\ UNCHANGED <<up, owed, answers, runs, faults>>

\* mutant: the answered request is not deleted
GetResult_noDelete(b, i) ==
    /\ up[b] /\ db[b][i] # NoDoc /\ db[b][i].status = "FINISHED"
    /\ Len(answers[i]) < MaxAnswers
    /\ answers' = [answers EXCEPT ![i] = Append(@, lastResponse(db[b][i]))]
    /\ UNCHANGED <<up, db, tasks, owed, used, runs, faults>>

\* requestGetresultGET and the watcher: answer, and delete what was answered
GetResult(b, i) ==
    /\ up[b] /\ db[b][i] # NoDoc /\ db[b][i].status = "FINISHED"
    /\ Len(answers[i]) < MaxAnswers
    /\ answers' = [answers EXCEPT ![i] = Append(@, lastResponse(db[b][i]))]
    /\ tasks' = Start(b, Work("delete", "request", i, db[b][i].request))
    /\ UNCHANGED <<up, db, owed, used, runs, faults>>

-----------------------------------------------------------------------------
(* The database completes an operation. *)

\* mutant: the place of the forward entry is taken for one later
AfterWrite_offByOne(b, t) ==
    CASE t.do \in {"write", "delete"} -> Done(b, t)
      [] t.do = "writeNoCallback" -> Crashes(b)
      [] t.do = "saveThenUnprotect" ->
            IF Len(t.log) < 3 THEN Crashes(b)
            ELSE Becomes(b, t, [t EXCEPT !.do = "unprotect"])

AfterWrite(b, t) ==
    CASE t.do \in {"write", "delete"} -> Done(b, t)
      \* forward.js:626 gives no callback and updateRequest calls it
      [] t.do = "writeNoCallback" -> Crashes(b)
      \* forward.js:1077 reads request_log[2], which only the PO path has
      [] t.do = "saveThenUnprotect" ->
            IF Len(t.log) < 2 THEN Crashes(b)
            ELSE IF b \in HasPO
                 THEN Becomes(b, t, [t EXCEPT !.do = "unprotect",
                          !.resp.unprotectParams = t.log[2].unprotectParams])
                 ELSE Becomes(b, t, Write(t, "FINISHED", t.resp))

Writes == {"write", "saveThenUnprotect", "writeNoCallback"}

ApplyWrite(b, t) ==
    /\ Running(b, t, Writes)
    /\ db' = [db EXCEPT ![b] = updateRequest(@, t.id, t.status, t.resp)]
    /\ AfterWrite(b, t)
    /\ UNCHANGED <<owed, used, answers, runs, faults>>

\* an error of the database is logged and the continuation runs all the same
WriteFails(b, t) ==
    /\ Running(b, t, Writes \cup {"delete"}) /\ Fault("db")
    /\ AfterWrite(b, t)
    /\ UNCHANGED <<db, owed, used, answers, runs>>

Delete(b, t) ==
    /\ Running(b, t, {"delete"})
    /\ db' = [db EXCEPT ![b] = deleteRequest(@, t.id)]
    /\ Done(b, t)
    /\ UNCHANGED <<owed, used, answers, runs, faults>>

-----------------------------------------------------------------------------
(* ServiceInfo.findWithLocation answers. *)

\* a cached location may be out of date
Located(b, t, local) ==
    /\ Running(b, t, {"find"})
    /\ Home[t.req.service] # Nowhere
    /\ IF local = (Home[t.req.service] = b) THEN NoFault ELSE Fault("stale")
    /\ UNCHANGED <<db, owed, used, answers, runs>>

FoundLocal(b, t) ==
    /\ t.at \in {"request", "resume", "forward"} /\ Located(b, t, TRUE)
    /\ Becomes(b, t, [t EXCEPT !.do = "service"])

\* mutant: forwards before asking the PO
FoundExternal_unprotected(b, t) ==
    /\ t.at \in {"request", "resume", "forward"} /\ Located(b, t, FALSE)
    /\ Becomes(b, t, IF t.at = "forward" THEN Return(t, Error(404))
                     ELSE [t EXCEPT !.do = "forward"])

\* a request that came from the peer is not forwarded back
FoundExternal(b, t) ==
    /\ t.at \in {"request", "resume", "forward"} /\ Located(b, t, FALSE)
    /\ CASE t.at = "forward" -> Becomes(b, t, Return(t, Error(404)))
         [] t.at = "request" /\ b \in HasPO /\ ~t.req.skip_po ->
                Becomes(b, t, [t EXCEPT !.do = "protect"])
         [] OTHER -> Becomes(b, t, [t EXCEPT !.do = "forward"])

\* mutant: the result is given to the client as it came
FoundOrigin_raw(b, t) ==
    /\ t.at = "unprotect" /\ \E local \in BOOLEAN : Located(b, t, local)
    /\ Becomes(b, t, Write(t, "FINISHED", t.resp))

\* mutant: the result is not saved before the PO is asked to unprotect it
FoundOrigin_unsaved(b, t) ==
    /\ t.at = "unprotect" /\ \E local \in BOOLEAN : Located(b, t, local)
    /\ Becomes(b, t, IF t.req.skip_po
                     THEN Write(t, "FINISHED", t.resp)
                     ELSE [t EXCEPT !.do = "unprotect"])

\* forwardCallback: the location does not matter, only that there is one
FoundOrigin(b, t) ==
    /\ t.at = "unprotect" /\ \E local \in BOOLEAN : Located(b, t, local)
    /\ Becomes(b, t, IF t.req.skip_po
                     THEN Write(t, "FINISHED", t.resp)
                     ELSE [t EXCEPT !.do = "saveThenUnprotect"])

NotFound(b, t) ==
    /\ Running(b, t, {"find"})
    /\ \E code \in {404, 500} :
        /\ IF code = 404 THEN Home[t.req.service] = Nowhere /\ NoFault
           ELSE Fault(IF t.at = "unprotect" THEN "lateLookup" ELSE "lookup")
        \* forward.js:1013 reads first_log, which line 1032 declares anew
        /\ IF t.at = "unprotect" THEN Crashes(b)
           ELSE Becomes(b, t, Conclude(t, Error(code)))
    /\ UNCHANGED <<db, owed, used, answers, runs>>

-----------------------------------------------------------------------------
(* RestHandler.request: the call to a service and, when the service is not *)
(* where it was, a second call to where updateService says it is now.      *)

Computed(body) == IF body = "protected" THEN "protectedResult" ELSE "result"

Reaches(b, t) == /\ Home[t.req.service] # Nowhere
                 /\ t.do = "service" => Home[t.req.service] = b

\* the service runs and answers; with a 202 it owes a callback
Runs(b, t, code) ==
    /\ runs' = [runs EXCEPT ![Root(t)] = @ + 1]
    /\ owed' = IF code # 202 THEN owed
               ELSE BagAdd(owed, [to |-> b, id |-> t.id, from |-> "service",
                                  ok |-> FALSE, value |-> Computed(t.req.body)])

ServiceAnswers(b, t, code) ==
    /\ Running(b, t, {"service", "relocated"}) /\ Reaches(b, t)
    /\ Runs(b, t, code)
    /\ Becomes(b, t, [t EXCEPT !.do = "served", !.resp =
           Answer(code, IF code = 200 THEN Computed(t.req.body) ELSE "message")])
    /\ UNCHANGED <<db, used, answers, faults>>

\* the answer is lost and restCaller calls again
ServiceRunsAgain(b, t, code) ==
    /\ Running(b, t, {"service", "relocated"}) /\ Reaches(b, t)
    /\ Fault("retry") /\ Runs(b, t, code)
    /\ UNCHANGED <<up, db, tasks, used, answers>>

\* mutant: an error of the service is answered with another call
ServiceServed_callsAgain(b, t) ==
    /\ Running(b, t, {"served"})
    /\ Becomes(b, t, IF t.resp.status = 202 THEN Write(t, "IN_PROGRESS", t.resp)
                     ELSE IF t.resp.status = 500 THEN [t EXCEPT !.do = "service"]
                     ELSE Conclude(t, t.resp))
    /\ UNCHANGED <<db, owed, used, answers, runs, faults>>

\* mutant: forward() finishes a synchronous answer as request() does
ServiceServed_finishes(b, t) ==
    /\ Running(b, t, {"served"})
    /\ Becomes(b, t, Write(t, IF t.resp.status = 202 THEN "IN_PROGRESS" ELSE "FINISHED",
                           t.resp))
    /\ UNCHANGED <<db, owed, used, answers, runs, faults>>

ServiceServed(b, t) ==
    /\ Running(b, t, {"served"})
    /\ Becomes(b, t, IF t.resp.status = 202 THEN Write(t, "IN_PROGRESS", t.resp)
                                            ELSE Conclude(t, t.resp))
    /\ UNCHANGED <<db, owed, used, answers, runs, faults>>

ServiceFails(b, t, code) ==
    /\ Running(b, t, {"service", "relocated"})
    /\ t.do = "relocated" <=> code = 503
    /\ Fault("network")
    /\ Becomes(b, t, Conclude(t, Error(code)))
    /\ UNCHANGED <<db, owed, used, answers, runs>>

\* no answer (101): updateService finds the service, in whatever domain
ServiceMoved(b, t) ==
    /\ Running(b, t, {"service"}) /\ ~Reaches(b, t)
    /\ Becomes(b, t, [t EXCEPT !.do = "relocated"])
    /\ UNCHANGED <<db, owed, used, answers, runs, faults>>

-----------------------------------------------------------------------------
(* The protection orchestrator: protect from request(), unprotect from     *)
(* forwardCallback().  It answers 200 with a process and calls back later. *)

Process(b, t, ok) ==
    /\ ok \/ t.do \in Faults
    /\ owed' = BagAdd(owed, [to |-> b, id |-> t.id, from |-> "po", ok |-> ok,
                  value |-> IF t.do = "protect" THEN "protected" ELSE "result"])

POStarts(b, t, ok) ==
    /\ Running(b, t, {"protect", "unprotect"}) /\ Process(b, t, ok)
    /\ Becomes(b, t, [t EXCEPT !.do = "started"])
    /\ UNCHANGED <<db, used, answers, runs, faults>>

POStartsAgain(b, t, ok) ==
    /\ Running(b, t, {"protect", "unprotect"}) /\ Process(b, t, ok)
    /\ Fault("poRetry")
    /\ UNCHANGED <<up, db, tasks, used, answers, runs>>

\* mutant: the status is named after the operation
POStarted_misspelt(b, t) ==
    /\ Running(b, t, {"started"})
    /\ Becomes(b, t, Write(t, IF t.at = "request" THEN "PROTECT" ELSE "UNPROTECT",
                           Answer(200, "process")))
    /\ UNCHANGED <<db, owed, used, answers, runs, faults>>

POStarted(b, t) ==
    /\ Running(b, t, {"started"})
    /\ Becomes(b, t, Write(t, IF t.at = "request" THEN "PROTECTING" ELSE "UNPROTECTING",
                           Answer(200, "process")))
    /\ UNCHANGED <<db, owed, used, answers, runs, faults>>

PORefuses(b, t) ==
    /\ Running(b, t, {"protect", "unprotect"}) /\ Fault("po")
    /\ Becomes(b, t, Write(t, "FINISHED", Error(503)))
    /\ UNCHANGED <<db, owed, used, answers, runs>>

\* a 200 with an empty text body: neither of the three branches is taken
POSaysNothing(b, t) ==
    /\ Running(b, t, {"protect", "unprotect"}) /\ Fault("empty")
    /\ Done(b, t)
    /\ UNCHANGED <<db, owed, used, answers, runs>>

-----------------------------------------------------------------------------
(* The two brokers call each other. *)

\* forwardDomainPOST and forward() at the peer, up to the 202
Accept(b, t, j) ==
    LET req == [t.req EXCEPT !.original_id = t.id, !.skip_po = FALSE]
    IN  /\ up[Peer[b]] /\ j \in Id \ (used \cup ClientId)
        /\ db' = [db EXCEPT ![Peer[b]][j] = createRequest("external", req)]
        /\ used' = used \cup {j}
        /\ \/ /\ NoFault
              /\ tasks' = [Swap(b, t, [t EXCEPT !.do = "accepted"]) EXCEPT
                               ![Peer[b]] = BagAdd(@, Work("find", "forward", j, req))]
           \* the 202 is lost and restCaller posts again
           \/ /\ Fault("retry")
              /\ tasks' = Start(Peer[b], Work("find", "forward", j, req))

ForwardAccepted(b, t, j) ==
    /\ Running(b, t, {"forward"}) /\ Accept(b, t, j)
    /\ UNCHANGED <<up, owed, answers, runs>>

\* mutant: the entry is written as request() writes it
ForwardAcked_noParams(b, t) ==
    /\ Running(b, t, {"accepted"})
    /\ Becomes(b, t, Write(t, "FORWARDED", Error(202)))
    /\ UNCHANGED <<db, owed, used, answers, runs, faults>>

ForwardAcked(b, t) ==
    /\ Running(b, t, {"accepted"})
    /\ Becomes(b, t, Write(t, "FORWARDED",
           [Error(202) EXCEPT !.unprotectParams = (t.at = "resume")]))
    /\ UNCHANGED <<db, owed, used, answers, runs, faults>>

\* mutant: the status of the request is not looked at
TakeResult_anyStatus(b, i, resp) ==
    LET doc == db[b][i]
        t == [Work("find", "unprotect", i, doc.request) EXCEPT
                 !.resp = resp, !.log = doc.log]
    IN  IF doc = NoDoc THEN {}
        ELSE IF resp.status >= 300 THEN {Write(t, "FINISHED", resp)}
        ELSE {t}

\* mutant: an error of the remote service is only logged
TakeResult_dropsErrors(b, i, resp) ==
    LET doc == db[b][i]
    IN  IF doc = NoDoc \/ doc.status # "FORWARDED" \/ resp.status >= 300 THEN {}
        ELSE {[Work("find", "unprotect", i, doc.request) EXCEPT
                  !.resp = resp, !.log = doc.log]}

\* mutant: the handlers share the variable that holds the request's id
TakeResult_anyRequest(b, i, resp) ==
    LET open == {k \in Id : db[b][k] # NoDoc /\ db[b][k].status = "FORWARDED"}
        k == CHOOSE k \in open : TRUE
    IN  IF i \notin open THEN {}
        ELSE IF resp.status >= 300 THEN {Write(Work("find", "unprotect", k, db[b][k].request), "FINISHED", resp)}
        ELSE {[Work("find", "unprotect", k, db[b][k].request) EXCEPT
                  !.resp = resp, !.log = db[b][k].log]}

\* forwardCallback() at the broker that forwarded the request
TakeResult(b, i, resp) ==
    LET doc == db[b][i]
        t == [Work("find", "unprotect", i, doc.request) EXCEPT
                 !.resp = resp, !.log = doc.log]
    IN  IF doc = NoDoc \/ doc.status # "FORWARDED" THEN {}   \* refused with a 404
        ELSE IF resp.status >= 300 THEN {Write(t, "FINISHED", resp)}
        ELSE {t}

CallbackTaken(b, t) ==
    LET i == t.req.original_id
        started == TakeResult(Peer[b], i, t.resp)
        lost == [t EXCEPT !.do = "delete"]
    IN  /\ Running(b, t, {"callback"}) /\ up[Peer[b]]
        /\ OnTime("broker", Peer[b], i)
        /\ \E again \in BOOLEAN :
             LET mine == IF again THEN tasks ELSE Swap(b, t, lost)
             IN  /\ IF again THEN Fault("retry") ELSE NoFault
                 /\ tasks' = IF started = {} THEN mine
                             ELSE [mine EXCEPT ![Peer[b]] =
                                      BagAdd(@, CHOOSE u \in started : TRUE)]
        /\ UNCHANGED <<up, db, owed, used, answers, runs>>

\* the peer's database fails: it answers 500, and a result is not sent again
PeerFails(b, t) ==
    /\ Running(b, t, {"forward", "callback"}) /\ up[Peer[b]] /\ Fault("db")
    /\ Becomes(b, t, IF t.do = "forward" THEN Write(t, "FINISHED", Error(500))
                                         ELSE [t EXCEPT !.do = "delete"])
    /\ UNCHANGED <<db, owed, used, answers, runs>>

\* rest.js:203 and :258 read `response.error` of a response that is not given
PeerUnreachable(b, t) ==
    /\ Running(b, t, {"forward", "callback"})
    /\ IF up[Peer[b]] THEN Fault("network") ELSE NoFault
    /\ Crashes(b)
    /\ UNCHANGED <<db, owed, used, answers, runs>>

\* any other error of the call: the continuation is never called
CallAbandoned(b, t) ==
    /\ Running(b, t, {"forward", "callback"}) /\ Fault("odd")
    /\ Done(b, t)
    /\ UNCHANGED <<db, owed, used, answers, runs>>

-----------------------------------------------------------------------------
(* requestCallback(): the PO or a service calls back. *)

EndsProcess(c) == c.from = "po" /\ c.ok

\* mutant: a callback before the first entry is taken for the result
Unreadable_notYet(doc) == doc.status = "UNPROTECTING" /\ Len(doc.log) < 2

\* the entry the handler reads has no response, and it has replied already
Unreadable(doc) == \/ doc.status = "IN_PROGRESS" /\ Len(doc.log) = 0
                   \/ doc.status = "UNPROTECTING" /\ Len(doc.log) < 2

\* the task requestCallback starts, if it starts any
Continuation(doc, c) ==
    LET t == Work("write", "callback", c.id, doc.request)
        value == IF c.from = "po" THEN "envelope" ELSE c.value
    IN  CASE doc.status = "PROTECTING" ->
                {IF EndsProcess(c)
                 THEN [t EXCEPT !.do = "find", !.at = "resume", !.req.body = c.value]
                 ELSE Write(t, "FINISHED", Error(500))}
          [] doc.status = "UNPROTECTING" ->
                {IF ~EndsProcess(c)
                 THEN [Write(t, "FINISHED", Error(500)) EXCEPT !.do = "writeNoCallback"]
                 ELSE IF doc.origin = "local"
                 THEN Write(t, "FINISHED", Answer(200, c.value))
                 ELSE Return([t EXCEPT !.req.original_id = c.id], Answer(200, c.value))}
          [] doc.status = "IN_PROGRESS" ->
                {IF doc.origin = "local"
                 THEN Write(t, "FINISHED", Answer(200, value))
                 ELSE Return(t, Answer(200, value))}
          [] OTHER -> {}

RequestCallback(c) ==
    LET doc == db[c.to][c.id]
        started == Continuation(doc, c)
    IN  /\ up[c.to] /\ OnTime(c.from, c.to, c.id)
        /\ \/ NoFault /\ owed' = BagRemove(owed, c)
           \/ Fault("duplicate") /\ owed' = owed
        /\ IF doc = NoDoc THEN UNCHANGED <<tasks, up>>     \* 404
           ELSE IF Unreadable(doc) THEN Crashes(c.to)
           ELSE /\ up' = up
                /\ tasks' = IF started = {} THEN tasks
                            ELSE Start(c.to, CHOOSE u \in started : TRUE)
        /\ UNCHANGED <<db, used, answers, runs>>

CallbackLost(c) ==
    /\ Fault("lost") /\ owed' = BagRemove(owed, c)
    /\ UNCHANGED <<up, db, tasks, used, answers, runs>>

-----------------------------------------------------------------------------
(* The process of a broker is stopped, and starts again. *)

Stop(b) ==
    /\ up[b] /\ Fault("stop") /\ Crashes(b)
    /\ UNCHANGED <<db, owed, used, answers, runs>>

Restart(b) ==
    /\ ~up[b] /\ up' = [up EXCEPT ![b] = TRUE]
    /\ db' = IF b \in Testing THEN [db EXCEPT ![b] = [i \in Id |-> NoDoc]] ELSE db
    /\ UNCHANGED <<tasks, owed, used, answers, runs, faults>>

-----------------------------------------------------------------------------
Init ==
    /\ up = [b \in Broker |-> TRUE]
    /\ db = [b \in Broker |-> [i \in Id |-> NoDoc]]
    /\ tasks = [b \in Broker |-> EmptyBag]
    /\ owed = EmptyBag
    /\ used = {}
    /\ answers = [i \in Id |-> << >>]
    /\ runs = [i \in Id |-> 0]
    /\ faults = 0

Client == \E b \in Broker, i \in ClientId :
    \/ \E s \in Service, skip \in BOOLEAN : Create(b, i, s, skip)
    \/ GetResult(b, i)

Complete(b, t) ==
    \/ ApplyWrite(b, t) \/ WriteFails(b, t) \/ Delete(b, t)
    \/ FoundLocal(b, t) \/ FoundExternal(b, t) \/ FoundOrigin(b, t) \/ NotFound(b, t)
    \/ \E code \in {200, 202, 500} : ServiceAnswers(b, t, code) \/ ServiceRunsAgain(b, t, code)
    \/ \E code \in {404, 500, 503} : ServiceFails(b, t, code)
    \/ ServiceServed(b, t) \/ ServiceMoved(b, t)
    \/ \E ok \in BOOLEAN : POStarts(b, t, ok) \/ POStartsAgain(b, t, ok)
    \/ POStarted(b, t) \/ PORefuses(b, t) \/ POSaysNothing(b, t)
    \/ \E j \in Id : ForwardAccepted(b, t, j)
    \/ ForwardAcked(b, t) \/ CallbackTaken(b, t)
    \/ PeerFails(b, t) \/ PeerUnreachable(b, t) \/ CallAbandoned(b, t)

Progress == \/ \E b \in Broker : \E t \in DOMAIN tasks[b] : Complete(b, t)
            \/ \E c \in DOMAIN owed : RequestCallback(c)

Next == \/ Client
        \/ Progress
        \/ \E c \in DOMAIN owed : CallbackLost(c)
        \/ \E b \in Broker : Stop(b) \/ Restart(b)

Spec == Init /\ [][Next]_vars

(***************************************************************************)
(* The event loop runs every completed operation's continuation, the peer, *)
(* the PO and the services answer what they have accepted, and the client  *)
(* polls until it has its result.                                          *)
(***************************************************************************)
Fairness == /\ WF_vars(Progress)
            /\ \A b \in Broker, i \in ClientId : WF_vars(GetResult(b, i))

FairSpec == Spec /\ Fairness

-----------------------------------------------------------------------------
TypeOK ==
    /\ up \in [Broker -> BOOLEAN]
    /\ db \in [Broker -> [Id -> Doc \cup {NoDoc}]]
    /\ DOMAIN tasks = Broker
    /\ \A b \in Broker : IsABag(tasks[b]) /\ DOMAIN tasks[b] \subseteq Task
    /\ IsABag(owed) /\ DOMAIN owed \subseteq Callback
    /\ used \subseteq Id
    /\ answers \in [Id -> Seq(Response)]
    /\ runs \in [Id -> Nat]
    /\ faults \in 0 .. MaxFaults

Exists(b, i) == db[b][i] # NoDoc

\* A request that came from the other domain stays IN_PROGRESS until it is
\* deleted: whatever the interleaving, only forward() and the IN_PROGRESS
\* branch of requestCallback() ever work on it, so its result goes back to
\* the origin and is never left in the store.
ForwardedRequestsStayOpen ==
    \A b \in Broker, i \in Id :
        Exists(b, i) /\ db[b][i].origin = "external" => db[b][i].status = "IN_PROGRESS"

\* What leaves the domain in a call to the external broker or to a service
\* of the other domain went through protect(), unless the client asked to
\* skip the PO or the broker runs without one.
RawDataStaysHome ==
    \A b \in Broker : \A t \in DOMAIN tasks[b] :
        \/ t.do = "forward"
        \/ t.do = "relocated" /\ Home[t.req.service] = Peer[b]
        => t.req.body = "protected" \/ t.req.skip_po \/ b \notin HasPO

\* A service runs once for a request, and once more for each fault of the
\* environment: neither retries nor repeated callbacks multiply.
RunsPerFault == \A i \in Id : runs[i] <= 1 + faults

\* A client that is told of success gets the result in clear, not what the
\* PO or the remote service produced on the way.
SuccessIsTheResult ==
    \A i \in Id : \A k \in DOMAIN answers[i] :
        answers[i][k].status = 200 => answers[i][k].body = "result"

\* A client is told of success only if a service ran for it: no stray,
\* early or repeated callback of the PO passes for a result on its own.
SuccessMeansRun ==
    \A i \in Id : \A k \in DOMAIN answers[i] :
        answers[i][k].status = 200 => runs[i] > 0

\* "FIXME, this does not look like a proper way to recover last response"
\* (forward.js:597) takes the response of the entry before the last: while
\* UNPROTECTING, the entry before the last is the remote service's result
\* and the last one names the process that getresult asks the PO about.
UnprotectingFollowsResult ==
    \A b \in Broker, i \in Id :
        Exists(b, i) /\ db[b][i].status = "UNPROTECTING" =>
            LET log == db[b][i].log
            IN  /\ Len(log) >= 2 /\ log[Len(log)].body = "process"
                /\ log[Len(log) - 1].body = "protectedResult"

\* The parameters protect() gave for undoing it reach unprotect(), which
\* takes them from the fixed place request_log[2].
UnprotectParamsKept ==
    \A b \in Broker : \A t \in DOMAIN tasks[b] :
        t.do = "unprotect" => t.resp.unprotectParams

\* No step of a handler raises an exception that ends the process.
BrokersStayUp == \A b \in Broker : up[b]

Busy(b, i) == \/ \E t \in DOMAIN tasks[b] : t.id = i
              \/ \E c \in DOMAIN owed : c.to = b /\ c.id = i

\* A request that is not finished waits for something: an operation or a
\* callback of its own, or those of the request its peer made of it.
NothingStranded ==
    \A b \in Broker, i \in Id :
        Exists(b, i) /\ db[b][i].status # "FINISHED" =>
            \/ Busy(b, i)
            \/ \E j \in Id : /\ Exists(Peer[b], j)
                            /\ db[Peer[b]][j].request.original_id = i
                            /\ Busy(Peer[b], j)

\* The two brokers keep the promise of RequestLifecycle: a result, once it
\* is stored, is final, fetching it again gives the same result, and it is
\* not deleted before it was fetched.
TheDoc(i) == LET held == {b \in Broker : Exists(b, i)}
             IN  IF held = {} THEN NoDoc ELSE db[CHOOSE b \in held : TRUE][i]

Phase == [i \in ClientId |->
             IF i \notin used THEN "new"
             ELSE IF TheDoc(i) = NoDoc THEN "gone"
             ELSE IF TheDoc(i).status = "FINISHED" THEN "done" ELSE "open"]

Lifecycle == INSTANCE RequestLifecycle WITH
    NoResult <- NoDoc,
    phase    <- Phase,
    result   <- [i \in ClientId |->
                    IF Phase[i] = "done" THEN lastResponse(TheDoc(i)) ELSE NoDoc],
    fetched  <- [i \in ClientId |-> answers[i]]

KeepsLifecycle == Lifecycle!Spec

\* A client that keeps asking gets the result of its request.
EventuallyAnswered ==
    \A i \in ClientId : i \in used ~> answers[i] # << >>

\* Whatever becomes of it, a forwarded request does not stay in the store
\* of the remote broker, and an answered one not in the origin's.
StoresAreEmptied ==
    \A b \in Broker, i \in Id : Exists(b, i) ~> ~Exists(b, i)
=============================================================================

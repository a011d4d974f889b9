------------------------------- MODULE Server -------------------------------
(***************************************************************************)
(* The HTTP side of a broker: who is let in (authHandler, tokenValidator,  *)
(* errorHandler), what the controllers of requests answer, and when.       *)
(* Each connection carries one HTTP request.  What the handlers of         *)
(* Forwarding do to a request is left to them: here its document moves     *)
(* from open to finished, through PROTECTING or UNPROTECTING perhaps.      *)
(*                                                                         *)
(* While the PO works, getresult asks it for the status of its process     *)
(* through the caller of RestCaller, which other handlers use as well.     *)
(***************************************************************************)
EXTENDS RestCaller

CONSTANTS
    Conn,     \* connections; Call holds them and the calls of other handlers
    Asks,     \* what may be asked
    Nobody    \* an id of no request

Op == {"create", "create_blocker", "getresult", "callback"}

\* `cert` is a client certificate of the CA, `valid` whether the parameters
\* are what the API description says
Ask == [op : Op, cert : BOOLEAN, token : {"none", "good", "bad"}, valid : BOOLEAN]

ASSUME ConnAssumption == Conn \subseteq Call
ASSUME AskAssumption == Asks \subseteq Ask /\ Asks # {}
ASSUME NobodyAssumption == Nobody \notin Conn

VARIABLES
    conns,    \* conns[c]: what was asked, and how far it is
    docs,     \* docs[r]: the document of the request that connection r made
    deleting  \* ids whose documents a controller asked to delete

serverVars == <<conns, docs, deleting>>
vars == <<calls, ran, faults, conns, docs, deleting>>

(***************************************************************************)
(* A connection waits for the validation service, for a write or a read of *)
(* the store, for ServiceInfo or for the PO; the watcher keeps the one of  *)
(* create_blocker.  At stage "silent" nobody will answer it any more.      *)
(* `given` tells that the answer was the result of request `id`.           *)
(***************************************************************************)
Stage == {"idle", "validating", "saving", "reading", "finding", "asking",
          "watched", "silent", "answered"}

Status == {0, 200, 202, 400, 401, 404, 500, 503}

Connection == [ask : Ask, id : Conn \cup {Nobody}, stage : Stage, code : Status,
               given : BOOLEAN]

DocState == {"none", "open", "protecting", "finished", "gone"}

At(c, stage)     == conns[c].stage = stage
Asked(c)         == conns[c].ask
Becomes(c, k)    == conns' = [conns EXCEPT ![c] = k]
Waits(c, stage)  == Becomes(c, [conns[c] EXCEPT !.stage = stage])
Answer(k, code)  == [k EXCEPT !.stage = "answered", !.code = code]
Answers(c, code) == Becomes(c, Answer(conns[c], code))
Gives(c)         == Becomes(c, [Answer(conns[c], 200) EXCEPT !.given = TRUE])

NoCall == UNCHANGED <<calls, ran>>
NoFault == faults' = faults

-----------------------------------------------------------------------------
(* Who is let in. *)

\* the operations whose description has the parameter X-Auth-Token
AdmitsToken(op) == op # "callback"

\* the stage where the validated request goes on: the swagger validator, then
\* the controller
Controller(ask) == CASE ask.op \in {"create", "create_blocker"} -> "saving"
                     [] OTHER -> "reading"
LetIn(k) == IF k.ask.valid THEN [k EXCEPT !.stage = Controller(k.ask)]
                           ELSE Answer(k, 400)

\* the ids that whoever asks may know: create tells its client one, and the
\* services and the PO are told the id of what they work for
Known(op) ==
    {Nobody} \cup {r \in Conn :
        docs[r] # "none" /\ (op = "callback" \/ (op = "getresult" /\ Asked(r).op = "create"))}

\* an HTTP request arrives
Arrive(c, ask, id) ==
    LET k == [conns[c] EXCEPT !.ask = ask, !.id = id]
    IN  /\ At(c, "idle")
        /\ id \in Known(ask.op)
        /\ Becomes(c, IF ask.cert THEN LetIn(k)
                      ELSE IF AdmitsToken(ask.op) /\ ask.token # "none"
                           THEN [k EXCEPT !.stage = "validating"]
                           ELSE Answer(k, 401))
        /\ UNCHANGED <<docs, deleting>> /\ NoCall /\ NoFault

Validated(c) ==
    /\ At(c, "validating")
    /\ Becomes(c, IF Asked(c).token = "good" THEN LetIn(conns[c]) ELSE Answer(conns[c], 401))
    /\ UNCHANGED <<docs, deleting>> /\ NoCall /\ NoFault

\* mutant: the error of the validation service is dropped
ValidationFails_letsIn(c) ==
    /\ At(c, "validating") /\ Fault /\ Becomes(c, LetIn(conns[c]))
    /\ UNCHANGED <<docs, deleting>> /\ NoCall

\* the validation service answers with an error
ValidationFails(c) ==
    /\ At(c, "validating") /\ Fault /\ Answers(c, 401)
    /\ UNCHANGED <<docs, deleting>> /\ NoCall

-----------------------------------------------------------------------------
(* The controllers. *)

\* the request is saved: create answers its id, create_blocker watches it
Saved(c) ==
    /\ At(c, "saving")
    /\ docs' = [docs EXCEPT ![c] = "open"]
    /\ LET k == [conns[c] EXCEPT !.id = c]
       IN  Becomes(c, IF Asked(c).op = "create" THEN Answer(k, 202)
                                                ELSE [k EXCEPT !.stage = "watched"])
    /\ deleting' = deleting /\ NoCall /\ NoFault

\* a read or a write of the store fails
StoreFails(c) ==
    /\ conns[c].stage \in {"saving", "reading"} /\ Fault /\ Answers(c, 500)
    /\ UNCHANGED <<docs, deleting>> /\ NoCall

Exists(id) == id # Nobody /\ docs[id] \notin {"none", "gone"}

\* mutant: a request that is not found is an error without a name
ReadForCallback_unnamed(c) ==
    /\ At(c, "reading") /\ Asked(c).op = "callback"
    /\ IF Exists(conns[c].id) THEN Answers(c, 200) ELSE Waits(c, "reading")
    /\ UNCHANGED <<docs, deleting>> /\ NoCall /\ NoFault

\* requestCallbackPOST, up to its answer
ReadForCallback(c) ==
    /\ At(c, "reading") /\ Asked(c).op = "callback"
    /\ Answers(c, IF Exists(conns[c].id) THEN 200 ELSE 404)
    /\ UNCHANGED <<docs, deleting>> /\ NoCall /\ NoFault

\* mutant: the request is deleted whenever its status was answered
ReadForResult_alwaysDeletes(c) ==
    LET r == conns[c].id
    IN  /\ At(c, "reading") /\ Asked(c).op = "getresult"
        /\ IF ~Exists(r) THEN Answers(c, 404)
           ELSE IF docs[r] = "finished" THEN Gives(c)
           ELSE IF docs[r] = "protecting" THEN Waits(c, "finding")
           ELSE Answers(c, 202)
        /\ deleting' = IF Exists(r) THEN deleting \cup {r} ELSE deleting
        /\ docs' = docs /\ NoCall /\ NoFault

\* requestGetresultGET
ReadForResult(c) ==
    LET r == conns[c].id
    IN  /\ At(c, "reading") /\ Asked(c).op = "getresult"
        /\ IF ~Exists(r) THEN Answers(c, 404)
           ELSE IF docs[r] = "finished" THEN Gives(c)
           ELSE IF docs[r] = "protecting" THEN Waits(c, "finding")
           ELSE Answers(c, 202)
        /\ deleting' = IF Exists(r) /\ docs[r] = "finished" THEN deleting \cup {r} ELSE deleting
        /\ docs' = docs /\ NoCall /\ NoFault

\* getProcessStatus: where is the PO?
FoundPO(c) ==
    /\ At(c, "finding") /\ doCall(c, "GET") /\ Waits(c, "asking")
    /\ UNCHANGED <<docs, deleting>>

\* the lookup fails or the orchestrator keeps it waiting: RequestService.js:406
\* answers errors of the PO only
PONotFound(c) ==
    /\ At(c, "finding") /\ Fault /\ Waits(c, "silent")
    /\ UNCHANGED <<docs, deleting>> /\ NoCall

\* mutant: the PO's 404 is answered as if the request did not exist
POResponds_itsCode(c, code) ==
    /\ At(c, "asking") /\ Responds(c, code)
    /\ Answers(c, IF code = 200 THEN 202 ELSE code)
    /\ UNCHANGED <<docs, deleting>>

\* the PO is asked, and the callback of the call answers the client: a process
\* that the PO does not know, or has ended already, is an error of the PO
POResponds(c, code) ==
    /\ At(c, "asking") /\ Responds(c, code)
    /\ Answers(c, IF code = 200 THEN 202 ELSE 503)
    /\ UNCHANGED <<docs, deleting>>

\* mutant: the client is answered with the code of the error
PONotReached_itsCode(c) ==
    /\ At(c, "asking") /\ (Lost(c) \/ OddError(c))
    /\ IF calls'[c].stage = "over" THEN Answers(c, calls'[c].outcome) ELSE conns' = conns
    /\ UNCHANGED <<docs, deleting>>

\* the call is made again, or it ends with an error and nobody answers
PONotReached(c) ==
    /\ At(c, "asking") /\ (Lost(c) \/ OddError(c))
    /\ IF calls'[c].stage = "over" THEN Waits(c, "silent") ELSE conns' = conns
    /\ UNCHANGED <<docs, deleting>>

-----------------------------------------------------------------------------
(* What goes on besides. *)

Deleted(r) ==
    /\ r \in deleting /\ deleting' = deleting \ {r}
    /\ docs' = [docs EXCEPT ![r] = "gone"]
    /\ conns' = conns /\ NoCall /\ NoFault

\* the watcher reads a finished request that a connection waits for
Watched(c) ==
    /\ At(c, "watched") /\ docs[conns[c].id] = "finished"
    /\ Gives(c) /\ deleting' = deleting \cup {conns[c].id}
    /\ docs' = docs /\ NoCall /\ NoFault

\* a handler of Forwarding changes the status of a request
Handled(r, status) ==
    /\ <<docs[r], status>> \in {<<"open", "protecting">>, <<"protecting", "open">>,
                                <<"open", "finished">>, <<"protecting", "finished">>}
    /\ docs' = [docs EXCEPT ![r] = status]
    /\ UNCHANGED <<conns, deleting>> /\ NoCall /\ NoFault

\* the calls of the other handlers
OtherCalls(x) ==
    /\ \/ \E method \in {"GET", "POST", "PUT"} : doCall(x, method)
       \/ \E code \in Code : Responds(x, code)
       \/ Lost(x) \/ OddError(x)
    /\ UNCHANGED serverVars

\* the other processes run what they are sent
Executed(x) == (Runs(x) \/ RunsLate(x)) /\ UNCHANGED serverVars

-----------------------------------------------------------------------------
Init ==
    /\ CallInit
    /\ conns = [c \in Conn |-> [ask |-> CHOOSE ask \in Asks : TRUE, id |-> Nobody,
                                stage |-> "idle", code |-> 0, given |-> FALSE]]
    /\ docs = [r \in Conn |-> "none"]
    /\ deleting = {}

Serve(c) ==
    \/ Validated(c) \/ Saved(c) \/ ReadForCallback(c) \/ ReadForResult(c)
    \/ FoundPO(c) \/ Watched(c)
    \/ \E code \in Code : POResponds(c, code)

Fails(c) ==
    ValidationFails(c) \/ StoreFails(c) \/ PONotFound(c) \/ PONotReached(c)

Next ==
    \/ \E c \in Conn, ask \in Asks, id \in Conn \cup {Nobody} : Arrive(c, ask, id)
    \/ \E c \in Conn : Serve(c) \/ Fails(c)
    \/ \E r \in Conn : Deleted(r) \/ \E status \in DocState : Handled(r, status)
    \/ \E x \in Call \ Conn : OtherCalls(x)
    \/ \E x \in Call : Executed(x)

Spec == Init /\ [][Next]_vars

(***************************************************************************)
(* The database, the validation service, ServiceInfo and the PO answer     *)
(* what they were asked, if they do not fail, and the watcher polls.       *)
(***************************************************************************)
FairSpec == Spec /\ \A c \in Conn : WF_vars(Serve(c)) /\ WF_vars(Executed(c))

-----------------------------------------------------------------------------
TypeOK ==
    /\ CallTypeOK
    /\ conns \in [Conn -> Connection]
    /\ docs \in [Conn -> DocState]
    /\ deleting \subseteq Conn

\* A controller runs only for a client with a certificate or with a token that
\* was found good, also when the validation service fails or answers late: any
\* other is refused, and whatever else is wrong with its request it learns
\* nothing more.
Authorized(ask) == ask.cert \/ (AdmitsToken(ask.op) /\ ask.token = "good")
OnlyAuthorized ==
    \A c \in Conn : conns[c].stage \notin {"idle", "validating"} =>
                        Authorized(Asked(c)) \/ conns[c].code = 401

\* A request is forgotten only after some client was given its result, whatever
\* the order of polls, watched connections, callbacks and deletions.
Given(r) == \E c \in Conn : conns[c].given /\ conns[c].id = r
ForgottenIfGiven == \A r \in Conn : docs[r] = "gone" \/ r \in deleting => Given(r)

\* Whoever knows a request is told that it does not exist only after some client
\* was given its result: neither a poll whose request finishes, is fetched and is
\* deleted while it waits for the PO, nor one for which the PO knows no process,
\* nor a late callback ever makes a client give up a result that it could have.
NotFoundMeansGiven ==
    \A c \in Conn :
        conns[c].code = 404 /\ conns[c].id # Nobody => Given(conns[c].id)

\* Every HTTP request is answered, however the PO, the store and the validation
\* service fail, except where getresult does not answer the errors of its call,
\* and a blocking one waits for its request to finish.
Waiting(c) == conns[c].stage \notin {"idle", "silent", "answered"}
Stuck(c) == At(c, "watched") /\ docs[conns[c].id] # "finished"
AnsweredUnlessSilent == \A c \in Conn : Waiting(c) ~> ~Waiting(c) \/ Stuck(c)

\* swagger.yaml:320: getresult "Recovers the result of the request identified by
\* the provided request_id. If the request still being processed by the service,
\* the broker will send a response with the actual status of the request".
ResultIsAnswered ==
    \A c \in Conn : (Waiting(c) /\ Asked(c).op = "getresult") ~> At(c, "answered")
=============================================================================

---------------------------- MODULE RequestStore ----------------------------
(***************************************************************************)
(* The documents of the "requests" collection and what RequestHandler      *)
(* (request_forwarding/requests.js) does to a broker's collection.         *)
(*                                                                         *)
(* The store of a broker is a function from ids to documents, NoDoc where  *)
(* there is none.  The first entry of the code's request_log holds the     *)
(* request and every later one a response, so a document keeps the request *)
(* in its own field and `log` is request_log without its first entry:      *)
(* request_log[0] is `request`, request_log[k] is log[k].                  *)
(***************************************************************************)
EXTENDS Naturals, Sequences

CONSTANTS
    Id,         \* ObjectIds, unique over the two brokers
    NoId,       \* a request that was not forwarded has no original_id
    NoDoc,      \* the id is not in the collection
    Service     \* names of services

Status == {"IN_PROGRESS", "PROTECTING", "FORWARDED", "UNPROTECTING", "FINISHED"}

(***************************************************************************)
(* What a body can be, as far as the properties tell bodies apart.         *)
(*   data             what the client sent, in clear                       *)
(*   protected        the data after the protection orchestrator (PO)      *)
(*   result           the output of the service, in clear                  *)
(*   protectedResult  the output of the service run on protected data      *)
(*   process          the PO's answer when it starts a process             *)
(*   envelope         the PO's callback, {status, results}, not unwrapped  *)
(*   message          an error or status message                          *)
(***************************************************************************)
Body == {"data", "protected", "result", "protectedResult", "process",
         "envelope", "message"}

Code == {200, 202, 404, 500, 503}

Request == [service : Service, skip_po : BOOLEAN, body : Body,
            original_id : Id \cup {NoId}]

Response == [status : Code, body : Body, unprotectParams : BOOLEAN]

Doc == [origin : {"local", "external"}, status : Status,
        request : Request, log : Seq(Response)]

ASSUME NoDocAssumption == NoDoc \notin Doc /\ NoDoc \notin Response
ASSUME NoIdAssumption == NoId \notin Id

-----------------------------------------------------------------------------
createRequest(origin, request) ==
    [origin |-> origin, status |-> "IN_PROGRESS", request |-> request,
     log |-> << >>]

(***************************************************************************)
(* updateRequest takes effect when the save does: the driver sends $set of *)
(* the status and $push of the new entry, which the server applies to the  *)
(* document of that moment, whatever was read before.  A document that is  *)
(* gone is not an error and nothing is written.                            *)
(***************************************************************************)
updateRequest(store, i, status, response) ==
    IF store[i] = NoDoc
    THEN store
    ELSE [store EXCEPT ![i].status = status, ![i].log = Append(@, response)]

deleteRequest(store, i) == [store EXCEPT ![i] = NoDoc]

lastResponse(doc) == doc.log[Len(doc.log)]
=============================================================================

# A TLA+ model of the WITDOM core broker

A broker stands at the border of a domain. The clients of its domain ask it to
run services; it finds where a service is deployed and either calls it or
forwards the request to the broker of the other domain. Data that leaves the
domain is protected first by a protection orchestrator (PO), and the result is
unprotected when it comes back. The client polls for the result, or waits for it
on an open connection.

The broker is one Node.js process over a MongoDB database. Nothing runs in
parallel inside it, but every call to the database, a service, the PO or the
peer is asynchronous, so handlers of different requests, and several handlers
of one request, interleave at those calls. The two brokers, the POs and the
services are independent processes that call each other back. That is where the
difficulty of this code is, and what the modules here are about.

## Inventory

| part | state | operations | what makes it correct |
|---|---|---|---|
| `ForwardingHandler` (`request_forwarding/forward.js`) | none of its own: closures of pending operations, and the documents | `request`, `requestCallback`, `forward`, `forwardCallback` | a request gets one final result, in clear, produced by a service; raw data stays in the domain; errors end the request and not the process; nothing is stranded |
| `RequestHandler`, Request model (`requests.js`, `models/mongo/request.js`) | `requests` collection: origin, status, `request_log` | create, update, get, delete | an update appends to what is there at that moment |
| `RestHandler` (`rest.js`) | none | `request`, `forwardRequest`, `forwardCallback` | each call continues exactly once, whatever its outcome |
| `RestCaller` (`request/rest/lib`) | retries left | `doCall` | a call is answered once; retries repeat what was perhaps done |
| PO connector, `no_po` (`protection/`) | none | `protect`, `endProtection`, `unprotect`, `endUnprotection`, `getProcessStatus` | the two are interchangeable |
| controllers (`controllers/`) | none | create, create_blocker, getresult, callback, forward/domain, forward/callback, service lists | every HTTP request is answered once; an answered request is deleted |
| `RequestWatcher` (`request/requestWatcher.js`) | watched requests, one timeout | `addRequest`, `checkRequests` | one chain of polling; every connection answered once |
| `ServiceInfo`, Service model (`service_info/`, `models/mongo/service.js`) | `services` collection: a cache of locations | `findWithLocation`, `updateService`, `domainList`, `outsideList`, `list` | the location is that of the deployment, or is corrected when it proves wrong |
| orchestrator connectors (`orchestration/`) | none | `getServiceData`, `getServiceList` | a scan returns every service of the domain, calls back once, and tells a failure from an unknown service |
| authentication (`utils/*Auth*`, `utils/tokenValidator.js`, `validators/`) | none | one decision per HTTP request | no controller runs for a client that was not authorized, whatever the validation service does |
| middleware, error handler, audit, start-up, configuration | none | | every connection gets an answer |

Interactions. A client's POST creates a document and starts `request()`. The
handler asks `ServiceInfo` for the location. A local service is called through
`RestHandler`; a 202 means that it will call `/request/callback`, any other
status is the result. For a service of the other domain the PO is asked to
protect (status PROTECTING) and calls `/request/callback`; the handler then
posts to the peer's `/forward/domain` (FORWARDED). The peer creates a document
of its own with origin external, answers 202, runs the service as above, posts
the result to `/forward/callback` and deletes its document. The origin saves the
result, asks the PO to unprotect it (UNPROTECTING), and the PO's callback
finishes the request (FINISHED). `getresult` or the watcher answers the client
and deletes the document.

What is hard: callbacks that overtake the write that announces them; callbacks
told apart by the request's status only; calls repeated after a lost answer;
error branches nobody ran; entries of the log found by position; a process that
dies with all it was waiting for; a cache of locations that is wrong. The
`hazards` of `PROJECT.json` give each with its line and the properties on it.

## Modules

    RequestStore          documents, RequestHandler as operators
      Forwarding          two (or more) brokers, their peers, POs and services
        MCForwarding      instances for TLC
        ForwardingProofs  inductive invariant and theorems
          PrivacyProofs   what leaves a domain was protected
            SuccessProofs a success means that a service ran, once per fault
          LifecycleProofs what holds while the environment is orderly
    RequestLifecycle      what a client is promised; Forwarding implements it
    RequestWatcher        the watcher of blocking requests
      MCRequestWatcher
      RequestWatcherProofs
    RemoteCall            what a caller is promised; RestCaller implements it
    RestCaller            calls to other processes, and their repetitions
      RestCallerProofs
      Server              the HTTP side: who is let in, what is answered, polls of
                          the PO, made through RestCaller
        MCServer
        ServerProofs      uses RestCallerProofs
    ServiceInfo           caches of locations, orchestrators, peers
      MCServiceInfo
      ServiceInfoProofs

### RequestStore

A document keeps its request apart from the responses: `request_log[0]` is
`doc.request`, `request_log[k]` is `doc.log[k]`, so indices are those of the
code. Bodies are one of seven kinds (`Body`), as far as the properties tell them
apart. `updateRequest` is an append to the stored log, not to the log read
before: the handler pushes onto a Mongoose array (`requests.js:66-67`) and
`Request.update` assigns to a field the schema does not have (`requests_log`,
`models/mongo/request.js:43`), so what the driver sends is a `$push` and a `$set`
of the status. A document that is gone is not written again.

### Forwarding

`up[b]` is whether the process of broker `b` runs, `db[b]` its collection,
`tasks[b]` the bag of what it waits for, `owed` the callbacks that the POs and
the services owe, `answers` what clients were given, `runs` how often a service
ran for a client's request, `faults` the faults spent.

A task is one pending asynchronous operation with the variables of its closure:
`do` says what is waited for (`find` the location, a call to a `service`, a
`write`, ...) and `at` which function continues (`request`, `resume` for the
PROTECTING branch of `requestCallback`, `forward`, `unprotect` for
`forwardCallback`, `callback`). An action completes one task and runs its
continuation up to the next asynchronous operation. Because handlers do not
share variables, that is the grain at which they really interleave.

| action | code |
|---|---|
| `Create`, `GetResult` | `request()` up to the id; `requestGetresultGET` of a finished request and the deletion it starts |
| `ApplyWrite`, `WriteFails`, `Delete` | `updateRequest`, `deleteRequest` complete; `AfterWrite` is the callback they were given |
| `FoundLocal`, `FoundExternal`, `FoundOrigin`, `NotFound` | the continuations of `findWithLocation` |
| `ServiceAnswers`, `ServiceServed`, `ServiceFails`, `ServiceMoved`, `ServiceRunsAgain` | `RestHandler.request` and its continuation |
| `POStarts`, `POStarted`, `PORefuses`, `POSaysNothing`, `POStartsAgain` | `protect`, `unprotect` and their continuations |
| `ForwardAccepted`, `ForwardAcked` | `forwardRequest`, `forwardDomainPOST`, `forward()` up to the 202; the origin's continuation |
| `CallbackTaken`, `PeerFails`, `PeerUnreachable`, `CallAbandoned` | `forwardCallback` of both `RestHandler` and `ForwardingHandler` |
| `RequestCallback` | `requestCallback` up to its first asynchronous operation |
| `Stop`, `Restart`, `CallbackLost` | environment; a broker with `testing` wipes its collections at start (`broker.js:122`) |

An exception that no one catches ends the process (`Crashes`): there is no
handler for `uncaughtException`, and what is thrown in a callback reaches nobody.
All pending operations are lost, the collections stay.

A write of a document and its read are one step each: the interleavings of the
reads inside `updateRequest` (`findById`, then save) do not matter because the
save appends. `Located` allows exactly the answers that `findWithLocation` has
for the deployment `Home`, and, with fault `stale`, an old one.

`Early` says who may call back while the broker still has something pending for
the request. Without it a caller is slower than the broker's own write, which is
how the deployment normally is; with it every order is possible. The faults
that may happen are the constant `Faults`:
`retry`, `poRetry` (a POST was executed, its answer lost, and it is posted
again), `duplicate`, `lost` (a callback), `lookup`, `lateLookup`, `stale` (the
cache of locations), `po`, `empty`, `protect`, `unprotect` (the PO refuses,
answers with nothing, reports failure), `network`, `odd` (calls), `db` (a write),
`stop` (the process). `MaxFaults` bounds their number, `MaxAnswers` how often a
client fetches one result, and the set `Id` how many documents there ever are.

### RequestLifecycle

The promise to one client: accepted, finished once with a result that never
changes, fetched, forgotten only after it was fetched. `Forwarding` maps to it
with `Phase`, the stored result and `answers`, and `KeepsLifecycle` is checked as
a refinement.

### RequestWatcher

The array, the timers and the rounds, where a round is a sequence of
asynchronous reads (`Check` is one call of `checkRequest`). Timers and rounds are
counted although the code keeps one `timeoutId`, so that "only one chain" is a
result and not an assumption. Requests are added, and the store changes, between
any two reads.

### RestCaller and RemoteCall

`calls[x]` is one call of `doCall`: the retries left, whether the other process
ran the attempt that is waited for, and how many of the attempts given up it may
still run (`loose`): a request whose answer was lost may arrive, and be executed,
at any time later. `Lost` is one of the six network errors of
`restCaller.js:70`, `OddError` any other, `Responds` an answer, which ends the
call whatever its status. The two branches of the code, POST and GET, are the
same; any other method is error 100.

`RemoteCall` is what the handlers may rely on: a call ends once, it is
answered only if the other process ran it, and it is run at most `Limit` times,
possibly after it ended. `RestCaller` implements it with `Limit` = `Retries` + 1. The
faults `retry` and `poRetry` of `Forwarding` are steps of that promise.

### Server

`conns[c]` is one connection with one HTTP request: what was asked (`Ask`), the id
it is about, and the stage it waits at. `docs` has as much of a document as the
controllers look at, `deleting` the deletions they started. `Server` extends
`RestCaller`; a poll uses the call of its own connection.

| action | code |
|---|---|
| `Arrive`, `Validated`, `ValidationFails` | `authHandler`, `validateToken`, `globalHandler`; `LetIn` is the swagger validator behind them |
| `Saved`, `StoreFails` | `requestCreate`, `requestCreate_blocker`; database errors of all controllers |
| `ReadForCallback` | `requestCallbackPOST`: it answers before it works on the callback |
| `ReadForResult`, `FoundPO`, `PONotFound`, `POResponds`, `PONotReached` | `requestGetresultGET` and `getProcessStatus`; each stage is one asynchronous operation |
| `Watched`, `Deleted` | the watcher's answer, `deleteRequest` |
| `Handled`, `OtherCalls`, `Executed` | the handlers of `Forwarding`, which change a status or make calls; the processes that are called |

The id of a blocking request is told to the services and to the PO, and not to
its client, so only the watcher fetches it (`Known`).

### ServiceInfo

`deployed` is where services really are and changes by itself (`Move`); `db[b]` is
the `services` collection of broker `b`, a set of documents with keys in the order
of insertion, since `findById` takes the first. `ops[a]` is the question of one
asker, with the stage it waits at and the broker where it waits: a question goes
on at the peer when the peer is asked for its domain list. `saves` and `removes`
are writes nobody waits for: an answer is given before the cache is written, so
any number of them overlap with later questions.

| action | code |
|---|---|
| `Ask`, `FindById`, `FindLocal`, `FindOutside` | `find`, `findWithLocation`, `domainList`, `outsideList`, `list` and the reads of the collection |
| `CallService` | `RestHandler.request`: a local service that does not answer is looked for again |
| `ListDeployments`, `ReadOutputs`, `SkipOutputs`, `OutputsMissing`, `OrchestratorFails` | the connector's recursion over deployments, and the continuation of `updateService` or `domainList` |
| `PeerReturns`, `PeerUnreachable`, `PeerTimesOut` | `getOtherDomainsServices` with its repetitions, and its continuation |
| `SaveFinds`, `Insert`, `Update`, `SaveFails`, `Removed` | `saveOrUpdate` as a read and a write, `Service.remove` |

The source `local` of a document is the broker that keeps it, any other source its peer.
`there[a]`, `shown[a]` and `raced` are history: the services that were deployed in the
domain all along the question of `a`; those of them whose orchestrator did not hide them,
by refusing the outputs of a deployment or failing; and what was saved by two calls at a
time. `MissingWasAway` speaks of `shown` and holds; `MissingIsAway` speaks of `there`, as the
API description does, and fails (`MCServiceInfoHidden.cfg`). A record that was removed for
such a 404 comes back with the next use of the service: `StaleIsCorrected` asks for that, as for
the correction of a record that is wrong.

A peer whose connector does not call back keeps the caller waiting until its server closes
the connection, which is a network error (`PeerTimesOut`); after that or any other lost call
(`PeerUnreachable`) the list is asked for again or the question ends with 500. How often,
`RestCaller` counts; here the faults bound it. What an attempt that was given up still does at
the peer, saving what it found, is also what an asker of the peer does at the same time.

## Runs

| run | states | what it shows |
|---|---|---|
| `faults` | 52,818 | one client, three services (near, far, nowhere), POs in both domains, at most two of retry, po, lookup, protect; or two clients that forward at the same time without faults: `RawDataStaysHome`, `SuccessIsTheResult`, `UnprotectingFollowsResult`, `UnprotectParamsKept`, `BrokersStayUp`, `NothingStranded`, `SuccessMeansRun`, and the refinement `KeepsLifecycle` |
| `live` | 8,405 | the same with one fault, under `FairSpec`: `EventuallyAnswered`, `StoresAreEmptied` |
| `hostile` | 224,716 | every kind of fault and every early caller, one fault, a domain without a PO and in testing mode: `TypeOK`, `ForwardedRequestsStayOpen`, `RunsPerFault`, `SuccessMeansRun` |
| `watcher` | 38,977 | four blocking requests, two failing reads, under `FairSpec`: `TypeOK`, `OneChain`, `AnsweredOnce`, `WatchedUntilAnswered`, `FinishedIsAnswered` |
| `services` | 343,451 | two domains, a service with three places, one asker that uses it again and again and one that asks once, one move, one fault, under `FairSpec`: `TypeOK`, `NothingInvented`, `DuplicatesNeedARace`, `MissingWasAway`, `QuestionsAnswered`, `StaleIsCorrected` |
| `server` | 50,918 | three connections, seven kinds of HTTP request, one retry, two faults, under `FairSpec`: `TypeOK`, `OnlyAuthorized`, `ForgottenIfGiven`, `NotFoundMeansGiven`, the refinement `KeepsRemoteCall`, `AnsweredUnlessSilent` |

The remaining runs each violate one property, with the smallest environment that
does it; each is a finding of `PROJECT.json`.

| run | what the code does |
|---|---|
| `unreachable` | the peer does not answer: the broker reads `response.error` of no response and dies (`rest.js:203`) |
| `early_result` | the result comes back before FORWARDED is recorded and is refused for good (`forward.js:961`) |
| `stale_location` | a service that moved is sent the raw data (`rest.js:123`) |
| `repeated_protect` | the second callback of a repeated protect is taken for the unprotected result (`forward.js:589`) |
| `domain_list` | the domain list is whatever the cache holds, here the one service that was looked up (`ServiceInfo.js:208`) |
| `unanswered` | a poll whose call of the PO is lost is never answered (`RequestService.js:406`) |

More causes have a configuration of their own, which ends in a violation as well:

| configuration | property | what the code does |
|---|---|---|
| `MCForwardingUnprotectFails.cfg` | `BrokersStayUp` | the PO reports failure: `updateRequest` without a callback (`forward.js:612`, `requests.js:76`) |
| `MCForwardingLookupFails.cfg` | `BrokersStayUp` | the lookup after a result fails: `first_log` is hoisted and undefined (`forward.js:1013`) |
| `MCForwardingNoPO.cfg` | `BrokersStayUp` | a broker without a PO gets a result: `request_log[2]` is not there (`forward.js:1077`) |
| `MCForwardingOddError.cfg` | `NothingStranded` | an error of the call that the handler does not expect: its continuation is never called (`rest.js:206`) |
| `MCServiceInfoHidden.cfg` | `MissingIsAway` | a service that is deployed all along is reported as not found, because its deployment or its orchestrator is refused (`cloudify.js:118`, `ServiceInfo.js:99`) |

With `Early = {"po"}` and no fault the PO's callback finds a log without the entry
it reads (`forward.js:674`).

Bounds. One request meets, over its life, at most four documents: its own and,
with two faults of kind retry, three of the peer; `faults` has just that many
ids. Requests share nothing but the database and the process, so one client is
enough for the properties of a single request; that a second one changes nothing
is checked in the same run, where both forward and nothing fails
(`OneOrFaultless` keeps the two apart, and ids are symmetric because they are only
compared). One fault is enough to reach every error branch (`hostile`), two let
an error meet a repetition (`faults`). `MaxAnswers` = 2 is one fetch more than
needed, for the fetch that races the deletion. Deadlock is not checked:
a system whose clients have their answers stops.

In `services` one move makes every cached location stale once, one fault reaches
every error branch, and two askers are what it takes for lookups to overlap at one
cache or at the two ends of a peer's list; one service is enough because
records of different services never meet but in the lists, which `domain_list`
has two for. In `server` three connections are a request, a poll and one more
that polls, calls back or waits at the same time; with one retry a call has an attempt
to give up and one to lose for good, and two faults do both. Calls of other
handlers are explored while nobody is connected (`OthersAlone`).

Fairness. `Progress` is weakly fair: the event loop runs the continuation of
every operation that completed, PO, services and peer answer what they accepted.
It is one condition for the whole, which is enough because every step of
`Progress` spends a task or a callback and only faults and clients create more
work. `GetResult` is fair for each client: a client polls until it is answered.
Nothing is assumed of faults, restarts or new requests.
For the watcher, timeouts fire and reads complete; reads may fail `MaxErrors`
times and requests need not finish.
In `ServiceInfo` databases and orchestrators answer each asker, the peer answers or its
server closes the connection (the image is `node:boron`, `Dockerfile:2`, whose HTTP server
does so after two minutes without an answer), writes that were started are done, and an asker
that was answered asks again. That is
what corrects a stale record, because only a call that fails does. In `Server` the store,
the validation service, `ServiceInfo` and the PO answer unless they fail, and the
watcher polls; nothing makes a request finish, so `AnsweredUnlessSilent` leaves
out a blocking client whose request does not.

## Proofs

`ForwardingProofs` proves for all values of the constants that satisfy the
assumptions of `Forwarding` and `RequestStore` (peers come in pairs, ids of
clients are ids, `NoDoc` is neither a document nor a response, `NoId` is no id):

* `TypeCorrect`: `Spec => []TypeOK`.
* `StaysOpen`: `Spec => []ForwardedRequestsStayOpen`.

`ForwardedRequestsStayOpen` is about the collection, but what is written there was
decided when a task was made, perhaps several steps and another handler earlier.
`IInv` therefore says of every pending task what it may still do:

* `Remote`: a task for a document of external origin is one that `forward()` or the
  IN_PROGRESS branch of `requestCallback()` starts, and if it is a write it writes
  IN_PROGRESS;
* `Addressed`: what is returned to the origin names a request of the origin;
* `Docs`: a document has an id that was handed out, and only a local one has a status
  other than IN_PROGRESS, and then a response in its log, so that
  `requestCallback` takes the IN_PROGRESS branch for a document of external origin;
* `Sound`: every task belongs to an id that was handed out. Ids are never handed out
  twice, so a task that outlives its document never meets another one under its id.

The rest of `IInv` is the types. One lemma per action shows that it preserves
`StoresKept` and `TasksKept`, which say how a step may change stores and tasks, mostly
through lemmas on replacing and adding a task; `Invariance` joins them over `Next`.

`PrivacyProofs` proves `NothingLeavesInClear`: if `"stale"` is not among `Faults`, then
`Spec => []RawDataStaysHome`, with every other fault and every early caller. The run
`stale_location` shows that the assumption is needed. What is forwarded after
`protect()` is what a callback of the PO brings while the request is PROTECTING, and the
PO also calls back with results in clear, for `unprotect()`. A callback names the request
and no process, so the two must never be pending for one request. `Private` therefore says:

* `AloneIn`, `OpensFresh`: while `request()` is on its way to the write of PROTECTING
  (`Opening`) it is the only task of its id, and its document, unless it was deleted,
  is as it was created, so that neither a callback nor a poll does anything with it;
* no request is both `Protects` (PROTECTING, or on its way there) and `Undone` (a task
  of `forwardCallback()`, or a callback with anything but protected data that is still owed);
* `Shields`: which tasks may send what, from where they are.

`Private` is an invariant without any assumption: only the first conjunct of `Shields`,
that a service is called where it is, is restricted to current locations.

`SuccessProofs` proves `SuccessWasRun`: `Spec => []SuccessMeansRun`, whatever the faults
and whoever is early. Statuses are all that the handlers go by: the same callback of the
PO is a result when the request is UNPROTECTING and the answer to a service's 202 when it
is IN_PROGRESS. `Earned` says what has happened by then: a document that is UNPROTECTING,
IN_PROGRESS with an entry, or FINISHED with a 200 belongs to a request for which a service
ran, and so does every task that will write such a document or return such a result
(`Earns`, `EarnsDoc`). The run is counted for the client's request, the
document may be that of the peer: `Agrees` says that a task works for whom the document
under its id was created.

`RunsArePaidFor`, in the same module, is `Spec => []RunsPerFault`, again without any
assumption on faults or callers. That runs do not multiply is not inductive: before a
service runs a second time, a task was made for it, and before that perhaps a callback.
`Budget` counts these as tokens: a task on its way to a service (`Spends`), or a callback
of the PO that sends a request on (`Sends`). For each client's request the tokens
and the runs together are at most the faults, plus one once the request is created. A token
becomes another token, a run, or nothing; only `Create` and the repetitions
(`retry`, `poRetry`, `duplicate`) add one, and each of these is a fault. Three things make
this true, and each comes from another part of the invariant: a forwarded request
works for the client's id and not for one of the peer (`Outbound` in `Earned`); while a
request is PROTECTING the PO owes it no result, so that a callback sends it on only if it was
counted (`Private`); and tasks and callbacks are bags, so that two copies of one task
are two tokens (`Copy`, with lemmas on the sets of tokens of a bag).

`LifecycleProofs` proves the properties that need the environment to behave. `Orderly`
says how: nobody calls back before its answer is recorded (`Early = {}`), every broker has
a PO, and of the faults there are at most those that a handler has an answer to: repeated
calls of services and peers, lost callbacks, failing and outdated lookups, a PO that
refuses, says nothing or fails to protect (`retry`, `lost`, `lookup`, `stale`, `po`,
`empty`, `protect`). Then, for any brokers, services, ids and bounds:

| theorem | property | also assumed |
|---|---|---|
| `NoHandlerRaises` | `BrokersStayUp` | |
| `ResultBeforeProcess` | `UnprotectingFollowsResult` | |
| `ParamsReachUnprotect` | `UnprotectParamsKept` | |
| `NobodyWaitsForNothing` | `NothingStranded` | what was accepted is answered: no `lost`, no `empty` (`Sure`) |
| `SuccessInClear` | `SuccessIsTheResult` | locations are current: no `stale` (`NoStale`) |
| `BrokersKeepLifecycle` | `KeepsLifecycle` | |

The assumptions are those under which the code works, and what they exclude is what breaks
it. `network`, `odd`, `unprotect`, `lateLookup`, `stop` and a broker without a PO are in the
runs and configurations that end a process or strand a request; `poRetry` and
`duplicate` let a second callback be taken for a result (`repeated_protect`); an early PO
meets a log without the entry that is read, and an early peer loses its result
(`early_result`); a `db` fault leaves out an entry that is later found by its position. Each
of the six properties is checked by TLC in `faults`, whose constants satisfy `Orderly`,
`Sure` and `NoStale`.

All six rest on `Flow`. A handler finds what it needs by status and position, so each property
depends on what other tasks of the same request may still write, and none is
inductive by itself. `Flow` says that a request is at one place at a time:

* `Slots`: for each broker and id the document, the pending tasks and the callbacks owed
  fit together (`SlotOK`). `Placed` says which document a task of each function finds, with
  which entries in its log; `Awaits` which callbacks may be owed while it is pending;
  `Idle` the same when no task is; `Carries` and `Stored` which bodies responses have;
* `Singles`: only deletions of a request are pending together, and no process has ended;
* `Promises`: the PO calls back once, for a request that exists or existed;
* `Matched`: the peer's request is one of an id of ours, and was sent what that request is
  to send;
* `Clients`: a client's request is kept by one broker, and deleted after it was fetched;
* `Followed`: a request that the peer accepted is still worked on there, until the result
  comes back. A repeated post may have made several documents at the peer; one of them
  is enough.

For the refinement, each step is shown to change phase, result and what was fetched as one step of
`RequestLifecycle` does, or not at all: a document becomes FINISHED once, since no other
task is pending then, and a finished one meets only deletions and reads.

`RequestWatcherProofs` proves `ChainIsSingle`: `Spec => []OneChain`, for any set of
ids and any `MaxErrors`. `OneChain` counts timers, rounds and watched requests, so the
invariant adds that `requests` and `rounds` are sequences, which a splice and the end
of a round must be shown to keep. On it rest `WatcherTyped`, `NoSecondAnswer` and
`WatchedTillAnswer`. A round collects positions and removes them one splice after the
other when it ends, while requests may have been added. `Entries` therefore relates
the array to the positions that the round will remove (`Doomed`): the watched ids
differ, those at doomed positions were answered exactly once and no other watched one
was, and whoever was watched once and is no longer was answered. `OneChain` makes the
round the only one, its positions lie below its index, and `SplicedElements` says which
elements a splice of several positions leaves, by counting the positions below each.

`RestCallerProofs` proves `CallsKeepPromise`: `CallSpec => KeepsRemoteCall`. That a
call is run at most `Retries` + 1 times does not follow from the retries left alone:
an attempt given up may run later. The invariant `Accounted` adds up, for each
call, the runs done, the attempts given up that may still run and the one that is waited
for, and says that they are no more than the attempts made, `Retries - left + 1`;
`CallAccounted` proves it, and with it every step of `RestCaller` is a step or a stutter
of `RemoteCall`.

`ServerProofs` has five theorems: `ServerTyped`, `ServedAreAuthorized`,
`ResultsBeforeDeletion`, `GoneAfterResult` and `ServerKeepsRemoteCall`. The
properties speak of stages where a connection may have arrived several steps
before; `IInv` says what follows from the stage (`ConnOK`): one that waits for the
validation of its token may be let in by it, one that is past it was let in or refused
with 401, and one that was not answered has neither code nor result, so that a 401
never becomes another answer. `ForgottenIfGiven` ties the deletions to the connections.
`GoneAfterResult` says that a 404 for a request is told only after its result was: a handler
finds a document missing several steps after whoever asks learnt its id, so `Informed` says
that every connection with an id is about a request that was saved, and then a missing
document was deleted, and given before that. What the PO answers does not matter, since a
404 of its own is passed on as 503. The last theorem carries the refinement over to the composition:
a step of `Server` is one step of one call, or none.

`ServiceInfoProofs` proves `RecordsWereTrue`, `MissingServicesWereAway`,
`DuplicatesAreRaces` and the types, `ServicesTyped`. For the first, `RecOK` holds of everything on the way of a sighting from an orchestrator
through a list, the peer's cache, the peer's answer and a pending save into the cache.
For the second, `AwayOK` says how a question comes to a 404: while the scan runs, each
service in `shown` is found already or in a deployment still to be read (`Covered`); once
the peer is asked, and however often, the service of the question is not in `shown`. For the third, `DInv`
follows a save from its lookup to its write: two saves of one slot under way at once are
in `raced`, a document that a save found still has that slot, and a save that found none
would still find none, unless it raced.

Only model-checked: liveness under fairness (`EventuallyAnswered`, `StoresAreEmptied`,
`FinishedIsAnswered`, `QuestionsAnswered`, `StaleIsCorrected`,
`AnsweredUnlessSilent`), which is out of the prover's reach. Every invariant and every
refinement that a passing run checks is also proved.

## Not modelled

Texts, headers, logging, performance measures, the audit log. Errors 100 and 102 of
`RestCaller` in its users, which validation and start-up exclude. The paths of the
API documentation, which need no authentication, and the testing mode that treats
every client as authenticated. `connect()` of the connectors at start-up, the mock
connector, the stand-in `mockServiceInfo.js` and the dummy token validator, which
the tests use. How a service's name, host and port are cut out of a URI. The Java
client, tests, certificates and blueprints are not part of the broker.

`Forwarding` and `ServiceInfo` are not composed: `Forwarding` takes the answers of a
lookup as an input (local, external, 404, error, stale), and `ServiceInfo` shows
which of them there are. Nor are `Server` and `RequestWatcher`: `Watched` is the
answer that the watcher gives, and the order of its rounds is a matter of
`RequestWatcher`. The process of `Server` does not end: what ends it is in `Forwarding`.

## Plan

Done: `RequestStore`, `Forwarding`, `RequestLifecycle`, `RequestWatcher`; `RestCaller`
with its promise `RemoteCall`; `ServiceInfo` with the connector's scan; `Server` with
authentication, the polls and their calls; the theorems above.

Left:

1. `RequestWatcher` over the documents of `Server`, where a document may be
   deleted under a round.
2. Proofs: which of the six theorems of `LifecycleProofs` survive one more kind of fault,
   such as `db` for `NoHandlerRaises`.

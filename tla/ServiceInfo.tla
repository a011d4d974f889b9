---------------------------- MODULE ServiceInfo ----------------------------
(***************************************************************************)
(* Where services are: service_info/ServiceInfo.js over the services       *)
(* collection (models/mongo/service.js), the orchestrator of each domain   *)
(* as the Cloudify connector reads it (cloudify.js), and the peer broker,  *)
(* which is asked for the list of its domain.  The collection is a cache   *)
(* that nothing invalidates: the orchestrator does not tell that a service *)
(* moved.                                                                  *)
(*                                                                         *)
(* An asker is one activity that asks a broker one question after another: *)
(* a client of the lists, or the requests that call a service.  An         *)
(* action is one answer of the database, of an orchestrator or of the      *)
(* peer, with the continuation it starts.  Writes of the cache go on after *)
(* the answer was given, in steps of their own.                            *)
(***************************************************************************)
EXTENDS Integers, FiniteSets

CONSTANTS
    Broker,
    Peer,          \* Peer[b]: the broker of the other domain (broker_ed)
    Service, Host,
    Deployment,    \* the deployments of an orchestrator ...
    DeploymentOf,  \* ... and the one that a service belongs to
    Asker,
    Questions,     \* Questions[a]: what asker a may ask
    Unread, NewDoc,
    Places,        \* where services may be ...
    Start,         \* ... and may be at first
    MaxMoves,      \* how often services are deployed or moved: a bound
    MaxLooks,      \* how many questions are asked without using the service: a bound
    MaxFaults      \* how many calls fail: a bound

\* a client of a service, of findWithLocation or of one of the lists
Question == [what : {"find", "use", "domain", "outside", "list"}, by : Broker, id : Service]

ASSUME PeerAssumption ==
    /\ Peer \in [Broker -> Broker]
    /\ \A b \in Broker : Peer[b] # b
ASSUME DeploymentAssumption == DeploymentOf \in [Service -> Deployment]
ASSUME QuestionAssumption ==
    Questions \in [Asker -> SUBSET Question] /\ \A a \in Asker : Questions[a] # {}
ASSUME DocAssumption == Unread \notin Nat /\ NewDoc \notin Nat /\ Unread # NewDoc
ASSUME BoundAssumption == MaxMoves \in Nat /\ MaxLooks \in Nat /\ MaxFaults \in Nat

\* A service at a host of a domain.  In the collection of broker b the source
\* 'local' is the domain of b, any other source that of its peer.
Sighting == [id : Service, at : Broker, host : Host]

\* A document of the collection, and an entry of a list made of it.  Documents
\* have different keys, in the order in which they were inserted.
Record == [key : Nat, seen : Sighting]

ASSUME PlacesAssumption == Places \subseteq Sighting /\ Start \subseteq SUBSET Places

VARIABLES
    deployed,  \* where services are
    been,      \* where they are and where they were
    db,        \* db[b]: the services collection of b
    saves,     \* the calls of saveOrUpdate under way
    removes,   \* the removals under way
    ops,       \* ops[a]: the question of a
    there,     \* there[a]: services that were in the domain all along the question ...
    shown,     \* ... and whose orchestrator did not hide them
    raced,     \* what was saved twice at a time
    moves, looks, faults

vars == <<deployed, been, db, saves, removes, ops, there, shown, raced,
          moves, looks, faults>>

(***************************************************************************)
(* A question waits at `stage`, for the answer of a database or an         *)
(* orchestrator of domain `at`.  `left` are the deployments whose outputs  *)
(* are still to be read, `found` the services found so far, `mine` the     *)
(* domain_services of list(), `code` the status of the answer.             *)
(***************************************************************************)
Stage == {"idle", "byId", "local", "outside", "deployments", "outputs",
          "returned", "calling", "silent", "done"}

Op == [q : Question, stage : Stage, at : Broker, left : SUBSET Deployment,
       found : SUBSET Record, mine : SUBSET Record, code : {0, 200, 404, 500, 503}]

Save   == [asker : Asker, b : Broker, from : Record, doc : Nat \cup {Unread, NewDoc}]
Remove == [asker : Asker, b : Broker, id : Service]

By(a)    == ops[a].q.by
Id(a)    == ops[a].q.id
Wants(a, what) == ops[a].q.what \in what
Lists(a) == Wants(a, {"domain", "outside", "list"})

At(b, X) == {x \in X : x.at = b}
Of(s, recs) == {r \in recs : r.seen.id = s}
First(recs) == {r \in recs : \A q \in recs : r.key <= q.key}
Listed(X) == {[key |-> 0, seen |-> x] : x \in X}

\* what findById and saveOrUpdate look for: a service and its source
Slot(r) == <<r.seen.id, r.seen.at>>
Busy(a) == \/ ops[a].stage \notin {"idle", "done"}
           \/ \E v \in saves \cup removes : v.asker = a

Fault == faults < MaxFaults /\ faults' = faults + 1

-----------------------------------------------------------------------------
(* What a continuation does. *)

Goes(a, o) == ops' = [ops EXCEPT ![a] = o]
Waits(a, stage) == Goes(a, [ops[a] EXCEPT !.stage = stage])

Answers(a, code, list) ==
    Goes(a, [ops[a] EXCEPT !.stage = "done", !.at = By(a), !.left = {},
                           !.found = Listed({r.seen : r \in list}), !.mine = {}, !.code = code])

\* saveOrUpdate of each entry of a list, which nobody waits for
Saves(a, b, list) ==
    /\ saves' = saves \cup [asker : {a}, b : {b}, from : list, doc : {Unread}]
    /\ raced' = raced \cup {<<b, Slot(r)>> : r \in {r \in list :
           \/ \E v \in saves : v.b = b /\ Slot(v.from) = Slot(r)
           \/ \E q \in list \ {r} : Slot(q) = Slot(r)}}

SavesNothing == UNCHANGED <<saves, raced>>

\* Service.remove({id: service_id}): the records of every source
Forgets(a) == removes' = removes \cup {[asker |-> a, b |-> By(a), id |-> Id(a)]}

\* getOtherDomainsServices: a GET of /service/domainlist of the peer
AsksPeer(a) == Goes(a, [ops[a] EXCEPT !.stage = "local", !.at = Peer[By(a)],
                                      !.left = {}, !.found = {}])

\* domainList runs, asked by a client or by the peer
Listing(a) == Lists(a) \/ ops[a].at # By(a)

\* domainList calls back with a list
ListEnds(a, list) ==
    IF ops[a].at # By(a) THEN Goes(a, [ops[a] EXCEPT !.stage = "returned",
                                                     !.left = {}, !.found = list])
    ELSE IF Wants(a, {"list"})
         THEN Goes(a, [ops[a] EXCEPT !.stage = "outside", !.left = {},
                                     !.found = {}, !.mine = list])
         ELSE Answers(a, 200, list)

\* the connector calls back with the services of the domain
Scanned(a, list) ==
    LET mine == Of(Id(a), list)
    IN  IF Listing(a) THEN ListEnds(a, list) /\ Saves(a, ops[a].at, list)
        ELSE IF mine # {} THEN Answers(a, 200, mine) /\ Saves(a, By(a), mine)
        ELSE AsksPeer(a) /\ SavesNothing

\* deployments that are left after some were read
Scans(a, left, list) ==
    IF left = {} THEN Scanned(a, list)
    ELSE /\ Goes(a, [ops[a] EXCEPT !.stage = "outputs", !.left = left, !.found = list])
         /\ SavesNothing

-----------------------------------------------------------------------------
Asked(q, stage) == [q |-> q, stage |-> stage, at |-> q.by, left |-> {},
                    found |-> {}, mine |-> {}, code |-> 0]

Ask(a, q) ==
    /\ ~Busy(a)
    /\ IF q.what = "use" THEN looks' = looks ELSE looks < MaxLooks /\ looks' = looks + 1
    /\ Goes(a, Asked(q, CASE q.what \in {"find", "use"} -> "byId"
                          [] q.what = "outside" -> "outside"
                          [] OTHER -> "local"))
    /\ there' = [there EXCEPT ![a] = {x.id : x \in At(q.by, deployed)}]
    /\ shown' = [shown EXCEPT ![a] = {x.id : x \in At(q.by, deployed)}]
    /\ UNCHANGED <<deployed, been, db, saves, removes, raced, moves, faults>>

\* findWithLocation: the first record of the service, whatever its source
FindById(a) ==
    LET known == Of(Id(a), db[By(a)])
    IN  /\ ops[a].stage = "byId"
        /\ IF known = {} THEN Waits(a, "deployments")
           ELSE IF Wants(a, {"use"})
                THEN Goes(a, [ops[a] EXCEPT !.stage = "calling", !.found = First(known)])
                ELSE Answers(a, 200, First(known))
        /\ UNCHANGED <<deployed, been, db, saves, removes, there, shown, raced, moves, looks, faults>>

\* The call of the service: one of this domain that does not answer is looked
\* for again (updateService), one of the other domain is the peer's business.
CallService(a) ==
    /\ ops[a].stage = "calling"
    /\ IF \E r \in ops[a].found : r.seen.at = By(a) /\ r.seen \notin deployed
       THEN Goes(a, [ops[a] EXCEPT !.stage = "deployments", !.found = {}])
       ELSE Answers(a, 200, ops[a].found)
    /\ UNCHANGED <<deployed, been, db, saves, removes, there, shown, raced, moves, looks, faults>>

\* domainList: the records of the domain, if there is any
FindLocal(a) ==
    LET b == ops[a].at
        mine == {r \in db[b] : r.seen.at = b}
    IN  /\ ops[a].stage = "local"
        /\ IF mine = {} THEN Waits(a, "deployments") ELSE ListEnds(a, mine)
        /\ UNCHANGED <<deployed, been, db, saves, removes, there, shown, raced, moves, looks, faults>>

\* outsideList: the records of the other domain, if there is any
FindOutside(a) ==
    LET theirs == {r \in db[By(a)] : r.seen.at # By(a)}
    IN  /\ ops[a].stage = "outside"
        /\ IF theirs = {} THEN AsksPeer(a) ELSE Answers(a, 200, ops[a].mine \cup theirs)
        /\ UNCHANGED <<deployed, been, db, saves, removes, there, shown, raced, moves, looks, faults>>

\* mutant: the error of the database is passed on as it is
DatabaseFails_itsCode(a) ==
    /\ ops[a].stage \in {"byId", "local", "outside"}
    /\ Fault /\ Answers(a, 11000, {})
    /\ UNCHANGED <<deployed, been, db, saves, removes, there, shown, raced, moves, looks>>

DatabaseFails(a) ==
    /\ ops[a].stage \in {"byId", "local", "outside"}
    /\ Fault /\ Answers(a, 500, {})
    /\ UNCHANGED <<deployed, been, db, saves, removes, there, shown, raced, moves, looks>>

-----------------------------------------------------------------------------
(* The connector: the list of deployments, then the outputs of each. *)

\* mutant: one deployment is shifted away before the first is read
ListDeployments_shifted(a) ==
    LET list == {DeploymentOf[x.id] : x \in At(ops[a].at, deployed)}
    IN  /\ ops[a].stage = "deployments"
        /\ Scans(a, IF list = {} THEN {} ELSE list \ {CHOOSE d \in list : TRUE}, {})
        /\ UNCHANGED <<deployed, been, db, removes, there, shown, moves, looks, faults>>

ListDeployments(a) ==
    /\ ops[a].stage = "deployments"
    /\ Scans(a, {DeploymentOf[x.id] : x \in At(ops[a].at, deployed)}, {})
    /\ UNCHANGED <<deployed, been, db, removes, there, shown, moves, looks, faults>>

Outputs(a, d) == {x \in At(ops[a].at, deployed) : DeploymentOf[x.id] = d}

ReadOutputs(a, d) ==
    /\ ops[a].stage = "outputs" /\ d \in ops[a].left
    /\ Scans(a, ops[a].left \ {d}, ops[a].found \cup Listed(Outputs(a, d)))
    /\ UNCHANGED <<deployed, been, db, removes, there, shown, moves, looks, faults>>

\* a deployment whose outputs are refused is passed over
SkipOutputs(a, d) ==
    /\ ops[a].stage = "outputs" /\ d \in ops[a].left
    /\ Fault /\ Scans(a, ops[a].left \ {d}, ops[a].found)
    /\ shown' = [shown EXCEPT ![a] = {s \in @ : DeploymentOf[s] # d}]
    /\ UNCHANGED <<deployed, been, db, removes, there, moves, looks>>

\* an answer without outputs: the connector never calls back
OutputsMissing(a) ==
    /\ ops[a].stage = "outputs"
    /\ Fault /\ Waits(a, "silent")
    /\ UNCHANGED <<deployed, been, db, saves, removes, there, shown, raced, moves, looks>>

\* The orchestrator refuses or does not answer.  Its status is the code of the
\* error, so that a 404 of its own is taken for "Unknown service".
OrchestratorFails(a, status) ==
    /\ ops[a].stage = "deployments"
    /\ Fault
    /\ IF Listing(a) \/ status # 404 THEN Answers(a, 503, {}) ELSE AsksPeer(a)
    /\ IF Listing(a) \/ status = 404 THEN removes' = removes ELSE Forgets(a)
    /\ shown' = [shown EXCEPT ![a] = {}]
    /\ UNCHANGED <<deployed, been, db, saves, there, raced, moves, looks>>

-----------------------------------------------------------------------------
(* The peer's list arrives: every service of it is saved. *)

\* mutant: the services are saved as those of this domain
PeerReturns_asLocal(a) ==
    LET list == ops[a].found
        theirs == Of(Id(a), list)
    IN  /\ ops[a].stage = "returned"
        /\ Saves(a, By(a), {[r EXCEPT !.seen.at = By(a)] : r \in list})
        /\ IF Lists(a)
           THEN Answers(a, 200, ops[a].mine \cup list) /\ removes' = removes
           ELSE IF theirs # {} THEN Answers(a, 200, theirs) /\ removes' = removes
           ELSE Answers(a, 404, {}) /\ Forgets(a)
        /\ UNCHANGED <<deployed, been, db, there, shown, moves, looks, faults>>

\* mutant: a service that the peer does not have either is not reported
PeerReturns_no404(a) ==
    LET list == ops[a].found
        theirs == Of(Id(a), list)
    IN  /\ ops[a].stage = "returned" /\ (Lists(a) \/ theirs # {})
        /\ Saves(a, By(a), list)
        /\ Answers(a, 200, IF Lists(a) THEN ops[a].mine \cup list ELSE theirs)
        /\ UNCHANGED <<deployed, been, db, removes, there, shown, moves, looks, faults>>

PeerReturns(a) ==
    LET list == ops[a].found
        theirs == Of(Id(a), list)
    IN  /\ ops[a].stage = "returned"
        /\ Saves(a, By(a), list)
        /\ IF Lists(a)
           THEN Answers(a, 200, ops[a].mine \cup list) /\ removes' = removes
           ELSE IF theirs # {} THEN Answers(a, 200, theirs) /\ removes' = removes
           ELSE Answers(a, 404, {}) /\ Forgets(a)
        /\ UNCHANGED <<deployed, been, db, there, shown, moves, looks, faults>>

\* The call is lost, or its answer: it is repeated, or given up in the end.
PeerUnreachable(a) ==
    /\ ops[a].stage \in {"local", "returned"} /\ ops[a].at # By(a)
    /\ Fault /\ (AsksPeer(a) \/ Answers(a, 500, {}))
    /\ UNCHANGED <<deployed, been, db, saves, removes, there, shown, raced, moves, looks>>

\* A peer whose connector does not call back never answers, and its server
\* closes the connection: a network error for the caller.
PeerTimesOut(a) ==
    /\ ops[a].stage = "silent" /\ ops[a].at # By(a)
    /\ AsksPeer(a) \/ Answers(a, 500, {})
    /\ UNCHANGED <<deployed, been, db, saves, removes, there, shown, raced, moves, looks, faults>>

-----------------------------------------------------------------------------
(* saveOrUpdate: a find and a write; remove. *)

\* mutant: the record is looked for with the host
SameSlot_sameHost(v) == {r \in db[v.b] : r.seen = v.from.seen}

SameSlot(v) == {r \in db[v.b] : Slot(r) = Slot(v.from)}

SaveFinds(v) ==
    LET same == SameSlot(v)
        docs == IF same = {} THEN {NewDoc} ELSE {r.key : r \in First(same)}
    IN  /\ v.doc = Unread
        /\ \E doc \in docs : saves' = (saves \ {v}) \cup {[v EXCEPT !.doc = doc]}
        /\ UNCHANGED <<deployed, been, db, removes, ops, there, shown, raced, moves, looks, faults>>

\* a key after all those of records that someone may still know
NewKeys(b) ==
    LET known == {r.key : r \in db[b]} \cup {v.doc : v \in saves}
        keys  == known \ {Unread, NewDoc}
    IN  {k \in {0} \cup {j + 1 : j \in keys} : \A j \in keys : j < k}

Insert(v) ==
    /\ v.doc = NewDoc
    /\ \E k \in NewKeys(v.b) :
           db' = [db EXCEPT ![v.b] = @ \cup {[key |-> k, seen |-> v.from.seen]}]
    /\ saves' = saves \ {v}
    /\ UNCHANGED <<deployed, been, removes, ops, there, shown, raced, moves, looks, faults>>

\* mutant: nothing is marked as modified
Update_unmarked(v) ==
    /\ v.doc \in Nat /\ saves' = saves \ {v}
    /\ UNCHANGED <<deployed, been, db, removes, ops, there, shown, raced, moves, looks, faults>>

\* the document that was found is written, if it is still there
Update(v) ==
    /\ v.doc \in Nat
    /\ db' = [db EXCEPT ![v.b] =
                  {IF r.key = v.doc THEN [r EXCEPT !.seen = v.from.seen] ELSE r : r \in @}]
    /\ saves' = saves \ {v}
    /\ UNCHANGED <<deployed, been, removes, ops, there, shown, raced, moves, looks, faults>>

\* nobody looks at the error of a save
SaveFails(v) ==
    /\ Fault /\ saves' = saves \ {v}
    /\ UNCHANGED <<deployed, been, db, removes, ops, there, shown, raced, moves, looks>>

Removed(v) ==
    /\ db' = [db EXCEPT ![v.b] = {r \in @ : r.seen.id # v.id}]
    /\ removes' = removes \ {v}
    /\ UNCHANGED <<deployed, been, saves, ops, there, shown, raced, moves, looks, faults>>

-----------------------------------------------------------------------------
\* a service is deployed, moved or undeployed
Move(s, X) ==
    /\ moves < MaxMoves /\ moves' = moves + 1
    /\ deployed' = {x \in deployed : x.id # s} \cup X
    /\ been' = been \cup X
    /\ there' = [a \in Asker |-> IF At(By(a), X) = {} THEN there[a] \ {s} ELSE there[a]]
    /\ shown' = [a \in Asker |-> IF At(By(a), X) = {} THEN shown[a] \ {s} ELSE shown[a]]
    /\ UNCHANGED <<db, saves, removes, ops, raced, looks, faults>>

-----------------------------------------------------------------------------
Init ==
    /\ deployed \in Start
    /\ been = deployed
    /\ db = [b \in Broker |-> {}]
    /\ saves = {} /\ removes = {}
    /\ ops = [a \in Asker |-> Asked(CHOOSE q \in Questions[a] : TRUE, "idle")]
    /\ there = [a \in Asker |-> {}] /\ shown = [a \in Asker |-> {}]
    /\ raced = {}
    /\ moves = 0 /\ looks = 0 /\ faults = 0

Work(a) ==
    \/ FindById(a) \/ CallService(a) \/ FindLocal(a) \/ FindOutside(a)
    \/ ListDeployments(a) \/ PeerReturns(a) \/ PeerTimesOut(a)
    \/ \E d \in Deployment : ReadOutputs(a, d)
    \/ \E v \in saves : v.asker = a /\ (SaveFinds(v) \/ Insert(v) \/ Update(v))
    \/ \E v \in removes : v.asker = a /\ Removed(v)

Fails(a) ==
    \/ DatabaseFails(a) \/ OutputsMissing(a) \/ PeerUnreachable(a)
    \/ \E d \in Deployment : SkipOutputs(a, d)
    \/ \E status \in {404, 500} : OrchestratorFails(a, status)
    \/ \E v \in saves : v.asker = a /\ SaveFails(v)

Next == \/ \E a \in Asker : (\E q \in Questions[a] : Ask(a, q)) \/ Work(a) \/ Fails(a)
        \/ \E s \in Service : \/ Move(s, {})
                              \/ \E x \in Places : x.id = s /\ Move(s, {x})

Spec == Init /\ [][Next]_vars

(***************************************************************************)
(* Databases and orchestrators answer, a peer answers or its server closes *)
(* the connection, the event loop runs what was started, and an asker that *)
(* was answered asks again: a service that is used goes on being used.     *)
(***************************************************************************)
FairSpec == Spec /\ \A a \in Asker : /\ WF_vars(Work(a))
                                     /\ WF_vars(\E q \in Questions[a] : Ask(a, q))

-----------------------------------------------------------------------------
Slots == Broker \X (Service \X Broker)

TypeOK ==
    /\ deployed \subseteq Sighting /\ been \subseteq Sighting
    /\ db \in [Broker -> SUBSET Record]
    /\ saves \subseteq Save /\ removes \subseteq Remove
    /\ ops \in [Asker -> Op]
    /\ there \in [Asker -> SUBSET Service] /\ shown \in [Asker -> SUBSET Service]
    /\ raced \subseteq Slots
    /\ moves \in 0 .. MaxMoves /\ looks \in 0 .. MaxLooks /\ faults \in 0 .. MaxFaults

\* Whatever is cached, on its way to the cache or answered was true once: a
\* record filed under a source names a host where the service was in that
\* domain, also when it came through the cache of the peer, late or twice.
NothingInvented ==
    /\ \A b \in Broker : \A r \in db[b] : r.seen \in been
    /\ \A v \in saves : v.from.seen \in been
    /\ \A a \in Asker : \A r \in ops[a].found \cup ops[a].mine : r.seen \in been

\* "Tries to create a new service, if it exists updates it" (service.js:65):
\* a service has two records of one source only if two calls of saveOrUpdate
\* for it overlapped.
DuplicatesNeedARace ==
    \A b \in Broker : \A r, q \in db[b] :
        r # q /\ Slot(r) = Slot(q) => <<b, Slot(r)>> \in raced

\* A service is reported missing, and its records are removed, only if at some
\* moment of the question it was not in the domain or its orchestrator hid it.
MissingWasAway ==
    \A a \in Asker : ops[a].stage = "done" /\ ops[a].code = 404 => Id(a) \notin shown[a]

\* swagger.yaml:450 and :458 of /service/details: 404 says "Service not found",
\* 503 "Service unavailable".  Whatever the orchestrator answers, a service that
\* was in the domain all along is not reported as not found: the code does not
\* keep to it (cloudify.js:118, ServiceInfo.js:99).
MissingIsAway ==
    \A a \in Asker : ops[a].stage = "done" /\ ops[a].code = 404 => Id(a) \notin there[a]

\* swagger.yaml:472 of /service/domainlist: "This lists all the services
\* located in the asked broker's domain and their data."
DomainListComplete ==
    \A a \in Asker :
        ops[a].stage = "done" /\ ops[a].code = 200 /\ Wants(a, {"domain"}) =>
            there[a] \subseteq {r.seen.id : r \in ops[a].found}

\* Every question is answered, also one whose peer never answers, unless the
\* orchestrator of the asker's own domain leaves the outputs out of an answer.
Silent(a) == ops[a].stage = "silent" /\ ops[a].at = By(a)
Settled(a) == ops[a].stage \in {"idle", "done"} \/ Silent(a)
QuestionsAnswered == \A a \in Asker : ~Settled(a) ~> Settled(a)

\* A request that calls a service of its own domain corrects the cache, when the
\* service moved to another host, or when a lookup that failed or took a hidden
\* service for missing removed its record: once services stay where they are,
\* the record found first is there and is the right one.  It is not so for a
\* service that was in the other domain as well: findById may then find the
\* record of the other source.
Misplaced(a) ==
    LET known == Of(Id(a), db[By(a)])
    IN  /\ \E x \in deployed : x.id = Id(a)
        /\ \A x \in been : x.id = Id(a) => x.at = By(a)
        /\ ~\E r \in First(known) : r.seen \in deployed
StaleIsCorrected ==
    \A a \in Asker : <>[](Wants(a, {"use"}) /\ Misplaced(a) => Silent(a))
=============================================================================

------------------------- MODULE ServiceInfoProofs -------------------------
(***************************************************************************)
(* For any domains, services, deployments, moves and failures: nothing in  *)
(* a cache, on its way to one or in an answer was invented, a service is   *)
(* reported missing only if it was away, and a cache has a service of one  *)
(* source twice only after two lookups at once.                            *)
(***************************************************************************)
EXTENDS ServiceInfo, TLAPS

(***************************************************************************)
(* Everything a question holds goes into a cache in the end, so each part  *)
(* of the state holds records of places where services were.  Records have *)
(* their fields: the steps change single ones.                             *)
(***************************************************************************)
RecOK(r) == DOMAIN r = {"key", "seen"} /\ r.seen \in been

AllOK(recs) == \A r \in recs : RecOK(r)

OpOK(o) ==
    /\ DOMAIN o = {"q", "stage", "at", "left", "found", "mine", "code"}
    /\ o.q.by \in Broker /\ o.at \in Broker
    /\ AllOK(o.found) /\ AllOK(o.mine)

SaveOK(v) == DOMAIN v = {"asker", "b", "from", "doc"} /\ RecOK(v.from)

(***************************************************************************)
(* How question o comes to a 404: of the services th that stayed in the    *)
(* domain and were not hidden, the scan has found those whose deployments  *)
(* it has read, and the peer is asked for no service that it found.        *)
(***************************************************************************)
ForOne(o) == o.q.what \notin {"domain", "outside", "list"}

Covered(th, left, found) ==
    \A s \in th : DeploymentOf[s] \in left \/ \E r \in found : r.seen.id = s

AwayOK(o, th) ==
    /\ \A s \in th : \E x \in deployed : x.id = s /\ x.at = o.q.by
    /\ ForOne(o) /\ o.at = o.q.by /\ o.stage = "outputs" => Covered(th, o.left, o.found)
    /\ ForOne(o) /\ (o.at # o.q.by \/ o.stage = "returned") => o.q.id \notin th
    /\ o.stage = "done" /\ o.code = 404 => o.q.id \notin th
    /\ o.stage = "outside" => ~ForOne(o)

IInv == /\ deployed \subseteq been
        /\ db = [b \in Broker |-> db[b]] /\ \A b \in Broker : AllOK(db[b])
        /\ \A v \in saves : SaveOK(v)
        /\ ops = [a \in Asker |-> ops[a]] /\ shown = [a \in Asker |-> shown[a]]
        /\ \A a \in Asker : OpOK(ops[a]) /\ AwayOK(ops[a], shown[a])

\* The properties are parts of the invariant.
LEMMA IInvImplies == IInv => NothingInvented /\ MissingWasAway
BY DEF IInv, NothingInvented, MissingWasAway, AllOK, RecOK, SaveOK, OpOK, AwayOK, Id

\* Nothing is cached, saved or asked at the start.
LEMMA InitInv == Init => IInv
<1> SUFFICES ASSUME Init PROVE IInv
  OBVIOUS
<1>1. ASSUME NEW a \in Asker PROVE (CHOOSE q \in Questions[a] : TRUE) \in Question
  BY QuestionAssumption
<1>2. ASSUME NEW a \in Asker PROVE OpOK(ops[a]) /\ AwayOK(ops[a], shown[a])
  BY <1>1 DEF Init, OpOK, AllOK, AwayOK, Covered, Asked, Question
<1>3. /\ ops = [a \in Asker |-> ops[a]] /\ shown = [a \in Asker |-> shown[a]]
      /\ db = [b \in Broker |-> db[b]] /\ \A b \in Broker : AllOK(db[b])
      /\ deployed \subseteq been /\ \A v \in saves : SaveOK(v)
  BY DEF Init, AllOK
<1> QED
  BY <1>2, <1>3 DEF IInv

-----------------------------------------------------------------------------
(* What a continuation leaves behind. *)

\* The question goes on in a good state, with th of its services still there.
GoesWell(a, th) == \E o : Goes(a, o) /\ OpOK(o) /\ AwayOK(o, th)

\* Only good records are on their way to a cache.
SavesWell == \A v \in saves' : SaveOK(v)

\* A step of a question keeps the invariant if both are so.
LEMMA QuestionStep ==
    ASSUME IInv, NEW a \in Asker, NEW th, shown' = [shown EXCEPT ![a] = th],
           GoesWell(a, th), SavesWell, UNCHANGED <<deployed, been, db>>
    PROVE  IInv'
<1>1. PICK o : ops' = [ops EXCEPT ![a] = o] /\ OpOK(o) /\ AwayOK(o, th)
  BY DEF GoesWell, Goes
<1>2. /\ ops' = [x \in Asker |-> ops'[x]] /\ shown' = [x \in Asker |-> shown'[x]]
      /\ \A x \in Asker : OpOK(ops'[x]) /\ AwayOK(ops'[x], shown'[x])
  BY <1>1 DEF IInv
<1>3. \A x \in Asker : (OpOK(ops[x]) /\ AwayOK(ops[x], shown[x]))'
  BY <1>2 DEF OpOK, AwayOK, AllOK, RecOK
<1>4. (\A b \in Broker : AllOK(db[b]))' /\ (\A v \in saves : SaveOK(v))'
  BY DEF IInv, SavesWell, AllOK, SaveOK, RecOK
<1> QED
  BY <1>2, <1>3, <1>4 DEF IInv

\* The same when no service is hidden.
LEMMA PlainStep ==
    ASSUME IInv, NEW a \in Asker, GoesWell(a, shown[a]), SavesWell,
           UNCHANGED <<deployed, been, db, shown>>
    PROVE  IInv'
<1>1. shown' = [shown EXCEPT ![a] = shown[a]]
  BY DEF IInv
<1> QED
  BY <1>1, QuestionStep

\* What is known of a question before a step.
LEMMA OpParts ==
    ASSUME IInv, NEW a \in Asker, NEW th \in SUBSET shown[a]
    PROVE  OpOK(ops[a]) /\ AwayOK(ops[a], th)
BY DEF IInv, AwayOK, Covered

\* A question that starts to wait.
LEMMA WaitsWell ==
    ASSUME IInv, NEW a \in Asker, NEW stage,
           stage \in {"deployments", "silent"}, Waits(a, stage)
    PROVE  GoesWell(a, shown[a])
<1> DEFINE o == [ops[a] EXCEPT !.stage = stage]
<1>1. OpOK(ops[a]) /\ AwayOK(ops[a], shown[a])
  BY OpParts
<1>2. OpOK(o) /\ AwayOK(o, shown[a])
  BY <1>1 DEF OpOK, AwayOK, ForOne
<1> QED
  BY <1>2 DEF Waits, GoesWell

\* An entry of a list is the record it was made of, without its key.
LEMMA ListedOK ==
    ASSUME NEW X, \A x \in X : x \in been
    PROVE  AllOK(Listed(X))
BY DEF Listed, AllOK, RecOK

\* A question that is answered.
LEMMA AnswersWell ==
    ASSUME IInv, NEW a \in Asker, NEW th \in SUBSET shown[a], NEW code, NEW list,
           AllOK(list), code = 404 => Id(a) \notin th, Answers(a, code, list)
    PROVE  GoesWell(a, th)
<1> DEFINE found == Listed({r.seen : r \in list})
           o == [ops[a] EXCEPT !.stage = "done", !.at = By(a), !.left = {},
                               !.found = found, !.mine = {}, !.code = code]
<1>1. OpOK(ops[a]) /\ AwayOK(ops[a], th) /\ AllOK(found)
  BY OpParts, ListedOK DEF AllOK, RecOK
<1>2. Goes(a, o)
  BY DEF Answers
<1> HIDE DEF found
<1>3. OpOK(o)
  BY <1>1 DEF OpOK, By, AllOK
<1>4. AwayOK(o, th)
  BY <1>1 DEF OpOK, AwayOK, By, Id
<1> QED
  BY <1>2, <1>3, <1>4 DEF GoesWell

\* A question that goes on at the peer.
LEMMA AsksPeerWell ==
    ASSUME IInv, NEW a \in Asker, NEW th \in SUBSET shown[a],
           Lists(a) \/ Id(a) \notin th, AsksPeer(a)
    PROVE  GoesWell(a, th)
<1> DEFINE o == [ops[a] EXCEPT !.stage = "local", !.at = Peer[By(a)], !.left = {}, !.found = {}]
<1>1. OpOK(ops[a]) /\ AwayOK(ops[a], th) /\ Peer[By(a)] \in Broker
  BY OpParts, PeerAssumption DEF OpOK, By
<1>2. OpOK(o)
  BY <1>1 DEF OpOK, AllOK
<1>3. AwayOK(o, th)
  BY <1>1 DEF OpOK, AwayOK, ForOne, Lists, Wants, Id
<1> QED
  BY <1>2, <1>3 DEF AsksPeer, GoesWell

\* Records that were true are saved ...
LEMMA SavesListWell ==
    ASSUME IInv, NEW a, NEW b, NEW list, AllOK(list), Saves(a, b, list)
    PROVE  SavesWell
<1>1. \A v \in [asker : {a}, b : {b}, from : list, doc : {Unread}] : SaveOK(v)
  BY DEF SaveOK, AllOK
<1> QED
  BY <1>1 DEF IInv, Saves, SavesWell

\* ... or nothing is.
LEMMA SavesNothingWell ==
    ASSUME IInv, saves' = saves
    PROVE  SavesWell
BY DEF IInv, SavesWell

\* A list is complete and goes to whoever asked for it.
LEMMA ListEndsWell ==
    ASSUME IInv, NEW a \in Asker, NEW th \in SUBSET shown[a], NEW list, AllOK(list),
           ListEnds(a, list)
    PROVE  GoesWell(a, th)
<1>0. OpOK(ops[a]) /\ AwayOK(ops[a], th)
  BY OpParts
<1>1. CASE ops[a].at # By(a)
  <2> DEFINE o == [ops[a] EXCEPT !.stage = "returned", !.left = {}, !.found = list]
  <2>1. OpOK(o) /\ AwayOK(o, th)
    BY <1>0, <1>1 DEF OpOK, AwayOK, ForOne, By
  <2> QED
    BY <1>1, <2>1 DEF ListEnds, GoesWell
<1>2. CASE ops[a].at = By(a) /\ Wants(a, {"list"})
  <2> DEFINE o == [ops[a] EXCEPT !.stage = "outside", !.left = {}, !.found = {}, !.mine = list]
  <2>1. OpOK(o) /\ AwayOK(o, th)
    BY <1>0, <1>2 DEF OpOK, AwayOK, ForOne, Wants, By, AllOK
  <2> QED
    BY <1>2, <2>1 DEF ListEnds, GoesWell
<1>3. CASE ops[a].at = By(a) /\ ~Wants(a, {"list"})
  BY <1>3, AnswersWell DEF ListEnds
<1> QED
  BY <1>1, <1>2, <1>3

\* A scan ends: a service that was there all along was found.
LEMMA ScannedWell ==
    ASSUME IInv, NEW a \in Asker, NEW th \in SUBSET shown[a], NEW list, AllOK(list),
           ~Listing(a) => Covered(th, {}, list), Scanned(a, list)
    PROVE  GoesWell(a, th) /\ SavesWell
<1> DEFINE mine == Of(Id(a), list)
<1>1. AllOK(mine) /\ (~Listing(a) /\ mine = {} => Id(a) \notin th)
  BY DEF AllOK, Of, Covered
<1> HIDE DEF mine
<1>2. \/ ListEnds(a, list) /\ Saves(a, ops[a].at, list)
      \/ Answers(a, 200, mine) /\ Saves(a, By(a), mine)
      \/ ~Listing(a) /\ mine = {} /\ AsksPeer(a) /\ saves' = saves
  BY DEF Scanned, SavesNothing, mine
<1>3. CASE ListEnds(a, list) /\ Saves(a, ops[a].at, list)
  BY <1>3, ListEndsWell, SavesListWell
<1>4. CASE Answers(a, 200, mine) /\ Saves(a, By(a), mine)
  BY <1>1, <1>4, AnswersWell, SavesListWell
<1>5. CASE ~Listing(a) /\ mine = {} /\ AsksPeer(a) /\ saves' = saves
  BY <1>1, <1>5, AsksPeerWell, SavesNothingWell
<1> QED
  BY <1>2, <1>3, <1>4, <1>5

\* A scan goes on: such a service was found, or is in a deployment still to be read.
LEMMA ScansWell ==
    ASSUME IInv, NEW a \in Asker, NEW th \in SUBSET shown[a], NEW left, NEW list, AllOK(list),
           ~Listing(a) => Covered(th, left, list), Scans(a, left, list)
    PROVE  GoesWell(a, th) /\ SavesWell
<1>1. CASE left = {}
  BY <1>1, ScannedWell DEF Scans
<1>2. CASE left # {}
  <2> DEFINE o == [ops[a] EXCEPT !.stage = "outputs", !.left = left, !.found = list]
  <2>1. OpOK(ops[a]) /\ AwayOK(ops[a], th)
    BY OpParts
  <2>2. OpOK(o)
    BY <2>1 DEF OpOK
  <2>3. AwayOK(o, th)
    BY <2>1 DEF OpOK, AwayOK, ForOne, Listing, Lists, Wants, By
  <2> QED
    BY <1>2, <2>2, <2>3, SavesNothingWell DEF Scans, GoesWell, SavesNothing
<1> QED
  BY <1>1, <1>2

-----------------------------------------------------------------------------
(* The steps of a question. *)

\* What is read of a cache is good.
LEMMA ReadsOK ==
    ASSUME IInv, NEW b \in Broker, NEW recs \in SUBSET db[b]
    PROVE  AllOK(recs)
BY DEF IInv, AllOK

\* A question is asked.
LEMMA AskKeeps ==
    ASSUME IInv, NEW a \in Asker, NEW q \in Questions[a], Ask(a, q)
    PROVE  IInv'
<1> DEFINE stage == CASE q.what \in {"find", "use"} -> "byId"
                      [] q.what = "outside" -> "outside"
                      [] OTHER -> "local"
           th == {x.id : x \in At(q.by, deployed)}
           o == Asked(q, stage)
<1>1. q \in Question
  BY QuestionAssumption
<1>2. stage \in {"byId", "outside", "local"} /\ (stage = "outside" => q.what = "outside")
  OBVIOUS
<1>3. shown' = [shown EXCEPT ![a] = th] /\ Goes(a, o) /\ saves' = saves
      /\ UNCHANGED <<deployed, been, db>>
  BY DEF Ask
<1> HIDE DEF stage
<1>4. OpOK(o)
  BY <1>1 DEF OpOK, Asked, Question, AllOK
<1>5. \A s \in th : \E x \in deployed : x.id = s /\ x.at = q.by
  BY DEF At
<1> HIDE DEF th
<1>6. AwayOK(o, th)
  BY <1>2, <1>5 DEF AwayOK, Asked, ForOne
<1> QED
  BY <1>3, <1>4, <1>6, QuestionStep, SavesNothingWell DEF GoesWell

\* The cache is read for one service.
LEMMA FindByIdKeeps ==
    ASSUME IInv, NEW a \in Asker, FindById(a)
    PROVE  IInv'
<1> DEFINE known == Of(Id(a), db[By(a)])
           first == First(known)
           used == [ops[a] EXCEPT !.stage = "calling", !.found = first]
<1>1. OpOK(ops[a]) /\ AwayOK(ops[a], shown[a]) /\ AllOK(first)
  BY OpParts, ReadsOK DEF OpOK, By, Of, First
<1>2. UNCHANGED <<deployed, been, db, shown>> /\ saves' = saves
  BY DEF FindById
<1>3. Waits(a, "deployments") \/ Goes(a, used) \/ Answers(a, 200, first)
  BY DEF FindById
<1> HIDE DEF first
<1>4. OpOK(used) /\ AwayOK(used, shown[a])
  BY <1>1 DEF OpOK, AwayOK, ForOne
<1> HIDE DEF used
<1>5. GoesWell(a, shown[a])
  BY <1>1, <1>3, <1>4, WaitsWell, AnswersWell DEF GoesWell
<1> QED
  BY <1>2, <1>5, SavesNothingWell, PlainStep

\* A service is used where it was found.
LEMMA CallServiceKeeps ==
    ASSUME IInv, NEW a \in Asker, CallService(a)
    PROVE  IInv'
<1> DEFINE again == [ops[a] EXCEPT !.stage = "deployments", !.found = {}]
<1>1. OpOK(ops[a]) /\ AwayOK(ops[a], shown[a])
  BY OpParts
<1>2. OpOK(again) /\ AwayOK(again, shown[a])
  BY <1>1 DEF OpOK, AwayOK, ForOne, AllOK
<1>3. /\ Goes(a, again) \/ Answers(a, 200, ops[a].found)
      /\ UNCHANGED <<deployed, been, db, shown>> /\ saves' = saves
  BY DEF CallService
<1> HIDE DEF again
<1>4. GoesWell(a, shown[a])
  BY <1>1, <1>2, <1>3, AnswersWell DEF GoesWell, OpOK
<1> QED
  BY <1>3, <1>4, SavesNothingWell, PlainStep

\* The cache is read for the services of the domain ...
LEMMA FindLocalKeeps ==
    ASSUME IInv, NEW a \in Asker, FindLocal(a)
    PROVE  IInv'
<1> DEFINE mine == {r \in db[ops[a].at] : r.seen.at = ops[a].at}
<1>1. AllOK(mine)
  BY OpParts, ReadsOK DEF OpOK
<1>2. /\ Waits(a, "deployments") \/ ListEnds(a, mine)
      /\ UNCHANGED <<deployed, been, db, shown>> /\ saves' = saves
  BY DEF FindLocal
<1> HIDE DEF mine
<1>3. GoesWell(a, shown[a])
  BY <1>1, <1>2, WaitsWell, ListEndsWell
<1> QED
  BY <1>2, <1>3, SavesNothingWell, PlainStep

\* ... or of the other one.
LEMMA FindOutsideKeeps ==
    ASSUME IInv, NEW a \in Asker, FindOutside(a)
    PROVE  IInv'
<1> DEFINE theirs == {r \in db[By(a)] : r.seen.at # By(a)}
           all == ops[a].mine \cup theirs
<1>1. AllOK(theirs) /\ AllOK(ops[a].mine)
  BY OpParts, ReadsOK DEF OpOK, By
<1>2. AllOK(all)
  BY <1>1 DEF AllOK
<1>3. /\ AsksPeer(a) \/ Answers(a, 200, all)
      /\ UNCHANGED <<deployed, been, db, shown>> /\ saves' = saves
  BY DEF FindOutside
<1> HIDE DEF all
<1>4. Lists(a)
  BY OpParts DEF FindOutside, AwayOK, ForOne, Lists, Wants
<1>5. GoesWell(a, shown[a])
  BY <1>2, <1>3, <1>4, AsksPeerWell, AnswersWell
<1> QED
  BY <1>3, <1>5, SavesNothingWell, PlainStep

\* An answer that is no 404 may be any other error.
LEMMA FailureKeeps ==
    ASSUME IInv, NEW a \in Asker,
           \/ DatabaseFails(a) \/ OutputsMissing(a)
           \/ PeerUnreachable(a) \/ PeerTimesOut(a)
    PROVE  IInv'
<1>1. UNCHANGED <<deployed, been, db, shown>> /\ saves' = saves
  BY DEF DatabaseFails, PeerUnreachable, PeerTimesOut, OutputsMissing
<1>2. \/ Answers(a, 500, {}) \/ Waits(a, "silent")
      \/ AsksPeer(a) /\ ops[a].at # By(a)
  BY DEF DatabaseFails, PeerUnreachable, PeerTimesOut, OutputsMissing
<1>3. AllOK({})
  BY DEF AllOK
<1>4. ops[a].at # By(a) => Lists(a) \/ Id(a) \notin shown[a]
  BY OpParts DEF AwayOK, ForOne, Lists, Wants, By, Id
<1>5. GoesWell(a, shown[a])
  BY <1>2, <1>3, <1>4, AnswersWell, WaitsWell, AsksPeerWell
<1> QED
  BY <1>1, <1>5, SavesNothingWell, PlainStep

\* The orchestrator lists its deployments.
LEMMA ListDeploymentsKeeps ==
    ASSUME IInv, NEW a \in Asker, ListDeployments(a)
    PROVE  IInv'
<1> DEFINE left == {DeploymentOf[x.id] : x \in At(ops[a].at, deployed)}
<1>1. AwayOK(ops[a], shown[a])
  BY OpParts
<1>2. ~Listing(a) => Covered(shown[a], left, {})
  BY <1>1 DEF AwayOK, Covered, Listing, By, At
<1>3. AllOK({}) /\ Scans(a, left, {})
  BY DEF AllOK, ListDeployments
<1> HIDE DEF left
<1>4. GoesWell(a, shown[a]) /\ SavesWell
  BY <1>2, <1>3, ScansWell
<1> QED
  BY <1>4, PlainStep DEF ListDeployments

\* The services that the outputs of a deployment name are there.
LEMMA OutputsOK ==
    ASSUME IInv, NEW a \in Asker, NEW d, OpOK(ops[a])
    PROVE  AllOK(ops[a].found \cup Listed(Outputs(a, d)))
<1>1. AllOK(Listed(Outputs(a, d)))
  BY ListedOK DEF IInv, Outputs, At
<1> QED
  BY <1>1 DEF AllOK, OpOK

\* The outputs of a deployment are read ...
LEMMA ReadOutputsKeeps ==
    ASSUME IInv, NEW a \in Asker, NEW d, ReadOutputs(a, d)
    PROVE  IInv'
<1> DEFINE left == ops[a].left \ {d}
           new == Listed(Outputs(a, d))
           list == ops[a].found \cup new
<1>1. OpOK(ops[a]) /\ AwayOK(ops[a], shown[a]) /\ AllOK(list)
  BY OpParts, OutputsOK
<1>2. Scans(a, left, list) /\ UNCHANGED <<deployed, been, db, shown>>
  BY DEF ReadOutputs
<1>3. ASSUME ~Listing(a) PROVE Covered(shown[a], left, list)
  <2>1. /\ Covered(shown[a], ops[a].left, ops[a].found) /\ ops[a].at = By(a)
        /\ \A s \in shown[a] : \E x \in deployed : x.id = s /\ x.at = By(a)
    BY <1>1, <1>3 DEF ReadOutputs, AwayOK, Listing, Lists, Wants, ForOne, By
  <2>2. ASSUME NEW s \in shown[a], DeploymentOf[s] = d
        PROVE  \E r \in list : r.seen.id = s
    <3>1. PICK x \in deployed : x.id = s /\ x.at = ops[a].at
      BY <2>1
    <3>2. x \in Outputs(a, d)
      BY <2>2, <3>1 DEF Outputs, At
    <3>3. [key |-> 0, seen |-> x] \in new
      BY <3>2 DEF Listed
    <3> QED
      BY <3>1, <3>3
  <2> QED
    BY <2>1, <2>2 DEF Covered
<1> HIDE DEF left, list
<1>4. GoesWell(a, shown[a]) /\ SavesWell
  BY <1>1, <1>2, <1>3, ScansWell
<1> QED
  BY <1>2, <1>4, PlainStep

\* ... or are refused, and it is passed over.
LEMMA SkipOutputsKeeps ==
    ASSUME IInv, NEW a \in Asker, NEW d, SkipOutputs(a, d)
    PROVE  IInv'
<1> DEFINE left == ops[a].left \ {d}
           th == {s \in shown[a] : DeploymentOf[s] # d}
<1>1. OpOK(ops[a]) /\ AwayOK(ops[a], shown[a]) /\ AllOK(ops[a].found)
  BY OpParts DEF OpOK
<1>2. /\ Scans(a, left, ops[a].found) /\ shown' = [shown EXCEPT ![a] = th]
      /\ UNCHANGED <<deployed, been, db>>
  BY DEF SkipOutputs
<1>3. ~Listing(a) => Covered(th, left, ops[a].found)
  BY <1>1 DEF SkipOutputs, AwayOK, Covered, Listing, Lists, Wants, ForOne, By
<1>4. th \in SUBSET shown[a]
  OBVIOUS
<1> HIDE DEF left, th
<1>5. GoesWell(a, th) /\ SavesWell
  BY <1>1, <1>2, <1>3, <1>4, ScansWell
<1> QED
  BY <1>2, <1>5, QuestionStep

\* The orchestrator fails.
LEMMA OrchestratorFailsKeeps ==
    ASSUME IInv, NEW a \in Asker, NEW status, OrchestratorFails(a, status)
    PROVE  IInv'
<1>1. /\ Answers(a, 503, {}) \/ AsksPeer(a)
      /\ shown' = [shown EXCEPT ![a] = {}] /\ UNCHANGED <<deployed, been, db>>
  BY DEF OrchestratorFails
<1>2. AllOK({}) /\ {} \in SUBSET shown[a]
  BY DEF AllOK
<1>3. GoesWell(a, {})
  BY <1>1, <1>2, AnswersWell, AsksPeerWell
<1>4. SavesWell
  BY SavesNothingWell DEF OrchestratorFails
<1> QED
  BY <1>1, <1>3, <1>4, QuestionStep

\* The list of the peer comes.
LEMMA PeerReturnsKeeps ==
    ASSUME IInv, NEW a \in Asker, PeerReturns(a)
    PROVE  IInv'
<1> DEFINE theirs == Of(Id(a), ops[a].found)
           all == ops[a].mine \cup ops[a].found
<1>1. OpOK(ops[a]) /\ AwayOK(ops[a], shown[a])
  BY OpParts
<1>2. AllOK(ops[a].found) /\ AllOK(theirs) /\ AllOK(all) /\ AllOK({})
  BY <1>1 DEF OpOK, AllOK, Of
<1>3. ~Lists(a) => Id(a) \notin shown[a]
  BY <1>1 DEF PeerReturns, AwayOK, ForOne, Lists, Wants, Id
<1>4. /\ Saves(a, By(a), ops[a].found) /\ UNCHANGED <<deployed, been, db, shown>>
      /\ \/ Answers(a, 200, all) \/ Answers(a, 200, theirs)
         \/ ~Lists(a) /\ Answers(a, 404, {})
  BY DEF PeerReturns
<1> HIDE DEF theirs, all
<1>5. GoesWell(a, shown[a])
  BY <1>2, <1>3, <1>4, AnswersWell
<1> QED
  BY <1>2, <1>4, <1>5, SavesListWell, PlainStep

-----------------------------------------------------------------------------
(* The steps of the caches and of the services. *)

\* A step that changes caches and saves only.
LEMMA CacheStep ==
    ASSUME IInv, UNCHANGED <<deployed, been, ops, shown>>, SavesWell,
           db' = [b \in Broker |-> db'[b]], \A b \in Broker : AllOK(db'[b])
    PROVE  IInv'
<1>1. (\A a \in Asker : OpOK(ops[a]) /\ AwayOK(ops[a], shown[a]))'
  BY DEF IInv, OpOK, AwayOK, AllOK, RecOK
<1>2. (\A b \in Broker : AllOK(db[b]))' /\ (\A v \in saves : SaveOK(v))'
  BY DEF SavesWell, AllOK, SaveOK, RecOK
<1> QED
  BY <1>1, <1>2 DEF IInv

\* A save has looked for the document of its record.
LEMMA SaveFindsKeeps ==
    ASSUME IInv, NEW v \in saves, SaveFinds(v)
    PROVE  IInv'
<1>1. PICK doc : saves' = (saves \ {v}) \cup {[v EXCEPT !.doc = doc]}
  BY DEF SaveFinds
<1>2. SaveOK([v EXCEPT !.doc = doc])
  BY DEF IInv, SaveOK
<1>3. SavesWell
  BY <1>1, <1>2 DEF IInv, SavesWell
<1> QED
  BY <1>3, CacheStep DEF SaveFinds, IInv

\* It inserts one ...
LEMMA InsertKeeps ==
    ASSUME IInv, NEW v \in saves, Insert(v)
    PROVE  IInv'
<1>1. PICK k : db' = [db EXCEPT ![v.b] = @ \cup {[key |-> k, seen |-> v.from.seen]}]
  BY DEF Insert
<1>2. RecOK([key |-> k, seen |-> v.from.seen])
  BY DEF IInv, SaveOK, RecOK
<1>3. db' = [b \in Broker |-> db'[b]] /\ \A b \in Broker : AllOK(db'[b])
  BY <1>1, <1>2 DEF IInv, AllOK
<1>4. SavesWell
  BY DEF IInv, Insert, SavesWell
<1> QED
  BY <1>3, <1>4, CacheStep DEF Insert

\* ... or updates the one it found ...
LEMMA UpdateKeeps ==
    ASSUME IInv, NEW v \in saves, Update(v)
    PROVE  IInv'
<1>1. ASSUME NEW r, RecOK(r) PROVE RecOK([r EXCEPT !.seen = v.from.seen])
  BY <1>1 DEF IInv, SaveOK, RecOK
<1>2. db' = [b \in Broker |-> db'[b]] /\ \A b \in Broker : AllOK(db'[b])
  BY <1>1 DEF IInv, AllOK, Update
<1>3. SavesWell
  BY DEF IInv, Update, SavesWell
<1> QED
  BY <1>2, <1>3, CacheStep DEF Update

\* ... or fails.
LEMMA SaveFailsKeeps ==
    ASSUME IInv, NEW v \in saves, SaveFails(v)
    PROVE  IInv'
<1>1. SavesWell
  BY DEF IInv, SaveFails, SavesWell
<1> QED
  BY <1>1, CacheStep DEF SaveFails, IInv

\* The records of a service are removed.
LEMMA RemovedKeeps ==
    ASSUME IInv, NEW v, Removed(v)
    PROVE  IInv'
<1>1. db' = [b \in Broker |-> db'[b]] /\ \A b \in Broker : AllOK(db'[b])
  BY DEF IInv, AllOK, Removed
<1> QED
  BY <1>1, CacheStep, SavesNothingWell DEF Removed

\* A service moves: where it was remains a place where it was.
LEMMA MoveKeeps ==
    ASSUME IInv, NEW s \in Service, NEW X, \A x \in X : x.id = s, Move(s, X)
    PROVE  IInv'
<1>1. /\ deployed' = {x \in deployed : x.id # s} \cup X /\ been' = been \cup X
      /\ shown' = [a \in Asker |-> IF At(By(a), X) = {} THEN shown[a] \ {s} ELSE shown[a]]
      /\ UNCHANGED <<db, saves, ops>>
  BY DEF Move
<1>2. \A recs : AllOK(recs) => \A r \in recs : DOMAIN r = {"key", "seen"} /\ r.seen \in been'
  BY <1>1 DEF AllOK, RecOK
<1>3. (\A b \in Broker : AllOK(db[b]))' /\ (\A v \in saves : SaveOK(v))'
  BY <1>1 DEF IInv, AllOK, RecOK, SaveOK
<1>4. ASSUME NEW a \in Asker PROVE OpOK(ops[a])' /\ AwayOK(ops[a], shown[a])'
  <2>1. OpOK(ops[a]) /\ AwayOK(ops[a], shown[a])
    BY OpParts
  <2>2. OpOK(ops[a])'
    BY <1>1, <2>1 DEF OpOK, AllOK, RecOK
  <2>3. shown'[a] \subseteq shown[a] /\ (At(By(a), X) = {} => s \notin shown'[a])
    BY <1>1
  <2>4. \A t \in shown'[a] : \E x \in deployed' : x.id = t /\ x.at = ops[a].q.by
    BY <1>1, <2>1, <2>3 DEF AwayOK, At, By
  <2> QED
    BY <1>1, <2>1, <2>2, <2>3, <2>4 DEF AwayOK, Covered
<1> QED
  BY <1>1, <1>3, <1>4 DEF IInv

-----------------------------------------------------------------------------
\* Every step keeps the invariant ...
LEMMA NextInv ==
    ASSUME IInv, [Next]_vars
    PROVE  IInv'
<1>1. ASSUME NEW a \in Asker, Work(a) PROVE IInv'
  BY <1>1, FindByIdKeeps, CallServiceKeeps, FindLocalKeeps, FindOutsideKeeps,
     ListDeploymentsKeeps, ReadOutputsKeeps, PeerReturnsKeeps, SaveFindsKeeps, InsertKeeps,
     UpdateKeeps, RemovedKeeps, FailureKeeps DEF Work
<1>2. ASSUME NEW a \in Asker, Fails(a) PROVE IInv'
  BY <1>2, FailureKeeps, SkipOutputsKeeps, OrchestratorFailsKeeps, SaveFailsKeeps DEF Fails
<1>3. ASSUME NEW s \in Service, Move(s, {}) \/ \E x \in Places : x.id = s /\ Move(s, {x})
      PROVE  IInv'
  BY <1>3, MoveKeeps
<1>4. CASE UNCHANGED vars
  BY <1>4, CacheStep, SavesNothingWell DEF vars, IInv
<1>5. CASE Next
  BY <1>1, <1>2, <1>3, <1>5, AskKeeps DEF Next
<1> QED
  BY <1>4, <1>5

\* ... which therefore holds throughout.
LEMMA IInvAlways == Spec => []IInv
BY InitInv, NextInv, PTL DEF Spec

\* Every record in a cache, on its way there or in an answer names a place where
\* the service was, in the domain it is filed under.
THEOREM RecordsWereTrue == Spec => []NothingInvented
BY IInvAlways, IInvImplies, PTL

\* A service is reported missing only if it was not in the domain at some moment
\* of the question, or its orchestrator hid it.
THEOREM MissingServicesWereAway == Spec => []MissingWasAway
BY IInvAlways, IInvImplies, PTL

-----------------------------------------------------------------------------
(***************************************************************************)
(* Records of one slot.  A save that looked for its record and found none  *)
(* inserts one whatever happened since, and one that found it writes the   *)
(* document with that key: so both must still be what they were, unless    *)
(* another save of the slot was under way.                                 *)
(***************************************************************************)
Raced(b, slot) == <<b, slot>> \in raced

KeysDiffer == \A b \in Broker : \A r, q \in db[b] :
                  r.key \in Nat /\ (r.key = q.key => r = q)

SavesDiffer == \A v, w \in saves :
                   v # w /\ v.b = w.b /\ Slot(v.from) = Slot(w.from) => Raced(v.b, Slot(v.from))

FindsHold ==
    \A v \in saves :
        /\ v.b \in Broker /\ v.doc \in Nat \cup {Unread, NewDoc}
        /\ \A r \in db[v.b] :
               /\ v.doc = r.key => Slot(r) = Slot(v.from)
               /\ v.doc = NewDoc /\ Slot(r) = Slot(v.from) => Raced(v.b, Slot(r))

DInv == KeysDiffer /\ SavesDiffer /\ FindsHold /\ DuplicatesNeedARace

\* No saves are under way at the start.
LEMMA InitDInv == Init => DInv
BY DEF Init, DInv, KeysDiffer, SavesDiffer, FindsHold, DuplicatesNeedARace

\* Saves that begin race those under way, and each other.
LEMMA SavesListApart ==
    ASSUME DInv, NEW a, NEW b \in Broker, NEW list, Saves(a, b, list), db' = db
    PROVE  DInv'
<1> DEFINE new == [asker : {a}, b : {b}, from : list, doc : {Unread}]
<1>1. saves' = saves \cup new /\ raced \subseteq raced'
  BY DEF Saves
<1>2. ASSUME NEW v \in new, NEW w \in saves', v # w, w.b = b, Slot(v.from) = Slot(w.from)
      PROVE  Raced(b, Slot(v.from))'
  <2>1. v.from \in list /\ v.b = b
    OBVIOUS
  <2>2. CASE w \in saves
    BY <1>2, <2>1, <2>2 DEF Saves, Raced
  <2>3. CASE w \in new
    <3>1. w.from \in list \ {v.from}
      BY <1>2, <2>3
    <3> QED
      BY <1>2, <2>1, <3>1 DEF Saves, Raced
  <2> QED
    BY <1>1, <2>2, <2>3
<1>3. \A v \in new : v.b = b /\ v.doc = Unread
  OBVIOUS
<1>4. SavesDiffer'
  <2> SUFFICES ASSUME NEW v \in saves', NEW w \in saves', v # w, v.b = w.b,
                      Slot(v.from) = Slot(w.from)
               PROVE  Raced(v.b, Slot(v.from))'
    BY DEF SavesDiffer, Slot, Raced
  <2>1. CASE v \in new
    BY <1>2, <1>3, <2>1
  <2>2. CASE w \in new
    BY <1>2, <1>3, <2>2
  <2>3. CASE v \in saves /\ w \in saves
    BY <1>1, <2>3 DEF DInv, SavesDiffer, Raced
  <2> QED
    BY <1>1, <2>1, <2>2, <2>3
<1>5. FindsHold'
  BY <1>1, <1>3, DocAssumption DEF DInv, FindsHold, KeysDiffer, Raced, Slot
<1>6. KeysDiffer' /\ DuplicatesNeedARace'
  BY <1>1 DEF DInv, KeysDiffer, DuplicatesNeedARace, Slot
<1> QED
  BY <1>4, <1>5, <1>6 DEF DInv

\* A step that begins no save: fewer saves, or fewer records.
LEMMA FewerApart ==
    ASSUME DInv, saves' \subseteq saves, raced' = raced, \A b \in Broker : db'[b] \subseteq db[b]
    PROVE  DInv'
BY DEF DInv, KeysDiffer, SavesDiffer, FindsHold, DuplicatesNeedARace, Raced, Slot

\* A save that finds no document is alone for its slot, or races.
LEMMA SaveFindsApart ==
    ASSUME IInv, DInv, NEW v \in saves, SaveFinds(v)
    PROVE  DInv'
<1> DEFINE same == SameSlot(v)
<1>1. PICK doc \in IF same = {} THEN {NewDoc} ELSE {r.key : r \in First(same)} :
          saves' = (saves \ {v}) \cup {[v EXCEPT !.doc = doc]}
  BY DEF SaveFinds
<1> DEFINE w == [v EXCEPT !.doc = doc]
<1>2. w.b = v.b /\ w.from = v.from /\ w.doc = doc
  BY DEF IInv, SaveOK
<1>3. db' = db /\ raced' = raced
  BY DEF SaveFinds
<1>4. same = {r \in db[v.b] : Slot(r) = Slot(v.from)} /\ v.b \in Broker
  BY DEF SameSlot, DInv, FindsHold
<1>5. \/ doc = NewDoc /\ same = {}
      \/ \E r \in same : doc = r.key
  BY <1>1 DEF First
<1>6. /\ doc \in Nat \cup {NewDoc}
      /\ \A r \in db[v.b] : /\ doc = r.key => Slot(r) = Slot(v.from)
                            /\ doc = NewDoc => Slot(r) # Slot(v.from)
  BY <1>4, <1>5, DocAssumption DEF DInv, KeysDiffer
<1> HIDE DEF same, w
<1>7. SavesDiffer'
  <2>1. \A x \in saves' : x = w \/ (x \in saves /\ x # v)
    BY <1>1 DEF w
  <2> SUFFICES ASSUME NEW x \in saves', NEW y \in saves', x # y, x.b = y.b,
                      Slot(x.from) = Slot(y.from)
               PROVE  Raced(x.b, Slot(x.from))
    BY <1>3 DEF SavesDiffer, Slot, Raced
  <2>2. Slot(w.from) = Slot(v.from)
    BY <1>2
  <2>3. SavesDiffer
    BY DEF DInv
  <2>4. CASE x = w
    BY <1>2, <2>1, <2>2, <2>3, <2>4 DEF SavesDiffer
  <2>5. CASE y = w
    BY <1>2, <2>1, <2>2, <2>3, <2>5 DEF SavesDiffer
  <2> QED
    BY <2>1, <2>3, <2>4, <2>5 DEF SavesDiffer
<1>8. FindsHold'
  <2> SUFFICES ASSUME NEW x \in saves'
               PROVE  /\ x.b \in Broker /\ x.doc \in Nat \cup {Unread, NewDoc}
                      /\ \A r \in db[x.b] :
                             /\ x.doc = r.key => Slot(r) = Slot(x.from)
                             /\ x.doc = NewDoc /\ Slot(r) = Slot(x.from) => Raced(x.b, Slot(r))
    BY <1>3 DEF FindsHold, Slot, Raced
  <2>1. CASE x = w
    BY <1>2, <1>4, <1>6, <2>1
  <2>2. CASE x \in saves
    BY <2>2 DEF DInv, FindsHold
  <2> QED
    BY <1>1, <2>1, <2>2 DEF w
<1>9. KeysDiffer' /\ DuplicatesNeedARace'
  BY <1>3 DEF DInv, KeysDiffer, DuplicatesNeedARace, Slot
<1> QED
  BY <1>7, <1>8, <1>9 DEF DInv

\* The document it inserts is the first of its slot, unless it raced.
LEMMA InsertApart ==
    ASSUME IInv, DInv, NEW v \in saves, Insert(v)
    PROVE  DInv'
<1>1. v.b \in Broker /\ v.doc = NewDoc
  BY DEF DInv, FindsHold, Insert
<1>2. PICK k \in NewKeys(v.b) :
          db' = [db EXCEPT ![v.b] = @ \cup {[key |-> k, seen |-> v.from.seen]}]
  BY DEF Insert
<1> DEFINE n == [key |-> k, seen |-> v.from.seen]
<1>3. k \in Nat /\ (\A r \in db[v.b] : r.key < k) /\ (\A x \in saves : x.doc \in Nat => x.doc < k)
  <2> DEFINE keys == ({r.key : r \in db[v.b]} \cup {x.doc : x \in saves}) \ {Unread, NewDoc}
  <2>1. keys \subseteq Nat
    BY <1>1 DEF DInv, KeysDiffer, FindsHold
  <2>2. k \in {0} \cup {j + 1 : j \in keys} /\ \A j \in keys : j < k
    BY <1>2 DEF NewKeys
  <2>3. /\ \A r \in db[v.b] : r.key \in keys
        /\ \A x \in saves : x.doc \in Nat => x.doc \in keys
    BY <1>1, DocAssumption DEF DInv, KeysDiffer
  <2> HIDE DEF keys
  <2>4. k \in Nat
    BY <2>1, <2>2
  <2> QED
    BY <2>2, <2>3, <2>4
<1>4. /\ \A b \in Broker : db'[b] = IF b = v.b THEN db[b] \cup {n} ELSE db[b]
      /\ saves' = saves \ {v} /\ raced' = raced
  BY <1>1, <1>2 DEF IInv, Insert
<1>5. Slot(n) = Slot(v.from) /\ n.key = k
  BY DEF Slot
<1> HIDE DEF n
<1>6. KeysDiffer'
  <2> SUFFICES ASSUME NEW b \in Broker, NEW r \in db'[b], NEW q \in db'[b]
               PROVE  r.key \in Nat /\ (r.key = q.key => r = q)
    BY DEF KeysDiffer
  <2>1. \A x \in db'[b] : x \in db[b] \/ (x = n /\ b = v.b)
    BY <1>4
  <2>2. \A x \in db[b] : x.key \in Nat /\ (b = v.b => x.key # k)
    BY <1>3 DEF DInv, KeysDiffer
  <2> QED
    BY <1>3, <1>5, <2>1, <2>2 DEF DInv, KeysDiffer
<1>7. SavesDiffer'
  BY <1>4 DEF DInv, SavesDiffer, Raced, Slot
<1>8. FindsHold'
  <2> SUFFICES ASSUME NEW x \in saves'
               PROVE  /\ x.b \in Broker /\ x.doc \in Nat \cup {Unread, NewDoc}
                      /\ \A r \in db'[x.b] :
                             /\ x.doc = r.key => Slot(r) = Slot(x.from)
                             /\ x.doc = NewDoc /\ Slot(r) = Slot(x.from) => Raced(x.b, Slot(r))
    BY <1>4 DEF FindsHold, Slot, Raced
  <2>1. x \in saves /\ x # v
    BY <1>4
  <2>2. /\ x.b \in Broker /\ x.doc \in Nat \cup {Unread, NewDoc}
        /\ \A r \in db[x.b] :
               /\ x.doc = r.key => Slot(r) = Slot(x.from)
               /\ x.doc = NewDoc /\ Slot(r) = Slot(x.from) => Raced(x.b, Slot(r))
    BY <2>1 DEF DInv, FindsHold
  <2>3. ASSUME x.b = v.b
        PROVE  /\ x.doc # n.key
               /\ Slot(n) = Slot(x.from) => Raced(x.b, Slot(n))
    BY <1>3, <1>5, <2>1, <2>3 DEF DInv, SavesDiffer
  <2> QED
    BY <1>4, <2>2, <2>3
<1>9. DuplicatesNeedARace'
  <2> SUFFICES ASSUME NEW b \in Broker, NEW r \in db'[b], NEW q \in db'[b], r # q,
                      Slot(r) = Slot(q)
               PROVE  Raced(b, Slot(r))
    BY <1>4 DEF DuplicatesNeedARace, Slot, Raced
  <2>1. \A x \in db[b] : b = v.b /\ Slot(x) = Slot(n) => Raced(b, Slot(n))
    BY <1>1, <1>5 DEF DInv, FindsHold
  <2>2. \A x \in db'[b] : x \in db[b] \/ (x = n /\ b = v.b)
    BY <1>4
  <2>3. CASE r \in db[b] /\ q \in db[b]
    BY <2>3 DEF DInv, DuplicatesNeedARace, Raced
  <2>4. CASE r \notin db[b]
    BY <2>1, <2>2, <2>4
  <2>5. CASE q \notin db[b]
    BY <2>1, <2>2, <2>5
  <2> QED
    BY <2>3, <2>4, <2>5
<1> QED
  BY <1>6, <1>7, <1>8, <1>9 DEF DInv

\* An update leaves every document its slot.
LEMMA UpdateApart ==
    ASSUME IInv, DInv, NEW v \in saves, Update(v)
    PROVE  DInv'
<1> DEFINE Written(r) == IF r.key = v.doc THEN [r EXCEPT !.seen = v.from.seen] ELSE r
<1>1. v.b \in Broker
  BY DEF DInv, FindsHold
<1>2. /\ \A b \in Broker : db'[b] = IF b = v.b THEN {Written(r) : r \in db[b]} ELSE db[b]
      /\ saves' = saves \ {v} /\ raced' = raced
  BY <1>1 DEF IInv, Update
<1>2a. \A x \in db'[v.b] : \E r \in db[v.b] : x = Written(r)
  <2>1. db'[v.b] = {Written(r) : r \in db[v.b]}
    BY <1>1, <1>2
  <2> HIDE DEF Written
  <2> QED
    BY <2>1, Zenon
<1>3. ASSUME NEW r \in db[v.b] PROVE Written(r).key = r.key /\ Slot(Written(r)) = Slot(r)
  <2>1. DOMAIN r = {"key", "seen"}
    BY <1>1 DEF IInv, AllOK, RecOK
  <2>2. r.key = v.doc => Slot(r) = Slot(v.from)
    BY DEF DInv, FindsHold
  <2> QED
    BY <2>1, <2>2 DEF Slot
<1> HIDE DEF Written
\* each record was there, with its key and its slot
<1>4. ASSUME NEW b \in Broker
      PROVE  \A x \in db'[b] : \E r \in db[b] :
                 /\ x.key = r.key /\ Slot(x) = Slot(r)
                 /\ x = IF b = v.b THEN Written(r) ELSE r
  <2>1. CASE b = v.b
    <3> SUFFICES ASSUME NEW x \in db'[b]
                 PROVE  \E r \in db[b] : /\ x.key = r.key /\ Slot(x) = Slot(r)
                                         /\ x = Written(r)
      BY <2>1
    <3>1. PICK r \in db[b] : x = Written(r)
      BY <1>2a, <2>1
    <3> QED
      BY <1>3, <2>1, <3>1
  <2>2. CASE b # v.b
    BY <1>2, <2>2
  <2> QED
    BY <2>1, <2>2
<1>5. KeysDiffer'
  BY <1>4 DEF DInv, KeysDiffer
<1>6. SavesDiffer'
  BY <1>2 DEF DInv, SavesDiffer, Raced, Slot
<1>7. FindsHold'
  <2> SUFFICES ASSUME NEW x \in saves'
               PROVE  /\ x.b \in Broker /\ x.doc \in Nat \cup {Unread, NewDoc}
                      /\ \A r \in db'[x.b] :
                             /\ x.doc = r.key => Slot(r) = Slot(x.from)
                             /\ x.doc = NewDoc /\ Slot(r) = Slot(x.from) => Raced(x.b, Slot(r))
    BY <1>2 DEF FindsHold, Slot, Raced
  <2> QED
    BY <1>2, <1>4 DEF DInv, FindsHold
<1>8. DuplicatesNeedARace'
  <2> SUFFICES ASSUME NEW b \in Broker, NEW r \in db'[b], NEW q \in db'[b], r # q,
                      Slot(r) = Slot(q)
               PROVE  Raced(b, Slot(r))
    BY <1>2 DEF DuplicatesNeedARace, Slot, Raced
  <2> QED
    BY <1>4 DEF DInv, DuplicatesNeedARace, Raced
<1> QED
  BY <1>5, <1>6, <1>7, <1>8 DEF DInv

\* A removal only takes documents away.
LEMMA RemovedApart ==
    ASSUME IInv, DInv, NEW v, Removed(v)
    PROVE  DInv'
<1>1. \A b \in Broker : db'[b] \subseteq db[b]
  BY DEF IInv, Removed
<1> QED
  BY <1>1, FewerApart DEF Removed

\* What the continuations do to the saves.
LEMMA ScansApart ==
    ASSUME IInv, DInv, NEW a \in Asker, NEW left, NEW list, Scans(a, left, list), db' = db
    PROVE  DInv'
<1>1. By(a) \in Broker /\ ops[a].at \in Broker
  BY DEF IInv, OpOK, By
<1>2. \/ saves' = saves /\ raced' = raced
      \/ Saves(a, ops[a].at, list)
      \/ Saves(a, By(a), Of(Id(a), list))
  BY DEF Scans, Scanned, SavesNothing
<1>3. CASE saves' = saves /\ raced' = raced
  BY <1>3, FewerApart
<1>4. CASE Saves(a, ops[a].at, list)
  BY <1>1, <1>4, SavesListApart
<1>5. CASE Saves(a, By(a), Of(Id(a), list))
  BY <1>1, <1>5, SavesListApart
<1> QED
  BY <1>2, <1>3, <1>4, <1>5

\* The list of the peer starts saves, which race with those of the same slots.
LEMMA PeerReturnsApart ==
    ASSUME IInv, DInv, NEW a \in Asker, PeerReturns(a)
    PROVE  DInv'
<1>1. By(a) \in Broker
  BY DEF IInv, OpOK, By
<1> QED
  BY <1>1, SavesListApart DEF PeerReturns

\* Every step keeps documents apart, but for races.
LEMMA NextDInv ==
    ASSUME IInv, DInv, [Next]_vars
    PROVE  DInv'
<1>1. ASSUME UNCHANGED <<db, saves, raced>> PROVE DInv'
  BY <1>1, FewerApart
<1>2. ASSUME NEW a \in Asker, Work(a) PROVE DInv'
  <2>1. CASE \/ FindById(a) \/ CallService(a) \/ FindLocal(a) \/ FindOutside(a)
             \/ PeerTimesOut(a)
    BY <1>1, <2>1 DEF FindById, CallService, FindLocal, FindOutside, PeerTimesOut
  <2>2. CASE ListDeployments(a) \/ \E d \in Deployment : ReadOutputs(a, d)
    BY <2>2, ScansApart DEF ListDeployments, ReadOutputs
  <2>3. CASE PeerReturns(a)
    BY <2>3, PeerReturnsApart
  <2>4. CASE \E v \in saves : v.asker = a /\ (SaveFinds(v) \/ Insert(v) \/ Update(v))
    BY <2>4, SaveFindsApart, InsertApart, UpdateApart
  <2>5. CASE \E v \in removes : v.asker = a /\ Removed(v)
    BY <2>5, RemovedApart
  <2> QED
    BY <1>2, <2>1, <2>2, <2>3, <2>4, <2>5 DEF Work
<1>3. ASSUME NEW a \in Asker, Fails(a) PROVE DInv'
  <2>1. CASE \/ DatabaseFails(a) \/ OutputsMissing(a) \/ PeerUnreachable(a)
             \/ \E status \in {404, 500} : OrchestratorFails(a, status)
    BY <1>1, <2>1 DEF DatabaseFails, OutputsMissing, PeerUnreachable, OrchestratorFails
  <2>2. CASE \E d \in Deployment : SkipOutputs(a, d)
    BY <2>2, ScansApart DEF SkipOutputs
  <2>3. CASE \E v \in saves : v.asker = a /\ SaveFails(v)
    BY <2>3, FewerApart DEF SaveFails
  <2> QED
    BY <1>3, <2>1, <2>2, <2>3 DEF Fails
<1>4. ASSUME NEW a \in Asker, NEW q, Ask(a, q) PROVE DInv'
  BY <1>1, <1>4 DEF Ask
<1>5. ASSUME NEW s, NEW X, Move(s, X) PROVE DInv'
  BY <1>1, <1>5 DEF Move
<1>6. CASE UNCHANGED vars
  BY <1>1, <1>6 DEF vars
<1> QED
  BY <1>2, <1>3, <1>4, <1>5, <1>6 DEF Next

\* Two records of one service and source are made only by saves that overlapped,
\* however many lookups, removals and updates went on in between.
THEOREM DuplicatesAreRaces == Spec => []DuplicatesNeedARace
<1>1. DInv => DuplicatesNeedARace
  BY DEF DInv
<1> QED
  BY InitDInv, NextDInv, IInvAlways, <1>1, PTL DEF Spec
-----------------------------------------------------------------------------
(* Types: every question, list and call of saveOrUpdate is what it says. *)

\* what the steps of a question may change
OpsTyped == ops' \in [Asker -> Op]
SavesTyped == saves' \subseteq Save /\ raced' \subseteq Slots

\* The parts of a question.
LEMMA OpTypes ==
    ASSUME TypeOK, NEW a \in Asker
    PROVE  /\ ops[a] \in Op /\ ops[a].q \in Question /\ By(a) \in Broker /\ Id(a) \in Service
           /\ ops[a].at \in Broker /\ Peer[By(a)] \in Broker
           /\ ops[a].left \in SUBSET Deployment
           /\ ops[a].found \in SUBSET Record /\ ops[a].mine \in SUBSET Record
BY PeerAssumption DEF TypeOK, Op, Question, By, Id

\* A question goes on.
LEMMA GoesTyped ==
    ASSUME TypeOK, NEW a \in Asker, NEW o \in Op, Goes(a, o)
    PROVE  OpsTyped
BY DEF TypeOK, Goes, OpsTyped

\* It waits for something else.
LEMMA WaitsTyped ==
    ASSUME TypeOK, NEW a \in Asker, NEW stage \in Stage, Waits(a, stage)
    PROVE  OpsTyped
<1>1. [ops[a] EXCEPT !.stage = stage] \in Op
  BY OpTypes DEF Op
<1> QED
  BY <1>1, GoesTyped DEF Waits

\* Entries of a list of places.
LEMMA ListedTyped ==
    ASSUME NEW X \in SUBSET Sighting
    PROVE  Listed(X) \subseteq Record
BY DEF Listed, Record

\* It is answered.
LEMMA AnswersTyped ==
    ASSUME TypeOK, NEW a \in Asker, NEW code \in {200, 404, 500, 503},
           NEW list \in SUBSET Record, Answers(a, code, list)
    PROVE  OpsTyped
<1> DEFINE found == Listed({r.seen : r \in list})
           o == [ops[a] EXCEPT !.stage = "done", !.at = By(a), !.left = {},
                               !.found = found, !.mine = {}, !.code = code]
<1>1. found \subseteq Record
  BY ListedTyped DEF Record
<1> HIDE DEF found
<1>2. ops[a] \in Op /\ By(a) \in Broker
  BY OpTypes
<1>3. "done" \in Stage /\ {} \in SUBSET Deployment /\ found \in SUBSET Record /\ {} \in SUBSET Record
  BY <1>1 DEF Stage
<1>4. code \in {0, 200, 404, 500, 503}
  OBVIOUS
<1>5. o \in Op
  BY <1>2, <1>3, <1>4, ZenonT(120) DEF Op
<1> QED
  BY <1>5, GoesTyped DEF Answers, found

\* The peer is asked.
LEMMA AsksPeerTyped ==
    ASSUME TypeOK, NEW a \in Asker, AsksPeer(a)
    PROVE  OpsTyped
<1>1. ops[a] \in Op /\ Peer[By(a)] \in Broker
  BY OpTypes
<1>2. "local" \in Stage /\ {} \in SUBSET Deployment /\ {} \in SUBSET Record
  BY DEF Stage
<1>3. [ops[a] EXCEPT !.stage = "local", !.at = Peer[By(a)], !.left = {}, !.found = {}] \in Op
  BY <1>1, <1>2, ZenonT(60) DEF Op
<1> QED
  BY <1>3, GoesTyped DEF AsksPeer

\* The entries of a list are saved.
LEMMA SavesListTyped ==
    ASSUME TypeOK, NEW a \in Asker, NEW b \in Broker, NEW list \in SUBSET Record,
           Saves(a, b, list)
    PROVE  SavesTyped
<1>1. [asker : {a}, b : {b}, from : list, doc : {Unread}] \subseteq Save
  BY DEF Save
<1>2. \A r \in list : <<b, Slot(r)>> \in Slots
  BY DEF Slot, Slots, Record, Sighting
<1> QED
  BY <1>1, <1>2 DEF Saves, SavesTyped, TypeOK

\* The domain's list is there.
LEMMA ListEndsTyped ==
    ASSUME TypeOK, NEW a \in Asker, NEW list \in SUBSET Record, ListEnds(a, list)
    PROVE  OpsTyped
<1>1. /\ ops[a] \in Op
      /\ "returned" \in Stage /\ "outside" \in Stage
      /\ {} \in SUBSET Deployment /\ {} \in SUBSET Record
  BY OpTypes DEF Stage
<1>2. [ops[a] EXCEPT !.stage = "returned", !.left = {}, !.found = list] \in Op
  BY <1>1, ZenonT(30) DEF Op
<1>3. [ops[a] EXCEPT !.stage = "outside", !.left = {}, !.found = {}, !.mine = list] \in Op
  BY <1>1, ZenonT(60) DEF Op
<1> QED
  BY <1>2, <1>3, GoesTyped, AnswersTyped DEF ListEnds

\* The connector has read some deployments, or all.
LEMMA ScansTyped ==
    ASSUME TypeOK, NEW a \in Asker, NEW left \in SUBSET Deployment,
           NEW list \in SUBSET Record, Scans(a, left, list)
    PROVE  OpsTyped /\ SavesTyped
<1>1. SavesNothing => SavesTyped
  BY DEF SavesNothing, SavesTyped, TypeOK
<1>2. CASE left = {}
  <2>1. Scanned(a, list)
    BY <1>2 DEF Scans
  <2>2. Of(Id(a), list) \in SUBSET Record
    BY DEF Of
  <2> QED
    BY <1>1, <2>1, <2>2, OpTypes, ListEndsTyped, SavesListTyped, AnswersTyped, AsksPeerTyped
       DEF Scanned
<1>3. CASE left # {}
  <2>1. ops[a] \in Op /\ "outputs" \in Stage
    BY OpTypes DEF Stage
  <2>2. [ops[a] EXCEPT !.stage = "outputs", !.left = left, !.found = list] \in Op
    BY <2>1, ZenonT(30) DEF Op
  <2> QED
    BY <1>1, <1>3, <2>2, GoesTyped DEF Scans
<1> QED
  BY <1>2, <1>3

\* The histories of a question keep their types.
HistoryTyped == there' \in [Asker -> SUBSET Service] /\ shown' \in [Asker -> SUBSET Service]

\* The parts of a step that most steps of a question have in common.
LEMMA QuestionTyped ==
    ASSUME TypeOK, OpsTyped, SavesTyped, UNCHANGED <<deployed, been, db, moves>>,
           removes' \subseteq Remove, HistoryTyped,
           looks' = looks \/ (looks < MaxLooks /\ looks' = looks + 1),
           faults' = faults \/ Fault
    PROVE  TypeOK'
BY BoundAssumption DEF TypeOK, OpsTyped, SavesTyped, HistoryTyped, Fault

\* A question is asked.
LEMMA AskTyped ==
    ASSUME TypeOK, NEW a \in Asker, NEW q \in Questions[a], Ask(a, q)
    PROVE  TypeOK'
<1>1. q \in Question
  BY QuestionAssumption
<1>2. \A stage \in Stage : Asked(q, stage) \in Op
  BY <1>1 DEF Asked, Op, Question
<1>3. OpsTyped
  <2>1. \E stage \in {"byId", "outside", "local"} : Goes(a, Asked(q, stage))
    BY <1>1 DEF Ask, Question
  <2> QED
    BY <1>2, <2>1, GoesTyped DEF Stage
<1>4. {x.id : x \in At(q.by, deployed)} \subseteq Service
  BY DEF At, TypeOK, Sighting
<1>5. HistoryTyped
  BY <1>4 DEF Ask, TypeOK, HistoryTyped
<1>6. SavesTyped /\ removes' \subseteq Remove
  BY DEF Ask, SavesTyped, TypeOK
<1> QED
  BY <1>3, <1>5, <1>6, QuestionTyped DEF Ask

\* The database answers a question.
LEMMA FindTyped ==
    ASSUME TypeOK, NEW a \in Asker,
           FindById(a) \/ CallService(a) \/ FindLocal(a) \/ FindOutside(a)
    PROVE  TypeOK'
<1>1. /\ UNCHANGED <<deployed, been, db, saves, removes, there, shown, raced,
                  moves, looks, faults>>
      /\ SavesTyped /\ removes' \subseteq Remove /\ HistoryTyped
  BY DEF FindById, CallService, FindLocal, FindOutside, SavesTyped, HistoryTyped, TypeOK
<1>2. db[By(a)] \subseteq Record /\ db[ops[a].at] \subseteq Record
  BY OpTypes DEF TypeOK
<1>3. OpsTyped
  <2>1. CASE FindById(a)
    <3>1. First(Of(Id(a), db[By(a)])) \in SUBSET Record
      BY <1>2 DEF First, Of
    <3>2. ops[a] \in Op /\ "calling" \in Stage
      BY OpTypes DEF Stage
    <3>3. [ops[a] EXCEPT !.stage = "calling", !.found = First(Of(Id(a), db[By(a)]))] \in Op
      BY <3>1, <3>2, ZenonT(30) DEF Op
    <3> QED
      BY <2>1, <3>1, <3>3, GoesTyped, WaitsTyped, AnswersTyped DEF FindById, Stage
  <2>2. CASE CallService(a)
    <3>1. ops[a] \in Op /\ "deployments" \in Stage /\ {} \in SUBSET Record
      BY OpTypes DEF Stage
    <3>2. [ops[a] EXCEPT !.stage = "deployments", !.found = {}] \in Op
      BY <3>1, ZenonT(30) DEF Op
    <3> QED
      BY <2>2, <3>2, OpTypes, GoesTyped, AnswersTyped DEF CallService
  <2>3. CASE FindLocal(a)
    <3>1. {r \in db[ops[a].at] : r.seen.at = ops[a].at} \in SUBSET Record
      BY <1>2
    <3> QED
      BY <2>3, <3>1, WaitsTyped, ListEndsTyped DEF FindLocal, Stage
  <2>4. CASE FindOutside(a)
    <3>1. ops[a].mine \cup {r \in db[By(a)] : r.seen.at # By(a)} \in SUBSET Record
      BY <1>2, OpTypes
    <3> QED
      BY <2>4, <3>1, AsksPeerTyped, AnswersTyped DEF FindOutside
  <2> QED
    BY <2>1, <2>2, <2>3, <2>4 DEF FindById, CallService, FindLocal, FindOutside
<1> QED
  BY <1>1, <1>3, QuestionTyped

\* It does not, or the peer or a connector does not.
LEMMA FailureTyped ==
    ASSUME TypeOK, NEW a \in Asker,
           \/ DatabaseFails(a) \/ OutputsMissing(a)
           \/ PeerUnreachable(a) \/ PeerTimesOut(a)
    PROVE  TypeOK'
<1>1. /\ UNCHANGED <<deployed, been, db, saves, removes, there, shown, raced, moves, looks>>
      /\ faults' = faults \/ Fault
      /\ SavesTyped /\ removes' \subseteq Remove /\ HistoryTyped
  BY DEF DatabaseFails, OutputsMissing, PeerUnreachable, PeerTimesOut, SavesTyped,
         HistoryTyped, TypeOK
<1>2. OpsTyped
  BY AnswersTyped, WaitsTyped, AsksPeerTyped
     DEF DatabaseFails, OutputsMissing, PeerUnreachable, PeerTimesOut, Stage
<1> QED
  BY <1>1, <1>2, QuestionTyped

\* The orchestrator lists its deployments and the outputs of one.
LEMMA ReadTyped ==
    ASSUME TypeOK, NEW a \in Asker,
           \/ ListDeployments(a)
           \/ \E d \in Deployment : ReadOutputs(a, d) \/ SkipOutputs(a, d)
    PROVE  TypeOK'
<1>1. CASE ListDeployments(a)
  <2>1. {DeploymentOf[x.id] : x \in At(ops[a].at, deployed)} \in SUBSET Deployment
    BY DeploymentAssumption DEF At, TypeOK, Sighting
  <2>2. OpsTyped /\ SavesTyped
    BY <1>1, <2>1, ScansTyped DEF ListDeployments
  <2> QED
    BY <1>1, <2>2, QuestionTyped DEF ListDeployments, HistoryTyped, TypeOK
<1>2. ASSUME NEW d \in Deployment, ReadOutputs(a, d)
      PROVE  TypeOK'
  <2>1. Listed(Outputs(a, d)) \subseteq Record
    BY ListedTyped DEF Outputs, At, TypeOK
  <2>2. /\ ops[a].left \ {d} \in SUBSET Deployment
        /\ ops[a].found \cup Listed(Outputs(a, d)) \in SUBSET Record
    BY <2>1, OpTypes
  <2>3. OpsTyped /\ SavesTyped
    BY <1>2, <2>2, ScansTyped DEF ReadOutputs
  <2> QED
    BY <1>2, <2>3, QuestionTyped DEF ReadOutputs, HistoryTyped, TypeOK
<1>3. ASSUME NEW d \in Deployment, SkipOutputs(a, d)
      PROVE  TypeOK'
  <2>1. ops[a].left \ {d} \in SUBSET Deployment /\ ops[a].found \in SUBSET Record
    BY OpTypes
  <2>2. OpsTyped /\ SavesTyped
    BY <1>3, <2>1, ScansTyped DEF SkipOutputs
  <2>3. HistoryTyped
    BY <1>3 DEF SkipOutputs, HistoryTyped, TypeOK
  <2> QED
    BY <1>3, <2>2, <2>3, QuestionTyped DEF SkipOutputs, HistoryTyped, TypeOK
<1> QED
  BY <1>1, <1>2, <1>3

\* A removal starts.
LEMMA ForgetsTyped ==
    ASSUME TypeOK, NEW a \in Asker, removes' = removes \/ Forgets(a)
    PROVE  removes' \subseteq Remove
BY OpTypes DEF TypeOK, Forgets, Remove

\* The orchestrator fails.
LEMMA OrchestratorTyped ==
    ASSUME TypeOK, NEW a \in Asker, NEW status \in {404, 500}, OrchestratorFails(a, status)
    PROVE  TypeOK'
<1>1. OpsTyped
  BY AnswersTyped, AsksPeerTyped DEF OrchestratorFails
<1>2. removes' \subseteq Remove
  BY ForgetsTyped DEF OrchestratorFails
<1>3. HistoryTyped /\ SavesTyped
  BY DEF OrchestratorFails, SavesTyped, HistoryTyped, TypeOK
<1> QED
  BY <1>1, <1>2, <1>3, QuestionTyped DEF OrchestratorFails

\* The peer's list arrives.
LEMMA PeerReturnsTyped ==
    ASSUME TypeOK, NEW a \in Asker, PeerReturns(a)
    PROVE  TypeOK'
<1>1. /\ ops[a].found \in SUBSET Record /\ Of(Id(a), ops[a].found) \in SUBSET Record
      /\ ops[a].mine \cup ops[a].found \in SUBSET Record
  BY OpTypes DEF Of
<1>2. SavesTyped
  BY <1>1, OpTypes, SavesListTyped DEF PeerReturns
<1>3. OpsTyped
  BY <1>1, AnswersTyped DEF PeerReturns
<1>4. removes' \subseteq Remove
  BY ForgetsTyped DEF PeerReturns
<1> QED
  BY <1>2, <1>3, <1>4, QuestionTyped DEF PeerReturns, HistoryTyped, TypeOK

\* A save finds the document, writes it or fails.
LEMMA SaveTyped ==
    ASSUME TypeOK, NEW v \in saves, SaveFinds(v) \/ Insert(v) \/ Update(v) \/ SaveFails(v)
    PROVE  TypeOK'
<1>1. /\ v \in Save /\ v.b \in Broker /\ v.from \in Record /\ v.from.seen \in Sighting
      /\ db[v.b] \subseteq Record
  BY DEF TypeOK, Save, Record
<1>2. CASE SaveFinds(v)
  <2>1. PICK doc \in Nat \cup {NewDoc} : saves' = (saves \ {v}) \cup {[v EXCEPT !.doc = doc]}
    BY <1>1, <1>2 DEF SaveFinds, SameSlot, First, Record
  <2>2. [v EXCEPT !.doc = doc] \in Save
    BY <1>1 DEF Save
  <2>3. saves' \subseteq Save
    BY <2>1, <2>2 DEF TypeOK
  <2> QED
    BY <1>2, <2>3 DEF SaveFinds, TypeOK
<1>3. CASE Insert(v)
  <2>1. PICK k \in NewKeys(v.b) :
            db' = [db EXCEPT ![v.b] = @ \cup {[key |-> k, seen |-> v.from.seen]}]
    BY <1>3 DEF Insert
  <2>2. \A r \in db[v.b] : r.key \in Nat
    BY <1>1 DEF Record
  <2>3. \A w \in saves : w.doc \in Nat \cup {Unread, NewDoc}
    BY DEF TypeOK, Save
  <2>4. k \in Nat
    BY <2>2, <2>3 DEF NewKeys
  <2>5. db' \in [Broker -> SUBSET Record]
    BY <1>1, <2>1, <2>4 DEF TypeOK, Record
  <2> QED
    BY <1>3, <2>5 DEF Insert, TypeOK
<1>4. CASE Update(v)
  <2>1. \A r \in db[v.b] : [r EXCEPT !.seen = v.from.seen] \in Record
    BY <1>1 DEF Record
  <2>2. {IF r.key = v.doc THEN [r EXCEPT !.seen = v.from.seen] ELSE r : r \in db[v.b]}
            \subseteq Record
    BY <1>1, <2>1
  <2>3. db' \in [Broker -> SUBSET Record]
    BY <1>4, <2>2 DEF Update, TypeOK
  <2> QED
    BY <1>4, <2>3 DEF Update, TypeOK
<1>5. CASE SaveFails(v)
  BY <1>5, BoundAssumption DEF SaveFails, Fault, TypeOK
<1> QED
  BY <1>2, <1>3, <1>4, <1>5

\* Records are removed.
LEMMA RemovedTyped ==
    ASSUME TypeOK, NEW v \in removes, Removed(v)
    PROVE  TypeOK'
<1>1. v.b \in Broker /\ {r \in db[v.b] : r.seen.id # v.id} \in SUBSET Record
  BY DEF TypeOK, Remove
<1>2. db' \in [Broker -> SUBSET Record]
  BY <1>1 DEF Removed, TypeOK
<1> QED
  BY <1>2 DEF Removed, TypeOK

\* Services are deployed and moved.
LEMMA MoveTyped ==
    ASSUME TypeOK, NEW s \in Service, NEW X \in SUBSET Places, Move(s, X)
    PROVE  TypeOK'
<1>1. X \subseteq Sighting
  BY PlacesAssumption
<1>2. HistoryTyped
  BY DEF Move, HistoryTyped, TypeOK
<1> QED
  BY <1>1, <1>2, BoundAssumption DEF Move, HistoryTyped, TypeOK

\* At the start every question is one that may be asked.
LEMMA InitTyped == Init => TypeOK
<1> SUFFICES ASSUME Init PROVE TypeOK
  OBVIOUS
<1>1. ASSUME NEW a \in Asker PROVE (CHOOSE q \in Questions[a] : TRUE) \in Question
  BY QuestionAssumption
<1>2. ASSUME NEW a \in Asker
      PROVE  Asked(CHOOSE q \in Questions[a] : TRUE, "idle") \in Op
  <2> DEFINE q == CHOOSE p \in Questions[a] : TRUE
  <2>1. q \in Question
    BY <1>1
  <2> HIDE DEF q
  <2>2. Asked(q, "idle") \in Op
    BY <2>1 DEF Asked, Op, Question, Stage
  <2> QED
    BY <2>2 DEF q
<1>3. ops \in [Asker -> Op]
  BY <1>2 DEF Init
<1>4. deployed \subseteq Sighting
  BY PlacesAssumption DEF Init
<1> QED
  BY <1>3, <1>4, BoundAssumption DEF Init, TypeOK

\* Every step keeps the types.
LEMMA NextTyped == TypeOK /\ [Next]_vars => TypeOK'
<1> SUFFICES ASSUME TypeOK, [Next]_vars PROVE TypeOK'
  OBVIOUS
<1>1. ASSUME NEW a \in Asker, Work(a) PROVE TypeOK'
  BY <1>1, FindTyped, ReadTyped, PeerReturnsTyped, FailureTyped, SaveTyped, RemovedTyped
     DEF Work
<1>2. ASSUME NEW a \in Asker, Fails(a) PROVE TypeOK'
  BY <1>2, FailureTyped, ReadTyped, OrchestratorTyped, SaveTyped DEF Fails
<1>3. ASSUME NEW s \in Service, NEW X \in SUBSET Places, Move(s, X) PROVE TypeOK'
  BY <1>3, MoveTyped
<1>4. CASE UNCHANGED vars
  BY <1>4 DEF vars, TypeOK
<1> QED
  BY <1>1, <1>2, <1>3, <1>4, AskTyped DEF Next

\* Whatever is asked, saved, removed and moved, and in whichever order it
\* completes: caches hold documents with their own keys, and each question waits
\* at a place that its continuation knows.
THEOREM ServicesTyped == Spec => []TypeOK
BY InitTyped, NextTyped, PTL DEF Spec
=============================================================================

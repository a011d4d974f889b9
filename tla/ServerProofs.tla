---------------------------- MODULE ServerProofs ----------------------------
(***************************************************************************)
(* For any number of connections, calls and faults: only who is authorized *)
(* is served, a request is forgotten only after its result was given, and  *)
(* only then is anybody told that it does not exist, and the calls of the  *)
(* server keep the promise of RemoteCall.                                  *)
(***************************************************************************)
EXTENDS Server, RestCallerProofs

(***************************************************************************)
(* What holds of a connection by itself.  One that was not answered has no *)
(* code yet, so that a 401 never becomes another answer, and one that      *)
(* waits for the validation of its token may be let in by it.              *)
(***************************************************************************)
ConnOK(k) ==
    /\ k \in Connection
    /\ k.stage = "validating" => AdmitsToken(k.ask.op)
    /\ k.stage \notin {"idle", "validating"} => Authorized(k.ask) \/ k.code = 401
    /\ k.stage # "answered" => k.code = 0 /\ k.given = FALSE
    /\ k.stage = "watched" => k.id \in Conn

(***************************************************************************)
(* What holds of it and the store: the request it knows was saved, and a   *)
(* 404 for it was preceded by its result.                                  *)
(***************************************************************************)
Informed(k) ==
    k.id # Nobody => docs[k.id] # "none" /\ (k.code = 404 => Given(k.id))

IInv == /\ CallInv
        /\ conns \in [Conn -> Connection]
        /\ docs \in [Conn -> DocState]
        /\ deleting \subseteq Conn
        /\ \A c \in Conn : ConnOK(conns[c]) /\ Informed(conns[c])
        /\ ForgottenIfGiven

\* The invariant has what the run checks.
LEMMA IInvImplies == IInv => TypeOK /\ OnlyAuthorized /\ NotFoundMeansGiven /\ ForgottenIfGiven
BY DEF IInv, CallInv, ConnOK, Informed, TypeOK, OnlyAuthorized, NotFoundMeansGiven, Asked

\* Nobody is connected at the start.
LEMMA InitInv == Init => IInv
<1> SUFFICES ASSUME Init PROVE IInv
  OBVIOUS
<1>1. CallInv
  BY CallInitInv DEF Init
<1>2. (CHOOSE ask \in Asks : TRUE) \in Ask
  BY AskAssumption
<1>3. conns \in [Conn -> Connection]
  <2>1. "idle" \in Stage /\ 0 \in Status
    BY DEF Stage, Status
  <2> QED
    BY <1>2, <2>1 DEF Init, Connection
<1>4. ASSUME NEW c \in Conn PROVE ConnOK(conns[c]) /\ Informed(conns[c])
  BY <1>3 DEF Init, ConnOK, Informed
<1> QED
  BY <1>1, <1>3, <1>4 DEF Init, IInv, ForgottenIfGiven, DocState

-----------------------------------------------------------------------------
\* Documents that were saved are not unsaved.
NothingUnsaved == \A r \in Conn : docs[r] # "none" => docs'[r] # "none"

\* A step of one connection keeps what holds of the connections, and nobody who
\* was given a result loses it, if the connection was not answered before.
LEMMA OneConn ==
    ASSUME IInv, NEW c \in Conn, ~At(c, "answered"), NEW k, Becomes(c, k), ConnOK(k),
           k.id # Nobody => docs'[k.id] # "none" /\ (k.code = 404 => Given(k.id)),
           NothingUnsaved
    PROVE  /\ conns' \in [Conn -> Connection]
           /\ (\A y \in Conn : ConnOK(conns[y]) /\ Informed(conns[y]))'
           /\ \A r \in Conn : Given(r) => Given(r)'
           /\ conns'[c] = k
<1>1. conns' = [conns EXCEPT ![c] = k] /\ conns \in [Conn -> Connection] /\ k \in Connection
  BY DEF IInv, Becomes, ConnOK
<1>2. conns'[c] = k /\ \A y \in Conn \ {c} : conns'[y] = conns[y]
  BY <1>1
<1>3. conns[c].given = FALSE
  BY DEF IInv, ConnOK, At
<1>4. \A r \in Conn : Given(r) => Given(r)'
  BY <1>2, <1>3 DEF Given
<1>5. ASSUME NEW y \in Conn PROVE ConnOK(conns'[y]) /\ Informed(conns[y])'
  <2>1. CASE y = c
    <3>1. k.id \in Conn \cup {Nobody}
      BY <1>1 DEF Connection
    <3> QED
      BY <1>2, <1>4, <2>1, <3>1 DEF Informed
  <2>2. CASE y # c
    <3>1. conns[y].id \in Conn \cup {Nobody} /\ Informed(conns[y]) /\ ConnOK(conns[y])
      BY <1>1 DEF Connection, IInv
    <3> QED
      BY <1>2, <1>4, <2>2, <3>1 DEF Informed, NothingUnsaved
  <2> QED
    BY <2>1, <2>2
<1> QED
  BY <1>1, <1>2, <1>4, <1>5 DEF ConnOK

\* When no call changes, the calls are as they should be.
LEMMA NoCallKeeps ==
    ASSUME CallInv, NoCall, faults' \in Nat
    PROVE  CallInv'
BY DEF CallInv, CallTypeOK, Accounted, Awaited, NoCall

\* A step that leaves a connection in another state, and may start to delete the
\* request whose result it gave.
LEMMA ConnStep ==
    ASSUME IInv, NEW c \in Conn, ~At(c, "answered"), NEW k, Becomes(c, k),
           ConnOK(k), Informed(k), CallInv', UNCHANGED docs,
           deleting' = deleting \/ (/\ deleting' = deleting \cup {k.id}
                                    /\ k.given /\ k.id \in Conn)
    PROVE  IInv'
<1>1. NothingUnsaved
  BY DEF NothingUnsaved
<1>2. /\ conns' \in [Conn -> Connection]
      /\ (\A y \in Conn : ConnOK(conns[y]) /\ Informed(conns[y]))'
      /\ \A r \in Conn : Given(r) => Given(r)'
      /\ conns'[c] = k
  BY <1>1, OneConn DEF Informed
<1>3. ForgottenIfGiven'
  <2>1. k.given => Given(k.id)'
    BY <1>2 DEF Given
  <2> QED
    BY <1>2, <2>1 DEF IInv, ForgottenIfGiven
<1> QED
  BY <1>2, <1>3 DEF IInv

\* Faults are counted.
LEMMA FaultsStayNat ==
    ASSUME IInv, NoFault \/ Fault
    PROVE  faults' \in Nat
BY DEF IInv, CallInv, CallTypeOK, NoFault, Fault

-----------------------------------------------------------------------------
(* The steps of a connection that make no call. *)

\* What a connection is before a step, as its fields.
LEMMA ConnParts ==
    ASSUME IInv, NEW c \in Conn
    PROVE  conns[c] \in Connection /\ ConnOK(conns[c]) /\ Informed(conns[c]) /\ c \in Call
BY ConnAssumption DEF IInv

\* The fields of an answered connection, and of one that waits.
LEMMA TwoFields ==
    ASSUME NEW A, NEW I, NEW S, NEW C, NEW k \in [ask : A, id : I, stage : S, code : C, given : BOOLEAN],
           NEW stage \in S, NEW code \in C
    PROVE  LET a == [k EXCEPT !.stage = stage, !.code = code]
           IN  /\ a \in [ask : A, id : I, stage : S, code : C, given : BOOLEAN]
               /\ a.ask = k.ask /\ a.id = k.id /\ a.stage = stage /\ a.code = code
               /\ a.given = k.given
OBVIOUS

\* An answer changes stage and code.
LEMMA AnswerParts ==
    ASSUME NEW k \in Connection, NEW code \in Status
    PROVE  /\ Answer(k, code) \in Connection
           /\ Answer(k, code).ask = k.ask /\ Answer(k, code).id = k.id
           /\ Answer(k, code).stage = "answered" /\ Answer(k, code).code = code
           /\ Answer(k, code).given = k.given
<1>1. "answered" \in Stage
  BY DEF Stage
<1> QED
  BY <1>1, TwoFields DEF Answer, Connection

\* The next stage changes nothing else.
LEMMA StageParts ==
    ASSUME NEW k \in Connection, NEW stage \in Stage
    PROVE  LET w == [k EXCEPT !.stage = stage]
           IN  /\ w \in Connection
               /\ w.ask = k.ask /\ w.id = k.id /\ w.stage = stage /\ w.code = k.code
               /\ w.given = k.given
BY DEF Connection

\* An answer is given to a connection that may have it.
LEMMA AnswerOK ==
    ASSUME NEW k \in Connection, NEW code \in Status, Authorized(k.ask) \/ code = 401
    PROVE  /\ ConnOK(Answer(k, code))
           /\ Answer(k, code).id = k.id /\ Answer(k, code).code = code
BY AnswerParts DEF ConnOK

\* A controller that goes on waiting changes the stage only.
LEMMA WaitOK ==
    ASSUME NEW k \in Connection, Authorized(k.ask), k.code = 0, k.given = FALSE,
           NEW stage \in {"saving", "reading", "finding", "asking", "silent"}
    PROVE  LET w == [k EXCEPT !.stage = stage]
           IN  ConnOK(w) /\ w.stage = stage /\ w.id = k.id /\ w.code = 0
<1>1. stage \in Stage
  BY DEF Stage
<1> QED
  BY <1>1, StageParts DEF ConnOK

\* A request that is let in goes to its controller or is refused as malformed.
LEMMA LetInOK ==
    ASSUME NEW k \in Connection, Authorized(k.ask), k.code = 0, k.given = FALSE
    PROVE  ConnOK(LetIn(k)) /\ LetIn(k).id = k.id /\ LetIn(k).code # 404
<1>1. Controller(k.ask) \in {"saving", "reading"} /\ 400 \in Status
  BY DEF Controller, Status
<1>2. CASE k.ask.valid
  <2> DEFINE w == [k EXCEPT !.stage = Controller(k.ask)]
  <2>1. LetIn(k) = w
    BY <1>2 DEF LetIn
  <2>2. ConnOK(w) /\ w.id = k.id /\ w.code = 0
    <3> DEFINE stage == Controller(k.ask)
    <3>1. stage \in {"saving", "reading", "finding", "asking", "silent"}
      BY <1>1
    <3> HIDE DEF stage
    <3>2. LET v == [k EXCEPT !.stage = stage]
          IN  ConnOK(v) /\ v.stage = stage /\ v.id = k.id /\ v.code = 0
      BY <3>1, WaitOK
    <3> QED
      BY <3>2 DEF stage
  <2> HIDE DEF w
  <2> QED
    BY <2>1, <2>2
<1>3. CASE ~k.ask.valid
  BY <1>1, <1>3, AnswerOK DEF LetIn
<1> QED
  BY <1>2, <1>3

\* The result is given.
Given200(k) == [Answer(k, 200) EXCEPT !.given = TRUE]

\* A result is given to an authorized client.
LEMMA GivesOK ==
    ASSUME NEW k \in Connection, Authorized(k.ask)
    PROVE  /\ ConnOK(Given200(k)) /\ Given200(k).stage = "answered"
           /\ Given200(k).given /\ Given200(k).id = k.id /\ Given200(k).code = 200
<1>1. 200 \in Status
  BY DEF Status
<1> DEFINE a == Answer(k, 200)
<1>a. a \in Connection /\ a.ask = k.ask /\ a.id = k.id /\ a.stage = "answered" /\ a.code = 200
  BY <1>1, AnswerParts
<1> HIDE DEF a
<1>b. LET g == [a EXCEPT !.given = TRUE]
      IN  g \in Connection /\ g.ask = a.ask /\ g.id = a.id /\ g.stage = a.stage
          /\ g.code = a.code /\ g.given = TRUE
  BY <1>a DEF Connection
<1>2. Given200(k) \in Connection /\ Given200(k).ask = k.ask /\ Given200(k).id = k.id
      /\ Given200(k).stage = "answered" /\ Given200(k).given = TRUE /\ Given200(k).code = 200
  BY <1>a, <1>b DEF Given200, a
<1> QED
  BY <1>2 DEF ConnOK

\* The statuses that the controllers answer.
LEMMA Statuses == {0, 200, 202, 400, 401, 404, 500, 503} \subseteq Status
BY DEF Status

\* A connection in the hands of a controller is authorized.
LEMMA ServedParts ==
    ASSUME IInv, NEW c \in Conn,
           conns[c].stage \in {"saving", "reading", "finding", "asking", "watched"}
    PROVE  /\ conns[c] \in Connection /\ Authorized(conns[c].ask)
           /\ conns[c].code = 0 /\ conns[c].given = FALSE
           /\ ~At(c, "answered") /\ Informed(conns[c])
           /\ conns[c].stage = "watched" => conns[c].id \in Conn
<1>1. conns[c] \in Connection /\ ConnOK(conns[c]) /\ Informed(conns[c])
  BY ConnParts
<1>2. conns[c].stage \notin {"idle", "validating", "answered"}
  OBVIOUS
<1>3. Authorized(conns[c].ask) \/ conns[c].code = 401
  BY <1>1, <1>2 DEF ConnOK
<1>4. /\ conns[c].code = 0 /\ conns[c].given = FALSE
      /\ conns[c].stage = "watched" => conns[c].id \in Conn
  BY <1>1, <1>2 DEF ConnOK
<1> QED
  BY <1>1, <1>2, <1>3, <1>4 DEF At

\* A connection that makes no call and is given no result.
LEMMA PlainStep ==
    ASSUME IInv, NEW c \in Conn, ~At(c, "answered"), NEW k, Becomes(c, k),
           ConnOK(k), Informed(k), NoCall, NoFault \/ Fault,
           UNCHANGED <<docs, deleting>>
    PROVE  IInv'
<1>1. CallInv'
  BY FaultsStayNat, NoCallKeeps DEF IInv
<1> QED
  BY <1>1, ConnStep

\* An authorized connection is answered; with a 404 if its request is gone.
LEMMA AnswersKeep ==
    ASSUME IInv, NEW c \in Conn,
           conns[c].stage \in {"saving", "reading", "finding", "watched"},
           NEW code \in Status, Becomes(c, Answer(conns[c], code)),
           code = 404 => ~Exists(conns[c].id),
           NoCall, NoFault \/ Fault, UNCHANGED <<docs, deleting>>
    PROVE  IInv'
<1> DEFINE k == Answer(conns[c], code)
<1>1. /\ conns[c] \in Connection /\ Authorized(conns[c].ask)
      /\ ~At(c, "answered") /\ Informed(conns[c])
  BY ServedParts
<1>2. ConnOK(k) /\ k.id = conns[c].id /\ k.code = code /\ Becomes(c, k)
  BY <1>1, AnswerOK
<1> HIDE DEF k
<1>3. Informed(k)
  <2>1. k.id \in Conn \cup {Nobody}
    BY <1>1, <1>2 DEF Connection
  <2> QED
    BY <1>1, <1>2, <2>1 DEF Informed, Exists, IInv, ForgottenIfGiven
<1> QED
  BY <1>1, <1>2, <1>3, PlainStep

\* A controller goes on waiting.
LEMMA WaitsKeep ==
    ASSUME IInv, NEW c \in Conn,
           conns[c].stage \in {"saving", "reading", "finding", "asking", "watched"},
           NEW stage \in {"finding", "asking", "silent"}, Waits(c, stage),
           CallInv', UNCHANGED <<docs, deleting>>
    PROVE  IInv'
<1> DEFINE k == [conns[c] EXCEPT !.stage = stage]
<1>1. /\ conns[c] \in Connection /\ Authorized(conns[c].ask) /\ conns[c].code = 0
      /\ conns[c].given = FALSE /\ ~At(c, "answered") /\ Informed(conns[c])
  BY ServedParts
<1>2. ConnOK(k) /\ k.id = conns[c].id /\ k.code = 0 /\ Becomes(c, k)
  BY <1>1, WaitOK DEF Waits
<1> HIDE DEF k
<1>3. Informed(k)
  BY <1>1, <1>2 DEF Informed
<1> QED
  BY <1>1, <1>2, <1>3, ConnStep

\* A result is given, and its request will be deleted.
LEMMA GivesKeep ==
    ASSUME IInv, NEW c \in Conn, conns[c].stage \in {"reading", "watched"},
           conns[c].id \in Conn, Gives(c), deleting' = deleting \cup {conns[c].id},
           NoCall, NoFault, UNCHANGED docs
    PROVE  IInv'
<1> DEFINE k == Given200(conns[c])
<1>1. /\ conns[c] \in Connection /\ Authorized(conns[c].ask)
      /\ ~At(c, "answered") /\ Informed(conns[c])
  BY ServedParts
<1>2. ConnOK(k) /\ k.given /\ k.id = conns[c].id /\ k.code = 200
  BY <1>1, GivesOK
<1>3. Becomes(c, k)
  BY DEF Gives, Given200
<1>4. CallInv'
  BY FaultsStayNat, NoCallKeeps DEF IInv
<1> HIDE DEF k
<1>5. Informed(k)
  BY <1>1, <1>2 DEF Informed
<1> QED
  BY <1>1, <1>2, <1>3, <1>4, <1>5, ConnStep

-----------------------------------------------------------------------------
(* Who is let in. *)

\* A request arrives; without certificate or token it is refused at once.
LEMMA ArriveKeeps ==
    ASSUME IInv, NEW c \in Conn, NEW ask \in Asks, NEW id \in Conn \cup {Nobody},
           Arrive(c, ask, id)
    PROVE  IInv'
<1> DEFINE k == [conns[c] EXCEPT !.ask = ask, !.id = id]
<1>1. /\ conns[c] \in Connection /\ conns[c].stage = "idle" /\ conns[c].code = 0
      /\ conns[c].given = FALSE /\ ask \in Ask /\ ~At(c, "answered")
  BY ConnParts, AskAssumption DEF Arrive, ConnOK, At
<1>2. /\ k \in Connection /\ k.ask = ask /\ k.id = id /\ k.stage = "idle" /\ k.code = 0
      /\ k.given = FALSE
  BY <1>1 DEF Connection
<1>3. NoCall /\ NoFault /\ UNCHANGED <<docs, deleting>> /\ (id # Nobody => docs[id] # "none")
  BY DEF Arrive, Known
<1>4. Becomes(c, IF ask.cert THEN LetIn(k)
                 ELSE IF AdmitsToken(ask.op) /\ ask.token # "none"
                      THEN [k EXCEPT !.stage = "validating"]
                      ELSE Answer(k, 401))
  BY DEF Arrive
<1> HIDE DEF k
<1> DEFINE in == LetIn(k)
           wait == [k EXCEPT !.stage = "validating"]
           refused == Answer(k, 401)
<1>5. ask.cert => ConnOK(in) /\ in.id = id /\ in.code # 404
  BY <1>2, LetInOK DEF Authorized
<1>6. AdmitsToken(ask.op) => ConnOK(wait) /\ wait.id = id /\ wait.code # 404
  <2>1. "validating" \in Stage
    BY DEF Stage
  <2>2. /\ wait \in Connection /\ wait.ask = ask /\ wait.stage = "validating"
        /\ wait.code = 0 /\ wait.given = FALSE /\ wait.id = id
    BY <1>2, <2>1, StageParts
  <2> QED
    BY <2>2 DEF ConnOK
<1>7. ConnOK(refused) /\ refused.id = id /\ refused.code # 404
  BY <1>2, AnswerOK, Statuses
<1>8. PICK n \in {in, wait, refused} : Becomes(c, n) /\ ConnOK(n) /\ n.id = id /\ n.code # 404
  BY <1>4, <1>5, <1>6, <1>7
<1>9. Informed(n)
  BY <1>3, <1>8 DEF Informed
<1> QED
  BY <1>1, <1>3, <1>8, <1>9, PlainStep

\* The validation service lets in, refuses or fails.
LEMMA ValidationKeeps ==
    ASSUME IInv, NEW c \in Conn, Validated(c) \/ ValidationFails(c)
    PROVE  IInv'
<1>1. /\ conns[c] \in Connection /\ AdmitsToken(conns[c].ask.op) /\ conns[c].code = 0
      /\ conns[c].given = FALSE /\ ~At(c, "answered") /\ Informed(conns[c])
  BY ConnParts DEF Validated, ValidationFails, ConnOK, At
<1>2. NoCall /\ (NoFault \/ Fault) /\ UNCHANGED <<docs, deleting>>
  BY DEF Validated, ValidationFails
<1> DEFINE in == LetIn(conns[c])
           refused == Answer(conns[c], 401)
           id == conns[c].id
<1>3. ConnOK(refused) /\ refused.id = id /\ refused.code # 404
  BY <1>1, AnswerOK, Statuses
<1>4. conns[c].ask.token = "good" => ConnOK(in) /\ in.id = id /\ in.code # 404
  BY <1>1, LetInOK DEF Authorized
<1>5. Becomes(c, refused) \/ (conns[c].ask.token = "good" /\ Becomes(c, in))
  BY DEF Validated, ValidationFails, Answers, Asked
<1> HIDE DEF in, refused
<1>6. PICK n \in {in, refused} : Becomes(c, n) /\ ConnOK(n) /\ n.id = id /\ n.code # 404
  BY <1>3, <1>4, <1>5
<1>7. Informed(n)
  BY <1>1, <1>6 DEF Informed
<1> QED
  BY <1>1, <1>2, <1>6, <1>7, PlainStep

-----------------------------------------------------------------------------
(* The controllers. *)

\* A created request is answered, or watched.
LEMMA SavedKeeps ==
    ASSUME IInv, NEW c \in Conn, Saved(c)
    PROVE  IInv'
<1> DEFINE i == [conns[c] EXCEPT !.id = c]
           told == Answer(i, 202)
           kept == [i EXCEPT !.stage = "watched"]
<1>1. /\ conns[c] \in Connection /\ Authorized(conns[c].ask) /\ conns[c].code = 0
      /\ conns[c].given = FALSE /\ ~At(c, "answered")
  BY ServedParts DEF Saved, At
<1>2. /\ i \in Connection /\ i.ask = conns[c].ask /\ i.id = c /\ i.code = 0
      /\ i.given = FALSE
  BY <1>1 DEF Connection
<1>3. Becomes(c, told) \/ Becomes(c, kept)
  BY DEF Saved
<1>4. docs' = [docs EXCEPT ![c] = "open"] /\ deleting' = deleting /\ CallInv'
  BY FaultsStayNat, NoCallKeeps DEF Saved, IInv
<1> HIDE DEF i
<1>5. ConnOK(told) /\ told.id = c /\ told.code # 404
  BY <1>1, <1>2, AnswerOK, Statuses
<1>6. ConnOK(kept) /\ kept.id = c /\ kept.code # 404
  <2>1. "watched" \in Stage
    BY DEF Stage
  <2>2. /\ kept \in Connection /\ kept.ask = conns[c].ask /\ kept.stage = "watched"
        /\ kept.id = c /\ kept.code = 0 /\ kept.given = FALSE
    BY <1>2, <2>1, StageParts
  <2> QED
    BY <1>1, <2>2 DEF ConnOK
<1> HIDE DEF told, kept
<1>7. PICK k \in {told, kept} : Becomes(c, k) /\ ConnOK(k) /\ k.id = c /\ k.code # 404
  BY <1>3, <1>5, <1>6
<1>8. docs'[c] = "open" /\ NothingUnsaved
  BY <1>4 DEF IInv, NothingUnsaved
<1>9. /\ conns' \in [Conn -> Connection]
      /\ (\A y \in Conn : ConnOK(conns[y]) /\ Informed(conns[y]))'
      /\ \A r \in Conn : Given(r) => Given(r)'
  BY <1>1, <1>7, <1>8, OneConn
<1>10. ForgottenIfGiven' /\ docs' \in [Conn -> DocState]
  BY <1>4, <1>9 DEF IInv, ForgottenIfGiven, DocState
<1> QED
  BY <1>4, <1>9, <1>10 DEF IInv

\* An error of the database is answered.
LEMMA StoreFailsKeeps ==
    ASSUME IInv, NEW c \in Conn, StoreFails(c)
    PROVE  IInv'
<1>1. /\ conns[c].stage \in {"saving", "reading", "finding", "watched"} /\ 500 \in Status
      /\ Becomes(c, Answer(conns[c], 500)) /\ Fault /\ NoCall /\ UNCHANGED <<docs, deleting>>
  BY Statuses DEF StoreFails, Answers
<1> QED
  BY <1>1, AnswersKeep

\* A callback is answered before it is worked on.
LEMMA ReadForCallbackKeeps ==
    ASSUME IInv, NEW c \in Conn, ReadForCallback(c)
    PROVE  IInv'
<1>1. /\ conns[c].stage \in {"saving", "reading", "finding", "watched"}
      /\ NoFault /\ NoCall /\ UNCHANGED <<docs, deleting>>
  BY DEF ReadForCallback, At
<1>2. PICK code \in Status : /\ Becomes(c, Answer(conns[c], code))
                             /\ code = 404 => ~Exists(conns[c].id)
  BY Statuses DEF ReadForCallback, Answers
<1> QED
  BY <1>1, <1>2, AnswersKeep

\* A poll reads the document: what is finished is given and then deleted.
LEMMA ReadForResultKeeps ==
    ASSUME IInv, NEW c \in Conn, ReadForResult(c)
    PROVE  IInv'
<1> DEFINE r == conns[c].id
<1>1. /\ conns[c].stage = "reading" /\ NoFault /\ NoCall /\ UNCHANGED docs
      /\ conns[c] \in Connection
  BY ConnParts DEF ReadForResult, At
<1>2. CASE Exists(r) /\ docs[r] = "finished"
  <2>1. Gives(c) /\ deleting' = deleting \cup {r}
    BY <1>2 DEF ReadForResult
  <2>2. r \in Conn
    BY <1>1, <1>2 DEF Exists, Connection
  <2> QED
    BY <1>1, <2>1, <2>2, GivesKeep
<1>3. CASE ~(Exists(r) /\ docs[r] = "finished")
  <2>1. deleting' = deleting
    BY <1>3 DEF ReadForResult
  <2>2. \/ Waits(c, "finding")
        \/ Becomes(c, Answer(conns[c], 404)) /\ ~Exists(r)
        \/ Becomes(c, Answer(conns[c], 202))
    BY <1>3 DEF ReadForResult, Answers
  <2>3. CASE Waits(c, "finding")
    <3>1. CallInv'
      BY <1>1, FaultsStayNat, NoCallKeeps DEF IInv
    <3> QED
      BY <1>1, <2>1, <2>3, <3>1, WaitsKeep
  <2>4. CASE \/ Becomes(c, Answer(conns[c], 404)) /\ ~Exists(r)
             \/ Becomes(c, Answer(conns[c], 202))
    <3>1. PICK code \in Status : /\ Becomes(c, Answer(conns[c], code))
                                 /\ code = 404 => ~Exists(r)
      BY <2>4, Statuses
    <3> QED
      BY <1>1, <2>1, <3>1, AnswersKeep
  <2> QED
    BY <2>2, <2>3, <2>4
<1> QED
  BY <1>2, <1>3

\* No PO is found: the poll is never answered.
LEMMA PONotFoundKeeps ==
    ASSUME IInv, NEW c \in Conn, PONotFound(c)
    PROVE  IInv'
<1>1. /\ conns[c].stage = "finding" /\ Waits(c, "silent")
      /\ Fault /\ NoCall /\ UNCHANGED <<docs, deleting>>
  BY DEF PONotFound, At
<1>2. CallInv'
  BY <1>1, FaultsStayNat, NoCallKeeps DEF IInv
<1> QED
  BY <1>1, <1>2, WaitsKeep

\* The watcher gives the result.
LEMMA WatchedKeeps ==
    ASSUME IInv, NEW c \in Conn, Watched(c)
    PROVE  IInv'
<1>1. /\ conns[c].stage = "watched" /\ Gives(c) /\ deleting' = deleting \cup {conns[c].id}
      /\ NoFault /\ NoCall /\ UNCHANGED docs
  BY DEF Watched, At
<1>2. conns[c].id \in Conn
  BY <1>1, ServedParts
<1> QED
  BY <1>1, <1>2, GivesKeep

-----------------------------------------------------------------------------
(* The steps that make a call, or belong to one. *)

\* A step of a call keeps what holds of the calls.
LEMMA CallKeeps ==
    ASSUME IInv, NEW x \in Call,
           \/ \E method \in {"GET", "POST", "PUT"} : doCall(x, method)
           \/ \E code \in Code : Responds(x, code)
           \/ Runs(x) \/ RunsLate(x) \/ Lost(x) \/ OddError(x)
    PROVE  CallInv'
<1>1. CallNext
  BY DEF CallNext
<1> QED
  BY <1>1, CallNextInv DEF IInv

\* A step of the store or of a call that no connection goes on with.
LEMMA OtherStep ==
    ASSUME IInv, conns' = conns, CallInv', NothingUnsaved,
           docs' \in [Conn -> DocState], deleting' \subseteq Conn,
           \A r \in Conn : docs'[r] = "gone" \/ r \in deleting' =>
                               docs[r] = "gone" \/ r \in deleting
    PROVE  IInv'
<1>1. ForgottenIfGiven'
  BY DEF IInv, ForgottenIfGiven, Given
<1>2. ASSUME NEW c \in Conn PROVE ConnOK(conns'[c]) /\ Informed(conns[c])'
  <2>1. conns[c].id \in Conn \cup {Nobody} /\ ConnOK(conns[c]) /\ Informed(conns[c])
    BY DEF IInv, Connection
  <2> QED
    BY <2>1 DEF Informed, NothingUnsaved, Given
<1> QED
  BY <1>1, <1>2 DEF IInv, ConnOK

\* The same when the store does not change either.
LEMMA StillStep ==
    ASSUME IInv, CallInv', UNCHANGED <<conns, docs, deleting>>
    PROVE  IInv'
<1>1. NothingUnsaved
  BY DEF NothingUnsaved
<1> QED
  BY <1>1, OtherStep DEF IInv

\* A poll calls the PO, with the call of its connection.
LEMMA FoundPOKeeps ==
    ASSUME IInv, NEW c \in Conn, FoundPO(c)
    PROVE  IInv'
<1>1. CallInv'
  BY ConnParts, CallKeeps DEF FoundPO
<1> QED
  BY <1>1, WaitsKeep DEF FoundPO, At

\* The PO answers the poll, with no 404 of its own ...
LEMMA PORespondsKeeps ==
    ASSUME IInv, NEW c \in Conn, NEW code \in Code, POResponds(c, code)
    PROVE  IInv'
<1> DEFINE told == IF code = 200 THEN 202 ELSE 503
           k == Answer(conns[c], told)
<1>1. /\ conns[c] \in Connection /\ Authorized(conns[c].ask) /\ ~At(c, "answered")
      /\ Informed(conns[c])
  BY ServedParts DEF POResponds, At
<1>2. told \in Status /\ told # 404
  BY DEF Status
<1> HIDE DEF told
<1>3. ConnOK(k) /\ k.id = conns[c].id /\ k.code # 404
  BY <1>1, <1>2, AnswerOK
<1>4. Becomes(c, k)
  BY DEF POResponds, Answers, told
<1>5. CallInv'
  BY ConnParts, CallKeeps DEF POResponds
<1> HIDE DEF k
<1>6. Informed(k)
  BY <1>1, <1>3 DEF Informed
<1> QED
  BY <1>1, <1>3, <1>4, <1>5, <1>6, ConnStep DEF POResponds

\* ... or is not reached.
LEMMA PONotReachedKeeps ==
    ASSUME IInv, NEW c \in Conn, PONotReached(c)
    PROVE  IInv'
<1>1. CallInv' /\ conns[c].stage = "asking" /\ UNCHANGED <<docs, deleting>>
  BY ConnParts, CallKeeps DEF PONotReached, At
<1>2. CASE Waits(c, "silent")
  BY <1>1, <1>2, WaitsKeep
<1>3. CASE conns' = conns
  BY <1>1, <1>3, StillStep
<1> QED
  BY <1>2, <1>3 DEF PONotReached

\* Calls of the other handlers touch no connection.
LEMMA OtherCallsKeep ==
    ASSUME IInv, NEW x \in Call \ Conn, OtherCalls(x)
    PROVE  IInv'
BY CallKeeps, StillStep DEF OtherCalls, serverVars

\* Nor does a process that runs a call.
LEMMA ExecutedKeeps ==
    ASSUME IInv, NEW x \in Call, Executed(x)
    PROVE  IInv'
BY CallKeeps, StillStep DEF Executed, serverVars

\* Nor do the deletions and the writes of the other handlers.
LEMMA StoreKeeps ==
    ASSUME IInv, NEW r \in Conn, Deleted(r) \/ \E status \in DocState : Handled(r, status)
    PROVE  IInv'
<1>1. conns' = conns /\ NoCall /\ NoFault
  BY DEF Deleted, Handled, NoCall
<1>2. CallInv'
  BY <1>1, NoCallKeeps, FaultsStayNat DEF IInv
<1>3. CASE Deleted(r)
  <2>1. /\ docs' = [docs EXCEPT ![r] = "gone"] /\ deleting' = deleting \ {r}
        /\ r \in deleting
    BY <1>3 DEF Deleted
  <2>2. docs' \in [Conn -> DocState] /\ deleting' \subseteq Conn /\ NothingUnsaved
    BY <2>1 DEF IInv, DocState, NothingUnsaved
  <2>3. \A y \in Conn : docs'[y] = "gone" \/ y \in deleting' =>
                            docs[y] = "gone" \/ y \in deleting
    BY <2>1 DEF IInv
  <2> QED
    BY <1>1, <1>2, <2>2, <2>3, OtherStep
<1>4. CASE \E status \in DocState : Handled(r, status)
  <2>1. PICK status \in DocState : Handled(r, status)
    BY <1>4
  <2>2. /\ docs' = [docs EXCEPT ![r] = status] /\ deleting' = deleting
        /\ status # "gone" /\ status # "none"
    BY <2>1 DEF Handled
  <2>3. docs' \in [Conn -> DocState] /\ deleting' \subseteq Conn /\ NothingUnsaved
    BY <2>2 DEF IInv, NothingUnsaved
  <2>4. \A y \in Conn : docs'[y] = "gone" \/ y \in deleting' =>
                            docs[y] = "gone" \/ y \in deleting
    BY <2>2 DEF IInv
  <2> QED
    BY <1>1, <1>2, <2>3, <2>4, OtherStep
<1> QED
  BY <1>3, <1>4

-----------------------------------------------------------------------------
\* Every step keeps the invariant ...
LEMMA NextInv ==
    ASSUME IInv, [Next]_vars
    PROVE  IInv'
<1>1. ASSUME NEW c \in Conn, Serve(c) PROVE IInv'
  BY <1>1, ValidationKeeps, SavedKeeps, ReadForCallbackKeeps, ReadForResultKeeps,
     FoundPOKeeps, WatchedKeeps, PORespondsKeeps DEF Serve
<1>2. ASSUME NEW c \in Conn, Fails(c) PROVE IInv'
  BY <1>2, ValidationKeeps, StoreFailsKeeps, PONotFoundKeeps, PONotReachedKeeps DEF Fails
<1>3. CASE Next
  BY <1>1, <1>2, <1>3, ArriveKeeps, StoreKeeps, OtherCallsKeep, ExecutedKeeps DEF Next
<1>4. CASE UNCHANGED vars
  <2>1. NoCall /\ faults' = faults /\ conns' = conns /\ docs' = docs /\ deleting' = deleting
    BY <1>4 DEF vars, NoCall
  <2>2. CallInv'
    BY <2>1, NoCallKeeps DEF IInv, CallInv, CallTypeOK
  <2> QED
    BY <2>1, <2>2, StillStep
<1> QED
  BY <1>3, <1>4

\* ... which therefore holds throughout.
LEMMA IInvAlways == Spec => []IInv
BY InitInv, NextInv, PTL DEF Spec

\* The types, for any number of connections, calls and faults.
THEOREM ServerTyped == Spec => []TypeOK
BY IInvAlways, IInvImplies, PTL

\* A controller runs only for a client with a certificate or a good token,
\* however the validation of tokens fails.
THEOREM ServedAreAuthorized == Spec => []OnlyAuthorized
BY IInvAlways, IInvImplies, PTL

\* No request is forgotten before a client was given its result.
THEOREM ResultsBeforeDeletion == Spec => []ForgottenIfGiven
BY IInvAlways, IInvImplies, PTL

\* Nobody who knows a request is told that it does not exist before a client was
\* given its result, whatever the PO answers and however polls, watched
\* connections, callbacks and deletions interleave.
THEOREM GoneAfterResult == Spec => []NotFoundMeansGiven
BY IInvAlways, IInvImplies, PTL

\* What a server does to its calls is what the caller does, or nothing.
LEMMA ServerCalls ==
    ASSUME IInv, [Next]_vars
    PROVE  CallNext \/ NoCall
<1>1. ASSUME NEW c \in Conn, Serve(c) \/ Fails(c) PROVE CallNext \/ NoCall
  <2>1. c \in Call
    BY ConnParts
  <2>2. CASE FoundPO(c) \/ (\E code \in Code : POResponds(c, code)) \/ PONotReached(c)
    BY <2>1, <2>2 DEF FoundPO, POResponds, PONotReached, CallNext
  <2> QED
    BY <1>1, <2>2 DEF Serve, Fails, Validated, Saved, ReadForCallback, ReadForResult, Watched,
                      ValidationFails, StoreFails, PONotFound
<1>2. ASSUME NEW x \in Call, Executed(x) \/ OtherCalls(x) PROVE CallNext
  BY <1>2 DEF Executed, OtherCalls, CallNext
<1>3. CASE Next
  BY <1>1, <1>2, <1>3 DEF Next, Arrive, Deleted, Handled
<1>4. CASE UNCHANGED vars
  BY <1>4 DEF vars, NoCall
<1> QED
  BY <1>3, <1>4

\* A step of the server is one step of one call, or of none.
LEMMA ServerRefines ==
    ASSUME IInv, [Next]_vars
    PROVE  [Remote!Next]_<<Phase, ran>>
<1>1. CASE CallNext
  BY <1>1, CallNextRefines DEF IInv
<1>2. CASE NoCall
  BY <1>2 DEF NoCall, Phase
<1> QED
  BY <1>1, <1>2, ServerCalls

\* The calls of a server keep the promise of RemoteCall, whatever the
\* connections do between them.
THEOREM ServerKeepsRemoteCall == Spec => KeepsRemoteCall
<1>1. Init => Remote!Init
  BY DEF Init, CallInit, Remote!Init, Phase, Idle
<1> QED
  BY <1>1, IInvAlways, ServerRefines, PTL DEF Spec, KeepsRemoteCall, Remote!Spec
=============================================================================

--------------------------- MODULE PrivacyProofs ---------------------------
(***************************************************************************)
(* Unless the location of a service is out of date, nothing that was not   *)
(* protected leaves the domain of a broker with a PO (RawDataStaysHome):   *)
(* whatever is lost, repeated, delayed, reordered or restarted.            *)
(*                                                                         *)
(* request() sends on what the PO's callback brings while the request is   *)
(* PROTECTING.  The PO also calls back with results in clear, of           *)
(* unprotect(), and a callback names nothing but the request: that it      *)
(* cannot be taken for the other is what the invariant is about.           *)
(***************************************************************************)
EXTENDS ForwardingProofs

\* request() on its way to the write of PROTECTING
Opening(t) == /\ t.at = "request"
              /\ t.do \in {"find", "protect", "started"} \/ t.status = "PROTECTING"

\* While request() is on that way nothing else works on the request ...
AloneIn(B) == \A t \in DOMAIN B, u \in DOMAIN B :
                  Opening(t) /\ u.id = t.id => u = t /\ B[t] = 1

\* ... and its document, if it was not deleted, is as it was created.
Unopened(b, i) == \/ db[b][i] = NoDoc
                  \/ db[b][i].status = "IN_PROGRESS" /\ Len(db[b][i].log) = 0

Has(b, i, status) == db[b][i] # NoDoc /\ db[b][i].status = status

\* a callback that brings anything but protected data
Clear(c) == EndsProcess(c) /\ c.value # "protected"

\* the result of i is being unprotected
Undone(b, i) ==
    \/ \E t \in DOMAIN tasks[b] : t.id = i /\ t.at = "unprotect"
    \/ \E c \in DOMAIN owed : c.to = b /\ c.id = i /\ Clear(c)

\* the data of i are being protected
Protects(b, i) ==
    \/ Has(b, i, "PROTECTING")
    \/ \E t \in DOMAIN tasks[b] : t.id = i /\ Opening(t)

Shielded(b, req) == req.body = "protected" \/ req.skip_po \/ b \notin HasPO

\* what a pending operation may send: a service is called where it is, unless
\* its location is out of date
Shields(b, t) ==
    /\ "stale" \notin Faults => /\ t.do = "service" => Home[t.req.service] = b
                                /\ t.do # "relocated"
    /\ t.do = "forward" => Shielded(b, t.req)
    /\ t.at = "resume" => t.req.body = "protected"
    /\ t.do = "protect" => t.at = "request"
    /\ t.do \in {"unprotect", "saveThenUnprotect"} => t.at = "unprotect"
    /\ t.status = "PROTECTING" => t.at = "request" /\ t.do = "write"

OpensFresh(b) == \A t \in DOMAIN tasks[b] : Opening(t) => Unopened(b, t.id)

Private ==
    /\ \A b \in Broker :
           /\ AloneIn(tasks[b])
           /\ \A t \in DOMAIN tasks[b] : Shields(b, t)
           /\ OpensFresh(b)
           /\ \A i \in Id : ~(Undone(b, i) /\ Protects(b, i))
    /\ \A c \in DOMAIN owed : c.id \in used

-----------------------------------------------------------------------------
(* Bags in which the request() of an id is alone. *)

\* Removing a task keeps the others alone, and a lone one is gone.
LEMMA RemovedAlone ==
    ASSUME NEW B, IsABag(B), AloneIn(B), NEW t \in DOMAIN B
    PROVE  /\ AloneIn(BagRemove(B, t))
           /\ \A w \in DOMAIN BagRemove(B, t) :
                  w \in DOMAIN B /\ (w.id = t.id => ~Opening(w) /\ ~Opening(t))
<1> DEFINE R == BagRemove(B, t)
<1>1. \/ B[t] = 1 /\ R = [e \in DOMAIN B \ {t} |-> B[e]]
      \/ B[t] # 1 /\ R = [e \in DOMAIN B |-> IF e = t THEN B[e] - 1 ELSE B[e]]
  BY DEF BagRemove
<1>2. ASSUME NEW w \in DOMAIN R, w.id = t.id, Opening(w) \/ Opening(t)
      PROVE  FALSE
  <2>1. w \in DOMAIN B
    BY <1>1, <1>2
  <2>2. w = t /\ B[t] = 1
    BY <1>2, <2>1 DEF AloneIn
  <2> QED
    BY <1>1, <1>2, <2>2
<1>3. \A w \in DOMAIN R : w \in DOMAIN B /\ (w # t => R[w] = B[w])
  BY <1>1
<1> HIDE DEF R
<1>4. ASSUME NEW v \in DOMAIN R, NEW w \in DOMAIN R, Opening(v), w.id = v.id
      PROVE  w = v /\ R[v] = 1
  <2>1. w = v /\ B[v] = 1
    BY <1>3, <1>4 DEF AloneIn
  <2>2. v # t
    BY <1>2, <1>4
  <2> QED
    BY <1>3, <2>1, <2>2
<1>5. AloneIn(R)
  BY <1>4 DEF AloneIn
<1> QED
  BY <1>2, <1>3, <1>5 DEF R

\* So does adding one that meets no request() of its id.
LEMMA AddedAlone ==
    ASSUME NEW B, IsABag(B), AloneIn(B), NEW u,
           \A w \in DOMAIN B : w.id = u.id => ~Opening(w) /\ ~Opening(u)
    PROVE  AloneIn(BagAdd(B, u))
<1> DEFINE R == BagAdd(B, u)
<1>1. /\ DOMAIN R = DOMAIN B \cup {u}
      /\ \A w \in DOMAIN B : w # u => R[w] = B[w]
      /\ u \notin DOMAIN B => R[u] = 1
  BY DEF BagAdd
<1> HIDE DEF R
<1>2. ASSUME NEW v \in DOMAIN R, NEW w \in DOMAIN R, Opening(v), w.id = v.id
      PROVE  w = v /\ R[v] = 1
  <2>1. CASE v = u
    BY <1>1, <1>2, <2>1
  <2>2. CASE v # u
    <3>1. v \in DOMAIN B /\ w \in DOMAIN B
      BY <1>1, <1>2, <2>2
    <3> QED
      BY <1>1, <1>2, <2>2, <3>1 DEF AloneIn
  <2> QED
    BY <2>1, <2>2
<1>3. AloneIn(R)
  BY <1>2 DEF AloneIn
<1> QED
  BY <1>3 DEF R

-----------------------------------------------------------------------------
(* How a step may change tasks and callbacks. *)

\* a task that joins those of b: request() is only begun for a new id or gone
\* on with, and a result is only unprotected for a FORWARDED request
Joins(b, u) ==
    /\ Shields(b, u) /\ u.id \in used'
    /\ Opening(u) => \/ u.id \notin used
                     \/ \E t \in DOMAIN tasks[b] : t.id = u.id /\ Opening(t)
    /\ u.at = "unprotect" => Undone(b, u.id) \/ Has(b, u.id, "FORWARDED")

Follows(b) ==
    /\ AloneIn(tasks'[b])
    /\ \A u \in DOMAIN tasks'[b] : u \in DOMAIN tasks[b] \/ Joins(b, u)

OwedFollows ==
    \A c \in DOMAIN owed' :
        \/ c \in DOMAIN owed
        \/ c.id \in used /\ (Clear(c) => Undone(c.to, c.id))

\* Then no callback with something else can come while the data are protected.
LEMMA PrivateKept ==
    ASSUME IInv, Private, used \subseteq used',
           \A b \in Broker : Follows(b) /\ OpensFresh(b)',
           \A b \in Broker, i \in Id : Has(b, i, "PROTECTING")' => Protects(b, i),
           OwedFollows
    PROVE  Private'
<1>1. \A b \in Broker : \A t \in DOMAIN tasks[b] : t.id \in used
  BY DEF IInv, Brokers, Tasks, Sound
<1>2. ASSUME NEW b \in Broker, NEW i \in Id, Undone(b, i)', Protects(b, i)'
      PROVE  FALSE
  <2>1. Undone(b, i) \/ Has(b, i, "FORWARDED")
    BY <1>2 DEF Undone, Follows, Joins, OwedFollows
  <2>2. Protects(b, i) \/ i \notin used
    BY <1>2 DEF Protects, Follows, Joins
  <2>3. i \in used
    BY <1>1, <2>1 DEF Undone, Has, Private, IInv, Brokers, Docs
  <2>4. Has(b, i, "FORWARDED") => ~Protects(b, i)
    BY DEF Has, Protects, Private, OpensFresh, Unopened
  <2> QED
    BY <2>1, <2>2, <2>3, <2>4 DEF Private
<1>3. ASSUME NEW b \in Broker, NEW t \in DOMAIN tasks'[b] PROVE Shields(b, t)'
  BY <1>3 DEF Private, Follows, Joins, Shields, Shielded
<1>4. \A c \in DOMAIN owed' : c.id \in used'
  BY DEF OwedFollows, Private
<1> QED
  BY <1>2, <1>3, <1>4 DEF Private, Follows

\* A step that leaves the collections alone.
LEMMA SteadyKept ==
    ASSUME IInv, Private, UNCHANGED <<db, used>>, \A b \in Broker : Follows(b), OwedFollows
    PROVE  Private'
<1>1. ASSUME NEW b \in Broker, NEW u \in DOMAIN tasks'[b], Opening(u)
      PROVE  Unopened(b, u.id)'
  <2>1. \E t \in DOMAIN tasks[b] : t.id = u.id /\ Opening(t)
    BY <1>1 DEF Follows, Joins
  <2> QED
    BY <2>1 DEF Private, OpensFresh, Unopened
<1>2. \A b \in Broker : OpensFresh(b)'
  BY <1>1 DEF OpensFresh
<1> QED
  BY <1>2, PrivateKept DEF Has, Protects

-----------------------------------------------------------------------------
(* The forms a step's change of the tasks takes. *)

AllFollow == \A c \in Broker : Follows(c)

\* what a task becomes
Succeeds(b, t, u) == /\ u.id = t.id /\ Shields(b, u)
                     /\ Opening(u) => Opening(t)
                     /\ u.at = "unprotect" => t.at = "unprotect"

\* One that succeeds a pending task joins the others.
LEMMA SuccessorJoins ==
    ASSUME IInv, used \subseteq used', NEW b \in Broker, NEW t \in DOMAIN tasks[b],
           NEW STATE u, Succeeds(b, t, u)
    PROVE  Joins(b, u)
<1>1. t.id \in used
  BY DEF IInv, Brokers, Tasks, Sound
<1> QED
  BY <1>1 DEF Joins, Succeeds, Undone

\* The tasks stay as they are.
LEMMA SameFollow ==
    ASSUME Private, UNCHANGED tasks
    PROVE  AllFollow
BY DEF AllFollow, Follows, Private

\* A task becomes another one of its request; a request() is not there twice.
LEMMA SwapAlone ==
    ASSUME NEW B, IsABag(B), AloneIn(B), NEW t \in DOMAIN B, NEW u,
           u.id = t.id, Opening(u) => Opening(t)
    PROVE  /\ AloneIn(BagAdd(BagRemove(B, t), u))
           /\ DOMAIN BagAdd(BagRemove(B, t), u) \subseteq DOMAIN B \cup {u}
<1> DEFINE R == BagRemove(B, t)
<1>1. /\ IsABag(R) /\ AloneIn(R)
      /\ \A w \in DOMAIN R : w \in DOMAIN B /\ (w.id = t.id => ~Opening(w) /\ ~Opening(t))
  BY RemovedBag, RemovedAlone
<1> HIDE DEF R
<1>2. AloneIn(BagAdd(R, u))
  BY <1>1, AddedAlone
<1>3. DOMAIN BagAdd(R, u) = DOMAIN R \cup {u}
  BY <1>1, AddedBag
<1> QED
  BY <1>1, <1>2, <1>3 DEF R

\* That is how most operations continue.
LEMMA OnwardFollows ==
    ASSUME IInv, Private, used \subseteq used', NEW b \in Broker, NEW t \in DOMAIN tasks[b],
           NEW STATE u, Succeeds(b, t, u), Becomes(b, t, u)
    PROVE  AllFollow
<1>1. Joins(b, u)
  BY SuccessorJoins
<1>2. IsABag(tasks[b]) /\ AloneIn(tasks[b]) /\ DOMAIN tasks = Broker
  BY DEF IInv, Brokers, Tasks, Private
<1>3. /\ AloneIn(BagAdd(BagRemove(tasks[b], t), u))
      /\ DOMAIN BagAdd(BagRemove(tasks[b], t), u) \subseteq DOMAIN tasks[b] \cup {u}
  BY <1>2, SwapAlone DEF Succeeds
<1>4. tasks' = [tasks EXCEPT ![b] = BagAdd(BagRemove(tasks[b], t), u)]
  BY DEF Becomes, Swap
<1> QED
  BY <1>1, <1>2, <1>3, <1>4 DEF AllFollow, Follows, Private

\* A task ends.
LEMMA DoneFollows ==
    ASSUME IInv, Private, NEW b \in Broker, NEW t \in DOMAIN tasks[b], Done(b, t)
    PROVE  AllFollow
<1>1. IsABag(tasks[b]) /\ AloneIn(tasks[b]) /\ DOMAIN tasks = Broker
  BY DEF IInv, Brokers, Tasks, Private
<1>2. /\ AloneIn(BagRemove(tasks[b], t))
      /\ DOMAIN BagRemove(tasks[b], t) \subseteq DOMAIN tasks[b]
  BY <1>1, RemovedAlone, RemovedBag
<1>3. tasks' = [tasks EXCEPT ![b] = BagRemove(tasks[b], t)]
  BY DEF Done, Drop
<1> QED
  BY <1>1, <1>2, <1>3 DEF AllFollow, Follows, Private

\* All tasks of a broker end.
LEMMA CrashFollows ==
    ASSUME IInv, Private, NEW b \in Broker, Crashes(b)
    PROVE  AllFollow
<1>1. DOMAIN tasks = Broker
  BY DEF IInv, Brokers, Tasks
<1>2. AloneIn(EmptyBag)
  BY EmptyIsBag DEF AloneIn
<1> QED
  BY <1>1, <1>2, EmptyIsBag DEF Crashes, AllFollow, Follows, Private

\* A task joins where no request() of its id is under way.
LEMMA StartFollows ==
    ASSUME IInv, Private, NEW b \in Broker, NEW STATE u, Joins(b, u),
           \A w \in DOMAIN tasks[b] : w.id = u.id => ~Opening(w) /\ ~Opening(u),
           tasks' = Start(b, u)
    PROVE  AllFollow
<1>1. IsABag(tasks[b]) /\ AloneIn(tasks[b]) /\ DOMAIN tasks = Broker
  BY DEF IInv, Brokers, Tasks, Private
<1>2. /\ AloneIn(BagAdd(tasks[b], u))
      /\ DOMAIN BagAdd(tasks[b], u) = DOMAIN tasks[b] \cup {u}
  BY <1>1, AddedAlone, AddedBag
<1>3. tasks' = [tasks EXCEPT ![b] = BagAdd(tasks[b], u)]
  BY DEF Start
<1> QED
  BY <1>1, <1>2, <1>3 DEF AllFollow, Follows, Private

\* A call between the brokers: at b a task may become another one, at its
\* peer one may join.
LEMMA CallFollows ==
    ASSUME IInv, Private, used \subseteq used', NEW b \in Broker, NEW t \in DOMAIN tasks[b],
           NEW STATE u, Succeeds(b, t, u), NEW STATE v,
           \E mine \in {tasks, Swap(b, t, u)} :
               \/ tasks' = mine
               \/ /\ tasks' = [mine EXCEPT ![Peer[b]] = BagAdd(@, v)]
                  /\ Joins(Peer[b], v) /\ ~Opening(v)
                  /\ \A w \in DOMAIN tasks[Peer[b]] : w.id = v.id => ~Opening(w)
    PROVE  AllFollow
<1> DEFINE p == Peer[b]
           swapped == BagAdd(BagRemove(tasks[b], t), u)
<1> PICK mine \in {tasks, Swap(b, t, u)} :
        \/ tasks' = mine
        \/ /\ tasks' = [mine EXCEPT ![p] = BagAdd(@, v)]
           /\ Joins(p, v) /\ ~Opening(v)
           /\ \A w \in DOMAIN tasks[p] : w.id = v.id => ~Opening(w)
  OBVIOUS
<1>1. p \in Broker /\ p # b
  BY PeerIsBroker
<1>2. /\ DOMAIN tasks = Broker
      /\ \A c \in Broker : IsABag(tasks[c]) /\ AloneIn(tasks[c])
  BY DEF IInv, Brokers, Tasks, Private
<1>3. Joins(b, u)
  BY SuccessorJoins
<1>4. AloneIn(swapped) /\ DOMAIN swapped \subseteq DOMAIN tasks[b] \cup {u}
  BY <1>2, SwapAlone DEF Succeeds
<1>5. mine = tasks \/ mine = [tasks EXCEPT ![b] = swapped]
  BY DEF Swap
<1> HIDE DEF p, swapped
<1>6. /\ DOMAIN mine = Broker /\ mine[p] = tasks[p]
      /\ \A c \in Broker : /\ AloneIn(mine[c])
                           /\ \A w \in DOMAIN mine[c] : w \in DOMAIN tasks[c] \/ Joins(c, w)
  BY <1>1, <1>2, <1>3, <1>4, <1>5
<1>7. CASE tasks' = mine
  BY <1>6, <1>7 DEF AllFollow, Follows
<1>8. CASE /\ tasks' = [mine EXCEPT ![p] = BagAdd(@, v)]
           /\ Joins(p, v) /\ ~Opening(v)
           /\ \A w \in DOMAIN tasks[p] : w.id = v.id => ~Opening(w)
  <2>1. AloneIn(BagAdd(tasks[p], v)) /\ DOMAIN BagAdd(tasks[p], v) = DOMAIN tasks[p] \cup {v}
    BY <1>1, <1>2, <1>8, AddedAlone, AddedBag
  <2>2. tasks' = [mine EXCEPT ![p] = BagAdd(tasks[p], v)]
    BY <1>6, <1>8
  <2> QED
    BY <1>1, <1>6, <1>8, <2>1, <2>2 DEF AllFollow, Follows
<1> QED
  BY <1>7, <1>8

-----------------------------------------------------------------------------
(* The operations of a broker that leave the collections alone. *)

\* A pending task, and what is known of it.
LEMMA PendingShields ==
    ASSUME IInv, Private, NEW b \in Broker, NEW t \in DOMAIN tasks[b]
    PROVE  t \in Task /\ t.id \in used /\ Shields(b, t)
BY DEF IInv, Brokers, Tasks, Sound, Private

\* Nothing is owed that was not owed before.
LEMMA OwedSame ==
    ASSUME DOMAIN owed' \subseteq DOMAIN owed
    PROVE  OwedFollows
BY DEF OwedFollows

\* An operation that continues with another one and does nothing else.
LEMMA OnwardPrivate ==
    ASSUME IInv, Private, UNCHANGED <<db, used, owed>>, NEW b \in Broker,
           NEW t \in DOMAIN tasks[b], NEW STATE u, Succeeds(b, t, u), Becomes(b, t, u)
    PROVE  Private'
<1>1. AllFollow
  BY OnwardFollows
<1> QED
  BY <1>1, OwedSame, SteadyKept DEF AllFollow

\* The service is found; without a stale location it is where it is said to be.
LEMMA FoundPrivate ==
    ASSUME IInv, Private, NEW b \in Broker, NEW t \in DOMAIN tasks[b],
           FoundLocal(b, t) \/ FoundExternal(b, t) \/ FoundOrigin(b, t)
    PROVE  Private'
<1>1. /\ t \in Task /\ Shields(b, t) /\ t.do = "find" /\ t.status # "PROTECTING"
      /\ UNCHANGED <<db, used, owed>>
  BY PendingShields DEF Shields, FoundLocal, FoundExternal, FoundOrigin, Located, Running
<1> DEFINE next(do) == [t EXCEPT !.do = do]
           back == Return(t, Error(404))
           kept == Write(t, "FINISHED", t.resp)
<1>2. \A do \in Operation : /\ next(do).do = do /\ next(do).at = t.at /\ next(do).id = t.id
                            /\ next(do).req = t.req /\ next(do).status = t.status
  BY <1>1 DEF Task
<1>3. /\ back.do = "callback" /\ back.at = t.at /\ back.id = t.id
      /\ back.req = t.req /\ back.status = t.status
  BY <1>1 DEF Task, Return
<1>4. /\ kept.do = "write" /\ kept.at = t.at /\ kept.id = t.id
      /\ kept.req = t.req /\ kept.status = "FINISHED"
  BY <1>1 DEF Task, Write
<1>5. {"service", "protect", "forward", "saveThenUnprotect"} \subseteq Operation
  BY DEF Operation
<1> DEFINE SendsOn == \/ t.at = "resume"
                      \/ t.at = "request" /\ (b \notin HasPO \/ t.req.skip_po)
<1>6. CASE FoundLocal(b, t)
  <2>1. /\ t.at # "unprotect" /\ Becomes(b, t, next("service"))
        /\ "stale" \notin Faults => Home[t.req.service] = b
    BY <1>6 DEF FoundLocal, Located, Fault
  <2>2. Succeeds(b, t, next("service"))
    BY <1>1, <1>2, <1>5, <2>1 DEF Succeeds, Shields, Opening
  <2> HIDE DEF next
  <2> QED
    BY <1>1, <2>1, <2>2, OnwardPrivate
<1>7. CASE FoundExternal(b, t)
  <2>1. \/ Becomes(b, t, back)
        \/ t.at = "request" /\ Becomes(b, t, next("protect"))
        \/ SendsOn /\ Becomes(b, t, next("forward"))
    <3>1. t.at \in {"request", "resume", "forward"}
      BY <1>7 DEF FoundExternal
    <3>2. CASE t.at = "forward"
      BY <1>7, <3>2 DEF FoundExternal
    <3>3. CASE t.at = "request" /\ b \in HasPO /\ ~t.req.skip_po
      BY <1>7, <3>3 DEF FoundExternal
    <3>4. CASE t.at # "forward" /\ ~(t.at = "request" /\ b \in HasPO /\ ~t.req.skip_po)
      <4>1. Becomes(b, t, next("forward"))
        BY <1>7, <3>4 DEF FoundExternal
      <4>2. SendsOn
        BY <3>1, <3>4
      <4> QED
        BY <4>1, <4>2
    <3> QED
      BY <3>2, <3>3, <3>4
  <2>2. Succeeds(b, t, back)
    BY <1>1, <1>3 DEF Succeeds, Shields, Opening
  <2>3. t.at = "request" => Succeeds(b, t, next("protect"))
    BY <1>1, <1>2, <1>5 DEF Succeeds, Shields, Opening
  <2>4. SendsOn => Succeeds(b, t, next("forward"))
    BY <1>1, <1>2, <1>5 DEF Succeeds, Shields, Shielded, Opening
  <2> HIDE DEF next, back
  <2> QED
    BY <1>1, <2>1, <2>2, <2>3, <2>4, OnwardPrivate
<1>8. CASE FoundOrigin(b, t)
  <2>1. /\ t.at = "unprotect"
        /\ Becomes(b, t, kept) \/ Becomes(b, t, next("saveThenUnprotect"))
    BY <1>8 DEF FoundOrigin
  <2>2. Succeeds(b, t, kept) /\ Succeeds(b, t, next("saveThenUnprotect"))
    BY <1>1, <1>2, <1>4, <1>5, <2>1 DEF Succeeds, Shields, Opening
  <2> HIDE DEF next, kept
  <2> QED
    BY <1>1, <2>1, <2>2, OnwardPrivate
<1> QED
  BY <1>6, <1>7, <1>8

\* A task that becomes a write of anything but PROTECTING.
LEMMA WriteSucceeds ==
    ASSUME NEW b, NEW STATE t, t \in Task, Shields(b, t), NEW status, NEW resp,
           status # "PROTECTING"
    PROVE  Succeeds(b, t, Write(t, status, resp))
<1> DEFINE u == Write(t, status, resp)
<1>1. u.do = "write" /\ u.at = t.at /\ u.id = t.id /\ u.req = t.req /\ u.status = status
  BY DEF Write, Task
<1> HIDE DEF u
<1>2. Succeeds(b, t, u)
  BY <1>1 DEF Succeeds, Shields, Opening
<1> QED
  BY <1>2 DEF u

\* An operation after which nothing is sent.
LEMMA QuietSucceeds ==
    ASSUME NEW b, NEW STATE t, t \in Task, Shields(b, t), t.do # "write",
           NEW do \in {"served", "accepted", "delete", "started"},
           do = "started" => t.do \in {"protect", "unprotect"}
    PROVE  Succeeds(b, t, [t EXCEPT !.do = do])
<1> DEFINE u == [t EXCEPT !.do = do]
<1>1. u.do = do /\ u.at = t.at /\ u.id = t.id /\ u.req = t.req /\ u.status = t.status
  BY DEF Task
<1> HIDE DEF u
<1>2. Succeeds(b, t, u)
  BY <1>1 DEF Succeeds, Shields, Opening
<1> QED
  BY <1>2 DEF u

\* A result that is kept or returned.
LEMMA ConcludeSucceeds ==
    ASSUME NEW b, NEW STATE t, t \in Task, Shields(b, t), t.do # "write", NEW resp
    PROVE  Succeeds(b, t, Conclude(t, resp))
<1> DEFINE u == Return(t, resp)
<1>1. u.do = "callback" /\ u.at = t.at /\ u.id = t.id /\ u.req = t.req /\ u.status = t.status
  BY DEF Return, Task
<1> HIDE DEF u
<1>2. Succeeds(b, t, u)
  BY <1>1 DEF Succeeds, Shields, Opening
<1>3. Succeeds(b, t, Write(t, "FINISHED", resp))
  BY WriteSucceeds
<1> QED
  BY <1>2, <1>3 DEF Conclude, u

\* No service is found, or the lookup fails.
LEMMA NotFoundPrivate ==
    ASSUME IInv, Private, NEW b \in Broker, NEW t \in DOMAIN tasks[b], NotFound(b, t)
    PROVE  Private'
<1>1. t \in Task /\ Shields(b, t) /\ t.do = "find" /\ UNCHANGED <<db, used, owed>>
  BY PendingShields DEF NotFound, Running
<1>2. CASE Crashes(b)
  BY <1>1, <1>2, CrashFollows, OwedSame, SteadyKept DEF AllFollow
<1>3. CASE ~Crashes(b)
  <2> PICK code \in {404, 500} : Becomes(b, t, Conclude(t, Error(code)))
    BY <1>3 DEF NotFound
  <2> DEFINE u == Conclude(t, Error(code))
  <2>1. Succeeds(b, t, u)
    BY <1>1, ConcludeSucceeds
  <2>2. Becomes(b, t, u)
    OBVIOUS
  <2> HIDE DEF u
  <2> QED
    BY <1>1, <2>1, <2>2, OnwardPrivate
<1> QED
  BY <1>2, <1>3

\* A service that runs owes no callback of the PO.
LEMMA RunsOwes ==
    ASSUME IInv, Private, NEW b \in Broker, NEW t \in DOMAIN tasks[b], NEW code,
           Runs(b, t, code)
    PROVE  OwedFollows
<1> DEFINE c == [to |-> b, id |-> t.id, from |-> "service",
                 ok |-> FALSE, value |-> Computed(t.req.body)]
<1>1. t.id \in used /\ IsABag(owed)
  BY PendingShields DEF IInv, World
<1>2. c.id \in used /\ ~Clear(c)
  BY <1>1 DEF Clear, EndsProcess
<1>3. owed' = owed \/ owed' = BagAdd(owed, c)
  BY DEF Runs
<1> HIDE DEF c
<1>4. DOMAIN BagAdd(owed, c) = DOMAIN owed \cup {c}
  BY <1>1, AddedBag
<1> QED
  BY <1>2, <1>3, <1>4 DEF OwedFollows

\* RestHandler.request: a call is relocated only after a stale location.
LEMMA ServicePrivate ==
    ASSUME IInv, Private, NEW b \in Broker, NEW t \in DOMAIN tasks[b],
           \/ \E code \in {200, 202, 500} :
                  ServiceAnswers(b, t, code) \/ ServiceRunsAgain(b, t, code)
           \/ \E code \in {404, 500, 503} : ServiceFails(b, t, code)
           \/ ServiceServed(b, t) \/ ServiceMoved(b, t)
    PROVE  Private'
<1>1. t \in Task /\ Shields(b, t)
  BY PendingShields
<1>2. CASE \E code \in {200, 202, 500} : ServiceAnswers(b, t, code)
  <2> PICK code \in {200, 202, 500} : ServiceAnswers(b, t, code)
    BY <1>2
  <2> DEFINE r == Answer(code, IF code = 200 THEN Computed(t.req.body) ELSE "message")
             u == [t EXCEPT !.do = "served", !.resp = r]
  <2>1. /\ Becomes(b, t, u) /\ t.do \in {"service", "relocated"} /\ UNCHANGED <<db, used>>
        /\ Runs(b, t, code)
    BY <1>1 DEF ServiceAnswers, Running, Shields
  <2> HIDE DEF r
  <2>2. u.do = "served" /\ u.at = t.at /\ u.id = t.id /\ u.req = t.req /\ u.status = t.status
    BY <1>1 DEF Task
  <2> HIDE DEF u
  <2>3. Succeeds(b, t, u)
    BY <1>1, <2>1, <2>2 DEF Succeeds, Shields, Opening
  <2>4. AllFollow /\ OwedFollows
    BY <2>1, <2>3, OnwardFollows, RunsOwes
  <2> QED
    BY <2>1, <2>4, SteadyKept DEF AllFollow
<1>3. CASE \E code \in {200, 202, 500} : ServiceRunsAgain(b, t, code)
  BY <1>3, SameFollow, RunsOwes, SteadyKept DEF ServiceRunsAgain, AllFollow
<1>4. CASE \E code \in {404, 500, 503} : ServiceFails(b, t, code)
  <2> PICK code \in {404, 500, 503} : ServiceFails(b, t, code)
    BY <1>4
  <2> DEFINE u == Conclude(t, Error(code))
  <2>1. Becomes(b, t, u) /\ t.do # "write" /\ UNCHANGED <<db, used, owed>>
    BY DEF ServiceFails, Running
  <2>2. Succeeds(b, t, u)
    BY <1>1, <2>1, ConcludeSucceeds
  <2> HIDE DEF u
  <2> QED
    BY <2>1, <2>2, OnwardPrivate
<1>5. CASE ServiceServed(b, t)
  <2> DEFINE u == Write(t, "IN_PROGRESS", t.resp)
             v == Conclude(t, t.resp)
  <2>1. /\ Becomes(b, t, u) \/ Becomes(b, t, v)
        /\ t.do # "write" /\ UNCHANGED <<db, used, owed>>
    BY <1>5 DEF ServiceServed, Running
  <2>2. Succeeds(b, t, u) /\ Succeeds(b, t, v)
    BY <1>1, <2>1, WriteSucceeds, ConcludeSucceeds
  <2> HIDE DEF u, v
  <2> QED
    BY <2>1, <2>2, OnwardPrivate
<1>6. CASE ServiceMoved(b, t)
  <2> DEFINE u == [t EXCEPT !.do = "relocated"]
  <2>1. /\ t.do = "service" /\ ~Reaches(b, t) /\ UNCHANGED <<db, used, owed>>
        /\ Becomes(b, t, u)
    BY <1>6 DEF ServiceMoved, Running
  <2>2. "stale" \in Faults
    BY <1>1, <2>1, HomeAssumption DEF Shields, Reaches
  <2>3. u.do = "relocated" /\ u.at = t.at /\ u.id = t.id /\ u.req = t.req /\ u.status = t.status
    BY <1>1 DEF Task
  <2> HIDE DEF u
  <2>4. Succeeds(b, t, u)
    BY <1>1, <2>1, <2>2, <2>3 DEF Succeeds, Shields, Opening
  <2> QED
    BY <2>1, <2>4, OnwardPrivate
<1> QED
  BY <1>2, <1>3, <1>4, <1>5, <1>6

\* The PO owes protected data for protect(), and a result for unprotect().
LEMMA ProcessOwes ==
    ASSUME IInv, Private, NEW b \in Broker, NEW t \in DOMAIN tasks[b], NEW ok,
           t.do \in {"protect", "unprotect"}, Process(b, t, ok)
    PROVE  OwedFollows
<1> DEFINE c == [to |-> b, id |-> t.id, from |-> "po", ok |-> ok,
                 value |-> IF t.do = "protect" THEN "protected" ELSE "result"]
<1>1. t.id \in used /\ IsABag(owed) /\ Shields(b, t)
  BY PendingShields DEF IInv, World
<1>2. c.id \in used /\ c.to = b /\ (Clear(c) => Undone(b, c.id))
  BY <1>1 DEF Clear, Shields, Undone
<1>3. owed' = BagAdd(owed, c)
  BY DEF Process
<1> HIDE DEF c
<1>4. DOMAIN BagAdd(owed, c) = DOMAIN owed \cup {c}
  BY <1>1, AddedBag
<1> QED
  BY <1>2, <1>3, <1>4 DEF OwedFollows

\* protect, unprotect and their continuations.
LEMMA POPrivate ==
    ASSUME IInv, Private, NEW b \in Broker, NEW t \in DOMAIN tasks[b],
           \/ \E ok \in BOOLEAN : POStarts(b, t, ok) \/ POStartsAgain(b, t, ok)
           \/ POStarted(b, t) \/ PORefuses(b, t) \/ POSaysNothing(b, t)
    PROVE  Private'
<1>1. t \in Task /\ Shields(b, t)
  BY PendingShields
<1>2. CASE \E ok \in BOOLEAN : POStarts(b, t, ok)
  <2> DEFINE u == [t EXCEPT !.do = "started"]
  <2>1. /\ Becomes(b, t, u) /\ t.do \in {"protect", "unprotect"} /\ UNCHANGED <<db, used>>
        /\ \E ok \in BOOLEAN : Process(b, t, ok)
    BY <1>2 DEF POStarts, Running
  <2>2. Succeeds(b, t, u)
    BY <1>1, <2>1, QuietSucceeds
  <2> HIDE DEF u
  <2>3. AllFollow /\ OwedFollows
    BY <2>1, <2>2, OnwardFollows, ProcessOwes
  <2> QED
    BY <2>1, <2>3, SteadyKept DEF AllFollow
<1>3. CASE \E ok \in BOOLEAN : POStartsAgain(b, t, ok)
  <2>1. /\ UNCHANGED <<tasks, db, used>> /\ t.do \in {"protect", "unprotect"}
        /\ \E ok \in BOOLEAN : Process(b, t, ok)
    BY <1>3 DEF POStartsAgain, Running
  <2> QED
    BY <2>1, SameFollow, ProcessOwes, SteadyKept DEF AllFollow
<1>4. CASE POStarted(b, t)
  <2> DEFINE status == IF t.at = "request" THEN "PROTECTING" ELSE "UNPROTECTING"
             u == Write(t, status, Answer(200, "process"))
  <2>1. Becomes(b, t, u) /\ t.do = "started" /\ UNCHANGED <<db, used, owed>>
    BY <1>4 DEF POStarted, Running
  <2>2. u.do = "write" /\ u.at = t.at /\ u.id = t.id /\ u.req = t.req /\ u.status = status
    BY <1>1 DEF Write, Task
  <2> HIDE DEF u
  <2>3. Succeeds(b, t, u)
    BY <1>1, <2>1, <2>2 DEF Succeeds, Shields, Opening
  <2> QED
    BY <2>1, <2>3, OnwardPrivate
<1>5. CASE PORefuses(b, t)
  <2> DEFINE u == Write(t, "FINISHED", Error(503))
  <2>1. Becomes(b, t, u) /\ UNCHANGED <<db, used, owed>>
    BY <1>5 DEF PORefuses
  <2>2. Succeeds(b, t, u)
    BY <1>1, WriteSucceeds
  <2> HIDE DEF u
  <2> QED
    BY <2>1, <2>2, OnwardPrivate
<1>6. CASE POSaysNothing(b, t)
  BY <1>6, DoneFollows, OwedSame, SteadyKept DEF POSaysNothing, AllFollow
<1> QED
  BY <1>2, <1>3, <1>4, <1>5, <1>6

-----------------------------------------------------------------------------
(* The operations that change a collection. *)

\* What is pending for an id has been handed out with it.
LEMMA FollowersUsed ==
    ASSUME IInv, AllFollow, NEW b \in Broker, NEW u \in DOMAIN tasks'[b], Opening(u)
    PROVE  \/ u.id \in used' \ used
           \/ \E t \in DOMAIN tasks[b] : t.id = u.id /\ Opening(t)
BY DEF AllFollow, Follows, Joins

\* Documents that do not get a response stay unopened.
LEMMA EmptiedKept ==
    ASSUME IInv, Private, AllFollow, UNCHANGED used, OwedFollows,
           \A b \in Broker, i \in Id : db'[b][i] \in {db[b][i], NoDoc}
    PROVE  Private'
<1>1. ASSUME NEW b \in Broker, NEW u \in DOMAIN tasks'[b], Opening(u)
      PROVE  Unopened(b, u.id)'
  <2>1. PICK t \in DOMAIN tasks[b] : t.id = u.id /\ Opening(t)
    BY <1>1, FollowersUsed
  <2>2. Unopened(b, u.id) /\ u.id \in Id
    BY <2>1, PendingIsTask DEF Private, OpensFresh, IInv
  <2> QED
    BY <2>2 DEF Unopened
<1>2. \A b \in Broker : OpensFresh(b)'
  BY <1>1 DEF OpensFresh
<1> QED
  BY <1>2, PrivateKept DEF Has, Protects, AllFollow

\* A document that is created is unopened.
LEMMA CreatedKept ==
    ASSUME IInv, Private, AllFollow, OwedFollows, NEW b \in Broker, NEW i \in Id \ used,
           NEW origin \in {"local", "external"}, NEW STATE req, req \in Request,
           db' = [db EXCEPT ![b][i] = createRequest(origin, req)],
           used' = used \cup {i}
    PROVE  Private'
<1> DEFINE d == createRequest(origin, req)
<1>1. d.status = "IN_PROGRESS" /\ Len(d.log) = 0
  BY DEF createRequest
<1> HIDE DEF d
<1>2. \A c \in Broker, j \in Id :
          db'[c][j] = IF c = b /\ j = i THEN d ELSE db[c][j]
  BY DEF d, IInv, Brokers, Stores
<1>3. ASSUME NEW c \in Broker, NEW u \in DOMAIN tasks'[c], Opening(u)
      PROVE  Unopened(c, u.id)'
  <2>1. CASE u.id \in used' \ used
    <3>1. u.id = i /\ db[c][i] = NoDoc
      BY <2>1 DEF IInv, Brokers, Docs
    <3> QED
      BY <1>1, <1>2, <3>1 DEF Unopened
  <2>2. CASE \E t \in DOMAIN tasks[c] : t.id = u.id /\ Opening(t)
    <3>1. Unopened(c, u.id) /\ u.id \in used /\ u.id \in Id
      BY <2>2, PendingIsTask DEF Private, OpensFresh, IInv
    <3> QED
      BY <1>2, <3>1 DEF Unopened
  <2> QED
    BY <1>3, <2>1, <2>2, FollowersUsed
<1>4. \A c \in Broker : OpensFresh(c)'
  BY <1>3 DEF OpensFresh
<1>5. ASSUME NEW c \in Broker, NEW j \in Id, Has(c, j, "PROTECTING")'
      PROVE  Protects(c, j)
  BY <1>1, <1>2, <1>5 DEF Has, Protects
<1> QED
  BY <1>4, <1>5, PrivateKept DEF AllFollow

\* What follows a write: no request() of that id is left on its way.
LEMMA AfterWriteFollows ==
    ASSUME IInv, Private, UNCHANGED used, NEW b \in Broker, NEW t \in DOMAIN tasks[b],
           t.do \in Writes \cup {"delete"}, AfterWrite(b, t)
    PROVE  /\ AllFollow
           /\ \A w \in DOMAIN tasks'[b] : w.id = t.id => ~Opening(w)
<1>1. /\ t \in Task /\ Shields(b, t) /\ DOMAIN tasks = Broker
      /\ IsABag(tasks[b]) /\ AloneIn(tasks[b])
  BY PendingShields DEF IInv, Brokers, Tasks, Private
<1>2. /\ IsABag(BagRemove(tasks[b], t))
      /\ \A w \in DOMAIN BagRemove(tasks[b], t) : w.id = t.id => ~Opening(w)
  BY <1>1, RemovedAlone, RemovedBag
<1>3. CASE Done(b, t)
  BY <1>1, <1>2, <1>3, DoneFollows DEF Done, Drop
<1>4. CASE Crashes(b)
  BY <1>1, <1>4, CrashFollows, EmptyIsBag DEF Crashes
<1>5. ASSUME NEW STATE u, Succeeds(b, t, u), ~Opening(u), Becomes(b, t, u)
      PROVE  /\ AllFollow
             /\ \A w \in DOMAIN tasks'[b] : w.id = t.id => ~Opening(w)
  <2> DEFINE rest == BagRemove(tasks[b], t)
  <2>1. tasks'[b] = BagAdd(rest, u)
    BY <1>1, <1>5 DEF Becomes, Swap
  <2> HIDE DEF rest
  <2>2. DOMAIN BagAdd(rest, u) = DOMAIN rest \cup {u}
    BY <1>2, AddedBag DEF rest
  <2> QED
    BY <1>2, <1>5, <2>1, <2>2, OnwardFollows DEF rest
<1>6. CASE t.do = "saveThenUnprotect" /\ ~Crashes(b)
  <2> DEFINE u == [t EXCEPT !.do = "unprotect",
                            !.resp.unprotectParams = t.log[2].unprotectParams]
             w == Write(t, "FINISHED", t.resp)
  <2>1. Becomes(b, t, u) \/ Becomes(b, t, w)
    BY <1>6 DEF AfterWrite
  <2>2. u.do = "unprotect" /\ u.at = t.at /\ u.id = t.id /\ u.req = t.req /\ u.status = t.status
    BY <1>1 DEF Task
  <2>3. w.at = t.at
    BY <1>1 DEF Write, Task
  <2>4. Succeeds(b, t, w)
    BY <1>1, WriteSucceeds
  <2> HIDE DEF u, w
  <2>5. t.at = "unprotect" /\ Succeeds(b, t, u) /\ ~Opening(u) /\ ~Opening(w)
    BY <1>1, <1>6, <2>2, <2>3 DEF Succeeds, Shields, Opening
  <2> QED
    BY <1>5, <2>1, <2>4, <2>5
<1> QED
  BY <1>3, <1>4, <1>6 DEF AfterWrite, Writes

\* updateRequest completes: PROTECTING is written by the request() of the id,
\* and nothing is by others while it is on its way.
LEMMA ApplyWritePrivate ==
    ASSUME IInv, Private, NEW b \in Broker, NEW t \in DOMAIN tasks[b], ApplyWrite(b, t)
    PROVE  Private'
<1>1. /\ t \in Task /\ t.id \in Id /\ t.id \in used /\ Shields(b, t) /\ t.do \in Writes
      /\ UNCHANGED <<owed, used>> /\ AfterWrite(b, t)
      /\ db' = [db EXCEPT ![b] = updateRequest(db[b], t.id, t.status, t.resp)]
  BY PendingShields, PendingIsTask DEF ApplyWrite, Running, IInv
<1>2. /\ AllFollow
      /\ \A w \in DOMAIN tasks'[b] : w.id = t.id => ~Opening(w)
  BY <1>1, AfterWriteFollows
<1>3. db \in [Broker -> Stores] /\ t.status \in Status /\ t.resp \in Response
  BY <1>1 DEF IInv, Brokers, Task
<1> DEFINE s == updateRequest(db[b], t.id, t.status, t.resp)
<1>4. \A j \in Id : /\ j # t.id => s[j] = db[b][j]
                    /\ j = t.id /\ s[j] # NoDoc => s[j].status = t.status
  BY <1>1, <1>3, UpdatedStore
<1> HIDE DEF s
<1>5. \A c \in Broker, j \in Id :
          /\ ~(c = b /\ j = t.id) => db'[c][j] = db[c][j]
          /\ c = b /\ j = t.id /\ db'[c][j] # NoDoc => db'[c][j].status = t.status
  BY <1>1, <1>3, <1>4 DEF s
<1>6. ASSUME NEW c \in Broker, NEW u \in DOMAIN tasks'[c], Opening(u)
      PROVE  Unopened(c, u.id)'
  <2>1. PICK w \in DOMAIN tasks[c] : w.id = u.id /\ Opening(w)
    BY <1>1, <1>2, <1>6, FollowersUsed
  <2>2. Unopened(c, u.id) /\ u.id \in Id
    BY <2>1, PendingIsTask DEF Private, OpensFresh, IInv
  <2>3. ~(c = b /\ u.id = t.id)
    BY <1>2, <1>6
  <2> QED
    BY <1>5, <2>2, <2>3 DEF Unopened
<1>7. \A c \in Broker : OpensFresh(c)'
  BY <1>6 DEF OpensFresh
<1>8. ASSUME NEW c \in Broker, NEW j \in Id, Has(c, j, "PROTECTING")'
      PROVE  Protects(c, j)
  <2>1. CASE c = b /\ j = t.id
    <3>1. t.status = "PROTECTING"
      BY <1>5, <1>8, <2>1 DEF Has
    <3>2. Opening(t)
      BY <1>1, <3>1 DEF Shields, Opening
    <3> QED
      BY <2>1, <3>2 DEF Protects
  <2>2. CASE ~(c = b /\ j = t.id)
    BY <1>5, <1>8, <2>2 DEF Has, Protects
  <2> QED
    BY <2>1, <2>2
<1> QED
  BY <1>1, <1>2, <1>7, <1>8, OwedSame, PrivateKept DEF AllFollow

\* A write that fails, a deletion that completes.
LEMMA RemovalPrivate ==
    ASSUME IInv, Private, NEW b \in Broker, NEW t \in DOMAIN tasks[b],
           WriteFails(b, t) \/ Delete(b, t)
    PROVE  Private'
<1>1. CASE WriteFails(b, t)
  <2>1. UNCHANGED <<db, used, owed>> /\ t.do \in Writes \cup {"delete"} /\ AfterWrite(b, t)
    BY <1>1 DEF WriteFails, Running
  <2>2. AllFollow
    BY <2>1, AfterWriteFollows
  <2> QED
    BY <2>1, <2>2, OwedSame, SteadyKept DEF AllFollow
<1>2. CASE Delete(b, t)
  <2>1. db' = [db EXCEPT ![b] = [db[b] EXCEPT ![t.id] = NoDoc]] /\ UNCHANGED <<used, owed>>
    BY <1>2 DEF Delete, deleteRequest
  <2>2. \A c \in Broker, i \in Id : db'[c][i] \in {db[c][i], NoDoc}
    BY <2>1 DEF IInv, Brokers, Stores
  <2>3. AllFollow
    BY <1>2, DoneFollows DEF Delete
  <2> QED
    BY <2>1, <2>2, <2>3, OwedSame, EmptiedKept
<1> QED
  BY <1>1, <1>2

\* The process stops, or starts again.
LEMMA RestartPrivate ==
    ASSUME IInv, Private, NEW b \in Broker, Stop(b) \/ Restart(b)
    PROVE  Private'
<1>1. CASE Stop(b)
  BY <1>1, CrashFollows, OwedSame, SteadyKept DEF Stop, AllFollow
<1>2. CASE Restart(b)
  <2>1. \A c \in Broker, i \in Id : db'[c][i] \in {db[c][i], NoDoc}
    BY <1>2 DEF Restart, IInv, Brokers, Stores
  <2> QED
    BY <1>2, <2>1, SameFollow, OwedSame, EmptiedKept DEF Restart
<1> QED
  BY <1>1, <1>2

\* A new request begins its request(), alone under its id.
LEMMA CreatePrivate ==
    ASSUME IInv, Private, NEW b \in Broker, NEW i \in ClientId, NEW s \in Service,
           NEW skip \in BOOLEAN, Create(b, i, s, skip)
    PROVE  Private'
<1> DEFINE req == [service |-> s, skip_po |-> skip, body |-> "data", original_id |-> NoId]
           u == Work("find", "request", i, req)
<1>1. req \in Request /\ i \in Id \ used
  BY IdAssumption DEF Create, Request, Body
<1>2. /\ db' = [db EXCEPT ![b][i] = createRequest("local", req)]
      /\ tasks' = Start(b, u) /\ used' = used \cup {i} /\ owed' = owed
  BY DEF Create
<1>3. u.id = i /\ u.at = "request" /\ u.do = "find" /\ u.status = "IN_PROGRESS"
  BY DEF Work
<1> HIDE DEF req, u
<1>4. Joins(b, u)
  BY <1>1, <1>2, <1>3 DEF Joins, Shields
<1>5. \A w \in DOMAIN tasks[b] : w.id # i
  BY <1>1, PendingShields
<1>6. AllFollow
  BY <1>2, <1>3, <1>4, <1>5, StartFollows
<1> QED
  BY <1>1, <1>2, <1>6, OwedSame, CreatedKept

\* A finished request has no request() on its way.
LEMMA GetResultPrivate ==
    ASSUME IInv, Private, NEW b \in Broker, NEW i \in ClientId, GetResult(b, i)
    PROVE  Private'
<1> DEFINE u == Work("delete", "request", i, db[b][i].request)
<1>1. /\ Has(b, i, "FINISHED") /\ tasks' = Start(b, u) /\ UNCHANGED <<db, used, owed>>
      /\ i \in used
  BY IdAssumption DEF GetResult, Has, IInv, Brokers, Docs
<1>2. u.id = i /\ u.at = "request" /\ u.do = "delete" /\ u.status = "IN_PROGRESS"
  BY DEF Work
<1> HIDE DEF u
<1>3. Joins(b, u) /\ ~Opening(u)
  BY <1>1, <1>2 DEF Joins, Shields, Opening
<1>4. \A w \in DOMAIN tasks[b] : w.id = u.id => ~Opening(w)
  BY <1>1, <1>2 DEF Private, OpensFresh, Unopened, Has
<1>5. AllFollow
  BY <1>1, <1>3, <1>4, StartFollows
<1> QED
  BY <1>1, <1>5, OwedSame, SteadyKept DEF AllFollow

\* The peer begins its forward(), which is no request().
LEMMA ForwardAcceptedPrivate ==
    ASSUME IInv, Private, NEW b \in Broker, NEW t \in DOMAIN tasks[b], NEW j \in Id,
           ForwardAccepted(b, t, j)
    PROVE  Private'
<1> DEFINE req == [t.req EXCEPT !.original_id = t.id, !.skip_po = FALSE]
           u == [t EXCEPT !.do = "accepted"]
           v == Work("find", "forward", j, req)
           p == Peer[b]
<1>1. /\ t \in Task /\ t.id \in Id /\ Shields(b, t) /\ t.do = "forward"
      /\ p \in Broker /\ p # b /\ DOMAIN tasks = Broker
  BY PendingShields, PendingIsTask, PeerIsBroker DEF ForwardAccepted, Running, IInv, Brokers, Tasks
<1>2. req \in Request
  BY <1>1 DEF Task, Request
<1>3. /\ j \in Id \ used /\ used' = used \cup {j} /\ owed' = owed
      /\ db' = [db EXCEPT ![p][j] = createRequest("external", req)]
  BY DEF ForwardAccepted, Accept
<1>4. \/ tasks' = [Swap(b, t, u) EXCEPT ![p] = BagAdd(@, v)]
      \/ tasks' = [tasks EXCEPT ![p] = BagAdd(@, v)]
  BY DEF ForwardAccepted, Accept, Start
<1>5. v.id = j /\ v.at = "forward" /\ v.do = "find" /\ v.status = "IN_PROGRESS"
  BY DEF Work
<1>6. Succeeds(b, t, u)
  BY <1>1, QuietSucceeds
<1> HIDE DEF req, u, v, p
<1>7. Joins(p, v) /\ ~Opening(v)
  BY <1>3, <1>5 DEF Joins, Shields, Opening
<1>8. \A w \in DOMAIN tasks[p] : w.id = v.id => ~Opening(w)
  BY <1>1, <1>3, <1>5, PendingShields
<1>9. AllFollow
  BY <1>3, <1>4, <1>6, <1>7, <1>8, CallFollows DEF p
<1> QED
  BY <1>1, <1>2, <1>3, <1>9, OwedSame, CreatedKept

\* A result is taken for FORWARDED requests only.
LEMMA CallbackTakenPrivate ==
    ASSUME IInv, Private, NEW b \in Broker, NEW t \in DOMAIN tasks[b], CallbackTaken(b, t)
    PROVE  Private'
<1> DEFINE p == Peer[b]
           i == t.req.original_id
           started == TakeResult(p, i, t.resp)
           v == CHOOSE u \in started : TRUE
           lost == [t EXCEPT !.do = "delete"]
<1>1. /\ t \in Task /\ Shields(b, t) /\ t.do = "callback" /\ UNCHANGED <<db, used, owed>>
      /\ p \in Broker
  BY PendingShields, PeerIsBroker DEF CallbackTaken, Running
<1>2. i \in Id
  BY <1>1 DEF IInv, Brokers, Tasks, Sound, Addressed
<1>3. Succeeds(b, t, lost)
  BY <1>1, QuietSucceeds
<1>4. ASSUME started # {}
      PROVE  /\ Joins(p, v) /\ ~Opening(v)
             /\ \A w \in DOMAIN tasks[p] : w.id = v.id => ~Opening(w)
  <2> DEFINE doc == db[p][i]
             found == [Work("find", "unprotect", i, doc.request) EXCEPT
                           !.resp = t.resp, !.log = doc.log]
             failed == Write(found, "FINISHED", t.resp)
  <2>1. doc # NoDoc /\ doc.status = "FORWARDED" /\ i \in used
    BY <1>1, <1>2, <1>4 DEF TakeResult, IInv, Brokers, Docs
  <2>2. v \in started
    BY <1>4
  <2>3. started \subseteq {found, failed}
    BY DEF TakeResult
  <2>4. /\ found.id = i /\ found.at = "unprotect" /\ found.do = "find"
        /\ found.status = "IN_PROGRESS"
        /\ failed.id = i /\ failed.at = "unprotect" /\ failed.do = "write"
        /\ failed.status = "FINISHED"
    BY DEF Work, Write
  <2> HIDE DEF v, started, p, i, found, failed
  <2>5. v = found \/ v = failed
    BY <2>2, <2>3
  <2>6. Has(p, i, "FORWARDED")
    BY <2>1 DEF Has
  <2>7. v.id = i /\ Joins(p, v) /\ ~Opening(v)
    BY <1>1, <2>1, <2>4, <2>5, <2>6 DEF Joins, Shields, Opening
  <2>8. \A w \in DOMAIN tasks[p] : w.id = i => ~Opening(w)
    BY <1>1, <2>6 DEF Private, OpensFresh, Unopened, Has
  <2> QED
    BY <2>7, <2>8
<1>5. \E mine \in {tasks, Swap(b, t, lost)} :
          tasks' = IF started = {} THEN mine ELSE [mine EXCEPT ![p] = BagAdd(@, v)]
  BY DEF CallbackTaken
<1> HIDE DEF started, v, lost
<1>6. \E mine \in {tasks, Swap(b, t, lost)} :
          \/ tasks' = mine
          \/ /\ tasks' = [mine EXCEPT ![p] = BagAdd(@, v)]
             /\ Joins(p, v) /\ ~Opening(v)
             /\ \A w \in DOMAIN tasks[p] : w.id = v.id => ~Opening(w)
  BY <1>4, <1>5
<1>7. AllFollow
  BY <1>1, <1>3, <1>6, CallFollows
<1> QED
  BY <1>1, <1>7, OwedSame, SteadyKept DEF AllFollow

\* The peer's 202 is written, or its call fails.
LEMMA PeerPrivate ==
    ASSUME IInv, Private, NEW b \in Broker, NEW t \in DOMAIN tasks[b],
           \/ ForwardAcked(b, t) \/ PeerFails(b, t)
           \/ PeerUnreachable(b, t) \/ CallAbandoned(b, t)
    PROVE  Private'
<1>1. /\ t \in Task /\ Shields(b, t) /\ t.do \in {"accepted", "forward", "callback"}
      /\ UNCHANGED <<db, used, owed>>
  BY PendingShields
     DEF ForwardAcked, PeerFails, PeerUnreachable, CallAbandoned, Running
<1>2. CASE ForwardAcked(b, t)
  <2> DEFINE u == Write(t, "FORWARDED", [Error(202) EXCEPT !.unprotectParams = (t.at = "resume")])
  <2>1. Becomes(b, t, u) /\ Succeeds(b, t, u)
    BY <1>1, <1>2, WriteSucceeds DEF ForwardAcked
  <2> HIDE DEF u
  <2> QED
    BY <1>1, <2>1, OnwardPrivate
<1>3. CASE PeerFails(b, t)
  <2> DEFINE u == Write(t, "FINISHED", Error(500))
             v == [t EXCEPT !.do = "delete"]
  <2>1. Becomes(b, t, u) \/ Becomes(b, t, v)
    BY <1>3 DEF PeerFails
  <2>2. Succeeds(b, t, u) /\ Succeeds(b, t, v)
    BY <1>1, WriteSucceeds, QuietSucceeds
  <2> HIDE DEF u, v
  <2> QED
    BY <1>1, <2>1, <2>2, OnwardPrivate
<1>4. CASE PeerUnreachable(b, t)
  BY <1>1, <1>4, CrashFollows, OwedSame, SteadyKept DEF PeerUnreachable, AllFollow
<1>5. CASE CallAbandoned(b, t)
  BY <1>1, <1>5, DoneFollows, OwedSame, SteadyKept DEF CallAbandoned, AllFollow
<1> QED
  BY <1>2, <1>3, <1>4, <1>5

-----------------------------------------------------------------------------
(* Callbacks of the PO and of the services. *)

\* What requestCallback() resumes request() with was protected: the request is
\* PROTECTING, so no callback of unprotect() is owed to it.
LEMMA ContinuationJoins ==
    ASSUME IInv, Private, NEW c \in DOMAIN owed, UNCHANGED used,
           db[c.to][c.id] # NoDoc, ~Unreadable(db[c.to][c.id]),
           NEW u \in Continuation(db[c.to][c.id], c)
    PROVE  /\ Joins(c.to, u) /\ ~Opening(u)
           /\ \A w \in DOMAIN tasks[c.to] : w.id = u.id => ~Opening(w)
<1> DEFINE doc == db[c.to][c.id]
           t == Work("write", "callback", c.id, doc.request)
           resumed == [t EXCEPT !.do = "find", !.at = "resume", !.req.body = c.value]
<1>1. /\ c \in Callback /\ c.to \in Broker /\ c.id \in Id /\ c.id \in used
      /\ doc \in Doc
  BY DEF IInv, World, Callback, Brokers, Stores, Private
<1>2. /\ t \in Task /\ t.id = c.id /\ t.at = "callback" /\ t.do = "write"
      /\ t.req = doc.request /\ t.status = "IN_PROGRESS"
  BY <1>1, WorkIsTask DEF Doc, Operation, Stage, Work
<1> HIDE DEF t
<1>3. ASSUME doc.status = "PROTECTING", EndsProcess(c)
      PROVE  u.id = c.id /\ Joins(c.to, u) /\ ~Opening(u)
  <2>1. u = resumed
    BY <1>3 DEF Continuation, t
  <2>2. /\ u.id = c.id /\ u.at = "resume" /\ u.do = "find" /\ u.status = "IN_PROGRESS"
        /\ u.req.body = c.value
    BY <1>2, <2>1 DEF Task, Request
  <2>3. Protects(c.to, c.id)
    BY <1>3 DEF Protects, Has
  <2>4. c.value = "protected"
    BY <1>1, <1>3, <2>3 DEF Private, Undone, Clear
  <2> QED
    BY <1>1, <2>2, <2>4 DEF Joins, Shields, Opening
<1>4. ASSUME ~(doc.status = "PROTECTING" /\ EndsProcess(c))
      PROVE  u.id = c.id /\ Joins(c.to, u) /\ ~Opening(u)
  <2> DEFINE value == IF c.from = "po" THEN "envelope" ELSE c.value
             failed == Write(t, "FINISHED", Error(500))
             dropped == [failed EXCEPT !.do = "writeNoCallback"]
             unprotected == Write(t, "FINISHED", Answer(200, c.value))
             kept == Write(t, "FINISHED", Answer(200, value))
             own == Return([t EXCEPT !.req.original_id = c.id], Answer(200, c.value))
             returned == Return(t, Answer(200, value))
             Quiet(w) == /\ w.id = c.id /\ w.at = "callback"
                         /\ w.do \in {"write", "writeNoCallback", "callback"}
                         /\ w.status \in {"FINISHED", "IN_PROGRESS"}
  <2>1. Quiet(failed) /\ Quiet(dropped) /\ Quiet(unprotected) /\ Quiet(kept)
    BY <1>2 DEF Write, Task
  <2>2. Quiet(own) /\ Quiet(returned)
    BY <1>2 DEF Return, Task
  <2>3. u \in {failed, dropped, unprotected, kept, own, returned}
    BY <1>4 DEF Continuation, t
  <2> HIDE DEF failed, dropped, unprotected, kept, own, returned, Quiet
  <2>4. Quiet(u)
    BY <2>1, <2>2, <2>3
  <2> QED
    BY <1>1, <2>4 DEF Quiet, Joins, Shields, Opening
<1>5. \A w \in DOMAIN tasks[c.to] : w.id = c.id => ~Opening(w)
  BY <1>1 DEF Private, OpensFresh, Unopened, Unreadable
<1> QED
  BY <1>3, <1>4, <1>5

\* A callback arrives, is repeated or gets lost.
LEMMA CallbackPrivate ==
    ASSUME IInv, Private, NEW c \in DOMAIN owed, RequestCallback(c) \/ CallbackLost(c)
    PROVE  Private'
<1> DEFINE doc == db[c.to][c.id]
           started == Continuation(doc, c)
           v == CHOOSE u \in started : TRUE
<1>1. /\ UNCHANGED <<db, used>> /\ c.to \in Broker
      /\ owed' \in {owed, BagRemove(owed, c)} /\ IsABag(owed)
  BY DEF RequestCallback, CallbackLost, IInv, World, Callback
<1>2. OwedFollows
  BY <1>1, OwedSame, RemovedBag
<1>3. \/ UNCHANGED tasks
      \/ Crashes(c.to)
      \/ /\ doc # NoDoc /\ ~Unreadable(doc) /\ started # {}
         /\ tasks' = Start(c.to, v)
  BY DEF RequestCallback, CallbackLost
<1>4. ASSUME doc # NoDoc, ~Unreadable(doc), started # {}, tasks' = Start(c.to, v)
      PROVE  AllFollow
  <2>1. v \in started
    BY <1>4
  <2>2. /\ Joins(c.to, v) /\ ~Opening(v)
        /\ \A w \in DOMAIN tasks[c.to] : w.id = v.id => ~Opening(w)
    BY <1>1, <1>4, <2>1, ContinuationJoins
  <2> HIDE DEF v
  <2> QED
    BY <1>1, <1>4, <2>2, StartFollows
<1> HIDE DEF started, v
<1>5. AllFollow
  BY <1>1, <1>3, <1>4, SameFollow, CrashFollows
<1> QED
  BY <1>1, <1>2, <1>5, SteadyKept DEF AllFollow

-----------------------------------------------------------------------------
\* Nothing is pending at the start ...
LEMMA InitPrivate == Init => Private
BY EmptyIsBag DEF Init, Private, AloneIn, OpensFresh, Undone, Protects, Has

\* ... and every step keeps the data private.
LEMMA NextPrivate ==
    ASSUME IInv, Private, [Next]_vars
    PROVE  Private'
<1>1. ASSUME NEW b \in Broker, NEW t \in DOMAIN tasks[b], Complete(b, t) PROVE Private'
  <2>1. CASE ApplyWrite(b, t)
    BY <2>1, ApplyWritePrivate
  <2>2. CASE WriteFails(b, t) \/ Delete(b, t)
    BY <2>2, RemovalPrivate
  <2>3. CASE FoundLocal(b, t) \/ FoundExternal(b, t) \/ FoundOrigin(b, t)
    BY <2>3, FoundPrivate
  <2>4. CASE \E j \in Id : ForwardAccepted(b, t, j)
    BY <2>4, ForwardAcceptedPrivate
  <2>5. CASE \/ ForwardAcked(b, t) \/ PeerFails(b, t)
             \/ PeerUnreachable(b, t) \/ CallAbandoned(b, t)
    BY <2>5, PeerPrivate
  <2> QED
    BY <1>1, <2>1, <2>2, <2>3, <2>4, <2>5, NotFoundPrivate, ServicePrivate, POPrivate,
       CallbackTakenPrivate DEF Complete
<1>2. CASE UNCHANGED vars
  BY <1>2, SameFollow, OwedSame, SteadyKept DEF vars, AllFollow
<1>3. CASE Client
  BY <1>3, CreatePrivate, GetResultPrivate DEF Client
<1>4. ASSUME NEW c \in DOMAIN owed, RequestCallback(c) \/ CallbackLost(c) PROVE Private'
  BY <1>4, CallbackPrivate
<1>5. ASSUME NEW b \in Broker, Stop(b) \/ Restart(b) PROVE Private'
  BY <1>5, RestartPrivate
<1> QED
  BY <1>1, <1>2, <1>3, <1>4, <1>5 DEF Next, Progress

\* While no location is out of date, whatever else fails, is repeated, delayed or
\* restarted: what a broker with a PO sends out of its domain was protected, or
\* its client asked to skip the PO.
THEOREM NothingLeavesInClear ==
    ASSUME "stale" \notin Faults
    PROVE  Spec => []RawDataStaysHome
<1>1. IInv /\ Private /\ [Next]_vars => Private'
  BY NextPrivate
<1>2. Private => RawDataStaysHome
  BY DEF Private, Shields, Shielded, RawDataStaysHome
<1> QED
  BY <1>1, <1>2, InitPrivate, Invariance, InitIInv, StepIInv, PTL DEF Spec
=============================================================================

-------------------------- MODULE LifecycleProofs --------------------------
(***************************************************************************)
(* What the brokers promise while they keep running.  If the environment   *)
(* is Orderly, then no handler raises an exception (BrokersStayUp), the    *)
(* place where a handler looks for an earlier response holds that response *)
(* (UnprotectingFollowsResult, UnprotectParamsKept), no request waits for  *)
(* nothing (NothingStranded), a client that is told of success has the     *)
(* result in clear (SuccessIsTheResult), and the two brokers implement     *)
(* RequestLifecycle (KeepsLifecycle).                                      *)
(*                                                                         *)
(* All of these rest on one fact: although operations complete in any      *)
(* order, a request is at one place at a time.  It has one pending task,   *)
(* or it waits for one kind of callback, or it is at the peer, and its     *)
(* document tells which.  The invariant says which document, task and      *)
(* callbacks go together (SlotOK).                                         *)
(***************************************************************************)
EXTENDS ForwardingProofs

(***************************************************************************)
(* Nobody calls back before its answer is recorded, every broker has a PO, *)
(* and of the faults those may happen that a handler has an answer to:     *)
(* calls of services and peers are repeated and callbacks lost, lookups    *)
(* fail or are out of date, the PO refuses, says nothing, or fails to      *)
(* protect.                                                                *)
(***************************************************************************)
Orderly ==
    /\ Early = {} /\ HasPO = Broker
    /\ Faults \subseteq {"retry", "lost", "lookup", "stale", "po", "empty", "protect"}

NoStale == "stale" \notin Faults

\* what was started is answered
Sure == Faults \cap {"lost", "empty"} = {}

Of(B, i) == {t \in DOMAIN B : t.id = i}

TasksOf(b, i) == Of(tasks[b], i)
OwedTo(b, i)  == {c \in DOMAIN owed : c.to = b /\ c.id = i}

Deployed(req) == Home[req.service] # Nowhere
Away(b, req)  == Deployed(req) /\ (NoStale => Home[req.service] # b)

-----------------------------------------------------------------------------
(* Tasks by what they are part of. *)

Writing(t, status) == t.do = "write" /\ t.status = status

Protecting(t) == t.do \in {"protect", "started"} \/ Writing(t, "PROTECTING")
Passing(t)    == t.do \in {"forward", "accepted"} \/ Writing(t, "FORWARDED")
Serves(t)     == t.do \in {"service", "relocated", "served"} \/ Writing(t, "IN_PROGRESS")
Ends(t)       == Writing(t, "FINISHED")

\* the PO works, or has just accepted to
Processes(t) == \/ t.do = "started"
                \/ Writing(t, "PROTECTING") \/ Writing(t, "UNPROTECTING")

\* the service said that it will call back
Promised(t) == Writing(t, "IN_PROGRESS") \/ (t.do = "served" /\ t.resp.status = 202)

(* Documents by what is in them. *)

Fresh(d) == d.status = "IN_PROGRESS" /\ Len(d.log) = 0

\* the result of the peer, before the PO is asked to unprotect it
Saved(d) == /\ d.status = "IN_PROGRESS" /\ Len(d.log) = 3
            /\ d.log[3].body = "protectedResult"

Stored(b, d) ==
    /\ d.origin = "local" => d.request.body = "data"
    /\ d.status = "PROTECTING" =>
           Len(d.log) = 1 /\ ~d.request.skip_po /\ Away(b, d.request)
    /\ d.status = "FORWARDED" =>
           /\ Deployed(d.request)
           /\ ~d.request.skip_po => Len(d.log) = 2 /\ d.log[2].unprotectParams
    /\ d.status = "UNPROTECTING" =>
           Len(d.log) = 4 /\ d.log[3].body = "protectedResult" /\ d.log[4].body = "process"
    /\ d.status = "FINISHED" /\ NoStale /\ lastResponse(d).status = 200 =>
           lastResponse(d).body = "result"

-----------------------------------------------------------------------------
(* The document that a task of each function finds. *)

OpenAt(b, t, d) ==
    /\ d.origin = "local" /\ Fresh(d) /\ t.req = d.request
    /\ t.do = "find" \/ Protecting(t) \/ Passing(t) \/ Serves(t) \/ Ends(t)
    /\ Protecting(t) => ~t.req.skip_po /\ Away(b, t.req)
    /\ Passing(t) => t.req.skip_po /\ Deployed(t.req)

ResumeAt(t, d) ==
    /\ d.origin = "local" /\ d.status = "PROTECTING"
    /\ t.req = [d.request EXCEPT !.body = "protected"]
    /\ t.do = "find" \/ Passing(t) \/ Serves(t) \/ Ends(t)
    /\ NoStale => ~Serves(t)
    /\ Writing(t, "FORWARDED") => t.resp.unprotectParams

ForwardAt(t, d) ==
    /\ d.origin = "external" /\ Fresh(d) /\ t.req = d.request
    /\ t.do \in {"find", "callback"} \/ Serves(t)

UnprotectAt(t, d) ==
    /\ d.origin = "local" /\ t.req = d.request
    /\ \/ /\ d.status = "FORWARDED" /\ t.log = d.log /\ t.status = "IN_PROGRESS"
          /\ t.do = "find" \/ (t.do = "saveThenUnprotect" /\ ~t.req.skip_po)
       \/ d.status = "FORWARDED" /\ Ends(t)
       \/ Saved(d) /\ (t.do = "started" \/ Writing(t, "UNPROTECTING") \/ Ends(t))
       \/ Saved(d) /\ t.do = "unprotect" /\ t.resp.unprotectParams

CallbackAt(t, d) ==
    \/ d.origin = "local" /\ Ends(t) /\ d.status \notin {"FORWARDED", "FINISHED"}
    \/ d.origin = "external" /\ t.do = "callback" /\ t.req = d.request

Placed(b, t, d) ==
    /\ t.at = "request" => OpenAt(b, t, d)
    /\ t.at = "resume" => ResumeAt(t, d)
    /\ t.at = "forward" => ForwardAt(t, d)
    /\ t.at = "unprotect" => UnprotectAt(t, d)
    /\ t.at = "callback" => CallbackAt(t, d)

\* the response a task carries
Carries(t) ==
    /\ t.do \in {"served", "callback"} /\ t.resp.status = 200 =>
           t.resp.body = Computed(t.req.body)
    /\ t.do = "callback" => t.resp.status # 202
    /\ t.do \in {"find", "saveThenUnprotect"} /\ t.at = "unprotect" =>
           t.resp.body = IF t.req.skip_po THEN "result" ELSE "protectedResult"
    /\ Writing(t, "UNPROTECTING") => t.resp.body = "process"
    /\ Ends(t) /\ NoStale /\ t.resp.status = 200 => t.resp.body = "result"

-----------------------------------------------------------------------------
(* The callbacks C that may be owed. *)

Serving(C) == \A c \in C : c.from = "service"

\* one, of the PO: that of protect(), or that of unprotect(), which succeeds
Processing(C, value) ==
    /\ Sure => C # {}
    /\ \A c \in C : /\ c.from = "po" /\ c.value = value
                    /\ value = "result" => c.ok
                    /\ \A e \in C : e = c

\* what the process brings that a task asked for
Wanted(t) == IF t.at = "request" THEN "protected" ELSE "result"

\* the service may call back, or has called back
Serviced(t) == Serves(t) \/ t.do = "callback" \/ (Ends(t) /\ t.at # "unprotect")

\* while the task t is pending
Awaits(t, C) ==
    /\ Processes(t) => Processing(C, Wanted(t))
    /\ Serviced(t) => Serving(C) /\ (Sure /\ Promised(t) => C # {})
    /\ ~Processes(t) /\ ~Serviced(t) => C = {}

\* while no task is pending for the document d
Idle(d, C) ==
    /\ d = NoDoc \/ d.status = "FINISHED" => Serving(C)
    /\ d # NoDoc =>
        /\ d.status = "PROTECTING" => Processing(C, "protected")
        /\ d.status = "UNPROTECTING" => Processing(C, "result")
        /\ d.status = "FORWARDED" => C = {}
        /\ d.status = "IN_PROGRESS" =>
               Serving(C) /\ (C # {} => Len(d.log) > 0) /\ (Sure => C # {})

\* what services return
Returns(d, C) ==
    d.origin = "external" \/ NoStale =>
        \A c \in C : c.from = "service" => c.value = Computed(d.request.body)

\* a deletion is pending
Leaving(d, C) == /\ d = NoDoc \/ d.status = "FINISHED" \/ d.origin = "external"
                 /\ Serving(C)

SlotOK(b, d, T, C) ==
    /\ d # NoDoc => Stored(b, d) /\ Returns(d, C)
    /\ \A t \in T : t.do = "delete" => Leaving(d, C)
    /\ \A t \in T : t.do # "delete" =>
           d # NoDoc /\ Placed(b, t, d) /\ Carries(t) /\ Awaits(t, C)
    /\ T = {} => Idle(d, C)

Slot(b, i) == SlotOK(b, db[b][i], TasksOf(b, i), OwedTo(b, i))

-----------------------------------------------------------------------------
(* The invariant. *)

Slots == \A b \in Broker, i \in Id : Slot(b, i)

\* only deletions of a request can be pending together
Lone(B) == \A t \in DOMAIN B, u \in DOMAIN B :
               t.do # "delete" /\ u.id = t.id => u = t /\ B[t] = 1

Singles == \A b \in Broker : up[b] /\ Lone(tasks[b])

\* the PO calls back once
Promises == \A c \in DOMAIN owed : c.id \in used /\ (c.from = "po" => owed[c] = 1)

\* the peer was sent protected data, or those of a client that skips the PO
Sent(d) == IF d.request.skip_po THEN "data" ELSE "protected"

Matched ==
    \A b \in Broker, j \in Id : External(b, j) =>
        LET req == db[b][j].request
            d == db[Peer[b]][req.original_id]
        IN  req.original_id \in used /\ (d # NoDoc => req.body = Sent(d))

\* clients' requests are kept by one broker until they are fetched
Clients ==
    /\ \A b \in Broker, i \in Id :
           db[b][i] # NoDoc => (i \in ClientId <=> db[b][i].origin = "local")
    /\ \A b \in Broker, c \in Broker, i \in ClientId :
           db[b][i] # NoDoc /\ db[c][i] # NoDoc => b = c
    /\ \A b \in Broker : \A t \in DOMAIN tasks[b] :
           t.do = "delete" /\ t.id \in ClientId => answers[t.id] # << >>

Accepted(t) == t.do = "accepted" \/ Writing(t, "FORWARDED")

\* the request was accepted by the peer, and no result of it was taken
Passed(b, i) ==
    \/ /\ db[b][i] # NoDoc /\ db[b][i].status = "FORWARDED"
       /\ TasksOf(b, i) = {}
    \/ \E t \in TasksOf(b, i) : Accepted(t)

\* a request of the peer, whose result is not returned yet
Pursued(b, i) == External(b, i) /\ \A t \in TasksOf(b, i) : t.do # "delete"

\* the peer still works on it
Child(b, i, j) == Pursued(Peer[b], j) /\ db[Peer[b]][j].request.original_id = i

Followed == \A b \in Broker, i \in Id : Passed(b, i) => \E j \in Id : Child(b, i, j)

Flow == Slots /\ Singles /\ Promises /\ Matched /\ Clients /\ Followed

-----------------------------------------------------------------------------
(* Bags in which an operation on a request is alone. *)

\* What removing an element leaves.
LEMMA Removed ==
    ASSUME NEW B, IsABag(B), NEW t \in DOMAIN B
    PROVE  LET R == BagRemove(B, t)
           IN  /\ IsABag(R)
               /\ \A w : w \in DOMAIN R <=> w \in DOMAIN B /\ (w = t => B[t] # 1)
               /\ \A w \in DOMAIN R : w # t => R[w] = B[w]
BY RemovedBag DEF BagRemove

\* What adding one does.
LEMMA Added ==
    ASSUME NEW B, IsABag(B), NEW u
    PROVE  LET R == BagAdd(B, u)
           IN  /\ IsABag(R)
               /\ \A w : w \in DOMAIN R <=> w \in DOMAIN B \/ w = u
               /\ \A w \in DOMAIN B : w # u => R[w] = B[w]
               /\ u \notin DOMAIN B => R[u] = 1
               /\ u \in DOMAIN B => R[u] = B[u] + 1
BY AddedBag DEF BagAdd

\* Something other than a deletion is replaced, as the only one of its request.
LEMMA SwappedLone ==
    ASSUME NEW B, IsABag(B), Lone(B), NEW t \in DOMAIN B, t.do # "delete",
           NEW u, u.id = t.id
    PROVE  LET N == BagAdd(BagRemove(B, t), u)
           IN  /\ IsABag(N) /\ Lone(N) /\ Of(B, t.id) = {t} /\ Of(N, t.id) = {u}
               /\ \A j : j # t.id => Of(N, j) = Of(B, j)
<1> DEFINE R == BagRemove(B, t)
           N == BagAdd(R, u)
<1>1. /\ IsABag(R)
      /\ \A w : w \in DOMAIN R <=> w \in DOMAIN B /\ (w = t => B[t] # 1)
      /\ \A w \in DOMAIN R : w # t => R[w] = B[w]
  BY Removed
<1>2. B[t] = 1 /\ \A w \in DOMAIN B : w.id = t.id => w = t
  BY DEF Lone
<1> HIDE DEF R
<1>3. /\ IsABag(N)
      /\ \A w : w \in DOMAIN N <=> w \in DOMAIN R \/ w = u
      /\ \A w \in DOMAIN R : w # u => N[w] = R[w]
      /\ u \notin DOMAIN R => N[u] = 1
  BY <1>1, Added
<1> HIDE DEF N
<1>4. u \notin DOMAIN R
  BY <1>1, <1>2
<1>5. \A w : w \in DOMAIN N <=> w = u \/ (w \in DOMAIN B /\ w.id # t.id)
  BY <1>1, <1>2, <1>3
<1>6. \A w \in DOMAIN N : w # u => N[w] = B[w]
  BY <1>1, <1>2, <1>3, <1>5
<1>7. Lone(N)
  BY <1>3, <1>4, <1>5, <1>6 DEF Lone
<1>8. Of(B, t.id) = {t}
  BY <1>2 DEF Of
<1>9. Of(N, t.id) = {u} /\ \A j : j # t.id => Of(N, j) = Of(B, j)
  BY <1>5 DEF Of
<1> QED
  BY <1>3, <1>7, <1>8, <1>9 DEF N, R

\* A task ends; with a deletion, others may be left.
LEMMA RemovedLone ==
    ASSUME NEW B, IsABag(B), Lone(B), NEW t \in DOMAIN B
    PROVE  LET N == BagRemove(B, t)
           IN  /\ IsABag(N) /\ Lone(N) /\ Of(N, t.id) \subseteq Of(B, t.id)
               /\ t.do # "delete" => Of(N, t.id) = {} /\ Of(B, t.id) = {t}
               /\ t.do = "delete" => \A w \in Of(B, t.id) : w.do = "delete"
               /\ \A j : j # t.id => Of(N, j) = Of(B, j)
<1> DEFINE N == BagRemove(B, t)
<1>1. /\ IsABag(N)
      /\ \A w : w \in DOMAIN N <=> w \in DOMAIN B /\ (w = t => B[t] # 1)
      /\ \A w \in DOMAIN N : w # t => N[w] = B[w]
  BY Removed
<1> HIDE DEF N
<1>2. t.do # "delete" => B[t] = 1 /\ \A w \in DOMAIN B : w.id = t.id => w = t
  BY DEF Lone
<1>3. t.do = "delete" => \A w \in Of(B, t.id) : w.do = "delete"
  BY DEF Lone, Of
<1>4. Lone(N)
  <2> SUFFICES ASSUME NEW v \in DOMAIN N, NEW w \in DOMAIN N, v.do # "delete", w.id = v.id
               PROVE  w = v /\ N[v] = 1
    BY DEF Lone
  <2>1. w = v /\ B[v] = 1 /\ v \in DOMAIN B
    BY <1>1 DEF Lone
  <2>2. v # t
    BY <1>1, <2>1
  <2> QED
    BY <1>1, <2>1, <2>2
<1>5. /\ Of(N, t.id) \subseteq Of(B, t.id)
      /\ \A j : j # t.id => Of(N, j) = Of(B, j)
      /\ t.do # "delete" => Of(N, t.id) = {} /\ Of(B, t.id) = {t}
  BY <1>1, <1>2 DEF Of
<1> QED
  BY <1>1, <1>3, <1>4, <1>5 DEF N

\* A task is started where no other works on its request.
LEMMA AddedLone ==
    ASSUME NEW B, IsABag(B), Lone(B), NEW u,
           \A w \in Of(B, u.id) : w.do = "delete" /\ u.do = "delete"
    PROVE  LET N == BagAdd(B, u)
           IN  /\ IsABag(N) /\ Lone(N) /\ Of(N, u.id) = Of(B, u.id) \cup {u}
               /\ \A j : j # u.id => Of(N, j) = Of(B, j)
<1> DEFINE N == BagAdd(B, u)
<1>1. /\ IsABag(N)
      /\ \A w : w \in DOMAIN N <=> w \in DOMAIN B \/ w = u
      /\ \A w \in DOMAIN B : w # u => N[w] = B[w]
      /\ u \notin DOMAIN B => N[u] = 1
  BY Added
<1> HIDE DEF N
<1>2. Lone(N)
  <2> SUFFICES ASSUME NEW v \in DOMAIN N, NEW w \in DOMAIN N, v.do # "delete", w.id = v.id
               PROVE  w = v /\ N[v] = 1
    BY DEF Lone
  <2>1. CASE v = u
    BY <1>1, <2>1 DEF Of
  <2>2. CASE v # u
    BY <1>1, <2>2 DEF Of, Lone
  <2> QED
    BY <2>1, <2>2
<1>3. Of(N, u.id) = Of(B, u.id) \cup {u} /\ \A j : j # u.id => Of(N, j) = Of(B, j)
  BY <1>1 DEF Of
<1> QED
  BY <1>1, <1>2, <1>3 DEF N
-----------------------------------------------------------------------------
(* What a step does to tasks and callbacks, slot by slot. *)

TasksElsewhere(b, i) ==
    \A c \in Broker, j \in Id : c # b \/ j # i => TasksOf(c, j)' = TasksOf(c, j)

OwedElsewhere(b, i) ==
    \A c \in Broker, j \in Id : c # b \/ j # i => OwedTo(c, j)' = OwedTo(c, j)

\* The tasks of a broker are a bag in which an operation is alone.
LEMMA SwappedHere ==
    ASSUME IInv, Singles, NEW b \in Broker, NEW t \in DOMAIN tasks[b], t.do # "delete",
           NEW STATE u, u.id = t.id
    PROVE  LET N == BagAdd(BagRemove(tasks[b], t), u)
           IN  /\ Lone(N) /\ Of(tasks[b], t.id) = {t} /\ Of(N, t.id) = {u}
               /\ \A j : j # t.id => Of(N, j) = Of(tasks[b], j)
<1>1. IsABag(tasks[b]) /\ Lone(tasks[b])
  BY DEF IInv, Brokers, Tasks, Singles
<1> QED
  BY <1>1, SwappedLone

\* A task becomes another one.
LEMMA BecomesLone ==
    ASSUME IInv, Singles, NEW b \in Broker, NEW t \in DOMAIN tasks[b], t.do # "delete",
           NEW STATE u, u.id = t.id, Becomes(b, t, u)
    PROVE  /\ Singles' /\ TasksElsewhere(b, t.id)
           /\ TasksOf(b, t.id) = {t} /\ TasksOf(b, t.id)' = {u}
<1> DEFINE N == BagAdd(BagRemove(tasks[b], t), u)
<1>1. /\ DOMAIN tasks = Broker /\ up' = up
  BY DEF IInv, Brokers, Tasks, Becomes
<1>2. tasks' = [tasks EXCEPT ![b] = N]
  BY DEF Becomes, Swap
<1>3. /\ Lone(N) /\ Of(tasks[b], t.id) = {t} /\ Of(N, t.id) = {u}
      /\ \A j : j # t.id => Of(N, j) = Of(tasks[b], j)
  BY SwappedHere
<1> HIDE DEF N
<1>4. \A c \in Broker : tasks'[c] = IF c = b THEN N ELSE tasks[c]
  BY <1>1, <1>2
<1> QED
  BY <1>1, <1>3, <1>4 DEF Singles, TasksElsewhere, TasksOf

\* A task ends.
LEMMA DoneLone ==
    ASSUME IInv, Singles, NEW b \in Broker, NEW t \in DOMAIN tasks[b], Done(b, t)
    PROVE  /\ Singles' /\ TasksElsewhere(b, t.id)
           /\ TasksOf(b, t.id)' \subseteq TasksOf(b, t.id)
           /\ t.do # "delete" => TasksOf(b, t.id)' = {} /\ TasksOf(b, t.id) = {t}
           /\ t.do = "delete" => \A w \in TasksOf(b, t.id) : w.do = "delete"
<1> DEFINE N == BagRemove(tasks[b], t)
<1>1. /\ DOMAIN tasks = Broker /\ up' = up
      /\ IsABag(tasks[b]) /\ Lone(tasks[b])
  BY DEF IInv, Brokers, Tasks, Singles, Done
<1>2. tasks' = [tasks EXCEPT ![b] = N]
  BY DEF Done, Drop
<1>3. /\ Lone(N) /\ Of(N, t.id) \subseteq Of(tasks[b], t.id)
      /\ t.do # "delete" => Of(N, t.id) = {} /\ Of(tasks[b], t.id) = {t}
      /\ t.do = "delete" => \A w \in Of(tasks[b], t.id) : w.do = "delete"
      /\ \A j : j # t.id => Of(N, j) = Of(tasks[b], j)
  BY <1>1, RemovedLone
<1> HIDE DEF N
<1>4. \A c \in Broker : tasks'[c] = IF c = b THEN N ELSE tasks[c]
  BY <1>1, <1>2
<1> QED
  BY <1>1, <1>3, <1>4 DEF Singles, TasksElsewhere, TasksOf

\* A task starts.
LEMMA StartLone ==
    ASSUME IInv, Singles, NEW b \in Broker, NEW i \in Id, NEW STATE u, u.id = i,
           \A w \in TasksOf(b, i) : w.do = "delete" /\ u.do = "delete",
           tasks' = Start(b, u), up' = up
    PROVE  /\ Singles' /\ TasksElsewhere(b, i)
           /\ TasksOf(b, i)' = TasksOf(b, i) \cup {u}
<1> DEFINE N == BagAdd(tasks[b], u)
<1>1. /\ DOMAIN tasks = Broker
      /\ IsABag(tasks[b]) /\ Lone(tasks[b])
  BY DEF IInv, Brokers, Tasks, Singles
<1>2. tasks' = [tasks EXCEPT ![b] = N]
  BY DEF Start
<1>3. /\ Lone(N) /\ Of(N, i) = Of(tasks[b], i) \cup {u}
      /\ \A j : j # i => Of(N, j) = Of(tasks[b], j)
  <2>1. \A w \in Of(tasks[b], u.id) : w.do = "delete" /\ u.do = "delete"
    BY DEF TasksOf
  <2> HIDE DEF N
  <2>2. /\ Lone(N) /\ Of(N, u.id) = Of(tasks[b], u.id) \cup {u}
        /\ \A j : j # u.id => Of(N, j) = Of(tasks[b], j)
    BY <1>1, <2>1, AddedLone DEF N
  <2> QED
    BY <2>2
<1> HIDE DEF N
<1>4. \A c \in Broker : tasks'[c] = IF c = b THEN N ELSE tasks[c]
  BY <1>1, <1>2
<1> QED
  BY <1>1, <1>3, <1>4 DEF Singles, TasksElsewhere, TasksOf

\* a task that joins at a broker
Joined(mine, p, v) == [mine EXCEPT ![p] = BagAdd(@, v)]

\* A call between the brokers: at b a task may become another one, at the
\* peer one joins where no other works on its request.
LEMMA CallLone ==
    ASSUME IInv, Singles, NEW b \in Broker, NEW t \in DOMAIN tasks[b], t.do # "delete",
           NEW STATE u, u.id = t.id, NEW STATE v, NEW i \in Id, v.id = i, up' = up,
           TasksOf(Peer[b], i) = {},
           \/ tasks' = Joined(tasks, Peer[b], v)
           \/ tasks' = Joined(Swap(b, t, u), Peer[b], v)
    PROVE  /\ Singles'
           /\ TasksOf(b, t.id) = {t}
           /\ TasksOf(b, t.id)' \in {{t}, {u}} /\ TasksOf(Peer[b], i)' = {v}
           /\ \A c \in Broker, j \in Id :
                  (c # b \/ j # t.id) /\ (c # Peer[b] \/ j # i) =>
                      TasksOf(c, j)' = TasksOf(c, j)
<1> DEFINE p == Peer[b]
           N == BagAdd(BagRemove(tasks[b], t), u)
           M == BagAdd(tasks[p], v)
<1>1. p \in Broker /\ p # b /\ DOMAIN tasks = Broker
  BY PeerIsBroker DEF IInv, Brokers, Tasks
<1>2. /\ \A c \in Broker : up[c] /\ Lone(tasks[c])
      /\ IsABag(tasks[p]) /\ Lone(tasks[p])
  BY <1>1 DEF IInv, Brokers, Tasks, Singles
<1>3. /\ Lone(N) /\ Of(tasks[b], t.id) = {t} /\ Of(N, t.id) = {u}
      /\ \A j : j # t.id => Of(N, j) = Of(tasks[b], j)
  BY SwappedHere
<1>4. /\ Lone(M) /\ Of(M, i) = {v}
      /\ \A j : j # i => Of(M, j) = Of(tasks[p], j)
  <2>1. IsABag(tasks[p]) /\ Lone(tasks[p]) /\ Of(tasks[p], i) = {}
    BY <1>2 DEF TasksOf
  <2>2. \A w \in Of(tasks[p], v.id) : w.do = "delete" /\ v.do = "delete"
    BY <2>1
  <2> HIDE DEF M
  <2>3. /\ Lone(M) /\ Of(M, v.id) = Of(tasks[p], v.id) \cup {v}
        /\ \A j : j # v.id => Of(M, j) = Of(tasks[p], j)
    BY <2>1, <2>2, AddedLone DEF M
  <2> QED
    BY <2>1, <2>3
<1>5. \/ tasks' = [tasks EXCEPT ![p] = M]
      \/ tasks' = [[tasks EXCEPT ![b] = N] EXCEPT ![p] = M]
  BY <1>1 DEF Joined, Swap
<1> HIDE DEF p, N, M
<1>6. \/ \A c \in Broker : tasks'[c] = IF c = p THEN M ELSE tasks[c]
      \/ \A c \in Broker : tasks'[c] = IF c = p THEN M ELSE IF c = b THEN N ELSE tasks[c]
  BY <1>1, <1>5
<1>7. /\ Singles'
      /\ TasksOf(b, t.id) = {t} /\ TasksOf(p, i)' = {v}
      /\ TasksOf(b, t.id)' \in {{t}, {u}}
      /\ \A c \in Broker, j \in Id :
             (c # b \/ j # t.id) /\ (c # p \/ j # i) => TasksOf(c, j)' = TasksOf(c, j)
  BY <1>1, <1>2, <1>3, <1>4, <1>6 DEF Singles, TasksOf
<1> QED
  BY <1>7 DEF p

\* A callback is owed that was not; of a service, once more.
LEMMA OwedMore ==
    ASSUME IInv, Promises, NEW b \in Broker, NEW i \in Id, i \in used,
           NEW STATE c, c.to = b, c.id = i,
           used \subseteq used', c.from = "po" => c \notin DOMAIN owed,
           owed' = BagAdd(owed, c)
    PROVE  /\ Promises' /\ OwedElsewhere(b, i)
           /\ OwedTo(b, i)' = OwedTo(b, i) \cup {c}
<1>1. /\ \A w : w \in DOMAIN owed' <=> w \in DOMAIN owed \/ w = c
      /\ \A w \in DOMAIN owed : w # c => owed'[w] = owed[w]
      /\ c \notin DOMAIN owed => owed'[c] = 1
  BY Added DEF IInv, World
<1> QED
  BY <1>1 DEF Promises, OwedElsewhere, OwedTo

\* A callback arrives or is lost; that of the PO is not owed any more.
LEMMA OwedLess ==
    ASSUME IInv, Promises, NEW c \in DOMAIN owed,
           used \subseteq used', owed' = BagRemove(owed, c)
    PROVE  /\ Promises' /\ OwedElsewhere(c.to, c.id)
           /\ OwedTo(c.to, c.id)' \subseteq OwedTo(c.to, c.id)
           /\ c.from = "po" => c \notin OwedTo(c.to, c.id)'
<1>1. /\ \A w : w \in DOMAIN owed' <=> w \in DOMAIN owed /\ (w = c => owed[c] # 1)
      /\ \A w \in DOMAIN owed' : w # c => owed'[w] = owed[w]
  BY Removed DEF IInv, World
<1> QED
  BY <1>1 DEF Promises, OwedElsewhere, OwedTo
-----------------------------------------------------------------------------
(* What a step may change. *)

DocsElsewhere(b, i) ==
    \A c \in Broker, j \in Id : c # b \/ j # i => db'[c][j] = db[c][j]

\* the document is the one there was, if it is there
Inherits(b, i) ==
    db'[b][i] # NoDoc => /\ db[b][i] # NoDoc
                         /\ db'[b][i].origin = db[b][i].origin
                         /\ db'[b][i].request = db[b][i].request

AnswersGrow == \A i \in Id : answers[i] # << >> => answers'[i] # << >>

\* what was not fetched is not going to be deleted
Unfetched(b, i) ==
    \A u \in TasksOf(b, i)' :
        u.do = "delete" /\ i \in ClientId => u \in TasksOf(b, i) \/ answers'[i] # << >>

\* no document is created
LEMMA MatchedKept ==
    ASSUME IInv, Matched, used \subseteq used', \A b \in Broker, i \in Id : Inherits(b, i)
    PROVE  Matched'
<1> SUFFICES ASSUME NEW b \in Broker, NEW j \in Id, External(b, j)'
             PROVE  LET req == db'[b][j].request
                        d == db'[Peer[b]][req.original_id]
                    IN  req.original_id \in used' /\ (d # NoDoc => req.body = Sent(d))
  BY DEF Matched
<1>1. External(b, j) /\ db'[b][j].request = db[b][j].request
  BY DEF External, Inherits
<1> DEFINE req == db[b][j].request
<1>2. /\ req.original_id \in used
      /\ db[Peer[b]][req.original_id] # NoDoc => req.body = Sent(db[Peer[b]][req.original_id])
  BY <1>1 DEF Matched
<1>3. Peer[b] \in Broker /\ req.original_id \in Id
  BY <1>2, PeerIsBroker DEF IInv, Brokers
<1> HIDE DEF req
<1>4. Inherits(Peer[b], req.original_id)
  BY <1>3
<1> QED
  BY <1>1, <1>2, <1>4 DEF Inherits, Sent, req

\* Nothing that was not fetched goes.
LEMMA ClientsKept ==
    ASSUME IInv, Clients, AnswersGrow,
           \A b \in Broker, i \in Id : Inherits(b, i) /\ Unfetched(b, i)
    PROVE  Clients'
<1>1. ASSUME NEW b \in Broker, NEW t \in DOMAIN tasks'[b], t.do = "delete", t.id \in ClientId
      PROVE  answers'[t.id] # << >>
  <2>1. t.id \in Id /\ t \in TasksOf(b, t.id)'
    BY <1>1, IdAssumption DEF TasksOf, Of
  <2>2. t \in TasksOf(b, t.id) \/ answers'[t.id] # << >>
    BY <1>1, <2>1 DEF Unfetched
  <2> QED
    BY <1>1, <2>1, <2>2 DEF Clients, AnswersGrow, TasksOf, Of
<1>2. \A b \in Broker, i \in Id :
          db'[b][i] # NoDoc => (i \in ClientId <=> db'[b][i].origin = "local")
  BY DEF Inherits, Clients
<1>3. \A b \in Broker, c \in Broker, i \in ClientId :
          db'[b][i] # NoDoc /\ db'[c][i] # NoDoc => b = c
  BY IdAssumption DEF Inherits, Clients
<1> QED
  BY <1>1, <1>2, <1>3 DEF Clients

\* The peer goes on with what it was asked.
LEMMA FollowedKept ==
    ASSUME Followed,
           \A b \in Broker, i \in Id : Passed(b, i)' =>
               Passed(b, i) /\ \A j \in Id : Child(b, i, j) => Child(b, i, j)'
    PROVE  Followed'
BY DEF Followed

\* Slots that a step leaves alone.
LEMMA SameSlot ==
    ASSUME NEW b \in Broker, NEW i \in Id, db'[b][i] = db[b][i],
           TasksOf(b, i)' = TasksOf(b, i), OwedTo(b, i)' = OwedTo(b, i)
    PROVE  /\ Slot(b, i) => Slot(b, i)'
           /\ Inherits(b, i) /\ Unfetched(b, i)
           /\ Passed(b, i)' => Passed(b, i)
           /\ Pursued(b, i) => Pursued(b, i)'
BY DEF Slot, Inherits, Unfetched, Passed, Pursued, External

\* Most steps change one slot.
LEMMA SlotStep ==
    ASSUME IInv, Flow, NEW b \in Broker, NEW i \in Id,
           DocsElsewhere(b, i), TasksElsewhere(b, i), OwedElsewhere(b, i),
           Singles', Promises', used' = used, AnswersGrow,
           Slot(b, i)', Inherits(b, i), Unfetched(b, i),
           Passed(b, i)' => Passed(b, i), Pursued(b, i) => Pursued(b, i)'
    PROVE  Flow'
<1>1. ASSUME NEW c \in Broker, NEW j \in Id
      PROVE  /\ Slot(c, j)' /\ Inherits(c, j) /\ Unfetched(c, j)
             /\ Passed(c, j)' => Passed(c, j)
             /\ Pursued(c, j) => Pursued(c, j)'
  <2>1. CASE c = b /\ j = i
    BY <2>1
  <2>2. CASE c # b \/ j # i
    <3>1. /\ db'[c][j] = db[c][j] /\ TasksOf(c, j)' = TasksOf(c, j)
          /\ OwedTo(c, j)' = OwedTo(c, j) /\ Slot(c, j)
      BY <2>2 DEF DocsElsewhere, TasksElsewhere, OwedElsewhere, Flow, Slots
    <3> QED
      BY <3>1, SameSlot
  <2> QED
    BY <2>1, <2>2
<1>2. Slots'
  BY <1>1 DEF Slots
<1>3. Matched' /\ Clients'
  BY <1>1, MatchedKept, ClientsKept DEF Flow
<1>4. ASSUME NEW c \in Broker, NEW j \in Id, NEW k \in Id, Child(c, j, k)
      PROVE  Child(c, j, k)'
  <2>1. Peer[c] \in Broker
    BY PeerIsBroker
  <2>2. Pursued(Peer[c], k) /\ Pursued(Peer[c], k)' /\ Inherits(Peer[c], k)
    BY <1>1, <1>4, <2>1 DEF Child
  <2> QED
    BY <1>4, <2>2 DEF Child, Pursued, External, Inherits
<1>5. Followed'
  BY <1>1, <1>4, FollowedKept DEF Flow
<1> QED
  BY <1>2, <1>3, <1>5 DEF Flow
-----------------------------------------------------------------------------
(* A pending task and its slot. *)

\* What is known while an operation other than a deletion is pending.
LEMMA Pending ==
    ASSUME IInv, Flow, NEW b \in Broker, NEW t \in DOMAIN tasks[b], t.do # "delete"
    PROVE  LET d == db[b][t.id]
               C == OwedTo(b, t.id)
           IN  /\ t \in Task /\ t.id \in Id /\ t.id \in used /\ TasksOf(b, t.id) = {t}
               /\ d # NoDoc /\ d \in Doc /\ (d.status # "IN_PROGRESS" => d.origin = "local")
               /\ Stored(b, d) /\ Returns(d, C)
               /\ Placed(b, t, d) /\ Carries(t) /\ Awaits(t, C)
<1>1. t \in Task /\ t.id \in Id /\ t.id \in used
  BY PendingIsTask DEF IInv
<1>2. t \in TasksOf(b, t.id) /\ TasksOf(b, t.id) = {t}
  BY DEF TasksOf, Of, Flow, Singles, Lone
<1>3. Slot(b, t.id)
  BY <1>1 DEF Flow, Slots
<1>4. db[b][t.id] # NoDoc
  BY <1>2, <1>3 DEF Slot, SlotOK
<1>5. db[b][t.id] \in Doc /\ (db[b][t.id].status # "IN_PROGRESS" => db[b][t.id].origin = "local")
  BY <1>1, <1>4 DEF IInv, Brokers, Stores, Docs
<1> QED
  BY <1>1, <1>2, <1>3, <1>4, <1>5 DEF Slot, SlotOK

\* An operation continues with another one; a callback may be owed for it.
LEMMA Turns ==
    ASSUME IInv, Flow, NEW b \in Broker, NEW t \in DOMAIN tasks[b], t.do # "delete",
           NEW STATE u, u.id = t.id, u.do # "delete", Becomes(b, t, u),
           UNCHANGED <<db, used, answers>>, Promises', OwedElsewhere(b, t.id),
           Placed(b, u, db[b][t.id]), Carries(u), Accepted(u) => Accepted(t),
           Returns(db[b][t.id], OwedTo(b, t.id)'), Awaits(u, OwedTo(b, t.id)')
    PROVE  Flow'
<1>1. /\ t.id \in Id /\ TasksOf(b, t.id) = {t}
      /\ db[b][t.id] # NoDoc /\ Stored(b, db[b][t.id])
  BY Pending
<1>2. Singles' /\ TasksElsewhere(b, t.id) /\ TasksOf(b, t.id)' = {u}
  BY BecomesLone DEF Flow
<1>3. Slot(b, t.id)'
  <2>1. SlotOK(b, db[b][t.id], {u}, OwedTo(b, t.id)')
    BY <1>1 DEF SlotOK
  <2> QED
    BY <1>2, <2>1 DEF Slot
<1>4. DocsElsewhere(b, t.id) /\ Inherits(b, t.id) /\ Unfetched(b, t.id) /\ AnswersGrow
  BY <1>1, <1>2 DEF DocsElsewhere, Inherits, Unfetched, AnswersGrow
<1>5. Passed(b, t.id)' => Passed(b, t.id)
  BY <1>1, <1>2 DEF Passed
<1>6. Pursued(b, t.id)'  <=> External(b, t.id)
  BY <1>2 DEF Pursued, External
<1>7. Pursued(b, t.id) => Pursued(b, t.id)'
  BY <1>6 DEF Pursued
<1> QED
  BY <1>1, <1>2, <1>3, <1>4, <1>5, <1>7, SlotStep

\* Most operations continue without a change of documents or callbacks.
LEMMA Moves ==
    ASSUME IInv, Flow, NEW b \in Broker, NEW t \in DOMAIN tasks[b], t.do # "delete",
           NEW STATE u, u.id = t.id, u.do # "delete", Becomes(b, t, u),
           UNCHANGED <<db, owed, used, answers>>,
           Placed(b, u, db[b][t.id]), Carries(u), Accepted(u) => Accepted(t),
           Awaits(u, OwedTo(b, t.id))
    PROVE  Flow'
<1>1. Returns(db[b][t.id], OwedTo(b, t.id))
  BY Pending
<1>2. OwedTo(b, t.id)' = OwedTo(b, t.id) /\ OwedElsewhere(b, t.id) /\ Promises'
  BY DEF OwedTo, OwedElsewhere, Flow, Promises
<1> QED
  BY <1>1, <1>2, Turns

\* The tasks stay, and what is owed for one of them changes.
LEMMA Waits ==
    ASSUME IInv, Flow, NEW b \in Broker, NEW i \in Id, UNCHANGED <<up, db, tasks, used, answers>>,
           Promises', OwedElsewhere(b, i), Slot(b, i)'
    PROVE  Flow'
<1>1. TasksElsewhere(b, i) /\ TasksOf(b, i)' = TasksOf(b, i) /\ Singles'
  BY DEF TasksElsewhere, TasksOf, Of, Flow, Singles
<1>2. /\ DocsElsewhere(b, i) /\ Inherits(b, i) /\ Unfetched(b, i) /\ AnswersGrow
      /\ Passed(b, i)' => Passed(b, i)
      /\ Pursued(b, i) => Pursued(b, i)'
  BY <1>1 DEF DocsElsewhere, Inherits, Unfetched, AnswersGrow, Passed, Pursued, External
<1> QED
  BY <1>1, <1>2, SlotStep
-----------------------------------------------------------------------------
(* One lemma per action: lookups and services. *)

\* A task that goes on with its variables as they are.
LEMMA NextFields ==
    ASSUME NEW STATE t, t \in Task, NEW do
    PROVE  LET u == [t EXCEPT !.do = do]
           IN  /\ u.do = do /\ u.at = t.at /\ u.id = t.id /\ u.req = t.req
               /\ u.resp = t.resp /\ u.status = t.status /\ u.log = t.log
BY DEF Task

\* One that goes on with a write.
LEMMA WriteFields ==
    ASSUME NEW STATE t, t \in Task, NEW STATE status, NEW STATE resp
    PROVE  LET u == Write(t, status, resp)
           IN  /\ u.do = "write" /\ u.at = t.at /\ u.id = t.id /\ u.req = t.req
               /\ u.resp = resp /\ u.status = status
BY DEF Write, Task

\* One that goes on with the return of a result.
LEMMA ReturnFields ==
    ASSUME NEW STATE t, t \in Task, NEW STATE resp
    PROVE  LET u == Return(t, resp)
           IN  /\ u.do = "callback" /\ u.at = t.at /\ u.id = t.id /\ u.req = t.req
               /\ u.resp = resp
BY DEF Return, Task

\* The status of an answer.
LEMMA AnswerFields ==
    ASSUME NEW code, NEW body
    PROVE  /\ Answer(code, body).status = code /\ Answer(code, body).body = body
           /\ Error(code).status = code /\ Error(code).body = "message"
BY DEF Answer, Error

\* The service is found in this domain.
LEMMA FoundLocalFlow ==
    ASSUME Orderly, IInv, Flow, NEW b \in Broker, NEW t \in DOMAIN tasks[b], FoundLocal(b, t)
    PROVE  Flow'
<1> DEFINE d == db[b][t.id]
           C == OwedTo(b, t.id)
           u == [t EXCEPT !.do = "service"]
<1>1. /\ t.do = "find" /\ t.at \in {"request", "resume", "forward"}
      /\ UNCHANGED <<db, owed, used, answers>> /\ Becomes(b, t, u)
      /\ NoStale => Home[t.req.service] = b
  BY DEF FoundLocal, Located, Running, Fault, NoStale
<1>2. /\ t \in Task /\ d \in Doc /\ Stored(b, d) /\ Placed(b, t, d) /\ Carries(t) /\ Awaits(t, C)
  BY <1>1, Pending
<1>3. /\ u.do = "service" /\ u.at = t.at /\ u.id = t.id /\ u.req = t.req
      /\ u.resp = t.resp /\ u.status = t.status
  BY <1>2, NextFields
<1> HIDE DEF d, C, u
<1>4. C = {}
  BY <1>1, <1>2 DEF Awaits, Serviced, Processes, Serves, Ends, Writing
<1>5. Placed(b, u, d)
  <2>1. CASE t.at = "request"
    BY <1>1, <1>2, <1>3, <2>1 DEF Placed, OpenAt, Protecting, Passing, Serves, Writing
  <2>2. CASE t.at = "resume"
    <3>1. ResumeAt(t, d) /\ d.request \in Request
      BY <1>2, <2>2 DEF Placed, Doc
    <3>2. t.req.service = d.request.service
      BY <3>1 DEF ResumeAt, Request
    <3> QED
      BY <1>1, <1>2, <1>3, <2>2, <3>1, <3>2 DEF Placed, ResumeAt, Serves, Writing, Stored, Away
  <2>3. CASE t.at = "forward"
    BY <1>1, <1>2, <1>3, <2>3 DEF Placed, ForwardAt, Serves
  <2> QED
    BY <1>1, <2>1, <2>2, <2>3
<1>6. Carries(u) /\ Awaits(u, C) /\ ~Accepted(u)
  BY <1>3, <1>4 DEF Carries, Awaits, Serviced, Processes, Serves, Ends, Writing, Serving, Promised, Accepted
<1> QED
  BY <1>1, <1>3, <1>5, <1>6, Moves DEF d, C

\* It is found in the other.
LEMMA FoundExternalFlow ==
    ASSUME Orderly, IInv, Flow, NEW b \in Broker, NEW t \in DOMAIN tasks[b], FoundExternal(b, t)
    PROVE  Flow'
<1> DEFINE d == db[b][t.id]
           C == OwedTo(b, t.id)
           back == Return(t, Error(404))
           next(do) == [t EXCEPT !.do = do]
<1>1. /\ t.do = "find" /\ t.at \in {"request", "resume", "forward"}
      /\ UNCHANGED <<db, owed, used, answers>>
      /\ Home[t.req.service] # Nowhere
      /\ NoStale => Home[t.req.service] # b
  BY DEF FoundExternal, Located, Running, Fault, NoStale
<1>2. /\ t \in Task /\ d \in Doc /\ Stored(b, d) /\ Placed(b, t, d) /\ Carries(t) /\ Awaits(t, C)
  BY <1>1, Pending
<1>3. C = {}
  BY <1>1, <1>2 DEF Awaits, Serviced, Processes, Serves, Ends, Writing
<1>4. CASE t.at = "forward"
  <2>1. /\ back.do = "callback" /\ back.at = t.at /\ back.id = t.id /\ back.req = t.req
        /\ back.resp = Error(404) /\ Error(404).status = 404
    BY <1>2, ReturnFields, AnswerFields
  <2>2. Becomes(b, t, back)
    BY <1>4 DEF FoundExternal
  <2> HIDE DEF back, d, C
  <2>3. Placed(b, back, d)
    BY <1>2, <1>4, <2>1 DEF Placed, ForwardAt
  <2>4. Carries(back) /\ Awaits(back, C) /\ ~Accepted(back)
    BY <1>3, <2>1 DEF Carries, Awaits, Serviced, Processes, Serves, Ends, Writing, Serving, Promised, Accepted
  <2> QED
    BY <1>1, <2>1, <2>2, <2>3, <2>4, Moves DEF d, C
<1>5. CASE t.at = "request" /\ ~t.req.skip_po
  <2> DEFINE u == next("protect")
  <2>1. u.do = "protect" /\ u.at = t.at /\ u.id = t.id /\ u.req = t.req
    BY <1>2, NextFields
  <2>2. Becomes(b, t, u)
    BY <1>5 DEF FoundExternal, Orderly
  <2> HIDE DEF u, d, C
  <2>3. Placed(b, u, d)
    BY <1>1, <1>2, <1>5, <2>1 DEF Placed, OpenAt, Protecting, Passing, Writing, Away, Deployed
  <2>4. Carries(u) /\ Awaits(u, C) /\ ~Accepted(u)
    BY <1>3, <2>1 DEF Carries, Awaits, Serviced, Processes, Serves, Ends, Writing, Accepted
  <2> QED
    BY <1>1, <2>1, <2>2, <2>3, <2>4, Moves DEF d, C
<1>6. CASE t.at # "forward" /\ ~(t.at = "request" /\ ~t.req.skip_po)
  <2> DEFINE u == next("forward")
  <2>1. u.do = "forward" /\ u.at = t.at /\ u.id = t.id /\ u.req = t.req
    BY <1>2, NextFields
  <2>2. Becomes(b, t, u)
    BY <1>6 DEF FoundExternal
  <2> HIDE DEF u, d, C
  <2>3. Placed(b, u, d)
    <3>1. CASE t.at = "request"
      BY <1>1, <1>2, <1>6, <2>1, <3>1
         DEF Placed, OpenAt, Protecting, Passing, Writing, Deployed, Task, Request
    <3>2. CASE t.at = "resume"
      BY <1>1, <1>2, <1>6, <2>1, <3>2 DEF Placed, ResumeAt, Passing, Serves, Ends, Writing
    <3> QED
      BY <1>1, <1>6, <3>1, <3>2
  <2>4. Carries(u) /\ Awaits(u, C) /\ ~Accepted(u)
    BY <1>3, <2>1 DEF Carries, Awaits, Serviced, Processes, Serves, Ends, Writing, Accepted
  <2> QED
    BY <1>1, <2>1, <2>2, <2>3, <2>4, Moves DEF d, C
<1> QED
  BY <1>4, <1>5, <1>6

\* forwardCallback finds the service that a result is from.
LEMMA FoundOriginFlow ==
    ASSUME Orderly, IInv, Flow, NEW b \in Broker, NEW t \in DOMAIN tasks[b], FoundOrigin(b, t)
    PROVE  Flow'
<1> DEFINE d == db[b][t.id]
           C == OwedTo(b, t.id)
           kept == Write(t, "FINISHED", t.resp)
           saved == [t EXCEPT !.do = "saveThenUnprotect"]
<1>1. /\ t.do = "find" /\ t.at = "unprotect"
      /\ UNCHANGED <<db, owed, used, answers>>
      /\ \/ t.req.skip_po /\ Becomes(b, t, kept)
         \/ ~t.req.skip_po /\ Becomes(b, t, saved)
  BY DEF FoundOrigin, Located, Running
<1>2. /\ t \in Task /\ d \in Doc /\ Stored(b, d) /\ Placed(b, t, d) /\ Carries(t) /\ Awaits(t, C)
  BY <1>1, Pending
<1>3. /\ kept.do = "write" /\ kept.at = t.at /\ kept.id = t.id /\ kept.req = t.req
      /\ kept.resp = t.resp /\ kept.status = "FINISHED"
  BY <1>2, WriteFields
<1>4. /\ saved.do = "saveThenUnprotect" /\ saved.at = t.at /\ saved.id = t.id
      /\ saved.req = t.req /\ saved.resp = t.resp /\ saved.status = t.status /\ saved.log = t.log
  BY <1>2, NextFields
<1> HIDE DEF d, C, kept, saved
<1>5. C = {}
  BY <1>1, <1>2 DEF Awaits, Serviced, Processes, Serves, Ends, Writing
<1>6. UnprotectAt(t, d)
  BY <1>1, <1>2 DEF Placed
<1>7. CASE t.req.skip_po /\ Becomes(b, t, kept)
  <2>1. Placed(b, kept, d)
    BY <1>1, <1>3, <1>6 DEF Placed, UnprotectAt, Writing, Ends
  <2>2. Carries(kept) /\ Awaits(kept, C) /\ ~Accepted(kept)
    BY <1>1, <1>2, <1>3, <1>5, <1>7
       DEF Carries, Awaits, Serviced, Processes, Serves, Ends, Writing, Accepted
  <2> QED
    BY <1>1, <1>3, <1>7, <2>1, <2>2, Moves DEF d, C
<1>8. CASE ~t.req.skip_po /\ Becomes(b, t, saved)
  <2>1. Placed(b, saved, d)
    BY <1>1, <1>4, <1>6, <1>8 DEF Placed, UnprotectAt, Writing, Ends
  <2>2. Carries(saved) /\ Awaits(saved, C) /\ ~Accepted(saved)
    BY <1>1, <1>2, <1>4, <1>5, <1>8
       DEF Carries, Awaits, Serviced, Processes, Serves, Ends, Writing, Accepted
  <2> QED
    BY <1>1, <1>4, <1>8, <2>1, <2>2, Moves DEF d, C
<1> QED
  BY <1>1, <1>7, <1>8

\* The lookup fails: request() and forward() have an answer to that.
LEMMA NotFoundFlow ==
    ASSUME Orderly, IInv, Flow, NEW b \in Broker, NEW t \in DOMAIN tasks[b], NotFound(b, t)
    PROVE  Flow'
<1> DEFINE d == db[b][t.id]
           C == OwedTo(b, t.id)
<1> PICK code \in {404, 500} :
        /\ IF code = 404 THEN Home[t.req.service] = Nowhere /\ NoFault
           ELSE Fault(IF t.at = "unprotect" THEN "lateLookup" ELSE "lookup")
        /\ IF t.at = "unprotect" THEN Crashes(b)
           ELSE Becomes(b, t, Conclude(t, Error(code)))
  BY DEF NotFound
<1>1. t.do = "find" /\ UNCHANGED <<db, owed, used, answers>>
  BY DEF NotFound, Running
<1>2. /\ t \in Task /\ d \in Doc /\ Stored(b, d) /\ Placed(b, t, d) /\ Carries(t) /\ Awaits(t, C)
  BY <1>1, Pending
<1>3. C = {}
  BY <1>1, <1>2 DEF Awaits, Serviced, Processes, Serves, Ends, Writing
<1>4. t.at # "unprotect"
  <2> SUFFICES ASSUME t.at = "unprotect" PROVE FALSE
    OBVIOUS
  <2>1. Home[t.req.service] = Nowhere
    BY DEF Fault, Orderly
  <2>2. d.status = "FORWARDED" /\ t.req = d.request
    BY <1>1, <1>2 DEF Placed, UnprotectAt, Ends, Writing
  <2> QED
    BY <1>2, <2>1, <2>2 DEF Stored, Deployed
<1>5. Error(code).status # 200 /\ Error(code).status # 202
  BY AnswerFields
<1>6. CASE t.at = "forward"
  <2> DEFINE u == Return(t, Error(code))
  <2>1. /\ u.do = "callback" /\ u.at = t.at /\ u.id = t.id /\ u.req = t.req
        /\ u.resp = Error(code)
    BY <1>2, ReturnFields
  <2>2. Becomes(b, t, u)
    BY <1>6 DEF Conclude
  <2> HIDE DEF u, d, C
  <2>3. Placed(b, u, d)
    BY <1>2, <1>6, <2>1 DEF Placed, ForwardAt
  <2>4. Carries(u) /\ Awaits(u, C) /\ ~Accepted(u)
    BY <1>3, <1>5, <2>1 DEF Carries, Awaits, Serviced, Processes, Serves, Ends, Writing, Serving, Promised, Accepted
  <2> QED
    BY <1>1, <2>1, <2>2, <2>3, <2>4, Moves DEF d, C
<1>7. CASE t.at # "forward"
  <2> DEFINE u == Write(t, "FINISHED", Error(code))
  <2>1. /\ u.do = "write" /\ u.at = t.at /\ u.id = t.id /\ u.req = t.req
        /\ u.resp = Error(code) /\ u.status = "FINISHED"
    BY <1>2, WriteFields
  <2>2. Becomes(b, t, u)
    BY <1>4, <1>7 DEF Conclude
  <2>3. t.at \in {"request", "resume", "callback"}
    BY <1>2, <1>4, <1>7 DEF Task, Stage
  <2> HIDE DEF u, d, C
  <2>4. Placed(b, u, d)
    BY <1>1, <1>2, <2>1, <2>3
       DEF Placed, OpenAt, ResumeAt, CallbackAt, Protecting, Passing, Serves, Ends, Writing
  <2>5. Carries(u) /\ Awaits(u, C) /\ ~Accepted(u)
    BY <1>3, <1>4, <1>5, <2>1 DEF Carries, Awaits, Serviced, Processes, Serves, Ends, Writing, Serving, Promised, Accepted
  <2> QED
    BY <1>1, <2>1, <2>2, <2>4, <2>5, Moves DEF d, C
<1> QED
  BY <1>6, <1>7
\* What a task becomes that waits for a service, or has its answer.
LEMMA ServesPlaced ==
    ASSUME NEW b \in Broker, NEW STATE d, NEW STATE t, Placed(b, t, d),
           t.do \in {"service", "relocated", "served"},
           NEW STATE u, u.at = t.at, u.req = t.req, Serves(u)
    PROVE  Placed(b, u, d)
BY DEF Placed, OpenAt, ResumeAt, ForwardAt, UnprotectAt, CallbackAt,
       Protecting, Passing, Serves, Ends, Writing

\* Services work on what the client sent or, for the peer, on what it sent.
LEMMA ServesRequest ==
    ASSUME NEW b \in Broker, NEW STATE d, NEW STATE t, t \in Task, Placed(b, t, d),
           t.do \in {"service", "relocated", "served"}
    PROVE  /\ t.at \in {"request", "resume", "forward"}
           /\ d.origin = "external" => t.at = "forward"
           /\ d.origin = "external" \/ NoStale => t.req = d.request
BY DEF Placed, OpenAt, ResumeAt, ForwardAt, UnprotectAt, CallbackAt,
       Serves, Ends, Writing, Task, Stage

\* A service that runs for a pending task owes a callback with its result.
LEMMA RunOwes ==
    ASSUME IInv, Flow, NEW b \in Broker, NEW t \in DOMAIN tasks[b],
           t.do \in {"service", "relocated"}, NEW code \in {200, 202, 500}, Runs(b, t, code),
           used' = used
    PROVE  /\ Promises' /\ OwedElsewhere(b, t.id)
           /\ Serving(OwedTo(b, t.id)') /\ Returns(db[b][t.id], OwedTo(b, t.id)')
           /\ code = 202 => OwedTo(b, t.id)' # {}
<1> DEFINE d == db[b][t.id]
           C == OwedTo(b, t.id)
           c == [to |-> b, id |-> t.id, from |-> "service",
                 ok |-> FALSE, value |-> Computed(t.req.body)]
<1>1. /\ t \in Task /\ t.id \in Id /\ t.id \in used
      /\ Placed(b, t, d) /\ Returns(d, C) /\ Awaits(t, C)
  BY Pending
<1>2. Serving(C)
  BY <1>1 DEF Awaits, Serviced, Processes, Serves, Writing
<1>3. c.to = b /\ c.id = t.id /\ c.from = "service" /\ c.value = Computed(t.req.body)
  OBVIOUS
<1>4. \/ code # 202 /\ owed' = owed
      \/ owed' = BagAdd(owed, c)
  BY DEF Runs
<1> HIDE DEF c
<1>5. CASE code # 202 /\ owed' = owed
  <2>1. OwedTo(b, t.id)' = C /\ OwedElsewhere(b, t.id) /\ Promises'
    BY <1>5 DEF OwedTo, OwedElsewhere, Flow, Promises
  <2> QED
    BY <1>1, <1>2, <1>5, <2>1
<1>6. CASE owed' = BagAdd(owed, c)
  <2>1. Promises' /\ OwedElsewhere(b, t.id) /\ OwedTo(b, t.id)' = C \cup {c}
    BY <1>1, <1>3, <1>6, OwedMore DEF Flow
  <2>2. d.origin = "external" \/ NoStale => t.req = d.request
    BY <1>1, ServesRequest
  <2> HIDE DEF d, C
  <2>3. Serving(C \cup {c}) /\ Returns(d, C \cup {c})
    BY <1>1, <1>2, <1>3, <2>2 DEF Serving, Returns
  <2> QED
    BY <2>1, <2>3 DEF d
<1> QED
  BY <1>4, <1>5, <1>6

\* A service answers.
LEMMA ServiceAnswersFlow ==
    ASSUME IInv, Flow, NEW b \in Broker, NEW t \in DOMAIN tasks[b],
           NEW code \in {200, 202, 500}, ServiceAnswers(b, t, code)
    PROVE  Flow'
<1> DEFINE d == db[b][t.id]
           r == Answer(code, IF code = 200 THEN Computed(t.req.body) ELSE "message")
           u == [t EXCEPT !.do = "served", !.resp = r]
<1>1. /\ t.do \in {"service", "relocated"} /\ Becomes(b, t, u)
      /\ UNCHANGED <<db, used, answers>> /\ Runs(b, t, code)
  BY DEF ServiceAnswers, Running
<1>2. t \in Task /\ Placed(b, t, d)
  BY <1>1, Pending
<1>3. r.status = code /\ (code = 200 => r.body = Computed(t.req.body))
  BY AnswerFields
<1> HIDE DEF r
<1>4. u.do = "served" /\ u.at = t.at /\ u.id = t.id /\ u.req = t.req /\ u.resp = r
  BY <1>2 DEF Task
<1> HIDE DEF u
<1>5. /\ Promises' /\ OwedElsewhere(b, t.id)
      /\ Serving(OwedTo(b, t.id)') /\ Returns(d, OwedTo(b, t.id)')
      /\ code = 202 => OwedTo(b, t.id)' # {}
  BY <1>1, RunOwes
<1>6. Placed(b, u, d)
  BY <1>1, <1>2, <1>4, ServesPlaced DEF Serves
<1>7. Carries(u) /\ ~Accepted(u)
  BY <1>3, <1>4 DEF Carries, Writing, Ends, Accepted
<1>8. Awaits(u, OwedTo(b, t.id)')
  BY <1>3, <1>4, <1>5 DEF Awaits, Serviced, Processes, Serves, Writing, Promised
<1> QED
  BY <1>1, <1>4, <1>5, <1>6, <1>7, <1>8, Turns DEF d

\* Its answer is lost, and it is called again.
LEMMA ServiceRunsAgainFlow ==
    ASSUME IInv, Flow, NEW b \in Broker, NEW t \in DOMAIN tasks[b],
           NEW code \in {200, 202, 500}, ServiceRunsAgain(b, t, code)
    PROVE  Flow'
<1> DEFINE d == db[b][t.id]
<1>1. /\ t.do \in {"service", "relocated"}
      /\ UNCHANGED <<up, db, tasks, used, answers>> /\ Runs(b, t, code)
  BY DEF ServiceRunsAgain, Running
<1>2. /\ t.id \in Id /\ TasksOf(b, t.id) = {t} /\ Stored(b, d) /\ d # NoDoc
      /\ Placed(b, t, d) /\ Carries(t)
  BY <1>1, Pending
<1>3. /\ Promises' /\ OwedElsewhere(b, t.id)
      /\ Serving(OwedTo(b, t.id)') /\ Returns(d, OwedTo(b, t.id)')
  BY <1>1, RunOwes
<1>4. Awaits(t, OwedTo(b, t.id)')
  BY <1>1, <1>3 DEF Awaits, Serviced, Processes, Serves, Writing, Promised
<1>5. SlotOK(b, d, {t}, OwedTo(b, t.id)')
  BY <1>1, <1>2, <1>3, <1>4 DEF SlotOK
<1>6. TasksOf(b, t.id)' = {t}
  BY <1>1, <1>2 DEF TasksOf
<1>7. Slot(b, t.id)'
  BY <1>1, <1>5, <1>6 DEF Slot
<1> QED
  BY <1>1, <1>2, <1>3, <1>7, Waits

\* The broker has the answer of the service.
LEMMA ServiceServedFlow ==
    ASSUME IInv, Flow, NEW b \in Broker, NEW t \in DOMAIN tasks[b], ServiceServed(b, t)
    PROVE  Flow'
<1> DEFINE d == db[b][t.id]
           C == OwedTo(b, t.id)
<1>1. t.do = "served" /\ UNCHANGED <<db, owed, used, answers>>
  BY DEF ServiceServed, Running
<1>2. /\ t \in Task /\ d \in Doc /\ Stored(b, d) /\ Placed(b, t, d) /\ Carries(t) /\ Awaits(t, C)
  BY <1>1, Pending
<1>3. Serving(C) /\ (Sure /\ t.resp.status = 202 => C # {})
  BY <1>1, <1>2 DEF Awaits, Serviced, Processes, Serves, Writing, Promised
<1>4. CASE t.resp.status = 202
  <2> DEFINE u == Write(t, "IN_PROGRESS", t.resp)
  <2>1. /\ u.do = "write" /\ u.at = t.at /\ u.id = t.id /\ u.req = t.req
        /\ u.resp = t.resp /\ u.status = "IN_PROGRESS"
    BY <1>2, WriteFields
  <2>2. Becomes(b, t, u)
    BY <1>4 DEF ServiceServed
  <2> HIDE DEF u, d, C
  <2>3. Placed(b, u, d)
    BY <1>1, <1>2, <2>1, ServesPlaced DEF Serves, Writing
  <2>4. Carries(u) /\ ~Accepted(u)
    BY <2>1 DEF Carries, Writing, Ends, Accepted
  <2>5. Awaits(u, C)
    BY <1>3, <1>4, <2>1 DEF Awaits, Serviced, Processes, Serves, Writing
  <2> QED
    BY <1>1, <2>1, <2>2, <2>3, <2>4, <2>5, Moves DEF d, C
<1>5. CASE t.resp.status # 202 /\ t.at = "forward"
  <2> DEFINE u == Return(t, t.resp)
  <2>1. u.do = "callback" /\ u.at = t.at /\ u.id = t.id /\ u.req = t.req /\ u.resp = t.resp
    BY <1>2, ReturnFields
  <2>2. Becomes(b, t, u)
    BY <1>5 DEF ServiceServed, Conclude
  <2> HIDE DEF u, d, C
  <2>3. Placed(b, u, d)
    BY <1>2, <1>5, <2>1 DEF Placed, ForwardAt
  <2>4. Carries(u) /\ ~Accepted(u)
    BY <1>1, <1>2, <1>5, <2>1 DEF Carries, Writing, Ends, Accepted
  <2>5. Awaits(u, C)
    BY <1>3, <2>1 DEF Awaits, Serviced, Processes, Serves, Writing, Promised
  <2> QED
    BY <1>1, <2>1, <2>2, <2>3, <2>4, <2>5, Moves DEF d, C
<1>6. CASE t.resp.status # 202 /\ t.at # "forward"
  <2> DEFINE u == Write(t, "FINISHED", t.resp)
  <2>1. /\ u.do = "write" /\ u.at = t.at /\ u.id = t.id /\ u.req = t.req
        /\ u.resp = t.resp /\ u.status = "FINISHED"
    BY <1>2, WriteFields
  <2>2. Becomes(b, t, u)
    BY <1>6 DEF ServiceServed, Conclude
  <2>3. t.at \in {"request", "resume"} /\ (NoStale => t.req = d.request)
    BY <1>1, <1>2, <1>6, ServesRequest
  <2> HIDE DEF u, d, C
  <2>4. Placed(b, u, d) /\ d.origin = "local"
    BY <1>1, <1>2, <2>1, <2>3
       DEF Placed, OpenAt, ResumeAt, Protecting, Passing, Serves, Ends, Writing
  <2>5. NoStale /\ t.resp.status = 200 => t.resp.body = "result"
    BY <1>1, <1>2, <2>3, <2>4 DEF Carries, Stored, Computed
  <2>6. Carries(u) /\ ~Accepted(u)
    BY <2>1, <2>3, <2>5 DEF Carries, Writing, Ends, Accepted
  <2>7. Awaits(u, C)
    BY <1>3, <2>1, <2>3 DEF Awaits, Serviced, Processes, Serves, Writing, Ends, Promised
  <2> QED
    BY <1>1, <2>1, <2>2, <2>4, <2>6, <2>7, Moves DEF d, C
<1> QED
  BY <1>4, <1>5, <1>6

\* The service is not where it was.
LEMMA ServiceMovedFlow ==
    ASSUME IInv, Flow, NEW b \in Broker, NEW t \in DOMAIN tasks[b], ServiceMoved(b, t)
    PROVE  Flow'
<1> DEFINE d == db[b][t.id]
           C == OwedTo(b, t.id)
           u == [t EXCEPT !.do = "relocated"]
<1>1. t.do = "service" /\ UNCHANGED <<db, owed, used, answers>> /\ Becomes(b, t, u)
  BY DEF ServiceMoved, Running
<1>2. t \in Task /\ Placed(b, t, d) /\ Awaits(t, C)
  BY <1>1, Pending
<1>3. u.do = "relocated" /\ u.at = t.at /\ u.id = t.id /\ u.req = t.req
  BY <1>2, NextFields
<1> HIDE DEF u, d, C
<1>4. Placed(b, u, d)
  BY <1>1, <1>2, <1>3, ServesPlaced DEF Serves
<1>5. Carries(u) /\ Awaits(u, C) /\ ~Accepted(u)
  BY <1>1, <1>2, <1>3 DEF Carries, Awaits, Serviced, Processes, Serves, Ends, Writing, Promised, Accepted
<1> QED
  BY <1>1, <1>3, <1>4, <1>5, Moves DEF d, C

-----------------------------------------------------------------------------
(* The protection orchestrator. *)

\* protect() is asked by request(), unprotect() by forwardCallback().
LEMMA AskedByStage ==
    ASSUME NEW b \in Broker, NEW STATE d, NEW STATE t, t \in Task, Placed(b, t, d),
           t.do \in {"protect", "unprotect", "started"}
    PROVE  /\ t.at \in {"request", "unprotect"}
           /\ t.do = "protect" => t.at = "request"
           /\ t.do = "unprotect" => t.at = "unprotect"
           /\ t.at = "request" => OpenAt(b, t, d) /\ Protecting(t) /\ ~t.req.skip_po /\ Away(b, t.req)
           /\ t.at = "unprotect" => UnprotectAt(t, d) /\ Saved(d)
BY DEF Placed, OpenAt, ResumeAt, ForwardAt, UnprotectAt, CallbackAt,
       Protecting, Passing, Serves, Ends, Writing, Task, Stage

\* The PO starts a process.
LEMMA POStartsFlow ==
    ASSUME Orderly, IInv, Flow, NEW b \in Broker, NEW t \in DOMAIN tasks[b],
           NEW ok \in BOOLEAN, POStarts(b, t, ok)
    PROVE  Flow'
<1> DEFINE d == db[b][t.id]
           C == OwedTo(b, t.id)
           u == [t EXCEPT !.do = "started"]
           c == [to |-> b, id |-> t.id, from |-> "po", ok |-> ok,
                 value |-> IF t.do = "protect" THEN "protected" ELSE "result"]
<1>1. /\ t.do \in {"protect", "unprotect"} /\ Becomes(b, t, u)
      /\ UNCHANGED <<db, used, answers>>
      /\ ok \/ t.do = "protect"
      /\ owed' = BagAdd(owed, c)
  BY DEF POStarts, Running, Process, Orderly
<1>2. /\ t \in Task /\ t.id \in Id /\ t.id \in used
      /\ Placed(b, t, d) /\ Returns(d, C) /\ Awaits(t, C)
  BY <1>1, Pending
<1>3. /\ t.at \in {"request", "unprotect"}
      /\ t.do = "protect" <=> t.at = "request"
      /\ t.at = "request" => OpenAt(b, t, d) /\ ~t.req.skip_po /\ Away(b, t.req)
      /\ t.at = "unprotect" => UnprotectAt(t, d) /\ Saved(d)
  BY <1>1, <1>2, AskedByStage
<1>4. u.do = "started" /\ u.at = t.at /\ u.id = t.id /\ u.req = t.req
  BY <1>2, NextFields
<1>5. /\ c.to = b /\ c.id = t.id /\ c.from = "po" /\ (ok => c.ok)
      /\ c.value = IF t.do = "protect" THEN "protected" ELSE "result"
  OBVIOUS
<1> HIDE DEF u, c
<1>6. C = {}
  BY <1>1, <1>2 DEF Awaits, Serviced, Processes, Serves, Ends, Writing
<1>7. c \notin DOMAIN owed
  BY <1>5, <1>6 DEF OwedTo
<1>8. Promises' /\ OwedElsewhere(b, t.id) /\ OwedTo(b, t.id)' = {c}
  BY <1>1, <1>2, <1>5, <1>6, <1>7, OwedMore DEF Flow
<1> HIDE DEF d, C
<1>9. Placed(b, u, d)
  BY <1>3, <1>4 DEF Placed, OpenAt, UnprotectAt, Protecting, Passing, Serves, Ends, Writing
<1>10. Carries(u) /\ ~Accepted(u) /\ Returns(d, {c})
  BY <1>2, <1>4, <1>5 DEF Carries, Writing, Ends, Accepted, Returns
<1>11. Awaits(u, {c})
  <2>1. Processing({c}, Wanted(u))
    BY <1>1, <1>3, <1>4, <1>5 DEF Processing, Wanted
  <2> QED
    BY <1>4, <2>1 DEF Awaits, Serviced, Processes, Serves, Ends, Writing
<1> QED
  BY <1>1, <1>4, <1>8, <1>9, <1>10, <1>11, Turns DEF d

\* The broker has the PO's answer.
LEMMA POStartedFlow ==
    ASSUME IInv, Flow, NEW b \in Broker, NEW t \in DOMAIN tasks[b], POStarted(b, t)
    PROVE  Flow'
<1> DEFINE d == db[b][t.id]
           C == OwedTo(b, t.id)
           status == IF t.at = "request" THEN "PROTECTING" ELSE "UNPROTECTING"
           u == Write(t, status, Answer(200, "process"))
<1>1. t.do = "started" /\ UNCHANGED <<db, owed, used, answers>> /\ Becomes(b, t, u)
  BY DEF POStarted, Running
<1>2. t \in Task /\ Placed(b, t, d) /\ Awaits(t, C)
  BY <1>1, Pending
<1>3. /\ t.at \in {"request", "unprotect"}
      /\ t.at = "request" => OpenAt(b, t, d) /\ ~t.req.skip_po /\ Away(b, t.req)
      /\ t.at = "unprotect" => UnprotectAt(t, d) /\ Saved(d)
  BY <1>1, <1>2, AskedByStage
<1>4. /\ u.do = "write" /\ u.at = t.at /\ u.id = t.id /\ u.req = t.req
      /\ u.status = (IF t.at = "request" THEN "PROTECTING" ELSE "UNPROTECTING")
      /\ u.resp.body = "process"
  BY <1>2, WriteFields, AnswerFields
<1> HIDE DEF u, d, C
<1>5. Placed(b, u, d)
  BY <1>3, <1>4 DEF Placed, OpenAt, UnprotectAt, Protecting, Passing, Serves, Ends, Writing
<1>6. Carries(u) /\ ~Accepted(u)
  BY <1>3, <1>4 DEF Carries, Writing, Ends, Accepted
<1>7. Awaits(u, C)
  <2>1. Processing(C, Wanted(t)) /\ Wanted(u) = Wanted(t)
    BY <1>1, <1>2, <1>4 DEF Awaits, Serviced, Processes, Wanted
  <2>2. Processes(u)
    BY <1>4 DEF Processes, Writing
  <2> QED
    BY <1>3, <1>4, <2>1, <2>2 DEF Awaits, Serviced, Serves, Ends, Writing
<1> QED
  BY <1>1, <1>4, <1>5, <1>6, <1>7, Moves DEF d, C

\* The PO refuses.
LEMMA PORefusesFlow ==
    ASSUME IInv, Flow, NEW b \in Broker, NEW t \in DOMAIN tasks[b], PORefuses(b, t)
    PROVE  Flow'
<1> DEFINE d == db[b][t.id]
           C == OwedTo(b, t.id)
           u == Write(t, "FINISHED", Error(503))
<1>1. /\ t.do \in {"protect", "unprotect"} /\ UNCHANGED <<db, owed, used, answers>>
      /\ Becomes(b, t, u)
  BY DEF PORefuses, Running
<1>2. t \in Task /\ Placed(b, t, d) /\ Awaits(t, C)
  BY <1>1, Pending
<1>3. /\ t.at \in {"request", "unprotect"}
      /\ t.at = "request" => OpenAt(b, t, d)
      /\ t.at = "unprotect" => UnprotectAt(t, d) /\ Saved(d)
  BY <1>1, <1>2, AskedByStage
<1>4. /\ u.do = "write" /\ u.at = t.at /\ u.id = t.id /\ u.req = t.req
      /\ u.status = "FINISHED" /\ u.resp.status = 503
  BY <1>2, WriteFields, AnswerFields
<1> HIDE DEF u, d, C
<1>5. Placed(b, u, d)
  BY <1>3, <1>4 DEF Placed, OpenAt, UnprotectAt, Protecting, Passing, Serves, Ends, Writing
<1>6. Carries(u) /\ ~Accepted(u)
  BY <1>3, <1>4 DEF Carries, Writing, Ends, Accepted
<1>7. C = {}
  BY <1>1, <1>2 DEF Awaits, Serviced, Processes, Serves, Ends, Writing
<1>8. Awaits(u, C)
  BY <1>4, <1>7 DEF Awaits, Serviced, Processes, Serves, Ends, Writing, Serving, Promised
<1> QED
  BY <1>1, <1>4, <1>5, <1>6, <1>8, Moves DEF d, C
\* It says nothing, and the request waits for nothing.
LEMMA POSaysNothingFlow ==
    ASSUME IInv, Flow, NEW b \in Broker, NEW t \in DOMAIN tasks[b], POSaysNothing(b, t)
    PROVE  Flow'
<1> DEFINE d == db[b][t.id]
           C == OwedTo(b, t.id)
<1>1. /\ t.do \in {"protect", "unprotect"} /\ UNCHANGED <<db, owed, used, answers>>
      /\ Done(b, t) /\ ~Sure
  BY DEF POSaysNothing, Running, Fault, Sure
<1>2. /\ t \in Task /\ t.id \in Id /\ d # NoDoc /\ Stored(b, d) /\ Returns(d, C)
      /\ Placed(b, t, d) /\ Awaits(t, C)
  BY <1>1, Pending
<1>3. d.status = "IN_PROGRESS" /\ C = {}
  BY <1>1, <1>2, AskedByStage
     DEF OpenAt, Fresh, Saved, Awaits, Serviced, Processes, Serves, Ends, Writing
<1>4. Singles' /\ TasksElsewhere(b, t.id) /\ TasksOf(b, t.id)' = {}
  BY <1>1, DoneLone DEF Flow
<1>5. /\ OwedTo(b, t.id)' = C /\ OwedElsewhere(b, t.id) /\ Promises'
      /\ DocsElsewhere(b, t.id) /\ db'[b][t.id] = d /\ AnswersGrow
  BY <1>1 DEF OwedTo, OwedElsewhere, Flow, Promises, DocsElsewhere, AnswersGrow
<1>6. Slot(b, t.id)'
  <2>1. Idle(d, C)
    BY <1>1, <1>2, <1>3 DEF Idle, Serving
  <2> HIDE DEF d, C
  <2>2. SlotOK(b, d, {}, C)
    BY <1>2, <2>1 DEF SlotOK
  <2> QED
    BY <1>4, <1>5, <2>2 DEF Slot
<1>7. /\ Inherits(b, t.id) /\ Unfetched(b, t.id) /\ ~Passed(b, t.id)'
      /\ Pursued(b, t.id) => Pursued(b, t.id)'
  BY <1>2, <1>3, <1>4, <1>5 DEF Inherits, Unfetched, Passed, Pursued, External
<1> QED
  BY <1>1, <1>2, <1>4, <1>5, <1>6, <1>7, SlotStep

-----------------------------------------------------------------------------
(* Writes and deletions. *)

\* What updateRequest does to a document that is there.
LEMMA WrittenDoc ==
    ASSUME IInv, NEW b \in Broker, NEW t \in DOMAIN tasks[b], db[b][t.id] # NoDoc,
           db' = [db EXCEPT ![b] = updateRequest(@, t.id, t.status, t.resp)]
    PROVE  LET d == db[b][t.id]
               e == db'[b][t.id]
           IN  /\ e # NoDoc /\ e.origin = d.origin /\ e.request = d.request
               /\ e.status = t.status /\ Len(e.log) = Len(d.log) + 1
               /\ e.log[Len(d.log) + 1] = t.resp /\ lastResponse(e) = t.resp
               /\ \A k \in 1 .. Len(d.log) : e.log[k] = d.log[k]
               /\ DocsElsewhere(b, t.id)
<1> DEFINE d == db[b][t.id]
           e == [d EXCEPT !.status = t.status, !.log = Append(@, t.resp)]
<1>1. t \in Task /\ t.id \in Id /\ d \in Doc /\ db \in [Broker -> Stores] /\ db[b] \in Stores
  BY PendingIsTask DEF IInv, Brokers, Stores
<1>2. d.log \in Seq(Response) /\ t.resp \in Response /\ t.status \in Status
  BY <1>1 DEF Doc, Task
<1>3. /\ e.origin = d.origin /\ e.request = d.request /\ e.status = t.status
      /\ e.log = Append(d.log, t.resp) /\ e \in Doc
  <2>1. Append(d.log, t.resp) \in Seq(Response)
    BY <1>2
  <2> QED
    BY <1>1, <1>2, <2>1 DEF Doc
<1>4. /\ Len(e.log) = Len(d.log) + 1 /\ e.log[Len(d.log) + 1] = t.resp
      /\ \A k \in 1 .. Len(d.log) : e.log[k] = d.log[k]
  BY <1>2, <1>3
<1>5. e # NoDoc /\ lastResponse(e) = t.resp
  BY <1>2, <1>3, <1>4, NoDocAssumption DEF lastResponse
<1>6. db' = [db EXCEPT ![b] = [db[b] EXCEPT ![t.id] = e]]
  BY DEF updateRequest
<1> HIDE DEF e
<1>7. db'[b][t.id] = e /\ DocsElsewhere(b, t.id)
  BY <1>1, <1>6 DEF DocsElsewhere, Stores
<1> QED
  BY <1>3, <1>4, <1>5, <1>7

\* A write ends the task or starts an operation of the same request.
LEMMA Wrote ==
    ASSUME IInv, Flow, NEW b \in Broker, NEW i \in Id,
           db[b][i] # NoDoc, db'[b][i] # NoDoc, DocsElsewhere(b, i),
           db'[b][i].origin = db[b][i].origin, db'[b][i].request = db[b][i].request,
           TasksElsewhere(b, i), Singles', UNCHANGED <<owed, used, answers>>,
           \A u \in TasksOf(b, i)' : u.do # "delete" /\ ~Accepted(u),
           db'[b][i].status = "FORWARDED" => Passed(b, i),
           SlotOK(b, db'[b][i], TasksOf(b, i)', OwedTo(b, i))
    PROVE  Flow'
<1>1. OwedTo(b, i)' = OwedTo(b, i) /\ OwedElsewhere(b, i) /\ Promises' /\ AnswersGrow
  BY DEF OwedTo, OwedElsewhere, Flow, Promises, AnswersGrow
<1>2. Slot(b, i)'
  BY <1>1 DEF Slot
<1>3. /\ Inherits(b, i) /\ Unfetched(b, i)
      /\ Passed(b, i)' => Passed(b, i)
  BY DEF Inherits, Unfetched, Passed
<1>4. Pursued(b, i) => Pursued(b, i)'
  BY DEF Pursued, External
<1> QED
  BY <1>1, <1>2, <1>3, <1>4, SlotStep

\* The write of a status.
LEMMA WriteFlow ==
    ASSUME IInv, Flow, NEW b \in Broker, NEW t \in DOMAIN tasks[b],
           t.do = "write", ApplyWrite(b, t)
    PROVE  Flow'
<1> DEFINE d == db[b][t.id]
           e == db'[b][t.id]
           C == OwedTo(b, t.id)
<1>1. /\ db' = [db EXCEPT ![b] = updateRequest(@, t.id, t.status, t.resp)]
      /\ Done(b, t) /\ UNCHANGED <<owed, used, answers>>
  BY DEF ApplyWrite, AfterWrite
<1>2. /\ t \in Task /\ t.id \in Id /\ d # NoDoc /\ d \in Doc
      /\ Stored(b, d) /\ Returns(d, C) /\ Placed(b, t, d) /\ Carries(t) /\ Awaits(t, C)
      /\ TasksOf(b, t.id) = {t}
  BY Pending
<1>3. /\ e # NoDoc /\ e.origin = d.origin /\ e.request = d.request
      /\ e.status = t.status /\ Len(e.log) = Len(d.log) + 1
      /\ e.log[Len(d.log) + 1] = t.resp /\ lastResponse(e) = t.resp
      /\ \A k \in 1 .. Len(d.log) : e.log[k] = d.log[k]
      /\ DocsElsewhere(b, t.id)
  BY <1>1, <1>2, WrittenDoc
<1>4. Singles' /\ TasksElsewhere(b, t.id) /\ TasksOf(b, t.id)' = {}
  BY <1>1, DoneLone DEF Flow
<1>5. t.status \in Status /\ Len(d.log) \in Nat /\ t.req \in Request /\ d.request \in Request
  BY <1>2 DEF Task, Doc
<1> HIDE DEF d, e, C
<1>6. Returns(e, C)
  BY <1>2, <1>3 DEF Returns
<1>7. e.origin = "local" => e.request.body = "data"
  BY <1>2, <1>3 DEF Stored
<1>8. Stored(b, e) /\ Idle(e, C) /\ (e.status = "FORWARDED" => Accepted(t))
  <2>1. CASE t.status = "FINISHED"
    <3>1. Serving(C)
      BY <1>2, <2>1 DEF Placed, UnprotectAt, CallbackAt, Awaits, Serviced, Processes, Serves, Ends,
         Writing, Serving
    <3>2. NoStale /\ t.resp.status = 200 => t.resp.body = "result"
      BY <1>2, <2>1 DEF Carries, Ends, Writing
    <3> QED
      BY <1>3, <1>7, <2>1, <3>1, <3>2 DEF Stored, Idle
  <2>2. CASE t.status = "IN_PROGRESS"
    <3>1. Serving(C) /\ (Sure => C # {})
      BY <1>2, <2>2 DEF Awaits, Serviced, Serves, Promised, Writing
    <3> QED
      BY <1>3, <1>5, <1>7, <2>2, <3>1 DEF Stored, Idle
  <2>3. CASE t.status = "PROTECTING"
    <3>1. t.at = "request" /\ OpenAt(b, t, d)
      BY <1>2, <2>3 DEF Placed, OpenAt, ResumeAt, ForwardAt, UnprotectAt, CallbackAt,
         Passing, Serves, Ends, Writing, Task, Stage
    <3>2. ~d.request.skip_po /\ Away(b, d.request) /\ Len(d.log) = 0
      BY <2>3, <3>1 DEF OpenAt, Protecting, Writing, Fresh
    <3>3. Processing(C, "protected")
      BY <1>2, <2>3, <3>1 DEF Awaits, Processes, Writing, Wanted
    <3> QED
      BY <1>3, <1>5, <1>7, <2>3, <3>2, <3>3 DEF Stored, Idle
  <2>4. CASE t.status = "FORWARDED"
    <3>1. t.at \in {"request", "resume"} /\ Accepted(t)
      BY <1>2, <2>4 DEF Placed, ForwardAt, UnprotectAt, CallbackAt,
         Serves, Ends, Writing, Task, Stage, Accepted
    <3>2. C = {}
      BY <1>2, <2>4 DEF Awaits, Serviced, Processes, Serves, Ends, Writing
    <3>3. CASE t.at = "request"
      <4>1. t.req = d.request /\ t.req.skip_po /\ Deployed(t.req)
        BY <1>2, <2>4, <3>3 DEF Placed, OpenAt, Passing, Writing
      <4> QED
        BY <1>3, <1>7, <2>4, <3>1, <3>2, <4>1 DEF Stored, Idle
    <3>4. CASE t.at = "resume"
      <4>1. ResumeAt(t, d)
        BY <1>2, <3>4 DEF Placed
      <4>2. t.resp.unprotectParams /\ d.status = "PROTECTING"
        BY <2>4, <4>1 DEF ResumeAt, Writing
      <4>3. Len(d.log) = 1 /\ Deployed(d.request)
        BY <1>2, <4>2 DEF Stored, Away
      <4>4. Len(e.log) = 2 /\ e.log[2].unprotectParams
        BY <1>3, <4>2, <4>3
      <4> QED
        BY <1>3, <1>7, <2>4, <3>1, <3>2, <4>3, <4>4 DEF Stored, Idle
    <3> QED
      BY <3>1, <3>3, <3>4
  <2>5. CASE t.status = "UNPROTECTING"
    <3>1. t.at = "unprotect" /\ Saved(d)
      BY <1>2, <2>5 DEF Placed, OpenAt, ResumeAt, ForwardAt, UnprotectAt, CallbackAt,
         Protecting, Passing, Serves, Ends, Writing, Task, Stage
    <3>2. Processing(C, "result") /\ t.resp.body = "process"
      BY <1>2, <2>5, <3>1 DEF Awaits, Processes, Writing, Carries, Wanted
    <3>3. Len(e.log) = 4 /\ e.log[3].body = "protectedResult" /\ e.log[4].body = "process"
      BY <1>3, <3>1, <3>2 DEF Saved
    <3> QED
      BY <1>3, <1>7, <2>5, <3>2, <3>3 DEF Stored, Idle
  <2> QED
    BY <1>5, <2>1, <2>2, <2>3, <2>4, <2>5 DEF Status
<1>9. SlotOK(b, e, {}, C)
  BY <1>6, <1>8 DEF SlotOK
<1>10. e.status = "FORWARDED" => Passed(b, t.id)
  BY <1>2, <1>8 DEF Passed
<1> QED
  BY <1>1, <1>2, <1>3, <1>4, <1>9, <1>10, Wrote DEF d, e, C

\* forwardCallback saves the result, and asks the PO to unprotect it.
LEMMA SaveFlow ==
    ASSUME Orderly, IInv, Flow, NEW b \in Broker, NEW t \in DOMAIN tasks[b],
           t.do \in {"saveThenUnprotect", "writeNoCallback"}, ApplyWrite(b, t)
    PROVE  Flow'
<1> DEFINE d == db[b][t.id]
           e == db'[b][t.id]
           C == OwedTo(b, t.id)
           u == [t EXCEPT !.do = "unprotect", !.resp.unprotectParams = t.log[2].unprotectParams]
<1>1. /\ db' = [db EXCEPT ![b] = updateRequest(@, t.id, t.status, t.resp)]
      /\ UNCHANGED <<owed, used, answers>>
  BY DEF ApplyWrite
<1>2. /\ t \in Task /\ t.id \in Id /\ d # NoDoc /\ d \in Doc
      /\ Stored(b, d) /\ Returns(d, C) /\ Placed(b, t, d) /\ Carries(t) /\ Awaits(t, C)
      /\ TasksOf(b, t.id) = {t}
  BY Pending
<1>3. /\ e # NoDoc /\ e.origin = d.origin /\ e.request = d.request
      /\ e.status = t.status /\ Len(e.log) = Len(d.log) + 1
      /\ e.log[Len(d.log) + 1] = t.resp
      /\ DocsElsewhere(b, t.id)
  BY <1>1, <1>2, WrittenDoc
<1>4. /\ t.do = "saveThenUnprotect" /\ t.at = "unprotect" /\ t.log = d.log
      /\ ~t.req.skip_po /\ t.status = "IN_PROGRESS" /\ t.req = d.request
      /\ d.status = "FORWARDED" /\ d.origin = "local"
  BY <1>2 DEF Placed, OpenAt, ResumeAt, ForwardAt, UnprotectAt, CallbackAt,
     Protecting, Passing, Serves, Ends, Writing, Task, Stage
<1>5. Len(t.log) = 2 /\ t.log[2].unprotectParams /\ d.request.body = "data"
  BY <1>2, <1>4 DEF Stored
<1>6. Becomes(b, t, u)
  BY <1>4, <1>5 DEF ApplyWrite, AfterWrite, Orderly
<1>7. t.resp \in Response
  BY <1>2 DEF Task
<1>8. /\ u.do = "unprotect" /\ u.at = t.at /\ u.id = t.id /\ u.req = t.req
      /\ u.resp.unprotectParams
  BY <1>2, <1>5, <1>7 DEF Task, Response
<1> HIDE DEF u
<1>9. Singles' /\ TasksElsewhere(b, t.id) /\ TasksOf(b, t.id)' = {u}
  BY <1>4, <1>6, <1>8, BecomesLone DEF Flow
<1> HIDE DEF d, e, C
<1>10. Saved(e) /\ e.status = "IN_PROGRESS"
  BY <1>2, <1>3, <1>4, <1>5 DEF Saved, Carries
<1>11. Stored(b, e) /\ Returns(e, C)
  BY <1>2, <1>3, <1>5, <1>10 DEF Stored, Returns
<1>12. Placed(b, u, e) /\ Carries(u) /\ ~Accepted(u)
  BY <1>3, <1>4, <1>8, <1>10 DEF Placed, UnprotectAt, Carries, Ends, Writing, Accepted
<1>13. Awaits(u, C)
  BY <1>2, <1>4, <1>8 DEF Awaits, Serviced, Processes, Serves, Ends, Writing
<1>14. SlotOK(b, e, {u}, C)
  BY <1>3, <1>8, <1>11, <1>12, <1>13 DEF SlotOK
<1> QED
  BY <1>1, <1>2, <1>3, <1>8, <1>9, <1>10, <1>12, <1>14, Wrote DEF d, e, C

\* deleteRequest completes.
LEMMA DeleteFlow ==
    ASSUME IInv, Flow, NEW b \in Broker, NEW t \in DOMAIN tasks[b], Delete(b, t)
    PROVE  Flow'
<1> DEFINE i == t.id
           d == db[b][i]
           C == OwedTo(b, i)
           T == TasksOf(b, i)
<1>1. /\ t.do = "delete" /\ Done(b, t) /\ UNCHANGED <<owed, used, answers>>
      /\ db' = [db EXCEPT ![b] = [db[b] EXCEPT ![i] = NoDoc]]
  BY DEF Delete, Running, deleteRequest
<1>2. i \in Id /\ t \in T /\ Slot(b, i)
  BY PendingIsTask DEF IInv, Flow, Slots, TasksOf, Of
<1>3. db'[b][i] = NoDoc /\ DocsElsewhere(b, i)
  BY <1>1, <1>2 DEF IInv, Brokers, Stores, DocsElsewhere
<1>4. /\ Singles' /\ TasksElsewhere(b, i) /\ TasksOf(b, i)' \subseteq T
      /\ \A w \in T : w.do = "delete"
  BY <1>1, DoneLone DEF Flow
<1>5. OwedTo(b, i)' = C /\ OwedElsewhere(b, i) /\ Promises' /\ AnswersGrow
  BY <1>1 DEF OwedTo, OwedElsewhere, Flow, Promises, AnswersGrow
<1>6. Serving(C)
  BY <1>1, <1>2 DEF Slot, SlotOK, Leaving
<1>7. Slot(b, i)'
  <2>1. SlotOK(b, NoDoc, TasksOf(b, i)', C)
    BY <1>4, <1>6 DEF SlotOK, Leaving, Idle
  <2> QED
    BY <1>3, <1>5, <2>1 DEF Slot
<1>8. Inherits(b, i) /\ Unfetched(b, i) /\ ~Passed(b, i)' /\ ~Pursued(b, i)
  BY <1>1, <1>2, <1>3, <1>4 DEF Inherits, Unfetched, Passed, Pursued, Accepted, Writing
<1> QED
  BY <1>1, <1>2, <1>3, <1>4, <1>5, <1>7, <1>8, SlotStep
-----------------------------------------------------------------------------
(* New requests. *)

\* An id that was not given has no document, task or callback.
LEMMA UnusedSlot ==
    ASSUME IInv, Flow, NEW b \in Broker, NEW i \in Id \ used
    PROVE  db[b][i] = NoDoc /\ TasksOf(b, i) = {} /\ OwedTo(b, i) = {}
<1>1. \A t \in DOMAIN tasks[b] : t.id \in used
  BY PendingIsTask DEF IInv
<1> QED
  BY <1>1 DEF IInv, Brokers, Docs, TasksOf, Of, OwedTo, Flow, Promises

\* A request is looked up first.
LEMMA NewSlot ==
    ASSUME NEW b \in Broker, NEW origin \in {"local", "external"},
           NEW STATE req, req \in Request, origin = "local" => req.body = "data",
           NEW STATE t, t.do = "find", t.req = req,
           t.at = IF origin = "local" THEN "request" ELSE "forward"
    PROVE  SlotOK(b, createRequest(origin, req), {t}, {})
<1> DEFINE d == createRequest(origin, req)
<1>1. /\ d.origin = origin /\ d.status = "IN_PROGRESS" /\ d.request = req
      /\ Len(d.log) = 0 /\ d \in Doc
  BY DEF createRequest, Doc, Status
<1> HIDE DEF d
<1>2. d # NoDoc
  BY <1>1, NoDocAssumption
<1>3. Stored(b, d) /\ Returns(d, {})
  BY <1>1 DEF Stored, Returns
<1>4. Placed(b, t, d)
  BY <1>1 DEF Placed, OpenAt, ForwardAt, Fresh, Protecting, Passing, Serves, Ends, Writing
<1>5. Carries(t) /\ Awaits(t, {})
  BY DEF Carries, Awaits, Serviced, Processes, Serves, Ends, Writing
<1>6. SlotOK(b, d, {t}, {})
  BY <1>2, <1>3, <1>4, <1>5 DEF SlotOK
<1> QED
  BY <1>6 DEF d

\* Its document is the only one of its id, and no other was made for it.
LEMMA NewDocument ==
    ASSUME IInv, Flow, NEW b \in Broker, NEW i \in Id \ used, DocsElsewhere(b, i),
           db'[b][i].origin \in {"local", "external"},
           used' = used \cup {i}, answers' = answers,
           \A c \in Broker : \A u \in DOMAIN tasks'[c] :
               u.do = "delete" => u \in DOMAIN tasks[c],
           i \in ClientId <=> db'[b][i].origin = "local",
           LET req == db'[b][i].request
           IN  db'[b][i].origin = "external" =>
                   /\ req.original_id \in used
                   /\ db[Peer[b]][req.original_id] # NoDoc =>
                          req.body = Sent(db[Peer[b]][req.original_id])
    PROVE  Matched' /\ Clients'
<1>1. \A c \in Broker : db[c][i] = NoDoc
  BY UnusedSlot
<1>2. ASSUME NEW c \in Broker, NEW j \in Id, External(c, j)'
      PROVE  LET req == db'[c][j].request
                 e == db'[Peer[c]][req.original_id]
             IN  req.original_id \in used' /\ (e # NoDoc => req.body = Sent(e))
  <2> DEFINE req == db'[c][j].request
  <2>1. /\ req.original_id \in used
        /\ db[Peer[c]][req.original_id] # NoDoc =>
               req.body = Sent(db[Peer[c]][req.original_id])
    <3>1. CASE c = b /\ j = i
      BY <1>2, <3>1 DEF External
    <3>2. CASE c # b \/ j # i
      BY <1>2, <3>2 DEF External, DocsElsewhere, Flow, Matched
    <3> QED
      BY <3>1, <3>2
  <2>2. Peer[c] \in Broker /\ req.original_id \in Id /\ req.original_id # i
    BY <2>1, PeerIsBroker DEF IInv, Brokers
  <2> HIDE DEF req
  <2>3. db'[Peer[c]][req.original_id] = db[Peer[c]][req.original_id]
    BY <2>2 DEF DocsElsewhere
  <2> QED
    BY <2>1, <2>3 DEF req
<1>3. Matched'
  BY <1>2 DEF Matched
<1>4. \A c \in Broker, j \in Id :
          db'[c][j] # NoDoc => (j \in ClientId <=> db'[c][j].origin = "local")
  BY DEF DocsElsewhere, Flow, Clients
<1>5. \A c \in Broker, e \in Broker, j \in ClientId :
          db'[c][j] # NoDoc /\ db'[e][j] # NoDoc => c = e
  BY <1>1, IdAssumption DEF DocsElsewhere, Flow, Clients
<1>6. \A c \in Broker : \A u \in DOMAIN tasks'[c] :
          u.do = "delete" /\ u.id \in ClientId => answers'[u.id] # << >>
  BY DEF Flow, Clients
<1> QED
  BY <1>3, <1>4, <1>5, <1>6 DEF Clients

\* A client creates a request.
LEMMA CreateFlow ==
    ASSUME IInv, Flow, NEW b \in Broker, NEW i \in ClientId, NEW s \in Service,
           NEW skip \in BOOLEAN, Create(b, i, s, skip)
    PROVE  Flow'
<1> DEFINE req == [service |-> s, skip_po |-> skip, body |-> "data", original_id |-> NoId]
           d == createRequest("local", req)
           u == Work("find", "request", i, req)
<1>1. i \in Id \ used /\ req \in Request /\ req.body = "data"
  BY IdAssumption DEF Create, Request, Body
<1>2. /\ db' = [db EXCEPT ![b] = [db[b] EXCEPT ![i] = d]]
      /\ tasks' = Start(b, u) /\ used' = used \cup {i} /\ UNCHANGED <<up, owed, answers>>
  BY DEF Create, IInv, Brokers
<1>3. u.do = "find" /\ u.at = "request" /\ u.id = i /\ u.req = req
  BY DEF Work
<1> HIDE DEF req
<1>4. d.origin = "local"
  BY DEF createRequest
<1>5. SlotOK(b, d, {u}, {})
  BY <1>1, <1>3, NewSlot
<1> HIDE DEF d, u
<1>6. db'[b][i] = d /\ DocsElsewhere(b, i)
  BY <1>1, <1>2 DEF IInv, Brokers, Stores, DocsElsewhere
<1>7. /\ db[b][i] = NoDoc /\ TasksOf(b, i) = {} /\ OwedTo(b, i) = {}
  BY <1>1, UnusedSlot
<1>8. Singles' /\ TasksElsewhere(b, i) /\ TasksOf(b, i)' = {u}
  BY <1>1, <1>2, <1>3, <1>7, StartLone DEF Flow
<1>9. \A c \in Broker, j \in Id : OwedTo(c, j)' = OwedTo(c, j)
  BY <1>2 DEF OwedTo
<1>10. Promises'
  BY <1>2 DEF Flow, Promises
<1>11. ASSUME NEW c \in Broker, NEW j \in Id
       PROVE  /\ Slot(c, j)'
              /\ Passed(c, j)' => Passed(c, j)
              /\ Pursued(c, j) => Pursued(c, j)' /\ db'[c][j] = db[c][j]
  <2>1. CASE c = b /\ j = i
    <3>1. Slot(c, j)'
      BY <1>5, <1>6, <1>7, <1>8, <1>9, <2>1 DEF Slot
    <3>2. ~Pursued(c, j) /\ ~Passed(c, j)'
      BY <1>3, <1>7, <1>8, <2>1 DEF Pursued, External, Passed, Accepted, Writing
    <3> QED
      BY <3>1, <3>2
  <2>2. CASE c # b \/ j # i
    <3>1. /\ db'[c][j] = db[c][j] /\ TasksOf(c, j)' = TasksOf(c, j)
          /\ OwedTo(c, j)' = OwedTo(c, j) /\ Slot(c, j)
      BY <1>6, <1>8, <1>9, <2>2 DEF DocsElsewhere, TasksElsewhere, Flow, Slots
    <3> QED
      BY <3>1, SameSlot
  <2> QED
    BY <2>1, <2>2
<1>12. \A c \in Broker : \A v \in DOMAIN tasks'[c] : v.do = "delete" => v \in DOMAIN tasks[c]
  <2>1. IsABag(tasks[b]) /\ DOMAIN tasks = Broker
    BY DEF IInv, Brokers, Tasks
  <2>2. DOMAIN BagAdd(tasks[b], u) = DOMAIN tasks[b] \cup {u}
    BY <2>1, AddedBag
  <2> QED
    BY <1>2, <1>3, <2>1, <2>2 DEF Start
<1>13. Matched' /\ Clients'
  BY <1>1, <1>2, <1>4, <1>6, <1>12, NewDocument
<1>14. Followed'
  <2>1. ASSUME NEW c \in Broker, NEW j \in Id, NEW k \in Id, Child(c, j, k)
        PROVE  Child(c, j, k)'
    BY <1>11, <2>1, PeerIsBroker DEF Child
  <2> QED
    BY <1>11, <2>1, FollowedKept DEF Flow
<1>15. Slots'
  BY <1>11 DEF Slots
<1> QED
  BY <1>8, <1>10, <1>13, <1>14, <1>15 DEF Flow

-----------------------------------------------------------------------------
(* Answers to the client. *)

\* Nothing works on a request that is finished, but deletions.
LEMMA FinishedIsLeft ==
    ASSUME IInv, Flow, NEW b \in Broker, NEW i \in Id,
           db[b][i] # NoDoc, db[b][i].status = "FINISHED"
    PROVE  /\ \A t \in TasksOf(b, i) : t.do = "delete"
           /\ Serving(OwedTo(b, i)) /\ Stored(b, db[b][i])
<1> DEFINE d == db[b][i]
<1>1. d.origin = "local" /\ d.status = "FINISHED" /\ Slot(b, i)
  BY DEF IInv, Brokers, Docs, Flow, Slots
<1>2. ASSUME NEW t \in TasksOf(b, i), t.do # "delete"
      PROVE  FALSE
  <2>1. t \in Task /\ Placed(b, t, d)
    BY <1>1, <1>2, PendingIsTask DEF Slot, SlotOK, TasksOf, Of, IInv
  <2> HIDE DEF d
  <2> QED
    BY <1>1, <2>1 DEF Placed, OpenAt, ResumeAt, ForwardAt, UnprotectAt, CallbackAt, Fresh, Saved,
       Task, Stage
<1>3. Serving(OwedTo(b, i))
  BY <1>1, <1>2 DEF Slot, SlotOK, Leaving, Idle
<1> QED
  BY <1>1, <1>2, <1>3 DEF Slot, SlotOK

\* getresult answers, and deletes what was answered.
LEMMA GetResultFlow ==
    ASSUME IInv, Flow, NEW b \in Broker, NEW i \in ClientId, GetResult(b, i)
    PROVE  Flow'
<1> DEFINE d == db[b][i]
           C == OwedTo(b, i)
           T == TasksOf(b, i)
           u == Work("delete", "request", i, d.request)
<1>1. /\ i \in Id /\ d # NoDoc /\ d.status = "FINISHED"
      /\ tasks' = Start(b, u) /\ UNCHANGED <<up, db, owed, used>>
      /\ answers' = [answers EXCEPT ![i] = Append(@, lastResponse(d))]
  BY IdAssumption DEF GetResult
<1>2. u.do = "delete" /\ u.id = i
  BY DEF Work
<1>3. /\ \A t \in T : t.do = "delete"
      /\ Serving(C) /\ Stored(b, d)
  BY <1>1, FinishedIsLeft
<1> HIDE DEF u
<1>4. Singles' /\ TasksElsewhere(b, i) /\ TasksOf(b, i)' = T \cup {u}
  BY <1>1, <1>2, <1>3, StartLone DEF Flow
<1>5. /\ OwedTo(b, i)' = C /\ OwedElsewhere(b, i) /\ Promises' /\ DocsElsewhere(b, i)
      /\ db'[b][i] = d
  BY <1>1 DEF OwedTo, OwedElsewhere, Flow, Promises, DocsElsewhere
<1>6. answers'[i] # << >> /\ AnswersGrow
  BY <1>1 DEF IInv, World, AnswersGrow
<1>7. Slot(b, i)'
  <2>1. Returns(d, C)
    BY <1>1 DEF Flow, Slots, Slot, SlotOK
  <2> HIDE DEF d, C, T
  <2>2. SlotOK(b, d, T \cup {u}, C)
    BY <1>1, <1>2, <1>3, <2>1 DEF SlotOK, Leaving
  <2> QED
    BY <1>4, <1>5, <2>2 DEF Slot
<1>8. d.origin = "local"
  BY <1>1 DEF IInv, Brokers, Docs
<1>9. Inherits(b, i) /\ Unfetched(b, i) /\ ~Passed(b, i)' /\ ~Pursued(b, i)
  BY <1>1, <1>2, <1>3, <1>4, <1>6, <1>8
     DEF Inherits, Unfetched, Passed, Pursued, External, Accepted, Writing
<1> QED
  BY <1>1, <1>4, <1>5, <1>6, <1>7, <1>9, SlotStep
-----------------------------------------------------------------------------
(* The brokers call each other. *)

\* The broker has the 202 of its peer.
LEMMA ForwardAckedFlow ==
    ASSUME IInv, Flow, NEW b \in Broker, NEW t \in DOMAIN tasks[b], ForwardAcked(b, t)
    PROVE  Flow'
<1> DEFINE d == db[b][t.id]
           C == OwedTo(b, t.id)
           r == [Error(202) EXCEPT !.unprotectParams = (t.at = "resume")]
           u == Write(t, "FORWARDED", r)
<1>1. t.do = "accepted" /\ UNCHANGED <<db, owed, used, answers>> /\ Becomes(b, t, u)
  BY DEF ForwardAcked, Running
<1>2. t \in Task /\ Placed(b, t, d) /\ Awaits(t, C)
  BY <1>1, Pending
<1>3. /\ u.do = "write" /\ u.at = t.at /\ u.id = t.id /\ u.req = t.req
      /\ u.resp = r /\ u.status = "FORWARDED"
  BY <1>2, WriteFields
<1>4. t.at = "resume" => r.unprotectParams
  BY DEF Error, Answer
<1> HIDE DEF r, u, d, C
<1>5. t.at \in {"request", "resume"}
  BY <1>1, <1>2 DEF Placed, ForwardAt, UnprotectAt, CallbackAt, Serves, Ends, Writing, Task, Stage
<1>6. Placed(b, u, d)
  BY <1>1, <1>2, <1>3, <1>4, <1>5
     DEF Placed, OpenAt, ResumeAt, Protecting, Passing, Serves, Ends, Writing
<1>7. Carries(u) /\ Accepted(t)
  BY <1>1, <1>3 DEF Carries, Writing, Ends, Accepted
<1>8. Awaits(u, C)
  BY <1>1, <1>2, <1>3 DEF Awaits, Serviced, Processes, Serves, Ends, Writing
<1> QED
  BY <1>1, <1>3, <1>6, <1>7, <1>8, Moves DEF d, C

\* What is forwarded is what the PO protected, or what need not be.
LEMMA ForwardedBody ==
    ASSUME NEW b \in Broker, NEW STATE d, d \in Doc, Stored(b, d), NEW STATE t, t \in Task,
           t.do = "forward", Placed(b, t, d)
    PROVE  /\ t.at \in {"request", "resume"} /\ d.origin = "local"
           /\ t.req.body = Sent(d)
<1>1. t.at \in {"request", "resume"} /\ d.origin = "local"
  BY DEF Placed, OpenAt, ResumeAt, ForwardAt, UnprotectAt, CallbackAt, Serves, Ends, Writing,
     Task, Stage
<1>2. CASE t.at = "request"
  BY <1>1, <1>2 DEF Placed, OpenAt, Passing, Stored, Sent
<1>3. CASE t.at = "resume"
  <2>1. d.status = "PROTECTING" /\ t.req = [d.request EXCEPT !.body = "protected"]
    BY <1>3 DEF Placed, ResumeAt
  <2>2. ~d.request.skip_po /\ d.request \in Request
    BY <2>1 DEF Stored, Doc
  <2> QED
    BY <1>1, <2>1, <2>2 DEF Sent, Request
<1> QED
  BY <1>1, <1>2, <1>3

\* The peer accepts a request, and perhaps the broker learns that it did.
LEMMA ForwardAcceptedFlow ==
    ASSUME IInv, IInv', Flow, NEW b \in Broker, NEW t \in DOMAIN tasks[b], NEW j \in Id,
           ForwardAccepted(b, t, j)
    PROVE  Flow'
<1> DEFINE p == Peer[b]
           d == db[b][t.id]
           C == OwedTo(b, t.id)
           req == [t.req EXCEPT !.original_id = t.id, !.skip_po = FALSE]
           e == createRequest("external", req)
           u == [t EXCEPT !.do = "accepted"]
           v == Work("find", "forward", j, req)
<1>1. /\ t.do = "forward" /\ j \in Id \ used /\ j \notin ClientId
      /\ db' = [db EXCEPT ![p][j] = e] /\ used' = used \cup {j}
      /\ \/ tasks' = Start(p, v)
         \/ tasks' = [Swap(b, t, u) EXCEPT ![p] = BagAdd(@, v)]
      /\ UNCHANGED <<up, owed, answers>>
  BY DEF ForwardAccepted, Accept, Running
<1>2. /\ t \in Task /\ t.id \in Id /\ t.id \in used /\ d # NoDoc /\ d \in Doc
      /\ Stored(b, d) /\ Returns(d, C) /\ Placed(b, t, d) /\ Carries(t) /\ Awaits(t, C)
      /\ TasksOf(b, t.id) = {t}
  BY <1>1, Pending
<1>3. /\ p \in Broker /\ p # b /\ Peer[p] = b /\ db \in [Broker -> Stores]
      /\ db[p][j] = NoDoc /\ TasksOf(p, j) = {} /\ OwedTo(p, j) = {}
  BY <1>1, BrokerAssumption, PeerIsBroker, UnusedSlot DEF IInv, Brokers
<1>4. u.do = "accepted" /\ u.at = t.at /\ u.id = t.id /\ u.req = t.req
  BY <1>2, NextFields
<1>5. /\ t.at \in {"request", "resume"} /\ d.origin = "local"
      /\ t.req.body = Sent(d)
  BY <1>1, <1>2, ForwardedBody
<1>6. /\ req \in Request /\ req.original_id = t.id /\ req.body = t.req.body
  BY <1>2 DEF Task, Request
<1>7. v.do = "find" /\ v.at = "forward" /\ v.id = j /\ v.req = req
  BY DEF Work
<1> HIDE DEF req
<1>8. e.origin = "external" /\ e.request = req /\ e.status = "IN_PROGRESS"
  BY DEF createRequest
<1>9. SlotOK(p, e, {v}, {})
  BY <1>3, <1>6, <1>7, NewSlot
<1>10. e # NoDoc
  BY <1>7, <1>9 DEF SlotOK
<1> HIDE DEF p, d, C, e, u, v
<1>11. db'[p][j] = e /\ DocsElsewhere(p, j)
  BY <1>1, <1>3 DEF Stores, DocsElsewhere
<1>12. /\ Singles'
       /\ TasksOf(b, t.id)' \in {{t}, {u}} /\ TasksOf(p, j)' = {v}
       /\ \A c \in Broker, k \in Id :
              (c # b \/ k # t.id) /\ (c # p \/ k # j) => TasksOf(c, k)' = TasksOf(c, k)
  <2>1. \/ tasks' = Joined(tasks, Peer[b], v)
        \/ tasks' = Joined(Swap(b, t, u), Peer[b], v)
    BY <1>1 DEF p, Start, Joined
  <2>2. TasksOf(Peer[b], j) = {} /\ up' = up /\ Singles /\ t.do # "delete"
    BY <1>1, <1>3 DEF p, Flow
  <2>3. /\ Singles'
        /\ TasksOf(b, t.id)' \in {{t}, {u}} /\ TasksOf(Peer[b], j)' = {v}
        /\ \A c \in Broker, k \in Id :
               (c # b \/ k # t.id) /\ (c # Peer[b] \/ k # j) => TasksOf(c, k)' = TasksOf(c, k)
    BY <1>1, <1>4, <1>7, <2>1, <2>2, CallLone
  <2> QED
    BY <2>3 DEF p
<1>13. Promises' /\ \A c \in Broker, k \in Id : OwedTo(c, k)' = OwedTo(c, k)
  BY <1>1 DEF Flow, Promises, OwedTo
<1>14. Slot(b, t.id)' /\ db'[b][t.id] = d
  <2>1. db'[b][t.id] = d /\ OwedTo(b, t.id)' = C
    BY <1>2, <1>3, <1>11, <1>13 DEF DocsElsewhere, d, C
  <2>2. Placed(b, u, d)
    BY <1>1, <1>2, <1>4, <1>5
       DEF Placed, OpenAt, ResumeAt, Protecting, Passing, Serves, Ends, Writing
  <2>3. Carries(u) /\ Awaits(u, C)
    BY <1>1, <1>2, <1>4 DEF Carries, Awaits, Serviced, Processes, Serves, Ends, Writing
  <2>4. SlotOK(b, d, {t}, C) /\ SlotOK(b, d, {u}, C)
    BY <1>1, <1>2, <1>4, <2>2, <2>3 DEF SlotOK
  <2> QED
    BY <1>12, <2>1, <2>4 DEF Slot
<1>15. Slot(p, j)'
  BY <1>3, <1>9, <1>11, <1>12, <1>13 DEF Slot
<1>16. ASSUME NEW c \in Broker, NEW k \in Id, c # b \/ k # t.id, c # p \/ k # j
       PROVE  /\ Slot(c, k)'
              /\ Passed(c, k)' => Passed(c, k)
              /\ Pursued(c, k) => Pursued(c, k)' /\ db'[c][k] = db[c][k]
  <2>1. /\ db'[c][k] = db[c][k] /\ TasksOf(c, k)' = TasksOf(c, k)
        /\ OwedTo(c, k)' = OwedTo(c, k) /\ Slot(c, k)
    BY <1>11, <1>12, <1>13, <1>16 DEF DocsElsewhere, Flow, Slots
  <2> QED
    BY <2>1, SameSlot
<1>17. Slots'
  BY <1>14, <1>15, <1>16 DEF Slots
<1>18. ASSUME NEW c \in Broker, NEW k \in Id, Pursued(c, k)
       PROVE  Pursued(c, k)' /\ db'[c][k] = db[c][k]
  <2>1. c # p \/ k # j
    BY <1>3, <1>18 DEF Pursued, External
  <2>2. CASE c = b /\ k = t.id
    <3>1. db'[c][k] = db[c][k] /\ \A w \in TasksOf(c, k)' : w.do # "delete"
      BY <1>1, <1>4, <1>12, <1>14, <2>2 DEF d
    <3> QED
      BY <1>18, <3>1 DEF Pursued, External
  <2>3. CASE c # b \/ k # t.id
    BY <1>16, <1>18, <2>1, <2>3
  <2> QED
    BY <2>2, <2>3
<1>19. Followed'
  <2>1. Child(b, t.id, j)'
    BY <1>6, <1>7, <1>8, <1>10, <1>11, <1>12 DEF Child, Pursued, External, p
  <2>2. ~Passed(p, j)'
    BY <1>7, <1>8, <1>11, <1>12 DEF Passed, Accepted, Writing
  <2>3. ASSUME NEW c \in Broker, NEW k \in Id, NEW m \in Id, Child(c, k, m)
        PROVE  Child(c, k, m)'
    BY <1>18, <2>3, PeerIsBroker DEF Child
  <2>4. ASSUME NEW c \in Broker, NEW k \in Id, Passed(c, k)'
        PROVE  \E m \in Id : Child(c, k, m)'
    <3>1. CASE c = b /\ k = t.id
      BY <2>1, <3>1
    <3>2. CASE c # b \/ k # t.id
      <4>1. Passed(c, k)
        BY <1>16, <2>2, <2>4, <3>2
      <4> QED
        BY <2>3, <4>1 DEF Flow, Followed
    <3> QED
      BY <3>1, <3>2
  <2> QED
    BY <2>4 DEF Followed
<1>20. \A c \in Broker : \A w \in DOMAIN tasks'[c] : w.do = "delete" => w \in DOMAIN tasks[c]
  <2> SUFFICES ASSUME NEW c \in Broker, NEW w \in DOMAIN tasks'[c], w.do = "delete"
               PROVE  w \in DOMAIN tasks[c]
    OBVIOUS
  <2>1. w \in TasksOf(c, w.id)'
    BY DEF TasksOf, Of
  <2>2. w.id \in Id
    BY DEF IInv, Brokers, Tasks, Sound, Task
  <2>3. w \in TasksOf(c, w.id)
    BY <1>1, <1>4, <1>7, <1>12, <2>1, <2>2
  <2> QED
    BY <2>3 DEF TasksOf, Of
<1>21. Matched' /\ Clients'
  BY <1>1, <1>2, <1>3, <1>5, <1>6, <1>8, <1>11, <1>20, NewDocument DEF d
<1> QED
  BY <1>12, <1>13, <1>17, <1>19, <1>21 DEF Flow
\* Nothing that the invariant is about changes.
LEMMA SameFlow ==
    ASSUME Flow, UNCHANGED <<up, db, tasks, owed, used, answers>>
    PROVE  Flow'
<1>1. \A b \in Broker, i \in Id :
          /\ db'[b][i] = db[b][i] /\ TasksOf(b, i)' = TasksOf(b, i)
          /\ OwedTo(b, i)' = OwedTo(b, i)
  BY DEF TasksOf, Of, OwedTo
<1>2. Slots'
  BY <1>1 DEF Flow, Slots, Slot
<1>3. Singles' /\ Promises'
  BY DEF Flow, Singles, Promises
<1>4. Matched'
  BY DEF Flow, Matched, External
<1>5. Clients'
  BY DEF Flow, Clients
<1>6. \A b \in Broker, i \in Id : Passed(b, i)' => Passed(b, i)
  BY <1>1 DEF Passed
<1>7. \A b, i : Pursued(b, i) => Pursued(b, i)'
  BY DEF Pursued, External, TasksOf, Of
<1>8. Followed'
  BY <1>6, <1>7, FollowedKept DEF Flow, Child
<1> QED
  BY <1>2, <1>3, <1>4, <1>5, <1>8 DEF Flow

\* What a broker returns is the result of what it was sent.
LEMMA Returned ==
    ASSUME IInv, Flow, NEW b \in Broker, NEW t \in DOMAIN tasks[b], t.do = "callback"
    PROVE  /\ External(b, t.id) /\ t.req = db[b][t.id].request
           /\ Serving(OwedTo(b, t.id)) /\ t.resp.status # 202
           /\ t.req.original_id \in Id
           /\ LET e == db[Peer[b]][t.req.original_id]
              IN  e # NoDoc /\ t.resp.status = 200 => t.resp.body = Computed(Sent(e))
<1> DEFINE d == db[b][t.id]
           C == OwedTo(b, t.id)
<1>1. /\ t \in Task /\ t.id \in Id /\ d # NoDoc /\ d \in Doc
      /\ Placed(b, t, d) /\ Carries(t) /\ Awaits(t, C)
  BY Pending
<1>2. d.origin = "external" /\ t.req = d.request
  <2> HIDE DEF d
  <2> QED
    BY <1>1 DEF Placed, OpenAt, ResumeAt, ForwardAt, UnprotectAt, CallbackAt,
       Protecting, Passing, Serves, Ends, Writing, Task, Stage
<1>3. Serving(C) /\ t.resp.status # 202
  BY <1>1 DEF Awaits, Serviced, Carries
<1>4. t.resp.status = 200 => t.resp.body = Computed(t.req.body)
  BY <1>1 DEF Carries
<1>5. External(b, t.id)
  BY <1>1, <1>2 DEF External
<1>6. /\ t.req.original_id \in used
      /\ db[Peer[b]][t.req.original_id] # NoDoc =>
             t.req.body = Sent(db[Peer[b]][t.req.original_id])
  BY <1>1, <1>2, <1>5 DEF Flow, Matched
<1> QED
  BY <1>2, <1>3, <1>4, <1>5, <1>6 DEF IInv, Brokers

\* forwardCallback goes on with a request that was forwarded and that nothing
\* else works on.
LEMMA TakenSlot ==
    ASSUME IInv, Flow, NEW b \in Broker, NEW t \in DOMAIN tasks[b], t.do = "callback",
           NEW p \in Broker, p = Peer[b], NEW i \in Id, i = t.req.original_id,
           TasksOf(p, i) = {}, NEW STATE w, w \in TakeResult(p, i, t.resp)
    PROVE  /\ db[p][i] # NoDoc /\ db[p][i].origin = "local"
           /\ w.id = i /\ w.do # "delete" /\ ~Accepted(w)
           /\ SlotOK(p, db[p][i], {w}, OwedTo(p, i))
<1> DEFINE e == db[p][i]
           D == OwedTo(p, i)
           v == [Work("find", "unprotect", i, e.request) EXCEPT !.resp = t.resp, !.log = e.log]
<1>1. e # NoDoc /\ e.status = "FORWARDED"
  BY DEF TakeResult
<1>2. w = IF t.resp.status >= 300 THEN Write(v, "FINISHED", t.resp) ELSE v
  BY <1>1 DEF TakeResult
<1>3. e.origin = "local" /\ e \in Doc /\ Slot(p, i)
  BY <1>1 DEF IInv, Brokers, Stores, Docs, Flow, Slots
<1>4. Stored(p, e) /\ Returns(e, D) /\ D = {}
  BY <1>1, <1>3 DEF Slot, SlotOK, Idle
<1>5. /\ t.resp.status # 202 /\ t.resp.status \in Code
      /\ t.resp.status = 200 => t.resp.body = Computed(Sent(e))
  BY <1>1, Returned, PendingIsTask DEF IInv, Task, Response
<1>6. /\ v.do = "find" /\ v.at = "unprotect" /\ v.id = i /\ v.req = e.request
      /\ v.resp = t.resp /\ v.log = e.log /\ v.status = "IN_PROGRESS"
  BY DEF Work
<1>7. CASE t.resp.status >= 300
  <2>1. /\ w.do = "write" /\ w.at = "unprotect" /\ w.id = i /\ w.req = e.request
        /\ w.resp = t.resp /\ w.status = "FINISHED" /\ t.resp.status # 200
    BY <1>2, <1>5, <1>7 DEF Work, Write
  <2> HIDE DEF e, D, v
  <2>2. Placed(p, w, e)
    BY <1>1, <1>3, <2>1 DEF Placed, UnprotectAt, Ends, Writing
  <2>3. Carries(w) /\ Awaits(w, D) /\ ~Accepted(w)
    BY <1>4, <2>1 DEF Carries, Awaits, Serviced, Processes, Serves, Ends, Writing, Accepted
  <2>4. SlotOK(p, e, {w}, D)
    BY <1>1, <1>4, <2>1, <2>2, <2>3 DEF SlotOK
  <2> QED
    BY <1>1, <1>3, <2>1, <2>3, <2>4 DEF e, D
<1>8. CASE ~(t.resp.status >= 300)
  <2>1. w = v
    BY <1>2, <1>8
  <2>2. t.resp.status = 200
    BY <1>5, <1>8 DEF Code
  <2>3. t.resp.body = IF e.request.skip_po THEN "result" ELSE "protectedResult"
    BY <1>5, <2>2 DEF Computed, Sent
  <2> HIDE DEF e, D, v
  <2>4. Placed(p, w, e)
    BY <1>1, <1>3, <1>6, <2>1 DEF Placed, UnprotectAt
  <2>5. Carries(w) /\ Awaits(w, D) /\ ~Accepted(w)
    BY <1>4, <1>6, <2>1, <2>3
       DEF Carries, Awaits, Serviced, Processes, Serves, Ends, Writing, Accepted
  <2>6. SlotOK(p, e, {w}, D)
    BY <1>1, <1>4, <1>6, <2>1, <2>4, <2>5 DEF SlotOK
  <2> QED
    BY <1>1, <1>3, <1>6, <2>1, <2>5, <2>6 DEF e, D
<1> QED
  BY <1>7, <1>8

\* A result arrives at the broker that forwarded the request, and perhaps the
\* peer learns that it did.
LEMMA CallbackTakenFlow ==
    ASSUME Orderly, IInv, IInv', Flow, NEW b \in Broker, NEW t \in DOMAIN tasks[b],
           CallbackTaken(b, t)
    PROVE  Flow'
<1> DEFINE p == Peer[b]
           i == t.req.original_id
           started == TakeResult(p, i, t.resp)
           lost == [t EXCEPT !.do = "delete"]
           w == CHOOSE u \in started : TRUE
<1>1. /\ t.do = "callback" /\ UNCHANGED <<up, db, owed, used, answers>>
      /\ \A u \in DOMAIN tasks[p] : u.id # i
      /\ \/ started = {} /\ tasks' \in {tasks, Swap(b, t, lost)}
         \/ /\ started # {}
            /\ \/ tasks' = Joined(tasks, p, w)
               \/ tasks' = Joined(Swap(b, t, lost), p, w)
  BY DEF CallbackTaken, Running, OnTime, Orderly, Joined
<1>2. /\ External(b, t.id) /\ t.req = db[b][t.id].request
      /\ Serving(OwedTo(b, t.id)) /\ i \in Id
  BY <1>1, Returned
<1>3. /\ t \in Task /\ t.id \in Id /\ TasksOf(b, t.id) = {t} /\ Slot(b, t.id)
  BY <1>1, Pending DEF Flow, Slots
<1>4. p \in Broker /\ p # b /\ Peer[p] = b /\ TasksOf(p, i) = {}
  BY <1>1, BrokerAssumption, PeerIsBroker DEF TasksOf, Of
<1>5. lost.do = "delete" /\ lost.id = t.id
  BY <1>3, NextFields
<1>6. started # {} =>
          /\ db[p][i] # NoDoc /\ db[p][i].origin = "local"
          /\ w.id = i /\ w.do # "delete" /\ ~Accepted(w)
          /\ SlotOK(p, db[p][i], {w}, OwedTo(p, i))
  <2> SUFFICES ASSUME started # {}
               PROVE  /\ db[p][i] # NoDoc /\ db[p][i].origin = "local"
                      /\ w.id = i /\ w.do # "delete" /\ ~Accepted(w)
                      /\ SlotOK(p, db[p][i], {w}, OwedTo(p, i))
    OBVIOUS
  <2>1. w \in started
    OBVIOUS
  <2> HIDE DEF w
  <2> QED
    BY <1>1, <1>2, <1>4, <2>1, TakenSlot
<1>7. started = {} => db[p][i] = NoDoc \/ db[p][i].status # "FORWARDED"
  BY DEF TakeResult
<1> HIDE DEF p, i, started, lost, w
<1>8. /\ Singles'
      /\ TasksOf(b, t.id)' \in {{t}, {lost}}
      /\ \/ started = {} /\ TasksOf(p, i)' = {}
         \/ started # {} /\ TasksOf(p, i)' = {w}
      /\ \A c \in Broker, k \in Id :
             (c # b \/ k # t.id) /\ (c # p \/ k # i) => TasksOf(c, k)' = TasksOf(c, k)
  <2>1. Singles /\ t.do # "delete" /\ up' = up
    BY <1>1 DEF Flow
  <2>2. CASE started = {} /\ tasks' = tasks
    BY <1>1, <1>3, <1>4, <2>1, <2>2 DEF Singles, TasksOf
  <2>3. CASE started = {} /\ tasks' = Swap(b, t, lost)
    <3>1. Becomes(b, t, lost)
      BY <2>1, <2>3 DEF Becomes
    <3>2. Singles' /\ TasksElsewhere(b, t.id) /\ TasksOf(b, t.id)' = {lost}
      BY <1>5, <2>1, <3>1, BecomesLone
    <3> QED
      BY <1>2, <1>4, <2>3, <3>2 DEF TasksElsewhere
  <2>4. CASE started # {}
    <3>1. \/ tasks' = Joined(tasks, Peer[b], w)
          \/ tasks' = Joined(Swap(b, t, lost), Peer[b], w)
      BY <1>1, <2>4 DEF p
    <3>2. TasksOf(Peer[b], i) = {} /\ w.id = i
      BY <1>4, <1>6, <2>4 DEF p
    <3>3. /\ Singles'
          /\ TasksOf(b, t.id)' \in {{t}, {lost}} /\ TasksOf(Peer[b], i)' = {w}
          /\ \A c \in Broker, k \in Id :
                 (c # b \/ k # t.id) /\ (c # Peer[b] \/ k # i) => TasksOf(c, k)' = TasksOf(c, k)
      BY <1>2, <1>5, <2>1, <3>1, <3>2, CallLone
    <3> QED
      BY <2>4, <3>3 DEF p
  <2> QED
    BY <1>1, <2>2, <2>3, <2>4
<1>9. Promises' /\ \A c \in Broker, k \in Id : OwedTo(c, k)' = OwedTo(c, k)
  BY <1>1 DEF Flow, Promises, OwedTo
<1>10. Slot(b, t.id)'
  <2>1. SlotOK(b, db[b][t.id], {t}, OwedTo(b, t.id))
    BY <1>3 DEF Slot
  <2>2. SlotOK(b, db[b][t.id], {lost}, OwedTo(b, t.id))
    BY <1>2, <1>5, <2>1 DEF SlotOK, Leaving, External
  <2> QED
    BY <1>1, <1>3, <1>8, <1>9, <2>1, <2>2 DEF Slot
<1>11. Slot(p, i)'
  <2>1. SlotOK(p, db[p][i], TasksOf(p, i), OwedTo(p, i))
    BY <1>2, <1>4 DEF Flow, Slots, Slot
  <2> QED
    BY <1>1, <1>2, <1>4, <1>6, <1>8, <1>9, <2>1 DEF Slot
<1>12. ASSUME NEW c \in Broker, NEW k \in Id, c # b \/ k # t.id, c # p \/ k # i
       PROVE  /\ Slot(c, k)'
              /\ Passed(c, k)' => Passed(c, k)
              /\ Pursued(c, k) => Pursued(c, k)'
  <2>1. /\ db'[c][k] = db[c][k] /\ TasksOf(c, k)' = TasksOf(c, k)
        /\ OwedTo(c, k)' = OwedTo(c, k) /\ Slot(c, k)
    BY <1>1, <1>8, <1>9, <1>12 DEF Flow, Slots
  <2> QED
    BY <2>1, SameSlot
<1>13. Slots'
  BY <1>10, <1>11, <1>12 DEF Slots
<1>14. ~Passed(b, t.id)' /\ ~Passed(p, i)'
  <2>1. ~Accepted(t) /\ ~Accepted(lost)
    BY <1>1, <1>5 DEF Accepted, Writing
  <2>2. ~Passed(b, t.id)'
    BY <1>8, <2>1 DEF Passed
  <2>3. ~Passed(p, i)'
    BY <1>1, <1>6, <1>7, <1>8 DEF Passed
  <2> QED
    BY <2>2, <2>3
<1>15. Pursued(p, i) => Pursued(p, i)'
  BY <1>1, <1>4, <1>6, <1>8 DEF Pursued, External
<1>16. Followed'
  <2> SUFFICES ASSUME NEW c \in Broker, NEW k \in Id, Passed(c, k)'
               PROVE  \E m \in Id : Child(c, k, m)'
    BY DEF Followed
  <2>1. Passed(c, k) /\ (c # p \/ k # i)
    BY <1>12, <1>14
  <2>2. PICK m \in Id : Child(c, k, m)
    BY <2>1 DEF Flow, Followed
  <2>3. Peer[c] \in Broker /\ Peer[Peer[c]] = c
    BY BrokerAssumption, PeerIsBroker
  <2>4. Peer[c] # b \/ m # t.id
    BY <1>2, <2>1, <2>2, <2>3 DEF Child, p, i
  <2>5. Pursued(Peer[c], m)'
    BY <1>12, <1>15, <2>2, <2>3, <2>4 DEF Child
  <2> QED
    BY <1>1, <2>2, <2>5 DEF Child
<1>17. \A c \in Broker, k \in Id : Inherits(c, k)
  BY <1>1 DEF Inherits
<1>18. \A c \in Broker, k \in Id : Unfetched(c, k)
  <2>1. t.id \notin ClientId
    BY <1>2, <1>3 DEF External, Flow, Clients
  <2>2. ASSUME NEW c \in Broker, NEW k \in Id
        PROVE  Unfetched(c, k)
    <3>1. CASE c = b /\ k = t.id
      BY <2>1, <3>1 DEF Unfetched
    <3>2. CASE c = p /\ k = i
      BY <1>6, <1>8, <3>2 DEF Unfetched
    <3>3. CASE (c # b \/ k # t.id) /\ (c # p \/ k # i)
      BY <1>8, <3>3 DEF Unfetched
    <3> QED
      BY <3>1, <3>2, <3>3
  <2> QED
    BY <2>2
<1>19. Matched' /\ Clients'
  BY <1>1, <1>17, <1>18, MatchedKept, ClientsKept DEF Flow, AnswersGrow
<1> QED
  BY <1>8, <1>9, <1>13, <1>16, <1>19 DEF Flow
-----------------------------------------------------------------------------
(* The PO and the services call back. *)

\* requestCallback goes on with a document that waits for this callback.
LEMMA ContinuedSlot ==
    ASSUME NEW b \in Broker, NEW STATE d, d \in Doc, d.status # "IN_PROGRESS" => d.origin = "local",
           NEW STATE C, NEW c \in C, c \in Callback, NEW STATE D, D \subseteq C,
           c.from = "po" => c \notin D,
           d # NoDoc, Stored(b, d), Returns(d, C), Idle(d, C),
           NEW STATE w, w \in Continuation(d, c)
    PROVE  /\ w.id = c.id /\ w.do # "delete" /\ ~Accepted(w) /\ d.status # "FORWARDED"
           /\ SlotOK(b, d, {w}, D)
<1> DEFINE v == Work("write", "callback", c.id, d.request)
<1>1. /\ v.do = "write" /\ v.at = "callback" /\ v.id = c.id /\ v.req = d.request
      /\ d.request \in Request
  BY DEF Work, Doc
<1>2. Returns(d, D)
  BY DEF Returns
<1>3. CASE d.status = "PROTECTING"
  <2>1. c.from = "po" /\ c.value = "protected" /\ D = {}
    BY <1>3 DEF Idle, Processing
  <2>2. CASE c.ok
    <3> DEFINE u == [v EXCEPT !.do = "find", !.at = "resume", !.req.body = c.value]
    <3>1. w = u
      BY <1>3, <2>1, <2>2 DEF Continuation, EndsProcess
    <3>2. /\ u.do = "find" /\ u.at = "resume" /\ u.id = c.id
          /\ u.req = [d.request EXCEPT !.body = "protected"]
      BY <2>1 DEF Work
    <3> HIDE DEF u, v
    <3>3. Placed(b, w, d)
      BY <1>3, <3>1, <3>2 DEF Placed, ResumeAt, Serves, Writing
    <3>4. Carries(w) /\ Awaits(w, D) /\ ~Accepted(w)
      BY <2>1, <3>1, <3>2 DEF Carries, Awaits, Serviced, Processes, Serves, Ends, Writing, Accepted
    <3> QED
      BY <1>2, <1>3, <3>1, <3>2, <3>3, <3>4 DEF SlotOK
  <2>3. CASE ~c.ok
    <3> DEFINE u == Write(v, "FINISHED", Error(500))
    <3>1. w = u
      BY <1>3, <2>1, <2>3 DEF Continuation, EndsProcess
    <3>2. /\ u.do = "write" /\ u.at = "callback" /\ u.id = c.id /\ u.status = "FINISHED"
          /\ u.resp.status = 500
      BY DEF Work, Write, Error, Answer
    <3> HIDE DEF u, v
    <3>3. Placed(b, w, d)
      BY <1>3, <3>1, <3>2 DEF Placed, CallbackAt, Ends, Writing
    <3>4. Carries(w) /\ Awaits(w, D) /\ ~Accepted(w)
      BY <2>1, <3>1, <3>2
         DEF Carries, Awaits, Serviced, Serving, Promised, Processes, Serves, Ends, Writing, Accepted
    <3> QED
      BY <1>2, <1>3, <3>1, <3>2, <3>3, <3>4 DEF SlotOK
  <2> QED
    BY <2>2, <2>3
<1>4. CASE d.status = "UNPROTECTING"
  <2>1. c.from = "po" /\ c.value = "result" /\ c.ok /\ D = {} /\ d.origin = "local"
    BY <1>4 DEF Idle, Processing
  <2> DEFINE u == Write(v, "FINISHED", Answer(200, c.value))
  <2>2. w = u
    BY <1>4, <2>1 DEF Continuation, EndsProcess
  <2>3. /\ u.do = "write" /\ u.at = "callback" /\ u.id = c.id /\ u.status = "FINISHED"
        /\ u.resp.body = "result"
    BY <2>1 DEF Work, Write, Answer
  <2> HIDE DEF u, v
  <2>4. Placed(b, w, d)
    BY <1>4, <2>1, <2>2, <2>3 DEF Placed, CallbackAt, Ends, Writing
  <2>5. Carries(w) /\ Awaits(w, D) /\ ~Accepted(w)
    BY <2>1, <2>2, <2>3
       DEF Carries, Awaits, Serviced, Serving, Promised, Processes, Serves, Ends, Writing, Accepted
  <2> QED
    BY <1>2, <1>4, <2>2, <2>3, <2>4, <2>5 DEF SlotOK
<1>5. CASE d.status = "IN_PROGRESS"
  <2>1. Serving(C) /\ c.from = "service" /\ Serving(D)
    BY <1>5 DEF Idle, Serving
  <2>2. d.origin = "external" \/ NoStale => c.value = Computed(d.request.body)
    BY <2>1 DEF Returns
  <2>3. CASE d.origin = "local"
    <3> DEFINE u == Write(v, "FINISHED", Answer(200, c.value))
    <3>1. w = u
      BY <1>5, <2>1, <2>3 DEF Continuation
    <3>2. /\ u.do = "write" /\ u.at = "callback" /\ u.id = c.id /\ u.status = "FINISHED"
          /\ u.resp.body = c.value
      BY DEF Work, Write, Answer
    <3>3. NoStale => c.value = "result"
      BY <2>2, <2>3 DEF Stored, Computed
    <3> HIDE DEF u, v
    <3>4. Placed(b, w, d)
      BY <1>5, <2>3, <3>1, <3>2 DEF Placed, CallbackAt, Ends, Writing
    <3>5. Carries(w) /\ Awaits(w, D) /\ ~Accepted(w)
      BY <2>1, <3>1, <3>2, <3>3
         DEF Carries, Awaits, Serviced, Promised, Processes, Serves, Ends, Writing, Accepted
    <3> QED
      BY <1>2, <1>5, <3>1, <3>2, <3>4, <3>5 DEF SlotOK
  <2>4. CASE d.origin # "local"
    <3> DEFINE u == Return(v, Answer(200, c.value))
    <3>1. w = u
      BY <1>5, <2>1, <2>4 DEF Continuation
    <3>2. /\ u.do = "callback" /\ u.at = "callback" /\ u.id = c.id /\ u.req = d.request
          /\ u.resp.body = c.value /\ u.resp.status = 200
      BY DEF Work, Return, Answer
    <3>3. d.origin = "external"
      BY <2>4 DEF Doc
    <3> HIDE DEF u, v
    <3>4. Placed(b, w, d)
      BY <3>1, <3>2, <3>3 DEF Placed, CallbackAt
    <3>5. Carries(w) /\ Awaits(w, D) /\ ~Accepted(w)
      BY <2>1, <2>2, <3>1, <3>2, <3>3
         DEF Carries, Awaits, Serviced, Promised, Processes, Serves, Ends, Writing, Accepted
    <3> QED
      BY <1>2, <1>5, <3>1, <3>2, <3>4, <3>5 DEF SlotOK
  <2> QED
    BY <2>3, <2>4
<1> QED
  BY <1>3, <1>4, <1>5 DEF Continuation

\* A callback that nobody waits for any more leaves a slot as it should be.
LEMMA FewerOwed ==
    ASSUME NEW b \in Broker, NEW STATE d, NEW STATE T, NEW STATE C, SlotOK(b, d, T, C),
           NEW STATE D, D \subseteq C, ~Sure \/ (T = {} /\ (d = NoDoc \/ d.status = "FINISHED"))
    PROVE  SlotOK(b, d, T, D)
<1>1. Serving(C) => Serving(D)
  BY DEF Serving
<1>2. d # NoDoc => Returns(d, D)
  BY DEF SlotOK, Returns
<1>3. CASE ~Sure
  <2>1. \A value : Processing(C, value) => Processing(D, value)
    BY <1>3 DEF Processing
  <2>2. \A t : Awaits(t, C) => Awaits(t, D)
    BY <1>1, <1>3, <2>1 DEF Awaits
  <2>3. Idle(d, C) => Idle(d, D)
    BY <1>1, <1>3, <2>1 DEF Idle
  <2>4. Leaving(d, C) => Leaving(d, D)
    BY <1>1 DEF Leaving
  <2> QED
    BY <1>2, <2>2, <2>3, <2>4 DEF SlotOK
<1>4. CASE T = {} /\ (d = NoDoc \/ d.status = "FINISHED")
  BY <1>1, <1>2, <1>4 DEF SlotOK, Idle
<1> QED
  BY <1>3, <1>4

\* The PO or a service calls back.
LEMMA RequestCallbackFlow ==
    ASSUME Orderly, IInv, Flow, NEW c \in DOMAIN owed, RequestCallback(c)
    PROVE  Flow'
<1> DEFINE b == c.to
           i == c.id
           d == db[b][i]
           C == OwedTo(b, i)
           D == OwedTo(b, i)'
           started == Continuation(d, c)
           w == CHOOSE u \in started : TRUE
<1>1. /\ owed' = BagRemove(owed, c) /\ UNCHANGED <<db, used, answers>>
      /\ \A u \in DOMAIN tasks[b] : u.id # i
      /\ IF d = NoDoc THEN UNCHANGED <<tasks, up>>
         ELSE IF Unreadable(d) THEN Crashes(b)
         ELSE /\ up' = up
              /\ tasks' = IF started = {} THEN tasks ELSE Start(b, w)
  BY DEF RequestCallback, Fault, OnTime, Orderly
<1>2. c \in Callback /\ b \in Broker /\ i \in Id /\ c \in C
  BY DEF IInv, World, Callback, OwedTo
<1>3. Promises' /\ OwedElsewhere(b, i) /\ D \subseteq C /\ (c.from = "po" => c \notin D)
  BY <1>1, OwedLess DEF Flow
<1>4. TasksOf(b, i) = {}
  BY <1>1 DEF TasksOf, Of
<1>5. SlotOK(b, d, {}, C)
  BY <1>2, <1>4 DEF Flow, Slots, Slot
<1>6. d # NoDoc => d \in Doc /\ (d.status # "IN_PROGRESS" => d.origin = "local")
  BY <1>2 DEF IInv, Brokers, Stores, Docs
<1> HIDE DEF b, i, d, C, D, started, w
<1>7. d # NoDoc => ~Unreadable(d)
  <2> SUFFICES ASSUME d # NoDoc, Unreadable(d) PROVE FALSE
    OBVIOUS
  <2>1. Idle(d, C) /\ Stored(b, d)
    BY <1>5 DEF SlotOK
  <2>2. Len(d.log) > 0
    BY <1>2, <2>1 DEF Unreadable, Idle, Stored
  <2> QED
    BY <2>1, <2>2 DEF Unreadable, Stored
<1>8. CASE d = NoDoc \/ started = {}
  <2>1. UNCHANGED <<up, db, tasks, used, answers>>
    BY <1>1, <1>7, <1>8
  <2>2. d = NoDoc \/ d.status = "FINISHED"
    <3> SUFFICES ASSUME d # NoDoc, started = {} PROVE d.status = "FINISHED"
      BY <1>8
    <3>1. d.status \in {"FORWARDED", "FINISHED"}
      <4>1. CASE d.status = "PROTECTING"
        BY <4>1 DEF started, Continuation
      <4>2. CASE d.status = "UNPROTECTING"
        BY <4>2 DEF started, Continuation
      <4>3. CASE d.status = "IN_PROGRESS"
        BY <4>3 DEF started, Continuation
      <4> QED
        BY <1>6, <4>1, <4>2, <4>3 DEF Doc, Status
    <3>2. d.status # "FORWARDED"
      BY <1>2, <1>5 DEF SlotOK, Idle
    <3> QED
      BY <3>1, <3>2
  <2>3. SlotOK(b, d, {}, D)
    BY <1>2, <1>3, <1>5, <2>2, FewerOwed
  <2>4. TasksOf(b, i)' = {} /\ db'[b][i] = d
    BY <1>4, <2>1 DEF TasksOf, d
  <2>5. Slot(b, i)'
    BY <2>3, <2>4 DEF Slot, D
  <2> QED
    BY <1>2, <1>3, <2>1, <2>5, Waits
<1>9. CASE d # NoDoc /\ started # {}
  <2>1. tasks' = Start(b, w) /\ up' = up
    BY <1>1, <1>7, <1>9
  <2>2. w \in Continuation(d, c)
    BY <1>9 DEF w, started
  <2>3. Stored(b, d) /\ Returns(d, C) /\ Idle(d, C)
    BY <1>5, <1>9 DEF SlotOK
  <2>4. /\ w.id = i /\ w.do # "delete" /\ ~Accepted(w) /\ d.status # "FORWARDED"
        /\ SlotOK(b, d, {w}, D)
    <3>1. /\ w.id = c.id /\ w.do # "delete" /\ ~Accepted(w) /\ d.status # "FORWARDED"
          /\ SlotOK(b, d, {w}, D)
      BY <1>2, <1>3, <1>6, <1>9, <2>2, <2>3, ContinuedSlot
    <3> QED
      BY <3>1 DEF i
  <2>5. Singles' /\ TasksElsewhere(b, i) /\ TasksOf(b, i)' = {w}
    <3>1. Singles' /\ TasksElsewhere(b, i) /\ TasksOf(b, i)' = TasksOf(b, i) \cup {w}
      BY <1>2, <1>4, <2>1, <2>4, StartLone DEF Flow
    <3> QED
      BY <1>4, <3>1
  <2>6. db'[b][i] = d /\ Slot(b, i)'
    BY <1>1, <2>4, <2>5 DEF Slot, D, d
  <2>7. /\ DocsElsewhere(b, i) /\ Inherits(b, i) /\ Unfetched(b, i) /\ AnswersGrow
        /\ ~Passed(b, i)'
    BY <1>1, <2>4, <2>5, <2>6 DEF DocsElsewhere, Inherits, Unfetched, AnswersGrow, Passed
  <2>8. Pursued(b, i) => Pursued(b, i)'
    BY <1>1, <2>4, <2>5 DEF Pursued, External
  <2> QED
    BY <1>1, <1>2, <1>3, <2>5, <2>6, <2>7, <2>8, SlotStep
<1> QED
  BY <1>8, <1>9

\* A callback is lost.
LEMMA CallbackLostFlow ==
    ASSUME IInv, Flow, NEW c \in DOMAIN owed, CallbackLost(c)
    PROVE  Flow'
<1> DEFINE b == c.to
           i == c.id
<1>1. owed' = BagRemove(owed, c) /\ ~Sure /\ UNCHANGED <<up, db, tasks, used, answers>>
  BY DEF CallbackLost, Fault, Sure
<1>2. b \in Broker /\ i \in Id
  BY DEF IInv, World, Callback
<1>3. Promises' /\ OwedElsewhere(b, i) /\ OwedTo(b, i)' \subseteq OwedTo(b, i)
  BY <1>1, OwedLess DEF Flow
<1> HIDE DEF b, i
<1>4. Slot(b, i)'
  <2>1. SlotOK(b, db[b][i], TasksOf(b, i), OwedTo(b, i))
    BY <1>2 DEF Flow, Slots, Slot
  <2>2. SlotOK(b, db[b][i], TasksOf(b, i), OwedTo(b, i)')
    BY <1>1, <1>2, <1>3, <2>1, FewerOwed
  <2>3. TasksOf(b, i)' = TasksOf(b, i)
    BY <1>1 DEF TasksOf
  <2> QED
    BY <1>1, <2>2, <2>3 DEF Slot
<1> QED
  BY <1>1, <1>2, <1>3, <1>4, Waits
-----------------------------------------------------------------------------
(* The invariant, step by step. *)

\* An operation that completes, the handler's continuation with it.
LEMMA CompleteFlow ==
    ASSUME Orderly, IInv, IInv', Flow, NEW b \in Broker, NEW t \in DOMAIN tasks[b],
           Complete(b, t)
    PROVE  Flow'
<1>1. CASE ApplyWrite(b, t)
  <2>1. t.do = "write" \/ t.do \in {"saveThenUnprotect", "writeNoCallback"}
    BY <1>1 DEF ApplyWrite, Running, Writes
  <2> QED
    BY <1>1, <2>1, WriteFlow, SaveFlow
<1>2. ~WriteFails(b, t) /\ ~PeerFails(b, t) /\ ~CallAbandoned(b, t)
  BY DEF WriteFails, PeerFails, CallAbandoned, Fault, Orderly
<1>3. ~PeerUnreachable(b, t)
  BY PeerIsBroker DEF PeerUnreachable, Fault, Orderly, Flow, Singles
<1>4. \A ok \in BOOLEAN : ~POStartsAgain(b, t, ok)
  BY DEF POStartsAgain, Fault, Orderly
<1>5. \A code \in {404, 500, 503} : ~ServiceFails(b, t, code)
  BY DEF ServiceFails, Fault, Orderly
<1>6. CASE FoundLocal(b, t) \/ FoundExternal(b, t) \/ FoundOrigin(b, t) \/ NotFound(b, t)
  BY <1>6, FoundLocalFlow, FoundExternalFlow, FoundOriginFlow, NotFoundFlow
<1>7. ASSUME NEW code \in {200, 202, 500},
             ServiceAnswers(b, t, code) \/ ServiceRunsAgain(b, t, code)
      PROVE  Flow'
  BY <1>7, ServiceAnswersFlow, ServiceRunsAgainFlow
<1>8. CASE ServiceServed(b, t) \/ ServiceMoved(b, t)
  BY <1>8, ServiceServedFlow, ServiceMovedFlow
<1>9. ASSUME NEW ok \in BOOLEAN, POStarts(b, t, ok)
      PROVE  Flow'
  BY <1>9, POStartsFlow
<1>10. CASE POStarted(b, t) \/ PORefuses(b, t) \/ POSaysNothing(b, t)
  BY <1>10, POStartedFlow, PORefusesFlow, POSaysNothingFlow
<1>11. ASSUME NEW j \in Id, ForwardAccepted(b, t, j)
       PROVE  Flow'
  BY <1>11, ForwardAcceptedFlow
<1>12. CASE ForwardAcked(b, t) \/ CallbackTaken(b, t) \/ Delete(b, t)
  BY <1>12, ForwardAckedFlow, CallbackTakenFlow, DeleteFlow
<1> QED
  BY <1>1, <1>2, <1>3, <1>4, <1>5, <1>6, <1>7, <1>8, <1>9, <1>10, <1>11, <1>12 DEF Complete

\* At the start no request is anywhere ...
LEMMA InitFlow == Init => Flow
<1> SUFFICES ASSUME Init PROVE Flow
  OBVIOUS
<1>1. DOMAIN owed = {} /\ \A b \in Broker : DOMAIN tasks[b] = {}
  BY EmptyIsBag DEF Init
<1>2. \A b \in Broker, i \in Id :
          db[b][i] = NoDoc /\ TasksOf(b, i) = {} /\ OwedTo(b, i) = {}
  BY <1>1 DEF Init, TasksOf, Of, OwedTo
<1>3. Slots
  BY <1>2 DEF Slots, Slot, SlotOK, Idle, Serving
<1>4. Singles /\ Promises
  BY <1>1 DEF Init, Singles, Lone, Promises
<1>5. Matched /\ Clients
  BY <1>1, <1>2, IdAssumption DEF Matched, External, Clients
<1>6. Followed
  BY <1>2 DEF Followed, Passed
<1> QED
  BY <1>3, <1>4, <1>5, <1>6 DEF Flow

\* ... and every step leaves it at one place.
LEMMA NextFlow ==
    ASSUME Orderly, IInv, IInv', Flow, [Next]_vars
    PROVE  Flow'
<1>1. ASSUME NEW b \in Broker, NEW t \in DOMAIN tasks[b], Complete(b, t)
      PROVE  Flow'
  BY <1>1, CompleteFlow
<1>2. ASSUME NEW b \in Broker, NEW i \in ClientId, NEW s \in Service, NEW skip \in BOOLEAN,
             Create(b, i, s, skip)
      PROVE  Flow'
  BY <1>2, CreateFlow
<1>3. ASSUME NEW b \in Broker, NEW i \in ClientId, GetResult(b, i)
      PROVE  Flow'
  BY <1>3, GetResultFlow
<1>4. ASSUME NEW c \in DOMAIN owed, RequestCallback(c) \/ CallbackLost(c)
      PROVE  Flow'
  BY <1>4, RequestCallbackFlow, CallbackLostFlow
<1>5. ASSUME NEW b \in Broker PROVE ~Stop(b) /\ ~Restart(b)
  BY <1>5 DEF Stop, Restart, Fault, Orderly, Flow, Singles
<1>6. CASE UNCHANGED vars
  BY <1>6, SameFlow DEF vars
<1> QED
  BY <1>1, <1>2, <1>3, <1>4, <1>5, <1>6 DEF Next, Client, Progress

\* A request is at one place in every state of every orderly behaviour.
LEMMA FlowInvariance ==
    ASSUME Orderly
    PROVE  Spec => [](IInv /\ Flow)
<1>1. IInv /\ Flow /\ [Next]_vars => IInv' /\ Flow'
  BY NextFlow, StepIInv
<1> QED
  BY <1>1, InitIInv, InitFlow, PTL DEF Spec

-----------------------------------------------------------------------------
(* What follows. *)

\* While the environment is orderly, no interleaving of the two brokers'
\* handlers makes one of them raise an exception: not the read of a response
\* that is not there, nor the write without a callback.
THEOREM NoHandlerRaises ==
    ASSUME Orderly
    PROVE  Spec => []BrokersStayUp
<1>1. Flow => BrokersStayUp
  BY DEF Flow, Singles, BrokersStayUp
<1> QED
  BY <1>1, FlowInvariance, PTL

\* While the environment is orderly, the FIXME of forward.js:597 is harmless:
\* the entry before the last is the result that is to be unprotected.
THEOREM ResultBeforeProcess ==
    ASSUME Orderly
    PROVE  Spec => []UnprotectingFollowsResult
<1>1. IInv /\ Flow => UnprotectingFollowsResult
  <2> SUFFICES ASSUME IInv, Flow, NEW b \in Broker, NEW i \in Id,
                      db[b][i] # NoDoc, db[b][i].status = "UNPROTECTING"
               PROVE  LET log == db[b][i].log
                      IN  /\ Len(log) >= 2 /\ log[Len(log)].body = "process"
                          /\ log[Len(log) - 1].body = "protectedResult"
    BY DEF UnprotectingFollowsResult, Exists
  <2>1. Stored(b, db[b][i])
    BY DEF Flow, Slots, Slot, SlotOK
  <2> DEFINE log == db[b][i].log
  <2>2. Len(log) = 4 /\ log[3].body = "protectedResult" /\ log[4].body = "process"
    BY <2>1 DEF Stored
  <2> HIDE DEF log
  <2>3. Len(log) >= 2 /\ Len(log) - 1 = 3
    BY <2>2
  <2> QED
    BY <2>2, <2>3 DEF log
<1> QED
  BY <1>1, FlowInvariance, PTL

\* While the environment is orderly, whatever was written to a request's log
\* and in whichever order: request_log[2] is the entry of protect() when
\* unprotect() needs its parameters.
THEOREM ParamsReachUnprotect ==
    ASSUME Orderly
    PROVE  Spec => []UnprotectParamsKept
<1>1. IInv /\ Flow => UnprotectParamsKept
  <2> SUFFICES ASSUME IInv, Flow, NEW b \in Broker, NEW t \in DOMAIN tasks[b],
                      t.do = "unprotect"
               PROVE  t.resp.unprotectParams
    BY DEF UnprotectParamsKept
  <2>1. t \in Task /\ Placed(b, t, db[b][t.id])
    BY Pending
  <2> QED
    BY <2>1 DEF Placed, OpenAt, ResumeAt, ForwardAt, UnprotectAt, CallbackAt,
       Protecting, Passing, Serves, Ends, Writing, Task, Stage
<1> QED
  BY <1>1, FlowInvariance, PTL

\* A request of the peer whose result is not returned is worked on.
LEMMA PursuedIsBusy ==
    ASSUME Sure, IInv, Flow, NEW b \in Broker, NEW i \in Id, Pursued(b, i)
    PROVE  Busy(b, i)
<1>1. db[b][i] # NoDoc /\ db[b][i].status = "IN_PROGRESS"
  BY DEF Pursued, External, IInv, Brokers, Docs
<1>2. TasksOf(b, i) = {} => OwedTo(b, i) # {}
  BY <1>1 DEF Flow, Slots, Slot, SlotOK, Idle
<1> QED
  BY <1>2 DEF Busy, TasksOf, Of, OwedTo

\* While the environment is orderly and answers what it accepted, a request
\* that is not finished waits for something that is going to happen, in this
\* domain or in the other.
THEOREM NobodyWaitsForNothing ==
    ASSUME Orderly, Sure
    PROVE  Spec => []NothingStranded
<1>1. IInv /\ Flow => NothingStranded
  <2> SUFFICES ASSUME IInv, Flow, NEW b \in Broker, NEW i \in Id,
                      db[b][i] # NoDoc, db[b][i].status # "FINISHED", ~Busy(b, i)
               PROVE  \E j \in Id : /\ Exists(Peer[b], j)
                                    /\ db[Peer[b]][j].request.original_id = i
                                    /\ Busy(Peer[b], j)
    BY DEF NothingStranded, Exists
  <2>1. TasksOf(b, i) = {} /\ OwedTo(b, i) = {}
    BY DEF Busy, TasksOf, Of, OwedTo
  <2>2. Idle(db[b][i], {}) /\ db[b][i] \in Doc
    BY <2>1 DEF Flow, Slots, Slot, SlotOK, IInv, Brokers, Stores
  <2>3. db[b][i].status = "FORWARDED"
    BY <2>2 DEF Idle, Processing, Doc, Status
  <2>4. PICK j \in Id : Child(b, i, j)
    BY <2>1, <2>3 DEF Passed, Flow, Followed
  <2> QED
    BY <2>4, PursuedIsBusy, PeerIsBroker DEF Child, Pursued, External, Exists
<1> QED
  BY <1>1, FlowInvariance, PTL
-----------------------------------------------------------------------------
(* What clients are told. *)

\* No operation of a broker answers a client.
LEMMA CompleteAnswersNone ==
    ASSUME NEW b \in Broker, NEW t \in DOMAIN tasks[b], Complete(b, t)
    PROVE  answers' = answers
BY DEF Complete, ApplyWrite, WriteFails, Delete, FoundLocal, FoundExternal, FoundOrigin,
   Located, NotFound, ServiceAnswers, ServiceRunsAgain, ServiceFails, ServiceServed,
   ServiceMoved, POStarts, POStartsAgain, POStarted, PORefuses, POSaysNothing,
   ForwardAccepted, ForwardAcked, CallbackTaken, PeerFails, PeerUnreachable, CallAbandoned

\* getresult answers with the last entry of a finished request.
LEMMA GetResultInClear ==
    ASSUME NoStale, IInv, Flow, SuccessIsTheResult, NEW b \in Broker, NEW i \in ClientId,
           GetResult(b, i)
    PROVE  SuccessIsTheResult'
<1> DEFINE last == lastResponse(db[b][i])
<1>1. i \in Id /\ answers' = [answers EXCEPT ![i] = Append(@, last)]
  BY IdAssumption DEF GetResult
<1>2. last.status = 200 => last.body = "result"
  BY <1>1, FinishedIsLeft DEF GetResult, Stored
<1> HIDE DEF last
<1>3. answers[i] \in Seq(Response) /\ answers \in [Id -> Seq(Response)]
  BY <1>1 DEF IInv, World
<1>4. ASSUME NEW j \in Id, NEW k \in DOMAIN answers'[j], answers'[j][k].status = 200
      PROVE  answers'[j][k].body = "result"
  <2>1. CASE j # i
    BY <1>1, <1>3, <1>4, <2>1 DEF SuccessIsTheResult
  <2>2. CASE j = i
    <3>1. answers'[i] = Append(answers[i], last)
      BY <1>1, <1>3
    <3>2. \/ k \in DOMAIN answers[i] /\ answers'[i][k] = answers[i][k]
          \/ answers'[i][k] = last
      BY <1>3, <1>4, <2>2, <3>1
    <3> QED
      BY <1>1, <1>2, <1>4, <2>2, <3>2 DEF SuccessIsTheResult
  <2> QED
    BY <2>1, <2>2
<1> QED
  BY <1>4 DEF SuccessIsTheResult

\* Every step leaves clients with results in clear.
LEMMA NextInClear ==
    ASSUME NoStale, IInv, Flow, SuccessIsTheResult, [Next]_vars
    PROVE  SuccessIsTheResult'
<1>1. CASE answers' = answers
  BY <1>1 DEF SuccessIsTheResult
<1>2. ASSUME NEW b \in Broker, NEW i \in ClientId, GetResult(b, i)
      PROVE  SuccessIsTheResult'
  BY <1>2, GetResultInClear
<1> QED
  BY <1>1, <1>2, CompleteAnswersNone
     DEF Next, Client, Progress, vars, Create, RequestCallback, CallbackLost, Stop, Restart

\* While the environment is orderly and no location is out of date, whichever
\* domain serves a request and whether the PO is skipped: a client that is
\* told of success has the result in clear.
THEOREM SuccessInClear ==
    ASSUME Orderly, NoStale
    PROVE  Spec => []SuccessIsTheResult
<1>1. Init => SuccessIsTheResult
  BY DEF Init, SuccessIsTheResult
<1>2. IInv /\ Flow /\ SuccessIsTheResult /\ [Next]_vars => SuccessIsTheResult'
  BY NextInClear
<1> QED
  BY <1>1, <1>2, FlowInvariance, PTL DEF Spec

-----------------------------------------------------------------------------
(* The two brokers implement RequestLifecycle. *)

\* the result that RequestLifecycle sees
Result == [i \in ClientId |-> IF Phase[i] = "done" THEN lastResponse(TheDoc(i)) ELSE NoDoc]

\* Who has the only document of a request determines what is seen of it ...
LEMMA Seen ==
    ASSUME Clients, IInv, NEW b \in Broker, NEW i \in ClientId, db[b][i] # NoDoc
    PROVE  /\ i \in used
           /\ Phase[i] = IF db[b][i].status = "FINISHED" THEN "done" ELSE "open"
           /\ Result[i] = IF db[b][i].status = "FINISHED" THEN lastResponse(db[b][i]) ELSE NoDoc
<1>1. {c \in Broker : Exists(c, i)} = {b}
  BY DEF Clients, Exists
<1>2. TheDoc(i) = db[b][i]
  BY <1>1 DEF TheDoc
<1>3. i \in used
  BY IdAssumption DEF IInv, Brokers, Docs
<1>4. Phase[i] = IF db[b][i].status = "FINISHED" THEN "done" ELSE "open"
  BY <1>2, <1>3 DEF Phase
<1> QED
  BY <1>2, <1>3, <1>4 DEF Result

\* ... also after a step.
LEMMA SeenNext ==
    ASSUME Clients', IInv', NEW b \in Broker, NEW i \in ClientId, db'[b][i] # NoDoc
    PROVE  /\ Phase'[i] = IF db'[b][i].status = "FINISHED" THEN "done" ELSE "open"
           /\ Result'[i] = IF db'[b][i].status = "FINISHED" THEN lastResponse(db'[b][i]) ELSE NoDoc
<1>1. {c \in Broker : Exists(c, i)'} = {b}
  BY DEF Clients, Exists
<1>2. TheDoc(i)' = db'[b][i]
  BY <1>1 DEF TheDoc, Exists
<1>3. i \in used'
  BY IdAssumption DEF IInv, Brokers, Docs
<1>4. Phase'[i] = IF db'[b][i].status = "FINISHED" THEN "done" ELSE "open"
  BY <1>2, <1>3 DEF Phase
<1> QED
  BY <1>2, <1>3, <1>4 DEF Result

\* A request that a step leaves alone looks the same.
LEMMA SeenSame ==
    ASSUME NEW i \in ClientId, \A b \in Broker : db'[b][i] = db[b][i], i \in used' <=> i \in used
    PROVE  Phase'[i] = Phase[i] /\ Result'[i] = Result[i]
<1> DEFINE held == {b \in Broker : Exists(b, i)}
<1>1. held' = held
  BY DEF Exists
<1>2. held # {} => (CHOOSE b \in held : TRUE) \in Broker
  OBVIOUS
<1> HIDE DEF held
<1>3. TheDoc(i) = IF held = {} THEN NoDoc ELSE db[CHOOSE b \in held : TRUE][i]
  BY DEF TheDoc, held
<1>4. TheDoc(i)' = IF held' = {} THEN NoDoc ELSE db'[CHOOSE b \in held' : TRUE][i]
  BY DEF TheDoc, held
<1>5. TheDoc(i)' = TheDoc(i)
  BY <1>1, <1>2, <1>3, <1>4
<1>6. Phase'[i] = Phase[i]
  BY <1>5 DEF Phase
<1> QED
  BY <1>5, <1>6 DEF Result

\* Functions of the clients' requests that differ in one.
LEMMA OneMoves ==
    ASSUME NEW i \in ClientId, \A j \in ClientId : j # i => Phase'[j] = Phase[j] /\ Result'[j] = Result[j]
    PROVE  /\ Phase' = [Phase EXCEPT ![i] = Phase'[i]]
           /\ Result' = [Result EXCEPT ![i] = Result'[i]]
<1>1. Phase = [j \in ClientId |-> Phase[j]] /\ Phase' = [j \in ClientId |-> Phase'[j]]
  BY DEF Phase
<1>2. Result = [j \in ClientId |-> Result[j]] /\ Result' = [j \in ClientId |-> Result'[j]]
  BY DEF Result
<1> QED
  BY <1>1, <1>2

\* A step that moves no client's request is not seen.
LEMMA Unseen ==
    ASSUME answers' = answers,
           \A i \in ClientId : Phase'[i] = Phase[i] /\ Result'[i] = Result[i]
    PROVE  UNCHANGED Lifecycle!vars
<1>1. Phase = [j \in ClientId |-> Phase[j]] /\ Phase' = [j \in ClientId |-> Phase'[j]]
  BY DEF Phase
<1>2. Result = [j \in ClientId |-> Result[j]] /\ Result' = [j \in ClientId |-> Result'[j]]
  BY DEF Result
<1>3. Phase' = Phase /\ Result' = Result
  BY <1>1, <1>2
<1> QED
  BY <1>3 DEF Lifecycle!vars, Result

\* Create accepts a request.
LEMMA CreateAccepts ==
    ASSUME IInv, IInv', Flow', NEW b \in Broker, NEW i \in ClientId, NEW s \in Service,
           NEW skip \in BOOLEAN, Create(b, i, s, skip)
    PROVE  Lifecycle!Accept(i)
<1> DEFINE req == [service |-> s, skip_po |-> skip, body |-> "data", original_id |-> NoId]
           d == createRequest("local", req)
<1>1. /\ i \in Id \ used /\ db' = [db EXCEPT ![b][i] = d]
      /\ used' = used \cup {i} /\ answers' = answers
  BY IdAssumption DEF Create
<1>2. d \in Doc /\ d.status = "IN_PROGRESS"
  BY DEF createRequest, Doc, Request, Status, Body
<1>3. d # NoDoc
  BY <1>2, NoDocAssumption
<1> HIDE DEF d
<1>4. db'[b][i] = d /\ \A c \in Broker, j \in ClientId : j # i => db'[c][j] = db[c][j]
  BY <1>1, IdAssumption DEF IInv, Brokers, Stores
<1>5. Phase[i] = "new" /\ Result[i] = NoDoc
  BY <1>1 DEF Phase, Result
<1>6. Phase'[i] = "open" /\ Result'[i] = NoDoc
  BY <1>2, <1>3, <1>4, SeenNext DEF Flow
<1>7. \A j \in ClientId : j # i => Phase'[j] = Phase[j] /\ Result'[j] = Result[j]
  BY <1>1, <1>4, SeenSame
<1>8. Phase' = [Phase EXCEPT ![i] = "open"] /\ Result' = Result
  <2>1. /\ Phase' = [Phase EXCEPT ![i] = Phase'[i]]
        /\ Result' = [Result EXCEPT ![i] = Result'[i]]
    BY <1>7, OneMoves
  <2>2. Result = [j \in ClientId |-> Result[j]]
    BY DEF Result
  <2> QED
    BY <1>5, <1>6, <2>1, <2>2
<1> QED
  BY <1>1, <1>5, <1>8 DEF Lifecycle!Accept, Lifecycle!Moves, Result

\* A write of FINISHED finishes it, and no other write does.
LEMMA WriteFinishes ==
    ASSUME IInv, IInv', Flow, Flow', NEW b \in Broker, NEW t \in DOMAIN tasks[b],
           ApplyWrite(b, t)
    PROVE  \/ t.id \in ClientId /\ Lifecycle!Finish(t.id)
           \/ UNCHANGED Lifecycle!vars
<1> DEFINE i == t.id
           d == db[b][i]
           e == db'[b][i]
<1>1. /\ t.do # "delete" /\ UNCHANGED <<used, answers>>
      /\ db' = [db EXCEPT ![b] = updateRequest(@, t.id, t.status, t.resp)]
  BY DEF ApplyWrite, Running, Writes
<1>2. t \in Task /\ i \in Id /\ TasksOf(b, i) = {t} /\ d # NoDoc
  BY <1>1, Pending
<1>3. /\ e # NoDoc /\ e.status = t.status /\ lastResponse(e) = t.resp
      /\ DocsElsewhere(b, i)
  BY <1>1, <1>2, WrittenDoc
<1>4. d.status # "FINISHED" /\ t.resp # NoDoc
  BY <1>1, <1>2, FinishedIsLeft, NoDocAssumption DEF Task
<1> HIDE DEF d, e, i
<1>5. \A j \in ClientId : j # i => Phase'[j] = Phase[j] /\ Result'[j] = Result[j]
  BY <1>1, <1>3, SeenSame, IdAssumption DEF DocsElsewhere
<1>6. CASE i \notin ClientId
  BY <1>1, <1>5, <1>6, Unseen
<1>7. CASE i \in ClientId
  <2>1. Phase[i] = "open" /\ Result[i] = NoDoc
    BY <1>2, <1>4, <1>7, Seen DEF Flow, d
  <2>2. /\ Phase'[i] = IF t.status = "FINISHED" THEN "done" ELSE "open"
        /\ Result'[i] = IF t.status = "FINISHED" THEN t.resp ELSE NoDoc
    BY <1>3, <1>7, SeenNext DEF Flow, e
  <2>3. CASE t.status # "FINISHED"
    BY <1>1, <1>5, <2>1, <2>2, <2>3, Unseen
  <2>4. CASE t.status = "FINISHED"
    <3>1. Phase' = [Phase EXCEPT ![i] = "done"]
      BY <1>5, <1>7, <2>2, <2>4, OneMoves
    <3> QED
      BY <1>1, <1>4, <1>5, <1>7, <2>1, <2>2, <2>4, <3>1
         DEF Lifecycle!Finish, Lifecycle!Moves, Result, i
  <2> QED
    BY <2>3, <2>4
<1> QED
  BY <1>6, <1>7

\* getresult fetches the result.
LEMMA GetResultFetches ==
    ASSUME IInv, Flow, NEW b \in Broker, NEW i \in ClientId, GetResult(b, i)
    PROVE  Lifecycle!Fetch(i)
<1>1. /\ i \in Id /\ UNCHANGED <<db, used>> /\ db[b][i] # NoDoc /\ db[b][i].status = "FINISHED"
      /\ answers' = [answers EXCEPT ![i] = Append(@, lastResponse(db[b][i]))]
  BY IdAssumption DEF GetResult
<1>2. Phase[i] = "done" /\ Result[i] = lastResponse(db[b][i])
  BY <1>1, Seen DEF Flow
<1>3. Phase' = Phase /\ Result' = Result
  BY <1>1 DEF Phase, Result, TheDoc, Exists
<1> DEFINE given == [j \in ClientId |-> answers[j]]
<1>4. given' = [given EXCEPT ![i] = Append(@, Result[i])]
  BY <1>1, <1>2, IdAssumption DEF IInv, World
<1> QED
  BY <1>2, <1>3, <1>4 DEF Lifecycle!Fetch, Result

\* A deletion forgets a result that was fetched.
LEMMA DeleteForgets ==
    ASSUME IInv, Flow, NEW b \in Broker, NEW t \in DOMAIN tasks[b], Delete(b, t)
    PROVE  \/ t.id \in ClientId /\ Lifecycle!Forget(t.id)
           \/ UNCHANGED Lifecycle!vars
<1> DEFINE i == t.id
           d == db[b][i]
<1>1. /\ t.do = "delete" /\ UNCHANGED <<used, answers>>
      /\ db' = [db EXCEPT ![b] = [db[b] EXCEPT ![i] = NoDoc]]
  BY DEF Delete, Running, deleteRequest
<1>2. i \in Id /\ t \in TasksOf(b, i) /\ Slot(b, i)
  BY PendingIsTask DEF IInv, Flow, Slots, TasksOf, Of
<1>3. d = NoDoc \/ d.status = "FINISHED" \/ d.origin = "external"
  BY <1>1, <1>2 DEF Slot, SlotOK, Leaving
<1>4. i \in ClientId => answers[i] # << >> /\ (d # NoDoc => d.status = "FINISHED")
  BY <1>1, <1>2, <1>3 DEF Flow, Clients
<1>5. db'[b][i] = NoDoc /\ DocsElsewhere(b, i)
  BY <1>1, <1>2 DEF IInv, Brokers, Stores, DocsElsewhere
<1> HIDE DEF d, i
<1>6. \A j \in ClientId : j # i => Phase'[j] = Phase[j] /\ Result'[j] = Result[j]
  BY <1>1, <1>5, SeenSame, IdAssumption DEF DocsElsewhere
<1>7. CASE i \notin ClientId
  BY <1>1, <1>6, <1>7, Unseen
<1>8. CASE i \in ClientId /\ d = NoDoc
  <2>1. Phase'[i] = Phase[i] /\ Result'[i] = Result[i]
    BY <1>1, <1>2, <1>5, <1>8, SeenSame DEF DocsElsewhere, d
  <2> QED
    BY <1>1, <1>6, <2>1, Unseen
<1>9. CASE i \in ClientId /\ d # NoDoc
  <2>1. Phase[i] = "done" /\ i \in used
    BY <1>4, <1>9, Seen DEF Flow, d
  <2>2. \A c \in Broker : db'[c][i] = NoDoc
    BY <1>2, <1>5, <1>9 DEF DocsElsewhere, Flow, Clients, d
  <2>3. TheDoc(i)' = NoDoc
    BY <2>2 DEF TheDoc, Exists
  <2>4. Phase'[i] = "gone"
    BY <1>1, <1>9, <2>1, <2>3 DEF Phase
  <2>5. Result'[i] = NoDoc
    BY <1>9, <2>4 DEF Result
  <2>6. /\ Phase' = [Phase EXCEPT ![i] = "gone"]
        /\ Result' = [Result EXCEPT ![i] = NoDoc]
    BY <1>6, <1>9, <2>4, <2>5, OneMoves
  <2> QED
    BY <1>1, <1>4, <1>9, <2>1, <2>6 DEF Lifecycle!Forget, Lifecycle!Moves, Result, i
<1> QED
  BY <1>7, <1>8, <1>9
\* The peer's copy of a request is no client's.
LEMMA ForwardUnseen ==
    ASSUME IInv, NEW b \in Broker, NEW t \in DOMAIN tasks[b], NEW j \in Id,
           ForwardAccepted(b, t, j)
    PROVE  UNCHANGED Lifecycle!vars
<1>1. /\ j \notin ClientId /\ used' = used \cup {j} /\ answers' = answers
      /\ \E d : db' = [db EXCEPT ![Peer[b]][j] = d]
  BY DEF ForwardAccepted, Accept
<1>2. \A c \in Broker, i \in ClientId : db'[c][i] = db[c][i]
  BY <1>1, IdAssumption DEF IInv, Brokers, Stores
<1> QED
  BY <1>1, <1>2, SeenSame, Unseen

\* Other steps change no document and answer nobody.
LEMMA RestUnseen ==
    ASSUME UNCHANGED <<db, used, answers>>
    PROVE  UNCHANGED Lifecycle!vars
<1>1. \A i \in ClientId : Phase'[i] = Phase[i] /\ Result'[i] = Result[i]
  BY SeenSame
<1> QED
  BY <1>1, Unseen

\* Every step of the brokers is one of RequestLifecycle, or is not seen.
LEMMA NextRefines ==
    ASSUME IInv, IInv', Flow, Flow', [Next]_vars
    PROVE  [Lifecycle!Next]_Lifecycle!vars
<1>1. ASSUME NEW b \in Broker, NEW t \in DOMAIN tasks[b], Complete(b, t)
      PROVE  [Lifecycle!Next]_Lifecycle!vars
  <2>1. CASE ApplyWrite(b, t)
    BY <2>1, WriteFinishes DEF Lifecycle!Next
  <2>2. CASE Delete(b, t)
    BY <2>2, DeleteForgets DEF Lifecycle!Next
  <2>3. CASE \E j \in Id : ForwardAccepted(b, t, j)
    BY <2>3, ForwardUnseen
  <2>4. CASE UNCHANGED <<db, used, answers>>
    BY <2>4, RestUnseen
  <2> QED
    BY <1>1, <2>1, <2>2, <2>3, <2>4
       DEF Complete, WriteFails, FoundLocal, FoundExternal, FoundOrigin, Located, NotFound,
           ServiceAnswers, ServiceRunsAgain, ServiceFails, ServiceServed, ServiceMoved,
           POStarts, POStartsAgain, POStarted, PORefuses, POSaysNothing, ForwardAcked,
           CallbackTaken, PeerFails, PeerUnreachable, CallAbandoned
<1>2. ASSUME NEW b \in Broker, NEW i \in ClientId, NEW s \in Service, NEW skip \in BOOLEAN,
             Create(b, i, s, skip)
      PROVE  [Lifecycle!Next]_Lifecycle!vars
  BY <1>2, CreateAccepts DEF Lifecycle!Next
<1>3. ASSUME NEW b \in Broker, NEW i \in ClientId, GetResult(b, i)
      PROVE  [Lifecycle!Next]_Lifecycle!vars
  BY <1>3, GetResultFetches DEF Lifecycle!Next
<1>4. ASSUME NEW c \in DOMAIN owed, RequestCallback(c) \/ CallbackLost(c)
      PROVE  [Lifecycle!Next]_Lifecycle!vars
  BY <1>4, RestUnseen DEF RequestCallback, CallbackLost
<1>5. ASSUME NEW b \in Broker, Stop(b) \/ Restart(b)
      PROVE  [Lifecycle!Next]_Lifecycle!vars
  <2>1. ~Restart(b)
    BY DEF Restart, Flow, Singles
  <2> QED
    BY <1>5, <2>1, RestUnseen DEF Stop
<1>6. CASE UNCHANGED vars
  BY <1>6, RestUnseen DEF vars
<1> QED
  BY <1>1, <1>2, <1>3, <1>4, <1>5, <1>6 DEF Next, Client, Progress

\* While the environment is orderly, the two brokers are to a client what
\* RequestLifecycle is: a stored result is final, whichever domain it came
\* from, and it is not deleted before it was fetched.
THEOREM BrokersKeepLifecycle ==
    ASSUME Orderly
    PROVE  Spec => KeepsLifecycle
<1>1. Init => Lifecycle!Init
  BY IdAssumption DEF Init, Lifecycle!Init, Phase
<1>2. IInv /\ IInv' /\ Flow /\ Flow' /\ [Next]_vars => [Lifecycle!Next]_Lifecycle!vars
  BY NextRefines
<1> QED
  BY <1>1, <1>2, FlowInvariance, PTL DEF Spec, KeepsLifecycle, Lifecycle!Spec
=============================================================================

--------------------------- MODULE RequestWatcher ---------------------------
(***************************************************************************)
(* The watcher of blocking requests (request/requestWatcher.js): the       *)
(* clients of create_blocker wait on an open connection while a chain of   *)
(* timeouts polls the store for all of them.                               *)
(*                                                                         *)
(* A round reads the store for one watched request after another; each     *)
(* read is asynchronous, so requests are added, and the store changes,     *)
(* between two of them.  Nothing in the code says that one round ends      *)
(* before the next begins: timers and rounds are counted, not assumed to   *)
(* be single.                                                              *)
(***************************************************************************)
EXTENDS Naturals, Sequences, FiniteSets

CONSTANTS
    Id,         \* ids of requests made with create_blocker
    MaxErrors   \* failing reads of the store: a bound

ASSUME MaxErrorsAssumption == MaxErrors \in Nat

VARIABLES
    requests,   \* watcher.requests: the watched ids, each with its connection
    timers,     \* timeouts of checkRequests that have not fired
    rounds,     \* the rounds in progress, each waiting for a read
    store,      \* store[i]: the request's document: "none", "open", "finished"
    deleting,   \* ids whose document the watcher asked to delete
    replies,    \* replies[i]: how often the connection of i was answered
    errors      \* reads that failed

vars == <<requests, timers, rounds, store, deleting, replies, errors>>

\* index and therequest are those of the read the round waits for
Round == [index : Nat \ {0}, therequest : Id, toDelete : Seq(Nat \ {0})]

-----------------------------------------------------------------------------
\* the elements of s at the positions that are not in D, in their order
Kept(s, D, k) == CHOOSE p \in DOMAIN s \ D :
                     Cardinality({q \in DOMAIN s \ D : q <= p}) = k
Without(s, D) == [k \in 1 .. Cardinality(DOMAIN s \ D) |-> s[Kept(s, D, k)]]

\* mutant: the positions are removed in ascending order, so that each removal
\* moves the ones after it
Spliced_ascending(s, toDelete) ==
    Without(s, {toDelete[k] + k - 1 : k \in DOMAIN toDelete})

\* toDelete.reverse().forEach(splice): descending, so no removal moves a later one
Spliced(s, toDelete) == Without(s, {toDelete[k] : k \in DOMAIN toDelete})

\* checkRequest at `index` of a round; `others` are the other rounds, `armed`
\* the timers that are set: read the next request, or end the round
Check(index, toDelete, others, armed) ==
    IF index <= Len(requests)
    THEN /\ rounds' = Append(others, [index |-> index, toDelete |-> toDelete,
                                      therequest |-> requests[index]])
         /\ timers' = armed
         /\ requests' = requests
    ELSE /\ rounds' = others
         /\ requests' = Spliced(requests, toDelete)
         /\ timers' = IF Len(requests') > 0 THEN armed + 1 ELSE armed

AllBut(k) == [j \in 1 .. Len(rounds) - 1 |-> rounds[IF j < k THEN j ELSE j + 1]]

-----------------------------------------------------------------------------
\* mutant: a timeout is set for every request
addRequest_alwaysArms(i) ==
    /\ store[i] = "none" /\ i \notin deleting /\ replies[i] = 0
    /\ store' = [store EXCEPT ![i] = "open"]
    /\ requests' = Append(requests, i)
    /\ timers' = timers + 1
    /\ UNCHANGED <<rounds, deleting, replies, errors>>

\* a blocking request is created and watched; the first one sets the timeout
addRequest(i) ==
    /\ store[i] = "none" /\ i \notin deleting /\ replies[i] = 0
    /\ store' = [store EXCEPT ![i] = "open"]
    /\ requests' = Append(requests, i)
    /\ timers' = IF Len(requests') = 1 THEN timers + 1 ELSE timers
    /\ UNCHANGED <<rounds, deleting, replies, errors>>

\* the timeout fires
checkRequests ==
    /\ timers > 0
    /\ Check(1, << >>, rounds, timers - 1)
    /\ UNCHANGED <<store, deleting, replies, errors>>

\* mutant: the request of the current index is not the one that was read
ReadFinished_byIndex(k) ==
    LET r == rounds[k]
    IN  /\ store[requests[1]] = "finished"
        /\ replies' = [replies EXCEPT ![requests[1]] = @ + 1]
        /\ deleting' = deleting \cup {requests[1]}
        /\ Check(r.index + 1, Append(r.toDelete, r.index), AllBut(k), timers)
        /\ UNCHANGED <<store, errors>>

\* mutant: the id is kept for removal instead of the index
ReadFinished_byId(k) ==
    LET r == rounds[k]
    IN  /\ store[r.therequest] = "finished"
        /\ replies' = [replies EXCEPT ![r.therequest] = @ + 1]
        /\ deleting' = deleting \cup {r.therequest}
        /\ Check(r.index + 1, Append(r.toDelete, r.therequest), AllBut(k), timers)
        /\ UNCHANGED <<store, errors>>

\* the read finds a result: answer, delete the document, drop the entry later
ReadFinished(k) ==
    LET r == rounds[k]
    IN  /\ store[r.therequest] = "finished"
        /\ replies' = [replies EXCEPT ![r.therequest] = @ + 1]
        /\ deleting' = deleting \cup {r.therequest}
        /\ Check(r.index + 1, Append(r.toDelete, r.index), AllBut(k), timers)
        /\ UNCHANGED <<store, errors>>

\* the request is not finished
ReadOpen(k) ==
    /\ store[rounds[k].therequest] = "open"
    /\ Check(rounds[k].index + 1, rounds[k].toDelete, AllBut(k), timers)
    /\ UNCHANGED <<store, deleting, replies, errors>>

\* mutant: the round ends with the read that failed
ReadFails_stops(k) ==
    /\ store[rounds[k].therequest] # "none" => errors < MaxErrors
    /\ errors' = IF store[rounds[k].therequest] # "none" THEN errors + 1 ELSE errors
    /\ rounds' = AllBut(k)
    /\ UNCHANGED <<requests, timers, store, deleting, replies>>

\* the read fails, or there is no document: the entry is kept
ReadFails(k) ==
    /\ store[rounds[k].therequest] # "none" => errors < MaxErrors
    /\ errors' = IF store[rounds[k].therequest] # "none" THEN errors + 1 ELSE errors
    /\ Check(rounds[k].index + 1, rounds[k].toDelete, AllBut(k), timers)
    /\ UNCHANGED <<store, deleting, replies>>

\* deleteRequest completes
Deleted(i) ==
    /\ i \in deleting
    /\ deleting' = deleting \ {i}
    /\ store' = [store EXCEPT ![i] = "none"]
    /\ UNCHANGED <<requests, timers, rounds, replies, errors>>

-----------------------------------------------------------------------------
\* the forwarding of the request ends
Finish(i) ==
    /\ store[i] = "open"
    /\ store' = [store EXCEPT ![i] = "finished"]
    /\ UNCHANGED <<requests, timers, rounds, deleting, replies, errors>>

-----------------------------------------------------------------------------
Init ==
    /\ requests = << >>
    /\ timers = 0
    /\ rounds = << >>
    /\ store = [i \in Id |-> "none"]
    /\ deleting = {}
    /\ replies = [i \in Id |-> 0]
    /\ errors = 0

Polling == \/ checkRequests
           \/ \E k \in DOMAIN rounds : ReadFinished(k) \/ ReadOpen(k) \/ ReadFails(k)

Next == \/ Polling
        \/ \E i \in Id : addRequest(i) \/ Deleted(i) \/ Finish(i)

Spec == Init /\ [][Next]_vars

\* timeouts fire and reads complete
FairSpec == Spec /\ WF_vars(Polling)

-----------------------------------------------------------------------------
TypeOK ==
    /\ requests \in Seq(Id)
    /\ timers \in Nat
    /\ rounds \in Seq(Round)
    /\ store \in [Id -> {"none", "open", "finished"}]
    /\ deleting \subseteq Id
    /\ replies \in [Id -> Nat]
    /\ errors \in 0 .. MaxErrors

\* The polling never stops while a client waits, and never runs twice at
\* once: there is one timeout set, or one round in progress, exactly when
\* requests are watched ("More than one request, timeout must be active",
\* requestWatcher.js:171).
OneChain == timers + Len(rounds) = IF Len(requests) = 0 THEN 0 ELSE 1

\* A connection is answered at most once: answering twice would raise an
\* exception in the callback of the read.
AnsweredOnce == \A i \in Id : replies[i] <= 1

\* The entry removed at the end of a round is the one that was answered:
\* whoever is not watched any more has its answer, and whoever still is and
\* was answered is about to be removed by the round.
WatchedUntilAnswered ==
    \A i \in Id : (store[i] # "none" \/ replies[i] > 0) =>
        LET positions == {p \in DOMAIN requests : requests[p] = i}
            removed == {p \in positions : \E k \in DOMAIN rounds :
                            \E d \in DOMAIN rounds[k].toDelete : rounds[k].toDelete[d] = p}
        IN  /\ Cardinality(positions) <= 1
            /\ replies[i] = 0 <=> positions \ removed # {}

\* A client whose request has finished is answered.
FinishedIsAnswered ==
    \A i \in Id : store[i] = "finished" ~> replies[i] = 1
=============================================================================

-------------------------- MODULE RequestLifecycle --------------------------
(***************************************************************************)
(* What a broker promises the client of a request, whichever domain serves *)
(* it: the request is accepted, gets one result, the client may fetch that *)
(* result and no other, and only a fetched result is forgotten.            *)
(***************************************************************************)
EXTENDS Sequences

CONSTANTS ClientId, NoResult

VARIABLES
    phase,    \* phase[i] \in {"new", "open", "done", "gone"}
    result,   \* result[i]: the result of i while it is kept
    fetched   \* fetched[i]: what the client of i was given

vars == <<phase, result, fetched>>

Init == /\ phase = [i \in ClientId |-> "new"]
        /\ result = [i \in ClientId |-> NoResult]
        /\ fetched = [i \in ClientId |-> << >>]

Moves(i, from, to) == phase[i] = from /\ phase' = [phase EXCEPT ![i] = to]

Accept(i) == Moves(i, "new", "open") /\ UNCHANGED <<result, fetched>>

Finish(i) == /\ Moves(i, "open", "done")
             /\ result'[i] # NoResult
             /\ \A j \in ClientId \ {i} : result'[j] = result[j]
             /\ UNCHANGED fetched

Fetch(i) == /\ phase[i] = "done"
            /\ fetched' = [fetched EXCEPT ![i] = Append(@, result[i])]
            /\ UNCHANGED <<phase, result>>

Forget(i) == /\ Moves(i, "done", "gone") /\ fetched[i] # << >>
             /\ result' = [result EXCEPT ![i] = NoResult]
             /\ UNCHANGED fetched

Next == \E i \in ClientId : Accept(i) \/ Finish(i) \/ Fetch(i) \/ Forget(i)

Spec == Init /\ [][Next]_vars
=============================================================================

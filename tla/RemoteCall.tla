----------------------------- MODULE RemoteCall -----------------------------
(***************************************************************************)
(* What a handler may expect of a call to another process: it ends once,   *)
(* with an answer only if the other process ran it, and the other process  *)
(* runs it no more than `Limit` times, possibly after the call ended.      *)
(***************************************************************************)
EXTENDS Integers

CONSTANTS Call, Limit

VARIABLES phase,  \* phase[x]: "new", "pending", "answered" or "failed"
          runs    \* runs[x]: how often the other process ran call x

Init == phase = [x \in Call |-> "new"] /\ runs = [x \in Call |-> 0]

Becomes(x, p) == phase' = [phase EXCEPT ![x] = p] /\ runs' = runs

Start(x)  == phase[x] = "new" /\ (Becomes(x, "pending") \/ Becomes(x, "failed"))
Run(x)    == /\ phase[x] # "new" /\ runs[x] < Limit
             /\ runs' = [runs EXCEPT ![x] = @ + 1] /\ phase' = phase
Answer(x) == phase[x] = "pending" /\ runs[x] > 0 /\ Becomes(x, "answered")
Fail(x)   == phase[x] = "pending" /\ Becomes(x, "failed")

Next == \E x \in Call : Start(x) \/ Run(x) \/ Answer(x) \/ Fail(x)

Spec == Init /\ [][Next]_<<phase, runs>>
=============================================================================

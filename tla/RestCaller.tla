----------------------------- MODULE RestCaller -----------------------------
(***************************************************************************)
(* Caller.doCall (request/rest/lib/restCaller.js): a call to another       *)
(* process that is posted again, up to Retries times, when it ended with a *)
(* network error.  Such an error does not say whether the other process    *)
(* got the request: it may have run it, or may still run it later.  An     *)
(* answer with an error status is an answer.                               *)
(***************************************************************************)
EXTENDS Integers

CONSTANTS
    Call,      \* every call there ever is
    Code,      \* the statuses of answers
    Retries,   \* __brokerConfig.numberOfRetries
    MaxFaults  \* how many operations fail: a bound

ASSUME CodeAssumption == Code \subseteq 200 .. 599
ASSUME RetriesAssumption == Retries \in Nat /\ MaxFaults \in Nat

VARIABLES
    calls,   \* calls[x]: state of call x
    ran,     \* ran[x]: how often the other process ran call x
    faults   \* failures so far

(***************************************************************************)
(* `left` are the retries left, `here` whether the other process ran the   *)
(* attempt that is waited for, `loose` how many of the attempts given up   *)
(* it may still run, `outcome` what was called back: a status or a code.  *)
(***************************************************************************)
Unsupported == 100  \* the codes of the errors; an error of another kind has none
Unreachable == 101
Odd == -1
None == 0

CallState == [stage : {"idle", "sent", "over"}, left : 0 .. Retries, here : BOOLEAN,
              loose : 0 .. Retries + 1, outcome : Code \cup {None, Unsupported, Unreachable, Odd}]

Idle == [stage |-> "idle", left |-> Retries, here |-> FALSE, loose |-> 0,
         outcome |-> None]

\* an attempt that the other process did not run yet, it may still run
Loose(x) == IF calls[x].here THEN calls[x].loose ELSE calls[x].loose + 1

\* the callback: what follows it is the business of the caller
CallsBack(x, loose, outcome) ==
    calls' = [calls EXCEPT ![x].stage = "over", ![x].here = FALSE,
                           ![x].loose = loose, ![x].outcome = outcome]

Fault == faults < MaxFaults /\ faults' = faults + 1

-----------------------------------------------------------------------------
doCall(x, method) ==
    /\ calls[x].stage = "idle"
    /\ IF method \in {"GET", "POST"}
       THEN calls' = [calls EXCEPT ![x].stage = "sent"]
       ELSE CallsBack(x, 0, Unsupported)
    /\ UNCHANGED <<ran, faults>>

\* the other process runs the attempt that is waited for, or an earlier one
Runs(x) ==
    /\ calls[x].stage = "sent" /\ ~calls[x].here
    /\ calls' = [calls EXCEPT ![x].here = TRUE]
    /\ ran' = [ran EXCEPT ![x] = @ + 1]
    /\ faults' = faults

RunsLate(x) ==
    /\ calls[x].loose > 0
    /\ calls' = [calls EXCEPT ![x].loose = @ - 1]
    /\ ran' = [ran EXCEPT ![x] = @ + 1]
    /\ faults' = faults

Responds(x, code) ==
    /\ calls[x].stage = "sent" /\ calls[x].here
    /\ CallsBack(x, calls[x].loose, code)
    /\ UNCHANGED <<ran, faults>>

\* mutant: one retry too many
Lost_offByOne(x) ==
    /\ calls[x].stage = "sent"
    /\ IF calls[x].left >= 0
       THEN calls' = [calls EXCEPT ![x].left = @ - 1, ![x].here = FALSE,
                                   ![x].loose = Loose(x)]
       ELSE CallsBack(x, Loose(x), Unreachable)
    /\ Fault /\ ran' = ran

\* a timeout, ENOTFOUND, ECONNREFUSED, EHOSTUNREACH, ECONNRESET or EAI_AGAIN
Lost(x) ==
    /\ calls[x].stage = "sent"
    /\ IF calls[x].left > 0
       THEN calls' = [calls EXCEPT ![x].left = @ - 1, ![x].here = FALSE,
                                   ![x].loose = Loose(x)]
       ELSE CallsBack(x, Loose(x), Unreachable)
    /\ Fault /\ ran' = ran

\* any other error ends the call at once
OddError(x) ==
    /\ calls[x].stage = "sent"
    /\ CallsBack(x, Loose(x), Odd)
    /\ Fault /\ ran' = ran

-----------------------------------------------------------------------------
CallInit == /\ calls = [x \in Call |-> Idle]
            /\ ran = [x \in Call |-> 0]
            /\ faults = 0

CallNext == \E x \in Call :
    \/ \E method \in {"GET", "POST", "PUT"} : doCall(x, method)
    \/ Runs(x) \/ RunsLate(x)
    \/ \E code \in Code : Responds(x, code)
    \/ Lost(x) \/ OddError(x)

callVars == <<calls, ran, faults>>

CallSpec == CallInit /\ [][CallNext]_callVars

-----------------------------------------------------------------------------
CallTypeOK ==
    /\ calls \in [Call -> CallState]
    /\ ran \in [Call -> Nat]
    /\ faults \in Nat

\* The callback is called once, with an answer or an error.
Phase == [x \in Call |->
             CASE calls[x].stage = "idle" -> "new"
               [] calls[x].stage = "sent" -> "pending"
               [] OTHER -> IF calls[x].outcome \in Code THEN "answered" ELSE "failed"]

Remote == INSTANCE RemoteCall WITH Limit <- Retries + 1, phase <- Phase, runs <- ran

\* Whatever is lost and repeated, a call keeps the promise of RemoteCall: the
\* other process runs it once for each attempt at most, an answer is only given
\* for a call that was run, and the callback is called once.
KeepsRemoteCall == Remote!Spec
=============================================================================

-------------------------- MODULE RestCallerProofs --------------------------
(***************************************************************************)
(* The caller keeps the promise of RemoteCall for any number of calls and  *)
(* of retries, whatever is lost: the attempts that were run, those that    *)
(* may still be and the one that is waited for are never more than the     *)
(* attempts that were made.                                                *)
(***************************************************************************)
EXTENDS RestCaller, TLAPS

\* the attempt that is waited for, if the other process did not run it yet
Awaited(k) == IF k.here THEN 0 ELSE 1

\* what holds between the state of a call and how often it was run
Accounted(k, n) ==
    /\ k.stage = "idle" => n = 0 /\ k.loose = 0 /\ ~k.here /\ k.left = Retries
    /\ k.stage = "sent" => n + k.loose + Awaited(k) <= Retries - k.left + 1
    /\ k.stage = "over" => n + k.loose <= Retries + 1 /\ ~k.here
    /\ k.here => n > 0
    /\ k.stage = "over" /\ k.outcome \in Code => n > 0

CallInv == CallTypeOK /\ \A x \in Call : Accounted(calls[x], ran[x])

\* Types of the parts of a call, which the steps below start from.
LEMMA CallParts ==
    ASSUME CallInv, NEW x \in Call
    PROVE  /\ calls \in [Call -> CallState] /\ ran \in [Call -> Nat] /\ faults \in Nat
           /\ calls[x].stage \in {"idle", "sent", "over"}
           /\ calls[x].left \in Nat /\ calls[x].left <= Retries
           /\ calls[x].here \in BOOLEAN
           /\ calls[x].loose \in Nat /\ calls[x].loose <= Retries + 1
           /\ calls[x].outcome \in Code \cup {None, Unsupported, Unreachable, Odd}
           /\ ran[x] \in Nat /\ Retries \in Nat
           /\ Accounted(calls[x], ran[x])
<1>1. calls[x] \in CallState /\ ran[x] \in Nat /\ Accounted(calls[x], ran[x])
  BY DEF CallInv, CallTypeOK
<1> QED
  BY <1>1, RetriesAssumption DEF CallInv, CallTypeOK, CallState

\* A step that changes one call keeps the invariant if what it changes does.
LEMMA OneCall ==
    ASSUME CallInv, NEW x \in Call, NEW k \in CallState, NEW n \in Nat,
           Accounted(k, n), faults' \in Nat,
           calls' = [calls EXCEPT ![x] = k], ran' = [ran EXCEPT ![x] = n]
    PROVE  CallInv'
<1>1. CallTypeOK'
  BY DEF CallInv, CallTypeOK
<1>2. ASSUME NEW y \in Call PROVE Accounted(calls'[y], ran'[y])
  <2>1. CASE y = x
    BY <2>1 DEF CallInv, CallTypeOK
  <2>2. CASE y # x
    <3>1. calls'[y] = calls[y] /\ ran'[y] = ran[y]
      BY <2>2 DEF CallInv, CallTypeOK
    <3> QED
      BY <3>1 DEF CallInv
  <2> QED
    BY <2>1, <2>2
<1> QED
  BY <1>1, <1>2 DEF CallInv, Accounted, Awaited

\* The codes of errors are not statuses of answers.
LEMMA ErrorsAreNoStatus == Unsupported \notin Code /\ Unreachable \notin Code /\ Odd \notin Code
BY CodeAssumption DEF Unsupported, Unreachable, Odd

\* Each operation of the caller keeps the invariant.
LEMMA doCallKeeps ==
    ASSUME CallInv, NEW x \in Call, NEW method, doCall(x, method)
    PROVE  CallInv'
<1> USE DEF Accounted, Awaited, CallState
<1>1. CASE method \in {"GET", "POST"}
  <2> DEFINE k == [calls[x] EXCEPT !.stage = "sent"]
  <2>1. k \in CallState /\ Accounted(k, ran[x])
    BY <1>1, CallParts DEF doCall
  <2>2. calls' = [calls EXCEPT ![x] = k] /\ ran' = [ran EXCEPT ![x] = ran[x]]
    BY <1>1, CallParts DEF doCall
  <2> QED
    BY <2>1, <2>2, CallParts, OneCall DEF doCall
<1>2. CASE method \notin {"GET", "POST"}
  <2> DEFINE k == [calls[x] EXCEPT !.stage = "over", !.here = FALSE, !.loose = 0,
                                   !.outcome = Unsupported]
  <2>0. k \in CallState
    BY <1>2, CallParts DEF doCall
  <2>1. Accounted(k, ran[x])
    BY <1>2, CallParts, ErrorsAreNoStatus DEF doCall
  <2>2. calls' = [calls EXCEPT ![x] = k] /\ ran' = [ran EXCEPT ![x] = ran[x]]
    BY <1>2, CallParts DEF doCall, CallsBack
  <2> QED
    BY <2>0, <2>1, <2>2, CallParts, OneCall DEF doCall
<1> QED
  BY <1>1, <1>2

\* The other process runs the attempt that is waited for ...
LEMMA RunsKeeps ==
    ASSUME CallInv, NEW x \in Call, Runs(x)
    PROVE  CallInv'
<1> DEFINE k == [calls[x] EXCEPT !.here = TRUE]
<1>1. /\ k \in CallState /\ k.stage = "sent" /\ k.left = calls[x].left
      /\ k.here = TRUE /\ k.loose = calls[x].loose
  BY CallParts DEF Runs, CallState
<1>2. /\ calls' = [calls EXCEPT ![x] = k] /\ ran' = [ran EXCEPT ![x] = ran[x] + 1]
      /\ ran[x] + 1 \in Nat /\ faults' \in Nat
  BY CallParts DEF Runs
<1> HIDE DEF k
<1>3. Awaited(calls[x]) = 1 /\ Awaited(k) = 0
  BY <1>1 DEF Runs, Awaited
<1>4. Accounted(k, ran[x] + 1)
  BY <1>1, <1>3, CallParts DEF Runs, Accounted
<1> QED
  BY <1>1, <1>2, <1>4, OneCall

\* ... or one that was given up.
LEMMA RunsLateKeeps ==
    ASSUME CallInv, NEW x \in Call, RunsLate(x)
    PROVE  CallInv'
<1> DEFINE k == [calls[x] EXCEPT !.loose = @ - 1]
<1>1. k \in CallState /\ Accounted(k, ran[x] + 1)
  BY CallParts DEF RunsLate, Accounted, Awaited, CallState
<1>2. /\ calls' = [calls EXCEPT ![x] = k] /\ ran' = [ran EXCEPT ![x] = ran[x] + 1]
      /\ ran[x] + 1 \in Nat /\ faults' \in Nat
  BY CallParts DEF RunsLate
<1> HIDE DEF k
<1> QED
  BY <1>1, <1>2, OneCall

\* So does the callback, if the account of the attempts is right.
LEMMA CallsBackKeeps ==
    ASSUME CallInv, NEW x \in Call, calls[x].stage = "sent",
           NEW loose \in Nat, ran[x] + loose <= Retries + 1,
           NEW outcome \in Code \cup {None, Unsupported, Unreachable, Odd},
           outcome \in Code => ran[x] > 0,
           CallsBack(x, loose, outcome), ran' = ran, faults' \in Nat
    PROVE  CallInv'
<1> DEFINE k == [calls[x] EXCEPT !.stage = "over", !.here = FALSE, !.loose = loose,
                                 !.outcome = outcome]
<1>0. calls[x] \in CallState /\ loose \in 0 .. Retries + 1
  BY CallParts DEF CallInv, CallTypeOK
<1>1. /\ k.stage = "over" /\ k.here = FALSE /\ k.loose = loose /\ k.outcome = outcome
      /\ k \in CallState
  BY <1>0 DEF CallState
<1>2. calls' = [calls EXCEPT ![x] = k] /\ ran' = [ran EXCEPT ![x] = ran[x]]
  BY CallParts DEF CallsBack
<1> HIDE DEF k
<1>3. Accounted(k, ran[x])
  BY <1>1, CallParts DEF Accounted
<1> QED
  BY <1>1, <1>2, <1>3, CallParts, OneCall

\* An answer ends the call, whatever its status.
LEMMA RespondsKeeps ==
    ASSUME CallInv, NEW x \in Call, NEW code \in Code, Responds(x, code)
    PROVE  CallInv'
<1>1. calls[x].loose \in Nat /\ ran[x] + calls[x].loose <= Retries + 1 /\ ran[x] > 0
  BY CallParts DEF Responds, Accounted, Awaited
<1> QED
  BY <1>1, CallParts, CallsBackKeeps DEF Responds

\* An attempt that is given up counts among those that may still be run.
LEMMA LooseAccount ==
    ASSUME CallInv, NEW x \in Call, calls[x].stage = "sent"
    PROVE  Loose(x) \in Nat /\ ran[x] + Loose(x) <= Retries - calls[x].left + 1
BY CallParts DEF Loose, Accounted, Awaited

\* A fault is counted.
LEMMA FaultCounts ==
    ASSUME CallInv, Fault
    PROVE  faults' \in Nat
BY DEF Fault, CallInv, CallTypeOK

\* A lost attempt is repeated, or was the last one.
LEMMA LostKeeps ==
    ASSUME CallInv, NEW x \in Call, Lost(x)
    PROVE  CallInv'
<1>0. /\ faults' \in Nat /\ ran' = ran
      /\ Loose(x) \in Nat /\ ran[x] + Loose(x) <= Retries - calls[x].left + 1
  BY FaultCounts, LooseAccount DEF Lost
<1>1. CASE calls[x].left > 0
  <2> DEFINE k == [calls[x] EXCEPT !.left = @ - 1, !.here = FALSE, !.loose = Loose(x)]
  <2>0. /\ calls[x] \in CallState /\ calls[x].stage = "sent"
        /\ Loose(x) \in 0 .. Retries + 1 /\ calls[x].left - 1 \in 0 .. Retries
    BY <1>0, <1>1, CallParts DEF Lost, CallInv, CallTypeOK
  <2>1. /\ k \in CallState /\ k.stage = "sent" /\ k.left = calls[x].left - 1
        /\ k.here = FALSE /\ k.loose = Loose(x)
    BY <2>0 DEF CallState
  <2>2. calls' = [calls EXCEPT ![x] = k] /\ ran' = [ran EXCEPT ![x] = ran[x]]
    BY <1>0, <1>1, CallParts DEF Lost
  <2> HIDE DEF k
  <2>3. Awaited(k) = 1
    BY <2>1 DEF Awaited
  <2>4. Accounted(k, ran[x])
    BY <1>0, <1>1, <2>1, <2>3, CallParts DEF Accounted
  <2> QED
    BY <1>0, <2>1, <2>2, <2>4, CallParts, OneCall
<1>2. CASE ~(calls[x].left > 0)
  <2>1. CallsBack(x, Loose(x), Unreachable) /\ ran[x] + Loose(x) <= Retries + 1
    BY <1>0, <1>2, CallParts DEF Lost
  <2> QED
    BY <1>0, <2>1, ErrorsAreNoStatus, CallsBackKeeps DEF Lost
<1> QED
  BY <1>1, <1>2

\* Any other error ends the call.
LEMMA OddErrorKeeps ==
    ASSUME CallInv, NEW x \in Call, OddError(x)
    PROVE  CallInv'
<1>1. /\ faults' \in Nat /\ ran' = ran
      /\ Loose(x) \in Nat /\ ran[x] + Loose(x) <= Retries + 1
  BY FaultCounts, LooseAccount, CallParts DEF OddError
<1> QED
  BY <1>1, ErrorsAreNoStatus, CallsBackKeeps DEF OddError

\* At the start no attempt is made ...
LEMMA CallInitInv == CallInit => CallInv
<1> SUFFICES ASSUME CallInit PROVE CallInv
  OBVIOUS
<1>1. Idle \in CallState
  BY RetriesAssumption DEF Idle, CallState
<1>2. CallTypeOK
  BY <1>1 DEF CallInit, CallTypeOK
<1>3. \A x \in Call : Accounted(Idle, 0)
  BY DEF Idle, Accounted, None
<1> QED
  BY <1>2, <1>3 DEF CallInit, CallInv

\* ... and every step keeps the account of the attempts.
LEMMA CallNextInv ==
    ASSUME CallInv, [CallNext]_callVars
    PROVE  CallInv'
<1>1. CASE CallNext
  BY <1>1, doCallKeeps, RunsKeeps, RunsLateKeeps, RespondsKeeps, LostKeeps, OddErrorKeeps
  DEF CallNext
<1>2. CASE UNCHANGED callVars
  BY <1>2 DEF callVars, CallInv, CallTypeOK, Accounted, Awaited
<1> QED
  BY <1>1, <1>2

\* Whatever is lost, late or repeated: the runs of a call, done and still possible, are no
\* more than the attempts that doCall made.
THEOREM CallAccounted == CallSpec => []CallInv
BY CallInitInv, CallNextInv, PTL DEF CallSpec

-----------------------------------------------------------------------------
(* The calls implement RemoteCall. *)

\* What a call is to whoever made it, as its state changes.
LEMMA PhaseOf ==
    ASSUME NEW x \in Call
    PROVE  /\ calls[x].stage = "idle" => Phase[x] = "new"
           /\ calls[x].stage = "sent" => Phase[x] = "pending"
           /\ calls[x].stage = "over" /\ calls[x].outcome \in Code => Phase[x] = "answered"
           /\ calls[x].stage = "over" /\ calls[x].outcome \notin Code => Phase[x] = "failed"
BY DEF Phase

\* A step that leaves stage and outcome alone leaves the phases alone.
LEMMA SamePhase ==
    ASSUME CallInv, NEW x \in Call, NEW k, calls' = [calls EXCEPT ![x] = k],
           k.stage = calls[x].stage, k.outcome = calls[x].outcome
    PROVE  Phase' = Phase
<1>1. ASSUME NEW y \in Call
      PROVE  calls'[y].stage = calls[y].stage /\ calls'[y].outcome = calls[y].outcome
  BY DEF CallInv, CallTypeOK
<1> QED
  BY <1>1 DEF Phase

\* A step that ends or starts a call changes its phase and no other.
LEMMA NewPhase ==
    ASSUME CallInv, NEW x \in Call, NEW k, calls' = [calls EXCEPT ![x] = k],
           NEW p, p = Phase'[x]
    PROVE  Phase' = [Phase EXCEPT ![x] = p]
<1>1. ASSUME NEW y \in Call, y # x PROVE calls'[y] = calls[y]
  BY <1>1 DEF CallInv, CallTypeOK
<1> QED
  BY <1>1 DEF Phase

\* The callback ends a call that is waited for.
LEMMA CallsBackRefines ==
    ASSUME CallInv, NEW x \in Call, calls[x].stage = "sent", NEW loose,
           NEW outcome, CallsBack(x, loose, outcome), ran' = ran,
           outcome \in Code => ran[x] > 0
    PROVE  Remote!Answer(x) \/ Remote!Fail(x)
<1> DEFINE k == [calls[x] EXCEPT !.stage = "over", !.here = FALSE, !.loose = loose,
                                 !.outcome = outcome]
<1>1. calls' = [calls EXCEPT ![x] = k] /\ calls'[x] = k
  BY CallParts DEF CallsBack
<1>2. k.stage = "over" /\ k.outcome = outcome
  BY CallParts DEF CallState, CallInv, CallTypeOK
<1> HIDE DEF k
<1>3. Phase'[x] = IF outcome \in Code THEN "answered" ELSE "failed"
  BY <1>1, <1>2 DEF Phase
<1>4. Phase' = [Phase EXCEPT ![x] = IF outcome \in Code THEN "answered" ELSE "failed"]
  BY <1>1, <1>3, NewPhase
<1>5. Phase[x] = "pending"
  BY PhaseOf
<1> QED
  BY <1>4, <1>5 DEF Remote!Answer, Remote!Fail, Remote!Becomes

\* doCall starts a call.
LEMMA doCallRefines ==
    ASSUME CallInv, NEW x \in Call, NEW method, doCall(x, method)
    PROVE  Remote!Start(x)
<1>0. calls[x].stage = "idle" /\ Phase[x] = "new" /\ ran' = ran /\ calls[x] \in CallState
  BY PhaseOf DEF doCall, CallInv, CallTypeOK
<1>1. CASE method \in {"GET", "POST"}
  <2> DEFINE k == [calls[x] EXCEPT !.stage = "sent"]
  <2>1. calls' = [calls EXCEPT ![x] = k] /\ calls'[x] = k /\ k.stage = "sent"
    BY <1>0, <1>1, CallParts DEF doCall, CallState
  <2> HIDE DEF k
  <2>2. Phase'[x] = "pending"
    BY <2>1 DEF Phase
  <2> QED
    BY <1>0, <2>1, <2>2, NewPhase DEF Remote!Start, Remote!Becomes
<1>2. CASE method \notin {"GET", "POST"}
  <2> DEFINE k == [calls[x] EXCEPT !.stage = "over", !.here = FALSE, !.loose = 0,
                                   !.outcome = Unsupported]
  <2>1. /\ calls' = [calls EXCEPT ![x] = k] /\ calls'[x] = k
        /\ k.stage = "over" /\ k.outcome = Unsupported
    BY <1>0, <1>2, CallParts DEF doCall, CallsBack, CallState
  <2> HIDE DEF k
  <2>2. Phase'[x] = "failed"
    BY <2>1, ErrorsAreNoStatus DEF Phase
  <2> QED
    BY <1>0, <2>1, <2>2, NewPhase DEF Remote!Start, Remote!Becomes
<1> QED
  BY <1>1, <1>2

\* A run is a run, late or not.
LEMMA RunsRefines ==
    ASSUME CallInv, NEW x \in Call, Runs(x) \/ RunsLate(x)
    PROVE  Remote!Run(x)
<1>1. calls[x] \in CallState /\ Phase[x] # "new" /\ ran[x] < Retries + 1
  <2>1. calls[x].stage \in {"sent", "over"} /\ ran[x] < Retries + 1
    BY CallParts DEF Runs, RunsLate, Accounted, Awaited
  <2> QED
    BY <2>1, PhaseOf DEF CallInv, CallTypeOK
<1>2. Phase' = Phase
  <2>1. CASE Runs(x)
    <3> DEFINE k == [calls[x] EXCEPT !.here = TRUE]
    <3>1. calls' = [calls EXCEPT ![x] = k]
      BY <2>1 DEF Runs
    <3>2. k.stage = calls[x].stage /\ k.outcome = calls[x].outcome
      BY <1>1 DEF CallState
    <3> QED
      BY <3>1, <3>2, SamePhase
  <2>2. CASE RunsLate(x)
    <3> DEFINE k == [calls[x] EXCEPT !.loose = @ - 1]
    <3>1. calls' = [calls EXCEPT ![x] = k]
      BY <2>2 DEF RunsLate
    <3>2. k.stage = calls[x].stage /\ k.outcome = calls[x].outcome
      BY <1>1 DEF CallState
    <3> QED
      BY <3>1, <3>2, SamePhase
  <2> QED
    BY <2>1, <2>2
<1> QED
  BY <1>1, <1>2 DEF Runs, RunsLate, Remote!Run

\* A lost attempt is seen by nobody, unless it was the last: then the call ends.
LEMMA LostRefines ==
    ASSUME CallInv, NEW x \in Call, Lost(x)
    PROVE  Remote!Fail(x) \/ Remote!Answer(x) \/ (Phase' = Phase /\ ran' = ran)
<1>0. calls[x] \in CallState
  BY DEF CallInv, CallTypeOK
<1>1. CASE calls[x].left > 0
  <2> DEFINE k == [calls[x] EXCEPT !.left = @ - 1, !.here = FALSE, !.loose = Loose(x)]
  <2>1. calls' = [calls EXCEPT ![x] = k]
    BY <1>1 DEF Lost
  <2>2. k.stage = calls[x].stage /\ k.outcome = calls[x].outcome
    BY <1>0 DEF CallState
  <2> QED
    BY <2>1, <2>2, SamePhase DEF Lost
<1>2. CASE ~(calls[x].left > 0)
  BY <1>2, CallsBackRefines, ErrorsAreNoStatus DEF Lost
<1> QED
  BY <1>1, <1>2

\* Every step of the caller is one of RemoteCall, or changes nothing of it.
LEMMA CallNextRefines ==
    ASSUME CallInv, [CallNext]_callVars
    PROVE  [Remote!Next]_<<Phase, ran>>
<1>1. ASSUME NEW x \in Call, NEW code \in Code, Responds(x, code)
      PROVE  Remote!Answer(x) \/ Remote!Fail(x)
  <2>1. ran[x] > 0
    BY <1>1, CallParts DEF Responds, Accounted
  <2> QED
    BY <1>1, <2>1, CallsBackRefines DEF Responds
<1>2. ASSUME NEW x \in Call, OddError(x)
      PROVE  Remote!Answer(x) \/ Remote!Fail(x)
  BY <1>2, CallsBackRefines, ErrorsAreNoStatus DEF OddError
<1>3. CASE CallNext
  BY <1>1, <1>2, <1>3, doCallRefines, RunsRefines, LostRefines DEF CallNext, Remote!Next
<1>4. CASE UNCHANGED callVars
  BY <1>4 DEF callVars, Phase
<1> QED
  BY <1>3, <1>4

\* The caller keeps the promise of RemoteCall for any calls and any number of
\* retries.
THEOREM CallsKeepPromise == CallSpec => KeepsRemoteCall
<1>1. CallInit => Remote!Init
  BY DEF CallInit, Remote!Init, Phase, Idle
<1> QED
  BY <1>1, CallAccounted, CallNextRefines, PTL DEF CallSpec, KeepsRemoteCall, Remote!Spec
=============================================================================

--------------------------- MODULE MCServiceInfo ---------------------------
(***************************************************************************)
(* Instances of ServiceInfo for TLC: two domains and two services, each in *)
(* a deployment of its own.                                                *)
(***************************************************************************)
EXTENDS ServiceInfo, TLC

CONSTANTS td, ud,       \* the brokers
          s1, s2,       \* services
          h1, h2,       \* hosts
          d1, d2,       \* deployments
          user, client  \* askers

MCPeer == (td :> ud) @@ (ud :> td)
MCDeploymentOf == [s \in Service |-> IF s = s1 THEN d1 ELSE d2]
Query(what, b) == [what |-> what, by |-> b, id |-> s1]
\* requests of td use s1; clients of both brokers look around
MCQuestions == (user :> {Query("use", td)}) @@
               (client :> {Query("find", ud), Query("list", td), Query("outside", ud)})

Placed(s, b, h) == [id |-> s, at |-> b, host |-> h]
MCPlaces == {Placed(s1, td, h1), Placed(s1, td, h2), Placed(s1, ud, h1)}
MCStart == {{Placed(s1, td, h1)}, {Placed(s1, ud, h1)}}

\* One client looks for s1 and then lists the domain, where s2 is as well.
MCListQuestions == client :> {Query("find", td), Query("domain", td)}
MCListPlaces == {Placed(s, td, h1) : s \in Service}
MCListStart == {MCListPlaces}

\* The client looks for s1 while its deployment, or the orchestrator, is refused.
MCHiddenQuestions == client :> {Query("find", td)}
=============================================================================

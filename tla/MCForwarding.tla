---------------------------- MODULE MCForwarding ----------------------------
(***************************************************************************)
(* Instances of Forwarding for TLC: the trusted domain td, whose clients   *)
(* ask, and the untrusted domain ud it forwards to.                        *)
(***************************************************************************)
EXTENDS Forwarding, TLC

CONSTANTS td, ud,          \* the brokers
          c1, c2, r1, r2, r3,  \* ids: of clients' requests, of forwarded ones
          near, far, gone  \* services: in td, in ud, nowhere

MCPeer == (td :> ud) @@ (ud :> td)
MCHome == [s \in Service |-> IF s = near THEN td ELSE IF s = far THEN ud ELSE Nowhere]

\* Ids are only ever compared.
IdSymmetry == Permutations({c1, c2}) \cup Permutations({r1, r2, r3})

\* Two clients at a time only forward, and without faults: each of the two
\* things that multiply the states is explored without the other.
OneOrFaultless ==
    ClientId \subseteq used =>
        /\ faults = 0
        /\ \A i \in ClientId : Len(answers[i]) <= 1
        /\ \A b \in Broker, i \in ClientId :
               db[b][i] # NoDoc => db[b][i].request.service = far
=============================================================================

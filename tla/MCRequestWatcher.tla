-------------------------- MODULE MCRequestWatcher --------------------------
(* Four blocking requests, polled while they finish in any order. *)
EXTENDS RequestWatcher

CONSTANTS i1, i2, i3, i4

MCId == {i1, i2, i3, i4}
=============================================================================

------------------------------ MODULE MCServer ------------------------------
(***************************************************************************)
(* Instances of Server for TLC: a blocking client, two other HTTP requests *)
(* and a call of another handler.                                          *)
(***************************************************************************)
EXTENDS Server

CONSTANTS c1, c2, c3, other

Asking(op, cert, token, valid) == [op |-> op, cert |-> cert, token |-> token, valid |-> valid]
MCAsks ==
    {Asking("create", TRUE, "none", TRUE), Asking("create_blocker", FALSE, "good", TRUE),
     Asking("getresult", FALSE, "good", TRUE), Asking("getresult", FALSE, "bad", TRUE),
     Asking("callback", TRUE, "none", TRUE), Asking("callback", FALSE, "good", FALSE),
     Asking("create", TRUE, "none", FALSE)}

\* The calls of other handlers are explored while nobody is connected: what
\* they add to a busy server is other calls, which the connections make too.
OthersAlone ==
    (\E x \in Call \ Conn : calls[x].stage # "idle") => \A c \in Conn : At(c, "idle")
=============================================================================

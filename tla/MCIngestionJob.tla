--------------------------- MODULE MCIngestionJob ---------------------------
(* Small instances of the ingestion job.                                   *)
EXTENDS IngestionJob, TLC

CONSTANTS w1, w2, p1, p2, j1, j2, v1, v2, h1, a1

OneProcess == [w \in Workers |-> p1]
TwoProcesses == w1 :> p1 @@ w2 :> p2

Delivery(j, v) == [job |-> j, version |-> v, hash |-> h1, acl |-> a1]

\* The same version delivered under two job ids, or under one.
SameVersion == {Delivery(j1, v1), Delivery(j2, v1)}
SameJob == {Delivery(j1, v1)}
\* Two versions, each with a job of its own.
TwoVersions == {Delivery(j1, v1), Delivery(j2, v2)}

MCStamps == 0 .. 3

\* Where a call may raise: anywhere in the try block, in the steps once the
\* lease is held, or in the exception handler.
Steps == InTry \ {"base", "acquire", "next"}
Handler == InHandler \ {"handler"}
Everywhere == Steps \cup Handler
=============================================================================

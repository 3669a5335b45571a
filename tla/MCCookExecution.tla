--------------------------- MODULE MCCookExecution ---------------------------
(***************************************************************************)
(* CookExecution with a few processes: enough for one cook to crash, one to *)
(* crash while it cleans up after the first, and one to come after both.    *)
(***************************************************************************)
EXTENDS CookExecution

Pids == 1 .. 3

\* The processes are alike: it is enough to start them in this order.
InOrder == \A p, q \in Proc : p < q /\ pc[p] = "idle" => pc[q] = "idle"

\* Once every cook is astray, nothing is claimed of any of them.
SomeKept == astray # Proc
=============================================================================

---------------------------- MODULE MCDagResolver ----------------------------
(***************************************************************************)
(* Inputs for DagResolver: plans of up to four tasks, in one of them with a *)
(* repeated id, whose depends_on is any set of tasks, those that are not in *)
(* the plan among them, or one task twice and another one once.             *)
(***************************************************************************)
EXTENDS DagResolver, SequencesExt

CONSTANTS a, b, c, d

Tasks == {a, b, c, d}
Orders == {<<>>, <<a, b, a>>, <<a, b, c>>, <<a, b, c, d>>}
Repeating == {<<a, a, b>>, <<b, b, c>>, <<c, c, d>>, <<d, d, a>>}
DepLists == {SetToSeq(S) : S \in SUBSET Tasks} \cup Repeating
Trim(f, o) == [t \in Tasks |-> IF \E i \in DOMAIN o : o[i] = t THEN f[t] ELSE <<>>]
SmallPlans ==
    {[order |-> o, deps |-> Trim(f, o)] :
        o \in Orders, f \in [Tasks -> DepLists]}
=============================================================================

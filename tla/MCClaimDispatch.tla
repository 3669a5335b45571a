---------------------------- MODULE MCClaimDispatch ----------------------------
EXTENDS ClaimDispatch, TLC

CONSTANTS t1, t2, t3, l1, l2, upper, lower, other, i1, i2

Lanes == {l1, l2}
Tasks == {t1, t2, t3}
Paths == {upper, lower, other}
Ids == {i1, i2}

\* `Foo.ts` and `foo.ts` are one identifier.
Identifiers == [p \in Paths |-> IF p = other THEN i2 ELSE i1]

\* One lane dispatches twice, next to one that dispatches once.
Batches == (l1 :> <<t1, t2>>) @@ (l2 :> <<t3>>)
=============================================================================

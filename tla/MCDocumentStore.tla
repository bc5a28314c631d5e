--------------------------- MODULE MCDocumentStore --------------------------
(* An instance of DocumentStoreProps for TLC. *)
EXTENDS DocumentStoreProps, Functions

CONSTANTS s1, s2, i1, i2, u1, u2

Total(weight) == [S \in SUBSET Items |-> SumFunctionOnSet(weight, S)]

\* u2 adds one byte more to a Document than its message has: it splits a run.
MCBytes == Total([x \in Items |-> IF x = u1 THEN 1 ELSE 2])
MCPayload == Total([x \in Items |-> IF x \in Inits THEN 2 ELSE 1])

\* Initialized twice and edited, a Document has more HTML than the limit; and
\* with u2 it has so much markup that the response outgrows its bound.
MCProjection == Total([x \in Items |-> IF x = u2 THEN 1 ELSE 2])
MCJson == [S \in SUBSET Items |-> MCProjection[S] + IF u2 \in S THEN 6 ELSE 1]

=============================================================================

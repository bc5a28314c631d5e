--------------------------- MODULE MCDocumentRoom ---------------------------
(* Instances of DocumentRoomProps for TLC. *)
EXTENDS DocumentRoomProps

CONSTANTS r1, r2, s1, s2, d1, d2

\* s1 and d2 are at home on r1, everybody else on r2.
MCHome == [x \in Sessions \cup Deletes |-> IF x \in {s1, d2} THEN r1 ELSE r2]

\* All on one replica.
OneHome == [x \in Sessions \cup Deletes |-> r1]

=============================================================================

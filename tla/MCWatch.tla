------------------------------ MODULE MCWatch ------------------------------
(* One root known from the start and, where a run needs it, a second one   *)
(* that appears later.                                                     *)
EXTENDS Watch, TLC

CONSTANTS r1, r2, s1, s2, s3, q1, q2, w1, w2

MCRootOf == [s \in Skills |-> IF s = s3 THEN r2 ELSE r1]
=============================================================================

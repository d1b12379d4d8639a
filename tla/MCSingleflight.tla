--------------------------- MODULE MCSingleflight ---------------------------
(* Three requests for one URL and one for another.                         *)
EXTENDS Singleflight

CONSTANTS a, b, c, d, k, m

MCRequests == {a, b, c, d}
MCKeys == {k, m}
MCKey == [r \in MCRequests |-> IF r = d THEN m ELSE k]
=============================================================================

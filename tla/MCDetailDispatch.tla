-------------------------- MODULE MCDetailDispatch --------------------------
(* Two list crawls, one of two pages and two workers; they share a detail,  *)
(* and the first lists one of its own twice.                                *)
EXTENDS DetailDispatch

CONSTANTS r1, r2, w1, w2, a, b, c

MCRuns == {r1, r2}
MCWorkers == {w1, w2}
MCUrls == {a, b, c}
MCPages == [r \in MCRuns |-> IF r = r1 THEN << <<a, b>>, <<c, a>> >> ELSE << <<b>> >>]
=============================================================================

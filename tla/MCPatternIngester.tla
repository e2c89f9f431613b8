------------------------- MODULE MCPatternIngester -------------------------
(* Small instances of PatternIngester: two partitions, two records each.  *)
EXTENDS PatternIngester, TLC

CONSTANTS p1, p2

Symmetry == Permutations(Partitions)
============================================================================

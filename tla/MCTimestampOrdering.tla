------------------------ MODULE MCTimestampOrdering ------------------------
(* Instances of TimestampOrdering for TLC. *)
EXTENDS TimestampOrdering, TLC

\* The tuples are interchangeable.
Symmetry == Permutations(Keys)
=============================================================================

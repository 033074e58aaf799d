---------------------------- MODULE MCJobGroups ----------------------------
(* JobGroups for TLC: postings, jobs and consumers are interchangeable. *)
EXTENDS JobGroups, TLC

Symmetry == Permutations(Postings) \cup Permutations(Jobs) \cup Permutations(Consumers)
=============================================================================

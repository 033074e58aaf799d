---------------------------- MODULE MCEngagement ----------------------------
(* Engagement with what TLC needs to check it: neither requests nor postings  *)
(* are told apart.                                                           *)
EXTENDS Engagement, TLC

Alike == Permutations(Requests) \cup Permutations(Postings)
=============================================================================

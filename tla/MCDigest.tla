------------------------------ MODULE MCDigest ------------------------------
(* Digest with a posting that has two match rows, and one that has one.      *)
EXTENDS Digest

CONSTANTS a, b

TwoOfOne == <<b, a, a>>
=============================================================================

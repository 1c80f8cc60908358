------------------------------- MODULE MCRist -------------------------------
(***************************************************************************)
(* The TLC instance of Rist: variables of one type are interchangeable.    *)
(***************************************************************************)
EXTENDS Rist, TLC

CONSTANTS v1, v2, s1, s2

MCValues   == {v1, v2}
MCSessions == {s1, s2}
Symmetry   == Permutations(MCValues) \cup Permutations(MCSessions)
============================================================================

------------------------------ MODULE MCShares ------------------------------
(* Users, enrolments and shares are interchangeable: the properties checked *)
(* are invariants and action properties and name none of them.              *)
EXTENDS Shares, TLC

Symmetry == Permutations(Users) \cup Permutations(Enrolments) \cup Permutations(ShareIds)
=============================================================================

------------------------- MODULE MCPayrunLifecycle -------------------------
(***************************************************************************)
(* An instance of PayrunLifecycle with interchangeable sessions, users and *)
(* employees.                                                              *)
(***************************************************************************)
EXTENDS PayrunLifecycle, TLC

mcSymmetry == Permutations(Sessions) \cup Permutations(Users) \cup Permutations(Employees)

=============================================================================

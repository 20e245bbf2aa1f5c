------------------------------ MODULE MCLeaveTx ------------------------------
(***************************************************************************)
(* An instance of LeaveTx in which the interesting cases happen: r1 and r2 *)
(* are one submission sent twice with the same key, r3 is a half day that  *)
(* competes with r1 for the same account, r4 belongs to an employee whose  *)
(* type allows a negative balance, r5 overlaps r3.  Day 3 is a weekly off. *)
(***************************************************************************)
EXTENDS LeaveTx, TLC

CONSTANTS a1, a2, e1, e2, k1

mcSymmetry == Permutations(Tx)
mcDays == 1..4
mcOff == {3}
mcAcct == [r \in Requests |-> IF r = "r4" THEN a2 ELSE a1]
mcEmp == [r \in Requests |-> IF r = "r4" THEN e2 ELSE e1]
mcDaysOf == [r \in Requests |->
               CASE r \in {"r1", "r2"} -> 2..4
                 [] r \in {"r3", "r5"} -> {1}
                 [] r = "r4" -> 1..2]
mcKey == [r \in Requests |-> IF r \in {"r1", "r2"} THEN k1 ELSE NoKey]

=============================================================================

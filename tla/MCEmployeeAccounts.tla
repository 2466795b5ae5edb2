------------------------- MODULE MCEmployeeAccounts -------------------------
(* Small instances of EmployeeAccounts for TLC: of two employees the first *)
(* is linked, or none is.                                                  *)
EXTENDS EmployeeAccounts, TLC

MCFirstLinks == {[e \in Employee |-> IF e = "e1" THEN u ELSE Nobody] : u \in User \cup {Nobody}}
Alike == Permutations(Proc) \cup Permutations(User) \cup Permutations(Branch)
=============================================================================

--------------------------- MODULE MCPayrollRuns ---------------------------
(* Small instances of PayrollRuns for TLC.                                 *)
EXTENDS PayrollRuns

\* One advance, of e1; employees of one branch, or of two.
MCOneEmp == [a \in {"a1"} |-> "e1"]
MCOneBranch == [e \in {"e1"} |-> "b1"]
MCTwoBranch == [e \in {"e1", "e2"} |-> IF e = "e1" THEN "b1" ELSE "b2"]

Cash(count) == [mode |-> "CASH_ALREADY", start |-> NoPeriod, count |-> count]
Salary(start, count) == [mode |-> "WITH_SALARY", start |-> start, count |-> count]

\* Both payout modes, with and without a first period.
MCTerms == {Cash(2), Salary(NoPeriod, 2), Salary(1, 1)}
MCCashTerms == {Cash(1)}

WholeOrg == {Branch}
EachBranch == {{b} : b \in Branch}
AnyScope == WholeOrg \cup EachBranch
=============================================================================

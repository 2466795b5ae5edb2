-------------------------- MODULE MCPayrollPeriods --------------------------
(* Small instances of PayrollPeriods for TLC: January to March of a common *)
(* year, of which February is generated.                                   *)
EXTENDS PayrollPeriods, TLC

MCFirst == 1 :> 1 @@ 2 :> 32 @@ 3 :> 60
MCLast == 1 :> 31 @@ 2 :> 59 @@ 3 :> 90
MCRules == {OnDay(30), OnDay(16), DaysAfterEnd(3)}
MCHandMade == {<<48, 59>>}
MCTracked == {<<48, 59>>}
=============================================================================

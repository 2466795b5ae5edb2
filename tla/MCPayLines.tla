----------------------------- MODULE MCPayLines -----------------------------
(* A small instance of PayLines for TLC: periods of two days and of one,   *)
(* a monthly wage just below a tax bracket and a daily one.                *)
EXTENDS PayLines, TLC

Monthly == [type |-> "MONTHLY", amount |-> Baht(54500)]
Daily == [type |-> "DAILY", amount |-> Baht(500)]
MCWages == {Monthly, Daily}
MCFirstWages == {<< >>, <<NewWage(Monthly, 1, Forever)>>}

MCFirstOf == [per \in Period |-> IF per = "P1" THEN 1 ELSE 3]
MCLastOf == [per \in Period |-> IF per = "P1" THEN 2 ELSE 3]
MCEnds == {2, Forever}
MCBound == [k \in Kind |-> IF k = "other" THEN 1 ELSE 2]

Pays(perMinute, perDay, late) == [late |-> late, perMinute |-> perMinute, absence |-> TRUE, perDay |-> perDay]
MCFirstPay == Pays(0, 0, TRUE)
MCPayStatements == {Pays(Baht(2), Baht(300), TRUE)}
MCTaxSettings ==
    {[tax |-> [on |-> TRUE, method |-> "PROGRESSIVE", rate |-> 0, allowance |-> 0, expenses |-> TRUE],
      sso |-> [on |-> TRUE, rate |-> 5, cap |-> Baht(875), min |-> Baht(1650), max |-> Baht(17500)]]}
MCAttendances == {[late |-> 7, absent |-> FALSE], [late |-> 0, absent |-> TRUE]}
MCAdvances == {[payout |-> Baht(5000), collected |-> 0], [payout |-> 0, collected |-> Baht(1500)]}
Alike == Permutations(Proc)
=============================================================================

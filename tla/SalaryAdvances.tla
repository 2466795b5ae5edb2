--------------------------- MODULE SalaryAdvances ---------------------------
(***************************************************************************)
(* The tables hr.salary_advances and hr.salary_advance_installments, and   *)
(* the SQL statements that src/lib/hr/services/salary-advances.ts issues   *)
(* against them.  Every operator here is ONE statement: it maps the tables *)
(* before it to the tables (or the rows) after it.  PayrollRuns strings    *)
(* the statements together into requests, with other requests in between.  *)
(*                                                                         *)
(* Money is abstracted to installments: an installment is a unit that is   *)
(* collected at most once.  How an amount is split over installments is    *)
(* not modelled.                                                           *)
(***************************************************************************)
EXTENDS Naturals, FiniteSets

CONSTANTS
    Employee,     \* employees of one organization
    Advance,      \* salary advance rows, submitted or not yet
    AdvEmp,       \* [Advance -> Employee]: whose advance it is
    NPeriod,      \* payroll periods, numbered in the order of period_start
    MaxRunNo,     \* bound: runs that can be created for one period
    MaxSeq        \* bound: installments of one advance (the code allows 24)

ASSUME AdvEmpAssumption == AdvEmp \in [Advance -> Employee]
ASSUME BoundAssumption == NPeriod \in Nat /\ MaxRunNo \in Nat /\ MaxSeq \in Nat \ {0}

NoPeriod == 0
NoRun == <<0, 0>>
Period == 1 .. NPeriod
\* A run is identified by its UNIQUE key (payroll_period_id, run_number).
Run == Period \X (1 .. MaxRunNo)
PeriodOf(r) == r[1]

Seq1 == 1 .. MaxSeq
\* An installment row, by its UNIQUE key (salary_advance_id, sequence).
Inst == Advance \X Seq1
OwnerOf(i) == AdvEmp[i[1]]

Mode == {"WITH_SALARY", "CASH_ALREADY"}
AdvStatus == {"NONE", "SUBMITTED", "APPROVED", "REJECTED", "CANCELLED",
              "PARTIALLY_DEDUCTED", "DEDUCTED"}
InstStatus == {"NONE", "PENDING", "DEDUCTED", "CANCELLED"}

\* What the requester or the reviewer fixes: payout mode, first period of the
\* repayment (NULL: any), number of installments.
TermsType == [mode : Mode, start : Period \cup {NoPeriod}, count : Seq1]

AdvRow == [status : AdvStatus, mode : Mode, start : Period \cup {NoPeriod},
           count : Seq1, credited : Run \cup {NoRun}, deducted : Run \cup {NoRun}]
InstRow == [status : InstStatus, period : Period \cup {NoPeriod},
            run : Run \cup {NoRun}]

NoInst == [status |-> "NONE", period |-> NoPeriod, run |-> NoRun]
FreshInst == [status |-> "PENDING", period |-> NoPeriod, run |-> NoRun]

-----------------------------------------------------------------------------
(* Questions the statements ask of the tables.                             *)

Open(status) == status \in {"APPROVED", "PARTIALLY_DEDUCTED"}
Some(inst, a, status) == \E s \in Seq1 : inst[<<a, s>>].status = status
HasInstallments(inst, a) == \E s \in Seq1 : inst[<<a, s>>].status # "NONE"

\* Mutant: a payout of the same period counts.
PaidOutBefore_SamePeriod(row, p) ==
    row.credited # NoRun /\ PeriodOf(row.credited) <= p

\* WITH_SALARY money is repaid only after a run of an earlier period paid it out.
PaidOutBefore(row, p) ==
    row.credited # NoRun /\ PeriodOf(row.credited) < p

MayDeduct(row, p) == row.mode # "WITH_SALARY" \/ PaidOutBefore(row, p)

-----------------------------------------------------------------------------
(* submitSalaryAdvance, reviewSalaryAdvance, cancelSalaryAdvance.          *)

InsertAdvance(adv, a, t, status) ==
    [adv EXCEPT ![a] = [status |-> status, mode |-> t.mode, start |-> t.start,
                        count |-> t.count, credited |-> NoRun, deducted |-> NoRun]]

\* No status in the WHERE clause: whatever the row says by now is overwritten.
ApproveAdvance(adv, a, t) ==
    [adv EXCEPT ![a] = [@ EXCEPT !.status = "APPROVED", !.mode = t.mode,
                                 !.start = t.start, !.count = t.count]]

SetAdvanceStatus(adv, a, status) == [adv EXCEPT ![a].status = status]

DeleteInstallments(inst, a) ==
    [i \in Inst |-> IF i[1] = a THEN NoInst ELSE inst[i]]

InsertInstallment(inst, a, s) == [inst EXCEPT ![<<a, s>>] = FreshInst]

CancelPending(inst, a) ==
    [i \in Inst |-> IF i[1] = a /\ inst[i].status = "PENDING"
                    THEN [inst[i] EXCEPT !.status = "CANCELLED"] ELSE inst[i]]

-----------------------------------------------------------------------------
(* reopenAdvanceEffectsForRun: five statements before a recalculation.     *)

AffectedBy(adv, inst, r, emps) ==
    {a \in Advance : /\ AdvEmp[a] \in emps
                     /\ \/ adv[a].credited = r
                        \/ adv[a].deducted = r
                        \/ \E s \in Seq1 : inst[<<a, s>>].run = r}

\* Mutants: the statement is forgotten.
ReopenCredits_Forgotten(adv, r) == adv

\* Filtered by the run alone, not by the employees being recalculated.
ReopenInstallments(inst, r) ==
    [i \in Inst |-> IF inst[i].run = r /\ inst[i].status = "DEDUCTED"
                    THEN FreshInst ELSE inst[i]]

ReopenCredits(adv, r) ==
    [a \in Advance |-> IF adv[a].credited = r
                       THEN [adv[a] EXCEPT !.credited = NoRun] ELSE adv[a]]

ReopenDeducted(adv, r, emps) ==
    [a \in Advance |-> IF adv[a].deducted = r /\ AdvEmp[a] \in emps
                       THEN [adv[a] EXCEPT !.deducted = NoRun] ELSE adv[a]]

\* Mutants: PENDING decides alone; the last branch revives whatever is left.
ReopenedStatus_PendingFirst(row, inst, a) ==
    IF Some(inst, a, "PENDING") THEN "APPROVED"
    ELSE IF Some(inst, a, "DEDUCTED") THEN "DEDUCTED" ELSE row.status
ReopenedStatus_Revives(row, inst, a) ==
    IF Some(inst, a, "PENDING")
    THEN IF Some(inst, a, "DEDUCTED") THEN "PARTIALLY_DEDUCTED" ELSE "APPROVED"
    ELSE IF Some(inst, a, "DEDUCTED") THEN "DEDUCTED" ELSE "APPROVED"

ReopenedStatus(row, inst, a) ==
    IF Some(inst, a, "PENDING")
    THEN IF Some(inst, a, "DEDUCTED") THEN "PARTIALLY_DEDUCTED" ELSE "APPROVED"
    ELSE IF Some(inst, a, "DEDUCTED") THEN "DEDUCTED"
    ELSE IF row.status \in {"DEDUCTED", "PARTIALLY_DEDUCTED"} THEN "APPROVED"
    ELSE row.status

ReopenStatuses(adv, inst, affected) ==
    [a \in Advance |-> IF a \in affected
                       THEN [adv[a] EXCEPT !.status = ReopenedStatus(adv[a], inst, a)]
                       ELSE adv[a]]

-----------------------------------------------------------------------------
(* loadAdvanceEffectsForPeriod and loadLegacyApprovedAdvancesByEmployee.   *)

UnbindIneligible(adv, inst, p, emps) ==
    [i \in Inst |-> IF /\ inst[i].period = p
                       /\ inst[i].status = "PENDING"
                       /\ OwnerOf(i) \in emps
                       /\ ~ MayDeduct(adv[i[1]], p)
                    THEN [inst[i] EXCEPT !.period = NoPeriod] ELSE inst[i]]

Eligible(row, p) ==
    /\ Open(row.status)
    /\ row.start = NoPeriod \/ row.start <= p
    /\ MayDeduct(row, p)

\* Mutant: an installment bound by another run is taken over.
NextUnbound_Steals(inst, i) ==
    /\ inst[i].status = "PENDING"
    /\ \A s \in Seq1 : s < i[2] => inst[<<i[1], s>>].status # "PENDING"

\* Mutant: every unbound pending installment.
NextUnbound_Every(inst, i) ==
    inst[i].status = "PENDING" /\ inst[i].period = NoPeriod

\* The unbound pending installment of the smallest sequence of its advance.
NextUnbound(inst, i) ==
    /\ inst[i].status = "PENDING" /\ inst[i].period = NoPeriod
    /\ \A s \in Seq1 : s < i[2] =>
         ~ (inst[<<i[1], s>>].status = "PENDING" /\ inst[<<i[1], s>>].period = NoPeriod)

BindNext(adv, inst, p, emps) ==
    [i \in Inst |-> IF /\ OwnerOf(i) \in emps
                       /\ Eligible(adv[i[1]], p)
                       /\ NextUnbound(inst, i)
                    THEN [inst[i] EXCEPT !.period = p] ELSE inst[i]]

DeductionsOf(adv, inst, p, emps) ==
    {i \in Inst : /\ inst[i].period = p
                  /\ inst[i].status = "PENDING"
                  /\ OwnerOf(i) \in emps
                  /\ Open(adv[i[1]].status)
                  /\ MayDeduct(adv[i[1]], p)}

CreditsOf(adv, p, emps) ==
    {a \in Advance : /\ adv[a].mode = "WITH_SALARY"
                     /\ adv[a].credited = NoRun
                     /\ Open(adv[a].status)
                     /\ AdvEmp[a] \in emps
                     /\ adv[a].start \in {p, NoPeriod}}

\* Mutant: no hard guard.
ConflictsOf_None(ded, cred) == {}

\* The hard guard: never deduct an advance credited in the same load.
ConflictsOf(ded, cred) == {i \in ded : i[1] \in cred}

UnbindPending(inst, ids) ==
    [i \in Inst |-> IF i \in ids /\ inst[i].status = "PENDING"
                    THEN [inst[i] EXCEPT !.period = NoPeriod] ELSE inst[i]]

LegacyOf(adv, inst, emps) ==
    {a \in Advance : /\ adv[a].status = "APPROVED"
                     /\ AdvEmp[a] \in emps
                     /\ ~ HasInstallments(inst, a)}

-----------------------------------------------------------------------------
(* markAdvanceEffectsApplied: four statements after the run is written.    *)

MarkInstallments(inst, ids, r) ==
    [i \in Inst |-> IF i \in ids /\ inst[i].status = "PENDING"
                    THEN [inst[i] EXCEPT !.status = "DEDUCTED", !.run = r]
                    ELSE inst[i]]

\* No status in the WHERE clause here either.
MarkStatuses(adv, inst, ids, r) ==
    [a \in Advance |->
        IF ~ \E i \in ids : i[1] = a THEN adv[a]
        ELSE IF Some(inst, a, "PENDING")
        THEN [adv[a] EXCEPT !.status = "PARTIALLY_DEDUCTED"]
        ELSE [adv[a] EXCEPT !.status = "DEDUCTED", !.deducted = r]]

MarkCredits(adv, cred, r) ==
    [a \in Advance |-> IF a \in cred /\ adv[a].credited = NoRun
                       THEN [adv[a] EXCEPT !.credited = r] ELSE adv[a]]

MarkLegacy(adv, leg, r) ==
    [a \in Advance |-> IF a \in leg /\ adv[a].status = "APPROVED"
                       THEN [adv[a] EXCEPT !.status = "DEDUCTED", !.deducted = r]
                       ELSE adv[a]]
=============================================================================

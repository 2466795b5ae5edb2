---------------------------- MODULE PayrollRuns ----------------------------
(***************************************************************************)
(* Payroll runs and the salary advances they pay out and collect:          *)
(* createPayrollRun, payrollAction and issuePayslips of operations.ts, and *)
(* submitSalaryAdvance, reviewSalaryAdvance and cancelSalaryAdvance.       *)
(*                                                                         *)
(* A request is one HTTP call handled by a process p: it runs statement    *)
(* after statement, each committed on its own (no transaction spans them,  *)
(* except where the code opens one), so other requests interleave between  *)
(* any two of them, and a failure abandons the request where it stands.    *)
(* req[p] is the request's program counter and the local variables it has  *)
(* captured.                                                               *)
(***************************************************************************)
EXTENDS SalaryAdvances

CONSTANTS
    Branch, EmpBranch,   \* [Employee -> Branch]
    Compensated,         \* employees with a current compensation
    Deactivatable,       \* employees that may be deactivated and reactivated
    Proc,                \* requests that can be in flight at the same time
    Ops,                 \* the requests this instance makes
    Scopes,              \* branch filters a request may come with
    Terms,               \* terms an advance may be given
    Preapproved,         \* advances approved before the model starts
    Failures,            \* may a request be abandoned midway?
    ExclusiveRuns        \* is a run calculated by one request at a time?

OpNames == {"submit", "review", "cancel", "createRun", "calculate", "action",
            "issue", "activate"}

ASSUME EmployeeAssumption ==
    /\ EmpBranch \in [Employee -> Branch]
    /\ Compensated \subseteq Employee
    /\ Deactivatable \subseteq Employee
    /\ Scopes \subseteq SUBSET Branch
ASSUME RequestAssumption ==
    /\ Ops \subseteq OpNames
    /\ Terms \subseteq TermsType
    /\ Preapproved \subseteq Advance
    /\ Failures \in BOOLEAN /\ ExclusiveRuns \in BOOLEAN

VARIABLES
    adv,      \* salary_advances
    inst,     \* salary_advance_installments
    run,      \* payroll_runs: the status of each, "NONE" before it is created
    line,     \* payroll_run_employees: the advance items of each pay line
    slip,     \* payslips: the snapshot frozen when the slip was issued
    active,   \* employees.is_active
    req,      \* the requests in flight
    torn,     \* history: runs whose latest calculation has not reached its end
    wasPaid   \* history: runs that have been PAID or LOCKED

tables == <<adv, inst, run, line, slip, active>>
vars == <<adv, inst, run, line, slip, active, req, torn, wasPaid>>

RunStatus == {"DRAFT", "REVIEW", "APPROVED", "PAID", "LOCKED"}

\* A pay line (or slip): the installments it deducts, the advances without
\* installments it deducts whole, the advances it pays out.
LineType == [on : BOOLEAN, ded : SUBSET Inst, leg : SUBSET Advance,
             cred : SUBSET Advance]
NoLine == [on |-> FALSE, ded |-> {}, leg |-> {}, cred |-> {}]
NoLines == [e \in Employee |-> NoLine]

CalcPcs == {"reopenRead", "reopenInst", "reopenCredit", "reopenDeduct",
            "reopenStatus", "unbind", "bind", "readDed", "readCred", "drop",
            "commit", "markInst", "markStatus", "markCred", "markLegacy",
            "finish"}
OtherPcs == {"reviewWrite", "reviewDelete", "insert", "cancelWrite",
             "cancelInst", "createRun", "issueWrite"}

Idle == [pc |-> "idle", run |-> NoRun, scope |-> {}, emps |-> {},
         affected |-> {}, ded |-> {}, ids |-> {}, cred |-> {},
         leg |-> {}, legRead |-> FALSE,
         adv |-> {}, terms |-> {}, next |-> 0, rows |-> NoLines, gone |-> FALSE]

ReqType ==
    [pc : {"idle"} \cup CalcPcs \cup OtherPcs, run : Run \cup {NoRun},
     scope : SUBSET Branch, emps : SUBSET Employee, affected : SUBSET Advance,
     ded : SUBSET Inst,        \* deductions loaded
     ids : SUBSET Inst,        \* those of them whose row still exists
     cred : SUBSET Advance, leg : SUBSET Advance, legRead : BOOLEAN,
     adv : SUBSET Advance,     \* the one advance a review or cancel is about
     terms : SUBSET TermsType, \* the terms being approved; {}: a rejection
     next : 0 .. MaxSeq,
     rows : [Employee -> LineType],   \* the pay lines an issue has read
     gone : BOOLEAN]           \* a pay line this request read was deleted

TypeOK ==
    /\ adv \in [Advance -> AdvRow]
    /\ inst \in [Inst -> InstRow]
    /\ run \in [Run -> RunStatus \cup {"NONE"}]
    /\ line \in [Run -> [Employee -> LineType]]
    /\ slip \in [Run -> [Employee -> LineType]]
    /\ active \in SUBSET Employee
    /\ req \in [Proc -> ReqType]
    /\ torn \in SUBSET Run /\ wasPaid \in SUBSET Run

InScope(scope) == {e \in Employee : EmpBranch[e] \in scope}
Calculating(p, r) == req[p].pc \in CalcPcs /\ req[p].run = r

-----------------------------------------------------------------------------
NewAdvance == [status |-> "NONE", mode |-> "CASH_ALREADY", start |-> NoPeriod,
               count |-> 1, credited |-> NoRun, deducted |-> NoRun]

Init ==
    /\ \E t \in [Preapproved -> Terms] :
         /\ adv = [a \in Advance |->
              IF a \in Preapproved
              THEN [status |-> "APPROVED", mode |-> t[a].mode, start |-> t[a].start,
                    count |-> t[a].count, credited |-> NoRun, deducted |-> NoRun]
              ELSE NewAdvance]
         /\ inst = [i \in Inst |-> IF i[1] \in Preapproved /\ i[2] <= t[i[1]].count
                                   THEN FreshInst ELSE NoInst]
    /\ run = [r \in Run |-> "NONE"]
    /\ line = [r \in Run |-> NoLines]
    /\ slip = [r \in Run |-> NoLines]
    /\ active = Employee
    /\ req = [p \in Proc |-> Idle]
    /\ torn = {} /\ wasPaid = {}

-----------------------------------------------------------------------------
(* Control of a request.                                                   *)

Update(p, row) == req' = [req EXCEPT ![p] = row]
Begin(p, op, row) == op \in Ops /\ req[p] = Idle /\ Update(p, row)
At(p, pc) == req[p].pc = pc
Goto(p, pc) == Update(p, [req[p] EXCEPT !.pc = pc])
Return(p) == Update(p, Idle)

\* Rows a statement deletes are gone for every other request that read them.
ForgetInstallments(a) ==
    [q \in Proc |-> [req[q] EXCEPT !.ids = {i \in @ : i[1] # a}]]
\* Mutant: a slip is keyed by run and employee, so replacing a line goes unnoticed.
ForgetLines_ByEmployee(p, r, es) == req

ForgetLines(p, r, es) ==
    [q \in Proc |-> IF q # p /\ At(q, "issueWrite") /\ req[q].run = r
                       /\ \E e \in es : req[q].rows[e].on
                    THEN [req[q] EXCEPT !.gone = TRUE] ELSE req[q]]

-----------------------------------------------------------------------------
(* submitSalaryAdvance.                                                    *)

\* A self-service request is SUBMITTED; an administrator's may be approved at once.
SubmitAdvance(p, a, t) ==
    /\ adv[a].status = "NONE"
    /\ \/ /\ "submit" \in Ops /\ req[p] = Idle
          /\ adv' = InsertAdvance(adv, a, t, "SUBMITTED")
          /\ UNCHANGED req
       \/ /\ Begin(p, "submit", [Idle EXCEPT !.pc = "insert", !.adv = {a},
                                             !.terms = {t}, !.next = 1])
          /\ adv' = InsertAdvance(adv, a, t, "APPROVED")
    /\ UNCHANGED <<inst, run, line, slip, active, torn, wasPaid>>

MoreInstallments_OffByOne(t, s) == s <= t.count   \* mutant
MoreInstallments(t, s) == s < t.count

\* insertInstallments: one INSERT per installment; the UNIQUE key on
\* (advance, sequence) fails the request if somebody else inserted the row.
InsertNext(p) ==
    /\ At(p, "insert")
    /\ \E a \in req[p].adv, t \in req[p].terms :
         LET s == req[p].next IN
         IF inst[<<a, s>>].status # "NONE"
         THEN Return(p) /\ UNCHANGED inst
         ELSE /\ inst' = InsertInstallment(inst, a, s)
              /\ IF MoreInstallments(t, s)
                 THEN Update(p, [req[p] EXCEPT !.next = s + 1])
                 ELSE Return(p)
    /\ UNCHANGED <<adv, run, line, slip, active, torn, wasPaid>>

-----------------------------------------------------------------------------
(* reviewSalaryAdvance: the status is read first and never looked at again. *)

ReviewRead(p, a, ts) ==
    /\ adv[a].status = "SUBMITTED"
    /\ Begin(p, "review", [Idle EXCEPT !.pc = "reviewWrite", !.adv = {a}, !.terms = ts])
    /\ UNCHANGED <<tables, torn, wasPaid>>

ReviewReject(p) ==
    /\ At(p, "reviewWrite") /\ req[p].terms = {}
    /\ \E a \in req[p].adv : adv' = SetAdvanceStatus(adv, a, "REJECTED")
    /\ Return(p)
    /\ UNCHANGED <<inst, run, line, slip, active, torn, wasPaid>>

ReviewApprove(p) ==
    /\ At(p, "reviewWrite")
    /\ \E a \in req[p].adv, t \in req[p].terms : adv' = ApproveAdvance(adv, a, t)
    /\ Goto(p, "reviewDelete")
    /\ UNCHANGED <<inst, run, line, slip, active, torn, wasPaid>>

ReviewDelete(p) ==
    /\ At(p, "reviewDelete")
    /\ \E a \in req[p].adv :
         /\ inst' = DeleteInstallments(inst, a)
         /\ req' = [ForgetInstallments(a) EXCEPT ![p] =
                      [@ EXCEPT !.pc = "insert", !.next = 1]]
    /\ UNCHANGED <<adv, run, line, slip, active, torn, wasPaid>>

-----------------------------------------------------------------------------
(* cancelSalaryAdvance: a manager's check lets every status through but     *)
(* the two that say deduction has begun; CANCELLED returns at once.         *)

CancelRead(p, a) ==
    /\ adv[a].status \in {"SUBMITTED", "APPROVED", "REJECTED"}
    /\ Begin(p, "cancel", [Idle EXCEPT !.pc = "cancelWrite", !.adv = {a}])
    /\ UNCHANGED <<tables, torn, wasPaid>>

CancelWrite(p) ==
    /\ At(p, "cancelWrite")
    /\ \E a \in req[p].adv : adv' = SetAdvanceStatus(adv, a, "CANCELLED")
    /\ Goto(p, "cancelInst")
    /\ UNCHANGED <<inst, run, line, slip, active, torn, wasPaid>>

CancelInstallments(p) ==
    /\ At(p, "cancelInst")
    /\ \E a \in req[p].adv : inst' = CancelPending(inst, a)
    /\ Return(p)
    /\ UNCHANGED <<adv, run, line, slip, active, torn, wasPaid>>

-----------------------------------------------------------------------------
(* createPayrollRun: run_number is the count of the period's runs plus one. *)

RunsOf(pd) == Cardinality({n \in 1 .. MaxRunNo : run[<<pd, n>>] # "NONE"})

CreateRunCount(p, pd) ==
    /\ RunsOf(pd) < MaxRunNo
    /\ Begin(p, "createRun", [Idle EXCEPT !.pc = "createRun",
                                          !.run = <<pd, RunsOf(pd) + 1>>])
    /\ UNCHANGED <<tables, torn, wasPaid>>

\* The UNIQUE key on (period, run_number) rejects the slower of two requests.
CreateRunInsert(p) ==
    /\ At(p, "createRun")
    /\ run' = IF run[req[p].run] = "NONE"
              THEN [run EXCEPT ![req[p].run] = "DRAFT"] ELSE run
    /\ Return(p)
    /\ UNCHANGED <<adv, inst, line, slip, active, torn, wasPaid>>

-----------------------------------------------------------------------------
(* payrollAction(run, "calculate").                                        *)

\* Mutant: a run that never reached REVIEW is believed to have nothing to reopen.
FirstPc_SkipsDraft(r, emps) ==
    IF emps = {} THEN "commit" ELSE IF run[r] = "DRAFT" THEN "unbind" ELSE "reopenRead"

\* With no employee to calculate both the reopening and the loading are skipped.
FirstPc(r, emps) == IF emps = {} THEN "commit" ELSE "reopenRead"

\* assertPayrollRecalculable, and the active employees of the branch filter.
CalcStart(p, r, scope) ==
    LET emps == InScope(scope) \cap active IN
    /\ run[r] \in RunStatus \ {"PAID", "LOCKED"}
    /\ ExclusiveRuns => \A q \in Proc : ~ Calculating(q, r)
    /\ Begin(p, "calculate",
             [Idle EXCEPT !.pc = FirstPc(r, emps),
                          !.run = r, !.scope = scope, !.emps = emps,
                          !.legRead = emps = {}])
    /\ torn' = torn \cup {r}
    /\ UNCHANGED <<tables, wasPaid>>

ReopenRead(p) ==
    /\ At(p, "reopenRead")
    /\ LET affected == AffectedBy(adv, inst, req[p].run, req[p].emps)
       IN Update(p, [req[p] EXCEPT !.pc = "reopenInst", !.affected = affected])
    /\ UNCHANGED <<tables, torn, wasPaid>>

ReopenInst(p) ==
    /\ At(p, "reopenInst")
    /\ inst' = ReopenInstallments(inst, req[p].run)
    /\ Goto(p, "reopenCredit")
    /\ UNCHANGED <<adv, run, line, slip, active, torn, wasPaid>>

ReopenCredit(p) ==
    /\ At(p, "reopenCredit")
    /\ adv' = ReopenCredits(adv, req[p].run)
    /\ Goto(p, "reopenDeduct")
    /\ UNCHANGED <<inst, run, line, slip, active, torn, wasPaid>>

ReopenDeduct(p) ==
    /\ At(p, "reopenDeduct")
    /\ adv' = ReopenDeducted(adv, req[p].run, req[p].emps)
    /\ Goto(p, IF req[p].affected = {} THEN "unbind" ELSE "reopenStatus")
    /\ UNCHANGED <<inst, run, line, slip, active, torn, wasPaid>>

ReopenStatus(p) ==
    /\ At(p, "reopenStatus")
    /\ adv' = ReopenStatuses(adv, inst, req[p].affected)
    /\ Update(p, [req[p] EXCEPT !.pc = "unbind", !.affected = {}])
    /\ UNCHANGED <<inst, run, line, slip, active, torn, wasPaid>>

Unbind(p) ==
    /\ At(p, "unbind")
    /\ inst' = UnbindIneligible(adv, inst, PeriodOf(req[p].run), req[p].emps)
    /\ Goto(p, "bind")
    /\ UNCHANGED <<adv, run, line, slip, active, torn, wasPaid>>

Bind(p) ==
    /\ At(p, "bind")
    /\ inst' = BindNext(adv, inst, PeriodOf(req[p].run), req[p].emps)
    /\ Goto(p, "readDed")
    /\ UNCHANGED <<adv, run, line, slip, active, torn, wasPaid>>

ReadDeductions(p) ==
    /\ At(p, "readDed")
    /\ LET ded == DeductionsOf(adv, inst, PeriodOf(req[p].run), req[p].emps)
       IN Update(p, [req[p] EXCEPT !.pc = "readCred", !.ded = ded, !.ids = ded])
    /\ UNCHANGED <<tables, torn, wasPaid>>

\* Reads the payouts and drops the deductions that the hard guard refuses.
ReadCredits(p) ==
    /\ At(p, "readCred")
    /\ LET cred == CreditsOf(adv, PeriodOf(req[p].run), req[p].emps)
           both == ConflictsOf(req[p].ded, cred)
       IN Update(p, [req[p] EXCEPT !.pc = IF both = {} THEN "commit" ELSE "drop",
                                   !.cred = cred])
    /\ UNCHANGED <<tables, torn, wasPaid>>

DropConflicts(p) ==
    /\ At(p, "drop")
    /\ LET both == ConflictsOf(req[p].ded, req[p].cred)
       IN /\ inst' = UnbindPending(inst, both \cap req[p].ids)
          /\ Update(p, [req[p] EXCEPT !.pc = "commit", !.ded = req[p].ded \ both,
                                       !.ids = req[p].ids \ both])
    /\ UNCHANGED <<adv, run, line, slip, active, torn, wasPaid>>

\* Runs in parallel with the loading (Promise.all).
ReadLegacy(p) ==
    /\ req[p].pc \in {"unbind", "bind", "readDed", "readCred", "drop", "commit"}
    /\ ~ req[p].legRead
    /\ LET leg == LegacyOf(adv, inst, req[p].emps)
       IN Update(p, [req[p] EXCEPT !.legRead = TRUE, !.leg = leg])
    /\ UNCHANGED <<tables, torn, wasPaid>>

\* The transaction: the lines of the branch filter are deleted, their slips with
\* them, and one line is created per employee with a compensation.
NewLine(p, e) ==
    [on |-> TRUE, ded |-> {i \in req[p].ded : OwnerOf(i) = e},
     leg |-> {a \in req[p].leg : AdvEmp[a] = e},
     cred |-> {a \in req[p].cred : AdvEmp[a] = e}]

Commit(p) ==
    LET r == req[p].run
        paid == req[p].emps \cap Compensated
        wiped == InScope(req[p].scope)
    IN
    /\ At(p, "commit") /\ req[p].legRead
    /\ line' = [line EXCEPT ![r] = [e \in Employee |->
                  IF e \in paid THEN NewLine(p, e)
                  ELSE IF e \in wiped THEN NoLine ELSE line[r][e]]]
    /\ slip' = [slip EXCEPT ![r] = [e \in Employee |->
                  IF e \in wiped THEN NoLine ELSE slip[r][e]]]
    /\ req' = [ForgetLines(p, r, wiped) EXCEPT ![p] =
                 [Idle EXCEPT !.pc = "markInst", !.run = r,
                              !.ids = {i \in req[p].ids : OwnerOf(i) \in paid},
                              !.cred = {a \in req[p].cred : AdvEmp[a] \in paid},
                              !.leg = {a \in req[p].leg : AdvEmp[a] \in paid}]]
    /\ UNCHANGED <<adv, inst, run, active, torn, wasPaid>>

MarkInst(p) ==
    /\ At(p, "markInst")
    /\ inst' = MarkInstallments(inst, req[p].ids, req[p].run)
    /\ Goto(p, "markStatus")
    /\ UNCHANGED <<adv, run, line, slip, active, torn, wasPaid>>

MarkStatus(p) ==
    /\ At(p, "markStatus")
    /\ adv' = MarkStatuses(adv, inst, req[p].ids, req[p].run)
    /\ Update(p, [req[p] EXCEPT !.pc = "markCred", !.ids = {}])
    /\ UNCHANGED <<inst, run, line, slip, active, torn, wasPaid>>

MarkCred(p) ==
    /\ At(p, "markCred")
    /\ adv' = MarkCredits(adv, req[p].cred, req[p].run)
    /\ Update(p, [req[p] EXCEPT !.pc = "markLegacy", !.cred = {}])
    /\ UNCHANGED <<inst, run, line, slip, active, torn, wasPaid>>

MarkLeg(p) ==
    /\ At(p, "markLegacy")
    /\ adv' = MarkLegacy(adv, req[p].leg, req[p].run)
    /\ Goto(p, "finish")
    /\ UNCHANGED <<inst, run, line, slip, active, torn, wasPaid>>

FinishCalc(p) ==
    /\ At(p, "finish")
    /\ run' = [run EXCEPT ![req[p].run] = "REVIEW"]
    /\ torn' = torn \ {req[p].run}
    /\ Return(p)
    /\ UNCHANGED <<adv, inst, line, slip, active, wasPaid>>

-----------------------------------------------------------------------------
(* The other actions of payrollAction, issuePayslips, (de)activation.      *)

\* review, approve, markPaid, lock: a permission check, no check of the status.
RunAction(r, status) ==
    /\ "action" \in Ops /\ run[r] # "NONE"
    /\ run' = [run EXCEPT ![r] = status]
    /\ wasPaid' = IF status \in {"PAID", "LOCKED"} THEN wasPaid \cup {r} ELSE wasPaid
    /\ UNCHANGED <<adv, inst, line, slip, active, req, torn>>

\* The lines the request may see, copied with their figures.
LinesSeen(r, scope) ==
    [e \in Employee |-> IF e \in InScope(scope) THEN line[r][e] ELSE NoLine]

IssueRead(p, r, scope) ==
    /\ run[r] \in {"APPROVED", "PAID", "LOCKED"}
    /\ Begin(p, "issue", [Idle EXCEPT !.pc = "issueWrite", !.run = r,
                            !.rows = LinesSeen(r, scope)])
    /\ UNCHANGED <<tables, torn, wasPaid>>

\* One transaction of upserts by line id.  An existing slip keeps its figures; a
\* line deleted since the read fails the foreign key and the whole transaction.
IssueWrite(p) ==
    /\ At(p, "issueWrite")
    /\ slip' = IF req[p].gone THEN slip
               ELSE [slip EXCEPT ![req[p].run] = [e \in Employee |->
                       IF req[p].rows[e].on /\ ~ slip[req[p].run][e].on
                       THEN req[p].rows[e] ELSE slip[req[p].run][e]]]
    /\ Return(p)
    /\ UNCHANGED <<adv, inst, run, line, active, torn, wasPaid>>

SetActive(e) ==
    /\ "activate" \in Ops
    /\ active' = IF e \in active THEN active \ {e} ELSE active \cup {e}
    /\ UNCHANGED <<adv, inst, run, line, slip, req, torn, wasPaid>>

-----------------------------------------------------------------------------
\* A database error, a timeout or a stopped server: the request ends here.
Fail(p) ==
    /\ Failures /\ req[p].pc # "idle"
    /\ Return(p)
    /\ UNCHANGED <<tables, torn, wasPaid>>

AdvanceStep(p) ==
    \/ \E a \in Advance, t \in Terms : SubmitAdvance(p, a, t)
    \/ InsertNext(p)
    \/ \E a \in Advance, ts \in {{}} \cup {{t} : t \in Terms} : ReviewRead(p, a, ts)
    \/ ReviewReject(p) \/ ReviewApprove(p) \/ ReviewDelete(p)
    \/ \E a \in Advance : CancelRead(p, a)
    \/ CancelWrite(p) \/ CancelInstallments(p)

CalcStep(p) ==
    \/ \E r \in Run, scope \in Scopes : CalcStart(p, r, scope)
    \/ ReopenRead(p) \/ ReopenInst(p) \/ ReopenCredit(p)
    \/ ReopenDeduct(p) \/ ReopenStatus(p)
    \/ Unbind(p) \/ Bind(p) \/ ReadDeductions(p) \/ ReadCredits(p)
    \/ DropConflicts(p) \/ ReadLegacy(p)
    \/ Commit(p)
    \/ MarkInst(p) \/ MarkStatus(p) \/ MarkCred(p) \/ MarkLeg(p)
    \/ FinishCalc(p)

RunStep(p) ==
    \/ \E pd \in Period : CreateRunCount(p, pd)
    \/ CreateRunInsert(p)
    \/ \E r \in Run, scope \in Scopes : IssueRead(p, r, scope)
    \/ IssueWrite(p)

Next ==
    \/ \E p \in Proc : AdvanceStep(p) \/ CalcStep(p) \/ RunStep(p) \/ Fail(p)
    \/ \E r \in Run, status \in RunStatus \ {"DRAFT"} : RunAction(r, status)
    \/ \E e \in Deactivatable : SetActive(e)

Spec == Init /\ [][Next]_vars

-----------------------------------------------------------------------------
(* Properties.                                                             *)

Quiet == \A p \in Proc : req[p].pc = "idle"

\* Whatever requests interleave or are abandoned, an installment is recorded as
\* collected by a run only while a pay line of that run deducts it: the company
\* never writes off a repayment the employee was not charged
\* (markAdvanceEffectsApplied against the transaction of payrollAction).
LedgerBacked ==
    \A i \in Inst : inst[i].status = "DEDUCTED" =>
        /\ inst[i].run \in Run
        /\ i \in line[inst[i].run][OwnerOf(i)].ded

\* A run whose latest calculation ended deducts exactly the installments the
\* ledger records as collected by it: no employee is charged an installment
\* twice, on two runs, and none is collected without a charge.
DeductionsMatchLedger ==
    \A r \in Run \ torn, i \in Inst :
        (i \in line[r][OwnerOf(i)].ded) <=> (inst[i].run = r)

\* The same for payouts: a WITH_SALARY advance is on the pay line of exactly the
\* run its row names, so it is paid out at most once.
PayoutsMatchLedger ==
    \A r \in Run \ torn, a \in Advance :
        (a \in line[r][AdvEmp[a]].cred) <=> (adv[a].credited = r)

\* Payouts of advances with a first period are exact even when calculations of
\* other periods interleave or stop midway (without one see PaidOutOnce).
ScheduledPayoutsMatchLedger ==
    \A r \in Run \ torn, a \in Advance : adv[a].start # NoPeriod =>
        ((a \in line[r][AdvEmp[a]].cred) <=> (adv[a].credited = r))

\* No pay line pays an advance out and deducts one of its installments, although
\* the two are read by different statements of the load.
LineNeverPaysAndDeducts ==
    \A r \in Run, e \in Employee : \A i \in line[r][e].ded : i[1] \notin line[r][e].cred

\* A pay line deducts at most one installment of an advance, however often the
\* runs of its period are recalculated (the bind of loadAdvanceEffectsForPeriod:
\* "Attach at most one unbound installment per advance to this period"), and
\* never pays out and deducts, whole or by installment, the same advance: an
\* approved advance always has its installments by the time it is loaded.
OneEffectPerLine ==
    \A r \in Run, e \in Employee :
        LET l == line[r][e]
        IN /\ \A i, j \in l.ded : i[1] = j[1] => i = j
           /\ l.cred \cap (l.leg \cup {i[1] : i \in l.ded}) = {}

\* Between requests the status of an advance and its installments tell the same
\* story: the status CASEs of reopenAdvanceEffectsForRun and
\* markAdvanceEffectsApplied, approval and cancellation included.
StatusMatchesInstallments ==
    Quiet => \A a \in Advance :
        LET row == adv[a]
            st(s) == inst[<<a, s>>].status
        IN \A s \in Seq1 :
           /\ row.status \in {"NONE", "SUBMITTED", "REJECTED"} => st(s) = "NONE"
           /\ Open(row.status) => (st(s) # "NONE" <=> s <= row.count)
           /\ row.status = "APPROVED" => st(s) \notin {"DEDUCTED", "CANCELLED"}
           /\ row.status = "PARTIALLY_DEDUCTED" =>
                Some(inst, a, "PENDING") /\ Some(inst, a, "DEDUCTED")
           /\ row.status = "DEDUCTED" => (st(s) = "DEDUCTED" <=> s <= row.count)
           /\ row.status = "CANCELLED" => st(s) \in {"NONE", "CANCELLED"}

\* An issued slip shows what its pay line says: a recalculation deletes the slips
\* of the lines it replaces, and an issue that read lines since replaced fails.
SlipIsItsLine ==
    \A r \in Run, e \in Employee : slip[r][e].on => slip[r][e] = line[r][e]

\* A cancelled advance is never revived by a later recalculation of a run that
\* had paid it out.
CancelledIsFinal ==
    [][\A a \in Advance : adv[a].status = "CANCELLED" =>
          adv'[a].status = "CANCELLED"]_vars

\* A pay line starts deducting a WITH_SALARY advance only when a run of a strictly
\* earlier period has paid it out.
DeductOnlyAfterPayout ==
    [][\A r \in Run, e \in Employee :
          \A i \in line'[r][e].ded \ line[r][e].ded :
              LET row == adv[i[1]] IN
              row.mode = "WITH_SALARY" =>
                  row.credited # NoRun /\ PeriodOf(row.credited) < PeriodOf(r)]_vars

-----------------------------------------------------------------------------
(* Why LedgerBacked holds: between the statement that reopens a run and the *)
(* transaction that rewrites its lines nothing is recorded as collected by  *)
(* that run, and after it the request only records what the lines deduct.   *)

AfterReopen == {"reopenCredit", "reopenDeduct", "reopenStatus", "unbind", "bind",
                "readDed", "readCred", "drop", "commit"}

CollectedBy(r) == {i \in Inst : inst[i].status = "DEDUCTED" /\ inst[i].run = r}

RequestInv(p) ==
    LET q == req[p] IN
    /\ q.pc \in CalcPcs => q.run \in Run /\ q.emps \subseteq InScope(q.scope)
    /\ q.pc \in AfterReopen => InScope(q.scope) = {} \/ CollectedBy(q.run) = {}
    /\ q.pc \notin {"markInst", "markStatus"} => q.ids \subseteq q.ded
    /\ q.pc = "markInst" => \A i \in q.ids : i \in line[q.run][OwnerOf(i)].ded

OneCalculation ==
    \A p, q \in Proc : \A r \in Run : Calculating(p, r) /\ Calculating(q, r) => p = q

\* The inductive invariant behind LedgerBacked, when a run is calculated by one
\* request at a time and no employee is deactivated.
LedgerInv ==
    /\ TypeOK
    /\ LedgerBacked
    /\ active = Employee
    /\ OneCalculation
    /\ \A p \in Proc : RequestInv(p)

-----------------------------------------------------------------------------
(* What comments and messages of the repository say, and the code does not  *)
(* do: VOtherBranches refutes the first, the README says when the others    *)
(* fail.                                                                    *)

\* operations.ts: "Never wipe other branches when header has a branch selected."
\* Alone in the system, a calculation for some branches leaves what was
\* collected from the employees of the others as it is.
OtherBranchesKept ==
    [][\A p \in Proc, i \in Inst :
          req[p].pc \in CalcPcs /\ req[p].emps # {} /\ OwnerOf(i) \notin InScope(req[p].scope)
            => inst'[i] = inst[i]]_vars

\* operation-guards.ts: "Calculate may re-run on APPROVED (returns to REVIEW); not
\* after paid/locked": once paid, the pay lines of a run stay what was paid.
PaidNeverRecalculated ==
    [][\A r \in wasPaid : line'[r] = line[r]]_vars

\* salary-advances.ts: "Credit WITH_SALARY in the start period (or first eligible
\* period if unset)": an advance is on the pay lines of one run only.
PaidOutOnce ==
    \A a \in Advance, r1, r2 \in Run \ torn :
        a \in line[r1][AdvEmp[a]].cred /\ a \in line[r2][AdvEmp[a]].cred => r1 = r2
=============================================================================

# A verification development of GoldenSoft HR

GoldenSoft HR (`src/`, a Next.js application over PostgreSQL) keeps employees, schedules,
attendance, leave, overtime, salary advances and payroll of the branches of an organization. All
decisions are taken in service functions under `src/src/lib/hr/services/`, called one per HTTP
request by `src/src/app/api/hr/[...operations]/route.ts`. Most of them are sequences of SQL
statements, each committed on its own; a few open a `$transaction`, at PostgreSQL's default
isolation. Requests run in parallel in any number of server processes, nothing locks a business
object, and a request can stop after any statement. That is the difficulty this project is about.

Paths below are relative to `src/src/lib/hr/services/` unless they say otherwise.

## 1. The system

| Component | State | Operations | What makes it correct |
|---|---|---|---|
| Salary advances (`salary-advances.ts`) | `salary_advances`, `salary_advance_installments` | submit, review, cancel; for a payroll calculation: reopen, bind and load, load legacy, mark | every installment is collected at most once, only after the payout, and exactly when a pay line deducts it |
| Payroll runs (`operations.ts` 5151–5380) | `payroll_runs`, `payroll_run_employees` and items, `payslips` | create, calculate, review / approve / mark paid / lock, issue payslips | a run can be calculated again and again without charging or paying twice; paid lines stay; slips show their lines |
| Payroll rules (`payroll-calc.ts`, `thai-tax.ts`, `payroll-attendance-effects.ts`) | none | rounding, tax, social security, late and absence deductions | totals add up, brackets and caps |
| Payroll periods (`payroll-periods.ts`, `payroll-schedules.ts`) | `payroll_periods`, `payroll_schedules` | create, generate, change status | periods do not overlap, generating twice adds nothing |
| Leave (`operations.ts` 3944–5020, `leave-entitlements.ts`) | `leave_requests`, `employee_leave_balances`, `leave_balance_transactions`, `leave_policies` | submit, review, assign cover, look at balances, set the entitlement | no overlaps, no overdraft, usage booked exactly once, schedule and request agree |
| Schedules and shift assignments (`operations.ts` 1194–1920, `shifts.ts`, `schedules.ts`) | `schedule_periods`, `shift_assignments` | assign, change shift, substitute, move, delete, publish, lock; marks and covers made by leave | one row per employee and day, no impossible neighbours, locked periods stay, covers can be undone |
| Attendance (`operations.ts` 2208–3850 and 5554–5750, `attendance.ts`) | `attendance_events`, `attendance_days`, adjustment requests, mismatch cases | clock, adjust, review, resolve mismatch | events and days agree, a retry does not lose the day |
| Overtime (`operations.ts` 5032–5149, `overtime-rules.ts`) | `overtime_requests` | submit, review | approved minutes only when approved |
| Employees, activation and platform links (`employees.ts`, `employee-activation.ts`) | `employees`, challenges in memory, platform rows | move, link, unlink, activate, deactivate, reactivate | one active employee per account, HR and platform agree |
| Roles (`employee-roles.ts`) | role assignments of the platform | assign, revoke | an organization keeps an owner |
| Compensations (`compensations.ts`) | `employee_compensations` | add | one wage at a time, past wages fixed |
| Positions, departments | master tables | create, update | references stay consistent |
| Authorization (`authorize.ts`, `guards.ts`, `shared.ts`) | none per request | permission checks, branch filters | a request reaches only its branches |
| Face matching, photos, documents, notifications, calendars, work locations, dashboards | files and reference rows | single statements or queries | not the subject of this project |
| Web pages, platform client, seeds, scripts | none the server relies on | | not the subject of this project |

Interactions that carry risk:

* A **payroll calculation** reads compensations, attendance and active employees, rewrites the
  advances' tables before and after its own transaction, and deletes payslips by cascade. Advance
  requests write the same rows at any moment.
* **Reviewing a leave** changes the schedule in one transaction, the balance in further ones and
  the request in the last statement. Naming a cover changes the same schedule rows. Every look at
  one's balance rewrites the balance row.
* **Clocking** writes an event, then a day, then requests for decisions; planners move the shift
  assignment it reads, and adjustments and mismatch reviews rewrite the day.
* **Branch moves and account links** commit in HR and then call the platform, another system, and
  undo the HR update when the call fails.

Hard behaviour, listed line by line under `hazards` in `PROJECT.json`: statements of two requests
in an order nobody tested; values read before a transaction and written by it; a request stopped
between commits and made again; status fields set without looking at the current status;
repeating, undoing and redoing legal calls; filters (branch, year) that two statements of one
request do not share.

## 2. Modules

| Module | Models | Lines |
|---|---|---|
| `SalaryAdvances` | the two advance tables; one operator per SQL statement | 230 |
| `PayrollRuns` | requests of payroll runs, payslips and advances as statement sequences | 600 |
| `ShiftAssignments` | schedule rows and the statements that mark leave and move covers | 115 |
| `LeaveRequests` | leave requests, balances and covers as statement sequences | 435 |
| `ShiftTimes` | shift arithmetic: spans, windows, mismatch, lateness, overlaps | 105 |
| `AttendanceDays` | clock events, days, adjustments, shift-mismatch reviews | 490 |
| `ScheduleRequests` | schedule periods, their shifts and every schedule action | 410 |
| `PayrollCalendar` | generated periods and payment dates | 75 |
| `PayrollPeriods` | schedule, periods and the requests that make and move them | 275 |
| `PeriodLifecycle` | abstract: what the life of a payroll period promises | 45 |
| `EmployeeAccounts` | employees, accounts, activation, platform calls, owners | 335 |
| `PayRules` | the amounts of a pay line: tax, social security, attendance effects | 120 |
| `PayLines` | wages, overtime, settings and the calculation that reads them | 340 |
| `MC...` | instances for TLC of the module they name | 10–30 each |
| `PayrollLedger_proofs`, `PayrollSerial_proofs` | theorems about `PayrollRuns`; the second extends the first | |
| `PayrollPeriods_proofs`, `EmployeeAccounts_proofs`, `LeaveRequests_proofs`, `AttendanceDays_proofs`, `ScheduleRequests_proofs`, `PayLines_proofs` | theorems about the module they name; section 4 | |

Composition: `PayrollRuns` extends `SalaryAdvances`, `LeaveRequests` extends `ShiftAssignments`,
`AttendanceDays` and `ScheduleRequests` extend `ShiftTimes`, `PayrollPeriods` extends
`PayrollCalendar`, `PayLines` extends `PayRules`: the lower module holds rows, statements or
arithmetic, the upper one the requests that string them together. `PayrollPeriods` also carries the
refinement mapping to `PeriodLifecycle` (`INSTANCE ... WITH`). The upper modules are separate
because the code shares little between them: `AttendanceDays` sees a planner only as an action that
changes the shift of a day, `ScheduleRequests` sees clocking only as a day that becomes clocked,
`PayLines` sees the ledger of advances only as an amount.

### How code becomes TLA+

* A table is a function from its key to a record; a row that does not exist has `status = "NONE"`,
  `"none"` or `on = FALSE`. UNIQUE keys that matter are the domain of the function, or a guard at
  the statement they refuse (`IndexRefuses`, `UniqueKeyRefuses`, `InsertEvent`).
* A **request** is `req[p]`: a program counter `pc` and the local variables the code has captured.
  A statement, or a block inside `$transaction`, is one action; the next statement is another. What
  an operation reads before it writes is therefore stale exactly where it is in the code. Reads
  that follow each other with no use in between and touch rows the properties do not compare are
  one action (the entitlement and the balance in `SyncRead`; the tables read at the start of a
  calculation in `PayLines`).
* A statement that fails on a key or a missing row (the second insert of a run number, a slip for
  a deleted line, the deletion of a transaction row that is gone) ends the request, as the thrown
  error does. `gone`, `ids` and `alive` record which of the rows a request has read still exist,
  because the code addresses them by id and a re-created row has another id.
* `Fail` or `Lose` abandons a request after any statement: a database error, a timeout, a stopped
  server. A platform call has three outcomes: done, refused, done with the answer lost.
* Variables called history (`torn`, `raced`, `wasPaid`, `planned`, `undone`, `held`, `fresh`) never
  influence a step; they say which rows have an unfinished or overlapping request behind them, and
  what was before.

Correspondence, payroll:

| Code | TLA+ |
|---|---|
| `submitSalaryAdvance`, `insertInstallments` | `SubmitAdvance`, `InsertNext` |
| `reviewSalaryAdvance` | `ReviewRead`, `ReviewReject`, `ReviewApprove`, `ReviewDelete`, `InsertNext` |
| `cancelSalaryAdvance` | `CancelRead`, `CancelWrite`, `CancelInstallments` |
| `createPayrollRun` | `CreateRunCount`, `CreateRunInsert` |
| `payrollAction(calculate)` guard and employees | `CalcStart` |
| `reopenAdvanceEffectsForRun` | `ReopenRead` … `ReopenStatus` |
| `loadAdvanceEffectsForPeriod` | `Unbind`, `Bind`, `ReadDeductions`, `ReadCredits`, `DropConflicts` |
| `loadLegacyApprovedAdvancesByEmployee` (in parallel) | `ReadLegacy` |
| the transaction of the pay lines | `Commit` |
| `markAdvanceEffectsApplied`, the final status | `MarkInst`, `MarkStatus`, `MarkCred`, `MarkLeg`, `FinishCalc` |
| the other actions; `issuePayslips`; (de)activation | `RunAction`; `IssueRead`, `IssueWrite`; `SetActive` |
| amounts of a line: `calculatePayroll`, `thai-tax.ts`, `payroll-attendance-effects.ts` | `PayRules` |
| `addCompensation`; overtime; both settings; the reads and the line of a calculation | `PayLines` |
| `createPayrollPeriod`, `generatePayrollPeriods` | `CreateStart`, `GenerateStart`, `Find`, `Check`, `Insert` |
| `updatePayrollPeriodStatus`; `updatePayrollSchedule` | `StatusStart`, `WriteStatus`; `UpdateSchedule` |

Correspondence, people and time:

| Code | TLA+ |
|---|---|
| `syncEmployeeLeaveBalance` | `SyncRead`, `SyncWrite` |
| `listSelfLeaveBalances`; `upsertLeaveEntitlement` | `ListBalance`; `SetEntitlement` |
| `submitLeave` | `SubmitStart`, sync, `CheckBalance`, `CheckOverlap`, `InsertLeave` |
| `reviewLeave(approve)` | `ApproveStart`, `ReadSource`, `CoverTx`, sync, `LookTx`, `Book`, `WriteStatus` |
| `reviewLeave(reject)` | `RejectStart`, `ClearTx`, `ReadTx`, `Unbook`, `WriteStatus` |
| `assignLeaveCover` | `AssignStart`, then `ReadSource`, `CoverTx`, or `RestoreTx`, or `ClearTx`, `DropCover` |
| `restorePriorCoverAssignments`, `encodeCoverNotes` | `RestoreCovers`, `Snapshot` |
| `clock` | `ClockStart`, `LookUpKey`, `ReadPrior`, `ReadEvents`, `ResolveShift`, `InsertEvent`, `SavePhoto`, … |
| adjustments and mismatch reviews (`operations.ts` 3700–3850, 5554–5750) | actions at `adj…` and `mm…` of `AttendanceDays` |
| `scheduleAction`, `createSchedulePeriod`, `deleteSchedulePeriod` | actions of `ScheduleRequests`, one per statement |
| `updateEmployee` (branch), `syncPlatformHomeBranch` | `MoveStart`, `MoveUpdate`, `Sync`, `UndoMove` |
| `linkPlatformUser`, `completeEmployeeActivation` | `LinkStart`, `LinkUpdate`, `Sync`, `UndoLink`, `SpendInVain` |
| `startEmployeeActivation`; (de)activation; owner role | `ActivationStart`, …; `DeactivateStart`, …; `AssignOwner`, `RevokeStart`, … |

Abstractions. In `PayrollRuns` an installment is a unit of money collected at most once, and pay
lines hold the advances and installments they mention; in `PayLines` they hold amounts, in satang,
with rates in whole percents. Payroll periods are numbered in the order of `period_start`. One type
of leave is modelled (balances of two types share nothing); days and years are numbers;
`requested_amount` is a constant of a request, independent of its dates, as in the code. The length
of a day and of a month is a parameter. What the constants have to satisfy is a named `ASSUME` of
the module that declares them: finitely many leaves and server processes, shifts that begin and end
within a day and are not called like a missing one, months that follow each other, payment rules as
`parsePaymentDayRule` returns them, wages, rates and amounts that are not negative, first wage
histories as `addCompensation` leaves them. Permission checks are the precondition of making a request;
the branch filter of a payroll request is its `scope`. Notifications and display names are left out,
as are the columns no code reads or sets (`worked_minutes`, `is_locked`, `locked_at`).

## 3. Runs

| Run | Question | Bounds |
|---|---|---|
| `PayrollSerial` | Do all orders of submission, review, cancellation, runs and recalculations keep lines, installments, payouts and statuses consistent? | 1 advance of up to 2 installments, 2 periods with 2 runs each, 1 request at a time |
| `PayrollConcurrent` | Do calculations of two periods, interleaved and abandoned anywhere, charge an installment twice or pay and collect on one line? | 1 advance, 2 periods, 2 requests |
| `PayrollRaces` | Is a collected installment always on a line of its run while every advance request races with calculations? | 1 advance, 2 branches, 1 run, 2 requests |
| `PayrollSlips` | Does an issued slip ever differ from its line? | 2 employees in 2 branches, 1 run, 2 requests |
| `LeaveSerial` | Do all orders of requests, reviews and cover changes keep schedule, requests and balances consistent? | 3 overlapping requests, 2 covers, 2 days, 2 rosters |
| `LeaveBalances` | Is usage booked exactly once although requests are abandoned, repeated and interleaved with synchronizations? | 2 requests of 1 employee, 2 processes, changing entitlement |
| `Attendance` | Do events, days, adjustments and mismatches agree while clocking races with reviews and planners and any request is abandoned? | 1 day of 3 minutes, 2 shifts (one over midnight), 3 keys, 2 processes, 3 requests |
| `Schedules` | What do two schedule requests in flight do to rows, links, locked periods and clocked days? | 2 employees, 2 days, 2 periods, 2 shifts (one over midnight), 3 requests |
| `Periods` | Are payment dates, tiling and the review order right, does a generate complete, is `PeriodLifecycle` implemented? | 3 months of a common year, February generated, 3 rules, 2 processes |
| `Accounts` | One active employee per account, HR and platform agreeing, an owner remaining, with failing platform calls | 2 employees, 2 accounts, 2 branches, 2 processes, 4 requests |
| `Pay` | Is a line the pay of what the tables say, and are past wages fixed? | 2 periods in 3 days, 2 processes, 4 requests |
| `VOtherBranches` | What the code does against what a comment of it says; see section 5 | smallest instance that shows it |

Why the bounds are enough. The statements of a calculation treat each advance by itself, so one
advance meets all cases; two installments give every mixture of statuses; two periods give "an
earlier run" and "this run", two runs of a period give the second calculation that finds the work
of the first. Two requests in flight give every race of two; races of three are left to the
theorems, which hold for any number. Two branches separate "inside the filter" from "outside". For
leave, three requests of which two overlap a third allow re-submission after rejection; the two
days of a request meet a working day, a rest day and an empty slot of a cover in the rosters; two
covers allow exchanging one for the other. A day of three or four minutes has a time before, within
and after each shift, and a shift over midnight; days of an employee do not share rows, so one day
meets every order of clocking, adjusting and reviewing, and `Schedules` has the pair of days that
can overlap. Three requests are what a retry needs next to a racing one, four a link that is undone
after its account found another holder. February is the month in which day 30 is clamped, and its
neighbours are there to roll over to. `MaxRequests` bounds the number of requests in a behaviour,
never their interleaving. Symmetry is used
between processes, and in `Accounts` between accounts and between branches (no action or initial
state tells them apart), only in runs without liveness.

**Fairness and liveness.** Nobody has to make a request, and the code has no worker or timer, so
the only thing it promises eventually is that a handler that has begun goes on to its next
statement. `PayrollPeriods` states that (`WF_vars(Step(p))`, one weak fairness per handler, none
for requests or for losses) and `GenerateCompletes` follows: a generate that has begun ends with
every period of the month there, whatever an earlier, lost one had left, or with an error. The other
modules state no fairness: their handlers' statements are finite and straight, so completion would
say nothing about the code. `CHECK_DEADLOCK FALSE` is set where `MaxRequests` bounds the requests:
after the last of them the model, not the system, stops.

`ExclusiveRuns` (a run is calculated by one request at a time) and `ExclusiveReviews` (a balance is
reviewed by one request at a time) are assumptions about the users, not guarantees of the code: they
are constants so that a reader can drop them and see the races of section 5. The history variable
`raced` plays the same part in the other modules: a property that exempts overlapping requests says
so, and section 5 says what they do.

**What the properties say** (each is commented at the end of its module). Money: the ledger of
advances and the pay lines agree whenever a run's last calculation reached its end
(`DeductionsMatchLedger`, `PayoutsMatchLedger`, `ScheduledPayoutsMatchLedger`), and in one
direction always (`LedgerBacked`); a line never pays and collects (`LineNeverPaysAndDeducts`) and
has one effect per advance (`OneEffectPerLine`); statuses follow from installments
(`StatusMatchesInstallments`, `CancelledIsFinal`); repayment follows payout
(`DeductOnlyAfterPayout`); slips follow lines (`SlipIsItsLine`); a line is the pay recomputed by
definitions written without the code's case analysis (`LineIsCurrent`), more pay nets more
(`MorePayNetsMore`), wages neither overlap nor change afterwards (`WageInv`, `HistoryKept`).
Periods: `PaymentIsNext`, `PeriodsTileMonth`, `PeriodInv`, `GenerateCompletes`, `Lifecycle`.
Leave: `BalanceInv`, `ApprovedIsBooked`, `NeverOverdrawn`, `NoOverlap`, and for the schedule
`ApprovedDaysMarked`, `CoverMatchesRequest`, `UncoveredIsPlanned`. Attendance: days are backed by
events or adjustments and events are shown (`DayInv`), nobody clocks twice (`ClockedOnce`), late and
early minutes are those of the current shift (`MetricsAreCurrent`), flags have their request
(`PendingHasRequest`), decisions stay (`DecidedIsFinal`). Schedules: `RowsInv`, the neighbour check
finds every overlap (`OverlapCheckIsExact`), `AssignedIsSound`, `LockedOnlyTaken`, `ClockedIsKept`.
Accounts: `LinkInv`, `OwnerRemains`, `AgreementKept`. An invariant whose name ends in `Inv` is the
conjunction of the module's type invariant with the property it names, as proofs need them
together. Every property of a passing run is violated by a mutant of a definition it depends on
(`mutants` in `PROJECT.json`; the mutated forms stand next to the definitions they change).

## 4. Proofs

Every theorem holds for all values of the constants that satisfy the modules' assumptions, that is
for any number of employees, advances, periods, shifts, days, requests and server processes, and
with failures after any statement, except for what the last column says.

| Theorem | States | Assuming |
|---|---|---|
| `PayrollLedger_proofs!TypeCorrect` | `TypeOK` | |
| `…!LedgerAlwaysBacked` | `LedgerBacked` | `ExclusiveRuns`, nobody is deactivated |
| `…!SlipsShowTheirLines` | `SlipIsItsLine` | |
| `…!NeverBothOnALine` | `LineNeverPaysAndDeducts` | |
| `…!EveryChargeIsRecorded` | `DeductionsMatchLedger` | `OneRunAtATime`, `WholeCompany`, no review or cancellation meanwhile |
| `…!ScheduledPayoutsAreExact` | `ScheduledPayoutsMatchLedger` | `OneRunAtATime`, `WholeCompany`; no review meanwhile, or `Lone` |
| `…!PayoutsAreExact` | `PayoutsMatchLedger` | `Lone`, `WholeCompany` |
| `PayrollSerial_proofs!StatusTellsInstallments` | `StatusMatchesInstallments` | `Lone`, `WholeCompany`, no failures |
| `…!CancelledForGood` | `CancelledIsFinal` | the same |
| `…!OneEffectOnALine` | `OneEffectPerLine` | the same |
| `…!DeductedAfterPayout` | `DeductOnlyAfterPayout` | `Lone` |
| `…!ChargesAreExact` | `DeductionsMatchLedger`, reviews and cancellations included | `Lone`, `WholeCompany` |
| `LeaveRequests_proofs!BalancesAreExact` | `BalanceInv` | `OneReviewPerBalance` |
| `…!ReviewsAgreeWithLedger` | `ApprovedIsBooked` | `OneReviewPerBalance` |
| `…!LeavesNeverOverlap` | `NoOverlap` | `Serial` |
| `…!NothingIsOverdrawn` | `NeverOverdrawn` | `Serial`, `WithinTheYear` |
| `…!CoversComeBack` | `UncoveredIsPlanned` | `OneReviewPerBalance`, `OneAbsentee` |
| `…!LeaveDaysAreMarked` | `ApprovedDaysMarked` | `Serial`, no failures, `OneAbsentee`, `CoversAtWork` |
| `…!CoversMatchRequests` | `CoverMatchesRequest` | the same |
| `AttendanceDays_proofs!DaysAgreeWithEvents` | `DayInv` | |
| `…!ClocksOnce` | `ClockedOnce` | |
| `…!MinutesAreCurrent` | `MetricsAreCurrent` | |
| `…!FlagsHaveRequests` | `PendingHasRequest` | |
| `…!DecisionsAreFinal` | `DecidedIsFinal` | |
| `ScheduleRequests_proofs!RowsStayLinked` | `RowsInv` | |
| `…!LockedRowsAreKept` | `LockedOnlyTaken` | |
| `…!OverlapsAreFound` | `OverlapCheckIsExact` | |
| `…!ClockedRowsAreKept` | `ClockedIsKept` | |
| `…!AssignmentsAreSound` | `AssignedIsSound` | |
| `PayrollPeriods_proofs!NothingPaidUnreviewed` | `PeriodInv` | |
| `…!RequestsImplementLifecycle` | `Lifecycle`, the refinement | |
| `…!PaymentsAreNext` | `PaymentIsNext` | |
| `…!PeriodsAlwaysTile` | `PeriodsTileMonth` | |
| `EmployeeAccounts_proofs!LinksAreSound` | `LinkInv` | |
| `…!OwnerAlwaysRemains` | `OwnerRemains` | |
| `…!HrAndPlatformAgree` | `AgreementKept` | |
| `PayLines_proofs!WagesApart` | `WageInv` | |
| `…!PastWagesStay` | `HistoryKept` | |
| `…!LinesAreCurrent` | `LineIsCurrent` | |
| `…!MoreIsMore` | `MorePayNetsMore` | in states with `RatesLeaveSome` |

The hypotheses say how the program is used; the code enforces none of them, and section 5 says what
happens without. `Lone`: one request at a time. `OneRunAtATime`: that, or one run per period which one
request at a time calculates (calculations of different periods interleave). `WholeCompany`:
calculations are not filtered by branch and nobody is deactivated. `OneReviewPerBalance`: one
request at a time, or `ExclusiveReviews`. `Serial`: one request at a time, and a review is of a
SUBMITTED or APPROVED leave. `WithinTheYear`: no failures, a fixed entitlement, and leaves of the
current year. `OneAbsentee`: nobody can be asked to cover two colleagues on one day. `CoversAtWork`:
nobody can be asked to cover a day of a leave of his own. `RatesLeaveSome`: the saved rates of tax
and social security take at most 96 percent of the last baht earned; the code saves any rate that is
not negative (`payroll-deduction-settings.ts` 226), and above 100 percent a raise costs money. The
instances on which `LeaveSerial` and `Pay` check these properties satisfy them. Where the column is empty the property itself may exempt days, periods or employees
on which two requests overlapped (the history variables of section 2).

Hardly any of the properties is inductive. What the proofs add to them is mostly what a request
carries from one statement to the next.

**Payroll.** `TypeCorrect` has a lemma per statement of `SalaryAdvances` (it maps well-typed tables
to well-typed tables) and one step per action.

* `LedgerAlwaysBacked`: an installment recorded as collected by a run is deducted by a pay line of
  that run. `MarkInst` records what the request remembers, and `Commit` deletes lines, so
  `LedgerInv` adds `RequestInv` (from `ReopenInst` to `Commit` nothing is recorded as collected by
  the run, so deleting its lines is harmless; after `Commit` what the request still remembers is on
  the lines it wrote), `OneCalculation` (no second request is calculating the run, from
  `ExclusiveRuns`), and `active = Employee`: with everybody of the filter deactivated the code skips
  the reopening and still deletes the lines (`operations.ts` 5210).
* `SlipInv` adds to both properties it proves what a request has in hand (`InHand`): an issue that
  has read its lines holds what they are or knows they are gone, and a calculation
  past `DropConflicts` has no advance among both its payouts and its deductions. Nothing is assumed,
  so this holds of two calculations of one run at once.
* `ChargeInv` (over `ControlInv`: who calculates what, nobody else that period) says that what a
  calculation has loaded is pending and bound to its period until it is marked, and that nothing is
  recorded for the run from the reopening to the marking: then the lines it writes are what it will
  record. The period bound to an installment, not the run, keeps the calculations of other periods
  away from it. `PayoutInv` is the same argument for payouts, where the binding is `credited`.
* `StoryInv` says at every statement how the status of an advance and its installments go
  together: the loose form while statements that touch the advance are under way, the firm one
  before and after. `BindingInv` adds that installments are bound only during a calculation
  and one per advance, which is why a line has one effect per advance. `DeductInv` adds that what
  has been loaded may be deducted, `NewcomerInv` that an advance which waits for its review, or has
  just been approved, has no installment a review could delete.

**Leave.** The used figure of a balance is computed outside the transaction that writes it, from a
balance read earlier. `LedgerInv` is the invariant of that computation: no two reviews are of one
balance (`Exclusive`), so the figure a review has read is still the balance's and the leave it is
about to book is not booked (`HoldsAll`); a leave is booked at most once (`BookedOnce`), and the
figure is the sum of the amounts booked (`UsageIsExact`). `OverlapInv` adds for `NoOverlap` that a
submission about to insert found no live request it overlaps. `BudgetInv` adds for `NeverOverdrawn`
that what is booked and what is pending together fit the entitlement: approving never compares the
two, so the check at submission is the only one there is. The sums are those of `MapThenSumSet`; that
such a sum exists, and that it loses exactly the term of an element with the element, is proved at
the beginning of the module by well-founded induction on the subsets of the set.

**Covers.** `PlanInv` makes `UncoveredIsPlanned` inductive: a row that does cover somebody keeps the
plan in its notes (`AsPlanned`), and there is a request that may ask for that cover (`Asked`), so
under `OneAbsentee` the row a cover is moved on covers nobody and its snapshot is of the plan. This
holds of requests in flight at once and of failures. `ServiceInv` ties the schedule to the requests:
a row that covers has a live request that names it (`BackedIfCovering`), a named cover serves every
working day (`ServedIfNamed`), and an approved leave is marked (`MarkedIfApproved`); all three exempt
a leave whose covers have been taken from the schedule but not yet from the request (`Withdrawn`),
which ends with the request and is why abandoned ones are excluded. `Prepared` says that the shifts
an approval has read are those of the plan, which nobody who is away can have lost (`CoversAtWork`),
and that a review about to write APPROVED has marked the leave. With a failure between the schedule
and the status a leave stays approved without its marks.

**Attendance.** `EventInv` follows the event that `clock` has inserted until the day shows it, and
says that a request which is about to insert found none before it; a retry after an abandoned
request meets the first one's event. `PlanIsCurrent` says that the shift a request has read is the
one the planner last set, unless one has changed it meanwhile. `FlagFits` and `AsksOnce` follow the
flag of a day through the two statements that set it and file its request. `DecisionInv` says that
a review in flight decides something still undecided.

**Schedules.** `LinkInv`: the shift a request is about to write is shown by the period, the one it
is about to unlink has no row left. `AloneInv`: what an undisturbed request has read is still so.
`OverlapsAreFound` is not an invariant about requests but about an algorithm: the code sorts shifts
by start and compares neighbours only. That this finds an overlap if there is any is shown by
taking, for the earlier of two overlapping shifts, the next one by start (there is one, as starts are
natural numbers).

**Periods.** `NothingPaidUnreviewed`: `LifeInv` adds to `PeriodInv` that the present and the first
status are among the held ones (`RowsInv`) and that a status change in flight starts at a status its
period has held (`RequestInv`). The step that matters is `WriteStatus`, which may act on a status
the period has left: the neighbour of a held status leaves no gap behind it. The type part needs
`CalendarReaches`: the calendar goes on for a month after every period.
`RequestsImplementLifecycle`: under the mapping of `PayrollPeriods`, `Insert` is `Open` and
`WriteStatus` is `Move`; every other step stutters, being one that leaves `periods` alone. It uses
`LifeInv` and the correspondence of statuses with stages (`AllowedFacts`). `PaymentsAreNext` needs
that every row, and every candidate in flight, carries a date computed from the rule it names
(`PayInv`), and arithmetic on the calendar: a computed date is the first one on or after the end
of the period that the rule allows. `PeriodsAlwaysTile` is arithmetic on the calendar alone.

**Accounts.** `LinksAreSound` needs beside `LinkInv` what a request in flight holds (`RequestInv`:
its employee exists, a link has an account, a move has both branches). Every statement writes one
row, so the proof has one lemma about such a write (`RowStep`: no other active employee holds the
new account, and the access fits) and shows its hypotheses per action, from the unique index where
the row gains an account. `AccountsAssumption` asks that the first links are injective.
`OwnerAlwaysRemains`: that there is an owner is not inductive, because a revocation in flight has
counted owners that may be gone. `OwnersInv` adds: until two revocations overlap at most one is in
flight, and without its victim an owner is left. Counting enters at one place (`AnotherOwner`: more
than one owner means one is left without any given one).

`HrAndPlatformAgree` is a property of steps, so its invariant (`AloneInv`) says what an undisturbed
request knows on the way to its last one: which branch HR and the platform have at each of its
statements, and that the former account of a link is still to be had should it have to be put back.

**Wages and pay.** `WagesApart` needs what a wage request found and relies on until it is done
(`Found`, in `HistoryInv`): the row it closes is open and began before, so the row it creates next
overlaps nothing. `HistoryInv` is a disjunction with `raced`, the exemption both properties make.
`LinesAreCurrent` follows a calculation from what it read to the line it writes (`CurrentInv`): as
long as nothing disturbed it (`Undisturbed`) its reads are the tables', and a line in `fresh` is
still what it was written from (`Settled`). The rest is arithmetic: the progressive tax of the code,
band by band, is the marginal definition (`BandsAreMarginal`), the bounded and capped contribution is
the definition by minima, and each rounding is off by at most half a unit. `MoreIsMore` bounds, with
the same lemmas, what tax and contribution take of a raise, roundings included.

Every invariant and step property of a passing run is now stated by a theorem. Only model-checked is
`GenerateCompletes`: liveness under fairness is out of the prover's reach. So are `ENABLED`,
RECURSIVE operators and the induction theorems of the library, which take an operator as a
parameter; the modules do without the first two, and where a proof above needs induction it takes a
minimal counterexample instead (`WFMin`).

## 5. Where the code deviates

With a run that shows it (quotation and lines in `findings`): `VOtherBranches`: calculating one
branch reopens the installments the run collected in others.

Met while modelling, visible in the model when a named restriction is dropped.

Payroll and advances:

* `review`, `approve`, `markPaid` and `lock` look at no status: a paid or locked run is taken back
  by `review` and calculated again (`PayrollRuns!PaidNeverRecalculated` as a property of
  `PayrollSlips`).
* Two calculations of different periods pay out an advance without first period twice
  (`PayrollRuns!PaidOutOnce` as a property of `PayrollConcurrent` with such terms).
* An approval that stops before its first installment leaves an advance without installments,
  which the next calculation takes for a pre-migration row and deducts whole; a calculation that
  stops after binding makes the next one bind a second installment (`PayrollSerial` with
  `Failures`, `OneEffectPerLine`).
* A cancellation overwrites the status a calculation has just written (`PayrollSerial` with two
  processes, `StatusMatchesInstallments`).
* The first four properties that `PayrollSerial_proofs` states are about requests that come one at a time.
  Of requests that overlap each of them is false: the statements that write statuses
  (`MarkStatuses`, `ReopenStatuses`) look at no status, so a cancelled advance can become APPROVED
  or DEDUCTED again (`CancelledIsFinal`). Of a request abandoned midway all but
  `DeductOnlyAfterPayout` are false (`PayrollSerial` with two processes, or with `Failures`).
* Recalculating the run that paid an advance out, after all of it was collected, drops the payout:
  credits are loaded for open advances only.

Amounts (`PayLines`):

* A daily or hourly wage has a base of 0: `calculate` passes neither worked days nor hours. Each of
  two semimonthly periods pays the whole month's wage.
* Recalculating an old period uses the wage that is current today; a wage entered for a future date
  is paid at once; one entered with an end date is never current, so its employee is skipped.
* A failure between closing a wage and creating the next leaves no current wage; a wage corrected
  on its first day is changed in place.
* `reviewOvertime` may be repeated or withdrawn after the minutes were paid.
* Without saved settings tax and social security are 0, though the page shows defaults; the first
  save of the late and absence rules inserts the default tax and social security with them. Net pay
  is not bounded below.

Periods (`PayrollPeriods`):

* Two overlapping status changes may take a LOCKED period back (the abstract `Move` is about stages
  held for that reason). `createPayrollPeriod` accepts any first status and a payment date before
  the end of the period; changing the frequency lets periods of the two frequencies share days
  (`PeriodsTileMonth` is about one frequency). An inactive schedule still generates. Payroll runs
  do not consult the status of their period.

Leave:

* One employee who covers two colleagues on a date stays on the shift of the first: naming the second
  overwrites the snapshot, where `operations.ts` 4019 says "as if cover never happened"
  (`UncoveredIsPlanned` where `OneAbsentee` does not hold). Requests of the next year are checked against this
  year's balance (`NeverOverdrawn` of `LeaveSerial` with `ThisYear = 1` and `NDay = 3`); a rejected request can be approved after its
  days were taken (`NoOverlap` with every status reviewable).
* Two submissions at once overlap or overdraw; two reviews of one balance at once lose an update
  (`LeaveBalances` without `ExclusiveReviews`); a synchronization that races with a review leaves a
  stale available figure until the next one.
* Rejecting an old request again clears the leave marks another approved request made; a colleague
  on leave who is named as cover loses the leave mark of that day.

Attendance (`AttendanceDays`):

* After a stop between the event and the day the employee is refused ("already clocked") until an
  adjustment is approved. A clock-out after midnight finds no clock-in and is refused
  (`operations.ts` 2957).
* Two adjustments of a day can be pending when they were submitted at once, and of two overlapping
  reviews the later wins. A mismatch approved after a planner moved the shift answers NOT_FOUND.
* The shift a mismatch suggests is confirmed by the client and not compared again. `is_locked` is
  never set, `attendance_days.schedule_period_id` neither.

Schedules (`ScheduleRequests`):

* `reassign` deletes the old rows, of locked periods too, before refusals that may still come
  (`operations.ts` 1769); `substitute` takes rows of any period. These are the two operations
  `LockedOnlyTaken` names.
* `changeShift` and `substitute` check no overlap; `assign` looks at the requested dates only, and
  nothing compares dates with the range of the period. Removing a shift or a row looks at no
  attendance. The status of a period is read once: a request already in flight when it is locked
  goes on, and a day clocked between the count and the deletion is deleted.

Accounts (`EmployeeAccounts`):

* Undoing a link leaves the access ACTIVE, and is itself refused when the former account has found
  another holder. A lost answer leaves the platform moved and HR not. Overlapping moves diverge.
* Moving an inactive employee moves the home of an account an active one may hold; reactivation
  does not call the platform. `startEmployeeActivation` sets PENDING_ACTIVATION on a linked employee.
* Challenges are kept in the server's memory and spent before the link is made.
* Two overlapping revocations can leave no owner; `employeeHasOrganizationOwnerRole` answers "no"
  when the database fails (`employees.ts` 66).

## 6. Not modelled

* **No state that others rely on**: dashboards, reports and every listing (the larger part of
  `data.ts` and `dashboard.ts` and of each service file), the repository layer, HTTP parsing, notifications.
* **User interface** (`src/components`, pages) and **seed data and scripts**: more than half of the
  lines of the repository; React state and inserted test data, which the server never relies on.
* **External systems**: the platform but for the rows an HR request changes, authentication, file
  storage, face matching (floating point distances; its verdict is a refusal before the first write).
* **Master data of one statement each**: positions, departments, calendars, holidays, work
  locations, creation of employees, names and dates of schedule periods, maintenance of shifts.
* **Text**: messages, formatting, time zones beyond the day a minute falls on.

This is why the mapped lines are a small share of the repository although the operations that
decide something and change shared state are modelled.

Left for further work. Models: an abstract ledger (an installment is owed, charged by one run, or
waived) implemented by `PayrollRuns`; `PayLines` composed with `PayrollRuns` instead of the
abstraction to an amount. Theorems: the refinement of that ledger, and what remains of the leave
theorems when requests on different leaves overlap.

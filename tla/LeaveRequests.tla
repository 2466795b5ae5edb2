---------------------------- MODULE LeaveRequests ----------------------------
(***************************************************************************)
(* Leave requests, the balance ledger and the schedule:                    *)
(* submitLeave, reviewLeave and assignLeaveCover of operations.ts with the *)
(* services of leave-entitlements.ts.  As in PayrollRuns a request of a    *)
(* process p is a sequence of separately committed statements; the blocks  *)
(* the code runs in one $transaction are one step.  One type of leave is   *)
(* modelled: balances of different types share nothing.                    *)
(***************************************************************************)
EXTENDS ShiftAssignments, FiniteSetsExt

CONSTANTS
    Leave,               \* leave requests, submitted or not yet
    LeaveEmp,            \* [Leave -> Employee]
    FirstDay, LastDay,   \* [Leave -> Day]
    Amount,              \* [Leave -> Nat]: requested_amount
    Covers,              \* [Leave -> SUBSET Employee]: covers a request may name
    YearLen,             \* days of a balance year
    ThisYear,            \* the year of the clock
    Entitlements,        \* annual entitlements the policy may state
    Rosters,             \* schedules planned before the model starts
    Proc, Ops,           \* concurrent requests; the requests made
    Reviewable,          \* statuses in which a request is reviewed
    Failures,            \* may a request be abandoned midway?
    ExclusiveReviews     \* is one review at a time made per balance?

LeaveDays(l) == FirstDay[l] .. LastDay[l]
YearOf(d) == (d - 1) \div YearLen
Year == {YearOf(d) : d \in Day}
Account == Employee \X (Year \cup {ThisYear})
AccountOf(l) == <<LeaveEmp[l], YearOf(FirstDay[l])>>
TotalOf(ls) == MapThenSumSet(LAMBDA l : Amount[l], ls)

Status == {"NONE", "SUBMITTED", "APPROVED", "REJECTED"}

ASSUME LeaveAssumption ==
    /\ IsFiniteSet(Leave)
    /\ LeaveEmp \in [Leave -> Employee]
    /\ FirstDay \in [Leave -> Day] /\ LastDay \in [Leave -> Day]
    /\ \A l \in Leave : FirstDay[l] <= LastDay[l]
    /\ Amount \in [Leave -> Nat \ {0}]
    /\ Covers \in [Leave -> SUBSET Employee]
    /\ \A l \in Leave : LeaveEmp[l] \notin Covers[l]
ASSUME InstanceAssumption ==
    /\ IsFiniteSet(Proc)
    /\ YearLen \in Nat \ {0} /\ ThisYear \in Nat
    /\ Entitlements \subseteq Nat
    /\ Rosters \subseteq [Slot -> Shift \cup {"empty", "rest"}]
    /\ Reviewable \subseteq Status \ {"NONE"}
    /\ Failures \in BOOLEAN /\ ExclusiveReviews \in BOOLEAN

VARIABLES
    leave,      \* leave_requests: status and cover_employee_id
    asg,        \* shift_assignments
    planned,    \* the schedule as planned; what the covers are restored to
    entitled,   \* leave_policies: the annual entitlement in force
    bal,        \* employee_leave_balances
    usage,      \* leave_balance_transactions of each request
    req,        \* the requests in flight
    torn        \* history: leaves whose latest review has not reached its end

tables == <<leave, asg, entitled, bal, usage>>
vars == <<leave, asg, planned, entitled, bal, usage, req, torn>>

BalRow == [on : BOOLEAN, opening : Nat, used : Nat, available : Int]
NoBal == [on |-> FALSE, opening |-> 0, used |-> 0, available |-> 0]
TxId == 1 .. Cardinality(Proc)

Idle == [pc |-> "idle", op |-> "none", leaves |-> {}, covers |-> {}, ent |-> 0,
         accts |-> {}, row |-> NoBal, txs |-> {}, src |-> {}, alive |-> {}]

ReqType ==
    [pc : {"idle", "sync", "syncWrite", "pending", "overlap", "insert", "source",
           "coverTx", "lookTx", "book", "status", "clear", "readTx", "unbook",
           "restoreTx", "dropCover"},
     op : {"none", "submit", "approve", "reject", "assign", "list"},
     leaves : SUBSET Leave,      \* the one request it is about
     covers : SUBSET Employee,   \* the cover it names, if any
     ent : Nat, accts : SUBSET Account, row : BalRow, txs : SUBSET TxId,
     src : SUBSET (Day \X Shift),
     alive : SUBSET Day]         \* days whose source row has not been deleted

TypeOK ==
    /\ leave \in [Leave -> [status : Status, cover : Employee \cup {Nobody}]]
    /\ asg \in [Slot -> Row]
    /\ entitled \in Entitlements
    /\ bal \in [Account -> BalRow]
    /\ usage \in [Leave -> SUBSET TxId]
    /\ req \in [Proc -> ReqType]
    /\ torn \subseteq Leave

Init ==
    /\ planned \in Rosters
    /\ asg = [x \in Slot |-> PlannedRow(planned[x])]
    /\ leave = [l \in Leave |-> [status |-> "NONE", cover |-> Nobody]]
    /\ entitled \in Entitlements
    /\ bal = [a \in Account |-> NoBal]
    /\ usage = [l \in Leave |-> {}]
    /\ req = [p \in Proc |-> Idle]
    /\ torn = {}

-----------------------------------------------------------------------------
(* Control of a request.                                                   *)

Update(p, row) == req' = [req EXCEPT ![p] = row]
Begin(p, op, row) ==
    op \in Ops /\ req[p] = Idle /\ Update(p, [row EXCEPT !.op = op])
At(p, pc) == req[p].pc = pc
Goto(p, pc) == Update(p, [req[p] EXCEPT !.pc = pc])
Return(p) == Update(p, Idle)
About(l) == [Idle EXCEPT !.leaves = {l}, !.accts = {AccountOf(l)}]
\* The next statement needs nothing of what was read so far.
Proceed(p, l, pc) == Update(p, [About(l) EXCEPT !.op = req[p].op, !.pc = pc])

-----------------------------------------------------------------------------
(* syncEmployeeLeaveBalance, after resolveAnnualEntitlement: the row is    *)
(* created, or its opening and available figures are rewritten from the    *)
(* used figure that was read.                                              *)

SyncRead(p) ==
    /\ At(p, "sync")
    /\ \E a \in req[p].accts :
         Update(p, [req[p] EXCEPT !.pc = "syncWrite", !.ent = entitled, !.row = bal[a]])
    /\ UNCHANGED <<tables, planned, torn>>

Synced(now, read, ent) ==
    IF read.on THEN [now EXCEPT !.opening = ent, !.available = ent - read.used]
    ELSE [on |-> TRUE, opening |-> ent, used |-> 0, available |-> ent]

AfterSync(op) == CASE op = "submit" -> "pending" [] op = "approve" -> "lookTx"
                   [] op = "list" -> "idle"

\* The UNIQUE key (employee, type, year) fails the slower of two creations.
SyncWrite(p) ==
    /\ At(p, "syncWrite")
    /\ \E a \in req[p].accts :
         LET row == Synced(bal[a], req[p].row, req[p].ent)
             next == AfterSync(req[p].op)
         IN IF bal[a].on /\ ~ req[p].row.on
            THEN Return(p) /\ UNCHANGED bal
            ELSE /\ bal' = [bal EXCEPT ![a] = row]
                 /\ IF next = "idle" THEN Return(p)
                    ELSE Update(p, [req[p] EXCEPT !.pc = next, !.row = row])
    /\ UNCHANGED <<leave, asg, planned, entitled, usage, torn>>

\* listSelfLeaveBalances: every look at one's balance synchronizes it.
ListBalance(p, e) ==
    /\ Begin(p, "list", [Idle EXCEPT !.pc = "sync", !.accts = {<<e, ThisYear>>}])
    /\ UNCHANGED <<tables, planned, torn>>

\* upsertLeaveEntitlement.
SetEntitlement(n) ==
    /\ "entitle" \in Ops
    /\ entitled' = n
    /\ UNCHANGED <<leave, asg, planned, bal, usage, req, torn>>

-----------------------------------------------------------------------------
(* submitLeave.                                                            *)

SubmitStart(p, l) ==
    /\ leave[l].status = "NONE"
    /\ \A q \in Proc : l \in req[q].leaves => req[q].op # "submit"
    /\ Begin(p, "submit", [About(l) EXCEPT !.pc = "sync",
                                           !.accts = {<<LeaveEmp[l], ThisYear>>}])
    /\ UNCHANGED <<tables, planned, torn>>

PendingOf_None(e) == {}   \* mutant

\* pendingSubmittedAmount: requests that touch the current year.
PendingOf(e) ==
    {k \in Leave : /\ LeaveEmp[k] = e /\ leave[k].status = "SUBMITTED"
                   /\ \E d \in LeaveDays(k) : YearOf(d) = ThisYear}

\* assertLeaveBalanceAvailable ends here, in the current year whatever the dates.
CheckBalance(p) ==
    /\ At(p, "pending")
    /\ \E l \in req[p].leaves :
         IF Amount[l] + req[p].row.used + TotalOf(PendingOf(LeaveEmp[l])) > req[p].ent
         THEN Return(p) ELSE Proceed(p, l, "overlap")
    /\ UNCHANGED <<tables, planned, torn>>

Live(status) == status \in {"SUBMITTED", "APPROVED"}

Overlaps_Strict(k, l) == FirstDay[k] < LastDay[l] /\ LastDay[k] > FirstDay[l]  \* mutant
Overlaps(k, l) == FirstDay[k] <= LastDay[l] /\ LastDay[k] >= FirstDay[l]

CheckOverlap(p) ==
    /\ At(p, "overlap")
    /\ \E l \in req[p].leaves :
         IF \E k \in Leave : /\ LeaveEmp[k] = LeaveEmp[l]
                             /\ Live(leave[k].status) /\ Overlaps(k, l)
         THEN Return(p) ELSE Goto(p, "insert")
    /\ UNCHANGED <<tables, planned, torn>>

InsertLeave(p) ==
    /\ At(p, "insert")
    /\ \E l \in req[p].leaves : leave' = [leave EXCEPT ![l].status = "SUBMITTED"]
    /\ Return(p)
    /\ UNCHANGED <<asg, planned, entitled, bal, usage, torn>>

-----------------------------------------------------------------------------
(* reviewLeave reads the request and does not look at its status.          *)

MayReview(p, l) ==
    /\ leave[l].status \in Reviewable
    /\ ExclusiveReviews => \A q \in Proc : req[q].op \in {"approve", "reject"} =>
                                             AccountOf(l) \notin req[q].accts

\* Without a cover in the call the one on the row is kept.
ApproveStart(p, l, cs) ==
    /\ MayReview(p, l)
    /\ Begin(p, "approve", [About(l) EXCEPT !.pc = "source",
          !.covers = IF cs # {} THEN cs ELSE {leave[l].cover} \ {Nobody}])
    /\ UNCHANGED <<tables, planned, torn>>

RejectStart(p, l) ==
    /\ MayReview(p, l)
    /\ Begin(p, "reject", [About(l) EXCEPT !.pc = "clear"])
    /\ UNCHANGED <<tables, planned, torn>>

\* assignLeaveCover: a status that was not rejected decides what removing means.
AssignStart(p, l, cs) ==
    /\ Live(leave[l].status)
    /\ Begin(p, "assign", [About(l) EXCEPT !.covers = cs,
          !.pc = IF cs # {} THEN "source"
                 ELSE IF leave[l].status = "APPROVED" THEN "restoreTx" ELSE "clear"])
    /\ UNCHANGED <<tables, planned, torn>>

-----------------------------------------------------------------------------
(* applyLeaveCoverToSchedule and clearLeaveScheduleEffects.                *)

\* A cover needs a shift to cover.
ReadSource(p) ==
    /\ At(p, "source")
    /\ \E l \in req[p].leaves :
         LET src == SourceOf(asg, LeaveEmp[l], LeaveDays(l))
         IN IF req[p].covers # {} /\ src = {} THEN Return(p)
            ELSE Update(p, [req[p] EXCEPT !.pc = "coverTx", !.src = src,
                                          !.alive = DaysOf(src)])
    /\ UNCHANGED <<tables, planned, torn>>

\* Rows that a transaction deletes are gone for requests that have read them.
ForgetRows(p, e, days, row) ==
    LET deleted == {x \in CoverSlots(asg, e, days) : asg[x].note.kind # "moved"}
        lost(q) == {d \in Day : \E l \in req[q].leaves : <<LeaveEmp[l], d>> \in deleted}
    IN req' = [q \in Proc |-> IF q = p THEN row
                              ELSE [req[q] EXCEPT !.alive = @ \ lost(q)]]

CoverTx(p) ==
    /\ At(p, "coverTx")
    /\ \E l \in req[p].leaves :
         LET e == LeaveEmp[l]
             src == req[p].src
             restored == RestoreCovers(asg, e, LeaveDays(l))
             marked == MarkLeave(restored, e, req[p].alive)
             next == IF req[p].op = "approve"
                     THEN [About(l) EXCEPT !.op = "approve", !.pc = "sync"] ELSE Idle
         IN \/ /\ req[p].covers = {}
               /\ asg' = marked
               /\ leave' = [leave EXCEPT ![l].cover = Nobody]
               /\ ForgetRows(p, e, LeaveDays(l), next)
               /\ torn' = IF req[p].op = "approve" THEN torn \cup {l} ELSE torn
            \/ \E c \in req[p].covers :
               IF SameShift(marked, c, src)
               THEN Return(p) /\ UNCHANGED <<asg, leave, torn>>
               ELSE /\ asg' = MoveCover(marked, c, e, src)
                    /\ leave' = [leave EXCEPT ![l].cover = c]
                    /\ ForgetRows(p, e, LeaveDays(l), next)
                    /\ torn' = IF req[p].op = "approve" THEN torn \cup {l} ELSE torn
    /\ UNCHANGED <<planned, entitled, bal, usage>>

ClearTx(p) ==
    /\ At(p, "clear")
    /\ \E l \in req[p].leaves :
         LET e == LeaveEmp[l] IN
         /\ asg' = UnmarkLeave(RestoreCovers(asg, e, LeaveDays(l)), e, LeaveDays(l))
         /\ ForgetRows(p, e, LeaveDays(l), [req[p] EXCEPT
              !.pc = IF req[p].op = "reject" THEN "readTx" ELSE "dropCover"])
         /\ torn' = IF req[p].op = "reject" THEN torn \cup {l} ELSE torn
    /\ UNCHANGED <<leave, planned, entitled, bal, usage>>

RestoreTx(p) ==
    /\ At(p, "restoreTx")
    /\ \E l \in req[p].leaves :
         /\ asg' = RestoreCovers(asg, LeaveEmp[l], LeaveDays(l))
         /\ leave' = [leave EXCEPT ![l].cover = Nobody]
         /\ ForgetRows(p, LeaveEmp[l], LeaveDays(l), Idle)
    /\ UNCHANGED <<planned, entitled, bal, usage, torn>>

DropCover(p) ==
    /\ At(p, "dropCover")
    /\ \E l \in req[p].leaves : leave' = [leave EXCEPT ![l].cover = Nobody]
    /\ Return(p)
    /\ UNCHANGED <<asg, planned, entitled, bal, usage, torn>>

-----------------------------------------------------------------------------
(* applyApprovedLeaveUsage and reverseLeaveUsageIfAny: a balance read by    *)
(* one statement is written back as an absolute value by a later one.      *)

Booked_Never(l) == FALSE   \* mutant: the request is not looked up
Booked(l) == usage[l] # {}

LookTx(p) ==
    /\ At(p, "lookTx")
    /\ \E l \in req[p].leaves : IF Booked(l) THEN Proceed(p, l, "status") ELSE Goto(p, "book")
    /\ UNCHANGED <<tables, planned, torn>>

BookedRow(row, ent, l) ==
    [row EXCEPT !.used = @ + Amount[l], !.available = ent - (row.used + Amount[l])]

Book(p) ==
    /\ At(p, "book")
    /\ \E l \in req[p].leaves, a \in req[p].accts :
         LET new == BookedRow(req[p].row, req[p].ent, l) IN
         /\ bal' = [bal EXCEPT ![a].used = new.used, ![a].available = new.available]
         /\ usage' = [usage EXCEPT ![l] = @ \cup {CHOOSE n \in TxId : n \notin usage[l]}]
         /\ Proceed(p, l, "status")
    /\ UNCHANGED <<leave, asg, planned, entitled, torn>>

ReverseFrom_Skips(l) == {}   \* mutant: nothing is reversed
ReverseFrom(l) == usage[l]

ReadTx(p) ==
    /\ At(p, "readTx")
    /\ \E l \in req[p].leaves, a \in req[p].accts :
         \/ ReverseFrom(l) = {} /\ Proceed(p, l, "status")
         \/ \E n \in ReverseFrom(l) :
              Update(p, [req[p] EXCEPT !.pc = "unbook", !.row = bal[a], !.txs = {n}])
    /\ UNCHANGED <<tables, planned, torn>>

\* A transaction row that somebody else deleted fails the whole transaction.
Unbook(p) ==
    /\ At(p, "unbook")
    /\ \E l \in req[p].leaves, a \in req[p].accts :
         IF req[p].txs = {}
         THEN Return(p) /\ UNCHANGED <<bal, usage>>
         ELSE LET was == req[p].row.used
                  used == IF was > Amount[l] THEN was - Amount[l] ELSE 0
              IN /\ bal' = [bal EXCEPT ![a].used = used,
                                       ![a].available = req[p].row.opening - used]
                 /\ usage' = [usage EXCEPT ![l] = @ \ req[p].txs]
                 /\ req' = [q \in Proc |->
                      IF q = p THEN [About(l) EXCEPT !.op = "reject", !.pc = "status"]
                      ELSE IF l \in req[q].leaves
                      THEN [req[q] EXCEPT !.txs = @ \ req[p].txs] ELSE req[q]]
    /\ UNCHANGED <<leave, asg, planned, entitled, torn>>

WriteStatus(p) ==
    /\ At(p, "status")
    /\ \E l \in req[p].leaves :
         /\ leave' = IF req[p].op = "approve"
                     THEN [leave EXCEPT ![l].status = "APPROVED"]
                     ELSE [leave EXCEPT ![l] = [status |-> "REJECTED", cover |-> Nobody]]
         /\ torn' = torn \ {l}
    /\ Return(p)
    /\ UNCHANGED <<asg, planned, entitled, bal, usage>>

-----------------------------------------------------------------------------
\* A database error, a timeout or a stopped server: the request ends here.
Fail(p) ==
    /\ Failures /\ req[p].pc # "idle"
    /\ Return(p)
    /\ UNCHANGED <<tables, planned, torn>>

CoverChoices(l) == {{}} \cup {{c} : c \in Covers[l]}

StartStep(p) ==
    \/ \E e \in Employee : ListBalance(p, e)
    \/ \E l \in Leave : SubmitStart(p, l) \/ RejectStart(p, l)
    \/ \E l \in Leave : \E cs \in CoverChoices(l) :
          ApproveStart(p, l, cs) \/ AssignStart(p, l, cs)

RunStep(p) ==
    \/ SyncRead(p) \/ SyncWrite(p)
    \/ CheckBalance(p) \/ CheckOverlap(p) \/ InsertLeave(p)
    \/ ReadSource(p) \/ CoverTx(p) \/ ClearTx(p) \/ RestoreTx(p) \/ DropCover(p)
    \/ LookTx(p) \/ Book(p) \/ ReadTx(p) \/ Unbook(p) \/ WriteStatus(p)

Next ==
    \/ \E p \in Proc : StartStep(p) \/ RunStep(p) \/ Fail(p)
    \/ \E n \in Entitlements : SetEntitlement(n)

Spec == Init /\ [][Next]_vars

-----------------------------------------------------------------------------
(* Properties.                                                             *)

Quiet == \A p \in Proc : req[p].pc = "idle"

\* The used figure of a balance is the sum of the approved requests booked on it,
\* each once, although it is computed outside the transaction that writes it and
\* balances are synchronized and requests abandoned at any moment.
UsageIsExact ==
    \A a \in Account :
        bal[a].used = TotalOf({l \in Leave : usage[l] # {} /\ AccountOf(l) = a})

\* Every statement keeps the types of the tables and the balance exact: used is
\* the sum of what is booked (syncEmployeeLeaveBalance, applyApprovedLeaveUsage).
BalanceInv == TypeOK /\ UsageIsExact

\* A review that reached its end leaves the request and the ledger in agreement,
\* whatever earlier reviews of it left behind: booked exactly if approved.
ApprovedIsBooked ==
    \A l \in Leave \ torn : (leave[l].status = "APPROVED") <=> (usage[l] # {})

\* submitLeave: two live requests of an employee never share a day.
NoOverlap ==
    \A k, l \in Leave :
        k # l /\ LeaveEmp[k] = LeaveEmp[l] /\ Live(leave[k].status) /\ Live(leave[l].status)
          => LeaveDays(k) \cap LeaveDays(l) = {}

\* submitLeave: what is booked never exceeds the entitlement.
NeverOverdrawn == \A a \in Account : bal[a].used <= entitled

\* Between requests, every day an employee works within an approved leave is
\* marked as leave, through covers named, exchanged and removed.
ApprovedDaysMarked ==
    Quiet => \A l \in Leave : leave[l].status = "APPROVED" =>
        \A d \in LeaveDays(l) :
            Works(asg[<<LeaveEmp[l], d>>]) => asg[<<LeaveEmp[l], d>>].onLeave

\* Between requests, somebody covers an absent employee's shift exactly when a
\* live request names that cover, and then works that very shift.
CoverMatchesRequest ==
    Quiet => \A c, e \in Employee, d \in Day :
        asg[<<c, d>>].covers = e <=>
            /\ \E l \in Leave : /\ LeaveEmp[l] = e /\ d \in LeaveDays(l)
                                /\ Live(leave[l].status) /\ leave[l].cover = c
            /\ Works(asg[<<e, d>>])
            /\ asg[<<c, d>>].shift = asg[<<e, d>>].shift

\* operations.ts: "Restore previous cover people to their original shifts (as if
\* cover never happened)": a row that covers nobody shows what was planned.
UncoveredIsPlanned ==
    \A x \in Slot : asg[x].covers = Nobody => Duty(asg[x]) = PlannedRow(planned[x])
=============================================================================

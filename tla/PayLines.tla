------------------------------- MODULE PayLines -------------------------------
(***************************************************************************)
(* The wage history of an employee, his overtime requests, the rates of    *)
(* the organization, and the lines that calculating a run writes from them *)
(* for each payroll period.  A request is one process: it reads when it    *)
(* starts and writes in later steps, and other requests come in between.   *)
(* What runs do with advances is PayrollRuns: here a payout and a          *)
(* deduction are amounts a calculation is given.                           *)
(***************************************************************************)
EXTENDS PayRules, Sequences

CONSTANTS
    Day,              \* an interval of dates
    Period, FirstOf, LastOf,
    Wages,            \* the wages a request may set: [type, amount]
    Minutes,          \* the lengths of overtime requests
    TaxSettings,      \* the tax and social security settings a request may save
    PayStatements,    \* the late and absence settings
    FirstPay,         \* the late and absence settings of the initial state
    Attendances,      \* what a day may come to: [late, absent]
    Advances,         \* what a calculation may load of advances: [payout, collected]
    FirstWages,       \* the wage histories of the initial states
    Proc,
    Ends,             \* the ends a wage request may give, Forever for none
    Bound,            \* bound on the requests made, of each kind
    MaxRequests,      \* and in all
    Failures          \* may a request be lost between two statements?

Forever == 1000       \* effectiveTo = null
Kind == {"wage", "calculate", "overtime", "other"}
NoLine == [items |-> "none"]

\* No rate, amount or bound that is saved is negative.
TaxRates == [on : BOOLEAN, method : {"FLAT", "PROGRESSIVE"}, rate : Nat, allowance : Nat,
             expenses : BOOLEAN]
SsoRates == [on : BOOLEAN, rate : Nat, cap : Nat, min : Nat, max : Nat]
PayRates == [late : BOOLEAN, perMinute : Nat, absence : BOOLEAN, perDay : Nat]

ASSUME PayAssumption ==
    /\ Day \subseteq 1 .. (Forever - 1) /\ \A a, b \in Day : a .. b \subseteq Day
    /\ FirstOf \in [Period -> Day] /\ LastOf \in [Period -> Day]
    /\ \A d \in Day : \E per \in Period : d \in FirstOf[per] .. LastOf[per]
    /\ \A a, b \in Period : a # b => LastOf[a] < FirstOf[b] \/ LastOf[b] < FirstOf[a]
    /\ Ends \subseteq Day \cup {Forever}
    /\ Wages \subseteq [type : WageType, amount : Nat]
    /\ Minutes \subseteq Nat
    /\ TaxSettings \subseteq [tax : TaxRates, sso : SsoRates]
    /\ PayStatements \subseteq PayRates /\ FirstPay \in PayRates
    /\ Attendances \subseteq [late : Nat, absent : BOOLEAN]
    /\ Advances \subseteq [payout : Nat, collected : Nat]
    /\ Bound \in [Kind -> Nat] /\ MaxRequests \in Nat /\ Failures \in BOOLEAN

WageRow == [type : WageType, amount : Nat, from : Day, to : Day \cup {Forever}, current : BOOLEAN]
Overlap(a, b) == a.from <= b.to /\ b.from <= a.to

\* The first histories are as addCompensation leaves them.
ASSUME HistoryAssumption ==
    \A rows \in FirstWages :
       /\ rows \in Seq(WageRow)
       /\ \A i \in DOMAIN rows :
             rows[i].from <= rows[i].to /\ (rows[i].current <=> rows[i].to = Forever)
       /\ \A i, j \in DOMAIN rows : i # j => ~ Overlap(rows[i], rows[j])

VARIABLES
    wages,       \* hr.employee_compensations of the employee, in order of insertion
    overtime,    \* hr.overtime_requests, in order of insertion
    days,        \* hr.attendance_days: lateMinutes and whether the status is ABSENT
    settings,    \* hr.payroll_deduction_settings, if saved
    lines,       \* the line of each period's run
    req, made,
    fresh,       \* history: periods nothing has changed for since their line was begun
    raced        \* history: have two wage requests overlapped?

inputs == <<wages, overtime, days, settings>>
vars == <<wages, overtime, days, settings, lines, req, made, fresh, raced>>

OvertimeRow == [day : Day, minutes : Minutes, status : {"SUBMITTED", "APPROVED", "REJECTED"}]
Settings == [saved : {FALSE}, pay : PayRates]
            \cup [saved : {TRUE}, tax : TaxRates, sso : SsoRates, pay : PayRates]
Line == [items : [Earnings \cup Deductions -> Nat], minutes : Nat]
Idle == [op |-> "none", pc |-> "idle", row |-> 0, wage |-> 0, period |-> 0, loaded |-> 0, quiet |-> FALSE]

\* A wage request holds the row it means to change, a calculation what it has read.
TypeOK ==
    /\ wages \in Seq(WageRow) /\ overtime \in Seq(OvertimeRow)
    /\ days \in [Day -> [late : Nat, absent : BOOLEAN]]
    /\ settings \in Settings
    /\ \A per \in Period : lines[per] = NoLine \/ lines[per] \in Line
    /\ fresh \subseteq Period /\ raced \in BOOLEAN /\ made \in [Kind -> Nat]
    /\ \A p \in Proc :
          /\ req[p].op \in {"none", "wage", "calculate"}
          /\ req[p].pc \in {"idle", "correct", "close", "create", "load", "write"}
          /\ req[p].op = "wage" => req[p].wage \in WageRow /\ req[p].row \in 0 .. Len(wages)
          /\ req[p].op = "calculate" => req[p].period \in Period

Init ==
    /\ wages \in FirstWages /\ overtime = << >>
    /\ days = [d \in Day |-> [late |-> 0, absent |-> FALSE]]
    /\ settings = [saved |-> FALSE, pay |-> FirstPay]
    /\ lines = [per \in Period |-> NoLine]
    /\ req = [p \in Proc |-> Idle] /\ made = [k \in Kind |-> 0]
    /\ fresh = {} /\ raced = FALSE

-----------------------------------------------------------------------------
InFlight(p) == req[p].op # "none"
At(p, op, pc) == req[p].op = op /\ req[p].pc = pc
Counted(kind) ==
    /\ made[kind] < Bound[kind] /\ MapThenSumSet(LAMBDA k : made[k], Kind) < MaxRequests
    /\ made' = [made EXCEPT ![kind] = @ + 1]

\* What a calculation reads has changed: no line is current any more, nor is
\* what is being calculated.
Changed == fresh' = {} 
Told(r) == [q \in Proc |-> [r[q] EXCEPT !.quiet = FALSE]]
Return(p) == Told([req EXCEPT ![p] = Idle])

-----------------------------------------------------------------------------
(* Wages (addCompensation).                                                *)

Rows == DOMAIN wages
Open(i) == wages[i].to = Forever
Latest(is) == {i \in is : \A j \in is : wages[j].from <= wages[i].from}

\* history.find(open) ?? history.find(isCurrent), the history sorted by its start.
CurrentRows_Latest == Latest(Rows)   \* mutant
CurrentRows ==
    IF \E i \in Rows : Open(i) THEN Latest({i \in Rows : Open(i)})
    ELSE Latest({i \in Rows : wages[i].current})

NewWage(w, from, to) ==
    [type |-> w.type, amount |-> w.amount, from |-> from, to |-> to, current |-> to = Forever]

Later(i, new) == wages[i].from < new.from

\* current is 0 when there is none.
WageStart(p, new, current, manage) ==
    LET begin(pc) ==
          /\ ~ InFlight(p) /\ Counted("wage")
          /\ req' = [req EXCEPT ![p] = [Idle EXCEPT !.op = "wage", !.pc = pc,
                                          !.row = current, !.wage = new]]
          /\ raced' = (raced \/ \E q \in Proc : req[q].op = "wage")
    IN /\ new.from <= new.to
       /\ manage \/ wages = << >>
       /\ IF current = 0 THEN CurrentRows = {} ELSE current \in CurrentRows
       /\ IF current # 0 /\ wages[current].from = new.from /\ wages[current].to = new.to
          THEN begin("correct")
          ELSE /\ \A i \in Rows \ {current} : ~ Overlap(wages[i], new)
               /\ IF current = 0 THEN begin("create")
                  ELSE Later(current, new) /\ begin("close")
    /\ UNCHANGED <<inputs, lines, fresh>>

WageCorrect(p) ==
    /\ At(p, "wage", "correct")
    /\ wages' = [wages EXCEPT ![req[p].row].type = req[p].wage.type,
                              ![req[p].row].amount = req[p].wage.amount,
                              ![req[p].row].current = req[p].wage.current]
    /\ req' = Return(p) /\ Changed
    /\ UNCHANGED <<overtime, days, settings, lines, made, raced>>

ClosedOn_SameDay(from) == from   \* mutant
ClosedOn(from) == from - 1

WageClose(p) ==
    /\ At(p, "wage", "close")
    /\ wages' = [wages EXCEPT ![req[p].row].to = ClosedOn(req[p].wage.from),
                              ![req[p].row].current = FALSE]
    /\ req' = Told([req EXCEPT ![p].pc = "create"]) /\ Changed
    /\ UNCHANGED <<overtime, days, settings, lines, made, raced>>

WageCreate(p) ==
    /\ At(p, "wage", "create")
    /\ wages' = Append(wages, req[p].wage)
    /\ req' = Return(p) /\ Changed
    /\ UNCHANGED <<overtime, days, settings, lines, made, raced>>

-----------------------------------------------------------------------------
(* Overtime, attendance and settings: one statement each.                  *)

\* A change of one statement that a calculation may see.
Statement(kind) == Counted(kind) /\ Changed /\ req' = Told(req) /\ UNCHANGED <<lines, raced>>

SubmitOvertime(d, m) ==
    /\ overtime' = Append(overtime, [day |-> d, minutes |-> m, status |-> "SUBMITTED"])
    /\ Statement("overtime") /\ UNCHANGED <<wages, days, settings>>

\* A review looks at no status: it may be repeated and reversed.
ReviewOvertime(r, status) ==
    /\ r \in DOMAIN overtime
    /\ overtime' = [overtime EXCEPT ![r].status = status]
    /\ Statement("overtime") /\ UNCHANGED <<wages, days, settings>>

\* The day as the clock or a review has left it (AttendanceDays).
ChangeDay(d, attendance) ==
    /\ days' = [days EXCEPT ![d] = attendance]
    /\ Statement("other") /\ UNCHANGED <<wages, overtime, settings>>

SaveRates(s) ==
    /\ s.sso.min <= s.sso.max
    /\ settings' = [saved |-> TRUE, tax |-> s.tax, sso |-> s.sso, pay |-> settings.pay]
    /\ Statement("other") /\ UNCHANGED <<wages, overtime, days>>

\* The first save of the late and absence settings saves rates as well: the
\* defaults nobody has chosen.
DefaultTax == [on |-> TRUE, method |-> "FLAT", rate |-> 3, allowance |-> Baht(60000), expenses |-> TRUE]
DefaultSso == [on |-> TRUE, rate |-> 5, cap |-> Baht(750), min |-> Baht(1650), max |-> Baht(15000)]
SaveAttendancePay(pay) ==
    /\ settings' = IF settings.saved THEN [settings EXCEPT !.pay = pay]
                   ELSE [saved |-> TRUE, tax |-> DefaultTax, sso |-> DefaultSso, pay |-> pay]
    /\ Statement("other") /\ UNCHANGED <<wages, overtime, days>>

-----------------------------------------------------------------------------
(* Calculating a period (payrollAction).                                   *)

CalculateStart(p, per, current) ==
    /\ ~ InFlight(p) /\ Counted("calculate")
    /\ \/ current \in Rows /\ wages[current].current
       \/ current = 0 /\ \A i \in Rows : ~ wages[i].current
    /\ req' = [req EXCEPT ![p] =
                 [Idle EXCEPT !.op = "calculate", !.pc = "load", !.period = per, !.quiet = TRUE,
                              !.row = current,
                              !.wage = IF current = 0 THEN 0 ELSE wages[current],
                              !.loaded = settings]]
    /\ UNCHANGED <<inputs, lines, fresh, raced>>

Within(per, d) == FirstOf[per] <= d /\ d <= LastOf[per]

Payable_Any(r) == TRUE   \* mutant
Payable(r) == overtime[r].status = "APPROVED"

Effects(per, pay) ==
    LET requests == {r \in DOMAIN overtime : Within(per, overtime[r].day) /\ Payable(r)}
        worked == {d \in Day : Within(per, d)}
    IN [overtime |-> [r \in requests |-> overtime[r].minutes],
        late |-> IF pay.late THEN MapThenSumSet(LAMBDA d : days[d].late, worked) ELSE 0,
        absent |-> IF pay.absence THEN Cardinality({d \in worked : days[d].absent}) ELSE 0]

CalculateLoad(p) ==
    /\ At(p, "calculate", "load")
    /\ req' = [req EXCEPT ![p].pc = "write",
                          ![p].loaded = [settings |-> @, effects |-> Effects(req[p].period, @.pay)]]
    /\ UNCHANGED <<inputs, lines, made, fresh, raced>>

\* An employee without a current wage gets no line.
CalculateWrite(p, advance) ==
    LET per == req[p].period
        it == req[p].loaded
    IN /\ At(p, "calculate", "write")
       /\ lines' = [lines EXCEPT ![per] =
             IF req[p].row = 0 THEN NoLine
             ELSE [items |-> Calculate(req[p].wage, it.settings, it.effects,
                                          advance.payout, advance.collected),
                   minutes |-> MapThenSumSet(LAMBDA r : it.effects.overtime[r],
                                             DOMAIN it.effects.overtime)]]
       /\ fresh' = IF req[p].quiet THEN fresh \cup {per} ELSE fresh \ {per}
       /\ req' = [req EXCEPT ![p] = Idle]
       /\ UNCHANGED <<inputs, made, raced>>

-----------------------------------------------------------------------------
Step(p) ==
    \/ WageCorrect(p) \/ WageClose(p) \/ WageCreate(p)
    \/ CalculateLoad(p)
    \/ \E advance \in Advances : CalculateWrite(p, advance)

\* The server goes down between two statements of a request.
Lose(p) ==
    /\ Failures /\ InFlight(p)
    /\ req' = [req EXCEPT ![p] = Idle]
    /\ UNCHANGED <<inputs, lines, made, fresh, raced>>

Request(p) ==
    \/ \E w \in Wages, from \in Day, to \in Ends, current \in Rows \cup {0},
          manage \in BOOLEAN : WageStart(p, NewWage(w, from, to), current, manage)
    \/ \E per \in Period, current \in Rows \cup {0} : CalculateStart(p, per, current)

Next ==
    \/ \E p \in Proc : Request(p) \/ Step(p) \/ Lose(p)
    \/ \E d \in Day : \/ \E m \in Minutes : SubmitOvertime(d, m)
                      \/ \E attendance \in Attendances : ChangeDay(d, attendance)
    \/ \E r \in DOMAIN overtime, status \in {"APPROVED", "REJECTED"} : ReviewOvertime(r, status)
    \/ \E s \in TaxSettings : SaveRates(s)
    \/ \E pay \in PayStatements : SaveAttendancePay(pay)

Spec == Init /\ [][Next]_vars

-----------------------------------------------------------------------------
(* Properties.                                                             *)

\* On every date at most one wage is in force, unless two wage requests
\* overlapped: the open one ends where the next begins (addCompensation).
WagesNeverOverlap ==
    raced \/ \A i, j \in Rows : i # j => ~ Overlap(wages[i], wages[j])

\* Every statement of addCompensation keeps the types and the wages apart.
WageInv == TypeOK /\ WagesNeverOverlap

\* "The wage history behind any past payroll run stays reconstructable"
\* (compensations.ts): a wage that has ended is never changed again, unless two
\* wage requests overlapped.
HistoryKept ==
    [][\A i \in Rows : ~ Open(i) /\ ~ raced' => wages'[i] = wages[i]]_vars

MinutesOf(requests) == MapThenSumSet(LAMBDA r : overtime[r].minutes, requests)
ApprovedWithin(from, to) ==
    {r \in DOMAIN overtime : overtime[r].status = "APPROVED" /\ overtime[r].day \in from .. to}

\* What social security is taken of: the wage, or the bound it is outside of.
IsBase(base, wage, sso) ==
    IF wage = 0 THEN base = 0
    ELSE /\ base \in {wage, sso.min, sso.max} /\ sso.min <= base /\ base <= sso.max
         /\ (base < wage => base = sso.max) /\ (base > wage => base = sso.min)

IsTax(amount, taxable, tax) ==
    IF ~ tax.on THEN amount = 0
    ELSE IF tax.method = "FLAT" THEN Near(amount, taxable * tax.rate, 100, 1)
    ELSE Near(amount, MarginalTax(TaxableAnnual(taxable, tax)), 1200, 2)

IsPay(per, w) ==
    LET it == lines[per].items
        approved == ApprovedWithin(FirstOf[per], LastOf[per])
        wage == DayWage(w)
        worked == {d \in Day : FirstOf[per] <= d /\ d <= LastOf[per]}
        late == MapThenSumSet(LAMBDA d : days[d].late, worked)
        absent == Cardinality({d \in worked : days[d].absent})
        taxable == it["BASE_PAY"] + it["OVERTIME"]
        perMinute == settings.pay.perMinute
        perDay == settings.pay.perDay
    IN /\ it["BASE_PAY"] = (IF w.type = "MONTHLY" THEN w.amount ELSE 0)
       /\ lines[per].minutes = MinutesOf(approved)
       /\ Near(it["OVERTIME"], wage.num * MinutesOf(approved), 320 * wage.den, Cardinality(approved))
       /\ IF ~ settings.pay.late THEN it["LATE"] = 0
          ELSE IF perMinute > 0 THEN it["LATE"] = late * perMinute
          ELSE Near(it["LATE"], wage.num * late, 480 * wage.den, 1)
       /\ IF ~ settings.pay.absence THEN it["ABSENCE"] = 0
          ELSE IF perDay > 0 THEN it["ABSENCE"] = absent * perDay
          ELSE Near(it["ABSENCE"], wage.num * absent, wage.den, 1)
       /\ IF ~ settings.saved THEN it["TAX"] = 0 /\ it["SOCIAL_SECURITY"] = 0
          ELSE /\ IsTax(it["TAX"], taxable, settings.tax)
               /\ IF ~ settings.sso.on THEN it["SOCIAL_SECURITY"] = 0
                  ELSE \E base \in {0, taxable, settings.sso.min, settings.sso.max} :
                          /\ IsBase(base, taxable, settings.sso)
                          /\ Near(it["SOCIAL_SECURITY"],
                                  Least(base * settings.sso.rate, 100 * settings.sso.cap), 100, 1)

\* A calculated line is what the tables say: for a period nothing was changed
\* for since its calculation began (whatever was going on, and been lost,
\* before), its line is the pay of the current wage, or there is neither.
LineIsCurrent ==
    \A per \in fresh :
        IF lines[per] = NoLine THEN \A i \in Rows : ~ wages[i].current
        ELSE \E i \in Rows : wages[i].current /\ IsPay(per, wages[i])

Raises == {Baht(1), Baht(1000), Baht(20000)}

\* Who earns more takes more home, from the least insurable wage on: a bracket
\* applies to what lies in it and the base of social security is bounded.
MorePayNetsMore ==
    \A per \in fresh, raise \in Raises : lines[per] # NoLine =>
        LET it == lines[per].items
        IN (settings.saved => Taxable(it) >= settings.sso.min) =>
           Net(Withheld([it EXCEPT !["BASE_PAY"] = @ + raise], settings)) > Net(it)
=============================================================================

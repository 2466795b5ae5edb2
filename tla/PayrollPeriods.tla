--------------------------- MODULE PayrollPeriods ---------------------------
(***************************************************************************)
(* One payroll schedule and its periods: createPayrollPeriod,              *)
(* generatePayrollPeriods and updatePayrollPeriodStatus of                 *)
(* services/payroll-periods.ts and updatePayrollSchedule of                *)
(* services/payroll-schedules.ts.  A request of a process p is a sequence  *)
(* of separately committed statements: generate looks up and inserts one   *)
(* candidate period after another and may be lost, or refused, between     *)
(* two of them.                                                            *)
(***************************************************************************)
EXTENDS PayrollCalendar, FiniteSets

CONSTANTS
    Proc,
    Rules, Frequencies,           \* what the schedule may be set to
    Months,                       \* months that are generated
    HandMade, GivenDates, Born,   \* ranges, payment dates and status codes of hand-made periods
    Tracked,                      \* ranges whose status is changed
    MaxRequests,                  \* bound on the requests other than status changes
    Failures                      \* may a request be lost midway?

Supported == {"SEMIMONTHLY", "MONTHLY"}
Range == HandMade \cup
         UNION {{GeneratePeriods(f, m)[i] : i \in 1 .. Len(GeneratePeriods(f, m))} :
                  f \in Supported, m \in Months}
Given == [kind |-> "GIVEN", n |-> 0]
Status == {"DRAFT", "OPEN", "CALCULATING", "REVIEW", "APPROVED", "PAID", "LOCKED"}

ASSUME PeriodsAssumption ==
    /\ Rules \subseteq Rule /\ Rules # {} /\ Frequencies # {}
    /\ Months \subseteq Month
    /\ HandMade \subseteq Nat \X Nat /\ GivenDates \subseteq Nat /\ Born \subseteq Status
    /\ Tracked \subseteq Range
    /\ MaxRequests \in Nat /\ Failures \in BOOLEAN

\* The calendar reaches a month past every period, where its payment may fall.
ASSUME CalendarReaches ==
    \A range \in Range : range[2] \in Dates /\ MonthOf(range[2]) + 1 \in Month

VARIABLES
    schedule,   \* payroll_schedules: its frequency and payment day rule
    periods,    \* payroll_periods by range (a range is unique in its schedule)
    req,        \* requests in flight
    failed,     \* did the last request of a process answer with an error?
    made,       \* requests made so far, status changes not counted
    raced       \* history: ranges two status changes were working on at a time

vars == <<schedule, periods, req, failed, made, raced>>

\* rule, born and held are history: the rule the payment date was computed
\* by, the first status, and every status the period has had.
NoRow == [on |-> FALSE, status |-> "DRAFT", pay |-> 0, rule |-> Given, born |-> "DRAFT", held |-> {}]
Row == [on : BOOLEAN, status : Status, pay : Nat, rule : Rule \cup {Given}, born : Status,
        held : SUBSET Status]
Candidate == [range : Range, pay : Nat, rule : Rule \cup {Given}, born : Status]
Idle == [op |-> "none", pc |-> "idle", todo |-> <<>>, month |-> 0, frequency |-> "none",
         range |-> <<0, 0>>, from |-> "DRAFT", to |-> "DRAFT"]
ReqType == [op : {"none", "create", "generate", "status"},
            pc : {"idle", "find", "check", "insert", "write"},
            todo : Seq(Candidate), month : Nat, frequency : Frequencies \cup {"none"},
            range : Range \cup {<<0, 0>>}, from : Status, to : Status]

TypeOK ==
    /\ schedule \in [frequency : Frequencies, rule : Rules]
    /\ periods \in [Range -> Row]
    /\ req \in [Proc -> ReqType]
    /\ failed \in [Proc -> BOOLEAN]
    /\ made \in Nat /\ raced \subseteq Range

Init ==
    /\ schedule \in [frequency : Frequencies, rule : Rules]
    /\ periods = [r \in Range |-> NoRow]
    /\ req = [p \in Proc |-> Idle]
    /\ failed = [p \in Proc |-> FALSE]
    /\ made = 0 /\ raced = {}

At(p, pc) == req[p].pc = pc
InFlight(p) == req[p].op # "none"
Answer(p, error) ==
    /\ req' = [req EXCEPT ![p] = Idle]
    /\ failed' = [failed EXCEPT ![p] = error]

-----------------------------------------------------------------------------
(* The schedule, and making periods.                                       *)

UpdateSchedule(frequency, rule) ==
    /\ made < MaxRequests
    /\ schedule' = [frequency |-> frequency, rule |-> rule]
    /\ made' = made + 1
    /\ UNCHANGED <<periods, req, failed, raced>>

Begin(p, row) ==
    /\ ~ InFlight(p) /\ made < MaxRequests
    /\ req' = [req EXCEPT ![p] = row]
    /\ failed' = [failed EXCEPT ![p] = FALSE]
    /\ made' = made + 1
    /\ UNCHANGED <<schedule, periods, raced>>

PayOf(range, given) == IF given = {} THEN PaymentDate(schedule.rule, range[2])
                       ELSE CHOOSE d \in given : TRUE

\* given is the payment date of the request, as a set of at most one date.
CreateStart(p, range, given, born) ==
    /\ range[1] <= range[2]
    /\ Begin(p, [Idle EXCEPT !.op = "create", !.pc = "check",
                   !.todo = <<[range |-> range, pay |-> PayOf(range, given),
                               rule |-> IF given = {} THEN schedule.rule ELSE Given,
                               born |-> born]>>])

\* The candidates carry the payment dates of the rule read here.
Candidates(m) ==
    LET ranges == GeneratePeriods(schedule.frequency, m)
    IN [i \in 1 .. Len(ranges) |->
          [range |-> ranges[i], pay |-> PaymentDate(schedule.rule, ranges[i][2]),
           rule |-> schedule.rule, born |-> "DRAFT"]]

GenerateStart(p, m) ==
    /\ schedule.frequency \in Supported
    /\ Begin(p, [Idle EXCEPT !.op = "generate", !.pc = "find", !.todo = Candidates(m),
                             !.month = m, !.frequency = schedule.frequency])

\* On to the next candidate of a generate; a create has only one.
Onward(p) ==
    IF Len(req[p].todo) = 1 THEN Answer(p, FALSE)
    ELSE /\ req' = [req EXCEPT ![p].pc = "find", ![p].todo = Tail(@)]
         /\ UNCHANGED failed

Existing(p) == periods[Head(req[p].todo).range].on

\* A range that exists is skipped.
Skipped_Ends(p) == Answer(p, FALSE)   \* mutant
Skipped(p) == Onward(p)

Find(p) ==
    /\ At(p, "find")
    /\ IF Existing(p) THEN Skipped(p)
       ELSE /\ req' = [req EXCEPT ![p].pc = "check"]
            /\ UNCHANGED failed
    /\ UNCHANGED <<schedule, periods, made, raced>>

\* createPayrollPeriod looks again, and refuses with DUPLICATE_PERIOD.
Check(p) ==
    /\ At(p, "check")
    /\ IF Existing(p) THEN Answer(p, TRUE)
       ELSE /\ req' = [req EXCEPT ![p].pc = "insert"]
            /\ UNCHANGED failed
    /\ UNCHANGED <<schedule, periods, made, raced>>

NewRow(c) == [on |-> TRUE, status |-> c.born, pay |-> c.pay, rule |-> c.rule, born |-> c.born,
              held |-> {c.born}]

\* The unique key on organization, schedule, start and end.
UniqueKeyRefuses_Not(p) == FALSE   \* mutant
UniqueKeyRefuses(p) == Existing(p)

\* It refuses a range another request has inserted since Check.
Insert(p) ==
    /\ At(p, "insert")
    /\ IF UniqueKeyRefuses(p)
       THEN Answer(p, TRUE) /\ UNCHANGED periods
       ELSE /\ periods' = [periods EXCEPT ![Head(req[p].todo).range] = NewRow(Head(req[p].todo))]
            /\ Onward(p)
    /\ UNCHANGED <<schedule, made, raced>>

-----------------------------------------------------------------------------
(* The life of a period.                                                   *)

Allowed_Skip(from) ==   \* mutant
    CASE from = "DRAFT" -> {"OPEN"}
      [] from = "OPEN" -> {"CALCULATING", "DRAFT", "APPROVED"}
      [] from = "CALCULATING" -> {"REVIEW", "OPEN"}
      [] from = "REVIEW" -> {"APPROVED", "CALCULATING"}
      [] from = "APPROVED" -> {"PAID", "REVIEW"}
      [] from = "PAID" -> {"LOCKED"}
      [] OTHER -> {}
Allowed(from) ==
    CASE from = "DRAFT" -> {"OPEN"}
      [] from = "OPEN" -> {"CALCULATING", "DRAFT"}
      [] from = "CALCULATING" -> {"REVIEW", "OPEN"}
      [] from = "REVIEW" -> {"APPROVED", "CALCULATING"}
      [] from = "APPROVED" -> {"PAID", "REVIEW"}
      [] from = "PAID" -> {"LOCKED"}
      [] OTHER -> {}

StatusStart(p, range, to) ==
    /\ ~ InFlight(p)
    /\ periods[range].on /\ to \in Allowed(periods[range].status)
    /\ req' = [req EXCEPT ![p] = [Idle EXCEPT !.op = "status", !.pc = "write", !.range = range,
                                              !.from = periods[range].status, !.to = to]]
    /\ raced' = IF \E q \in Proc : At(q, "write") /\ req[q].range = range
                THEN raced \cup {range} ELSE raced
    /\ failed' = [failed EXCEPT ![p] = FALSE]
    /\ UNCHANGED <<schedule, periods, made>>

\* The update is by id alone: it does not look at the status again.
WriteStatus(p) ==
    /\ At(p, "write")
    /\ periods' = [periods EXCEPT ![req[p].range].status = req[p].to,
                                  ![req[p].range].held = @ \cup {req[p].to}]
    /\ Answer(p, FALSE)
    /\ UNCHANGED <<schedule, made, raced>>

-----------------------------------------------------------------------------
Step(p) == Find(p) \/ Check(p) \/ Insert(p) \/ WriteStatus(p)

Lose(p) ==
    /\ Failures /\ InFlight(p)
    /\ Answer(p, TRUE)
    /\ UNCHANGED <<schedule, periods, made, raced>>

Request(p) ==
    \/ \E range \in HandMade, given \in {{}} \cup {{d} : d \in GivenDates}, born \in Born :
          CreateStart(p, range, given, born)
    \/ \E m \in Months : GenerateStart(p, m)
    \/ \E range \in Tracked, to \in Status : StatusStart(p, range, to)

Next ==
    \/ \E frequency \in Frequencies, rule \in Rules : UpdateSchedule(frequency, rule)
    \/ \E p \in Proc : Request(p) \/ Step(p) \/ Lose(p)

\* A handler that has begun goes on; nobody has to make a request.
Fairness == \A p \in Proc : WF_vars(Step(p))
Spec == Init /\ [][Next]_vars /\ Fairness

-----------------------------------------------------------------------------
(* Properties.                                                             *)

\* A payment date that was computed is the first day on or after the end of
\* the period that satisfies the rule in force when the request read the
\* schedule: short months are clamped, and a day that has passed rolls over
\* into the next month (computePaymentDate).
PaymentIsNext ==
    \A r \in Range : periods[r].on /\ periods[r].rule # Given
                        => IsNextPayDay(periods[r].rule, r[2], periods[r].pay)

\* Whatever order the requests came in, the periods of one frequency that
\* exist never share a day, of whatever months they are, and leave no day of a
\* month out once its periods are all there (generateSemimonthlyPeriods,
\* generateMonthlyPeriods).
Generated(f, m) == {GeneratePeriods(f, m)[i] : i \in 1 .. Len(GeneratePeriods(f, m))}
PeriodsOf(f) == {r \in UNION {Generated(f, m) : m \in Months} : periods[r].on}
PeriodsTileMonth ==
    \A f \in Supported :
        /\ \A r, s \in PeriodsOf(f) : r # s => r[2] < s[1] \/ s[2] < r[1]
        /\ \A m \in Months : Generated(f, m) \subseteq PeriodsOf(f) =>
              \A d \in FirstDay[m] .. LastDay[m] : \E r \in Generated(f, m) : d \in r[1] .. r[2]

\* Nobody is paid unreviewed: a period that was made in an earlier status and
\* has been PAID has been opened, calculated, reviewed and approved, even when
\* status changes overtook each other (the order of payroll-rules.ts).
Flow == <<"DRAFT", "OPEN", "CALCULATING", "REVIEW", "APPROVED", "PAID", "LOCKED">>
PaidWasReviewed ==
    \A r \in Range : \A b, i, k \in 1 .. 7 :
        b < i /\ i < k /\ periods[r].on /\ periods[r].born = Flow[b] /\ Flow[k] \in periods[r].held
            => Flow[i] \in periods[r].held

\* Every statement that makes or moves a period (payroll-periods.ts) keeps the
\* types of the tables and pays nothing unreviewed.
PeriodInv == TypeOK /\ PaidWasReviewed

\* "Already-existing ranges are skipped so the generator stays safe to re-run":
\* a generate request that has begun ends with every period of the month
\* there, whatever part of them an earlier request had made before it was
\* lost, or with an error (a lost reply, or a range made under its hands).
GenerateCompletes ==
    \A p \in Proc, m \in Months, f \in Supported :
        (req[p].op = "generate" /\ req[p].month = m /\ req[p].frequency = f)
           ~> \/ failed[p]
              \/ \A i \in 1 .. Len(GeneratePeriods(f, m)) : periods[GeneratePeriods(f, m)[i]].on

\* The requests together implement the life of a period.
StageOf == [s \in Status |-> CHOOSE i \in 1 .. 7 : Flow[i] = s]
Life == INSTANCE PeriodLifecycle WITH
          Date <- Nat,
          stage <- [r \in Range |-> IF periods[r].on THEN StageOf[periods[r].status] ELSE 0],
          held <- [r \in Range |-> {StageOf[s] : s \in periods[r].held}],
          due <- [r \in Range |-> periods[r].pay]
Lifecycle == Life!Spec
=============================================================================

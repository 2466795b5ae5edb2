--------------------------- MODULE PayrollCalendar ---------------------------
(***************************************************************************)
(* The date arithmetic of payroll-rules.ts: the periods a schedule         *)
(* produces for a month and the day each is paid on.  A date is its number *)
(* of days from the start of the calendar; a month m has the dates         *)
(* FirstDay[m] .. LastDay[m].                                              *)
(***************************************************************************)
EXTENDS Integers, Sequences

CONSTANTS
    Month,               \* consecutive month numbers
    FirstDay, LastDay,   \* the dates of each month
    HalfDay              \* last day of the first half of a month (16 in the code)

ASSUME CalendarAssumption ==
    /\ Month \subseteq Nat
    /\ FirstDay \in [Month -> Nat] /\ LastDay \in [Month -> Nat]
    /\ HalfDay \in Nat \ {0}
    /\ \A m \in Month : FirstDay[m] <= LastDay[m] /\ HalfDay < LastDay[m] - FirstDay[m] + 1
    /\ \A m \in Month : m + 1 \in Month => FirstDay[m + 1] = LastDay[m] + 1
    /\ \A m, k \in Month : m < k => LastDay[m] < FirstDay[k]

Dates == UNION {FirstDay[m] .. LastDay[m] : m \in Month}
MonthOf(date) == CHOOSE m \in Month : date \in FirstDay[m] .. LastDay[m]
DaysInMonth(m) == LastDay[m] - FirstDay[m] + 1
DateOf(m, day) == FirstDay[m] + day - 1

\* paymentDayRule, as parsed: DAY:n with n from 1 to 31, END_OF_PERIOD and
\* DAYS_AFTER_END:n with n of at most three digits; anything else is refused.
OnDay(n) == [kind |-> "DAY", n |-> n]
EndOfPeriod == [kind |-> "END_OF_PERIOD", n |-> 0]
DaysAfterEnd(n) == [kind |-> "DAYS_AFTER_END", n |-> n]
Rule == {r \in [kind : {"DAY", "END_OF_PERIOD", "DAYS_AFTER_END"}, n : 0 .. 999] :
           /\ r.kind = "DAY" => r.n \in 1 .. 31
           /\ r.kind = "END_OF_PERIOD" => r.n = 0}

Clamp_Raw(m, day) == DateOf(m, day)   \* mutant
Clamp(m, day) == DateOf(m, IF day < DaysInMonth(m) THEN day ELSE DaysInMonth(m))

PaymentDate(rule, end) ==
    LET m == MonthOf(end)
    IN IF rule.kind = "END_OF_PERIOD" THEN end
       ELSE IF rule.kind = "DAYS_AFTER_END" THEN end + rule.n
       ELSE IF Clamp(m, rule.n) >= end THEN Clamp(m, rule.n)
       ELSE Clamp(m + 1, rule.n)

\* The periods of one month, as <<start, end>>.
SemimonthlyPeriods_Shared(m) ==   \* mutant
    << <<FirstDay[m], DateOf(m, HalfDay)>>, <<DateOf(m, HalfDay), LastDay[m]>> >>
SemimonthlyPeriods(m) ==
    << <<FirstDay[m], DateOf(m, HalfDay)>>, <<DateOf(m, HalfDay + 1), LastDay[m]>> >>
MonthlyPeriods(m) == << <<FirstDay[m], LastDay[m]>> >>

GeneratePeriods(frequency, m) ==
    IF frequency = "SEMIMONTHLY" THEN SemimonthlyPeriods(m) ELSE MonthlyPeriods(m)

-----------------------------------------------------------------------------
(* What the arithmetic is for, stated without its case analysis.           *)

\* The dates a rule "on day n" means: day n of a month, or the last day of a shorter one.
PayDays(n) ==
    {d \in Dates : \/ d = DateOf(MonthOf(d), n)
                   \/ DaysInMonth(MonthOf(d)) < n /\ d = LastDay[MonthOf(d)]}

\* date is the first day on or after the end of a period that satisfies the rule.
IsNextPayDay(rule, end, date) ==
    IF rule.kind = "DAY"
    THEN /\ date >= end /\ date \in PayDays(rule.n)
         /\ \A d \in end .. (date - 1) : d \notin PayDays(rule.n)
    ELSE date = end + rule.n
=============================================================================

----------------------------- MODULE ShiftTimes -----------------------------
(***************************************************************************)
(* The arithmetic of shifts: shift-math.ts, shift-window.ts,               *)
(* schedule-conflicts.ts and computeLateEarlyMinutes of operations.ts.     *)
(* (attendance-calc.ts is left out: only its tests call it.)  A shift is   *)
(* given by its wall-clock columns; an instant is a number of minutes      *)
(* since the midnight that starts day 1.                                   *)
(* The length of a day is a parameter, so that TLC can try every minute.   *)
(***************************************************************************)
EXTENDS Integers, FiniteSets, FiniteSetsExt

CONSTANTS
    Shift,                  \* shifts of the organization
    StartMin, EndMin,       \* [Shift -> minute of the day]
    BreakMin,               \* [Shift -> Nat]
    GraceLate, GraceEarly,  \* [Shift -> Nat]
    MinutesPerDay,          \* MINUTES_PER_DAY
    Buffer                  \* SHIFT_WINDOW_BUFFER_MINUTES

Minute == 0 .. (MinutesPerDay - 1)
NotNegative(n) == IF n > 0 THEN n ELSE 0

-----------------------------------------------------------------------------
(* shift-math.ts                                                           *)

DetectCrossesMidnight(start, end) == end <= start
ShiftSpan(start, end, crosses) ==
    IF crosses \/ end <= start THEN end + MinutesPerDay - start ELSE end - start

\* resolveShiftTiming: what a shift must satisfy to be stored.  crosses is the
\* caller's claim, or "unset" when it leaves it to be inferred.
ResolvedCrosses(start, end, crosses) ==
    IF crosses = "unset" THEN DetectCrossesMidnight(start, end) ELSE crosses = "yes"
ValidTiming(start, end, break, crosses) ==
    LET over == ResolvedCrosses(start, end, crosses)
        span == ShiftSpan(start, end, over)
    IN /\ over \/ end > start
       /\ span > 0 /\ span <= MinutesPerDay
       /\ break >= 0 /\ break < span

Crosses(s) == DetectCrossesMidnight(StartMin[s], EndMin[s])

ASSUME ClockAssumption == MinutesPerDay \in Nat \ {0} /\ Buffer \in Nat
ASSUME ShiftTimesAssumption ==
    /\ StartMin \in [Shift -> Minute] /\ EndMin \in [Shift -> Minute]
    /\ BreakMin \in [Shift -> Nat]
    /\ GraceLate \in [Shift -> Nat] /\ GraceEarly \in [Shift -> Nat]
    /\ \A s \in Shift : ValidTiming(StartMin[s], EndMin[s], BreakMin[s], "unset")

-----------------------------------------------------------------------------
(* shift-window.ts                                                         *)

Midnight(day) == (day - 1) * MinutesPerDay
DayOf(t) == 1 + t \div MinutesPerDay
ScheduledStart(day, s) == Midnight(day) + StartMin[s]
\* The span as shift-window.ts and computeLateEarlyMinutes write it out.
WindowSpan(s) ==
    IF Crosses(s) THEN MinutesPerDay - StartMin[s] + EndMin[s]
    ELSE NotNegative(EndMin[s] - StartMin[s])
ScheduledEnd(day, s) == ScheduledStart(day, s) + WindowSpan(s)

WithinShiftWindow(t, day, s) ==
    /\ t >= ScheduledStart(day, s) - Buffer
    /\ t <= ScheduledEnd(day, s) + Buffer
OutsideBy(t, day, s) ==
    NotNegative(ScheduledStart(day, s) - Buffer - t)
      + NotNegative(t - ScheduledEnd(day, s) - Buffer)

\* evaluateShiftMismatch; the candidates are tried in no particular order.
IsMismatch(t, day, s) == ~ WithinShiftWindow(t, day, s)
Suggested(t, day, s, candidates) ==
    LET others == candidates \ {s}
        inside == {c \in others : WithinShiftWindow(t, day, c)}
        nearest == {c \in others : \A o \in others : OutsideBy(t, day, c) <= OutsideBy(t, day, o)}
    IN IF inside # {} THEN inside ELSE nearest

-----------------------------------------------------------------------------
(* computeLateEarlyMinutes: nothing is late without a clock-in and a shift. *)

NoShift == "none"
NoTime == 0 - 1

ASSUME ShiftNames == NoShift \notin Shift

Metrics(day, in, out, s) ==
    IF in = NoTime \/ s = NoShift THEN [late |-> 0, early |-> 0]
    ELSE [late |-> NotNegative(in - ScheduledStart(day, s) - GraceLate[s]),
          early |-> IF out = NoTime THEN 0
                    ELSE NotNegative(ScheduledEnd(day, s) - out - GraceEarly[s])]

-----------------------------------------------------------------------------
(* schedule-conflicts.ts: rows is a set of <<id, day, shift>> of one        *)
(* employee.  The code sorts by start and compares neighbours.             *)

RangeStart(r) == ScheduledStart(r[2], r[3])
RangeEnd(r) == RangeStart(r) + ShiftSpan(StartMin[r[3]], EndMin[r[3]], Crosses(r[3]))

\* Neighbours in some order the sort may leave equal starts in.
Adjacent(rows, a, b) ==
    /\ a # b /\ RangeStart(a) <= RangeStart(b)
    /\ \A c \in rows \ {a, b} : ~ (RangeStart(a) < RangeStart(c) /\ RangeStart(c) < RangeStart(b))
\* Mutant: only shifts of the same day are compared.
NeighboursOverlap_SameDay(rows) ==
    \E a, b \in rows : Adjacent(rows, a, b) /\ a[2] = b[2] /\ RangeStart(b) < RangeEnd(a)
NeighboursOverlap(rows) ==
    \E a, b \in rows : Adjacent(rows, a, b) /\ RangeStart(b) < RangeEnd(a)
=============================================================================

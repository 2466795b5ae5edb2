-------------------------- MODULE ShiftAssignments --------------------------
(***************************************************************************)
(* The table hr.shift_assignments and the statements with which approving  *)
(* a leave moves people around in it: marking the leave days, moving a     *)
(* cover employee onto the shift of the absent one, and restoring the      *)
(* cover from the snapshot kept in the notes of the row.                   *)
(*                                                                         *)
(* No caller sets sequence_no, so the UNIQUE key (employee, work_date,     *)
(* sequence_no) leaves one row per employee and day: a Slot.  The schedule *)
(* period and the work location travel with the shift and are not shown.   *)
(***************************************************************************)
EXTENDS Integers, FiniteSets

CONSTANTS
    Employee,
    NDay,        \* days, numbered
    Shift        \* shifts of the organization

ASSUME DayAssumption == NDay \in Nat
ASSUME ShiftAssumption == "none" \notin Shift /\ "empty" \notin Shift /\ "rest" \notin Shift
ASSUME EmployeeNames == "nobody" \notin Employee

Day == 1 .. NDay
Slot == Employee \X Day
NoShift == "none"
Nobody == "nobody"

\* notes: nothing, "this row was created for a cover", or the row as it was
\* before the cover (shift, rest flag, leave flag).
Note == [kind : {"empty", "created", "moved"}, shift : Shift \cup {NoShift},
         rest : BOOLEAN, onLeave : BOOLEAN]
NoNote == [kind |-> "empty", shift |-> NoShift, rest |-> FALSE, onLeave |-> FALSE]

Row == [on : BOOLEAN, shift : Shift \cup {NoShift}, rest : BOOLEAN,
        onLeave : BOOLEAN, covers : Employee \cup {Nobody}, note : Note]
NoRow == [on |-> FALSE, shift |-> NoShift, rest |-> FALSE, onLeave |-> FALSE,
          covers |-> Nobody, note |-> NoNote]

\* What a planner puts in a slot: a shift, a rest day, or nothing.
PlannedRow(plan) ==
    IF plan = "empty" THEN NoRow
    ELSE IF plan = "rest" THEN [NoRow EXCEPT !.on = TRUE, !.rest = TRUE]
    ELSE [NoRow EXCEPT !.on = TRUE, !.shift = plan]

\* The row without its leave flag.
Duty(row) == [row EXCEPT !.onLeave = FALSE]
Works(row) == row.on /\ ~ row.rest /\ row.shift # NoShift

-----------------------------------------------------------------------------
(* restorePriorCoverAssignments: rows that cover e on these days.          *)

CoverSlots(asg, e, days) == {x \in Slot : asg[x].covers = e /\ x[2] \in days}

\* A row without a snapshot was created for the cover: it is deleted.
Restored(row) ==
    IF row.note.kind # "moved" THEN NoRow
    ELSE [on |-> TRUE, shift |-> row.note.shift, rest |-> row.note.rest,
          onLeave |-> row.note.onLeave, covers |-> Nobody, note |-> NoNote]

\* Mutant: only the first day of the leave is restored.
RestoreCovers_FirstDay(asg, e, days) ==
    [x \in Slot |-> IF x \in CoverSlots(asg, e, days) /\ \A d \in days : x[2] <= d
                    THEN Restored(asg[x]) ELSE asg[x]]

RestoreCovers(asg, e, days) ==
    [x \in Slot |-> IF x \in CoverSlots(asg, e, days)
                    THEN Restored(asg[x]) ELSE asg[x]]

-----------------------------------------------------------------------------
(* applyLeaveCoverToSchedule: src is the set of <<day, shift>> that e works. *)

SourceOf(asg, e, days) ==
    {<<d, asg[<<e, d>>].shift>> : d \in {k \in days : Works(asg[<<e, k>>])}}

DaysOf(src) == {s[1] : s \in src}

\* Mutant: the first day is not marked.
MarkLeave_SkipsFirst(asg, e, days) ==
    [x \in Slot |-> IF x[1] = e /\ x[2] \in days /\ asg[x].on /\ x[2] > 1
                    THEN [asg[x] EXCEPT !.onLeave = TRUE] ELSE asg[x]]

MarkLeave(asg, e, days) ==
    [x \in Slot |-> IF x[1] = e /\ x[2] \in days /\ asg[x].on
                    THEN [asg[x] EXCEPT !.onLeave = TRUE] ELSE asg[x]]

UnmarkLeave(asg, e, days) ==
    [x \in Slot |-> IF x[1] = e /\ x[2] \in days
                    THEN [asg[x] EXCEPT !.onLeave = FALSE] ELSE asg[x]]

\* The cover must not already work one of the shifts.
SameShift(asg, c, src) ==
    \E s \in src : asg[<<c, s[1]>>].on /\ asg[<<c, s[1]>>].shift = s[2]

\* Mutant: the rest flag is not part of the snapshot.
Snapshot_NoRest(row) ==
    IF row.on THEN [kind |-> "moved", shift |-> row.shift, rest |-> FALSE,
                    onLeave |-> row.onLeave]
    ELSE [NoNote EXCEPT !.kind = "created"]

\* encodeCoverNotes: whom the row was covering until now is not in it.
Snapshot(row) ==
    IF row.on THEN [kind |-> "moved", shift |-> row.shift, rest |-> row.rest,
                    onLeave |-> row.onLeave]
    ELSE [NoNote EXCEPT !.kind = "created"]

MoveCover(asg, c, e, src) ==
    [x \in Slot |->
        IF x[1] = c /\ x[2] \in DaysOf(src)
        THEN [on |-> TRUE, rest |-> FALSE, onLeave |-> FALSE, covers |-> e,
              shift |-> (CHOOSE s \in src : s[1] = x[2])[2],
              note |-> Snapshot(asg[x])]
        ELSE asg[x]]
=============================================================================

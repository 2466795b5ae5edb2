-------------------------- MODULE ScheduleRequests --------------------------
(***************************************************************************)
(* Schedule periods and the requests that plan people in them: the         *)
(* actions of scheduleAction, createSchedulePeriod and                     *)
(* deleteSchedulePeriod of operations.ts, on the table of ShiftAssignments *)
(* extended with the period of each row.  A request of a process p is a    *)
(* sequence of separately committed statements.  One branch is modelled,   *)
(* with its employees; the dates of a period are left out, because no      *)
(* request compares a work date with them.                                 *)
(***************************************************************************)
EXTENDS ShiftAssignments

CONSTANTS
    Period, Proc,
    StartMin, EndMin, MinutesPerDay,   \* the clock of each shift
    Teams, DaySets,                    \* employees and days a request may name
    Ops,                               \* the requests that are made
    MaxRequests,                       \* bound on their number
    Failures                           \* may a request be abandoned midway?

T == INSTANCE ShiftTimes WITH
       BreakMin <- [s \in Shift |-> 0], GraceLate <- [s \in Shift |-> 0],
       GraceEarly <- [s \in Shift |-> 0], Buffer <- 0

NoPeriod == "noPeriod"
AnyShift == "any"
Modes == {"reject", "skip", "reassign"}

ASSUME ScheduleAssumption ==
    /\ NoPeriod \notin Period /\ AnyShift \notin Shift
    /\ MinutesPerDay \in Nat \ {0}
    /\ StartMin \in [Shift -> 0 .. (MinutesPerDay - 1)]
    /\ EndMin \in [Shift -> 0 .. (MinutesPerDay - 1)]
    /\ Teams \subseteq (SUBSET Employee) \ {{}} /\ DaySets \subseteq (SUBSET Day) \ {{}}
    /\ MaxRequests \in Nat /\ Failures \in BOOLEAN

VARIABLES
    status,   \* schedule_periods.status_id; "gone" when there is no such period
    links,    \* schedule_period_shifts
    asg,      \* shift_assignments
    per,      \* shift_assignments.schedule_period_id
    clocked,  \* slots with an attendance day that has a clock-in or clock-out
    req,      \* requests in flight
    made,     \* requests made so far
    raced     \* history: periods two requests were working on at the same time

tables == <<status, links, asg, per, clocked>>
vars == <<tables, req, made, raced>>

Status == {"gone", "DRAFT", "PUBLISHED", "LOCKED"}
Planned == Shift \cup {"rest"}
Idle == [op |-> "none", pc |-> "idle", period |-> NoPeriod, who |-> {}, days |-> {},
         shift |-> AnyShift, to |-> "none", mode |-> "none", sub |-> Nobody,
         seen |-> {}, blocked |-> {}, taken |-> {}, fresh |-> {}, src |-> {},
         gone |-> FALSE, alone |-> TRUE]

SlotRow == [slot : Slot, row : Row]
ReqType ==
    [op : {"none", "status", "addShift", "removeShift", "delete", "changeShift",
           "substitute", "assign", "deletePeriod"},
     pc : {"idle", "status", "link", "count", "dropRows", "dropLinks", "dropPeriod",
           "conflicts", "take", "existing", "create", "rows", "write", "source", "replace"},
     period : Period \cup {NoPeriod}, who : SUBSET Employee, days : SUBSET Day,
     shift : Planned \cup {AnyShift}, to : Shift \cup Status \cup {"none"},
     mode : Modes \cup {"none"}, sub : Employee \cup {Nobody},
     seen : SUBSET Slot, blocked : SUBSET Slot, taken : SUBSET Slot, fresh : SUBSET Slot,
     src : SUBSET SlotRow, gone : BOOLEAN, alone : BOOLEAN]

TypeOK ==
    /\ status \in [Period -> Status]
    /\ links \in [Period -> SUBSET Shift]
    /\ asg \in [Slot -> Row]
    /\ per \in [Slot -> Period \cup {NoPeriod}]
    /\ clocked \subseteq Slot
    /\ req \in [Proc -> ReqType]
    /\ made \in 0 .. MaxRequests /\ raced \subseteq Period

Init ==
    /\ status = [t \in Period |-> "DRAFT"]
    /\ links = [t \in Period |-> {}]
    /\ asg = [x \in Slot |-> NoRow]
    /\ per = [x \in Slot |-> NoPeriod]
    /\ clocked = {}
    /\ req = [p \in Proc |-> Idle]
    /\ made = 0 /\ raced = {}

-----------------------------------------------------------------------------
(* Control of a request, and the two ways of writing rows.                 *)

Owns(t, x) == asg[x].on /\ per[x] = t
Slots(who, days) == who \X days
At(p, pc) == req[p].pc = pc
InFlight(p) == req[p].op # "none"

\* Rows are updated by their id: a row deleted in the meantime is gone for q.
Commit(p, row, deleted) ==
    req' = [q \in Proc |->
              IF q = p THEN row
              ELSE IF req[q].seen \cap deleted # {} THEN [req[q] EXCEPT !.gone = TRUE]
              ELSE req[q]]
Goto(p, pc) == Commit(p, [req[p] EXCEPT !.pc = pc], {})
Return(p) == Commit(p, Idle, {})

Erase(slots) ==
    /\ asg' = [x \in Slot |-> IF x \in slots THEN NoRow ELSE asg[x]]
    /\ per' = [x \in Slot |-> IF x \in slots THEN NoPeriod ELSE per[x]]

Mutable_Always(code) == TRUE   \* mutant
Mutable(code) == code # "LOCKED"

\* Every request starts with reading the period and its status.
Begin(p, op, t, row) ==
    /\ op \in Ops /\ ~ InFlight(p) /\ made < MaxRequests
    /\ status[t] # "gone" /\ Mutable(status[t])
    /\ req' = [q \in Proc |-> IF q = p
                 THEN [row EXCEPT !.op = op, !.period = t,
                                  !.alone = \A o \in Proc \ {p} : ~ InFlight(o)]
                 ELSE [req[q] EXCEPT !.alone = ~ InFlight(q)]]
    /\ made' = made + 1
    /\ raced' = IF \E q \in Proc \ {p} : req[q].period = t THEN raced \cup {t} ELSE raced
    /\ UNCHANGED tables

Steady == UNCHANGED <<made, raced>>

-----------------------------------------------------------------------------
(* The period itself.                                                      *)

StatusStart(p, t, code) ==
    Begin(p, "status", t, [Idle EXCEPT !.pc = "status", !.to = code])

\* publish, unpublish and lock do not look at the status again.
SetStatus(p) ==
    /\ At(p, "status")
    /\ LET t == req[p].period
       IN status' = IF status[t] = "gone" THEN status ELSE [status EXCEPT ![t] = req[p].to]
    /\ Return(p)
    /\ UNCHANGED <<links, asg, per, clocked>> /\ Steady

CreatePeriod(t) ==
    /\ status[t] = "gone" /\ made < MaxRequests
    /\ status' = [status EXCEPT ![t] = "DRAFT"]
    /\ made' = made + 1
    /\ UNCHANGED <<links, asg, per, clocked, req, raced>>

DeletePeriodStart(p, t) ==
    Begin(p, "deletePeriod", t, [Idle EXCEPT !.pc = "count", !.who = Employee, !.days = Day])

\* Mutant: only days that name their period or row are counted; clocking sets neither.
Attended_ByReference(t) == FALSE
Attended(t) == \E x \in clocked : Owns(t, x)

CountAttendance(p) ==
    /\ At(p, "count")
    /\ IF Attended(req[p].period) THEN Return(p) ELSE Goto(p, "dropRows")
    /\ UNCHANGED tables /\ Steady

\* Foreign keys cascade to the rows and links that are left.
DropPeriod(p) ==
    /\ At(p, "dropPeriod")
    /\ LET t == req[p].period
           left == {x \in Slot : Owns(t, x)}
       IN /\ status' = [status EXCEPT ![t] = "gone"]
          /\ links' = [links EXCEPT ![t] = {}]
          /\ Erase(left) /\ Commit(p, Idle, left)
    /\ UNCHANGED clocked /\ Steady

-----------------------------------------------------------------------------
(* addShift, removeShift and delete.                                       *)

AddShiftStart(p, t, s) ==
    Begin(p, "addShift", t, [Idle EXCEPT !.pc = "link", !.shift = s])
RemoveShiftStart(p, t, s) ==
    Begin(p, "removeShift", t, [Idle EXCEPT !.pc = "dropRows", !.shift = s,
                                            !.who = Employee, !.days = Day])
DeleteStart(p, t, who, days, s) ==
    Begin(p, "delete", t, [Idle EXCEPT !.pc = "dropRows", !.who = who, !.days = days,
                                       !.shift = s])

\* Mutant: the link is made only when a shift is added by hand.
LinkedShift_AddOnly(p) ==
    IF req[p].op = "addShift" THEN {req[p].shift} ELSE {}
\* ensurePeriodShiftLink: a rest day has no shift to link.
LinkedShift(p) ==
    IF req[p].op = "changeShift" THEN {req[p].to} ELSE {req[p].shift} \cap Shift

LinkShift(p) ==
    /\ At(p, "link")
    /\ LET t == req[p].period
       IN IF status[t] = "gone" THEN Return(p) /\ UNCHANGED links
          ELSE /\ links' = [links EXCEPT ![t] = @ \cup LinkedShift(p)]
               /\ IF req[p].op = "addShift" THEN Return(p)
                  ELSE Goto(p, IF req[p].op = "assign" THEN "conflicts" ELSE "rows")
    /\ UNCHANGED <<status, asg, per, clocked>> /\ Steady

DropRows(p) ==
    /\ At(p, "dropRows")
    /\ LET r == req[p]
           rows == {x \in Slots(r.who, r.days) :
                      Owns(r.period, x) /\ r.shift \in {AnyShift, asg[x].shift}}
       IN /\ Erase(rows)
          /\ Commit(p, IF r.op = "delete" THEN Idle
                       ELSE [r EXCEPT !.pc = "dropLinks"], rows)
    /\ UNCHANGED <<status, links, clocked>> /\ Steady

DropLinks(p) ==
    /\ At(p, "dropLinks")
    /\ LET t == req[p].period
       IN links' = [links EXCEPT ![t] = IF req[p].op = "deletePeriod" THEN {}
                                        ELSE @ \ {req[p].shift}]
    /\ IF req[p].op = "deletePeriod" THEN Goto(p, "dropPeriod") ELSE Return(p)
    /\ UNCHANGED <<status, asg, per, clocked>> /\ Steady

-----------------------------------------------------------------------------
(* Assigning a shift or a rest day (the action without a name).            *)

AssignStart(p, t, who, days, s, mode) ==
    Begin(p, "assign", t, [Idle EXCEPT !.pc = IF s = "rest" THEN "conflicts" ELSE "link",
                                       !.who = who, !.days = days, !.shift = s, !.mode = mode])

Elsewhere(t, slots) == {x \in slots : asg[x].on /\ per[x] # t}

ReadConflicts(p) ==
    /\ At(p, "conflicts")
    /\ LET r == req[p]
           conflicts == Elsewhere(r.period, Slots(r.who, r.days))
       IN IF r.mode = "reject" /\ conflicts # {} THEN Return(p)
          ELSE IF r.mode = "skip" /\ conflicts = Slots(r.who, r.days) THEN Return(p)
          ELSE IF r.mode = "reassign" /\ conflicts # {} THEN Goto(p, "take")
          ELSE Commit(p, [r EXCEPT !.pc = "existing",
                                   !.blocked = IF r.mode = "skip" THEN conflicts ELSE {}], {})
    /\ UNCHANGED tables /\ Steady

\* Commits before the request is checked any further.
TakeRows(p) ==
    /\ At(p, "take")
    /\ LET r == req[p]
           rows == Elsewhere(r.period, Slots(r.who, r.days))
       IN /\ Erase(rows)
          /\ Commit(p, [r EXCEPT !.pc = "existing", !.taken = rows], rows)
    /\ UNCHANGED <<status, links, clocked>> /\ Steady

\* The rows whose times are compared, of one employee: existing and proposed.
Fresh(r) == {x \in Slots(r.who, r.days) \ r.blocked : ~ Owns(r.period, x)}
TimeRows(r, e) ==
    {<<"stored", d, asg[<<e, d>>].shift>> :
        d \in {k \in r.days : asg[<<e, k>>].on /\ asg[<<e, k>>].shift # NoShift}}
    \cup {<<"proposed", d, r.shift>> :
        d \in {k \in r.days : <<e, k>> \in Fresh(r) /\ r.shift # "rest"}}

TimesOverlap_None(r) == FALSE   \* mutant
TimesOverlap(r) == \E e \in r.who : T!NeighboursOverlap(TimeRows(r, e))

ReadExisting(p) ==
    /\ At(p, "existing")
    /\ LET r == req[p]
       IN IF Fresh(r) = {} \/ TimesOverlap(r) THEN Return(p)
          ELSE Commit(p, [r EXCEPT !.pc = "create", !.fresh = Fresh(r)], {})
    /\ UNCHANGED tables /\ Steady

\* createMany with skipDuplicates.
Fillable(r) == {x \in r.fresh : ~ asg[x].on}

CreateRows(p) ==
    /\ At(p, "create")
    /\ LET r == req[p]
           rows == IF status[r.period] = "gone" THEN {} ELSE Fillable(r)
       IN /\ asg' = [x \in Slot |-> IF x \in rows THEN PlannedRow(r.shift) ELSE asg[x]]
          /\ per' = [x \in Slot |-> IF x \in rows THEN r.period ELSE per[x]]
    /\ Return(p)
    /\ UNCHANGED <<status, links, clocked>> /\ Steady

-----------------------------------------------------------------------------
(* changeShift and substitute.                                             *)

ChangeShiftStart(p, t, e, days, from, to) ==
    /\ from # to
    /\ Begin(p, "changeShift", t, [Idle EXCEPT !.pc = "link", !.who = {e}, !.days = days,
                                               !.shift = from, !.to = to])

RowsOf(r) == {x \in Slots(r.who, r.days) : Owns(r.period, x) /\ asg[x].shift = r.shift}

ReadRows(p) ==
    /\ At(p, "rows")
    /\ IF RowsOf(req[p]) = {} THEN Return(p)
       ELSE Commit(p, [req[p] EXCEPT !.pc = "write", !.seen = RowsOf(req[p])], {})
    /\ UNCHANGED tables /\ Steady

\* One transaction: a row that is gone undoes it.
WriteShift(p) ==
    /\ At(p, "write")
    /\ LET r == req[p]
       IN asg' = IF r.gone THEN asg
                 ELSE [x \in Slot |-> IF x \in r.seen THEN [asg[x] EXCEPT !.shift = r.to]
                                      ELSE asg[x]]
    /\ Return(p)
    /\ UNCHANGED <<status, links, per, clocked>> /\ Steady

SubstituteStart(p, t, e, sub, days, s) ==
    /\ e # sub
    /\ Begin(p, "substitute", t, [Idle EXCEPT !.pc = "source", !.who = {e}, !.days = days,
                                              !.shift = s, !.sub = sub])

ReadSource(p) ==
    /\ At(p, "source")
    /\ IF RowsOf(req[p]) = {} THEN Return(p)
       ELSE Commit(p, [req[p] EXCEPT !.pc = "replace",
                         !.src = {[slot |-> x, row |-> asg[x]] : x \in RowsOf(req[p])}], {})
    /\ UNCHANGED tables /\ Steady

\* The substitute's row: who is covered is the employee who steps back.
CoverRow(row, e) == [row EXCEPT !.onLeave = FALSE, !.covers = e]

\* One transaction: the rows of both are deleted, the substitute's in any period.
ReplaceRows(p) ==
    /\ At(p, "replace")
    /\ LET r == req[p]
           old == RowsOf(r) \cup {x \in Slots({r.sub}, r.days) : asg[x].on}
           new == {[slot |-> <<r.sub, y.slot[2]>>, row |-> CoverRow(y.row, y.slot[1])] : y \in r.src}
           At2(x) == CHOOSE y \in new : y.slot = x
           filled == {y.slot : y \in new}
       IN IF status[r.period] = "gone" THEN Return(p) /\ UNCHANGED <<asg, per>>
          ELSE /\ asg' = [x \in Slot |-> IF x \in filled THEN At2(x).row
                                         ELSE IF x \in old THEN NoRow ELSE asg[x]]
               /\ per' = [x \in Slot |-> IF x \in filled THEN r.period
                                         ELSE IF x \in old THEN NoPeriod ELSE per[x]]
               /\ Commit(p, Idle, old)
    /\ UNCHANGED <<status, links, clocked>> /\ Steady

-----------------------------------------------------------------------------

\* An employee clocks in (AttendanceDays), with or without a planned shift.
Clock(x) ==
    /\ "clock" \in Ops /\ x \notin clocked /\ made < MaxRequests
    /\ clocked' = clocked \cup {x}
    /\ made' = made + 1
    /\ req' = [q \in Proc |-> [req[q] EXCEPT !.alone = ~ InFlight(q)]]
    /\ UNCHANGED <<status, links, asg, per, raced>>

\* A database error, a timeout or a stopped server: the request ends here.
Fail(p) ==
    /\ Failures /\ InFlight(p)
    /\ Return(p)
    /\ UNCHANGED tables /\ Steady

StartStep(p, t) ==
    \/ \E code \in Status \ {"gone"} : StatusStart(p, t, code)
    \/ DeletePeriodStart(p, t)
    \/ \E s \in Shift : AddShiftStart(p, t, s) \/ RemoveShiftStart(p, t, s)
    \/ \E who \in Teams, days \in DaySets, s \in Shift \cup {AnyShift} : DeleteStart(p, t, who, days, s)
    \/ \E who \in Teams, days \in DaySets, s \in Planned, mode \in Modes :
          AssignStart(p, t, who, days, s, mode)
    \/ \E e \in Employee, days \in DaySets, from, to \in Shift :
          ChangeShiftStart(p, t, e, days, from, to)
    \/ \E e, sub \in Employee, days \in DaySets, s \in Shift :
          SubstituteStart(p, t, e, sub, days, s)

RunStep(p) ==
    \/ SetStatus(p) \/ CountAttendance(p) \/ DropRows(p) \/ DropLinks(p) \/ DropPeriod(p)
    \/ LinkShift(p) \/ ReadConflicts(p) \/ TakeRows(p) \/ ReadExisting(p) \/ CreateRows(p)
    \/ ReadRows(p) \/ WriteShift(p) \/ ReadSource(p) \/ ReplaceRows(p)

Next ==
    \/ \E p \in Proc : RunStep(p) \/ Fail(p) \/ \E t \in Period : StartStep(p, t)
    \/ \E t \in Period : CreatePeriod(t)
    \/ \E x \in Slot : Clock(x)

Spec == Init /\ [][Next]_vars

-----------------------------------------------------------------------------
(* Properties.                                                             *)

\* The shift of every row is a shift of its period, so that the schedule shows it,
\* whatever was assigned, changed, substituted, removed or abandoned midway; only
\* two requests working on one period at the same time can break this.
RowsAreLinked ==
    \A x \in Slot : asg[x].on /\ asg[x].shift # NoShift /\ per[x] \notin raced =>
        asg[x].shift \in links[per[x]]

\* Every statement of scheduleAction keeps the types of the tables and every row
\* linked to its period.
RowsInv == TypeOK /\ RowsAreLinked

\* Comparing neighbours in the order of their starts finds an overlap of times
\* exactly when some two rows of the employee overlap.
Overlap(a, b) == a # b /\ T!RangeStart(a) < T!RangeEnd(b) /\ T!RangeStart(b) < T!RangeEnd(a)
OverlapCheckIsExact ==
    \A p \in Proc : At(p, "existing") => \A e \in req[p].who :
        LET rows == TimeRows(req[p], e)
        IN T!NeighboursOverlap(rows) <=> \E a, b \in rows : Overlap(a, b)

\* Of an assignment that nothing interferes with, no two shifts of an employee on
\* the days of the request overlap, and the days taken from other periods are planned.
\* (A request that is refused after it took them leaves them empty.)
AssignedIsSound ==
    [][\A p \in Proc : At(p, "create") /\ CreateRows(p) /\ req[p].alone =>
         /\ \A e \in req[p].who :
              LET rows == {<<"stored", d, asg'[<<e, d>>].shift>> :
                             d \in {k \in req[p].days : Works(asg'[<<e, k>>])}}
              IN ~ \E a, b \in rows : Overlap(a, b)
         /\ \A x \in req[p].taken : asg'[x].on]_vars

\* The rows of a locked period stay as they are: only a request of another period
\* that takes the day (reassign, substitute) deletes one.  A request that was already
\* in flight when the period was locked is not stopped.
LockedOnlyTaken ==
    [][\A x \in Slot : asg[x].on /\ per[x] \notin raced /\ status[per[x]] = "LOCKED"
         => \/ asg'[x] = asg[x] /\ per'[x] = per[x]
            \/ \E p \in Proc : req[p].period # per[x] /\ (TakeRows(p) \/ ReplaceRows(p))]_vars

\* Deleting a period takes no row of a clocked day, unless the day was clocked or
\* planned while the period was being deleted.
ClockedIsKept ==
    [][\A p \in Proc : req[p].op = "deletePeriod" /\ req[p].alone /\ (DropRows(p) \/ DropPeriod(p))
         => \A x \in clocked : asg[x].on => asg'[x].on]_vars
=============================================================================

--------------------------- MODULE AttendanceDays ---------------------------
(***************************************************************************)
(* One employee's clock events, attendance days, adjustment requests and   *)
(* shift-mismatch requests: clock, updateAttendanceDayClocks,              *)
(* createAttendanceAdjustment, reviewAttendanceAdjustment and              *)
(* reviewShiftMismatchRequest of operations.ts.  A request of a process p  *)
(* is a sequence of separately committed statements; what it has read is   *)
(* kept in req[p].  The columns is_locked and worked_minutes are left out: *)
(* no code sets the first, and no code reads the second.                   *)
(***************************************************************************)
EXTENDS ShiftTimes

CONSTANTS
    NDay,           \* days, numbered from 1
    Roster,         \* the assignments planned before the model starts
    PeriodShift,    \* active shifts linked to the schedule period
    Key, KindOf,    \* idempotency keys, and what is clocked with each
    Adj, Mismatch,  \* ids of adjustment and of mismatch requests
    Wishes,         \* times of day an adjustment may ask for
    Proc, Ops,      \* concurrent requests; the kinds that are made
    MaxRequests,    \* bound on their number
    Failures        \* may a request be abandoned midway?

Day == 1 .. NDay
Instant == 0 .. (NDay * MinutesPerDay - 1)
Kind == {"in", "out", "break"}
\* shift_assignments: off is a rest day or a leave day.
Plan == [shift : Shift \cup {NoShift}, off : BOOLEAN]
Wish == [in : Minute \cup {NoTime}, out : Minute \cup {NoTime}]

ASSUME AttendanceAssumption ==
    /\ NDay \in Nat \ {0} /\ Roster \subseteq [Day -> Plan]
    /\ PeriodShift \subseteq Shift /\ KindOf \in [Key -> Kind]
    /\ Wishes \subseteq {w \in Wish : w.in # NoTime \/ w.out # NoTime}
    /\ \A w \in Wishes : w.in # NoTime /\ w.out # NoTime => w.in < w.out
    /\ MaxRequests \in Nat /\ Failures \in BOOLEAN

VARIABLES
    now,       \* the server's clock
    events,    \* attendance_events, by idempotency key
    days,      \* attendance_days
    asg,       \* shift_assignments of the employee
    adj, mm,   \* attendance_adjustments, shift_mismatch_requests
    req,       \* the requests in flight
    made,      \* requests made so far
    raced,     \* history: days on which two requests overlapped
    replanned, \* history: days whose shift a planner changed
    torn       \* history: days on which a request was abandoned

histories == <<raced, replanned, torn>>
tables == <<events, days, asg, adj, mm>>
vars == <<now, tables, req, made, raced, replanned, torn>>

Time == Instant \cup {NoTime}
Event == [kind : Kind \cup {"none"}, at : Time]
NoEvent == [kind |-> "none", at |-> NoTime]
DayRow == [status : {"none", "INCOMPLETE", "PRESENT", "LATE", "ABSENT", "WRONG_SHIFT"},
           in : Time, out : Time, late : Nat, early : Nat,
           flag : {"none", "PENDING", "APPROVED", "REJECTED"}, adjusted : BOOLEAN]
NoDay == [status |-> "none", in |-> NoTime, out |-> NoTime, late |-> 0, early |-> 0,
          flag |-> "none", adjusted |-> FALSE]
Stored(row) == row.status # "none"
ReqStatus == {"none", "SUBMITTED", "APPROVED", "REJECTED"}

NoWish == [in |-> NoTime, out |-> NoTime]
NoPlan == [shift |-> NoShift, off |-> FALSE]
Idle == [op |-> "none", pc |-> "idle", key |-> {}, id |-> {}, day |-> 0, at |-> NoTime,
         wish |-> NoWish, row |-> NoDay, plan |-> NoPlan, from |-> NoShift, to |-> NoShift]

ReqType ==
    [op : {"none", "clock", "edit", "request", "approve", "reject", "move", "refuse"},
     pc : {"idle", "key", "prior", "events", "shift", "insert", "photo", "plan", "day",
           "flag", "pending", "file", "adjPending", "adjInsert", "adjRead", "adjPlan",
           "adjWrite", "adjAudit", "adjStatus", "mmFind", "mmMove", "mmRead", "mmWrite",
           "mmWrong", "mmFlag", "mmStatus"},
     key : SUBSET Key, id : SUBSET (Adj \cup Mismatch), day : 0 .. NDay, at : Time,
     wish : Wish, row : DayRow, plan : Plan,
     from : Shift \cup {NoShift}, to : Shift \cup {NoShift}]

TypeOK ==
    /\ now \in Instant
    /\ events \in [Key -> Event]
    /\ days \in [Day -> DayRow]
    /\ asg \in [Day -> Plan]
    /\ adj \in [Adj -> [status : ReqStatus, day : 0 .. NDay, wish : Wish]]
    /\ mm \in [Mismatch -> [status : ReqStatus, day : 0 .. NDay,
                            from : Shift \cup {NoShift}, to : Shift \cup {NoShift}]]
    /\ req \in [Proc -> ReqType]
    /\ made \in 0 .. MaxRequests
    /\ raced \subseteq Day /\ replanned \subseteq Day /\ torn \subseteq Day

Init ==
    /\ now = 0
    /\ events = [k \in Key |-> NoEvent]
    /\ days = [d \in Day |-> NoDay]
    /\ asg \in Roster
    /\ adj = [a \in Adj |-> [status |-> "none", day |-> 0, wish |-> NoWish]]
    /\ mm = [m \in Mismatch |-> [status |-> "none", day |-> 0, from |-> NoShift, to |-> NoShift]]
    /\ req = [p \in Proc |-> Idle] /\ made = 0
    /\ raced = {} /\ replanned = {} /\ torn = {}

-----------------------------------------------------------------------------
(* Control of a request.                                                   *)

At(p, pc) == req[p].pc = pc
Update(p, row) == req' = [req EXCEPT ![p] = row]
Goto(p, pc) == Update(p, [req[p] EXCEPT !.pc = pc])
Return(p) == Update(p, Idle)
\* p turns to a day, from where on it is in flight on it.
Enter(p, d, row) ==
    /\ Update(p, [row EXCEPT !.day = d])
    /\ raced' = IF \E q \in Proc \ {p} : req[q].day = d THEN raced \cup {d} ELSE raced
Begin(p, op) ==
    /\ op \in Ops /\ req[p] = Idle
    /\ made < MaxRequests /\ made' = made + 1
EventsOf(d, kind) ==
    {k \in Key : events[k].kind = kind /\ DayOf(events[k].at) = d}

-----------------------------------------------------------------------------
(* clock.  Position, geofence, photo and face checks may refuse the call   *)
(* before its first write: it then has not happened.                       *)

ClockStart(p, k) ==
    /\ Begin(p, "clock")
    /\ Update(p, [Idle EXCEPT !.op = "clock", !.pc = "key", !.key = {k}])
    /\ UNCHANGED <<now, tables, histories>>

\* A key that is known already is answered with its event, and nothing else.
LookUpKey(p) ==
    /\ At(p, "key")
    /\ \A k \in req[p].key : IF events[k] # NoEvent THEN Return(p) ELSE Goto(p, "prior")
    /\ UNCHANGED <<now, made, tables, histories>>

ReadPrior(p) ==
    /\ At(p, "prior")
    /\ Enter(p, DayOf(now), [req[p] EXCEPT !.pc = "events", !.at = now,
                                           !.row = days[DayOf(now)]])
    /\ UNCHANGED <<now, made, tables, replanned, torn>>

HasClocked_DayOnly(row, d, kind) ==   \* mutant: the events are not looked at
    IF kind = "in" THEN row.in # NoTime ELSE row.out # NoTime
HasClocked(row, d, kind) ==
    \/ IF kind = "in" THEN row.in # NoTime ELSE row.out # NoTime
    \/ EventsOf(d, kind) # {}

Refused(row, d, kind) ==
    \/ kind = "in" /\ HasClocked(row, d, "in")
    \/ kind = "out" /\ (~ HasClocked(row, d, "in") \/ HasClocked(row, d, "out"))

ReadEvents(p) ==
    /\ At(p, "events")
    /\ \A k \in req[p].key :
         IF Refused(req[p].row, req[p].day, KindOf[k]) THEN Return(p)
         ELSE Goto(p, IF KindOf[k] = "in" THEN "shift" ELSE "insert")
    /\ UNCHANGED <<now, made, tables, histories>>

\* resolveClockShiftMismatch; the employee confirms the suggested shift or gives up.
ResolveShift(p) ==
    /\ At(p, "shift")
    /\ LET d == req[p].day
           plan == asg[d]
       IN IF plan.shift = NoShift \/ plan.off THEN Goto(p, "insert")
          ELSE IF ~ IsMismatch(req[p].at, d, plan.shift) THEN Goto(p, "insert")
          ELSE \/ Return(p)
               \/ \E to \in Suggested(req[p].at, d, plan.shift, PeriodShift) :
                    Update(p, [req[p] EXCEPT !.pc = "insert", !.from = plan.shift, !.to = to])
    /\ UNCHANGED <<now, made, tables, histories>>

\* UNIQUE (employee_id, idempotency_key).
InsertEvent(p) ==
    /\ At(p, "insert")
    /\ \E k \in req[p].key :
         IF events[k] # NoEvent THEN Return(p) /\ UNCHANGED events
         ELSE /\ events' = [events EXCEPT ![k] = [kind |-> KindOf[k], at |-> req[p].at]]
              /\ Goto(p, "photo")
    /\ UNCHANGED <<now, made, days, asg, adj, mm, histories>>

\* A photo that cannot be stored takes its event with it, if that can be deleted.
SavePhoto(p) ==
    /\ At(p, "photo")
    /\ \/ Goto(p, "plan") /\ UNCHANGED <<events, torn>>
       \/ /\ events' = [k \in Key |-> IF k \in req[p].key THEN NoEvent ELSE events[k]]
          /\ Return(p) /\ UNCHANGED torn
       \/ /\ Failures /\ torn' = torn \cup {req[p].day}
          /\ Return(p) /\ UNCHANGED events
    /\ UNCHANGED <<now, made, days, asg, adj, mm, raced, replanned>>

ReadPlan(p) ==
    /\ At(p, "plan")
    /\ Update(p, [req[p] EXCEPT !.pc = "day", !.plan = asg[req[p].day]])
    /\ UNCHANGED <<now, made, tables, histories>>

ClockStatus(kind) == IF kind = "out" THEN "PRESENT" ELSE "INCOMPLETE"

\* The upsert: what is not clocked now is left as it is, the metrics come from
\* the row read before the event was written.
WriteDay(p) ==
    /\ At(p, "day")
    /\ \E k \in req[p].key :
         LET d == req[p].day
             kind == KindOf[k]
             prior == req[p].row
             in == IF kind = "in" /\ prior.in = NoTime THEN req[p].at ELSE prior.in
             out == IF kind = "out" THEN req[p].at ELSE prior.out
             m == Metrics(d, in, out, req[p].plan.shift)
         IN days' = [days EXCEPT
              ![d].status = ClockStatus(kind), ![d].late = m.late, ![d].early = m.early,
              ![d].in = IF kind = "in" THEN in ELSE @,
              ![d].out = IF kind = "out" THEN out ELSE @]
    /\ IF req[p].to = NoShift THEN Return(p) ELSE Goto(p, "flag")
    /\ UNCHANGED <<now, made, events, asg, adj, mm, histories>>

\* The error of this statement is swallowed.
Flag(p, d, flag, next) ==
    /\ \/ days' = [days EXCEPT ![d].flag = flag] /\ UNCHANGED torn
       \/ Failures /\ torn' = torn \cup {d} /\ UNCHANGED days
    /\ Goto(p, next)
    /\ UNCHANGED <<now, made, events, asg, adj, mm, raced, replanned>>

FlagPending(p) == At(p, "flag") /\ Flag(p, req[p].day, "PENDING", "pending")

CheckPending(p) ==
    /\ At(p, "pending")
    /\ IF \E m \in Mismatch : mm[m].status = "SUBMITTED" /\ mm[m].day = req[p].day
       THEN Return(p) ELSE Goto(p, "file")
    /\ UNCHANGED <<now, made, tables, histories>>

\* Mutant: the request is filed without its status.
FileMismatch_Decided(p) ==
    /\ At(p, "file")
    /\ \E m \in Mismatch :
         /\ mm[m].status = "none"
         /\ mm' = [mm EXCEPT ![m] = [status |-> "APPROVED", day |-> req[p].day,
                                     from |-> req[p].from, to |-> req[p].to]]
    /\ Return(p)
    /\ UNCHANGED <<now, made, events, days, asg, adj, histories>>

FileMismatch(p) ==
    /\ At(p, "file")
    /\ \E m \in Mismatch :
         /\ mm[m].status = "none"
         /\ mm' = [mm EXCEPT ![m] = [status |-> "SUBMITTED", day |-> req[p].day,
                                     from |-> req[p].from, to |-> req[p].to]]
    /\ Return(p)
    /\ UNCHANGED <<now, made, events, days, asg, adj, histories>>

-----------------------------------------------------------------------------
(* Adjustments: asked for and reviewed, or made by a manager on the spot.  *)

RequestStart(p, a, d, w) ==
    /\ Begin(p, "request")
    /\ adj[a].status = "none" /\ \A q \in Proc : a \notin req[q].id
    /\ Enter(p, d, [Idle EXCEPT !.op = "request", !.pc = "adjPending", !.id = {a}, !.wish = w])
    /\ UNCHANGED <<now, tables, replanned, torn>>

CheckAdjPending(p) ==
    /\ At(p, "adjPending")
    /\ IF \E a \in Adj : adj[a].status = "SUBMITTED" /\ adj[a].day = req[p].day
       THEN Return(p) ELSE Goto(p, "adjInsert")
    /\ UNCHANGED <<now, made, tables, histories>>

InsertAdj(p) ==
    /\ At(p, "adjInsert")
    /\ \E a \in req[p].id :
         adj' = [adj EXCEPT ![a] = [status |-> "SUBMITTED", day |-> req[p].day,
                                    wish |-> req[p].wish]]
    /\ Return(p)
    /\ UNCHANGED <<now, made, events, days, asg, mm, histories>>

\* updateAttendanceDayClocks.
EditStart(p, d, w) ==
    /\ Begin(p, "edit")
    /\ Enter(p, d, [Idle EXCEPT !.op = "edit", !.pc = "adjRead", !.wish = w])
    /\ UNCHANGED <<now, tables, replanned, torn>>

Reviewable_Any(a) == adj[a].status # "none"   \* mutant
Reviewable(a) == adj[a].status = "SUBMITTED"

ReviewStart(p, a, op) ==
    /\ Begin(p, op) /\ Reviewable(a)
    /\ Enter(p, adj[a].day, [Idle EXCEPT !.op = op, !.id = {a}, !.wish = adj[a].wish,
                                        !.pc = IF op = "approve" THEN "adjRead" ELSE "adjStatus"])
    /\ UNCHANGED <<now, tables, replanned, torn>>

\* applyAttendanceAdjustmentToDay: the day, the assignment, the upsert.
AdjRead(p) ==
    /\ At(p, "adjRead")
    /\ Update(p, [req[p] EXCEPT !.pc = "adjPlan", !.row = days[req[p].day]])
    /\ UNCHANGED <<now, made, tables, histories>>

AdjPlan(p) ==
    /\ At(p, "adjPlan")
    /\ Update(p, [req[p] EXCEPT !.pc = "adjWrite", !.plan = asg[req[p].day]])
    /\ UNCHANGED <<now, made, tables, histories>>

OrElse_Clears(d, wished, stored) ==   \* mutant: what is not asked for is cleared
    IF wished # NoTime THEN Midnight(d) + wished ELSE NoTime
OrElse(d, wished, stored) == IF wished # NoTime THEN Midnight(d) + wished ELSE stored

Adjusted(row, d, w, shift) ==
    LET in == OrElse(d, w.in, row.in)
        out == OrElse(d, w.out, row.out)
        m == Metrics(d, in, out, shift)
    IN [status |-> IF in # NoTime /\ out # NoTime
                   THEN IF m.late > 0 THEN "LATE" ELSE "PRESENT"
                   ELSE IF in # NoTime THEN "INCOMPLETE" ELSE "ABSENT",
        in |-> in, out |-> out, late |-> m.late, early |-> m.early,
        flag |-> "none", adjusted |-> TRUE]

AdjWrite(p) ==
    /\ At(p, "adjWrite")
    /\ LET d == req[p].day
           new == Adjusted(req[p].row, d, req[p].wish, req[p].plan.shift)
       IN days' = [days EXCEPT ![d] = [new EXCEPT !.flag = days[d].flag]]
    /\ Goto(p, IF req[p].op = "edit" THEN "adjAudit" ELSE "adjStatus")
    /\ UNCHANGED <<now, made, events, asg, adj, mm, histories>>

\* The edit leaves an approved adjustment behind, if that can be inserted.
AdjAudit(p) ==
    /\ At(p, "adjAudit")
    /\ \/ \E a \in Adj : /\ adj[a].status = "none" /\ \A q \in Proc : a \notin req[q].id
                          /\ adj' = [adj EXCEPT ![a] = [status |-> "APPROVED",
                                             day |-> req[p].day, wish |-> req[p].wish]]
       \/ UNCHANGED adj
    /\ Return(p)
    /\ UNCHANGED <<now, made, events, days, asg, mm, histories>>

Verdict(op) == IF op \in {"approve", "move"} THEN "APPROVED" ELSE "REJECTED"

AdjStatus(p) ==
    /\ At(p, "adjStatus")
    /\ \E a \in req[p].id : adj' = [adj EXCEPT ![a].status = Verdict(req[p].op)]
    /\ Return(p)
    /\ UNCHANGED <<now, made, events, days, asg, mm, histories>>

-----------------------------------------------------------------------------
(* reviewShiftMismatchRequest, with applyApprovedShiftMismatchMove.        *)

MismatchStart(p, m, op) ==
    /\ Begin(p, op) /\ mm[m].status = "SUBMITTED"
    /\ Enter(p, mm[m].day, [Idle EXCEPT !.op = op, !.id = {m}, !.from = mm[m].from,
              !.to = mm[m].to, !.pc = IF op = "move" THEN "mmFind" ELSE "mmWrong"])
    /\ UNCHANGED <<now, tables, replanned, torn>>

\* NOT_FOUND when the assignment is no longer on the shift it is moved from.
FindShift(p) ==
    /\ At(p, "mmFind")
    /\ IF asg[req[p].day].shift # req[p].from THEN Return(p) ELSE Goto(p, "mmMove")
    /\ UNCHANGED <<now, made, tables, histories>>

\* The row is updated by its id, whatever its shift is by now.
MoveShift(p) ==
    /\ At(p, "mmMove")
    /\ asg' = [asg EXCEPT ![req[p].day].shift = req[p].to]
    /\ Goto(p, "mmRead")
    /\ UNCHANGED <<now, made, events, days, adj, mm, histories>>

ReadMoved(p) ==
    /\ At(p, "mmRead")
    /\ LET row == days[req[p].day]
       IN Update(p, [req[p] EXCEPT !.row = row, !.pc = IF Stored(row) THEN "mmWrite" ELSE "mmStatus"])
    /\ UNCHANGED <<now, made, tables, histories>>

NewShift_Left(p) == req[p].from   \* mutant
NewShift(p) == req[p].to

WriteMoved(p) ==
    /\ At(p, "mmWrite")
    /\ LET d == req[p].day
           row == req[p].row
           m == Metrics(d, row.in, row.out, NewShift(p))
           status == IF row.in = NoTime \/ row.out = NoTime THEN "INCOMPLETE"
                     ELSE IF m.late > 0 THEN "LATE" ELSE "PRESENT"
       IN days' = [days EXCEPT ![d].status = status, ![d].late = m.late, ![d].early = m.early]
    /\ Goto(p, "mmFlag")
    /\ UNCHANGED <<now, made, events, asg, adj, mm, histories>>

MarkWrongShift(p) ==
    /\ At(p, "mmWrong")
    /\ days' = [days EXCEPT ![req[p].day].status = IF Stored(days[req[p].day]) THEN "WRONG_SHIFT" ELSE @]
    /\ Goto(p, "mmFlag")
    /\ UNCHANGED <<now, made, events, asg, adj, mm, histories>>

FlagDecided(p) ==
    At(p, "mmFlag") /\ Flag(p, req[p].day, Verdict(req[p].op), "mmStatus")

MismatchStatus(p) ==
    /\ At(p, "mmStatus")
    /\ \E m \in req[p].id : mm' = [mm EXCEPT ![m].status = Verdict(req[p].op)]
    /\ Return(p)
    /\ UNCHANGED <<now, made, events, days, asg, adj, histories>>

-----------------------------------------------------------------------------
(* The rest of the world.                                                  *)

Tick ==
    /\ now + 1 \in Instant
    /\ now' = now + 1
    /\ UNCHANGED <<tables, req, made, histories>>

\* A planner changes the shift of a day (scheduleAction, changeShift).
Replan(d, s) ==
    /\ "plan" \in Ops /\ asg[d].shift \notin {NoShift, s}
    /\ asg' = [asg EXCEPT ![d].shift = s]
    /\ replanned' = replanned \cup {d}
    /\ UNCHANGED <<now, made, events, days, adj, mm, req, raced, torn>>

\* A database error, a timeout or a stopped server: the request ends here.
Fail(p) ==
    /\ Failures /\ req[p].day # 0
    /\ torn' = torn \cup {req[p].day}
    /\ Return(p)
    /\ UNCHANGED <<now, made, tables, raced, replanned>>

StartStep(p) ==
    \/ \E k \in Key : ClockStart(p, k)
    \/ \E d \in Day, w \in Wishes : EditStart(p, d, w) \/ \E a \in Adj : RequestStart(p, a, d, w)
    \/ \E a \in Adj : ReviewStart(p, a, "approve") \/ ReviewStart(p, a, "reject")
    \/ \E m \in Mismatch : MismatchStart(p, m, "move") \/ MismatchStart(p, m, "refuse")

RunStep(p) ==
    \/ LookUpKey(p) \/ ReadPrior(p) \/ ReadEvents(p) \/ ResolveShift(p) \/ InsertEvent(p)
    \/ SavePhoto(p) \/ ReadPlan(p) \/ WriteDay(p) \/ FlagPending(p) \/ CheckPending(p)
    \/ FileMismatch(p)
    \/ CheckAdjPending(p) \/ InsertAdj(p) \/ AdjRead(p) \/ AdjPlan(p) \/ AdjWrite(p)
    \/ AdjAudit(p) \/ AdjStatus(p)
    \/ FindShift(p) \/ MoveShift(p) \/ ReadMoved(p) \/ WriteMoved(p) \/ MarkWrongShift(p) \/ FlagDecided(p)
    \/ MismatchStatus(p)

Next ==
    \/ \E p \in Proc : StartStep(p) \/ RunStep(p) \/ Fail(p)
    \/ Tick
    \/ \E d \in Day, s \in PeriodShift : Replan(d, s)

Spec == Init /\ [][Next]_vars

-----------------------------------------------------------------------------
(* Properties.  A day is settled when nothing is in flight on it, no        *)
(* request on it was abandoned and no two of them overlapped.              *)

Settled(d) == d \notin raced \cup torn /\ \A p \in Proc : req[p].day # d

\* A clock-in or clock-out that no adjustment explains stands on a clock event of
\* that minute, whatever overlaps, fails or is retried.
DayIsBacked ==
    \A d \in Day : ~ days[d].adjusted =>
        /\ days[d].in # NoTime => \E k \in EventsOf(d, "in") : events[k].at = days[d].in
        /\ days[d].out # NoTime => \E k \in EventsOf(d, "out") : events[k].at = days[d].out

\* operations.ts: "Keep AttendanceDay in sync so self-service / reports can show
\* the day row": what was clocked is on the day, at the minute it was clocked
\* unless an adjustment changed it.
EventsAreShown ==
    \A d \in Day : Settled(d) =>
        /\ \A k \in EventsOf(d, "in") :
              days[d].in # NoTime /\ (~ days[d].adjusted => days[d].in = events[k].at)
        /\ \A k \in EventsOf(d, "out") :
              days[d].out # NoTime /\ (~ days[d].adjusted => days[d].out = events[k].at)

\* The tables keep their types and, together with the two properties above, form
\* what every statement of clock, of an adjustment and of a review keeps of a day.
DayInv == TypeOK /\ DayIsBacked /\ EventsAreShown

\* However often a request is retried after it was abandoned, a day has at most
\* one clock-in and one clock-out; only two requests at the same time add more.
ClockedOnce ==
    \A d \in Day \ raced : Cardinality(EventsOf(d, "in")) <= 1
                            /\ Cardinality(EventsOf(d, "out")) <= 1

\* Late and early minutes are those of the clocked times and of the shift the
\* employee is on, after every order of clocking, adjusting and moving.
MetricsAreCurrent ==
    \A d \in Day \ replanned : Settled(d) /\ Stored(days[d]) =>
        Metrics(d, days[d].in, days[d].out, asg[d].shift)
          = [late |-> days[d].late, early |-> days[d].early]

\* A day waits for a decision on its shift exactly while a request asks for one.
PendingHasRequest ==
    \A d \in Day : Settled(d) =>
        (days[d].flag = "PENDING"
           <=> \E m \in Mismatch : mm[m].status = "SUBMITTED" /\ mm[m].day = d)

\* A decision on an adjustment is final, unless two reviews of it overlap.
DecidedIsFinal ==
    [][\A a \in Adj : adj[a].status \in {"APPROVED", "REJECTED"} /\ adj[a].day \notin raced
         => adj'[a].status = adj[a].status]_vars
=============================================================================

------------------------ MODULE AttendanceDays_proofs ------------------------
(***************************************************************************)
(* Theorems about AttendanceDays, for any number of days, shifts, clock    *)
(* events, adjustments, shift-mismatch requests and concurrent requests,   *)
(* with every failure: days agree with the events, nobody clocks twice,    *)
(* late and early minutes are current, flags have their request, and a     *)
(* decision on an adjustment is final.                                     *)
(***************************************************************************)
EXTENDS AttendanceDays, FiniteSetTheorems, TLAPS

-----------------------------------------------------------------------------
(* What a request in flight holds.                                         *)

ClockPc == {"key", "prior", "events", "shift", "insert", "photo", "plan", "day",
            "flag", "pending", "file"}

\* The statements of each kind of request.
OpFits(r) ==
    /\ r.pc = "idle" <=> r.op = "none"
    /\ r.pc \in ClockPc <=> r.op = "clock"
    /\ r.pc \in {"adjPending", "adjInsert"} <=> r.op = "request"
    /\ r.pc \in {"adjRead", "adjPlan", "adjWrite"} => r.op \in {"edit", "approve"}
    /\ r.pc = "adjAudit" => r.op = "edit"
    /\ r.pc = "adjStatus" => r.op \in {"approve", "reject"}
    /\ r.pc \in {"mmFind", "mmMove", "mmRead", "mmWrite"} => r.op = "move"
    /\ r.pc = "mmWrong" => r.op = "refuse"
    /\ r.pc \in {"mmFlag", "mmStatus"} => r.op \in {"move", "refuse"}

RequestFits(r) ==
    /\ OpFits(r)
    /\ r.pc \in {"idle", "key", "prior"} <=> r.day = 0
    /\ r.op = "clock" => \E k \in Key : r.key = {k}
    /\ r.op \in {"request", "approve", "reject"} => \E a \in Adj : r.id = {a}
    /\ r.op \in {"move", "refuse"} => \E m \in Mismatch : r.id = {m}
    /\ r.op = "clock" /\ r.day # 0 => r.at \in Instant /\ r.day = DayOf(r.at)

RequestInv == \A p \in Proc : RequestFits(req[p])

\* What is asked for is asked for on a day.
AsksForDay ==
    /\ \A a \in Adj : adj[a].status # "none" => adj[a].day # 0
    /\ \A m \in Mismatch : mm[m].status # "none" => mm[m].day # 0

\* Only what has been asked for is reviewed.
Reviewed ==
    \A p \in Proc :
        /\ req[p].op \in {"approve", "reject"} =>
             \A a \in Adj : a \in req[p].id => adj[a].status # "none"
        /\ req[p].op \in {"move", "refuse"} =>
             \A m \in Mismatch : m \in req[p].id => mm[m].status # "none"

Typed == TypeOK /\ RequestInv /\ AsksForDay /\ Reviewed

\* A day that is not raced is the day of at most one request in flight.
OneAtATime == \A p, q \in Proc : p # q /\ req[p].day = req[q].day => req[p].day \in raced \cup {0}

-----------------------------------------------------------------------------
(* Clock events and the days that show them.                               *)

\* p has inserted its event and not yet written the day.
Holding(p) == req[p].pc \in {"photo", "plan", "day"}
HasKey(p, k) == k \in req[p].key

EventFits ==
    /\ \A k \in Key : events[k] # NoEvent => events[k].kind = KindOf[k] /\ events[k].at \in Instant
    /\ \A p \in Proc, k \in Key : Holding(p) /\ HasKey(p, k) =>
          /\ events[k] = [kind |-> KindOf[k], at |-> req[p].at]
          /\ \A q \in Proc \ {p} : Holding(q) => ~ HasKey(q, k)

\* What a request remembers of a day that is not raced is still so.
RowIsCurrent ==
    \A p \in Proc :
        /\ req[p].day \notin raced
        /\ req[p].pc \in {"events", "shift", "insert", "photo", "plan", "day",
                          "adjPlan", "adjWrite", "mmWrite"}
        => req[p].row = days[req[p].day]

\* A clock-in or clock-out that was not refused finds none before it.
NoneBefore ==
    \A p \in Proc, k \in Key : HasKey(p, k) =>
        /\ req[p].pc \in {"shift", "insert", "photo", "plan", "day"} =>
             /\ KindOf[k] = "in" => req[p].row.in = NoTime
             /\ req[p].day \notin raced /\ KindOf[k] # "break" =>
                  \A j \in Key \ {k} : events[j].kind = KindOf[k] => DayOf(events[j].at) # req[p].day
        /\ req[p].pc = "shift" => KindOf[k] = "in"

\* Clocking a kind other than a break happens once.
OneEventPerKind ==
    \A d \in Day \ raced, kind \in {"in", "out"} :
        \A j, k \in EventsOf(d, kind) : j = k

Safe(k) == \A p \in Proc : req[p].pc = "photo" => ~ HasKey(p, k)
Backed ==
    \A d \in Day : ~ days[d].adjusted =>
        /\ days[d].in # NoTime => \E k \in EventsOf(d, "in") : Safe(k) /\ events[k].at = days[d].in
        /\ days[d].out # NoTime => \E k \in EventsOf(d, "out") : Safe(k) /\ events[k].at = days[d].out

Written(k) == \A p \in Proc : Holding(p) => ~ HasKey(p, k)
ShownIn(d, k) == days[d].in # NoTime /\ (~ days[d].adjusted => days[d].in = events[k].at)
ShownOut(d, k) == days[d].out # NoTime /\ (~ days[d].adjusted => days[d].out = events[k].at)
Shown ==
    \A d \in Day \ (raced \cup torn) :
        /\ \A k \in EventsOf(d, "in") : Written(k) => ShownIn(d, k)
        /\ \A k \in EventsOf(d, "out") : Written(k) => ShownOut(d, k)

-----------------------------------------------------------------------------
(* Late and early minutes.                                                 *)

MetricsFit(d) ==
    Metrics(d, days[d].in, days[d].out, asg[d].shift) = [late |-> days[d].late, early |-> days[d].early]

\* p has moved the shift of its day and not yet counted the minutes anew.
Moving(p) == req[p].pc \in {"mmRead", "mmWrite"}
PlanIsCurrent ==
    \A p \in Proc : req[p].day \notin raced \cup replanned =>
        /\ req[p].pc \in {"day", "adjWrite"} => req[p].plan = asg[req[p].day]
        /\ Moving(p) => asg[req[p].day].shift = req[p].to
MetricsInv ==
    \A d \in Day \ (raced \cup replanned \cup torn) :
        Stored(days[d]) /\ (\A p \in Proc : req[p].day = d => ~ Moving(p)) => MetricsFit(d)

-----------------------------------------------------------------------------
(* Requests for a decision on a shift.                                     *)

Asks(m, d) == mm[m].status = "SUBMITTED" /\ mm[m].day = d

PendingIsStored ==
    /\ \A d \in Day : days[d].flag = "PENDING" => Stored(days[d])
    /\ \A p \in Proc : req[p].pc = "flag" => Stored(days[req[p].day])

AsksOnce ==
    /\ \A d \in Day \ raced : \A m, n \in Mismatch : Asks(m, d) /\ Asks(n, d) => m = n
    /\ \A p \in Proc : req[p].pc = "file" /\ req[p].day \notin raced =>
          \A m \in Mismatch : ~ Asks(m, req[p].day)
    /\ \A p \in Proc, m \in Mismatch : req[p].op \in {"move", "refuse"} /\ m \in req[p].id =>
          mm[m].status # "none" /\ mm[m].day = req[p].day
           /\ (req[p].day \notin raced => mm[m].status = "SUBMITTED")

FlagFits ==
    \A d \in Day \ (raced \cup torn) :
        /\ (\A p \in Proc : req[p].day = d => req[p].pc \notin {"pending", "file", "mmStatus"})
             => (days[d].flag = "PENDING" <=> \E m \in Mismatch : Asks(m, d))
        /\ \A p \in Proc : req[p].day = d =>
             /\ req[p].pc \in {"pending", "file"} => days[d].flag = "PENDING"
             /\ req[p].pc = "mmStatus" => days[d].flag # "PENDING"

-----------------------------------------------------------------------------
(* Decisions on adjustments.                                               *)

DecisionInv ==
    /\ \A p \in Proc, a \in Adj : req[p].op \in {"approve", "reject"} /\ a \in req[p].id =>
          /\ adj[a].status # "none" /\ adj[a].day = req[p].day
          /\ req[p].day \notin raced => adj[a].status = "SUBMITTED"
    /\ \A p \in Proc, a \in Adj : req[p].op = "request" /\ a \in req[p].id =>
          /\ adj[a].status = "none"
          /\ \A q \in Proc \ {p} : req[q].op = "request" => a \notin req[q].id

-----------------------------------------------------------------------------
(* Days and minutes.                                                       *)

LEMMA DayOfMinute ==
    ASSUME NEW d \in Day, NEW w \in Minute
    PROVE  Midnight(d) + w \in Instant /\ DayOf(Midnight(d) + w) = d
<1> DEFINE M == MinutesPerDay
           t == (d - 1) * M + w
<1>1. /\ M \in Nat \ {0} /\ NDay \in Nat \ {0} /\ d \in 1 .. NDay /\ w \in 0 .. (M - 1)
  BY ClockAssumption, AttendanceAssumption DEF Day, Minute
<1> HIDE DEF M
<1>2. t \in Nat
  BY <1>1
<1>3. t <= NDay * M - 1
  <2>1. (d - 1) * M + M = d * M
    BY <1>1
  <2>2. d * M <= NDay * M
    BY <1>1
  <2> QED BY <1>1, <2>1, <2>2
<1>4. t \div M = d - 1
  BY <1>1
<1> QED BY <1>1, <1>2, <1>3, <1>4 DEF Midnight, Instant, DayOf, M

LEMMA InstantHasDay ==
    ASSUME NEW t \in Instant
    PROVE  DayOf(t) \in Day
<1> DEFINE M == MinutesPerDay
           q == t \div M
<1>1. M \in Nat \ {0} /\ NDay \in Nat \ {0} /\ t \in 0 .. (NDay * M - 1)
  BY ClockAssumption, AttendanceAssumption DEF Instant
<1> HIDE DEF M
<1>2. q \in Nat /\ q * M <= t
  BY <1>1
<1> HIDE DEF q
<1>3. q < NDay
  <2> SUFFICES ASSUME q >= NDay PROVE FALSE
    BY <1>1, <1>2
  <2>1. q * M >= NDay * M
    BY <1>1, <1>2
  <2> QED BY <1>1, <1>2, <2>1
<1> QED BY <1>1, <1>2, <1>3 DEF DayOf, Day, M, q

-----------------------------------------------------------------------------
(* Requests keep their types and fit what they are doing.                  *)

Pc == {"idle", "key", "prior", "events", "shift", "insert", "photo", "plan", "day",
       "flag", "pending", "file", "adjPending", "adjInsert", "adjRead", "adjPlan",
       "adjWrite", "adjAudit", "adjStatus", "mmFind", "mmMove", "mmRead", "mmWrite",
       "mmWrong", "mmFlag", "mmStatus"}

LEMMA IdleFits == Idle \in ReqType /\ RequestFits(Idle)
<1>1. NoWish \in Wish /\ NoPlan \in Plan /\ NoTime \in Time
  BY DEF NoWish, Wish, NoPlan, Plan, Time
<1>2. NoDay \in DayRow
  BY <1>1 DEF NoDay, DayRow
<1>3. 0 \in 0 .. NDay
  BY AttendanceAssumption
<1>4. Idle \in ReqType
  BY <1>1, <1>2, <1>3 DEF Idle, ReqType
<1>5. RequestFits(Idle)
  BY DEF Idle, RequestFits, OpFits, ClockPc
<1> QED BY <1>4, <1>5

LEMMA PcField ==
    ASSUME NEW r \in ReqType, NEW pc \in Pc
    PROVE  LET s == [r EXCEPT !.pc = pc]
           IN /\ s \in ReqType /\ s.pc = pc /\ s.op = r.op /\ s.key = r.key /\ s.id = r.id
              /\ s.day = r.day /\ s.at = r.at /\ s.wish = r.wish /\ s.row = r.row
              /\ s.plan = r.plan /\ s.from = r.from /\ s.to = r.to
BY DEF ReqType, Pc

\* A statement of p leaves the other requests alone.
LEMMA UpdateStep ==
    ASSUME TypeOK, RequestInv, NEW p \in Proc, NEW r \in ReqType, RequestFits(r), Update(p, r)
    PROVE  req' \in [Proc -> ReqType] /\ RequestInv' /\ req'[p] = r
           /\ \A q \in Proc \ {p} : req'[q] = req[q]
BY DEF TypeOK, RequestInv, Update

LEMMA ReturnStep ==
    ASSUME TypeOK, RequestInv, NEW p \in Proc, Return(p)
    PROVE  req' \in [Proc -> ReqType] /\ RequestInv' /\ req'[p] = Idle
           /\ \A q \in Proc \ {p} : req'[q] = req[q]
BY IdleFits, UpdateStep DEF Return

LEMMA GotoStep ==
    ASSUME TypeOK, RequestInv, NEW p \in Proc, NEW pc \in Pc, Goto(p, pc),
           OpFits([req[p] EXCEPT !.pc = pc]),
           pc \in {"idle", "key", "prior"} <=> req[p].pc \in {"idle", "key", "prior"}
    PROVE  /\ req' \in [Proc -> ReqType] /\ RequestInv' /\ req'[p] = [req[p] EXCEPT !.pc = pc]
           /\ \A q \in Proc \ {p} : req'[q] = req[q]
<1>1. req[p] \in ReqType /\ RequestFits(req[p])
  BY DEF TypeOK, RequestInv
<1> DEFINE r == [req[p] EXCEPT !.pc = pc]
<1>2. r \in ReqType /\ RequestFits(r)
  BY <1>1, PcField DEF RequestFits
<1> QED BY <1>2, UpdateStep DEF Goto

LEMMA MetricsType ==
    ASSUME NEW d \in Day, NEW in \in Time, NEW out \in Time, NEW s \in Shift \cup {NoShift}
    PROVE  Metrics(d, in, out, s) \in [late : Nat, early : Nat]
<1>1. in \in Int /\ out \in Int
  BY ClockAssumption, AttendanceAssumption DEF Time, Instant, NoTime
<1>2. CASE in = NoTime \/ s = NoShift
  BY <1>2 DEF Metrics
<1>3. CASE ~ (in = NoTime \/ s = NoShift)
  <2>1. s \in Shift
    BY <1>3
  <2>2. /\ StartMin[s] \in Int /\ EndMin[s] \in Int /\ GraceLate[s] \in Nat /\ GraceEarly[s] \in Nat
        /\ MinutesPerDay \in Nat
    BY <2>1, ClockAssumption, ShiftTimesAssumption DEF Minute
  <2>3. Midnight(d) \in Int
    BY <2>2 DEF Midnight, Day
  <2>4. ScheduledStart(d, s) \in Int
    BY <2>2, <2>3 DEF ScheduledStart
  <2>5. WindowSpan(s) \in Int
    BY <2>2 DEF WindowSpan, NotNegative
  <2>6. ScheduledEnd(d, s) \in Int
    BY <2>4, <2>5 DEF ScheduledEnd
  <2>7. \A n \in Int : NotNegative(n) \in Nat
    BY DEF NotNegative
  <2> QED BY <1>1, <1>3, <2>2, <2>4, <2>6, <2>7 DEF Metrics
<1> QED BY <1>2, <1>3

LEMMA DayField ==
    ASSUME NEW r \in ReqType, NEW d \in Day
    PROVE  LET s == [r EXCEPT !.day = d]
           IN /\ s \in ReqType /\ s.pc = r.pc /\ s.op = r.op /\ s.key = r.key /\ s.id = r.id
              /\ s.day = d /\ d # 0 /\ s.at = r.at /\ s.wish = r.wish /\ s.row = r.row
              /\ s.plan = r.plan /\ s.from = r.from /\ s.to = r.to
BY AttendanceAssumption DEF ReqType, Day

\* What a step of p keeps of the requests, with the day it may turn to.
LEMMA EnterStep ==
    ASSUME TypeOK, RequestInv, NEW p \in Proc, NEW d \in Day, NEW r \in ReqType, Enter(p, d, r),
           RequestFits([r EXCEPT !.day = d])
    PROVE  /\ req' \in [Proc -> ReqType] /\ RequestInv' /\ raced' \subseteq Day
           /\ \A q \in Proc \ {p} : req'[q] = req[q]
           /\ req'[p].op = r.op /\ req'[p].pc = r.pc /\ req'[p].id = r.id /\ req'[p].day = d
           /\ req'[p].key = r.key /\ req'[p].at = r.at /\ req'[p].row = r.row
<1>1. [r EXCEPT !.day = d] \in ReqType
  BY AttendanceAssumption DEF ReqType, Day
<1>2. Update(p, [r EXCEPT !.day = d]) /\ raced' \subseteq Day
  BY DEF Enter, TypeOK
<1>3. req'[p] = [r EXCEPT !.day = d]
  BY <1>1, <1>2, UpdateStep
<1>4. /\ req'[p].op = r.op /\ req'[p].pc = r.pc /\ req'[p].id = r.id /\ req'[p].day = d
      /\ req'[p].key = r.key /\ req'[p].at = r.at /\ req'[p].row = r.row
  BY <1>3, DayField
<1> QED BY <1>1, <1>2, <1>4, UpdateStep

LEMMA BeginStep ==
    ASSUME TypeOK, NEW p \in Proc, NEW op, Begin(p, op)
    PROVE  req[p] = Idle /\ made' \in 0 .. MaxRequests
BY AttendanceAssumption DEF TypeOK, Begin

\* What a request holds that is about a day.
LEMMA RowFacts ==
    ASSUME TypeOK, RequestInv, NEW p \in Proc
    PROVE  /\ req[p] \in ReqType /\ RequestFits(req[p]) /\ OpFits(req[p])
           /\ req[p].pc \notin {"idle", "key", "prior"} => req[p].day \in Day
           /\ req[p].pc \in Pc /\ req[p].key \subseteq Key /\ req[p].at \in Time
           /\ req[p].wish \in Wish /\ req[p].row \in DayRow /\ req[p].plan \in Plan
           /\ req[p].from \in Shift \cup {NoShift} /\ req[p].to \in Shift \cup {NoShift}
<1>1. req[p] \in ReqType /\ RequestFits(req[p])
  BY DEF TypeOK, RequestInv
<1>2. req[p].pc \notin {"idle", "key", "prior"} => req[p].day \in Day
  BY <1>1, AttendanceAssumption DEF ReqType, RequestFits, Day
<1> QED BY <1>1, <1>2 DEF RequestFits, ReqType, Pc

LEMMA DayFields ==
    ASSUME NEW row \in DayRow
    PROVE  /\ row.status \in {"none", "INCOMPLETE", "PRESENT", "LATE", "ABSENT", "WRONG_SHIFT"}
           /\ row.in \in Time /\ row.out \in Time /\ row.late \in Nat /\ row.early \in Nat
           /\ row.flag \in {"none", "PENDING", "APPROVED", "REJECTED"} /\ row.adjusted \in BOOLEAN
BY DEF DayRow

-----------------------------------------------------------------------------
(* Every statement keeps the types.                                        *)

\* A step that leaves the tables alone.
LEMMA TablesKept ==
    ASSUME Typed, UNCHANGED tables, now' \in Instant, made' \in 0 .. MaxRequests,
           req' \in [Proc -> ReqType], RequestInv', raced' \subseteq Day, replanned' \subseteq Day, torn' \subseteq Day,
           Reviewed'
    PROVE  Typed'
BY DEF Typed, TypeOK, AsksForDay, tables

\* Statuses are never taken back to none.
StatusesKept ==
    /\ \A a \in Adj : adj'[a].status = "none" => adj[a].status = "none"
    /\ \A m \in Mismatch : mm'[m].status = "none" => mm[m].status = "none"

LEMMA ReviewedStep ==
    ASSUME Typed, StatusesKept, NEW p \in Proc, \A q \in Proc \ {p} : req'[q] = req[q],
           \/ req'[p].op \notin {"approve", "reject", "move", "refuse"}
           \/ req'[p].op = req[p].op /\ req'[p].id = req[p].id
    PROVE  Reviewed'
BY DEF Typed, Reviewed, StatusesKept

LEMMA AskedDay ==
    ASSUME Typed
    PROVE  /\ \A a \in Adj : adj[a].status # "none" => adj[a].day \in Day /\ adj[a].wish \in Wish
           /\ \A m \in Mismatch : mm[m].status # "none" =>
                /\ mm[m].day \in Day /\ mm[m].from \in Shift \cup {NoShift}
                /\ mm[m].to \in Shift \cup {NoShift}
<1>1. /\ \A a \in Adj : adj[a].day \in 0 .. NDay /\ adj[a].wish \in Wish
      /\ \A m \in Mismatch : /\ mm[m].day \in 0 .. NDay /\ mm[m].from \in Shift \cup {NoShift}
                               /\ mm[m].to \in Shift \cup {NoShift}
  BY DEF Typed, TypeOK
<1> QED BY <1>1, AttendanceAssumption DEF Typed, AsksForDay, Day

LEMMA WishType == Wishes \subseteq Wish
BY AttendanceAssumption

LEMMA StartTyped ==
    ASSUME Typed, NEW p \in Proc, StartStep(p)
    PROVE  Typed'
<1> USE DEF Typed
<1>1. ASSUME NEW k \in Key, ClockStart(p, k) PROVE Typed'
  <2> DEFINE r == [Idle EXCEPT !.op = "clock", !.pc = "key", !.key = {k}]
  <2>1. r \in ReqType /\ r.op = "clock" /\ r.pc = "key" /\ r.key = {k} /\ r.day = 0
    BY IdleFits DEF ReqType, Idle
  <2>2. RequestFits(r)
    BY <2>1 DEF RequestFits, OpFits, ClockPc
  <2>3. Update(p, r) /\ UNCHANGED <<now, tables, histories>> /\ made' \in 0 .. MaxRequests
    BY <1>1, BeginStep DEF ClockStart
  <2>4. Reviewed'
    BY <2>1, <2>2, <2>3, UpdateStep, ReviewedStep DEF StatusesKept, tables
  <2> QED BY <2>1, <2>2, <2>3, <2>4, UpdateStep, TablesKept DEF TypeOK, histories
<1>2. ASSUME NEW d \in Day, NEW w \in Wishes, EditStart(p, d, w) PROVE Typed'
  <2> DEFINE r == [Idle EXCEPT !.op = "edit", !.pc = "adjRead", !.wish = w]
             s == [r EXCEPT !.day = d]
  <2>1. r \in ReqType /\ r.op = "edit" /\ r.pc = "adjRead"
    BY IdleFits, WishType DEF ReqType
  <2> HIDE DEF r
  <2>2. RequestFits(s)
    <3>1. s.op = r.op /\ s.pc = r.pc /\ s.id = r.id /\ s.day = d /\ d # 0
      BY <2>1, DayField
    <3> HIDE DEF s
    <3> QED BY <2>1, <3>1 DEF RequestFits, OpFits, ClockPc
  <2>3. Enter(p, d, r) /\ UNCHANGED <<now, tables, replanned, torn>> /\ made' \in 0 .. MaxRequests
    BY <1>2, BeginStep DEF EditStart, r
  <2>4. req'[p].op = r.op /\ \A q \in Proc \ {p} : req'[q] = req[q]
    BY <2>1, <2>2, <2>3, EnterStep
  <2>5. Reviewed'
    BY <2>1, <2>3, <2>4, ReviewedStep DEF StatusesKept, tables
  <2> QED BY <2>1, <2>2, <2>3, <2>5, EnterStep, TablesKept DEF TypeOK
<1>3. ASSUME NEW d \in Day, NEW w \in Wishes, NEW a \in Adj, RequestStart(p, a, d, w)
      PROVE  Typed'
  <2> DEFINE r == [Idle EXCEPT !.op = "request", !.pc = "adjPending", !.id = {a}, !.wish = w]
             s == [r EXCEPT !.day = d]
  <2>1. r \in ReqType /\ r.op = "request" /\ r.pc = "adjPending" /\ r.id = {a}
    BY IdleFits, WishType DEF ReqType
  <2> HIDE DEF r
  <2>2. RequestFits(s)
    <3>1. s.op = r.op /\ s.pc = r.pc /\ s.id = r.id /\ s.day = d /\ d # 0
      BY <2>1, DayField
    <3> HIDE DEF s
    <3> QED BY <2>1, <3>1 DEF RequestFits, OpFits, ClockPc
  <2>3. Enter(p, d, r) /\ UNCHANGED <<now, tables, replanned, torn>> /\ made' \in 0 .. MaxRequests
    BY <1>3, BeginStep DEF RequestStart, r
  <2>4. req'[p].op = r.op /\ \A q \in Proc \ {p} : req'[q] = req[q]
    BY <2>1, <2>2, <2>3, EnterStep
  <2>5. Reviewed'
    BY <2>1, <2>3, <2>4, ReviewedStep DEF StatusesKept, tables
  <2> QED BY <2>1, <2>2, <2>3, <2>5, EnterStep, TablesKept DEF TypeOK
<1>4. ASSUME NEW a \in Adj, NEW op \in {"approve", "reject"}, ReviewStart(p, a, op)
      PROVE  Typed'
  <2> DEFINE pc == IF op = "approve" THEN "adjRead" ELSE "adjStatus"
             d == adj[a].day
             w == adj[a].wish
             r == [Idle EXCEPT !.op = op, !.id = {a}, !.wish = w, !.pc = pc]
             s == [r EXCEPT !.day = d]
  <2>1. d \in Day /\ w \in Wish
    BY <1>4, AskedDay DEF ReviewStart, Reviewable
  <2>2. Enter(p, d, r) /\ UNCHANGED <<now, tables, replanned, torn>> /\ made' \in 0 .. MaxRequests
    BY <1>4, BeginStep DEF ReviewStart
  <2> HIDE DEF d, w
  <2>3. r \in ReqType /\ r.op = op /\ r.pc = pc /\ r.id = {a}
    BY ZenonT(30), <2>1, IdleFits DEF ReqType
  <2> HIDE DEF r
  <2>4. RequestFits(s)
    <3>1. s.pc = pc /\ s.op = op /\ s.id = {a} /\ s.day = d /\ d # 0
      BY <2>1, <2>3, DayField
    <3>2. /\ op = "approve" => pc = "adjRead"
          /\ op = "reject" => pc = "adjStatus"
      OBVIOUS
    <3> HIDE DEF s, pc
    <3> QED BY <3>1, <3>2 DEF RequestFits, OpFits, ClockPc
  <2>5. req'[p].op = op /\ req'[p].id = {a} /\ \A q \in Proc \ {p} : req'[q] = req[q]
    BY <2>1, <2>2, <2>3, <2>4, EnterStep
  <2>6. adj[a].status # "none" /\ UNCHANGED <<adj, mm>>
    BY <2>2, <1>4 DEF tables, ReviewStart, Reviewable
  <2>7. Reviewed'
    BY <2>5, <2>6 DEF Reviewed
  <2> QED BY <2>1, <2>2, <2>3, <2>4, <2>7, EnterStep, TablesKept DEF TypeOK
<1>5. ASSUME NEW m \in Mismatch, NEW op \in {"move", "refuse"}, MismatchStart(p, m, op)
      PROVE  Typed'
  <2> DEFINE pc == IF op = "move" THEN "mmFind" ELSE "mmWrong"
             d == mm[m].day
             from == mm[m].from
             to == mm[m].to
             r == [Idle EXCEPT !.op = op, !.id = {m}, !.from = from, !.to = to, !.pc = pc]
             s == [r EXCEPT !.day = d]
  <2>1. d \in Day /\ from \in Shift \cup {NoShift} /\ to \in Shift \cup {NoShift}
    BY <1>5, AskedDay DEF MismatchStart
  <2>2. Enter(p, d, r) /\ UNCHANGED <<now, tables, replanned, torn>> /\ made' \in 0 .. MaxRequests
    BY <1>5, BeginStep DEF MismatchStart
  <2> HIDE DEF d, from, to
  <2>3. r \in ReqType /\ r.op = op /\ r.pc = pc /\ r.id = {m}
    BY ZenonT(30), <2>1, IdleFits DEF ReqType
  <2> HIDE DEF r
  <2>4. RequestFits(s)
    <3>1. s.op = op /\ s.pc = pc /\ s.day = d /\ d # 0 /\ s.id = {m}
      BY ZenonT(30), <2>1, <2>3, DayField
    <3> HIDE DEF s
    <3> QED BY <3>1 DEF RequestFits, OpFits, ClockPc
  <2>5. req'[p].op = op /\ req'[p].id = {m} /\ \A q \in Proc \ {p} : req'[q] = req[q]
    BY <2>1, <2>2, <2>3, <2>4, EnterStep
  <2>6. mm[m].status # "none" /\ UNCHANGED <<adj, mm>>
    BY <2>2, <1>5 DEF tables, MismatchStart
  <2>7. Reviewed'
    BY <2>5, <2>6 DEF Reviewed
  <2> QED BY <2>1, <2>2, <2>3, <2>4, <2>7, EnterStep, TablesKept DEF TypeOK
<1> QED BY <1>1, <1>2, <1>3, <1>4, <1>5 DEF StartStep

\* A step of p that at most moves its program counter, or ends the request.
Early(pc) == pc \in {"idle", "key", "prior"}
Control(p) ==
    \/ Return(p)
    \/ \E pc \in Pc : /\ Goto(p, pc) /\ OpFits([req[p] EXCEPT !.pc = pc])
                      /\ Early(pc) <=> Early(req[p].pc)

LEMMA ControlStep ==
    ASSUME TypeOK, RequestInv, NEW p \in Proc, Control(p)
    PROVE  /\ req' \in [Proc -> ReqType] /\ RequestInv' /\ \A q \in Proc \ {p} : req'[q] = req[q]
           /\ req'[p] = Idle \/ (req'[p].op = req[p].op /\ req'[p].id = req[p].id)
<1>1. req[p] \in ReqType
  BY DEF TypeOK
<1>2. CASE Return(p)
  BY <1>2, ReturnStep
<1>3. CASE ~ Return(p)
  <2>1. PICK pc \in Pc : /\ Goto(p, pc) /\ OpFits([req[p] EXCEPT !.pc = pc])
                         /\ Early(pc) <=> Early(req[p].pc)
    BY <1>3 DEF Control
  <2>2. /\ req' \in [Proc -> ReqType] /\ RequestInv' /\ \A q \in Proc \ {p} : req'[q] = req[q]
        /\ req'[p] = [req[p] EXCEPT !.pc = pc]
    BY <2>1, GotoStep DEF Early
  <2> QED BY <1>1, <2>2, PcField
<1> QED BY <1>2, <1>3

LEMMA ControlReviewed ==
    ASSUME Typed, NEW p \in Proc, Control(p), StatusesKept
    PROVE  Reviewed'
<1>1. Idle.op = "none"
  BY DEF Idle
<1> QED BY <1>1, ControlStep, ReviewedStep DEF Typed

LEMMA GotoControl ==
    ASSUME Typed, NEW p \in Proc, NEW pc \in Pc, Goto(p, pc), Early(pc) <=> Early(req[p].pc),
           \/ req[p].pc \in ClockPc /\ pc \in ClockPc
           \/ req[p].pc = "adjPending" /\ pc = "adjInsert"
           \/ req[p].pc = "adjPlan" /\ pc = "adjWrite"
           \/ req[p].pc = "adjWrite" /\ pc = IF req[p].op = "edit" THEN "adjAudit" ELSE "adjStatus"
           \/ req[p].pc \in {"mmFind", "mmMove", "mmRead"} /\ pc \in {"mmMove", "mmRead", "mmWrite", "mmStatus"}
           \/ req[p].pc \in {"mmWrite", "mmWrong", "mmFlag"} /\ pc \in {"mmFlag", "mmStatus"}
    PROVE  Control(p)
<1>1. req[p] \in ReqType /\ OpFits(req[p])
  BY RowFacts DEF Typed
<1> DEFINE s == [req[p] EXCEPT !.pc = pc]
<1>2. s.pc = pc /\ s.op = req[p].op
  BY <1>1, PcField
<1> HIDE DEF s
<1>3. OpFits(s)
  BY <1>1, <1>2 DEF OpFits, ClockPc
<1> QED BY <1>3 DEF Control, s

\* The statements of clock that read.
LEMMA ClockReads ==
    ASSUME Typed, NEW p \in Proc,
           \/ LookUpKey(p) \/ ReadEvents(p) \/ CheckPending(p) \/ CheckAdjPending(p) \/ FindShift(p)
    PROVE  /\ Control(p) /\ UNCHANGED <<now, made, tables, histories>>
<1>1. req[p] \in ReqType /\ RequestFits(req[p])
  BY RowFacts DEF Typed
<1>2. CASE LookUpKey(p)
  <2>1. PICK k \in Key : req[p].key = {k}
    BY <1>1, <1>2 DEF LookUpKey, At, RequestFits, OpFits, ClockPc
  <2>2. Return(p) \/ Goto(p, "prior")
    BY <1>2, <2>1 DEF LookUpKey
  <2> QED BY <1>2, <2>2, GotoControl DEF LookUpKey, At, Control, Early, Pc, ClockPc
<1>3. CASE ReadEvents(p)
  <2>1. PICK k \in Key : req[p].key = {k}
    BY <1>1, <1>3 DEF ReadEvents, At, RequestFits, OpFits, ClockPc
  <2>2. Return(p) \/ Goto(p, "shift") \/ Goto(p, "insert")
    BY <1>3, <2>1 DEF ReadEvents
  <2> QED BY <1>3, <2>2, GotoControl DEF ReadEvents, At, Control, Early, Pc, ClockPc
<1>4. CASE CheckPending(p)
  BY <1>4, GotoControl DEF CheckPending, At, Control, Early, Pc, ClockPc
<1>5. CASE CheckAdjPending(p)
  BY <1>5, GotoControl DEF CheckAdjPending, At, Control, Early, Pc, ClockPc
<1>6. CASE FindShift(p)
  BY <1>6, GotoControl DEF FindShift, At, Control, Early, Pc, ClockPc
<1> QED BY <1>2, <1>3, <1>4, <1>5, <1>6

LEMMA ControlTyped ==
    ASSUME Typed, NEW p \in Proc, Control(p), UNCHANGED <<now, made, tables, histories>>
    PROVE  Typed'
<1>1. Reviewed'
  BY ControlReviewed DEF StatusesKept, tables
<1> QED BY <1>1, ControlStep, TablesKept DEF Typed, TypeOK, histories

\* The statements that read into what the request holds.
LEMMA HoldTyped ==
    ASSUME Typed, NEW p \in Proc,
           \/ ResolveShift(p) \/ ReadPlan(p) \/ AdjRead(p) \/ AdjPlan(p) \/ ReadMoved(p)
    PROVE  Typed'
<1> USE DEF Typed
<1>1. /\ req[p] \in ReqType /\ RequestFits(req[p]) /\ OpFits(req[p])
      /\ req[p].pc \notin {"idle", "key", "prior"} => req[p].day \in Day
  BY RowFacts
<1>2. \A d \in Day : days[d] \in DayRow /\ asg[d] \in Plan
  BY DEF TypeOK
<1>3. ASSUME NEW r \in ReqType, OpFits(r), Update(p, r), UNCHANGED <<now, made, tables, histories>>,
             r.key = req[p].key, r.id = req[p].id, r.day = req[p].day, r.at = req[p].at, r.op = req[p].op,
             Early(r.pc) <=> Early(req[p].pc)
      PROVE  Typed'
  <2>1. RequestFits(r)
    BY <1>1, <1>3 DEF RequestFits, Early
  <2>2. Reviewed'
    BY <1>3, <2>1, UpdateStep, ReviewedStep DEF StatusesKept, tables
  <2> QED BY <1>3, <2>1, <2>2, UpdateStep, TablesKept DEF TypeOK, histories
<1>4. CASE ResolveShift(p)
  <2>1. CASE \E to \in Shift \cup {NoShift}, from \in Shift \cup {NoShift} :
               Update(p, [req[p] EXCEPT !.pc = "insert", !.from = from, !.to = to])
    <3>1. PICK to \in Shift \cup {NoShift}, from \in Shift \cup {NoShift} :
               Update(p, [req[p] EXCEPT !.pc = "insert", !.from = from, !.to = to])
      BY <2>1
    <3> DEFINE r == [req[p] EXCEPT !.pc = "insert", !.from = from, !.to = to]
    <3>2. /\ r \in ReqType /\ r.pc = "insert" /\ r.op = req[p].op /\ r.key = req[p].key
          /\ r.id = req[p].id /\ r.day = req[p].day /\ r.at = req[p].at
      BY <1>1 DEF ReqType
    <3> HIDE DEF r
    <3>3. OpFits(r) /\ (Early(r.pc) <=> Early(req[p].pc))
      BY <1>1, <1>4, <3>2 DEF OpFits, ClockPc, ResolveShift, At, Early
    <3> QED BY <1>3, <1>4, <3>1, <3>2, <3>3 DEF ResolveShift, r
  <2>2. CASE Return(p) \/ Goto(p, "insert")
    BY <1>4, <2>2, GotoControl, ControlTyped DEF ResolveShift, At, Control, Early, Pc, ClockPc
  <2>3. \A t, d, s : Suggested(t, d, s, PeriodShift) \subseteq Shift
    BY AttendanceAssumption DEF Suggested
  <2>4. asg[req[p].day].shift \in Shift \cup {NoShift}
    BY <1>1, <1>2, <1>4 DEF ResolveShift, At, Plan
  <2> QED BY <1>4, <2>1, <2>2, <2>3, <2>4 DEF ResolveShift
<1>5. CASE ReadPlan(p) \/ AdjPlan(p)
  <2> DEFINE pc == IF req[p].pc = "plan" THEN "day" ELSE "adjWrite"
             plan == asg[req[p].day]
             r == [req[p] EXCEPT !.pc = pc, !.plan = plan]
  <2>1. plan \in Plan /\ req[p].pc \in {"plan", "adjPlan"}
    BY <1>1, <1>2, <1>5 DEF ReadPlan, AdjPlan, At
  <2>2. Update(p, r) /\ UNCHANGED <<now, made, tables, histories>>
    BY <1>5 DEF ReadPlan, AdjPlan, At
  <2> HIDE DEF plan
  <2>3. /\ r \in ReqType /\ r.pc = pc /\ r.op = req[p].op /\ r.key = req[p].key
        /\ r.id = req[p].id /\ r.day = req[p].day /\ r.at = req[p].at
    BY <1>1, <2>1 DEF ReqType
  <2> HIDE DEF r
  <2>4. OpFits(r) /\ (Early(r.pc) <=> Early(req[p].pc))
    BY <1>1, <2>1, <2>3 DEF OpFits, ClockPc, Early
  <2> QED BY <1>3, <2>2, <2>3, <2>4
<1>6. CASE AdjRead(p) \/ ReadMoved(p)
  <2> DEFINE row == days[req[p].day]
             pc == IF req[p].pc = "adjRead" THEN "adjPlan" ELSE IF Stored(row) THEN "mmWrite" ELSE "mmStatus"
             r == [req[p] EXCEPT !.row = row, !.pc = pc]
  <2>1. row \in DayRow /\ req[p].pc \in {"adjRead", "mmRead"} /\ pc \in {"adjPlan", "mmWrite", "mmStatus"}
    BY <1>1, <1>2, <1>6 DEF AdjRead, ReadMoved, At
  <2>2. Update(p, r) /\ UNCHANGED <<now, made, tables, histories>>
    <3>1. CASE AdjRead(p)
      <4>1. [req[p] EXCEPT !.pc = "adjPlan", !.row = row] = r
        BY <1>1, <2>1, <3>1 DEF AdjRead, At, ReqType
      <4> QED BY <3>1, <4>1 DEF AdjRead
    <3>2. CASE ReadMoved(p)
      BY <3>2 DEF ReadMoved, At
    <3> QED BY <1>6, <3>1, <3>2
  <2>3. req[p].pc = "adjRead" => pc = "adjPlan"
    OBVIOUS
  <2>4. req[p].pc = "mmRead" => pc \in {"mmWrite", "mmStatus"}
    OBVIOUS
  <2> HIDE DEF row, pc
  <2>5. /\ r \in ReqType /\ r.pc = pc /\ r.op = req[p].op /\ r.key = req[p].key
        /\ r.id = req[p].id /\ r.day = req[p].day /\ r.at = req[p].at
    BY <1>1, <2>1 DEF ReqType
  <2> HIDE DEF r
  <2>6. OpFits(r) /\ (Early(r.pc) <=> Early(req[p].pc))
    BY <1>1, <2>1, <2>3, <2>4, <2>5 DEF OpFits, ClockPc, Early
  <2> QED BY <1>3, <2>2, <2>5, <2>6
<1> QED BY <1>4, <1>5, <1>6

LEMMA WriteTyped ==
    ASSUME Typed, NEW p \in Proc, Control(p), UNCHANGED <<now, made, raced, replanned>>, torn' \subseteq Day,
           events' \in [Key -> Event], days' \in [Day -> DayRow], asg' \in [Day -> Plan],
           adj' \in [Adj -> [status : ReqStatus, day : 0 .. NDay, wish : Wish]],
           mm' \in [Mismatch -> [status : ReqStatus, day : 0 .. NDay,
                                 from : Shift \cup {NoShift}, to : Shift \cup {NoShift}]],
           AsksForDay', StatusesKept
    PROVE  Typed'
<1>1. req' \in [Proc -> ReqType] /\ RequestInv'
  BY ControlStep DEF Typed
<1>2. Reviewed'
  BY ControlReviewed
<1> QED BY <1>1, <1>2 DEF Typed, TypeOK

\* The statements that write clock events or requests for a decision.
LEMMA AskTyped ==
    ASSUME Typed, NEW p \in Proc,
           \/ InsertEvent(p) \/ SavePhoto(p) \/ FileMismatch(p) \/ InsertAdj(p) \/ AdjAudit(p)
           \/ AdjStatus(p) \/ MismatchStatus(p)
    PROVE  Typed'
<1> USE DEF Typed
<1>1. /\ req[p] \in ReqType /\ RequestFits(req[p]) /\ OpFits(req[p]) /\ req[p].key \subseteq Key
      /\ req[p].at \in Time /\ req[p].wish \in Wish
      /\ req[p].from \in Shift \cup {NoShift} /\ req[p].to \in Shift \cup {NoShift}
      /\ req[p].pc \notin {"idle", "key", "prior"} => req[p].day \in Day
  BY RowFacts
<1>2. \A k \in Key : KindOf[k] \in Kind
  BY AttendanceAssumption
<1>3. \A d \in Day : d \in 0 .. NDay /\ d # 0
  BY AttendanceAssumption DEF Day
<1>4. CASE InsertEvent(p)
  <2>1. Control(p)
    BY <1>4, GotoControl DEF InsertEvent, At, Control, Early, Pc, ClockPc
  <2>2. events' \in [Key -> Event]
    BY <1>1, <1>2, <1>4 DEF InsertEvent, TypeOK, Event, Kind
  <2> QED BY <1>4, <2>1, <2>2, WriteTyped DEF InsertEvent, TypeOK, histories, AsksForDay, StatusesKept
<1>5. CASE SavePhoto(p)
  <2>1. Control(p)
    BY <1>5, GotoControl DEF SavePhoto, At, Control, Early, Pc, ClockPc
  <2>2. NoEvent \in Event
    BY DEF NoEvent, Event, Time
  <2>3. events' \in [Key -> Event]
    BY <1>5, <2>2 DEF SavePhoto, TypeOK
  <2>4. torn' \subseteq Day
    BY <1>1, <1>5 DEF SavePhoto, At, TypeOK
  <2> QED BY <1>5, <2>1, <2>3, <2>4, WriteTyped DEF SavePhoto, TypeOK, AsksForDay, StatusesKept
<1>6. CASE FileMismatch(p)
  <2>1. Control(p) /\ req[p].day \in Day
    BY <1>1, <1>6 DEF FileMismatch, At, Control
  <2>2. /\ mm' \in [Mismatch -> [status : ReqStatus, day : 0 .. NDay,
                                 from : Shift \cup {NoShift}, to : Shift \cup {NoShift}]]
        /\ AsksForDay' /\ StatusesKept
    BY <1>1, <1>3, <1>6, <2>1 DEF FileMismatch, TypeOK, ReqStatus, AsksForDay, StatusesKept
  <2> QED BY <1>6, <2>1, <2>2, WriteTyped DEF FileMismatch, TypeOK, histories
<1>7. CASE InsertAdj(p)
  <2>1. Control(p) /\ req[p].day \in Day
    BY <1>1, <1>7 DEF InsertAdj, At, Control
  <2>2. PICK a \in Adj : req[p].id = {a}
    BY <1>1, <1>7 DEF InsertAdj, At, RequestFits, OpFits
  <2> DEFINE row == [status |-> "SUBMITTED", day |-> req[p].day, wish |-> req[p].wish]
  <2>3. adj' = [adj EXCEPT ![a] = row] /\ UNCHANGED mm
    BY <1>7, <2>2 DEF InsertAdj
  <2>4. row \in [status : ReqStatus, day : 0 .. NDay, wish : Wish] /\ row.status = "SUBMITTED"
        /\ row.day # 0
    BY <1>1, <1>3, <2>1 DEF ReqStatus
  <2> HIDE DEF row
  <2>5. adj' \in [Adj -> [status : ReqStatus, day : 0 .. NDay, wish : Wish]] /\ AsksForDay' /\ StatusesKept
    BY <2>3, <2>4 DEF TypeOK, AsksForDay, StatusesKept
  <2> QED BY <1>7, <2>1, <2>5, WriteTyped DEF InsertAdj, TypeOK, histories
<1>8. CASE AdjAudit(p)
  <2>1. Control(p) /\ req[p].day \in Day
    BY <1>1, <1>8 DEF AdjAudit, At, Control
  <2> DEFINE row == [status |-> "APPROVED", day |-> req[p].day, wish |-> req[p].wish]
  <2>2. row \in [status : ReqStatus, day : 0 .. NDay, wish : Wish] /\ row.status = "APPROVED"
        /\ row.day # 0
    BY <1>1, <1>3, <2>1 DEF ReqStatus
  <2>3. UNCHANGED mm /\ (UNCHANGED adj \/ \E a \in Adj : adj' = [adj EXCEPT ![a] = row])
    BY <1>8 DEF AdjAudit
  <2> HIDE DEF row
  <2>4. adj' \in [Adj -> [status : ReqStatus, day : 0 .. NDay, wish : Wish]] /\ AsksForDay' /\ StatusesKept
    BY <2>2, <2>3 DEF TypeOK, AsksForDay, StatusesKept
  <2> QED BY <1>8, <2>1, <2>4, WriteTyped DEF AdjAudit, TypeOK, histories
<1>9. CASE AdjStatus(p)
  <2>1. Control(p)
    BY <1>9 DEF AdjStatus, Control
  <2>2. PICK a \in Adj : req[p].id = {a}
    BY <1>1, <1>9 DEF AdjStatus, At, RequestFits, OpFits
  <2>3. Verdict(req[p].op) \in ReqStatus \ {"none"}
    BY DEF Verdict, ReqStatus
  <2> DEFINE verdict == Verdict(req[p].op)
  <2>4. adj' = [adj EXCEPT ![a].status = verdict] /\ UNCHANGED mm
    BY <1>9, <2>2 DEF AdjStatus
  <2>5. adj[a].status # "none"
    BY <1>1, <1>9, <2>2 DEF Reviewed, AdjStatus, At, OpFits
  <2> HIDE DEF verdict
  <2>6. adj' \in [Adj -> [status : ReqStatus, day : 0 .. NDay, wish : Wish]]
    BY <2>3, <2>4 DEF TypeOK, verdict
  <2>7. AsksForDay' /\ StatusesKept
    BY <2>3, <2>4, <2>5 DEF TypeOK, AsksForDay, StatusesKept, verdict
  <2> QED BY <1>9, <2>1, <2>6, <2>7, WriteTyped DEF AdjStatus, TypeOK, histories
<1>10. CASE MismatchStatus(p)
  <2>1. Control(p)
    BY <1>10 DEF MismatchStatus, Control
  <2>2. PICK m \in Mismatch : req[p].id = {m}
    BY <1>1, <1>10 DEF MismatchStatus, At, RequestFits, OpFits
  <2>3. Verdict(req[p].op) \in ReqStatus \ {"none"}
    BY DEF Verdict, ReqStatus
  <2> DEFINE verdict == Verdict(req[p].op)
  <2>4. mm' = [mm EXCEPT ![m].status = verdict] /\ UNCHANGED adj
    BY <1>10, <2>2 DEF MismatchStatus
  <2>5. mm[m].status # "none"
    BY <1>1, <1>10, <2>2 DEF Reviewed, MismatchStatus, At, OpFits
  <2> HIDE DEF verdict
  <2>6. mm' \in [Mismatch -> [status : ReqStatus, day : 0 .. NDay,
                              from : Shift \cup {NoShift}, to : Shift \cup {NoShift}]]
    BY <2>3, <2>4 DEF TypeOK, verdict
  <2>7. AsksForDay' /\ StatusesKept
    BY <2>3, <2>4, <2>5 DEF TypeOK, AsksForDay, StatusesKept, verdict
  <2> QED BY <1>10, <2>1, <2>6, <2>7, WriteTyped DEF MismatchStatus, TypeOK, histories
<1> QED BY <1>4, <1>5, <1>6, <1>7, <1>8, <1>9, <1>10

\* The statements that write a day or a shift.  d is the day of the request.
LEMMA OneDay ==
    ASSUME Typed, NEW p \in Proc, Control(p), UNCHANGED <<now, made, raced, replanned, events, asg, adj, mm>>,
           torn' \subseteq Day, NEW d \in Day, NEW row \in DayRow, days' = [days EXCEPT ![d] = row]
    PROVE  Typed'
BY WriteTyped DEF Typed, TypeOK, AsksForDay, StatusesKept

LEMMA FlagTyped ==
    ASSUME Typed, NEW p \in Proc, NEW flag \in {"PENDING", "APPROVED", "REJECTED"}, NEW next \in Pc,
           req[p].day \in Day, Flag(p, req[p].day, flag, next), Control(p)
    PROVE  Typed'
<1>1. req[p].day \in Day /\ days[req[p].day] \in DayRow
  BY DEF Typed, TypeOK
<1>2. CASE UNCHANGED days
  BY <1>1, <1>2, WriteTyped DEF Flag, Typed, TypeOK, AsksForDay, StatusesKept
<1>3. CASE days' = [days EXCEPT ![req[p].day].flag = flag] /\ UNCHANGED torn
  <2>1. [days[req[p].day] EXCEPT !.flag = flag] \in DayRow
    BY <1>1 DEF DayRow
  <2>2. days' = [days EXCEPT ![req[p].day] = [days[req[p].day] EXCEPT !.flag = flag]]
    BY <1>1, <1>3 DEF Typed, TypeOK
  <2> QED BY <1>1, <1>3, <2>1, <2>2, OneDay DEF Flag, Typed, TypeOK
<1> QED BY <1>2, <1>3 DEF Flag

LEMMA AdjustedType ==
    ASSUME NEW row \in DayRow, NEW d \in Day, NEW w \in Wish, NEW s \in Shift \cup {NoShift}
    PROVE  Adjusted(row, d, w, s) \in DayRow
<1> DEFINE in == OrElse(d, w.in, row.in)
           out == OrElse(d, w.out, row.out)
           m == Metrics(d, in, out, s)
<1>1. /\ row.in \in Time /\ row.out \in Time
      /\ w.in \in Minute \cup {NoTime} /\ w.out \in Minute \cup {NoTime}
  BY DEF DayRow, Wish
<1>2. in \in Time /\ out \in Time
  BY <1>1, DayOfMinute DEF OrElse, Time
<1> HIDE DEF in, out
<1>3. m.late \in Nat /\ m.early \in Nat
  BY <1>2, MetricsType
<1> QED BY <1>2, <1>3 DEF Adjusted, DayRow, in, out

LEMMA DayTyped ==
    ASSUME Typed, NEW p \in Proc,
           \/ WriteDay(p) \/ FlagPending(p) \/ AdjWrite(p) \/ MoveShift(p) \/ WriteMoved(p)
           \/ MarkWrongShift(p) \/ FlagDecided(p)
    PROVE  Typed'
<1> DEFINE d == req[p].day
<1>1. /\ req[p] \in ReqType /\ RequestFits(req[p]) /\ OpFits(req[p]) /\ req[p].key \subseteq Key
      /\ req[p].at \in Time /\ req[p].wish \in Wish /\ req[p].row \in DayRow /\ req[p].plan \in Plan
      /\ req[p].from \in Shift \cup {NoShift} /\ req[p].to \in Shift \cup {NoShift}
      /\ req[p].pc \notin {"idle", "key", "prior"} => d \in Day
  BY RowFacts DEF Typed
<1>2. d \in Day /\ days[d] \in DayRow /\ asg[d] \in Plan
  <2>1. req[p].pc \notin {"idle", "key", "prior"}
    BY DEF WriteDay, FlagPending, AdjWrite, MoveShift, WriteMoved, MarkWrongShift, FlagDecided, At
  <2> QED BY <1>1, <2>1 DEF Typed, TypeOK
<1>3. req[p].plan.shift \in Shift \cup {NoShift} /\ req[p].row.in \in Time /\ req[p].row.out \in Time
  BY <1>1 DEF Plan, DayRow
<1>4. CASE WriteDay(p)
  <2>1. Control(p)
    BY <1>4, GotoControl DEF WriteDay, At, Control, Early, Pc, ClockPc
  <2>2. PICK k \in req[p].key :
          LET kind == KindOf[k]
              prior == req[p].row
              in == IF kind = "in" /\ prior.in = NoTime THEN req[p].at ELSE prior.in
              out == IF kind = "out" THEN req[p].at ELSE prior.out
              m == Metrics(d, in, out, req[p].plan.shift)
          IN days' = [days EXCEPT
               ![d].status = ClockStatus(kind), ![d].late = m.late, ![d].early = m.early,
               ![d].in = IF kind = "in" THEN in ELSE @,
               ![d].out = IF kind = "out" THEN out ELSE @]
    BY <1>4 DEF WriteDay
  <2> DEFINE kind == KindOf[k]
             prior == req[p].row
             in == IF kind = "in" /\ prior.in = NoTime THEN req[p].at ELSE prior.in
             out == IF kind = "out" THEN req[p].at ELSE prior.out
             m == Metrics(d, in, out, req[p].plan.shift)
             row == [days[d] EXCEPT !.status = ClockStatus(kind), !.late = m.late, !.early = m.early,
                                    !.in = IF kind = "in" THEN in ELSE @,
                                    !.out = IF kind = "out" THEN out ELSE @]
  <2>3. in \in Time /\ out \in Time
    BY <1>1, <1>3
  <2>4. m.late \in Nat /\ m.early \in Nat
    <3> HIDE DEF in, out, d
    <3> QED BY <1>2, <1>3, <2>3, MetricsType
  <2>5. ClockStatus(kind) \in {"PRESENT", "INCOMPLETE"}
    BY DEF ClockStatus
  <2>6. days' = [days EXCEPT ![d] = row]
    BY ZenonT(30), <1>2, <2>2 DEF Typed, TypeOK
  <2> HIDE DEF in, out, m, kind, d
  <2>7. row \in DayRow
    BY <1>2, <2>3, <2>4, <2>5 DEF DayRow
  <2> HIDE DEF row
  <2> QED BY <1>2, <1>4, <2>1, <2>6, <2>7, OneDay DEF WriteDay, histories, Typed, TypeOK
<1>5. CASE FlagPending(p)
  <2>1. req[p].pc = "flag" /\ Flag(p, d, "PENDING", "pending")
    BY <1>5 DEF FlagPending, At
  <2>2. Control(p)
    BY <2>1, GotoControl DEF Flag, Early, Pc, ClockPc
  <2> QED BY <1>2, <2>1, <2>2, FlagTyped DEF Pc
<1>6. CASE AdjWrite(p)
  <2> DEFINE new == Adjusted(req[p].row, d, req[p].wish, req[p].plan.shift)
             flag == days[d].flag
             row == [new EXCEPT !.flag = flag]
  <2>1. Control(p)
    BY <1>6, GotoControl DEF AdjWrite, At, Early, Pc
  <2>2. days' = [days EXCEPT ![d] = row]
    BY <1>6 DEF AdjWrite
  <2>3. new \in DayRow /\ flag \in {"none", "PENDING", "APPROVED", "REJECTED"}
    BY <1>1, <1>2, <1>3, AdjustedType, DayFields
  <2> HIDE DEF new, flag, d
  <2>4. row \in DayRow
    BY <2>3 DEF DayRow
  <2> HIDE DEF row
  <2> QED BY <1>2, <1>6, <2>1, <2>2, <2>4, OneDay DEF AdjWrite, histories, Typed, TypeOK
<1>7. CASE MoveShift(p)
  <2>1. Control(p)
    BY <1>7, GotoControl DEF MoveShift, At, Early, Pc
  <2>2. asg' \in [Day -> Plan]
    BY <1>1, <1>2, <1>7 DEF MoveShift, Typed, TypeOK, Plan
  <2> QED BY <1>7, <2>1, <2>2, WriteTyped DEF MoveShift, histories, Typed, TypeOK, AsksForDay, StatusesKept
<1>8. CASE WriteMoved(p)
  <2> DEFINE m == Metrics(d, req[p].row.in, req[p].row.out, NewShift(p))
             status == IF req[p].row.in = NoTime \/ req[p].row.out = NoTime THEN "INCOMPLETE"
                       ELSE IF m.late > 0 THEN "LATE" ELSE "PRESENT"
             row == [days[d] EXCEPT !.status = status, !.late = m.late, !.early = m.early]
  <2>1. Control(p)
    BY <1>8, GotoControl DEF WriteMoved, At, Early, Pc
  <2>2. days' = [days EXCEPT ![d] = row]
    BY <1>2, <1>8 DEF WriteMoved, Typed, TypeOK
  <2>3. m.late \in Nat /\ m.early \in Nat
    BY <1>1, <1>2, <1>3, MetricsType DEF NewShift
  <2>4. status \in {"INCOMPLETE", "LATE", "PRESENT"}
    OBVIOUS
  <2> HIDE DEF m, status, d
  <2>5. row \in DayRow
    BY <1>2, <2>3, <2>4 DEF DayRow
  <2> HIDE DEF row
  <2> QED BY <1>2, <1>8, <2>1, <2>2, <2>5, OneDay DEF WriteMoved, histories, Typed, TypeOK
<1>9. CASE MarkWrongShift(p)
  <2> DEFINE status == IF Stored(days[d]) THEN "WRONG_SHIFT" ELSE days[d].status
             row == [days[d] EXCEPT !.status = status]
  <2>1. Control(p)
    BY <1>9, GotoControl DEF MarkWrongShift, At, Early, Pc
  <2>2. days' = [days EXCEPT ![d] = row]
    BY <1>2, <1>9 DEF MarkWrongShift, Typed, TypeOK
  <2>3. row \in DayRow
    BY <1>2 DEF DayRow
  <2> HIDE DEF row, d
  <2> QED BY <1>2, <1>9, <2>1, <2>2, <2>3, OneDay DEF MarkWrongShift, histories, Typed, TypeOK
<1>10. CASE FlagDecided(p)
  <2>1. req[p].pc = "mmFlag" /\ Flag(p, d, Verdict(req[p].op), "mmStatus")
    BY <1>10 DEF FlagDecided, At
  <2>2. Control(p)
    BY <2>1, GotoControl DEF Flag, Early, Pc
  <2>3. Verdict(req[p].op) \in {"PENDING", "APPROVED", "REJECTED"}
    BY DEF Verdict
  <2> QED BY <1>2, <2>1, <2>2, <2>3, FlagTyped DEF Pc
<1> QED BY <1>4, <1>5, <1>6, <1>7, <1>8, <1>9, <1>10

LEMMA ReadPriorTyped ==
    ASSUME Typed, NEW p \in Proc, ReadPrior(p)
    PROVE  Typed'
<1> DEFINE d == DayOf(now)
           row == days[d]
           r == [req[p] EXCEPT !.pc = "events", !.at = now, !.row = row]
           s == [r EXCEPT !.day = d]
<1>1. req[p] \in ReqType /\ RequestFits(req[p]) /\ OpFits(req[p]) /\ req[p].pc = "prior"
  BY RowFacts DEF Typed, ReadPrior, At
<1>2. d \in Day /\ row \in DayRow /\ now \in Instant
  BY InstantHasDay DEF Typed, TypeOK
<1>3. Enter(p, d, r) /\ UNCHANGED <<now, made, tables, replanned, torn>>
  BY DEF ReadPrior
<1> HIDE DEF row
<1>4. /\ r \in ReqType /\ r.pc = "events" /\ r.at = now /\ r.op = req[p].op /\ r.key = req[p].key
      /\ r.id = req[p].id
  BY <1>1, <1>2 DEF ReqType, Time
<1> HIDE DEF r
<1>5. RequestFits(s)
  <2>1. /\ s.pc = "events" /\ s.at = now /\ s.op = req[p].op /\ s.key = req[p].key /\ s.id = req[p].id
        /\ s.day = d /\ d # 0
    BY ZenonT(30), <1>2, <1>4, DayField
  <2> HIDE DEF s
  <2> QED BY <1>1, <1>2, <2>1 DEF RequestFits, OpFits, ClockPc, d
<1> HIDE DEF d
<1>6. Reviewed'
  <2>1. req'[p].op = req[p].op /\ \A q \in Proc \ {p} : req'[q] = req[q]
    BY <1>2, <1>3, <1>4, <1>5, EnterStep DEF Typed
  <2>2. req[p].op = "clock"
    BY <1>1 DEF OpFits, ClockPc
  <2> QED BY <1>3, <2>1, <2>2, ReviewedStep DEF StatusesKept, tables
<1> QED BY <1>2, <1>3, <1>4, <1>5, <1>6, EnterStep, TablesKept DEF Typed, TypeOK

LEMMA FailTyped ==
    ASSUME Typed, NEW p \in Proc, Fail(p)
    PROVE  Typed'
<1>1. req[p].day \in Day
  BY AttendanceAssumption DEF Typed, TypeOK, ReqType, Fail, Day
<1>2. Control(p) /\ torn' \subseteq Day
  BY <1>1 DEF Fail, Control, Typed, TypeOK
<1> QED BY <1>2, WriteTyped DEF Fail, tables, Typed, TypeOK, AsksForDay, StatusesKept

LEMMA TickTyped == ASSUME Typed, Tick PROVE Typed'
<1>1. /\ now' \in Instant /\ req' = req /\ raced' = raced /\ replanned' = replanned /\ torn' = torn
      /\ made' = made /\ events' = events /\ days' = days /\ asg' = asg /\ adj' = adj /\ mm' = mm
  BY DEF Tick, histories, tables
<1> QED BY <1>1 DEF Typed, TypeOK, RequestInv, AsksForDay, Reviewed

LEMMA ReplanTyped == ASSUME Typed, NEW d \in Day, NEW s \in PeriodShift, Replan(d, s) PROVE Typed'
<1>1. asg' \in [Day -> Plan]
  BY AttendanceAssumption DEF Replan, Typed, TypeOK, Plan
<1>2. replanned' \subseteq Day
  BY DEF Replan, Typed, TypeOK
<1> QED BY <1>1, <1>2 DEF Replan, Typed, TypeOK, RequestInv, AsksForDay, Reviewed

LEMMA InitTyped == Init => Typed
<1> SUFFICES ASSUME Init PROVE Typed
  OBVIOUS
<1>1. /\ NDay \in Nat \ {0} /\ Roster \subseteq [Day -> Plan] /\ MaxRequests \in Nat
      /\ MinutesPerDay \in Nat \ {0}
  BY AttendanceAssumption, ClockAssumption
<1>2. 0 \in Instant
  <2>1. NDay * MinutesPerDay >= 1
    BY <1>1
  <2>2. NDay * MinutesPerDay \in Nat
    BY <1>1
  <2> QED BY <2>1, <2>2 DEF Instant
<1>3. NoWish \in Wish /\ NoEvent \in Event /\ NoDay \in DayRow
  BY <1>1 DEF NoWish, Wish, NoEvent, Event, NoDay, DayRow, Time
<1>4. TypeOK
  BY <1>1, <1>2, <1>3, IdleFits DEF Init, TypeOK, ReqStatus
<1>5. RequestInv /\ AsksForDay
  BY IdleFits DEF Init, RequestInv, AsksForDay
<1>6. Reviewed
  BY DEF Init, Reviewed, Idle
<1> QED BY <1>4, <1>5, <1>6 DEF Typed

\* What p may do.
LEMMA Statements ==
    ASSUME NEW p \in Proc, RunStep(p)
    PROVE  \/ LookUpKey(p) \/ ReadEvents(p) \/ CheckPending(p) \/ CheckAdjPending(p) \/ FindShift(p)
           \/ ResolveShift(p) \/ ReadPlan(p) \/ AdjRead(p) \/ AdjPlan(p) \/ ReadMoved(p)
           \/ ReadPrior(p)
           \/ InsertEvent(p) \/ SavePhoto(p) \/ FileMismatch(p) \/ InsertAdj(p) \/ AdjAudit(p)
           \/ AdjStatus(p) \/ MismatchStatus(p)
           \/ WriteDay(p) \/ FlagPending(p) \/ AdjWrite(p) \/ MoveShift(p) \/ WriteMoved(p)
           \/ MarkWrongShift(p) \/ FlagDecided(p)
BY DEF RunStep

LEMMA NextTyped == Typed /\ [Next]_vars => Typed'
<1> SUFFICES ASSUME Typed, [Next]_vars PROVE Typed'
  OBVIOUS
<1>1. ASSUME NEW p \in Proc, StartStep(p) PROVE Typed'
  BY <1>1, StartTyped
<1>2. ASSUME NEW p \in Proc, RunStep(p) PROVE Typed'
  <2>1. CASE LookUpKey(p) \/ ReadEvents(p) \/ CheckPending(p) \/ CheckAdjPending(p) \/ FindShift(p)
    BY <2>1, ClockReads, ControlTyped
  <2>2. CASE ResolveShift(p) \/ ReadPlan(p) \/ AdjRead(p) \/ AdjPlan(p) \/ ReadMoved(p)
    BY <2>2, HoldTyped
  <2>3. CASE ReadPrior(p)
    BY <2>3, ReadPriorTyped
  <2>4. CASE \/ InsertEvent(p) \/ SavePhoto(p) \/ FileMismatch(p) \/ InsertAdj(p) \/ AdjAudit(p)
             \/ AdjStatus(p) \/ MismatchStatus(p)
    BY <2>4, AskTyped
  <2>5. CASE \/ WriteDay(p) \/ FlagPending(p) \/ AdjWrite(p) \/ MoveShift(p) \/ WriteMoved(p)
             \/ MarkWrongShift(p) \/ FlagDecided(p)
    BY <2>5, DayTyped
  <2> QED BY <1>2, <2>1, <2>2, <2>3, <2>4, <2>5, Statements
<1>3. ASSUME NEW p \in Proc, Fail(p) PROVE Typed'
  BY <1>3, FailTyped
<1>4. CASE Tick
  BY <1>4, TickTyped
<1>5. ASSUME NEW d \in Day, NEW s \in PeriodShift, Replan(d, s) PROVE Typed'
  BY <1>5, ReplanTyped
<1>6. CASE UNCHANGED vars
  <2>1. /\ now' = now /\ req' = req /\ raced' = raced /\ replanned' = replanned /\ torn' = torn
        /\ made' = made /\ events' = events /\ days' = days /\ asg' = asg /\ adj' = adj /\ mm' = mm
    BY <1>6 DEF vars, tables
  <2> QED BY <2>1 DEF Typed, TypeOK, RequestInv, AsksForDay, Reviewed
<1> QED BY <1>1, <1>2, <1>3, <1>4, <1>5, <1>6 DEF Next

LEMMA AlwaysTyped == Spec => []Typed
<1> QED BY InitTyped, NextTyped, PTL DEF Spec

-----------------------------------------------------------------------------
(* What a step of p does to the requests.                                  *)

OthersKept(p) == \A q \in Proc \ {p} : req'[q] = req[q]
Gone(p) == OthersKept(p) /\ req'[p] = Idle
\* p goes on to pc with the same task.
To(p, pc) ==
    /\ OthersKept(p) /\ req'[p].pc = pc /\ req'[p].op = req[p].op /\ req'[p].key = req[p].key
    /\ req'[p].id = req[p].id /\ req'[p].day = req[p].day /\ req'[p].at = req[p].at
\* ... and with all it remembers.
ToKept(p, pc) ==
    /\ To(p, pc) /\ req'[p].row = req[p].row /\ req'[p].plan = req[p].plan
    /\ req'[p].from = req[p].from /\ req'[p].to = req[p].to /\ req'[p].wish = req[p].wish

LEMMA GotoKept ==
    ASSUME Typed, NEW p \in Proc, NEW pc \in Pc, Goto(p, pc)
    PROVE  ToKept(p, pc)
<1>1. req[p] \in ReqType /\ req \in [Proc -> ReqType]
  BY DEF Typed, TypeOK
<1>2. OthersKept(p) /\ req'[p] = [req[p] EXCEPT !.pc = pc]
  BY <1>1 DEF Goto, Update, OthersKept
<1> QED BY <1>1, <1>2, PcField DEF ToKept, To

LEMMA ReturnGone == ASSUME Typed, NEW p \in Proc, Return(p) PROVE Gone(p)
BY ReturnStep DEF Typed, Gone, OthersKept

LEMMA IdleFields == /\ Idle.op = "none" /\ Idle.pc = "idle" /\ Idle.day = 0 /\ Idle.key = {} /\ Idle.id = {}
BY DEF Idle

\* The statements that read, and what they read.
LEMMA ReadEffects ==
    ASSUME Typed, NEW p \in Proc
    PROVE  /\ LookUpKey(p) => req[p].pc = "key" /\ (Gone(p) \/ ToKept(p, "prior"))
           /\ ReadEvents(p) => /\ req[p].pc = "events"
                               /\ \E k \in Key : /\ req[p].key = {k}
                                    /\ \/ Gone(p)
                                       \/ /\ ~ Refused(req[p].row, req[p].day, KindOf[k])
                                          /\ ToKept(p, IF KindOf[k] = "in" THEN "shift" ELSE "insert")
           /\ CheckPending(p) => /\ req[p].pc = "pending"
                                 /\ \/ Gone(p) /\ \E m \in Mismatch : Asks(m, req[p].day)
                                    \/ ToKept(p, "file") /\ \A m \in Mismatch : ~ Asks(m, req[p].day)
           /\ CheckAdjPending(p) => req[p].pc = "adjPending" /\ (Gone(p) \/ ToKept(p, "adjInsert"))
           /\ FindShift(p) => req[p].pc = "mmFind" /\ (Gone(p) \/ ToKept(p, "mmMove"))
<1>1. LookUpKey(p) => req[p].pc = "key" /\ (Gone(p) \/ ToKept(p, "prior"))
  <2> SUFFICES ASSUME LookUpKey(p) PROVE req[p].pc = "key" /\ (Gone(p) \/ ToKept(p, "prior"))
    OBVIOUS
  <2>1. PICK k \in Key : req[p].key = {k}
    BY RowFacts DEF LookUpKey, At, Typed, RequestFits, OpFits, ClockPc
  <2> QED BY <2>1, GotoKept, ReturnGone DEF LookUpKey, At, Pc
<1>2. ReadEvents(p) => /\ req[p].pc = "events"
                       /\ \E k \in Key : /\ req[p].key = {k}
                            /\ \/ Gone(p)
                               \/ /\ ~ Refused(req[p].row, req[p].day, KindOf[k])
                                  /\ ToKept(p, IF KindOf[k] = "in" THEN "shift" ELSE "insert")
  <2> SUFFICES ASSUME ReadEvents(p)
               PROVE  /\ req[p].pc = "events"
                      /\ \E k \in Key : /\ req[p].key = {k}
                            /\ \/ Gone(p)
                               \/ /\ ~ Refused(req[p].row, req[p].day, KindOf[k])
                                  /\ ToKept(p, IF KindOf[k] = "in" THEN "shift" ELSE "insert")
    OBVIOUS
  <2>1. PICK k \in Key : req[p].key = {k}
    BY RowFacts DEF ReadEvents, At, Typed, RequestFits, OpFits, ClockPc
  <2> QED BY <2>1, GotoKept, ReturnGone DEF ReadEvents, At, Pc
<1>3. CheckPending(p) => /\ req[p].pc = "pending"
                         /\ \/ Gone(p) /\ \E m \in Mismatch : Asks(m, req[p].day)
                            \/ ToKept(p, "file") /\ \A m \in Mismatch : ~ Asks(m, req[p].day)
  BY GotoKept, ReturnGone DEF CheckPending, At, Pc, Asks
<1>4. /\ CheckAdjPending(p) => req[p].pc = "adjPending" /\ (Gone(p) \/ ToKept(p, "adjInsert"))
      /\ FindShift(p) => req[p].pc = "mmFind" /\ (Gone(p) \/ ToKept(p, "mmMove"))
  BY GotoKept, ReturnGone DEF CheckAdjPending, FindShift, At, Pc
<1> QED BY <1>1, <1>2, <1>3, <1>4

LEMMA HoldEffects ==
    ASSUME Typed, NEW p \in Proc
    PROVE  /\ ResolveShift(p) => req[p].pc = "shift" /\ (Gone(p) \/ (To(p, "insert") /\ req'[p].row = req[p].row))
           /\ ReadPlan(p) => /\ req[p].pc = "plan" /\ To(p, "day") /\ req'[p].row = req[p].row
                             /\ req'[p].plan = asg[req[p].day]
           /\ AdjRead(p) => req[p].pc = "adjRead" /\ To(p, "adjPlan") /\ req'[p].row = days[req[p].day]
           /\ AdjPlan(p) => /\ req[p].pc = "adjPlan" /\ To(p, "adjWrite") /\ req'[p].row = req[p].row
                            /\ req'[p].plan = asg[req[p].day]
           /\ ReadMoved(p) => /\ req[p].pc = "mmRead" /\ req'[p].row = days[req[p].day]
                              /\ req'[p].to = req[p].to
                              /\ To(p, IF Stored(days[req[p].day]) THEN "mmWrite" ELSE "mmStatus")
<1>1. req[p] \in ReqType /\ req \in [Proc -> ReqType]
  BY DEF Typed, TypeOK
<1>2. ASSUME ResolveShift(p)
      PROVE  req[p].pc = "shift" /\ (Gone(p) \/ (To(p, "insert") /\ req'[p].row = req[p].row))
  <2>1. CASE Return(p)
    BY <1>2, <2>1, ReturnGone DEF ResolveShift, At
  <2>2. CASE Goto(p, "insert")
    BY <1>2, <2>2, GotoKept DEF ResolveShift, At, Pc, ToKept
  <2>3. CASE \E from, to : Update(p, [req[p] EXCEPT !.pc = "insert", !.from = from, !.to = to])
    <3>1. PICK from, to : Update(p, [req[p] EXCEPT !.pc = "insert", !.from = from, !.to = to])
      BY <2>3
    <3> QED BY <1>1, <1>2, <3>1 DEF ResolveShift, At, Update, To, OthersKept, ReqType
  <2> QED BY <1>2, <2>1, <2>2, <2>3 DEF ResolveShift
<1>3. ReadPlan(p) => /\ req[p].pc = "plan" /\ To(p, "day") /\ req'[p].row = req[p].row
                     /\ req'[p].plan = asg[req[p].day]
  BY <1>1 DEF ReadPlan, At, Update, To, OthersKept, ReqType
<1>4. AdjRead(p) => req[p].pc = "adjRead" /\ To(p, "adjPlan") /\ req'[p].row = days[req[p].day]
  BY <1>1 DEF AdjRead, At, Update, To, OthersKept, ReqType
<1>5. AdjPlan(p) => /\ req[p].pc = "adjPlan" /\ To(p, "adjWrite") /\ req'[p].row = req[p].row
                    /\ req'[p].plan = asg[req[p].day]
  BY <1>1 DEF AdjPlan, At, Update, To, OthersKept, ReqType
<1>6. ReadMoved(p) => /\ req[p].pc = "mmRead" /\ req'[p].row = days[req[p].day] /\ req'[p].to = req[p].to
                      /\ To(p, IF Stored(days[req[p].day]) THEN "mmWrite" ELSE "mmStatus")
  BY <1>1 DEF ReadMoved, At, Update, To, OthersKept, ReqType
<1> QED BY <1>2, <1>3, <1>4, <1>5, <1>6

\* What a statement that writes clock events leaves.
EventWritten(p, k) ==
    /\ events[k] = NoEvent
    /\ events' = [events EXCEPT ![k] = [kind |-> KindOf[k], at |-> req[p].at]]

LEMMA EventEffects ==
    ASSUME Typed, NEW p \in Proc
    PROVE  /\ InsertEvent(p) =>
                /\ req[p].pc = "insert"
                /\ \E k \in Key : /\ req[p].key = {k}
                                  /\ \/ Gone(p) /\ UNCHANGED events
                                     \/ ToKept(p, "photo") /\ EventWritten(p, k)
           /\ SavePhoto(p) =>
                /\ req[p].pc = "photo"
                /\ \E k \in Key : /\ req[p].key = {k}
                                  /\ \/ ToKept(p, "plan") /\ UNCHANGED <<events, torn>>
                                     \/ Gone(p) /\ UNCHANGED torn /\ events' = [events EXCEPT ![k] = NoEvent]
                                     \/ Gone(p) /\ UNCHANGED events /\ torn' = torn \cup {req[p].day}
<1>1. ASSUME InsertEvent(p) \/ SavePhoto(p)
      PROVE  \E k \in Key : req[p].key = {k}
  BY <1>1, RowFacts DEF InsertEvent, SavePhoto, At, Typed, RequestFits, OpFits, ClockPc
<1>2. ASSUME InsertEvent(p)
      PROVE  /\ req[p].pc = "insert"
             /\ \E k \in Key : /\ req[p].key = {k}
                               /\ \/ Gone(p) /\ UNCHANGED events
                                  \/ ToKept(p, "photo") /\ EventWritten(p, k)
  BY <1>1, <1>2, GotoKept, ReturnGone DEF InsertEvent, At, Pc, EventWritten
<1>3. ASSUME SavePhoto(p)
      PROVE  /\ req[p].pc = "photo"
             /\ \E k \in Key : /\ req[p].key = {k}
                               /\ \/ ToKept(p, "plan") /\ UNCHANGED <<events, torn>>
                                  \/ Gone(p) /\ UNCHANGED torn /\ events' = [events EXCEPT ![k] = NoEvent]
                                  \/ Gone(p) /\ UNCHANGED events /\ torn' = torn \cup {req[p].day}
  <2>1. PICK k \in Key : req[p].key = {k}
    BY <1>1, <1>3
  <2>2. events' = [j \in Key |-> IF j \in req[p].key THEN NoEvent ELSE events[j]]
          => events' = [events EXCEPT ![k] = NoEvent]
    BY <2>1 DEF Typed, TypeOK
  <2> QED BY <1>3, <2>1, <2>2, GotoKept, ReturnGone DEF SavePhoto, At, Pc
<1> QED BY <1>2, <1>3

\* The other days stay as they are.
OtherDays(d) == \A e \in Day \ {d} : days'[e] = days[e]
SameClocks(d) == /\ days'[d].in = days[d].in /\ days'[d].out = days[d].out
                 /\ days'[d].adjusted = days[d].adjusted
SameMinutes(d) == days'[d].late = days[d].late /\ days'[d].early = days[d].early
SameFlag(d) == days'[d].flag = days[d].flag

Clocked(p, k) ==
    LET d == req[p].day
        in == IF KindOf[k] = "in" /\ req[p].row.in = NoTime THEN req[p].at ELSE req[p].row.in
        out == IF KindOf[k] = "out" THEN req[p].at ELSE req[p].row.out
        m == Metrics(d, in, out, req[p].plan.shift)
    IN /\ OtherDays(d) /\ SameFlag(d) /\ Stored(days'[d])
       /\ days'[d].adjusted = days[d].adjusted
       /\ days'[d].in = IF KindOf[k] = "in" THEN in ELSE days[d].in
       /\ days'[d].out = IF KindOf[k] = "out" THEN out ELSE days[d].out
       /\ days'[d].late = m.late /\ days'[d].early = m.early

LEMMA WriteDayEffect ==
    ASSUME Typed, NEW p \in Proc, WriteDay(p)
    PROVE  /\ req[p].pc = "day" /\ req[p].day \in Day /\ (Gone(p) \/ ToKept(p, "flag"))
           /\ \E k \in Key : req[p].key = {k} /\ Clocked(p, k)
<1>1. PICK k \in Key : req[p].key = {k}
  BY RowFacts DEF WriteDay, At, Typed, RequestFits, OpFits, ClockPc
<1> DEFINE d == req[p].day
<1>2. req[p].pc = "day" /\ d \in Day /\ days[d] \in DayRow /\ days \in [Day -> DayRow]
  BY RowFacts DEF WriteDay, At, Typed, TypeOK
<1> DEFINE in == IF KindOf[k] = "in" /\ req[p].row.in = NoTime THEN req[p].at ELSE req[p].row.in
           out == IF KindOf[k] = "out" THEN req[p].at ELSE req[p].row.out
           m == Metrics(d, in, out, req[p].plan.shift)
           status == ClockStatus(KindOf[k])
<1>3. days' = [days EXCEPT ![d].status = status, ![d].late = m.late, ![d].early = m.early,
                           ![d].in = IF KindOf[k] = "in" THEN in ELSE @,
                           ![d].out = IF KindOf[k] = "out" THEN out ELSE @]
  BY <1>1 DEF WriteDay
<1>4. status # "none"
  BY DEF ClockStatus
<1> HIDE DEF in, out, m, status, d
<1>5. /\ OtherDays(d) /\ SameFlag(d) /\ Stored(days'[d]) /\ days'[d].adjusted = days[d].adjusted
      /\ days'[d].in = (IF KindOf[k] = "in" THEN in ELSE days[d].in)
      /\ days'[d].out = (IF KindOf[k] = "out" THEN out ELSE days[d].out)
      /\ days'[d].late = m.late /\ days'[d].early = m.early
  BY <1>2, <1>3, <1>4 DEF OtherDays, SameFlag, Stored, DayRow
<1>6. Clocked(p, k)
  BY <1>5 DEF Clocked, d, m, in, out
<1>7. Gone(p) \/ ToKept(p, "flag")
  BY GotoKept, ReturnGone DEF WriteDay, Pc
<1> QED BY <1>1, <1>2, <1>6, <1>7 DEF d

LEMMA AdjWriteEffect ==
    ASSUME Typed, NEW p \in Proc, AdjWrite(p)
    PROVE  LET d == req[p].day
               in == OrElse(d, req[p].wish.in, req[p].row.in)
               out == OrElse(d, req[p].wish.out, req[p].row.out)
               m == Metrics(d, in, out, req[p].plan.shift)
           IN /\ req[p].pc = "adjWrite" /\ d \in Day
              /\ ToKept(p, IF req[p].op = "edit" THEN "adjAudit" ELSE "adjStatus")
              /\ OtherDays(d) /\ SameFlag(d) /\ Stored(days'[d]) /\ days'[d].adjusted
              /\ days'[d].in = in /\ days'[d].out = out
              /\ days'[d].late = m.late /\ days'[d].early = m.early
<1> DEFINE d == req[p].day
           in == OrElse(d, req[p].wish.in, req[p].row.in)
           out == OrElse(d, req[p].wish.out, req[p].row.out)
           m == Metrics(d, in, out, req[p].plan.shift)
           new == Adjusted(req[p].row, d, req[p].wish, req[p].plan.shift)
           flag == days[d].flag
<1>1. req[p].pc = "adjWrite" /\ d \in Day /\ days \in [Day -> DayRow]
  BY RowFacts DEF AdjWrite, At, Typed, TypeOK
<1>2. days' = [days EXCEPT ![d] = [new EXCEPT !.flag = flag]]
  BY DEF AdjWrite
<1>3. /\ new.status # "none" /\ new.in = in /\ new.out = out /\ new.late = m.late /\ new.early = m.early
      /\ new.adjusted = TRUE /\ new \in [status : {new.status}, in : {in}, out : {out}, late : {m.late},
                                         early : {m.early}, flag : {"none"}, adjusted : {TRUE}]
  <2> HIDE DEF in, out, m, d
  <2>1. new = [status |-> IF in # NoTime /\ out # NoTime
                          THEN IF m.late > 0 THEN "LATE" ELSE "PRESENT"
                          ELSE IF in # NoTime THEN "INCOMPLETE" ELSE "ABSENT",
               in |-> in, out |-> out, late |-> m.late, early |-> m.early,
               flag |-> "none", adjusted |-> TRUE]
    BY DEF Adjusted, in, out, m
  <2> HIDE DEF new
  <2> QED BY <2>1
<1>4. ToKept(p, IF req[p].op = "edit" THEN "adjAudit" ELSE "adjStatus")
  BY GotoKept DEF AdjWrite, Pc
<1> HIDE DEF d, in, out, m, new, flag
<1>5. /\ OtherDays(d) /\ SameFlag(d) /\ Stored(days'[d]) /\ days'[d].adjusted
      /\ days'[d].in = in /\ days'[d].out = out /\ days'[d].late = m.late /\ days'[d].early = m.early
  BY <1>1, <1>2, <1>3 DEF OtherDays, SameFlag, Stored, flag
<1> QED BY <1>1, <1>4, <1>5 DEF d, in, out, m

LEMMA MoveEffects ==
    ASSUME Typed, NEW p \in Proc
    PROVE  LET d == req[p].day
           IN /\ MoveShift(p) =>
                   /\ req[p].pc = "mmMove" /\ d \in Day /\ ToKept(p, "mmRead")
                   /\ asg'[d].shift = req[p].to /\ \A e \in Day \ {d} : asg'[e] = asg[e]
              /\ WriteMoved(p) =>
                   LET m == Metrics(d, req[p].row.in, req[p].row.out, req[p].to)
                   IN /\ req[p].pc = "mmWrite" /\ d \in Day /\ ToKept(p, "mmFlag")
                      /\ OtherDays(d) /\ SameClocks(d) /\ SameFlag(d) /\ Stored(days'[d])
                      /\ days'[d].late = m.late /\ days'[d].early = m.early
              /\ MarkWrongShift(p) =>
                   /\ req[p].pc = "mmWrong" /\ d \in Day /\ ToKept(p, "mmFlag")
                   /\ OtherDays(d) /\ SameClocks(d) /\ SameFlag(d) /\ SameMinutes(d)
                   /\ (Stored(days[d]) <=> Stored(days'[d]))
<1> DEFINE d == req[p].day
           m == Metrics(d, req[p].row.in, req[p].row.out, req[p].to)
<1>1. /\ days \in [Day -> DayRow] /\ asg \in [Day -> Plan]
      /\ req[p].pc \notin {"idle", "key", "prior"} => d \in Day
  BY RowFacts DEF Typed, TypeOK
<1>2. ASSUME MoveShift(p)
      PROVE  /\ req[p].pc = "mmMove" /\ d \in Day /\ ToKept(p, "mmRead")
             /\ asg'[d].shift = req[p].to /\ \A e \in Day \ {d} : asg'[e] = asg[e]
  <2>1. req[p].pc = "mmMove" /\ d \in Day /\ ToKept(p, "mmRead")
    BY <1>1, <1>2, GotoKept DEF MoveShift, At, Pc
  <2>2. asg' = [asg EXCEPT ![d] = [asg[d] EXCEPT !.shift = req[p].to]]
    BY <1>1, <1>2, <2>1 DEF MoveShift
  <2>3. asg[d] \in Plan
    BY <1>1, <2>1
  <2> HIDE DEF d
  <2>4. [asg[d] EXCEPT !.shift = req[p].to].shift = req[p].to
    BY <2>3 DEF Plan
  <2> QED BY <1>1, <2>1, <2>2, <2>4
<1>3. ASSUME WriteMoved(p)
      PROVE  /\ req[p].pc = "mmWrite" /\ d \in Day /\ ToKept(p, "mmFlag")
             /\ OtherDays(d) /\ SameClocks(d) /\ SameFlag(d) /\ Stored(days'[d])
             /\ days'[d].late = m.late /\ days'[d].early = m.early
  <2> DEFINE status == IF req[p].row.in = NoTime \/ req[p].row.out = NoTime THEN "INCOMPLETE"
                       ELSE IF m.late > 0 THEN "LATE" ELSE "PRESENT"
  <2>1. req[p].pc = "mmWrite" /\ d \in Day /\ ToKept(p, "mmFlag")
    BY <1>1, <1>3, GotoKept DEF WriteMoved, At, Pc
  <2>2. days' = [days EXCEPT ![d].status = status, ![d].late = m.late, ![d].early = m.early]
    BY <1>3 DEF WriteMoved, NewShift
  <2>3. status # "none"
    OBVIOUS
  <2> HIDE DEF status, m, d
  <2> QED BY <1>1, <2>1, <2>2, <2>3 DEF OtherDays, SameClocks, SameFlag, Stored, DayRow
<1>4. ASSUME MarkWrongShift(p)
      PROVE  /\ req[p].pc = "mmWrong" /\ d \in Day /\ ToKept(p, "mmFlag")
             /\ OtherDays(d) /\ SameClocks(d) /\ SameFlag(d) /\ SameMinutes(d)
             /\ (Stored(days[d]) <=> Stored(days'[d]))
  <2> DEFINE status == IF Stored(days[d]) THEN "WRONG_SHIFT" ELSE days[d].status
  <2>1. req[p].pc = "mmWrong" /\ d \in Day /\ ToKept(p, "mmFlag")
    BY <1>1, <1>4, GotoKept DEF MarkWrongShift, At, Pc
  <2>2. days' = [days EXCEPT ![d].status = status]
    BY <1>4 DEF MarkWrongShift
  <2>3. status = "none" <=> days[d].status = "none"
    BY DEF Stored
  <2> HIDE DEF status, d
  <2> QED BY <1>1, <2>1, <2>2, <2>3 DEF OtherDays, SameClocks, SameFlag, SameMinutes, Stored, DayRow
<1> QED BY <1>2, <1>3, <1>4 DEF d, m

\* A flag is written, or the error of writing it swallowed.
FlagWritten(d, flag) ==
    \/ /\ OtherDays(d) /\ SameClocks(d) /\ SameMinutes(d) /\ days'[d].flag = flag
       /\ (Stored(days[d]) <=> Stored(days'[d])) /\ UNCHANGED torn
    \/ UNCHANGED days /\ torn' = torn \cup {d}

LEMMA FlagEffects ==
    ASSUME Typed, NEW p \in Proc
    PROVE  LET d == req[p].day
           IN /\ FlagPending(p) => /\ req[p].pc = "flag" /\ d \in Day /\ ToKept(p, "pending")
                                   /\ FlagWritten(d, "PENDING") /\ UNCHANGED <<events, asg, adj, mm, raced, replanned>>
              /\ FlagDecided(p) => /\ req[p].pc = "mmFlag" /\ d \in Day /\ ToKept(p, "mmStatus")
                                   /\ (FlagWritten(d, "APPROVED") \/ FlagWritten(d, "REJECTED"))
                                   /\ UNCHANGED <<events, asg, adj, mm, raced, replanned>>
<1> DEFINE d == req[p].day
<1>1. /\ days \in [Day -> DayRow]
      /\ req[p].pc \notin {"idle", "key", "prior"} => d \in Day
  BY RowFacts DEF Typed, TypeOK
<1>2. ASSUME d \in Day, NEW flag, NEW next \in Pc, Flag(p, d, flag, next)
      PROVE  ToKept(p, next) /\ FlagWritten(d, flag) /\ UNCHANGED <<events, asg, adj, mm, raced, replanned>>
  <2>1. ToKept(p, next)
    BY <1>2, GotoKept DEF Flag
  <2> HIDE DEF d
  <2>2. FlagWritten(d, flag)
    BY <1>1, <1>2 DEF Flag, FlagWritten, OtherDays, SameClocks, SameMinutes, Stored, DayRow
  <2> QED BY <1>2, <2>1, <2>2 DEF Flag
<1>3. ASSUME FlagPending(p)
      PROVE  /\ req[p].pc = "flag" /\ d \in Day /\ ToKept(p, "pending")
             /\ FlagWritten(d, "PENDING") /\ UNCHANGED <<events, asg, adj, mm, raced, replanned>>
  BY <1>1, <1>2, <1>3 DEF FlagPending, At, Pc
<1>4. ASSUME FlagDecided(p)
      PROVE  /\ req[p].pc = "mmFlag" /\ d \in Day /\ ToKept(p, "mmStatus")
             /\ (FlagWritten(d, "APPROVED") \/ FlagWritten(d, "REJECTED"))
             /\ UNCHANGED <<events, asg, adj, mm, raced, replanned>>
  <2>1. Verdict(req[p].op) \in {"APPROVED", "REJECTED"}
    BY DEF Verdict
  <2>2. req[p].pc = "mmFlag" /\ d \in Day /\ Flag(p, d, Verdict(req[p].op), "mmStatus")
    BY <1>1, <1>4 DEF FlagDecided, At
  <2> QED BY <1>2, <2>1, <2>2 DEF Pc
<1> QED BY <1>3, <1>4 DEF d

\* The statements that write requests for adjustments and decisions.
LEMMA AskEffects ==
    ASSUME Typed, NEW p \in Proc
    PROVE  /\ FileMismatch(p) =>
                /\ req[p].pc = "file" /\ Gone(p) /\ UNCHANGED adj
                /\ \E m \in Mismatch : /\ mm[m].status = "none" /\ \A n \in Mismatch \ {m} : mm'[n] = mm[n]
                                       /\ mm'[m].status = "SUBMITTED" /\ mm'[m].day = req[p].day
           /\ InsertAdj(p) =>
                /\ req[p].pc = "adjInsert" /\ Gone(p) /\ UNCHANGED mm
                /\ \E a \in Adj : /\ req[p].id = {a} /\ \A b \in Adj \ {a} : adj'[b] = adj[b]
                                  /\ adj'[a].status = "SUBMITTED" /\ adj'[a].day = req[p].day
           /\ AdjAudit(p) =>
                /\ req[p].pc = "adjAudit" /\ Gone(p) /\ UNCHANGED mm
                /\ \/ UNCHANGED adj
                   \/ \E a \in Adj : /\ adj[a].status = "none" /\ \A b \in Adj \ {a} : adj'[b] = adj[b]
                                     /\ \A q \in Proc : a \notin req[q].id
           /\ AdjStatus(p) =>
                /\ req[p].pc = "adjStatus" /\ Gone(p) /\ UNCHANGED mm
                /\ \E a \in Adj : /\ req[p].id = {a} /\ \A b \in Adj \ {a} : adj'[b] = adj[b]
                                  /\ adj'[a].status \in {"APPROVED", "REJECTED"} /\ adj'[a].day = adj[a].day
           /\ MismatchStatus(p) =>
                /\ req[p].pc = "mmStatus" /\ Gone(p) /\ UNCHANGED adj
                /\ \E m \in Mismatch : /\ req[p].id = {m} /\ \A n \in Mismatch \ {m} : mm'[n] = mm[n]
                                       /\ mm'[m].status \in {"APPROVED", "REJECTED"} /\ mm'[m].day = mm[m].day
<1>1. req[p] \in ReqType /\ RequestFits(req[p]) /\ OpFits(req[p])
  BY RowFacts DEF Typed
<1>2. /\ adj \in [Adj -> [status : ReqStatus, day : 0 .. NDay, wish : Wish]]
      /\ mm \in [Mismatch -> [status : ReqStatus, day : 0 .. NDay,
                              from : Shift \cup {NoShift}, to : Shift \cup {NoShift}]]
  BY DEF Typed, TypeOK
<1>3. FileMismatch(p) =>
                /\ req[p].pc = "file" /\ Gone(p) /\ UNCHANGED adj
                /\ \E m \in Mismatch : /\ mm[m].status = "none" /\ \A n \in Mismatch \ {m} : mm'[n] = mm[n]
                                       /\ mm'[m].status = "SUBMITTED" /\ mm'[m].day = req[p].day
  BY <1>2, ReturnGone DEF FileMismatch, At
<1>4. ASSUME InsertAdj(p)
      PROVE     /\ req[p].pc = "adjInsert" /\ Gone(p) /\ UNCHANGED mm
                /\ \E a \in Adj : /\ req[p].id = {a} /\ \A b \in Adj \ {a} : adj'[b] = adj[b]
                                  /\ adj'[a].status = "SUBMITTED" /\ adj'[a].day = req[p].day
  <2>1. PICK a \in Adj : req[p].id = {a}
    BY <1>1, <1>4 DEF InsertAdj, At, RequestFits, OpFits
  <2> QED BY <1>2, <1>4, <2>1, ReturnGone DEF InsertAdj, At
<1>5. AdjAudit(p) =>
                /\ req[p].pc = "adjAudit" /\ Gone(p) /\ UNCHANGED mm
                /\ \/ UNCHANGED adj
                   \/ \E a \in Adj : /\ adj[a].status = "none" /\ \A b \in Adj \ {a} : adj'[b] = adj[b]
                                     /\ \A q \in Proc : a \notin req[q].id
  BY <1>2, ReturnGone DEF AdjAudit, At
<1>6. ASSUME AdjStatus(p)
      PROVE     /\ req[p].pc = "adjStatus" /\ Gone(p) /\ UNCHANGED mm
                /\ \E a \in Adj : /\ req[p].id = {a} /\ \A b \in Adj \ {a} : adj'[b] = adj[b]
                                  /\ adj'[a].status \in {"APPROVED", "REJECTED"} /\ adj'[a].day = adj[a].day
  <2>1. PICK a \in Adj : req[p].id = {a}
    BY <1>1, <1>6 DEF AdjStatus, At, RequestFits, OpFits
  <2>2. Verdict(req[p].op) \in {"APPROVED", "REJECTED"}
    BY DEF Verdict
  <2>3. adj' = [adj EXCEPT ![a].status = Verdict(req[p].op)]
    BY <1>6, <2>1 DEF AdjStatus
  <2> QED BY <1>2, <1>6, <2>1, <2>2, <2>3, ReturnGone DEF AdjStatus, At
<1>7. ASSUME MismatchStatus(p)
      PROVE     /\ req[p].pc = "mmStatus" /\ Gone(p) /\ UNCHANGED adj
                /\ \E m \in Mismatch : /\ req[p].id = {m} /\ \A n \in Mismatch \ {m} : mm'[n] = mm[n]
                                       /\ mm'[m].status \in {"APPROVED", "REJECTED"} /\ mm'[m].day = mm[m].day
  <2>1. PICK m \in Mismatch : req[p].id = {m}
    BY <1>1, <1>7 DEF MismatchStatus, At, RequestFits, OpFits
  <2>2. Verdict(req[p].op) \in {"APPROVED", "REJECTED"}
    BY DEF Verdict
  <2>3. mm' = [mm EXCEPT ![m].status = Verdict(req[p].op)]
    BY <1>7, <2>1 DEF MismatchStatus
  <2> QED BY <1>2, <1>7, <2>1, <2>2, <2>3, ReturnGone DEF MismatchStatus, At
<1> QED BY <1>3, <1>4, <1>5, <1>6, <1>7

\* A request that turns to a day, where it may meet others.
Enters(p, d) ==
    /\ OthersKept(p) /\ req[p].day = 0 /\ d \in Day /\ req'[p].day = d
    /\ raced' = IF \E q \in Proc \ {p} : req[q].day = d THEN raced \cup {d} ELSE raced

LEMMA EnterEffect ==
    ASSUME Typed, NEW p \in Proc, req[p].day = 0, NEW d \in Day, NEW r \in ReqType, Enter(p, d, r)
    PROVE  /\ Enters(p, d) /\ req'[p].op = r.op /\ req'[p].pc = r.pc /\ req'[p].id = r.id
           /\ req'[p].key = r.key /\ req'[p].at = r.at /\ req'[p].row = r.row
<1>1. req' = [req EXCEPT ![p] = [r EXCEPT !.day = d]]
  BY DEF Enter, Update
<1>2. req \in [Proc -> ReqType]
  BY DEF Typed, TypeOK
<1>3. req'[p] = [r EXCEPT !.day = d] /\ OthersKept(p)
  BY <1>1, <1>2 DEF OthersKept
<1> QED BY <1>3, DayField DEF Enters, Enter

LEMMA StartEffects ==
    ASSUME Typed, NEW p \in Proc, StartStep(p)
    PROVE  /\ req[p] = Idle /\ UNCHANGED <<tables, replanned, torn>>
           /\ \/ /\ OthersKept(p) /\ req'[p].op = "clock" /\ req'[p].pc = "key" /\ req'[p].day = 0
                 /\ UNCHANGED raced
              \/ \E d \in Day : /\ Enters(p, d) /\ req'[p].op = "edit" /\ req'[p].pc = "adjRead"
              \/ \E d \in Day, a \in Adj : /\ Enters(p, d) /\ req'[p].op = "request" /\ req'[p].pc = "adjPending"
                                           /\ req'[p].id = {a} /\ adj[a].status = "none"
                                           /\ \A q \in Proc : a \notin req[q].id
              \/ \E a \in Adj : /\ Enters(p, adj[a].day) /\ req'[p].op \in {"approve", "reject"}
                                /\ req'[p].pc \in {"adjRead", "adjStatus"}
                                /\ req'[p].id = {a} /\ adj[a].status = "SUBMITTED"
              \/ \E m \in Mismatch : /\ Enters(p, mm[m].day) /\ req'[p].op \in {"move", "refuse"}
                                     /\ req'[p].pc \in {"mmFind", "mmWrong"}
                                     /\ req'[p].id = {m} /\ mm[m].status = "SUBMITTED"
<1>1. req[p] = Idle /\ req[p].day = 0 /\ Idle \in ReqType
  BY IdleFields, IdleFits DEF StartStep, ClockStart, EditStart, RequestStart, ReviewStart, MismatchStart, Begin
<1>2. ASSUME NEW k \in Key, ClockStart(p, k)
      PROVE  /\ UNCHANGED <<tables, replanned, torn>> /\ OthersKept(p) /\ req'[p].op = "clock"
             /\ req'[p].pc = "key" /\ req'[p].day = 0 /\ UNCHANGED raced
  <2>1. req' = [req EXCEPT ![p] = [Idle EXCEPT !.op = "clock", !.pc = "key", !.key = {k}]]
    BY <1>2 DEF ClockStart, Update
  <2> QED BY <1>1, <1>2, <2>1, IdleFields DEF ClockStart, histories, OthersKept, Typed, TypeOK, ReqType
<1>3. ASSUME NEW d \in Day, NEW w \in Wishes, EditStart(p, d, w)
      PROVE  /\ UNCHANGED <<tables, replanned, torn>>
             /\ Enters(p, d) /\ req'[p].op = "edit" /\ req'[p].pc = "adjRead"
  <2> DEFINE r == [Idle EXCEPT !.op = "edit", !.pc = "adjRead", !.wish = w]
  <2>1. r \in ReqType /\ r.op = "edit" /\ r.pc = "adjRead"
    BY IdleFits, WishType DEF ReqType
  <2>2. Enter(p, d, r) /\ UNCHANGED <<tables, replanned, torn>>
    BY <1>3 DEF EditStart
  <2> HIDE DEF r
  <2> QED BY <1>1, <2>1, <2>2, EnterEffect
<1>4. ASSUME NEW d \in Day, NEW w \in Wishes, NEW a \in Adj, RequestStart(p, a, d, w)
      PROVE  /\ UNCHANGED <<tables, replanned, torn>>
             /\ Enters(p, d) /\ req'[p].op = "request" /\ req'[p].pc = "adjPending"
             /\ req'[p].id = {a} /\ adj[a].status = "none" /\ \A q \in Proc : a \notin req[q].id
  <2> DEFINE r == [Idle EXCEPT !.op = "request", !.pc = "adjPending", !.id = {a}, !.wish = w]
  <2>1. r \in ReqType /\ r.op = "request" /\ r.pc = "adjPending" /\ r.id = {a}
    BY IdleFits, WishType DEF ReqType
  <2>2. Enter(p, d, r) /\ UNCHANGED <<tables, replanned, torn>> /\ adj[a].status = "none"
        /\ \A q \in Proc : a \notin req[q].id
    BY <1>4 DEF RequestStart
  <2> HIDE DEF r
  <2> QED BY <1>1, <2>1, <2>2, EnterEffect
<1>5. ASSUME NEW a \in Adj, NEW op \in {"approve", "reject"}, ReviewStart(p, a, op)
      PROVE  /\ UNCHANGED <<tables, replanned, torn>>
             /\ Enters(p, adj[a].day) /\ req'[p].op \in {"approve", "reject"}
             /\ req'[p].pc \in {"adjRead", "adjStatus"} /\ req'[p].id = {a} /\ adj[a].status = "SUBMITTED"
  <2> DEFINE pc == IF op = "approve" THEN "adjRead" ELSE "adjStatus"
             w == adj[a].wish
             r == [Idle EXCEPT !.op = op, !.id = {a}, !.wish = w, !.pc = pc]
  <2>1. adj[a].status = "SUBMITTED" /\ adj[a].day \in Day /\ w \in Wish
    BY <1>5, AskedDay DEF ReviewStart, Reviewable
  <2>2. Enter(p, adj[a].day, r) /\ UNCHANGED <<tables, replanned, torn>>
    BY <1>5 DEF ReviewStart
  <2>3. pc \in {"adjRead", "adjStatus"}
    OBVIOUS
  <2> HIDE DEF w, pc
  <2>4. r \in ReqType /\ r.op = op /\ r.pc = pc /\ r.id = {a}
    BY ZenonT(30), IdleFits, <2>1, <2>3 DEF ReqType
  <2> HIDE DEF r
  <2> QED BY <1>1, <2>1, <2>2, <2>3, <2>4, EnterEffect
<1>6. ASSUME NEW m \in Mismatch, NEW op \in {"move", "refuse"}, MismatchStart(p, m, op)
      PROVE  /\ UNCHANGED <<tables, replanned, torn>>
             /\ Enters(p, mm[m].day) /\ req'[p].op \in {"move", "refuse"}
             /\ req'[p].pc \in {"mmFind", "mmWrong"} /\ req'[p].id = {m} /\ mm[m].status = "SUBMITTED"
  <2> DEFINE pc == IF op = "move" THEN "mmFind" ELSE "mmWrong"
             from == mm[m].from
             to == mm[m].to
             r == [Idle EXCEPT !.op = op, !.id = {m}, !.from = from, !.to = to, !.pc = pc]
  <2>1. /\ mm[m].status = "SUBMITTED" /\ mm[m].day \in Day
        /\ from \in Shift \cup {NoShift} /\ to \in Shift \cup {NoShift}
    BY <1>6, AskedDay DEF MismatchStart
  <2>2. Enter(p, mm[m].day, r) /\ UNCHANGED <<tables, replanned, torn>>
    BY <1>6 DEF MismatchStart
  <2>3. pc \in {"mmFind", "mmWrong"}
    OBVIOUS
  <2> HIDE DEF from, to, pc
  <2>4. r \in ReqType /\ r.op = op /\ r.pc = pc /\ r.id = {m}
    BY ZenonT(30), IdleFits, <2>1, <2>3 DEF ReqType
  <2> HIDE DEF r
  <2> QED BY <1>1, <2>1, <2>2, <2>3, <2>4, EnterEffect
<1> QED BY <1>1, <1>2, <1>3, <1>4, <1>5, <1>6 DEF StartStep

LEMMA ReadPriorEffect ==
    ASSUME Typed, NEW p \in Proc, ReadPrior(p)
    PROVE  /\ req[p].pc = "prior" /\ Enters(p, DayOf(now)) /\ UNCHANGED <<tables, replanned, torn>>
           /\ req'[p].pc = "events" /\ req'[p].op = "clock" /\ req'[p].key = req[p].key
           /\ req'[p].at = now /\ req'[p].row = days[DayOf(now)]
<1> DEFINE row == days[DayOf(now)]
           r == [req[p] EXCEPT !.pc = "events", !.at = now, !.row = row]
<1>1. /\ req[p] \in ReqType /\ req[p].pc = "prior" /\ req[p].day = 0 /\ req[p].op = "clock"
  BY RowFacts DEF Typed, ReadPrior, At, RequestFits, OpFits, ClockPc
<1>2. DayOf(now) \in Day /\ now \in Instant /\ row \in DayRow
  BY InstantHasDay DEF Typed, TypeOK
<1>3. Enter(p, DayOf(now), r) /\ UNCHANGED <<tables, replanned, torn>>
  BY DEF ReadPrior
<1> HIDE DEF row
<1>4. /\ r \in ReqType /\ r.pc = "events" /\ r.op = req[p].op /\ r.key = req[p].key /\ r.at = now
      /\ r.row = row
  BY ZenonT(30), <1>1, <1>2 DEF ReqType, Time
<1> HIDE DEF r
<1> QED BY <1>1, <1>2, <1>3, <1>4, EnterEffect DEF row

LEMMA FailEffect ==
    ASSUME Typed, NEW p \in Proc, Fail(p)
    PROVE  Gone(p) /\ torn' = torn \cup {req[p].day} /\ UNCHANGED <<tables, raced, replanned>>
BY ReturnGone DEF Fail

-----------------------------------------------------------------------------
(* A request stays on its day: two meet only on a day that is then raced.   *)

Stays(p) == OthersKept(p) /\ req'[p].day \in {req[p].day, 0} /\ raced' = raced

\* A request that has started goes on with its task or ends.
Goes(p) == Gone(p) \/ \E pc \in Pc : To(p, pc)

LEMMA RunGoes ==
    ASSUME Typed, NEW p \in Proc, RunStep(p) \/ Fail(p), ~ ReadPrior(p)
    PROVE  Goes(p)
<1>1. CASE LookUpKey(p) \/ ReadEvents(p) \/ CheckPending(p) \/ CheckAdjPending(p) \/ FindShift(p)
  BY <1>1, ReadEffects DEF Goes, ToKept, Pc
<1>2. CASE ResolveShift(p) \/ ReadPlan(p) \/ AdjRead(p) \/ AdjPlan(p) \/ ReadMoved(p)
  BY <1>2, HoldEffects DEF Goes, Pc
<1>3. CASE InsertEvent(p) \/ SavePhoto(p)
  BY <1>3, EventEffects DEF Goes, ToKept, Pc
<1>4. CASE FileMismatch(p) \/ InsertAdj(p) \/ AdjAudit(p) \/ AdjStatus(p) \/ MismatchStatus(p)
  BY <1>4, AskEffects DEF Goes
<1>5. CASE WriteDay(p)
  BY <1>5, WriteDayEffect DEF Goes, ToKept, Pc
<1>6. CASE AdjWrite(p)
  BY <1>6, AdjWriteEffect DEF Goes, ToKept, Pc
<1>7. CASE MoveShift(p) \/ WriteMoved(p) \/ MarkWrongShift(p)
  BY <1>7, MoveEffects DEF Goes, ToKept, Pc
<1>8. CASE FlagPending(p) \/ FlagDecided(p)
  BY <1>8, FlagEffects DEF Goes, ToKept, Pc
<1>9. CASE Fail(p)
  BY <1>9, FailEffect DEF Goes
<1> QED BY <1>1, <1>2, <1>3, <1>4, <1>5, <1>6, <1>7, <1>8, <1>9, Statements

LEMMA RunStays ==
    ASSUME Typed, NEW p \in Proc, RunStep(p) \/ Fail(p), ~ ReadPrior(p)
    PROVE  Stays(p)
<1>1. OthersKept(p) /\ req'[p].day \in {req[p].day, 0}
  BY RunGoes, IdleFields DEF Goes, Gone, To
<1>2. raced' = raced
  <2>1. CASE Fail(p)
    BY <2>1, FailEffect
  <2>2. CASE RunStep(p)
    BY <2>2 DEF RunStep, LookUpKey, ReadEvents, ResolveShift, InsertEvent, SavePhoto, ReadPlan,
       WriteDay, FlagPending, CheckPending, FileMismatch, CheckAdjPending, InsertAdj, AdjRead, AdjPlan,
       AdjWrite, AdjAudit, AdjStatus, FindShift, MoveShift, ReadMoved, WriteMoved, MarkWrongShift,
       FlagDecided, MismatchStatus, Flag, histories
  <2> QED BY <2>1, <2>2
<1> QED BY <1>1, <1>2 DEF Stays

\* What a start does to the day of its request.
LEMMA StartStays ==
    ASSUME Typed, NEW p \in Proc, StartStep(p)
    PROVE  (OthersKept(p) /\ req'[p].day = 0 /\ raced' = raced) \/ \E d \in Day : Enters(p, d)
BY StartEffects DEF Enters

LEMMA QuietSteps ==
    ASSUME Tick \/ (\E d \in Day, s \in PeriodShift : Replan(d, s)) \/ UNCHANGED vars
    PROVE  UNCHANGED <<events, days, adj, mm, req, raced, torn>>
BY DEF Tick, Replan, vars, tables, histories

LEMMA OneAtATimeStep ==
    ASSUME Typed, OneAtATime, [Next]_vars
    PROVE  OneAtATime'
<1>0. raced \subseteq Day /\ req \in [Proc -> ReqType]
  BY DEF Typed, TypeOK
<1>1. ASSUME NEW p \in Proc, OthersKept(p), req'[p].day \in {req[p].day, 0}, raced' = raced
      PROVE  OneAtATime'
  BY <1>0, <1>1 DEF OthersKept, OneAtATime
<1>2. ASSUME NEW p \in Proc, NEW d \in Day, Enters(p, d)
      PROVE  OneAtATime'
  BY <1>0, <1>2 DEF Enters, OthersKept, OneAtATime
<1>3. ASSUME NEW p \in Proc, StartStep(p) \/ RunStep(p) \/ Fail(p) PROVE OneAtATime'
  <2>1. CASE StartStep(p)
    BY <2>1, StartStays, <1>1, <1>2
  <2>2. CASE ReadPrior(p)
    BY <2>2, ReadPriorEffect, <1>2 DEF Enters
  <2>3. CASE (RunStep(p) \/ Fail(p)) /\ ~ ReadPrior(p)
    BY <2>3, RunStays, <1>1 DEF Stays
  <2> QED BY <1>3, <2>1, <2>2, <2>3
<1>4. CASE Tick \/ (\E d \in Day, s \in PeriodShift : Replan(d, s)) \/ UNCHANGED vars
  <2>1. req' = req /\ raced' = raced
    BY <1>4, QuietSteps
  <2> QED BY <2>1 DEF OneAtATime
<1> QED BY <1>3, <1>4 DEF Next

LEMMA AlwaysOneAtATime == Spec => []OneAtATime
<1>1. Init => OneAtATime
  BY IdleFields DEF Init, OneAtATime
<1> QED BY <1>1, OneAtATimeStep, AlwaysTyped, PTL DEF Spec

-----------------------------------------------------------------------------
(* Clock events.                                                           *)

Step(p) == StartStep(p) \/ RunStep(p) \/ Fail(p)

\* p holds an event after a step only if it held it before.
HoldsLess(p) ==
    /\ OthersKept(p)
    /\ req'[p].pc \in {"photo", "plan", "day"} =>
         /\ Holding(p) /\ req'[p].pc # "photo"
         /\ req'[p].key = req[p].key /\ req'[p].at = req[p].at /\ req'[p].day = req[p].day

LEMMA EventsKept ==
    ASSUME Typed, NEW p \in Proc, Step(p), ~ InsertEvent(p), ~ SavePhoto(p)
    PROVE  events' = events /\ HoldsLess(p)
<1>1. CASE StartStep(p)
  BY <1>1, StartEffects DEF HoldsLess, Enters, tables
<1>2. CASE LookUpKey(p) \/ ReadEvents(p) \/ CheckPending(p) \/ CheckAdjPending(p) \/ FindShift(p)
  <2>1. Gone(p) \/ \E pc \in {"prior", "shift", "insert", "file", "adjInsert", "mmMove"} : To(p, pc)
    BY <1>2, ReadEffects DEF ToKept
  <2> QED BY <1>2, <2>1, IdleFields
          DEF LookUpKey, ReadEvents, CheckPending, CheckAdjPending, FindShift, tables, HoldsLess, Gone, To
<1>3. CASE ResolveShift(p) \/ ReadPlan(p) \/ AdjRead(p) \/ AdjPlan(p) \/ ReadMoved(p)
  <2>1. events' = events
    BY <1>3 DEF ResolveShift, ReadPlan, AdjRead, AdjPlan, ReadMoved, tables
  <2> QED BY <1>3, <2>1, HoldEffects, IdleFields DEF HoldsLess, Gone, To, Holding
<1>4. CASE ReadPrior(p)
  BY <1>4, ReadPriorEffect DEF HoldsLess, Enters, tables
<1>5. CASE FileMismatch(p) \/ InsertAdj(p) \/ AdjAudit(p) \/ AdjStatus(p) \/ MismatchStatus(p)
  BY <1>5, AskEffects, IdleFields DEF FileMismatch, InsertAdj, AdjAudit, AdjStatus, MismatchStatus, HoldsLess, Gone
<1>6. CASE WriteDay(p)
  BY <1>6, WriteDayEffect, IdleFields DEF WriteDay, HoldsLess, Gone, To, ToKept
<1>7. CASE AdjWrite(p)
  BY <1>7, AdjWriteEffect DEF AdjWrite, HoldsLess, To, ToKept
<1>8. CASE MoveShift(p) \/ WriteMoved(p) \/ MarkWrongShift(p)
  BY <1>8, MoveEffects DEF MoveShift, WriteMoved, MarkWrongShift, HoldsLess, To, ToKept
<1>9. CASE FlagPending(p) \/ FlagDecided(p)
  BY <1>9, FlagEffects DEF HoldsLess, To, ToKept
<1>10. CASE Fail(p)
  BY <1>10, FailEffect, IdleFields DEF HoldsLess, Gone, tables
<1> QED BY <1>1, <1>2, <1>3, <1>4, <1>5, <1>6, <1>7, <1>8, <1>9, <1>10, Statements DEF Step

\* Every step is one of these.
LEMMA StepCases ==
    ASSUME [Next]_vars
    PROVE  \/ \E p \in Proc : Step(p)
           \/ Tick \/ (\E d \in Day, s \in PeriodShift : Replan(d, s)) \/ UNCHANGED vars
BY DEF Next, Step

LEMMA EventFitsStep ==
    ASSUME Typed, EventFits, [Next]_vars
    PROVE  EventFits'
<1>0. /\ req \in [Proc -> ReqType] /\ events \in [Key -> Event] /\ KindOf \in [Key -> Kind]
      /\ NoEvent.kind = "none" /\ "none" \notin Kind
  BY AttendanceAssumption DEF Typed, TypeOK, NoEvent, Kind
<1>1. ASSUME NEW p \in Proc, HoldsLess(p), events' = events PROVE EventFits'
  BY <1>0, <1>1 DEF EventFits, HoldsLess, OthersKept, Holding, HasKey
<1>2. ASSUME NEW p \in Proc, InsertEvent(p) PROVE EventFits'
  <2>1. PICK k \in Key : /\ req[p].key = {k}
                         /\ \/ Gone(p) /\ UNCHANGED events
                            \/ ToKept(p, "photo") /\ EventWritten(p, k)
    BY <1>2, EventEffects
  <2>2. CASE Gone(p) /\ UNCHANGED events
    BY <2>2, <1>1, IdleFields DEF Gone, HoldsLess
  <2>3. CASE ToKept(p, "photo") /\ EventWritten(p, k)
    <3>1. req[p].pc = "insert" /\ req[p].at \in Instant
      BY <1>2, EventEffects, RowFacts, AttendanceAssumption
         DEF Typed, RequestFits, OpFits, ClockPc, Day
    <3>2. \A q \in Proc \ {p} : ~ (Holding(q) /\ HasKey(q, k))
      BY <1>0, <2>3 DEF EventFits, EventWritten
    <3>3. /\ events'[k] = [kind |-> KindOf[k], at |-> req[p].at]
          /\ \A j \in Key \ {k} : events'[j] = events[j]
      BY <1>0, <2>3 DEF EventWritten
    <3>4. /\ \A q \in Proc \ {p} : req'[q] = req[q]
          /\ req'[p].key = {k} /\ req'[p].at = req[p].at
      BY <2>1, <2>3 DEF ToKept, To, OthersKept
    <3> QED BY <1>0, <3>1, <3>2, <3>3, <3>4 DEF EventFits, Holding, HasKey
  <2> QED BY <2>1, <2>2, <2>3
<1>3. ASSUME NEW p \in Proc, SavePhoto(p) PROVE EventFits'
  <2>1. PICK k \in Key : /\ req[p].key = {k}
                         /\ \/ ToKept(p, "plan") /\ UNCHANGED <<events, torn>>
                            \/ Gone(p) /\ UNCHANGED torn /\ events' = [events EXCEPT ![k] = NoEvent]
                            \/ Gone(p) /\ UNCHANGED events /\ torn' = torn \cup {req[p].day}
    BY <1>3, EventEffects
  <2>2. HoldsLess(p) /\ Holding(p)
    BY <1>3, <2>1, EventEffects, IdleFields DEF HoldsLess, Gone, ToKept, To, Holding
  <2>3. CASE events' = events
    BY <2>2, <2>3, <1>1
  <2>4. CASE Gone(p) /\ events' = [events EXCEPT ![k] = NoEvent]
    <3>1. \A q \in Proc \ {p} : Holding(q) => ~ HasKey(q, k)
      BY <2>1, <2>2 DEF EventFits, HasKey
    <3> QED BY <1>0, <2>1, <2>4, <3>1, IdleFields DEF EventFits, Gone, OthersKept, Holding, HasKey
  <2> QED BY <2>1, <2>3, <2>4
<1>4. CASE Tick \/ (\E d \in Day, s \in PeriodShift : Replan(d, s)) \/ UNCHANGED vars
  <2>1. req' = req /\ events' = events
    BY <1>4, QuietSteps
  <2> QED BY <2>1 DEF EventFits, Holding, HasKey
<1> QED BY <1>1, <1>2, <1>3, <1>4, EventsKept, StepCases

\* What a step may do to the days.
DayStep(p) == \/ WriteDay(p) \/ AdjWrite(p) \/ WriteMoved(p) \/ MarkWrongShift(p) \/ FlagPending(p)
              \/ FlagDecided(p)

LEMMA DaysKept ==
    ASSUME NEW p \in Proc, Step(p), ~ DayStep(p)
    PROVE  days' = days
<1>1. CASE StartStep(p)
  BY <1>1 DEF StartStep, ClockStart, EditStart, RequestStart, ReviewStart, MismatchStart, tables
<1>2. CASE RunStep(p)
  BY <1>2 DEF RunStep, DayStep, LookUpKey, ReadPrior, ReadEvents, ResolveShift, InsertEvent, SavePhoto, ReadPlan,
     CheckPending, FileMismatch, CheckAdjPending, InsertAdj, AdjRead, AdjPlan, AdjAudit, AdjStatus,
     FindShift, MoveShift, ReadMoved, MismatchStatus, tables
<1>3. CASE Fail(p)
  BY <1>3 DEF Fail, tables
<1> QED BY <1>1, <1>2, <1>3 DEF Step

\* A step that writes a day leaves the others as they are, and what it remembers of it behind.
RowPc == {"events", "shift", "insert", "photo", "plan", "day", "adjPlan", "adjWrite", "mmWrite"}
LEMMA DayEffect ==
    ASSUME Typed, NEW p \in Proc, DayStep(p)
    PROVE  /\ req[p].day \in Day /\ OtherDays(req[p].day) /\ OthersKept(p)
           /\ req'[p].pc \notin RowPc /\ events' = events /\ raced' = raced
<1>1. CASE WriteDay(p)
  BY <1>1, WriteDayEffect, IdleFields DEF WriteDay, Clocked, Gone, ToKept, To, RowPc, histories
<1>2. CASE AdjWrite(p)
  BY <1>2, AdjWriteEffect DEF AdjWrite, ToKept, To, RowPc, histories
<1>3. CASE WriteMoved(p) \/ MarkWrongShift(p)
  BY <1>3, MoveEffects DEF WriteMoved, MarkWrongShift, ToKept, To, RowPc, histories
<1>4. CASE FlagPending(p) \/ FlagDecided(p)
  BY <1>4, FlagEffects DEF ToKept, To, RowPc, FlagWritten, OtherDays
<1> QED BY <1>1, <1>2, <1>3, <1>4 DEF DayStep

LEMMA RacedGrows ==
    ASSUME Typed, [Next]_vars
    PROVE  raced \subseteq raced'
<1>1. ASSUME NEW p \in Proc, Step(p) PROVE raced \subseteq raced'
  BY <1>1, StartStays, RunStays, ReadPriorEffect DEF Enters, Stays, Step
<1> QED BY <1>1, StepCases, QuietSteps

\* What p remembers of its day after a step that leaves the days alone.
Remembers(p) ==
    /\ OthersKept(p)
    /\ req'[p].pc \in RowPc =>
         \/ req'[p].row = days[req'[p].day]
         \/ req[p].pc \in RowPc /\ req'[p].row = req[p].row /\ req'[p].day = req[p].day

\* p goes on with a clocking that finds none before it, or has just found that.
Clocking == {"shift", "insert", "photo", "plan", "day"}
GoesOn(p) ==
    req'[p].pc \in Clocking =>
        /\ req'[p].key = req[p].key /\ req'[p].day = req[p].day /\ req'[p].row = req[p].row
        /\ \/ req[p].pc \in Clocking /\ req'[p].pc # "shift"
           \/ \E k \in Key : /\ req[p].pc = "events" /\ req[p].key = {k} /\ ~ Refused(req[p].row, req[p].day, KindOf[k])
                             /\ req'[p].pc = IF KindOf[k] = "in" THEN "shift" ELSE "insert"

LEMMA MemoryStep ==
    ASSUME Typed, NEW p \in Proc, Step(p), ~ DayStep(p)
    PROVE  Remembers(p) /\ GoesOn(p)
<1>1. CASE StartStep(p)
  BY <1>1, StartEffects DEF Remembers, GoesOn, Enters, Clocking, RowPc
<1>2. CASE ReadEvents(p)
  BY <1>2, ReadEffects, IdleFields DEF ToKept, Gone, To, Remembers, GoesOn, Clocking, RowPc
<1>3. CASE LookUpKey(p) \/ CheckPending(p) \/ CheckAdjPending(p) \/ FindShift(p)
  <2>1. Gone(p) \/ \E pc \in {"prior", "file", "adjInsert", "mmMove"} : To(p, pc)
    BY <1>3, ReadEffects DEF ToKept
  <2> QED BY <2>1, IdleFields DEF Gone, To, Remembers, GoesOn, Clocking, RowPc
<1>4. CASE ResolveShift(p) \/ ReadPlan(p) \/ AdjRead(p) \/ AdjPlan(p)
  BY <1>4, HoldEffects, IdleFields DEF Remembers, GoesOn, Gone, To, Clocking, RowPc
<1>5. CASE ReadMoved(p)
  <2>1. \E pc \in {"mmWrite", "mmStatus"} : To(p, pc) /\ req'[p].row = days[req[p].day]
    BY <1>5, HoldEffects
  <2> QED BY <2>1 DEF To, Remembers, GoesOn, Clocking, RowPc
<1>6. CASE ReadPrior(p)
  BY <1>6, ReadPriorEffect DEF Remembers, GoesOn, Enters, Clocking, RowPc
<1>7. CASE InsertEvent(p) \/ SavePhoto(p)
  <2>1. \/ Gone(p)
        \/ req[p].pc \in {"insert", "photo"} /\ \E pc \in {"photo", "plan"} : ToKept(p, pc)
    BY <1>7, EventEffects
  <2> QED BY <2>1, IdleFields DEF Gone, To, ToKept, Remembers, GoesOn, Clocking, RowPc
<1>8. CASE FileMismatch(p) \/ InsertAdj(p) \/ AdjAudit(p) \/ AdjStatus(p) \/ MismatchStatus(p)
  BY <1>8, AskEffects, IdleFields DEF Remembers, GoesOn, Clocking, RowPc, Gone
<1>9. CASE MoveShift(p)
  BY <1>9, MoveEffects DEF To, ToKept, Remembers, GoesOn, Clocking, RowPc
<1>10. CASE Fail(p)
  BY <1>10, FailEffect, IdleFields DEF Gone, Remembers, GoesOn, Clocking, RowPc
<1> QED BY <1>1, <1>2, <1>3, <1>4, <1>5, <1>6, <1>7, <1>8, <1>9, <1>10, Statements DEF Step, DayStep

LEMMA RowIsCurrentStep ==
    ASSUME Typed, OneAtATime, RowIsCurrent, [Next]_vars
    PROVE  RowIsCurrent'
<1>0. raced \subseteq raced' /\ req \in [Proc -> ReqType] /\ 0 \notin Day
  BY RacedGrows DEF Typed, TypeOK, Day
<1>1. ASSUME NEW p \in Proc, Step(p), ~ DayStep(p) PROVE RowIsCurrent'
  <2>1. days' = days /\ Remembers(p)
    BY <1>1, DaysKept, MemoryStep
  <2> QED BY <1>0, <2>1 DEF RowIsCurrent, Remembers, OthersKept, RowPc
<1>2. ASSUME NEW p \in Proc, DayStep(p) PROVE RowIsCurrent'
  <2> SUFFICES ASSUME NEW q \in Proc, req'[q].day \notin raced', req'[q].pc \in RowPc
               PROVE  req'[q].row = days'[req'[q].day]
    BY DEF RowIsCurrent, RowPc
  <2>1. /\ req[p].day \in Day /\ OtherDays(req[p].day) /\ req'[q] = req[q] /\ q # p
    BY <1>2, DayEffect DEF OthersKept
  <2>2. req[q].day \in Day /\ req[q].row = days[req[q].day]
    BY <1>0, <2>1, RowFacts DEF RowIsCurrent, RowPc, Typed
  <2>3. req[q].day # req[p].day
    BY <1>0, <2>1 DEF OneAtATime
  <2> QED BY <2>1, <2>2, <2>3 DEF OtherDays
<1>3. CASE Tick \/ (\E d \in Day, s \in PeriodShift : Replan(d, s)) \/ UNCHANGED vars
  <2>1. req' = req /\ days' = days /\ raced' = raced
    BY <1>3, QuietSteps
  <2> QED BY <2>1 DEF RowIsCurrent
<1> QED BY <1>1, <1>2, <1>3, StepCases

\* p adds at most its own event, and only to its own day.
Adds(p) ==
    \A k \in Key : events'[k] # events[k] =>
        \/ events'[k] = NoEvent /\ HasKey(p, k)
        \/ /\ HasKey(p, k) /\ InsertEvent(p) /\ req[p].pc = "insert" /\ req'[p].pc = "photo"
           /\ events'[k].kind = KindOf[k] /\ events'[k].at = req[p].at
           /\ events[k] = NoEvent /\ DayOf(req[p].at) = req[p].day /\ req[p].key = {k}

LEMMA AddsStep ==
    ASSUME Typed, NEW p \in Proc, Step(p)
    PROVE  Adds(p)
<1>0. events \in [Key -> Event]
  BY DEF Typed, TypeOK
<1>1. CASE InsertEvent(p)
  <2>1. /\ req[p].pc = "insert"
        /\ \E k \in Key : /\ req[p].key = {k}
                          /\ \/ Gone(p) /\ UNCHANGED events
                             \/ ToKept(p, "photo") /\ EventWritten(p, k)
    BY <1>1, EventEffects
  <2>2. req[p].op = "clock" /\ req[p].day # 0 /\ DayOf(req[p].at) = req[p].day
    BY <2>1, RowFacts DEF Typed, RequestFits, OpFits, ClockPc
  <2> QED BY <1>0, <1>1, <2>1, <2>2 DEF Adds, HasKey, EventWritten, ToKept, To
<1>2. CASE SavePhoto(p)
  BY <1>0, <1>2, EventEffects DEF Adds, HasKey
<1>3. CASE ~ InsertEvent(p) /\ ~ SavePhoto(p)
  BY <1>3, EventsKept DEF Adds
<1> QED BY <1>1, <1>2, <1>3

LEMMA NoneBeforeStep ==
    ASSUME Typed, OneAtATime, NoneBefore, [Next]_vars
    PROVE  NoneBefore'
<1>0. /\ raced \subseteq raced' /\ req \in [Proc -> ReqType] /\ events \in [Key -> Event]
      /\ KindOf \in [Key -> Kind] /\ NoEvent.kind = "none"
  BY RacedGrows, AttendanceAssumption DEF Typed, TypeOK, NoEvent
<1>1. ASSUME NEW p \in Proc, Step(p) PROVE NoneBefore'
  <2>1. Adds(p) /\ OthersKept(p)
    BY <1>1, AddsStep, DayEffect, MemoryStep DEF Remembers
  <2>2. GoesOn(p)
    BY <1>1, MemoryStep, DayEffect DEF GoesOn, Clocking, RowPc
  <2> SUFFICES ASSUME NEW q \in Proc, NEW k \in Key, HasKey(q, k)', req'[q].pc \in Clocking
               PROVE  /\ KindOf[k] = "in" => req'[q].row.in = NoTime
                      /\ req'[q].day \notin raced' /\ KindOf[k] # "break" =>
                           \A j \in Key \ {k} : events'[j].kind = KindOf[k] => DayOf(events'[j].at) # req'[q].day
                      /\ req'[q].pc = "shift" => KindOf[k] = "in"
    BY DEF NoneBefore, Clocking
  <2>3. /\ req'[q].key = req[q].key /\ req'[q].day = req[q].day /\ req'[q].row = req[q].row
        /\ k \in req[q].key
    BY <2>1, <2>2 DEF OthersKept, GoesOn, HasKey
  <2>4. req'[q].day \in Day
    <3>1. req[q].pc \in Clocking \cup {"events"}
      BY <2>1, <2>2 DEF OthersKept, GoesOn
    <3> QED BY <2>3, <3>1, RowFacts DEF Typed, Clocking
  <2>5. KindOf[k] = "in" => req'[q].row.in = NoTime
    BY <2>1, <2>2, <2>3 DEF OthersKept, GoesOn, NoneBefore, HasKey, Clocking, Refused, HasClocked
  <2>6. req'[q].pc = "shift" => KindOf[k] = "in"
    BY <2>1, <2>2, <2>3 DEF OthersKept, GoesOn, NoneBefore, HasKey, Clocking
  <2>7. ASSUME req'[q].day \notin raced', KindOf[k] # "break", NEW j \in Key \ {k}, events'[j].kind = KindOf[k]
        PROVE  DayOf(events'[j].at) # req'[q].day
    <3>1. KindOf[k] \in {"in", "out"}
      BY <1>0, <2>7 DEF Kind
    <3>2. CASE events'[j] = events[j]
      <4>1. CASE q = p /\ req[p].pc \notin Clocking
        <5>1. ~ Refused(req[p].row, req[p].day, KindOf[k])
          BY <2>2, <2>3, <4>1 DEF GoesOn
        <5> QED BY <2>3, <2>7, <3>1, <3>2, <4>1, <5>1 DEF Refused, HasClocked, EventsOf
      <4>2. CASE req[q].pc \in Clocking
        BY <1>0, <2>3, <2>7, <3>2, <4>2 DEF NoneBefore, HasKey, Clocking
      <4> QED BY <2>1, <4>1, <4>2 DEF OthersKept
    <3>3. CASE events'[j] # events[j]
      <4>1. /\ req[p].key = {j} /\ events'[j].at = req[p].at /\ DayOf(req[p].at) = req[p].day
        BY <1>0, <2>1, <2>7, <3>1, <3>3 DEF Adds
      <4>2. p # q
        BY <2>3, <4>1
      <4> QED BY <1>0, <2>3, <2>4, <2>7, <4>1, <4>2 DEF OneAtATime, Day
    <3> QED BY <3>2, <3>3
  <2> QED BY <2>5, <2>6, <2>7
<1>2. CASE Tick \/ (\E d \in Day, s \in PeriodShift : Replan(d, s)) \/ UNCHANGED vars
  <2>1. req' = req /\ events' = events /\ raced' = raced
    BY <1>2, QuietSteps
  <2> QED BY <2>1 DEF NoneBefore, HasKey
<1> QED BY <1>1, <1>2, StepCases

LEMMA OneEventPerKindStep ==
    ASSUME Typed, OneAtATime, NoneBefore, OneEventPerKind, [Next]_vars
    PROVE  OneEventPerKind'
<1>0. /\ raced \subseteq raced' /\ NoEvent.kind = "none"
  BY RacedGrows DEF NoEvent
<1>1. ASSUME NEW p \in Proc, Step(p) PROVE OneEventPerKind'
  <2>1. Adds(p)
    BY <1>1, AddsStep
  <2> SUFFICES ASSUME NEW d \in Day \ raced', NEW kind \in {"in", "out"},
                      NEW j \in Key, NEW k \in Key, j # k,
                      events'[j].kind = kind, DayOf(events'[j].at) = d,
                      events'[k].kind = kind, DayOf(events'[k].at) = d
               PROVE  FALSE
    BY DEF OneEventPerKind, EventsOf
  <2>2. ASSUME NEW i \in {j, k}, NEW o \in {j, k}, i # o, events'[i] # events[i] PROVE FALSE
    <3>1. /\ HasKey(p, i) /\ req[p].pc = "insert" /\ KindOf[i] = kind /\ req[p].day = d
          /\ req[p].key = {i}
      BY <1>0, <2>1, <2>2 DEF Adds
    <3>2. events'[o] = events[o]
      BY <2>1, <2>2, <3>1 DEF Adds, HasKey
    <3> QED BY <1>0, <2>2, <3>1, <3>2 DEF NoneBefore
  <2>3. events'[j] = events[j] /\ events'[k] = events[k]
    BY <2>2
  <2> QED BY <1>0, <2>3 DEF OneEventPerKind, EventsOf
<1>2. CASE Tick \/ (\E d \in Day, s \in PeriodShift : Replan(d, s)) \/ UNCHANGED vars
  <2>1. events' = events /\ raced' = raced
    BY <1>2, QuietSteps
  <2> QED BY <2>1 DEF OneEventPerKind, EventsOf
<1> QED BY <1>1, <1>2, StepCases

LEMMA NoTimeIsNone ==
    ASSUME NEW t \in Instant
    PROVE  t # NoTime
BY AttendanceAssumption, ClockAssumption DEF Instant, NoTime

\* A step on a day that is neither a clocking nor an adjustment keeps what is clocked.
LEMMA ClocksKept ==
    ASSUME Typed, NEW p \in Proc, DayStep(p), ~ WriteDay(p), ~ AdjWrite(p)
    PROVE  SameClocks(req[p].day)
<1>1. CASE WriteMoved(p) \/ MarkWrongShift(p)
  BY <1>1, MoveEffects
<1>2. CASE FlagPending(p) \/ FlagDecided(p)
  BY <1>2, FlagEffects DEF FlagWritten, SameClocks
<1> QED BY <1>1, <1>2 DEF DayStep

\* A clock-in or clock-out is backed by the events of its day.
BackedDay(d) ==
    ~ days[d].adjusted =>
        /\ days[d].in # NoTime => \E k \in EventsOf(d, "in") : Safe(k) /\ events[k].at = days[d].in
        /\ days[d].out # NoTime => \E k \in EventsOf(d, "out") : Safe(k) /\ events[k].at = days[d].out

LEMMA BackedStep ==
    ASSUME Typed, EventFits, NoneBefore, Backed, [Next]_vars
    PROVE  Backed'
<1>0. /\ events \in [Key -> Event] /\ req \in [Proc -> ReqType] /\ NoEvent.kind = "none"
  BY DEF Typed, TypeOK, NoEvent
\* What is safe stays, and stays safe.
<1>1. ASSUME NEW p \in Proc, Step(p), NEW k \in Key, Safe(k), events[k].kind # "none"
      PROVE  events'[k] = events[k] /\ Safe(k)'
  <2>1. CASE InsertEvent(p)
    <3>1. PICK j \in Key : /\ req[p].key = {j}
                           /\ \/ Gone(p) /\ UNCHANGED events
                              \/ ToKept(p, "photo") /\ EventWritten(p, j)
      BY <2>1, EventEffects
    <3> QED BY <1>0, <1>1, <3>1, IdleFields
            DEF Safe, HasKey, Gone, ToKept, To, OthersKept, EventWritten
  <2>2. CASE SavePhoto(p)
    <3>1. PICK j \in Key : /\ req[p].pc = "photo" /\ req[p].key = {j}
                           /\ Gone(p) \/ ToKept(p, "plan")
                           /\ events' = events \/ events' = [events EXCEPT ![j] = NoEvent]
      BY <2>2, EventEffects
    <3> QED BY <1>0, <1>1, <3>1, IdleFields DEF Safe, HasKey, Gone, ToKept, To, OthersKept
  <2>3. CASE ~ InsertEvent(p) /\ ~ SavePhoto(p)
    <3>1. events' = events /\ HoldsLess(p)
      BY <1>1, <2>3, EventsKept
    <3> QED BY <1>1, <3>1 DEF Safe, HoldsLess, OthersKept, HasKey
  <2> QED BY <2>1, <2>2, <2>3
<1>2. ASSUME NEW p \in Proc, Step(p), NEW d \in Day, BackedDay(d),
             days'[d].in = days[d].in, days'[d].out = days[d].out, days'[d].adjusted = days[d].adjusted
      PROVE  BackedDay(d)'
  BY <1>1, <1>2 DEF BackedDay, EventsOf
<1>3. ASSUME NEW p \in Proc, Step(p), NEW d \in Day PROVE BackedDay(d)'
  <2>0. BackedDay(d)
    BY DEF Backed, BackedDay
  <2>1. CASE days'[d] = days[d]
    BY <1>2, <1>3, <2>0, <2>1
  <2>2. CASE WriteDay(p) /\ d = req[p].day
    <3>1. PICK k \in Key : req[p].key = {k} /\ Clocked(p, k)
      BY <2>2, WriteDayEffect
    <3>2. req[p].pc = "day" /\ (Gone(p) \/ ToKept(p, "flag"))
      BY <2>2, WriteDayEffect
    <3>3. /\ events' = events /\ events[k] = [kind |-> KindOf[k], at |-> req[p].at]
          /\ DayOf(req[p].at) = d /\ req[p].at \in Instant
      <4>1. req[p].op = "clock" /\ req[p].day # 0
        BY <3>2, RowFacts DEF Typed, RequestFits, OpFits, ClockPc
      <4> QED BY <2>2, <3>1, <3>2, <4>1, RowFacts
              DEF WriteDay, EventFits, Holding, HasKey, Typed, RequestFits
    <3>4. Safe(k)'
      <4>1. \A q \in Proc \ {p} : req'[q] = req[q] /\ (req[q].pc = "photo" => k \notin req[q].key)
        BY <3>1, <3>2 DEF EventFits, Holding, HasKey, Gone, ToKept, To, OthersKept
      <4>2. req'[p].pc # "photo"
        BY <3>2, IdleFields DEF Gone, ToKept, To
      <4> QED BY <4>1, <4>2 DEF Safe, HasKey
    <3>5. k \in EventsOf(d, KindOf[k])' /\ events'[k].at = req[p].at
      BY <3>3 DEF EventsOf
    <3>6. KindOf[k] = "in" => req[p].row.in = NoTime
      BY <3>1, <3>2 DEF NoneBefore, HasKey
    <3>7. days'[d].adjusted = days[d].adjusted
      BY <2>2, <3>1 DEF Clocked
    <3>8. CASE KindOf[k] = "in"
      <4>1. days'[d].in = req[p].at /\ days'[d].out = days[d].out
        BY <2>2, <3>1, <3>6, <3>8 DEF Clocked
      <4> QED BY <1>1, <1>3, <2>0, <3>3, <3>4, <3>5, <3>7, <3>8, <4>1 DEF BackedDay, EventsOf
    <3>9. CASE KindOf[k] = "out"
      <4>1. days'[d].out = req[p].at /\ days'[d].in = days[d].in
        BY <2>2, <3>1, <3>9 DEF Clocked
      <4> QED BY <1>1, <1>3, <2>0, <3>3, <3>4, <3>5, <3>7, <3>9, <4>1 DEF BackedDay, EventsOf
    <3>10. CASE KindOf[k] \notin {"in", "out"}
      <4>1. days'[d].out = days[d].out /\ days'[d].in = days[d].in
        BY <2>2, <3>1, <3>10 DEF Clocked
      <4> QED BY <1>2, <1>3, <2>0, <3>7, <4>1
    <3> QED BY <3>8, <3>9, <3>10
  <2>3. CASE AdjWrite(p) /\ d = req[p].day
    BY <2>3, AdjWriteEffect DEF BackedDay
  <2>4. CASE DayStep(p) /\ ~ WriteDay(p) /\ ~ AdjWrite(p) /\ d = req[p].day
    BY <1>2, <1>3, <2>0, <2>4, ClocksKept DEF SameClocks
  <2>5. days'[d] = days[d] \/ (DayStep(p) /\ d = req[p].day)
    BY <1>3, DaysKept, DayEffect DEF OtherDays
  <2> QED BY <2>1, <2>2, <2>3, <2>4, <2>5
<1>4. ASSUME NEW p \in Proc, Step(p) PROVE Backed'
  BY <1>3, <1>4 DEF Backed, BackedDay
<1>5. CASE Tick \/ (\E d \in Day, s \in PeriodShift : Replan(d, s)) \/ UNCHANGED vars
  <2>1. events' = events /\ req' = req /\ days' = days
    BY <1>5, QuietSteps
  <2> QED BY <2>1 DEF Backed, Safe, EventsOf, HasKey
<1> QED BY <1>4, <1>5, StepCases

LEMMA Holders ==
    ASSUME Typed, NEW p \in Proc, Step(p), Holding(p)
    PROVE  SavePhoto(p) \/ ReadPlan(p) \/ WriteDay(p) \/ Fail(p)
<1>1. CASE StartStep(p)
  BY <1>1, StartEffects, IdleFields DEF Holding
<1>2. CASE LookUpKey(p) \/ ReadEvents(p) \/ CheckPending(p) \/ CheckAdjPending(p) \/ FindShift(p)
  BY <1>2, ReadEffects DEF Holding
<1>3. CASE ResolveShift(p) \/ AdjRead(p) \/ AdjPlan(p) \/ ReadMoved(p)
  BY <1>3, HoldEffects DEF Holding
<1>4. CASE ReadPrior(p) \/ InsertEvent(p)
  BY <1>4, ReadPriorEffect, EventEffects DEF Holding
<1>5. CASE FileMismatch(p) \/ InsertAdj(p) \/ AdjAudit(p) \/ AdjStatus(p) \/ MismatchStatus(p)
  BY <1>5, AskEffects DEF Holding
<1>6. CASE AdjWrite(p)
  BY <1>6, AdjWriteEffect DEF Holding
<1>7. CASE MoveShift(p) \/ WriteMoved(p) \/ MarkWrongShift(p)
  BY <1>7, MoveEffects DEF Holding
<1>8. CASE FlagPending(p) \/ FlagDecided(p)
  BY <1>8, FlagEffects DEF Holding
<1> QED BY <1>1, <1>2, <1>3, <1>4, <1>5, <1>6, <1>7, <1>8, Statements DEF Step

\* The event a request holds is one of its day.
LEMMA HeldEvent ==
    ASSUME Typed, EventFits, NEW p \in Proc, NEW k \in Key, Holding(p), HasKey(p, k)
    PROVE  /\ req[p].key = {k} /\ events[k] = [kind |-> KindOf[k], at |-> req[p].at]
           /\ DayOf(req[p].at) = req[p].day /\ req[p].at \in Instant /\ req[p].day \in Day
           /\ \A q \in Proc \ {p} : Holding(q) => ~ HasKey(q, k)
<1>1. req[p].op = "clock" /\ req[p].day # 0 /\ req[p].day \in Day
  BY RowFacts DEF Typed, RequestFits, OpFits, ClockPc, Holding
<1> QED BY <1>1, RowFacts DEF Typed, RequestFits, EventFits, HasKey

LEMMA TornGrows ==
    ASSUME Typed, [Next]_vars
    PROVE  torn \subseteq torn'
<1>1. ASSUME NEW p \in Proc, Step(p) PROVE torn \subseteq torn'
  <2>1. CASE StartStep(p)
    BY <2>1, StartEffects
  <2>2. CASE RunStep(p)
    BY <2>2 DEF RunStep, LookUpKey, ReadPrior, ReadEvents, ResolveShift, InsertEvent, SavePhoto, ReadPlan,
       WriteDay, FlagPending, CheckPending, FileMismatch, CheckAdjPending, InsertAdj, AdjRead, AdjPlan,
       AdjWrite, AdjAudit, AdjStatus, FindShift, MoveShift, ReadMoved, WriteMoved, MarkWrongShift,
       FlagDecided, MismatchStatus, Flag, histories
  <2>3. CASE Fail(p)
    BY <2>3, FailEffect
  <2> QED BY <1>1, <2>1, <2>2, <2>3 DEF Step
<1> QED BY <1>1, StepCases, QuietSteps

ShownDay(d) ==
    /\ \A k \in EventsOf(d, "in") : Written(k) => ShownIn(d, k)
    /\ \A k \in EventsOf(d, "out") : Written(k) => ShownOut(d, k)

\* An event that is there after a step was there before it, or is still held.
LEMMA ShownKept ==
    ASSUME Typed, EventFits, NEW p \in Proc, Step(p), ~ WriteDay(p),
           NEW k \in Key, events'[k].kind # "none", Written(k)'
    PROVE  /\ events'[k] = events[k]
           /\ Written(k) \/ DayOf(events[k].at) \in torn'
<1>0. /\ events \in [Key -> Event] /\ req \in [Proc -> ReqType] /\ NoEvent.kind = "none"
  BY DEF Typed, TypeOK, NoEvent
<1>1. events'[k] = events[k]
  <2>1. CASE events'[k] # events[k]
    <3>1. HasKey(p, k) /\ InsertEvent(p) /\ req'[p].pc = "photo"
      BY <1>0, <2>1, AddsStep DEF Adds
    <3>2. req'[p].key = req[p].key
      BY <3>1, EventEffects, IdleFields DEF Gone, ToKept, To
    <3> QED BY <3>1, <3>2 DEF Written, Holding, HasKey
  <2> QED BY <2>1
<1>2. OthersKept(p)
  BY DayEffect, MemoryStep DEF Remembers
<1>3. CASE ~ (Holding(p) /\ HasKey(p, k))
  BY <1>1, <1>2, <1>3 DEF Written, OthersKept, Holding, HasKey
<1>4. CASE Holding(p) /\ HasKey(p, k)
  <2>0. /\ req[p].key = {k} /\ events[k] = [kind |-> KindOf[k], at |-> req[p].at]
        /\ DayOf(req[p].at) = req[p].day
    BY <1>4, HeldEvent
  <2>1. req[p].key = {k} /\ DayOf(events[k].at) = req[p].day
    BY <2>0
  <2>2. CASE ReadPlan(p)
    BY <1>4, <2>2, HoldEffects DEF To, Written, Holding, HasKey
  <2>3. CASE SavePhoto(p)
    <3>1. ~ Holding(p)'
      <4>1. req'[p].key = req[p].key \/ Gone(p)
        BY <2>3, EventEffects DEF ToKept, To
      <4> QED BY <1>4, <4>1, IdleFields DEF Written, HasKey, Gone, Holding
    <3>2. Gone(p) /\ (events' = [events EXCEPT ![k] = NoEvent] \/ torn' = torn \cup {req[p].day})
      BY <2>1, <2>3, <3>1, EventEffects DEF ToKept, To, Holding
    <3> QED BY <1>0, <1>1, <2>1, <3>2
  <2>4. CASE Fail(p)
    BY <1>1, <2>1, <2>4, FailEffect
  <2> QED BY <1>4, <2>2, <2>3, <2>4, Holders
<1> QED BY <1>1, <1>3, <1>4

LEMMA ShownStep ==
    ASSUME Typed, EventFits, RowIsCurrent, NoneBefore, Shown, [Next]_vars
    PROVE  Shown'
<1>0. /\ raced \subseteq raced' /\ torn \subseteq torn' /\ days \in [Day -> DayRow]
  BY RacedGrows, TornGrows DEF Typed, TypeOK
<1>1. ASSUME NEW p \in Proc, Step(p), ~ WriteDay(p), NEW d \in Day \ (raced' \cup torn'),
             days'[d].in # NoTime \/ days[d].in = NoTime, days'[d].out # NoTime \/ days[d].out = NoTime,
             days'[d].adjusted \/ (/\ days'[d].in = days[d].in /\ days'[d].out = days[d].out
                                   /\ days'[d].adjusted = days[d].adjusted)
      PROVE  ShownDay(d)'
  <2> SUFFICES ASSUME NEW k \in Key, Written(k)', DayOf(events'[k].at) = d
               PROVE  /\ events'[k].kind = "in" => ShownIn(d, k)'
                      /\ events'[k].kind = "out" => ShownOut(d, k)'
    BY DEF ShownDay, EventsOf
  <2>1. CASE events'[k].kind \in {"in", "out"}
    <3>1. events'[k] = events[k] /\ Written(k)
      BY <1>1, <2>1, ShownKept
    <3>2. /\ events[k].kind = "in" => ShownIn(d, k)
          /\ events[k].kind = "out" => ShownOut(d, k)
      BY <1>0, <3>1 DEF Shown, EventsOf
    <3> QED BY <1>1, <3>1, <3>2 DEF ShownIn, ShownOut
  <2> QED BY <2>1
<1>2. ASSUME NEW p \in Proc, Step(p), ~ WriteDay(p), NEW d \in Day \ (raced' \cup torn')
      PROVE  ShownDay(d)'
  <2>1. CASE days'[d] = days[d]
    BY <1>1, <1>2, <2>1
  <2>2. CASE AdjWrite(p) /\ d = req[p].day
    <3> DEFINE in == OrElse(d, req[p].wish.in, req[p].row.in)
               out == OrElse(d, req[p].wish.out, req[p].row.out)
    <3>1. days'[d].adjusted /\ days'[d].in = in /\ days'[d].out = out
      BY <2>2, AdjWriteEffect
    <3>2. req[p].row = days[d]
      BY <1>0, <2>2, AdjWriteEffect DEF RowIsCurrent
    <3>3. /\ in # NoTime \/ days[d].in = NoTime
          /\ out # NoTime \/ days[d].out = NoTime
      BY <3>2, RowFacts, DayOfMinute, NoTimeIsNone DEF OrElse, Wish, Typed
    <3> HIDE DEF in, out
    <3> QED BY <1>1, <1>2, <3>1, <3>3
  <2>3. CASE DayStep(p) /\ ~ AdjWrite(p) /\ d = req[p].day
    BY <1>1, <1>2, <2>3, ClocksKept DEF SameClocks
  <2>4. days'[d] = days[d] \/ (DayStep(p) /\ d = req[p].day)
    BY <1>2, DaysKept, DayEffect DEF OtherDays
  <2> QED BY <2>1, <2>2, <2>3, <2>4
<1>3. ASSUME NEW p \in Proc, WriteDay(p), NEW d \in Day \ (raced' \cup torn')
      PROVE  ShownDay(d)'
  <2>1. PICK k \in Key : req[p].key = {k} /\ Clocked(p, k)
    BY <1>3, WriteDayEffect
  <2>2. /\ req[p].pc = "day" /\ (Gone(p) \/ ToKept(p, "flag")) /\ events' = events /\ Holding(p) /\ HasKey(p, k)
        /\ torn' = torn /\ raced' = raced /\ req[p].day \in Day
    BY <1>3, <2>1, WriteDayEffect DEF WriteDay, Holding, HasKey, histories
  <2>3. /\ events[k] = [kind |-> KindOf[k], at |-> req[p].at] /\ req[p].at \in Instant
        /\ DayOf(req[p].at) = req[p].day
    BY <2>2, HeldEvent
  <2>4. \A j \in Key : Written(j)' /\ j # k => Written(j)
    BY <2>1, <2>2 DEF Written, Holding, HasKey, Gone, ToKept, To, OthersKept
  <2>5. CASE d # req[p].day
    <3>1. days'[d] = days[d]
      BY <2>1, <2>5 DEF Clocked, OtherDays
    <3> QED BY <2>2, <2>3, <2>4, <2>5, <3>1 DEF Shown, ShownDay, ShownIn, ShownOut, EventsOf
  <2>6. CASE d = req[p].day
    <3>1. req[p].row = days[d] /\ (KindOf[k] = "in" => req[p].row.in = NoTime)
      BY <2>1, <2>2, <2>6 DEF RowIsCurrent, NoneBefore, HasKey
    <3>2. ASSUME NEW j \in Key \ {k}, events[j].kind = KindOf[k], DayOf(events[j].at) = d, KindOf[k] # "break"
          PROVE  FALSE
      BY <2>1, <2>2, <2>6, <3>2 DEF NoneBefore, HasKey
    <3>3. KindOf[k] \in {"in", "out", "break"}
      BY AttendanceAssumption DEF Kind
    <3>4. /\ days'[d].adjusted = days[d].adjusted
          /\ days'[d].in = IF KindOf[k] = "in" THEN req[p].at ELSE days[d].in
          /\ days'[d].out = IF KindOf[k] = "out" THEN req[p].at ELSE days[d].out
      BY <2>1, <2>6, <3>1 DEF Clocked
    <3>5. req[p].at # NoTime
      BY <2>3, NoTimeIsNone
    <3>6. ASSUME NEW j \in Key, events[j].kind = "in", DayOf(events[j].at) = d, Written(j)'
          PROVE  ShownIn(d, j)'
      <4>1. CASE j = k
        BY <2>2, <2>3, <3>4, <3>5, <3>6, <4>1 DEF ShownIn
      <4>2. CASE j # k
        <5>1. ShownIn(d, j) /\ KindOf[k] # "in"
          BY <2>2, <2>4, <3>2, <3>6, <4>2 DEF Shown, EventsOf
        <5> QED BY <2>2, <3>4, <5>1 DEF ShownIn
      <4> QED BY <4>1, <4>2
    <3>7. ASSUME NEW j \in Key, events[j].kind = "out", DayOf(events[j].at) = d, Written(j)'
          PROVE  ShownOut(d, j)'
      <4>1. CASE j = k
        BY <2>2, <2>3, <3>4, <3>5, <3>7, <4>1 DEF ShownOut
      <4>2. CASE j # k
        <5>1. ShownOut(d, j) /\ KindOf[k] # "out"
          BY <2>2, <2>4, <3>2, <3>7, <4>2 DEF Shown, EventsOf
        <5> QED BY <2>2, <3>4, <5>1 DEF ShownOut
      <4> QED BY <4>1, <4>2
    <3> QED BY <2>2, <3>6, <3>7 DEF ShownDay, EventsOf
  <2> QED BY <2>5, <2>6
<1>4. CASE Tick \/ (\E d \in Day, s \in PeriodShift : Replan(d, s)) \/ UNCHANGED vars
  <2>1. events' = events /\ req' = req /\ days' = days /\ raced' = raced /\ torn' = torn
    BY <1>4, QuietSteps
  <2> QED BY <2>1 DEF Shown, ShownIn, ShownOut, Written, Holding, EventsOf, HasKey
<1> QED BY <1>2, <1>3, <1>4, StepCases DEF Shown, ShownDay

\* What the clock events and the days keep of each other.
EventInv == EventFits /\ RowIsCurrent /\ NoneBefore /\ OneEventPerKind /\ Backed /\ Shown

LEMMA AlwaysEventInv == Spec => []EventInv
<1>1. Init => EventInv
  <2> SUFFICES ASSUME Init PROVE EventInv
    OBVIOUS
  <2>1. /\ \A k \in Key : events[k] = NoEvent
        /\ \A p \in Proc : req[p].pc = "idle" /\ req[p].key = {}
        /\ \A d \in Day : days[d].in = NoTime /\ days[d].out = NoTime
    BY IdleFields DEF Init, NoDay
  <2>2. NoEvent.kind = "none" /\ \A d, kind : kind \in {"in", "out"} => EventsOf(d, kind) = {}
    BY <2>1 DEF EventsOf, NoEvent
  <2> QED BY <2>1, <2>2 DEF EventInv, EventFits, RowIsCurrent, NoneBefore, OneEventPerKind, Backed, Shown,
                            Holding, HasKey
<1>2. Typed /\ OneAtATime /\ EventInv /\ [Next]_vars => EventInv'
  BY EventFitsStep, RowIsCurrentStep, NoneBeforeStep, OneEventPerKindStep, BackedStep, ShownStep
     DEF EventInv
<1> QED BY <1>1, <1>2, AlwaysTyped, AlwaysOneAtATime, PTL DEF Spec

\* clock, the adjustments and the reviews keep the tables well
\* typed, every clock-in and clock-out of a day stands on an event or on an
\* adjustment, and every event of a settled day is shown on it: however the
\* statements of concurrent requests interleave, and whichever of them fail.
THEOREM DaysAgreeWithEvents == Spec => []DayInv
<1>1. Typed /\ EventInv => DayInv
  <2> SUFFICES ASSUME Typed, EventInv PROVE DayInv
    OBVIOUS
  <2>1. TypeOK /\ DayIsBacked
    BY DEF Typed, EventInv, Backed, DayIsBacked
  <2>2. EventsAreShown
    <3> SUFFICES ASSUME NEW d \in Day, Settled(d), NEW k \in Key
                 PROVE  /\ k \in EventsOf(d, "in") => ShownIn(d, k)
                        /\ k \in EventsOf(d, "out") => ShownOut(d, k)
      BY DEF EventsAreShown, ShownIn, ShownOut, EventsOf
    <3>1. ASSUME DayOf(events[k].at) = d PROVE Written(k)
      <4> SUFFICES ASSUME NEW p \in Proc, Holding(p), HasKey(p, k) PROVE FALSE
        BY DEF Written
      <4>1. events[k] = [kind |-> KindOf[k], at |-> req[p].at] /\ DayOf(req[p].at) = req[p].day
        BY HeldEvent DEF EventInv
      <4>2. req[p].day = d
        BY <3>1, <4>1
      <4> QED BY <4>2 DEF Settled
    <3> QED BY <3>1 DEF Settled, EventInv, Shown, EventsOf
  <2> QED BY <2>1, <2>2 DEF DayInv
<1> QED BY <1>1, AlwaysTyped, AlwaysEventInv, PTL

\* clock: whatever is retried after it was abandoned, a day has at most one
\* clock-in and one clock-out unless two requests on it overlapped.
THEOREM ClocksOnce == Spec => []ClockedOnce
<1>1. OneEventPerKind => ClockedOnce
  <2> SUFFICES ASSUME OneEventPerKind, NEW d \in Day \ raced, NEW kind \in {"in", "out"}
               PROVE  Cardinality(EventsOf(d, kind)) <= 1
    BY DEF ClockedOnce
  <2>1. CASE EventsOf(d, kind) = {}
    BY <2>1, FS_EmptySet
  <2>2. ASSUME NEW k \in EventsOf(d, kind) PROVE Cardinality(EventsOf(d, kind)) <= 1
    <3>1. EventsOf(d, kind) = {k}
      BY <2>2 DEF OneEventPerKind
    <3> QED BY <3>1, FS_Singleton
  <2> QED BY <2>1, <2>2
<1> QED BY <1>1, AlwaysEventInv, PTL DEF EventInv

-----------------------------------------------------------------------------
(* Late and early minutes.                                                 *)

\* p plans with the assignment it has just read, and moves on with the same shift.
PlansWell(p) ==
    /\ OthersKept(p)
    /\ req'[p].pc \in {"day", "adjWrite"} => req'[p].plan = asg[req'[p].day]
    /\ req'[p].pc \in {"mmRead", "mmWrite"} => Moving(p) /\ req'[p].to = req[p].to /\ req'[p].day = req[p].day

LEMMA PlansStep ==
    ASSUME Typed, NEW p \in Proc, Step(p), ~ MoveShift(p)
    PROVE  asg' = asg /\ PlansWell(p)
<1>1. CASE StartStep(p)
  BY <1>1, StartEffects DEF PlansWell, Enters, tables
<1>2. CASE LookUpKey(p) \/ ReadEvents(p) \/ CheckPending(p) \/ CheckAdjPending(p) \/ FindShift(p)
  <2>1. Gone(p) \/ \E pc \in {"prior", "shift", "insert", "file", "adjInsert", "mmMove"} : To(p, pc)
    BY <1>2, ReadEffects DEF ToKept
  <2> QED BY <1>2, <2>1, IdleFields
          DEF LookUpKey, ReadEvents, CheckPending, CheckAdjPending, FindShift, tables, PlansWell, Gone, To
<1>3. CASE ResolveShift(p) \/ ReadPlan(p) \/ AdjRead(p) \/ AdjPlan(p) \/ ReadMoved(p)
  <2>1. asg' = asg
    BY <1>3 DEF ResolveShift, ReadPlan, AdjRead, AdjPlan, ReadMoved, tables
  <2> QED BY <1>3, <2>1, HoldEffects, IdleFields DEF PlansWell, Gone, To, Moving
<1>4. CASE ReadPrior(p)
  BY <1>4, ReadPriorEffect DEF PlansWell, Enters, tables
<1>5. CASE FileMismatch(p) \/ InsertAdj(p) \/ AdjAudit(p) \/ AdjStatus(p) \/ MismatchStatus(p)
  BY <1>5, AskEffects, IdleFields DEF FileMismatch, InsertAdj, AdjAudit, AdjStatus, MismatchStatus, PlansWell, Gone
<1>6. CASE WriteDay(p)
  BY <1>6, WriteDayEffect, IdleFields DEF WriteDay, PlansWell, Gone, To, ToKept
<1>7. CASE AdjWrite(p)
  BY <1>7, AdjWriteEffect DEF AdjWrite, PlansWell, To, ToKept
<1>8. CASE WriteMoved(p) \/ MarkWrongShift(p)
  BY <1>8, MoveEffects DEF WriteMoved, MarkWrongShift, PlansWell, To, ToKept
<1>9. CASE FlagPending(p) \/ FlagDecided(p)
  BY <1>9, FlagEffects DEF PlansWell, To, ToKept
<1>10. CASE Fail(p)
  BY <1>10, FailEffect, IdleFields DEF PlansWell, Gone, tables
<1>11. CASE InsertEvent(p) \/ SavePhoto(p)
  <2>1. Gone(p) \/ \E pc \in {"photo", "plan"} : To(p, pc)
    BY <1>11, EventEffects DEF ToKept
  <2> QED BY <1>11, <2>1, IdleFields DEF InsertEvent, SavePhoto, PlansWell, Gone, To
<1> QED BY <1>1, <1>2, <1>3, <1>4, <1>5, <1>6, <1>7, <1>8, <1>9, <1>10, <1>11, Statements DEF Step

LEMMA ReplannedKept ==
    ASSUME NEW p \in Proc, Step(p)
    PROVE  replanned' = replanned
<1>1. CASE StartStep(p)
  BY <1>1 DEF StartStep, ClockStart, EditStart, RequestStart, ReviewStart, MismatchStart, histories
<1>2. CASE RunStep(p)
  BY <1>2 DEF RunStep, LookUpKey, ReadPrior, ReadEvents, ResolveShift, InsertEvent, SavePhoto, ReadPlan,
       WriteDay, FlagPending, CheckPending, FileMismatch, CheckAdjPending, InsertAdj, AdjRead, AdjPlan,
       AdjWrite, AdjAudit, AdjStatus, FindShift, MoveShift, ReadMoved, WriteMoved, MarkWrongShift,
       FlagDecided, MismatchStatus, Flag, histories
<1>3. CASE Fail(p)
  BY <1>3 DEF Fail
<1> QED BY <1>1, <1>2, <1>3 DEF Step

LEMMA PlanIsCurrentStep ==
    ASSUME Typed, OneAtATime, PlanIsCurrent, [Next]_vars
    PROVE  PlanIsCurrent'
<1>0. raced \subseteq raced' /\ 0 \notin Day
  BY RacedGrows DEF Day
<1>1. ASSUME NEW p \in Proc, Step(p) PROVE PlanIsCurrent'
  <2>0. replanned' = replanned
    BY <1>1, ReplannedKept
  <2>1. CASE ~ MoveShift(p)
    BY <1>0, <1>1, <2>0, <2>1, PlansStep DEF PlanIsCurrent, PlansWell, OthersKept, Moving
  <2>2. CASE MoveShift(p)
    <3> DEFINE d == req[p].day
    <3>1. /\ d \in Day /\ OthersKept(p) /\ req'[p].pc = "mmRead" /\ req'[p].to = req[p].to /\ req'[p].day = d
          /\ asg'[d].shift = req[p].to /\ \A e \in Day \ {d} : asg'[e] = asg[e]
      BY <2>2, MoveEffects DEF ToKept, To
    <3>2. ASSUME NEW q \in Proc \ {p}, req[q].day \notin raced', req[q].day \in Day
          PROVE  asg'[req[q].day] = asg[req[q].day]
      BY <1>0, <3>1, <3>2 DEF OneAtATime
    <3>3. \A q \in Proc : req[q].pc \in {"day", "adjWrite", "mmRead", "mmWrite"} => req[q].day \in Day
      BY RowFacts DEF Typed
    <3> QED BY <1>0, <2>0, <3>1, <3>2, <3>3 DEF PlanIsCurrent, OthersKept, Moving
  <2> QED BY <2>1, <2>2
<1>2. ASSUME NEW d \in Day, NEW s \in PeriodShift, Replan(d, s) PROVE PlanIsCurrent'
  <2>1. /\ req' = req /\ raced' = raced /\ replanned' = replanned \cup {d}
        /\ \A e \in Day \ {d} : asg'[e] = asg[e]
    BY <1>2 DEF Replan, Typed, TypeOK
  <2>2. \A q \in Proc : req[q].pc \in {"day", "adjWrite", "mmRead", "mmWrite"} => req[q].day \in Day
    BY RowFacts DEF Typed
  <2> QED BY <2>1, <2>2 DEF PlanIsCurrent, Moving
<1>3. CASE Tick \/ UNCHANGED vars
  <2>1. req' = req /\ asg' = asg /\ raced' = raced /\ replanned' = replanned
    BY <1>3 DEF Tick, vars, tables, histories
  <2> QED BY <2>1 DEF PlanIsCurrent, Moving
<1> QED BY <1>1, <1>2, <1>3, StepCases

LEMMA Movers ==
    ASSUME Typed, NEW p \in Proc, Step(p), Moving(p)
    PROVE  ReadMoved(p) \/ WriteMoved(p) \/ Fail(p)
<1>1. CASE StartStep(p)
  BY <1>1, StartEffects, IdleFields DEF Moving
<1>2. CASE LookUpKey(p) \/ ReadEvents(p) \/ CheckPending(p) \/ CheckAdjPending(p) \/ FindShift(p)
  BY <1>2, ReadEffects DEF Moving
<1>3. CASE ResolveShift(p) \/ AdjRead(p) \/ AdjPlan(p) \/ ReadPlan(p)
  BY <1>3, HoldEffects DEF Moving
<1>4. CASE ReadPrior(p) \/ InsertEvent(p) \/ SavePhoto(p)
  BY <1>4, ReadPriorEffect, EventEffects DEF Moving
<1>5. CASE FileMismatch(p) \/ InsertAdj(p) \/ AdjAudit(p) \/ AdjStatus(p) \/ MismatchStatus(p)
  BY <1>5, AskEffects DEF Moving
<1>6. CASE AdjWrite(p) \/ WriteDay(p)
  BY <1>6, AdjWriteEffect, WriteDayEffect DEF Moving
<1>7. CASE MoveShift(p) \/ MarkWrongShift(p)
  BY <1>7, MoveEffects DEF Moving
<1>8. CASE FlagPending(p) \/ FlagDecided(p)
  BY <1>8, FlagEffects DEF Moving
<1> QED BY <1>1, <1>2, <1>3, <1>4, <1>5, <1>6, <1>7, <1>8, Statements DEF Step

\* A write of the day counts the minutes anew.
Counts(p) == WriteDay(p) \/ AdjWrite(p) \/ WriteMoved(p)

LEMMA CountsFit ==
    ASSUME Typed, RowIsCurrent, PlanIsCurrent, NEW p \in Proc, Counts(p),
           NEW d \in Day \ (raced \cup replanned), d = req[p].day
    PROVE  MetricsFit(d)'
<1>1. CASE WriteDay(p)
  <2>1. PICK k \in Key : Clocked(p, k)
    BY <1>1, WriteDayEffect
  <2>2. req[p].pc = "day" /\ asg' = asg
    BY <1>1, WriteDayEffect DEF WriteDay
  <2>3. req[p].row = days[d] /\ req[p].plan = asg[d]
    BY <2>2 DEF RowIsCurrent, PlanIsCurrent
  <2> DEFINE in == IF KindOf[k] = "in" /\ req[p].row.in = NoTime THEN req[p].at ELSE req[p].row.in
             out == IF KindOf[k] = "out" THEN req[p].at ELSE req[p].row.out
             m == Metrics(d, in, out, req[p].plan.shift)
  <2>4. /\ days'[d].in = (IF KindOf[k] = "in" THEN in ELSE days[d].in)
        /\ days'[d].out = (IF KindOf[k] = "out" THEN out ELSE days[d].out)
        /\ days'[d].late = m.late /\ days'[d].early = m.early
    BY <2>1 DEF Clocked
  <2>5. days'[d].in = in /\ days'[d].out = out
    BY <2>3, <2>4
  <2>6. m \in [late : {m.late}, early : {m.early}]
    BY DEF Metrics
  <2> HIDE DEF in, out
  <2> QED BY <2>2, <2>3, <2>4, <2>5, <2>6 DEF MetricsFit
<1>2. CASE AdjWrite(p)
  <2> DEFINE in == OrElse(d, req[p].wish.in, req[p].row.in)
             out == OrElse(d, req[p].wish.out, req[p].row.out)
             m == Metrics(d, in, out, req[p].plan.shift)
  <2>1. /\ days'[d].in = in /\ days'[d].out = out /\ days'[d].late = m.late /\ days'[d].early = m.early
        /\ req[p].pc = "adjWrite" /\ asg' = asg
    BY <1>2, AdjWriteEffect DEF AdjWrite
  <2>2. req[p].plan = asg[d]
    BY <2>1 DEF PlanIsCurrent
  <2>3. m \in [late : {m.late}, early : {m.early}]
    BY DEF Metrics
  <2> HIDE DEF in, out
  <2> QED BY <2>1, <2>2, <2>3 DEF MetricsFit
<1>3. CASE WriteMoved(p)
  <2> DEFINE m == Metrics(d, req[p].row.in, req[p].row.out, req[p].to)
  <2>1. /\ req[p].pc = "mmWrite" /\ SameClocks(d) /\ days'[d].late = m.late /\ days'[d].early = m.early
        /\ asg' = asg
    BY <1>3, MoveEffects DEF WriteMoved
  <2>2. req[p].row = days[d] /\ asg[d].shift = req[p].to
    BY <2>1 DEF RowIsCurrent, PlanIsCurrent, Moving
  <2>3. m \in [late : {m.late}, early : {m.early}]
    BY DEF Metrics
  <2> QED BY <2>1, <2>2, <2>3 DEF MetricsFit, SameClocks
<1> QED BY <1>1, <1>2, <1>3 DEF Counts

LEMMA MetricsStep ==
    ASSUME Typed, OneAtATime, RowIsCurrent, PlanIsCurrent, MetricsInv, [Next]_vars
    PROVE  MetricsInv'
<1>0. raced \subseteq raced' /\ torn \subseteq torn' /\ days \in [Day -> DayRow] /\ 0 \notin Day
  BY RacedGrows, TornGrows DEF Typed, TypeOK, Day
<1>1. ASSUME NEW p \in Proc, Step(p), NEW d \in Day \ (raced' \cup replanned' \cup torn'),
             Stored(days'[d]), \A q \in Proc : req'[q].day = d => req'[q].pc \notin {"mmRead", "mmWrite"}
      PROVE  MetricsFit(d)'
  <2>0. replanned' = replanned /\ OthersKept(p)
    BY <1>1, ReplannedKept, DayEffect, MemoryStep DEF Remembers
  <2>1. CASE Counts(p) /\ d = req[p].day
    BY <1>0, <1>1, <2>0, <2>1, CountsFit
  <2>2. CASE MoveShift(p) /\ d = req[p].day
    BY <1>1, <2>2, MoveEffects DEF ToKept, To
  <2>3. CASE ~ (Counts(p) /\ d = req[p].day) /\ ~ (MoveShift(p) /\ d = req[p].day)
    <3>1. asg'[d] = asg[d]
      BY <1>1, <2>3, PlansStep, MoveEffects
    <3>2. /\ days'[d].in = days[d].in /\ days'[d].out = days[d].out
          /\ days'[d].late = days[d].late /\ days'[d].early = days[d].early
          /\ (Stored(days[d]) <=> Stored(days'[d]))
      <4>1. CASE DayStep(p) /\ d = req[p].day
        <5>1. CASE MarkWrongShift(p)
          BY <4>1, <5>1, MoveEffects DEF SameClocks, SameMinutes
        <5>2. CASE FlagPending(p) \/ FlagDecided(p)
          BY <4>1, <5>2, FlagEffects DEF FlagWritten, SameClocks, SameMinutes
        <5> QED BY <2>3, <4>1, <5>1, <5>2 DEF DayStep, Counts
      <4>2. CASE ~ (DayStep(p) /\ d = req[p].day)
        BY <1>1, <4>2, DaysKept, DayEffect DEF OtherDays
      <4> QED BY <4>1, <4>2
    <3>3. ASSUME NEW q \in Proc, req[q].day = d, Moving(q) PROVE ~ Stored(days[d])
      <4>1. q = p
        BY <1>1, <2>0, <3>3 DEF OthersKept, Moving
      <4>2. CASE ReadMoved(p)
        BY <1>1, <3>3, <4>1, <4>2, HoldEffects DEF To
      <4>3. CASE WriteMoved(p)
        BY <2>3, <3>3, <4>1, <4>3 DEF Counts
      <4>4. CASE Fail(p)
        BY <1>1, <3>3, <4>1, <4>4, FailEffect
      <4> QED BY <1>1, <3>3, <4>1, <4>2, <4>3, <4>4, Movers
    <3>4. MetricsFit(d)
      BY <1>0, <1>1, <2>0, <3>2, <3>3 DEF MetricsInv
    <3> QED BY <3>1, <3>2, <3>4 DEF MetricsFit
  <2> QED BY <2>1, <2>2, <2>3
<1>2. ASSUME NEW d \in Day, NEW s \in PeriodShift, Replan(d, s) PROVE MetricsInv'
  <2>1. /\ req' = req /\ days' = days /\ raced' = raced /\ torn' = torn /\ replanned' = replanned \cup {d}
        /\ \A e \in Day \ {d} : asg'[e] = asg[e]
    BY <1>2 DEF Replan, Typed, TypeOK
  <2> QED BY <2>1 DEF MetricsInv, MetricsFit, Moving
<1>3. CASE Tick \/ UNCHANGED vars
  <2>1. req' = req /\ asg' = asg /\ days' = days /\ raced' = raced /\ replanned' = replanned /\ torn' = torn
    BY <1>3 DEF Tick, vars, tables, histories
  <2> QED BY <2>1 DEF MetricsInv, MetricsFit, Moving
<1>4. ASSUME NEW p \in Proc, Step(p) PROVE MetricsInv'
  BY <1>1, <1>4 DEF MetricsInv, Moving
<1> QED BY <1>2, <1>3, <1>4, StepCases

\* Clocking, adjusting and moving, in every order and with every failure, leave
\* the late and early minutes of a settled day those of its clock times and of
\* the shift the employee is on, unless a planner changed that shift meanwhile.
THEOREM MinutesAreCurrent == Spec => []MetricsAreCurrent
<1>1. Init => PlanIsCurrent /\ MetricsInv
  <2> SUFFICES ASSUME Init PROVE PlanIsCurrent /\ MetricsInv
    OBVIOUS
  <2>1. (\A p \in Proc : req[p].pc = "idle") /\ \A d \in Day : ~ Stored(days[d])
    BY IdleFields DEF Init, NoDay, Stored
  <2> QED BY <2>1 DEF PlanIsCurrent, MetricsInv, Moving
<1>2. Typed /\ OneAtATime /\ EventInv /\ PlanIsCurrent /\ MetricsInv /\ [Next]_vars
        => (PlanIsCurrent /\ MetricsInv)'
  BY PlanIsCurrentStep, MetricsStep DEF EventInv
<1>3. MetricsInv => MetricsAreCurrent
  BY DEF MetricsInv, MetricsAreCurrent, MetricsFit, Settled
<1> QED BY <1>1, <1>2, <1>3, AlwaysTyped, AlwaysOneAtATime, AlwaysEventInv, PTL DEF Spec

-----------------------------------------------------------------------------
(* Requests for a decision on a shift.                                     *)

LEMMA StoredStays ==
    ASSUME Typed, NEW p \in Proc, Step(p), NEW d \in Day, Stored(days[d])
    PROVE  Stored(days'[d])
<1>1. CASE ~ (DayStep(p) /\ d = req[p].day)
  BY <1>1, DaysKept, DayEffect DEF OtherDays
<1>2. CASE WriteDay(p) /\ d = req[p].day
  BY <1>2, WriteDayEffect DEF Clocked
<1>3. CASE AdjWrite(p) /\ d = req[p].day
  BY <1>3, AdjWriteEffect
<1>4. CASE (WriteMoved(p) \/ MarkWrongShift(p)) /\ d = req[p].day
  BY <1>4, MoveEffects
<1>5. CASE (FlagPending(p) \/ FlagDecided(p)) /\ d = req[p].day
  BY <1>5, FlagEffects DEF FlagWritten
<1> QED BY <1>1, <1>2, <1>3, <1>4, <1>5 DEF DayStep

LEMMA FlagStays ==
    ASSUME Typed, NEW p \in Proc, Step(p), NEW d \in Day, (FlagPending(p) \/ FlagDecided(p)) => d # req[p].day
    PROVE  days'[d].flag = days[d].flag
<1>1. CASE ~ (DayStep(p) /\ d = req[p].day)
  BY <1>1, DaysKept, DayEffect DEF OtherDays
<1>2. CASE WriteDay(p) /\ d = req[p].day
  BY <1>2, WriteDayEffect DEF Clocked, SameFlag
<1>3. CASE AdjWrite(p) /\ d = req[p].day
  BY <1>3, AdjWriteEffect DEF SameFlag
<1>4. CASE (WriteMoved(p) \/ MarkWrongShift(p)) /\ d = req[p].day
  BY <1>4, MoveEffects DEF SameFlag
<1> QED BY <1>1, <1>2, <1>3, <1>4 DEF DayStep

LEMMA RequestsKept ==
    ASSUME NEW p \in Proc, Step(p), ~ FileMismatch(p), ~ MismatchStatus(p)
    PROVE  mm' = mm
<1>1. CASE StartStep(p)
  BY <1>1 DEF StartStep, ClockStart, EditStart, RequestStart, ReviewStart, MismatchStart, tables
<1>2. CASE RunStep(p)
  BY <1>2 DEF RunStep, LookUpKey, ReadPrior, ReadEvents, ResolveShift, InsertEvent, SavePhoto, ReadPlan,
       WriteDay, FlagPending, CheckPending, CheckAdjPending, InsertAdj, AdjRead, AdjPlan,
       AdjWrite, AdjAudit, AdjStatus, FindShift, MoveShift, ReadMoved, WriteMoved, MarkWrongShift,
       FlagDecided, Flag, tables
<1>3. CASE Fail(p)
  BY <1>3 DEF Fail, tables
<1> QED BY <1>1, <1>2, <1>3 DEF Step

\* From where p comes to flag a day, to ask for a decision on it, or to close its request.
Asking == {"flag", "pending", "file", "mmStatus"}
Arrives(p) ==
    /\ req'[p].pc \in Asking => Goes(p) /\ req'[p].day = req[p].day /\ req[p].day \in Day
    /\ req'[p].pc = "flag" => WriteDay(p)
    /\ req'[p].pc = "pending" => FlagPending(p)
    /\ req'[p].pc = "file" => CheckPending(p)
    /\ req'[p].pc = "mmStatus" => FlagDecided(p) \/ (ReadMoved(p) /\ ~ Stored(days[req[p].day]))

LEMMA ArrivesStep ==
    ASSUME Typed, NEW p \in Proc, Step(p)
    PROVE  Arrives(p)
<1>1. CASE StartStep(p)
  BY <1>1, StartEffects DEF Arrives, Asking
<1>2. CASE ReadPrior(p)
  BY <1>2, ReadPriorEffect DEF Arrives, Asking
<1>3. CASE (RunStep(p) \/ Fail(p)) /\ ~ ReadPrior(p)
  <2>1. Goes(p)
    BY <1>3, RunGoes
  <2>2. ASSUME req'[p].pc \in Asking
        PROVE  /\ req'[p].pc = "flag" => WriteDay(p)
               /\ req'[p].pc = "pending" => FlagPending(p)
               /\ req'[p].pc = "file" => CheckPending(p)
               /\ req'[p].pc = "mmStatus" => FlagDecided(p) \/ (ReadMoved(p) /\ ~ Stored(days[req[p].day]))
               /\ req[p].pc \notin {"idle", "key", "prior"}
    <3>1. CASE LookUpKey(p) \/ ReadEvents(p) \/ CheckPending(p) \/ CheckAdjPending(p) \/ FindShift(p)
      BY <2>2, <3>1, ReadEffects, IdleFields DEF ToKept, Gone, To, Asking
    <3>2. CASE ResolveShift(p) \/ ReadPlan(p) \/ AdjRead(p) \/ AdjPlan(p)
      BY <2>2, <3>2, HoldEffects, IdleFields DEF Gone, To, Asking
    <3>3. CASE ReadMoved(p)
      BY <2>2, <3>3, HoldEffects DEF To, Asking
    <3>4. CASE InsertEvent(p) \/ SavePhoto(p)
      <4>1. Gone(p) \/ \E pc \in {"photo", "plan"} : To(p, pc)
        BY <3>4, EventEffects DEF ToKept
      <4> QED BY <2>2, <4>1, IdleFields DEF Gone, To, Asking
    <3>5. CASE FileMismatch(p) \/ InsertAdj(p) \/ AdjAudit(p) \/ AdjStatus(p) \/ MismatchStatus(p)
      BY <2>2, <3>5, AskEffects, IdleFields DEF Gone, Asking
    <3>6. CASE WriteDay(p)
      BY <2>2, <3>6, WriteDayEffect, IdleFields DEF ToKept, Gone, To, Asking
    <3>7. CASE AdjWrite(p)
      BY <2>2, <3>7, AdjWriteEffect DEF ToKept, To, Asking
    <3>8. CASE MoveShift(p) \/ WriteMoved(p) \/ MarkWrongShift(p)
      BY <2>2, <3>8, MoveEffects DEF ToKept, To, Asking
    <3>9. CASE FlagPending(p) \/ FlagDecided(p)
      BY <2>2, <3>9, FlagEffects DEF ToKept, To, Asking
    <3>10. CASE Fail(p)
      BY <2>2, <3>10, FailEffect, IdleFields DEF Gone, Asking
    <3> QED BY <1>3, <3>1, <3>2, <3>3, <3>4, <3>5, <3>6, <3>7, <3>8, <3>9, <3>10, Statements
  <2>3. req'[p].pc \in Asking => req'[p].day = req[p].day /\ req[p].day \in Day
    BY <2>1, <2>2, RowFacts, IdleFields DEF Goes, Gone, To, Asking, Typed
  <2> QED BY <2>1, <2>2, <2>3 DEF Arrives, Asking
<1> QED BY <1>1, <1>2, <1>3 DEF Step

LEMMA StepOthers == ASSUME Typed, NEW p \in Proc, Step(p) PROVE OthersKept(p)
BY DayEffect, MemoryStep DEF Remembers

LEMMA PendingIsStoredStep ==
    ASSUME Typed, PendingIsStored, [Next]_vars
    PROVE  PendingIsStored'
<1>1. ASSUME NEW p \in Proc, Step(p) PROVE PendingIsStored'
  <2>1. ASSUME NEW d \in Day, days'[d].flag = "PENDING" PROVE Stored(days'[d])
    <3>1. CASE FlagPending(p) /\ d = req[p].day
      BY <1>1, <3>1, FlagEffects, StoredStays DEF PendingIsStored
    <3>2. CASE FlagDecided(p) /\ d = req[p].day
      <4>1. days'[d].flag # "PENDING" \/ days' = days
        BY <3>2, FlagEffects DEF FlagWritten
      <4> QED BY <1>1, <2>1, <4>1, StoredStays DEF PendingIsStored
    <3>3. CASE ~ (FlagPending(p) /\ d = req[p].day) /\ ~ (FlagDecided(p) /\ d = req[p].day)
      BY <1>1, <2>1, <3>3, FlagStays, StoredStays DEF PendingIsStored
    <3> QED BY <3>1, <3>2, <3>3
  <2>2. ASSUME NEW q \in Proc, req'[q].pc = "flag" PROVE Stored(days'[req'[q].day])
    <3>1. CASE q = p
      <4>1. WriteDay(p) /\ req'[p].day = req[p].day
        BY <1>1, <2>2, <3>1, ArrivesStep DEF Arrives, Asking
      <4> QED BY <3>1, <4>1, WriteDayEffect DEF Clocked
    <3>2. CASE q # p
      <4>1. req'[q] = req[q]
        BY <1>1, <3>2, StepOthers DEF OthersKept
      <4>2. req[q].day \in Day /\ Stored(days[req[q].day])
        BY <2>2, <4>1, RowFacts DEF PendingIsStored, Typed
      <4> QED BY <1>1, <4>1, <4>2, StoredStays
    <3> QED BY <3>1, <3>2
  <2> QED BY <2>1, <2>2 DEF PendingIsStored
<1>2. CASE Tick \/ (\E d \in Day, s \in PeriodShift : Replan(d, s)) \/ UNCHANGED vars
  <2>1. req' = req /\ days' = days
    BY <1>2, QuietSteps
  <2> QED BY <2>1 DEF PendingIsStored
<1> QED BY <1>1, <1>2, StepCases

\* The request a process reviews, or asks for an adjustment with, is the one it started with.
LEMMA SameTask ==
    ASSUME Typed, NEW p \in Proc, RunStep(p) \/ Fail(p), req'[p].op \notin {"none", "clock"}
    PROVE  req'[p].op = req[p].op /\ req'[p].id = req[p].id /\ req'[p].day = req[p].day
BY RunGoes, ReadPriorEffect, IdleFields DEF Goes, Gone, To

\* The requests p writes.
LEMMA MismatchWritten ==
    ASSUME Typed, AsksOnce, NEW p \in Proc, Step(p)
    PROVE  \/ mm' = mm
           \/ \E m \in Mismatch :
                /\ FileMismatch(p) /\ req[p].pc = "file" /\ req'[p] = Idle
                /\ mm[m].status = "none" /\ mm'[m].status = "SUBMITTED"
                /\ mm'[m].day = req[p].day /\ req[p].day \in Day
                /\ \A n \in Mismatch \ {m} : mm'[n] = mm[n]
           \/ \E m \in Mismatch :
                /\ MismatchStatus(p) /\ req[p].pc = "mmStatus" /\ req'[p] = Idle /\ req[p].id = {m}
                /\ mm[m].status # "none" /\ mm'[m].status \in {"APPROVED", "REJECTED"}
                /\ mm[m].day = req[p].day /\ mm'[m].day = req[p].day /\ req[p].day \in Day
                /\ req[p].day \notin raced => mm[m].status = "SUBMITTED"
                /\ \A n \in Mismatch \ {m} : mm'[n] = mm[n]
<1>1. CASE FileMismatch(p)
  BY <1>1, AskEffects, RowFacts DEF Gone, Typed
<1>2. CASE MismatchStatus(p)
  <2>1. PICK m \in Mismatch : /\ req[p].id = {m} /\ \A n \in Mismatch \ {m} : mm'[n] = mm[n]
                              /\ mm'[m].status \in {"APPROVED", "REJECTED"} /\ mm'[m].day = mm[m].day
    BY <1>2, AskEffects
  <2>2. req[p].pc = "mmStatus" /\ req'[p] = Idle /\ req[p].day \in Day
    BY <1>2, AskEffects, RowFacts DEF Gone, Typed
  <2>3. req[p].op \in {"move", "refuse"}
    BY <2>2, RowFacts DEF OpFits, Typed
  <2>4. /\ mm[m].status # "none" /\ mm[m].day = req[p].day
        /\ req[p].day \notin raced => mm[m].status = "SUBMITTED"
    BY <2>1, <2>3 DEF AsksOnce
  <2> QED BY <1>2, <2>1, <2>2, <2>4
<1>3. CASE ~ FileMismatch(p) /\ ~ MismatchStatus(p)
  BY <1>3, RequestsKept
<1> QED BY <1>1, <1>2, <1>3

LEMMA AsksOnceStep ==
    ASSUME Typed, OneAtATime, AsksOnce, [Next]_vars
    PROVE  AsksOnce'
<1>0. raced \subseteq raced' /\ 0 \notin Day
  BY RacedGrows DEF Day
<1>1. ASSUME NEW p \in Proc, Step(p) PROVE AsksOnce'
  <2>0. OthersKept(p)
    BY <1>1, StepOthers
\* No two of a day ask for a decision.
  <2>1. ASSUME NEW d \in Day \ raced', NEW m \in Mismatch, NEW n \in Mismatch, Asks(m, d)', Asks(n, d)'
        PROVE  m = n
    <3> DEFINE A(i) == mm'[i].status = "SUBMITTED" /\ mm'[i].day = d
    <3>0. A(m) /\ A(n)
      BY <2>1 DEF Asks
    <3>1. CASE mm' = mm
      BY <1>0, <3>0, <3>1 DEF AsksOnce, Asks
    <3>2. CASE FileMismatch(p) /\ mm' # mm
      <4>1. PICK o \in Mismatch : /\ req[p].pc = "file" /\ mm[o].status = "none" /\ mm'[o].day = req[p].day
                                  /\ \A i \in Mismatch \ {o} : mm'[i] = mm[i]
        BY <1>1, <3>2, AskEffects
      <4>2. d = req[p].day => \A i \in Mismatch : ~ Asks(i, d)
        BY <1>0, <4>1 DEF AsksOnce
      <4>3. \A i, j \in Mismatch \ {o} : A(i) /\ A(j) => i = j
        BY <1>0, <4>1 DEF AsksOnce, Asks
      <4>4. A(o) => d = req[p].day
        BY <4>1
      <4>5. \A i \in Mismatch \ {o} : A(i) => Asks(i, d)
        BY <4>1 DEF Asks
      <4> HIDE DEF A
      <4> QED BY <3>0, <4>2, <4>3, <4>4, <4>5
    <3>3. CASE MismatchStatus(p) /\ mm' # mm
      <4>1. PICK o \in Mismatch : /\ mm'[o].status \in {"APPROVED", "REJECTED"}
                                  /\ \A i \in Mismatch \ {o} : mm'[i] = mm[i]
        BY <1>1, <3>3, AskEffects
      <4> QED BY <1>0, <3>0, <4>1 DEF AsksOnce, Asks
    <3> QED BY <1>1, <3>1, <3>2, <3>3, RequestsKept
\* Nobody asks for a decision that is about to be asked for.
  <2>2. ASSUME NEW q \in Proc, req'[q].pc = "file", req'[q].day \notin raced', NEW m \in Mismatch,
               Asks(m, req[q].day)'
        PROVE  FALSE
    <3>0. mm'[m].status = "SUBMITTED" /\ mm'[m].day = req'[q].day
      BY <2>2 DEF Asks
    <3>1. CASE q = p
      <4>1. CheckPending(p) /\ req'[p].day = req[p].day
        BY <1>1, <2>2, <3>1, ArrivesStep DEF Arrives, Asking
      <4>2. mm' = mm /\ ToKept(p, "file") /\ \A n \in Mismatch : ~ Asks(n, req[p].day)
        BY <2>2, <3>1, <4>1, ReadEffects, IdleFields DEF CheckPending, tables, Gone
      <4> QED BY <3>0, <3>1, <4>1, <4>2 DEF Asks
    <3>2. CASE q # p
      <4>1. req'[q] = req[q] /\ req[q].day \in Day /\ req[q].day \notin raced
        BY <1>0, <2>0, <2>2, <3>2, RowFacts DEF OthersKept, Typed
      <4>2. ~ Asks(m, req[q].day) /\ req[p].day # req[q].day
        BY <1>0, <2>2, <3>2, <4>1 DEF AsksOnce, OneAtATime
      <4>3. mm'[m] = mm[m]
        BY <1>1, <3>0, <4>1, <4>2, MismatchWritten
      <4> QED BY <3>0, <4>1, <4>2, <4>3 DEF Asks
    <3> QED BY <3>1, <3>2
\* A reviewer decides on a request of its day.
  <2>3. ASSUME NEW q \in Proc, NEW m \in Mismatch, req'[q].op \in {"move", "refuse"}, m \in req'[q].id
        PROVE  /\ mm'[m].status # "none" /\ mm'[m].day = req'[q].day
               /\ req'[q].day \notin raced' => mm'[m].status = "SUBMITTED"
    <3>1. CASE q = p /\ StartStep(p)
      <4>1. mm[m].status = "SUBMITTED" /\ req'[p].day = mm[m].day /\ mm' = mm
        BY <2>3, <3>1, StartEffects DEF Enters, tables
      <4> QED BY <3>1, <4>1
    <3>2. CASE ~ (q = p /\ StartStep(p))
      <4>1. req'[q].op = req[q].op /\ req'[q].id = req[q].id /\ req'[q].day = req[q].day
        BY <1>1, <2>0, <2>3, <3>2, SameTask DEF OthersKept, Step
      <4>2. /\ mm[m].status # "none" /\ mm[m].day = req[q].day
            /\ req[q].day \notin raced => mm[m].status = "SUBMITTED"
        BY <2>3, <4>1 DEF AsksOnce
      <4>3. CASE mm'[m] = mm[m]
        BY <1>0, <4>1, <4>2, <4>3
      <4>4. CASE mm'[m] # mm[m]
        <5>1. /\ mm'[m].status # "none" /\ mm[m].day = req[p].day /\ mm'[m].day = mm[m].day
              /\ req[p].day \in Day /\ req'[p] = Idle
          BY <1>1, <4>2, <4>4, MismatchWritten
        <5>2. q # p
          BY <2>3, <5>1, IdleFields
        <5>3. req[q].day \in raced
          BY <1>0, <4>2, <5>1, <5>2 DEF OneAtATime
        <5> QED BY <1>0, <4>1, <4>2, <5>1, <5>3
      <4> QED BY <4>3, <4>4
    <3> QED BY <3>1, <3>2
  <2> QED BY <2>1, <2>2, <2>3 DEF AsksOnce
<1>2. CASE Tick \/ (\E d \in Day, s \in PeriodShift : Replan(d, s)) \/ UNCHANGED vars
  <2>1. req' = req /\ mm' = mm /\ raced' = raced
    BY <1>2, QuietSteps
  <2> QED BY <2>1 DEF AsksOnce, Asks
<1> QED BY <1>1, <1>2, StepCases

\* Someone on the day is about to look for, to file or to close a request for it.
Busy(p, d) == req[p].day = d /\ req[p].pc \in {"pending", "file", "mmStatus"}

LEMMA BusyStep ==
    ASSUME Typed, NEW p \in Proc, Step(p), NEW d \in Day, Busy(p, d)
    PROVE  \/ CheckPending(p) \/ FileMismatch(p) \/ MismatchStatus(p) \/ Fail(p)
<1>1. CASE StartStep(p)
  BY <1>1, StartEffects, IdleFields DEF Busy
<1>2. CASE LookUpKey(p) \/ ReadEvents(p) \/ CheckAdjPending(p) \/ FindShift(p)
  BY <1>2, ReadEffects DEF Busy
<1>3. CASE ResolveShift(p) \/ AdjRead(p) \/ AdjPlan(p) \/ ReadPlan(p) \/ ReadMoved(p)
  BY <1>3, HoldEffects DEF Busy
<1>4. CASE ReadPrior(p) \/ InsertEvent(p) \/ SavePhoto(p)
  BY <1>4, ReadPriorEffect, EventEffects DEF Busy
<1>5. CASE InsertAdj(p) \/ AdjAudit(p) \/ AdjStatus(p)
  BY <1>5, AskEffects DEF Busy
<1>6. CASE AdjWrite(p) \/ WriteDay(p)
  BY <1>6, AdjWriteEffect, WriteDayEffect DEF Busy
<1>7. CASE MoveShift(p) \/ MarkWrongShift(p) \/ WriteMoved(p)
  BY <1>7, MoveEffects DEF Busy
<1>8. CASE FlagPending(p) \/ FlagDecided(p)
  BY <1>8, FlagEffects DEF Busy
<1> QED BY <1>1, <1>2, <1>3, <1>4, <1>5, <1>6, <1>7, <1>8, Statements DEF Step

LEMMA FlagFitsStep ==
    ASSUME Typed, OneAtATime, PendingIsStored, AsksOnce, FlagFits, [Next]_vars
    PROVE  FlagFits'
<1>0. /\ raced \subseteq raced' /\ torn \subseteq torn' /\ 0 \notin Day
  BY RacedGrows, TornGrows DEF Day
<1>1. ASSUME NEW p \in Proc, Step(p), NEW d \in Day \ (raced' \cup torn')
      PROVE  /\ (\A q \in Proc : ~ Busy(q, d)') => (days'[d].flag = "PENDING" <=> \E m \in Mismatch : Asks(m, d)')
             /\ \A q \in Proc : req'[q].day = d =>
                  /\ req'[q].pc \in {"pending", "file"} => days'[d].flag = "PENDING"
                  /\ req'[q].pc = "mmStatus" => days'[d].flag # "PENDING"
  <2>0. OthersKept(p)
    BY <1>1, StepOthers
  <2>1. d \notin raced /\ d \notin torn
    BY <1>0
\* p writes or closes a request only of its own day.
  <2>2. ASSUME req[p].day # d, NEW m \in Mismatch PROVE Asks(m, d)' <=> Asks(m, d)
    BY <1>1, <2>2, MismatchWritten DEF Asks
  <2>3. CASE req[p].day # d
    <3>1. days'[d].flag = days[d].flag
      BY <1>1, <2>3, FlagStays
    <3>2. ~ Busy(p, d) /\ ~ Busy(p, d)'
      BY <1>1, <2>3, ArrivesStep DEF Arrives, Asking, Busy
    <3>3. \A q \in Proc : Busy(q, d)' <=> Busy(q, d)
      BY <2>0, <3>2 DEF OthersKept, Busy
    <3>4. \A q \in Proc : req'[q].pc \in {"pending", "file", "mmStatus"} /\ req'[q].day = d => req'[q] = req[q]
      BY <2>0, <3>2 DEF OthersKept, Busy
    <3>5. FlagFits /\ d \in Day \ (raced \cup torn)
      BY <2>1
    <3> QED BY <2>2, <2>3, <3>1, <3>3, <3>4, <3>5 DEF FlagFits, Busy
  <2>4. CASE req[p].day = d
    <3>0. \A q \in Proc \ {p} : req'[q] = req[q] /\ req[q].day # d
      BY <1>0, <2>0, <2>1, <2>4 DEF OthersKept, OneAtATime
    <3>1. \A q \in Proc \ {p} : ~ Busy(q, d) /\ ~ Busy(q, d)'
      BY <3>0 DEF Busy
    <3> DEFINE asked == \E m \in Mismatch : Asks(m, d)
    <3>2. /\ ~ Busy(p, d) => (days[d].flag = "PENDING" <=> asked)
          /\ req[p].pc \in {"pending", "file"} => days[d].flag = "PENDING"
          /\ req[p].pc = "mmStatus" => days[d].flag # "PENDING"
      BY <2>1, <2>4, <3>1 DEF FlagFits, Busy
    <3> HIDE DEF asked
    <3> SUFFICES /\ ~ Busy(p, d)' => (days'[d].flag = "PENDING" <=> asked')
                 /\ req'[p].pc \in {"pending", "file"} => days'[d].flag = "PENDING"
                 /\ req'[p].pc = "mmStatus" => days'[d].flag # "PENDING"
      BY <3>0, <3>1 DEF asked, Busy
    <3>3. CASE FlagPending(p)
      BY <1>1, <2>4, <3>3, FlagEffects DEF FlagWritten, ToKept, To, Busy
    <3>4. CASE FlagDecided(p)
      BY <1>1, <2>4, <3>4, FlagEffects DEF FlagWritten, ToKept, To, Busy
    <3>5. CASE ~ FlagPending(p) /\ ~ FlagDecided(p)
      <4>0. days'[d].flag = days[d].flag
        BY <1>1, <3>5, FlagStays
      <4>1. CASE CheckPending(p)
        <5>1. mm' = mm /\ asked' = asked
          BY <4>1 DEF CheckPending, tables, asked, Asks
        <5>2. /\ req[p].pc = "pending"
              /\ \/ Gone(p) /\ asked
                 \/ ToKept(p, "file")
          BY <2>4, <4>1, ReadEffects DEF asked
        <5> QED BY <2>4, <3>2, <4>0, <5>1, <5>2, IdleFields DEF Gone, ToKept, To, Busy
      <4>2. CASE FileMismatch(p)
        <5>1. /\ req[p].pc = "file" /\ req'[p].pc = "idle" /\ asked'
          BY <2>4, <4>2, AskEffects, IdleFields DEF Gone, asked, Asks
        <5> QED BY <3>2, <4>0, <5>1
      <4>3. CASE MismatchStatus(p)
        <5>1. PICK m \in Mismatch : /\ req[p].pc = "mmStatus" /\ req[p].id = {m} /\ Gone(p)
                                    /\ mm'[m].status \in {"APPROVED", "REJECTED"}
                                    /\ \A n \in Mismatch \ {m} : mm'[n] = mm[n]
          BY <4>3, AskEffects
        <5>2. Asks(m, d)
          <6>1. req[p].op \in {"move", "refuse"}
            BY <5>1, RowFacts DEF OpFits, Typed
          <6> QED BY <2>1, <2>4, <5>1, <6>1 DEF AsksOnce, Asks
        <5>3. ~ asked'
          BY <2>1, <5>1, <5>2 DEF AsksOnce, Asks, asked
        <5> QED BY <3>2, <4>0, <5>1, <5>3, IdleFields DEF Gone
      <4>4. CASE Fail(p)
        BY <1>1, <2>4, <4>4, FailEffect
      <4>5. CASE ~ CheckPending(p) /\ ~ FileMismatch(p) /\ ~ MismatchStatus(p) /\ ~ Fail(p)
        <5>1. ~ Busy(p, d) /\ mm' = mm /\ asked' = asked
          BY <1>1, <4>5, BusyStep, RequestsKept DEF asked, Asks
        <5>2. req'[p].pc \notin {"pending", "file"}
          BY <1>1, <3>5, <4>5, ArrivesStep DEF Arrives, Asking
        <5>3. req'[p].pc = "mmStatus" => days[d].flag # "PENDING"
          BY <1>1, <2>4, <3>5, ArrivesStep DEF Arrives, Asking, PendingIsStored
        <5> QED BY <3>2, <4>0, <5>1, <5>2, <5>3 DEF Busy
      <4> QED BY <4>1, <4>2, <4>3, <4>4, <4>5
    <3> QED BY <3>3, <3>4, <3>5
  <2> QED BY <2>3, <2>4
<1>2. ASSUME NEW p \in Proc, Step(p) PROVE FlagFits'
  BY <1>1, <1>2 DEF FlagFits, Busy
<1>3. CASE Tick \/ (\E d \in Day, s \in PeriodShift : Replan(d, s)) \/ UNCHANGED vars
  <2>1. req' = req /\ days' = days /\ mm' = mm /\ raced' = raced /\ torn' = torn
    BY <1>3, QuietSteps
  <2> QED BY <2>1 DEF FlagFits, Asks
<1> QED BY <1>2, <1>3, StepCases

\* clock and reviewShiftMismatchRequest: a settled day waits for a decision on
\* its shift exactly while a request asks for one.
THEOREM FlagsHaveRequests == Spec => []PendingHasRequest
<1>1. Init => PendingIsStored /\ AsksOnce /\ FlagFits
  <2> SUFFICES ASSUME Init PROVE PendingIsStored /\ AsksOnce /\ FlagFits
    OBVIOUS
  <2>1. /\ \A p \in Proc : req[p].pc = "idle" /\ req[p].op = "none" /\ req[p].day = 0
        /\ \A d \in Day : days[d].flag = "none"
        /\ \A m \in Mismatch : mm[m].status = "none"
    BY IdleFields DEF Init, NoDay
  <2> QED BY <2>1 DEF PendingIsStored, AsksOnce, FlagFits, Asks
<1>2. Typed /\ OneAtATime /\ PendingIsStored /\ AsksOnce /\ FlagFits /\ [Next]_vars
        => (PendingIsStored /\ AsksOnce /\ FlagFits)'
  BY PendingIsStoredStep, AsksOnceStep, FlagFitsStep
<1>3. FlagFits => PendingHasRequest
  BY DEF FlagFits, PendingHasRequest, Settled, Asks
<1> QED BY <1>1, <1>2, <1>3, AlwaysTyped, AlwaysOneAtATime, PTL DEF Spec

-----------------------------------------------------------------------------
(* Decisions on adjustments.                                               *)

LEMMA AdjustmentsKept ==
    ASSUME NEW p \in Proc, Step(p), ~ InsertAdj(p), ~ AdjAudit(p), ~ AdjStatus(p)
    PROVE  adj' = adj
<1>1. CASE StartStep(p)
  BY <1>1 DEF StartStep, ClockStart, EditStart, RequestStart, ReviewStart, MismatchStart, tables
<1>2. CASE RunStep(p)
  BY <1>2 DEF RunStep, LookUpKey, ReadPrior, ReadEvents, ResolveShift, InsertEvent, SavePhoto, ReadPlan,
       WriteDay, FlagPending, CheckPending, FileMismatch, CheckAdjPending, AdjRead, AdjPlan,
       AdjWrite, FindShift, MoveShift, ReadMoved, WriteMoved, MarkWrongShift,
       FlagDecided, MismatchStatus, Flag, tables
<1>3. CASE Fail(p)
  BY <1>3 DEF Fail, tables
<1> QED BY <1>1, <1>2, <1>3 DEF Step

\* An adjustment that p writes is one nobody has asked for yet, or the one it decides on.
Decides(p, a) ==
    /\ req[p].op \in {"approve", "reject"} /\ req[p].id = {a} /\ req[p].day \in Day
    /\ adj[a].status # "none" /\ adj[a].day = req[p].day /\ adj'[a].day = req[p].day
    /\ req[p].day \notin raced => adj[a].status = "SUBMITTED"
    /\ adj'[a].status # "none"
Files(p, a) ==
    /\ adj[a].status = "none"
    /\ \/ req[p].op = "request" /\ req[p].id = {a}
       \/ \A q \in Proc : a \notin req[q].id

LEMMA AdjustmentWritten ==
    ASSUME Typed, DecisionInv, NEW p \in Proc, Step(p), NEW a \in Adj, adj'[a] # adj[a]
    PROVE  /\ req'[p] = Idle
           /\ Files(p, a) \/ Decides(p, a)
<1>1. CASE InsertAdj(p)
  <2>1. PICK b \in Adj : req[p].id = {b} /\ \A c \in Adj \ {b} : adj'[c] = adj[c]
    BY <1>1, AskEffects
  <2>2. req[p].op = "request" /\ req'[p] = Idle /\ a = b
    BY <1>1, <2>1, AskEffects, RowFacts DEF OpFits, Typed, Gone
  <2> QED BY <2>1, <2>2 DEF DecisionInv, Files
<1>2. CASE AdjAudit(p)
  BY <1>2, AskEffects DEF Gone, Files
<1>3. CASE AdjStatus(p)
  <2>1. PICK b \in Adj : /\ req[p].id = {b} /\ \A c \in Adj \ {b} : adj'[c] = adj[c]
                         /\ adj'[b].status \in {"APPROVED", "REJECTED"} /\ adj'[b].day = adj[b].day
    BY <1>3, AskEffects
  <2>2. /\ req[p].op \in {"approve", "reject"} /\ req'[p] = Idle /\ a = b /\ req[p].day \in Day
    BY <1>3, <2>1, AskEffects, RowFacts DEF OpFits, Typed, Gone
  <2> QED BY <2>1, <2>2 DEF DecisionInv, Decides
<1> QED BY <1>1, <1>2, <1>3, AdjustmentsKept

LEMMA DecisionStep ==
    ASSUME Typed, OneAtATime, DecisionInv, [Next]_vars
    PROVE  DecisionInv'
<1>0. raced \subseteq raced' /\ 0 \notin Day
  BY RacedGrows DEF Day
<1>1. ASSUME NEW p \in Proc, Step(p) PROVE DecisionInv'
  <2>0. OthersKept(p)
    BY <1>1, StepOthers
  <2>1. ASSUME NEW q \in Proc, NEW a \in Adj, req'[q].op \in {"approve", "reject"}, a \in req'[q].id
        PROVE  /\ adj'[a].status # "none" /\ adj'[a].day = req'[q].day
               /\ req'[q].day \notin raced' => adj'[a].status = "SUBMITTED"
    <3>1. CASE q = p /\ StartStep(p)
      <4>1. adj[a].status = "SUBMITTED" /\ req'[p].day = adj[a].day /\ adj' = adj
        BY <2>1, <3>1, StartEffects DEF Enters, tables
      <4> QED BY <3>1, <4>1
    <3>2. CASE ~ (q = p /\ StartStep(p))
      <4>1. req'[q].op = req[q].op /\ req'[q].id = req[q].id /\ req'[q].day = req[q].day
        BY <1>1, <2>0, <2>1, <3>2, SameTask DEF OthersKept, Step
      <4>2. /\ adj[a].status # "none" /\ adj[a].day = req[q].day
            /\ req[q].day \notin raced => adj[a].status = "SUBMITTED"
        BY <2>1, <4>1 DEF DecisionInv
      <4>3. CASE adj'[a] = adj[a]
        BY <1>0, <4>1, <4>2, <4>3
      <4>4. CASE adj'[a] # adj[a]
        <5>1. Decides(p, a) /\ req'[p] = Idle
          BY <1>1, <4>2, <4>4, AdjustmentWritten DEF Files
        <5>2. q # p
          BY <2>1, <5>1, IdleFields
        <5>3. req[q].day \in raced
          BY <1>0, <4>2, <5>1, <5>2 DEF OneAtATime, Decides
        <5> QED BY <1>0, <4>1, <4>2, <5>1, <5>3 DEF Decides
      <4> QED BY <4>3, <4>4
    <3> QED BY <3>1, <3>2
  <2>2. ASSUME NEW q \in Proc, NEW a \in Adj, req'[q].op = "request", a \in req'[q].id
        PROVE  /\ adj'[a].status = "none"
               /\ \A r \in Proc \ {q} : req'[r].op = "request" => a \notin req'[r].id
    <3>1. CASE q = p /\ StartStep(p)
      <4>1. adj[a].status = "none" /\ (\A r \in Proc : a \notin req[r].id) /\ adj' = adj
        BY <2>2, <3>1, StartEffects DEF Enters, tables
      <4> QED BY <2>0, <3>1, <4>1 DEF OthersKept
    <3>2. CASE ~ (q = p /\ StartStep(p))
      <4>1. req'[q].op = req[q].op /\ req'[q].id = req[q].id
        BY <1>1, <2>0, <2>2, <3>2, SameTask DEF OthersKept, Step
      <4>2. /\ adj[a].status = "none"
            /\ \A r \in Proc \ {q} : req[r].op = "request" => a \notin req[r].id
        BY <2>2, <4>1 DEF DecisionInv
      <4>3. adj'[a] = adj[a]
        <5>1. CASE adj'[a] # adj[a]
          <6>1. req'[p] = Idle /\ Files(p, a)
            BY <1>1, <4>2, <5>1, AdjustmentWritten DEF Decides
          <6>2. q # p
            BY <2>2, <6>1, IdleFields
          <6> QED BY <2>2, <4>1, <4>2, <6>1, <6>2 DEF Files
        <5> QED BY <5>1
      <4>4. ASSUME NEW r \in Proc \ {q}, req'[r].op = "request", a \in req'[r].id PROVE FALSE
        <5>1. CASE r = p /\ StartStep(p)
          <6>1. a \notin req[q].id
            BY <4>4, <5>1, StartEffects
          <6> QED BY <2>2, <4>1, <6>1
        <5>2. CASE ~ (r = p /\ StartStep(p))
          <6>1. req'[r].op = req[r].op /\ req'[r].id = req[r].id
            BY <1>1, <2>0, <4>4, <5>2, SameTask DEF OthersKept, Step
          <6> QED BY <4>2, <4>4, <6>1
        <5> QED BY <5>1, <5>2
      <4> QED BY <4>2, <4>3, <4>4
    <3> QED BY <3>1, <3>2
  <2> QED BY <2>1, <2>2 DEF DecisionInv
<1>2. CASE Tick \/ (\E d \in Day, s \in PeriodShift : Replan(d, s)) \/ UNCHANGED vars
  <2>1. req' = req /\ adj' = adj /\ raced' = raced
    BY <1>2, QuietSteps
  <2> QED BY <2>1 DEF DecisionInv
<1> QED BY <1>1, <1>2, StepCases

\* reviewAttendanceAdjustment: an adjustment once approved or rejected stays so,
\* on every day on which no two requests overlapped.
THEOREM DecisionsAreFinal == Spec => DecidedIsFinal
<1> DEFINE Final == \A a \in Adj : adj[a].status \in {"APPROVED", "REJECTED"} /\ adj[a].day \notin raced
                      => adj'[a].status = adj[a].status
<1>1. Init => DecisionInv
  BY IdleFields DEF Init, DecisionInv
<1>2. Typed /\ OneAtATime /\ DecisionInv /\ [Next]_vars => DecisionInv'
  BY DecisionStep
<1>3. Typed /\ DecisionInv /\ [Next]_vars => [Final]_vars
  <2> SUFFICES ASSUME Typed, DecisionInv, Next, NEW a \in Adj,
                      adj[a].status \in {"APPROVED", "REJECTED"}, adj[a].day \notin raced
               PROVE  adj'[a].status = adj[a].status
    OBVIOUS
  <2>1. ASSUME NEW p \in Proc, Step(p), adj'[a] # adj[a] PROVE FALSE
    BY <2>1, AdjustmentWritten DEF Files, Decides
  <2>2. CASE Tick \/ \E d \in Day, s \in PeriodShift : Replan(d, s)
    BY <2>2, QuietSteps
  <2> QED BY <2>1, <2>2 DEF Next, Step
<1> QED BY <1>1, <1>2, <1>3, AlwaysTyped, AlwaysOneAtATime, PTL DEF Spec, DecidedIsFinal
=============================================================================

------------------------ MODULE PayrollPeriods_proofs ------------------------
(***************************************************************************)
(* Theorems about PayrollPeriods, for any calendar, schedule, months,      *)
(* hand-made ranges and number of concurrent and lost requests: nothing is *)
(* paid unreviewed, and the requests implement PeriodLifecycle.            *)
(***************************************************************************)
EXTENDS PayrollPeriods, TLAPS

-----------------------------------------------------------------------------
(* The calendar.                                                           *)

LEMMA GeneratedType ==
    ASSUME NEW f, NEW m \in Months
    PROVE  /\ Len(GeneratePeriods(f, m)) \in {1, 2}
           /\ \A i \in 1 .. Len(GeneratePeriods(f, m)) : GeneratePeriods(f, m)[i] \in Nat \X Nat
<1>1. /\ FirstDay[m] \in Nat /\ LastDay[m] \in Nat /\ HalfDay \in Nat \ {0}
      /\ FirstDay[m] <= LastDay[m]
  BY CalendarAssumption, PeriodsAssumption
<1>2. DateOf(m, HalfDay) \in Nat /\ DateOf(m, HalfDay + 1) \in Nat
  BY <1>1 DEF DateOf
<1>3. CASE f = "SEMIMONTHLY"
  BY <1>1, <1>2, <1>3 DEF GeneratePeriods, SemimonthlyPeriods
<1>4. CASE f # "SEMIMONTHLY"
  BY <1>1, <1>4 DEF GeneratePeriods, MonthlyPeriods
<1> QED BY <1>3, <1>4

LEMMA GeneratedRange ==
    ASSUME NEW f \in Supported, NEW m \in Months, NEW i \in 1 .. Len(GeneratePeriods(f, m))
    PROVE  GeneratePeriods(f, m)[i] \in Range
<1> DEFINE generated == {GeneratePeriods(f, m)[j] : j \in 1 .. Len(GeneratePeriods(f, m))}
<1>1. GeneratePeriods(f, m)[i] \in generated
  OBVIOUS
<1>2. generated \in {{GeneratePeriods(g, k)[j] : j \in 1 .. Len(GeneratePeriods(g, k))} :
                      g \in Supported, k \in Months}
  OBVIOUS
<1> HIDE DEF generated
<1> QED BY <1>1, <1>2 DEF Range

LEMMA RangeType == \A r \in Range : r \in Nat \X Nat
<1>1. \A f \in Supported : \A m \in Months : \A i \in 1 .. Len(GeneratePeriods(f, m)) :
        GeneratePeriods(f, m)[i] \in Nat \X Nat
  BY GeneratedType
<1> QED BY <1>1, PeriodsAssumption DEF Range

LEMMA PaymentType ==
    ASSUME NEW rule \in Rule, NEW range \in Range
    PROVE  PaymentDate(rule, range[2]) \in Nat
<1> DEFINE end == range[2]
           m == MonthOf(end)
<1>1. end \in Nat /\ end \in Dates /\ m + 1 \in Month
  BY RangeType, CalendarReaches
<1>2. m \in Month
  <2>1. \E k \in Month : end \in FirstDay[k] .. LastDay[k]
    BY <1>1 DEF Dates
  <2> QED BY <2>1 DEF MonthOf
<1> HIDE DEF m, end
<1>3. /\ FirstDay[m + 1] = LastDay[m] + 1 /\ LastDay[m] \in Nat
      /\ LastDay[m + 1] \in Nat /\ FirstDay[m + 1] <= LastDay[m + 1]
  BY <1>1, <1>2, CalendarAssumption
<1>4. rule.n \in Nat
  BY DEF Rule
<1>5. Clamp(m + 1, rule.n) \in Nat
  BY <1>3, <1>4 DEF Clamp, DateOf, DaysInMonth
<1>6. Clamp(m, rule.n) >= end => Clamp(m, rule.n) \in Nat
  <2>1. FirstDay[m] \in Nat
    BY <1>2, CalendarAssumption
  <2>2. Clamp(m, rule.n) \in Int
    BY <1>3, <1>4, <2>1 DEF Clamp, DateOf, DaysInMonth
  <2> QED BY <1>1, <2>2
<1>7. PaymentDate(rule, end) =
        IF rule.kind = "END_OF_PERIOD" THEN end
        ELSE IF rule.kind = "DAYS_AFTER_END" THEN end + rule.n
        ELSE IF Clamp(m, rule.n) >= end THEN Clamp(m, rule.n)
        ELSE Clamp(m + 1, rule.n)
  BY DEF PaymentDate, m
<1> QED BY <1>1, <1>4, <1>5, <1>6, <1>7 DEF end

-----------------------------------------------------------------------------
(* The stages of a period, by number.                                      *)

LEMMA FlowFacts ==
    /\ \A i \in 1 .. 7 : Flow[i] \in Status
    /\ \A i, j \in 1 .. 7 : Flow[i] = Flow[j] => i = j
    /\ \A s \in Status : \E i \in 1 .. 7 : Flow[i] = s
BY DEF Flow, Status

LEMMA StageFacts ==
    /\ \A s \in Status : StageOf[s] \in 1 .. 7 /\ Flow[StageOf[s]] = s
    /\ \A i \in 1 .. 7 : StageOf[Flow[i]] = i
BY FlowFacts DEF StageOf

\* A permitted change is one stage on, or one back before it is paid.
LEMMA AllowedFacts ==
    ASSUME NEW s \in Status, NEW t \in Allowed(s)
    PROVE  /\ t \in Status
           /\ \/ StageOf[t] = StageOf[s] + 1
              \/ StageOf[s] \in 2 .. 5 /\ StageOf[t] = StageOf[s] - 1
<1>1. /\ StageOf["DRAFT"] = 1 /\ StageOf["OPEN"] = 2 /\ StageOf["CALCULATING"] = 3
      /\ StageOf["REVIEW"] = 4 /\ StageOf["APPROVED"] = 5 /\ StageOf["PAID"] = 6
      /\ StageOf["LOCKED"] = 7
  BY StageFacts DEF Flow
<1> QED BY <1>1 DEF Allowed, Status

-----------------------------------------------------------------------------
(* The invariant: a period keeps the statuses it was born with and has     *)
(* now, and a status change in flight leads away from one it has had.      *)

RowsInv == \A r \in Range : periods[r].on => /\ periods[r].status \in periods[r].held
                                             /\ periods[r].born \in periods[r].held
RequestInv ==
    \A p \in Proc :
        /\ req[p].pc \in {"find", "check", "insert"} => req[p].todo # <<>>
        /\ req[p].pc = "write" => /\ req[p].range \in Range
                                  /\ periods[req[p].range].on
                                  /\ req[p].from \in periods[req[p].range].held
                                  /\ req[p].to \in Allowed(req[p].from)

LifeInv == PeriodInv /\ RowsInv /\ RequestInv

LEMMA IdleType == Idle \in ReqType
<1>1. <<>> \in Seq(Candidate)
  OBVIOUS
<1> QED BY <1>1 DEF Idle, ReqType, Status

LEMMA InitLife == Init => LifeInv
<1> SUFFICES ASSUME Init PROVE LifeInv
  OBVIOUS
<1>1. TypeOK
  <2>1. NoRow \in Row
    BY DEF NoRow, Row, Status
  <2> QED BY <2>1, IdleType DEF Init, TypeOK
<1>2. \A r \in Range : ~ periods[r].on
  BY DEF Init, NoRow
<1>3. \A p \in Proc : req[p].pc = "idle"
  BY DEF Init, Idle
<1> QED BY <1>1, <1>2, <1>3 DEF LifeInv, PeriodInv, PaidWasReviewed, RowsInv, RequestInv

\* The rows stay and the requests stay well formed.
LEMMA SamePeriods ==
    ASSUME LifeInv, UNCHANGED periods, TypeOK', RequestInv'
    PROVE  LifeInv'
BY DEF LifeInv, PeriodInv, PaidWasReviewed, RowsInv

\* The request of one process is replaced.
LEMMA OneRequest ==
    ASSUME LifeInv, UNCHANGED periods, NEW p \in Proc, NEW row \in ReqType,
           req' = [req EXCEPT ![p] = row],
           row.pc \in {"find", "check", "insert"} => row.todo # <<>>,
           row.pc = "write" => /\ row.range \in Range /\ periods[row.range].on
                               /\ row.from \in periods[row.range].held
                               /\ row.to \in Allowed(row.from)
    PROVE  req' \in [Proc -> ReqType] /\ RequestInv'
BY DEF LifeInv, PeriodInv, TypeOK, RequestInv

LEMMA AnswerStep ==
    ASSUME LifeInv, NEW p \in Proc, req' = [req EXCEPT ![p] = Idle]
    PROVE  /\ req' \in [Proc -> ReqType]
           /\ \A q \in Proc \ {p} : req'[q] = req[q]
           /\ req'[p] = Idle /\ req'[p].pc = "idle"
BY IdleType DEF LifeInv, PeriodInv, TypeOK, Idle

\* On to the next candidate.
LEMMA OnwardStep ==
    ASSUME LifeInv, NEW p \in Proc, req[p].pc \in {"find", "check", "insert"}, Onward(p)
    PROVE  /\ req' \in [Proc -> ReqType] /\ failed' \in [Proc -> BOOLEAN]
           /\ \A q \in Proc \ {p} : req'[q] = req[q]
           /\ req'[p].pc \in {"idle", "find"}
           /\ req'[p].pc = "find" => req'[p].todo # <<>>
<1>1. CASE Answer(p, FALSE)
  BY <1>1, AnswerStep DEF Answer, LifeInv, PeriodInv, TypeOK
<1>2. CASE /\ Len(req[p].todo) # 1
           /\ req' = [req EXCEPT ![p].pc = "find", ![p].todo = Tail(@)]
           /\ UNCHANGED failed
  <2>1. req[p] \in ReqType /\ req[p].todo \in Seq(Candidate) /\ req[p].todo # <<>>
    BY DEF LifeInv, PeriodInv, TypeOK, RequestInv, ReqType
  <2>2. Tail(req[p].todo) \in Seq(Candidate) /\ Tail(req[p].todo) # <<>>
    <3> DEFINE todo == req[p].todo
    <3>1. todo \in Seq(Candidate) /\ Len(todo) \in Nat /\ Len(todo) # 0 /\ Len(todo) # 1
      BY <1>2, <2>1
    <3> HIDE DEF todo
    <3>2. Tail(todo) \in Seq(Candidate) /\ Len(Tail(todo)) = Len(todo) - 1
      BY <3>1
    <3>3. Len(Tail(todo)) # 0
      BY <3>1, <3>2
    <3>4. Len(<<>>) = 0
      OBVIOUS
    <3>5. Tail(todo) # <<>>
      BY <3>3, <3>4
    <3> QED BY <3>2, <3>5 DEF todo
  <2> DEFINE row == [req[p] EXCEPT !.pc = "find", !.todo = Tail(req[p].todo)]
  <2>3. row \in ReqType /\ row.pc = "find" /\ row.todo = Tail(req[p].todo)
    BY <2>1, <2>2 DEF ReqType
  <2>4. req' = [req EXCEPT ![p] = row]
    BY <1>2, <2>1 DEF LifeInv, PeriodInv, TypeOK
  <2> HIDE DEF row
  <2> QED BY <1>2, <2>2, <2>3, <2>4 DEF LifeInv, PeriodInv, TypeOK
<1> QED BY <1>1, <1>2 DEF Onward

-----------------------------------------------------------------------------
(* One step per action.                                                    *)

LEMMA StartStep ==
    ASSUME LifeInv, NEW p \in Proc, Request(p)
    PROVE  LifeInv'
<1> USE DEF LifeInv, PeriodInv
<1>1. schedule \in [frequency : Frequencies, rule : Rules] /\ schedule.rule \in Rule
  BY PeriodsAssumption DEF TypeOK
<1>2. ASSUME NEW row \in ReqType, Begin(p, row), row.pc \in {"find", "check"}, row.todo # <<>>
      PROVE  LifeInv'
  <2>1. req' \in [Proc -> ReqType] /\ RequestInv'
    BY <1>2, OneRequest DEF Begin
  <2>2. TypeOK'
    BY <1>2, <2>1 DEF Begin, TypeOK
  <2> QED BY <1>2, <2>1, <2>2, SamePeriods DEF Begin
<1>3. ASSUME NEW range \in HandMade, NEW given \in {{}} \cup {{d} : d \in GivenDates},
             NEW born \in Born, CreateStart(p, range, given, born)
      PROVE  LifeInv'
  <2> DEFINE c == [range |-> range, pay |-> PayOf(range, given),
                   rule |-> IF given = {} THEN schedule.rule ELSE Given, born |-> born]
             row == [Idle EXCEPT !.op = "create", !.pc = "check", !.todo = <<c>>]
  <2>1. range \in Range
    BY DEF Range
  <2>2. PayOf(range, given) \in Nat
    BY <1>1, <2>1, PaymentType, PeriodsAssumption DEF PayOf
  <2>3. c \in Candidate
    BY <1>1, <2>1, <2>2, PeriodsAssumption DEF Candidate
  <2> HIDE DEF c
  <2>4. <<c>> \in Seq(Candidate) /\ <<c>> # <<>>
    BY <2>3
  <2>5. row \in ReqType /\ row.pc = "check" /\ row.todo = <<c>>
    BY <2>4, IdleType DEF ReqType, Idle
  <2>6. Begin(p, row)
    BY <1>3 DEF CreateStart, c
  <2> QED BY <1>2, <2>4, <2>5, <2>6
<1>4. ASSUME NEW m \in Months, GenerateStart(p, m)
      PROVE  LifeInv'
  <2> DEFINE ranges == GeneratePeriods(schedule.frequency, m)
             row == [Idle EXCEPT !.op = "generate", !.pc = "find", !.todo = Candidates(m),
                                 !.month = m, !.frequency = schedule.frequency]
  <2>1. schedule.frequency \in Supported /\ schedule.frequency \in Frequencies
    BY <1>1, <1>4 DEF GenerateStart
  <2>2. Len(ranges) \in {1, 2} /\ \A i \in 1 .. Len(ranges) : ranges[i] \in Range
    BY <2>1, GeneratedType, GeneratedRange
  <2> HIDE DEF ranges
  <2>3. \A i \in 1 .. Len(ranges) :
          [range |-> ranges[i], pay |-> PaymentDate(schedule.rule, ranges[i][2]),
           rule |-> schedule.rule, born |-> "DRAFT"] \in Candidate
    BY <1>1, <2>2, PaymentType DEF Candidate, Status
  <2>4. Candidates(m) = [i \in 1 .. Len(ranges) |->
          [range |-> ranges[i], pay |-> PaymentDate(schedule.rule, ranges[i][2]),
           rule |-> schedule.rule, born |-> "DRAFT"]]
    BY DEF Candidates, ranges
  <2>5. Candidates(m) \in [1 .. Len(ranges) -> Candidate]
    BY <2>3, <2>4
  <2>6. Candidates(m) \in Seq(Candidate) /\ Candidates(m) # <<>>
    BY <2>2, <2>5
  <2>7. row \in ReqType /\ row.pc = "find" /\ row.todo = Candidates(m)
    BY <2>1, <2>6, PeriodsAssumption, CalendarAssumption, IdleType DEF ReqType, Idle
  <2>8. Begin(p, row)
    BY <1>4 DEF GenerateStart
  <2> HIDE DEF row
  <2> QED BY <1>2, <2>6, <2>7, <2>8
<1>5. ASSUME NEW range \in Tracked, NEW to \in Status, StatusStart(p, range, to)
      PROVE  LifeInv'
  <2> DEFINE row == [Idle EXCEPT !.op = "status", !.pc = "write", !.range = range,
                                 !.from = periods[range].status, !.to = to]
  <2>1. range \in Range /\ periods[range].status \in Status
    BY PeriodsAssumption DEF TypeOK, Row
  <2>2. /\ row \in ReqType /\ row.pc = "write" /\ row.range = range
        /\ row.from = periods[range].status /\ row.to = to
    BY <2>1, IdleType DEF ReqType, Idle
  <2>3. req' = [req EXCEPT ![p] = row] /\ UNCHANGED <<schedule, periods, made>>
        /\ to \in Allowed(periods[range].status) /\ periods[range].on
        /\ failed' = [failed EXCEPT ![p] = FALSE]
        /\ raced' \subseteq raced \cup {range}
    BY <1>5 DEF StatusStart
  <2> HIDE DEF row
  <2>4. req' \in [Proc -> ReqType] /\ RequestInv'
    BY <2>1, <2>2, <2>3, OneRequest DEF RowsInv
  <2>5. TypeOK'
    BY <2>1, <2>3, <2>4 DEF TypeOK
  <2> QED BY <2>3, <2>4, <2>5, SamePeriods
<1> QED BY <1>3, <1>4, <1>5 DEF Request

LEMMA LookStep ==
    ASSUME LifeInv, NEW p \in Proc, Find(p) \/ Check(p) \/ Lose(p)
    PROVE  LifeInv'
<1> USE DEF LifeInv, PeriodInv
<1>1. UNCHANGED <<schedule, periods, made, raced>>
  BY DEF Find, Check, Lose
<1> DEFINE Fine == /\ req' \in [Proc -> ReqType] /\ failed' \in [Proc -> BOOLEAN]
                   /\ \A q \in Proc \ {p} : req'[q] = req[q]
                   /\ req'[p].pc \in {"idle", "find", "check", "insert"}
                   /\ req'[p].pc # "idle" => req'[p].todo # <<>>
<1>2. Fine
  <2>1. CASE Answer(p, TRUE)
    BY <2>1, AnswerStep DEF Answer, TypeOK
  <2>2. CASE Find(p) /\ Onward(p)
    BY <2>2, OnwardStep DEF Find, At
  <2>3. ASSUME NEW pc \in {"check", "insert"}, req' = [req EXCEPT ![p].pc = pc],
               UNCHANGED failed, req[p].pc \in {"find", "check"}
        PROVE  Fine
    <3>1. [req[p] EXCEPT !.pc = pc] \in ReqType
      BY ZenonT(60) DEF TypeOK, ReqType
    <3> QED BY <2>3, <3>1 DEF TypeOK, ReqType, RequestInv
  <2> QED BY <2>1, <2>2, <2>3 DEF Find, Check, Lose, Skipped, At
<1>3. RequestInv'
  BY <1>1, <1>2 DEF RequestInv
<1>4. TypeOK'
  BY <1>1, <1>2 DEF TypeOK
<1> QED BY <1>1, <1>3, <1>4, SamePeriods

LEMMA InsertStep ==
    ASSUME LifeInv, NEW p \in Proc, Insert(p)
    PROVE  LifeInv'
<1> USE DEF LifeInv, PeriodInv
<1>1. UNCHANGED <<schedule, made, raced>> /\ req[p].pc = "insert"
  BY DEF Insert, At
<1>2. CASE UniqueKeyRefuses(p)
  <2>1. Answer(p, TRUE) /\ UNCHANGED periods
    BY <1>2 DEF Insert
  <2>2. TypeOK'
    BY <1>1, <2>1, AnswerStep DEF Answer, TypeOK
  <2>3. RequestInv'
    BY <2>1, AnswerStep DEF Answer, RequestInv
  <2> QED BY <2>1, <2>2, <2>3, SamePeriods
<1>3. CASE ~ UniqueKeyRefuses(p)
  <2> DEFINE c == Head(req[p].todo)
             r == c.range
  <2>1. c \in Candidate /\ r \in Range
    <3>1. req[p].todo \in Seq(Candidate) /\ req[p].todo # <<>>
      BY <1>1 DEF TypeOK, RequestInv, ReqType
    <3>2. c \in Candidate
      BY <3>1
    <3> HIDE DEF c
    <3> QED BY <3>2 DEF Candidate
  <2>2. ~ periods[r].on /\ periods' = [periods EXCEPT ![r] = NewRow(c)] /\ Onward(p)
    BY <1>3 DEF Insert, UniqueKeyRefuses, Existing
  <2> HIDE DEF c, r
  <2>3. /\ NewRow(c) \in Row /\ NewRow(c).on /\ NewRow(c).status = c.born
        /\ NewRow(c).born = c.born /\ NewRow(c).held = {c.born}
    BY <2>1 DEF NewRow, Row, Candidate
  <2>4. /\ periods' \in [Range -> Row]
        /\ \A x \in Range : periods'[x] = IF x = r THEN NewRow(c) ELSE periods[x]
    BY <2>1, <2>2, <2>3 DEF TypeOK
  <2>5. /\ req' \in [Proc -> ReqType] /\ failed' \in [Proc -> BOOLEAN]
        /\ \A q \in Proc \ {p} : req'[q] = req[q]
        /\ req'[p].pc \in {"idle", "find"}
        /\ req'[p].pc = "find" => req'[p].todo # <<>>
    BY <1>1, <2>2, OnwardStep
  <2>6. TypeOK'
    BY <1>1, <2>4, <2>5 DEF TypeOK
  <2>7. RowsInv'
    BY <2>3, <2>4 DEF RowsInv
  <2>8. RequestInv'
    BY <2>2, <2>4, <2>5 DEF RequestInv
  <2>9. PaidWasReviewed'
    <3>1. ASSUME NEW b \in 1 .. 7, NEW i \in 1 .. 7, NEW k \in 1 .. 7, b < i, i < k,
                 NewRow(c).born = Flow[b], Flow[k] \in NewRow(c).held
          PROVE  FALSE
      BY <2>3, <3>1, FlowFacts
    <3> QED BY <2>4, <3>1 DEF PaidWasReviewed
  <2> QED BY <2>6, <2>7, <2>8, <2>9
<1> QED BY <1>2, <1>3

\* A status that is written leads on from one the period has had.
LEMMA WriteStep ==
    ASSUME LifeInv, NEW p \in Proc, WriteStatus(p)
    PROVE  LifeInv'
<1> USE DEF LifeInv, PeriodInv
<1> DEFINE r == req[p].range
           s == req[p].from
           t == req[p].to
           row == [periods[r] EXCEPT !.status = t, !.held = @ \cup {t}]
<1>1. /\ r \in Range /\ periods[r].on /\ s \in periods[r].held /\ t \in Allowed(s)
      /\ periods[r] \in Row /\ s \in Status
  BY DEF WriteStatus, At, RequestInv, TypeOK, ReqType
<1>2. periods' = [periods EXCEPT ![r] = row]
  BY <1>1 DEF WriteStatus, TypeOK
<1>3. Answer(p, FALSE) /\ UNCHANGED <<schedule, made, raced>>
  BY DEF WriteStatus
<1> HIDE DEF r, s, t
<1>4. t \in Status
  BY <1>1, AllowedFacts
<1>5. /\ row \in Row /\ row.on /\ row.status = t /\ row.born = periods[r].born
      /\ row.held = periods[r].held \cup {t}
  BY <1>1, <1>4 DEF Row
<1> HIDE DEF row
<1>6. /\ periods' \in [Range -> Row]
      /\ \A x \in Range : periods'[x] = IF x = r THEN row ELSE periods[x]
  BY <1>1, <1>2, <1>5 DEF TypeOK
<1>7. TypeOK'
  BY <1>3, <1>6, AnswerStep DEF Answer, TypeOK
<1>8. RowsInv'
  BY <1>1, <1>5, <1>6 DEF RowsInv
<1>9. RequestInv'
  BY <1>1, <1>3, <1>5, <1>6, AnswerStep, ZenonT(60) DEF Answer, RequestInv
<1>10. PaidWasReviewed'
  <2>1. ASSUME NEW b \in 1 .. 7, NEW i \in 1 .. 7, NEW k \in 1 .. 7, b < i, i < k,
               row.born = Flow[b], Flow[k] \in row.held
        PROVE  Flow[i] \in row.held
    <3> DEFINE from == StageOf[s]
    <3>1. from \in 1 .. 7 /\ Flow[from] = s
      BY <1>1, StageFacts
    <3>2. \A j \in 1 .. 7 : b < j /\ j < from => Flow[j] \in periods[r].held
      BY <1>1, <1>5, <2>1, <3>1 DEF PaidWasReviewed
    <3>3. CASE Flow[k] \in periods[r].held
      BY <1>1, <1>5, <2>1, <3>3 DEF PaidWasReviewed
    <3>4. CASE Flow[k] = t
      <4>1. k = from + 1 \/ k = from - 1
        BY <1>1, <3>4, AllowedFacts, StageFacts
      <4>2. i = from \/ i < from
        BY <2>1, <3>1, <4>1
      <4> QED BY <1>1, <1>5, <2>1, <3>1, <3>2, <4>2
    <3> QED BY <1>5, <2>1, <3>3, <3>4
  <2> QED BY <1>5, <1>6, <2>1 DEF PaidWasReviewed
<1> QED BY <1>7, <1>8, <1>9, <1>10

LEMMA NextLife == LifeInv /\ [Next]_vars => LifeInv'
<1> SUFFICES ASSUME LifeInv, [Next]_vars PROVE LifeInv'
  OBVIOUS
<1>1. ASSUME NEW frequency \in Frequencies, NEW rule \in Rules, UpdateSchedule(frequency, rule)
      PROVE  LifeInv'
  <2>1. TypeOK' /\ RequestInv'
    BY <1>1 DEF UpdateSchedule, LifeInv, PeriodInv, TypeOK, RequestInv
  <2> QED BY <1>1, <2>1, SamePeriods DEF UpdateSchedule
<1>2. ASSUME NEW p \in Proc, Request(p) \/ Step(p) \/ Lose(p)
      PROVE  LifeInv'
  BY <1>2, StartStep, LookStep, InsertStep, WriteStep DEF Step
<1>3. CASE UNCHANGED vars
  <2>1. TypeOK' /\ RequestInv'
    BY <1>3 DEF vars, LifeInv, PeriodInv, TypeOK, RequestInv
  <2> QED BY <1>3, <2>1, SamePeriods DEF vars
<1> QED BY <1>1, <1>2, <1>3 DEF Next

\* However requests interleave, overtake each other and are lost, the tables
\* keep their types and a period that is paid has been through every status
\* from the one it was born with (updatePayrollPeriodStatus checks a status
\* it read earlier).
THEOREM NothingPaidUnreviewed == Spec => []PeriodInv
<1>1. LifeInv => PeriodInv
  BY DEF LifeInv
<1> QED BY <1>1, InitLife, NextLife, PTL DEF Spec

-----------------------------------------------------------------------------
(* The requests implement the life of a period: Insert opens it, and       *)
(* WriteStatus moves it; every other step stutters.                        *)

LEMMA LifeInit == Init => Life!Init
BY DEF Init, NoRow, Life!Init, Life!None

\* The abstract state.
StageNow == [r \in Range |-> IF periods[r].on THEN StageOf[periods[r].status] ELSE 0]
HeldNow == [r \in Range |-> {StageOf[s] : s \in periods[r].held}]
DueNow == [r \in Range |-> periods[r].pay]

\* An insertion opens the period.
LEMMA InsertOpens ==
    ASSUME LifeInv, NEW p \in Proc, Insert(p), ~ UniqueKeyRefuses(p)
    PROVE  Life!Next
<1> DEFINE c == Head(req[p].todo)
           r == c.range
<1>1. c \in Candidate /\ r \in Range
  <2>1. req[p].todo \in Seq(Candidate) /\ req[p].todo # <<>>
    BY DEF Insert, At, LifeInv, PeriodInv, TypeOK, RequestInv, ReqType
  <2>2. c \in Candidate
    BY <2>1
  <2> HIDE DEF c
  <2> QED BY <2>2 DEF Candidate
<1>2. ~ periods[r].on /\ periods' = [periods EXCEPT ![r] = NewRow(c)]
  BY DEF Insert, UniqueKeyRefuses, Existing
<1> HIDE DEF c, r
<1>3. /\ NewRow(c).on /\ NewRow(c).status = c.born /\ NewRow(c).held = {c.born}
      /\ NewRow(c).pay = c.pay /\ c.born \in Status /\ c.pay \in Nat
  BY <1>1 DEF NewRow, Candidate
<1>4. \A x \in Range : periods'[x] = IF x = r THEN NewRow(c) ELSE periods[x]
  BY <1>1, <1>2 DEF LifeInv, PeriodInv, TypeOK
<1> DEFINE t == StageOf[c.born]
<1>5. t \in 1 .. 7
  BY <1>3, StageFacts
<1>6. StageNow[r] = 0 /\ StageNow' = [StageNow EXCEPT ![r] = t]
  <2>1. \A x \in Range :
          (IF periods'[x].on THEN StageOf[periods'[x].status] ELSE 0)
             = IF x = r THEN t
               ELSE IF periods[x].on THEN StageOf[periods[x].status] ELSE 0
    BY <1>3, <1>4
  <2> HIDE DEF t
  <2>2. StageNow' = [x \in Range |-> IF x = r THEN t ELSE StageNow[x]]
    BY <2>1 DEF StageNow
  <2>3. StageNow[r] = 0
    BY <1>1, <1>2 DEF StageNow
  <2> QED BY <2>2, <2>3 DEF StageNow
<1>7. HeldNow' = [HeldNow EXCEPT ![r] = {t}]
  <2>1. \A x \in Range : {StageOf[s] : s \in periods'[x].held}
                           = IF x = r THEN {t} ELSE {StageOf[s] : s \in periods[x].held}
    BY <1>3, <1>4
  <2> QED BY <2>1 DEF HeldNow
<1>8. DueNow'[r] \in Nat /\ DueNow' = [DueNow EXCEPT ![r] = DueNow'[r]]
  BY <1>1, <1>3, <1>4 DEF DueNow
<1>9. Life!Open(r)
  BY <1>5, <1>6, <1>7, <1>8
     DEF Life!Open, Life!Becomes, Life!None, Life!Stages, StageNow, HeldNow, DueNow
<1> QED BY <1>1, <1>9 DEF Life!Next, Life!Open, Life!Move

\* A status change moves it, from a stage it has held.
LEMMA WriteMoves ==
    ASSUME LifeInv, NEW p \in Proc, WriteStatus(p)
    PROVE  Life!Next
<1> DEFINE r == req[p].range
           s == req[p].from
           t == req[p].to
           row == [periods[r] EXCEPT !.status = t, !.held = @ \cup {t}]
<1>1. /\ r \in Range /\ periods[r].on /\ s \in periods[r].held /\ t \in Allowed(s)
      /\ periods[r] \in Row /\ s \in Status /\ periods[r].status \in Status
  BY DEF LifeInv, PeriodInv, WriteStatus, At, RequestInv, TypeOK, ReqType, Row
<1>2. periods' = [periods EXCEPT ![r] = row]
  BY <1>1 DEF WriteStatus, LifeInv, PeriodInv, TypeOK
<1> HIDE DEF r, s, t
<1>3. row.on /\ row.status = t /\ row.held = periods[r].held \cup {t} /\ row.pay = periods[r].pay
  BY <1>1 DEF Row
<1> HIDE DEF row
<1>4. \A x \in Range : periods'[x] = IF x = r THEN row ELSE periods[x]
  BY <1>1, <1>2 DEF LifeInv, PeriodInv, TypeOK
<1>5. StageNow[r] # 0 /\ StageNow' = [StageNow EXCEPT ![r] = StageOf[t]]
  <2>1. \A x \in Range :
          (IF periods'[x].on THEN StageOf[periods'[x].status] ELSE 0)
             = IF x = r THEN StageOf[t]
               ELSE IF periods[x].on THEN StageOf[periods[x].status] ELSE 0
    BY <1>3, <1>4
  <2>2. StageNow' = [x \in Range |-> IF x = r THEN StageOf[t] ELSE StageNow[x]]
    BY <2>1 DEF StageNow
  <2>3. StageNow[r] # 0
    BY <1>1, StageFacts DEF StageNow
  <2> QED BY <2>2, <2>3 DEF StageNow
<1>6. HeldNow' = [HeldNow EXCEPT ![r] = @ \cup {StageOf[t]}]
  <2>1. \A x \in Range :
          {StageOf[u] : u \in periods'[x].held}
             = IF x = r THEN {StageOf[u] : u \in periods[x].held} \cup {StageOf[t]}
               ELSE {StageOf[u] : u \in periods[x].held}
    BY <1>3, <1>4
  <2> QED BY <2>1 DEF HeldNow
<1>7. StageOf[s] \in HeldNow[r] /\ UNCHANGED DueNow
  BY <1>1, <1>3, <1>4 DEF HeldNow, DueNow
<1>8. StageOf[t] \in Life!Next_(StageOf[s])
  <2>1. /\ StageOf[s] \in 1 .. 7 /\ StageOf[t] \in 1 .. 7
        /\ \/ StageOf[t] = StageOf[s] + 1
           \/ StageOf[s] \in 2 .. 5 /\ StageOf[t] = StageOf[s] - 1
    BY <1>1, AllowedFacts, StageFacts
  <2>2. \A i, j \in 1 .. 7 : (j = i + 1 \/ (i \in 2 .. 5 /\ j = i - 1)) => j \in Life!Next_(i)
    <3>1. \A i, j : j \in Life!Next_(i) <=> \/ j = i + 1 /\ j \in 1 .. 7
                                            \/ i \in 2 .. 6 - 1 /\ j = i - 1
      BY DEF Life!Next_, Life!Stages, Life!Paid
    <3>2. 6 - 1 = 5
      OBVIOUS
    <3> QED BY <3>1, <3>2
  <2> QED BY <2>1, <2>2
<1>9. Life!Move(r)
  BY <1>5, <1>6, <1>7, <1>8 DEF Life!Move, Life!Becomes, Life!None, StageNow, HeldNow, DueNow
<1> QED BY <1>1, <1>9 DEF Life!Next, Life!Open, Life!Move

LEMMA LifeNext == LifeInv /\ [Next]_vars => [Life!Next]_(Life!vars)
<1> SUFFICES ASSUME LifeInv, [Next]_vars, ~ UNCHANGED periods PROVE Life!Next
  BY DEF Life!vars
<1>1. PICK p \in Proc : Insert(p) \/ WriteStatus(p)
  BY DEF Next, vars, UpdateSchedule, Request, CreateStart, GenerateStart, StatusStart, Begin,
         Step, Find, Check, Lose
<1>2. CASE Insert(p)
  BY <1>2, InsertOpens DEF Insert
<1>3. CASE WriteStatus(p)
  BY <1>3, WriteMoves
<1> QED BY <1>1, <1>2, <1>3

\* The handlers of payroll-periods.ts, interleaved and lost in any way, keep
\* the promise of PeriodLifecycle: one period for a range, never removed, its
\* payment date fixed, moved one stage at a time from a stage it has been at.
THEOREM RequestsImplementLifecycle == Spec => Lifecycle
<1> QED BY LifeInit, LifeNext, InitLife, NextLife, PTL DEF Spec, Lifecycle, Life!Spec
-----------------------------------------------------------------------------
(* The calendar: a date lies in one month, and day n of a month is one date. *)

LEMMA MonthIs ==
    ASSUME NEW m \in Month, NEW d \in FirstDay[m] .. LastDay[m]
    PROVE  d \in Nat /\ d \in Dates /\ MonthOf(d) = m
<1>1. FirstDay[m] \in Nat /\ LastDay[m] \in Nat
  BY CalendarAssumption
<1>2. ASSUME NEW k \in Month, d \in FirstDay[k] .. LastDay[k]
      PROVE  k = m
  <2>1. FirstDay[k] \in Nat /\ LastDay[k] \in Nat /\ k \in Nat /\ m \in Nat
    BY CalendarAssumption
  <2>2. ~ (k < m) /\ ~ (m < k)
    BY <1>1, <1>2, <2>1, CalendarAssumption
  <2> QED BY <2>1, <2>2
<1> QED BY <1>1, <1>2 DEF Dates, MonthOf

LEMMA ClampBounds ==
    ASSUME NEW m \in Month, NEW n \in 1 .. 31
    PROVE  Clamp(m, n) \in FirstDay[m] .. LastDay[m]
<1>1. FirstDay[m] \in Nat /\ LastDay[m] \in Nat /\ FirstDay[m] <= LastDay[m]
  BY CalendarAssumption
<1> QED BY <1>1 DEF Clamp, DateOf, DaysInMonth

\* The only pay day of a month is its day n, or its last one.
LEMMA PayDayIsClamp ==
    ASSUME NEW m \in Month, NEW n \in 1 .. 31, NEW d \in FirstDay[m] .. LastDay[m]
    PROVE  d \in PayDays(n) <=> d = Clamp(m, n)
<1>1. FirstDay[m] \in Nat /\ LastDay[m] \in Nat /\ FirstDay[m] <= LastDay[m] /\ d \in Nat
  BY CalendarAssumption
<1>2. d \in PayDays(n) <=> d = DateOf(m, n) \/ (DaysInMonth(m) < n /\ d = LastDay[m])
  BY MonthIs DEF PayDays
<1> QED BY <1>1, <1>2 DEF Clamp, DateOf, DaysInMonth

\* The date that is computed is the first one that satisfies the rule.
LEMMA NextPayDay ==
    ASSUME NEW rule \in Rule, NEW range \in Range
    PROVE  IsNextPayDay(rule, range[2], PaymentDate(rule, range[2]))
<1> DEFINE end == range[2]
           m == MonthOf(end)
           n == rule.n
<1>1. end \in Dates /\ m + 1 \in Month
  BY CalendarReaches
<1>2. m \in Month /\ end \in FirstDay[m] .. LastDay[m]
  <2>1. \E k \in Month : end \in FirstDay[k] .. LastDay[k]
    BY <1>1 DEF Dates
  <2> QED BY <2>1 DEF MonthOf
<1> HIDE DEF end, m, n
<1>3. /\ FirstDay[m] \in Nat /\ LastDay[m] \in Nat /\ FirstDay[m + 1] = LastDay[m] + 1
      /\ LastDay[m + 1] \in Nat /\ end \in Nat
  BY <1>1, <1>2, CalendarAssumption
<1>4. PaymentDate(rule, end) =
        IF rule.kind = "END_OF_PERIOD" THEN end
        ELSE IF rule.kind = "DAYS_AFTER_END" THEN end + n
        ELSE IF Clamp(m, n) >= end THEN Clamp(m, n)
        ELSE Clamp(m + 1, n)
  BY DEF PaymentDate, end, m, n
<1>5. /\ rule.kind \in {"DAY", "END_OF_PERIOD", "DAYS_AFTER_END"} /\ n \in 0 .. 999
      /\ rule.kind = "DAY" => n \in 1 .. 31
      /\ rule.kind = "END_OF_PERIOD" => n = 0
  BY DEF Rule, n
<1>6. CASE rule.kind # "DAY"
  <2>1. PaymentDate(rule, end) = end + n
    BY <1>3, <1>4, <1>5, <1>6
  <2> QED BY <1>6, <2>1 DEF IsNextPayDay, end, n
<1>7. CASE rule.kind = "DAY"
  <2>1. n \in 1 .. 31
    BY <1>5, <1>7
  <2>2. /\ Clamp(m, n) \in FirstDay[m] .. LastDay[m]
        /\ Clamp(m + 1, n) \in FirstDay[m + 1] .. LastDay[m + 1]
    BY <1>1, <1>2, <2>1, ClampBounds
  <2> DEFINE date == PaymentDate(rule, end)
  <2>3. date >= end /\ date \in PayDays(n)
    <3>1. CASE Clamp(m, n) >= end
      <4>1. date = Clamp(m, n)
        BY <1>4, <1>7, <3>1
      <4> QED BY <1>2, <2>1, <2>2, <3>1, <4>1, PayDayIsClamp
    <3>2. CASE ~ (Clamp(m, n) >= end)
      <4>1. date = Clamp(m + 1, n)
        BY <1>4, <1>7, <3>2
      <4>2. Clamp(m + 1, n) >= end
        BY <1>2, <1>3, <2>2
      <4> QED BY <1>1, <2>1, <2>2, <4>1, <4>2, PayDayIsClamp
    <3> QED BY <3>1, <3>2
  <2>4. ASSUME NEW d \in end .. (date - 1), d \in PayDays(n)
        PROVE  FALSE
    <3>1. CASE Clamp(m, n) >= end
      <4>1. date = Clamp(m, n)
        BY <1>4, <1>7, <3>1
      <4>2. d \in FirstDay[m] .. LastDay[m] /\ d # Clamp(m, n)
        BY <1>2, <1>3, <2>2, <4>1
      <4> QED BY <1>2, <2>1, <2>4, <4>2, PayDayIsClamp
    <3>2. CASE ~ (Clamp(m, n) >= end)
      <4>1. date = Clamp(m + 1, n)
        BY <1>4, <1>7, <3>2
      <4>2. CASE d <= LastDay[m]
        <5>1. d \in FirstDay[m] .. LastDay[m] /\ d # Clamp(m, n)
          BY <1>2, <1>3, <2>2, <3>2, <4>2
        <5> QED BY <1>2, <2>1, <2>4, <5>1, PayDayIsClamp
      <4>3. CASE ~ (d <= LastDay[m])
        <5>1. d \in FirstDay[m + 1] .. LastDay[m + 1] /\ d # Clamp(m + 1, n)
          BY <1>3, <2>2, <4>1, <4>3
        <5> QED BY <1>1, <2>1, <2>4, <5>1, PayDayIsClamp
      <4> QED BY <4>2, <4>3
    <3> QED BY <3>1, <3>2
  <2>5. IsNextPayDay(rule, end, date) <=>
          /\ date >= end /\ date \in PayDays(n)
          /\ \A d \in end .. (date - 1) : d \notin PayDays(n)
    BY <1>7 DEF IsNextPayDay, n
  <2> QED BY <2>3, <2>4, <2>5 DEF end
<1> QED BY <1>6, <1>7

-----------------------------------------------------------------------------
(* A payment date is computed when a request reads the schedule and        *)
(* travels with the candidate until a row of it is inserted.               *)

Computed(rule, range, pay) == rule # Given => pay = PaymentDate(rule, range[2])
PayInv ==
    /\ \A r \in Range : periods[r].on => Computed(periods[r].rule, r, periods[r].pay)
    /\ \A p \in Proc : \A i \in 1 .. Len(req[p].todo) :
         Computed(req[p].todo[i].rule, req[p].todo[i].range, req[p].todo[i].pay)

PaysOf(todo) == \A i \in 1 .. Len(todo) : Computed(todo[i].rule, todo[i].range, todo[i].pay)

LEMMA IdlePays == Idle.todo = <<>> /\ PaysOf(<<>>)
BY DEF Idle, PaysOf

\* The request of one process changes, what it carries is computed.
LEMMA OnePays ==
    ASSUME LifeInv, PayInv, NEW p \in Proc, NEW row, req' = [req EXCEPT ![p] = row], PaysOf(row.todo)
    PROVE  \A q \in Proc : PaysOf(req'[q].todo)
BY DEF LifeInv, PeriodInv, TypeOK, PayInv, PaysOf

LEMMA AnswerPays ==
    ASSUME LifeInv, PayInv, NEW p \in Proc, req' = [req EXCEPT ![p] = Idle]
    PROVE  \A q \in Proc : PaysOf(req'[q].todo)
BY OnePays, IdlePays

LEMMA OnwardPays ==
    ASSUME LifeInv, PayInv, NEW p \in Proc, req[p].pc \in {"find", "check", "insert"}, Onward(p)
    PROVE  \A q \in Proc : PaysOf(req'[q].todo)
<1>1. CASE Answer(p, FALSE)
  BY <1>1, AnswerPays DEF Answer
<1>2. CASE req' = [req EXCEPT ![p].pc = "find", ![p].todo = Tail(@)]
  <2> DEFINE todo == req[p].todo
             row == [req[p] EXCEPT !.pc = "find", !.todo = Tail(todo)]
  <2>1. req[p] \in ReqType /\ todo \in Seq(Candidate) /\ todo # <<>> /\ PaysOf(todo)
    BY DEF LifeInv, PeriodInv, TypeOK, RequestInv, ReqType, PayInv, PaysOf
  <2>2. row.todo = Tail(todo) /\ req' = [req EXCEPT ![p] = row]
    BY <1>2, <2>1 DEF ReqType, LifeInv, PeriodInv, TypeOK
  <2> HIDE DEF row, todo
  <2>3. PaysOf(Tail(todo))
    <3>1. /\ Len(Tail(todo)) = Len(todo) - 1 /\ Len(todo) \in Nat
          /\ \A i \in 1 .. Len(Tail(todo)) : Tail(todo)[i] = todo[i + 1]
      BY <2>1
    <3> QED BY <2>1, <3>1 DEF PaysOf
  <2> QED BY <2>2, <2>3, OnePays
<1> QED BY <1>1, <1>2 DEF Onward

LEMMA InitPays == Init => PayInv
<1> SUFFICES ASSUME Init PROVE PayInv
  OBVIOUS
<1>1. \A r \in Range : ~ periods[r].on
  BY DEF Init, NoRow
<1>2. \A p \in Proc : req[p].todo = <<>>
  BY DEF Init, Idle
<1> QED BY <1>1, <1>2 DEF PayInv

LEMMA RequestPays ==
    ASSUME LifeInv, PayInv, NEW p \in Proc, Request(p)
    PROVE  PayInv'
<1>1. UNCHANGED periods
  BY DEF Request, CreateStart, GenerateStart, StatusStart, Begin
<1>2. \A q \in Proc : PaysOf(req'[q].todo)
  <2>1. ASSUME NEW row, Begin(p, row), PaysOf(row.todo)
        PROVE  \A q \in Proc : PaysOf(req'[q].todo)
    BY <2>1, OnePays DEF Begin
  <2>2. ASSUME NEW range \in HandMade, NEW given \in {{}} \cup {{d} : d \in GivenDates},
               NEW born \in Born, CreateStart(p, range, given, born)
        PROVE  \A q \in Proc : PaysOf(req'[q].todo)
    <3> DEFINE c == [range |-> range, pay |-> PayOf(range, given),
                     rule |-> IF given = {} THEN schedule.rule ELSE Given, born |-> born]
               row == [Idle EXCEPT !.op = "create", !.pc = "check", !.todo = <<c>>]
    <3>1. Begin(p, row)
      BY <2>2 DEF CreateStart
    <3>2. row.todo = <<c>>
      BY DEF Idle
    <3>3. Computed(c.rule, c.range, c.pay)
      BY DEF Computed, PayOf
    <3> HIDE DEF c, row
    <3>4. PaysOf(<<c>>)
      BY <3>3 DEF PaysOf
    <3> QED BY <2>1, <3>1, <3>2, <3>4
  <2>3. ASSUME NEW m \in Months, GenerateStart(p, m)
        PROVE  \A q \in Proc : PaysOf(req'[q].todo)
    <3> DEFINE row == [Idle EXCEPT !.op = "generate", !.pc = "find", !.todo = Candidates(m),
                                   !.month = m, !.frequency = schedule.frequency]
               ranges == GeneratePeriods(schedule.frequency, m)
    <3>1. Begin(p, row) /\ schedule.frequency \in Supported
      BY <2>3 DEF GenerateStart
    <3>2. row.todo = Candidates(m)
      BY DEF Idle
    <3>3. Len(ranges) \in {1, 2}
      BY <3>1, GeneratedType
    <3>4. Candidates(m) = [i \in 1 .. Len(ranges) |->
            [range |-> ranges[i], pay |-> PaymentDate(schedule.rule, ranges[i][2]),
             rule |-> schedule.rule, born |-> "DRAFT"]]
      BY DEF Candidates
    <3> HIDE DEF row, ranges
    <3>5. PaysOf(Candidates(m))
      <4>1. DOMAIN Candidates(m) = 1 .. Len(ranges)
        BY <3>4
      <4>2. Len(Candidates(m)) = Len(ranges)
        <5>1. Candidates(m) \in Seq({Candidates(m)[i] : i \in 1 .. Len(ranges)})
          BY <3>3, <3>4
        <5> QED BY <3>3, <4>1, <5>1
      <4> QED BY <3>4, <4>2 DEF PaysOf, Computed
    <3> QED BY <2>1, <3>1, <3>2, <3>5
  <2>4. ASSUME NEW range \in Tracked, NEW to \in Status, StatusStart(p, range, to)
        PROVE  \A q \in Proc : PaysOf(req'[q].todo)
    <3> DEFINE row == [Idle EXCEPT !.op = "status", !.pc = "write", !.range = range,
                                   !.from = periods[range].status, !.to = to]
    <3>1. req' = [req EXCEPT ![p] = row]
      BY <2>4 DEF StatusStart
    <3>2. row.todo = <<>>
      BY DEF Idle
    <3> HIDE DEF row
    <3> QED BY <3>1, <3>2, OnePays, IdlePays
  <2> QED BY <2>2, <2>3, <2>4 DEF Request
<1> QED BY <1>1, <1>2 DEF PayInv, PaysOf

LEMMA StepPays ==
    ASSUME LifeInv, PayInv, NEW p \in Proc, Step(p) \/ Lose(p)
    PROVE  PayInv'
<1>1. \A q \in Proc : PaysOf(req'[q].todo)
  <2>1. CASE \E error : Answer(p, error)
    BY <2>1, AnswerPays DEF Answer
  <2>2. CASE req[p].pc \in {"find", "check", "insert"} /\ Onward(p)
    BY <2>2, OnwardPays
  <2>3. ASSUME NEW pc \in {"check", "insert"}, req' = [req EXCEPT ![p].pc = pc]
        PROVE  \A q \in Proc : PaysOf(req'[q].todo)
    <3> DEFINE row == [req[p] EXCEPT !.pc = pc]
    <3>1. row.todo = req[p].todo /\ req' = [req EXCEPT ![p] = row] /\ PaysOf(req[p].todo)
      BY <2>3 DEF LifeInv, PeriodInv, TypeOK, ReqType, PayInv, PaysOf
    <3> HIDE DEF row
    <3> QED BY <3>1, OnePays
  <2> QED BY <2>1, <2>2, <2>3 DEF Step, Find, Check, Insert, WriteStatus, Lose, Skipped, At
<1>2. \A r \in Range : periods'[r].on => Computed(periods'[r].rule, r, periods'[r].pay)
  <2>1. CASE UNCHANGED periods
    BY <2>1 DEF PayInv
  <2>2. CASE Insert(p) /\ ~ UniqueKeyRefuses(p)
    <3> DEFINE c == Head(req[p].todo)
    <3>1. req[p].todo \in Seq(Candidate) /\ req[p].todo # <<>>
      BY <2>2 DEF Insert, At, LifeInv, PeriodInv, TypeOK, RequestInv, ReqType
    <3>2. c = req[p].todo[1] /\ 1 \in 1 .. Len(req[p].todo)
      BY <3>1
    <3>3. Computed(c.rule, c.range, c.pay)
      BY <3>2 DEF PayInv
    <3>4. periods' = [periods EXCEPT ![c.range] = NewRow(c)]
      BY <2>2 DEF Insert
    <3> HIDE DEF c
    <3>5. NewRow(c).rule = c.rule /\ NewRow(c).pay = c.pay
      BY DEF NewRow
    <3> QED BY <3>3, <3>4, <3>5 DEF PayInv, LifeInv, PeriodInv, TypeOK
  <2>3. CASE WriteStatus(p)
    <3> DEFINE r == req[p].range
               row == [periods[r] EXCEPT !.status = req[p].to, !.held = @ \cup {req[p].to}]
    <3>1. r \in Range /\ periods[r] \in Row
      BY <2>3 DEF WriteStatus, At, LifeInv, PeriodInv, RequestInv, TypeOK
    <3>2. periods' = [periods EXCEPT ![r] = row]
      BY <2>3, <3>1 DEF WriteStatus, LifeInv, PeriodInv, TypeOK
    <3>3. row.on = periods[r].on /\ row.rule = periods[r].rule /\ row.pay = periods[r].pay
      BY <3>1 DEF Row
    <3> HIDE DEF r, row
    <3> QED BY <3>1, <3>2, <3>3 DEF PayInv, LifeInv, PeriodInv, TypeOK
  <2> QED BY <2>1, <2>2, <2>3 DEF Step, Find, Check, Insert, Lose
<1> QED BY <1>1, <1>2 DEF PayInv, PaysOf

LEMMA NextPays == LifeInv /\ PayInv /\ [Next]_vars => PayInv'
<1> SUFFICES ASSUME LifeInv, PayInv, [Next]_vars PROVE PayInv'
  OBVIOUS
<1>1. CASE UNCHANGED <<periods, req>>
  BY <1>1 DEF PayInv
<1> QED BY <1>1, RequestPays, StepPays DEF Next, UpdateSchedule, vars

\* computePaymentDate: every payment date that was computed is the first day on
\* or after the end of its period that satisfies the rule the request read,
\* for any calendar, rules and interleaving, though the schedule changes meanwhile.
THEOREM PaymentsAreNext == Spec => []PaymentIsNext
<1>1. LifeInv /\ PayInv => PaymentIsNext
  <2> SUFFICES ASSUME LifeInv, PayInv, NEW r \in Range, periods[r].on, periods[r].rule # Given
               PROVE  IsNextPayDay(periods[r].rule, r[2], periods[r].pay)
    BY DEF PaymentIsNext
  <2>1. periods[r].rule \in Rule
    BY DEF LifeInv, PeriodInv, TypeOK, Row
  <2> QED BY <2>1, NextPayDay DEF PayInv, Computed
<1> QED BY <1>1, InitLife, NextLife, InitPays, NextPays, PTL DEF Spec

-----------------------------------------------------------------------------
(* The periods of a frequency share no day.                                *)

\* A generated period, by its month and the half of it.
LEMMA GeneratedIn ==
    ASSUME NEW f \in Supported, NEW m \in Months, NEW r \in Generated(f, m)
    PROVE  /\ r[1] \in FirstDay[m] .. LastDay[m] /\ r[2] \in FirstDay[m] .. LastDay[m]
           /\ r[1] <= r[2]
           /\ \/ f = "MONTHLY" /\ r = <<FirstDay[m], LastDay[m]>>
              \/ f = "SEMIMONTHLY" /\ r = <<FirstDay[m], DateOf(m, HalfDay)>>
              \/ f = "SEMIMONTHLY" /\ r = <<DateOf(m, HalfDay + 1), LastDay[m]>>
<1>1. /\ FirstDay[m] \in Nat /\ LastDay[m] \in Nat /\ HalfDay \in Nat \ {0}
      /\ HalfDay < LastDay[m] - FirstDay[m] + 1 /\ FirstDay[m] <= LastDay[m]
  BY CalendarAssumption, PeriodsAssumption
<1>2. \/ f = "MONTHLY" /\ r = <<FirstDay[m], LastDay[m]>>
      \/ f = "SEMIMONTHLY" /\ r = <<FirstDay[m], DateOf(m, HalfDay)>>
      \/ f = "SEMIMONTHLY" /\ r = <<DateOf(m, HalfDay + 1), LastDay[m]>>
  <2>1. CASE f = "MONTHLY"
    BY <2>1 DEF Generated, GeneratePeriods, MonthlyPeriods
  <2>2. CASE f = "SEMIMONTHLY"
    <3>1. PICK i \in 1 .. 2 : r = SemimonthlyPeriods(m)[i]
      BY <2>2 DEF Generated, GeneratePeriods, SemimonthlyPeriods
    <3>2. i = 1 \/ i = 2
      BY <3>1
    <3> QED BY <2>2, <3>1, <3>2 DEF SemimonthlyPeriods
  <2> QED BY <2>1, <2>2 DEF Supported
<1> QED BY <1>1, <1>2 DEF DateOf

LEMMA MonthsTile ==
    ASSUME NEW f \in Supported, NEW m \in Months, NEW d \in FirstDay[m] .. LastDay[m]
    PROVE  /\ \A j, k \in Months : \A r \in Generated(f, j), s \in Generated(f, k) :
                d \in r[1] .. r[2] /\ d \in s[1] .. s[2] => r = s
           /\ \E r \in Generated(f, m) : d \in r[1] .. r[2]
<1>1. /\ FirstDay[m] \in Nat /\ LastDay[m] \in Nat /\ HalfDay \in Nat \ {0} /\ d \in Nat
      /\ HalfDay < LastDay[m] - FirstDay[m] + 1 /\ FirstDay[m] <= LastDay[m]
  BY CalendarAssumption, PeriodsAssumption
<1>2. ASSUME NEW j \in Months, NEW r \in Generated(f, j), d \in r[1] .. r[2]
      PROVE  j = m
  <2>1. FirstDay[j] \in Nat /\ LastDay[j] \in Nat /\ j \in Month /\ m \in Month
    BY CalendarAssumption, PeriodsAssumption
  <2>2. d \in FirstDay[j] .. LastDay[j]
    BY <1>1, <1>2, <2>1, GeneratedIn
  <2> QED BY <2>1, <2>2, MonthIs
<1>3. ASSUME NEW r \in Generated(f, m), NEW s \in Generated(f, m), d \in r[1] .. r[2], d \in s[1] .. s[2]
      PROVE  r = s
  <2>1. DateOf(m, HalfDay + 1) = DateOf(m, HalfDay) + 1 /\ DateOf(m, HalfDay) \in Nat
    BY <1>1 DEF DateOf
  <2> QED BY <1>1, <1>3, <2>1, GeneratedIn
<1>4. \E r \in Generated(f, m) : d \in r[1] .. r[2]
  <2>1. CASE f = "MONTHLY"
    <3>1. <<FirstDay[m], LastDay[m]>> \in Generated(f, m)
      BY <2>1 DEF Generated, GeneratePeriods, MonthlyPeriods
    <3> QED BY <3>1
  <2>2. CASE f = "SEMIMONTHLY"
    <3>1. GeneratePeriods(f, m) = << <<FirstDay[m], DateOf(m, HalfDay)>>,
                                     <<DateOf(m, HalfDay + 1), LastDay[m]>> >>
      BY <2>2 DEF GeneratePeriods, SemimonthlyPeriods
    <3>2. <<FirstDay[m], DateOf(m, HalfDay)>> \in Generated(f, m)
      <4>1. 1 \in 1 .. Len(GeneratePeriods(f, m))
        BY <3>1
      <4> QED BY <3>1, <4>1 DEF Generated
    <3>3. <<DateOf(m, HalfDay + 1), LastDay[m]>> \in Generated(f, m)
      <4>1. 2 \in 1 .. Len(GeneratePeriods(f, m))
        BY <3>1
      <4> QED BY <3>1, <4>1 DEF Generated
    <3>4. DateOf(m, HalfDay + 1) = DateOf(m, HalfDay) + 1 /\ DateOf(m, HalfDay) \in Nat
      BY <1>1 DEF DateOf
    <3>5. d \in FirstDay[m] .. DateOf(m, HalfDay) \/ d \in DateOf(m, HalfDay + 1) .. LastDay[m]
      BY <1>1, <3>4
    <3> QED BY <3>2, <3>3, <3>5
  <2> QED BY <2>1, <2>2 DEF Supported
<1>5. \A j, k \in Months : \A r \in Generated(f, j), s \in Generated(f, k) :
                d \in r[1] .. r[2] /\ d \in s[1] .. s[2] => r = s
  BY <1>2, <1>3
<1> QED BY <1>4, <1>5

\* generatePeriods: whatever months are generated, in whatever order and however
\* often, the periods of a frequency never share a day, and leave no day of a month
\* out once they are all there.
THEOREM PeriodsAlwaysTile == Spec => []PeriodsTileMonth
<1>1. ASSUME NEW f \in Supported, NEW r \in PeriodsOf(f), NEW s \in PeriodsOf(f), r # s
      PROVE  r[2] < s[1] \/ s[2] < r[1]
  <2>1. PICK j \in Months : r \in Generated(f, j)
    BY DEF PeriodsOf
  <2>2. PICK k \in Months : s \in Generated(f, k)
    BY DEF PeriodsOf
  <2>3. /\ FirstDay[j] \in Nat /\ LastDay[j] \in Nat /\ FirstDay[k] \in Nat /\ LastDay[k] \in Nat
    BY CalendarAssumption, PeriodsAssumption
  <2>4. /\ r[1] \in FirstDay[j] .. LastDay[j] /\ r[2] \in FirstDay[j] .. LastDay[j] /\ r[1] <= r[2]
        /\ s[1] \in FirstDay[k] .. LastDay[k] /\ s[2] \in FirstDay[k] .. LastDay[k] /\ s[1] <= s[2]
    BY <2>1, <2>2, GeneratedIn
  <2>5. ~ (r[1] \in s[1] .. s[2])
    BY <1>1, <2>1, <2>2, <2>3, <2>4, MonthsTile
  <2>6. ~ (s[1] \in r[1] .. r[2])
    BY <1>1, <2>1, <2>2, <2>3, <2>4, MonthsTile
  <2> QED BY <2>3, <2>4, <2>5, <2>6
<1>2. ASSUME NEW f \in Supported, NEW m \in Months, NEW d \in FirstDay[m] .. LastDay[m]
      PROVE  \E r \in Generated(f, m) : d \in r[1] .. r[2]
  BY MonthsTile
<1>3. PeriodsTileMonth
  BY <1>1, <1>2 DEF PeriodsTileMonth
<1> QED BY <1>3, PTL
=============================================================================

------------------------ MODULE ScheduleRequests_proofs ------------------------
(***************************************************************************)
(* Theorems about ScheduleRequests, for any number of employees, days,     *)
(* shifts, schedule periods and concurrent requests, with every failure:   *)
(* rows are linked to their period, a locked period keeps its rows, an     *)
(* undisturbed assignment leaves no two shifts of an employee overlapping  *)
(* and loses no day it took, and deleting a period takes no clocked row.   *)
(* The check for overlapping times is exact for every set of shifts.       *)
(***************************************************************************)
EXTENDS ScheduleRequests, WellFoundedInduction, TLAPS

-----------------------------------------------------------------------------
(* What a request in flight holds.                                         *)

AssignPcs == {"conflicts", "take", "existing", "create"}

\* The statements of each kind of request.
OpFits(r) ==
    /\ r.pc = "idle" <=> r.op = "none"
    /\ r.pc = "status" => r.op = "status"
    /\ r.pc = "link" => r.op \in {"addShift", "changeShift", "assign"}
    /\ r.pc = "count" => r.op = "deletePeriod"
    /\ r.pc = "dropRows" => r.op \in {"removeShift", "delete", "deletePeriod"}
    /\ r.pc = "dropLinks" => r.op \in {"removeShift", "deletePeriod"}
    /\ r.pc = "dropPeriod" => r.op = "deletePeriod"
    /\ r.pc \in AssignPcs => r.op = "assign"
    /\ r.pc \in {"rows", "write"} => r.op = "changeShift"
    /\ r.pc \in {"source", "replace"} => r.op = "substitute"

RequestFits(r) ==
    /\ OpFits(r)
    /\ IF r.op = "none" THEN r.period = NoPeriod ELSE r.period \in Period
    /\ r.op = "status" => r.to \in Status \ {"gone"}
    /\ r.op \in {"addShift", "removeShift", "substitute"} => r.shift \in Shift
    /\ r.op \in {"removeShift", "deletePeriod"} => r.who = Employee /\ r.days = Day
    /\ r.op = "deletePeriod" => r.shift = AnyShift
    /\ r.op = "changeShift" => r.to \in Shift
    /\ r.op = "substitute" => r.sub \in Employee
    /\ r.op = "assign" => r.shift \in Planned /\ r.mode \in Modes
    /\ r.pc = "take" => r.mode = "reassign"
    /\ r.pc # "write" => r.seen = {}

\* The rows a substitution has read: rows of the request, with the shift it names.
SourceFits(r) ==
    r.pc = "replace" =>
        \A y \in r.src : y.slot \in Slots(r.who, r.days) /\ y.row.shift = r.shift

RequestInv == \A p \in Proc : RequestFits(req[p]) /\ SourceFits(req[p])
Typed == TypeOK /\ RequestInv

-----------------------------------------------------------------------------
(* Rows and the links of their periods.                                    *)

\* A period two requests are working on is raced, and a locked one has no request.
OneAtATime ==
    \A p, q \in Proc : p # q /\ req[p].period = req[q].period => req[p].period \in raced \cup {NoPeriod}
LockedAlone ==
    \A p \in Proc : req[p].period \in Period \ raced => status[req[p].period] # "LOCKED"

RowsHavePeriod == \A x \in Slot : asg[x].on => per[x] \in Period

\* The shift a request is about to write is linked, the one it is about to unlink
\* has no row left.
LinkFits(q) ==
    LET r == req[q]
    IN r.period \in Period \ raced =>
         /\ r.pc \in AssignPcs /\ r.shift # "rest" => r.shift \in links[r.period]
         /\ r.pc \in {"rows", "write"} => r.to \in links[r.period]
         /\ r.pc = "replace" => r.shift \in links[r.period]
         /\ r.pc = "dropLinks" =>
              \A x \in Slot : Owns(r.period, x) => r.op = "removeShift" /\ asg[x].shift # r.shift

\* The rows a request has read are still rows of its period, unless one is gone.
SeenFits(q) ==
    req[q].pc = "write" /\ ~ req[q].gone => \A x \in req[q].seen : Owns(req[q].period, x)

LinkInv ==
    /\ Typed /\ OneAtATime /\ LockedAlone
    /\ RowsHavePeriod /\ RowsAreLinked
    /\ \A q \in Proc : LinkFits(q) /\ SeenFits(q)

-----------------------------------------------------------------------------
(* Requests nothing interferes with.                                       *)

AloneIsAlone ==
    \A p, q \in Proc : p # q /\ InFlight(p) /\ req[p].alone => ~ InFlight(q)

\* The period of an undisturbed assignment exists, the days it took are free, and
\* the rows it is about to create are those it checked.
AssignFits(p) ==
    LET r == req[p]
    IN r.op = "assign" /\ r.alone =>
         /\ status[r.period] # "gone"
         /\ r.pc \in {"link", "conflicts", "take"} => r.taken = {} /\ r.blocked = {}
         /\ r.taken # {} => r.blocked = {}
         /\ \A x \in r.taken : x \in Slots(r.who, r.days) /\ ~ asg[x].on
         /\ r.pc = "create" => r.fresh = Fresh(r) /\ ~ TimesOverlap(r)

\* An undisturbed deletion of a period has found no clocked row of it.
DeleteFits(p) ==
    req[p].op = "deletePeriod" /\ req[p].alone /\ req[p].pc # "count" => ~ Attended(req[p].period)

AloneInv == LinkInv /\ AloneIsAlone /\ \A p \in Proc : AssignFits(p) /\ DeleteFits(p)

-----------------------------------------------------------------------------
(* What the statements do to the requests.                                 *)

Task(a, b) ==
    /\ a.op = b.op /\ a.period = b.period /\ a.who = b.who /\ a.days = b.days
    /\ a.shift = b.shift /\ a.to = b.to /\ a.mode = b.mode /\ a.sub = b.sub
Held(a, b) ==
    a.seen = b.seen /\ a.blocked = b.blocked /\ a.taken = b.taken /\ a.fresh = b.fresh /\ a.src = b.src

\* The request at pc, with the same task.
Onward(a, b, pc) == Task(a, b) /\ a.pc = pc /\ a.gone = b.gone /\ a.alone = b.alone

\* The other requests see only that a row they had read is gone.
Others(p, deleted) ==
    \A q \in Proc \ {p} :
        /\ Task(req'[q], req[q]) /\ Held(req'[q], req[q])
        /\ req'[q].pc = req[q].pc /\ req'[q].alone = req[q].alone
        /\ req'[q].gone <=> req[q].gone \/ req[q].seen \cap deleted # {}

LEMMA CommitMoves ==
    ASSUME TypeOK, NEW p \in Proc, NEW row, NEW deleted, Commit(p, row, deleted)
    PROVE  /\ req'[p] = row /\ Others(p, deleted)
           /\ row \in ReqType => req' \in [Proc -> ReqType]
<1>1. \A q \in Proc : req[q] \in ReqType
  BY DEF TypeOK
<1>2. ASSUME NEW q \in Proc PROVE [req[q] EXCEPT !.gone = TRUE] \in ReqType
  <2>1. req[q] \in ReqType
    BY <1>1
  <2> QED BY <2>1 DEF ReqType
<1>3. ASSUME NEW q \in Proc \ {p}
      PROVE  /\ Task(req'[q], req[q]) /\ Held(req'[q], req[q])
             /\ req'[q].pc = req[q].pc /\ req'[q].alone = req[q].alone
             /\ req'[q].gone <=> req[q].gone \/ req[q].seen \cap deleted # {}
  <2>1. CASE req[q].seen \cap deleted # {}
    <3>1. req'[q] = [req[q] EXCEPT !.gone = TRUE]
      BY <2>1 DEF Commit
    <3> QED BY <3>1, <2>1, <1>1 DEF Task, Held, ReqType
  <2>2. CASE req[q].seen \cap deleted = {}
    <3>1. req'[q] = req[q]
      BY <2>2 DEF Commit
    <3> QED BY <3>1, <2>2, <1>1 DEF Task, Held, ReqType
  <2> QED BY <2>1, <2>2
<1> QED BY <1>1, <1>2, <1>3 DEF Commit, Others

LEMMA IdleFits ==
    Idle \in ReqType /\ RequestFits(Idle) /\ SourceFits(Idle) /\ Idle.pc = "idle" /\ Idle.op = "none"
      /\ Idle.period = NoPeriod
  BY DEF Idle, ReqType, RequestFits, SourceFits, OpFits, AssignPcs

LEMMA ReturnMoves ==
    ASSUME TypeOK, NEW p \in Proc, Return(p)
    PROVE  req'[p] = Idle /\ Others(p, {}) /\ req' \in [Proc -> ReqType]
  BY CommitMoves, IdleFits DEF Return

LEMMA GotoMoves ==
    ASSUME TypeOK, NEW p \in Proc, NEW pc, Goto(p, pc)
    PROVE  /\ Onward(req'[p], req[p], pc) /\ Held(req'[p], req[p]) /\ Others(p, {})
           /\ pc \in {"conflicts", "take", "rows", "dropRows", "dropPeriod"} => req' \in [Proc -> ReqType]
<1> DEFINE row == [req[p] EXCEPT !.pc = pc]
<1>1. req[p] \in ReqType
  BY DEF TypeOK
<1>2. Onward(row, req[p], pc) /\ Held(row, req[p])
  BY <1>1 DEF Onward, Task, Held, ReqType
<1>3. pc \in {"conflicts", "take", "rows", "dropRows", "dropPeriod"} => row \in ReqType
  BY <1>1 DEF ReqType
<1>4. Commit(p, row, {})
  BY DEF Goto
<1> HIDE DEF row
<1> QED BY <1>2, <1>3, <1>4, CommitMoves

\* Other requests are still what their kind of request is.
LEMMA OthersFit ==
    ASSUME RequestInv, NEW p \in Proc, NEW deleted, Others(p, deleted),
           RequestFits(req'[p]), SourceFits(req'[p])
    PROVE  RequestInv'
<1>1. ASSUME NEW q \in Proc PROVE (RequestFits(req[q]) /\ SourceFits(req[q]))'
  <2>1. CASE q = p
    BY <2>1
  <2>2. CASE q # p
    <3>1. RequestFits(req[q]) /\ SourceFits(req[q]) /\ Task(req'[q], req[q]) /\ Held(req'[q], req[q])
          /\ req'[q].pc = req[q].pc
      BY <2>2 DEF RequestInv, Others
    <3> QED BY <3>1 DEF RequestFits, SourceFits, OpFits, Task, Held
  <2> QED BY <2>1, <2>2
<1> QED BY <1>1 DEF RequestInv

\* A request that goes on at a statement of its kind.
LEMMA OnwardFits ==
    ASSUME NEW a, NEW b, NEW pc, RequestFits(b), Onward(a, b, pc),
           pc # "idle", b.op # "none",
           OpFits([op |-> b.op, pc |-> pc]),
           pc = "take" => b.mode = "reassign", pc # "write" => a.seen = {},
           pc = "replace" => SourceFits(a)
    PROVE  RequestFits(a) /\ SourceFits(a)
<1>1. OpFits(a)
  BY DEF Onward, Task, OpFits
<1>2. SourceFits(a)
  BY DEF SourceFits, Onward
<1> QED BY <1>1, <1>2 DEF RequestFits, Onward, Task

-----------------------------------------------------------------------------
(* Each statement: the request afterwards, the rows it deletes, the types. *)

DroppedRows(p) ==
    {x \in Slots(req[p].who, req[p].days) :
       Owns(req[p].period, x) /\ req[p].shift \in {AnyShift, asg[x].shift}}
LeftRows(p) == {x \in Slot : Owns(req[p].period, x)}
TakenRows(p) == Elsewhere(req[p].period, Slots(req[p].who, req[p].days))
ReplacedRows(p) == RowsOf(req[p]) \cup {x \in Slots({req[p].sub}, req[p].days) : asg[x].on}

LEMMA NoRowTyped == NoRow \in Row /\ ~ NoRow.on
  BY DEF NoRow, Row, NoNote, Note, NoShift, Nobody

LEMMA EraseTyped ==
    ASSUME TypeOK, NEW slots, Erase(slots)
    PROVE  asg' \in [Slot -> Row] /\ per' \in [Slot -> Period \cup {NoPeriod}]
  BY NoRowTyped DEF TypeOK, Erase

LEMMA StatusSet ==
    ASSUME Typed, NEW p \in Proc, SetStatus(p)
    PROVE  /\ Typed' /\ req'[p] = Idle /\ Others(p, {})
           /\ \E code \in Status \ {"gone"} :
                status' = [status EXCEPT ![req[p].period] = IF @ = "gone" THEN "gone" ELSE code]
<1>1. req'[p] = Idle /\ Others(p, {}) /\ req' \in [Proc -> ReqType]
  BY ReturnMoves DEF SetStatus, Typed
<1>2. RequestInv'
  BY <1>1, OthersFit, IdleFits DEF Typed
<1>3. RequestFits(req[p]) /\ req[p].op = "status" /\ req[p].period \in Period
      /\ req[p].to \in Status \ {"gone"}
  BY DEF Typed, RequestInv, RequestFits, OpFits, SetStatus, At
<1>4. status' = [status EXCEPT ![req[p].period] = IF @ = "gone" THEN "gone" ELSE req[p].to]
      /\ status \in [Period -> Status]
  BY <1>3 DEF SetStatus, Typed, TypeOK
<1>5. status' \in [Period -> Status]
  BY <1>3, <1>4 DEF Status
<1>6. TypeOK'
  BY <1>1, <1>5 DEF Typed, TypeOK, SetStatus, Steady
<1> QED BY <1>1, <1>2, <1>3, <1>4, <1>6 DEF Typed

LEMMA AttendanceCounted ==
    ASSUME Typed, NEW p \in Proc, CountAttendance(p)
    PROVE  /\ Typed' /\ Others(p, {})
           /\ \/ req'[p] = Idle
              \/ /\ ~ Attended(req[p].period)
                 /\ Onward(req'[p], req[p], "dropRows") /\ Held(req'[p], req[p])
<1>1. RequestFits(req[p]) /\ req[p].op = "deletePeriod" /\ req[p].pc = "count" /\ req[p].seen = {}
  BY DEF Typed, RequestInv, RequestFits, OpFits, CountAttendance, At
<1>2. CASE Attended(req[p].period)
  <2>1. req'[p] = Idle /\ Others(p, {}) /\ req' \in [Proc -> ReqType]
    BY <1>2, ReturnMoves DEF CountAttendance, Typed
  <2>2. RequestInv'
    BY <2>1, OthersFit, IdleFits DEF Typed
  <2> QED BY <2>1, <2>2 DEF Typed, TypeOK, CountAttendance, Steady, tables
<1>3. CASE ~ Attended(req[p].period)
  <2>1. /\ Onward(req'[p], req[p], "dropRows") /\ Held(req'[p], req[p]) /\ Others(p, {})
        /\ req' \in [Proc -> ReqType]
    BY <1>3, GotoMoves DEF CountAttendance, Typed
  <2>2. RequestFits(req'[p]) /\ SourceFits(req'[p])
    BY <2>1, <1>1, OnwardFits DEF OpFits, Held, AssignPcs
  <2>3. RequestInv'
    BY <2>1, <2>2, OthersFit DEF Typed
  <2> QED BY <2>1, <2>3, <1>3 DEF Typed, TypeOK, CountAttendance, Steady, tables
<1> QED BY <1>2, <1>3

LEMMA RowsDropped ==
    ASSUME Typed, NEW p \in Proc, DropRows(p)
    PROVE  /\ Typed' /\ Others(p, DroppedRows(p)) /\ Erase(DroppedRows(p))
           /\ \/ req'[p] = Idle
              \/ /\ req[p].op \in {"removeShift", "deletePeriod"}
                 /\ Onward(req'[p], req[p], "dropLinks") /\ Held(req'[p], req[p])
<1>1. /\ RequestFits(req[p]) /\ req[p].op \in {"removeShift", "delete", "deletePeriod"}
      /\ req[p].pc = "dropRows" /\ req[p].seen = {} /\ req[p] \in ReqType
  BY DEF Typed, TypeOK, RequestInv, RequestFits, OpFits, DropRows, At
<1> DEFINE row == [req[p] EXCEPT !.pc = "dropLinks"]
<1>2. Onward(row, req[p], "dropLinks") /\ Held(row, req[p]) /\ row \in ReqType
  BY <1>1 DEF Onward, Held, Task, ReqType
<1>3. Erase(DroppedRows(p)) /\ Commit(p, IF req[p].op = "delete" THEN Idle ELSE row, DroppedRows(p))
  BY DEF DropRows, DroppedRows
<1> HIDE DEF row
<1>4. asg' \in [Slot -> Row] /\ per' \in [Slot -> Period \cup {NoPeriod}]
  BY <1>3, EraseTyped DEF Typed
<1>5. CASE req[p].op = "delete"
  <2>1. req'[p] = Idle /\ Others(p, DroppedRows(p)) /\ req' \in [Proc -> ReqType]
    BY <1>3, <1>5, CommitMoves, IdleFits DEF Typed
  <2>2. RequestInv'
    BY <2>1, OthersFit, IdleFits DEF Typed
  <2> QED BY <2>1, <2>2, <1>3, <1>4 DEF Typed, TypeOK, DropRows, Steady
<1>6. CASE req[p].op # "delete"
  <2>1. req'[p] = row /\ Others(p, DroppedRows(p)) /\ req' \in [Proc -> ReqType]
    BY <1>2, <1>3, <1>6, CommitMoves DEF Typed
  <2>2. RequestFits(row) /\ SourceFits(row)
    BY <1>1, <1>2, <1>6, OnwardFits DEF OpFits, Held, AssignPcs
  <2>3. RequestInv'
    BY <2>1, <2>2, OthersFit DEF Typed
  <2> QED BY <2>1, <2>3, <1>1, <1>2, <1>3, <1>4, <1>6 DEF Typed, TypeOK, DropRows, Steady
<1> QED BY <1>5, <1>6

LEMMA LinksDropped ==
    ASSUME Typed, NEW p \in Proc, DropLinks(p)
    PROVE  /\ Typed' /\ Others(p, {})
           /\ links' = [links EXCEPT ![req[p].period] =
                          IF req[p].op = "deletePeriod" THEN {} ELSE @ \ {req[p].shift}]
           /\ \/ req'[p] = Idle
              \/ /\ req[p].op = "deletePeriod"
                 /\ Onward(req'[p], req[p], "dropPeriod") /\ Held(req'[p], req[p])
<1>1. /\ RequestFits(req[p]) /\ req[p].op \in {"removeShift", "deletePeriod"}
      /\ req[p].pc = "dropLinks" /\ req[p].seen = {} /\ req[p].period \in Period
  BY DEF Typed, RequestInv, RequestFits, OpFits, DropLinks, At
<1>2. links' = [links EXCEPT ![req[p].period] =
                  IF req[p].op = "deletePeriod" THEN {} ELSE @ \ {req[p].shift}]
  BY DEF DropLinks
<1>3. links' \in [Period -> SUBSET Shift]
  BY <1>1, <1>2 DEF Typed, TypeOK
<1>4. CASE req[p].op = "deletePeriod"
  <2>1. /\ Onward(req'[p], req[p], "dropPeriod") /\ Held(req'[p], req[p]) /\ Others(p, {})
        /\ req' \in [Proc -> ReqType]
    BY <1>4, GotoMoves DEF DropLinks, Typed
  <2>2. RequestFits(req'[p]) /\ SourceFits(req'[p])
    BY <2>1, <1>1, <1>4, OnwardFits DEF OpFits, Held, AssignPcs
  <2>3. RequestInv'
    BY <2>1, <2>2, OthersFit DEF Typed
  <2> QED BY <2>1, <2>3, <1>2, <1>3, <1>4 DEF Typed, TypeOK, DropLinks, Steady
<1>5. CASE req[p].op # "deletePeriod"
  <2>1. req'[p] = Idle /\ Others(p, {}) /\ req' \in [Proc -> ReqType]
    BY <1>5, ReturnMoves DEF DropLinks, Typed
  <2>2. RequestInv'
    BY <2>1, OthersFit, IdleFits DEF Typed
  <2> QED BY <2>1, <2>2, <1>2, <1>3 DEF Typed, TypeOK, DropLinks, Steady
<1> QED BY <1>4, <1>5

LEMMA PeriodDropped ==
    ASSUME Typed, NEW p \in Proc, DropPeriod(p)
    PROVE  /\ Typed' /\ req'[p] = Idle /\ Others(p, LeftRows(p)) /\ Erase(LeftRows(p))
           /\ status' = [status EXCEPT ![req[p].period] = "gone"]
           /\ links' = [links EXCEPT ![req[p].period] = {}]
<1>1. Commit(p, Idle, LeftRows(p)) /\ Erase(LeftRows(p))
  BY DEF DropPeriod, LeftRows
<1>2. req'[p] = Idle /\ Others(p, LeftRows(p)) /\ req' \in [Proc -> ReqType]
  BY <1>1, CommitMoves, IdleFits DEF Typed
<1>3. RequestInv'
  BY <1>2, OthersFit, IdleFits DEF Typed
<1>4. asg' \in [Slot -> Row] /\ per' \in [Slot -> Period \cup {NoPeriod}]
  BY <1>1, EraseTyped DEF Typed
<1>5. /\ status' = [status EXCEPT ![req[p].period] = "gone"]
      /\ links' = [links EXCEPT ![req[p].period] = {}]
  BY DEF DropPeriod
<1>6. status' \in [Period -> Status] /\ links' \in [Period -> SUBSET Shift]
  BY <1>5 DEF Typed, TypeOK, Status
<1> QED BY <1>1, <1>2, <1>3, <1>4, <1>5, <1>6 DEF Typed, TypeOK, DropPeriod, Steady

LEMMA ShiftLinked ==
    ASSUME Typed, NEW p \in Proc, LinkShift(p)
    PROVE  /\ Typed' /\ Others(p, {})
           /\ \/ req'[p] = Idle
              \/ /\ status[req[p].period] # "gone"
                 /\ \/ /\ req[p].op = "assign"
                       /\ Onward(req'[p], req[p], "conflicts")
                       /\ req[p].shift # "rest" => req[p].shift \in LinkedShift(p)
                    \/ /\ req[p].op = "changeShift"
                       /\ Onward(req'[p], req[p], "rows") /\ req[p].to \in LinkedShift(p)
                 /\ links' = [links EXCEPT ![req[p].period] = @ \cup LinkedShift(p)]
                 /\ Held(req'[p], req[p])
           /\ \/ links' = links
              \/ links' = [links EXCEPT ![req[p].period] = @ \cup LinkedShift(p)]
<1>1. /\ RequestFits(req[p]) /\ req[p].op \in {"addShift", "changeShift", "assign"}
      /\ req[p].pc = "link" /\ req[p].seen = {} /\ req[p].period \in Period
  BY DEF Typed, RequestInv, RequestFits, OpFits, LinkShift, At
<1>2. /\ LinkedShift(p) \subseteq Shift
      /\ req[p].op = "changeShift" => req[p].to \in LinkedShift(p)
      /\ req[p].op = "assign" /\ req[p].shift # "rest" => req[p].shift \in LinkedShift(p)
  BY <1>1 DEF LinkedShift, RequestFits, Planned
<1>3. ASSUME req'[p] = Idle, Others(p, {}), req' \in [Proc -> ReqType],
             \/ links' = links
             \/ links' = [links EXCEPT ![req[p].period] = @ \cup LinkedShift(p)]
      PROVE  Typed'
  <2>1. RequestInv'
    BY <1>3, OthersFit, IdleFits DEF Typed
  <2>2. links' \in [Period -> SUBSET Shift]
    BY <1>1, <1>2, <1>3 DEF Typed, TypeOK
  <2> QED BY <2>1, <2>2, <1>3 DEF Typed, TypeOK, LinkShift, Steady
<1>4. CASE status[req[p].period] = "gone"
  <2>1. req'[p] = Idle /\ Others(p, {}) /\ req' \in [Proc -> ReqType] /\ links' = links
    BY <1>4, ReturnMoves DEF LinkShift, Typed
  <2> QED BY <2>1, <1>3
<1>5. CASE status[req[p].period] # "gone"
  <2>0. links' = [links EXCEPT ![req[p].period] = @ \cup LinkedShift(p)]
    BY <1>5 DEF LinkShift
  <2>1. CASE req[p].op = "addShift"
    <3>1. req'[p] = Idle /\ Others(p, {}) /\ req' \in [Proc -> ReqType]
      BY <1>5, <2>1, ReturnMoves DEF LinkShift, Typed
    <3> QED BY <3>1, <2>0, <1>3
  <2>2. CASE req[p].op # "addShift"
    <3> DEFINE pc == IF req[p].op = "assign" THEN "conflicts" ELSE "rows"
    <3>1. /\ Onward(req'[p], req[p], pc) /\ Held(req'[p], req[p]) /\ Others(p, {})
          /\ req' \in [Proc -> ReqType]
      BY <1>5, <2>2, GotoMoves DEF LinkShift, Typed
    <3>2. RequestFits(req'[p]) /\ SourceFits(req'[p])
      BY <3>1, <1>1, <2>2, OnwardFits DEF OpFits, Held, AssignPcs
    <3>3. RequestInv'
      BY <3>1, <3>2, OthersFit DEF Typed
    <3>4. links' \in [Period -> SUBSET Shift]
      BY <1>1, <1>2, <2>0 DEF Typed, TypeOK
    <3>5. Typed'
      BY <3>1, <3>3, <3>4 DEF Typed, TypeOK, LinkShift, Steady
    <3> QED BY <3>1, <3>5, <2>0, <2>2, <1>1, <1>2, <1>5
  <2> QED BY <2>1, <2>2
<1> QED BY <1>4, <1>5

LEMMA ConflictsRead ==
    ASSUME Typed, NEW p \in Proc, ReadConflicts(p)
    PROVE  /\ Typed' /\ Others(p, {})
           /\ \/ req'[p] = Idle
              \/ /\ Onward(req'[p], req[p], "take") /\ Held(req'[p], req[p])
                 /\ req[p].mode = "reassign"
              \/ /\ Onward(req'[p], req[p], "existing")
                 /\ req'[p].taken = req[p].taken
                 /\ req[p].mode # "skip" => req'[p].blocked = {}
<1> DEFINE conflicts == Elsewhere(req[p].period, Slots(req[p].who, req[p].days))
           blocked == IF req[p].mode = "skip" THEN conflicts ELSE {}
           row == [req[p] EXCEPT !.pc = "existing", !.blocked = blocked]
<1>1. /\ RequestFits(req[p]) /\ req[p].op = "assign" /\ req[p].pc = "conflicts"
      /\ req[p].seen = {} /\ req[p] \in ReqType
  BY DEF Typed, TypeOK, RequestInv, RequestFits, OpFits, ReadConflicts, At, AssignPcs
<1>2. blocked \in SUBSET Slot /\ (req[p].mode # "skip" => blocked = {})
  BY <1>1 DEF Elsewhere, Slots, Slot, ReqType
<1>3. /\ Onward(row, req[p], "existing") /\ row \in ReqType /\ row.seen = {}
      /\ row.taken = req[p].taken /\ (req[p].mode # "skip" => row.blocked = {})
  <2> HIDE DEF blocked
  <2> QED BY <1>1, <1>2, ZenonT(60) DEF Onward, Task, ReqType
<1>4. \/ Return(p)
      \/ req[p].mode = "reassign" /\ Goto(p, "take")
      \/ Commit(p, row, {})
  BY DEF ReadConflicts
<1> HIDE DEF conflicts, blocked, row
<1>5. CASE Return(p)
  <2>1. req'[p] = Idle /\ Others(p, {}) /\ req' \in [Proc -> ReqType]
    BY <1>5, ReturnMoves DEF Typed
  <2>2. RequestInv'
    BY <2>1, OthersFit, IdleFits DEF Typed
  <2> QED BY <2>1, <2>2 DEF Typed, TypeOK, ReadConflicts, Steady, tables
<1>6. CASE req[p].mode = "reassign" /\ Goto(p, "take")
  <2>1. /\ Onward(req'[p], req[p], "take") /\ Held(req'[p], req[p]) /\ Others(p, {})
        /\ req' \in [Proc -> ReqType]
    BY <1>6, GotoMoves DEF Typed
  <2>2. RequestFits(req'[p]) /\ SourceFits(req'[p])
    BY <2>1, <1>1, <1>6, OnwardFits DEF OpFits, Held, AssignPcs
  <2>3. RequestInv'
    BY <2>1, <2>2, OthersFit DEF Typed
  <2> QED BY <2>1, <2>3, <1>6 DEF Typed, TypeOK, ReadConflicts, Steady, tables
<1>7. CASE Commit(p, row, {})
  <2>1. req'[p] = row /\ Others(p, {}) /\ req' \in [Proc -> ReqType]
    BY <1>7, <1>3, CommitMoves DEF Typed
  <2>2. RequestFits(row) /\ SourceFits(row)
    BY <1>1, <1>3, OnwardFits DEF OpFits, AssignPcs
  <2>3. RequestInv'
    BY <2>1, <2>2, OthersFit DEF Typed
  <2> QED BY <2>1, <2>3, <1>3 DEF Typed, TypeOK, ReadConflicts, Steady, tables
<1> QED BY <1>4, <1>5, <1>6, <1>7

LEMMA RowsTaken ==
    ASSUME Typed, NEW p \in Proc, TakeRows(p)
    PROVE  /\ Typed' /\ Others(p, TakenRows(p)) /\ Erase(TakenRows(p))
           /\ Onward(req'[p], req[p], "existing")
           /\ req'[p].taken = TakenRows(p) /\ req'[p].blocked = req[p].blocked
           /\ TakenRows(p) \subseteq Slots(req[p].who, req[p].days)
<1> DEFINE rows == TakenRows(p)
           row == [req[p] EXCEPT !.pc = "existing", !.taken = rows]
<1>1. /\ RequestFits(req[p]) /\ req[p].op = "assign" /\ req[p].pc = "take"
      /\ req[p].seen = {} /\ req[p] \in ReqType
  BY DEF Typed, TypeOK, RequestInv, RequestFits, OpFits, TakeRows, At, AssignPcs
<1>2. rows \subseteq Slots(req[p].who, req[p].days) /\ rows \subseteq Slot
  BY <1>1 DEF TakenRows, Elsewhere, Slots, Slot, ReqType
<1>3. Erase(rows) /\ Commit(p, row, rows)
  BY DEF TakeRows, TakenRows
<1> HIDE DEF rows
<1>4. /\ Onward(row, req[p], "existing") /\ row \in ReqType /\ row.seen = {}
      /\ row.taken = rows /\ row.blocked = req[p].blocked
  BY <1>1, <1>2, ZenonT(30) DEF Onward, Task, ReqType
<1> HIDE DEF row
<1>5. req'[p] = row /\ Others(p, rows) /\ req' \in [Proc -> ReqType]
  BY <1>3, <1>4, CommitMoves DEF Typed
<1>6. RequestFits(row) /\ SourceFits(row)
  BY <1>1, <1>4, OnwardFits DEF OpFits, AssignPcs
<1>7. RequestInv'
  BY <1>5, <1>6, OthersFit DEF Typed
<1>8. asg' \in [Slot -> Row] /\ per' \in [Slot -> Period \cup {NoPeriod}]
  BY <1>3, EraseTyped DEF Typed
<1>9. Typed'
  BY <1>5, <1>7, <1>8 DEF Typed, TypeOK, TakeRows, Steady
<1> QED BY <1>2, <1>3, <1>4, <1>5, <1>9 DEF rows

LEMMA ExistingRead ==
    ASSUME Typed, NEW p \in Proc, ReadExisting(p)
    PROVE  /\ Typed' /\ Others(p, {})
           /\ \/ req'[p] = Idle
              \/ /\ ~ TimesOverlap(req[p])
                 /\ Onward(req'[p], req[p], "create") /\ req'[p].fresh = Fresh(req[p])
                 /\ req'[p].taken = req[p].taken /\ req'[p].blocked = req[p].blocked
<1> DEFINE rows == Fresh(req[p])
           row == [req[p] EXCEPT !.pc = "create", !.fresh = rows]
<1>1. /\ RequestFits(req[p]) /\ req[p].op = "assign" /\ req[p].pc = "existing"
      /\ req[p].seen = {} /\ req[p] \in ReqType
  BY DEF Typed, TypeOK, RequestInv, RequestFits, OpFits, ReadExisting, At, AssignPcs
<1>2. rows \subseteq Slot
  BY <1>1 DEF Fresh, Slots, Slot, ReqType
<1>3. Return(p) \/ (~ TimesOverlap(req[p]) /\ Commit(p, row, {}))
  BY DEF ReadExisting
<1> HIDE DEF rows
<1>4. /\ Onward(row, req[p], "create") /\ row \in ReqType /\ row.seen = {}
      /\ row.fresh = rows /\ row.taken = req[p].taken /\ row.blocked = req[p].blocked
  BY <1>1, <1>2, ZenonT(30) DEF Onward, Task, ReqType
<1> HIDE DEF row
<1>5. CASE Return(p)
  <2>1. req'[p] = Idle /\ Others(p, {}) /\ req' \in [Proc -> ReqType]
    BY <1>5, ReturnMoves DEF Typed
  <2>2. RequestInv'
    BY <2>1, OthersFit, IdleFits DEF Typed
  <2> QED BY <2>1, <2>2 DEF Typed, TypeOK, ReadExisting, Steady, tables
<1>6. CASE ~ TimesOverlap(req[p]) /\ Commit(p, row, {})
  <2>1. req'[p] = row /\ Others(p, {}) /\ req' \in [Proc -> ReqType]
    BY <1>6, <1>4, CommitMoves DEF Typed
  <2>2. RequestFits(row) /\ SourceFits(row)
    BY <1>1, <1>4, OnwardFits DEF OpFits, AssignPcs
  <2>3. RequestInv'
    BY <2>1, <2>2, OthersFit DEF Typed
  <2>4. Typed'
    BY <2>1, <2>3 DEF Typed, TypeOK, ReadExisting, Steady, tables
  <2> QED BY <2>1, <2>4, <1>4, <1>6 DEF rows
<1> QED BY <1>3, <1>5, <1>6

\* The rows an assignment creates.
CreatedRows(p) == IF status[req[p].period] = "gone" THEN {} ELSE Fillable(req[p])

LEMMA PlannedRowTyped ==
    ASSUME NEW s \in Planned
    PROVE  /\ PlannedRow(s) \in Row /\ PlannedRow(s).on
           /\ PlannedRow(s).shift = IF s = "rest" THEN NoShift ELSE s
           /\ s \in Shift => Works(PlannedRow(s))
<1>1. s # "empty"
  BY ShiftAssumption DEF Planned
<1>2. CASE s = "rest"
  BY <1>1, <1>2, ShiftAssumption
    DEF PlannedRow, Row, NoRow, NoNote, Note, NoShift, Nobody, Planned, Works
<1>3. CASE s # "rest"
  BY <1>1, <1>3, ShiftAssumption
    DEF PlannedRow, Row, NoRow, NoNote, Note, NoShift, Nobody, Planned, Works
<1> QED BY <1>2, <1>3

LEMMA RowsCreated ==
    ASSUME Typed, NEW p \in Proc, CreateRows(p)
    PROVE  /\ Typed' /\ req'[p] = Idle /\ Others(p, {})
           /\ \A x \in Slot :
                /\ asg'[x] = IF x \in CreatedRows(p) THEN PlannedRow(req[p].shift) ELSE asg[x]
                /\ per'[x] = IF x \in CreatedRows(p) THEN req[p].period ELSE per[x]
<1>1. /\ RequestFits(req[p]) /\ req[p].op = "assign" /\ req[p].period \in Period
      /\ req[p].shift \in Planned
  BY DEF Typed, TypeOK, RequestInv, RequestFits, OpFits, CreateRows, At, AssignPcs
<1>2. req'[p] = Idle /\ Others(p, {}) /\ req' \in [Proc -> ReqType]
  BY ReturnMoves DEF Typed, CreateRows
<1>3. RequestInv'
  BY <1>2, OthersFit, IdleFits DEF Typed
<1>4. /\ asg' = [x \in Slot |-> IF x \in CreatedRows(p) THEN PlannedRow(req[p].shift) ELSE asg[x]]
      /\ per' = [x \in Slot |-> IF x \in CreatedRows(p) THEN req[p].period ELSE per[x]]
  BY DEF CreateRows, CreatedRows
<1>5. asg' \in [Slot -> Row] /\ per' \in [Slot -> Period \cup {NoPeriod}]
  BY <1>1, <1>4, PlannedRowTyped DEF Typed, TypeOK
<1>6. Typed'
  BY <1>2, <1>3, <1>5 DEF Typed, TypeOK, CreateRows, Steady
<1> QED BY <1>2, <1>4, <1>6

LEMMA RowsRead ==
    ASSUME Typed, NEW p \in Proc, ReadRows(p)
    PROVE  /\ Typed' /\ Others(p, {})
           /\ \/ req'[p] = Idle
              \/ /\ Onward(req'[p], req[p], "write") /\ req'[p].seen = RowsOf(req[p])
<1> DEFINE rows == RowsOf(req[p])
           row == [req[p] EXCEPT !.pc = "write", !.seen = rows]
<1>1. /\ RequestFits(req[p]) /\ req[p].op = "changeShift" /\ req[p].pc = "rows"
      /\ req[p].seen = {} /\ req[p] \in ReqType
  BY DEF Typed, TypeOK, RequestInv, RequestFits, OpFits, ReadRows, At
<1>2. rows \subseteq Slot
  BY <1>1 DEF RowsOf, Slots, Slot, ReqType
<1>3. Return(p) \/ Commit(p, row, {})
  BY DEF ReadRows
<1> HIDE DEF rows
<1>4. Onward(row, req[p], "write") /\ row \in ReqType /\ row.seen = rows
  BY <1>1, <1>2, ZenonT(60) DEF Onward, Task, ReqType
<1> HIDE DEF row
<1>5. CASE Return(p)
  <2>1. req'[p] = Idle /\ Others(p, {}) /\ req' \in [Proc -> ReqType]
    BY <1>5, ReturnMoves DEF Typed
  <2>2. RequestInv'
    BY <2>1, OthersFit, IdleFits DEF Typed
  <2> QED BY <2>1, <2>2 DEF Typed, TypeOK, ReadRows, Steady, tables
<1>6. CASE Commit(p, row, {})
  <2>1. req'[p] = row /\ Others(p, {}) /\ req' \in [Proc -> ReqType]
    BY <1>6, <1>4, CommitMoves DEF Typed
  <2>2. RequestFits(row) /\ SourceFits(row)
    BY <1>1, <1>4, OnwardFits DEF OpFits, AssignPcs
  <2>3. RequestInv'
    BY <2>1, <2>2, OthersFit DEF Typed
  <2>4. Typed'
    BY <2>1, <2>3 DEF Typed, TypeOK, ReadRows, Steady, tables
  <2> QED BY <2>1, <2>4, <1>4 DEF rows
<1> QED BY <1>3, <1>5, <1>6

LEMMA ShiftWritten ==
    ASSUME Typed, NEW p \in Proc, WriteShift(p)
    PROVE  /\ Typed' /\ req'[p] = Idle /\ Others(p, {})
           /\ \A x \in Slot :
                \/ asg'[x] = asg[x]
                \/ /\ ~ req[p].gone /\ x \in req[p].seen
                   /\ asg'[x].on = asg[x].on /\ asg'[x].shift = req[p].to
<1>1. RequestFits(req[p]) /\ req[p].op = "changeShift" /\ req[p].to \in Shift
  BY DEF Typed, TypeOK, RequestInv, RequestFits, OpFits, WriteShift, At
<1>2. req'[p] = Idle /\ Others(p, {}) /\ req' \in [Proc -> ReqType]
  BY ReturnMoves DEF Typed, WriteShift
<1>3. RequestInv'
  BY <1>2, OthersFit, IdleFits DEF Typed
<1>4. ASSUME NEW x \in Slot
      PROVE  /\ [asg[x] EXCEPT !.shift = req[p].to] \in Row
             /\ [asg[x] EXCEPT !.shift = req[p].to].on = asg[x].on
             /\ [asg[x] EXCEPT !.shift = req[p].to].shift = req[p].to
  <2>1. asg[x] \in Row
    BY DEF Typed, TypeOK
  <2> QED BY <1>1, <2>1 DEF Row
<1>5. CASE req[p].gone
  <2>1. asg' = asg
    BY <1>5 DEF WriteShift
  <2> QED BY <2>1, <1>2, <1>3 DEF Typed, TypeOK, WriteShift, Steady
<1>6. CASE ~ req[p].gone
  <2>1. asg' = [x \in Slot |-> IF x \in req[p].seen THEN [asg[x] EXCEPT !.shift = req[p].to]
                               ELSE asg[x]]
    BY <1>6 DEF WriteShift
  <2>2. asg' \in [Slot -> Row]
    BY <1>4, <2>1 DEF Typed, TypeOK
  <2>3. Typed'
    BY <2>2, <1>2, <1>3 DEF Typed, TypeOK, WriteShift, Steady
  <2> QED BY <1>2, <1>4, <1>6, <2>1, <2>3
<1> QED BY <1>5, <1>6

LEMMA SourceRead ==
    ASSUME Typed, NEW p \in Proc, ReadSource(p)
    PROVE  /\ Typed' /\ Others(p, {})
           /\ \/ req'[p] = Idle
              \/ /\ Onward(req'[p], req[p], "replace") /\ req'[p].seen = {}
                 /\ RowsOf(req[p]) # {}
<1> DEFINE src == {[slot |-> x, row |-> asg[x]] : x \in RowsOf(req[p])}
           row == [req[p] EXCEPT !.pc = "replace", !.src = src]
<1>1. /\ RequestFits(req[p]) /\ req[p].op = "substitute" /\ req[p].pc = "source"
      /\ req[p].seen = {} /\ req[p] \in ReqType
  BY DEF Typed, TypeOK, RequestInv, RequestFits, OpFits, ReadSource, At
<1>2. \A x \in RowsOf(req[p]) : x \in Slot /\ asg[x] \in Row
  BY <1>1 DEF RowsOf, Slots, Slot, ReqType, Typed, TypeOK
<1>3. src \in SUBSET SlotRow
  BY <1>2 DEF SlotRow
<1>4. \A y \in src : y.slot \in Slots(req[p].who, req[p].days) /\ y.row.shift = req[p].shift
  BY DEF RowsOf
<1>5. Return(p) \/ (RowsOf(req[p]) # {} /\ Commit(p, row, {}))
  BY DEF ReadSource
<1> HIDE DEF src
<1>6. Onward(row, req[p], "replace") /\ row \in ReqType /\ row.seen = {} /\ row.src = src
  BY <1>1, <1>3, ZenonT(60) DEF Onward, Task, ReqType
<1> HIDE DEF row
<1>7. CASE Return(p)
  <2>1. req'[p] = Idle /\ Others(p, {}) /\ req' \in [Proc -> ReqType]
    BY <1>7, ReturnMoves DEF Typed
  <2>2. RequestInv'
    BY <2>1, OthersFit, IdleFits DEF Typed
  <2> QED BY <2>1, <2>2 DEF Typed, TypeOK, ReadSource, Steady, tables
<1>8. CASE RowsOf(req[p]) # {} /\ Commit(p, row, {})
  <2>1. req'[p] = row /\ Others(p, {}) /\ req' \in [Proc -> ReqType]
    BY <1>8, <1>6, CommitMoves DEF Typed
  <2>2. SourceFits(row)
    BY <1>4, <1>6 DEF SourceFits, Onward, Task
  <2>3. RequestFits(row)
    BY <2>2, <1>1, <1>6, OnwardFits DEF OpFits, AssignPcs
  <2>4. RequestInv'
    BY <2>1, <2>2, <2>3, OthersFit DEF Typed
  <2>5. Typed'
    BY <2>1, <2>4 DEF Typed, TypeOK, ReadSource, Steady, tables
  <2> QED BY <2>1, <2>5, <1>6, <1>8
<1> QED BY <1>5, <1>7, <1>8

LEMMA CoverRowTyped ==
    ASSUME NEW row \in Row, NEW e \in Employee
    PROVE  CoverRow(row, e) \in Row /\ CoverRow(row, e).shift = row.shift
  BY DEF CoverRow, Row

\* The slots a substitution fills; what it puts there has the shift it names.
FilledSlots(p) == {<<req[p].sub, y.slot[2]>> : y \in req[p].src}

LEMMA RowsReplaced ==
    ASSUME Typed, NEW p \in Proc, ReplaceRows(p)
    PROVE  /\ Typed' /\ req'[p] = Idle
           /\ \/ status[req[p].period] = "gone" /\ Others(p, {}) /\ UNCHANGED <<asg, per>>
              \/ /\ Others(p, ReplacedRows(p))
                 /\ \A x \in Slot :
                      /\ x \in FilledSlots(p) => asg'[x].shift = req[p].shift
                      /\ x \in FilledSlots(p) /\ asg[x].on => x \in ReplacedRows(p)
                      /\ x \notin FilledSlots(p) =>
                           asg'[x] = IF x \in ReplacedRows(p) THEN NoRow ELSE asg[x]
                      /\ per'[x] = IF x \in FilledSlots(p) THEN req[p].period
                                   ELSE IF x \in ReplacedRows(p) THEN NoPeriod ELSE per[x]
<1> DEFINE r == req[p]
           new == {[slot |-> <<r.sub, y.slot[2]>>, row |-> CoverRow(y.row, y.slot[1])] : y \in r.src}
           Put(x) == CHOOSE y \in new : y.slot = x
<1>1. /\ RequestFits(r) /\ SourceFits(r) /\ r.op = "substitute" /\ r.pc = "replace" /\ r.sub \in Employee
      /\ r.period \in Period /\ r \in ReqType
  BY DEF Typed, TypeOK, RequestInv, RequestFits, OpFits, ReplaceRows, At
<1>2. \A y \in r.src : /\ y.slot \in Slots(r.who, r.days) /\ y.row.shift = r.shift
                       /\ y.slot \in Slot /\ y.row \in Row
  BY <1>1 DEF SourceFits, ReqType, SlotRow
<1>3. CASE status[r.period] = "gone"
  <2>1. Return(p) /\ UNCHANGED <<asg, per>>
    BY <1>3 DEF ReplaceRows
  <2>2. req'[p] = Idle /\ Others(p, {}) /\ req' \in [Proc -> ReqType]
    BY <2>1, ReturnMoves DEF Typed
  <2>3. RequestInv'
    BY <2>2, OthersFit, IdleFits DEF Typed
  <2> QED BY <2>1, <2>2, <2>3, <1>3 DEF Typed, TypeOK, ReplaceRows, Steady
<1>4. CASE status[r.period] # "gone"
  <2>1. {y.slot : y \in new} = FilledSlots(p)
    <3>1. ASSUME NEW z \in new PROVE z.slot \in FilledSlots(p)
      <4>1. PICK y \in r.src : z = [slot |-> <<r.sub, y.slot[2]>>, row |-> CoverRow(y.row, y.slot[1])]
        OBVIOUS
      <4>2. z.slot = <<r.sub, y.slot[2]>>
        BY <4>1
      <4> QED BY <4>2 DEF FilledSlots
    <3>2. ASSUME NEW y \in r.src PROVE \E z \in new : z.slot = <<r.sub, y.slot[2]>>
      <4> DEFINE z == [slot |-> <<r.sub, y.slot[2]>>, row |-> CoverRow(y.row, y.slot[1])]
      <4>1. z \in new /\ z.slot = <<r.sub, y.slot[2]>>
        OBVIOUS
      <4> QED BY <4>1
    <3> HIDE DEF new
    <3> QED BY <3>1, <3>2 DEF FilledSlots
  <2>2. /\ asg' = [x \in Slot |-> IF x \in FilledSlots(p) THEN Put(x).row
                                  ELSE IF x \in ReplacedRows(p) THEN NoRow ELSE asg[x]]
        /\ per' = [x \in Slot |-> IF x \in FilledSlots(p) THEN r.period
                                  ELSE IF x \in ReplacedRows(p) THEN NoPeriod ELSE per[x]]
        /\ Commit(p, Idle, ReplacedRows(p))
    BY <1>4, <2>1 DEF ReplaceRows, ReplacedRows
  <2>3. req'[p] = Idle /\ Others(p, ReplacedRows(p)) /\ req' \in [Proc -> ReqType]
    BY <2>2, CommitMoves, IdleFits DEF Typed
  <2>4. RequestInv'
    BY <2>3, OthersFit, IdleFits DEF Typed
  <2>5. \A y \in new : y.row \in Row /\ y.row.shift = r.shift
    <3>1. ASSUME NEW y \in r.src
          PROVE  CoverRow(y.row, y.slot[1]) \in Row /\ CoverRow(y.row, y.slot[1]).shift = r.shift
      <4>1. y.slot[1] \in Employee /\ y.row \in Row /\ y.row.shift = r.shift
        BY <1>2 DEF Slot
      <4> QED BY <4>1, CoverRowTyped
    <3> QED BY <3>1
  <2>6. \A x \in FilledSlots(p) : Put(x) \in new
    BY <2>1
  <2>7. \A x \in FilledSlots(p) : Put(x).row \in Row /\ Put(x).row.shift = r.shift
    BY <2>5, <2>6
  <2> HIDE DEF Put, new
  <2>8. asg' \in [Slot -> Row]
    BY <2>2, <2>7, NoRowTyped DEF Typed, TypeOK
  <2>9. per' \in [Slot -> Period \cup {NoPeriod}]
    BY <2>2, <1>1 DEF Typed, TypeOK
  <2>10. Typed'
    BY <2>3, <2>4, <2>8, <2>9 DEF Typed, TypeOK, ReplaceRows, Steady
  <2>11. \A x \in FilledSlots(p) : x \in Slot /\ asg[x].on => x \in ReplacedRows(p)
    <3>1. \A y \in r.src : y.slot[2] \in r.days
      BY <1>2 DEF Slots
    <3>2. \A x \in FilledSlots(p) : x \in Slots({r.sub}, r.days)
      BY <3>1 DEF FilledSlots, Slots
    <3> QED BY <3>2 DEF ReplacedRows
  <2> QED BY <2>2, <2>3, <2>7, <2>10, <2>11
<1> QED BY <1>3, <1>4

LEMMA Failed ==
    ASSUME Typed, NEW p \in Proc, Fail(p)
    PROVE  Typed' /\ req'[p] = Idle /\ Others(p, {})
<1>1. req'[p] = Idle /\ Others(p, {}) /\ req' \in [Proc -> ReqType]
  BY ReturnMoves DEF Typed, Fail
<1>2. RequestInv'
  BY <1>1, OthersFit, IdleFits DEF Typed
<1> QED BY <1>1, <1>2 DEF Typed, TypeOK, Fail, Steady, tables

-----------------------------------------------------------------------------
(* The start of a request, and what is not a request.                      *)

StartPcs == {"status", "count", "dropRows", "link", "conflicts", "source"}

\* A request as it starts on the period t.
Starts(r, t) ==
    /\ r.op # "none" /\ r.period = t /\ r.pc \in StartPcs
    /\ r.pc = "conflicts" => r.shift = "rest"
    /\ r.op = "deletePeriod" => r.pc = "count"
    /\ r.op = "assign" => r.taken = {} /\ r.blocked = {}

\* A request that starts is alone when no other is in flight, and nobody else is then.
Started(p, t) ==
    /\ ~ InFlight(p) /\ status[t] # "gone" /\ status[t] # "LOCKED"
    /\ Starts(req'[p], t)
    /\ req'[p].alone = \A o \in Proc \ {p} : ~ InFlight(o)
    /\ \A q \in Proc \ {p} :
          /\ Task(req'[q], req[q]) /\ Held(req'[q], req[q])
          /\ req'[q].pc = req[q].pc /\ req'[q].gone = req[q].gone
          /\ req'[q].alone = ~ InFlight(q)
    /\ raced' = IF \E q \in Proc \ {p} : req[q].period = t THEN raced \cup {t} ELSE raced
    /\ UNCHANGED tables

\* A request that has named its task and nothing else.
Fresh0(row) ==
    /\ row \in ReqType /\ row.pc \in StartPcs
    /\ row.seen = {} /\ row.blocked = {} /\ row.taken = {} /\ row.fresh = {} /\ row.src = {}

LEMMA Begun ==
    ASSUME Typed, NEW p \in Proc, NEW t \in Period, NEW row, Fresh0(row),
           NEW op \in {"status", "addShift", "removeShift", "delete", "changeShift",
                       "substitute", "assign", "deletePeriod"},
           Begin(p, op, t, row),
           OpFits([op |-> op, pc |-> row.pc]),
           op = "status" => row.to \in Status \ {"gone"},
           op \in {"addShift", "removeShift", "substitute"} => row.shift \in Shift,
           op \in {"removeShift", "deletePeriod"} => row.who = Employee /\ row.days = Day,
           op = "deletePeriod" => row.pc = "count" /\ row.shift = AnyShift,
           op = "changeShift" => row.to \in Shift,
           op = "substitute" => row.sub \in Employee,
           op = "assign" => row.shift \in Planned /\ row.mode \in Modes,
           row.pc = "conflicts" => row.shift = "rest"
    PROVE  Typed' /\ Started(p, t)
<1> DEFINE lone == \A o \in Proc \ {p} : ~ InFlight(o)
           first == [row EXCEPT !.op = op, !.period = t, !.alone = lone]
<1>1. \A q \in Proc : req[q] \in ReqType
  BY DEF Typed, TypeOK
<1>2. lone \in BOOLEAN
  OBVIOUS
<1>3. req' = [q \in Proc |-> IF q = p THEN first ELSE [req[q] EXCEPT !.alone = ~ InFlight(q)]]
  BY DEF Begin
<1> HIDE DEF lone
<1>a. row \in ReqType
  BY DEF Fresh0
<1>b. first \in ReqType
  <2> DEFINE r1 == [row EXCEPT !.op = op]
             r2 == [r1 EXCEPT !.period = t]
  <2>1. r1 \in ReqType
    BY <1>a DEF ReqType
  <2>2. first = [r2 EXCEPT !.alone = lone]
    BY DEF first
  <2> HIDE DEF r1
  <2>3. r2 \in ReqType
    BY <2>1 DEF ReqType
  <2> HIDE DEF r2, first
  <2> QED BY <2>2, <2>3, <1>2 DEF ReqType
<1>4. /\ first \in ReqType /\ first.op = op /\ first.period = t /\ first.alone = lone
      /\ first.pc = row.pc /\ first.who = row.who /\ first.days = row.days
      /\ first.shift = row.shift /\ first.to = row.to /\ first.mode = row.mode
      /\ first.sub = row.sub /\ first.seen = row.seen /\ first.taken = row.taken
      /\ first.blocked = row.blocked
  BY <1>2, <1>a, <1>b DEF ReqType
<1> HIDE DEF first
<1>5. RequestFits(first) /\ SourceFits(first) /\ Starts(first, t)
  <2>1. OpFits(first)
    BY <1>4 DEF OpFits
  <2>2. SourceFits(first)
    BY <1>4 DEF SourceFits, Fresh0, StartPcs
  <2>3. RequestFits(first)
    BY <2>1, <1>4 DEF RequestFits, Fresh0, StartPcs
  <2> QED BY <2>2, <2>3, <1>4 DEF Starts, Fresh0
<1>6. ASSUME NEW q \in Proc \ {p}
      PROVE  /\ Task(req'[q], req[q]) /\ Held(req'[q], req[q])
             /\ req'[q].pc = req[q].pc /\ req'[q].gone = req[q].gone
             /\ req'[q].alone = ~ InFlight(q) /\ req'[q] \in ReqType
  <2> DEFINE b == ~ InFlight(q)
  <2>1. req'[q] = [req[q] EXCEPT !.alone = b] /\ req[q] \in ReqType /\ b \in BOOLEAN
    BY <1>1, <1>3
  <2> HIDE DEF b
  <2>2. /\ Task(req'[q], req[q]) /\ Held(req'[q], req[q])
        /\ req'[q].pc = req[q].pc /\ req'[q].gone = req[q].gone
        /\ req'[q].alone = b /\ req'[q] \in ReqType
    BY <2>1 DEF Task, Held, ReqType
  <2> QED BY <2>2 DEF b
<1>7. req'[p] = first /\ req' \in [Proc -> ReqType]
  <2>1. \A q \in Proc : req'[q] \in ReqType
    BY <1>3, <1>4, <1>6
  <2>2. req' = [q \in Proc |-> req'[q]]
    BY <1>3
  <2> QED BY <1>3, <2>1, <2>2
<1>8. ASSUME NEW q \in Proc PROVE (RequestFits(req[q]) /\ SourceFits(req[q]))'
  <2>1. CASE q = p
    BY <2>1, <1>5, <1>7
  <2>2. CASE q # p
    <3>1. RequestFits(req[q]) /\ SourceFits(req[q]) /\ Task(req'[q], req[q]) /\ Held(req'[q], req[q])
          /\ req'[q].pc = req[q].pc
      BY <2>2, <1>6 DEF Typed, RequestInv
    <3> QED BY <3>1 DEF RequestFits, SourceFits, OpFits, Task, Held
  <2> QED BY <2>1, <2>2
<1>9. made' \in 0 .. MaxRequests /\ raced' \subseteq Period
  <2>1. made' = made + 1 /\ made < MaxRequests /\ made \in 0 .. MaxRequests
    BY DEF Begin, Typed, TypeOK
  <2>2. raced' = raced \/ raced' = raced \cup {t}
    BY DEF Begin
  <2> QED BY <2>1, <2>2, ScheduleAssumption DEF Typed, TypeOK
<1>10. Typed'
  BY <1>7, <1>8, <1>9 DEF Typed, TypeOK, RequestInv, Begin, tables
<1>11. status[t] # "gone" /\ status[t] # "LOCKED" /\ ~ InFlight(p)
  BY DEF Begin, Mutable
<1> QED BY <1>4, <1>5, <1>6, <1>7, <1>10, <1>11 DEF Started, Begin, lone

LEMMA RequestStarts ==
    ASSUME Typed, NEW p \in Proc, NEW t \in Period, StartStep(p, t)
    PROVE  Typed' /\ Started(p, t)
<1> USE DEF Fresh0, StartPcs, OpFits, AssignPcs
<1>1. ASSUME NEW code \in Status \ {"gone"}, StatusStart(p, t, code)
      PROVE  Typed' /\ Started(p, t)
  <2> DEFINE row == [Idle EXCEPT !.pc = "status", !.to = code]
  <2>1. Begin(p, "status", t, row)
    BY <1>1 DEF StatusStart
  <2>2. Fresh0(row) /\ row.pc = "status" /\ row.to = code
    BY <1>1 DEF Idle, ReqType
  <2> HIDE DEF row
  <2> QED BY <2>1, <2>2, Begun
<1>2. ASSUME DeletePeriodStart(p, t)
      PROVE  Typed' /\ Started(p, t)
  <2> DEFINE row == [Idle EXCEPT !.pc = "count", !.who = Employee, !.days = Day]
  <2>1. Begin(p, "deletePeriod", t, row)
    BY <1>2 DEF DeletePeriodStart
  <2>2. Fresh0(row) /\ row.pc = "count" /\ row.who = Employee /\ row.days = Day /\ row.shift = AnyShift
    BY DEF Idle, ReqType
  <2> HIDE DEF row
  <2> QED BY <2>1, <2>2, Begun
<1>3. ASSUME NEW s \in Shift, AddShiftStart(p, t, s)
      PROVE  Typed' /\ Started(p, t)
  <2> DEFINE row == [Idle EXCEPT !.pc = "link", !.shift = s]
  <2>1. Begin(p, "addShift", t, row)
    BY <1>3 DEF AddShiftStart
  <2>2. Fresh0(row) /\ row.pc = "link" /\ row.shift = s
    BY DEF Idle, ReqType, Planned
  <2> HIDE DEF row
  <2> QED BY <2>1, <2>2, Begun
<1>4. ASSUME NEW s \in Shift, RemoveShiftStart(p, t, s)
      PROVE  Typed' /\ Started(p, t)
  <2> DEFINE row == [Idle EXCEPT !.pc = "dropRows", !.shift = s, !.who = Employee, !.days = Day]
  <2>1. Begin(p, "removeShift", t, row)
    BY <1>4 DEF RemoveShiftStart
  <2>2. Fresh0(row) /\ row.pc = "dropRows" /\ row.who = Employee /\ row.days = Day /\ row.shift = s
    BY DEF Idle, ReqType, Planned
  <2> HIDE DEF row
  <2> QED BY <2>1, <2>2, Begun
<1>5. ASSUME NEW who \in Teams, NEW days \in DaySets, NEW s \in Shift \cup {AnyShift},
             DeleteStart(p, t, who, days, s)
      PROVE  Typed' /\ Started(p, t)
  <2> DEFINE row == [Idle EXCEPT !.pc = "dropRows", !.who = who, !.days = days, !.shift = s]
  <2>0. who \subseteq Employee /\ days \subseteq Day
    BY ScheduleAssumption
  <2>1. Begin(p, "delete", t, row)
    BY <1>5 DEF DeleteStart
  <2>2. Fresh0(row) /\ row.pc = "dropRows"
    BY <2>0 DEF Idle, ReqType, Planned
  <2> HIDE DEF row
  <2> QED BY <2>1, <2>2, Begun
<1>6. ASSUME NEW who \in Teams, NEW days \in DaySets, NEW s \in Planned, NEW mode \in Modes,
             AssignStart(p, t, who, days, s, mode)
      PROVE  Typed' /\ Started(p, t)
  <2> DEFINE pc == IF s = "rest" THEN "conflicts" ELSE "link"
             row == [Idle EXCEPT !.pc = pc, !.who = who, !.days = days, !.shift = s, !.mode = mode]
  <2>0. who \subseteq Employee /\ days \subseteq Day
    BY ScheduleAssumption
  <2>1. Begin(p, "assign", t, row)
    BY <1>6 DEF AssignStart
  <2>2. pc \in {"conflicts", "link"} /\ (pc = "conflicts" => s = "rest")
    OBVIOUS
  <2> HIDE DEF pc
  <2>3. Fresh0(row) /\ row.pc = pc /\ row.shift = s /\ row.mode = mode
    BY <2>0, <2>2 DEF Idle, ReqType
  <2> HIDE DEF row
  <2> QED BY <2>1, <2>2, <2>3, Begun
<1>7. ASSUME NEW e \in Employee, NEW days \in DaySets, NEW from \in Shift, NEW to \in Shift,
             ChangeShiftStart(p, t, e, days, from, to)
      PROVE  Typed' /\ Started(p, t)
  <2> DEFINE row == [Idle EXCEPT !.pc = "link", !.who = {e}, !.days = days, !.shift = from, !.to = to]
  <2>0. days \subseteq Day
    BY ScheduleAssumption
  <2>1. Begin(p, "changeShift", t, row)
    BY <1>7 DEF ChangeShiftStart
  <2>2. Fresh0(row) /\ row.pc = "link" /\ row.to = to
    BY <2>0 DEF Idle, ReqType, Planned
  <2> HIDE DEF row
  <2> QED BY <2>1, <2>2, Begun
<1>8. ASSUME NEW e \in Employee, NEW sub \in Employee, NEW days \in DaySets, NEW s \in Shift,
             SubstituteStart(p, t, e, sub, days, s)
      PROVE  Typed' /\ Started(p, t)
  <2> DEFINE row == [Idle EXCEPT !.pc = "source", !.who = {e}, !.days = days, !.shift = s, !.sub = sub]
  <2>0. days \subseteq Day
    BY ScheduleAssumption
  <2>1. Begin(p, "substitute", t, row)
    BY <1>8 DEF SubstituteStart
  <2>2. Fresh0(row) /\ row.pc = "source" /\ row.shift = s /\ row.sub = sub
    BY <2>0 DEF Idle, ReqType, Planned
  <2> HIDE DEF row
  <2> QED BY <2>1, <2>2, Begun
<1> QED BY <1>1, <1>2, <1>3, <1>4, <1>5, <1>6, <1>7, <1>8 DEF StartStep

LEMMA PeriodCreated ==
    ASSUME Typed, NEW t \in Period, CreatePeriod(t)
    PROVE  Typed'
<1>1. status' \in [Period -> Status] /\ made' \in 0 .. MaxRequests
  BY ScheduleAssumption DEF Typed, TypeOK, CreatePeriod, Status
<1> QED BY <1>1 DEF Typed, TypeOK, CreatePeriod, RequestInv

\* Clocking in is no request, but disturbs those in flight.
LEMMA Clocked ==
    ASSUME Typed, NEW x \in Slot, Clock(x)
    PROVE  /\ Typed'
           /\ \A q \in Proc : /\ Task(req'[q], req[q]) /\ Held(req'[q], req[q])
                              /\ req'[q].pc = req[q].pc /\ req'[q].gone = req[q].gone
                              /\ req'[q].alone = ~ InFlight(q)
<1>1. ASSUME NEW q \in Proc
      PROVE  /\ Task(req'[q], req[q]) /\ Held(req'[q], req[q])
             /\ req'[q].pc = req[q].pc /\ req'[q].gone = req[q].gone
             /\ req'[q].alone = ~ InFlight(q) /\ req'[q] \in ReqType
  <2> DEFINE b == ~ InFlight(q)
  <2>1. req'[q] = [req[q] EXCEPT !.alone = b] /\ req[q] \in ReqType /\ b \in BOOLEAN
    BY DEF Clock, Typed, TypeOK
  <2> HIDE DEF b
  <2>2. /\ Task(req'[q], req[q]) /\ Held(req'[q], req[q])
        /\ req'[q].pc = req[q].pc /\ req'[q].gone = req[q].gone
        /\ req'[q].alone = b /\ req'[q] \in ReqType
    BY <2>1 DEF Task, Held, ReqType
  <2> QED BY <2>2 DEF b
<1>2. req' = [q \in Proc |-> req'[q]]
  BY DEF Clock
<1>3. req' \in [Proc -> ReqType]
  BY <1>1, <1>2
<1>4. ASSUME NEW q \in Proc PROVE (RequestFits(req[q]) /\ SourceFits(req[q]))'
  <2>1. RequestFits(req[q]) /\ SourceFits(req[q]) /\ Task(req'[q], req[q]) /\ Held(req'[q], req[q])
        /\ req'[q].pc = req[q].pc
    BY <1>1 DEF Typed, RequestInv
  <2> QED BY <2>1 DEF RequestFits, SourceFits, OpFits, Task, Held
<1>5. made' \in 0 .. MaxRequests /\ clocked' \subseteq Slot
  BY ScheduleAssumption DEF Clock, Typed, TypeOK
<1>6. Typed'
  BY <1>3, <1>4, <1>5 DEF Typed, TypeOK, RequestInv, Clock
<1> QED BY <1>1, <1>6

-----------------------------------------------------------------------------
(* Rows stay linked: LinkInv.                                              *)

\* A step of p touches the links, the status and the rows of its own period only,
\* but for the rows it deletes.
Confined(p, deleted) ==
    /\ \A t \in Period \ {req[p].period} : links'[t] = links[t] /\ status'[t] = status[t]
    /\ \A x \in Slot : asg[x].on /\ x \notin deleted => asg'[x].on /\ per'[x] = per[x]
    /\ \A x \in Slot : asg'[x].on /\ per'[x] # req[p].period =>
                         asg[x].on /\ asg'[x] = asg[x] /\ per'[x] = per[x]

LEMMA LinkStep ==
    ASSUME LinkInv, Typed', NEW p \in Proc, InFlight(p),
           NEW deleted, Others(p, deleted), Confined(p, deleted), raced' = raced,
           req'[p].period \in {req[p].period, NoPeriod},
           req'[p].period # NoPeriod => status'[req[p].period] = status[req[p].period],
           req[p].period \notin raced =>
             \A x \in Slot : asg'[x].on /\ asg'[x].shift # NoShift /\ per'[x] = req[p].period =>
                               asg'[x].shift \in links'[req[p].period],
           LinkFits(p)', SeenFits(p)'
    PROVE  LinkInv'
<1>1. req[p].period \in Period /\ NoPeriod \notin Period
  BY ScheduleAssumption DEF LinkInv, Typed, RequestInv, RequestFits, InFlight
<1>2. ASSUME NEW q \in Proc \ {p}, req[q].period \in Period \ raced
      PROVE  req[q].period # req[p].period
  BY <1>1, <1>2 DEF LinkInv, OneAtATime
<1>3. \A q \in Proc \ {p} : req'[q].period = req[q].period
  BY DEF Others, Task
<1>4. OneAtATime'
  BY <1>3 DEF OneAtATime, LinkInv
<1>5. LockedAlone'
  <2>1. ASSUME NEW q \in Proc, req'[q].period \in Period \ raced'
        PROVE  status'[req'[q].period] # "LOCKED"
    <3>1. CASE q = p
      BY <2>1, <3>1, <1>1 DEF LinkInv, LockedAlone
    <3>2. CASE q # p
      BY <2>1, <3>2, <1>2, <1>3 DEF LinkInv, LockedAlone, Confined
    <3> QED BY <3>1, <3>2
  <2> QED BY <2>1 DEF LockedAlone
<1>6. RowsHavePeriod'
  BY <1>1 DEF RowsHavePeriod, LinkInv, Confined
<1>7. RowsAreLinked'
  <2>1. ASSUME NEW x \in Slot, asg'[x].on, asg'[x].shift # NoShift, per'[x] \notin raced
        PROVE  asg'[x].shift \in links'[per'[x]]
    <3>1. CASE per'[x] = req[p].period
      BY <2>1, <3>1
    <3>2. CASE per'[x] # req[p].period
      <4>1. asg[x].on /\ asg'[x] = asg[x] /\ per'[x] = per[x] /\ per[x] \in Period
        BY <2>1, <3>2 DEF Confined, LinkInv, RowsHavePeriod
      <4>2. asg[x].shift \in links[per[x]] /\ links'[per[x]] = links[per[x]]
        BY <2>1, <3>2, <4>1 DEF LinkInv, RowsAreLinked, Confined
      <4> QED BY <4>1, <4>2
    <3> QED BY <3>1, <3>2
  <2> QED BY <2>1 DEF RowsAreLinked
<1>8. ASSUME NEW q \in Proc \ {p} PROVE (LinkFits(q) /\ SeenFits(q))'
  <2>1. LinkFits(q) /\ SeenFits(q) /\ (req[q].pc # "write" => req[q].seen = {})
    BY DEF LinkInv, Typed, RequestInv, RequestFits
  <2>2. /\ Task(req'[q], req[q]) /\ Held(req'[q], req[q]) /\ req'[q].pc = req[q].pc
        /\ req'[q].gone <=> req[q].gone \/ req[q].seen \cap deleted # {}
    BY DEF Others
  <2>3. LinkFits(q)'
    <3> SUFFICES ASSUME req[q].period \in Period \ raced PROVE LinkFits(q)'
      BY <2>2 DEF LinkFits, Task
    <3>1. req[q].period # req[p].period /\ links'[req[q].period] = links[req[q].period]
      BY <1>2 DEF Confined
    <3>2. \A x \in Slot : asg'[x].on /\ per'[x] = req[q].period => Owns(req[q].period, x) /\ asg'[x] = asg[x]
      BY <3>1 DEF Confined, Owns
    <3> QED BY <2>1, <2>2, <3>1, <3>2 DEF LinkFits, Task, Owns
  <2>4. SeenFits(q)'
    <3>1. ASSUME req[q].pc = "write", ~ req'[q].gone
          PROVE  \A x \in req[q].seen : asg'[x].on /\ per'[x] = req[q].period
      <4>1. req[q].seen \subseteq Slot
        BY DEF LinkInv, Typed, TypeOK, ReqType
      <4>2. \A x \in req[q].seen : asg[x].on /\ per[x] = req[q].period /\ x \notin deleted
        BY <2>1, <2>2, <3>1 DEF SeenFits, Owns
      <4> QED BY <4>1, <4>2 DEF Confined
    <3> QED BY <2>2, <3>1 DEF SeenFits, Task, Held, Owns
  <2> QED BY <2>3, <2>4
<1>9. \A q \in Proc : (LinkFits(q) /\ SeenFits(q))'
  BY <1>8
<1> QED BY <1>4, <1>5, <1>6, <1>7, <1>9 DEF LinkInv

LEMMA IdleLinks ==
    ASSUME NEW p \in Proc, req'[p] = Idle
    PROVE  LinkFits(p)' /\ SeenFits(p)' /\ req'[p].period = NoPeriod
  BY ScheduleAssumption DEF LinkFits, SeenFits, Idle

\* A step that changes no table but those of clocking.
LEMMA LinkQuiet ==
    ASSUME LinkInv, Typed', NEW p \in Proc, InFlight(p), Others(p, {}),
           UNCHANGED <<status, links, asg, per, raced>>,
           req'[p].period \in {req[p].period, NoPeriod},
           LinkFits(p)', SeenFits(p)'
    PROVE  LinkInv'
<1>1. Confined(p, {})
  BY DEF Confined
<1>2. \A x \in Slot : asg[x].on /\ asg[x].shift # NoShift /\ per[x] \notin raced => asg[x].shift \in links[per[x]]
  BY DEF LinkInv, RowsAreLinked
<1> QED BY <1>1, <1>2, LinkStep

\* Erasing rows confines a step to them, when the other tables are confined.
LEMMA ErasingIsConfined ==
    ASSUME NEW p \in Proc, NEW deleted, Erase(deleted),
           \A t \in Period \ {req[p].period} : links'[t] = links[t] /\ status'[t] = status[t]
    PROVE  /\ Confined(p, deleted)
           /\ \A x \in Slot : asg'[x].on => asg[x].on /\ x \notin deleted /\ asg'[x] = asg[x] /\ per'[x] = per[x]
  BY NoRowTyped DEF Confined, Erase

LEMMA LinkStatus ==
    ASSUME LinkInv, NEW p \in Proc, SetStatus(p)
    PROVE  LinkInv'
<1>1. /\ Typed' /\ req'[p] = Idle /\ Others(p, {}) /\ InFlight(p)
      /\ \E code \in Status \ {"gone"} :
           status' = [status EXCEPT ![req[p].period] = IF @ = "gone" THEN "gone" ELSE code]
  BY StatusSet DEF LinkInv, Typed, RequestInv, RequestFits, OpFits, SetStatus, At, InFlight
<1>2. Confined(p, {}) /\ raced' = raced
  BY <1>1 DEF Confined, SetStatus, Steady, LinkInv, Typed, TypeOK
<1>3. \A x \in Slot : asg[x].on /\ asg[x].shift # NoShift /\ per[x] \notin raced => asg[x].shift \in links[per[x]]
  BY DEF LinkInv, RowsAreLinked
<1>4. UNCHANGED <<links, asg, per>>
  BY DEF SetStatus
<1> QED BY <1>1, <1>2, <1>3, <1>4, IdleLinks, LinkStep

LEMMA LinkCount ==
    ASSUME LinkInv, NEW p \in Proc, CountAttendance(p)
    PROVE  LinkInv'
<1>1. /\ Typed' /\ Others(p, {}) /\ InFlight(p)
      /\ req'[p] = Idle \/ Onward(req'[p], req[p], "dropRows")
  BY AttendanceCounted DEF LinkInv, Typed, RequestInv, RequestFits, OpFits, CountAttendance, At, InFlight
<1>2. UNCHANGED <<status, links, asg, per, raced>>
  BY DEF CountAttendance, tables, Steady
<1>3. req'[p].period \in {req[p].period, NoPeriod} /\ LinkFits(p)' /\ SeenFits(p)'
  BY <1>1, IdleLinks DEF Onward, Task, LinkFits, SeenFits, AssignPcs
<1> QED BY <1>1, <1>2, <1>3, LinkQuiet

LEMMA LinkDropRows ==
    ASSUME LinkInv, NEW p \in Proc, DropRows(p)
    PROVE  LinkInv'
<1>1. /\ Typed' /\ Others(p, DroppedRows(p)) /\ Erase(DroppedRows(p))
      /\ \/ req'[p] = Idle
         \/ /\ req[p].op \in {"removeShift", "deletePeriod"}
            /\ Onward(req'[p], req[p], "dropLinks") /\ Held(req'[p], req[p])
  BY RowsDropped DEF LinkInv
<1>2. UNCHANGED <<status, links, raced>>
  BY DEF DropRows, Steady
<1>3. /\ Confined(p, DroppedRows(p))
      /\ \A x \in Slot : asg'[x].on => /\ asg[x].on /\ x \notin DroppedRows(p)
                                       /\ asg'[x] = asg[x] /\ per'[x] = per[x]
  BY <1>1, <1>2, ErasingIsConfined
<1>4. RequestFits(req[p]) /\ InFlight(p)
  BY DEF LinkInv, Typed, RequestInv, RequestFits, OpFits, DropRows, At, InFlight
<1>5. \A x \in Slot : asg'[x].on /\ asg'[x].shift # NoShift /\ per'[x] \notin raced => asg'[x].shift \in links'[per'[x]]
  BY <1>2, <1>3 DEF LinkInv, RowsAreLinked
<1>6. req'[p].period \in {req[p].period, NoPeriod} /\ LinkFits(p)' /\ SeenFits(p)'
  <2>1. CASE req'[p] = Idle
    BY <2>1, IdleLinks
  <2>2. CASE req[p].op \in {"removeShift", "deletePeriod"} /\ Onward(req'[p], req[p], "dropLinks")
    <3>1. req[p].who = Employee /\ req[p].days = Day /\ (req[p].op = "deletePeriod" => req[p].shift = AnyShift)
      BY <1>4, <2>2 DEF RequestFits
    <3>2. \A x \in Slot : Owns(req[p].period, x) /\ x \notin DroppedRows(p) =>
                            req[p].op = "removeShift" /\ asg[x].shift # req[p].shift
      BY <3>1, <2>2 DEF DroppedRows, Slots, Slot
    <3>3. \A x \in Slot : asg'[x].on /\ per'[x] = req[p].period =>
                            req[p].op = "removeShift" /\ asg'[x].shift # req[p].shift
      BY <1>3, <3>2 DEF Owns
    <3> QED BY <2>2, <3>3 DEF Onward, Task, LinkFits, SeenFits, AssignPcs, Owns
  <2> QED BY <1>1, <2>1, <2>2
<1> QED BY <1>1, <1>2, <1>3, <1>4, <1>5, <1>6, LinkStep

LEMMA LinkDropLinks ==
    ASSUME LinkInv, NEW p \in Proc, DropLinks(p)
    PROVE  LinkInv'
<1>1. /\ Typed' /\ Others(p, {})
      /\ links' = [links EXCEPT ![req[p].period] =
                     IF req[p].op = "deletePeriod" THEN {} ELSE @ \ {req[p].shift}]
      /\ req'[p] = Idle \/ Onward(req'[p], req[p], "dropPeriod")
  BY LinksDropped DEF LinkInv
<1>2. UNCHANGED <<status, asg, per, raced>>
  BY DEF DropLinks, Steady
<1>3. Confined(p, {})
  BY <1>1, <1>2 DEF Confined, LinkInv, Typed, TypeOK
<1>4. InFlight(p) /\ req[p].pc = "dropLinks" /\ req[p].period \in Period
  BY DEF LinkInv, Typed, RequestInv, RequestFits, OpFits, DropLinks, At, InFlight
<1>5. ASSUME req[p].period \notin raced, NEW x \in Slot, asg[x].on, asg[x].shift # NoShift,
             per[x] = req[p].period
      PROVE  asg[x].shift \in links'[req[p].period]
  <2>1. req[p].op = "removeShift" /\ asg[x].shift # req[p].shift
    BY <1>4, <1>5 DEF LinkInv, LinkFits, Owns
  <2>2. asg[x].shift \in links[req[p].period]
    BY <1>5 DEF LinkInv, RowsAreLinked
  <2> QED BY <1>1, <1>4, <2>1, <2>2 DEF LinkInv, Typed, TypeOK
<1>6. req'[p].period \in {req[p].period, NoPeriod} /\ LinkFits(p)' /\ SeenFits(p)'
  BY <1>1, IdleLinks DEF Onward, Task, LinkFits, SeenFits, AssignPcs
<1> QED BY <1>1, <1>2, <1>3, <1>4, <1>5, <1>6, LinkStep

LEMMA LinkDropPeriod ==
    ASSUME LinkInv, NEW p \in Proc, DropPeriod(p)
    PROVE  LinkInv'
<1>1. /\ Typed' /\ req'[p] = Idle /\ Others(p, LeftRows(p)) /\ Erase(LeftRows(p))
      /\ status' = [status EXCEPT ![req[p].period] = "gone"]
      /\ links' = [links EXCEPT ![req[p].period] = {}]
  BY PeriodDropped DEF LinkInv
<1>2. /\ Confined(p, LeftRows(p))
      /\ \A x \in Slot : asg'[x].on => /\ asg[x].on /\ x \notin LeftRows(p)
                                       /\ asg'[x] = asg[x] /\ per'[x] = per[x]
  BY <1>1, ErasingIsConfined DEF LinkInv, Typed, TypeOK
<1>3. \A x \in Slot : asg'[x].on => per'[x] # req[p].period
  BY <1>2 DEF LeftRows, Owns
<1>4. InFlight(p) /\ raced' = raced
  BY DEF LinkInv, Typed, RequestInv, RequestFits, OpFits, DropPeriod, At, InFlight, Steady
<1> QED BY <1>1, <1>2, <1>3, <1>4, IdleLinks, LinkStep

LEMMA LinkLinkShift ==
    ASSUME LinkInv, NEW p \in Proc, LinkShift(p)
    PROVE  LinkInv'
<1>1. /\ Typed' /\ Others(p, {})
      /\ \/ req'[p] = Idle
         \/ /\ \/ /\ Onward(req'[p], req[p], "conflicts")
                  /\ req[p].shift # "rest" => req[p].shift \in LinkedShift(p)
               \/ Onward(req'[p], req[p], "rows") /\ req[p].to \in LinkedShift(p)
            /\ links' = [links EXCEPT ![req[p].period] = @ \cup LinkedShift(p)]
      /\ \/ links' = links
         \/ links' = [links EXCEPT ![req[p].period] = @ \cup LinkedShift(p)]
  BY ShiftLinked DEF LinkInv
<1>2. UNCHANGED <<status, asg, per, raced>>
  BY DEF LinkShift, Steady
<1>3. /\ Confined(p, {})
      /\ \A t \in Period : links[t] \subseteq links'[t]
  BY <1>1, <1>2 DEF Confined, LinkInv, Typed, TypeOK
<1>4. InFlight(p) /\ req[p].period \in Period
  BY DEF LinkInv, Typed, RequestInv, RequestFits, OpFits, LinkShift, At, InFlight
<1>5. \A x \in Slot : asg[x].on /\ asg[x].shift # NoShift /\ per[x] \notin raced => asg[x].shift \in links'[per[x]]
  BY <1>3 DEF LinkInv, RowsAreLinked, RowsHavePeriod
<1>6. req'[p].period \in {req[p].period, NoPeriod} /\ LinkFits(p)' /\ SeenFits(p)'
  <2>1. CASE req'[p] = Idle
    BY <2>1, IdleLinks
  <2>2. CASE req'[p] # Idle
    <3>1. LinkedShift(p) \subseteq links'[req[p].period]
      BY <1>1, <1>4, <2>2 DEF LinkInv, Typed, TypeOK
    <3> QED BY <1>1, <2>2, <3>1 DEF Onward, Task, LinkFits, SeenFits, AssignPcs
  <2> QED BY <2>1, <2>2
<1> QED BY <1>1, <1>2, <1>3, <1>4, <1>5, <1>6, LinkStep

LEMMA LinkConflicts ==
    ASSUME LinkInv, NEW p \in Proc, ReadConflicts(p)
    PROVE  LinkInv'
<1>1. /\ Typed' /\ Others(p, {})
      /\ req'[p] = Idle \/ Onward(req'[p], req[p], "take") \/ Onward(req'[p], req[p], "existing")
  BY ConflictsRead DEF LinkInv
<1>2. UNCHANGED <<status, links, asg, per, raced>>
  BY DEF ReadConflicts, tables, Steady
<1>3. InFlight(p) /\ req[p].pc = "conflicts" /\ LinkFits(p)
  BY DEF LinkInv, Typed, RequestInv, RequestFits, OpFits, ReadConflicts, At, InFlight, AssignPcs
<1>4. req'[p].period \in {req[p].period, NoPeriod} /\ LinkFits(p)' /\ SeenFits(p)'
  BY <1>1, <1>2, <1>3, IdleLinks DEF Onward, Task, LinkFits, SeenFits, AssignPcs
<1> QED BY <1>1, <1>2, <1>3, <1>4, LinkQuiet

LEMMA LinkTake ==
    ASSUME LinkInv, NEW p \in Proc, TakeRows(p)
    PROVE  LinkInv'
<1>1. /\ Typed' /\ Others(p, TakenRows(p)) /\ Erase(TakenRows(p))
      /\ Onward(req'[p], req[p], "existing")
  BY RowsTaken DEF LinkInv
<1>2. UNCHANGED <<status, links, raced>>
  BY DEF TakeRows, Steady
<1>3. /\ Confined(p, TakenRows(p))
      /\ \A x \in Slot : asg'[x].on => /\ asg[x].on /\ x \notin TakenRows(p)
                                       /\ asg'[x] = asg[x] /\ per'[x] = per[x]
  BY <1>1, <1>2, ErasingIsConfined
<1>4. InFlight(p) /\ req[p].pc = "take" /\ LinkFits(p)
  BY DEF LinkInv, Typed, RequestInv, RequestFits, OpFits, TakeRows, At, InFlight, AssignPcs
<1>5. \A x \in Slot : asg'[x].on /\ asg'[x].shift # NoShift /\ per'[x] \notin raced => asg'[x].shift \in links'[per'[x]]
  BY <1>2, <1>3 DEF LinkInv, RowsAreLinked
<1>6. req'[p].period \in {req[p].period, NoPeriod} /\ LinkFits(p)' /\ SeenFits(p)'
  BY <1>1, <1>2, <1>4 DEF Onward, Task, LinkFits, SeenFits, AssignPcs
<1> QED BY <1>1, <1>2, <1>3, <1>4, <1>5, <1>6, LinkStep

LEMMA LinkExisting ==
    ASSUME LinkInv, NEW p \in Proc, ReadExisting(p)
    PROVE  LinkInv'
<1>1. /\ Typed' /\ Others(p, {})
      /\ req'[p] = Idle \/ Onward(req'[p], req[p], "create")
  BY ExistingRead DEF LinkInv
<1>2. UNCHANGED <<status, links, asg, per, raced>>
  BY DEF ReadExisting, tables, Steady
<1>3. InFlight(p) /\ req[p].pc = "existing" /\ LinkFits(p)
  BY DEF LinkInv, Typed, RequestInv, RequestFits, OpFits, ReadExisting, At, InFlight, AssignPcs
<1>4. req'[p].period \in {req[p].period, NoPeriod} /\ LinkFits(p)' /\ SeenFits(p)'
  BY <1>1, <1>2, <1>3, IdleLinks DEF Onward, Task, LinkFits, SeenFits, AssignPcs
<1> QED BY <1>1, <1>2, <1>3, <1>4, LinkQuiet

LEMMA LinkCreate ==
    ASSUME LinkInv, NEW p \in Proc, CreateRows(p)
    PROVE  LinkInv'
<1>1. /\ Typed' /\ req'[p] = Idle /\ Others(p, {})
      /\ \A x \in Slot :
           /\ asg'[x] = IF x \in CreatedRows(p) THEN PlannedRow(req[p].shift) ELSE asg[x]
           /\ per'[x] = IF x \in CreatedRows(p) THEN req[p].period ELSE per[x]
  BY RowsCreated DEF LinkInv
<1>2. UNCHANGED <<status, links, raced>>
  BY DEF CreateRows, Steady
<1>3. /\ InFlight(p) /\ req[p].pc = "create" /\ req[p].shift \in Planned
      /\ req[p].period \in Period
  BY DEF LinkInv, Typed, RequestInv, RequestFits, OpFits, CreateRows, At, InFlight, AssignPcs
<1>4. \A x \in CreatedRows(p) : ~ asg[x].on
  BY DEF CreatedRows, Fillable
<1>5. Confined(p, {})
  BY <1>1, <1>2, <1>4 DEF Confined
<1>6. ASSUME req[p].period \notin raced, NEW x \in Slot, asg'[x].on, asg'[x].shift # NoShift,
             per'[x] = req[p].period
      PROVE  asg'[x].shift \in links'[req[p].period]
  <2>1. CASE x \in CreatedRows(p)
    <3>1. asg'[x].shift = req[p].shift /\ req[p].shift # "rest"
      BY <1>1, <1>3, <1>6, <2>1, PlannedRowTyped
    <3>2. req[p].shift \in links[req[p].period]
      BY <1>3, <1>6, <3>1 DEF LinkInv, LinkFits, AssignPcs
    <3> QED BY <3>1, <3>2, <1>2
  <2>2. CASE x \notin CreatedRows(p)
    BY <1>1, <1>2, <1>6, <2>2 DEF LinkInv, RowsAreLinked
  <2> QED BY <2>1, <2>2
<1> QED BY <1>1, <1>2, <1>3, <1>5, <1>6, IdleLinks, LinkStep

LEMMA LinkReadRows ==
    ASSUME LinkInv, NEW p \in Proc, ReadRows(p)
    PROVE  LinkInv'
<1>1. /\ Typed' /\ Others(p, {})
      /\ \/ req'[p] = Idle
         \/ Onward(req'[p], req[p], "write") /\ req'[p].seen = RowsOf(req[p])
  BY RowsRead DEF LinkInv
<1>2. UNCHANGED <<status, links, asg, per, raced>>
  BY DEF ReadRows, tables, Steady
<1>3. InFlight(p) /\ req[p].pc = "rows" /\ LinkFits(p)
  BY DEF LinkInv, Typed, RequestInv, RequestFits, OpFits, ReadRows, At, InFlight
<1>4. \A x \in RowsOf(req[p]) : asg'[x].on /\ per'[x] = req[p].period
  BY <1>2 DEF RowsOf, Owns
<1>5. req'[p].period \in {req[p].period, NoPeriod} /\ LinkFits(p)' /\ SeenFits(p)'
  BY <1>1, <1>2, <1>3, <1>4, IdleLinks DEF Onward, Task, LinkFits, SeenFits, Owns, AssignPcs
<1> QED BY <1>1, <1>2, <1>3, <1>5, LinkQuiet

LEMMA LinkWrite ==
    ASSUME LinkInv, NEW p \in Proc, WriteShift(p)
    PROVE  LinkInv'
<1>1. /\ Typed' /\ req'[p] = Idle /\ Others(p, {})
      /\ \A x \in Slot :
           \/ asg'[x] = asg[x]
           \/ /\ ~ req[p].gone /\ x \in req[p].seen
              /\ asg'[x].on = asg[x].on /\ asg'[x].shift = req[p].to
  BY ShiftWritten DEF LinkInv
<1>2. UNCHANGED <<status, links, per, raced>>
  BY DEF WriteShift, Steady
<1>3. InFlight(p) /\ req[p].pc = "write" /\ req[p].period \in Period
  BY DEF LinkInv, Typed, RequestInv, RequestFits, OpFits, WriteShift, At, InFlight
<1>4. ~ req[p].gone => \A x \in req[p].seen : asg[x].on /\ per[x] = req[p].period
  BY <1>3 DEF LinkInv, SeenFits, Owns
<1>5. Confined(p, {})
  BY <1>1, <1>2, <1>4 DEF Confined
<1>6. ASSUME req[p].period \notin raced, NEW x \in Slot, asg'[x].on, asg'[x].shift # NoShift,
             per'[x] = req[p].period
      PROVE  asg'[x].shift \in links'[req[p].period]
  <2>1. req[p].to \in links[req[p].period]
    BY <1>3, <1>6 DEF LinkInv, LinkFits
  <2>2. CASE asg'[x] = asg[x]
    BY <1>2, <1>6, <2>2 DEF LinkInv, RowsAreLinked
  <2> QED BY <1>1, <1>2, <2>1, <2>2
<1> QED BY <1>1, <1>2, <1>3, <1>5, <1>6, IdleLinks, LinkStep

LEMMA LinkSource ==
    ASSUME LinkInv, NEW p \in Proc, ReadSource(p)
    PROVE  LinkInv'
<1>1. /\ Typed' /\ Others(p, {})
      /\ \/ req'[p] = Idle
         \/ Onward(req'[p], req[p], "replace") /\ RowsOf(req[p]) # {}
  BY SourceRead DEF LinkInv
<1>2. UNCHANGED <<status, links, asg, per, raced>>
  BY DEF ReadSource, tables, Steady
<1>3. InFlight(p) /\ req[p].shift \in Shift /\ req[p].shift # NoShift /\ req[p] \in ReqType
  BY ShiftAssumption
    DEF LinkInv, Typed, TypeOK, RequestInv, RequestFits, OpFits, ReadSource, At, InFlight, NoShift
<1>4. RowsOf(req[p]) # {} /\ req[p].period \notin raced => req[p].shift \in links[req[p].period]
  <2>1. ASSUME NEW x \in RowsOf(req[p]), req[p].period \notin raced
        PROVE  req[p].shift \in links[req[p].period]
    <3>1. x \in Slot /\ asg[x].on /\ per[x] = req[p].period /\ asg[x].shift = req[p].shift
      BY <1>3 DEF RowsOf, Owns, Slots, Slot, ReqType
    <3> QED BY <3>1, <1>3, <2>1 DEF LinkInv, RowsAreLinked
  <2> QED BY <2>1
<1>5. req'[p].period \in {req[p].period, NoPeriod} /\ LinkFits(p)' /\ SeenFits(p)'
  BY <1>1, <1>2, <1>4, IdleLinks DEF Onward, Task, LinkFits, SeenFits, AssignPcs
<1> QED BY <1>1, <1>2, <1>3, <1>5, LinkQuiet

LEMMA LinkReplace ==
    ASSUME LinkInv, NEW p \in Proc, ReplaceRows(p)
    PROVE  LinkInv'
<1>1. Typed' /\ req'[p] = Idle
  BY RowsReplaced DEF LinkInv
<1>2. UNCHANGED <<status, links, raced>>
  BY DEF ReplaceRows, Steady
<1>3. InFlight(p) /\ req[p].pc = "replace" /\ req[p].period \in Period
  BY DEF LinkInv, Typed, RequestInv, RequestFits, OpFits, ReplaceRows, At, InFlight
<1>4. CASE Others(p, {}) /\ UNCHANGED <<asg, per>>
  BY <1>1, <1>2, <1>3, <1>4, IdleLinks, LinkQuiet
<1>5. CASE /\ Others(p, ReplacedRows(p))
           /\ \A x \in Slot :
                /\ x \in FilledSlots(p) => asg'[x].shift = req[p].shift
                /\ x \in FilledSlots(p) /\ asg[x].on => x \in ReplacedRows(p)
                /\ x \notin FilledSlots(p) =>
                     asg'[x] = IF x \in ReplacedRows(p) THEN NoRow ELSE asg[x]
                /\ per'[x] = IF x \in FilledSlots(p) THEN req[p].period
                             ELSE IF x \in ReplacedRows(p) THEN NoPeriod ELSE per[x]
  <2>1. Confined(p, ReplacedRows(p))
    <3>1. ASSUME NEW x \in Slot, asg[x].on, x \notin ReplacedRows(p)
          PROVE  asg'[x].on /\ per'[x] = per[x]
      BY <1>5, <3>1
    <3>2. ASSUME NEW x \in Slot, asg'[x].on, per'[x] # req[p].period
          PROVE  asg[x].on /\ asg'[x] = asg[x] /\ per'[x] = per[x]
      BY <1>5, <3>2, NoRowTyped
    <3> QED BY <3>1, <3>2, <1>2 DEF Confined
  <2>2. ASSUME req[p].period \notin raced, NEW x \in Slot, asg'[x].on, asg'[x].shift # NoShift,
               per'[x] = req[p].period
        PROVE  asg'[x].shift \in links'[req[p].period]
    <3>1. req[p].shift \in links[req[p].period]
      BY <1>3, <2>2 DEF LinkInv, LinkFits
    <3>2. CASE x \in FilledSlots(p)
      BY <1>2, <1>5, <3>1, <3>2
    <3>3. CASE x \notin FilledSlots(p)
      <4>1. asg'[x] = asg[x] /\ per'[x] = per[x]
        BY <1>5, <2>2, <3>3, NoRowTyped
      <4> QED BY <4>1, <1>2, <2>2 DEF LinkInv, RowsAreLinked
    <3> QED BY <3>2, <3>3
  <2> QED BY <1>1, <1>2, <1>3, <1>5, <2>1, <2>2, IdleLinks, LinkStep
<1> QED BY <1>4, <1>5, RowsReplaced DEF LinkInv

LEMMA LinkFail ==
    ASSUME LinkInv, NEW p \in Proc, Fail(p)
    PROVE  LinkInv'
<1>1. Typed' /\ req'[p] = Idle /\ Others(p, {})
  BY Failed DEF LinkInv
<1>2. InFlight(p) /\ UNCHANGED <<status, links, asg, per, raced>>
  BY DEF Fail, tables, Steady
<1> QED BY <1>1, <1>2, IdleLinks, LinkQuiet

LEMMA LinkStart ==
    ASSUME LinkInv, NEW p \in Proc, NEW t \in Period, StartStep(p, t)
    PROVE  LinkInv'
<1>1. Typed' /\ Started(p, t)
  BY RequestStarts DEF LinkInv
<1>2. /\ \A q \in Proc \ {p} : /\ Task(req'[q], req[q]) /\ Held(req'[q], req[q])
                               /\ req'[q].pc = req[q].pc /\ req'[q].gone = req[q].gone
      /\ Starts(req'[p], t)
      /\ UNCHANGED tables
      /\ raced \subseteq raced'
      /\ (\E q \in Proc \ {p} : req[q].period = t) => t \in raced'
  BY <1>1 DEF Started
<1>3. OneAtATime'
  <2>1. ASSUME NEW a \in Proc, NEW b \in Proc, a # b, req'[a].period = req'[b].period
        PROVE  req'[a].period \in raced' \cup {NoPeriod}
    BY <2>1, <1>2 DEF LinkInv, OneAtATime, Task, Starts
  <2> QED BY <2>1 DEF OneAtATime
<1>4. LockedAlone'
  <2>1. ASSUME NEW q \in Proc, req'[q].period \in Period \ raced'
        PROVE  status'[req'[q].period] # "LOCKED"
    <3>1. CASE q = p
      BY <3>1, <1>1 DEF Started, Starts, tables
    <3>2. CASE q # p
      BY <2>1, <3>2, <1>2 DEF LinkInv, LockedAlone, Task, tables
    <3> QED BY <3>1, <3>2
  <2> QED BY <2>1 DEF LockedAlone
<1>5. RowsHavePeriod' /\ RowsAreLinked'
  BY <1>2 DEF LinkInv, RowsHavePeriod, RowsAreLinked, tables
<1>6. ASSUME NEW q \in Proc PROVE (LinkFits(q) /\ SeenFits(q))'
  <2>1. CASE q = p
    BY <2>1, <1>2 DEF Starts, StartPcs, LinkFits, SeenFits, AssignPcs
  <2>2. CASE q # p
    <3>1. LinkFits(q) /\ SeenFits(q) /\ Task(req'[q], req[q]) /\ Held(req'[q], req[q])
          /\ req'[q].pc = req[q].pc /\ req'[q].gone = req[q].gone
      BY <2>2, <1>2 DEF LinkInv
    <3> QED BY <3>1, <1>2 DEF LinkFits, SeenFits, Task, Held, Owns, tables
  <2> QED BY <2>1, <2>2
<1> QED BY <1>1, <1>3, <1>4, <1>5, <1>6 DEF LinkInv

LEMMA LinkCreatePeriod ==
    ASSUME LinkInv, NEW t \in Period, CreatePeriod(t)
    PROVE  LinkInv'
<1>1. Typed' /\ UNCHANGED <<links, asg, per, req, raced>>
  BY PeriodCreated DEF LinkInv, CreatePeriod
<1>2. LockedAlone'
  BY <1>1 DEF CreatePeriod, LinkInv, LockedAlone, Typed, TypeOK
<1> QED BY <1>1, <1>2 DEF LinkInv, OneAtATime, RowsHavePeriod, RowsAreLinked, LinkFits, SeenFits, Owns

LEMMA LinkClock ==
    ASSUME LinkInv, NEW x \in Slot, Clock(x)
    PROVE  LinkInv'
<1>1. /\ Typed' /\ UNCHANGED <<status, links, asg, per, raced>>
      /\ \A q \in Proc : /\ Task(req'[q], req[q]) /\ Held(req'[q], req[q])
                         /\ req'[q].pc = req[q].pc /\ req'[q].gone = req[q].gone
  BY Clocked DEF LinkInv, Clock
<1>2. OneAtATime' /\ LockedAlone'
  BY <1>1 DEF LinkInv, OneAtATime, LockedAlone, Task
<1>3. RowsHavePeriod' /\ RowsAreLinked'
  BY <1>1 DEF LinkInv, RowsHavePeriod, RowsAreLinked
<1>4. ASSUME NEW q \in Proc PROVE (LinkFits(q) /\ SeenFits(q))'
  <2>1. LinkFits(q) /\ SeenFits(q)
    BY DEF LinkInv
  <2> QED BY <2>1, <1>1 DEF LinkFits, SeenFits, Task, Held, Owns
<1> QED BY <1>1, <1>2, <1>3, <1>4 DEF LinkInv

LEMMA LinkInit == Init => LinkInv
<1> SUFFICES ASSUME Init PROVE LinkInv
  OBVIOUS
<1>1. \A q \in Proc : req[q] = Idle
  BY DEF Init
<1>2. Typed
  BY <1>1, IdleFits, NoRowTyped, ScheduleAssumption DEF Init, Typed, TypeOK, RequestInv, Status
<1>3. OneAtATime /\ LockedAlone
  BY <1>1, ScheduleAssumption, IdleFits DEF OneAtATime, LockedAlone
<1>4. RowsHavePeriod /\ RowsAreLinked
  BY NoRowTyped DEF Init, RowsHavePeriod, RowsAreLinked
<1>5. \A q \in Proc : LinkFits(q) /\ SeenFits(q)
  BY <1>1, IdleFits, ScheduleAssumption DEF LinkFits, SeenFits
<1> QED BY <1>2, <1>3, <1>4, <1>5 DEF LinkInv

LEMMA LinkNext == LinkInv /\ [Next]_vars => LinkInv'
<1> SUFFICES ASSUME LinkInv, [Next]_vars PROVE LinkInv'
  OBVIOUS
<1>1. ASSUME NEW p \in Proc, RunStep(p) PROVE LinkInv'
  BY <1>1, LinkStatus, LinkCount, LinkDropRows, LinkDropLinks, LinkDropPeriod, LinkLinkShift,
     LinkConflicts, LinkTake, LinkExisting, LinkCreate, LinkReadRows, LinkWrite, LinkSource,
     LinkReplace DEF RunStep
<1>2. CASE UNCHANGED vars
  BY <1>2 DEF vars, tables, LinkInv, Typed, TypeOK, RequestInv, OneAtATime, LockedAlone,
              RowsHavePeriod, RowsAreLinked, LinkFits, SeenFits, Owns
<1> QED BY <1>1, <1>2, LinkFail, LinkStart, LinkCreatePeriod, LinkClock DEF Next

LEMMA LinkAlways == Spec => []LinkInv
  BY LinkInit, LinkNext, PTL DEF Spec

\* Every row is a row of a period that shows its shift, and the tables keep their
\* types, whatever requests are made, interleaved and abandoned: only two requests
\* on one period at the same time can leave a row whose shift the schedule hides.
THEOREM RowsStayLinked == Spec => []RowsInv
<1>1. LinkInv => RowsInv
  BY DEF LinkInv, Typed, RowsInv
<1> QED BY <1>1, LinkAlways, PTL

-----------------------------------------------------------------------------
(* A locked period keeps its rows.                                         *)

LEMMA LockedStep ==
    ASSUME LinkInv, Next, NEW x \in Slot, asg[x].on, per[x] \notin raced, status[per[x]] = "LOCKED"
    PROVE  \/ asg'[x] = asg[x] /\ per'[x] = per[x]
           \/ \E p \in Proc : req[p].period # per[x] /\ (TakeRows(p) \/ ReplaceRows(p))
<1>1. \A p \in Proc : req[p].period # per[x]
  BY DEF LinkInv, RowsHavePeriod, LockedAlone
<1>2. ASSUME NEW p \in Proc, RunStep(p) \/ Fail(p)
      PROVE  \/ asg'[x] = asg[x] /\ per'[x] = per[x]
             \/ TakeRows(p) \/ ReplaceRows(p)
  <2>1. CASE \/ SetStatus(p) \/ CountAttendance(p) \/ DropLinks(p) \/ LinkShift(p) \/ ReadConflicts(p)
             \/ ReadExisting(p) \/ ReadRows(p) \/ ReadSource(p) \/ Fail(p)
    BY <2>1 DEF SetStatus, CountAttendance, DropLinks, LinkShift, ReadConflicts, ReadExisting,
                ReadRows, ReadSource, Fail, tables
  <2>2. CASE DropRows(p)
    <3>1. Erase(DroppedRows(p))
      BY <2>2, RowsDropped DEF LinkInv
    <3> QED BY <3>1, <1>1 DEF Erase, DroppedRows, Owns
  <2>3. CASE DropPeriod(p)
    <3>1. Erase(LeftRows(p))
      BY <2>3, PeriodDropped DEF LinkInv
    <3> QED BY <3>1, <1>1 DEF Erase, LeftRows, Owns
  <2>4. CASE CreateRows(p)
    <3>1. x \notin CreatedRows(p)
      BY DEF CreatedRows, Fillable
    <3> QED BY <3>1, <2>4, RowsCreated DEF LinkInv
  <2>5. CASE WriteShift(p)
    <3>1. ~ req[p].gone => x \notin req[p].seen
      BY <1>1, <2>5 DEF LinkInv, SeenFits, Owns, WriteShift, At
    <3>2. per' = per /\ (asg'[x] = asg[x] \/ (~ req[p].gone /\ x \in req[p].seen))
      BY <2>5, ShiftWritten DEF LinkInv, WriteShift
    <3> QED BY <3>1, <3>2
  <2> QED BY <1>2, <2>1, <2>2, <2>3, <2>4, <2>5 DEF RunStep
<1>3. ASSUME NEW p \in Proc, NEW t \in Period, StartStep(p, t)
      PROVE  asg'[x] = asg[x] /\ per'[x] = per[x]
  BY <1>3, RequestStarts DEF LinkInv, Started, tables
<1> QED BY <1>1, <1>2, <1>3 DEF Next, CreatePeriod, Clock

\* A locked period keeps its rows as they are: only a request of another period that
\* takes the day can delete one, however requests interleave, unless two requests
\* were working on the period when it was locked.
THEOREM LockedRowsAreKept == Spec => LockedOnlyTaken
<1>1. LinkInv /\ [Next]_vars =>
        [\A x \in Slot : asg[x].on /\ per[x] \notin raced /\ status[per[x]] = "LOCKED"
         => \/ asg'[x] = asg[x] /\ per'[x] = per[x]
            \/ \E p \in Proc : req[p].period # per[x] /\ (TakeRows(p) \/ ReplaceRows(p))]_vars
  BY LockedStep
<1> QED BY <1>1, LinkAlways, PTL DEF Spec, LockedOnlyTaken

-----------------------------------------------------------------------------
(* Comparing neighbours finds every overlap.                               *)

LEMMA LeastElement ==
    ASSUME NEW S \in SUBSET Nat, S # {}
    PROVE  \E m \in S : \A n \in S : m <= n
<1>1. PICK m \in S : \A n \in S : ~ (<<n, m>> \in OpToRel(<, Nat))
  BY NatLessThanWellFounded, WFMin
<1>2. \A n \in S : ~ (n < m)
  BY <1>1 DEF OpToRel
<1> QED BY <1>2

\* Every shift starts on its day and ends later.
LEMMA ShiftsTakeTime ==
    ASSUME NEW d \in Day, NEW s \in Shift, NEW id
    PROVE  /\ T!RangeStart(<<id, d, s>>) \in Nat /\ T!RangeEnd(<<id, d, s>>) \in Nat
           /\ T!RangeStart(<<id, d, s>>) < T!RangeEnd(<<id, d, s>>)
<1>1. d - 1 \in Nat /\ MinutesPerDay \in Nat
  BY ScheduleAssumption, DayAssumption DEF Day
<1>2. (d - 1) * MinutesPerDay \in Nat
  BY <1>1
<1>3. StartMin[s] \in 0 .. (MinutesPerDay - 1) /\ EndMin[s] \in 0 .. (MinutesPerDay - 1)
  BY ScheduleAssumption
<1>4. T!RangeStart(<<id, d, s>>) = (d - 1) * MinutesPerDay + StartMin[s]
  BY DEF T!RangeStart, T!ScheduledStart, T!Midnight
<1>5. T!RangeEnd(<<id, d, s>>) =
        T!RangeStart(<<id, d, s>>) + T!ShiftSpan(StartMin[s], EndMin[s], T!Crosses(s))
  BY DEF T!RangeEnd
<1>6. T!ShiftSpan(StartMin[s], EndMin[s], T!Crosses(s)) \in Nat \ {0}
  BY <1>1, <1>3 DEF T!ShiftSpan, T!Crosses, T!DetectCrossesMidnight
<1> DEFINE m == (d - 1) * MinutesPerDay
           span == T!ShiftSpan(StartMin[s], EndMin[s], T!Crosses(s))
<1>7. m \in Nat /\ span \in Nat \ {0} /\ T!RangeStart(<<id, d, s>>) = m + StartMin[s]
      /\ T!RangeEnd(<<id, d, s>>) = T!RangeStart(<<id, d, s>>) + span
  BY <1>2, <1>4, <1>5, <1>6
<1> HIDE DEF m, span
<1> QED BY <1>3, <1>7

LEMMA NeighboursSuffice ==
    ASSUME NEW rows,
           \A r \in rows : /\ T!RangeStart(r) \in Nat /\ T!RangeEnd(r) \in Nat
                           /\ T!RangeStart(r) < T!RangeEnd(r)
    PROVE  T!NeighboursOverlap(rows) <=> \E a, b \in rows : Overlap(a, b)
<1>1. ASSUME T!NeighboursOverlap(rows) PROVE \E a, b \in rows : Overlap(a, b)
  <2>1. PICK a \in rows, b \in rows : T!Adjacent(rows, a, b) /\ T!RangeStart(b) < T!RangeEnd(a)
    BY <1>1 DEF T!NeighboursOverlap
  <2>2. a # b /\ T!RangeStart(a) <= T!RangeStart(b)
    BY <2>1 DEF T!Adjacent
  <2>3. Overlap(a, b)
    BY <2>1, <2>2 DEF Overlap
  <2> QED BY <2>3
<1>2. ASSUME NEW a \in rows, NEW b \in rows, Overlap(a, b), T!RangeStart(a) <= T!RangeStart(b)
      PROVE  T!NeighboursOverlap(rows)
  <2> DEFINE later == {c \in rows \ {a} : T!RangeStart(a) <= T!RangeStart(c)}
             starts == {T!RangeStart(c) : c \in later}
  <2>1. b \in later
    BY <1>2 DEF Overlap
  <2>2. starts \in SUBSET Nat /\ starts # {}
    BY <2>1
  <2>3. PICK m \in starts : \A n \in starts : m <= n
    BY <2>2, LeastElement
  <2>4. PICK c \in later : T!RangeStart(c) = m
    BY <2>3
  <2>5. \A d \in later : T!RangeStart(c) <= T!RangeStart(d)
    BY <2>3, <2>4
  <2>6. ASSUME NEW d \in rows \ {a, c}
        PROVE  ~ (T!RangeStart(a) < T!RangeStart(d) /\ T!RangeStart(d) < T!RangeStart(c))
    <3>1. CASE T!RangeStart(a) < T!RangeStart(d)
      <4>1. d \in later
        BY <3>1
      <4> QED BY <4>1, <2>4, <2>5
    <3> QED BY <3>1
  <2>7. T!Adjacent(rows, a, c)
    BY <2>4, <2>6 DEF T!Adjacent
  <2>8. T!RangeStart(c) < T!RangeEnd(a)
    BY <1>2, <2>1, <2>4, <2>5 DEF Overlap
  <2> QED BY <2>4, <2>7, <2>8 DEF T!NeighboursOverlap
<1>3. ASSUME NEW a \in rows, NEW b \in rows, Overlap(a, b)
      PROVE  T!NeighboursOverlap(rows)
  <2>1. Overlap(b, a)
    BY <1>3 DEF Overlap
  <2> QED BY <1>2, <1>3, <2>1
<1> QED BY <1>1, <1>3

LEMMA RowsTakeTime ==
    ASSUME Typed, NEW r \in ReqType, r.shift \in Planned, NEW e \in r.who
    PROVE  \A y \in TimeRows(r, e) :
             /\ T!RangeStart(y) \in Nat /\ T!RangeEnd(y) \in Nat
             /\ T!RangeStart(y) < T!RangeEnd(y)
<1>1. e \in Employee /\ r.days \subseteq Day
  BY DEF ReqType
<1>2. ASSUME NEW d \in r.days, asg[<<e, d>>].shift # NoShift
      PROVE  d \in Day /\ asg[<<e, d>>].shift \in Shift
  <2>1. d \in Day /\ <<e, d>> \in Slot
    BY <1>1 DEF Slot
  <2>2. asg[<<e, d>>] \in Row
    BY <2>1 DEF Typed, TypeOK
  <2> QED BY <1>2, <2>1, <2>2 DEF Row
<1>3. r.shift # "rest" => r.shift \in Shift
  BY DEF Planned
<1>4. ASSUME NEW y \in TimeRows(r, e)
      PROVE  \E id, d, s : d \in Day /\ s \in Shift /\ y = <<id, d, s>>
  <2>1. \/ \E d \in r.days : asg[<<e, d>>].shift # NoShift /\ y = <<"stored", d, asg[<<e, d>>].shift>>
        \/ \E d \in r.days : r.shift # "rest" /\ y = <<"proposed", d, r.shift>>
    BY <1>4 DEF TimeRows
  <2> QED BY <2>1, <1>1, <1>2, <1>3
<1> QED BY <1>4, ShiftsTakeTime

\* Before anything is assigned, comparing each shift with the next one by start finds
\* an overlap of times exactly when some two shifts of the employee overlap, for any
\* shifts, days and lengths of the day, shifts over midnight included.
THEOREM OverlapsAreFound == Spec => []OverlapCheckIsExact
<1>1. ASSUME LinkInv, NEW p \in Proc, At(p, "existing"), NEW e \in req[p].who
      PROVE  T!NeighboursOverlap(TimeRows(req[p], e))
               <=> \E a, b \in TimeRows(req[p], e) : Overlap(a, b)
  <2>1. Typed /\ req[p] \in ReqType /\ req[p].shift \in Planned
    BY <1>1 DEF LinkInv, Typed, TypeOK, RequestInv, RequestFits, OpFits, At, AssignPcs
  <2> QED BY <1>1, <2>1, RowsTakeTime, NeighboursSuffice
<1>2. LinkInv => OverlapCheckIsExact
  BY <1>1 DEF OverlapCheckIsExact
<1> QED BY <1>2, LinkAlways, PTL

-----------------------------------------------------------------------------
(* Requests nothing interferes with: AloneInv.                             *)

\* While an undisturbed request is in flight, every step is its own.
LEMMA AloneStep ==
    ASSUME AloneInv, LinkInv', NEW p \in Proc, InFlight(p), NEW deleted, Others(p, deleted),
           NEW pc, req'[p] = Idle \/ Onward(req'[p], req[p], pc),
           AssignFits(p)', DeleteFits(p)'
    PROVE  AloneInv'
<1>1. \A q \in Proc \ {p} : req'[q].op = req[q].op /\ req'[q].alone = req[q].alone
  BY DEF Others, Task
<1>2. \A q \in Proc \ {p} : InFlight(q) => ~ req[q].alone
  BY DEF AloneInv, AloneIsAlone
<1>3. req'[p].op # "none" => req'[p].alone = req[p].alone
  BY IdleFits DEF Onward
<1>4. AloneIsAlone'
  BY <1>1, <1>2, <1>3 DEF AloneInv, AloneIsAlone, InFlight
<1>5. ASSUME NEW q \in Proc \ {p} PROVE (AssignFits(q) /\ DeleteFits(q))'
  BY <1>1, <1>2 DEF AssignFits, DeleteFits, InFlight
<1>6. \A q \in Proc : (AssignFits(q) /\ DeleteFits(q))'
  BY <1>5
<1> QED BY <1>4, <1>6 DEF AloneInv

LEMMA IdleAlone ==
    ASSUME NEW p \in Proc, req'[p] = Idle
    PROVE  AssignFits(p)' /\ DeleteFits(p)'
  BY IdleFits DEF AssignFits, DeleteFits

\* A request that is neither an assignment nor about to delete a period.
LEMMA OtherTaskAlone ==
    ASSUME NEW p \in Proc, req'[p].op \notin {"assign", "deletePeriod"}
    PROVE  AssignFits(p)' /\ DeleteFits(p)'
  BY DEF AssignFits, DeleteFits

LEMMA AloneReturns ==
    ASSUME AloneInv, LinkInv', NEW p \in Proc,
           SetStatus(p) \/ CreateRows(p) \/ WriteShift(p) \/ ReplaceRows(p) \/ DropPeriod(p) \/ Fail(p)
    PROVE  AloneInv'
<1>1. req'[p] = Idle /\ \E deleted : Others(p, deleted)
  BY StatusSet, RowsCreated, ShiftWritten, RowsReplaced, PeriodDropped, Failed DEF AloneInv, LinkInv
<1>2. InFlight(p)
  BY DEF AloneInv, LinkInv, Typed, RequestInv, RequestFits, OpFits, AssignPcs, InFlight, At, Fail,
         SetStatus, CreateRows, WriteShift, ReplaceRows, DropPeriod
<1> QED BY <1>1, <1>2, IdleAlone, AloneStep

LEMMA AloneDeletes ==
    ASSUME AloneInv, LinkInv', NEW p \in Proc, CountAttendance(p) \/ DropRows(p) \/ DropLinks(p)
    PROVE  AloneInv'
<1>1. RequestFits(req[p]) /\ InFlight(p) /\ DeleteFits(p)
  BY DEF AloneInv, LinkInv, Typed, RequestInv, RequestFits, OpFits, InFlight, At,
         CountAttendance, DropRows, DropLinks
<1>2. req[p].pc \in {"count", "dropRows", "dropLinks"} /\ req[p].op \in {"removeShift", "delete", "deletePeriod"}
  BY <1>1 DEF RequestFits, OpFits, At, CountAttendance, DropRows, DropLinks
<1>3. CASE CountAttendance(p)
  <2>1. /\ Others(p, {})
        /\ \/ req'[p] = Idle
           \/ ~ Attended(req[p].period) /\ Onward(req'[p], req[p], "dropRows")
    BY <1>3, AttendanceCounted DEF AloneInv, LinkInv
  <2>2. UNCHANGED <<asg, per, clocked>>
    BY <1>3 DEF CountAttendance, tables
  <2>3. AssignFits(p)' /\ DeleteFits(p)'
    <3>1. CASE req'[p] = Idle
      BY <3>1, IdleAlone
    <3>2. CASE ~ Attended(req[p].period) /\ Onward(req'[p], req[p], "dropRows")
      <4>1. ~ Attended(req[p].period)'
        BY <3>2, <2>2 DEF Onward, Task, Attended, Owns
      <4> QED BY <4>1, <3>2, <1>2 DEF Onward, Task, AssignFits, DeleteFits
    <3> QED BY <2>1, <3>1, <3>2
  <2> QED BY <2>1, <2>3, <1>1, AloneStep
<1>4. CASE DropRows(p)
  <2>1. /\ Others(p, DroppedRows(p)) /\ Erase(DroppedRows(p))
        /\ req'[p] = Idle \/ Onward(req'[p], req[p], "dropLinks")
    BY <1>4, RowsDropped DEF AloneInv, LinkInv
  <2>2. clocked' = clocked /\ clocked \subseteq Slot
    BY <1>4 DEF DropRows, AloneInv, LinkInv, Typed, TypeOK
  <2>3. \A x \in Slot : asg'[x].on => asg[x].on /\ per'[x] = per[x]
    BY <2>1, NoRowTyped DEF Erase
  <2>4. AssignFits(p)' /\ DeleteFits(p)'
    <3>1. CASE req'[p] = Idle
      BY <3>1, IdleAlone
    <3>2. CASE Onward(req'[p], req[p], "dropLinks")
      <4>1. ~ Attended(req[p].period) => ~ Attended(req[p].period)'
        BY <3>2, <2>2, <2>3 DEF Onward, Task, Attended, Owns
      <4> QED BY <4>1, <3>2, <1>1, <1>2, <1>4 DEF Onward, Task, AssignFits, DeleteFits, DropRows, At
    <3> QED BY <2>1, <3>1, <3>2
  <2> QED BY <2>1, <2>4, <1>1, AloneStep
<1>5. CASE DropLinks(p)
  <2>1. /\ Others(p, {})
        /\ req'[p] = Idle \/ Onward(req'[p], req[p], "dropPeriod")
    BY <1>5, LinksDropped DEF AloneInv, LinkInv
  <2>2. UNCHANGED <<asg, per, clocked>>
    BY <1>5 DEF DropLinks
  <2>3. AssignFits(p)' /\ DeleteFits(p)'
    <3>1. CASE req'[p] = Idle
      BY <3>1, IdleAlone
    <3>2. CASE Onward(req'[p], req[p], "dropPeriod")
      <4>1. Attended(req[p].period)' = Attended(req[p].period)
        BY <3>2, <2>2 DEF Onward, Task, Attended, Owns
      <4> QED BY <4>1, <3>2, <1>1, <1>2, <1>5 DEF Onward, Task, AssignFits, DeleteFits, DropLinks, At
    <3> QED BY <2>1, <3>1, <3>2
  <2> QED BY <2>1, <2>3, <1>1, AloneStep
<1> QED BY <1>3, <1>4, <1>5

LEMMA AloneLinks ==
    ASSUME AloneInv, LinkInv', NEW p \in Proc, LinkShift(p) \/ ReadRows(p) \/ ReadSource(p)
    PROVE  AloneInv'
<1>1. RequestFits(req[p]) /\ InFlight(p) /\ AssignFits(p)
  BY DEF AloneInv, LinkInv, Typed, RequestInv, RequestFits, OpFits, InFlight, At,
         LinkShift, ReadRows, ReadSource
<1>2. CASE LinkShift(p)
  <2>1. /\ Others(p, {})
        /\ \/ req'[p] = Idle
           \/ /\ Onward(req'[p], req[p], "conflicts") \/ Onward(req'[p], req[p], "rows")
              /\ Held(req'[p], req[p])
    BY <1>2, ShiftLinked DEF AloneInv, LinkInv
  <2>2. req[p].op \in {"addShift", "changeShift", "assign"} /\ req[p].pc = "link" /\ status' = status
    BY <1>1, <1>2 DEF RequestFits, OpFits, LinkShift, At
  <2>3. CASE req'[p] = Idle
    BY <2>1, <2>3, <1>1, IdleAlone, AloneStep
  <2>4. CASE req'[p] # Idle
    <3>1. PICK pc \in {"conflicts", "rows"} : Onward(req'[p], req[p], pc) /\ Held(req'[p], req[p])
      BY <2>1, <2>4
    <3>2. AssignFits(p)' /\ DeleteFits(p)'
      BY <3>1, <2>2, <1>1 DEF Onward, Task, Held, AssignFits, DeleteFits
    <3> QED BY <2>1, <3>1, <3>2, <1>1, AloneStep
  <2> QED BY <2>3, <2>4
<1>3. CASE ReadRows(p)
  <2>1. Others(p, {}) /\ (req'[p] = Idle \/ Onward(req'[p], req[p], "write"))
    BY <1>3, RowsRead DEF AloneInv, LinkInv
  <2>2. req[p].op = "changeShift"
    BY <1>1, <1>3 DEF RequestFits, OpFits, ReadRows, At
  <2>3. AssignFits(p)' /\ DeleteFits(p)'
    BY <2>1, <2>2, IdleAlone, OtherTaskAlone DEF Onward, Task
  <2> QED BY <2>1, <2>3, <1>1, AloneStep
<1>4. CASE ReadSource(p)
  <2>1. Others(p, {}) /\ (req'[p] = Idle \/ Onward(req'[p], req[p], "replace"))
    BY <1>4, SourceRead DEF AloneInv, LinkInv
  <2>2. req[p].op = "substitute"
    BY <1>1, <1>4 DEF RequestFits, OpFits, ReadSource, At
  <2>3. AssignFits(p)' /\ DeleteFits(p)'
    BY <2>1, <2>2, IdleAlone, OtherTaskAlone DEF Onward, Task
  <2> QED BY <2>1, <2>3, <1>1, AloneStep
<1> QED BY <1>2, <1>3, <1>4

LEMMA AloneConflicts ==
    ASSUME AloneInv, LinkInv', NEW p \in Proc, ReadConflicts(p)
    PROVE  AloneInv'
<1>1. /\ Others(p, {})
      /\ \/ req'[p] = Idle
         \/ Onward(req'[p], req[p], "take") /\ Held(req'[p], req[p])
         \/ Onward(req'[p], req[p], "existing") /\ req'[p].taken = req[p].taken
  BY ConflictsRead DEF AloneInv, LinkInv
<1>2. /\ InFlight(p) /\ AssignFits(p) /\ req[p].op = "assign" /\ req[p].pc = "conflicts"
      /\ status' = status
  BY DEF AloneInv, LinkInv, Typed, RequestInv, RequestFits, OpFits, InFlight, At, AssignPcs,
         ReadConflicts, tables
<1>3. CASE req'[p] = Idle
  BY <1>1, <1>2, <1>3, IdleAlone, AloneStep
<1>4. CASE Onward(req'[p], req[p], "take") /\ Held(req'[p], req[p])
  <2>1. AssignFits(p)' /\ DeleteFits(p)'
    BY <1>2, <1>4 DEF Onward, Task, Held, AssignFits, DeleteFits
  <2> QED BY <1>1, <1>2, <1>4, <2>1, AloneStep
<1>5. CASE Onward(req'[p], req[p], "existing") /\ req'[p].taken = req[p].taken
  <2>1. AssignFits(p)' /\ DeleteFits(p)'
    BY <1>2, <1>5 DEF Onward, Task, AssignFits, DeleteFits
  <2> QED BY <1>1, <1>2, <1>5, <2>1, AloneStep
<1> QED BY <1>1, <1>3, <1>4, <1>5

LEMMA AloneTakes ==
    ASSUME AloneInv, LinkInv', NEW p \in Proc, TakeRows(p)
    PROVE  AloneInv'
<1>1. /\ Others(p, TakenRows(p)) /\ Erase(TakenRows(p)) /\ Onward(req'[p], req[p], "existing")
      /\ req'[p].taken = TakenRows(p) /\ req'[p].blocked = req[p].blocked
      /\ TakenRows(p) \subseteq Slots(req[p].who, req[p].days)
  BY RowsTaken DEF AloneInv, LinkInv
<1>2. /\ InFlight(p) /\ AssignFits(p) /\ req[p].op = "assign" /\ req[p].pc = "take"
      /\ status' = status /\ req[p] \in ReqType
  BY DEF AloneInv, LinkInv, Typed, TypeOK, RequestInv, RequestFits, OpFits, InFlight, At, AssignPcs,
         TakeRows
<1>3. \A x \in TakenRows(p) : ~ asg'[x].on
  <2>1. TakenRows(p) \subseteq Slot
    BY <1>1, <1>2 DEF Slots, Slot, ReqType
  <2> QED BY <1>1, <2>1, NoRowTyped DEF Erase
<1>4. DeleteFits(p)'
  BY <1>1, <1>2 DEF Onward, Task, DeleteFits
<1>5. AssignFits(p)'
  <2>1. Slots(req'[p].who, req'[p].days) = Slots(req[p].who, req[p].days)
    BY <1>1 DEF Onward, Task
  <2> QED BY <1>1, <1>2, <1>3, <2>1 DEF Onward, Task, AssignFits, Slots
<1> QED BY <1>1, <1>2, <1>4, <1>5, AloneStep

LEMMA AloneExisting ==
    ASSUME AloneInv, LinkInv', NEW p \in Proc, ReadExisting(p)
    PROVE  AloneInv'
<1>1. /\ Others(p, {})
      /\ \/ req'[p] = Idle
         \/ /\ ~ TimesOverlap(req[p])
            /\ Onward(req'[p], req[p], "create") /\ req'[p].fresh = Fresh(req[p])
            /\ req'[p].taken = req[p].taken /\ req'[p].blocked = req[p].blocked
  BY ExistingRead DEF AloneInv, LinkInv
<1>2. /\ InFlight(p) /\ AssignFits(p) /\ req[p].op = "assign" /\ req[p].pc = "existing"
      /\ UNCHANGED <<status, asg, per>>
  BY DEF AloneInv, LinkInv, Typed, RequestInv, RequestFits, OpFits, InFlight, At, AssignPcs,
         ReadExisting, tables
<1>3. CASE req'[p] = Idle
  BY <1>1, <1>2, <1>3, IdleAlone, AloneStep
<1>4. CASE req'[p] # Idle
  <2>1. /\ Onward(req'[p], req[p], "create") /\ req'[p].fresh = Fresh(req[p])
        /\ req'[p].taken = req[p].taken /\ req'[p].blocked = req[p].blocked
        /\ ~ TimesOverlap(req[p])
    BY <1>1, <1>4
  <2>2. Fresh(req[p])' = Fresh(req[p])
    BY <2>1, <1>2 DEF Onward, Task, Fresh, Owns, Slots
  <2>3. \A e : TimeRows(req[p], e)' = TimeRows(req[p], e)
    <3>1. req'[p].days = req[p].days /\ req'[p].shift = req[p].shift
      BY <2>1 DEF Onward, Task
    <3> QED BY <2>2, <3>1, <1>2 DEF TimeRows
  <2>4. ~ TimesOverlap(req[p])'
    <3>1. req'[p].who = req[p].who
      BY <2>1 DEF Onward, Task
    <3> QED BY <2>1, <2>3, <3>1 DEF TimesOverlap
  <2>5. AssignFits(p)'
    <3>1. Slots(req[p].who, req[p].days)' = Slots(req[p].who, req[p].days)
      BY <2>1 DEF Onward, Task, Slots
    <3> QED BY <1>2, <2>1, <2>2, <2>4, <3>1 DEF Onward, Task, AssignFits
  <2>6. DeleteFits(p)'
    BY <1>2, <2>1 DEF Onward, Task, DeleteFits
  <2> QED BY <1>1, <1>2, <2>1, <2>5, <2>6, AloneStep
<1> QED BY <1>3, <1>4

LEMMA AloneStart ==
    ASSUME AloneInv, LinkInv', NEW p \in Proc, NEW t \in Period, StartStep(p, t)
    PROVE  AloneInv'
<1>1. Started(p, t)
  BY RequestStarts DEF AloneInv, LinkInv
<1>2. \A q \in Proc \ {p} : req'[q].op = req[q].op /\ req'[q].alone = ~ InFlight(q)
  BY <1>1 DEF Started, Task
<1>3. AloneIsAlone'
  <2>1. ASSUME NEW a \in Proc, NEW b \in Proc, a # b, req'[a].op # "none", req'[a].alone
        PROVE  req'[b].op = "none"
    <3>1. a = p
      BY <2>1, <1>2 DEF InFlight
    <3>2. ~ InFlight(b)
      BY <2>1, <3>1, <1>1 DEF Started
    <3> QED BY <2>1, <3>1, <3>2, <1>2 DEF InFlight
  <2> QED BY <2>1 DEF AloneIsAlone, InFlight
<1>4. ASSUME NEW q \in Proc PROVE (AssignFits(q) /\ DeleteFits(q))'
  <2>1. CASE q # p
    BY <2>1, <1>2 DEF AssignFits, DeleteFits, InFlight
  <2>2. CASE q = p
    <3>1. Starts(req'[p], t) /\ status'[t] # "gone"
      BY <1>1 DEF Started, tables
    <3> QED BY <2>2, <3>1 DEF Starts, StartPcs, AssignFits, DeleteFits
  <2> QED BY <2>1, <2>2
<1> QED BY <1>3, <1>4 DEF AloneInv

LEMMA AloneCreatePeriod ==
    ASSUME AloneInv, LinkInv', NEW t \in Period, CreatePeriod(t)
    PROVE  AloneInv'
<1>1. UNCHANGED <<asg, per, req, clocked>>
  BY DEF CreatePeriod
<1>2. \A s \in Period : status[s] # "gone" => status'[s] # "gone"
  BY DEF CreatePeriod, AloneInv, LinkInv, Typed, TypeOK
<1>3. AloneIsAlone'
  BY <1>1 DEF AloneInv, AloneIsAlone, InFlight
<1>4. ASSUME NEW q \in Proc PROVE (AssignFits(q) /\ DeleteFits(q))'
  <2>1. AssignFits(q) /\ DeleteFits(q) /\ (req[q].op # "none" => req[q].period \in Period)
    BY DEF AloneInv, LinkInv, Typed, RequestInv, RequestFits
  <2>2. DeleteFits(q)'
    BY <2>1, <1>1 DEF DeleteFits, Attended, Owns
  <2>3. Fresh(req[q])' = Fresh(req[q]) /\ TimesOverlap(req[q])' = TimesOverlap(req[q])
    BY <1>1 DEF Fresh, Slots, Owns, TimesOverlap, TimeRows
  <2>4. AssignFits(q)'
    BY <2>1, <2>3, <1>1, <1>2 DEF AssignFits
  <2> QED BY <2>2, <2>4
<1> QED BY <1>3, <1>4 DEF AloneInv

LEMMA AloneClock ==
    ASSUME AloneInv, LinkInv', NEW x \in Slot, Clock(x)
    PROVE  AloneInv'
<1>1. \A q \in Proc : req'[q].op = req[q].op /\ req'[q].alone = ~ InFlight(q)
  BY Clocked DEF AloneInv, LinkInv, Task
<1> QED BY <1>1 DEF AloneInv, AloneIsAlone, AssignFits, DeleteFits, InFlight

LEMMA AloneInit == Init => AloneInv
<1> SUFFICES ASSUME Init PROVE AloneInv
  OBVIOUS
<1>1. \A q \in Proc : req[q].op = "none"
  BY IdleFits DEF Init
<1> QED BY <1>1, LinkInit DEF AloneInv, AloneIsAlone, AssignFits, DeleteFits, InFlight

LEMMA AloneNext == AloneInv /\ LinkInv' /\ [Next]_vars => AloneInv'
<1> SUFFICES ASSUME AloneInv, LinkInv', [Next]_vars PROVE AloneInv'
  OBVIOUS
<1>1. ASSUME NEW p \in Proc, RunStep(p) PROVE AloneInv'
  BY <1>1, AloneReturns, AloneDeletes, AloneLinks, AloneConflicts, AloneTakes, AloneExisting DEF RunStep
<1>2. CASE UNCHANGED vars
  <2>1. UNCHANGED <<status, asg, per, req, clocked>>
    BY <1>2 DEF vars, tables
  <2>2. ASSUME NEW q \in Proc PROVE (AssignFits(q) /\ DeleteFits(q))'
    <3>1. AssignFits(q) /\ DeleteFits(q)
      BY DEF AloneInv
    <3>2. Fresh(req[q])' = Fresh(req[q]) /\ TimesOverlap(req[q])' = TimesOverlap(req[q])
      BY <2>1 DEF Fresh, Slots, Owns, TimesOverlap, TimeRows
    <3> QED BY <3>1, <3>2, <2>1 DEF AssignFits, DeleteFits, Attended, Owns
  <2>3. AloneIsAlone'
    BY <2>1 DEF AloneInv, AloneIsAlone, InFlight
  <2> QED BY <2>2, <2>3 DEF AloneInv
<1>3. ASSUME NEW p \in Proc, Fail(p) PROVE AloneInv'
  BY <1>3, AloneReturns
<1> QED BY <1>1, <1>2, <1>3, AloneStart, AloneCreatePeriod, AloneClock DEF Next

LEMMA AloneAlways == Spec => []AloneInv
  BY AloneInit, AloneNext, LinkAlways, PTL DEF Spec

-----------------------------------------------------------------------------
(* What an undisturbed request does.                                       *)

LEMMA DeletingKeepsClocked ==
    ASSUME AloneInv, NEW p \in Proc, req[p].op = "deletePeriod", req[p].alone,
           DropRows(p) \/ DropPeriod(p), NEW x \in clocked, asg[x].on
    PROVE  asg'[x].on
<1>1. x \in Slot /\ ~ Attended(req[p].period)
  BY DEF AloneInv, LinkInv, Typed, TypeOK, DeleteFits, DropRows, DropPeriod, At
<1>2. ~ Owns(req[p].period, x)
  BY <1>1 DEF Attended
<1>3. CASE DropRows(p)
  <2>1. Erase(DroppedRows(p)) /\ x \notin DroppedRows(p)
    BY <1>2, <1>3, RowsDropped DEF AloneInv, LinkInv, DroppedRows
  <2> QED BY <2>1, <1>1 DEF Erase
<1>4. CASE DropPeriod(p)
  <2>1. Erase(LeftRows(p)) /\ x \notin LeftRows(p)
    BY <1>2, <1>4, PeriodDropped DEF AloneInv, LinkInv, LeftRows
  <2> QED BY <2>1, <1>1 DEF Erase
<1> QED BY <1>3, <1>4

\* Deleting a period takes no row of a day somebody has clocked on, unless another
\* request or a clock-in came while the period was being deleted.
THEOREM ClockedRowsAreKept == Spec => ClockedIsKept
<1>1. AloneInv /\ [Next]_vars =>
        [\A p \in Proc : req[p].op = "deletePeriod" /\ req[p].alone /\ (DropRows(p) \/ DropPeriod(p))
         => \A x \in clocked : asg[x].on => asg'[x].on]_vars
  BY DeletingKeepsClocked
<1> QED BY <1>1, AloneAlways, PTL DEF Spec, ClockedIsKept

\* The shifts an employee works after an assignment are those that were checked.
LEMMA WorkedWasChecked ==
    ASSUME AloneInv, NEW p \in Proc, At(p, "create"), CreateRows(p), req[p].alone,
           NEW e \in req[p].who, NEW d \in req[p].days, Works(asg'[<<e, d>>])
    PROVE  \E id : <<id, d, asg'[<<e, d>>].shift>> \in TimeRows(req[p], e)
<1> DEFINE x == <<e, d>>
<1>1. /\ req[p] \in ReqType /\ req[p].op = "assign" /\ req[p].shift \in Planned
      /\ req[p].fresh = Fresh(req[p]) /\ x \in Slot
  BY DEF AloneInv, LinkInv, Typed, TypeOK, RequestInv, RequestFits, OpFits, At, AssignPcs,
         AssignFits, ReqType, Slot
<1>2. asg'[x] = IF x \in CreatedRows(p) THEN PlannedRow(req[p].shift) ELSE asg[x]
  BY <1>1, RowsCreated DEF AloneInv, LinkInv
<1>3. CASE x \in CreatedRows(p)
  <2>1. x \in Fresh(req[p])
    BY <1>1, <1>3 DEF CreatedRows, Fillable
  <2>2. req[p].shift # "rest" /\ asg'[x].shift = req[p].shift
    BY <1>1, <1>2, <1>3, PlannedRowTyped DEF Works
  <2>3. <<"proposed", d, req[p].shift>> \in TimeRows(req[p], e)
    BY <2>1, <2>2 DEF TimeRows
  <2> QED BY <2>2, <2>3
<1>4. CASE x \notin CreatedRows(p)
  <2>1. asg'[x] = asg[x] /\ asg[x].on /\ asg[x].shift # NoShift
    BY <1>2, <1>4 DEF Works
  <2>2. <<"stored", d, asg[x].shift>> \in TimeRows(req[p], e)
    BY <2>1 DEF TimeRows
  <2> QED BY <2>1, <2>2
<1> QED BY <1>3, <1>4

LEMMA AssigningIsSound ==
    ASSUME AloneInv, NEW p \in Proc, At(p, "create"), CreateRows(p), req[p].alone
    PROVE  /\ \A e \in req[p].who :
                LET rows == {<<"stored", d, asg'[<<e, d>>].shift>> :
                               d \in {k \in req[p].days : Works(asg'[<<e, k>>])}}
                IN ~ \E a, b \in rows : Overlap(a, b)
           /\ \A x \in req[p].taken : asg'[x].on
<1>1. /\ req[p] \in ReqType /\ req[p].op = "assign" /\ req[p].shift \in Planned
      /\ req[p].fresh = Fresh(req[p]) /\ ~ TimesOverlap(req[p]) /\ Typed
      /\ AssignFits(p)
  BY DEF AloneInv, LinkInv, Typed, TypeOK, RequestInv, RequestFits, OpFits, At, AssignPcs, AssignFits
<1>2. ASSUME NEW e \in req[p].who, NEW a, NEW b, Overlap(a, b),
             NEW d \in req[p].days, Works(asg'[<<e, d>>]), a = <<"stored", d, asg'[<<e, d>>].shift>>,
             NEW k \in req[p].days, Works(asg'[<<e, k>>]), b = <<"stored", k, asg'[<<e, k>>].shift>>
      PROVE  FALSE
  <2>1. PICK i : <<i, d, asg'[<<e, d>>].shift>> \in TimeRows(req[p], e)
    BY <1>2, WorkedWasChecked
  <2>2. PICK j : <<j, k, asg'[<<e, k>>].shift>> \in TimeRows(req[p], e)
    BY <1>2, WorkedWasChecked
  <2>3. d # k
    BY <1>2 DEF Overlap
  <2> DEFINE a0 == <<i, d, asg'[<<e, d>>].shift>>
             b0 == <<j, k, asg'[<<e, k>>].shift>>
  <2>4. /\ T!RangeStart(a0) = T!RangeStart(a) /\ T!RangeEnd(a0) = T!RangeEnd(a)
        /\ T!RangeStart(b0) = T!RangeStart(b) /\ T!RangeEnd(b0) = T!RangeEnd(b)
    BY <1>2 DEF T!RangeStart, T!RangeEnd
  <2>5. Overlap(a0, b0)
    BY <1>2, <2>3, <2>4 DEF Overlap
  <2>6. \E u, v \in TimeRows(req[p], e) : Overlap(u, v)
    BY <2>1, <2>2, <2>5
  <2>7. T!NeighboursOverlap(TimeRows(req[p], e))
    BY <2>6, <1>1, RowsTakeTime, NeighboursSuffice
  <2> QED BY <2>7, <1>1 DEF TimesOverlap
<1>3. ASSUME NEW x \in req[p].taken PROVE asg'[x].on
  <2>1. /\ status[req[p].period] # "gone" /\ req[p].blocked = {}
        /\ x \in Slots(req[p].who, req[p].days) /\ ~ asg[x].on
    BY <1>1 DEF AssignFits
  <2>2. x \in CreatedRows(p)
    BY <2>1, <1>1 DEF CreatedRows, Fillable, Fresh, Owns
  <2>3. x \in Slot
    BY <2>1, <1>1 DEF Slots, Slot, ReqType
  <2> QED BY <2>2, <2>3, <1>1, RowsCreated, PlannedRowTyped
<1> QED BY <1>2, <1>3

\* After an assignment nothing interfered with, no two shifts of an employee on the
\* days of the request overlap in time, and every day taken from another period is
\* planned again: nobody loses a day to a reassignment that went through.
THEOREM AssignmentsAreSound == Spec => AssignedIsSound
<1>1. AloneInv /\ [Next]_vars =>
        [\A p \in Proc : At(p, "create") /\ CreateRows(p) /\ req[p].alone =>
         /\ \A e \in req[p].who :
              LET rows == {<<"stored", d, asg'[<<e, d>>].shift>> :
                             d \in {k \in req[p].days : Works(asg'[<<e, k>>])}}
              IN ~ \E a, b \in rows : Overlap(a, b)
         /\ \A x \in req[p].taken : asg'[x].on]_vars
  BY AssigningIsSound
<1> QED BY <1>1, AloneAlways, PTL DEF Spec, AssignedIsSound
=============================================================================

------------------------ MODULE PayrollSerial_proofs ------------------------
(***************************************************************************)
(* Payroll and advances when requests come one at a time and none is       *)
(* abandoned: StatusMatchesInstallments, CancelledIsFinal and              *)
(* OneEffectPerLine for every sequence of submissions, reviews,            *)
(* cancellations, runs and recalculations, of any number of employees,     *)
(* advances, periods and installments; DeductOnlyAfterPayout and           *)
(* DeductionsMatchLedger even when requests are abandoned midway.          *)
(* Requests that overlap break the first four, requests abandoned midway   *)
(* the first three (section 5 of the README).                              *)
(***************************************************************************)
EXTENDS PayrollLedger_proofs

-----------------------------------------------------------------------------
(* One request at a time, none abandoned.                                  *)

(* The story an advance and its installments tell.  While statements are   *)
(* under way it is loose: the installments are those of the terms, none is *)
(* cancelled but with its advance.  Between requests it is firm: the       *)
(* status also says how many of them are collected.                        *)
Loose(ad, in, a) ==
    \A s \in Seq1 :
        LET st == in[<<a, s>>].status IN
        /\ ad[a].status \in {"NONE", "SUBMITTED", "REJECTED"} => st = "NONE"
        /\ ad[a].status \in {"APPROVED", "PARTIALLY_DEDUCTED", "DEDUCTED"} =>
             IF s <= ad[a].count THEN st \in {"PENDING", "DEDUCTED"} ELSE st = "NONE"
        /\ ad[a].status = "CANCELLED" => st \in {"NONE", "CANCELLED"}

Firm(ad, in, a) ==
    /\ Loose(ad, in, a)
    /\ ad[a].status = "APPROVED" => ~ Some(in, a, "DEDUCTED")
    /\ ad[a].status = "PARTIALLY_DEDUCTED" => Some(in, a, "PENDING") /\ Some(in, a, "DEDUCTED")
    /\ ad[a].status = "DEDUCTED" => ~ Some(in, a, "PENDING")

Charging(q, a) == \E i \in q.ids : i[1] = a
Inserted(in, a, n) == \A s \in Seq1 : in[<<a, s>>].status = IF s < n THEN "PENDING" ELSE "NONE"

ReviewPcs == {"reviewWrite", "reviewDelete", "insert"}
CancelPcs == {"cancelWrite", "cancelInst"}
ReopenPcs == {"reopenCredit", "reopenDeduct", "reopenStatus"}
Midway == {"reviewDelete", "insert", "cancelInst", "markStatus"} \cup ReopenPcs
LoadedPcs == {"readCred", "drop", "commit", "markInst"}

\* A request q in flight, the advances ad and the installments in.
Story(q, ad, in) ==
    /\ q.leg = {}
    /\ q.pc \in BeforeCommit => q.emps = Employee
    /\ q.pc \notin Midway => \A a \in Advance : Firm(ad, in, a)
    /\ q.pc \in ReviewPcs => (\A a, b \in q.adv : a = b) /\ (\A t, u \in q.terms : t = u)
    /\ q.pc = "reviewWrite" => \A a \in q.adv : ad[a].status = "SUBMITTED"
    /\ q.pc \in {"reviewDelete", "insert", "cancelInst"} =>
         \A a \in Advance \ q.adv : Firm(ad, in, a)
    /\ q.pc \in {"reviewDelete", "insert"} => \A a \in q.adv :
         /\ ad[a].status = "APPROVED"
         /\ \A t \in q.terms : ad[a].count = t.count
         /\ q.pc = "reviewDelete" => Inserted(in, a, 1)
         /\ q.pc = "insert" => Inserted(in, a, q.next) /\ q.next \in 1 .. ad[a].count
    /\ q.pc \in CancelPcs => \A a, b \in q.adv : a = b
    /\ q.pc = "cancelWrite" => \A a \in q.adv : ad[a].status \in {"SUBMITTED", "APPROVED", "REJECTED"}
    /\ q.pc = "cancelInst" => \A a \in q.adv :
         /\ ad[a].status = "CANCELLED"
         /\ \A s \in Seq1 : in[<<a, s>>].status # "DEDUCTED"
    /\ q.pc = "reopenInst" => \A i \in Inst : in[i].run = q.run => i[1] \in q.affected
    /\ q.pc \in ReopenPcs => \A a \in Advance :
         IF a \in q.affected THEN Loose(ad, in, a) ELSE Firm(ad, in, a)
    /\ q.pc \in LoadedPcs => \A i \in q.ids : in[i].status = "PENDING" /\ Open(ad[i[1]].status)
    /\ q.pc = "markStatus" => \A a \in Advance :
         IF Charging(q, a) THEN Loose(ad, in, a) /\ Open(ad[a].status) /\ Some(in, a, "DEDUCTED")
         ELSE Firm(ad, in, a)

StoryInv ==
    /\ ControlInv
    /\ \A p \in Proc : Story(req[p], adv, inst)
    /\ Quiet => \A a \in Advance : Firm(adv, inst, a)
    /\ \A r \in Run, e \in Employee : line[r][e].leg = {}

(* An installment of somebody who is paid is bound to a period only while  *)
(* the calculation that bound it is under way.                             *)
BoundPcs == {"readDed"} \cup LoadedPcs
BoundInst(in) ==
    {i \in Inst : OwnerOf(i) \in Compensated /\ in[i].status = "PENDING" /\ in[i].period # NoPeriod}
OneEach(S) == \A i, j \in S : i[1] = j[1] /\ OwnerOf(i) \in Compensated => i = j

Binding(q, ad, in) ==
    /\ q.pc \notin BoundPcs => BoundInst(in) = {}
    /\ q.pc \in BoundPcs => OneEach(BoundInst(in)) /\ \A i \in BoundInst(in) :
         in[i].period = PeriodOf(q.run) /\ Eligible(ad[i[1]], PeriodOf(q.run))
    /\ q.pc \in LoadedPcs => BoundInst(in) \subseteq q.ids
    /\ q.pc \in LoadedPcs \ {"markInst"} =>
         q.ids = q.ded /\ OneEach(q.ded)

BindingInv ==
    /\ StoryInv
    /\ \A p \in Proc : Binding(req[p], adv, inst)
    /\ Quiet => BoundInst(inst) = {}
    /\ \A r \in Run, e \in Employee : \A i \in line[r][e].ded : OwnerOf(i) = e
    /\ \A r \in Run, e \in Employee : \A i, j \in line[r][e].ded : i[1] = j[1] => i = j

\* What the statements leave alone of an advance's story.
LEMMA SameStory ==
    ASSUME NEW ad, NEW ad2, NEW in, NEW in2, NEW a,
           ad2[a].status = ad[a].status, ad2[a].count = ad[a].count,
           \A s \in Seq1 : in2[<<a, s>>].status = in[<<a, s>>].status
    PROVE  /\ Loose(ad, in, a) => Loose(ad2, in2, a)
           /\ Firm(ad, in, a) => Firm(ad2, in2, a)
<1>1. Loose(ad, in, a) => Loose(ad2, in2, a)
  BY DEF Loose
<1>2. \A v : Some(in2, a, v) <=> Some(in, a, v)
  BY DEF Some
<1> QED BY <1>1, <1>2 DEF Firm

PlainPcs == {"idle", "createRun", "issueWrite", "reopenRead", "unbind", "bind", "readDed",
             "markCred", "markLegacy", "finish"}

LEMMA PlainStory ==
    ASSUME NEW q, NEW ad, NEW in, q.pc \in PlainPcs, q.leg = {},
           q.pc \in {"reopenRead", "unbind", "bind", "readDed"} => q.emps = Employee,
           \A a \in Advance : Firm(ad, in, a)
    PROVE  Story(q, ad, in)
<1>1. /\ q.pc \notin Midway /\ q.pc \notin ReviewPcs /\ q.pc \notin CancelPcs /\ q.pc \notin ReopenPcs
      /\ q.pc \notin LoadedPcs /\ q.pc # "reopenInst" /\ q.pc # "reviewWrite"
      /\ q.pc \notin {"reviewDelete", "insert", "cancelInst"} /\ q.pc # "cancelWrite"
      /\ q.pc # "cancelInst" /\ q.pc # "markStatus" /\ q.pc \notin {"reviewDelete", "insert"}
      /\ q.pc \in BeforeCommit => q.pc \in {"reopenRead", "unbind", "bind", "readDed"}
  BY DEF PlainPcs, Midway, ReviewPcs, CancelPcs, ReopenPcs, LoadedPcs, BeforeCommit, AfterReopen
<1> QED BY <1>1 DEF Story

\* The request moves on and keeps its local variables.
Locals(r, q) ==
    /\ r.run = q.run /\ r.emps = q.emps /\ r.affected = q.affected
    /\ r.ded = q.ded /\ r.ids = q.ids /\ r.cred = q.cred /\ r.leg = q.leg
    /\ r.adv = q.adv /\ r.terms = q.terms /\ r.next = q.next

LEMMA GotoLocals ==
    ASSUME TypeOK, NEW p \in Proc, NEW pc, Goto(p, pc)
    PROVE  req'[p].pc = pc /\ Locals(req'[p], req[p])
<1>1. req[p] \in ReqType
  BY DEF TypeOK
<1>2. req'[p] = [req[p] EXCEPT !.pc = pc]
  BY UpdateMoves DEF Goto
<1> QED BY <1>1, <1>2 DEF ReqType, Locals

LEMMA ReturnLocals ==
    ASSUME TypeOK, NEW p \in Proc, Return(p)
    PROVE  req'[p].pc = "idle" /\ req'[p].leg = {}
BY UpdateMoves DEF Return, Idle

LEMMA StoryReturn ==
    ASSUME TypeOK, NEW p \in Proc, Return(p), \A a \in Advance : Firm(adv', inst', a)
    PROVE  Story(req'[p], adv', inst')
<1>1. req'[p].pc = "idle" /\ req'[p].leg = {}
  BY ReturnLocals
<1> QED BY <1>1, PlainStory DEF PlainPcs

\* Begin: a process that is idle starts with firm tables.
LEMMA StoryBegin ==
    ASSUME StoryInv, NEW p \in Proc, req[p] = Idle
    PROVE  \A a \in Advance : Firm(adv, inst, a)
<1>1. req[p].pc \notin Midway
  BY DEF Idle, Midway, ReopenPcs
<1> QED BY <1>1 DEF StoryInv, Story

-----------------------------------------------------------------------------
(* Submission, review and cancellation.                                    *)

\* An advance that is approved with its first n - 1 installments inserted.
LEMMA InsertedAll ==
    ASSUME NEW ad, NEW in, NEW a, ad[a].status = "APPROVED", ad[a].count \in Seq1,
           Inserted(in, a, ad[a].count + 1)
    PROVE  Firm(ad, in, a)
<1>1. \A s \in Seq1 : s < ad[a].count + 1 <=> s <= ad[a].count
  BY DEF Seq1
<1>2. \A s \in Seq1 : in[<<a, s>>].status = IF s <= ad[a].count THEN "PENDING" ELSE "NONE"
  BY <1>1 DEF Inserted
<1> QED BY <1>2 DEF Firm, Loose, Some

LEMMA NothingInserted ==
    ASSUME NEW ad, NEW in, NEW a, Firm(ad, in, a), ad[a].status \in {"NONE", "SUBMITTED", "REJECTED"}
    PROVE  \A s \in Seq1 : in[<<a, s>>].status = "NONE"
BY DEF Firm, Loose

LEMMA StorySubmit ==
    ASSUME StoryInv, NEW p \in Proc, NEW a \in Advance, NEW t \in Terms, SubmitAdvance(p, a, t)
    PROVE  Story(req'[p], adv', inst')
<1>0. TypeOK /\ t \in TermsType
  BY RequestAssumption DEF StoryInv, ControlInv
<1>1. adv[a].status = "NONE" /\ inst' = inst
  BY DEF SubmitAdvance
<1>2. req[p] = Idle
  BY DEF SubmitAdvance, Begin
<1>3. \A b \in Advance : Firm(adv, inst, b)
  BY <1>2, StoryBegin
<1>4. ASSUME NEW st, adv' = InsertAdvance(adv, a, t, st)
      PROVE  /\ adv'[a].status = st /\ adv'[a].count = t.count
             /\ \A b \in Advance \ {a} : adv'[b] = adv[b] /\ Firm(adv', inst', b)
  <2>1. adv'[a].status = st /\ adv'[a].count = t.count /\ \A b \in Advance \ {a} : adv'[b] = adv[b]
    BY <1>0, <1>4 DEF InsertAdvance, TypeOK
  <2> QED BY <1>1, <1>3, <2>1, SameStory
<1>5. \A s \in Seq1 : inst[<<a, s>>].status = "NONE"
  BY <1>1, <1>3, NothingInserted
<1>6. CASE req' = req /\ adv' = InsertAdvance(adv, a, t, "SUBMITTED")
  <2>1. Firm(adv', inst', a)
    <3>1. adv'[a].status = "SUBMITTED"
      BY <1>4, <1>6
    <3> QED BY <1>1, <1>5, <3>1 DEF Firm, Loose
  <2>2. req'[p].pc \in PlainPcs /\ req'[p].leg = {} /\ req'[p].pc = "idle"
    BY <1>2, <1>6 DEF Idle, PlainPcs
  <2>3. \A b \in Advance : Firm(adv', inst', b)
    BY <1>4, <1>6, <2>1
  <2> QED BY <2>2, <2>3, PlainStory
<1>7. CASE /\ Begin(p, "submit", [Idle EXCEPT !.pc = "insert", !.adv = {a}, !.terms = {t}, !.next = 1])
           /\ adv' = InsertAdvance(adv, a, t, "APPROVED")
  <2>1. req'[p] = [Idle EXCEPT !.pc = "insert", !.adv = {a}, !.terms = {t}, !.next = 1]
    BY <1>0, <1>7, UpdateMoves DEF Begin
  <2>2. /\ req'[p].pc = "insert" /\ req'[p].adv = {a} /\ req'[p].terms = {t} /\ req'[p].next = 1
        /\ req'[p].leg = {}
    BY <2>1 DEF Idle
  <2>3. /\ adv'[a].status = "APPROVED" /\ adv'[a].count = t.count /\ t.count \in Seq1
        /\ \A b \in Advance \ {a} : Firm(adv', inst', b)
    BY <1>0, <1>4, <1>7 DEF TermsType
  <2>4. Inserted(inst', a, 1) /\ 1 \in 1 .. adv'[a].count
    BY <1>1, <1>5, <2>3 DEF Inserted, Seq1
  <2> QED BY <2>2, <2>3, <2>4
          DEF Story, BeforeCommit, AfterReopen, Midway, ReviewPcs, CancelPcs, ReopenPcs, LoadedPcs
<1> QED BY <1>6, <1>7 DEF SubmitAdvance

LEMMA StoryInsert ==
    ASSUME StoryInv, NEW p \in Proc, InsertNext(p)
    PROVE  Story(req'[p], adv', inst')
<1>0. TypeOK /\ req[p] \in ReqType
  BY DEF StoryInv, ControlInv, TypeOK
<1>1. PICK a \in req[p].adv, t \in req[p].terms :
         LET s == req[p].next IN
         IF inst[<<a, s>>].status # "NONE"
         THEN Return(p) /\ UNCHANGED inst
         ELSE /\ inst' = InsertInstallment(inst, a, s)
              /\ IF MoreInstallments(t, s)
                 THEN Update(p, [req[p] EXCEPT !.next = s + 1])
                 ELSE Return(p)
  BY DEF InsertNext
<1> DEFINE s == req[p].next
<1>2. req[p].pc = "insert" /\ adv' = adv
  BY DEF InsertNext, At
<1>3. /\ \A b \in req[p].adv : b = a
      /\ \A u \in req[p].terms : u = t
      /\ adv[a].status = "APPROVED" /\ adv[a].count = t.count
      /\ Inserted(inst, a, s) /\ s \in 1 .. adv[a].count
      /\ \A b \in Advance \ req[p].adv : Firm(adv, inst, b)
      /\ req[p].leg = {}
  BY <1>2 DEF StoryInv, Story, ReviewPcs
<1>4. a \in Advance /\ adv[a].count \in Seq1
  BY <1>0 DEF ReqType, TypeOK, AdvRow
<1>5. s \in Seq1 /\ s \in Nat
  BY <1>3, <1>4, BoundAssumption DEF Seq1
<1>6. <<a, s>> \in Inst
  BY <1>4, <1>5 DEF Inst
<1> HIDE DEF s
<1>7. inst[<<a, s>>].status = "NONE"
  BY <1>3, <1>5 DEF Inserted
<1>8. /\ inst' = InsertInstallment(inst, a, s)
      /\ IF MoreInstallments(t, s) THEN Update(p, [req[p] EXCEPT !.next = s + 1]) ELSE Return(p)
  BY <1>1, <1>7 DEF s
<1>9. /\ \A k \in Seq1 : inst'[<<a, k>>].status = IF k = s THEN "PENDING" ELSE inst[<<a, k>>].status
      /\ \A b \in Advance \ {a} : \A k \in Seq1 : inst'[<<b, k>>] = inst[<<b, k>>]
  <2>1. \A i \in Inst : inst'[i] = IF i = <<a, s>> THEN FreshInst ELSE inst[i]
    BY <1>0, <1>6, <1>8 DEF InsertInstallment, TypeOK
  <2>2. \A b \in Advance, k \in Seq1 : <<b, k>> \in Inst
    BY DEF Inst
  <2> QED BY <1>4, <2>1, <2>2 DEF FreshInst
<1>10. \A b \in Advance \ {a} : Firm(adv', inst', b)
  <2>1. \A b \in Advance \ {a} : Firm(adv, inst, b)
    BY <1>3
  <2> QED BY <1>2, <1>9, <2>1, SameStory
<1>11. Inserted(inst', a, s + 1)
  <2>1. \A k \in Seq1 : k < s + 1 <=> k = s \/ k < s
    BY <1>5 DEF Seq1
  <2>2. \A k \in Seq1 : ~ (k = s /\ k < s)
    BY <1>5 DEF Seq1
  <2> QED BY <1>3, <1>9, <2>1, <2>2 DEF Inserted
<1>12. CASE MoreInstallments(t, s)
  <2>1. req'[p] = [req[p] EXCEPT !.next = s + 1]
    BY <1>0, <1>8, <1>12, UpdateMoves
  <2>2. /\ req'[p].pc = "insert" /\ req'[p].adv = req[p].adv /\ req'[p].terms = req[p].terms
        /\ req'[p].next = s + 1 /\ req'[p].leg = {}
    BY <1>0, <1>2, <1>3, <2>1 DEF ReqType
  <2>3. s + 1 \in 1 .. adv[a].count
    BY <1>3, <1>4, <1>12 DEF MoreInstallments, Seq1
  <2> QED BY <1>2, <1>3, <1>10, <1>11, <2>2, <2>3
          DEF Story, BeforeCommit, AfterReopen, Midway, ReviewPcs, CancelPcs, ReopenPcs, LoadedPcs
<1>13. CASE ~ MoreInstallments(t, s)
  <2>1. s = adv[a].count
    BY <1>3, <1>4, <1>13 DEF MoreInstallments, Seq1
  <2>2. Firm(adv', inst', a)
    BY <1>2, <1>3, <1>4, <1>11, <2>1, InsertedAll
  <2>3. \A b \in Advance : Firm(adv', inst', b)
    BY <1>10, <2>2
  <2> QED BY <1>0, <1>8, <1>13, <2>3, StoryReturn
<1> QED BY <1>12, <1>13

LEMMA StoryReviewRead ==
    ASSUME StoryInv, NEW p \in Proc, NEW a \in Advance, NEW ts \in {{}} \cup {{t} : t \in Terms},
           ReviewRead(p, a, ts)
    PROVE  Story(req'[p], adv', inst')
<1>1. /\ req'[p] = [Idle EXCEPT !.pc = "reviewWrite", !.adv = {a}, !.terms = ts] /\ req[p] = Idle
      /\ adv' = adv /\ inst' = inst /\ adv[a].status = "SUBMITTED"
  BY UpdateMoves DEF ReviewRead, Begin, tables, StoryInv, ControlInv
<1>2. /\ req'[p].pc = "reviewWrite" /\ req'[p].adv = {a} /\ req'[p].terms = ts /\ req'[p].leg = {}
  BY <1>1 DEF Idle
<1>3. \A b \in Advance : Firm(adv, inst, b)
  BY <1>1, StoryBegin
<1>4. \A t, u \in ts : t = u
  OBVIOUS
<1> QED BY <1>1, <1>2, <1>3, <1>4
        DEF Story, BeforeCommit, AfterReopen, Midway, ReviewPcs, CancelPcs, ReopenPcs, LoadedPcs

\* The status of the one advance the request is about is overwritten.
LEMMA StatusWritten ==
    ASSUME TypeOK, NEW a \in Advance, NEW st, adv' = SetAdvanceStatus(adv, a, st)
    PROVE  /\ adv'[a].status = st /\ adv'[a].count = adv[a].count
           /\ \A b \in Advance \ {a} : adv'[b] = adv[b]
BY DEF TypeOK, SetAdvanceStatus, AdvRow

LEMMA StoryReject ==
    ASSUME StoryInv, NEW p \in Proc, ReviewReject(p)
    PROVE  Story(req'[p], adv', inst')
<1>0. TypeOK
  BY DEF StoryInv, ControlInv
<1>1. PICK a \in req[p].adv : adv' = SetAdvanceStatus(adv, a, "REJECTED")
  BY DEF ReviewReject
<1>2. req[p].pc = "reviewWrite" /\ inst' = inst /\ Return(p)
  BY DEF ReviewReject, At
<1>3. a \in Advance /\ adv[a].status = "SUBMITTED" /\ \A b \in Advance : Firm(adv, inst, b)
  BY <1>0, <1>2 DEF StoryInv, Story, Midway, ReopenPcs, TypeOK, ReqType
<1>4. Firm(adv', inst', a)
  <2>1. adv'[a].status = "REJECTED"
    BY <1>0, <1>1, <1>3, StatusWritten
  <2>2. \A s \in Seq1 : inst[<<a, s>>].status = "NONE"
    BY <1>3, NothingInserted
  <2> QED BY <1>2, <2>1, <2>2 DEF Firm, Loose
<1>5. \A b \in Advance \ {a} : Firm(adv', inst', b)
  BY <1>0, <1>1, <1>2, <1>3, StatusWritten, SameStory
<1>6. \A b \in Advance : Firm(adv', inst', b)
  BY <1>4, <1>5
<1> QED BY <1>0, <1>2, <1>6, StoryReturn

LEMMA StoryApprove ==
    ASSUME StoryInv, NEW p \in Proc, ReviewApprove(p)
    PROVE  Story(req'[p], adv', inst')
<1>0. TypeOK
  BY DEF StoryInv, ControlInv
<1>1. PICK a \in req[p].adv, t \in req[p].terms : adv' = ApproveAdvance(adv, a, t)
  BY DEF ReviewApprove
<1>2. req[p].pc = "reviewWrite" /\ inst' = inst /\ Goto(p, "reviewDelete")
  BY DEF ReviewApprove, At
<1>3. /\ a \in Advance /\ adv[a].status = "SUBMITTED" /\ \A b \in Advance : Firm(adv, inst, b)
      /\ \A b \in req[p].adv : b = a
      /\ \A u \in req[p].terms : u = t
      /\ req[p].leg = {}
  BY <1>0, <1>2 DEF StoryInv, Story, Midway, ReopenPcs, ReviewPcs, TypeOK, ReqType
<1>4. /\ adv'[a].status = "APPROVED" /\ adv'[a].count = t.count
      /\ \A b \in Advance \ {a} : adv'[b] = adv[b]
  BY <1>0, <1>1, <1>3 DEF TypeOK, ApproveAdvance, AdvRow
<1>5. Inserted(inst', a, 1)
  <2>1. \A s \in Seq1 : inst[<<a, s>>].status = "NONE" /\ ~ (s < 1)
    BY <1>3, NothingInserted DEF Seq1
  <2> QED BY <1>2, <2>1 DEF Inserted
<1>6. \A b \in Advance \ {a} : Firm(adv', inst', b)
  BY <1>2, <1>3, <1>4, SameStory
<1>7. req'[p].pc = "reviewDelete" /\ Locals(req'[p], req[p])
  BY <1>0, <1>2, GotoLocals
<1>8. /\ req'[p].adv = req[p].adv /\ req'[p].terms = req[p].terms /\ req'[p].leg = {}
  BY <1>3, <1>7 DEF Locals
<1> QED BY <1>1, <1>3, <1>4, <1>5, <1>6, <1>7, <1>8
        DEF Story, BeforeCommit, AfterReopen, Midway, ReviewPcs, CancelPcs, ReopenPcs, LoadedPcs

LEMMA StoryDelete ==
    ASSUME StoryInv, NEW p \in Proc, ReviewDelete(p)
    PROVE  Story(req'[p], adv', inst')
<1>0. TypeOK /\ req[p] \in ReqType
  BY DEF StoryInv, ControlInv, TypeOK
<1>1. PICK a \in req[p].adv :
         /\ inst' = DeleteInstallments(inst, a)
         /\ req' = [ForgetInstallments(a) EXCEPT ![p] = [@ EXCEPT !.pc = "insert", !.next = 1]]
  BY DEF ReviewDelete
<1>2. req[p].pc = "reviewDelete" /\ adv' = adv
  BY DEF ReviewDelete, At
<1>3. /\ a \in Advance /\ adv[a].status = "APPROVED" /\ Inserted(inst, a, 1)
      /\ \A b \in Advance \ {a} : Firm(adv, inst, b)
      /\ \A b \in req[p].adv : b = a
      /\ \A t \in req[p].terms : adv[a].count = t.count
      /\ \A t, u \in req[p].terms : t = u
      /\ req[p].leg = {} /\ adv[a].count \in Seq1
  BY <1>0, <1>2 DEF StoryInv, Story, Midway, ReopenPcs, ReviewPcs, TypeOK, ReqType, AdvRow
<1> DEFINE q == ForgetInstallments(a)[p]
           row == [q EXCEPT !.pc = "insert", !.next = 1]
<1>4. q = [req[p] EXCEPT !.ids = {i \in req[p].ids : i[1] # a}]
  BY DEF ForgetInstallments
<1>5. q.adv = req[p].adv /\ q.terms = req[p].terms /\ q.leg = {} /\ DOMAIN q = DOMAIN req[p]
  BY <1>0, <1>3, <1>4 DEF ReqType
<1>6. req'[p] = row
  BY <1>1 DEF ForgetInstallments
<1> HIDE DEF q
<1>7. /\ row.pc = "insert" /\ row.next = 1 /\ row.adv = req[p].adv /\ row.terms = req[p].terms
      /\ row.leg = {}
  BY <1>0, <1>5 DEF ReqType
<1> HIDE DEF row
<1>8. /\ \A s \in Seq1 : inst'[<<a, s>>].status = "NONE"
      /\ \A b \in Advance \ {a} : \A s \in Seq1 : inst'[<<b, s>>] = inst[<<b, s>>]
  BY <1>0, <1>1, <1>3 DEF DeleteInstallments, Inst, NoInst
<1>9. Inserted(inst', a, 1)
  <2>1. \A s \in Seq1 : ~ (s < 1)
    BY DEF Seq1
  <2> QED BY <1>8, <2>1 DEF Inserted
<1>10. \A b \in Advance \ {a} : Firm(adv', inst', b)
  BY <1>2, <1>3, <1>8, SameStory
<1>11. 1 \in 1 .. adv'[a].count
  BY <1>2, <1>3, BoundAssumption DEF Seq1
<1> QED BY <1>2, <1>3, <1>6, <1>7, <1>9, <1>10, <1>11
        DEF Story, BeforeCommit, AfterReopen, Midway, ReviewPcs, CancelPcs, ReopenPcs, LoadedPcs

LEMMA StoryCancelRead ==
    ASSUME StoryInv, NEW p \in Proc, NEW a \in Advance, CancelRead(p, a)
    PROVE  Story(req'[p], adv', inst')
<1>1. /\ req'[p] = [Idle EXCEPT !.pc = "cancelWrite", !.adv = {a}] /\ req[p] = Idle
      /\ adv' = adv /\ inst' = inst /\ adv[a].status \in {"SUBMITTED", "APPROVED", "REJECTED"}
  BY UpdateMoves DEF CancelRead, Begin, tables, StoryInv, ControlInv
<1>2. req'[p].pc = "cancelWrite" /\ req'[p].adv = {a} /\ req'[p].leg = {}
  BY <1>1 DEF Idle
<1>3. \A b \in Advance : Firm(adv, inst, b)
  BY <1>1, StoryBegin
<1> QED BY <1>1, <1>2, <1>3
        DEF Story, BeforeCommit, AfterReopen, Midway, ReviewPcs, CancelPcs, ReopenPcs, LoadedPcs

LEMMA StoryCancelWrite ==
    ASSUME StoryInv, NEW p \in Proc, CancelWrite(p)
    PROVE  Story(req'[p], adv', inst')
<1>0. TypeOK
  BY DEF StoryInv, ControlInv
<1>1. PICK a \in req[p].adv : adv' = SetAdvanceStatus(adv, a, "CANCELLED")
  BY DEF CancelWrite
<1>2. req[p].pc = "cancelWrite" /\ inst' = inst /\ Goto(p, "cancelInst")
  BY DEF CancelWrite, At
<1>3. /\ a \in Advance /\ adv[a].status \in {"SUBMITTED", "APPROVED", "REJECTED"}
      /\ \A b \in Advance : Firm(adv, inst, b)
      /\ \A b \in req[p].adv : b = a
      /\ req[p].leg = {}
  BY <1>0, <1>2, SMTT(30) DEF StoryInv, Story, Midway, ReopenPcs, CancelPcs, TypeOK, ReqType
<1>4. \A s \in Seq1 : inst[<<a, s>>].status # "DEDUCTED"
  BY <1>3 DEF Firm, Loose, Some
<1>5. \A b \in Advance \ {a} : Firm(adv', inst', b)
  BY <1>0, <1>1, <1>2, <1>3, StatusWritten, SameStory
<1>6. req'[p].pc = "cancelInst" /\ req'[p].adv = req[p].adv /\ req'[p].leg = {}
  BY <1>0, <1>2, <1>3, GotoLocals DEF Locals
<1>7. adv'[a].status = "CANCELLED"
  BY <1>0, <1>1, <1>3, StatusWritten
<1> QED BY <1>1, <1>2, <1>3, <1>4, <1>5, <1>6, <1>7
        DEF Story, BeforeCommit, AfterReopen, Midway, ReviewPcs, CancelPcs, ReopenPcs, LoadedPcs

LEMMA StoryCancelInst ==
    ASSUME StoryInv, NEW p \in Proc, CancelInstallments(p)
    PROVE  Story(req'[p], adv', inst')
<1>0. TypeOK
  BY DEF StoryInv, ControlInv
<1>1. PICK a \in req[p].adv : inst' = CancelPending(inst, a)
  BY DEF CancelInstallments
<1>2. req[p].pc = "cancelInst" /\ adv' = adv /\ Return(p)
  BY DEF CancelInstallments, At
<1>3. /\ a \in Advance /\ adv[a].status = "CANCELLED"
      /\ \A s \in Seq1 : inst[<<a, s>>].status # "DEDUCTED"
      /\ \A b \in req[p].adv : b = a
      /\ \A b \in Advance \ req[p].adv : Firm(adv, inst, b)
  BY <1>0, <1>2 DEF StoryInv, Story, CancelPcs, TypeOK, ReqType
<1>4. \A s \in Seq1 : <<a, s>> \in Inst /\ inst[<<a, s>>] \in InstRow
  BY <1>0, <1>3 DEF Inst, TypeOK
<1>5. /\ \A s \in Seq1 : inst'[<<a, s>>].status \in {"NONE", "CANCELLED"}
      /\ \A b \in Advance \ {a} : \A s \in Seq1 : inst'[<<b, s>>] = inst[<<b, s>>]
  BY <1>1, <1>3, <1>4 DEF CancelPending, Inst, InstRow, InstStatus
<1>6. Firm(adv', inst', a)
  BY <1>2, <1>3, <1>5 DEF Firm, Loose
<1>7. \A b \in Advance \ {a} : Firm(adv', inst', b)
  BY <1>2, <1>3, <1>5, SameStory
<1>8. \A b \in Advance : Firm(adv', inst', b)
  BY <1>6, <1>7
<1> QED BY <1>0, <1>2, <1>8, StoryReturn

-----------------------------------------------------------------------------
(* The calculation.                                                        *)

\* A live advance has its first installment.
LEMMA FirstInstallment ==
    ASSUME NEW ad \in [Advance -> AdvRow], NEW in, NEW a \in Advance, Loose(ad, in, a),
           ad[a].status \in {"APPROVED", "PARTIALLY_DEDUCTED", "DEDUCTED"}
    PROVE  Some(in, a, "PENDING") \/ Some(in, a, "DEDUCTED")
<1>1. 1 \in Seq1 /\ 1 <= ad[a].count
  BY BoundAssumption DEF AdvRow, Seq1
<1>2. in[<<a, 1>>].status \in {"PENDING", "DEDUCTED"}
  BY <1>1 DEF Loose
<1> QED BY <1>1, <1>2 DEF Some

LEMMA ReopenedIsFirm ==
    ASSUME NEW ad \in [Advance -> AdvRow], NEW ad2, NEW in, NEW a \in Advance, Loose(ad, in, a),
           ad2[a] = [ad[a] EXCEPT !.status = ReopenedStatus(ad[a], in, a)]
    PROVE  Firm(ad2, in, a) /\ (ad[a].status = "CANCELLED" => ad2[a].status = "CANCELLED")
<1> DEFINE v == ReopenedStatus(ad[a], in, a)
<1>1. ad2[a].status = v /\ ad2[a].count = ad[a].count /\ ad[a].status \in AdvStatus
  BY DEF AdvRow
<1>2. CASE ad[a].status \in {"APPROVED", "PARTIALLY_DEDUCTED", "DEDUCTED"}
  <2>1. Some(in, a, "PENDING") \/ Some(in, a, "DEDUCTED")
    BY <1>2, FirstInstallment
  <2>2. v = IF Some(in, a, "PENDING")
            THEN IF Some(in, a, "DEDUCTED") THEN "PARTIALLY_DEDUCTED" ELSE "APPROVED"
            ELSE "DEDUCTED"
    BY <2>1 DEF ReopenedStatus
  <2> HIDE DEF v
  <2>3. Loose(ad2, in, a)
    BY <1>1, <1>2, <2>2 DEF Loose
  <2> QED BY <1>1, <1>2, <2>1, <2>2, <2>3 DEF Firm
<1>3. CASE ad[a].status \in {"NONE", "SUBMITTED", "REJECTED", "CANCELLED"}
  <2>1. ~ Some(in, a, "PENDING") /\ ~ Some(in, a, "DEDUCTED")
    BY <1>3 DEF Loose, Some
  <2>2. v = ad[a].status
    BY <1>3, <2>1 DEF ReopenedStatus
  <2> HIDE DEF v
  <2>3. Loose(ad2, in, a)
    BY <1>1, <1>3, <2>2 DEF Loose
  <2> QED BY <1>1, <1>3, <2>1, <2>2, <2>3 DEF Firm
<1> HIDE DEF v
<1> QED BY <1>1, <1>2, <1>3 DEF AdvStatus

LEMMA StoryStart ==
    ASSUME StoryInv, WholeCompany, NEW p \in Proc, NEW r \in Run, NEW scope \in Scopes,
           CalcStart(p, r, scope)
    PROVE  Story(req'[p], adv', inst')
<1> DEFINE E == InScope(scope) \cap active
           pc == FirstPc(r, E)
           row == [Idle EXCEPT !.pc = pc, !.run = r, !.scope = scope, !.emps = E,
                               !.legRead = (E = {})]
<1>1. req'[p] = row /\ req[p] = Idle /\ adv' = adv /\ inst' = inst
  BY UpdateMoves DEF CalcStart, Begin, tables, StoryInv, ControlInv
<1>2. E = Employee
  BY EmployeeAssumption DEF WholeCompany, InScope, StoryInv, ControlInv
<1>3. pc \in {"reopenRead", "commit"}
  BY DEF FirstPc
<1> HIDE DEF pc, E
<1>4. row.pc = pc /\ row.emps = E /\ row.leg = {} /\ row.ids = {}
  BY DEF Idle
<1> HIDE DEF row
<1>5. \A a \in Advance : Firm(adv, inst, a)
  BY <1>1, StoryBegin
<1>6. CASE pc = "reopenRead"
  BY <1>1, <1>2, <1>4, <1>5, <1>6, PlainStory DEF PlainPcs
<1>7. CASE pc = "commit"
  BY <1>1, <1>2, <1>4, <1>5, <1>7
     DEF Story, BeforeCommit, AfterReopen, Midway, ReviewPcs, CancelPcs, ReopenPcs, LoadedPcs
<1> QED BY <1>3, <1>6, <1>7

LEMMA StoryReopenRead ==
    ASSUME StoryInv, NEW p \in Proc, ReopenRead(p)
    PROVE  Story(req'[p], adv', inst')
<1>0. TypeOK /\ req[p] \in ReqType
  BY DEF StoryInv, ControlInv, TypeOK
<1> DEFINE affected == AffectedBy(adv, inst, req[p].run, req[p].emps)
<1>1. /\ req'[p] = [req[p] EXCEPT !.pc = "reopenInst", !.affected = affected]
      /\ req[p].pc = "reopenRead" /\ adv' = adv /\ inst' = inst
  BY <1>0, UpdateMoves DEF ReopenRead, At, tables
<1>2. /\ req[p].leg = {} /\ req[p].emps = Employee /\ \A a \in Advance : Firm(adv, inst, a)
  BY <1>1 DEF StoryInv, Story, Midway, ReopenPcs, BeforeCommit
<1>3. \A i \in Inst : inst[i].run = req[p].run => i[1] \in affected
  <2> SUFFICES ASSUME NEW i \in Inst, inst[i].run = req[p].run PROVE i[1] \in affected
    OBVIOUS
  <2>1. i[1] \in Advance /\ i[2] \in Seq1 /\ i = <<i[1], i[2]>>
    BY InstType
  <2>2. AdvEmp[i[1]] \in req[p].emps
    BY <1>2, <2>1, AdvEmpAssumption
  <2>3. \E s \in Seq1 : inst[<<i[1], s>>].run = req[p].run
    BY <2>1
  <2> QED BY <2>1, <2>2, <2>3 DEF AffectedBy
<1> HIDE DEF affected
<1>4. /\ req'[p].pc = "reopenInst" /\ req'[p].affected = affected /\ req'[p].run = req[p].run
      /\ req'[p].leg = {} /\ req'[p].emps = Employee
  BY <1>0, <1>1, <1>2 DEF ReqType
<1> QED BY <1>1, <1>2, <1>3, <1>4
        DEF Story, BeforeCommit, AfterReopen, Midway, ReviewPcs, CancelPcs, ReopenPcs, LoadedPcs

LEMMA StoryReopenInst ==
    ASSUME StoryInv, NEW p \in Proc, ReopenInst(p)
    PROVE  Story(req'[p], adv', inst')
<1>0. TypeOK
  BY DEF StoryInv, ControlInv
<1>1. /\ req[p].pc = "reopenInst" /\ adv' = adv /\ Goto(p, "reopenCredit")
      /\ inst' = ReopenInstallments(inst, req[p].run)
  BY DEF ReopenInst, At
<1>2. /\ req[p].leg = {} /\ req[p].emps = Employee /\ \A a \in Advance : Firm(adv, inst, a)
      /\ \A i \in Inst : inst[i].run = req[p].run => i[1] \in req[p].affected
  BY <1>1 DEF StoryInv, Story, Midway, ReopenPcs, BeforeCommit
<1>3. /\ req'[p].pc = "reopenCredit" /\ req'[p].affected = req[p].affected
      /\ req'[p].leg = {} /\ req'[p].emps = Employee
  BY <1>0, <1>1, <1>2, GotoLocals DEF Locals
<1>4. ASSUME NEW a \in Advance
      PROVE  IF a \in req[p].affected THEN Loose(adv, inst', a) ELSE Firm(adv, inst', a)
  <2>1. \A s \in Seq1 : <<a, s>> \in Inst /\ <<a, s>>[1] = a
    BY DEF Inst
  <2>2. \A s \in Seq1 : inst'[<<a, s>>] =
          IF inst[<<a, s>>].run = req[p].run /\ inst[<<a, s>>].status = "DEDUCTED"
          THEN FreshInst ELSE inst[<<a, s>>]
    BY <1>1, <2>1 DEF ReopenInstallments
  <2>3. CASE a \notin req[p].affected
    <3>1. \A s \in Seq1 : inst'[<<a, s>>].status = inst[<<a, s>>].status
      BY <1>2, <2>1, <2>2, <2>3
    <3> QED BY <1>2, <2>3, <3>1, SameStory
  <2>4. CASE a \in req[p].affected
    <3>1. \A s \in Seq1 : \/ inst'[<<a, s>>].status = inst[<<a, s>>].status
                          \/ inst[<<a, s>>].status = "DEDUCTED" /\ inst'[<<a, s>>].status = "PENDING"
      BY <2>2 DEF FreshInst
    <3>2. Loose(adv, inst, a)
      BY <1>2 DEF Firm
    <3>3. Loose(adv, inst', a)
      BY <3>1, <3>2 DEF Loose
    <3> QED BY <2>4, <3>3
  <2> QED BY <2>3, <2>4
<1> QED BY <1>1, <1>3, <1>4
        DEF Story, BeforeCommit, AfterReopen, Midway, ReviewPcs, CancelPcs, ReopenPcs, LoadedPcs

LEMMA StoryReopenAdvances ==
    ASSUME StoryInv, NEW p \in Proc, ReopenCredit(p) \/ ReopenDeduct(p)
    PROVE  Story(req'[p], adv', inst')
<1>0. TypeOK
  BY DEF StoryInv, ControlInv
<1>1. /\ req[p].pc \in {"reopenCredit", "reopenDeduct"} /\ inst' = inst
      /\ \/ Goto(p, "reopenDeduct")
         \/ Goto(p, "unbind") /\ req[p].affected = {}
         \/ Goto(p, "reopenStatus")
  BY DEF ReopenCredit, ReopenDeduct, At
<1>2. /\ req[p].leg = {} /\ req[p].emps = Employee
      /\ \A a \in Advance : IF a \in req[p].affected THEN Loose(adv, inst, a) ELSE Firm(adv, inst, a)
  BY <1>1 DEF StoryInv, Story, ReopenPcs, BeforeCommit, AfterReopen
<1>3. \A a \in Advance : adv'[a].status = adv[a].status /\ adv'[a].count = adv[a].count
  <2> SUFFICES ASSUME NEW a \in Advance
               PROVE  adv'[a].status = adv[a].status /\ adv'[a].count = adv[a].count
    OBVIOUS
  <2>1. adv[a] \in AdvRow
    BY <1>0 DEF TypeOK
  <2>2. adv'[a] \in {adv[a], [adv[a] EXCEPT !.credited = NoRun], [adv[a] EXCEPT !.deducted = NoRun]}
    BY DEF ReopenCredit, ReopenDeduct, ReopenCredits, ReopenDeducted
  <2> QED BY <2>1, <2>2 DEF AdvRow
<1>4. \A a \in Advance : IF a \in req[p].affected THEN Loose(adv', inst', a) ELSE Firm(adv', inst', a)
  BY <1>1, <1>2, <1>3, SameStory
<1>5. CASE Goto(p, "unbind") /\ req[p].affected = {}
  <2>1. req'[p].pc = "unbind" /\ req'[p].leg = {} /\ req'[p].emps = Employee
    BY <1>0, <1>2, <1>5, GotoLocals DEF Locals
  <2> QED BY <1>4, <1>5, <2>1, PlainStory DEF PlainPcs
<1>6. ASSUME NEW pc \in {"reopenDeduct", "reopenStatus"}, Goto(p, pc)
      PROVE  Story(req'[p], adv', inst')
  <2>1. /\ req'[p].pc = pc /\ req'[p].affected = req[p].affected
        /\ req'[p].leg = {} /\ req'[p].emps = Employee
    BY <1>0, <1>2, <1>6, GotoLocals DEF Locals
  <2> QED BY <1>4, <2>1
          DEF Story, BeforeCommit, AfterReopen, Midway, ReviewPcs, CancelPcs, ReopenPcs, LoadedPcs
<1> QED BY <1>1, <1>5, <1>6

LEMMA StoryReopenStatus ==
    ASSUME StoryInv, NEW p \in Proc, ReopenStatus(p)
    PROVE  Story(req'[p], adv', inst')
<1>0. TypeOK /\ req[p] \in ReqType
  BY DEF StoryInv, ControlInv, TypeOK
<1>1. /\ req[p].pc = "reopenStatus" /\ inst' = inst
      /\ adv' = ReopenStatuses(adv, inst, req[p].affected)
      /\ req'[p] = [req[p] EXCEPT !.pc = "unbind", !.affected = {}]
  BY <1>0, UpdateMoves DEF ReopenStatus, At
<1>2. /\ req[p].leg = {} /\ req[p].emps = Employee
      /\ \A a \in Advance : IF a \in req[p].affected THEN Loose(adv, inst, a) ELSE Firm(adv, inst, a)
  BY <1>1 DEF StoryInv, Story, ReopenPcs, BeforeCommit, AfterReopen
<1>3. req'[p].pc = "unbind" /\ req'[p].leg = {} /\ req'[p].emps = Employee
  BY <1>0, <1>1, <1>2 DEF ReqType
<1>4. ASSUME NEW a \in Advance PROVE Firm(adv', inst', a)
  <2>1. adv \in [Advance -> AdvRow]
    BY <1>0 DEF TypeOK
  <2>2. CASE a \in req[p].affected
    <3>1. adv'[a] = [adv[a] EXCEPT !.status = ReopenedStatus(adv[a], inst, a)]
      BY <1>1, <2>2 DEF ReopenStatuses
    <3>2. Loose(adv, inst, a)
      BY <1>2, <2>2
    <3> QED BY <1>1, <2>1, <3>1, <3>2, ReopenedIsFirm
  <2>3. CASE a \notin req[p].affected
    <3>1. adv'[a] = adv[a] /\ Firm(adv, inst, a)
      BY <1>1, <1>2, <2>3 DEF ReopenStatuses
    <3> QED BY <1>1, <3>1, SameStory
  <2> QED BY <2>2, <2>3
<1> QED BY <1>3, <1>4, PlainStory DEF PlainPcs

\* What the load has found stays pending, and its advance open, to the marking.
LEMMA LoadedStory ==
    ASSUME NEW q, NEW ad, NEW in, q.pc \in LoadedPcs, q.leg = {},
           q.pc \in BeforeCommit => q.emps = Employee,
           \A a \in Advance : Firm(ad, in, a),
           \A i \in q.ids : in[i].status = "PENDING" /\ Open(ad[i[1]].status)
    PROVE  Story(q, ad, in)
<1>1. /\ q.pc \notin Midway /\ q.pc \notin ReviewPcs /\ q.pc \notin CancelPcs /\ q.pc \notin ReopenPcs
      /\ q.pc # "reopenInst" /\ q.pc # "reviewWrite" /\ q.pc # "cancelWrite" /\ q.pc # "cancelInst"
      /\ q.pc # "markStatus" /\ q.pc \notin {"reviewDelete", "insert"}
      /\ q.pc \notin {"reviewDelete", "insert", "cancelInst"}
  BY DEF Midway, ReviewPcs, CancelPcs, ReopenPcs, LoadedPcs
<1> QED BY <1>1 DEF Story

LEMMA StoryBinding ==
    ASSUME StoryInv, NEW p \in Proc, Unbind(p) \/ Bind(p)
    PROVE  Story(req'[p], adv', inst')
<1>0. TypeOK
  BY DEF StoryInv, ControlInv
<1>1. /\ req[p].pc \in {"unbind", "bind"} /\ adv' = adv
      /\ \E pc \in {"bind", "readDed"} : Goto(p, pc)
  BY DEF Unbind, Bind, At
<1>2. req[p].leg = {} /\ req[p].emps = Employee /\ \A a \in Advance : Firm(adv, inst, a)
  BY <1>1 DEF StoryInv, Story, Midway, ReopenPcs, BeforeCommit, AfterReopen
<1>3. req'[p].pc \in {"bind", "readDed"} /\ req'[p].leg = {} /\ req'[p].emps = Employee
  BY <1>0, <1>1, <1>2, GotoLocals DEF Locals
<1>4. \A i \in Inst : inst'[i].status = inst[i].status
  <2> SUFFICES ASSUME NEW i \in Inst PROVE inst'[i].status = inst[i].status
    OBVIOUS
  <2>1. inst[i] \in InstRow
    BY <1>0 DEF TypeOK
  <2>2. \E pd : inst'[i] \in {inst[i], [inst[i] EXCEPT !.period = pd]}
    BY DEF Unbind, Bind, UnbindIneligible, BindNext
  <2> QED BY <2>1, <2>2 DEF InstRow
<1>5. \A a \in Advance, s \in Seq1 : inst'[<<a, s>>].status = inst[<<a, s>>].status
  BY <1>4 DEF Inst
<1>6. ASSUME NEW a \in Advance PROVE Firm(adv', inst', a)
  <2>1. Firm(adv, inst, a) /\ adv'[a] = adv[a]
    BY <1>1, <1>2
  <2> QED BY <1>5, <2>1, SameStory
<1> QED BY <1>3, <1>6, PlainStory DEF PlainPcs

LEMMA StoryReadDeductions ==
    ASSUME StoryInv, NEW p \in Proc, ReadDeductions(p)
    PROVE  Story(req'[p], adv', inst')
<1>0. TypeOK /\ req[p] \in ReqType
  BY DEF StoryInv, ControlInv, TypeOK
<1> DEFINE ded == DeductionsOf(adv, inst, PeriodOf(req[p].run), req[p].emps)
<1>1. /\ req[p].pc = "readDed" /\ adv' = adv /\ inst' = inst
      /\ req'[p] = [req[p] EXCEPT !.pc = "readCred", !.ded = ded, !.ids = ded]
  BY <1>0, UpdateMoves DEF ReadDeductions, At, tables
<1>2. req[p].leg = {} /\ req[p].emps = Employee /\ \A a \in Advance : Firm(adv, inst, a)
  BY <1>1 DEF StoryInv, Story, Midway, ReopenPcs, BeforeCommit, AfterReopen
<1>3. \A i \in ded : inst[i].status = "PENDING" /\ Open(adv[i[1]].status)
  BY DEF DeductionsOf
<1> HIDE DEF ded
<1>4. /\ req'[p].pc = "readCred" /\ req'[p].ids = ded /\ req'[p].leg = {} /\ req'[p].emps = Employee
  BY <1>0, <1>1, <1>2 DEF ReqType
<1>5. /\ req'[p].pc \in LoadedPcs
      /\ \A i \in req'[p].ids : inst'[i].status = "PENDING" /\ Open(adv'[i[1]].status)
      /\ \A a \in Advance : Firm(adv', inst', a)
  BY <1>1, <1>2, <1>3, <1>4 DEF LoadedPcs
<1> QED BY <1>4, <1>5, LoadedStory

LEMMA StoryReadCredits ==
    ASSUME StoryInv, NEW p \in Proc, ReadCredits(p)
    PROVE  Story(req'[p], adv', inst')
<1>0. TypeOK /\ req[p] \in ReqType
  BY DEF StoryInv, ControlInv, TypeOK
<1> DEFINE cred == CreditsOf(adv, PeriodOf(req[p].run), req[p].emps)
           pc == IF ConflictsOf(req[p].ded, cred) = {} THEN "commit" ELSE "drop"
<1>1. /\ req[p].pc = "readCred" /\ adv' = adv /\ inst' = inst
      /\ req'[p] = [req[p] EXCEPT !.pc = pc, !.cred = cred]
  BY <1>0, UpdateMoves DEF ReadCredits, At, tables
<1>2. /\ req[p].leg = {} /\ req[p].emps = Employee /\ \A a \in Advance : Firm(adv, inst, a)
      /\ \A i \in req[p].ids : inst[i].status = "PENDING" /\ Open(adv[i[1]].status)
  BY <1>1 DEF StoryInv, Story, Midway, ReopenPcs, LoadedPcs, BeforeCommit, AfterReopen
<1>3. pc \in {"commit", "drop"}
  OBVIOUS
<1> HIDE DEF cred, pc
<1>4. /\ req'[p].pc = pc /\ req'[p].ids = req[p].ids /\ req'[p].leg = {} /\ req'[p].emps = Employee
  BY <1>0, <1>1, <1>2 DEF ReqType
<1>5. /\ req'[p].pc \in LoadedPcs
      /\ \A i \in req'[p].ids : inst'[i].status = "PENDING" /\ Open(adv'[i[1]].status)
      /\ \A a \in Advance : Firm(adv', inst', a)
  BY <1>1, <1>2, <1>3, <1>4 DEF LoadedPcs
<1> QED BY <1>4, <1>5, LoadedStory

LEMMA StoryDrop ==
    ASSUME StoryInv, NEW p \in Proc, DropConflicts(p)
    PROVE  Story(req'[p], adv', inst')
<1>0. TypeOK /\ req[p] \in ReqType
  BY DEF StoryInv, ControlInv, TypeOK
<1> DEFINE both == ConflictsOf(req[p].ded, req[p].cred)
<1>1. /\ req[p].pc = "drop" /\ adv' = adv /\ inst' = UnbindPending(inst, both \cap req[p].ids)
      /\ req'[p] = [req[p] EXCEPT !.pc = "commit", !.ded = req[p].ded \ both,
                                  !.ids = req[p].ids \ both]
  BY <1>0, UpdateMoves DEF DropConflicts, At
<1>2. /\ req[p].leg = {} /\ req[p].emps = Employee /\ \A a \in Advance : Firm(adv, inst, a)
      /\ \A i \in req[p].ids : inst[i].status = "PENDING" /\ Open(adv[i[1]].status)
  BY <1>1 DEF StoryInv, Story, Midway, ReopenPcs, LoadedPcs, BeforeCommit, AfterReopen
<1> HIDE DEF both
<1>3. /\ req'[p].pc = "commit" /\ req'[p].ids = req[p].ids \ both /\ req'[p].leg = {}
      /\ req'[p].emps = Employee
  BY <1>0, <1>1, <1>2 DEF ReqType
<1>4. \A i \in Inst : inst'[i].status = inst[i].status
  BY <1>0, <1>1 DEF UnbindPending, TypeOK, InstRow
<1>5. \A a \in Advance, s \in Seq1 : inst'[<<a, s>>].status = inst[<<a, s>>].status
  BY <1>4 DEF Inst
<1>6. ASSUME NEW a \in Advance PROVE Firm(adv', inst', a)
  <2>1. Firm(adv, inst, a) /\ adv'[a] = adv[a]
    BY <1>1, <1>2
  <2> QED BY <1>5, <2>1, SameStory
<1>7. \A i \in req'[p].ids : inst'[i].status = "PENDING" /\ Open(adv'[i[1]].status)
  BY <1>0, <1>1, <1>2, <1>3, <1>4, ZenonT(30) DEF ReqType
<1> QED BY <1>3, <1>6, <1>7, LoadedStory DEF LoadedPcs

\* No advance is approved and without its installments while a load reads.
LEMMA StoryReadLegacy ==
    ASSUME StoryInv, NEW p \in Proc, ReadLegacy(p)
    PROVE  Story(req'[p], adv', inst')
<1>0. TypeOK /\ req[p] \in ReqType
  BY DEF StoryInv, ControlInv, TypeOK
<1> DEFINE leg == LegacyOf(adv, inst, req[p].emps)
<1>1. /\ req[p].pc \in {"unbind", "bind", "readDed", "readCred", "drop", "commit"}
      /\ adv' = adv /\ inst' = inst
      /\ req'[p] = [req[p] EXCEPT !.legRead = TRUE, !.leg = leg]
  BY <1>0, UpdateMoves DEF ReadLegacy, tables
<1>2. /\ req[p].emps = Employee /\ \A a \in Advance : Firm(adv, inst, a)
      /\ req[p].pc \in LoadedPcs =>
           \A i \in req[p].ids : inst[i].status = "PENDING" /\ Open(adv[i[1]].status)
  BY <1>1 DEF StoryInv, Story, Midway, ReopenPcs, BeforeCommit, AfterReopen
<1>3. leg = {}
  <2> SUFFICES ASSUME NEW a \in Advance, adv[a].status = "APPROVED", ~ HasInstallments(inst, a)
               PROVE  FALSE
    BY DEF LegacyOf
  <2>1. Some(inst, a, "PENDING") \/ Some(inst, a, "DEDUCTED")
    BY <1>0, <1>2, FirstInstallment DEF TypeOK, Firm
  <2> QED BY <2>1 DEF Some, HasInstallments
<1> HIDE DEF leg
<1>4. /\ req'[p].pc = req[p].pc /\ req'[p].ids = req[p].ids /\ req'[p].leg = {}
      /\ req'[p].emps = Employee
  BY <1>0, <1>1, <1>2, <1>3 DEF ReqType
<1>5. CASE req[p].pc \in LoadedPcs
  BY <1>1, <1>2, <1>4, <1>5, LoadedStory
<1>6. CASE req[p].pc \notin LoadedPcs
  <2>1. req[p].pc \in PlainPcs
    BY <1>1, <1>6 DEF LoadedPcs, PlainPcs
  <2> QED BY <1>1, <1>2, <1>4, <2>1, PlainStory
<1> QED BY <1>5, <1>6

LEMMA StoryCommit ==
    ASSUME StoryInv, NEW p \in Proc, Commit(p)
    PROVE  Story(req'[p], adv', inst') /\ \A r \in Run, e \in Employee : line'[r][e].leg = {}
<1>0. TypeOK /\ req[p] \in ReqType
  BY DEF StoryInv, ControlInv, TypeOK
<1> DEFINE r == req[p].run
           paid == req[p].emps \cap Compensated
           wiped == InScope(req[p].scope)
           ids == {i \in req[p].ids : OwnerOf(i) \in paid}
           leg == {a \in req[p].leg : AdvEmp[a] \in paid}
           row == [Idle EXCEPT !.pc = "markInst", !.run = r, !.ids = ids,
                        !.cred = {a \in req[p].cred : AdvEmp[a] \in paid}, !.leg = leg]
<1>1. req'[p] = row /\ req[p].pc = "commit" /\ adv' = adv /\ inst' = inst
  BY DEF Commit, ForgetLines, At
<1>2. /\ req[p].leg = {} /\ \A a \in Advance : Firm(adv, inst, a)
      /\ \A i \in req[p].ids : inst[i].status = "PENDING" /\ Open(adv[i[1]].status)
  BY <1>1 DEF StoryInv, Story, Midway, ReopenPcs, LoadedPcs, BeforeCommit, AfterReopen
<1>3. row.pc = "markInst" /\ row.ids = ids /\ row.leg = leg
  BY DEF Idle
<1>4. leg = {} /\ \A i \in ids : inst[i].status = "PENDING" /\ Open(adv[i[1]].status)
  BY <1>2
<1>5. Story(req'[p], adv', inst')
  <2> HIDE DEF row, ids, leg
  <2> QED BY <1>1, <1>2, <1>3, <1>4, LoadedStory DEF LoadedPcs, BeforeCommit, AfterReopen
<1>6. \A e \in Employee : NewLine(p, e).leg = {} /\ NoLine.leg = {}
  BY <1>2 DEF NewLine, NoLine
<1>7. \A e \in Employee : line'[r][e] \in {NewLine(p, e), NoLine, line[r][e]} \/ r \notin Run
  BY <1>0 DEF Commit, TypeOK
<1>8. \A r2 \in Run : r2 # r => line'[r2] = line[r2]
  BY <1>0 DEF Commit, TypeOK
<1>9. ASSUME NEW r2 \in Run, NEW e \in Employee PROVE line'[r2][e].leg = {}
  <2>1. line[r2][e].leg = {}
    BY DEF StoryInv
  <2> HIDE DEF r
  <2> QED BY <1>6, <1>7, <1>8, <2>1
<1> QED BY <1>5, <1>9

LEMMA StoryMarkInst ==
    ASSUME StoryInv, NEW p \in Proc, MarkInst(p)
    PROVE  Story(req'[p], adv', inst')
<1>0. TypeOK /\ req[p] \in ReqType
  BY DEF StoryInv, ControlInv, TypeOK
<1>1. /\ req[p].pc = "markInst" /\ adv' = adv /\ Goto(p, "markStatus")
      /\ inst' = MarkInstallments(inst, req[p].ids, req[p].run)
  BY DEF MarkInst, At
<1>2. /\ req[p].leg = {} /\ \A a \in Advance : Firm(adv, inst, a)
      /\ \A i \in req[p].ids : inst[i].status = "PENDING" /\ Open(adv[i[1]].status)
      /\ req[p].ids \subseteq Inst
  BY <1>0, <1>1 DEF StoryInv, Story, Midway, ReopenPcs, LoadedPcs, ReqType
<1>3. req'[p].pc = "markStatus" /\ req'[p].ids = req[p].ids /\ req'[p].leg = {}
  BY <1>0, <1>1, <1>2, GotoLocals DEF Locals
<1>4. \A i \in Inst : inst'[i].status = IF i \in req[p].ids THEN "DEDUCTED" ELSE inst[i].status
  BY <1>0, <1>1, <1>2 DEF MarkInstallments, TypeOK, InstRow
<1>5. \A a \in Advance, s \in Seq1 : <<a, s>> \in Inst /\ <<a, s>>[1] = a
  BY DEF Inst
<1>6. ASSUME NEW a \in Advance
      PROVE  IF Charging(req'[p], a)
             THEN Loose(adv', inst', a) /\ Open(adv'[a].status) /\ Some(inst', a, "DEDUCTED")
             ELSE Firm(adv', inst', a)
  <2>1. CASE Charging(req'[p], a)
    <3>1. PICK i \in req[p].ids : i[1] = a
      BY <1>3, <2>1 DEF Charging
    <3>2. i[2] \in Seq1 /\ i = <<a, i[2]>>
      BY <1>2, <3>1, InstType
    <3>3. Open(adv'[a].status) /\ Some(inst', a, "DEDUCTED")
      BY <1>1, <1>2, <1>4, <3>1, <3>2 DEF Some
    <3>4. Loose(adv, inst, a)
      BY <1>2 DEF Firm
    <3>5. Loose(adv', inst', a)
      <4>1. \A s \in Seq1 : \/ inst'[<<a, s>>].status = inst[<<a, s>>].status
                            \/ inst[<<a, s>>].status = "PENDING" /\ inst'[<<a, s>>].status = "DEDUCTED"
        BY <1>2, <1>4, <1>5
      <4> QED BY <1>1, <3>3, <3>4, <4>1 DEF Loose, Open
    <3> QED BY <2>1, <3>3, <3>5
  <2>2. CASE ~ Charging(req'[p], a)
    <3>1. \A s \in Seq1 : inst'[<<a, s>>].status = inst[<<a, s>>].status
      BY <1>3, <1>4, <1>5, <2>2 DEF Charging
    <3> QED BY <1>1, <1>2, <2>2, <3>1, SameStory, ZenonT(60)
  <2> QED BY <2>1, <2>2
<1> QED BY <1>3, <1>6
        DEF Story, BeforeCommit, AfterReopen, Midway, ReviewPcs, CancelPcs, ReopenPcs, LoadedPcs

LEMMA StoryMarkStatus ==
    ASSUME StoryInv, NEW p \in Proc, MarkStatus(p)
    PROVE  Story(req'[p], adv', inst')
<1>0. TypeOK /\ req[p] \in ReqType
  BY DEF StoryInv, ControlInv, TypeOK
<1>1. /\ req[p].pc = "markStatus" /\ inst' = inst
      /\ adv' = MarkStatuses(adv, inst, req[p].ids, req[p].run)
      /\ req'[p] = [req[p] EXCEPT !.pc = "markCred", !.ids = {}]
  BY <1>0, UpdateMoves DEF MarkStatus, At
<1>2. /\ req[p].leg = {}
      /\ \A a \in Advance :
           IF Charging(req[p], a)
           THEN Loose(adv, inst, a) /\ Open(adv[a].status) /\ Some(inst, a, "DEDUCTED")
           ELSE Firm(adv, inst, a)
  BY <1>1 DEF StoryInv, Story
<1>3. req'[p].pc = "markCred" /\ req'[p].leg = {}
  BY <1>0, <1>1, <1>2 DEF ReqType
<1>4. ASSUME NEW a \in Advance PROVE Firm(adv', inst', a)
  <2>0. adv[a] \in AdvRow
    BY <1>0 DEF TypeOK
  <2>1. CASE ~ Charging(req[p], a)
    <3>1. adv'[a] = adv[a] /\ Firm(adv, inst, a)
      BY <1>1, <1>2, <2>1 DEF MarkStatuses, Charging
    <3> QED BY <1>1, <3>1, SameStory
  <2>2. CASE Charging(req[p], a) /\ Some(inst, a, "PENDING")
    <3>1. adv'[a] = [adv[a] EXCEPT !.status = "PARTIALLY_DEDUCTED"]
      BY <1>1, <2>2 DEF MarkStatuses, Charging
    <3>2. adv'[a].status = "PARTIALLY_DEDUCTED" /\ adv'[a].count = adv[a].count
      BY <2>0, <3>1 DEF AdvRow
    <3> QED BY <1>1, <1>2, <2>2, <3>2 DEF Firm, Loose, Open
  <2>3. CASE Charging(req[p], a) /\ ~ Some(inst, a, "PENDING")
    <3>1. adv'[a] = [adv[a] EXCEPT !.status = "DEDUCTED", !.deducted = req[p].run]
      BY <1>1, <2>3 DEF MarkStatuses, Charging
    <3>2. adv'[a].status = "DEDUCTED" /\ adv'[a].count = adv[a].count
      BY <2>0, <3>1 DEF AdvRow
    <3> QED BY <1>1, <1>2, <2>3, <3>2 DEF Firm, Loose, Open
  <2> QED BY <2>1, <2>2, <2>3
<1> QED BY <1>3, <1>4, PlainStory DEF PlainPcs

LEMMA StoryMarkRest ==
    ASSUME StoryInv, NEW p \in Proc, MarkCred(p) \/ MarkLeg(p) \/ FinishCalc(p)
    PROVE  Story(req'[p], adv', inst')
<1>0. TypeOK /\ req[p] \in ReqType
  BY DEF StoryInv, ControlInv, TypeOK
<1>1. req[p].pc \in {"markCred", "markLegacy", "finish"} /\ inst' = inst
  BY DEF MarkCred, MarkLeg, FinishCalc, At
<1>2. req[p].leg = {} /\ \A a \in Advance : Firm(adv, inst, a)
  BY <1>1 DEF StoryInv, Story, Midway, ReopenPcs
<1>3. \A a \in Advance : adv'[a].status = adv[a].status /\ adv'[a].count = adv[a].count
  <2> SUFFICES ASSUME NEW a \in Advance
               PROVE  adv'[a].status = adv[a].status /\ adv'[a].count = adv[a].count
    OBVIOUS
  <2>1. adv[a] \in AdvRow
    BY <1>0 DEF TypeOK
  <2>2. adv'[a] \in {adv[a], [adv[a] EXCEPT !.credited = req[p].run]}
    BY <1>2 DEF MarkCred, MarkLeg, FinishCalc, MarkCredits, MarkLegacy
  <2> QED BY <2>1, <2>2 DEF AdvRow
<1>4. req'[p].pc \in {"markLegacy", "finish", "idle"} /\ req'[p].leg = {}
  <2>1. ASSUME MarkCred(p) PROVE req'[p] = [req[p] EXCEPT !.pc = "markLegacy", !.cred = {}]
    BY <1>0, <2>1, UpdateMoves DEF MarkCred
  <2>2. MarkCred(p) => req'[p].pc = "markLegacy" /\ req'[p].leg = req[p].leg
    BY <1>0, <2>1 DEF ReqType
  <2>3. MarkLeg(p) => req'[p].pc = "finish" /\ req'[p].leg = req[p].leg
    BY <1>0, GotoLocals DEF MarkLeg, Locals
  <2>4. FinishCalc(p) => req'[p].pc = "idle" /\ req'[p].leg = {}
    BY <1>0, ReturnLocals DEF FinishCalc
  <2> QED BY <1>2, <2>2, <2>3, <2>4
<1>5. \A a \in Advance : Firm(adv', inst', a)
  BY <1>1, <1>2, <1>3, SameStory
<1> QED BY <1>4, <1>5, PlainStory DEF PlainPcs

\* Runs are created and slips issued without a word about advances.
LEMMA StoryRunStep ==
    ASSUME StoryInv, NEW p \in Proc, RunStep(p)
    PROVE  Story(req'[p], adv', inst')
<1>0. TypeOK
  BY DEF StoryInv, ControlInv
<1>1. adv' = adv /\ inst' = inst /\ req[p].pc \in {"idle", "createRun", "issueWrite"}
  <2>1. Idle.pc = "idle"
    BY DEF Idle
  <2> QED BY <2>1 DEF RunStep, CreateRunCount, CreateRunInsert, IssueRead, IssueWrite, At, Begin, tables
<1>2. \A a \in Advance : Firm(adv, inst, a)
  BY <1>1 DEF StoryInv, Story, Midway, ReopenPcs
<1>3. req'[p].pc \in {"idle", "createRun", "issueWrite"} /\ req'[p].leg = {}
  <2>1. ASSUME NEW pd \in Period, CreateRunCount(p, pd)
        PROVE  req'[p].pc = "createRun" /\ req'[p].leg = {}
    <3>1. req'[p] = [Idle EXCEPT !.pc = "createRun", !.run = <<pd, RunsOf(pd) + 1>>]
      BY <1>0, <2>1, UpdateMoves DEF CreateRunCount, Begin
    <3> QED BY <3>1 DEF Idle
  <2>2. ASSUME NEW r \in Run, NEW scope \in Scopes, IssueRead(p, r, scope)
        PROVE  req'[p].pc = "issueWrite" /\ req'[p].leg = {}
    <3>1. req'[p] = [Idle EXCEPT !.pc = "issueWrite", !.run = r, !.rows = LinesSeen(r, scope)]
      BY <1>0, <2>2, UpdateMoves DEF IssueRead, Begin
    <3> QED BY <3>1 DEF Idle
  <2>3. CreateRunInsert(p) \/ IssueWrite(p) => req'[p].pc = "idle" /\ req'[p].leg = {}
    BY <1>0, ReturnLocals DEF CreateRunInsert, IssueWrite
  <2> QED BY <2>1, <2>2, <2>3 DEF RunStep
<1> QED BY <1>1, <1>2, <1>3, PlainStory DEF PlainPcs

-----------------------------------------------------------------------------
(* The whole system.                                                       *)

LEMMA StoryInit == Init => StoryInv
<1> SUFFICES ASSUME Init PROVE StoryInv
  OBVIOUS
<1>1. \A p \in Proc : req[p].pc = "idle" /\ req[p].leg = {}
  BY DEF Init, Idle
<1>2. \A r \in Run, e \in Employee : line[r][e].leg = {}
  BY DEF Init, NoLines, NoLine
<1>3. ASSUME NEW a \in Advance PROVE Firm(adv, inst, a)
  <2>1. PICK t \in [Preapproved -> Terms] :
          /\ adv = [b \in Advance |->
               IF b \in Preapproved
               THEN [status |-> "APPROVED", mode |-> t[b].mode, start |-> t[b].start,
                     count |-> t[b].count, credited |-> NoRun, deducted |-> NoRun]
               ELSE NewAdvance]
          /\ inst = [i \in Inst |-> IF i[1] \in Preapproved /\ i[2] <= t[i[1]].count
                                    THEN FreshInst ELSE NoInst]
    BY DEF Init
  <2>2. \A s \in Seq1 : <<a, s>> \in Inst /\ <<a, s>>[1] = a /\ <<a, s>>[2] = s
    BY DEF Inst
  <2>3. \A s \in Seq1 : inst[<<a, s>>] = IF a \in Preapproved /\ s <= t[a].count
                                         THEN FreshInst ELSE NoInst
    BY <2>1, <2>2
  <2>4. CASE a \in Preapproved
    <3>1. adv[a].status = "APPROVED" /\ adv[a].count = t[a].count
      BY <2>1, <2>4
    <3>2. \A s \in Seq1 : inst[<<a, s>>].status = IF s <= adv[a].count THEN "PENDING" ELSE "NONE"
      BY <2>3, <2>4, <3>1 DEF FreshInst, NoInst
    <3> QED BY <3>1, <3>2 DEF Firm, Loose, Some
  <2>5. CASE a \notin Preapproved
    <3>1. adv[a].status = "NONE"
      BY <2>1, <2>5 DEF NewAdvance
    <3>2. \A s \in Seq1 : inst[<<a, s>>].status = "NONE"
      BY <2>3, <2>5 DEF NoInst
    <3> QED BY <3>1, <3>2 DEF Firm, Loose
  <2> QED BY <2>4, <2>5
<1>4. \A p \in Proc : Story(req[p], adv, inst)
  BY <1>1, <1>3, PlainStory DEF PlainPcs
<1> QED BY <1>2, <1>3, <1>4, ControlInit DEF StoryInv

LEMMA StoryAdvanceStep ==
    ASSUME StoryInv, NEW p \in Proc, AdvanceStep(p)
    PROVE  Story(req'[p], adv', inst')
BY StorySubmit, StoryInsert, StoryReviewRead, StoryReject, StoryApprove, StoryDelete,
   StoryCancelRead, StoryCancelWrite, StoryCancelInst DEF AdvanceStep

LEMMA StoryCalcStep ==
    ASSUME StoryInv, WholeCompany, NEW p \in Proc, CalcStep(p)
    PROVE  Story(req'[p], adv', inst')
BY StoryStart, StoryReopenRead, StoryReopenInst, StoryReopenAdvances, StoryReopenStatus,
   StoryBinding, StoryReadDeductions, StoryReadCredits, StoryDrop, StoryReadLegacy, StoryCommit,
   StoryMarkInst, StoryMarkStatus, StoryMarkRest DEF CalcStep

LEMMA StoryNext ==
    ASSUME Lone, WholeCompany, Failures = FALSE, StoryInv, ControlInv', [Next]_vars
    PROVE  StoryInv'
<1>0. StoryInv' <=> /\ ControlInv'
                    /\ \A q \in Proc : Story(req'[q], adv', inst')
                    /\ Quiet' => \A a \in Advance : Firm(adv', inst', a)
                    /\ \A r \in Run, e \in Employee : line'[r][e].leg = {}
  BY DEF StoryInv, Story, Firm, Loose, Some, Charging, Inserted
<1>1. ASSUME UNCHANGED <<adv, inst, req, line>>
      PROVE  StoryInv'
  <2>1. /\ \A q \in Proc : Story(req'[q], adv', inst')
        /\ Quiet' => \A a \in Advance : Firm(adv', inst', a)
        /\ \A r \in Run, e \in Employee : line'[r][e].leg = {}
    BY <1>1 DEF StoryInv, Quiet
  <2> QED BY <1>0, <2>1
<1>2. ASSUME NEW p \in Proc, AdvanceStep(p) \/ CalcStep(p) \/ RunStep(p)
      PROVE  StoryInv'
  <2>1. Story(req'[p], adv', inst')
    BY <1>2, StoryAdvanceStep, StoryCalcStep, StoryRunStep
  <2>2. \A q \in Proc : Story(req'[q], adv', inst')
    BY <2>1 DEF Lone
  <2>3. Quiet' => \A a \in Advance : Firm(adv', inst', a)
    <3>1. Quiet' => req'[p].pc = "idle"
      BY DEF Quiet
    <3>2. "idle" \notin Midway
      BY DEF Midway, ReopenPcs
    <3> QED BY <2>1, <3>1, <3>2 DEF Story
  <2>4. \A r \in Run, e \in Employee : line'[r][e].leg = {}
    <3>1. Commit(p) \/ line' = line
      BY <1>2 DEF AdvanceStep, SubmitAdvance, InsertNext, ReviewRead, ReviewReject, ReviewApprove,
         ReviewDelete, CancelRead, CancelWrite, CancelInstallments, RunStep, CreateRunCount,
         CreateRunInsert, IssueRead, IssueWrite, CalcStep, CalcStart, ReopenRead, ReopenInst,
         ReopenCredit, ReopenDeduct, ReopenStatus, Unbind, Bind, ReadDeductions, ReadCredits,
         DropConflicts, ReadLegacy, MarkInst, MarkStatus, MarkCred, MarkLeg, FinishCalc, tables
    <3>2. line' = line => \A r \in Run, e \in Employee : line'[r][e].leg = {}
      BY DEF StoryInv
    <3> QED BY <3>1, <3>2, StoryCommit
  <2> QED BY <1>0, <2>2, <2>3, <2>4
<1>3. \A p \in Proc : ~ Fail(p)
  BY DEF Fail
<1>4. \A r, s : RunAction(r, s) => UNCHANGED <<adv, inst, req, line>>
  BY DEF RunAction
<1>5. \A e \in Deactivatable : FALSE
  BY DEF WholeCompany
<1>6. UNCHANGED vars => UNCHANGED <<adv, inst, req, line>>
  BY DEF vars
<1> QED BY <1>1, <1>2, <1>3, <1>4, <1>5, <1>6 DEF Next

LEMMA StoryAlways ==
    ASSUME Lone, WholeCompany, Failures = FALSE
    PROVE  Spec => []StoryInv
<1>1. StoryInv /\ ControlInv' /\ [Next]_vars => StoryInv'
  BY StoryNext
<1>2. OneRunAtATime
  BY DEF OneRunAtATime
<1> QED BY <1>1, <1>2, StoryInit, ControlAlways, PTL DEF Spec

\* When requests come one at a time and none is abandoned, the status of an advance
\* and its installments tell the same story whenever no request is at work, whatever
\* was submitted, reviewed, cancelled and recalculated before, in any order.
THEOREM StatusTellsInstallments ==
    ASSUME Lone, WholeCompany, Failures = FALSE
    PROVE  Spec => []StatusMatchesInstallments
<1>1. StoryInv => StatusMatchesInstallments
  <2> SUFFICES ASSUME StoryInv, Quiet, NEW a \in Advance, NEW s \in Seq1
               PROVE
                 /\ adv[a].status \in {"NONE", "SUBMITTED", "REJECTED"} => inst[<<a, s>>].status = "NONE"
                 /\ Open(adv[a].status) => (inst[<<a, s>>].status # "NONE" <=> s <= adv[a].count)
                 /\ adv[a].status = "APPROVED" => inst[<<a, s>>].status \notin {"DEDUCTED", "CANCELLED"}
                 /\ adv[a].status = "PARTIALLY_DEDUCTED" =>
                      Some(inst, a, "PENDING") /\ Some(inst, a, "DEDUCTED")
                 /\ adv[a].status = "DEDUCTED" => (inst[<<a, s>>].status = "DEDUCTED" <=> s <= adv[a].count)
                 /\ adv[a].status = "CANCELLED" => inst[<<a, s>>].status \in {"NONE", "CANCELLED"}
    BY DEF StatusMatchesInstallments
  <2>1. Firm(adv, inst, a)
    BY DEF StoryInv
  <2> QED BY <2>1 DEF Firm, Loose, Some, Open
<1> QED BY <1>1, StoryAlways, PTL

\* No statement revives a cancelled advance: the story says what the advance a
\* statement writes was, when the request decided to write it.
LEMMA CancelledStays ==
    ASSUME WholeCompany, Failures = FALSE, StoryInv, [Next]_vars, NEW a \in Advance,
           adv[a].status = "CANCELLED"
    PROVE  adv'[a].status = "CANCELLED"
<1>0. TypeOK /\ adv[a] \in AdvRow
  BY DEF StoryInv, ControlInv, TypeOK
<1> DEFINE Kept == adv'[a].status = "CANCELLED"
<1>1. adv' = adv => Kept
  OBVIOUS
<1>2. ASSUME adv'[a] \in {adv[a]} \cup {[adv[a] EXCEPT !.credited = r] : r \in Run \cup {NoRun}}
                         \cup {[adv[a] EXCEPT !.deducted = NoRun]}
      PROVE  Kept
  BY <1>0, <1>2 DEF AdvRow
<1> HIDE DEF Kept
<1>3. ASSUME NEW p \in Proc, AdvanceStep(p)
      PROVE  Kept
  <2>1. ASSUME NEW b \in Advance, NEW t \in Terms, SubmitAdvance(p, b, t) PROVE Kept
    <3>1. a # b /\ adv'[a] = adv[a]
      BY <1>0, <2>1 DEF SubmitAdvance, InsertAdvance, TypeOK
    <3> QED BY <1>2, <3>1
  <2>2. ASSUME ReviewReject(p) \/ ReviewApprove(p) PROVE Kept
    <3>1. req[p].pc = "reviewWrite"
      BY <2>2 DEF ReviewReject, ReviewApprove, At
    <3>2. \A b \in req[p].adv : adv[b].status = "SUBMITTED"
      BY <3>1 DEF StoryInv, Story
    <3>3. a \notin req[p].adv
      BY <3>2
    <3>4. adv'[a] = adv[a]
      BY <1>0, <2>2, <3>3 DEF ReviewReject, ReviewApprove, SetAdvanceStatus, ApproveAdvance, TypeOK
    <3> QED BY <1>2, <3>4
  <2>3. ASSUME CancelWrite(p) PROVE Kept
    <3>1. PICK b \in req[p].adv : adv' = SetAdvanceStatus(adv, b, "CANCELLED")
      BY <2>3 DEF CancelWrite
    <3>2. b \in Advance
      BY <1>0 DEF TypeOK, ReqType
    <3> QED BY <1>0, <3>1, <3>2, StatusWritten DEF Kept
  <2> QED BY <1>1, <1>3, <2>1, <2>2, <2>3
          DEF AdvanceStep, InsertNext, ReviewRead, ReviewDelete, CancelRead, CancelInstallments, tables
<1>4. ASSUME NEW p \in Proc, CalcStep(p)
      PROVE  Kept
  <2>0. req[p].pc \in CalcPcs => req[p].run \in Run
    BY DEF StoryInv, ControlInv, Calculates
  <2>1. ASSUME ReopenCredit(p) \/ ReopenDeduct(p) \/ MarkCred(p) PROVE Kept
    <3>1. req[p].run \in Run
      BY <2>0, <2>1 DEF ReopenCredit, ReopenDeduct, MarkCred, At, CalcPcs
    <3> QED BY <1>2, <2>1, <3>1 DEF ReopenCredit, ReopenDeduct, MarkCred, ReopenCredits, ReopenDeducted,
       MarkCredits
  <2>2. ASSUME ReopenStatus(p) PROVE Kept
    <3>1. CASE a \in req[p].affected
      <4>1. req[p].pc = "reopenStatus"
        BY <2>2 DEF ReopenStatus, At
      <4>2. Loose(adv, inst, a)
        BY <3>1, <4>1 DEF StoryInv, Story, ReopenPcs
      <4>3. adv'[a] = [adv[a] EXCEPT !.status = ReopenedStatus(adv[a], inst, a)]
        BY <2>2, <3>1 DEF ReopenStatus, ReopenStatuses
      <4>4. adv \in [Advance -> AdvRow]
        BY <1>0 DEF TypeOK
      <4> QED BY <4>2, <4>3, <4>4, ReopenedIsFirm, ZenonT(60) DEF Kept
    <3>2. CASE a \notin req[p].affected
      BY <1>2, <2>2, <3>2 DEF ReopenStatus, ReopenStatuses
    <3> QED BY <3>1, <3>2
  <2>3. ASSUME MarkStatus(p) PROVE Kept
    <3>1. req[p].pc = "markStatus"
      BY <2>3 DEF MarkStatus, At
    <3>2. ~ Charging(req[p], a)
      BY <3>1 DEF StoryInv, Story, Open
    <3>3. adv'[a] = adv[a]
      BY <2>3, <3>2 DEF MarkStatus, MarkStatuses, Charging
    <3> QED BY <1>2, <3>3
  <2>4. ASSUME MarkLeg(p) PROVE Kept
    BY <1>2, <2>4 DEF MarkLeg, MarkLegacy
  <2> QED BY <1>1, <1>4, <2>1, <2>2, <2>3, <2>4
          DEF CalcStep, CalcStart, ReopenRead, ReopenInst, Unbind, Bind, ReadDeductions, ReadCredits,
              DropConflicts, ReadLegacy, Commit, MarkInst, FinishCalc, tables
<1>5. \A p \in Proc : RunStep(p) => Kept
  BY <1>1 DEF RunStep, CreateRunCount, CreateRunInsert, IssueRead, IssueWrite, tables
<1>6. \A p \in Proc : ~ Fail(p)
  BY DEF Fail
<1>7. \A r, s : RunAction(r, s) => Kept
  BY <1>1 DEF RunAction
<1>8. \A e \in Deactivatable : FALSE
  BY DEF WholeCompany
<1>9. UNCHANGED vars => Kept
  BY <1>1 DEF vars
<1>10. Kept
  BY <1>3, <1>4, <1>5, <1>6, <1>7, <1>8, <1>9 DEF Next
<1> QED BY <1>10 DEF Kept

\* A cancelled advance stays cancelled, however often the runs that paid it out are
\* recalculated (the status CASE of reopenAdvanceEffectsForRun), when requests come one
\* at a time and none is abandoned.
THEOREM CancelledForGood ==
    ASSUME Lone, WholeCompany, Failures = FALSE
    PROVE  Spec => CancelledIsFinal
<1>1. StoryInv /\ [Next]_vars =>
        \A a \in Advance : adv[a].status = "CANCELLED" => adv'[a].status = "CANCELLED"
  BY CancelledStays
<1>2. StoryInv /\ [Next]_vars =>
        [\A a \in Advance : adv[a].status = "CANCELLED" => adv'[a].status = "CANCELLED"]_vars
  BY <1>1
<1> QED BY <1>2, StoryAlways, PTL DEF Spec, CancelledIsFinal

-----------------------------------------------------------------------------
(* Deduction after payout.                                                 *)

\* What a load decided to deduct may still be deducted: nobody else is at work.
DeductInv ==
    /\ TypeOK
    /\ \A p \in Proc : req[p].pc \in {"readCred", "drop", "commit"} =>
         \A i \in req[p].ded : MayDeduct(adv[i[1]], PeriodOf(req[p].run))

LEMMA DeductNext ==
    ASSUME Lone, DeductInv, TypeOK', [Next]_vars
    PROVE  DeductInv'
<1>0. TypeOK
  BY DEF DeductInv
<1>1. ASSUME NEW p \in Proc, req'[p].pc \notin {"readCred", "drop", "commit"}
      PROVE  DeductInv'
  <2>1. \A q \in Proc : q = p
    BY DEF Lone
  <2> QED BY <1>1, <2>1 DEF DeductInv
<1>2. ASSUME NEW p \in Proc,
             req'[p].pc \in {"readCred", "drop", "commit"} =>
               \A i \in req'[p].ded : MayDeduct(adv'[i[1]], PeriodOf(req'[p].run))
      PROVE  DeductInv'
  <2>1. \A q \in Proc : q = p
    BY DEF Lone
  <2>2. \A q \in Proc : req'[q].pc \in {"readCred", "drop", "commit"} =>
               \A i \in req'[q].ded : MayDeduct(adv'[i[1]], PeriodOf(req'[q].run))
    BY <1>2, <2>1
  <2> QED BY <2>2 DEF DeductInv, MayDeduct, PaidOutBefore
<1>3. ASSUME UNCHANGED <<adv, req>>
      PROVE  DeductInv'
  BY <1>3 DEF DeductInv, MayDeduct, PaidOutBefore
<1>4. ASSUME NEW p \in Proc, AdvanceStep(p) \/ RunStep(p) \/ Fail(p)
      PROVE  DeductInv'
  <2>1. req'[p].pc \in {"idle"} \cup OtherPcs
    BY <1>0, <1>4, OtherEffects
  <2> QED BY <1>1, <2>1 DEF OtherPcs
<1>5. ASSUME NEW p \in Proc, CalcStep(p)
      PROVE  DeductInv'
  <2>1. ASSUME NEW r \in Run, NEW scope \in Scopes, CalcStart(p, r, scope) PROVE DeductInv'
    <3>1. req'[p].ded = {}
      BY <1>0, <2>1, StartEffects
    <3> QED BY <1>2, <3>1
  <2>2. ASSUME \/ ReopenRead(p) \/ ReopenInst(p) \/ ReopenCredit(p) \/ ReopenDeduct(p)
               \/ ReopenStatus(p) \/ Unbind(p) \/ Bind(p)
        PROVE  DeductInv'
    <3>1. req'[p].pc \in {"reopenInst", "reopenCredit", "reopenDeduct", "reopenStatus", "unbind",
                          "bind", "readDed"}
      BY <1>0, <2>2, LoadEffects DEF Onward, Moved
    <3> QED BY <1>1, <3>1
  <2>3. ASSUME ReadDeductions(p) PROVE DeductInv'
    <3> DEFINE ded == DeductionsOf(adv, inst, PeriodOf(req[p].run), req[p].emps)
    <3>1. req'[p].ded = ded /\ req'[p].run = req[p].run /\ adv' = adv
      BY <1>0, <2>3, LoadEffects DEF Moved, ReadDeductions, tables
    <3>2. \A i \in ded : MayDeduct(adv[i[1]], PeriodOf(req[p].run))
      BY DEF DeductionsOf
    <3> HIDE DEF ded
    <3> QED BY <1>2, <3>1, <3>2
  <2>4. ASSUME ReadCredits(p) \/ DropConflicts(p) \/ ReadLegacy(p) PROVE DeductInv'
    <3>1. /\ req'[p].ded \subseteq req[p].ded /\ req'[p].run = req[p].run /\ adv' = adv
          /\ req'[p].pc \in {"readCred", "drop", "commit"} => req[p].pc \in {"readCred", "drop", "commit"}
      BY <1>0, <2>4, LoadEffects DEF Onward, Moved, ReadCredits, DropConflicts, ReadLegacy, tables, At
    <3> QED BY <1>2, <3>1 DEF DeductInv
  <2>5. ASSUME Commit(p) PROVE DeductInv'
    <3>1. req'[p].pc = "markInst"
      BY <1>0, <2>5, CommitEffects DEF Settled
    <3> QED BY <1>1, <3>1
  <2>6. ASSUME MarkInst(p) \/ MarkStatus(p) \/ MarkCred(p) \/ MarkLeg(p) PROVE DeductInv'
    <3>1. req'[p].pc \in {"markStatus", "markCred", "markLegacy", "finish"}
      BY <1>0, <2>6, MarkEffects DEF Onward, Moved
    <3> QED BY <1>1, <3>1
  <2>7. ASSUME FinishCalc(p) PROVE DeductInv'
    <3>1. req'[p].pc = "idle"
      BY <1>0, <2>7, ReturnMoves DEF FinishCalc
    <3> QED BY <1>1, <3>1
  <2> QED BY <1>5, <2>1, <2>2, <2>3, <2>4, <2>5, <2>6, <2>7 DEF CalcStep
<1>6. \A r, s : RunAction(r, s) => UNCHANGED <<adv, req>>
  BY DEF RunAction
<1>7. \A e : SetActive(e) => UNCHANGED <<adv, req>>
  BY DEF SetActive
<1>8. UNCHANGED vars => UNCHANGED <<adv, req>>
  BY DEF vars
<1> QED BY <1>3, <1>4, <1>5, <1>6, <1>7, <1>8 DEF Next

\* A pay line starts deducting a WITH_SALARY advance only when a run of a strictly
\* earlier period has paid it out (the eligibility tests of loadAdvanceEffectsForPeriod),
\* when requests come one at a time, abandoned or not, of branches or of the company.
THEOREM DeductedAfterPayout ==
    ASSUME Lone
    PROVE  Spec => DeductOnlyAfterPayout
<1> DEFINE Fair == \A r \in Run, e \in Employee :
              \A i \in line'[r][e].ded \ line[r][e].ded :
                  LET row == adv[i[1]] IN
                  row.mode = "WITH_SALARY" =>
                      row.credited # NoRun /\ PeriodOf(row.credited) < PeriodOf(r)
<1>1. Init => DeductInv
  <2>1. Init => \A p \in Proc : req[p].pc = "idle"
    BY DEF Init, Idle
  <2> QED BY <2>1, InitTypeOK DEF DeductInv
<1>2. DeductInv /\ TypeOK' /\ [Next]_vars => DeductInv'
  BY DeductNext
<1>3. ASSUME DeductInv, [Next]_vars PROVE Fair
  <2>1. ASSUME line' = line PROVE Fair
    BY <2>1
  <2>2. ASSUME NEW p \in Proc, Commit(p) PROVE Fair
    <3> SUFFICES ASSUME NEW r \in Run, NEW e \in Employee, NEW i \in line'[r][e].ded \ line[r][e].ded,
                        adv[i[1]].mode = "WITH_SALARY"
                 PROVE  adv[i[1]].credited # NoRun /\ PeriodOf(adv[i[1]].credited) < PeriodOf(r)
      OBVIOUS
    <3>0. line \in [Run -> [Employee -> LineType]]
      BY <1>3 DEF DeductInv, TypeOK
    <3>1. r = req[p].run
      BY <2>2, <3>0 DEF Commit
    <3>2. line'[r][e] \in {NewLine(p, e), NoLine, line[r][e]}
      BY <2>2, <3>0, <3>1 DEF Commit
    <3>3. i \in NewLine(p, e).ded
      BY <3>2 DEF NoLine
    <3>4. i \in req[p].ded /\ req[p].pc = "commit"
      BY <2>2, <3>3 DEF NewLine, Commit, At
    <3>5. MayDeduct(adv[i[1]], PeriodOf(r))
      BY <1>3, <3>1, <3>4 DEF DeductInv
    <3> QED BY <3>5 DEF MayDeduct, PaidOutBefore
  <2> HIDE DEF Fair
  <2>3. \/ line' = line
        \/ \E p \in Proc : Commit(p)
    BY <1>3, ZenonT(60) DEF Next, vars, RunAction, SetActive, Fail, AdvanceStep, SubmitAdvance, InsertNext,
       ReviewRead, ReviewReject, ReviewApprove,
       ReviewDelete, CancelRead, CancelWrite, CancelInstallments, RunStep, CreateRunCount,
       CreateRunInsert, IssueRead, IssueWrite, CalcStep, CalcStart, ReopenRead, ReopenInst,
       ReopenCredit, ReopenDeduct, ReopenStatus, Unbind, Bind, ReadDeductions, ReadCredits,
       DropConflicts, ReadLegacy, MarkInst, MarkStatus, MarkCred, MarkLeg, FinishCalc, tables
  <2> QED BY <2>1, <2>2, <2>3
<1>4. DeductInv /\ [Next]_vars => [Fair]_vars
  BY <1>3
<1> QED BY <1>1, <1>2, <1>4, TypeCorrect, PTL DEF Spec, DeductOnlyAfterPayout

-----------------------------------------------------------------------------
(* One installment of an advance on a pay line.                            *)

\* Statements of a request that is not loading bind nothing.
LEMMA UnboundFrame ==
    ASSUME NEW q, NEW ad, NEW in, q.pc \notin BoundPcs, BoundInst(in) = {}
    PROVE  Binding(q, ad, in)
<1>1. q.pc \notin LoadedPcs
  BY DEF BoundPcs
<1> QED BY <1>1 DEF Binding

LEMMA NothingBound ==
    ASSUME NEW in, NEW in2, BoundInst(in) = {},
           \A i \in Inst : in2[i].status = "PENDING" /\ in2[i].period # NoPeriod =>
              in[i].status = "PENDING" /\ in[i].period # NoPeriod
    PROVE  BoundInst(in2) = {}
BY DEF BoundInst

LEMMA BindingAdvanceStep ==
    ASSUME BindingInv, NEW p \in Proc, AdvanceStep(p) \/ RunStep(p)
    PROVE  Binding(req'[p], adv', inst')
<1>0. TypeOK
  BY DEF BindingInv, StoryInv, ControlInv
<1>1. req'[p].pc \notin BoundPcs
  <2>1. req'[p].pc \in {"idle"} \cup OtherPcs
    BY <1>0, OtherEffects
  <2> QED BY <2>1 DEF OtherPcs, BoundPcs, LoadedPcs
<1>2. BoundInst(inst) = {}
  <2>1. Idle.pc = "idle"
    BY DEF Idle
  <2>2. req[p].pc \in {"idle"} \cup OtherPcs
    BY <2>1 DEF AdvanceStep, SubmitAdvance, InsertNext, ReviewRead, ReviewReject, ReviewApprove,
       ReviewDelete, CancelRead, CancelWrite, CancelInstallments, RunStep, CreateRunCount,
       CreateRunInsert, IssueRead, IssueWrite, At, Begin, OtherPcs
  <2> QED BY <2>2 DEF BindingInv, Binding, OtherPcs, BoundPcs, LoadedPcs
<1>3. BoundInst(inst') = {}
  <2>1. ASSUME NEW i \in Inst, inst'[i].status = "PENDING", inst'[i].period # NoPeriod
        PROVE  inst[i].status = "PENDING" /\ inst[i].period # NoPeriod
    <3>0. inst[i] \in InstRow
      BY <1>0 DEF TypeOK
    <3>1. inst'[i] \in {inst[i], FreshInst, NoInst, [inst[i] EXCEPT !.status = "CANCELLED"]}
      <4>1. CASE inst' = inst
        BY <4>1
      <4>2. CASE InsertNext(p)
        BY <1>0, <4>2 DEF InsertNext, InsertInstallment, TypeOK
      <4>3. CASE ReviewDelete(p)
        BY <4>3 DEF ReviewDelete, DeleteInstallments
      <4>4. CASE CancelInstallments(p)
        BY <4>4 DEF CancelInstallments, CancelPending
      <4> QED BY <4>1, <4>2, <4>3, <4>4 DEF AdvanceStep, SubmitAdvance, ReviewRead, ReviewReject,
         ReviewApprove, CancelRead, CancelWrite, RunStep, CreateRunCount, CreateRunInsert,
         IssueRead, IssueWrite, tables
    <3> QED BY <2>1, <3>0, <3>1 DEF FreshInst, NoInst, InstRow
  <2> QED BY <1>2, <2>1, NothingBound
<1> QED BY <1>1, <1>3, UnboundFrame

LEMMA BindingStart ==
    ASSUME BindingInv, NEW p \in Proc, NEW r \in Run, NEW scope \in Scopes, CalcStart(p, r, scope)
    PROVE  Binding(req'[p], adv', inst')
<1>0. TypeOK
  BY DEF BindingInv, StoryInv, ControlInv
<1>1. req[p].pc = "idle" /\ req'[p].ded = {} /\ req'[p].ids = {} /\ inst' = inst
  BY <1>0, StartEffects DEF CalcStart, tables
<1>2. BoundInst(inst) = {}
  BY <1>1 DEF BindingInv, Binding, BoundPcs, LoadedPcs
<1> QED BY <1>1, <1>2 DEF Binding, OneEach

LEMMA BindingReopen ==
    ASSUME BindingInv, NEW p \in Proc,
           \/ ReopenRead(p) \/ ReopenInst(p) \/ ReopenCredit(p) \/ ReopenDeduct(p)
           \/ ReopenStatus(p) \/ Unbind(p)
    PROVE  Binding(req'[p], adv', inst')
<1>0. TypeOK
  BY DEF BindingInv, StoryInv, ControlInv
<1>1. /\ req'[p].pc \in {"reopenInst", "reopenCredit", "reopenDeduct", "reopenStatus", "unbind", "bind"}
      /\ req[p].pc \in {"reopenRead", "reopenInst", "reopenCredit", "reopenDeduct", "reopenStatus", "unbind"}
  BY <1>0, LoadEffects DEF Onward, Moved, At, ReopenStatus
<1>2. BoundInst(inst) = {}
  BY <1>1 DEF BindingInv, Binding, BoundPcs, LoadedPcs
<1>3. BoundInst(inst') = {}
  <2>1. ASSUME NEW i \in Inst, inst'[i].status = "PENDING", inst'[i].period # NoPeriod
        PROVE  inst[i].status = "PENDING" /\ inst[i].period # NoPeriod
    <3>0. inst[i] \in InstRow
      BY <1>0 DEF TypeOK
    <3>1. inst'[i] \in {inst[i], FreshInst, [inst[i] EXCEPT !.period = NoPeriod]}
      BY DEF ReopenRead, ReopenInst, ReopenCredit, ReopenDeduct, ReopenStatus, Unbind,
         ReopenInstallments, UnbindIneligible, tables
    <3> QED BY <2>1, <3>0, <3>1 DEF FreshInst, InstRow
  <2> QED BY <1>2, <2>1, NothingBound
<1>4. req'[p].pc \notin BoundPcs
  BY <1>1 DEF BoundPcs, LoadedPcs
<1> QED BY <1>3, <1>4, UnboundFrame

\* The statement that binds takes the first unbound installment of an advance.
LEMMA BindingBind ==
    ASSUME BindingInv, NEW p \in Proc, Bind(p)
    PROVE  Binding(req'[p], adv', inst')
<1>0. TypeOK
  BY DEF BindingInv, StoryInv, ControlInv
<1> DEFINE pd == PeriodOf(req[p].run)
<1>1. /\ req[p].pc = "bind" /\ req'[p].pc = "readDed" /\ req'[p].run = req[p].run /\ adv' = adv
      /\ inst' = BindNext(adv, inst, pd, req[p].emps)
  BY <1>0, LoadEffects DEF Bind, At, Onward, Moved
<1>2. BoundInst(inst) = {}
  BY <1>1 DEF BindingInv, Binding, BoundPcs, LoadedPcs
<1> HIDE DEF pd
<1>3. ASSUME NEW i \in BoundInst(inst')
      PROVE  i \in Inst /\ NextUnbound(inst, i) /\ inst'[i].period = pd /\ Eligible(adv[i[1]], pd)
  <2>1. i \in Inst /\ inst[i] \in InstRow
    BY <1>0 DEF BoundInst, TypeOK
  <2>2. inst'[i] # inst[i]
    BY <1>2, <1>3 DEF BoundInst
  <2>3. Eligible(adv[i[1]], pd) /\ NextUnbound(inst, i) /\ inst'[i] = [inst[i] EXCEPT !.period = pd]
    BY <1>1, <2>1, <2>2 DEF BindNext
  <2> QED BY <2>1, <2>3 DEF InstRow
<1>4. OneEach(BoundInst(inst'))
  <2> SUFFICES ASSUME NEW i \in BoundInst(inst'), NEW j \in BoundInst(inst'), i[1] = j[1]
               PROVE  i = j
    BY DEF OneEach
  <2>1. /\ i[2] \in Seq1 /\ i = <<i[1], i[2]>>
        /\ j[2] \in Seq1 /\ j = <<j[1], j[2]>>
    BY <1>3, InstType
  <2>2. ~ (i[2] < j[2]) /\ ~ (j[2] < i[2])
    BY <1>3, <2>1 DEF NextUnbound
  <2>3. i[2] = j[2]
    BY <2>1, <2>2 DEF Seq1
  <2> QED BY <2>1, <2>3
<1>5. /\ req'[p].pc \in BoundPcs /\ req'[p].pc \notin LoadedPcs
  BY <1>1 DEF BoundPcs, LoadedPcs
<1> QED BY <1>1, <1>3, <1>4, <1>5 DEF Binding, pd

LEMMA BindingReadDeductions ==
    ASSUME BindingInv, NEW p \in Proc, ReadDeductions(p)
    PROVE  Binding(req'[p], adv', inst')
<1>0. TypeOK
  BY DEF BindingInv, StoryInv, ControlInv
<1> DEFINE pd == PeriodOf(req[p].run)
           ded == DeductionsOf(adv, inst, pd, req[p].emps)
<1>1. /\ req[p].pc = "readDed" /\ req'[p].pc = "readCred" /\ req'[p].run = req[p].run
      /\ req'[p].ded = ded /\ req'[p].ids = ded /\ adv' = adv /\ inst' = inst
  BY <1>0, LoadEffects DEF ReadDeductions, At, Moved, tables
<1>2. /\ OneEach(BoundInst(inst))
      /\ \A i \in BoundInst(inst) : inst[i].period = pd /\ Eligible(adv[i[1]], pd)
  BY <1>1 DEF BindingInv, Binding, BoundPcs
<1>3. req[p].emps = Employee /\ req[p].run \in Run
  <2>1. req[p].pc \in CalcPcs /\ req[p].pc \in BeforeCommit
    BY <1>1 DEF CalcPcs, BeforeCommit, AfterReopen
  <2> QED BY <2>1 DEF BindingInv, StoryInv, Story, ControlInv, Calculates
<1>4. pd # NoPeriod
  BY <1>3, BoundAssumption DEF Run, PeriodOf, Period, NoPeriod
<1>5. BoundInst(inst) \subseteq ded
  <2> SUFFICES ASSUME NEW i \in BoundInst(inst) PROVE i \in ded
    OBVIOUS
  <2>1. i \in Inst /\ inst[i].status = "PENDING" /\ OwnerOf(i) \in Employee
    BY InstType, AdvEmpAssumption DEF BoundInst, OwnerOf
  <2>2. Open(adv[i[1]].status) /\ MayDeduct(adv[i[1]], pd) /\ inst[i].period = pd
    BY <1>2 DEF Eligible
  <2> QED BY <1>3, <2>1, <2>2 DEF DeductionsOf
<1>6. \A i \in ded : OwnerOf(i) \in Compensated => i \in BoundInst(inst)
  BY <1>4 DEF DeductionsOf, BoundInst
<1> HIDE DEF ded, pd
<1>7. OneEach(ded)
  <2> SUFFICES ASSUME NEW i \in ded, NEW j \in ded, i[1] = j[1], OwnerOf(i) \in Compensated
               PROVE  i = j
    BY DEF OneEach
  <2>1. OwnerOf(j) \in Compensated
    BY DEF OwnerOf
  <2> QED BY <1>2, <1>6, <2>1 DEF OneEach
<1>8. req'[p].pc \in LoadedPcs /\ req'[p].pc \in BoundPcs
  BY <1>1 DEF LoadedPcs, BoundPcs
<1> QED BY <1>1, <1>2, <1>5, <1>7, <1>8 DEF Binding, pd

LEMMA BindingLoaded ==
    ASSUME BindingInv, NEW p \in Proc, ReadCredits(p) \/ ReadLegacy(p)
    PROVE  Binding(req'[p], adv', inst')
<1>0. TypeOK
  BY DEF BindingInv, StoryInv, ControlInv
<1>1. /\ req'[p].run = req[p].run /\ req'[p].ded = req[p].ded /\ req'[p].ids = req[p].ids
      /\ adv' = adv /\ inst' = inst
      /\ \/ req'[p].pc = req[p].pc
         \/ req[p].pc = "readCred" /\ req'[p].pc \in {"commit", "drop"}
  BY <1>0, LoadEffects DEF ReadCredits, ReadLegacy, At, Onward, Moved, tables
<1>2. Binding(req[p], adv, inst)
  BY DEF BindingInv
<1> QED BY <1>1, <1>2 DEF Binding, LoadedPcs, BoundPcs

LEMMA BindingDrop ==
    ASSUME BindingInv, NEW p \in Proc, DropConflicts(p)
    PROVE  Binding(req'[p], adv', inst')
<1>0. TypeOK
  BY DEF BindingInv, StoryInv, ControlInv
<1> DEFINE both == ConflictsOf(req[p].ded, req[p].cred)
<1>1. /\ req[p].pc = "drop" /\ req'[p].pc = "commit" /\ req'[p].run = req[p].run
      /\ req'[p].ded = req[p].ded \ both /\ req'[p].ids = req[p].ids \ both
      /\ adv' = adv /\ inst' = UnbindPending(inst, both \cap req[p].ids)
  BY <1>0, LoadEffects DEF DropConflicts, At, Moved
<1> HIDE DEF both
<1>2. /\ OneEach(BoundInst(inst)) /\ BoundInst(inst) \subseteq req[p].ids
      /\ req[p].ids = req[p].ded /\ OneEach(req[p].ded)
      /\ \A i \in BoundInst(inst) :
           inst[i].period = PeriodOf(req[p].run) /\ Eligible(adv[i[1]], PeriodOf(req[p].run))
  BY <1>1 DEF BindingInv, Binding, BoundPcs, LoadedPcs
<1>3. ASSUME NEW i \in BoundInst(inst')
      PROVE  i \in BoundInst(inst) /\ i \notin both /\ inst'[i] = inst[i]
  <2>1. i \in Inst /\ inst[i] \in InstRow /\ inst'[i].status = "PENDING" /\ inst'[i].period # NoPeriod
        /\ OwnerOf(i) \in Compensated
    BY <1>0, <1>3 DEF BoundInst, TypeOK
  <2>2. CASE i \in both \cap req[p].ids /\ inst[i].status = "PENDING"
    <3>1. inst'[i] = [inst[i] EXCEPT !.period = NoPeriod]
      BY <1>1, <2>1, <2>2 DEF UnbindPending
    <3> QED BY <2>1, <3>1 DEF InstRow
  <2>3. CASE ~ (i \in both \cap req[p].ids /\ inst[i].status = "PENDING")
    <3>1. inst'[i] = inst[i]
      BY <1>1, <2>1, <2>3 DEF UnbindPending
    <3>2. i \in BoundInst(inst)
      BY <2>1, <3>1 DEF BoundInst
    <3> QED BY <1>2, <2>1, <2>3, <3>1, <3>2
  <2> QED BY <2>2, <2>3
<1>4. OneEach(BoundInst(inst')) /\ OneEach(req[p].ded \ both)
  BY <1>2, <1>3 DEF OneEach
<1>5. BoundInst(inst') \subseteq req[p].ids \ both
  BY <1>2, <1>3
<1>6. \A i \in BoundInst(inst') :
         inst'[i].period = PeriodOf(req[p].run) /\ Eligible(adv[i[1]], PeriodOf(req[p].run))
  BY <1>2, <1>3
<1>7. req'[p].pc \in LoadedPcs /\ req'[p].pc \in BoundPcs
  BY <1>1 DEF LoadedPcs, BoundPcs
<1> QED BY <1>1, <1>2, <1>4, <1>5, <1>6, <1>7 DEF Binding

\* The lines a calculation writes, and what it is about to mark.
OneInstallment(lines) ==
    \A r \in Run, e \in Employee :
        /\ \A i \in lines[r][e].ded : OwnerOf(i) = e
        /\ \A i, j \in lines[r][e].ded : i[1] = j[1] => i = j

LEMMA BindingCommit ==
    ASSUME BindingInv, NEW p \in Proc, Commit(p)
    PROVE  Binding(req'[p], adv', inst') /\ OneInstallment(line')
<1>0. TypeOK /\ line \in [Run -> [Employee -> LineType]]
  BY DEF BindingInv, StoryInv, ControlInv, TypeOK
<1> DEFINE r == req[p].run
           paid == req[p].emps \cap Compensated
<1>1. /\ req[p].pc = "commit" /\ req'[p].pc = "markInst" /\ req'[p].run = r
      /\ req'[p].ids = {i \in req[p].ids : OwnerOf(i) \in paid}
      /\ adv' = adv /\ inst' = inst
  BY <1>0, CommitEffects DEF Commit, At, Settled
<1>2. /\ OneEach(BoundInst(inst)) /\ BoundInst(inst) \subseteq req[p].ids /\ OneEach(req[p].ded)
      /\ \A i \in BoundInst(inst) : inst[i].period = PeriodOf(r) /\ Eligible(adv[i[1]], PeriodOf(r))
  BY <1>1 DEF BindingInv, Binding, BoundPcs, LoadedPcs
<1>3. paid = Compensated
  <2>1. req[p].emps = Employee
    BY <1>1 DEF BindingInv, StoryInv, Story, BeforeCommit, AfterReopen
  <2> QED BY <2>1, EmployeeAssumption
<1>4. BoundInst(inst) \subseteq req'[p].ids
  BY <1>1, <1>2, <1>3 DEF BoundInst
<1>5. Binding(req'[p], adv', inst')
  <2>1. req'[p].pc \in BoundPcs /\ req'[p].pc \in LoadedPcs /\ req'[p].pc \notin LoadedPcs \ {"markInst"}
    BY <1>1 DEF BoundPcs, LoadedPcs
  <2> HIDE DEF r, paid
  <2> QED BY <1>1, <1>2, <1>4, <2>1 DEF Binding
<1>6. ASSUME NEW s \in Run, NEW e \in Employee
      PROVE  /\ \A i \in line'[s][e].ded : OwnerOf(i) = e
             /\ \A i, j \in line'[s][e].ded : i[1] = j[1] => i = j
  <2>1. CASE line'[s][e] = NewLine(p, e) /\ e \in paid
    <3>1. \A i \in line'[s][e].ded : i \in req[p].ded /\ OwnerOf(i) = e
      BY <2>1 DEF NewLine
    <3> QED BY <1>2, <1>3, <2>1, <3>1 DEF OneEach
  <2>2. CASE line'[s][e] = NoLine
    BY <2>2 DEF NoLine
  <2>3. CASE line'[s][e] = line[s][e]
    BY <2>3 DEF BindingInv
  <2>4. \/ line'[s][e] = NewLine(p, e) /\ e \in paid
        \/ line'[s][e] = NoLine \/ line'[s][e] = line[s][e]
    BY <1>0 DEF Commit
  <2> QED BY <2>1, <2>2, <2>3, <2>4
<1> QED BY <1>5, <1>6 DEF OneInstallment

\* What was bound is collected.
LEMMA BindingMark ==
    ASSUME BindingInv, NEW p \in Proc,
           MarkInst(p) \/ MarkStatus(p) \/ MarkCred(p) \/ MarkLeg(p) \/ FinishCalc(p)
    PROVE  Binding(req'[p], adv', inst')
<1>0. TypeOK
  BY DEF BindingInv, StoryInv, ControlInv
<1>1. req'[p].pc \notin BoundPcs
  <2>1. req'[p].pc \in {"markStatus", "markCred", "markLegacy", "finish", "idle"}
    BY <1>0, MarkEffects, ReturnMoves DEF Onward, Moved, FinishCalc
  <2> QED BY <2>1 DEF BoundPcs, LoadedPcs
<1>2. BoundInst(inst') = {}
  <2>1. CASE MarkInst(p)
    <3>1. req[p].pc = "markInst" /\ inst' = MarkInstallments(inst, req[p].ids, req[p].run)
      BY <2>1 DEF MarkInst, At
    <3>2. BoundInst(inst) \subseteq req[p].ids
      BY <3>1 DEF BindingInv, Binding, LoadedPcs
    <3>3. ASSUME NEW i \in Inst, i \in BoundInst(inst') PROVE FALSE
      <4>0. inst[i] \in InstRow
        BY <1>0 DEF TypeOK
      <4>1. CASE i \in req[p].ids /\ inst[i].status = "PENDING"
        <5>1. inst'[i] = [inst[i] EXCEPT !.status = "DEDUCTED", !.run = req[p].run]
          BY <3>1, <4>1 DEF MarkInstallments
        <5>2. inst'[i].status = "DEDUCTED"
          BY <4>0, <5>1 DEF InstRow
        <5> QED BY <3>3, <5>2 DEF BoundInst
      <4>2. CASE ~ (i \in req[p].ids /\ inst[i].status = "PENDING")
        <5>1. inst'[i] = inst[i]
          BY <3>1, <4>2 DEF MarkInstallments
        <5>2. i \in BoundInst(inst) /\ inst[i].status = "PENDING"
          BY <3>3, <5>1 DEF BoundInst
        <5> QED BY <3>2, <4>2, <5>2
      <4> QED BY <4>1, <4>2
    <3> QED BY <3>3 DEF BoundInst
  <2>2. CASE MarkStatus(p) \/ MarkCred(p) \/ MarkLeg(p) \/ FinishCalc(p)
    <3>1. inst' = inst /\ req[p].pc \in {"markStatus", "markCred", "markLegacy", "finish"}
      BY <2>2 DEF MarkStatus, MarkCred, MarkLeg, FinishCalc, At
    <3> QED BY <3>1 DEF BindingInv, Binding, BoundPcs, LoadedPcs
  <2> QED BY <2>1, <2>2
<1> QED BY <1>1, <1>2, UnboundFrame

LEMMA BindingCalcStep ==
    ASSUME BindingInv, NEW p \in Proc, CalcStep(p)
    PROVE  Binding(req'[p], adv', inst')
BY BindingStart, BindingReopen, BindingBind, BindingReadDeductions, BindingLoaded, BindingDrop,
   BindingCommit, BindingMark DEF CalcStep

LEMMA BindingNext ==
    ASSUME Lone, WholeCompany, Failures = FALSE, BindingInv, StoryInv', [Next]_vars
    PROVE  BindingInv'
<1>0. BindingInv' <=> /\ StoryInv'
                      /\ \A q \in Proc : Binding(req'[q], adv', inst')
                      /\ Quiet' => BoundInst(inst') = {}
                      /\ OneInstallment(line')
  BY DEF BindingInv, Binding, BoundInst, OneInstallment, Eligible, MayDeduct, PaidOutBefore
<1>1. ASSUME UNCHANGED <<adv, inst, req, line>>
      PROVE  BindingInv'
  <2>1. /\ \A q \in Proc : Binding(req'[q], adv', inst')
        /\ Quiet' => BoundInst(inst') = {}
        /\ OneInstallment(line')
    BY <1>1 DEF BindingInv, Quiet, OneInstallment
  <2> QED BY <1>0, <2>1
<1>2. ASSUME NEW p \in Proc, AdvanceStep(p) \/ CalcStep(p) \/ RunStep(p)
      PROVE  BindingInv'
  <2>1. Binding(req'[p], adv', inst')
    BY <1>2, BindingAdvanceStep, BindingCalcStep
  <2>2. \A q \in Proc : Binding(req'[q], adv', inst')
    BY <2>1 DEF Lone
  <2>3. Quiet' => BoundInst(inst') = {}
    <3>1. Quiet' => req'[p].pc = "idle"
      BY DEF Quiet
    <3>2. "idle" \notin BoundPcs
      BY DEF BoundPcs, LoadedPcs
    <3> QED BY <2>1, <3>1, <3>2 DEF Binding
  <2>4. OneInstallment(line')
    <3>1. Commit(p) \/ line' = line
      BY <1>2 DEF AdvanceStep, SubmitAdvance, InsertNext, ReviewRead, ReviewReject, ReviewApprove,
         ReviewDelete, CancelRead, CancelWrite, CancelInstallments, RunStep, CreateRunCount,
         CreateRunInsert, IssueRead, IssueWrite, CalcStep, CalcStart, ReopenRead, ReopenInst,
         ReopenCredit, ReopenDeduct, ReopenStatus, Unbind, Bind, ReadDeductions, ReadCredits,
         DropConflicts, ReadLegacy, MarkInst, MarkStatus, MarkCred, MarkLeg, FinishCalc, tables
    <3>2. line' = line => OneInstallment(line')
      BY DEF BindingInv, OneInstallment
    <3> QED BY <3>1, <3>2, BindingCommit
  <2> QED BY <1>0, <2>2, <2>3, <2>4
<1>3. \A p \in Proc : ~ Fail(p)
  BY DEF Fail
<1>4. \A r, s : RunAction(r, s) => UNCHANGED <<adv, inst, req, line>>
  BY DEF RunAction
<1>5. \A e \in Deactivatable : FALSE
  BY DEF WholeCompany
<1>6. UNCHANGED vars => UNCHANGED <<adv, inst, req, line>>
  BY DEF vars
<1> QED BY <1>1, <1>2, <1>3, <1>4, <1>5, <1>6 DEF Next

LEMMA BindingInit == Init => BindingInv
<1> SUFFICES ASSUME Init PROVE BindingInv
  OBVIOUS
<1>1. \A p \in Proc : req[p].pc = "idle"
  BY DEF Init, Idle
<1>2. BoundInst(inst) = {}
  <2>1. \A i \in Inst : inst[i] \in {FreshInst, NoInst}
    BY DEF Init
  <2> QED BY <2>1 DEF BoundInst, FreshInst, NoInst
<1>3. \A p \in Proc : Binding(req[p], adv, inst)
  BY <1>1, <1>2, UnboundFrame DEF BoundPcs, LoadedPcs
<1>4. \A r \in Run, e \in Employee : line[r][e].ded = {}
  BY DEF Init, NoLines, NoLine
<1> QED BY <1>2, <1>3, <1>4, StoryInit DEF BindingInv

\* A pay line deducts at most one installment of an advance and never pays out and
\* deducts, whole or by installment, the same one, however often the runs of its period
\* are recalculated, when requests come one at a time and none is abandoned.
THEOREM OneEffectOnALine ==
    ASSUME Lone, WholeCompany, Failures = FALSE
    PROVE  Spec => []OneEffectPerLine
<1>1. BindingInv /\ StoryInv' /\ [Next]_vars => BindingInv'
  BY BindingNext
<1>2. BindingInv /\ LineNeverPaysAndDeducts => OneEffectPerLine
  <2> SUFFICES ASSUME BindingInv, LineNeverPaysAndDeducts, NEW r \in Run, NEW e \in Employee
               PROVE  /\ \A i, j \in line[r][e].ded : i[1] = j[1] => i = j
                      /\ line[r][e].cred \cap (line[r][e].leg \cup {i[1] : i \in line[r][e].ded}) = {}
    BY DEF OneEffectPerLine
  <2>1. line[r][e].leg = {}
    BY DEF BindingInv, StoryInv
  <2>2. \A i \in line[r][e].ded : i[1] \notin line[r][e].cred
    BY DEF LineNeverPaysAndDeducts
  <2> QED BY <2>1, <2>2 DEF BindingInv
<1> QED BY <1>1, <1>2, BindingInit, StoryAlways, NeverBothOnALine, PTL DEF Spec
-----------------------------------------------------------------------------
(* Charges, with reviews and cancellations between the calculations.  A    *)
(* review deletes the installments of its advance: there are none yet.     *)

Waiting(ad, a) == ad[a].status \in {"NONE", "SUBMITTED"}
Untouched(in, a) == \A s \in Seq1 : in[<<a, s>>].status = "NONE"

NewcomerInv ==
    /\ TypeOK
    /\ \A a \in Advance : Waiting(adv, a) => Untouched(inst, a)
    /\ \A p \in Proc : \A a \in req[p].adv :
         /\ req[p].pc = "reviewWrite" => adv[a].status = "SUBMITTED" /\ req[p].adv = {a}
         /\ req[p].pc = "reviewDelete" => Untouched(inst, a)
         /\ req[p].pc \in {"reviewDelete", "insert"} => ~ Waiting(adv, a)

\* Only an INSERT creates an installment.
NothingNew(in, in2) == \A i \in Inst : in[i].status = "NONE" => in2[i].status = "NONE"

LEMMA StatementsInsertNothing ==
    ASSUME NEW in \in [Inst -> InstRow]
    PROVE  /\ NothingNew(in, in)
           /\ \A a : NothingNew(in, DeleteInstallments(in, a))
           /\ \A a : NothingNew(in, CancelPending(in, a))
           /\ \A r : NothingNew(in, ReopenInstallments(in, r))
           /\ \A ad, pd, es : NothingNew(in, UnbindIneligible(ad, in, pd, es))
           /\ \A ad, pd, es : NothingNew(in, BindNext(ad, in, pd, es))
           /\ \A ids : NothingNew(in, UnbindPending(in, ids))
           /\ \A ids, r : NothingNew(in, MarkInstallments(in, ids, r))
<1>1. NothingNew(in, in)
  BY DEF NothingNew
<1>2. \A a : NothingNew(in, DeleteInstallments(in, a))
  BY DEF NothingNew, DeleteInstallments, NoInst
<1>3. \A a : NothingNew(in, CancelPending(in, a))
  BY DEF NothingNew, CancelPending
<1>4. \A r : NothingNew(in, ReopenInstallments(in, r))
  BY DEF NothingNew, ReopenInstallments
<1>5. \A ad, pd, es : NothingNew(in, UnbindIneligible(ad, in, pd, es))
  BY DEF NothingNew, UnbindIneligible
<1>6. \A ad, pd, es : NothingNew(in, BindNext(ad, in, pd, es))
  BY DEF NothingNew, BindNext, NextUnbound
<1>7. \A ids : NothingNew(in, UnbindPending(in, ids))
  BY DEF NothingNew, UnbindPending
<1>8. \A ids, r : NothingNew(in, MarkInstallments(in, ids, r))
  BY DEF NothingNew, MarkInstallments
<1> QED BY <1>1, <1>2, <1>3, <1>4, <1>5, <1>6, <1>7, <1>8

\* No statement but a submission makes an advance wait for its review.
NobodyWaits(ad, ad2) == \A a \in Advance : Waiting(ad2, a) => Waiting(ad, a)

LEMMA StatementsSubmitNothing ==
    ASSUME NEW ad \in [Advance -> AdvRow]
    PROVE  /\ NobodyWaits(ad, ad)
           /\ \A a \in Advance : \A t : NobodyWaits(ad, ApproveAdvance(ad, a, t))
           /\ \A a \in Advance : NobodyWaits(ad, SetAdvanceStatus(ad, a, "REJECTED"))
           /\ \A a \in Advance : NobodyWaits(ad, SetAdvanceStatus(ad, a, "CANCELLED"))
           /\ \A r : NobodyWaits(ad, ReopenCredits(ad, r))
           /\ \A r, es : NobodyWaits(ad, ReopenDeducted(ad, r, es))
           /\ \A in, as : NobodyWaits(ad, ReopenStatuses(ad, in, as))
           /\ \A in, ids, r : NobodyWaits(ad, MarkStatuses(ad, in, ids, r))
           /\ \A as, r : NobodyWaits(ad, MarkCredits(ad, as, r))
           /\ \A as, r : NobodyWaits(ad, MarkLegacy(ad, as, r))
<1> USE DEF NobodyWaits, Waiting, AdvRow
<1>1. NobodyWaits(ad, ad)
  OBVIOUS
<1>2. \A a \in Advance : \A t : NobodyWaits(ad, ApproveAdvance(ad, a, t))
  BY DEF ApproveAdvance
<1>3. /\ \A a \in Advance : NobodyWaits(ad, SetAdvanceStatus(ad, a, "REJECTED"))
      /\ \A a \in Advance : NobodyWaits(ad, SetAdvanceStatus(ad, a, "CANCELLED"))
  BY DEF SetAdvanceStatus
<1>4. \A r : NobodyWaits(ad, ReopenCredits(ad, r))
  BY DEF ReopenCredits
<1>5. \A r, es : NobodyWaits(ad, ReopenDeducted(ad, r, es))
  BY DEF ReopenDeducted
<1>6. \A in, as : NobodyWaits(ad, ReopenStatuses(ad, in, as))
  BY DEF ReopenStatuses, ReopenedStatus
<1>7. \A in, ids, r : NobodyWaits(ad, MarkStatuses(ad, in, ids, r))
  BY DEF MarkStatuses
<1>8. \A as, r : NobodyWaits(ad, MarkCredits(ad, as, r))
  BY DEF MarkCredits
<1>9. \A as, r : NobodyWaits(ad, MarkLegacy(ad, as, r))
  BY DEF MarkLegacy
<1> QED BY <1>1, <1>2, <1>3, <1>4, <1>5, <1>6, <1>7, <1>8, <1>9

LEMMA NewcomerFrame ==
    ASSUME Lone, NewcomerInv, TypeOK', NEW p \in Proc,
           NothingNew(inst, inst'), NobodyWaits(adv, adv'),
           \A a \in req'[p].adv :
             /\ req'[p].pc = "reviewWrite" => adv'[a].status = "SUBMITTED" /\ req'[p].adv = {a}
             /\ req'[p].pc = "reviewDelete" => Untouched(inst', a)
             /\ req'[p].pc \in {"reviewDelete", "insert"} => ~ Waiting(adv', a)
    PROVE  NewcomerInv'
<1>1. \A q \in Proc : q = p
  BY DEF Lone
<1>2. \A a \in Advance : Waiting(adv', a) => Untouched(inst', a)
  <2>1. \A a \in Advance, s \in Seq1 : <<a, s>> \in Inst
    BY DEF Inst
  <2> QED BY <2>1 DEF NewcomerInv, NobodyWaits, NothingNew, Untouched
<1> QED BY <1>1, <1>2 DEF NewcomerInv, Waiting, Untouched

LEMMA NewcomerCalc ==
    ASSUME Lone, NewcomerInv, TypeOK', NEW p \in Proc, CalcStep(p)
    PROVE  NewcomerInv'
<1>0. TypeOK /\ inst \in [Inst -> InstRow] /\ adv \in [Advance -> AdvRow]
  BY DEF NewcomerInv, TypeOK
<1>1. /\ ~ (ReopenInst(p) \/ Unbind(p) \/ Bind(p) \/ DropConflicts(p) \/ MarkInst(p)) => inst' = inst
      /\ ~ (ReopenCredit(p) \/ ReopenDeduct(p) \/ ReopenStatus(p) \/ MarkStatus(p) \/ MarkCred(p)
            \/ MarkLeg(p)) => adv' = adv
  BY DEF CalcStep, CalcStart, ReopenRead, ReopenInst, ReopenCredit, ReopenDeduct, ReopenStatus, Unbind,
     Bind, ReadDeductions, ReadCredits, DropConflicts, ReadLegacy, Commit, MarkInst, MarkStatus,
     MarkCred, MarkLeg, FinishCalc, tables
<1>2. NothingNew(inst, inst')
  BY <1>0, <1>1, StatementsInsertNothing DEF ReopenInst, Unbind, Bind, DropConflicts, MarkInst
<1>3. NobodyWaits(adv, adv')
  BY <1>0, <1>1, StatementsSubmitNothing DEF ReopenCredit, ReopenDeduct, ReopenStatus, MarkStatus,
     MarkCred, MarkLeg
<1>4. req'[p].pc \in CalcPcs \cup {"idle"}
  <2>1. \A r \in Run, scope \in Scopes : CalcStart(p, r, scope) => req'[p].pc \in {"commit", "reopenRead"}
    BY <1>0, StartEffects DEF FirstPc
  <2>2. Commit(p) => req'[p].pc = "markInst"
    BY <1>0, CommitEffects DEF Settled
  <2>3. FinishCalc(p) => req'[p].pc = "idle"
    BY <1>0, ReturnMoves DEF FinishCalc
  <2>4. MarkInst(p) \/ MarkStatus(p) \/ MarkCred(p) \/ MarkLeg(p) => req'[p].pc \in CalcPcs
    BY <1>0, MarkEffects DEF Onward, Moved, CalcPcs
  <2>5. \/ ReopenRead(p) \/ ReopenInst(p) \/ ReopenCredit(p) \/ ReopenDeduct(p) \/ ReopenStatus(p)
        \/ Unbind(p) \/ Bind(p) \/ ReadDeductions(p) \/ ReadCredits(p) \/ DropConflicts(p) \/ ReadLegacy(p)
        => req'[p].pc \in CalcPcs
    BY <1>0, LoadEffects, ZenonT(60) DEF Onward, Moved, CalcPcs, At, ReadLegacy
  <2> QED BY <2>1, <2>2, <2>3, <2>4, <2>5 DEF CalcStep, CalcPcs
<1>5. req'[p].pc \notin {"reviewWrite", "reviewDelete", "insert"}
  BY <1>4 DEF CalcPcs
<1> QED BY <1>2, <1>3, <1>5, NewcomerFrame

LEMMA NewcomerAdvance ==
    ASSUME Lone, NewcomerInv, TypeOK', NEW p \in Proc, AdvanceStep(p)
    PROVE  NewcomerInv'
<1>0. TypeOK /\ inst \in [Inst -> InstRow] /\ adv \in [Advance -> AdvRow] /\ req[p] \in ReqType
  BY DEF NewcomerInv, TypeOK
<1>1. ASSUME req'[p].pc \notin {"reviewWrite", "reviewDelete", "insert"},
             NothingNew(inst, inst'), NobodyWaits(adv, adv')
      PROVE  NewcomerInv'
  BY <1>1, NewcomerFrame
<1>2. ASSUME NEW a \in Advance, NEW t \in Terms, SubmitAdvance(p, a, t)
      PROVE  NewcomerInv'
  <2>1. /\ adv[a].status = "NONE" /\ inst' = inst /\ req[p] = Idle
        /\ \A b \in Advance \ {a} : adv'[b] = adv[b]
    BY <1>0, <1>2 DEF SubmitAdvance, Begin, InsertAdvance
  <2>2. NothingNew(inst, inst') /\ NobodyWaits(adv, adv')
    BY <1>0, <2>1, StatementsInsertNothing DEF NobodyWaits, Waiting
  <2>3. CASE UNCHANGED req
    <3>1. req'[p].pc = "idle"
      BY <2>1, <2>3 DEF Idle
    <3> QED BY <1>1, <2>2, <3>1
  <2>4. CASE /\ Update(p, [Idle EXCEPT !.pc = "insert", !.adv = {a}, !.terms = {t}, !.next = 1])
             /\ adv' = InsertAdvance(adv, a, t, "APPROVED")
    <3>1. req'[p] = [Idle EXCEPT !.pc = "insert", !.adv = {a}, !.terms = {t}, !.next = 1]
      BY <1>0, <2>4, UpdateMoves
    <3>2. req'[p].pc = "insert" /\ req'[p].adv = {a}
      BY <3>1 DEF Idle
    <3>3. ~ Waiting(adv', a)
      BY <1>0, <2>4 DEF InsertAdvance, Waiting
    <3> QED BY <2>2, <3>2, <3>3, NewcomerFrame
  <2> QED BY <1>2, <2>3, <2>4 DEF SubmitAdvance, Begin
<1>3. ASSUME InsertNext(p)
      PROVE  NewcomerInv'
  <2>1. PICK a \in req[p].adv, t \in req[p].terms :
           LET s == req[p].next IN
           IF inst[<<a, s>>].status # "NONE"
           THEN Return(p) /\ UNCHANGED inst
           ELSE /\ inst' = InsertInstallment(inst, a, s)
                /\ IF MoreInstallments(t, s)
                   THEN Update(p, [req[p] EXCEPT !.next = s + 1])
                   ELSE Return(p)
    BY <1>3 DEF InsertNext
  <2>2. adv' = adv /\ req[p].pc = "insert" /\ ~ Waiting(adv, a) /\ a \in Advance
    BY <1>0, <1>3, <2>1 DEF InsertNext, At, NewcomerInv, ReqType
  <2>3. \/ req'[p].pc = "idle"
        \/ req'[p].pc = "insert" /\ req'[p].adv = req[p].adv
    <3>1. Return(p) => req'[p].pc = "idle"
      BY <1>0, ReturnMoves
    <3>2. \A n : Update(p, [req[p] EXCEPT !.next = n]) => req'[p] = [req[p] EXCEPT !.next = n]
      BY <1>0, UpdateMoves
    <3>3. \A n : [req[p] EXCEPT !.next = n].pc = "insert" /\ [req[p] EXCEPT !.next = n].adv = req[p].adv
      BY <1>0, <2>2 DEF ReqType
    <3> QED BY <2>1, <3>1, <3>2, <3>3
  <2>4. \A i \in Inst : i[1] # a => inst'[i] = inst[i]
    BY <1>0, <2>1 DEF InsertInstallment
  <2>5. \A b \in Advance : Waiting(adv', b) => Untouched(inst', b)
    <3>1. \A b \in Advance, s \in Seq1 : <<b, s>> \in Inst
      BY DEF Inst
    <3> QED BY <2>2, <2>4, <3>1 DEF NewcomerInv, Waiting, Untouched
  <2>6. \A q \in Proc : q = p
    BY DEF Lone
  <2>7. \A b \in req'[p].adv : req'[p].pc = "insert" => ~ Waiting(adv', b)
    BY <2>2, <2>3 DEF NewcomerInv, Waiting
  <2> QED BY <2>3, <2>5, <2>6, <2>7 DEF NewcomerInv, Waiting, Untouched
<1>4. ASSUME NEW a \in Advance, NEW ts \in {{}} \cup {{t} : t \in Terms}, ReviewRead(p, a, ts)
      PROVE  NewcomerInv'
  <2>1. /\ req'[p] = [Idle EXCEPT !.pc = "reviewWrite", !.adv = {a}, !.terms = ts]
        /\ adv' = adv /\ inst' = inst /\ adv[a].status = "SUBMITTED"
    BY <1>0, <1>4, UpdateMoves DEF ReviewRead, Begin, tables
  <2>2. req'[p].pc = "reviewWrite" /\ req'[p].adv = {a}
    BY <2>1 DEF Idle
  <2> QED BY <1>0, <2>1, <2>2, NewcomerFrame, StatementsInsertNothing, StatementsSubmitNothing
<1>5. ASSUME ReviewReject(p)
      PROVE  NewcomerInv'
  <2>1. PICK a \in req[p].adv : adv' = SetAdvanceStatus(adv, a, "REJECTED")
    BY <1>5 DEF ReviewReject
  <2>2. a \in Advance /\ inst' = inst /\ req'[p].pc = "idle"
    BY <1>0, <1>5, ReturnMoves DEF ReviewReject, ReqType
  <2> QED BY <1>0, <1>1, <2>1, <2>2, StatementsInsertNothing, StatementsSubmitNothing
<1>6. ASSUME ReviewApprove(p)
      PROVE  NewcomerInv'
  <2>1. PICK a \in req[p].adv, t \in req[p].terms : adv' = ApproveAdvance(adv, a, t)
    BY <1>6 DEF ReviewApprove
  <2>2. req[p].pc = "reviewWrite" /\ inst' = inst /\ a \in Advance
    BY <1>0, <1>6 DEF ReviewApprove, At, ReqType
  <2>3. req'[p] = [req[p] EXCEPT !.pc = "reviewDelete"]
    BY <1>0, <1>6, UpdateMoves DEF ReviewApprove, Goto
  <2>4. req'[p].pc = "reviewDelete" /\ req'[p].adv = req[p].adv
    BY <1>0, <2>3 DEF ReqType
  <2>5. Waiting(adv, a) /\ req[p].adv = {a}
    BY <1>0, <2>2 DEF NewcomerInv, Waiting
  <2>6. Untouched(inst', a) /\ ~ Waiting(adv', a)
    BY <1>0, <2>1, <2>2, <2>5 DEF NewcomerInv, Untouched, ApproveAdvance, Waiting
  <2> QED BY <1>0, <2>1, <2>2, <2>4, <2>5, <2>6, NewcomerFrame, StatementsInsertNothing, StatementsSubmitNothing
<1>7. ASSUME ReviewDelete(p)
      PROVE  NewcomerInv'
  <2>1. PICK a \in req[p].adv :
           /\ inst' = DeleteInstallments(inst, a)
           /\ req' = [ForgetInstallments(a) EXCEPT ![p] = [@ EXCEPT !.pc = "insert", !.next = 1]]
    BY <1>7 DEF ReviewDelete
  <2>2. adv' = adv /\ req[p].pc = "reviewDelete"
    BY <1>7 DEF ReviewDelete, At
  <2>3. req'[p].pc = "insert" /\ req'[p].adv = req[p].adv
    BY <1>0, <2>1 DEF ForgetInstallments, ReqType
  <2>4. NothingNew(inst, inst') /\ NobodyWaits(adv, adv')
    BY <1>0, <2>1, <2>2, StatementsInsertNothing, StatementsSubmitNothing
  <2>5. \A b \in req[p].adv : ~ Waiting(adv, b)
    BY <2>2 DEF NewcomerInv
  <2> QED BY <2>2, <2>3, <2>4, <2>5, NewcomerFrame
<1>8. ASSUME NEW a \in Advance, CancelRead(p, a)
      PROVE  NewcomerInv'
  <2>1. /\ req'[p] = [Idle EXCEPT !.pc = "cancelWrite", !.adv = {a}] /\ adv' = adv /\ inst' = inst
    BY <1>0, <1>8, UpdateMoves DEF CancelRead, Begin, tables
  <2>2. req'[p].pc = "cancelWrite"
    BY <2>1 DEF Idle
  <2> QED BY <1>0, <1>1, <2>1, <2>2, StatementsInsertNothing, StatementsSubmitNothing
<1>9. ASSUME CancelWrite(p)
      PROVE  NewcomerInv'
  <2>1. PICK a \in req[p].adv : adv' = SetAdvanceStatus(adv, a, "CANCELLED")
    BY <1>9 DEF CancelWrite
  <2>2. a \in Advance /\ inst' = inst /\ req'[p].pc = "cancelInst"
    BY <1>0, <1>9, GotoMoves DEF CancelWrite, ReqType, Onward, Moved
  <2> QED BY <1>0, <1>1, <2>1, <2>2, StatementsInsertNothing, StatementsSubmitNothing
<1>10. ASSUME CancelInstallments(p)
       PROVE  NewcomerInv'
  <2>1. PICK a \in req[p].adv : inst' = CancelPending(inst, a)
    BY <1>10 DEF CancelInstallments
  <2>2. adv' = adv /\ req'[p].pc = "idle"
    BY <1>0, <1>10, ReturnMoves DEF CancelInstallments
  <2> QED BY <1>0, <1>1, <2>1, <2>2, StatementsInsertNothing, StatementsSubmitNothing
<1> QED BY <1>2, <1>3, <1>4, <1>5, <1>6, <1>7, <1>8, <1>9, <1>10 DEF AdvanceStep

LEMMA NewcomerNext ==
    ASSUME Lone, NewcomerInv, TypeOK', [Next]_vars
    PROVE  NewcomerInv'
<1>0. TypeOK /\ inst \in [Inst -> InstRow] /\ adv \in [Advance -> AdvRow]
  BY DEF NewcomerInv, TypeOK
<1>1. ASSUME UNCHANGED <<adv, inst, req>>
      PROVE  NewcomerInv'
  BY <1>1 DEF NewcomerInv, Waiting, Untouched
<1>2. ASSUME NEW p \in Proc, RunStep(p) \/ Fail(p)
      PROVE  NewcomerInv'
  <2>1. adv' = adv /\ inst' = inst
    BY <1>2 DEF RunStep, Fail, CreateRunCount, CreateRunInsert, IssueRead, IssueWrite, tables
  <2>2. req'[p].pc \in {"idle", "createRun", "issueWrite"}
    <3>1. Return(p) => req'[p].pc = "idle"
      BY <1>0, ReturnMoves
    <3>2. ASSUME NEW pd, CreateRunCount(p, pd) PROVE req'[p].pc = "createRun"
      <4>1. req'[p] = [Idle EXCEPT !.pc = "createRun", !.run = <<pd, RunsOf(pd) + 1>>]
        BY <1>0, <3>2, UpdateMoves DEF CreateRunCount, Begin
      <4> QED BY <4>1 DEF Idle
    <3>3. ASSUME NEW r, NEW scope, IssueRead(p, r, scope) PROVE req'[p].pc = "issueWrite"
      <4>1. req'[p] = [Idle EXCEPT !.pc = "issueWrite", !.run = r, !.rows = LinesSeen(r, scope)]
        BY <1>0, <3>3, UpdateMoves DEF IssueRead, Begin
      <4> QED BY <4>1 DEF Idle
    <3> QED BY <1>2, <3>1, <3>2, <3>3 DEF RunStep, Fail, CreateRunInsert, IssueWrite
  <2> QED BY <1>0, <2>1, <2>2, NewcomerFrame, StatementsInsertNothing, StatementsSubmitNothing
<1>3. \A r, s : RunAction(r, s) => UNCHANGED <<adv, inst, req>>
  BY DEF RunAction
<1>4. \A e : SetActive(e) => UNCHANGED <<adv, inst, req>>
  BY DEF SetActive
<1>5. UNCHANGED vars => UNCHANGED <<adv, inst, req>>
  BY DEF vars
<1> QED BY <1>1, <1>2, <1>3, <1>4, <1>5, NewcomerCalc, NewcomerAdvance DEF Next

LEMMA NewcomerInit == Init => NewcomerInv
<1> SUFFICES ASSUME Init PROVE NewcomerInv
  OBVIOUS
<1>1. \A p \in Proc : req[p].pc = "idle"
  BY DEF Init, Idle
<1>2. ASSUME NEW a \in Advance, Waiting(adv, a)
      PROVE  Untouched(inst, a)
  <2>1. a \notin Preapproved
    BY <1>2 DEF Init, Waiting
  <2>2. \A s \in Seq1 : <<a, s>> \in Inst
    BY DEF Inst
  <2> QED BY <2>1, <2>2 DEF Init, Untouched, NoInst
<1> QED BY <1>1, <1>2, InitTypeOK DEF NewcomerInv

\* A statement that records and forgets no collection, with nobody calculating.
LEMMA ChargeAlone ==
    ASSUME Lone, ChargeInv, ControlInv', NEW p \in Proc, req'[p].pc \notin CalcPcs,
           line' = line, torn' = torn,
           \A i \in Inst : /\ inst'[i].run = inst[i].run
                           /\ inst'[i].status = "DEDUCTED" <=> inst[i].status = "DEDUCTED"
    PROVE  ChargeInv'
<1>1. \A q \in Proc : q = p
  BY DEF Lone
<1>2. Collecting(p)'
  BY DEF Collecting, CalcPcs, AfterReopen
<1>3. \A r \in Run \ torn' : Charged(r)'
  BY DEF ChargeInv, Charged
<1> QED BY <1>1, <1>2, <1>3 DEF ChargeInv

LEMMA ChargeAloneNext ==
    ASSUME Lone, WholeCompany, NewcomerInv, ChargeInv, ControlInv', [Next]_vars
    PROVE  ChargeInv'
<1>0. TypeOK /\ inst \in [Inst -> InstRow] /\ CollectorKnown(inst)
  BY DEF ChargeInv, ControlInv, TypeOK, CollectorKnown
<1>1. ASSUME NEW p \in Proc, AdvanceStep(p) \/ RunStep(p) \/ Fail(p)
      PROVE  ChargeInv'
  <2>1. UNCHANGED <<line, torn>>
    BY <1>1 DEF AdvanceStep, SubmitAdvance, InsertNext, ReviewRead, ReviewReject, ReviewApprove,
       ReviewDelete, CancelRead, CancelWrite, CancelInstallments, RunStep, CreateRunCount,
       CreateRunInsert, IssueRead, IssueWrite, Fail, tables
  <2>2. req'[p].pc \notin CalcPcs
    <3>1. req'[p].pc \in {"idle"} \cup OtherPcs
      BY <1>0, <1>1, OtherEffects
    <3> QED BY <3>1 DEF OtherPcs, CalcPcs
  <2>3. \A i \in Inst : inst[i].status # "DEDUCTED" => inst[i].run = NoRun
    BY <1>0 DEF CollectorKnown
  <2> DEFINE Kept == \A i \in Inst : /\ inst'[i].run = inst[i].run
                                     /\ inst'[i].status = "DEDUCTED" <=> inst[i].status = "DEDUCTED"
  <2>4. ASSUME InsertNext(p) PROVE Kept
    <3>1. inst' = inst \/ \E a, s : inst[<<a, s>>].status = "NONE" /\ inst' = InsertInstallment(inst, a, s)
      BY <2>4 DEF InsertNext
    <3>2. CASE inst' = inst
      BY <3>2
    <3>3. ASSUME NEW a, NEW s, inst[<<a, s>>].status = "NONE", inst' = InsertInstallment(inst, a, s)
          PROVE  Kept
      <4>1. \A i \in Inst : inst'[i] = inst[i] \/ (i = <<a, s>> /\ inst'[i] = FreshInst)
        BY <1>0, <3>3 DEF InsertInstallment
      <4>2. FreshInst.status # "DEDUCTED" /\ FreshInst.run = NoRun
        BY DEF FreshInst
      <4>3. <<a, s>> \in Inst => inst[<<a, s>>].run = NoRun
        BY <2>3, <3>3
      <4> QED BY <3>3, <4>1, <4>2, <4>3
    <3> QED BY <3>1, <3>2, <3>3
  <2>5. ASSUME ReviewDelete(p) PROVE Kept
    <3>1. PICK a \in req[p].adv : inst' = DeleteInstallments(inst, a)
      BY <2>5 DEF ReviewDelete
    <3>2. Untouched(inst, a)
      BY <2>5 DEF ReviewDelete, At, NewcomerInv
    <3>3. \A i \in Inst : i[1] = a => inst[i].status = "NONE"
      BY <3>2, InstType DEF Untouched
    <3> QED BY <2>3, <3>1, <3>3 DEF DeleteInstallments, NoInst
  <2>6. ASSUME CancelInstallments(p) PROVE Kept
    BY <1>0, <2>6 DEF CancelInstallments, CancelPending, InstRow
  <2>7. ~ InsertNext(p) /\ ~ ReviewDelete(p) /\ ~ CancelInstallments(p) => inst' = inst
    BY <1>1 DEF AdvanceStep, SubmitAdvance, ReviewRead, ReviewReject, ReviewApprove, CancelRead,
       CancelWrite, RunStep, CreateRunCount, CreateRunInsert, IssueRead, IssueWrite, Fail, tables
  <2>8. Kept
    BY <2>4, <2>5, <2>6, <2>7
  <2> QED BY <2>1, <2>2, <2>8, ChargeAlone
<1>2. ASSUME NEW p \in Proc, CalcStep(p)
      PROVE  ChargeInv'
  BY <1>2, ChargeStart, ChargeLoad, ChargeCommit, ChargeMark, ChargeFinish DEF CalcStep
<1>3. ASSUME UNCHANGED <<req, torn, inst, line>>
      PROVE  ChargeInv'
  BY <1>3 DEF ChargeInv, Collecting, Charged
<1>4. \A r, s : RunAction(r, s) => ChargeInv'
  BY <1>3 DEF RunAction
<1>5. \A e \in Deactivatable : SetActive(e) => ChargeInv'
  BY DEF WholeCompany
<1>6. UNCHANGED vars => ChargeInv'
  BY <1>3 DEF vars
<1> QED BY <1>1, <1>2, <1>4, <1>5, <1>6 DEF Next

\* A run whose latest calculation ended deducts exactly the installments recorded as
\* collected by it, whatever was reviewed and cancelled since and whichever request was
\* abandoned midway, when requests come one at a time: a cancellation waives only what
\* is still owed, a review deletes no installment anybody was charged.
THEOREM ChargesAreExact ==
    ASSUME Lone, WholeCompany
    PROVE  Spec => []DeductionsMatchLedger
<1>1. OneRunAtATime
  BY DEF OneRunAtATime
<1>2. NewcomerInv /\ TypeOK' /\ [Next]_vars => NewcomerInv'
  BY NewcomerNext
<1>3. NewcomerInv /\ ChargeInv /\ ControlInv' /\ [Next]_vars => ChargeInv'
  BY ChargeAloneNext
<1>4. ChargeInv => DeductionsMatchLedger
  BY DEF ChargeInv, DeductionsMatchLedger, Charged
<1>5. Spec => []ControlInv
  BY <1>1, ControlAlways
<1> QED BY <1>2, <1>3, <1>4, <1>5, NewcomerInit, ChargeInit, TypeCorrect, PTL DEF Spec
=============================================================================

------------------------ MODULE PayrollLedger_proofs ------------------------
(***************************************************************************)
(* Theorems about PayrollRuns, for any employees, branches, advances,      *)
(* periods, runs and number of concurrent requests.  Types first, then     *)
(* what payroll owes the ledgers of the advances.  LedgerBacked: an        *)
(* installment is recorded as collected by a run only while a pay line of  *)
(* that run deducts it, for any number of concurrent requests and failures. *)
(* SlipIsItsLine and LineNeverPaysAndDeducts: a payslip is the line it was *)
(* issued from, and no line pays an advance out and collects it at once.   *)
(* DeductionsMatchLedger, ScheduledPayoutsMatchLedger, PayoutsMatchLedger: *)
(* a run whose calculation has ended charges and pays out exactly what the *)
(* ledger says.  Each theorem states the interleavings it is true of.      *)
(***************************************************************************)
EXTENDS PayrollRuns, FiniteSetTheorems, TLAPS

-----------------------------------------------------------------------------
(* Every statement maps well-typed tables to well-typed tables.            *)

LEMMA PeriodOfType == \A r \in Run \cup {NoRun} : PeriodOf(r) \in Period \cup {NoPeriod}
BY DEF Run, NoRun, PeriodOf, NoPeriod

LEMMA RunIsNotNoRun == NoRun \notin Run
BY BoundAssumption DEF Run, NoRun, Period

LEMMA InstType == \A i \in Inst : i[1] \in Advance /\ i[2] \in Seq1 /\ i = <<i[1], i[2]>>
BY DEF Inst

LEMMA InstallmentStatementsType ==
    ASSUME NEW in \in [Inst -> InstRow]
    PROVE  /\ \A a : DeleteInstallments(in, a) \in [Inst -> InstRow]
           /\ \A a, s : InsertInstallment(in, a, s) \in [Inst -> InstRow]
           /\ \A a : CancelPending(in, a) \in [Inst -> InstRow]
           /\ \A r : ReopenInstallments(in, r) \in [Inst -> InstRow]
           /\ \A ad, pd, es : UnbindIneligible(ad, in, pd, es) \in [Inst -> InstRow]
           /\ \A ad, es : \A pd \in Period \cup {NoPeriod} :
                BindNext(ad, in, pd, es) \in [Inst -> InstRow]
           /\ \A ids : UnbindPending(in, ids) \in [Inst -> InstRow]
           /\ \A ids : \A r \in Run \cup {NoRun} :
                MarkInstallments(in, ids, r) \in [Inst -> InstRow]
<1> USE DEF InstRow, InstStatus, NoInst, FreshInst
<1>1. \A a : DeleteInstallments(in, a) \in [Inst -> InstRow]
  BY DEF DeleteInstallments
<1>2. \A a, s : InsertInstallment(in, a, s) \in [Inst -> InstRow]
  BY DEF InsertInstallment
<1>3. \A a : CancelPending(in, a) \in [Inst -> InstRow]
  BY DEF CancelPending
<1>4. \A r : ReopenInstallments(in, r) \in [Inst -> InstRow]
  BY DEF ReopenInstallments
<1>5. \A ad, pd, es : UnbindIneligible(ad, in, pd, es) \in [Inst -> InstRow]
  BY DEF UnbindIneligible
<1>6. \A ad, es : \A pd \in Period \cup {NoPeriod} : BindNext(ad, in, pd, es) \in [Inst -> InstRow]
  BY DEF BindNext
<1>7. \A ids : UnbindPending(in, ids) \in [Inst -> InstRow]
  BY DEF UnbindPending
<1>8. \A ids : \A r \in Run \cup {NoRun} : MarkInstallments(in, ids, r) \in [Inst -> InstRow]
  <2>1. \A row \in InstRow : [row EXCEPT !.status = "DEDUCTED"] \in InstRow
    OBVIOUS
  <2>2. \A row \in InstRow : \A r \in Run \cup {NoRun} : [row EXCEPT !.run = r] \in InstRow
    OBVIOUS
  <2> HIDE DEF InstRow
  <2> QED BY <2>1, <2>2 DEF MarkInstallments
<1> QED BY <1>1, <1>2, <1>3, <1>4, <1>5, <1>6, <1>7, <1>8

LEMMA AdvanceStatementsType ==
    ASSUME NEW ad \in [Advance -> AdvRow]
    PROVE  /\ \A a \in Advance, t \in TermsType, st \in AdvStatus :
                InsertAdvance(ad, a, t, st) \in [Advance -> AdvRow]
           /\ \A a \in Advance, st \in AdvStatus :
                SetAdvanceStatus(ad, a, st) \in [Advance -> AdvRow]
           /\ \A a \in Advance, t \in TermsType : ApproveAdvance(ad, a, t) \in [Advance -> AdvRow]
           /\ \A r : ReopenCredits(ad, r) \in [Advance -> AdvRow]
           /\ \A r, es : ReopenDeducted(ad, r, es) \in [Advance -> AdvRow]
           /\ \A in, as : ReopenStatuses(ad, in, as) \in [Advance -> AdvRow]
           /\ \A in, ids : \A r \in Run \cup {NoRun} :
                MarkStatuses(ad, in, ids, r) \in [Advance -> AdvRow]
           /\ \A as : \A r \in Run \cup {NoRun} : MarkCredits(ad, as, r) \in [Advance -> AdvRow]
           /\ \A as : \A r \in Run \cup {NoRun} : MarkLegacy(ad, as, r) \in [Advance -> AdvRow]
<1>1. \A row \in AdvRow :
        /\ \A v \in AdvStatus : [row EXCEPT !.status = v] \in AdvRow
        /\ \A v \in Mode : [row EXCEPT !.mode = v] \in AdvRow
        /\ \A v \in Period \cup {NoPeriod} : [row EXCEPT !.start = v] \in AdvRow
        /\ \A v \in Seq1 : [row EXCEPT !.count = v] \in AdvRow
        /\ \A v \in Run \cup {NoRun} : [row EXCEPT !.credited = v] \in AdvRow
        /\ \A v \in Run \cup {NoRun} : [row EXCEPT !.deducted = v] \in AdvRow
        /\ row.status \in AdvStatus
  BY DEF AdvRow
<1>2. \A st \in {"APPROVED", "DEDUCTED", "PARTIALLY_DEDUCTED"} : st \in AdvStatus
  BY DEF AdvStatus
<1>3. \A a \in Advance, t \in TermsType, st \in AdvStatus :
         InsertAdvance(ad, a, t, st) \in [Advance -> AdvRow]
  BY DEF InsertAdvance, AdvRow, TermsType
<1>4. \A a \in Advance, st \in AdvStatus : SetAdvanceStatus(ad, a, st) \in [Advance -> AdvRow]
  BY <1>1 DEF SetAdvanceStatus
<1>5. \A a \in Advance, t \in TermsType : ApproveAdvance(ad, a, t) \in [Advance -> AdvRow]
  <2>1. \A t \in TermsType :
          t.mode \in Mode /\ t.start \in Period \cup {NoPeriod} /\ t.count \in Seq1
    BY DEF TermsType
  <2> QED BY <1>1, <1>2, <2>1 DEF ApproveAdvance
<1>6. \A r : ReopenCredits(ad, r) \in [Advance -> AdvRow]
  BY <1>1 DEF ReopenCredits
<1>7. \A r, es : ReopenDeducted(ad, r, es) \in [Advance -> AdvRow]
  BY <1>1 DEF ReopenDeducted
<1>8. \A in, as : ReopenStatuses(ad, in, as) \in [Advance -> AdvRow]
  <2>1. \A in : \A b \in Advance : ReopenedStatus(ad[b], in, b) \in AdvStatus
    BY <1>1, <1>2 DEF ReopenedStatus
  <2> QED BY <1>1, <2>1 DEF ReopenStatuses
<1>9. \A in, ids : \A r \in Run \cup {NoRun} : MarkStatuses(ad, in, ids, r) \in [Advance -> AdvRow]
  BY <1>1, <1>2 DEF MarkStatuses
<1>10. \A as : \A r \in Run \cup {NoRun} : MarkCredits(ad, as, r) \in [Advance -> AdvRow]
  BY <1>1 DEF MarkCredits
<1>11. \A as : \A r \in Run \cup {NoRun} : MarkLegacy(ad, as, r) \in [Advance -> AdvRow]
  BY <1>1, <1>2 DEF MarkLegacy
<1> QED BY <1>3, <1>4, <1>5, <1>6, <1>7, <1>8, <1>9, <1>10, <1>11

-----------------------------------------------------------------------------
(* Requests.                                                               *)

LEMMA NoLineType == NoLine \in LineType /\ NoLines \in [Employee -> LineType]
BY DEF NoLine, NoLines, LineType

LEMMA IdleType == Idle \in ReqType
BY BoundAssumption, NoLineType DEF Idle, ReqType

Pcs == {"idle"} \cup CalcPcs \cup OtherPcs

LEMMA ReqFieldType ==
    ASSUME NEW q \in ReqType
    PROVE  /\ \A v \in Pcs : [q EXCEPT !.pc = v] \in ReqType
           /\ \A v \in Run \cup {NoRun} : [q EXCEPT !.run = v] \in ReqType
           /\ \A v \in SUBSET Branch : [q EXCEPT !.scope = v] \in ReqType
           /\ \A v \in SUBSET Employee : [q EXCEPT !.emps = v] \in ReqType
           /\ \A v \in SUBSET Advance : [q EXCEPT !.affected = v] \in ReqType
           /\ \A v \in SUBSET Inst : [q EXCEPT !.ded = v] \in ReqType
           /\ \A v \in SUBSET Inst : [q EXCEPT !.ids = v] \in ReqType
           /\ \A v \in SUBSET Advance : [q EXCEPT !.cred = v] \in ReqType
           /\ \A v \in SUBSET Advance : [q EXCEPT !.leg = v] \in ReqType
           /\ \A v \in BOOLEAN : [q EXCEPT !.legRead = v] \in ReqType
           /\ \A v \in SUBSET Advance : [q EXCEPT !.adv = v] \in ReqType
           /\ \A v \in SUBSET TermsType : [q EXCEPT !.terms = v] \in ReqType
           /\ \A v \in 0 .. MaxSeq : [q EXCEPT !.next = v] \in ReqType
           /\ \A v \in [Employee -> LineType] : [q EXCEPT !.rows = v] \in ReqType
           /\ \A v \in BOOLEAN : [q EXCEPT !.gone = v] \in ReqType
BY DEF ReqType, Pcs
LEMMA RequestRowsType ==
    ASSUME NEW q \in ReqType
    PROVE  /\ \A A \in SUBSET Advance, T \in SUBSET TermsType, n \in 0 .. MaxSeq :
                [q EXCEPT !.pc = "insert", !.adv = A, !.terms = T, !.next = n] \in ReqType
           /\ \A n \in 0 .. MaxSeq : [q EXCEPT !.pc = "insert", !.next = n] \in ReqType
           /\ \A A \in SUBSET Advance, T \in SUBSET TermsType :
                [q EXCEPT !.pc = "reviewWrite", !.adv = A, !.terms = T] \in ReqType
           /\ \A A \in SUBSET Advance : [q EXCEPT !.pc = "cancelWrite", !.adv = A] \in ReqType
           /\ \A r \in Run \cup {NoRun} : [q EXCEPT !.pc = "createRun", !.run = r] \in ReqType
           /\ \A pc \in Pcs, r \in Run, S \in SUBSET Branch, E \in SUBSET Employee, b \in BOOLEAN :
                [q EXCEPT !.pc = pc, !.run = r, !.scope = S, !.emps = E, !.legRead = b]
                    \in ReqType
           /\ \A A \in SUBSET Advance : [q EXCEPT !.pc = "reopenInst", !.affected = A] \in ReqType
           /\ \A A \in SUBSET Advance : [q EXCEPT !.pc = "unbind", !.affected = A] \in ReqType
           /\ \A D \in SUBSET Inst : [q EXCEPT !.pc = "readCred", !.ded = D, !.ids = D] \in ReqType
           /\ \A pc \in Pcs, C \in SUBSET Advance : [q EXCEPT !.pc = pc, !.cred = C] \in ReqType
           /\ \A D, I \in SUBSET Inst : [q EXCEPT !.pc = "commit", !.ded = D, !.ids = I] \in ReqType
           /\ \A L \in SUBSET Advance : [q EXCEPT !.legRead = TRUE, !.leg = L] \in ReqType
           /\ \A r \in Run \cup {NoRun}, I \in SUBSET Inst, C, L \in SUBSET Advance :
                [q EXCEPT !.pc = "markInst", !.run = r, !.ids = I, !.cred = C, !.leg = L] \in ReqType
           /\ \A I \in SUBSET Inst : [q EXCEPT !.pc = "markCred", !.ids = I] \in ReqType
           /\ \A r \in Run, R \in [Employee -> LineType] :
                [q EXCEPT !.pc = "issueWrite", !.run = r, !.rows = R] \in ReqType
BY ReqFieldType, ZenonT(60) DEF Pcs, CalcPcs, OtherPcs

LEMMA InitTypeOK == Init => TypeOK
BY IdleType, NoLineType, RequestAssumption, BoundAssumption
DEF Init, TypeOK, NewAdvance, FreshInst, NoInst, InstRow, AdvRow,
    InstStatus, AdvStatus, Mode, TermsType, Seq1

\* Every table keeps its type and every request its locals, through any requests.
THEOREM TypeCorrect == Spec => []TypeOK
<1>1. Init => TypeOK
  BY InitTypeOK
<1>2. TypeOK /\ [Next]_vars => TypeOK'
  <2> SUFFICES ASSUME TypeOK, [Next]_vars PROVE TypeOK'
    OBVIOUS
  <2>1. \A p \in Proc, q \in ReqType : Update(p, q) => req' \in [Proc -> ReqType]
    BY DEF TypeOK, Update
  <2>2. \A p \in Proc, pc \in Pcs : Goto(p, pc) => req' \in [Proc -> ReqType]
    BY <2>1, ReqFieldType DEF TypeOK, Goto
  <2>3. \A p \in Proc : Return(p) => req' \in [Proc -> ReqType]
    BY <2>1, IdleType DEF Return
  <2>4. /\ \A p \in Proc : /\ req[p] \in ReqType
                           /\ req[p].run \in Run \cup {NoRun}
                           /\ req[p].adv \subseteq Advance
                           /\ req[p].terms \subseteq TermsType
                           /\ req[p].next \in 0 .. MaxSeq
                           /\ req[p].ded \subseteq Inst /\ req[p].ids \subseteq Inst
                           /\ req[p].cred \subseteq Advance /\ req[p].leg \subseteq Advance
        /\ adv \in [Advance -> AdvRow] /\ inst \in [Inst -> InstRow]
        /\ run \in [Run -> RunStatus \cup {"NONE"}]
        /\ line \in [Run -> [Employee -> LineType]]
        /\ slip \in [Run -> [Employee -> LineType]] /\ req \in [Proc -> ReqType]
    <3>1. \A q \in ReqType : /\ q.run \in Run \cup {NoRun} /\ q.adv \subseteq Advance
                             /\ q.terms \subseteq TermsType /\ q.next \in 0 .. MaxSeq
                             /\ q.ded \subseteq Inst /\ q.ids \subseteq Inst
                             /\ q.cred \subseteq Advance /\ q.leg \subseteq Advance
      BY DEF ReqType
    <3> QED BY <3>1 DEF TypeOK
  <2>5. \A p \in Proc : PeriodOf(req[p].run) \in Period \cup {NoPeriod}
    BY <2>4, PeriodOfType
  <2>6. ASSUME NEW p \in Proc, NEW a \in Advance, NEW t \in Terms, SubmitAdvance(p, a, t)
        PROVE  TypeOK'
    <3>0. [Idle EXCEPT !.pc = "insert", !.adv = {a}, !.terms = {t}, !.next = 1] \in ReqType
      <4>1. {a} \in SUBSET Advance /\ {t} \in SUBSET TermsType /\ 1 \in 0 .. MaxSeq
        BY RequestAssumption, BoundAssumption
      <4> QED BY <4>1, IdleType, RequestRowsType
    <3>1. req' \in [Proc -> ReqType]
      <4>1. ASSUME Begin(p, "submit", [Idle EXCEPT !.pc = "insert", !.adv = {a},
                                                   !.terms = {t}, !.next = 1])
            PROVE  req' \in [Proc -> ReqType]
        BY <4>1, <2>1, <3>0 DEF Begin
      <4> QED BY <2>6, <2>4, <4>1 DEF SubmitAdvance
    <3>2. adv' \in [Advance -> AdvRow]
      BY <2>6, <2>4, AdvanceStatementsType, RequestAssumption DEF SubmitAdvance, AdvStatus
    <3> QED BY <2>6, <3>1, <3>2 DEF SubmitAdvance, TypeOK, tables
  <2>7. ASSUME NEW p \in Proc, InsertNext(p)
        PROVE  TypeOK'
    <3>1. req' \in [Proc -> ReqType]
      <4>1. ASSUME NEW t \in req[p].terms, req[p].next < t.count
            PROVE  req[p].next + 1 \in 0 .. MaxSeq
        BY <4>1, <2>4, BoundAssumption DEF TermsType, Seq1
      <4>2. ASSUME NEW n \in 0 .. MaxSeq PROVE [req[p] EXCEPT !.next = n] \in ReqType
        BY <2>4, ReqFieldType
      <4> QED BY <2>7, <2>1, <2>3, <4>1, <4>2 DEF InsertNext, MoreInstallments
    <3>2. inst' \in [Inst -> InstRow]
      BY <2>7, <2>4, InstallmentStatementsType DEF InsertNext
    <3> QED BY <2>7, <3>1, <3>2 DEF InsertNext, TypeOK, tables
  <2>8. ASSUME NEW p \in Proc, NEW a \in Advance, NEW ts \in {{}} \cup {{t} : t \in Terms}, ReviewRead(p, a, ts)
        PROVE  TypeOK'
    <3>0. [Idle EXCEPT !.pc = "reviewWrite", !.adv = {a}, !.terms = ts] \in ReqType
      BY IdleType, RequestRowsType, RequestAssumption
    <3>1. req' \in [Proc -> ReqType]
      BY <2>8, <2>1, <3>0 DEF ReviewRead, Begin
    <3> QED BY <2>8, <3>1 DEF ReviewRead, TypeOK, tables
  <2>9. ASSUME NEW p \in Proc, ReviewReject(p)
        PROVE  TypeOK'
    <3>1. req' \in [Proc -> ReqType]
      BY <2>9, <2>3 DEF ReviewReject
    <3>2. adv' \in [Advance -> AdvRow]
      BY <2>9, AdvanceStatementsType, <2>4 DEF ReviewReject, AdvStatus
    <3> QED BY <2>9, <3>1, <3>2 DEF ReviewReject, TypeOK, tables
  <2>10. ASSUME NEW p \in Proc, ReviewApprove(p)
        PROVE  TypeOK'
    <3>1. req' \in [Proc -> ReqType]
      BY <2>10, <2>2 DEF ReviewApprove, Pcs, CalcPcs, OtherPcs
    <3>2. adv' \in [Advance -> AdvRow]
      BY <2>10, AdvanceStatementsType, <2>4 DEF ReviewApprove
    <3> QED BY <2>10, <3>1, <3>2 DEF ReviewApprove, TypeOK, tables
  <2>11. ASSUME NEW p \in Proc, ReviewDelete(p)
        PROVE  TypeOK'
    <3>1. req' \in [Proc -> ReqType]
      <4>1. ASSUME NEW a \in Advance PROVE ForgetInstallments(a) \in [Proc -> ReqType]
        <5>1. \A q \in Proc : [req[q] EXCEPT !.ids = {i \in req[q].ids : i[1] # a}] \in ReqType
          BY <2>4, ReqFieldType
        <5> QED BY <5>1 DEF ForgetInstallments
      <4>2. ASSUME NEW f \in [Proc -> ReqType]
            PROVE  [f EXCEPT ![p] = [@ EXCEPT !.pc = "insert", !.next = 1]] \in [Proc -> ReqType]
        <5>1. [f[p] EXCEPT !.pc = "insert", !.next = 1] \in ReqType
          <6>1. 1 \in 0 .. MaxSeq
            BY BoundAssumption
          <6> QED BY <6>1, RequestRowsType
        <5> QED BY <5>1
      <4>3. \A a \in req[p].adv : a \in Advance
        BY <2>4
      <4> QED BY <2>11, <4>1, <4>2, <4>3 DEF ReviewDelete
    <3>2. inst' \in [Inst -> InstRow]
      BY <2>11, <2>4, InstallmentStatementsType DEF ReviewDelete
    <3> QED BY <2>11, <3>1, <3>2 DEF ReviewDelete, TypeOK, tables
  <2>12. ASSUME NEW p \in Proc, NEW a \in Advance, CancelRead(p, a)
        PROVE  TypeOK'
    <3>0. [Idle EXCEPT !.pc = "cancelWrite", !.adv = {a}] \in ReqType
      BY IdleType, RequestRowsType
    <3>1. req' \in [Proc -> ReqType]
      BY <2>12, <2>1, <3>0 DEF CancelRead, Begin
    <3> QED BY <2>12, <3>1 DEF CancelRead, TypeOK, tables
  <2>13. ASSUME NEW p \in Proc, CancelWrite(p)
        PROVE  TypeOK'
    <3>1. req' \in [Proc -> ReqType]
      BY <2>13, <2>2 DEF CancelWrite, Pcs, CalcPcs, OtherPcs
    <3>2. adv' \in [Advance -> AdvRow]
      BY <2>13, AdvanceStatementsType, <2>4 DEF CancelWrite, AdvStatus
    <3> QED BY <2>13, <3>1, <3>2 DEF CancelWrite, TypeOK, tables
  <2>14. ASSUME NEW p \in Proc, CancelInstallments(p)
        PROVE  TypeOK'
    <3>1. req' \in [Proc -> ReqType]
      BY <2>14, <2>3 DEF CancelInstallments
    <3>2. inst' \in [Inst -> InstRow]
      BY <2>14, <2>4, InstallmentStatementsType DEF CancelInstallments
    <3> QED BY <2>14, <3>1, <3>2 DEF CancelInstallments, TypeOK, tables
  <2>15. ASSUME NEW p \in Proc, NEW pd \in Period, CreateRunCount(p, pd)
        PROVE  TypeOK'
    <3>0. RunsOf(pd) < MaxRunNo => <<pd, RunsOf(pd) + 1>> \in Run
      <4>1. IsFiniteSet(1 .. MaxRunNo)
        BY FS_Interval, BoundAssumption
      <4>2. RunsOf(pd) \in Nat
        BY <4>1, FS_Subset, FS_CardinalityType DEF RunsOf
      <4> QED BY <4>2, BoundAssumption DEF Run
    <3>1. req' \in [Proc -> ReqType]
      <4>1. [Idle EXCEPT !.pc = "createRun", !.run = <<pd, RunsOf(pd) + 1>>] \in ReqType
        BY <2>15, <3>0, IdleType, RequestRowsType DEF CreateRunCount
      <4> QED BY <2>15, <2>1, <4>1 DEF CreateRunCount, Begin
    <3> QED BY <2>15, <3>1 DEF CreateRunCount, TypeOK, tables
  <2>16. ASSUME NEW p \in Proc, CreateRunInsert(p)
        PROVE  TypeOK'
    <3>1. req' \in [Proc -> ReqType]
      BY <2>16, <2>3 DEF CreateRunInsert
    <3>2. run' \in [Run -> RunStatus \cup {"NONE"}]
      BY <2>16, <2>4 DEF CreateRunInsert, RunStatus
    <3> QED BY <2>16, <3>1, <3>2 DEF CreateRunInsert, TypeOK, tables
  <2>17. ASSUME NEW p \in Proc, NEW r \in Run, NEW scope \in Scopes, CalcStart(p, r, scope)
        PROVE  TypeOK'
    <3>1. req' \in [Proc -> ReqType]
      <4> DEFINE E == InScope(scope) \cap active
                 pc == IF E = {} THEN "commit" ELSE "reopenRead"
      <4>1. E \in SUBSET Employee /\ pc \in Pcs /\ scope \in SUBSET Branch /\ (E = {}) \in BOOLEAN
        BY EmployeeAssumption DEF InScope, Pcs, CalcPcs
      <4> HIDE DEF E, pc
      <4>2. [Idle EXCEPT !.pc = pc, !.run = r, !.scope = scope, !.emps = E,
                         !.legRead = (E = {})] \in ReqType
        BY <4>1, IdleType, RequestRowsType
      <4> QED BY <2>17, <2>1, <4>2 DEF CalcStart, FirstPc, Begin, E, pc
    <3> QED BY <2>17, <3>1 DEF CalcStart, TypeOK, tables
  <2>18. ASSUME NEW p \in Proc, ReopenRead(p)
        PROVE  TypeOK'
    <3>1. req' \in [Proc -> ReqType]
      <4>1. AffectedBy(adv, inst, req[p].run, req[p].emps) \in SUBSET Advance
        BY DEF AffectedBy
      <4> QED BY <2>18, <2>1, <2>4, <4>1, RequestRowsType DEF ReopenRead
    <3> QED BY <2>18, <3>1 DEF ReopenRead, TypeOK, tables
  <2>19. ASSUME NEW p \in Proc, ReopenInst(p)
        PROVE  TypeOK'
    <3>1. req' \in [Proc -> ReqType]
      BY <2>19, <2>2 DEF ReopenInst, Pcs, CalcPcs, OtherPcs
    <3>2. inst' \in [Inst -> InstRow]
      BY <2>19, InstallmentStatementsType, <2>4 DEF ReopenInst
    <3> QED BY <2>19, <3>1, <3>2 DEF ReopenInst, TypeOK, tables
  <2>20. ASSUME NEW p \in Proc, ReopenCredit(p)
        PROVE  TypeOK'
    <3>1. req' \in [Proc -> ReqType]
      BY <2>20, <2>2 DEF ReopenCredit, Pcs, CalcPcs, OtherPcs
    <3>2. adv' \in [Advance -> AdvRow]
      BY <2>20, AdvanceStatementsType, <2>4 DEF ReopenCredit
    <3> QED BY <2>20, <3>1, <3>2 DEF ReopenCredit, TypeOK, tables
  <2>21. ASSUME NEW p \in Proc, ReopenDeduct(p)
        PROVE  TypeOK'
    <3>1. req' \in [Proc -> ReqType]
      BY <2>21, <2>2 DEF ReopenDeduct, Pcs, CalcPcs, OtherPcs
    <3>2. adv' \in [Advance -> AdvRow]
      BY <2>21, AdvanceStatementsType, <2>4 DEF ReopenDeduct
    <3> QED BY <2>21, <3>1, <3>2 DEF ReopenDeduct, TypeOK, tables
  <2>22. ASSUME NEW p \in Proc, ReopenStatus(p)
        PROVE  TypeOK'
    <3>1. req' \in [Proc -> ReqType]
      <4>1. [req[p] EXCEPT !.pc = "unbind", !.affected = {}] \in ReqType
        BY <2>4, RequestRowsType
      <4> QED BY <2>22, <2>1, <4>1 DEF ReopenStatus
    <3>2. adv' \in [Advance -> AdvRow]
      BY <2>22, AdvanceStatementsType, <2>4 DEF ReopenStatus
    <3> QED BY <2>22, <3>1, <3>2 DEF ReopenStatus, TypeOK, tables
  <2>23. ASSUME NEW p \in Proc, Unbind(p)
        PROVE  TypeOK'
    <3>1. req' \in [Proc -> ReqType]
      BY <2>23, <2>2 DEF Unbind, Pcs, CalcPcs, OtherPcs
    <3>2. inst' \in [Inst -> InstRow]
      BY <2>23, InstallmentStatementsType, <2>4, <2>5 DEF Unbind
    <3> QED BY <2>23, <3>1, <3>2 DEF Unbind, TypeOK, tables
  <2>24. ASSUME NEW p \in Proc, Bind(p)
        PROVE  TypeOK'
    <3>1. req' \in [Proc -> ReqType]
      BY <2>24, <2>2 DEF Bind, Pcs, CalcPcs, OtherPcs
    <3>2. inst' \in [Inst -> InstRow]
      BY <2>24, InstallmentStatementsType, <2>4, <2>5 DEF Bind
    <3> QED BY <2>24, <3>1, <3>2 DEF Bind, TypeOK, tables
  <2>25. ASSUME NEW p \in Proc, ReadDeductions(p)
        PROVE  TypeOK'
    <3>1. req' \in [Proc -> ReqType]
      <4>1. DeductionsOf(adv, inst, PeriodOf(req[p].run), req[p].emps) \in SUBSET Inst
        BY DEF DeductionsOf
      <4> QED BY <2>25, <2>1, <2>4, <4>1, RequestRowsType DEF ReadDeductions
    <3> QED BY <2>25, <3>1 DEF ReadDeductions, TypeOK, tables
  <2>26. ASSUME NEW p \in Proc, ReadCredits(p)
        PROVE  TypeOK'
    <3>1. req' \in [Proc -> ReqType]
      <4>1. CreditsOf(adv, PeriodOf(req[p].run), req[p].emps) \in SUBSET Advance
        BY DEF CreditsOf
      <4>2. \A B : (IF B = {} THEN "commit" ELSE "drop") \in Pcs
        BY DEF Pcs, CalcPcs
      <4> QED BY <2>26, <2>1, <2>4, <4>1, <4>2, RequestRowsType DEF ReadCredits
    <3> QED BY <2>26, <3>1 DEF ReadCredits, TypeOK, tables
  <2>27. ASSUME NEW p \in Proc, DropConflicts(p)
        PROVE  TypeOK'
    <3>1. req' \in [Proc -> ReqType]
      <4>1. ASSUME NEW B
            PROVE  [req[p] EXCEPT !.pc = "commit", !.ded = req[p].ded \ B,
                                  !.ids = req[p].ids \ B] \in ReqType
        BY <2>4, RequestRowsType
      <4> QED BY <2>27, <2>1, <4>1 DEF DropConflicts
    <3>2. inst' \in [Inst -> InstRow]
      BY <2>27, InstallmentStatementsType, <2>4 DEF DropConflicts
    <3> QED BY <2>27, <3>1, <3>2 DEF DropConflicts, TypeOK, tables
  <2>28. ASSUME NEW p \in Proc, ReadLegacy(p)
        PROVE  TypeOK'
    <3>1. req' \in [Proc -> ReqType]
      <4>1. LegacyOf(adv, inst, req[p].emps) \in SUBSET Advance
        BY DEF LegacyOf
      <4> QED BY <2>28, <2>1, <2>4, <4>1, RequestRowsType DEF ReadLegacy
    <3> QED BY <2>28, <3>1 DEF ReadLegacy, TypeOK, tables
  <2>29. ASSUME NEW p \in Proc, Commit(p)
        PROVE  TypeOK'
    <3>1. req' \in [Proc -> ReqType]
      <4>1. \A r, es : ForgetLines(p, r, es) \in [Proc -> ReqType]
        <5>1. \A q \in Proc : [req[q] EXCEPT !.gone = TRUE] \in ReqType
          BY <2>4, ReqFieldType
        <5> QED BY <2>4, <5>1 DEF ForgetLines
      <4>2. \A es : [Idle EXCEPT !.pc = "markInst", !.run = req[p].run,
                       !.ids = {i \in req[p].ids : OwnerOf(i) \in es},
                       !.cred = {a \in req[p].cred : AdvEmp[a] \in es},
                       !.leg = {a \in req[p].leg : AdvEmp[a] \in es}] \in ReqType
        <5>1. \A es : /\ {i \in req[p].ids : OwnerOf(i) \in es} \in SUBSET Inst
                      /\ {a \in req[p].cred : AdvEmp[a] \in es} \in SUBSET Advance
                      /\ {a \in req[p].leg : AdvEmp[a] \in es} \in SUBSET Advance
          BY <2>4
        <5> QED BY <2>4, <5>1, IdleType, RequestRowsType
      <4>3. ASSUME NEW f \in [Proc -> ReqType], NEW q \in ReqType
            PROVE  [f EXCEPT ![p] = q] \in [Proc -> ReqType]
        OBVIOUS
      <4> QED BY <2>29, <4>1, <4>2, <4>3 DEF Commit
    <3>2. \A e : NewLine(p, e) \in LineType
      <4>1. \A e : /\ {i \in req[p].ded : OwnerOf(i) = e} \in SUBSET Inst
                   /\ {a \in req[p].leg : AdvEmp[a] = e} \in SUBSET Advance
                   /\ {a \in req[p].cred : AdvEmp[a] = e} \in SUBSET Advance
        BY <2>4
      <4> QED BY <4>1 DEF NewLine, LineType
    <3>3. NoLine \in LineType
      BY NoLineType
    <3>4. line' \in [Run -> [Employee -> LineType]] /\ slip' \in [Run -> [Employee -> LineType]]
      BY <2>29, <2>4, <3>2, <3>3 DEF Commit
    <3> QED BY <2>29, <3>1, <3>4 DEF Commit, TypeOK, tables
  <2>30. ASSUME NEW p \in Proc, MarkInst(p)
        PROVE  TypeOK'
    <3>1. req' \in [Proc -> ReqType]
      BY <2>30, <2>2 DEF MarkInst, Pcs, CalcPcs, OtherPcs
    <3>2. inst' \in [Inst -> InstRow]
      BY <2>30, InstallmentStatementsType, <2>4 DEF MarkInst
    <3> QED BY <2>30, <3>1, <3>2 DEF MarkInst, TypeOK, tables
  <2>31. ASSUME NEW p \in Proc, MarkStatus(p)
        PROVE  TypeOK'
    <3>1. req' \in [Proc -> ReqType]
      <4>1. [req[p] EXCEPT !.pc = "markCred", !.ids = {}] \in ReqType
        BY <2>4, RequestRowsType
      <4> QED BY <2>31, <2>1, <4>1 DEF MarkStatus
    <3>2. adv' \in [Advance -> AdvRow]
      BY <2>31, AdvanceStatementsType, <2>4 DEF MarkStatus
    <3> QED BY <2>31, <3>1, <3>2 DEF MarkStatus, TypeOK, tables
  <2>32. ASSUME NEW p \in Proc, MarkCred(p)
        PROVE  TypeOK'
    <3>1. req' \in [Proc -> ReqType]
      <4>1. [req[p] EXCEPT !.pc = "markLegacy", !.cred = {}] \in ReqType
        BY <2>4, RequestRowsType DEF Pcs, CalcPcs
      <4> QED BY <2>32, <2>1, <4>1 DEF MarkCred
    <3>2. adv' \in [Advance -> AdvRow]
      BY <2>32, AdvanceStatementsType, <2>4 DEF MarkCred
    <3> QED BY <2>32, <3>1, <3>2 DEF MarkCred, TypeOK, tables
  <2>33. ASSUME NEW p \in Proc, MarkLeg(p)
        PROVE  TypeOK'
    <3>1. req' \in [Proc -> ReqType]
      BY <2>33, <2>2 DEF MarkLeg, Pcs, CalcPcs, OtherPcs
    <3>2. adv' \in [Advance -> AdvRow]
      BY <2>33, AdvanceStatementsType, <2>4 DEF MarkLeg
    <3> QED BY <2>33, <3>1, <3>2 DEF MarkLeg, TypeOK, tables
  <2>34. ASSUME NEW p \in Proc, FinishCalc(p)
        PROVE  TypeOK'
    <3>1. req' \in [Proc -> ReqType]
      BY <2>34, <2>3 DEF FinishCalc
    <3>2. run' \in [Run -> RunStatus \cup {"NONE"}]
      BY <2>34, <2>4 DEF FinishCalc, RunStatus
    <3> QED BY <2>34, <3>1, <3>2 DEF FinishCalc, TypeOK, tables
  <2>35. ASSUME NEW p \in Proc, NEW r \in Run, NEW scope \in Scopes, IssueRead(p, r, scope)
        PROVE  TypeOK'
    <3>1. req' \in [Proc -> ReqType]
      <4>1. LinesSeen(r, scope) \in [Employee -> LineType]
        BY <2>4, NoLineType DEF LinesSeen
      <4>2. [Idle EXCEPT !.pc = "issueWrite", !.run = r,
                         !.rows = LinesSeen(r, scope)] \in ReqType
        BY <4>1, IdleType, RequestRowsType
      <4> QED BY <2>35, <2>1, <4>2 DEF IssueRead, Begin
    <3> QED BY <2>35, <3>1 DEF IssueRead, TypeOK, tables
  <2>36. ASSUME NEW p \in Proc, IssueWrite(p)
        PROVE  TypeOK'
    <3>1. req' \in [Proc -> ReqType]
      BY <2>36, <2>3 DEF IssueWrite
    <3>2. req[p].rows \in [Employee -> LineType]
      BY <2>4 DEF ReqType
    <3>3. slip' \in [Run -> [Employee -> LineType]]
      BY <2>36, <2>4, <3>2 DEF IssueWrite
    <3> QED BY <2>36, <3>1, <3>3 DEF IssueWrite, TypeOK, tables
  <2>37. ASSUME NEW p \in Proc, Fail(p)
        PROVE  TypeOK'
    <3>1. req' \in [Proc -> ReqType]
      BY <2>37, <2>3 DEF Fail
    <3> QED BY <2>37, <3>1 DEF Fail, TypeOK, tables
  <2>38. ASSUME NEW r \in Run, NEW status \in RunStatus \ {"DRAFT"}, RunAction(r, status)
        PROVE  TypeOK'
    BY <2>38 DEF RunAction, TypeOK
  <2>39. ASSUME NEW e \in Deactivatable, SetActive(e)
        PROVE  TypeOK'
    BY <2>39, EmployeeAssumption DEF SetActive, TypeOK
  <2>40. CASE UNCHANGED vars
    BY <2>40 DEF TypeOK, vars
  <2> QED
    BY <2>6, <2>7, <2>8, <2>9, <2>10, <2>11, <2>12, <2>13, <2>14, <2>15, <2>16, <2>17, <2>18, <2>19, <2>20, <2>21,
       <2>22, <2>23, <2>24, <2>25, <2>26, <2>27, <2>28, <2>29, <2>30, <2>31, <2>32, <2>33, <2>34, <2>35, <2>36, <2>37, <2>38, <2>39, <2>40
    DEF Next, AdvanceStep, CalcStep, RunStep
<1> QED BY <1>1, <1>2, PTL DEF Spec

-----------------------------------------------------------------------------
(* No statement but MarkInstallments records an installment as collected.  *)

NothingCollected(in, in2) ==
    \A i \in Inst : in2[i].status = "DEDUCTED" =>
        in[i].status = "DEDUCTED" /\ in2[i].run = in[i].run

LEMMA StatementsCollectNothing ==
    ASSUME NEW in \in [Inst -> InstRow]
    PROVE  /\ NothingCollected(in, in)
           /\ \A a : NothingCollected(in, DeleteInstallments(in, a))
           /\ \A a, s : NothingCollected(in, InsertInstallment(in, a, s))
           /\ \A a : NothingCollected(in, CancelPending(in, a))
           /\ \A r : NothingCollected(in, ReopenInstallments(in, r))
           /\ \A ad, pd, es : NothingCollected(in, UnbindIneligible(ad, in, pd, es))
           /\ \A ad, pd, es : NothingCollected(in, BindNext(ad, in, pd, es))
           /\ \A ids : NothingCollected(in, UnbindPending(in, ids))
<1> USE DEF NothingCollected, InstRow
<1>1. NothingCollected(in, in)
  OBVIOUS
<1>2. \A a : NothingCollected(in, DeleteInstallments(in, a))
  BY DEF DeleteInstallments, NoInst
<1>3. \A a, s : NothingCollected(in, InsertInstallment(in, a, s))
  BY DEF InsertInstallment, FreshInst
<1>4. \A a : NothingCollected(in, CancelPending(in, a))
  BY DEF CancelPending
<1>5. \A r : NothingCollected(in, ReopenInstallments(in, r))
  BY DEF ReopenInstallments, FreshInst
<1>6. \A ad, pd, es : NothingCollected(in, UnbindIneligible(ad, in, pd, es))
  BY DEF UnbindIneligible
<1>7. \A ad, pd, es : NothingCollected(in, BindNext(ad, in, pd, es))
  BY DEF BindNext
<1>8. \A ids : NothingCollected(in, UnbindPending(in, ids))
  BY DEF UnbindPending
<1> QED BY <1>1, <1>2, <1>3, <1>4, <1>5, <1>6, <1>7, <1>8

\* After it has been reopened a run has collected nothing.
LEMMA ReopeningCollectsNothing ==
    ASSUME NEW in \in [Inst -> InstRow], NEW r
    PROVE  \A i \in Inst : LET in2 == ReopenInstallments(in, r)
                           IN ~ (in2[i].status = "DEDUCTED" /\ in2[i].run = r)
BY DEF ReopenInstallments, FreshInst, InstRow

\* MarkInstallments records exactly installments of its list, for its run.
LEMMA MarkingCollects ==
    ASSUME NEW in \in [Inst -> InstRow], NEW ids, NEW r
    PROVE  \A i \in Inst : LET in2 == MarkInstallments(in, ids, r) IN
              in2[i].status = "DEDUCTED" =>
                 \/ in[i].status = "DEDUCTED" /\ in2[i].run = in[i].run
                 \/ i \in ids /\ in2[i].run = r
<1> DEFINE row(i) == [[in[i] EXCEPT !.status = "DEDUCTED"] EXCEPT !.run = r]
<1>1. \A i \in Inst : row(i).run = r
  <2>1. \A i \in Inst : [in[i] EXCEPT !.status = "DEDUCTED"] \in [status : {"DEDUCTED"},
           period : Period \cup {NoPeriod}, run : Run \cup {NoRun}]
    BY DEF InstRow
  <2> QED BY <2>1
<1>2. \A i \in Inst : MarkInstallments(in, ids, r)[i] =
         IF i \in ids /\ in[i].status = "PENDING" THEN row(i) ELSE in[i]
  BY DEF MarkInstallments
<1> HIDE DEF row
<1> QED BY <1>1, <1>2

-----------------------------------------------------------------------------
(* A step that collects nothing and rewrites no line.                      *)

\* What a step of one request may do to another: rows it had read are gone.
OthersKept(p) ==
    \A q \in Proc \ {p} :
        /\ req'[q].pc = req[q].pc /\ req'[q].run = req[q].run
        /\ req'[q].scope = req[q].scope /\ req'[q].emps = req[q].emps
        /\ req'[q].ded = req[q].ded /\ req'[q].ids \subseteq req[q].ids

NoRivalTo(p) ==
    \A r \in Run : Calculating(p, r)' =>
        \A q \in Proc \ {p} : ~ Calculating(q, r)

LEMMA FrameStep ==
    ASSUME LedgerInv, TypeOK', NEW p \in Proc,
           line' = line, active' = active, NothingCollected(inst, inst'),
           OthersKept(p), NoRivalTo(p), RequestInv(p)'
    PROVE  LedgerInv'
<1>1. LedgerBacked'
  BY DEF LedgerInv, LedgerBacked, NothingCollected
<1>2. OneCalculation'
  BY DEF LedgerInv, OneCalculation, OthersKept, NoRivalTo, Calculating
<1>3. \A q \in Proc \ {p} : RequestInv(q)'
  <2> SUFFICES ASSUME NEW q \in Proc \ {p} PROVE RequestInv(q)'
    OBVIOUS
  <2>1. RequestInv(q)
    BY DEF LedgerInv
  <2>2. \A r : CollectedBy(r)' \subseteq CollectedBy(r)
    BY DEF CollectedBy, NothingCollected
  <2> QED BY <2>1, <2>2 DEF RequestInv, OthersKept
<1> QED BY <1>1, <1>2, <1>3 DEF LedgerInv
-----------------------------------------------------------------------------
(* Control of one request.                                                 *)

LEMMA UpdateControl ==
    ASSUME TypeOK, NEW p \in Proc, NEW row, Update(p, row)
    PROVE  req'[p] = row /\ OthersKept(p)
BY DEF TypeOK, Update, OthersKept

\* The control fields a request keeps while it moves on.
SameRequest(q2, q) ==
    /\ q2.run = q.run /\ q2.scope = q.scope /\ q2.emps = q.emps

LEMMA GotoControl ==
    ASSUME TypeOK, NEW p \in Proc, NEW pc, Goto(p, pc)
    PROVE  /\ req'[p].pc = pc /\ SameRequest(req'[p], req[p])
           /\ req'[p].ded = req[p].ded /\ req'[p].ids = req[p].ids
           /\ OthersKept(p)
<1>1. req[p] \in ReqType
  BY DEF TypeOK
<1>2. req'[p] = [req[p] EXCEPT !.pc = pc] /\ OthersKept(p)
  BY UpdateControl DEF Goto
<1> QED BY <1>1, <1>2 DEF ReqType, SameRequest

\* A request that ends, or that is not a calculation, disturbs nothing.
LEMMA ReturnStep ==
    ASSUME LedgerInv, TypeOK', NEW p \in Proc, Return(p),
           line' = line, active' = active, NothingCollected(inst, inst')
    PROVE  LedgerInv'
<1>1. TypeOK
  BY DEF LedgerInv
<1>2. req'[p] = Idle /\ OthersKept(p)
  BY <1>1, UpdateControl DEF Return
<1>3. NoRivalTo(p)
  BY <1>2 DEF NoRivalTo, Calculating, Idle, CalcPcs
<1>4. RequestInv(p)'
  BY <1>2 DEF RequestInv, Idle, CalcPcs, AfterReopen
<1> QED BY <1>2, <1>3, <1>4, FrameStep

LEMMA OtherRequestStep ==
    ASSUME LedgerInv, TypeOK', NEW p \in Proc, OthersKept(p),
           req'[p].pc \in OtherPcs, req'[p].ids \subseteq req'[p].ded,
           line' = line, active' = active, NothingCollected(inst, inst')
    PROVE  LedgerInv'
<1>1. NoRivalTo(p)
  BY DEF NoRivalTo, Calculating, CalcPcs, OtherPcs
<1>2. RequestInv(p)'
  BY DEF RequestInv, CalcPcs, OtherPcs, AfterReopen
<1> QED BY <1>1, <1>2, FrameStep

\* A calculation that moves on before its transaction: the run it reopened has
\* collected nothing since.
LEMMA CalcAdvances ==
    ASSUME LedgerInv, TypeOK', NEW p \in Proc, OthersKept(p),
           SameRequest(req'[p], req[p]),
           req[p].pc \in CalcPcs,
           req'[p].pc \in CalcPcs \ {"markInst", "markStatus"},
           req'[p].ids \subseteq req'[p].ded,
           req'[p].pc \in AfterReopen =>
               req[p].pc \in AfterReopen \/ CollectedBy(req[p].run)' = {},
           line' = line, active' = active, NothingCollected(inst, inst')
    PROVE  LedgerInv'
<1>1. RequestInv(p)
  BY DEF LedgerInv
<1>2. NoRivalTo(p)
  BY <1>1 DEF LedgerInv, OneCalculation, NoRivalTo, Calculating, SameRequest
<1>3. \A r : CollectedBy(r)' \subseteq CollectedBy(r)
  BY DEF CollectedBy, NothingCollected
<1>4. RequestInv(p)'
  <2>1. req'[p].pc # "idle" /\ req'[p].pc # "markInst"
    BY DEF CalcPcs
  <2> QED BY <1>1, <1>3, <2>1 DEF RequestInv, SameRequest
<1> QED BY <1>2, <1>4, FrameStep

-----------------------------------------------------------------------------
\* The two steps that could break the invariant: the transaction and the marking.

LEMMA CommitStep ==
    ASSUME LedgerInv, TypeOK', NEW p \in Proc, Commit(p)
    PROVE  LedgerInv'
<1> DEFINE r == req[p].run
           paid == req[p].emps \cap Compensated
           wiped == InScope(req[p].scope)
<1>1. TypeOK /\ RequestInv(p) /\ req[p] \in ReqType
  BY DEF LedgerInv, TypeOK
<1>2. /\ req[p].pc = "commit" /\ r \in Run /\ paid \subseteq wiped
      /\ wiped = {} \/ CollectedBy(r) = {}
      /\ req[p].ids \subseteq req[p].ded /\ req[p].ded \subseteq Inst
  BY <1>1 DEF Commit, At, RequestInv, CalcPcs, AfterReopen, ReqType
<1>3. inst' = inst /\ active' = active
  BY DEF Commit
<1>4. \A r2 \in Run \ {r} : line'[r2] = line[r2]
  BY <1>1 DEF Commit, TypeOK
<1>5. /\ \A e \in Employee \ wiped : line'[r][e] = line[r][e]
      /\ \A e \in paid : line'[r][e] = NewLine(p, e)
  BY <1>1, <1>2 DEF Commit, TypeOK, InScope
<1>6. /\ req'[p].pc = "markInst" /\ req'[p].run = r
      /\ req'[p].emps = {} /\ req'[p].ids = {i \in req[p].ids : OwnerOf(i) \in paid}
  <2> DEFINE row == [Idle EXCEPT !.pc = "markInst", !.run = r,
                        !.ids = {i \in req[p].ids : OwnerOf(i) \in paid},
                        !.cred = {a \in req[p].cred : AdvEmp[a] \in paid},
                        !.leg = {a \in req[p].leg : AdvEmp[a] \in paid}]
  <2>1. req'[p] = row
    BY <1>1 DEF Commit, ForgetLines
  <2>2. /\ row.pc = "markInst" /\ row.run = r /\ row.emps = {}
        /\ row.ids = {i \in req[p].ids : OwnerOf(i) \in paid}
    BY DEF Idle
  <2> HIDE DEF row
  <2> QED BY <2>1, <2>2
<1>7. \A q \in Proc \ {p} :
         req'[q] = req[q] \/ (req[q].pc = "issueWrite" /\ req'[q] = [req[q] EXCEPT !.gone = TRUE])
  BY DEF Commit, ForgetLines, At
<1>8. OthersKept(p)
  <2>1. \A q \in Proc : req[q] \in ReqType
    BY <1>1 DEF TypeOK
  <2>2. Idle.pc # "issueWrite"
    BY DEF Idle
  <2>3. \A q \in ReqType : LET g == [q EXCEPT !.gone = TRUE] IN
           /\ g.pc = q.pc /\ g.run = q.run /\ g.scope = q.scope /\ g.emps = q.emps
           /\ g.ded = q.ded /\ g.ids = q.ids
    BY DEF ReqType
  <2> QED BY <1>7, <2>1, <2>2, <2>3, ZenonT(60) DEF OthersKept
<1>9. LedgerBacked'
  <2> SUFFICES ASSUME NEW i \in Inst, inst[i].status = "DEDUCTED"
               PROVE  i \in line'[inst[i].run][OwnerOf(i)].ded
    BY <1>3 DEF LedgerInv, LedgerBacked
  <2>1. inst[i].run \in Run /\ i \in line[inst[i].run][OwnerOf(i)].ded
    BY DEF LedgerInv, LedgerBacked
  <2>2. OwnerOf(i) \in Employee
    BY InstType, AdvEmpAssumption DEF OwnerOf
  <2>3. CASE inst[i].run # r
    BY <1>4, <2>1, <2>3
  <2>4. CASE inst[i].run = r
    <3>1. wiped = {}
      BY <1>2, <2>4 DEF CollectedBy
    <3> QED BY <1>5, <2>1, <2>2, <2>4, <3>1
  <2> QED BY <2>3, <2>4
<1>10. OneCalculation'
  BY <1>1, <1>2, <1>6, <1>8 DEF LedgerInv, OneCalculation, Calculating, OthersKept, CalcPcs
<1>11. RequestInv(p)'
  <2>1. \A e : NewLine(p, e).ded = {i \in req[p].ded : OwnerOf(i) = e}
    BY DEF NewLine
  <2>2. ASSUME NEW i \in req'[p].ids PROVE i \in line'[r][OwnerOf(i)].ded
    <3>1. i \in req[p].ded /\ OwnerOf(i) \in paid
      BY <1>2, <1>6
    <3> QED BY <1>5, <2>1, <3>1
  <2> QED BY <1>2, <1>6, <2>2 DEF RequestInv, CalcPcs, AfterReopen
<1>12. ASSUME NEW q \in Proc \ {p} PROVE RequestInv(q)'
  <2>1. RequestInv(q)
    BY DEF LedgerInv
  <2>2. req[q].pc = "markInst" => req[q].run \in Run \ {r}
    BY <1>2, <2>1 DEF RequestInv, LedgerInv, OneCalculation, Calculating, CalcPcs
  <2>3. \A r2 : CollectedBy(r2)' = CollectedBy(r2)
    BY <1>3 DEF CollectedBy
  <2> QED BY <1>4, <1>8, <2>1, <2>2, <2>3 DEF RequestInv, OthersKept
<1> QED BY <1>3, <1>9, <1>10, <1>11, <1>12 DEF LedgerInv

LEMMA MarkInstStep ==
    ASSUME LedgerInv, TypeOK', NEW p \in Proc, MarkInst(p)
    PROVE  LedgerInv'
<1> DEFINE r == req[p].run
<1>1. TypeOK /\ RequestInv(p)
  BY DEF LedgerInv
<1>2. req[p].pc = "markInst" /\ r \in Run /\ \A i \in req[p].ids : i \in line[r][OwnerOf(i)].ded
  BY <1>1 DEF MarkInst, At, RequestInv, CalcPcs
<1>3. line' = line /\ active' = active
  BY DEF MarkInst
<1>4. /\ req'[p].pc = "markStatus" /\ SameRequest(req'[p], req[p]) /\ OthersKept(p)
  BY <1>1, GotoControl DEF MarkInst
<1>5. \A i \in Inst : inst'[i].status = "DEDUCTED" =>
         \/ inst[i].status = "DEDUCTED" /\ inst'[i].run = inst[i].run
         \/ i \in req[p].ids /\ inst'[i].run = r
  BY <1>1, MarkingCollects DEF MarkInst, TypeOK
<1>6. LedgerBacked'
  BY <1>2, <1>3, <1>5 DEF LedgerInv, LedgerBacked
<1>7. OneCalculation'
  BY <1>2, <1>4 DEF LedgerInv, OneCalculation, Calculating, OthersKept, SameRequest, CalcPcs
<1>8. RequestInv(p)'
  BY <1>1, <1>2, <1>4 DEF RequestInv, SameRequest, CalcPcs, AfterReopen
<1>9. ASSUME NEW q \in Proc \ {p} PROVE RequestInv(q)'
  <2>1. RequestInv(q)
    BY DEF LedgerInv
  <2>2. req[q].pc \in AfterReopen => req[q].run # r
    BY <1>2, <2>1 DEF RequestInv, LedgerInv, OneCalculation, Calculating, CalcPcs, AfterReopen
  <2>3. \A r2 : r2 # r => CollectedBy(r2)' \subseteq CollectedBy(r2)
    BY <1>5 DEF CollectedBy
  <2> QED BY <1>3, <1>4, <2>1, <2>2, <2>3 DEF RequestInv, OthersKept
<1> QED BY <1>3, <1>6, <1>7, <1>8, <1>9 DEF LedgerInv
-----------------------------------------------------------------------------
(* The steps of Next.                                                      *)

LEMMA LedgerInit == Init => LedgerInv
<1> SUFFICES ASSUME Init PROVE LedgerInv
  OBVIOUS
<1>1. TypeOK
  BY InitTypeOK
<1>2. \A i \in Inst : inst[i].status # "DEDUCTED"
  BY DEF Init, FreshInst, NoInst
<1>3. \A p \in Proc : req[p] = Idle
  BY DEF Init
<1>4. LedgerBacked /\ active = Employee
  BY <1>2 DEF Init, LedgerBacked
<1>5. OneCalculation
  BY <1>3 DEF OneCalculation, Calculating, Idle, CalcPcs
<1>6. \A p \in Proc : RequestInv(p)
  <2>1. Idle.pc = "idle" /\ Idle.ids = {}
    BY DEF Idle
  <2> QED BY <1>3, <2>1 DEF RequestInv, CalcPcs, AfterReopen
<1> QED BY <1>1, <1>4, <1>5, <1>6 DEF LedgerInv

\* A calculation starts on a run nobody else is calculating.
LEMMA CalcStartStep ==
    ASSUME LedgerInv, TypeOK', ExclusiveRuns, NEW p \in Proc, NEW r \in Run,
           NEW scope \in Scopes, CalcStart(p, r, scope)
    PROVE  LedgerInv'
<1> DEFINE E == InScope(scope) \cap active
           pc == IF E = {} THEN "commit" ELSE "reopenRead"
           row == [Idle EXCEPT !.pc = pc, !.run = r, !.scope = scope, !.emps = E,
                               !.legRead = (E = {})]
<1>1. TypeOK /\ active = Employee
  BY DEF LedgerInv
<1>2. req'[p] = row /\ OthersKept(p)
  BY <1>1, UpdateControl DEF CalcStart, FirstPc, Begin
<1>3. /\ row.pc = pc /\ row.run = r /\ row.scope = scope /\ row.emps = E
      /\ row.ids = {}
  BY DEF Idle
<1>4. line' = line /\ active' = active /\ inst' = inst
  BY DEF CalcStart, tables
<1>5. NoRivalTo(p)
  BY <1>2, <1>3 DEF CalcStart, NoRivalTo, Calculating
<1>6. E = InScope(scope)
  BY <1>1 DEF InScope
<1>7. RequestInv(p)'
  BY <1>2, <1>3, <1>6 DEF RequestInv, CalcPcs, AfterReopen
<1>8. NothingCollected(inst, inst')
  BY <1>4 DEF NothingCollected
<1> QED BY <1>2, <1>4, <1>5, <1>7, <1>8, FrameStep

\* An installment is recorded as collected by a run only while a pay line of that
\* run deducts it, whatever requests interleave or are abandoned.
THEOREM LedgerAlwaysBacked ==
    ASSUME ExclusiveRuns, Deactivatable = {}
    PROVE  Spec => []LedgerBacked
<1>1. Init => LedgerInv
  BY LedgerInit
<1>2. LedgerInv /\ TypeOK' /\ [Next]_vars => LedgerInv'
  <2> SUFFICES ASSUME LedgerInv, TypeOK', [Next]_vars PROVE LedgerInv'
    OBVIOUS
  <2>1. TypeOK /\ inst \in [Inst -> InstRow] /\ \A p \in Proc : req[p] \in ReqType
    BY DEF LedgerInv, TypeOK
  <2>2. NothingCollected(inst, inst)
    BY DEF NothingCollected
  <2>3. ASSUME NEW p \in Proc, NEW a \in Advance, NEW t \in Terms, SubmitAdvance(p, a, t)
        PROVE  LedgerInv'
    <3>1. inst' = inst /\ line' = line /\ active' = active
      BY <2>3 DEF SubmitAdvance
    <3>2. CASE req[p] = Idle /\ UNCHANGED req
      <4>1. Return(p)
        BY <2>1, <3>2 DEF TypeOK, Return, Update
      <4> QED BY <2>2, <3>1, <4>1, ReturnStep
    <3>3. CASE Begin(p, "submit", [Idle EXCEPT !.pc = "insert", !.adv = {a},
                                               !.terms = {t}, !.next = 1])
      <4> DEFINE row == [Idle EXCEPT !.pc = "insert", !.adv = {a}, !.terms = {t}, !.next = 1]
      <4>1. req'[p] = row /\ OthersKept(p)
        BY <2>1, <3>3, UpdateControl DEF Begin
      <4>2. row.pc \in OtherPcs /\ row.ids = {}
        BY DEF Idle, OtherPcs
      <4> HIDE DEF row
      <4> QED BY <2>2, <3>1, <4>1, <4>2, OtherRequestStep
    <3> QED BY <2>3, <3>2, <3>3 DEF SubmitAdvance
  <2>4. ASSUME NEW p \in Proc, InsertNext(p)
        PROVE  LedgerInv'
    <3>1. line' = line /\ active' = active /\ NothingCollected(inst, inst')
      BY <2>4, <2>1, <2>2, StatementsCollectNothing DEF InsertNext
    <3>2. CASE Return(p)
      BY <3>1, <3>2, ReturnStep
    <3>3. CASE \E s : Update(p, [req[p] EXCEPT !.next = s])
      <4>1. req[p].ids \subseteq req[p].ded /\ req[p].pc = "insert"
        BY <2>4 DEF InsertNext, At, LedgerInv, RequestInv
      <4>2. PICK s : req'[p] = [req[p] EXCEPT !.next = s] /\ OthersKept(p)
        BY <2>1, <3>3, UpdateControl
      <4>3. req'[p].pc \in OtherPcs /\ req'[p].ids \subseteq req'[p].ded
        BY <2>1, <4>1, <4>2 DEF ReqType, OtherPcs
      <4> QED BY <3>1, <4>2, <4>3, OtherRequestStep
    <3> QED BY <2>4, <3>2, <3>3 DEF InsertNext, MoreInstallments
  <2>5. ASSUME NEW p \in Proc, NEW a \in Advance, NEW ts \in {{}} \cup {{t} : t \in Terms}, ReviewRead(p, a, ts)
        PROVE  LedgerInv'
    <3> DEFINE row == [Idle EXCEPT !.pc = "reviewWrite", !.adv = {a}, !.terms = ts]
    <3>1. req'[p] = row /\ OthersKept(p)
      BY <2>5, <2>1, UpdateControl DEF ReviewRead, Begin
    <3>2. row.pc \in OtherPcs /\ row.ids = {}
      BY DEF Idle, OtherPcs
    <3> HIDE DEF row
    <3> QED BY <2>5, <2>1, <2>2, <3>1, <3>2, OtherRequestStep DEF ReviewRead, tables
  <2>6. ASSUME NEW p \in Proc, ReviewReject(p)
        PROVE  LedgerInv'
    BY <2>6, <2>1, <2>2, ReturnStep DEF ReviewReject
  <2>7. ASSUME NEW p \in Proc, ReviewApprove(p)
        PROVE  LedgerInv'
    <3>1. req'[p].pc \in OtherPcs /\ req'[p].ids \subseteq req'[p].ded /\ OthersKept(p)
      <4>1. req[p].ids \subseteq req[p].ded
        BY <2>7 DEF ReviewApprove, At, LedgerInv, RequestInv
      <4> QED BY <2>7, <2>1, <4>1, GotoControl DEF ReviewApprove, OtherPcs
    <3> QED BY <2>7, <2>1, <2>2, <3>1, OtherRequestStep DEF ReviewApprove
  <2>8. ASSUME NEW p \in Proc, ReviewDelete(p)
        PROVE  LedgerInv'
    <3>1. line' = line /\ active' = active /\ NothingCollected(inst, inst')
      BY <2>8, <2>1, StatementsCollectNothing DEF ReviewDelete
    <3>2. PICK a \in Advance : req' = [ForgetInstallments(a) EXCEPT ![p] =
                                 [@ EXCEPT !.pc = "insert", !.next = 1]]
      BY <2>8, <2>1 DEF ReviewDelete, ReqType
    <3>3. \A q \in Proc : LET f == ForgetInstallments(a)[q] IN
            /\ f.pc = req[q].pc /\ f.run = req[q].run /\ f.scope = req[q].scope
            /\ f.emps = req[q].emps /\ f.ded = req[q].ded /\ f.ids \subseteq req[q].ids
      <4> TAKE q \in Proc
      <4> DEFINE f == [req[q] EXCEPT !.ids = {i \in req[q].ids : i[1] # a}]
      <4>1. ForgetInstallments(a)[q] = f
        BY DEF ForgetInstallments
      <4>2. /\ f.pc = req[q].pc /\ f.run = req[q].run /\ f.scope = req[q].scope
            /\ f.emps = req[q].emps /\ f.ded = req[q].ded /\ f.ids \subseteq req[q].ids
        BY <2>1 DEF ReqType
      <4> QED BY <4>1, <4>2
    <3>4. ForgetInstallments(a)[p] \in ReqType
      <4>1. [req[p] EXCEPT !.ids = {i \in req[p].ids : i[1] # a}] \in ReqType
        <5>1. {i \in req[p].ids : i[1] # a} \in SUBSET Inst
          BY <2>1 DEF ReqType
        <5> QED BY <2>1, <5>1, ReqFieldType
      <4> QED BY <4>1 DEF ForgetInstallments
    <3>5. req'[p] = [ForgetInstallments(a)[p] EXCEPT !.pc = "insert", !.next = 1]
          /\ OthersKept(p)
      BY <3>2, <3>3 DEF ForgetInstallments, OthersKept
    <3>6. req[p].ids \subseteq req[p].ded
      BY <2>8 DEF ReviewDelete, At, LedgerInv, RequestInv
    <3>7. req'[p].pc \in OtherPcs /\ req'[p].ids \subseteq req'[p].ded
      <4>1. \A f \in ReqType : LET g == [f EXCEPT !.pc = "insert", !.next = 1] IN
              g.pc = "insert" /\ g.ids = f.ids /\ g.ded = f.ded
        BY DEF ReqType
      <4> QED BY <3>3, <3>4, <3>5, <3>6, <4>1 DEF OtherPcs
    <3> QED BY <3>1, <3>5, <3>7, OtherRequestStep
  <2>9. ASSUME NEW p \in Proc, NEW a \in Advance, CancelRead(p, a)
        PROVE  LedgerInv'
    <3> DEFINE row == [Idle EXCEPT !.pc = "cancelWrite", !.adv = {a}]
    <3>1. req'[p] = row /\ OthersKept(p)
      BY <2>9, <2>1, UpdateControl DEF CancelRead, Begin
    <3>2. row.pc \in OtherPcs /\ row.ids = {}
      BY DEF Idle, OtherPcs
    <3> HIDE DEF row
    <3> QED BY <2>9, <2>1, <2>2, <3>1, <3>2, OtherRequestStep DEF CancelRead, tables
  <2>10. ASSUME NEW p \in Proc, CancelWrite(p)
        PROVE  LedgerInv'
    <3>1. req'[p].pc \in OtherPcs /\ req'[p].ids \subseteq req'[p].ded /\ OthersKept(p)
      <4>1. req[p].ids \subseteq req[p].ded
        BY <2>10 DEF CancelWrite, At, LedgerInv, RequestInv
      <4> QED BY <2>10, <2>1, <4>1, GotoControl DEF CancelWrite, OtherPcs
    <3> QED BY <2>10, <2>1, <2>2, <3>1, OtherRequestStep DEF CancelWrite
  <2>11. ASSUME NEW p \in Proc, CancelInstallments(p)
        PROVE  LedgerInv'
    BY <2>11, <2>1, <2>2, ReturnStep, StatementsCollectNothing DEF CancelInstallments
  <2>12. ASSUME NEW p \in Proc, NEW pd \in Period, CreateRunCount(p, pd)
        PROVE  LedgerInv'
    <3> DEFINE row == [Idle EXCEPT !.pc = "createRun", !.run = <<pd, RunsOf(pd) + 1>>]
    <3>1. req'[p] = row /\ OthersKept(p)
      BY <2>12, <2>1, UpdateControl DEF CreateRunCount, Begin
    <3>2. row.pc \in OtherPcs /\ row.ids = {}
      BY DEF Idle, OtherPcs
    <3> HIDE DEF row
    <3> QED BY <2>12, <2>1, <2>2, <3>1, <3>2, OtherRequestStep DEF CreateRunCount, tables
  <2>13. ASSUME NEW p \in Proc, CreateRunInsert(p)
        PROVE  LedgerInv'
    BY <2>13, <2>1, <2>2, ReturnStep DEF CreateRunInsert
  <2>14. ASSUME NEW p \in Proc, NEW r \in Run, NEW scope \in Scopes, CalcStart(p, r, scope)
        PROVE  LedgerInv'
    BY <2>14, CalcStartStep
  <2>15. ASSUME NEW p \in Proc, ReopenRead(p)
        PROVE  LedgerInv'
    <3> DEFINE row == [req[p] EXCEPT !.pc = "reopenInst",
                       !.affected = AffectedBy(adv, inst, req[p].run, req[p].emps)]
    <3>1. req'[p] = row /\ OthersKept(p)
      BY <2>15, <2>1, UpdateControl DEF ReopenRead
    <3>2. req[p].pc \notin {"markInst", "markStatus"} => req[p].ids \subseteq req[p].ded
      BY <2>15 DEF LedgerInv, RequestInv
    <3>3. /\ req[p].pc \in CalcPcs /\ row.pc \in CalcPcs \ {"markInst", "markStatus"}
          /\ row.pc \in AfterReopen => req[p].pc \in AfterReopen
          /\ SameRequest(row, req[p]) /\ row.ids \subseteq row.ded
      BY <2>15, <2>1, <3>2 DEF ReopenRead, At, CalcPcs, AfterReopen, SameRequest, ReqType
    <3> HIDE DEF row
    <3> QED BY <2>15, <2>1, <2>2, <3>1, <3>3, CalcAdvances DEF ReopenRead, tables
  <2>16. ASSUME NEW p \in Proc, ReopenInst(p)
        PROVE  LedgerInv'
    <3>1. /\ req[p].pc \in CalcPcs /\ req'[p].pc \in CalcPcs \ {"markInst", "markStatus"}
          /\ SameRequest(req'[p], req[p]) /\ OthersKept(p) /\ req'[p].ids \subseteq req'[p].ded
      <4>1. req[p].pc \notin {"markInst", "markStatus"} => req[p].ids \subseteq req[p].ded
        BY <2>16 DEF LedgerInv, RequestInv
      <4> QED BY <2>16, <2>1, <4>1, GotoControl DEF ReopenInst, At, CalcPcs
    <3>2. inst' = ReopenInstallments(inst, req[p].run) /\ line' = line /\ active' = active
      BY <2>16 DEF ReopenInst
    <3>3. CollectedBy(req[p].run)' = {}
      BY <2>1, <3>1, <3>2, ReopeningCollectsNothing DEF CollectedBy, SameRequest
    <3>4. NothingCollected(inst, inst')
      BY <2>1, <3>2, StatementsCollectNothing
    <3> QED BY <3>1, <3>2, <3>3, <3>4, CalcAdvances
  <2>17. ASSUME NEW p \in Proc, ReopenCredit(p)
        PROVE  LedgerInv'
    <3>1. /\ req[p].pc \in CalcPcs /\ req'[p].pc \in CalcPcs \ {"markInst", "markStatus"}
          /\ req'[p].pc \in AfterReopen => req[p].pc \in AfterReopen
          /\ SameRequest(req'[p], req[p]) /\ OthersKept(p) /\ req'[p].ids \subseteq req'[p].ded
      <4>1. req[p].pc \notin {"markInst", "markStatus"} => req[p].ids \subseteq req[p].ded
        BY <2>17 DEF LedgerInv, RequestInv
      <4> QED BY <2>17, <2>1, <4>1, GotoControl DEF ReopenCredit, At, CalcPcs, AfterReopen
    <3> QED BY <2>17, <2>1, <2>2, <3>1, CalcAdvances DEF ReopenCredit
  <2>18. ASSUME NEW p \in Proc, ReopenDeduct(p)
        PROVE  LedgerInv'
    <3>1. /\ req[p].pc \in CalcPcs /\ req'[p].pc \in CalcPcs \ {"markInst", "markStatus"}
          /\ req'[p].pc \in AfterReopen => req[p].pc \in AfterReopen
          /\ SameRequest(req'[p], req[p]) /\ OthersKept(p) /\ req'[p].ids \subseteq req'[p].ded
      <4>1. req[p].pc \notin {"markInst", "markStatus"} => req[p].ids \subseteq req[p].ded
        BY <2>18 DEF LedgerInv, RequestInv
      <4> QED BY <2>18, <2>1, <4>1, GotoControl DEF ReopenDeduct, At, CalcPcs, AfterReopen
    <3> QED BY <2>18, <2>1, <2>2, <3>1, CalcAdvances DEF ReopenDeduct
  <2>19. ASSUME NEW p \in Proc, ReopenStatus(p)
        PROVE  LedgerInv'
    <3> DEFINE row == [req[p] EXCEPT !.pc = "unbind", !.affected = {}]
    <3>1. req'[p] = row /\ OthersKept(p)
      BY <2>19, <2>1, UpdateControl DEF ReopenStatus
    <3>2. req[p].pc \notin {"markInst", "markStatus"} => req[p].ids \subseteq req[p].ded
      BY <2>19 DEF LedgerInv, RequestInv
    <3>3. /\ req[p].pc \in CalcPcs /\ row.pc \in CalcPcs \ {"markInst", "markStatus"}
          /\ row.pc \in AfterReopen => req[p].pc \in AfterReopen
          /\ SameRequest(row, req[p]) /\ row.ids \subseteq row.ded
      BY <2>19, <2>1, <3>2 DEF ReopenStatus, At, CalcPcs, AfterReopen, SameRequest, ReqType
    <3> HIDE DEF row
    <3> QED BY <2>19, <2>1, <2>2, <3>1, <3>3, CalcAdvances DEF ReopenStatus, tables
  <2>20. ASSUME NEW p \in Proc, Unbind(p)
        PROVE  LedgerInv'
    <3>1. /\ req[p].pc \in CalcPcs /\ req'[p].pc \in CalcPcs \ {"markInst", "markStatus"}
          /\ req'[p].pc \in AfterReopen => req[p].pc \in AfterReopen
          /\ SameRequest(req'[p], req[p]) /\ OthersKept(p) /\ req'[p].ids \subseteq req'[p].ded
      <4>1. req[p].pc \notin {"markInst", "markStatus"} => req[p].ids \subseteq req[p].ded
        BY <2>20 DEF LedgerInv, RequestInv
      <4> QED BY <2>20, <2>1, <4>1, GotoControl DEF Unbind, At, CalcPcs, AfterReopen
    <3> QED BY <2>20, <2>1, <2>2, <3>1, CalcAdvances, StatementsCollectNothing DEF Unbind
  <2>21. ASSUME NEW p \in Proc, Bind(p)
        PROVE  LedgerInv'
    <3>1. /\ req[p].pc \in CalcPcs /\ req'[p].pc \in CalcPcs \ {"markInst", "markStatus"}
          /\ req'[p].pc \in AfterReopen => req[p].pc \in AfterReopen
          /\ SameRequest(req'[p], req[p]) /\ OthersKept(p) /\ req'[p].ids \subseteq req'[p].ded
      <4>1. req[p].pc \notin {"markInst", "markStatus"} => req[p].ids \subseteq req[p].ded
        BY <2>21 DEF LedgerInv, RequestInv
      <4> QED BY <2>21, <2>1, <4>1, GotoControl DEF Bind, At, CalcPcs, AfterReopen
    <3> QED BY <2>21, <2>1, <2>2, <3>1, CalcAdvances, StatementsCollectNothing DEF Bind
  <2>22. ASSUME NEW p \in Proc, ReadDeductions(p)
        PROVE  LedgerInv'
    <3> DEFINE row == LET ded == DeductionsOf(adv, inst, PeriodOf(req[p].run), req[p].emps)
                       IN [req[p] EXCEPT !.pc = "readCred", !.ded = ded, !.ids = ded]
    <3>1. req'[p] = row /\ OthersKept(p)
      BY <2>22, <2>1, UpdateControl DEF ReadDeductions
    <3>2. req[p].pc \notin {"markInst", "markStatus"} => req[p].ids \subseteq req[p].ded
      BY <2>22 DEF LedgerInv, RequestInv
    <3>3. /\ req[p].pc \in CalcPcs /\ row.pc \in CalcPcs \ {"markInst", "markStatus"}
          /\ row.pc \in AfterReopen => req[p].pc \in AfterReopen
          /\ SameRequest(row, req[p]) /\ row.ids \subseteq row.ded
      BY <2>22, <2>1, <3>2 DEF ReadDeductions, At, CalcPcs, AfterReopen, SameRequest, ReqType
    <3> HIDE DEF row
    <3> QED BY <2>22, <2>1, <2>2, <3>1, <3>3, CalcAdvances DEF ReadDeductions, tables
  <2>23. ASSUME NEW p \in Proc, ReadCredits(p)
        PROVE  LedgerInv'
    <3> DEFINE row == LET cred == CreditsOf(adv, PeriodOf(req[p].run), req[p].emps)
                       IN [req[p] EXCEPT !.pc = IF ConflictsOf(req[p].ded, cred) = {}
                                                THEN "commit" ELSE "drop",
                                         !.cred = cred]
    <3>1. req'[p] = row /\ OthersKept(p)
      BY <2>23, <2>1, UpdateControl DEF ReadCredits
    <3>2. req[p].pc \notin {"markInst", "markStatus"} => req[p].ids \subseteq req[p].ded
      BY <2>23 DEF LedgerInv, RequestInv
    <3>3. /\ req[p].pc \in CalcPcs /\ row.pc \in CalcPcs \ {"markInst", "markStatus"}
          /\ row.pc \in AfterReopen => req[p].pc \in AfterReopen
          /\ SameRequest(row, req[p]) /\ row.ids \subseteq row.ded
      BY <2>23, <2>1, <3>2 DEF ReadCredits, At, CalcPcs, AfterReopen, SameRequest, ReqType
    <3> HIDE DEF row
    <3> QED BY <2>23, <2>1, <2>2, <3>1, <3>3, CalcAdvances DEF ReadCredits, tables
  <2>24. ASSUME NEW p \in Proc, DropConflicts(p)
        PROVE  LedgerInv'
    <3> DEFINE row == LET both == ConflictsOf(req[p].ded, req[p].cred)
                       IN [req[p] EXCEPT !.pc = "commit", !.ded = req[p].ded \ both,
                                         !.ids = req[p].ids \ both]
    <3>1. req'[p] = row /\ OthersKept(p)
      BY <2>24, <2>1, UpdateControl DEF DropConflicts
    <3>2. req[p].pc \notin {"markInst", "markStatus"} => req[p].ids \subseteq req[p].ded
      BY <2>24 DEF LedgerInv, RequestInv
    <3>3. /\ req[p].pc \in CalcPcs /\ row.pc \in CalcPcs \ {"markInst", "markStatus"}
          /\ row.pc \in AfterReopen => req[p].pc \in AfterReopen
          /\ SameRequest(row, req[p]) /\ row.ids \subseteq row.ded
      BY <2>24, <2>1, <3>2 DEF DropConflicts, At, CalcPcs, AfterReopen, SameRequest, ReqType
    <3> HIDE DEF row
    <3> QED BY <2>24, <2>1, <2>2, <3>1, <3>3, CalcAdvances, StatementsCollectNothing DEF DropConflicts, tables
  <2>25. ASSUME NEW p \in Proc, ReadLegacy(p)
        PROVE  LedgerInv'
    <3> DEFINE row == [req[p] EXCEPT !.legRead = TRUE,
                       !.leg = LegacyOf(adv, inst, req[p].emps)]
    <3>1. req'[p] = row /\ OthersKept(p)
      BY <2>25, <2>1, UpdateControl DEF ReadLegacy
    <3>2. req[p].pc \notin {"markInst", "markStatus"} => req[p].ids \subseteq req[p].ded
      BY <2>25 DEF LedgerInv, RequestInv
    <3>3. /\ req[p].pc \in CalcPcs /\ row.pc \in CalcPcs \ {"markInst", "markStatus"}
          /\ row.pc \in AfterReopen => req[p].pc \in AfterReopen
          /\ SameRequest(row, req[p]) /\ row.ids \subseteq row.ded
      BY <2>25, <2>1, <3>2 DEF ReadLegacy, At, CalcPcs, AfterReopen, SameRequest, ReqType
    <3> HIDE DEF row
    <3> QED BY <2>25, <2>1, <2>2, <3>1, <3>3, CalcAdvances DEF ReadLegacy, tables
  <2>26. ASSUME NEW p \in Proc, Commit(p)
        PROVE  LedgerInv'
    BY <2>26, CommitStep
  <2>27. ASSUME NEW p \in Proc, MarkInst(p)
        PROVE  LedgerInv'
    BY <2>27, MarkInstStep
  <2>28. ASSUME NEW p \in Proc, MarkStatus(p)
        PROVE  LedgerInv'
    <3> DEFINE row == [req[p] EXCEPT !.pc = "markCred", !.ids = {}]
    <3>1. req'[p] = row /\ OthersKept(p)
      BY <2>28, <2>1, UpdateControl DEF MarkStatus
    <3>2. req[p].pc \notin {"markInst", "markStatus"} => req[p].ids \subseteq req[p].ded
      BY <2>28 DEF LedgerInv, RequestInv
    <3>3. /\ req[p].pc \in CalcPcs /\ row.pc \in CalcPcs \ {"markInst", "markStatus"}
          /\ row.pc \in AfterReopen => req[p].pc \in AfterReopen
          /\ SameRequest(row, req[p]) /\ row.ids \subseteq row.ded
      BY <2>28, <2>1, <3>2 DEF MarkStatus, At, CalcPcs, AfterReopen, SameRequest, ReqType
    <3> HIDE DEF row
    <3> QED BY <2>28, <2>1, <2>2, <3>1, <3>3, CalcAdvances DEF MarkStatus, tables
  <2>29. ASSUME NEW p \in Proc, MarkCred(p)
        PROVE  LedgerInv'
    <3> DEFINE row == [req[p] EXCEPT !.pc = "markLegacy", !.cred = {}]
    <3>1. req'[p] = row /\ OthersKept(p)
      BY <2>29, <2>1, UpdateControl DEF MarkCred
    <3>2. req[p].pc \notin {"markInst", "markStatus"} => req[p].ids \subseteq req[p].ded
      BY <2>29 DEF LedgerInv, RequestInv
    <3>3. /\ req[p].pc \in CalcPcs /\ row.pc \in CalcPcs \ {"markInst", "markStatus"}
          /\ row.pc \in AfterReopen => req[p].pc \in AfterReopen
          /\ SameRequest(row, req[p]) /\ row.ids \subseteq row.ded
      BY <2>29, <2>1, <3>2 DEF MarkCred, At, CalcPcs, AfterReopen, SameRequest, ReqType
    <3> HIDE DEF row
    <3> QED BY <2>29, <2>1, <2>2, <3>1, <3>3, CalcAdvances DEF MarkCred, tables
  <2>30. ASSUME NEW p \in Proc, MarkLeg(p)
        PROVE  LedgerInv'
    <3>1. /\ req[p].pc \in CalcPcs /\ req'[p].pc \in CalcPcs \ {"markInst", "markStatus"}
          /\ req'[p].pc \in AfterReopen => req[p].pc \in AfterReopen
          /\ SameRequest(req'[p], req[p]) /\ OthersKept(p) /\ req'[p].ids \subseteq req'[p].ded
      <4>1. req[p].pc \notin {"markInst", "markStatus"} => req[p].ids \subseteq req[p].ded
        BY <2>30 DEF LedgerInv, RequestInv
      <4> QED BY <2>30, <2>1, <4>1, GotoControl DEF MarkLeg, At, CalcPcs, AfterReopen
    <3> QED BY <2>30, <2>1, <2>2, <3>1, CalcAdvances DEF MarkLeg
  <2>31. ASSUME NEW p \in Proc, FinishCalc(p)
        PROVE  LedgerInv'
    BY <2>31, <2>1, <2>2, ReturnStep DEF FinishCalc
  <2>32. ASSUME NEW p \in Proc, NEW r \in Run, NEW scope \in Scopes, IssueRead(p, r, scope)
        PROVE  LedgerInv'
    <3> DEFINE row == [Idle EXCEPT !.pc = "issueWrite", !.run = r,
                       !.rows = LinesSeen(r, scope)]
    <3>1. req'[p] = row /\ OthersKept(p)
      BY <2>32, <2>1, UpdateControl DEF IssueRead, Begin
    <3>2. row.pc \in OtherPcs /\ row.ids = {}
      BY DEF Idle, OtherPcs
    <3> HIDE DEF row
    <3> QED BY <2>32, <2>1, <2>2, <3>1, <3>2, OtherRequestStep DEF IssueRead, tables
  <2>33. ASSUME NEW p \in Proc, IssueWrite(p)
        PROVE  LedgerInv'
    BY <2>33, <2>1, <2>2, ReturnStep DEF IssueWrite
  <2>34. ASSUME NEW p \in Proc, Fail(p)
        PROVE  LedgerInv'
    BY <2>34, <2>1, <2>2, ReturnStep DEF Fail, tables
  <2>35. ASSUME NEW r \in Run, NEW status \in RunStatus \ {"DRAFT"}, RunAction(r, status)
        PROVE  LedgerInv'
    BY <2>35 DEF RunAction, LedgerInv, LedgerBacked, OneCalculation, Calculating, RequestInv,
                CollectedBy
  <2>36. CASE UNCHANGED vars
    BY <2>36 DEF vars, LedgerInv, LedgerBacked, OneCalculation, Calculating, RequestInv,
                CollectedBy
  <2> QED
    BY <2>3, <2>4, <2>5, <2>6, <2>7, <2>8, <2>9, <2>10, <2>11, <2>12, <2>13, <2>14, <2>15, <2>16, <2>17, <2>18,
       <2>19, <2>20, <2>21, <2>22, <2>23, <2>24, <2>25, <2>26, <2>27, <2>28, <2>29, <2>30, <2>31, <2>32, <2>33, <2>34, <2>35, <2>36
    DEF Next, AdvanceStep, CalcStep, RunStep
<1>3. LedgerInv => LedgerBacked
  BY DEF LedgerInv
<1> QED BY <1>1, <1>2, <1>3, TypeCorrect, PTL DEF Spec
-----------------------------------------------------------------------------
(* Slips and lines.  What a request that is loading or issuing has in hand: *)
(* the conflicts are gone from what the transaction will write, and the     *)
(* lines an issue has read are still the lines of the run.                  *)

InHand(q, lines) ==
    /\ q.pc \in CalcPcs => q.run \in Run /\ q.emps \subseteq InScope(q.scope)
    /\ q.pc = "commit" => \A i \in q.ded : i[1] \notin q.cred
    /\ q.pc = "issueWrite" =>
         /\ q.run \in Run
         /\ q.gone \/ \A e \in Employee : q.rows[e].on => q.rows[e] = lines[q.run][e]

SlipInv ==
    /\ TypeOK
    /\ SlipIsItsLine
    /\ LineNeverPaysAndDeducts
    /\ \A p \in Proc : InHand(req[p], line)

\* A request that has just begun, or that goes on without loading or issuing.
LEMMA InHandElsewhere ==
    ASSUME NEW q, NEW lines, q.pc \notin CalcPcs \cup {"issueWrite"}
    PROVE  InHand(q, lines)
BY DEF InHand, CalcPcs

\* A calculation that goes on to a statement before its transaction.
LEMMA InHandOn ==
    ASSUME NEW q, NEW q2, NEW lines, InHand(q, lines), q.pc \in CalcPcs,
           q2.pc \in CalcPcs \ {"commit"}, q2.run = q.run,
           q2.emps = q.emps, q2.scope = q.scope
    PROVE  InHand(q2, lines)
<1>1. q2.pc # "issueWrite"
  BY DEF CalcPcs
<1> QED BY <1>1 DEF InHand

\* What a step leaves alone of a request that is not its own.
SameInHand(q2, q) ==
    /\ q2.pc = q.pc /\ q2.run = q.run /\ q2.scope = q.scope /\ q2.emps = q.emps
    /\ q2.ded = q.ded /\ q2.cred = q.cred /\ q2.rows = q.rows
    /\ q2.gone = q.gone

\* A step that rewrites neither lines nor slips.
LEMMA SlipFrame ==
    ASSUME SlipInv, TypeOK', NEW p \in Proc, UNCHANGED <<line, slip>>,
           \A q \in Proc \ {p} : SameInHand(req'[q], req[q]),
           InHand(req'[p], line)
    PROVE  SlipInv'
<1>1. \A q \in Proc \ {p} : InHand(req'[q], line)
  BY DEF SlipInv, InHand, SameInHand
<1> QED BY <1>1 DEF SlipInv, SlipIsItsLine, LineNeverPaysAndDeducts

\* The same when the step only replaces the request's own locals.
LEMMA SlipUpdate ==
    ASSUME SlipInv, TypeOK', NEW p \in Proc, UNCHANGED <<line, slip>>,
           NEW row, Update(p, row), InHand(row, line)
    PROVE  SlipInv'
<1>1. req'[p] = row /\ \A q \in Proc \ {p} : req'[q] = req[q]
  BY DEF Update, SlipInv, TypeOK
<1> QED BY <1>1, SlipFrame DEF SameInHand

LEMMA SlipReturn ==
    ASSUME SlipInv, TypeOK', NEW p \in Proc, UNCHANGED <<line, slip>>, Return(p)
    PROVE  SlipInv'
<1>1. InHand(Idle, line)
  BY InHandElsewhere DEF Idle, CalcPcs
<1> QED BY <1>1, SlipUpdate DEF Return

LEMMA SlipGoto ==
    ASSUME SlipInv, TypeOK', NEW p \in Proc, UNCHANGED <<line, slip>>,
           NEW pc \in CalcPcs \ {"commit"}, Goto(p, pc), req[p].pc \in CalcPcs
    PROVE  SlipInv'
<1> DEFINE row == [req[p] EXCEPT !.pc = pc]
<1>1. req[p] \in ReqType /\ InHand(req[p], line)
  BY DEF SlipInv, TypeOK
<1>2. row.pc = pc /\ row.run = req[p].run /\ row.emps = req[p].emps /\ row.scope = req[p].scope
  BY <1>1 DEF ReqType
<1>3. Update(p, row)
  BY DEF Goto
<1> HIDE DEF row
<1>4. InHand(row, line)
  BY <1>1, <1>2, InHandOn
<1> QED BY <1>3, <1>4, SlipUpdate

\* The transaction: the lines of the filter are replaced and their slips deleted
\* together, and an issue that has read one of them is doomed.
LEMMA SlipCommit ==
    ASSUME SlipInv, TypeOK', NEW p \in Proc, Commit(p)
    PROVE  SlipInv'
<1> DEFINE r == req[p].run
           paid == req[p].emps \cap Compensated
           wiped == InScope(req[p].scope)
<1>1. TypeOK /\ req[p] \in ReqType /\ InHand(req[p], line)
  BY DEF SlipInv, TypeOK
<1>2. /\ r \in Run /\ paid \subseteq wiped /\ wiped \subseteq Employee
      /\ \A i \in req[p].ded : i[1] \notin req[p].cred
  BY <1>1 DEF Commit, At, InHand, CalcPcs, InScope
<1>3. /\ \A r2 \in Run \ {r} : line'[r2] = line[r2] /\ slip'[r2] = slip[r2]
      /\ \A e \in Employee \ wiped : line'[r][e] = line[r][e] /\ slip'[r][e] = slip[r][e]
      /\ \A e \in wiped : slip'[r][e] = NoLine
      /\ \A e \in Employee : line'[r][e] \in {NewLine(p, e), NoLine, line[r][e]}
  BY <1>1, <1>2 DEF Commit, TypeOK
<1>4. SlipIsItsLine'
  <2> SUFFICES ASSUME NEW r2 \in Run, NEW e \in Employee, slip'[r2][e].on
               PROVE  slip'[r2][e] = line'[r2][e]
    BY DEF SlipIsItsLine
  <2>1. CASE r2 # r
    BY <1>3, <2>1 DEF SlipInv, SlipIsItsLine
  <2>2. CASE r2 = r
    <3>1. ~ NoLine.on
      BY DEF NoLine
    <3>2. e \notin wiped
      BY <1>3, <2>2, <3>1
    <3> QED BY <1>3, <2>2, <3>2 DEF SlipInv, SlipIsItsLine
  <2> QED BY <2>1, <2>2
<1>5. LineNeverPaysAndDeducts'
  <2>1. \A e \in Employee : \A i \in NewLine(p, e).ded : i[1] \notin NewLine(p, e).cred
    BY <1>2 DEF NewLine
  <2>2. NoLine.ded = {}
    BY DEF NoLine
  <2> SUFFICES ASSUME NEW r2 \in Run, NEW e \in Employee
               PROVE  \A i \in line'[r2][e].ded : i[1] \notin line'[r2][e].cred
    BY DEF LineNeverPaysAndDeducts
  <2>3. \A i \in line[r2][e].ded : i[1] \notin line[r2][e].cred
    BY DEF SlipInv, LineNeverPaysAndDeducts
  <2>4. line'[r2][e] \in {NewLine(p, e), NoLine, line[r2][e]}
    BY <1>3
  <2> QED BY <2>1, <2>2, <2>3, <2>4
<1>6. InHand(req'[p], line')
  <2> DEFINE row == [Idle EXCEPT !.pc = "markInst", !.run = r,
                        !.ids = {i \in req[p].ids : OwnerOf(i) \in paid},
                        !.cred = {a \in req[p].cred : AdvEmp[a] \in paid},
                        !.leg = {a \in req[p].leg : AdvEmp[a] \in paid}]
  <2>1. req'[p] = row
    BY <1>1 DEF Commit, ForgetLines
  <2>2. row.pc = "markInst" /\ row.run = r /\ row.emps = {}
    BY DEF Idle
  <2> HIDE DEF row
  <2> QED BY <1>2, <2>1, <2>2 DEF InHand
<1>7. ASSUME NEW q \in Proc \ {p}
      PROVE  InHand(req'[q], line')
  <2> DEFINE hit == /\ req[q].pc = "issueWrite" /\ req[q].run = r
                    /\ \E e \in wiped : req[q].rows[e].on
             doomed == [req[q] EXCEPT !.gone = TRUE]
  <2>1. req[q] \in ReqType /\ InHand(req[q], line)
    BY DEF SlipInv, TypeOK
  <2>2. req'[q] = IF hit THEN doomed ELSE req[q]
    BY DEF Commit, ForgetLines, At
  <2>3. CASE hit
    <3>1. doomed.pc = "issueWrite" /\ doomed.gone = TRUE /\ doomed.run = req[q].run
      BY <2>1, <2>3 DEF ReqType
    <3> HIDE DEF doomed
    <3> QED BY <1>2, <2>2, <2>3, <3>1 DEF InHand, CalcPcs
  <2>4. CASE ~ hit
    <3>1. req'[q] = req[q]
      BY <2>2, <2>4
    <3>2. ASSUME req[q].pc = "issueWrite", ~ req[q].gone, NEW e \in Employee, req[q].rows[e].on
          PROVE  req[q].rows[e] = line'[req[q].run][e]
      <4>1. req[q].run \in Run /\ req[q].rows[e] = line[req[q].run][e]
        BY <2>1, <3>2 DEF InHand
      <4>2. req[q].run = r => e \notin wiped
        BY <2>4, <3>2
      <4> QED BY <1>3, <4>1, <4>2
    <3> QED BY <2>1, <3>1, <3>2 DEF InHand
  <2> QED BY <2>3, <2>4
<1> QED BY <1>4, <1>5, <1>6, <1>7 DEF SlipInv

\* An issue writes the lines it has read, if none of them has been replaced.
LEMMA SlipIssue ==
    ASSUME SlipInv, TypeOK', NEW p \in Proc, IssueWrite(p)
    PROVE  SlipInv'
<1>1. TypeOK /\ InHand(req[p], line) /\ req[p].pc = "issueWrite"
  BY DEF SlipInv, IssueWrite, At
<1>2. req'[p] = Idle /\ \A q \in Proc \ {p} : req'[q] = req[q]
  BY <1>1 DEF IssueWrite, Return, Update, TypeOK
<1>3. line' = line
  BY DEF IssueWrite
<1>4. \A q \in Proc : InHand(req'[q], line')
  <2>1. InHand(Idle, line)
    BY InHandElsewhere DEF Idle, CalcPcs
  <2> QED BY <1>2, <1>3, <2>1 DEF SlipInv
<1>5. SlipIsItsLine'
  <2>1. CASE req[p].gone
    BY <1>3, <2>1 DEF IssueWrite, SlipInv, SlipIsItsLine
  <2>2. CASE ~ req[p].gone
    <3> SUFFICES ASSUME NEW r \in Run, NEW e \in Employee, slip'[r][e].on
                 PROVE  slip'[r][e] = line[r][e]
      BY <1>3 DEF SlipIsItsLine
    <3>1. slip'[r][e] = IF r = req[p].run /\ req[p].rows[e].on /\ ~ slip[r][e].on
                        THEN req[p].rows[e] ELSE slip[r][e]
      BY <1>1, <2>2 DEF IssueWrite, TypeOK
    <3>2. req[p].rows[e].on => req[p].rows[e] = line[req[p].run][e]
      BY <1>1, <2>2 DEF InHand
    <3> QED BY <3>1, <3>2 DEF SlipInv, SlipIsItsLine
  <2> QED BY <2>1, <2>2
<1> QED BY <1>3, <1>4, <1>5 DEF SlipInv, LineNeverPaysAndDeducts

LEMMA SlipInit == Init => SlipInv
<1> SUFFICES ASSUME Init PROVE SlipInv
  OBVIOUS
<1>1. TypeOK
  BY InitTypeOK
<1>2. \A r \in Run, e \in Employee : ~ slip[r][e].on /\ line[r][e].ded = {}
  BY DEF Init, NoLines, NoLine
<1>3. \A p \in Proc : InHand(req[p], line)
  <2>1. InHand(Idle, line)
    BY InHandElsewhere DEF Idle, CalcPcs
  <2> QED BY <2>1 DEF Init
<1> QED BY <1>1, <1>2, <1>3 DEF SlipInv, SlipIsItsLine, LineNeverPaysAndDeducts

LEMMA SlipAdvanceStep ==
    ASSUME SlipInv, TypeOK', NEW p \in Proc, AdvanceStep(p)
    PROVE  SlipInv'
<1>1. TypeOK /\ UNCHANGED <<line, slip>> /\ \A q \in Proc : req[q] \in ReqType
  BY DEF SlipInv, TypeOK, AdvanceStep, SubmitAdvance, InsertNext, ReviewRead, ReviewReject,
         ReviewApprove, ReviewDelete, CancelRead, CancelWrite, CancelInstallments, tables
<1>2. ASSUME NEW row, Update(p, row), row.pc \notin CalcPcs \cup {"issueWrite"}
      PROVE  SlipInv'
  BY <1>1, <1>2, InHandElsewhere, SlipUpdate
<1>3. ASSUME NEW pc \in {"reviewDelete", "cancelInst"}, Goto(p, pc)
      PROVE  SlipInv'
  <2>1. [req[p] EXCEPT !.pc = pc].pc = pc
    BY <1>1 DEF ReqType
  <2> QED BY <1>2, <1>3, <2>1 DEF Goto, CalcPcs
<1>4. ASSUME NEW a \in Advance, NEW t \in Terms, SubmitAdvance(p, a, t)
      PROVE  SlipInv'
  <2>1. CASE UNCHANGED req
    BY <1>1, <2>1, SlipFrame DEF SlipInv, SameInHand
  <2>2. CASE ~ UNCHANGED req
    <3> DEFINE row == [Idle EXCEPT !.pc = "insert", !.adv = {a}, !.terms = {t}, !.next = 1]
    <3>1. Update(p, row)
      BY <1>4, <2>2 DEF SubmitAdvance, Begin
    <3>2. row.pc = "insert"
      BY DEF Idle
    <3> HIDE DEF row
    <3> QED BY <1>2, <3>1, <3>2 DEF CalcPcs
  <2> QED BY <2>1, <2>2
<1>5. ASSUME InsertNext(p)
      PROVE  SlipInv'
  <2>1. CASE Return(p)
    BY <1>1, <2>1, SlipReturn
  <2>2. CASE \E s : Update(p, [req[p] EXCEPT !.next = s])
    <3>1. PICK s : Update(p, [req[p] EXCEPT !.next = s])
      BY <2>2
    <3>2. [req[p] EXCEPT !.next = s].pc = "insert"
      BY <1>1, <1>5 DEF ReqType, InsertNext, At
    <3> QED BY <1>2, <3>1, <3>2 DEF CalcPcs
  <2> QED BY <1>5, <2>1, <2>2 DEF InsertNext
<1>6. ASSUME NEW a \in Advance, NEW ts, ReviewRead(p, a, ts)
      PROVE  SlipInv'
  <2>1. [Idle EXCEPT !.pc = "reviewWrite", !.adv = {a}, !.terms = ts].pc = "reviewWrite"
    BY DEF Idle
  <2> QED BY <1>2, <1>6, <2>1 DEF ReviewRead, Begin, CalcPcs
<1>7. ASSUME ReviewDelete(p)
      PROVE  SlipInv'
  <2>1. PICK a : req' = [ForgetInstallments(a) EXCEPT ![p] =
                           [@ EXCEPT !.pc = "insert", !.next = 1]]
    BY <1>7 DEF ReviewDelete
  <2>2. \A q \in Proc : SameInHand(ForgetInstallments(a)[q], req[q])
    <3> TAKE q \in Proc
    <3> DEFINE g == [req[q] EXCEPT !.ids = {i \in req[q].ids : i[1] # a}]
    <3>1. ForgetInstallments(a)[q] = g
      BY DEF ForgetInstallments
    <3>2. SameInHand(g, req[q])
      BY <1>1 DEF ReqType, SameInHand
    <3> HIDE DEF g
    <3> QED BY <3>1, <3>2
  <2>3. \A q \in Proc \ {p} : SameInHand(req'[q], req[q])
    BY <2>1, <2>2 DEF ForgetInstallments
  <2>4. ForgetInstallments(a)[p] \in ReqType
    <3>1. {i \in req[p].ids : i[1] # a} \in SUBSET Inst
      BY <1>1 DEF ReqType
    <3> QED BY <1>1, <3>1, ReqFieldType DEF ForgetInstallments
  <2>5. req'[p] = [ForgetInstallments(a)[p] EXCEPT !.pc = "insert", !.next = 1]
    BY <2>1 DEF ForgetInstallments
  <2>6. req'[p].pc = "insert"
    BY <2>4, <2>5 DEF ReqType
  <2>7. InHand(req'[p], line)
    BY <2>6, InHandElsewhere DEF CalcPcs
  <2> QED BY <1>1, <2>3, <2>7, SlipFrame
<1>8. ASSUME NEW a \in Advance, CancelRead(p, a)
      PROVE  SlipInv'
  <2>1. [Idle EXCEPT !.pc = "cancelWrite", !.adv = {a}].pc = "cancelWrite"
    BY DEF Idle
  <2> QED BY <1>2, <1>8, <2>1 DEF CancelRead, Begin, CalcPcs
<1>9. ReviewReject(p) \/ CancelInstallments(p) => SlipInv'
  BY <1>1, SlipReturn DEF ReviewReject, CancelInstallments
<1>10. ReviewApprove(p) \/ CancelWrite(p) => SlipInv'
  BY <1>3 DEF ReviewApprove, CancelWrite
<1> QED BY <1>4, <1>5, <1>6, <1>7, <1>8, <1>9, <1>10 DEF AdvanceStep

LEMMA SlipCalcStep ==
    ASSUME SlipInv, TypeOK', NEW p \in Proc, CalcStep(p), ~ Commit(p)
    PROVE  SlipInv'
<1>1. TypeOK /\ UNCHANGED <<line, slip>> /\ req[p] \in ReqType /\ InHand(req[p], line)
  BY DEF SlipInv, TypeOK, CalcStep, CalcStart, ReopenRead, ReopenInst, ReopenCredit, ReopenDeduct,
         ReopenStatus, Unbind, Bind, ReadDeductions, ReadCredits, DropConflicts, ReadLegacy,
         MarkInst, MarkStatus, MarkCred, MarkLeg, FinishCalc, tables
<1>2. ASSUME NEW row, Update(p, row), req[p].pc \in CalcPcs, row.pc \in CalcPcs \ {"commit"},
             row.run = req[p].run, row.emps = req[p].emps, row.scope = req[p].scope
      PROVE  SlipInv'
  BY <1>1, <1>2, InHandOn, SlipUpdate
<1>3. ASSUME NEW row, Update(p, row), req[p].pc \in CalcPcs, row.pc = "commit",
             row.run = req[p].run, row.emps = req[p].emps, row.scope = req[p].scope,
             \A i \in row.ded : i[1] \notin row.cred
      PROVE  SlipInv'
  <2>1. InHand(row, line)
    BY <1>1, <1>3 DEF InHand
  <2> QED BY <1>1, <1>3, <2>1, SlipUpdate
<1>4. ASSUME NEW r \in Run, NEW scope \in Scopes, CalcStart(p, r, scope)
      PROVE  SlipInv'
  <2> DEFINE E == InScope(scope) \cap active
             pc == IF E = {} THEN "commit" ELSE "reopenRead"
             row == [Idle EXCEPT !.pc = pc, !.run = r, !.scope = scope, !.emps = E,
                                 !.legRead = (E = {})]
  <2>1. Update(p, row)
    BY <1>4 DEF CalcStart, Begin, FirstPc
  <2>2. row.pc \in CalcPcs /\ row.run = r /\ row.scope = scope /\ row.emps = E /\ row.ded = {}
    BY DEF Idle, CalcPcs
  <2>3. E \subseteq InScope(scope)
    OBVIOUS
  <2> HIDE DEF E, row
  <2>4. InHand(row, line)
    BY <2>2, <2>3 DEF InHand, CalcPcs
  <2> QED BY <1>1, <2>1, <2>4, SlipUpdate
<1>5. ASSUME ReopenRead(p)
      PROVE  SlipInv'
  <2> DEFINE row == [req[p] EXCEPT !.pc = "reopenInst",
                                   !.affected = AffectedBy(adv, inst, req[p].run, req[p].emps)]
  <2>1. Update(p, row) /\ req[p].pc = "reopenRead"
    BY <1>5 DEF ReopenRead, At
  <2>2. row.pc = "reopenInst" /\ row.run = req[p].run /\ row.emps = req[p].emps /\ row.scope = req[p].scope
    BY <1>1 DEF ReqType
  <2> HIDE DEF row
  <2> QED BY <1>2, <2>1, <2>2 DEF CalcPcs
<1>6. ASSUME ReopenStatus(p)
      PROVE  SlipInv'
  <2> DEFINE row == [req[p] EXCEPT !.pc = "unbind", !.affected = {}]
  <2>1. Update(p, row) /\ req[p].pc = "reopenStatus"
    BY <1>6 DEF ReopenStatus, At
  <2>2. row.pc = "unbind" /\ row.run = req[p].run /\ row.emps = req[p].emps /\ row.scope = req[p].scope
    BY <1>1 DEF ReqType
  <2> HIDE DEF row
  <2> QED BY <1>2, <2>1, <2>2 DEF CalcPcs
<1>7. ASSUME ReadDeductions(p)
      PROVE  SlipInv'
  <2> DEFINE ded == DeductionsOf(adv, inst, PeriodOf(req[p].run), req[p].emps)
             row == [req[p] EXCEPT !.pc = "readCred", !.ded = ded, !.ids = ded]
  <2>1. Update(p, row) /\ req[p].pc = "readDed"
    BY <1>7 DEF ReadDeductions, At
  <2>2. row.pc = "readCred" /\ row.run = req[p].run /\ row.emps = req[p].emps /\ row.scope = req[p].scope
    BY <1>1 DEF ReqType
  <2> HIDE DEF row
  <2> QED BY <1>2, <2>1, <2>2 DEF CalcPcs
<1>8. ASSUME ReadCredits(p)
      PROVE  SlipInv'
  <2> DEFINE cred == CreditsOf(adv, PeriodOf(req[p].run), req[p].emps)
             both == ConflictsOf(req[p].ded, cred)
             pc == IF both = {} THEN "commit" ELSE "drop"
             row == [req[p] EXCEPT !.pc = pc, !.cred = cred]
  <2>1. Update(p, row) /\ req[p].pc = "readCred"
    BY <1>8 DEF ReadCredits, At
  <2>2. /\ row.pc = pc /\ row.run = req[p].run /\ row.emps = req[p].emps
        /\ row.scope = req[p].scope /\ row.ded = req[p].ded /\ row.cred = cred
    BY <1>1 DEF ReqType
  <2>3. both = {} => \A i \in req[p].ded : i[1] \notin cred
    BY DEF ConflictsOf
  <2> HIDE DEF row, cred, both
  <2> QED BY <1>2, <1>3, <2>1, <2>2, <2>3 DEF CalcPcs
<1>9. ASSUME DropConflicts(p)
      PROVE  SlipInv'
  <2> DEFINE both == ConflictsOf(req[p].ded, req[p].cred)
             row == [req[p] EXCEPT !.pc = "commit", !.ded = req[p].ded \ both,
                                   !.ids = req[p].ids \ both]
  <2>1. Update(p, row) /\ req[p].pc = "drop"
    BY <1>9 DEF DropConflicts, At
  <2>2. /\ row.pc = "commit" /\ row.run = req[p].run /\ row.emps = req[p].emps
        /\ row.scope = req[p].scope /\ row.ded = req[p].ded \ both /\ row.cred = req[p].cred
    BY <1>1 DEF ReqType
  <2>3. \A i \in req[p].ded \ both : i[1] \notin req[p].cred
    BY DEF ConflictsOf
  <2> HIDE DEF row, both
  <2> QED BY <1>3, <2>1, <2>2, <2>3 DEF CalcPcs
<1>10. ASSUME ReadLegacy(p)
       PROVE  SlipInv'
  <2> DEFINE row == [req[p] EXCEPT !.legRead = TRUE, !.leg = LegacyOf(adv, inst, req[p].emps)]
  <2>1. Update(p, row) /\ req[p].pc \in CalcPcs
    BY <1>10 DEF ReadLegacy, CalcPcs
  <2>2. /\ row.pc = req[p].pc /\ row.run = req[p].run /\ row.emps = req[p].emps
        /\ row.scope = req[p].scope /\ row.ded = req[p].ded /\ row.cred = req[p].cred
    BY <1>1 DEF ReqType
  <2> HIDE DEF row
  <2>3. row.pc = "commit" => \A i \in row.ded : i[1] \notin row.cred
    BY <1>1, <2>2 DEF InHand
  <2> QED BY <1>2, <1>3, <2>1, <2>2, <2>3
<1>11. ASSUME MarkStatus(p)
       PROVE  SlipInv'
  <2> DEFINE row == [req[p] EXCEPT !.pc = "markCred", !.ids = {}]
  <2>1. Update(p, row) /\ req[p].pc = "markStatus"
    BY <1>11 DEF MarkStatus, At
  <2>2. row.pc = "markCred" /\ row.run = req[p].run /\ row.emps = req[p].emps /\ row.scope = req[p].scope
    BY <1>1 DEF ReqType
  <2> HIDE DEF row
  <2> QED BY <1>2, <2>1, <2>2 DEF CalcPcs
<1>12. ASSUME MarkCred(p)
       PROVE  SlipInv'
  <2> DEFINE row == [req[p] EXCEPT !.pc = "markLegacy", !.cred = {}]
  <2>1. Update(p, row) /\ req[p].pc = "markCred"
    BY <1>12 DEF MarkCred, At
  <2>2. row.pc = "markLegacy" /\ row.run = req[p].run /\ row.emps = req[p].emps /\ row.scope = req[p].scope
    BY <1>1 DEF ReqType
  <2> HIDE DEF row
  <2> QED BY <1>2, <2>1, <2>2 DEF CalcPcs
<1>13. ReopenInst(p) \/ ReopenCredit(p) \/ Unbind(p) \/ Bind(p) \/ MarkInst(p) \/ MarkLeg(p) => SlipInv'
  BY <1>1, SlipGoto DEF ReopenInst, ReopenCredit, Unbind, Bind, MarkInst, MarkLeg, At, CalcPcs
<1>14. ReopenDeduct(p) => SlipInv'
  BY <1>1, SlipGoto DEF ReopenDeduct, At, CalcPcs
<1>15. FinishCalc(p) => SlipInv'
  BY <1>1, SlipReturn DEF FinishCalc
<1> QED BY <1>4, <1>5, <1>6, <1>7, <1>8, <1>9, <1>10, <1>11, <1>12, <1>13, <1>14, <1>15 DEF CalcStep

LEMMA SlipRunStep ==
    ASSUME SlipInv, TypeOK', NEW p \in Proc, RunStep(p)
    PROVE  SlipInv'
<1>1. ASSUME NEW pd \in Period, CreateRunCount(p, pd)
      PROVE  SlipInv'
  <2> DEFINE row == [Idle EXCEPT !.pc = "createRun", !.run = <<pd, RunsOf(pd) + 1>>]
  <2>1. Update(p, row) /\ UNCHANGED <<line, slip>>
    BY <1>1 DEF CreateRunCount, Begin, tables
  <2>2. row.pc = "createRun"
    BY DEF Idle
  <2> HIDE DEF row
  <2> QED BY <2>1, <2>2, InHandElsewhere, SlipUpdate DEF CalcPcs
<1>2. CreateRunInsert(p) => SlipInv'
  BY SlipReturn DEF CreateRunInsert
<1>3. ASSUME NEW r \in Run, NEW scope \in Scopes, IssueRead(p, r, scope)
      PROVE  SlipInv'
  <2> DEFINE row == [Idle EXCEPT !.pc = "issueWrite", !.run = r, !.rows = LinesSeen(r, scope)]
  <2>1. Update(p, row) /\ UNCHANGED <<line, slip>>
    BY <1>3 DEF IssueRead, Begin, tables
  <2>2. row.pc = "issueWrite" /\ row.run = r /\ row.rows = LinesSeen(r, scope)
    BY DEF Idle
  <2>3. \A e \in Employee : LinesSeen(r, scope)[e] \in {line[r][e], NoLine}
    BY DEF LinesSeen
  <2> HIDE DEF row
  <2>4. InHand(row, line)
    BY <2>2, <2>3 DEF InHand, CalcPcs, NoLine
  <2> QED BY <2>1, <2>4, SlipUpdate
<1>4. IssueWrite(p) => SlipInv'
  BY SlipIssue
<1> QED BY <1>1, <1>2, <1>3, <1>4 DEF RunStep

LEMMA SlipNext ==
    ASSUME SlipInv, TypeOK', [Next]_vars
    PROVE  SlipInv'
<1>1. ASSUME NEW p \in Proc, Fail(p)
      PROVE  SlipInv'
  BY <1>1, SlipReturn DEF Fail, tables
<1>2. ASSUME UNCHANGED <<line, slip, req>>
      PROVE  SlipInv'
  BY <1>2 DEF SlipInv, SlipIsItsLine, LineNeverPaysAndDeducts
<1>3. ASSUME NEW p \in Proc, CalcStep(p)
      PROVE  SlipInv'
  BY <1>3, SlipCommit, SlipCalcStep
<1>4. \A r, s : RunAction(r, s) => SlipInv'
  BY <1>2 DEF RunAction
<1>5. \A e : SetActive(e) => SlipInv'
  BY <1>2 DEF SetActive
<1>6. UNCHANGED vars => SlipInv'
  BY <1>2 DEF vars
<1> QED BY <1>1, <1>3, <1>4, <1>5, <1>6, SlipAdvanceStep, SlipRunStep DEF Next

LEMMA SlipsAndLines == Spec => []SlipInv
<1>1. SlipInv /\ TypeOK' /\ [Next]_vars => SlipInv'
  BY SlipNext
<1> QED BY <1>1, SlipInit, TypeCorrect, PTL DEF Spec

\* An issued slip shows what its pay line says, whatever requests interleave, are
\* abandoned or calculate the run at once, and whoever is deactivated: the
\* transaction of payrollAction deletes the slips of the lines it replaces, and the
\* upserts of issuePayslips fail when a line they read is gone.
THEOREM SlipsShowTheirLines == Spec => []SlipIsItsLine
<1>1. SlipInv => SlipIsItsLine
  BY DEF SlipInv
<1> QED BY <1>1, SlipsAndLines, PTL

\* No pay line pays an advance out and deducts an installment of it, however the
\* separate reads of the load interleave with other requests.
THEOREM NeverBothOnALine == Spec => []LineNeverPaysAndDeducts
<1>1. SlipInv => LineNeverPaysAndDeducts
  BY DEF SlipInv
<1> QED BY <1>1, SlipsAndLines, PTL
-----------------------------------------------------------------------------
(* Exact ledgers.  A run whose latest calculation has ended charges and pays *)
(* out exactly what the ledger says it did.  This needs calculations of the  *)
(* whole company, and no two calculations for one period at the same time:   *)
(* the period an installment is bound to is the only lock there is.          *)

Lone == \A p, q \in Proc : p = q
OneRunAtATime == Lone \/ (ExclusiveRuns /\ MaxRunNo = 1)
WholeCompany == Scopes \subseteq {Branch} /\ Deactivatable = {}

BeforeCommit == {"reopenRead", "reopenInst"} \cup AfterReopen
Calculates(p) == req[p].pc \in CalcPcs

\* Who is calculating what.
ControlInv ==
    /\ TypeOK
    /\ active = Employee
    /\ \A p, q \in Proc :
         Calculates(p) /\ Calculates(q) /\ PeriodOf(req[p].run) = PeriodOf(req[q].run)
            => p = q
    /\ \A p \in Proc :
         /\ Calculates(p) => req[p].run \in Run \cap torn
         /\ req[p].pc \in BeforeCommit => InScope(req[p].scope) = Employee
         /\ req[p].pc \in {"reviewWrite", "reviewDelete"} => "review" \in Ops
         /\ req[p].pc \in {"cancelWrite", "cancelInst"} => "cancel" \in Ops

\* Installments.  What a request has loaded is pending and bound to its period
\* until it is marked; nothing is recorded for the run from the reopening to the
\* marking.
Charged(r) == \A i \in Inst : (i \in line[r][OwnerOf(i)].ded) <=> (inst[i].run = r)

Collecting(p) ==
    LET q == req[p] IN
    /\ q.pc \in AfterReopen \cup {"markInst"} => \A i \in Inst : inst[i].run # q.run
    /\ q.pc \in {"readCred", "drop", "commit"} => q.ids = q.ded
    /\ q.pc \in {"readCred", "drop", "commit", "markInst"} => \A i \in q.ids :
         inst[i].status = "PENDING" /\ inst[i].period = PeriodOf(q.run)
    /\ q.pc = "markInst" =>
         \A i \in Inst : (i \in line[q.run][OwnerOf(i)].ded) <=> i \in q.ids
    /\ q.pc \in {"markStatus", "markCred", "markLegacy", "finish"} => Charged(q.run)

ChargeInv ==
    /\ ControlInv
    /\ \A i \in Inst : (inst[i].run # NoRun) <=> (inst[i].status = "DEDUCTED")
    /\ \A p \in Proc : Collecting(p)
    /\ \A r \in Run \ torn : Charged(r)

\* Payouts, of the advances that are paid out exactly: all of them when requests
\* come one at a time, those with a first period otherwise.
Exact(a) == Lone \/ adv[a].start # NoPeriod
PaidOut(r) ==
    \A a \in Advance : Exact(a) => ((a \in line[r][AdvEmp[a]].cred) <=> (adv[a].credited = r))

Paying(p) ==
    LET q == req[p] IN
    /\ q.pc \in (AfterReopen \ {"reopenCredit"}) \cup {"markInst", "markStatus", "markCred"} =>
         \A a \in Advance : Exact(a) => adv[a].credited # q.run
    /\ q.pc \in {"drop", "commit", "markInst", "markStatus", "markCred"} =>
         \A a \in q.cred : Exact(a) =>
            /\ adv[a].credited = NoRun
            /\ adv[a].start \in {NoPeriod, PeriodOf(q.run)}
    /\ q.pc \in {"markInst", "markStatus", "markCred"} =>
         \A a \in Advance : Exact(a) => ((a \in line[q.run][AdvEmp[a]].cred) <=> a \in q.cred)
    /\ q.pc \in {"markLegacy", "finish"} => PaidOut(q.run)

PayoutInv ==
    /\ ControlInv
    /\ \A a \in Advance : adv[a].status = "NONE" =>
         /\ adv[a].credited = NoRun
         /\ \A r \in Run, e \in Employee : a \notin line[r][e].cred
         /\ \A p \in Proc : a \notin req[p].cred
    /\ \A p \in Proc : Paying(p)
    /\ \A r \in Run \ torn : PaidOut(r)
-----------------------------------------------------------------------------
(* What each statement does to the requests.                               *)

Others(p) ==
    \A q \in Proc \ {p} :
        /\ req'[q].pc = req[q].pc /\ req'[q].run = req[q].run /\ req'[q].scope = req[q].scope
        /\ req'[q].ded = req[q].ded /\ req'[q].cred = req[q].cred
OthersIds(p) == \A q \in Proc \ {p} : req'[q].ids = req[q].ids

\* The request goes on at pc with what it has loaded, and no other is touched.
Moved(p, pc, ded, ids, cred) ==
    /\ req'[p].pc = pc /\ req'[p].run = req[p].run /\ req'[p].scope = req[p].scope
    /\ req'[p].ded = ded /\ req'[p].ids = ids /\ req'[p].cred = cred
    /\ Others(p) /\ OthersIds(p)
Onward(p, pc) == Moved(p, pc, req[p].ded, req[p].ids, req[p].cred)

LEMMA UpdateMoves ==
    ASSUME TypeOK, NEW p \in Proc, NEW row, Update(p, row)
    PROVE  req'[p] = row /\ Others(p) /\ OthersIds(p)
BY DEF TypeOK, Update, Others, OthersIds

LEMMA GotoMoves ==
    ASSUME TypeOK, NEW p \in Proc, NEW pc, Goto(p, pc)
    PROVE  Onward(p, pc)
<1>1. req[p] \in ReqType
  BY DEF TypeOK
<1>2. req'[p] = [req[p] EXCEPT !.pc = pc] /\ Others(p) /\ OthersIds(p)
  BY UpdateMoves DEF Goto
<1> QED BY <1>1, <1>2 DEF ReqType, Onward, Moved

LEMMA ReturnMoves ==
    ASSUME TypeOK, NEW p \in Proc, Return(p)
    PROVE  /\ req'[p].pc = "idle" /\ req'[p].cred = {}
           /\ Others(p) /\ OthersIds(p)
BY UpdateMoves DEF Return, Idle

\* The statements of a calculation between its start and its transaction.
LEMMA LoadEffects ==
    ASSUME TypeOK, NEW p \in Proc
    PROVE  /\ ReopenRead(p) => At(p, "reopenRead") /\ Onward(p, "reopenInst")
           /\ ReopenInst(p) => At(p, "reopenInst") /\ Onward(p, "reopenCredit")
           /\ ReopenCredit(p) => At(p, "reopenCredit") /\ Onward(p, "reopenDeduct")
           /\ ReopenDeduct(p) => /\ At(p, "reopenDeduct")
                                 /\ \E pc \in {"unbind", "reopenStatus"} : Onward(p, pc)
           /\ ReopenStatus(p) => At(p, "reopenStatus") /\ Onward(p, "unbind")
           /\ Unbind(p) => At(p, "unbind") /\ Onward(p, "bind")
           /\ Bind(p) => At(p, "bind") /\ Onward(p, "readDed")
           /\ ReadDeductions(p) =>
                LET ded == DeductionsOf(adv, inst, PeriodOf(req[p].run), req[p].emps)
                IN At(p, "readDed") /\ Moved(p, "readCred", ded, ded, req[p].cred)
           /\ ReadCredits(p) =>
                LET cred == CreditsOf(adv, PeriodOf(req[p].run), req[p].emps)
                IN /\ At(p, "readCred")
                   /\ \E pc \in {"commit", "drop"} : Moved(p, pc, req[p].ded, req[p].ids, cred)
           /\ DropConflicts(p) =>
                LET both == ConflictsOf(req[p].ded, req[p].cred)
                IN /\ At(p, "drop")
                   /\ Moved(p, "commit", req[p].ded \ both, req[p].ids \ both, req[p].cred)
           /\ ReadLegacy(p) => /\ req[p].pc \in AfterReopen \ {"reopenCredit", "reopenDeduct", "reopenStatus"}
                               /\ Onward(p, req[p].pc)
<1>0. req[p] \in ReqType
  BY DEF TypeOK
<1>1. ASSUME ReopenRead(p)
      PROVE  At(p, "reopenRead") /\ Onward(p, "reopenInst")
  <2> DEFINE row == [req[p] EXCEPT !.pc = "reopenInst",
                                   !.affected = AffectedBy(adv, inst, req[p].run, req[p].emps)]
  <2>1. req'[p] = row /\ Others(p) /\ OthersIds(p)
    BY <1>1, UpdateMoves DEF ReopenRead
  <2>2. /\ row.pc = "reopenInst" /\ row.run = req[p].run /\ row.scope = req[p].scope
        /\ row.ded = req[p].ded /\ row.ids = req[p].ids /\ row.cred = req[p].cred
    BY <1>0 DEF ReqType
  <2> HIDE DEF row
  <2> QED BY <1>1, <2>1, <2>2 DEF ReopenRead, Onward, Moved
<1>2. ReopenInst(p) => At(p, "reopenInst") /\ Onward(p, "reopenCredit")
  BY GotoMoves DEF ReopenInst
<1>3. ReopenCredit(p) => At(p, "reopenCredit") /\ Onward(p, "reopenDeduct")
  BY GotoMoves DEF ReopenCredit
<1>4. ReopenDeduct(p) => /\ At(p, "reopenDeduct")
                         /\ \E pc \in {"unbind", "reopenStatus"} : Onward(p, pc)
  BY GotoMoves DEF ReopenDeduct
<1>5. ASSUME ReopenStatus(p)
      PROVE  At(p, "reopenStatus") /\ Onward(p, "unbind")
  <2> DEFINE row == [req[p] EXCEPT !.pc = "unbind", !.affected = {}]
  <2>1. req'[p] = row /\ Others(p) /\ OthersIds(p)
    BY <1>5, UpdateMoves DEF ReopenStatus
  <2>2. /\ row.pc = "unbind" /\ row.run = req[p].run /\ row.scope = req[p].scope
        /\ row.ded = req[p].ded /\ row.ids = req[p].ids /\ row.cred = req[p].cred
    BY <1>0 DEF ReqType
  <2> HIDE DEF row
  <2> QED BY <1>5, <2>1, <2>2 DEF ReopenStatus, Onward, Moved
<1>6. (Unbind(p) => At(p, "unbind") /\ Onward(p, "bind"))
      /\ (Bind(p) => At(p, "bind") /\ Onward(p, "readDed"))
  BY GotoMoves DEF Unbind, Bind
<1>7. ASSUME ReadDeductions(p)
      PROVE  LET ded == DeductionsOf(adv, inst, PeriodOf(req[p].run), req[p].emps)
             IN At(p, "readDed") /\ Moved(p, "readCred", ded, ded, req[p].cred)
  <2> DEFINE ded == DeductionsOf(adv, inst, PeriodOf(req[p].run), req[p].emps)
             row == [req[p] EXCEPT !.pc = "readCred", !.ded = ded, !.ids = ded]
  <2>1. req'[p] = row /\ Others(p) /\ OthersIds(p)
    BY <1>7, UpdateMoves DEF ReadDeductions
  <2>2. /\ row.pc = "readCred" /\ row.run = req[p].run /\ row.scope = req[p].scope
        /\ row.ded = ded /\ row.ids = ded /\ row.cred = req[p].cred
    BY <1>0 DEF ReqType
  <2> HIDE DEF row
  <2> QED BY <1>7, <2>1, <2>2 DEF ReadDeductions, Moved
<1>8. ASSUME ReadCredits(p)
      PROVE  LET cred == CreditsOf(adv, PeriodOf(req[p].run), req[p].emps)
             IN /\ At(p, "readCred")
                /\ \E pc \in {"commit", "drop"} : Moved(p, pc, req[p].ded, req[p].ids, cred)
  <2> DEFINE cred == CreditsOf(adv, PeriodOf(req[p].run), req[p].emps)
             pc == IF ConflictsOf(req[p].ded, cred) = {} THEN "commit" ELSE "drop"
             row == [req[p] EXCEPT !.pc = pc, !.cred = cred]
  <2>1. req'[p] = row /\ Others(p) /\ OthersIds(p)
    BY <1>8, UpdateMoves DEF ReadCredits
  <2>2. /\ row.pc = pc /\ row.run = req[p].run /\ row.scope = req[p].scope
        /\ row.ded = req[p].ded /\ row.ids = req[p].ids /\ row.cred = cred
    BY <1>0 DEF ReqType
  <2>3. pc \in {"commit", "drop"}
    OBVIOUS
  <2> HIDE DEF row, pc
  <2> QED BY <1>8, <2>1, <2>2, <2>3 DEF ReadCredits, Moved
<1>9. ASSUME DropConflicts(p)
      PROVE  LET both == ConflictsOf(req[p].ded, req[p].cred)
             IN /\ At(p, "drop")
                /\ Moved(p, "commit", req[p].ded \ both, req[p].ids \ both, req[p].cred)
  <2> DEFINE both == ConflictsOf(req[p].ded, req[p].cred)
             row == [req[p] EXCEPT !.pc = "commit", !.ded = req[p].ded \ both,
                                   !.ids = req[p].ids \ both]
  <2>1. req'[p] = row /\ Others(p) /\ OthersIds(p)
    BY <1>9, UpdateMoves DEF DropConflicts
  <2>2. /\ row.pc = "commit" /\ row.run = req[p].run /\ row.scope = req[p].scope
        /\ row.ded = req[p].ded \ both /\ row.ids = req[p].ids \ both /\ row.cred = req[p].cred
    BY <1>0 DEF ReqType
  <2> HIDE DEF row, both
  <2>3. At(p, "drop")
    BY <1>9 DEF DropConflicts
  <2> QED BY <2>1, <2>2, <2>3 DEF Moved, both
<1>10. ASSUME ReadLegacy(p)
       PROVE  /\ req[p].pc \in AfterReopen \ {"reopenCredit", "reopenDeduct", "reopenStatus"}
              /\ Onward(p, req[p].pc)
  <2> DEFINE row == [req[p] EXCEPT !.legRead = TRUE, !.leg = LegacyOf(adv, inst, req[p].emps)]
  <2>1. req'[p] = row /\ Others(p) /\ OthersIds(p)
    BY <1>10, UpdateMoves DEF ReadLegacy
  <2>2. /\ row.pc = req[p].pc /\ row.run = req[p].run /\ row.scope = req[p].scope
        /\ row.ded = req[p].ded /\ row.ids = req[p].ids /\ row.cred = req[p].cred
    BY <1>0 DEF ReqType
  <2>3. req[p].pc \in AfterReopen \ {"reopenCredit", "reopenDeduct", "reopenStatus"}
    BY <1>10 DEF ReadLegacy, AfterReopen
  <2> HIDE DEF row
  <2> QED BY <2>1, <2>2, <2>3 DEF Onward, Moved
<1> QED BY <1>1, <1>2, <1>3, <1>4, <1>5, <1>6, <1>7, <1>8, <1>9, <1>10

\* The statements after the transaction, and the transaction itself.
LEMMA MarkEffects ==
    ASSUME TypeOK, NEW p \in Proc
    PROVE  /\ MarkInst(p) => At(p, "markInst") /\ Onward(p, "markStatus")
           /\ MarkStatus(p) => At(p, "markStatus")
                               /\ Moved(p, "markCred", req[p].ded, {}, req[p].cred)
           /\ MarkCred(p) => At(p, "markCred")
                             /\ Moved(p, "markLegacy", req[p].ded, req[p].ids, {})
           /\ MarkLeg(p) => At(p, "markLegacy") /\ Onward(p, "finish")
<1>0. req[p] \in ReqType
  BY DEF TypeOK
<1>1. MarkInst(p) => At(p, "markInst") /\ Onward(p, "markStatus")
  BY GotoMoves DEF MarkInst
<1>2. ASSUME MarkStatus(p)
      PROVE  At(p, "markStatus") /\ Moved(p, "markCred", req[p].ded, {}, req[p].cred)
  <2> DEFINE row == [req[p] EXCEPT !.pc = "markCred", !.ids = {}]
  <2>1. req'[p] = row /\ Others(p) /\ OthersIds(p)
    BY <1>2, UpdateMoves DEF MarkStatus
  <2>2. /\ row.pc = "markCred" /\ row.run = req[p].run /\ row.scope = req[p].scope
        /\ row.ded = req[p].ded /\ row.ids = {} /\ row.cred = req[p].cred
    BY <1>0 DEF ReqType
  <2> HIDE DEF row
  <2> QED BY <1>2, <2>1, <2>2 DEF MarkStatus, Moved
<1>3. ASSUME MarkCred(p)
      PROVE  At(p, "markCred") /\ Moved(p, "markLegacy", req[p].ded, req[p].ids, {})
  <2> DEFINE row == [req[p] EXCEPT !.pc = "markLegacy", !.cred = {}]
  <2>1. req'[p] = row /\ Others(p) /\ OthersIds(p)
    BY <1>3, UpdateMoves DEF MarkCred
  <2>2. /\ row.pc = "markLegacy" /\ row.run = req[p].run /\ row.scope = req[p].scope
        /\ row.ded = req[p].ded /\ row.ids = req[p].ids /\ row.cred = {}
    BY <1>0 DEF ReqType
  <2> HIDE DEF row
  <2> QED BY <1>3, <2>1, <2>2 DEF MarkCred, Moved
<1>4. MarkLeg(p) => At(p, "markLegacy") /\ Onward(p, "finish")
  BY GotoMoves DEF MarkLeg
<1> QED BY <1>1, <1>2, <1>3, <1>4

Settled(p) ==
    LET paid == req[p].emps \cap Compensated IN
    /\ req'[p].pc = "markInst" /\ req'[p].run = req[p].run /\ req'[p].scope = {}
    /\ req'[p].ded = {}
    /\ req'[p].ids = {i \in req[p].ids : OwnerOf(i) \in paid}
    /\ req'[p].cred = {a \in req[p].cred : AdvEmp[a] \in paid}
    /\ Others(p) /\ OthersIds(p)

LEMMA CommitEffects ==
    ASSUME TypeOK, NEW p \in Proc, Commit(p)
    PROVE  At(p, "commit") /\ Settled(p)
<1> DEFINE r == req[p].run
           paid == req[p].emps \cap Compensated
           wiped == InScope(req[p].scope)
           row == [Idle EXCEPT !.pc = "markInst", !.run = r,
                        !.ids = {i \in req[p].ids : OwnerOf(i) \in paid},
                        !.cred = {a \in req[p].cred : AdvEmp[a] \in paid},
                        !.leg = {a \in req[p].leg : AdvEmp[a] \in paid}]
<1>1. req'[p] = row
  BY DEF Commit, ForgetLines
<1>2. /\ row.pc = "markInst" /\ row.run = r /\ row.scope = {} /\ row.ded = {}
      /\ row.ids = {i \in req[p].ids : OwnerOf(i) \in paid}
      /\ row.cred = {a \in req[p].cred : AdvEmp[a] \in paid}
  BY DEF Idle
<1>3. \A q \in Proc \ {p} : req'[q] \in {req[q], [req[q] EXCEPT !.gone = TRUE]}
  BY DEF Commit, ForgetLines
<1>4. \A q \in ReqType : LET g == [q EXCEPT !.gone = TRUE] IN
         /\ g.pc = q.pc /\ g.run = q.run /\ g.scope = q.scope
         /\ g.ded = q.ded /\ g.ids = q.ids /\ g.cred = q.cred
  BY DEF ReqType
<1>5. \A q \in Proc : req[q] \in ReqType
  BY DEF TypeOK
<1>6. Others(p) /\ OthersIds(p)
  BY <1>3, <1>4, <1>5 DEF Others, OthersIds
<1>7. At(p, "commit")
  BY DEF Commit
<1> HIDE DEF row
<1> QED BY <1>1, <1>2, <1>6, <1>7 DEF Settled

\* A calculation starts.
LEMMA StartEffects ==
    ASSUME TypeOK, NEW p \in Proc, NEW r \in Run, NEW scope \in Scopes, CalcStart(p, r, scope)
    PROVE  /\ req[p].pc = "idle"
           /\ req'[p].pc = FirstPc(r, InScope(scope) \cap active)
           /\ req'[p].run = r /\ req'[p].scope = scope
           /\ req'[p].ded = {} /\ req'[p].ids = {} /\ req'[p].cred = {}
           /\ Others(p) /\ OthersIds(p)
<1> DEFINE E == InScope(scope) \cap active
           pc == FirstPc(r, E)
           row == [Idle EXCEPT !.pc = pc, !.run = r, !.scope = scope, !.emps = E,
                               !.legRead = (E = {})]
<1>1. req'[p] = row /\ Others(p) /\ OthersIds(p) /\ req[p] = Idle
  BY UpdateMoves DEF CalcStart, Begin
<1>2. /\ row.pc = pc /\ row.run = r /\ row.scope = scope
      /\ row.ded = {} /\ row.ids = {} /\ row.cred = {} /\ Idle.pc = "idle"
  BY DEF Idle
<1> HIDE DEF row
<1> QED BY <1>1, <1>2

\* The requests that do not calculate.  Only a review makes others lose rows.
LEMMA OtherEffects ==
    ASSUME TypeOK, NEW p \in Proc, AdvanceStep(p) \/ RunStep(p) \/ Fail(p)
    PROVE  /\ req'[p].pc \in {"idle"} \cup OtherPcs /\ req'[p].cred \subseteq req[p].cred
           /\ Others(p)
           /\ req[p].pc # "reviewDelete" => OthersIds(p)
           /\ req'[p].pc \in {"reviewWrite", "reviewDelete"} =>
                "review" \in Ops \/ req[p].pc \in {"reviewWrite", "reviewDelete"}
           /\ req'[p].pc \in {"cancelWrite", "cancelInst"} =>
                "cancel" \in Ops \/ req[p].pc \in {"cancelWrite", "cancelInst"}
<1> DEFINE Goal == /\ req'[p].pc \in {"idle"} \cup OtherPcs /\ req'[p].cred \subseteq req[p].cred
                   /\ Others(p)
                   /\ req[p].pc # "reviewDelete" => OthersIds(p)
                   /\ req'[p].pc \in {"reviewWrite", "reviewDelete"} =>
                        "review" \in Ops \/ req[p].pc \in {"reviewWrite", "reviewDelete"}
                   /\ req'[p].pc \in {"cancelWrite", "cancelInst"} =>
                        "cancel" \in Ops \/ req[p].pc \in {"cancelWrite", "cancelInst"}
<1>0. \A q \in Proc : req[q] \in ReqType
  BY DEF TypeOK
<1>1. ASSUME Return(p) PROVE Goal
  BY <1>1, ReturnMoves
<1>2. ASSUME NEW op, NEW row, Begin(p, op, row), row.pc \in OtherPcs, row.cred = {},
             row.pc \in {"reviewWrite", "reviewDelete"} => op = "review",
             row.pc \in {"cancelWrite", "cancelInst"} => op = "cancel"
      PROVE  Goal
  BY <1>2, UpdateMoves DEF Begin
<1>3. ASSUME NEW a \in Advance, NEW t \in Terms, SubmitAdvance(p, a, t)
      PROVE  Goal
  <2>1. CASE req[p] = Idle /\ UNCHANGED req
    <3>1. Idle.pc = "idle"
      BY DEF Idle
    <3> QED BY <2>1, <3>1 DEF Others, OthersIds
  <2>2. CASE ~ (req[p] = Idle /\ UNCHANGED req)
    <3> DEFINE row == [Idle EXCEPT !.pc = "insert", !.adv = {a}, !.terms = {t}, !.next = 1]
    <3>1. Begin(p, "submit", row)
      BY <1>3, <2>2 DEF SubmitAdvance
    <3>2. row.pc = "insert" /\ row.cred = {}
      BY DEF Idle
    <3> HIDE DEF row, Goal
    <3> QED BY <1>2, <3>1, <3>2 DEF OtherPcs
  <2> QED BY <2>1, <2>2
<1>4. ASSUME InsertNext(p)
      PROVE  Goal
  <2>1. CASE \E s : Update(p, [req[p] EXCEPT !.next = s])
    <3>1. PICK s : req'[p] = [req[p] EXCEPT !.next = s] /\ Others(p) /\ OthersIds(p)
      BY <2>1, UpdateMoves
    <3>2. req'[p].pc = "insert" /\ req'[p].cred = req[p].cred
      BY <1>0, <1>4, <3>1 DEF InsertNext, At, ReqType
    <3> QED BY <3>1, <3>2 DEF OtherPcs
  <2> QED BY <1>1, <1>4, <2>1 DEF InsertNext
<1>5. ASSUME NEW a \in Advance, NEW ts, ReviewRead(p, a, ts)
      PROVE  Goal
  <2> DEFINE row == [Idle EXCEPT !.pc = "reviewWrite", !.adv = {a}, !.terms = ts]
  <2>1. Begin(p, "review", row)
    BY <1>5 DEF ReviewRead
  <2>2. row.pc = "reviewWrite" /\ row.cred = {}
    BY DEF Idle
  <2> HIDE DEF row, Goal
  <2> QED BY <1>2, <2>1, <2>2 DEF OtherPcs
<1>6. ASSUME ReviewApprove(p)
      PROVE  Goal
  BY <1>6, GotoMoves DEF ReviewApprove, At, Onward, Moved, OtherPcs
<1>7. ASSUME ReviewDelete(p)
      PROVE  Goal
  <2>1. PICK a : req' = [ForgetInstallments(a) EXCEPT ![p] =
                           [@ EXCEPT !.pc = "insert", !.next = 1]]
    BY <1>7 DEF ReviewDelete
  <2> DEFINE g(q) == [req[q] EXCEPT !.ids = {i \in req[q].ids : i[1] # a}]
             h(q) == [g(q) EXCEPT !.pc = "insert", !.next = 1]
  <2>2. \A q \in Proc : /\ g(q).pc = req[q].pc /\ g(q).run = req[q].run
                        /\ g(q).scope = req[q].scope /\ g(q).ded = req[q].ded
                        /\ g(q).cred = req[q].cred
    BY <1>0 DEF ReqType
  <2>3. h(p).pc = "insert" /\ h(p).cred = req[p].cred
    BY <1>0 DEF ReqType
  <2>4. (\A q \in Proc \ {p} : req'[q] = g(q)) /\ req'[p] = h(p)
    BY <2>1 DEF ForgetInstallments
  <2> HIDE DEF g, h
  <2>5. Others(p) /\ req'[p].pc = "insert" /\ req'[p].cred = req[p].cred
    BY <2>2, <2>3, <2>4 DEF Others
  <2> QED BY <1>7, <2>5 DEF ReviewDelete, At, OtherPcs
<1>8. ASSUME NEW a \in Advance, CancelRead(p, a)
      PROVE  Goal
  <2> DEFINE row == [Idle EXCEPT !.pc = "cancelWrite", !.adv = {a}]
  <2>1. Begin(p, "cancel", row)
    BY <1>8 DEF CancelRead
  <2>2. row.pc = "cancelWrite" /\ row.cred = {}
    BY DEF Idle
  <2> HIDE DEF row, Goal
  <2> QED BY <1>2, <2>1, <2>2 DEF OtherPcs
<1>9. ASSUME CancelWrite(p)
      PROVE  Goal
  BY <1>9, GotoMoves DEF CancelWrite, At, Onward, Moved, OtherPcs
<1>10. ASSUME NEW pd \in Period, CreateRunCount(p, pd)
       PROVE  Goal
  <2> DEFINE row == [Idle EXCEPT !.pc = "createRun", !.run = <<pd, RunsOf(pd) + 1>>]
  <2>1. Begin(p, "createRun", row)
    BY <1>10 DEF CreateRunCount
  <2>2. row.pc = "createRun" /\ row.cred = {}
    BY DEF Idle
  <2> HIDE DEF row, Goal
  <2> QED BY <1>2, <2>1, <2>2 DEF OtherPcs
<1>11. ASSUME NEW r \in Run, NEW scope \in Scopes, IssueRead(p, r, scope)
       PROVE  Goal
  <2> DEFINE row == [Idle EXCEPT !.pc = "issueWrite", !.run = r, !.rows = LinesSeen(r, scope)]
  <2>1. Begin(p, "issue", row)
    BY <1>11 DEF IssueRead
  <2>2. row.pc = "issueWrite" /\ row.cred = {}
    BY DEF Idle
  <2> HIDE DEF row, Goal
  <2> QED BY <1>2, <2>1, <2>2 DEF OtherPcs
<1>12. ReviewReject(p) \/ CancelInstallments(p) \/ CreateRunInsert(p) \/ IssueWrite(p) \/ Fail(p)
         => Goal
  <2>1. ReviewReject(p) \/ CancelInstallments(p) \/ CreateRunInsert(p) \/ IssueWrite(p) \/ Fail(p)
          => Return(p)
    BY DEF ReviewReject, CancelInstallments, CreateRunInsert, IssueWrite, Fail
  <2> HIDE DEF Goal
  <2> QED BY <1>1, <2>1
<1> HIDE DEF Goal
<1>13. AdvanceStep(p) => Goal
  BY <1>3, <1>4, <1>5, <1>6, <1>7, <1>8, <1>9, <1>12 DEF AdvanceStep
<1>14. RunStep(p) => Goal
  BY <1>10, <1>11, <1>12 DEF RunStep
<1>15. Goal
  BY <1>12, <1>13, <1>14
<1> QED BY <1>15 DEF Goal
-----------------------------------------------------------------------------
(* Who is calculating what: ControlInv.                                    *)

LEMMA ControlInit == Init => ControlInv
<1> SUFFICES ASSUME Init PROVE ControlInv
  OBVIOUS
<1>1. \A p \in Proc : req[p] = Idle
  BY DEF Init
<1>2. Idle.pc = "idle"
  BY DEF Idle
<1> QED BY <1>1, <1>2, InitTypeOK DEF Init, ControlInv, Calculates, CalcPcs, BeforeCommit, AfterReopen

\* A step of a request that goes on calculating its run, or is no calculation.
LEMMA ControlFrame ==
    ASSUME ControlInv, TypeOK', NEW p \in Proc, Others(p), active' = active, torn' = torn,
           Calculates(p)' => Calculates(p) /\ req'[p].run = req[p].run,
           req'[p].pc \in BeforeCommit => req[p].pc \in BeforeCommit /\ req'[p].scope = req[p].scope,
           req'[p].pc \in {"reviewWrite", "reviewDelete"} => "review" \in Ops,
           req'[p].pc \in {"cancelWrite", "cancelInst"} => "cancel" \in Ops
    PROVE  ControlInv'
<1>1. \A q \in Proc : Calculates(q)' => Calculates(q) /\ req'[q].run = req[q].run
  BY DEF Others, Calculates
<1>2. \A q, q2 \in Proc :
         (Calculates(q) /\ Calculates(q2) /\ PeriodOf(req[q].run) = PeriodOf(req[q2].run)
            => q = q2)'
  BY <1>1 DEF ControlInv
<1>3. \A q \in Proc : Calculates(q)' => req'[q].run \in Run \cap torn'
  BY <1>1 DEF ControlInv
<1>4. \A q \in Proc : req'[q].pc \in BeforeCommit => InScope(req'[q].scope) = Employee
  BY DEF ControlInv, Others
<1>5. \A q \in Proc : /\ req'[q].pc \in {"reviewWrite", "reviewDelete"} => "review" \in Ops
                      /\ req'[q].pc \in {"cancelWrite", "cancelInst"} => "cancel" \in Ops
  BY DEF ControlInv, Others
<1> QED BY <1>2, <1>3, <1>4, <1>5 DEF ControlInv

LEMMA SameRunOfPeriod ==
    ASSUME MaxRunNo = 1, NEW r1 \in Run, NEW r2 \in Run, PeriodOf(r1) = PeriodOf(r2)
    PROVE  r1 = r2
BY DEF Run, PeriodOf

LEMMA ControlStart ==
    ASSUME OneRunAtATime, WholeCompany, ControlInv, TypeOK', NEW p \in Proc, NEW r \in Run,
           NEW scope \in Scopes, CalcStart(p, r, scope)
    PROVE  ControlInv'
<1>1. TypeOK
  BY DEF ControlInv
<1>2. /\ req'[p].run = r /\ req'[p].scope = scope /\ Others(p)
      /\ req'[p].pc \in {"reopenRead", "commit"}
  BY <1>1, StartEffects DEF FirstPc
<1>3. torn' = torn \cup {r} /\ active' = active
  BY DEF CalcStart, tables
<1>4. InScope(scope) = Employee
  BY EmployeeAssumption DEF WholeCompany, InScope
<1>5. ASSUME NEW q \in Proc \ {p}, Calculates(q)'
      PROVE  PeriodOf(req'[q].run) # r[1]
  <2>1. Calculates(q) /\ req'[q].run = req[q].run /\ req[q].run \in Run
    BY <1>2, <1>5 DEF Others, Calculates, ControlInv
  <2>2. ~ Lone
    BY DEF Lone
  <2>3. ExclusiveRuns /\ MaxRunNo = 1
    BY <2>2 DEF OneRunAtATime
  <2>4. req[q].run # r
    BY <2>1, <2>3 DEF CalcStart, Calculating, Calculates
  <2> QED BY <2>1, <2>3, <2>4, SameRunOfPeriod DEF PeriodOf
<1>6. \A q \in Proc \ {p} : Calculates(q)' => Calculates(q) /\ req'[q].run = req[q].run
  BY <1>2 DEF Others, Calculates
<1>7. \A q, q2 \in Proc :
         (Calculates(q) /\ Calculates(q2) /\ PeriodOf(req[q].run) = PeriodOf(req[q2].run)
            => q = q2)'
  <2> SUFFICES ASSUME NEW q \in Proc, NEW q2 \in Proc, Calculates(q)', Calculates(q2)',
                      PeriodOf(req'[q].run) = PeriodOf(req'[q2].run)
               PROVE  q = q2
    OBVIOUS
  <2>1. CASE q # p /\ q2 # p
    BY <1>6, <2>1 DEF ControlInv
  <2>2. CASE q = p /\ q2 # p
    BY <1>2, <1>5, <2>2 DEF PeriodOf
  <2>3. CASE q # p /\ q2 = p
    BY <1>2, <1>5, <2>3 DEF PeriodOf
  <2> QED BY <2>1, <2>2, <2>3
<1>8. \A q \in Proc : Calculates(q)' => req'[q].run \in Run \cap torn'
  BY <1>2, <1>3, <1>6 DEF ControlInv
<1>9. \A q \in Proc : req'[q].pc \in BeforeCommit => InScope(req'[q].scope) = Employee
  BY <1>2, <1>4 DEF ControlInv, Others
<1>10. \A q \in Proc : /\ req'[q].pc \in {"reviewWrite", "reviewDelete"} => "review" \in Ops
                       /\ req'[q].pc \in {"cancelWrite", "cancelInst"} => "cancel" \in Ops
  BY <1>2 DEF ControlInv, Others
<1>11. active' = Employee
  BY <1>3 DEF ControlInv
<1> QED BY <1>7, <1>8, <1>9, <1>10, <1>11 DEF ControlInv

LEMMA ControlFinish ==
    ASSUME ControlInv, TypeOK', NEW p \in Proc, FinishCalc(p)
    PROVE  ControlInv'
<1>1. TypeOK
  BY DEF ControlInv
<1>2. req'[p].pc = "idle" /\ Others(p)
  BY <1>1, ReturnMoves DEF FinishCalc
<1>3. torn' = torn \ {req[p].run} /\ active' = active /\ req[p].pc = "finish"
  BY DEF FinishCalc, At
<1>4. Calculates(p) /\ ~ Calculates(p)'
  BY <1>2, <1>3 DEF Calculates, CalcPcs
<1>5. \A q \in Proc : Calculates(q)' => q # p /\ Calculates(q) /\ req'[q].run = req[q].run
  BY <1>2, <1>4 DEF Others, Calculates
<1>6. \A q, q2 \in Proc :
         (Calculates(q) /\ Calculates(q2) /\ PeriodOf(req[q].run) = PeriodOf(req[q2].run)
            => q = q2)'
  BY <1>5 DEF ControlInv
<1>7. \A q \in Proc : Calculates(q)' => req'[q].run \in Run \cap torn'
  BY <1>3, <1>4, <1>5 DEF ControlInv
<1>8. \A q \in Proc : req'[q].pc \in BeforeCommit => InScope(req'[q].scope) = Employee
  BY <1>2 DEF ControlInv, Others, BeforeCommit, AfterReopen
<1>9. \A q \in Proc : /\ req'[q].pc \in {"reviewWrite", "reviewDelete"} => "review" \in Ops
                      /\ req'[q].pc \in {"cancelWrite", "cancelInst"} => "cancel" \in Ops
  BY <1>2 DEF ControlInv, Others
<1> QED BY <1>3, <1>6, <1>7, <1>8, <1>9 DEF ControlInv

LEMMA ControlNext ==
    ASSUME OneRunAtATime, WholeCompany, ControlInv, TypeOK', [Next]_vars
    PROVE  ControlInv'
<1>0. TypeOK
  BY DEF ControlInv
<1>1. ASSUME NEW p \in Proc, AdvanceStep(p) \/ RunStep(p) \/ Fail(p)
      PROVE  ControlInv'
  <2>1. UNCHANGED <<active, torn>>
    BY <1>1 DEF AdvanceStep, SubmitAdvance, InsertNext, ReviewRead, ReviewReject, ReviewApprove,
       ReviewDelete, CancelRead, CancelWrite, CancelInstallments, RunStep, CreateRunCount,
       CreateRunInsert, IssueRead, IssueWrite, Fail, tables
  <2>2. /\ req'[p].pc \in {"idle"} \cup OtherPcs /\ Others(p)
        /\ req'[p].pc \in {"reviewWrite", "reviewDelete"} =>
             "review" \in Ops \/ req[p].pc \in {"reviewWrite", "reviewDelete"}
        /\ req'[p].pc \in {"cancelWrite", "cancelInst"} =>
             "cancel" \in Ops \/ req[p].pc \in {"cancelWrite", "cancelInst"}
    BY <1>0, <1>1, OtherEffects
  <2>3. req'[p].pc \notin CalcPcs \cup BeforeCommit
    BY <2>2 DEF OtherPcs, CalcPcs, BeforeCommit, AfterReopen
  <2>4. /\ req[p].pc \in {"reviewWrite", "reviewDelete"} => "review" \in Ops
        /\ req[p].pc \in {"cancelWrite", "cancelInst"} => "cancel" \in Ops
    BY DEF ControlInv
  <2> QED BY <2>1, <2>2, <2>3, <2>4, ControlFrame DEF Calculates
<1>2. ASSUME NEW p \in Proc, CalcStep(p)
      PROVE  ControlInv'
  <2>1. ASSUME NEW pc \in BeforeCommit, NEW pc2 \in BeforeCommit, NEW ded, NEW ids, NEW cred,
               req[p].pc = pc, Moved(p, pc2, ded, ids, cred), UNCHANGED <<active, torn>>
        PROVE  ControlInv'
    <3>1. Calculates(p) /\ req'[p].pc \notin {"reviewWrite", "reviewDelete", "cancelWrite", "cancelInst"}
      BY <2>1 DEF Calculates, CalcPcs, BeforeCommit, AfterReopen, Moved
    <3> QED BY <2>1, <3>1, ControlFrame DEF Moved
  <2>2. ASSUME NEW pc \in CalcPcs \ BeforeCommit, req[p].pc \in CalcPcs, req'[p].pc = pc,
               req'[p].run = req[p].run, Others(p), UNCHANGED <<active, torn>>
        PROVE  ControlInv'
    <3>1. Calculates(p) /\ req'[p].pc \notin {"reviewWrite", "reviewDelete", "cancelWrite", "cancelInst"}
      BY <2>2 DEF Calculates, CalcPcs
    <3> QED BY <2>2, <3>1, ControlFrame
  <2>3. \A r \in Run, scope \in Scopes : CalcStart(p, r, scope) => ControlInv'
    BY ControlStart
  <2>4. ReopenRead(p) \/ ReopenInst(p) \/ ReopenCredit(p) \/ ReopenDeduct(p) \/ ReopenStatus(p)
          => ControlInv'
    BY <1>0, <2>1, LoadEffects DEF ReopenRead, ReopenInst, ReopenCredit, ReopenDeduct, ReopenStatus,
       At, Onward, tables, BeforeCommit, AfterReopen
  <2>5. Unbind(p) \/ Bind(p) \/ ReadLegacy(p) => ControlInv'
    BY <1>0, <2>1, LoadEffects DEF Unbind, Bind, ReadLegacy, At, Onward, tables, BeforeCommit, AfterReopen
  <2>6. ReadDeductions(p) \/ ReadCredits(p) \/ DropConflicts(p) => ControlInv'
    BY <1>0, <2>1, LoadEffects DEF ReadDeductions, ReadCredits, DropConflicts, At, tables,
       BeforeCommit, AfterReopen
  <2>7. Commit(p) => ControlInv'
    BY <1>0, <2>2, CommitEffects DEF Commit, At, Settled, CalcPcs, BeforeCommit, AfterReopen
  <2>8. MarkInst(p) \/ MarkStatus(p) \/ MarkCred(p) \/ MarkLeg(p) => ControlInv'
    BY <1>0, <2>2, MarkEffects DEF MarkInst, MarkStatus, MarkCred, MarkLeg, At, Onward, Moved,
       CalcPcs, BeforeCommit, AfterReopen
  <2>9. FinishCalc(p) => ControlInv'
    BY ControlFinish
  <2> QED BY <1>2, <2>3, <2>4, <2>5, <2>6, <2>7, <2>8, <2>9 DEF CalcStep
<1>3. ASSUME UNCHANGED <<req, torn, active>>
      PROVE  ControlInv'
  BY <1>3 DEF ControlInv, Calculates
<1>4. \A r, s : RunAction(r, s) => ControlInv'
  BY <1>3 DEF RunAction
<1>5. \A e \in Deactivatable : SetActive(e) => ControlInv'
  BY DEF WholeCompany
<1>6. UNCHANGED vars => ControlInv'
  BY <1>3 DEF vars
<1> QED BY <1>1, <1>2, <1>4, <1>5, <1>6 DEF Next

LEMMA ControlAlways == ASSUME OneRunAtATime, WholeCompany PROVE Spec => []ControlInv
<1>1. ControlInv /\ TypeOK' /\ [Next]_vars => ControlInv'
  BY ControlNext
<1> QED BY <1>1, ControlInit, TypeCorrect, PTL DEF Spec

\* Other calculations are for other periods.
Apart(p, r) == \A q \in Proc \ {p} : Calculates(q) => PeriodOf(req[q].run) # PeriodOf(r)

LEMMA OthersApart ==
    ASSUME ControlInv, ControlInv', NEW p \in Proc, Others(p)
    PROVE  /\ Apart(p, NoRun)
           /\ Calculates(p) => Apart(p, req[p].run)
           /\ Calculates(p)' => Apart(p, req'[p].run)
<1>1. \A q \in Proc : Calculates(q) => PeriodOf(req[q].run) # PeriodOf(NoRun)
  BY BoundAssumption DEF ControlInv, Run, NoRun, PeriodOf, Period
<1>2. \A q \in Proc \ {p} : Calculates(q) => Calculates(q)' /\ req'[q].run = req[q].run
  BY DEF Others, Calculates
<1>3. ASSUME Calculates(p)', NEW q \in Proc \ {p}, Calculates(q)
      PROVE  PeriodOf(req[q].run) # PeriodOf(req'[p].run)
  <2>1. Calculates(q)' /\ req'[q].run = req[q].run
    BY <1>2, <1>3
  <2> QED BY <1>3, <2>1 DEF ControlInv
<1>4. ASSUME Calculates(p), NEW q \in Proc \ {p}, Calculates(q)
      PROVE  PeriodOf(req[q].run) # PeriodOf(req[p].run)
  BY <1>4 DEF ControlInv
<1> QED BY <1>1, <1>3, <1>4 DEF Apart
-----------------------------------------------------------------------------
(* What the statements do to the installments of other runs and periods.   *)

\* Who has collected an installment changes for the run r only, and pending ones
\* bound to other periods stay as they are.
Confined(in, in2, r) ==
    \A i \in Inst :
        /\ in2[i].run # NoRun <=> in2[i].status = "DEDUCTED"
        /\ \A r2 \in Run \ {r} : in2[i].run = r2 <=> in[i].run = r2
        /\ in[i].status = "PENDING" /\ in[i].period \notin {NoPeriod, PeriodOf(r)} =>
             in2[i].status = "PENDING" /\ in2[i].period = in[i].period

CollectorKnown(in) == \A i \in Inst : (in[i].run # NoRun) <=> (in[i].status = "DEDUCTED")

LEMMA StatementsAreConfined ==
    ASSUME NEW in \in [Inst -> InstRow], CollectorKnown(in), NEW r \in Run \cup {NoRun}
    PROVE  /\ Confined(in, in, r)
           /\ \A a, s : in[<<a, s>>].status = "NONE" => Confined(in, InsertInstallment(in, a, s), r)
           /\ Confined(in, ReopenInstallments(in, r), r)
           /\ \A ad, es : Confined(in, UnbindIneligible(ad, in, PeriodOf(r), es), r)
           /\ \A ad, es : Confined(in, BindNext(ad, in, PeriodOf(r), es), r)
           /\ \A ids : (\A i \in ids : in[i].period = PeriodOf(r)) =>
                Confined(in, UnbindPending(in, ids), r)
           /\ \A ids : r \in Run /\ (\A i \in ids : in[i].period = PeriodOf(r)) =>
                Confined(in, MarkInstallments(in, ids, r), r)
<1> USE DEF CollectorKnown, Confined, InstRow
<1>1. Confined(in, in, r)
  OBVIOUS
<1>2. \A a, s : in[<<a, s>>].status = "NONE" => Confined(in, InsertInstallment(in, a, s), r)
  BY DEF InsertInstallment, FreshInst
<1>3. Confined(in, ReopenInstallments(in, r), r)
  <2>1. \A r2 \in Run : r2 # NoRun
    BY RunIsNotNoRun
  <2>2. \A i \in Inst : \/ ReopenInstallments(in, r)[i] = in[i]
                        \/ /\ in[i].run = r /\ in[i].status = "DEDUCTED"
                           /\ ReopenInstallments(in, r)[i] = FreshInst
    BY DEF ReopenInstallments
  <2>3. FreshInst.run = NoRun /\ FreshInst.status = "PENDING"
    BY DEF FreshInst
  <2> QED BY <2>1, <2>2, <2>3
<1>4. \A ad, es : Confined(in, UnbindIneligible(ad, in, PeriodOf(r), es), r)
  BY DEF UnbindIneligible
<1>5. \A ad, es : Confined(in, BindNext(ad, in, PeriodOf(r), es), r)
  BY DEF BindNext, NextUnbound
<1>6. \A ids : (\A i \in ids : in[i].period = PeriodOf(r)) => Confined(in, UnbindPending(in, ids), r)
  BY DEF UnbindPending
<1>7. ASSUME NEW ids, r \in Run, \A i \in ids : in[i].period = PeriodOf(r)
      PROVE  Confined(in, MarkInstallments(in, ids, r), r)
  <2> DEFINE out == MarkInstallments(in, ids, r)
             marked(i) == [in[i] EXCEPT !.status = "DEDUCTED", !.run = r]
  <2>1. \A i \in Inst : marked(i).status = "DEDUCTED" /\ marked(i).run = r
    OBVIOUS
  <2>2. \A i \in Inst : out[i] = IF i \in ids /\ in[i].status = "PENDING" THEN marked(i) ELSE in[i]
    BY DEF MarkInstallments
  <2>3. r # NoRun
    BY <1>7, RunIsNotNoRun
  <2>4. \A i \in Inst : in[i].run = NoRun \/ in[i].status = "DEDUCTED"
    OBVIOUS
  <2> HIDE DEF out, marked
  <2>5. \A i \in Inst : i \in ids /\ in[i].status = "PENDING" =>
          /\ out[i].status = "DEDUCTED" /\ out[i].run = r
          /\ in[i].run = NoRun /\ in[i].period = PeriodOf(r)
    BY <1>7, <2>1, <2>2, <2>4
  <2>6. \A i \in Inst : ~ (i \in ids /\ in[i].status = "PENDING") => out[i] = in[i]
    BY <2>2
  <2>7. \A r2 \in Run : r2 # NoRun
    BY RunIsNotNoRun
  <2>8. ASSUME NEW i \in Inst
        PROVE  /\ out[i].run # NoRun <=> out[i].status = "DEDUCTED"
               /\ \A r2 \in Run \ {r} : out[i].run = r2 <=> in[i].run = r2
               /\ in[i].status = "PENDING" /\ in[i].period \notin {NoPeriod, PeriodOf(r)} =>
                    out[i].status = "PENDING" /\ out[i].period = in[i].period
    BY <2>3, <2>5, <2>6, <2>7
  <2> QED BY <2>8 DEF out
<1> QED BY <1>1, <1>2, <1>3, <1>4, <1>5, <1>6, <1>7

\* A step that rewrites no line.
LEMMA ChargeFrame ==
    ASSUME ChargeInv, ControlInv', NEW p \in Proc, Others(p), OthersIds(p),
           line' = line, NEW r \in Run \cup {NoRun}, Apart(p, r), Confined(inst, inst', r),
           Collecting(p)', torn \ {r} \subseteq torn',
           r \in Run \ torn' =>
              \A i \in Inst : (i \in line[r][OwnerOf(i)].ded) <=> (inst'[i].run = r)
    PROVE  ChargeInv'
<1>1. \A i \in Inst : (inst'[i].run # NoRun) <=> (inst'[i].status = "DEDUCTED")
  BY DEF Confined
<1>2. ASSUME NEW q \in Proc \ {p}
      PROVE  Collecting(q)'
  <2>1. CASE ~ Calculates(q)
    <3>1. req'[q].pc \notin CalcPcs
      BY <2>1 DEF Others, Calculates
    <3> QED BY <3>1 DEF Collecting, CalcPcs, AfterReopen
  <2>2. CASE Calculates(q)
    <3>1. /\ req[q].run \in Run /\ PeriodOf(req[q].run) # PeriodOf(r) /\ req[q].run # r
          /\ PeriodOf(req[q].run) # NoPeriod
      BY <2>2 DEF Apart, ChargeInv, ControlInv, Run, PeriodOf, Period, NoPeriod
    <3>2. \A i \in Inst : inst'[i].run = req[q].run <=> inst[i].run = req[q].run
      BY <3>1 DEF Confined
    <3>3. \A i \in Inst : inst[i].status = "PENDING" /\ inst[i].period = PeriodOf(req[q].run) =>
            inst'[i].status = "PENDING" /\ inst'[i].period = PeriodOf(req[q].run)
      BY <3>1 DEF Confined
    <3>4. req[q].ids \subseteq Inst
      BY DEF ChargeInv, ControlInv, TypeOK, ReqType
    <3>5. Collecting(q)
      BY DEF ChargeInv
    <3>6. /\ req'[q].pc = req[q].pc /\ req'[q].run = req[q].run /\ req'[q].ded = req[q].ded
          /\ req'[q].ids = req[q].ids
      BY DEF Others, OthersIds
    <3> QED BY <3>2, <3>3, <3>4, <3>5, <3>6 DEF Collecting, Charged
  <2> QED BY <2>1, <2>2
<1>3. ASSUME NEW r2 \in Run \ torn'
      PROVE  Charged(r2)'
  <2>1. CASE r2 = r
    BY <1>3, <2>1 DEF Charged
  <2>2. CASE r2 # r
    <3>1. r2 \in Run \ torn
      BY <1>3, <2>2
    <3>2. \A i \in Inst : inst'[i].run = r2 <=> inst[i].run = r2
      BY <2>2, <3>1 DEF Confined
    <3> QED BY <3>1, <3>2 DEF ChargeInv, Charged
  <2> QED BY <2>1, <2>2
<1> QED BY <1>1, <1>2, <1>3 DEF ChargeInv

\* The same for a request that is not calculating after the step.
LEMMA ChargeElsewhere ==
    ASSUME ChargeInv, ControlInv', NEW p \in Proc, Others(p), OthersIds(p),
           line' = line, Confined(inst, inst', NoRun), torn' = torn, req'[p].pc \notin CalcPcs
    PROVE  ChargeInv'
<1>1. Apart(p, NoRun)
  BY OthersApart DEF ChargeInv
<1>2. Collecting(p)'
  BY DEF Collecting, CalcPcs, AfterReopen
<1>3. NoRun \notin Run
  BY RunIsNotNoRun
<1> QED BY <1>1, <1>2, <1>3, ChargeFrame

\* And for a request that calculates its run before and after it.
LEMMA ChargeOnward ==
    ASSUME ChargeInv, ControlInv', NEW p \in Proc, NEW pc, NEW ded, NEW ids, NEW cred,
           Moved(p, pc, ded, ids, cred), Calculates(p), pc \in CalcPcs,
           line' = line, Confined(inst, inst', req[p].run), torn' = torn,
           Collecting(p)'
    PROVE  ChargeInv'
<1>1. Others(p) /\ OthersIds(p)
  BY DEF Moved
<1>2. req[p].run \in Run \cap torn
  BY DEF ChargeInv, ControlInv
<1>3. Apart(p, req[p].run)
  BY <1>1, OthersApart DEF ChargeInv
<1> DEFINE r == req[p].run
<1>4. /\ r \in Run \cup {NoRun} /\ Apart(p, r) /\ Confined(inst, inst', r)
      /\ torn \ {r} \subseteq torn' /\ r \in torn'
  BY <1>2, <1>3
<1> HIDE DEF r
<1> QED BY <1>1, <1>4, ChargeFrame

LEMMA ChargeInit == Init => ChargeInv
<1> SUFFICES ASSUME Init PROVE ChargeInv
  OBVIOUS
<1>1. \A i \in Inst : inst[i].run = NoRun /\ inst[i].status # "DEDUCTED"
  BY DEF Init, FreshInst, NoInst
<1>2. \A p \in Proc : Collecting(p)
  <2>1. Idle.pc = "idle"
    BY DEF Idle
  <2> QED BY <2>1 DEF Init, Collecting, AfterReopen
<1>3. \A r \in Run : Charged(r)
  <2>1. \A i \in Inst : OwnerOf(i) \in Employee
    BY AdvEmpAssumption, InstType DEF OwnerOf
  <2>2. \A r \in Run, e \in Employee : line[r][e].ded = {}
    BY DEF Init, NoLines, NoLine
  <2> QED BY <1>1, <2>1, <2>2, RunIsNotNoRun DEF Charged
<1> QED BY <1>1, <1>2, <1>3, ControlInit DEF ChargeInv

LEMMA ChargeStart ==
    ASSUME ChargeInv, ControlInv', WholeCompany, NEW p \in Proc, NEW r \in Run,
           NEW scope \in Scopes, CalcStart(p, r, scope)
    PROVE  ChargeInv'
<1>1. /\ req'[p].run = r /\ req'[p].ids = {} /\ req'[p].ded = {}
      /\ req'[p].pc = FirstPc(r, InScope(scope) \cap active)
      /\ Others(p) /\ OthersIds(p)
  BY StartEffects DEF ChargeInv, ControlInv
<1>2. req'[p].pc \in {"reopenRead", "commit"} /\ (req'[p].pc = "commit" => Inst = {})
  <2>1. InScope(scope) \cap active = Employee
    BY EmployeeAssumption DEF WholeCompany, InScope, ChargeInv, ControlInv
  <2>2. Employee = {} => Inst = {}
    BY AdvEmpAssumption DEF Inst
  <2> QED BY <1>1, <2>1, <2>2 DEF FirstPc
<1>3. Apart(p, r)
  <2>1. Calculates(p)'
    BY <1>2 DEF Calculates, CalcPcs
  <2> QED BY <1>1, <2>1, OthersApart DEF ChargeInv
<1>4. Confined(inst, inst', r)
  BY StatementsAreConfined DEF CalcStart, tables, ChargeInv, ControlInv, TypeOK, CollectorKnown
<1>5. Collecting(p)'
  BY <1>1, <1>2 DEF Collecting, AfterReopen
<1>6. line' = line /\ torn' = torn \cup {r}
  BY DEF CalcStart, tables
<1> QED BY <1>1, <1>3, <1>4, <1>5, <1>6, ChargeFrame

\* The transaction writes what is loaded, for everybody.
LEMMA ChargeCommit ==
    ASSUME ChargeInv, ControlInv', NEW p \in Proc, Commit(p)
    PROVE  ChargeInv'
<1> DEFINE r == req[p].run
           paid == req[p].emps \cap Compensated
<1>0. TypeOK /\ req[p] \in ReqType /\ Collecting(p) /\ ControlInv
  BY DEF ChargeInv, ControlInv, TypeOK
<1>1. req[p].pc = "commit" /\ Settled(p) /\ inst' = inst /\ torn' = torn
  BY <1>0, CommitEffects DEF At, Commit
<1>2. /\ r \in Run \cap torn /\ InScope(req[p].scope) = Employee /\ Calculates(p)
      /\ req[p].ids = req[p].ded /\ req[p].ded \subseteq Inst
      /\ \A i \in Inst : inst[i].run # r
      /\ \A i \in req[p].ids : inst[i].status = "PENDING" /\ inst[i].period = PeriodOf(r)
  BY <1>0, <1>1 DEF Calculates, CalcPcs, ControlInv, BeforeCommit, AfterReopen, Collecting, ReqType
<1>3. /\ \A r2 \in Run \ {r} : line'[r2] = line[r2]
      /\ \A e \in paid : line'[r][e] = NewLine(p, e)
      /\ \A e \in Employee \ paid : line'[r][e] = NoLine
  BY <1>0, <1>2 DEF Commit, TypeOK, ReqType
<1>4. Others(p) /\ OthersIds(p) /\ Apart(p, r)
  <2>1. Others(p) /\ OthersIds(p)
    BY <1>1 DEF Settled
  <2> QED BY <1>0, <1>2, <2>1, OthersApart
<1>5. \A i \in Inst : (i \in line'[r][OwnerOf(i)].ded) <=> i \in req'[p].ids
  <2> SUFFICES ASSUME NEW i \in Inst
               PROVE  (i \in line'[r][OwnerOf(i)].ded) <=> i \in req'[p].ids
    OBVIOUS
  <2>1. req'[p].ids = {j \in req[p].ids : OwnerOf(j) \in paid}
    BY <1>1 DEF Settled
  <2>2. OwnerOf(i) \in Employee
    BY AdvEmpAssumption, InstType DEF OwnerOf
  <2>3. CASE OwnerOf(i) \in paid
    <3>1. NewLine(p, OwnerOf(i)).ded = {j \in req[p].ded : OwnerOf(j) = OwnerOf(i)}
      BY DEF NewLine
    <3> QED BY <1>2, <1>3, <2>1, <2>3, <3>1
  <2>4. CASE OwnerOf(i) \notin paid
    <3>1. line'[r][OwnerOf(i)].ded = {}
      BY <1>3, <2>2, <2>4 DEF NoLine
    <3> QED BY <2>1, <2>4, <3>1
  <2> QED BY <2>3, <2>4
<1>6. Collecting(p)'
  <2>1. req'[p].pc = "markInst" /\ req'[p].run = r /\ req'[p].ids \subseteq req[p].ids
    BY <1>1 DEF Settled
  <2> QED BY <1>1, <1>2, <1>5, <2>1 DEF Collecting, AfterReopen
<1>7. ASSUME NEW q \in Proc \ {p}
      PROVE  Collecting(q)'
  <2>1. /\ req'[q].pc = req[q].pc /\ req'[q].run = req[q].run /\ req'[q].ded = req[q].ded
        /\ req'[q].ids = req[q].ids
    BY <1>4 DEF Others, OthersIds
  <2>2. Calculates(q) => line'[req[q].run] = line[req[q].run]
    <3>1. Calculates(q) => req[q].run \in Run /\ req[q].run # r
      BY <1>0, <1>4 DEF Apart, ControlInv
    <3> QED BY <1>3, <3>1
  <2>3. Collecting(q)
    BY DEF ChargeInv
  <2> QED BY <1>1, <2>1, <2>2, <2>3 DEF Collecting, Charged, Calculates, CalcPcs, AfterReopen
<1>8. ASSUME NEW r2 \in Run \ torn'
      PROVE  Charged(r2)'
  <2>1. r2 \in Run \ torn /\ r2 # r
    BY <1>1, <1>2, <1>8
  <2> QED BY <1>1, <1>3, <2>1 DEF ChargeInv, Charged
<1> QED BY <1>1, <1>6, <1>7, <1>8 DEF ChargeInv

\* The marking records exactly what the lines deduct.
LEMMA ChargeMark ==
    ASSUME ChargeInv, ControlInv', NEW p \in Proc, MarkInst(p)
    PROVE  ChargeInv'
<1> DEFINE r == req[p].run
           ids == req[p].ids
<1>0. /\ TypeOK /\ inst \in [Inst -> InstRow] /\ CollectorKnown(inst) /\ Collecting(p)
      /\ ids \subseteq Inst
  BY DEF ChargeInv, ControlInv, TypeOK, CollectorKnown, ReqType
<1>1. req[p].pc = "markInst" /\ Onward(p, "markStatus") /\ Calculates(p)
  BY <1>0, MarkEffects DEF At, Calculates, CalcPcs
<1>2. /\ r \in Run /\ \A i \in Inst : inst[i].run # r
      /\ \A i \in ids : inst[i].status = "PENDING" /\ inst[i].period = PeriodOf(r)
      /\ \A i \in Inst : (i \in line[r][OwnerOf(i)].ded) <=> i \in ids
  BY <1>0, <1>1 DEF ChargeInv, ControlInv, Collecting
<1>3. line' = line /\ torn' = torn /\ inst' = MarkInstallments(inst, ids, r)
  BY DEF MarkInst
<1>4. Confined(inst, inst', r)
  BY <1>0, <1>2, <1>3, StatementsAreConfined
<1>5. \A i \in Inst : inst'[i].run = r <=> i \in ids
  <2>1. \A i \in ids : [inst[i] EXCEPT !.status = "DEDUCTED", !.run = r].run = r
    BY <1>0 DEF InstRow
  <2> QED BY <1>2, <1>3, <2>1 DEF MarkInstallments
<1>6. Collecting(p)'
  <2>1. Charged(r)'
    BY <1>2, <1>3, <1>5, <1>1 DEF Charged, Onward, Moved
  <2>2. req'[p].pc = "markStatus" /\ req'[p].run = r
    BY <1>1 DEF Onward, Moved
  <2> QED BY <1>2, <1>3, <1>5, <2>2 DEF Collecting, AfterReopen, Charged
<1> QED BY <1>1, <1>3, <1>4, <1>6, ChargeOnward DEF Onward, CalcPcs

\* Every other statement of a calculation.
LEMMA ChargeLoad ==
    ASSUME ChargeInv, ControlInv', NEW p \in Proc,
           \/ ReopenRead(p) \/ ReopenInst(p) \/ ReopenCredit(p) \/ ReopenDeduct(p) \/ ReopenStatus(p)
           \/ Unbind(p) \/ Bind(p) \/ ReadDeductions(p) \/ ReadCredits(p) \/ DropConflicts(p)
           \/ ReadLegacy(p) \/ MarkStatus(p) \/ MarkCred(p) \/ MarkLeg(p)
    PROVE  ChargeInv'
<1> DEFINE r == req[p].run
<1>0. /\ TypeOK /\ inst \in [Inst -> InstRow] /\ CollectorKnown(inst) /\ Collecting(p)
      /\ req[p].ids \subseteq Inst
  BY DEF ChargeInv, ControlInv, TypeOK, CollectorKnown, ReqType
<1>1. line' = line /\ torn' = torn /\ Calculates(p)
  BY DEF ReopenRead, ReopenInst, ReopenCredit, ReopenDeduct, ReopenStatus, Unbind, Bind, ReadDeductions,
     ReadCredits, DropConflicts, ReadLegacy, MarkStatus, MarkCred, MarkLeg, tables, At, Calculates, CalcPcs
<1>2. r \in Run
  BY <1>1 DEF ChargeInv, ControlInv
\* The installments are left alone.
<1>3. ASSUME inst' = inst, NEW pc \in CalcPcs, NEW ded, NEW ids, NEW cred,
             Moved(p, pc, ded, ids, cred), Collecting(p)'
      PROVE  ChargeInv'
  BY <1>0, <1>1, <1>2, <1>3, StatementsAreConfined, ChargeOnward
<1>4. ASSUME inst' = inst, NEW pc \in CalcPcs, Onward(p, pc),
             \/ pc \in {"reopenInst", "markLegacy"}
             \/ {pc, req[p].pc} \subseteq AfterReopen \ {"readCred", "drop", "commit"}
             \/ pc \in {"drop", "commit"} /\ req[p].pc \in {"readCred", "drop", "commit"}
             \/ pc = req[p].pc
             \/ pc = "finish" /\ req[p].pc = "markLegacy",
             pc = "markLegacy" => req[p].pc = "markCred"
      PROVE  ChargeInv'
  <2>1. req'[p].pc = pc /\ req'[p].run = r /\ req'[p].ids = req[p].ids /\ req'[p].ded = req[p].ded
    BY <1>4 DEF Onward, Moved
  <2>2. Collecting(p)'
    BY <1>0, <1>1, <1>4, <2>1 DEF Collecting, Charged, AfterReopen
  <2> QED BY <1>3, <1>4, <2>2 DEF Onward
<1>5. ReopenRead(p) \/ ReopenCredit(p) \/ ReopenDeduct(p) \/ ReopenStatus(p) \/ ReadLegacy(p) => ChargeInv'
  BY <1>0, <1>4, LoadEffects DEF ReopenRead, ReopenCredit, ReopenDeduct, ReopenStatus, ReadLegacy, tables,
     At, CalcPcs, AfterReopen
<1>6. MarkLeg(p) => ChargeInv'
  BY <1>0, <1>4, MarkEffects DEF MarkLeg, At, CalcPcs
<1>7. ASSUME MarkStatus(p) \/ MarkCred(p)
      PROVE  ChargeInv'
  <2>0. PICK pc \in {"markCred", "markLegacy"} : \E ids, cred : Moved(p, pc, req[p].ded, ids, cred)
    BY <1>0, <1>7, MarkEffects
  <2>1. PICK ids, cred : Moved(p, pc, req[p].ded, ids, cred)
    BY <2>0
  <2>2. Charged(r) /\ inst' = inst
    BY <1>0, <1>7 DEF MarkStatus, MarkCred, At, Collecting
  <2>3. Collecting(p)'
    BY <1>1, <2>1, <2>2 DEF Moved, Collecting, Charged, AfterReopen
  <2> QED BY <1>3, <2>1, <2>2, <2>3 DEF CalcPcs
<1>8. ASSUME ReadDeductions(p)
      PROVE  ChargeInv'
  <2> DEFINE ded == DeductionsOf(adv, inst, PeriodOf(r), req[p].emps)
  <2>1. req[p].pc = "readDed" /\ Moved(p, "readCred", ded, ded, req[p].cred) /\ inst' = inst
    BY <1>0, <1>8, LoadEffects DEF At, ReadDeductions, tables
  <2>2. \A i \in ded : inst[i].status = "PENDING" /\ inst[i].period = PeriodOf(r)
    BY DEF DeductionsOf
  <2> HIDE DEF ded
  <2>3. Collecting(p)'
    BY <1>0, <2>1, <2>2 DEF Moved, Collecting, AfterReopen
  <2> QED BY <1>3, <2>1, <2>3 DEF CalcPcs
<1>9. ASSUME ReadCredits(p)
      PROVE  ChargeInv'
  <2>0. PICK pc \in {"commit", "drop"} : \E cred : Moved(p, pc, req[p].ded, req[p].ids, cred)
    BY <1>0, <1>9, LoadEffects
  <2>1. PICK cred : Moved(p, pc, req[p].ded, req[p].ids, cred)
    BY <2>0
  <2>2. req[p].pc = "readCred" /\ inst' = inst
    BY <1>9 DEF ReadCredits, At, tables
  <2>3. Collecting(p)'
    BY <1>0, <2>1, <2>2 DEF Moved, Collecting, AfterReopen
  <2> QED BY <1>3, <2>1, <2>2, <2>3 DEF CalcPcs
\* The installments change.
<1>10. ASSUME ReopenInst(p)
       PROVE  ChargeInv'
  <2>1. Onward(p, "reopenCredit") /\ inst' = ReopenInstallments(inst, r)
    BY <1>0, <1>10, LoadEffects DEF ReopenInst
  <2>2. \A i \in Inst : inst'[i].run # r
    BY <1>0, <1>2, <2>1, RunIsNotNoRun DEF ReopenInstallments, FreshInst, CollectorKnown
  <2>3. Collecting(p)'
    BY <2>1, <2>2 DEF Onward, Moved, Collecting, AfterReopen
  <2>4. Confined(inst, inst', r)
    BY <1>0, <1>2, <2>1, StatementsAreConfined
  <2> QED BY <1>1, <2>1, <2>3, <2>4, ChargeOnward DEF Onward, CalcPcs
<1>11. ASSUME Unbind(p) \/ Bind(p)
       PROVE  ChargeInv'
  <2>1. /\ req[p].pc \in {"unbind", "bind"}
        /\ \E pc \in {"bind", "readDed"} : Onward(p, pc)
    BY <1>0, <1>11, LoadEffects DEF At
  <2>2. \/ inst' = UnbindIneligible(adv, inst, PeriodOf(r), req[p].emps)
        \/ inst' = BindNext(adv, inst, PeriodOf(r), req[p].emps)
    BY <1>11 DEF Unbind, Bind
  <2>3. \A i \in Inst : inst'[i].run = inst[i].run
    BY <1>0, <2>2 DEF UnbindIneligible, BindNext, InstRow
  <2>4. Collecting(p)'
    BY <1>0, <2>1, <2>3 DEF Onward, Moved, Collecting, AfterReopen
  <2>5. Confined(inst, inst', r)
    BY <1>0, <1>2, <2>2, StatementsAreConfined
  <2> QED BY <1>1, <2>1, <2>4, <2>5, ChargeOnward DEF Onward, CalcPcs
<1>12. ASSUME DropConflicts(p)
       PROVE  ChargeInv'
  <2> DEFINE both == ConflictsOf(req[p].ded, req[p].cred)
             gone == both \cap req[p].ids
  <2>1. /\ req[p].pc = "drop"
        /\ Moved(p, "commit", req[p].ded \ both, req[p].ids \ both, req[p].cred)
        /\ inst' = UnbindPending(inst, gone)
    BY <1>0, <1>12, LoadEffects DEF At, DropConflicts
  <2>2. /\ \A i \in Inst : inst'[i].run = inst[i].run
        /\ \A i \in Inst \ gone : inst'[i] = inst[i]
    BY <1>0, <2>1 DEF UnbindPending, InstRow
  <2>3. \A i \in gone : inst[i].period = PeriodOf(r)
    BY <1>0, <2>1 DEF Collecting
  <2> HIDE DEF both
  <2>4. Collecting(p)'
    BY <1>0, <2>1, <2>2, ZenonT(60) DEF Moved, Collecting, AfterReopen
  <2>5. Confined(inst, inst', r)
    BY <1>0, <1>2, <2>1, <2>3, StatementsAreConfined
  <2> QED BY <1>1, <2>1, <2>4, <2>5, ChargeOnward DEF CalcPcs
<1> QED BY <1>5, <1>6, <1>7, <1>8, <1>9, <1>10, <1>11, <1>12

LEMMA ChargeFinish ==
    ASSUME ChargeInv, ControlInv', NEW p \in Proc, FinishCalc(p)
    PROVE  ChargeInv'
<1> DEFINE r == req[p].run
<1>0. TypeOK /\ inst \in [Inst -> InstRow] /\ CollectorKnown(inst) /\ Collecting(p)
  BY DEF ChargeInv, ControlInv, TypeOK, CollectorKnown
<1>1. /\ req[p].pc = "finish" /\ req'[p].pc = "idle" /\ Others(p) /\ OthersIds(p)
      /\ UNCHANGED <<inst, line>> /\ torn' = torn \ {r}
  BY <1>0, ReturnMoves DEF FinishCalc, At
<1>2. Calculates(p) /\ r \in Run /\ Charged(r)
  BY <1>0, <1>1 DEF Calculates, CalcPcs, ChargeInv, ControlInv, Collecting
<1>3. Apart(p, r)
  BY <1>1, <1>2, OthersApart DEF ChargeInv
<1>4. Collecting(p)'
  BY <1>1 DEF Collecting, AfterReopen
<1>5. Confined(inst, inst', r)
  BY <1>0, <1>1, <1>2, StatementsAreConfined
<1>6. \A i \in Inst : (i \in line[r][OwnerOf(i)].ded) <=> (inst'[i].run = r)
  BY <1>1, <1>2 DEF Charged
<1> HIDE DEF r
<1> QED BY <1>1, <1>2, <1>3, <1>4, <1>5, <1>6, ChargeFrame

LEMMA ChargeNext ==
    ASSUME WholeCompany, Ops \cap {"review", "cancel"} = {}, ChargeInv, ControlInv', [Next]_vars
    PROVE  ChargeInv'
<1>0. TypeOK /\ inst \in [Inst -> InstRow] /\ CollectorKnown(inst) /\ ControlInv
  BY DEF ChargeInv, ControlInv, TypeOK, CollectorKnown
<1>1. ASSUME NEW p \in Proc, AdvanceStep(p) \/ RunStep(p) \/ Fail(p)
      PROVE  ChargeInv'
  <2>1. req[p].pc \notin {"reviewWrite", "reviewDelete", "cancelWrite", "cancelInst"}
    BY <1>0 DEF ControlInv
  <2>2. ~ ReviewDelete(p) /\ ~ CancelInstallments(p) /\ ~ ReviewReject(p) /\ ~ ReviewApprove(p)
        /\ ~ CancelWrite(p)
    BY <2>1 DEF ReviewDelete, CancelInstallments, ReviewReject, ReviewApprove, CancelWrite, At
  <2>3. UNCHANGED <<line, torn>>
    BY <1>1 DEF AdvanceStep, SubmitAdvance, InsertNext, ReviewRead, ReviewReject, ReviewApprove,
       ReviewDelete, CancelRead, CancelWrite, CancelInstallments, RunStep, CreateRunCount,
       CreateRunInsert, IssueRead, IssueWrite, Fail, tables
  <2>4. Others(p) /\ OthersIds(p) /\ req'[p].pc \notin CalcPcs
    <3>1. req'[p].pc \in {"idle"} \cup OtherPcs /\ Others(p) /\ OthersIds(p)
      BY <1>0, <1>1, <2>1, OtherEffects
    <3> QED BY <3>1 DEF OtherPcs, CalcPcs
  <2>5. inst' = inst \/ \E a, s : inst[<<a, s>>].status = "NONE" /\ inst' = InsertInstallment(inst, a, s)
    <3>1. InsertNext(p) =>
            inst' = inst \/ \E a, s : inst[<<a, s>>].status = "NONE" /\ inst' = InsertInstallment(inst, a, s)
      BY DEF InsertNext
    <3>2. ~ InsertNext(p) => inst' = inst
      BY <1>1, <2>2 DEF AdvanceStep, SubmitAdvance, ReviewRead, CancelRead, RunStep, CreateRunCount,
         CreateRunInsert, IssueRead, IssueWrite, Fail, tables
    <3> QED BY <3>1, <3>2
  <2>6. Confined(inst, inst', NoRun)
    BY <1>0, <2>5, StatementsAreConfined
  <2> QED BY <2>3, <2>4, <2>6, ChargeElsewhere
<1>2. ASSUME NEW p \in Proc, CalcStep(p)
      PROVE  ChargeInv'
  BY <1>2, ChargeStart, ChargeLoad, ChargeCommit, ChargeMark, ChargeFinish DEF CalcStep
<1>3. ASSUME UNCHANGED <<req, torn, inst, line>>
      PROVE  ChargeInv'
  BY <1>3 DEF ChargeInv, Collecting, Charged
<1>4. \A r, s : RunAction(r, s) => ChargeInv'
  BY <1>3 DEF RunAction
<1>5. \A e \in Deactivatable : SetActive(e) => ChargeInv'
  BY DEF WholeCompany
<1>6. UNCHANGED vars => ChargeInv'
  BY <1>3 DEF vars
<1> QED BY <1>1, <1>2, <1>4, <1>5, <1>6 DEF Next

\* A run whose latest calculation ended deducts exactly the installments that are
\* recorded as collected by it: nothing is charged twice and nothing is written off,
\* for calculations of the whole company that interleave and are abandoned anywhere,
\* as long as no two of them are for one period (the period bound to an installment,
\* not the run, keeps other requests away from it) and nobody reviews or cancels
\* an advance meanwhile.
THEOREM EveryChargeIsRecorded ==
    ASSUME OneRunAtATime, WholeCompany, Ops \cap {"review", "cancel"} = {}
    PROVE  Spec => []DeductionsMatchLedger
<1>1. ChargeInv /\ ControlInv' /\ [Next]_vars => ChargeInv'
  BY ChargeNext
<1>2. ChargeInv => DeductionsMatchLedger
  BY DEF ChargeInv, DeductionsMatchLedger, Charged
<1> QED BY <1>1, <1>2, ChargeInit, ControlAlways, PTL DEF Spec
-----------------------------------------------------------------------------
(* What the statements do to the payouts of other runs and periods.        *)

\* Who has paid an advance out changes for the run r only, and only where a run of
\* its period may pay.  New rows are paid out by nobody, and a first period changes
\* only when requests come one at a time.
Steady(ad, ad2, r) ==
    \A a \in Advance :
        \/ ad[a].status = "NONE" /\ ad2[a].credited = NoRun
        \/ /\ Lone \/ ad2[a].start = ad[a].start
           /\ ad2[a].status = "NONE" =>
                ad[a].status = "NONE" /\ (ad[a].credited = NoRun => ad2[a].credited = NoRun)
           /\ Lone \/ ad[a].start # NoPeriod =>
                \A r2 \in Run \ {r} : ad2[a].credited = r2 <=> ad[a].credited = r2
           /\ ad[a].start \notin {NoPeriod, PeriodOf(r)} /\ ad[a].credited = NoRun =>
                ad2[a].credited = NoRun

\* Statements that leave payouts alone.
Unpaid(ad, ad2) ==
    \A a \in Advance : /\ ad2[a].credited = ad[a].credited /\ ad2[a].start = ad[a].start
                       /\ ad2[a].status = "NONE" => ad[a].status = "NONE"

LEMMA StatementsKeepPayouts ==
    ASSUME NEW ad \in [Advance -> AdvRow]
    PROVE  /\ Unpaid(ad, ad)
           /\ \A a : \A st \in AdvStatus \ {"NONE"} : Unpaid(ad, SetAdvanceStatus(ad, a, st))
           /\ \A r, es : Unpaid(ad, ReopenDeducted(ad, r, es))
           /\ \A in, as : Unpaid(ad, ReopenStatuses(ad, in, as))
           /\ \A in, ids, r : Unpaid(ad, MarkStatuses(ad, in, ids, r))
           /\ \A as, r : Unpaid(ad, MarkLegacy(ad, as, r))
<1> USE DEF AdvRow, Unpaid
<1>1. Unpaid(ad, ad)
  OBVIOUS
<1>2. \A a : \A st \in AdvStatus \ {"NONE"} : Unpaid(ad, SetAdvanceStatus(ad, a, st))
  BY DEF SetAdvanceStatus
<1>3. \A r, es : Unpaid(ad, ReopenDeducted(ad, r, es))
  BY DEF ReopenDeducted
<1>4. ASSUME NEW in, NEW as PROVE Unpaid(ad, ReopenStatuses(ad, in, as))
  <2>1. ASSUME NEW a \in Advance PROVE ReopenedStatus(ad[a], in, a) = "NONE" => ad[a].status = "NONE"
    BY DEF ReopenedStatus
  <2> DEFINE ad2 == ReopenStatuses(ad, in, as)
  <2>2. ASSUME NEW a \in Advance
        PROVE  /\ ad2[a].credited = ad[a].credited /\ ad2[a].start = ad[a].start
               /\ ad2[a].status \in {ad[a].status, ReopenedStatus(ad[a], in, a)}
    <3>1. ad[a] \in AdvRow
      OBVIOUS
    <3>2. ad2[a] = IF a \in as THEN [ad[a] EXCEPT !.status = ReopenedStatus(ad[a], in, a)] ELSE ad[a]
      BY DEF ReopenStatuses
    <3> HIDE DEF ad2
    <3> QED BY <3>1, <3>2
  <2> HIDE DEF ad2
  <2>3. Unpaid(ad, ad2)
    BY <2>1, <2>2
  <2> QED BY <2>3 DEF ad2
<1>5. \A in, ids, r : Unpaid(ad, MarkStatuses(ad, in, ids, r))
  BY DEF MarkStatuses
<1>6. \A as, r : Unpaid(ad, MarkLegacy(ad, as, r))
  BY DEF MarkLegacy
<1> QED BY <1>1, <1>2, <1>3, <1>4, <1>5, <1>6

LEMMA UnpaidIsSteady ==
    ASSUME NEW ad, NEW ad2, NEW r, Unpaid(ad, ad2)
    PROVE  Steady(ad, ad2, r)
BY DEF Steady, Unpaid

LEMMA SubmittingIsSteady ==
    ASSUME NEW ad \in [Advance -> AdvRow], NEW a \in Advance, ad[a].status = "NONE", NEW t, NEW st, NEW r
    PROVE  Steady(ad, InsertAdvance(ad, a, t, st), r)
<1> DEFINE ad2 == InsertAdvance(ad, a, t, st)
<1>1. ad2[a].credited = NoRun /\ \A b \in Advance \ {a} : ad2[b] = ad[b]
  BY DEF InsertAdvance
<1> HIDE DEF ad2
<1>2. Steady(ad, ad2, r)
  BY <1>1 DEF Steady
<1> QED BY <1>2 DEF ad2

LEMMA ApprovingIsSteady ==
    ASSUME Lone, NEW ad \in [Advance -> AdvRow], NEW a \in Advance, NEW t, NEW r
    PROVE  Steady(ad, ApproveAdvance(ad, a, t), r)
<1> DEFINE ad2 == ApproveAdvance(ad, a, t)
<1>1. /\ ad2[a].credited = ad[a].credited /\ ad2[a].status = "APPROVED"
      /\ \A b \in Advance \ {a} : ad2[b] = ad[b]
  BY DEF ApproveAdvance, AdvRow
<1> HIDE DEF ad2
<1>2. Steady(ad, ad2, r)
  BY <1>1 DEF Steady
<1> QED BY <1>2 DEF ad2

LEMMA CreditingIsSteady ==
    ASSUME NEW ad \in [Advance -> AdvRow], NEW r \in Run
    PROVE  /\ Steady(ad, ReopenCredits(ad, r), r)
           /\ \A a \in Advance : ReopenCredits(ad, r)[a].credited # r
           /\ \A as : (\A a \in as : ad[a].status # "NONE" /\ ad[a].start \in {NoPeriod, PeriodOf(r)}) =>
                Steady(ad, MarkCredits(ad, as, r), r)
           /\ \A as : \A a \in Advance :
                /\ MarkCredits(ad, as, r)[a].start = ad[a].start
                /\ ad[a].credited # r =>
                   (MarkCredits(ad, as, r)[a].credited = r <=> a \in as /\ ad[a].credited = NoRun)
<1> DEFINE credit(a, v) == [ad[a] EXCEPT !.credited = v]
<1>1. \A a \in Advance : \A v : /\ credit(a, v).credited = v /\ credit(a, v).start = ad[a].start
                                /\ credit(a, v).status = ad[a].status
  BY DEF AdvRow
<1>2. r # NoRun /\ \A r2 \in Run : r2 # NoRun
  BY RunIsNotNoRun
<1>3. \A a \in Advance : ReopenCredits(ad, r)[a] =
         IF ad[a].credited = r THEN credit(a, NoRun) ELSE ad[a]
  BY DEF ReopenCredits
<1>4. \A as : \A a \in Advance : MarkCredits(ad, as, r)[a] =
         IF a \in as /\ ad[a].credited = NoRun THEN credit(a, r) ELSE ad[a]
  BY DEF MarkCredits
<1> HIDE DEF credit
<1>5. \A a \in Advance : ReopenCredits(ad, r)[a].credited # r
  BY <1>1, <1>2, <1>3
<1>6. ASSUME NEW as, NEW a \in Advance
      PROVE  /\ MarkCredits(ad, as, r)[a].start = ad[a].start
             /\ MarkCredits(ad, as, r)[a].status = ad[a].status
             /\ MarkCredits(ad, as, r)[a].credited =
                  IF a \in as /\ ad[a].credited = NoRun THEN r ELSE ad[a].credited
  <2>1. CASE a \in as /\ ad[a].credited = NoRun
    <3>1. MarkCredits(ad, as, r)[a] = credit(a, r)
      BY <1>4, <2>1
    <3> QED BY <1>1, <2>1, <3>1
  <2>2. CASE ~ (a \in as /\ ad[a].credited = NoRun)
    <3>1. MarkCredits(ad, as, r)[a] = ad[a]
      BY <1>4, <2>2
    <3> QED BY <2>2, <3>1
  <2> QED BY <2>1, <2>2
<1>7. Steady(ad, ReopenCredits(ad, r), r)
  BY <1>1, <1>2, <1>3 DEF Steady
<1>8. ASSUME NEW as, \A a \in as : ad[a].status # "NONE" /\ ad[a].start \in {NoPeriod, PeriodOf(r)}
      PROVE  Steady(ad, MarkCredits(ad, as, r), r)
  <2> DEFINE ad2 == MarkCredits(ad, as, r)
  <2>1. \A a \in Advance : /\ ad2[a].start = ad[a].start /\ ad2[a].status = ad[a].status
                           /\ ad2[a].credited = IF a \in as /\ ad[a].credited = NoRun
                                                THEN r ELSE ad[a].credited
    BY <1>6
  <2> HIDE DEF ad2
  <2>2. ASSUME NEW a \in Advance
        PROVE  /\ Lone \/ ad2[a].start = ad[a].start
               /\ ad2[a].status = "NONE" =>
                    ad[a].status = "NONE" /\ (ad[a].credited = NoRun => ad2[a].credited = NoRun)
               /\ Lone \/ ad[a].start # NoPeriod =>
                    \A r2 \in Run \ {r} : ad2[a].credited = r2 <=> ad[a].credited = r2
               /\ ad[a].start \notin {NoPeriod, PeriodOf(r)} /\ ad[a].credited = NoRun =>
                    ad2[a].credited = NoRun
    BY <1>2, <1>8, <2>1
  <2>3. Steady(ad, ad2, r)
    BY <2>2 DEF Steady
  <2> QED BY <2>3 DEF ad2
<1> QED BY <1>2, <1>5, <1>6, <1>7, <1>8

\* A step that rewrites no line.
LEMMA PayoutFrame ==
    ASSUME PayoutInv, ControlInv', NEW p \in Proc, Others(p),
           line' = line, NEW r \in Run \cup {NoRun}, Apart(p, r), Steady(adv, adv', r),
           \A a \in req'[p].cred : adv[a].status # "NONE",
           Paying(p)', torn \ {r} \subseteq torn',
           r \in Run \ torn' =>
              \A a \in Advance : Lone \/ adv'[a].start # NoPeriod =>
                 ((a \in line[r][AdvEmp[a]].cred) <=> (adv'[a].credited = r))
    PROVE  PayoutInv'
<1>0. /\ \A a \in Advance : AdvEmp[a] \in Employee
      /\ \A r2 \in Run : r2 # NoRun
      /\ \A q \in Proc : req[q].cred \subseteq Advance
  BY AdvEmpAssumption, RunIsNotNoRun DEF PayoutInv, ControlInv, TypeOK, ReqType
<1>1. ASSUME NEW a \in Advance, adv'[a].status = "NONE"
      PROVE  /\ adv'[a].credited = NoRun
             /\ \A r2 \in Run, e \in Employee : a \notin line'[r2][e].cred
             /\ \A q \in Proc : a \notin req'[q].cred
  <2>1. adv[a].status = "NONE"
    BY <1>1 DEF Steady
  <2>2. /\ adv[a].credited = NoRun
        /\ \A r2 \in Run, e \in Employee : a \notin line[r2][e].cred
        /\ \A q \in Proc : a \notin req[q].cred
    BY <2>1 DEF PayoutInv
  <2>3. adv'[a].credited = NoRun
    BY <1>1, <2>2 DEF Steady
  <2> QED BY <2>1, <2>2, <2>3 DEF Others
<1>2. ASSUME NEW q \in Proc \ {p}
      PROVE  Paying(q)'
  <2> DEFINE r3 == req[q].run
  <2>0. ~ Lone /\ req'[q].pc = req[q].pc /\ req'[q].run = r3 /\ req'[q].cred = req[q].cred
    BY DEF Lone, Others
  <2>1. CASE ~ Calculates(q)
    BY <2>0, <2>1 DEF Calculates, Paying, CalcPcs, AfterReopen
  <2>2. CASE Calculates(q)
    <3>1. r3 \in Run /\ r3 # r /\ PeriodOf(r3) # PeriodOf(r)
      BY <2>2 DEF Apart, PayoutInv, ControlInv
    <3>2. ASSUME NEW a \in Advance, adv'[a].start # NoPeriod
          PROVE  /\ adv'[a].credited = r3 <=> adv[a].credited = r3 /\ adv[a].start # NoPeriod
                 /\ a \in req[q].cred =>
                      /\ adv[a].start # NoPeriod /\ adv'[a].start = adv[a].start
                      /\ adv[a].start = PeriodOf(r3) /\ adv[a].credited = NoRun =>
                            adv'[a].credited = NoRun
                 /\ a \in line[r3][AdvEmp[a]].cred => adv[a].start # NoPeriod
      <4>1. CASE adv[a].status = "NONE" /\ adv'[a].credited = NoRun
        BY <1>0, <3>1, <4>1 DEF PayoutInv
      <4>2. CASE ~ (adv[a].status = "NONE" /\ adv'[a].credited = NoRun)
        BY <2>0, <3>1, <3>2, <4>2 DEF Steady
      <4> QED BY <4>1, <4>2
    <3>3. Paying(q)
      BY DEF PayoutInv
    <3> HIDE DEF r3
    <3>4. \A a \in Advance : Exact(a)' => adv'[a].start # NoPeriod
      BY <2>0 DEF Exact
    <3>5. \A a \in Advance : adv[a].start # NoPeriod => Exact(a)
      BY DEF Exact
    <3>6. req[q].pc \in (AfterReopen \ {"reopenCredit"}) \cup {"markInst", "markStatus", "markCred"} =>
             \A a \in Advance : Exact(a)' => adv'[a].credited # r3
      BY <3>2, <3>3, <3>4, <3>5 DEF Paying, r3
    <3>7. req[q].pc \in {"drop", "commit", "markInst", "markStatus", "markCred"} =>
             \A a \in req[q].cred : Exact(a)' =>
                /\ adv'[a].credited = NoRun
                /\ adv'[a].start \in {NoPeriod, PeriodOf(r3)}
      BY <1>0, <3>2, <3>3, <3>4, <3>5 DEF Paying, r3
    <3>8. req[q].pc \in {"markInst", "markStatus", "markCred"} =>
             \A a \in Advance : Exact(a)' =>
                ((a \in line[r3][AdvEmp[a]].cred) <=> a \in req[q].cred)
      BY <1>0, <3>2, <3>3, <3>4, <3>5 DEF Paying, r3
    <3>9. req[q].pc \in {"markLegacy", "finish"} =>
             \A a \in Advance : Exact(a)' =>
                ((a \in line[r3][AdvEmp[a]].cred) <=> (adv'[a].credited = r3))
      BY <3>2, <3>3, <3>4, <3>5 DEF Paying, PaidOut, r3
    <3> QED BY <2>0, <3>6, <3>7, <3>8, <3>9 DEF Paying, PaidOut, r3
  <2> QED BY <2>1, <2>2
<1>3. ASSUME NEW r2 \in Run \ torn'
      PROVE  PaidOut(r2)'
  <2>1. CASE r2 = r
    BY <1>3, <2>1 DEF PaidOut, Exact
  <2>2. CASE r2 # r
    <3>1. r2 \in Run \ torn /\ PaidOut(r2)
      BY <1>3, <2>2 DEF PayoutInv
    <3>2. ASSUME NEW a \in Advance, Exact(a)'
          PROVE  (a \in line[r2][AdvEmp[a]].cred) <=> (adv'[a].credited = r2)
      <4>1. CASE adv[a].status = "NONE" /\ adv'[a].credited = NoRun
        BY <1>0, <3>1, <4>1 DEF PayoutInv
      <4>2. CASE ~ (adv[a].status = "NONE" /\ adv'[a].credited = NoRun)
        <5>1. Exact(a)
          BY <3>2, <4>2 DEF Steady, Exact
        <5>2. adv'[a].credited = r2 <=> adv[a].credited = r2
          BY <2>2, <4>2, <5>1 DEF Steady, Exact
        <5> QED BY <3>1, <5>1, <5>2 DEF PaidOut
      <4> QED BY <4>1, <4>2
    <3> QED BY <3>2 DEF PaidOut
  <2> QED BY <2>1, <2>2
<1> QED BY <1>1, <1>2, <1>3 DEF PayoutInv

LEMMA CredKnown ==
    ASSUME PayoutInv, NEW p \in Proc
    PROVE  \A a \in req[p].cred : adv[a].status # "NONE"
<1>1. req[p].cred \subseteq Advance
  BY DEF PayoutInv, ControlInv, TypeOK, ReqType
<1> QED BY <1>1 DEF PayoutInv

LEMMA PayoutElsewhere ==
    ASSUME PayoutInv, ControlInv', NEW p \in Proc, Others(p),
           line' = line, Steady(adv, adv', NoRun), torn' = torn,
           req'[p].pc \notin CalcPcs, req'[p].cred \subseteq req[p].cred
    PROVE  PayoutInv'
<1>1. Apart(p, NoRun)
  BY OthersApart DEF PayoutInv
<1>2. Paying(p)'
  BY DEF Paying, CalcPcs, AfterReopen
<1>3. NoRun \notin Run
  BY RunIsNotNoRun
<1>4. \A a \in req'[p].cred : adv[a].status # "NONE"
  BY CredKnown
<1> QED BY <1>1, <1>2, <1>3, <1>4, PayoutFrame

LEMMA PayoutOnward ==
    ASSUME PayoutInv, ControlInv', NEW p \in Proc, NEW pc, NEW ded, NEW ids, NEW cred,
           Moved(p, pc, ded, ids, cred), Calculates(p), pc \in CalcPcs,
           \A a \in cred : adv[a].status # "NONE",
           line' = line, Steady(adv, adv', req[p].run), torn' = torn,
           Paying(p)'
    PROVE  PayoutInv'
<1>1. Others(p) /\ req'[p].cred = cred
  BY DEF Moved
<1>2. req[p].run \in Run \cap torn
  BY DEF PayoutInv, ControlInv
<1>3. Apart(p, req[p].run)
  BY <1>1, OthersApart DEF PayoutInv
<1> DEFINE r == req[p].run
<1>4. /\ r \in Run \cup {NoRun} /\ Apart(p, r) /\ Steady(adv, adv', r)
      /\ torn \ {r} \subseteq torn' /\ r \in torn'
  BY <1>2, <1>3
<1> HIDE DEF r
<1> QED BY <1>1, <1>4, PayoutFrame

LEMMA PayoutInit == Init => PayoutInv
<1> SUFFICES ASSUME Init PROVE PayoutInv
  OBVIOUS
<1>1. \A a \in Advance : adv[a].credited = NoRun
  BY DEF Init, NewAdvance
<1>2. \A p \in Proc : req[p].pc = "idle" /\ req[p].cred = {}
  BY DEF Init, Idle
<1>3. \A p \in Proc : Paying(p)
  BY <1>2 DEF Paying, AfterReopen
<1>4. \A r \in Run, e \in Employee : line[r][e].cred = {}
  BY DEF Init, NoLines, NoLine
<1>5. \A r \in Run : PaidOut(r)
  BY <1>1, <1>4, AdvEmpAssumption, RunIsNotNoRun DEF PaidOut
<1> QED BY <1>1, <1>2, <1>3, <1>4, <1>5, ControlInit DEF PayoutInv

LEMMA PayoutStart ==
    ASSUME PayoutInv, ControlInv', WholeCompany, NEW p \in Proc, NEW r \in Run,
           NEW scope \in Scopes, CalcStart(p, r, scope)
    PROVE  PayoutInv'
<1>1. /\ req'[p].run = r /\ req'[p].cred = {}
      /\ req'[p].pc = FirstPc(r, InScope(scope) \cap active)
      /\ Others(p)
  BY StartEffects DEF PayoutInv, ControlInv
<1>2. req'[p].pc \in {"reopenRead", "commit"} /\ (req'[p].pc = "commit" => Advance = {})
  <2>1. InScope(scope) \cap active = Employee
    BY EmployeeAssumption DEF WholeCompany, InScope, PayoutInv, ControlInv
  <2>2. Employee = {} => Advance = {}
    BY AdvEmpAssumption
  <2> QED BY <1>1, <2>1, <2>2 DEF FirstPc
<1>3. Apart(p, r)
  <2>1. Calculates(p)'
    BY <1>2 DEF Calculates, CalcPcs
  <2> QED BY <1>1, <2>1, OthersApart DEF PayoutInv
<1>4. adv' = adv /\ line' = line /\ torn' = torn \cup {r}
  BY DEF CalcStart, tables
<1>5. Steady(adv, adv', r)
  BY <1>4 DEF Steady
<1>6. Paying(p)'
  BY <1>1, <1>2 DEF Paying, AfterReopen
<1> QED BY <1>1, <1>3, <1>4, <1>5, <1>6, PayoutFrame

LEMMA PayoutCommit ==
    ASSUME PayoutInv, ControlInv', NEW p \in Proc, Commit(p)
    PROVE  PayoutInv'
<1> DEFINE r == req[p].run
           paid == req[p].emps \cap Compensated
<1>0. TypeOK /\ req[p] \in ReqType /\ Paying(p) /\ ControlInv
  BY DEF PayoutInv, ControlInv, TypeOK
<1>1. req[p].pc = "commit" /\ Settled(p) /\ adv' = adv /\ torn' = torn
  BY <1>0, CommitEffects DEF At, Commit
<1>2. /\ r \in Run \cap torn /\ InScope(req[p].scope) = Employee /\ Calculates(p)
      /\ paid \subseteq Employee /\ req[p].cred \subseteq Advance
  BY <1>0, <1>1 DEF Calculates, CalcPcs, ControlInv, BeforeCommit, AfterReopen, ReqType
<1>3. /\ \A r2 \in Run \ {r} : line'[r2] = line[r2]
      /\ \A e \in paid : line'[r][e] = NewLine(p, e)
      /\ \A e \in Employee \ paid : line'[r][e] = NoLine
  BY <1>0, <1>2 DEF Commit, TypeOK, ReqType
<1>4. Others(p) /\ Apart(p, r)
  <2>1. Others(p)
    BY <1>1 DEF Settled
  <2> QED BY <1>0, <1>2, <2>1, OthersApart
<1>5. req'[p].cred = {b \in req[p].cred : AdvEmp[b] \in paid}
  BY <1>1 DEF Settled
<1>6. \A e \in Employee : line'[r][e].cred = {b \in req'[p].cred : AdvEmp[b] = e}
  <2> SUFFICES ASSUME NEW e \in Employee
               PROVE  line'[r][e].cred = {b \in req'[p].cred : AdvEmp[b] = e}
    OBVIOUS
  <2>1. CASE e \in paid
    <3>1. NewLine(p, e).cred = {b \in req[p].cred : AdvEmp[b] = e}
      BY DEF NewLine
    <3> QED BY <1>3, <1>5, <2>1, <3>1
  <2>2. CASE e \notin paid
    BY <1>3, <1>5, <2>2 DEF NoLine
  <2> QED BY <2>1, <2>2
<1>7. \A a \in Advance : (a \in line'[r][AdvEmp[a]].cred) <=> a \in req'[p].cred
  BY <1>6, AdvEmpAssumption
<1>8. Paying(p)'
  <2>1. req'[p].pc = "markInst" /\ req'[p].run = r /\ req'[p].cred \subseteq req[p].cred
    BY <1>1, <1>5 DEF Settled
  <2>2. /\ \A a \in Advance : Exact(a) => adv[a].credited # r
        /\ \A a \in req[p].cred : Exact(a) =>
              adv[a].credited = NoRun /\ adv[a].start \in {NoPeriod, PeriodOf(r)}
    BY <1>0, <1>1 DEF Paying, AfterReopen
  <2>3. \A a : Exact(a)' <=> Exact(a)
    BY <1>1 DEF Exact
  <2> QED BY <1>1, <1>7, <2>1, <2>2, <2>3 DEF Paying, AfterReopen
<1>9. ASSUME NEW q \in Proc \ {p}
      PROVE  Paying(q)'
  <2>1. req'[q].pc = req[q].pc /\ req'[q].run = req[q].run /\ req'[q].cred = req[q].cred
    BY <1>4 DEF Others
  <2>2. Calculates(q) => line'[req[q].run] = line[req[q].run]
    <3>1. Calculates(q) => req[q].run \in Run /\ req[q].run # r
      BY <1>0, <1>4 DEF Apart, ControlInv
    <3> QED BY <1>3, <3>1
  <2>3. Paying(q)
    BY DEF PayoutInv
  <2>4. \A a : Exact(a)' <=> Exact(a)
    BY <1>1 DEF Exact
  <2>5. CASE ~ Calculates(q)
    BY <2>1, <2>5 DEF Paying, Calculates, CalcPcs, AfterReopen
  <2>6. CASE Calculates(q)
    BY <1>1, <2>1, <2>2, <2>3, <2>4, <2>6 DEF Paying, PaidOut
  <2> QED BY <2>5, <2>6
<1>10. ASSUME NEW r2 \in Run \ torn'
       PROVE  PaidOut(r2)'
  <2>1. r2 \in Run \ torn /\ r2 # r /\ line'[r2] = line[r2]
    BY <1>1, <1>2, <1>3, <1>10
  <2>2. \A a : Exact(a)' <=> Exact(a)
    BY <1>1 DEF Exact
  <2> QED BY <1>1, <2>1, <2>2 DEF PayoutInv, PaidOut
<1>11. ASSUME NEW a \in Advance, adv'[a].status = "NONE"
       PROVE  /\ adv'[a].credited = NoRun
              /\ \A r2 \in Run, e \in Employee : a \notin line'[r2][e].cred
              /\ \A q \in Proc : a \notin req'[q].cred
  <2>1. /\ adv[a].credited = NoRun
        /\ \A r2 \in Run, e \in Employee : a \notin line[r2][e].cred
        /\ \A q \in Proc : a \notin req[q].cred
    BY <1>1, <1>11 DEF PayoutInv
  <2>2. \A q \in Proc : a \notin req'[q].cred
    BY <1>4, <1>5, <2>1 DEF Others
  <2>3. ASSUME NEW r2 \in Run, NEW e \in Employee PROVE a \notin line'[r2][e].cred
    <3>1. CASE r2 = r
      BY <1>6, <2>2, <3>1
    <3>2. CASE r2 # r
      BY <1>3, <2>1, <3>2
    <3> QED BY <3>1, <3>2
  <2> QED BY <1>1, <2>1, <2>2, <2>3
<1> QED BY <1>8, <1>9, <1>10, <1>11 DEF PayoutInv

\* Every other statement of a calculation.
LEMMA PayoutLoad ==
    ASSUME PayoutInv, ControlInv', NEW p \in Proc,
           \/ ReopenRead(p) \/ ReopenInst(p) \/ ReopenCredit(p) \/ ReopenDeduct(p) \/ ReopenStatus(p)
           \/ Unbind(p) \/ Bind(p) \/ ReadDeductions(p) \/ ReadCredits(p) \/ DropConflicts(p)
           \/ ReadLegacy(p) \/ MarkInst(p) \/ MarkStatus(p) \/ MarkCred(p) \/ MarkLeg(p)
    PROVE  PayoutInv'
<1> DEFINE r == req[p].run
<1>0. /\ TypeOK /\ adv \in [Advance -> AdvRow] /\ Paying(p)
      /\ req[p].cred \subseteq Advance /\ \A a \in req[p].cred : adv[a].status # "NONE"
  BY CredKnown DEF PayoutInv, ControlInv, TypeOK, ReqType
<1>1. line' = line /\ torn' = torn /\ Calculates(p)
  BY DEF ReopenRead, ReopenInst, ReopenCredit, ReopenDeduct, ReopenStatus, Unbind, Bind, ReadDeductions,
     ReadCredits, DropConflicts, ReadLegacy, MarkInst, MarkStatus, MarkCred, MarkLeg, tables, At,
     Calculates, CalcPcs
<1>2. r \in Run
  BY <1>1 DEF PayoutInv, ControlInv
\* The payouts are left alone.
<1>3. ASSUME Unpaid(adv, adv'), NEW pc \in CalcPcs, NEW ded, NEW ids,
             Moved(p, pc, ded, ids, req[p].cred),
             \/ {req[p].pc, pc} \subseteq {"reopenRead", "reopenInst", "reopenCredit"}
             \/ /\ {req[p].pc, pc} \subseteq AfterReopen \ {"reopenCredit"}
                /\ pc \in {"drop", "commit"} => req[p].pc \in {"drop", "commit"}
             \/ {req[p].pc, pc} \subseteq {"markInst", "markStatus", "markCred"}
             \/ {req[p].pc, pc} \subseteq {"markLegacy", "finish"}
      PROVE  PayoutInv'
  <2>1. req'[p].pc = pc /\ req'[p].run = r /\ req'[p].cred = req[p].cred
    BY <1>3 DEF Moved
  <2>2. \A a \in Advance : /\ Exact(a)' <=> Exact(a)
                           /\ adv'[a].credited = adv[a].credited /\ adv'[a].start = adv[a].start
    BY <1>3 DEF Exact, Unpaid
  <2>3. Paying(p)'
    <3>1. pc \in (AfterReopen \ {"reopenCredit"}) \cup {"markInst", "markStatus", "markCred"} =>
             \A a \in Advance : Exact(a) => adv[a].credited # r
      BY <1>0, <1>3 DEF Paying, AfterReopen
    <3>2. pc \in {"drop", "commit", "markInst", "markStatus", "markCred"} =>
             \A a \in req[p].cred : Exact(a) =>
                adv[a].credited = NoRun /\ adv[a].start \in {NoPeriod, PeriodOf(r)}
      BY <1>0, <1>3 DEF Paying, AfterReopen
    <3>3. pc \in {"markInst", "markStatus", "markCred"} =>
             \A a \in Advance : Exact(a) => ((a \in line[r][AdvEmp[a]].cred) <=> a \in req[p].cred)
      BY <1>0, <1>3 DEF Paying, AfterReopen
    <3>4. pc \in {"markLegacy", "finish"} => PaidOut(r)
      BY <1>0, <1>3 DEF Paying, AfterReopen
    <3> QED BY <1>0, <1>1, <2>1, <2>2, <3>1, <3>2, <3>3, <3>4 DEF Paying, PaidOut
  <2>4. Steady(adv, adv', r)
    BY <1>3, UnpaidIsSteady
  <2> QED BY <1>0, <1>1, <1>3, <2>3, <2>4, PayoutOnward
<1>4. ReopenRead(p) \/ ReopenInst(p) => PayoutInv'
  BY <1>0, <1>3, LoadEffects, StatementsKeepPayouts DEF ReopenRead, ReopenInst, At, Onward, tables, CalcPcs
<1>5. ReopenDeduct(p) \/ ReopenStatus(p) => PayoutInv'
  BY <1>0, <1>3, LoadEffects, StatementsKeepPayouts DEF ReopenDeduct, ReopenStatus, At, Onward, CalcPcs,
     AfterReopen
<1>6. Unbind(p) \/ Bind(p) \/ ReadLegacy(p) => PayoutInv'
  BY <1>0, <1>3, LoadEffects, StatementsKeepPayouts DEF Unbind, Bind, ReadLegacy, At, Onward, tables, CalcPcs,
     AfterReopen
<1>7. ReadDeductions(p) \/ DropConflicts(p) => PayoutInv'
  BY <1>0, <1>3, LoadEffects, StatementsKeepPayouts DEF ReadDeductions, DropConflicts, At, tables, CalcPcs,
     AfterReopen
<1>8. MarkInst(p) \/ MarkStatus(p) \/ MarkLeg(p) => PayoutInv'
  BY <1>0, <1>3, MarkEffects, StatementsKeepPayouts DEF MarkInst, MarkStatus, MarkLeg, At, Onward, CalcPcs
\* They change.
<1>9. ASSUME ReopenCredit(p)
      PROVE  PayoutInv'
  <2>1. Onward(p, "reopenDeduct") /\ adv' = ReopenCredits(adv, r)
    BY <1>0, <1>9, LoadEffects DEF ReopenCredit
  <2>2. Steady(adv, adv', r) /\ \A a \in Advance : adv'[a].credited # r
    BY <1>0, <1>2, <2>1, CreditingIsSteady
  <2>3. Paying(p)'
    BY <2>1, <2>2 DEF Onward, Moved, Paying, AfterReopen
  <2> QED BY <1>0, <1>1, <2>1, <2>2, <2>3, PayoutOnward DEF Onward, CalcPcs
<1>10. ASSUME ReadCredits(p)
       PROVE  PayoutInv'
  <2> DEFINE cred == CreditsOf(adv, PeriodOf(r), req[p].emps)
  <2>1. /\ req[p].pc = "readCred" /\ adv' = adv
        /\ \E pc \in {"commit", "drop"} : Moved(p, pc, req[p].ded, req[p].ids, cred)
    BY <1>0, <1>10, LoadEffects DEF At, ReadCredits, tables
  <2>2. PICK pc \in {"commit", "drop"} : Moved(p, pc, req[p].ded, req[p].ids, cred)
    BY <2>1
  <2>3. \A a \in cred : /\ adv[a].credited = NoRun /\ adv[a].start \in {NoPeriod, PeriodOf(r)}
                        /\ adv[a].status # "NONE"
    BY DEF CreditsOf, Open
  <2> HIDE DEF cred
  <2>4. Paying(p)'
    <3>1. req'[p].pc = pc /\ req'[p].run = r /\ req'[p].cred = cred
      BY <2>2 DEF Moved
    <3>2. \A a : Exact(a)' <=> Exact(a)
      BY <2>1 DEF Exact
    <3>3. \A a \in Advance : Exact(a) => adv[a].credited # r
      BY <1>0, <2>1 DEF Paying, AfterReopen
    <3> QED BY <2>1, <2>3, <3>1, <3>2, <3>3 DEF Paying
  <2>5. Steady(adv, adv', r)
    BY <2>1 DEF Steady
  <2> QED BY <1>1, <2>2, <2>3, <2>4, <2>5, PayoutOnward DEF CalcPcs
<1>11. ASSUME MarkCred(p)
       PROVE  PayoutInv'
  <2>1. /\ req[p].pc = "markCred" /\ adv' = MarkCredits(adv, req[p].cred, r)
        /\ Moved(p, "markLegacy", req[p].ded, req[p].ids, {})
    BY <1>0, <1>11, MarkEffects DEF MarkCred, At
  <2>2. /\ \A a \in Advance : Exact(a) => adv[a].credited # r
        /\ \A a \in req[p].cred : Exact(a) =>
              adv[a].credited = NoRun /\ adv[a].start \in {NoPeriod, PeriodOf(r)}
        /\ \A a \in Advance : Exact(a) => ((a \in line[r][AdvEmp[a]].cred) <=> a \in req[p].cred)
    BY <1>0, <2>1 DEF Paying
  <2>3. \A a \in req[p].cred : adv[a].start \in {NoPeriod, PeriodOf(r)}
    BY <2>2 DEF Exact
  <2>4. Steady(adv, adv', r)
    BY <1>0, <1>2, <2>1, <2>3, CreditingIsSteady
  <2>5. \A a \in Advance : /\ adv'[a].start = adv[a].start
                           /\ adv[a].credited # r =>
                              (adv'[a].credited = r <=> a \in req[p].cred /\ adv[a].credited = NoRun)
    BY <1>0, <1>2, <2>1, CreditingIsSteady
  <2>6. \A a \in Advance : Exact(a)' =>
           ((a \in line[r][AdvEmp[a]].cred) <=> (adv'[a].credited = r))
    BY <1>0, <2>2, <2>5 DEF Exact
  <2>7. Paying(p)'
    BY <1>1, <2>1, <2>6 DEF Moved, Paying, PaidOut, AfterReopen
  <2> QED BY <1>1, <2>1, <2>4, <2>7, PayoutOnward DEF CalcPcs
<1> QED BY <1>4, <1>5, <1>6, <1>7, <1>8, <1>9, <1>10, <1>11

LEMMA PayoutFinish ==
    ASSUME PayoutInv, ControlInv', NEW p \in Proc, FinishCalc(p)
    PROVE  PayoutInv'
<1> DEFINE r == req[p].run
<1>0. TypeOK /\ Paying(p)
  BY DEF PayoutInv, ControlInv
<1>1. /\ req[p].pc = "finish" /\ req'[p].pc = "idle" /\ req'[p].cred = {} /\ Others(p)
      /\ UNCHANGED <<adv, line>> /\ torn' = torn \ {r}
  BY <1>0, ReturnMoves DEF FinishCalc, At
<1>2. Calculates(p) /\ r \in Run /\ PaidOut(r)
  BY <1>0, <1>1 DEF Calculates, CalcPcs, PayoutInv, ControlInv, Paying
<1>3. Apart(p, r)
  BY <1>1, <1>2, OthersApart DEF PayoutInv
<1>4. Paying(p)'
  BY <1>1 DEF Paying, AfterReopen
<1>5. Steady(adv, adv', r)
  BY <1>1 DEF Steady
<1>6. \A a \in Advance : Lone \/ adv'[a].start # NoPeriod =>
         ((a \in line[r][AdvEmp[a]].cred) <=> (adv'[a].credited = r))
  BY <1>1, <1>2 DEF PaidOut, Exact
<1> HIDE DEF r
<1> QED BY <1>1, <1>2, <1>3, <1>4, <1>5, <1>6, PayoutFrame

LEMMA PayoutNext ==
    ASSUME WholeCompany, Lone \/ "review" \notin Ops, PayoutInv, ControlInv', [Next]_vars
    PROVE  PayoutInv'
<1>0. TypeOK /\ adv \in [Advance -> AdvRow] /\ ControlInv /\ \A p \in Proc : req[p].adv \subseteq Advance
  BY DEF PayoutInv, ControlInv, TypeOK, ReqType
<1>1. ASSUME NEW p \in Proc, AdvanceStep(p) \/ RunStep(p) \/ Fail(p)
      PROVE  PayoutInv'
  <2>1. UNCHANGED <<line, torn>>
    BY <1>1 DEF AdvanceStep, SubmitAdvance, InsertNext, ReviewRead, ReviewReject, ReviewApprove,
       ReviewDelete, CancelRead, CancelWrite, CancelInstallments, RunStep, CreateRunCount,
       CreateRunInsert, IssueRead, IssueWrite, Fail, tables
  <2>2. Others(p) /\ req'[p].pc \notin CalcPcs /\ req'[p].cred \subseteq req[p].cred
    <3>1. req'[p].pc \in {"idle"} \cup OtherPcs /\ Others(p) /\ req'[p].cred \subseteq req[p].cred
      BY <1>0, <1>1, OtherEffects
    <3> QED BY <3>1 DEF OtherPcs, CalcPcs
  <2>3. Steady(adv, adv', NoRun)
    <3>1. \A a \in Advance, t \in Terms : SubmitAdvance(p, a, t) => Steady(adv, adv', NoRun)
      BY <1>0, SubmittingIsSteady DEF SubmitAdvance
    <3>2. ReviewApprove(p) => Steady(adv, adv', NoRun)
      <4>1. ReviewApprove(p) => Lone
        BY <1>0 DEF ReviewApprove, At, ControlInv
      <4> QED BY <1>0, <4>1, ApprovingIsSteady DEF ReviewApprove
    <3>3. ReviewReject(p) \/ CancelWrite(p) => Unpaid(adv, adv')
      BY <1>0, StatementsKeepPayouts DEF ReviewReject, CancelWrite, AdvStatus
    <3>4. \/ \E a \in Advance, t \in Terms : SubmitAdvance(p, a, t)
          \/ ReviewApprove(p) \/ ReviewReject(p) \/ CancelWrite(p) \/ adv' = adv
      BY <1>1 DEF AdvanceStep, InsertNext, ReviewRead, ReviewDelete, CancelRead, CancelInstallments,
         RunStep, CreateRunCount, CreateRunInsert, IssueRead, IssueWrite, Fail, tables
    <3>5. Unpaid(adv, adv)
      BY <1>0, StatementsKeepPayouts
    <3> QED BY <3>1, <3>2, <3>3, <3>4, <3>5, UnpaidIsSteady
  <2> QED BY <2>1, <2>2, <2>3, PayoutElsewhere
<1>2. ASSUME NEW p \in Proc, CalcStep(p)
      PROVE  PayoutInv'
  BY <1>2, PayoutStart, PayoutLoad, PayoutCommit, PayoutFinish DEF CalcStep
<1>3. ASSUME UNCHANGED <<req, torn, adv, line>>
      PROVE  PayoutInv'
  BY <1>3 DEF PayoutInv, Paying, PaidOut, Exact
<1>4. \A r, s : RunAction(r, s) => PayoutInv'
  BY <1>3 DEF RunAction
<1>5. \A e \in Deactivatable : SetActive(e) => PayoutInv'
  BY DEF WholeCompany
<1>6. UNCHANGED vars => PayoutInv'
  BY <1>3 DEF vars
<1> QED BY <1>1, <1>2, <1>4, <1>5, <1>6 DEF Next

LEMMA PayoutAlways ==
    ASSUME OneRunAtATime, WholeCompany, Lone \/ "review" \notin Ops
    PROVE  Spec => []PayoutInv
<1>1. PayoutInv /\ ControlInv' /\ [Next]_vars => PayoutInv'
  BY PayoutNext
<1> QED BY <1>1, PayoutInit, ControlAlways, PTL DEF Spec

\* A payout with a first period is on the pay line of exactly the run its row names,
\* however calculations of other periods interleave and wherever they are abandoned,
\* while advances are submitted and cancelled: it is paid out at most once.
THEOREM ScheduledPayoutsAreExact ==
    ASSUME OneRunAtATime, WholeCompany, Lone \/ "review" \notin Ops
    PROVE  Spec => []ScheduledPayoutsMatchLedger
<1>1. PayoutInv => ScheduledPayoutsMatchLedger
  BY DEF PayoutInv, ScheduledPayoutsMatchLedger, PaidOut, Exact
<1> QED BY <1>1, PayoutAlways, PTL

\* When requests come one at a time, reviews included and any of them abandoned
\* anywhere, this holds of every advance, with a first period or without.
THEOREM PayoutsAreExact ==
    ASSUME Lone, WholeCompany
    PROVE  Spec => []PayoutsMatchLedger
<1>1. OneRunAtATime
  BY DEF OneRunAtATime
<1>2. PayoutInv => PayoutsMatchLedger
  BY DEF PayoutInv, PayoutsMatchLedger, PaidOut, Exact
<1> QED BY <1>1, <1>2, PayoutAlways, PTL
=============================================================================

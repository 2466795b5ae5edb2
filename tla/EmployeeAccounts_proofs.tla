----------------------- MODULE EmployeeAccounts_proofs -----------------------
(***************************************************************************)
(* Theorems about EmployeeAccounts, for any employees, accounts, branches  *)
(* and number of concurrent requests, with every failure.                  *)
(***************************************************************************)
EXTENDS EmployeeAccounts, FiniteSetTheorems, TLAPS

-----------------------------------------------------------------------------
(* What a request in flight holds.                                         *)

RequestInv ==
    \A p \in Proc :
        /\ req[p].op \notin {"none", "revoke"} => req[p].e \in Employee
        /\ req[p].op = "link" => req[p].user \in User
        /\ req[p].op = "move" => req[p].branch \in Branch /\ req[p].oldBranch \in Branch
        /\ req[p].pc = "sync" => req[p].branch \in Branch

\* The invariant behind LinkInv.
AccountsInv == LinkInv /\ RequestInv

LEMMA IdleType == Idle \in ReqType
BY DEF Idle, ReqType

LEMMA RowFieldType ==
    ASSUME NEW row \in EmpRow
    PROVE  /\ \A v \in BOOLEAN : [row EXCEPT !.active = v] \in EmpRow
           /\ \A v \in Branch : [row EXCEPT !.branch = v] \in EmpRow
           /\ \A v \in User \cup {Nobody} : [row EXCEPT !.user = v] \in EmpRow
           /\ \A v \in Access : [row EXCEPT !.access = v] \in EmpRow
BY DEF EmpRow

LEMMA ReqFieldType ==
    ASSUME NEW r \in ReqType
    PROVE  /\ \A v \in {"idle", "update", "sync", "undo"} : [r EXCEPT !.pc = v] \in ReqType
           /\ \A v \in User \cup {Nobody} : [r EXCEPT !.user = v] \in ReqType
           /\ \A v \in Branch : [r EXCEPT !.branch = v] \in ReqType
           /\ \A v \in BOOLEAN : [r EXCEPT !.unheard = v] \in ReqType
           /\ \A v \in BOOLEAN : [r EXCEPT !.alone = v] \in ReqType
BY DEF ReqType

\* A request of its own, or none, leaves what the others hold as it was.
LEMMA ReturnStep ==
    ASSUME TypeOK, RequestInv, NEW p \in Proc, Return(p)
    PROVE  req' \in [Proc -> ReqType] /\ RequestInv'
BY IdleType DEF TypeOK, RequestInv, Return, Idle

LEMMA DisturbedStep ==
    ASSUME TypeOK, RequestInv
    PROVE  /\ Disturbed \in [Proc -> ReqType]
           /\ \A q \in Proc : /\ Disturbed[q].op = req[q].op /\ Disturbed[q].pc = req[q].pc
                              /\ Disturbed[q].e = req[q].e /\ Disturbed[q].user = req[q].user
                              /\ Disturbed[q].branch = req[q].branch
                              /\ Disturbed[q].oldBranch = req[q].oldBranch
<1>1. \A q \in Proc : req[q] \in ReqType
  BY DEF TypeOK
<1>2. \A r \in ReqType, v \in BOOLEAN :
        LET s == [r EXCEPT !.alone = v]
        IN /\ s \in ReqType /\ s.op = r.op /\ s.pc = r.pc /\ s.e = r.e /\ s.user = r.user
           /\ s.branch = r.branch /\ s.oldBranch = r.oldBranch
  BY DEF ReqType
<1>3. \A q \in Proc : (~ InFlight(q)) \in BOOLEAN
  OBVIOUS
<1> QED BY <1>1, <1>2, <1>3, ZenonT(60) DEF Disturbed

LEMMA CountedStep == ASSUME TypeOK, Counted PROVE made' \in 0 .. MaxRequests
BY AccountsAssumption DEF TypeOK, Counted

Ops == {"move", "link", "deactivate", "reactivate", "activation", "revoke"}

LEMMA BeginStep ==
    ASSUME TypeOK, RequestInv, NEW p \in Proc, NEW op \in Ops,
           NEW e \in Employee \cup {"none"}, NEW row \in ReqType, Begin(p, op, e, row),
           op # "revoke" => e \in Employee, op = "link" => row.user \in User,
           op = "move" => row.branch \in Branch /\ row.oldBranch \in Branch,
           row.pc # "sync"
    PROVE  req' \in [Proc -> ReqType] /\ RequestInv' /\ made' \in 0 .. MaxRequests
<1>1. PICK v \in BOOLEAN : req' = [Disturbed EXCEPT ![p] = [row EXCEPT !.op = op, !.e = e, !.alone = v]]
  BY DEF Begin
<1> DEFINE new == [row EXCEPT !.op = op, !.e = e, !.alone = v]
<1>2. new \in ReqType
  BY ZenonT(30) DEF ReqType, Ops
<1>3. /\ new.op = op /\ new.pc = row.pc /\ new.e = e /\ new.user = row.user
      /\ new.branch = row.branch /\ new.oldBranch = row.oldBranch
  BY DEF ReqType
<1> HIDE DEF new
<1>4. req' \in [Proc -> ReqType] /\ \A q \in Proc : req'[q] = IF q = p THEN new ELSE Disturbed[q]
  BY <1>1, <1>2, DisturbedStep DEF new
<1>5. RequestInv'
  <2> SUFFICES ASSUME NEW q \in Proc
               PROVE  /\ req'[q].op \notin {"none", "revoke"} => req'[q].e \in Employee
                      /\ req'[q].op = "link" => req'[q].user \in User
                      /\ req'[q].op = "move" => req'[q].branch \in Branch /\ req'[q].oldBranch \in Branch
                      /\ req'[q].pc = "sync" => req'[q].branch \in Branch
    BY DEF RequestInv
  <2>1. CASE q = p
    BY <2>1, <1>3, <1>4 DEF Ops
  <2>2. CASE q # p
    BY <2>2, <1>4, DisturbedStep DEF RequestInv
  <2> QED BY <2>1, <2>2
<1>6. made' \in 0 .. MaxRequests
  BY AccountsAssumption DEF Begin, Counted, TypeOK
<1> QED BY <1>4, <1>5, <1>6

-----------------------------------------------------------------------------
(* What a change of one employee's row needs to keep.                      *)

LEMMA RowStep ==
    ASSUME TypeOK, OneActiveLink, AccessMatchesLink, undone \subseteq undone',
           NEW e \in Employee, NEW row \in EmpRow, emp' = [emp EXCEPT ![e] = row],
           \A u \in User : row.active /\ row.user = u => \A f \in Employee \ {e} : ~ Holds(f, u),
           e \notin undone' => /\ row.access = "ACTIVE" => row.user # Nobody
                               /\ row.access = "NOT_LINKED" => row.user = Nobody
    PROVE  emp' \in [Employee -> EmpRow] /\ OneActiveLink' /\ AccessMatchesLink'
<1>1. emp' \in [Employee -> EmpRow]
  BY DEF TypeOK
<1>2. \A f \in Employee : emp'[f] = IF f = e THEN row ELSE emp[f]
  BY DEF TypeOK
<1>3. OneActiveLink'
  BY <1>2 DEF OneActiveLink, Holds, LinkedTo
<1>4. AccessMatchesLink'
  BY <1>2 DEF AccessMatchesLink
<1> QED BY <1>1, <1>3, <1>4

LEMMA SameRowsStep ==
    ASSUME OneActiveLink, AccessMatchesLink, UNCHANGED emp, undone \subseteq undone'
    PROVE  OneActiveLink' /\ AccessMatchesLink'
BY DEF OneActiveLink, AccessMatchesLink, Holds, LinkedTo

-----------------------------------------------------------------------------
(* The initial states, and one step per action.                            *)

LEMMA InitAccounts == Init => AccountsInv
<1> SUFFICES ASSUME Init PROVE AccountsInv
  OBVIOUS
<1>1. PICK links \in FirstLinks, b \in Branch :
        /\ emp = [e \in Employee |->
                    [active |-> TRUE, branch |-> b, user |-> links[e],
                     access |-> IF links[e] = Nobody THEN "NOT_LINKED" ELSE "ACTIVE"]]
        /\ home = [u \in User |-> b]
  BY DEF Init
<1>2. links \in [Employee -> User \cup {Nobody}]
      /\ \A e, f \in Employee : links[e] = links[f] /\ links[e] # Nobody => e = f
  BY AccountsAssumption
<1>3. TypeOK
  <2>1. emp \in [Employee -> EmpRow] /\ home \in [User -> Branch]
    BY <1>1, <1>2 DEF EmpRow, Access
  <2>2. req \in [Proc -> ReqType]
    BY IdleType DEF Init
  <2>3. made \in 0 .. MaxRequests
    BY AccountsAssumption DEF Init
  <2> QED BY <2>1, <2>2, <2>3 DEF Init, TypeOK
<1>4. OneActiveLink
  BY <1>1, <1>2, AccountsAssumption DEF OneActiveLink, Holds, LinkedTo
<1>5. AccessMatchesLink
  BY <1>1, <1>2 DEF AccessMatchesLink
<1>6. RequestInv
  BY DEF Init, RequestInv, Idle
<1> QED BY <1>3, <1>4, <1>5, <1>6 DEF AccountsInv, LinkInv

\* Starting a request writes no row.
LEMMA StartStep ==
    ASSUME AccountsInv, NEW p \in Proc, Request(p)
    PROVE  AccountsInv'
<1> USE DEF AccountsInv, LinkInv
<1>1. \A r \in EmpRow : r.branch \in Branch /\ r.user \in User \cup {Nobody}
  BY DEF EmpRow
<1>2. \A e \in Employee : emp[e] \in EmpRow /\ Aligned(e) \in BOOLEAN
  BY DEF TypeOK, Aligned
<1>3. ASSUME req' \in [Proc -> ReqType], RequestInv', made' \in 0 .. MaxRequests,
             UNCHANGED <<emp, home, owners, undone>>, challenge' \subseteq Employee,
             raced' \in BOOLEAN
      PROVE  AccountsInv'
  BY <1>3, SameRowsStep DEF TypeOK
<1>4. ASSUME NEW e \in Employee, NEW b \in Branch, MoveStart(p, e, b)
      PROVE  AccountsInv'
  <2> DEFINE row == [Idle EXCEPT !.pc = "update", !.branch = b, !.oldBranch = emp[e].branch,
                                 !.oldUser = emp[e].user, !.aligned = Aligned(e)]
  <2>1. row \in ReqType
    BY <1>1, <1>2 DEF Idle, ReqType
  <2>2. row.branch \in Branch /\ row.oldBranch \in Branch /\ row.pc # "sync"
    BY <1>1, <1>2 DEF Idle
  <2>3. Begin(p, "move", e, row)
    BY <1>4 DEF MoveStart
  <2> HIDE DEF row
  <2>4. req' \in [Proc -> ReqType] /\ RequestInv' /\ made' \in 0 .. MaxRequests
    BY <2>1, <2>2, <2>3, BeginStep DEF Ops
  <2> QED BY <1>3, <1>4, <2>4 DEF MoveStart, TypeOK
<1>5. ASSUME NEW e \in Employee, NEW u \in User, NEW spend \in BOOLEAN, LinkStart(p, e, u, spend)
      PROVE  AccountsInv'
  <2> DEFINE row == [Idle EXCEPT !.pc = "update", !.user = u, !.oldBranch = emp[e].branch,
                                 !.oldUser = emp[e].user, !.aligned = Aligned(e)]
  <2>1. row \in ReqType
    BY <1>1, <1>2 DEF Idle, ReqType
  <2>2. row.user \in User /\ row.pc # "sync"
    BY DEF Idle
  <2>3. Begin(p, "link", e, row) /\ challenge' \subseteq challenge
    BY <1>5 DEF LinkStart
  <2> HIDE DEF row
  <2>4. req' \in [Proc -> ReqType] /\ RequestInv' /\ made' \in 0 .. MaxRequests
    BY <2>1, <2>2, <2>3, BeginStep DEF Ops
  <2> QED BY <1>3, <1>5, <2>3, <2>4 DEF LinkStart, TypeOK
<1>6. /\ [Idle EXCEPT !.pc = "update"] \in ReqType
      /\ \A u \in User : [Idle EXCEPT !.pc = "update", !.user = u] \in ReqType
      /\ \A u \in User : [Idle EXCEPT !.pc = "update", !.user = u].pc # "sync"
      /\ [Idle EXCEPT !.pc = "update"].pc # "sync"
  BY DEF Idle, ReqType
<1>7. ASSUME NEW e \in Employee, ActivationStart(p, e)
      PROVE  AccountsInv'
  <2>1. req' \in [Proc -> ReqType] /\ RequestInv' /\ made' \in 0 .. MaxRequests
    BY <1>6, <1>7, BeginStep DEF ActivationStart, Ops
  <2> QED BY <1>3, <1>7, <2>1 DEF ActivationStart, TypeOK
<1>8. ASSUME NEW e \in Employee, NEW staff \in BOOLEAN, DeactivateStart(p, e, staff)
      PROVE  AccountsInv'
  <2>1. req' \in [Proc -> ReqType] /\ RequestInv' /\ made' \in 0 .. MaxRequests
    BY <1>6, <1>8, BeginStep DEF DeactivateStart, Ops
  <2> QED BY <1>3, <1>8, <2>1 DEF DeactivateStart, TypeOK
<1>9. ASSUME NEW e \in Employee, NEW staff \in BOOLEAN, ReactivateStart(p, e, staff)
      PROVE  AccountsInv'
  <2>1. req' \in [Proc -> ReqType] /\ RequestInv' /\ made' \in 0 .. MaxRequests
    BY <1>6, <1>9, BeginStep DEF ReactivateStart, Ops
  <2> QED BY <1>3, <1>9, <2>1 DEF ReactivateStart, TypeOK
<1>10. ASSUME NEW u \in User, RevokeStart(p, u)
       PROVE  AccountsInv'
  <2>1. req' \in [Proc -> ReqType] /\ RequestInv' /\ made' \in 0 .. MaxRequests
    BY <1>6, <1>10, BeginStep DEF RevokeStart, Ops
  <2> QED BY <1>3, <1>10, <2>1 DEF RevokeStart, TypeOK
<1> QED BY <1>4, <1>5, <1>7, <1>8, <1>9, <1>10 DEF Request

\* The later statements of a request.
LEMMA LaterStep ==
    ASSUME AccountsInv, NEW p \in Proc, Step(p) \/ Lose(p)
    PROVE  AccountsInv'
<1> USE DEF AccountsInv, LinkInv
<1> DEFINE e == req[p].e
<1>1. /\ req[p] \in ReqType /\ e \in Employee \cup {"none"}
      /\ req[p].oldUser \in User \cup {Nobody} /\ req[p].user \in User \cup {Nobody}
  BY DEF TypeOK, ReqType
<1>2. \A f \in Employee : emp[f] \in EmpRow /\ emp[f].branch \in Branch
                           /\ emp[f].user \in User \cup {Nobody}
  BY DEF TypeOK, EmpRow
<1>3. ASSUME emp' \in [Employee -> EmpRow], OneActiveLink', AccessMatchesLink',
             req' \in [Proc -> ReqType], RequestInv', home' \in [User -> Branch],
             owners' \subseteq owners, undone' \subseteq Employee,
             UNCHANGED <<challenge, made, raced>>
      PROVE  AccountsInv'
  BY <1>3 DEF TypeOK
<1>4. CASE MoveUpdate(p)
  <2>1. e \in Employee /\ req[p].branch \in Branch
    BY <1>4 DEF MoveUpdate, At, RequestInv
  <2>2. emp' = [emp EXCEPT ![e] = [emp[e] EXCEPT !.branch = req[p].branch]]
    BY <1>4 DEF MoveUpdate
  <2> DEFINE row == [emp[e] EXCEPT !.branch = req[p].branch]
  <2>3. row \in EmpRow /\ row.active = emp[e].active /\ row.user = emp[e].user /\ row.access = emp[e].access
    BY <2>1, <1>2, RowFieldType DEF EmpRow
  <2> HIDE DEF row
  <2>4. undone' = undone
    BY <1>4 DEF MoveUpdate
  <2>5. \A u \in User : row.active /\ row.user = u => \A f \in Employee \ {e} : ~ Holds(f, u)
    BY <2>1, <2>3, AccountsAssumption DEF OneActiveLink, Holds, LinkedTo
  <2>6. e \notin undone' => /\ row.access = "ACTIVE" => row.user # Nobody
                            /\ row.access = "NOT_LINKED" => row.user = Nobody
    BY <2>1, <2>3, <2>4 DEF AccessMatchesLink
  <2>7. emp' \in [Employee -> EmpRow] /\ OneActiveLink' /\ AccessMatchesLink'
    BY <2>1, <2>2, <2>3, <2>4, <2>5, <2>6, RowStep DEF row
  <2>8. req' \in [Proc -> ReqType] /\ RequestInv'
    <3>1. CASE Return(p)
      BY <3>1, ReturnStep
    <3>2. CASE req' = [req EXCEPT ![p].pc = "sync", ![p].user = emp[e].user]
      <4>1. [req[p] EXCEPT !.pc = "sync", !.user = emp[e].user] \in ReqType
        BY <1>1, <1>2, <2>1 DEF ReqType
      <4> QED BY <1>1, <2>1, <3>2, <4>1, <1>4, ZenonT(60) DEF RequestInv, TypeOK, ReqType, MoveUpdate, At
    <3> QED BY <1>4, <3>1, <3>2 DEF MoveUpdate
  <2> QED BY <1>3, <1>4, <2>7, <2>8 DEF MoveUpdate, TypeOK
<1>5. CASE Sync(p)
  <2>1. req[p].branch \in Branch
    BY <1>5 DEF Sync, RequestInv
  <2>2. home' \in [User -> Branch]
    BY <1>5, <2>1 DEF Sync, TypeOK
  <2>3. req' \in [Proc -> ReqType] /\ RequestInv'
    <3>1. CASE Return(p)
      BY <3>1, ReturnStep
    <3>2. CASE Goto(p, "undo")
      <4>1. [req[p] EXCEPT !.pc = "undo"] \in ReqType
        BY <1>1 DEF ReqType
      <4> QED BY <1>1, <3>2, <4>1 DEF Goto, RequestInv, TypeOK, ReqType
    <3>3. CASE req' = [req EXCEPT ![p].pc = "undo", ![p].unheard = TRUE]
      <4>1. [req[p] EXCEPT !.pc = "undo", !.unheard = TRUE] \in ReqType
        BY <1>1 DEF ReqType
      <4> QED BY <1>1, <3>3, <4>1 DEF RequestInv, TypeOK, ReqType
    <3> QED BY <1>5, <3>1, <3>2, <3>3 DEF Sync
  <2>4. OneActiveLink' /\ AccessMatchesLink'
    BY <1>5, SameRowsStep DEF Sync
  <2> QED BY <1>3, <1>5, <2>2, <2>3, <2>4 DEF Sync, TypeOK
<1>6. CASE UndoMove(p)
  <2>1. e \in Employee /\ req[p].oldBranch \in Branch
    BY <1>6 DEF UndoMove, At, RequestInv
  <2> DEFINE row == [emp[e] EXCEPT !.branch = req[p].oldBranch]
  <2>2. emp' = [emp EXCEPT ![e] = row] /\ undone' = undone
    BY <1>6 DEF UndoMove, BranchBack
  <2>3. row \in EmpRow /\ row.active = emp[e].active /\ row.user = emp[e].user /\ row.access = emp[e].access
    BY <2>1, <1>2, RowFieldType DEF EmpRow
  <2> HIDE DEF row
  <2>4. \A u \in User : row.active /\ row.user = u => \A f \in Employee \ {e} : ~ Holds(f, u)
    BY <2>1, <2>3, AccountsAssumption DEF OneActiveLink, Holds, LinkedTo
  <2>5. e \notin undone' => /\ row.access = "ACTIVE" => row.user # Nobody
                            /\ row.access = "NOT_LINKED" => row.user = Nobody
    BY <2>1, <2>2, <2>3 DEF AccessMatchesLink
  <2>6. emp' \in [Employee -> EmpRow] /\ OneActiveLink' /\ AccessMatchesLink'
    BY <2>1, <2>2, <2>3, <2>4, <2>5, RowStep
  <2>7. req' \in [Proc -> ReqType] /\ RequestInv'
    BY <1>6, ReturnStep DEF UndoMove
  <2> QED BY <1>3, <1>6, <2>6, <2>7 DEF UndoMove, TypeOK
<1>7. CASE UndoLink(p)
  <2>1. e \in Employee
    BY <1>7 DEF UndoLink, At, RequestInv
  <2>2. undone' = undone \cup {e}
    BY <1>7 DEF UndoLink
  <2>3. emp' \in [Employee -> EmpRow] /\ OneActiveLink' /\ AccessMatchesLink'
    <3>1. CASE emp' = emp
      BY <2>2, <3>1, SameRowsStep DEF TypeOK
    <3>2. CASE /\ ~ IndexRefuses(e, emp[e].active, FormerUser(p))
               /\ emp' = [emp EXCEPT ![e].user = FormerUser(p)]
      <4> DEFINE row == [emp[e] EXCEPT !.user = req[p].oldUser]
      <4>1. emp' = [emp EXCEPT ![e] = row]
        BY <3>2 DEF FormerUser
      <4>2. row \in EmpRow /\ row.active = emp[e].active /\ row.user = req[p].oldUser
        BY <2>1, <1>1, <1>2, RowFieldType DEF EmpRow
      <4> HIDE DEF row
      <4>3. \A u \in User : row.active /\ row.user = u => \A f \in Employee \ {e} : ~ Holds(f, u)
        BY <3>2, <4>2 DEF IndexRefuses, FormerUser
      <4> QED BY <2>1, <2>2, <4>1, <4>2, <4>3, RowStep
    <3> QED BY <1>7, <3>1, <3>2 DEF UndoLink
  <2>4. req' \in [Proc -> ReqType] /\ RequestInv'
    BY <1>7, ReturnStep DEF UndoLink
  <2> QED BY <1>3, <1>7, <2>1, <2>2, <2>3, <2>4 DEF UndoLink, TypeOK
<1>8. CASE LinkUpdate(p)
  <2>1. e \in Employee /\ req[p].user \in User
    BY <1>8 DEF LinkUpdate, At, RequestInv
  <2>2. CASE Return(p) /\ UNCHANGED emp
    <3>1. req' \in [Proc -> ReqType] /\ RequestInv'
      BY <2>2, ReturnStep
    <3>2. OneActiveLink' /\ AccessMatchesLink'
      BY <1>8, <2>2, SameRowsStep DEF LinkUpdate
    <3> QED BY <1>3, <1>8, <2>2, <3>1, <3>2 DEF LinkUpdate, TypeOK
  <2>3. CASE /\ ~ IndexRefuses(e, emp[e].active, req[p].user)
             /\ emp' = [emp EXCEPT ![e].user = req[p].user, ![e].access = "ACTIVE"]
             /\ req' = [req EXCEPT ![p].pc = "sync", ![p].branch = emp[e].branch]
    <3> DEFINE row == [emp[e] EXCEPT !.user = req[p].user, !.access = "ACTIVE"]
    <3>1. emp' = [emp EXCEPT ![e] = row] /\ undone' = undone
      BY <1>8, <2>1, <2>3 DEF LinkUpdate, TypeOK
    <3>2. /\ row \in EmpRow /\ row.active = emp[e].active
          /\ row.user = req[p].user /\ row.access = "ACTIVE"
      BY <2>1, <1>2 DEF EmpRow, Access
    <3> HIDE DEF row
    <3>3. \A u \in User : row.active /\ row.user = u => \A f \in Employee \ {e} : ~ Holds(f, u)
      BY <2>3, <3>2 DEF IndexRefuses
    <3>4. emp' \in [Employee -> EmpRow] /\ OneActiveLink' /\ AccessMatchesLink'
      BY <2>1, <3>1, <3>2, <3>3, AccountsAssumption, RowStep
    <3>5. req' \in [Proc -> ReqType] /\ RequestInv'
      <4>1. [req[p] EXCEPT !.pc = "sync", !.branch = emp[e].branch] \in ReqType
        BY <1>1, <1>2, <2>1 DEF ReqType
      <4> QED BY <1>1, <1>2, <2>1, <2>3, <4>1, <1>8, ZenonT(60) DEF RequestInv, TypeOK, ReqType, LinkUpdate, At
    <3> QED BY <1>3, <1>8, <3>4, <3>5 DEF LinkUpdate, TypeOK
  <2> QED BY <1>8, <2>2, <2>3 DEF LinkUpdate
<1>9. CASE ActivationUpdate(p)
  <2>1. e \in Employee
    BY <1>9 DEF ActivationUpdate, At, RequestInv
  <2> DEFINE row == [emp[e] EXCEPT !.access = "PENDING_ACTIVATION"]
  <2>2. emp' = [emp EXCEPT ![e] = row] /\ undone' = undone
    BY <1>9 DEF ActivationUpdate
  <2>3. /\ row \in EmpRow /\ row.active = emp[e].active /\ row.user = emp[e].user
        /\ row.access = "PENDING_ACTIVATION"
    BY <2>1, <1>2 DEF EmpRow, Access
  <2> HIDE DEF row
  <2>4. \A u \in User : row.active /\ row.user = u => \A f \in Employee \ {e} : ~ Holds(f, u)
    BY <2>1, <2>3, AccountsAssumption DEF OneActiveLink, Holds, LinkedTo
  <2>5. emp' \in [Employee -> EmpRow] /\ OneActiveLink' /\ AccessMatchesLink'
    BY <2>1, <2>2, <2>3, <2>4, RowStep
  <2>6. req' \in [Proc -> ReqType] /\ RequestInv'
    BY <1>9, ReturnStep DEF ActivationUpdate
  <2> QED BY <1>3, <1>9, <2>5, <2>6 DEF ActivationUpdate, TypeOK
<1>10. CASE DeactivateUpdate(p)
  <2>1. e \in Employee
    BY <1>10 DEF DeactivateUpdate, At, RequestInv
  <2> DEFINE row == [emp[e] EXCEPT !.active = FALSE]
  <2>2. emp' = [emp EXCEPT ![e] = row] /\ undone' = undone
    BY <1>10 DEF DeactivateUpdate
  <2>3. row \in EmpRow /\ ~ row.active /\ row.user = emp[e].user /\ row.access = emp[e].access
    BY <2>1, <1>2 DEF EmpRow
  <2> HIDE DEF row
  <2>4. e \notin undone' => /\ row.access = "ACTIVE" => row.user # Nobody
                            /\ row.access = "NOT_LINKED" => row.user = Nobody
    BY <2>1, <2>2, <2>3 DEF AccessMatchesLink
  <2>5. emp' \in [Employee -> EmpRow] /\ OneActiveLink' /\ AccessMatchesLink'
    BY <2>1, <2>2, <2>3, <2>4, RowStep
  <2>6. req' \in [Proc -> ReqType] /\ RequestInv'
    BY <1>10, ReturnStep DEF DeactivateUpdate
  <2> QED BY <1>3, <1>10, <2>5, <2>6 DEF DeactivateUpdate, TypeOK
<1>11. CASE ReactivateUpdate(p)
  <2>1. e \in Employee
    BY <1>11 DEF ReactivateUpdate, At, RequestInv
  <2>2. emp' \in [Employee -> EmpRow] /\ OneActiveLink' /\ AccessMatchesLink'
    <3>1. CASE emp' = emp
      BY <1>11, <3>1, SameRowsStep DEF TypeOK, ReactivateUpdate
    <3>2. CASE ~ IndexRefuses(e, TRUE, emp[e].user) /\ emp' = [emp EXCEPT ![e].active = TRUE]
      <4> DEFINE row == [emp[e] EXCEPT !.active = TRUE]
      <4>1. emp' = [emp EXCEPT ![e] = row] /\ undone' = undone
        BY <1>11, <3>2 DEF ReactivateUpdate
      <4>2. row \in EmpRow /\ row.user = emp[e].user /\ row.access = emp[e].access
        BY <2>1, <1>2 DEF EmpRow
      <4> HIDE DEF row
      <4>3. \A u \in User : row.active /\ row.user = u => \A f \in Employee \ {e} : ~ Holds(f, u)
        BY <3>2, <4>2 DEF IndexRefuses
      <4>4. e \notin undone' => /\ row.access = "ACTIVE" => row.user # Nobody
                                /\ row.access = "NOT_LINKED" => row.user = Nobody
        BY <2>1, <4>1, <4>2 DEF AccessMatchesLink
      <4> QED BY <2>1, <4>1, <4>2, <4>3, <4>4, RowStep
    <3> QED BY <1>11, <3>1, <3>2 DEF ReactivateUpdate
  <2>3. req' \in [Proc -> ReqType] /\ RequestInv'
    BY <1>11, ReturnStep DEF ReactivateUpdate
  <2> QED BY <1>3, <1>11, <2>2, <2>3 DEF ReactivateUpdate, TypeOK
<1>12. CASE RevokeUpdate(p) \/ Lose(p)
  <2>1. /\ Return(p) /\ owners' \subseteq owners
        /\ UNCHANGED <<emp, challenge, home, made, undone, raced>>
    BY <1>12 DEF RevokeUpdate, Lose
  <2>2. req' \in [Proc -> ReqType] /\ RequestInv'
    BY <2>1, ReturnStep
  <2>3. OneActiveLink' /\ AccessMatchesLink'
    BY <2>1, SameRowsStep
  <2> QED BY <1>3, <2>1, <2>2, <2>3 DEF TypeOK
<1> QED BY <1>4, <1>5, <1>6, <1>7, <1>8, <1>9, <1>10, <1>11, <1>12 DEF Step

\* Requests answered in one step, and a forgotten challenge.
LEMMA OneStatement ==
    ASSUME AccountsInv, NEW e \in Employee,
           Unlink(e) \/ AssignOwner(e) \/ SpendInVain(e) \/ ForgetChallenge(e)
    PROVE  AccountsInv'
<1> USE DEF AccountsInv, LinkInv
<1>1. emp[e] \in EmpRow /\ emp[e].user \in User \cup {Nobody}
  BY DEF TypeOK, EmpRow
<1>2. req' \in [Proc -> ReqType] /\ RequestInv'
  <2>1. CASE req' = Disturbed
    BY <2>1, DisturbedStep DEF RequestInv
  <2>2. CASE req' = req
    BY <2>2 DEF RequestInv, TypeOK
  <2> QED BY <2>1, <2>2 DEF Unlink, AssignOwner, SpendInVain, ForgetChallenge
<1>3. made' \in 0 .. MaxRequests
  BY CountedStep DEF Unlink, AssignOwner, SpendInVain, ForgetChallenge, TypeOK
<1>4. CASE Unlink(e)
  <2> DEFINE row == Unlinked(emp[e])
  <2>1. emp' = [emp EXCEPT ![e] = row] /\ undone' = undone
    BY <1>4 DEF Unlink
  <2>2. row \in EmpRow /\ row.user = Nobody /\ row.access = "NOT_LINKED"
    BY <1>1 DEF Unlinked, EmpRow, Access
  <2> HIDE DEF row
  <2>3. \A u \in User : row.active /\ row.user = u => \A f \in Employee \ {e} : ~ Holds(f, u)
    BY <2>2, AccountsAssumption
  <2>4. emp' \in [Employee -> EmpRow] /\ OneActiveLink' /\ AccessMatchesLink'
    BY <2>1, <2>2, <2>3, RowStep
  <2> QED BY <1>2, <1>3, <1>4, <2>4 DEF Unlink, TypeOK
<1>5. CASE ~ Unlink(e)
  <2>1. UNCHANGED <<emp, home, undone, raced>> /\ challenge' \subseteq challenge
        /\ owners' \subseteq owners \cup (User \cap {emp[e].user})
    BY <1>1, <1>5 DEF AssignOwner, SpendInVain, ForgetChallenge
  <2>2. OneActiveLink' /\ AccessMatchesLink'
    BY <2>1, SameRowsStep
  <2> QED BY <1>2, <1>3, <2>1, <2>2 DEF TypeOK
<1> QED BY <1>4, <1>5

LEMMA NextAccounts == AccountsInv /\ [Next]_vars => AccountsInv'
<1> SUFFICES ASSUME AccountsInv, [Next]_vars PROVE AccountsInv'
  OBVIOUS
<1>1. CASE \E p \in Proc : Request(p) \/ Step(p) \/ Lose(p)
  BY <1>1, StartStep, LaterStep
<1>2. CASE \E e \in Employee : Unlink(e) \/ AssignOwner(e) \/ SpendInVain(e) \/ ForgetChallenge(e)
  BY <1>2, OneStatement
<1>3. CASE UNCHANGED vars
  <2>1. OneActiveLink' /\ AccessMatchesLink'
    BY <1>3, SameRowsStep DEF AccountsInv, LinkInv, vars
  <2>2. TypeOK' /\ RequestInv'
    BY <1>3 DEF AccountsInv, LinkInv, TypeOK, RequestInv, vars
  <2> QED BY <2>1, <2>2 DEF AccountsInv, LinkInv
<1> QED BY <1>1, <1>2, <1>3 DEF Next

\* Whatever the requests, their order, the answers lost and the crashes, two
\* active employees never hold one account, and the access of an employee says
\* whether there is one, unless a link of theirs was taken back (employees.ts).
THEOREM LinksAreSound == Spec => []LinkInv
<1>1. AccountsInv => LinkInv
  BY DEF AccountsInv
<1> QED BY <1>1, InitAccounts, NextAccounts, PTL DEF Spec

-----------------------------------------------------------------------------
(* The last owner.  While no two revocations have overlapped there is at   *)
(* most one in flight, and it leaves an owner behind: nothing but a        *)
(* revocation takes the role away.                                         *)

Revoking(p) == req[p].op = "revoke"

OwnersInv ==
    raced \/ /\ owners # {}
             /\ \A p, q \in Proc : Revoking(p) /\ Revoking(q) => p = q
             /\ \A p \in Proc : Revoking(p) => owners \ {req[p].user} # {}

\* A step that takes no role away and starts no revocation.
LEMMA HarmlessStep ==
    ASSUME OwnersInv, raced' = raced, owners \subseteq owners',
           \A q \in Proc : Revoking(q)' => Revoking(q) /\ req'[q].user = req[q].user
    PROVE  OwnersInv'
BY DEF OwnersInv, Revoking

\* Two owners or more: one is left when another goes.
LEMMA AnotherOwner ==
    ASSUME TypeOK, ~ LastOwner, NEW u \in owners
    PROVE  owners \ {u} # {}
<1> SUFFICES ASSUME owners = {u} PROVE FALSE
  OBVIOUS
<1>1. Cardinality(owners) = 1
  BY FS_Singleton
<1> QED BY <1>1 DEF LastOwner

LEMMA StartOwners ==
    ASSUME AccountsInv, OwnersInv, NEW p \in Proc, Request(p)
    PROVE  OwnersInv'
<1>1. ASSUME NEW op \in Ops, NEW e \in Employee \cup {"none"}, NEW row \in ReqType,
             Begin(p, op, e, row)
      PROVE  /\ ~ Revoking(p)
             /\ Revoking(p)' <=> op = "revoke"
             /\ req'[p].user = row.user
             /\ \A q \in Proc \ {p} : /\ Revoking(q)' <=> Revoking(q)
                                      /\ req'[q].user = req[q].user
  <2>1. TypeOK /\ RequestInv
    BY DEF AccountsInv, LinkInv
  <2>2. PICK v \in BOOLEAN : req' = [Disturbed EXCEPT ![p] = [row EXCEPT !.op = op, !.e = e, !.alone = v]]
    BY <1>1 DEF Begin
  <2>3. [row EXCEPT !.op = op, !.e = e, !.alone = v].op = op
        /\ [row EXCEPT !.op = op, !.e = e, !.alone = v].user = row.user
    BY DEF ReqType
  <2>4. req'[p].op = op /\ req'[p].user = row.user
        /\ \A q \in Proc \ {p} : req'[q] = Disturbed[q]
    BY <2>1, <2>2, <2>3, DisturbedStep
  <2> QED BY <1>1, <2>1, <2>4, DisturbedStep DEF Begin, InFlight, Revoking
<1>2. /\ [Idle EXCEPT !.pc = "update"] \in ReqType
      /\ \A u \in User : /\ [Idle EXCEPT !.pc = "update", !.user = u] \in ReqType
                         /\ [Idle EXCEPT !.pc = "update", !.user = u].user = u
  BY DEF Idle, ReqType
<1>3. TypeOK
  BY DEF AccountsInv, LinkInv
<1>4. \A e \in Employee : /\ emp[e].branch \in Branch /\ emp[e].user \in User \cup {Nobody}
                          /\ Aligned(e) \in BOOLEAN
  BY <1>3 DEF TypeOK, EmpRow, Aligned
<1>5. ASSUME NEW u \in User, RevokeStart(p, u)
      PROVE  OwnersInv'
  <2> DEFINE row == [Idle EXCEPT !.pc = "update", !.user = u]
  <2>1. Begin(p, "revoke", "none", row) /\ row \in ReqType /\ row.user = u
    BY <1>2, <1>5 DEF RevokeStart
  <2> HIDE DEF row
  <2>2. /\ Revoking(p)' /\ req'[p].user = u
        /\ \A q \in Proc \ {p} : Revoking(q)' <=> Revoking(q)
    BY <1>1, <2>1 DEF Ops
  <2>3. owners \ {u} # {} /\ owners' = owners
    BY <1>3, <1>5, AnotherOwner DEF RevokeStart
  <2>4. raced' \/ \A q \in Proc : ~ Revoking(q)
    BY <1>5 DEF RevokeStart, Revoking
  <2> QED BY <2>2, <2>3, <2>4 DEF OwnersInv
<1>6. ASSUME NEW op \in Ops \ {"revoke"}, NEW e \in Employee, NEW row \in ReqType,
             Begin(p, op, e, row), UNCHANGED <<owners, raced>>
      PROVE  OwnersInv'
  BY <1>1, <1>6, HarmlessStep
<1>7. ASSUME NEW e \in Employee, NEW b \in Branch, MoveStart(p, e, b)
      PROVE  OwnersInv'
  <2> DEFINE row == [Idle EXCEPT !.pc = "update", !.branch = b, !.oldBranch = emp[e].branch,
                                 !.oldUser = emp[e].user, !.aligned = Aligned(e)]
  <2>1. row \in ReqType
    BY <1>4 DEF Idle, ReqType
  <2> QED BY <1>6, <1>7, <2>1 DEF MoveStart, Ops
<1>8. ASSUME NEW e \in Employee, NEW u \in User, NEW spend \in BOOLEAN, LinkStart(p, e, u, spend)
      PROVE  OwnersInv'
  <2> DEFINE row == [Idle EXCEPT !.pc = "update", !.user = u, !.oldBranch = emp[e].branch,
                                 !.oldUser = emp[e].user, !.aligned = Aligned(e)]
  <2>1. row \in ReqType
    BY <1>4 DEF Idle, ReqType
  <2> QED BY <1>6, <1>8, <2>1 DEF LinkStart, Ops
<1>9. ASSUME NEW e \in Employee, NEW staff \in BOOLEAN,
             ActivationStart(p, e) \/ DeactivateStart(p, e, staff) \/ ReactivateStart(p, e, staff)
      PROVE  OwnersInv'
  BY <1>2, <1>6, <1>9 DEF ActivationStart, DeactivateStart, ReactivateStart, Ops
<1> QED BY <1>5, <1>7, <1>8, <1>9 DEF Request

LEMMA LaterOwners ==
    ASSUME AccountsInv, OwnersInv, NEW p \in Proc, Step(p) \/ Lose(p)
    PROVE  OwnersInv'
<1>1. req \in [Proc -> ReqType] /\ req[p] \in ReqType
  BY DEF AccountsInv, LinkInv, TypeOK
<1>2. ASSUME Return(p)
      PROVE  ~ Revoking(p)' /\ \A q \in Proc \ {p} : req'[q] = req[q]
  BY <1>1, <1>2 DEF Return, Revoking, Idle
<1>3. CASE RevokeUpdate(p)
  <2>1. raced' = raced /\ owners' = owners \ {req[p].user} /\ Revoking(p)
    BY <1>3 DEF RevokeUpdate, At, Revoking
  <2>2. ~ Revoking(p)' /\ \A q \in Proc \ {p} : req'[q] = req[q]
    BY <1>2, <1>3 DEF RevokeUpdate
  <2> QED BY <2>1, <2>2 DEF OwnersInv, Revoking
<1>4. CASE ~ RevokeUpdate(p)
  <2>1. UNCHANGED <<owners, raced>>
    BY <1>4 DEF Step, Lose, MoveUpdate, Sync, UndoMove, UndoLink, LinkUpdate,
                ActivationUpdate, DeactivateUpdate, ReactivateUpdate
  <2>2. ~ Revoking(p)' /\ \A q \in Proc \ {p} : req'[q] = req[q]
    <3>1. CASE Return(p)
      BY <1>2, <3>1
    <3>2. CASE MoveUpdate(p) /\ ~ Return(p)
      BY <1>1, <3>2 DEF MoveUpdate, At, Revoking, ReqType
    <3>3. CASE Sync(p) /\ ~ Return(p)
      BY <1>1, <3>3 DEF Sync, Calling, Goto, Revoking, ReqType
    <3>4. CASE LinkUpdate(p) /\ ~ Return(p)
      BY <1>1, <3>4 DEF LinkUpdate, At, Revoking, ReqType
    <3> QED BY <1>4, <3>1, <3>2, <3>3, <3>4
            DEF Step, Lose, UndoMove, UndoLink, ActivationUpdate, DeactivateUpdate, ReactivateUpdate
  <2> QED BY <2>1, <2>2, HarmlessStep DEF Revoking
<1> QED BY <1>3, <1>4

LEMMA NextOwners == AccountsInv /\ OwnersInv /\ [Next]_vars => OwnersInv'
<1> SUFFICES ASSUME AccountsInv, OwnersInv, [Next]_vars PROVE OwnersInv'
  OBVIOUS
<1>1. CASE \E p \in Proc : Request(p) \/ Step(p) \/ Lose(p)
  BY <1>1, StartOwners, LaterOwners
<1>2. ASSUME NEW e \in Employee,
             Unlink(e) \/ AssignOwner(e) \/ SpendInVain(e) \/ ForgetChallenge(e)
      PROVE  OwnersInv'
  <2>1. raced' = raced /\ owners \subseteq owners'
    BY <1>2 DEF Unlink, AssignOwner, SpendInVain, ForgetChallenge
  <2>2. req' = Disturbed \/ req' = req
    BY <1>2 DEF Unlink, AssignOwner, SpendInVain, ForgetChallenge
  <2> QED BY <2>1, <2>2, DisturbedStep, HarmlessStep DEF AccountsInv, LinkInv, Revoking
<1>3. CASE UNCHANGED vars
  BY <1>3, HarmlessStep DEF vars, Revoking
<1> QED BY <1>1, <1>2, <1>3 DEF Next

\* An organization keeps an owner as long as no two revocations overlap, with
\* any number of other requests in between (revokeEmployeeRole counts first and
\* revokes afterwards).
THEOREM OwnerAlwaysRemains == Spec => []OwnerRemains
<1>1. Init => OwnersInv
  BY AccountsAssumption DEF Init, OwnersInv, Revoking, Idle
<1>2. OwnersInv => OwnerRemains
  BY DEF OwnersInv, OwnerRemains
<1> QED BY <1>1, <1>2, InitAccounts, NextAccounts, NextOwners, PTL DEF Spec

-----------------------------------------------------------------------------
(* HR and the platform.  A move or a link that nobody disturbs finds the   *)
(* rows at each of its statements as its previous one left them.           *)

\* The request has not written yet.
Before(p) ==
    LET e == req[p].e
    IN Aligned(e) /\ emp[e].branch = req[p].oldBranch /\ emp[e].user = req[p].oldUser

\* HR has the new branch, the platform still has the old one.
Moved(p) ==
    LET e == req[p].e
    IN /\ emp[e].user = req[p].user /\ emp[e].branch = req[p].branch
       /\ home[req[p].user] = req[p].oldBranch

\* HR has the new account; the old one is as it was, and still to be had.
Linked(p) ==
    LET e == req[p].e
    IN /\ emp[e].user = req[p].user /\ emp[e].branch = req[p].branch
       /\ req[p].oldUser # Nobody => home[req[p].oldUser] = emp[e].branch
       /\ ~ IndexRefuses(e, emp[e].active, req[p].oldUser)

AsLeft(p) ==
    /\ req[p].pc = "update" => Before(p)
    /\ req[p].pc \in {"sync", "undo"} => IF req[p].op = "move" THEN Moved(p) ELSE Linked(p)

AloneInv ==
    \A p \in Proc :
        Calling(p) /\ req[p].alone =>
            /\ \A q \in Proc \ {p} : ~ InFlight(q)
            /\ req[p].aligned /\ ~ req[p].unheard => AsLeft(p)

\* After a request that did not begin by itself, or none, nobody in flight is alone.
LEMMA DisturbedAlone ==
    ASSUME AccountsInv, req' = Disturbed
    PROVE  AloneInv'
<1>1. req \in [Proc -> ReqType] /\ \A q \in Proc : req[q] \in ReqType
  BY DEF AccountsInv, LinkInv, TypeOK
<1>2. \A q \in Proc : req'[q].op = req[q].op /\ (req'[q].alone <=> ~ InFlight(q))
  BY <1>1 DEF Disturbed, ReqType
<1> QED BY <1>2 DEF AloneInv, Calling, InFlight

LEMMA BegunAlone ==
    ASSUME AccountsInv, NEW p \in Proc, NEW op \in Ops, NEW e \in Employee \cup {"none"},
           NEW row \in ReqType, Begin(p, op, e, row), UNCHANGED <<emp, home>>,
           op \in {"move", "link"} =>
               /\ e \in Employee /\ row.pc = "update"
               /\ row.aligned => Aligned(e)
               /\ emp[e].branch = row.oldBranch /\ emp[e].user = row.oldUser
    PROVE  AloneInv'
<1>1. req \in [Proc -> ReqType] /\ \A q \in Proc : req[q] \in ReqType
  BY DEF AccountsInv, LinkInv, TypeOK
<1>2. \A q \in Proc : Disturbed[q].op = req[q].op /\ (Disturbed[q].alone <=> ~ InFlight(q))
  BY <1>1 DEF Disturbed, ReqType
<1> DEFINE new == [row EXCEPT !.op = op, !.e = e, !.alone = \A q \in Proc : ~ InFlight(q)]
<1>3. /\ new.op = op /\ new.e = e /\ new.pc = row.pc /\ new.aligned = row.aligned
      /\ new.oldBranch = row.oldBranch /\ new.oldUser = row.oldUser
      /\ new.alone <=> \A q \in Proc : ~ InFlight(q)
  BY DEF ReqType
<1> HIDE DEF new
<1>4. \A q \in Proc : req'[q] = IF q = p THEN new ELSE Disturbed[q]
  BY <1>1 DEF Begin, Disturbed, new
<1>5. \A q \in Proc \ {p} : req'[q].op = req[q].op /\ (req'[q].alone <=> ~ InFlight(q))
  BY <1>2, <1>4
<1>6. ASSUME Calling(p)', new.alone
      PROVE  /\ \A q \in Proc \ {p} : ~ InFlight(q)'
             /\ new.aligned => AsLeft(p)'
  <2>1. \A q \in Proc \ {p} : ~ InFlight(q)'
    BY <1>3, <1>5, <1>6 DEF InFlight
  <2>2. op \in {"move", "link"} /\ req'[p] = new
    BY <1>3, <1>4, <1>6 DEF Calling
  <2>3. new.aligned => AsLeft(p)'
    BY <1>3, <2>2 DEF AsLeft, Before, Aligned
  <2> QED BY <2>1, <2>3
<1>7. ASSUME NEW q \in Proc, Calling(q)', req'[q].alone
      PROVE  q = p
  BY <1>5, <1>7 DEF Calling, InFlight
<1>8. req'[p] = new
  BY <1>4
<1> QED BY <1>6, <1>7, <1>8 DEF AloneInv

LEMMA StartAlone ==
    ASSUME AccountsInv, NEW p \in Proc, Request(p)
    PROVE  AloneInv'
<1>1. TypeOK
  BY DEF AccountsInv, LinkInv
<1>2. \A e \in Employee : /\ emp[e].branch \in Branch /\ emp[e].user \in User \cup {Nobody}
                          /\ Aligned(e) \in BOOLEAN
  BY <1>1 DEF TypeOK, EmpRow, Aligned
<1>3. ASSUME NEW e \in Employee, NEW b \in Branch, MoveStart(p, e, b)
      PROVE  AloneInv'
  <2> DEFINE row == [Idle EXCEPT !.pc = "update", !.branch = b, !.oldBranch = emp[e].branch,
                                 !.oldUser = emp[e].user, !.aligned = Aligned(e)]
  <2>1. /\ row \in ReqType /\ row.pc = "update" /\ row.aligned = Aligned(e)
        /\ row.oldBranch = emp[e].branch /\ row.oldUser = emp[e].user
    BY <1>2 DEF Idle, ReqType
  <2>2. Begin(p, "move", e, row) /\ UNCHANGED <<emp, home>>
    BY <1>3 DEF MoveStart
  <2> HIDE DEF row
  <2> QED BY <2>1, <2>2, BegunAlone DEF Ops
<1>4. ASSUME NEW e \in Employee, NEW u \in User, NEW spend \in BOOLEAN, LinkStart(p, e, u, spend)
      PROVE  AloneInv'
  <2> DEFINE row == [Idle EXCEPT !.pc = "update", !.user = u, !.oldBranch = emp[e].branch,
                                 !.oldUser = emp[e].user, !.aligned = Aligned(e)]
  <2>1. /\ row \in ReqType /\ row.pc = "update" /\ row.aligned = Aligned(e)
        /\ row.oldBranch = emp[e].branch /\ row.oldUser = emp[e].user
    BY <1>2 DEF Idle, ReqType
  <2>2. Begin(p, "link", e, row) /\ UNCHANGED <<emp, home>>
    BY <1>4 DEF LinkStart
  <2> HIDE DEF row
  <2> QED BY <2>1, <2>2, BegunAlone DEF Ops
<1>5. /\ [Idle EXCEPT !.pc = "update"] \in ReqType
      /\ \A u \in User : [Idle EXCEPT !.pc = "update", !.user = u] \in ReqType
  BY DEF Idle, ReqType
<1>6. ASSUME NEW e \in Employee, NEW staff \in BOOLEAN,
             ActivationStart(p, e) \/ DeactivateStart(p, e, staff) \/ ReactivateStart(p, e, staff)
      PROVE  AloneInv'
  BY <1>5, <1>6, BegunAlone DEF ActivationStart, DeactivateStart, ReactivateStart, Ops
<1>7. ASSUME NEW u \in User, RevokeStart(p, u)
      PROVE  AloneInv'
  BY <1>5, <1>7, BegunAlone DEF RevokeStart, Ops
<1> QED BY <1>3, <1>4, <1>6, <1>7 DEF Request

\* The statements of a move or a link that is alone.
LEMMA NextStatement ==
    ASSUME AccountsInv, NEW p \in Proc, NEW e \in Employee, req[p].e = e,
           MoveUpdate(p) \/ Sync(p) \/ UndoMove(p) \/ UndoLink(p) \/ LinkUpdate(p),
           req[p].aligned, ~ req[p].unheard, AsLeft(p)
    PROVE  /\ Return(p) => Aligned(e)'
           /\ ~ Return(p) /\ ~ req'[p].unheard => AsLeft(p)'
<1>1. TypeOK /\ RequestInv /\ req[p] \in ReqType /\ req \in [Proc -> ReqType]
  BY DEF AccountsInv, LinkInv, TypeOK
<1>2. \A f \in Employee : emp[f] \in EmpRow /\ emp[f].user \in User \cup {Nobody} /\ emp[f].branch \in Branch
  BY <1>1 DEF TypeOK, EmpRow
<1>3. Return(p) => req'[p].op = "none" /\ req'[p].pc = "idle" /\ ~ req'[p].unheard
  BY <1>1 DEF Return, Idle
<1>4. CASE MoveUpdate(p)
  <2>1. e \in Employee /\ req[p].pc = "update" /\ req[p].op = "move" /\ Before(p)
        /\ req[p].branch \in Branch
    BY <1>1, <1>4 DEF MoveUpdate, At, AsLeft, RequestInv
  <2>2. emp'[e] = [emp[e] EXCEPT !.branch = req[p].branch] /\ home' = home
    BY <1>1, <1>4, <2>1 DEF MoveUpdate, TypeOK
  <2>3. emp'[e].branch = req[p].branch /\ emp'[e].user = emp[e].user
    BY <1>2, <2>1, <2>2 DEF EmpRow
  <2>4. CASE req[p].branch # req[p].oldBranch /\ emp[e].user # Nobody
    <3>1. req' = [req EXCEPT ![p].pc = "sync", ![p].user = emp[e].user]
      BY <1>4, <2>4 DEF MoveUpdate
    <3>2. /\ req'[p].pc = "sync" /\ req'[p].op = "move" /\ req'[p].user = emp[e].user /\ req'[p].e = e
          /\ req'[p].branch = req[p].branch /\ req'[p].oldBranch = req[p].oldBranch
      BY <1>1, <2>1, <3>1 DEF ReqType
    <3>3. AsLeft(p)'
      BY <2>1, <2>2, <2>3, <2>4, <3>2 DEF AsLeft, Moved, Before, Aligned
    <3>4. ~ Return(p)
      BY <1>3, <3>2
    <3> QED BY <3>3, <3>4
  <2>5. CASE ~ (req[p].branch # req[p].oldBranch /\ emp[e].user # Nobody)
    <3>1. Return(p)
      BY <1>4, <2>5 DEF MoveUpdate
    <3>2. Aligned(e)'
      BY <2>1, <2>2, <2>3, <2>5 DEF Before, Aligned
    <3> QED BY <3>1, <3>2
  <2> QED BY <2>4, <2>5
<1>5. CASE Sync(p)
  <2>1. /\ e \in Employee /\ req[p].pc = "sync" /\ req[p].op \in {"move", "link"}
        /\ IF req[p].op = "move" THEN Moved(p) ELSE Linked(p)
        /\ emp' = emp
    BY <1>1, <1>5 DEF Sync, Calling, AsLeft, RequestInv
  <2>2. emp[e].user = req[p].user /\ emp[e].branch = req[p].branch
    BY <2>1 DEF Moved, Linked
  <2>3. CASE home' = [home EXCEPT ![req[p].user] = req[p].branch] /\ Return(p)
    BY <1>1, <1>2, <2>1, <2>2, <2>3 DEF Aligned, TypeOK
  <2>4. CASE Goto(p, "undo") /\ home' = home
    <3>1. req' = [req EXCEPT ![p] = [req[p] EXCEPT !.pc = "undo"]]
      BY <1>1, <2>4 DEF Goto
    <3>2. /\ req'[p].pc = "undo" /\ req'[p].op = req[p].op /\ req'[p].user = req[p].user /\ req'[p].e = e
          /\ req'[p].branch = req[p].branch /\ req'[p].oldBranch = req[p].oldBranch
          /\ req'[p].oldUser = req[p].oldUser
      BY <1>1, <3>1 DEF ReqType
    <3>3. AsLeft(p)'
      BY <2>1, <2>4, <3>2 DEF AsLeft, Moved, Linked, IndexRefuses, Holds, LinkedTo
    <3>4. ~ Return(p)
      BY <1>3, <3>2
    <3> QED BY <3>3, <3>4
  <2>5. CASE req' = [req EXCEPT ![p].pc = "undo", ![p].unheard = TRUE]
    <3>1. req'[p].pc = "undo" /\ req'[p].unheard
      BY <1>1, <2>5 DEF ReqType
    <3> QED BY <1>3, <3>1
  <2> QED BY <1>5, <2>3, <2>4, <2>5 DEF Sync
<1>6. CASE UndoMove(p)
  <2>1. e \in Employee /\ Moved(p) /\ Return(p) /\ home' = home /\ req[p].oldBranch \in Branch
    BY <1>1, <1>6 DEF UndoMove, At, AsLeft, RequestInv
  <2>2. emp'[e] = [emp[e] EXCEPT !.branch = req[p].oldBranch]
    BY <1>1, <1>6, <2>1 DEF UndoMove, BranchBack, TypeOK
  <2>3. emp'[e].branch = req[p].oldBranch /\ emp'[e].user = emp[e].user
    BY <1>2, <2>1, <2>2 DEF EmpRow
  <2> QED BY <2>1, <2>3 DEF Moved, Aligned
<1>7. CASE UndoLink(p)
  <2>1. e \in Employee /\ Linked(p) /\ Return(p) /\ home' = home
    BY <1>1, <1>7 DEF UndoLink, At, AsLeft, RequestInv
  <2>2. emp' = [emp EXCEPT ![e].user = req[p].oldUser]
    BY <1>7, <2>1 DEF UndoLink, Linked, FormerUser
  <2>3. emp'[e] = [emp[e] EXCEPT !.user = req[p].oldUser]
    BY <1>1, <2>1, <2>2 DEF TypeOK
  <2>4. emp'[e].user = req[p].oldUser /\ emp'[e].branch = emp[e].branch
    BY <1>2, <2>1, <2>3 DEF EmpRow
  <2> QED BY <2>1, <2>4 DEF Linked, Aligned
<1>8. CASE LinkUpdate(p)
  <2>1. e \in Employee /\ req[p].pc = "update" /\ req[p].op = "link" /\ Before(p) /\ home' = home
        /\ req[p].user \in User
    BY <1>1, <1>8 DEF LinkUpdate, At, AsLeft, RequestInv
  <2>2. CASE IndexRefuses(e, emp[e].active, req[p].user)
    BY <1>8, <2>1, <2>2 DEF LinkUpdate, Before, Aligned
  <2>3. CASE ~ IndexRefuses(e, emp[e].active, req[p].user)
    <3>1. /\ emp' = [emp EXCEPT ![e].user = req[p].user, ![e].access = "ACTIVE"]
          /\ req' = [req EXCEPT ![p].pc = "sync", ![p].branch = emp[e].branch]
      BY <1>8, <2>3 DEF LinkUpdate
    <3>2. /\ emp'[e] = [emp[e] EXCEPT !.user = req[p].user, !.access = "ACTIVE"]
          /\ \A f \in Employee \ {e} : emp'[f] = emp[f]
      BY <1>1, <2>1, <3>1 DEF TypeOK
    <3>3. emp'[e].user = req[p].user /\ emp'[e].branch = emp[e].branch /\ emp'[e].active = emp[e].active
      BY <1>2, <2>1, <3>2 DEF EmpRow
    <3>4. /\ req'[p].pc = "sync" /\ req'[p].op = "link" /\ req'[p].user = req[p].user /\ req'[p].e = e
          /\ req'[p].branch = emp[e].branch /\ req'[p].oldUser = req[p].oldUser
      BY <1>1, <2>1, <3>1 DEF ReqType
    <3>5. ~ IndexRefuses(e, emp[e].active, req[p].oldUser)
      BY <1>2, <2>1 DEF Before, IndexRefuses, Holds, LinkedTo, AccountsInv, LinkInv, OneActiveLink
    <3>6. ~ IndexRefuses(e, emp[e].active, req[p].oldUser)'
      BY <3>2, <3>3, <3>4, <3>5 DEF IndexRefuses, Holds, LinkedTo
    <3>7. Linked(p)'
      BY <2>1, <3>3, <3>4, <3>6 DEF Linked, Before, Aligned
    <3>8. ~ Return(p)
      BY <1>3, <3>4
    <3> QED BY <3>4, <3>7, <3>8 DEF AsLeft
  <2> QED BY <2>2, <2>3
<1> QED BY <1>4, <1>5, <1>6, <1>7, <1>8

LEMMA LaterAlone ==
    ASSUME AccountsInv, AloneInv, NEW p \in Proc, Step(p) \/ Lose(p)
    PROVE  AloneInv'
<1>1. req \in [Proc -> ReqType] /\ req[p] \in ReqType
  BY DEF AccountsInv, LinkInv, TypeOK
<1>2. Return(p) => ~ InFlight(p)' /\ ~ Calling(p)'
  BY <1>1 DEF Return, InFlight, Calling, Idle
<1>3. InFlight(p) /\ \A q \in Proc \ {p} : req'[q] = req[q]
  BY <1>1 DEF Step, Lose, MoveUpdate, Sync, Calling, UndoMove, UndoLink, LinkUpdate,
              ActivationUpdate, DeactivateUpdate, ReactivateUpdate, RevokeUpdate,
              At, InFlight, Return, Goto
<1>4. SUFFICES ASSUME NEW q \in Proc, Calling(q)', req'[q].alone
               PROVE  /\ \A r \in Proc \ {q} : ~ InFlight(r)'
                      /\ req'[q].aligned /\ ~ req'[q].unheard => AsLeft(q)'
  BY DEF AloneInv
<1>5. q = p
  BY <1>3, <1>4 DEF AloneInv, Calling
<1>6. ~ Return(p)
  BY <1>2, <1>4, <1>5
<1>7. /\ MoveUpdate(p) \/ Sync(p) \/ LinkUpdate(p)
      /\ req'[p].op = req[p].op /\ req'[p].alone = req[p].alone /\ req'[p].aligned = req[p].aligned
      /\ ~ req'[p].unheard => ~ req[p].unheard
  <2>1. MoveUpdate(p) \/ Sync(p) \/ LinkUpdate(p)
    BY <1>6 DEF Step, Lose, UndoMove, UndoLink, ActivationUpdate, DeactivateUpdate,
                ReactivateUpdate, RevokeUpdate
  <2>2. \/ req' = [req EXCEPT ![p].pc = "sync", ![p].user = emp[req[p].e].user]
        \/ req' = [req EXCEPT ![p].pc = "undo"]
        \/ req' = [req EXCEPT ![p].pc = "undo", ![p].unheard = TRUE]
        \/ req' = [req EXCEPT ![p].pc = "sync", ![p].branch = emp[req[p].e].branch]
    BY <1>6, <2>1 DEF MoveUpdate, Sync, Goto, LinkUpdate
  <2>3. /\ req'[p].op = req[p].op /\ req'[p].alone = req[p].alone /\ req'[p].aligned = req[p].aligned
        /\ ~ req'[p].unheard => ~ req[p].unheard
    BY <1>1, <2>2 DEF ReqType
  <2> QED BY <2>1, <2>3
<1>8. Calling(p) /\ req[p].alone
  BY <1>4, <1>5, <1>7 DEF Calling
<1>9. \A r \in Proc \ {q} : ~ InFlight(r)'
  BY <1>3, <1>5, <1>8 DEF AloneInv, InFlight
<1>10. req'[p].aligned /\ ~ req'[p].unheard => AsLeft(p)'
  <2>1. req[p].e \in Employee
    BY <1>8 DEF Calling, AccountsInv, RequestInv
  <2> QED BY <1>6, <1>7, <1>8, <2>1, NextStatement DEF AloneInv
<1> QED BY <1>5, <1>9, <1>10

LEMMA NextAlone == AccountsInv /\ AloneInv /\ [Next]_vars => AloneInv'
<1> SUFFICES ASSUME AccountsInv, AloneInv, [Next]_vars PROVE AloneInv'
  OBVIOUS
<1>1. CASE \E p \in Proc : Request(p) \/ Step(p) \/ Lose(p)
  BY <1>1, StartAlone, LaterAlone
<1>2. ASSUME UNCHANGED <<emp, home, req>>
      PROVE  AloneInv'
  BY <1>2 DEF AloneInv, AsLeft, Before, Moved, Linked, Aligned, Calling, InFlight,
              IndexRefuses, Holds, LinkedTo
<1>3. ASSUME NEW e \in Employee,
             Unlink(e) \/ AssignOwner(e) \/ SpendInVain(e) \/ ForgetChallenge(e)
      PROVE  AloneInv'
  BY <1>2, <1>3, DisturbedAlone DEF Unlink, AssignOwner, SpendInVain, ForgetChallenge
<1> QED BY <1>1, <1>2, <1>3 DEF Next, vars

\* Whatever the other requests before and after it, a move or a link that works
\* alone, hears every answer and starts from an agreement of HR and the platform
\* leaves them in agreement, in every way it can end: done, refused by the index,
\* or taken back after a failed call (updateEmployee, linkPlatformUser).
THEOREM HrAndPlatformAgree == Spec => AgreementKept
<1>1. AccountsInv /\ AloneInv /\ [Next]_vars =>
        [\A p \in Proc, e \in Employee :
            /\ MoveUpdate(p) \/ Sync(p) \/ UndoMove(p) \/ UndoLink(p) \/ LinkUpdate(p)
            /\ req[p].e = e /\ req[p].alone /\ req[p].aligned /\ ~ req[p].unheard
            /\ req'[p].op = "none"
            => Aligned(e)']_vars
  <2> SUFFICES ASSUME AccountsInv, AloneInv, NEW p \in Proc, NEW e \in Employee,
                      MoveUpdate(p) \/ Sync(p) \/ UndoMove(p) \/ UndoLink(p) \/ LinkUpdate(p),
                      req[p].e = e, req[p].alone, req[p].aligned, ~ req[p].unheard,
                      req'[p].op = "none"
               PROVE  Aligned(e)'
    OBVIOUS
  <2>1. req \in [Proc -> ReqType] /\ req[p] \in ReqType
    BY DEF AccountsInv, LinkInv, TypeOK
  <2>2. Calling(p)
    BY DEF MoveUpdate, Sync, UndoMove, UndoLink, LinkUpdate, At, Calling
  <2>3. AsLeft(p)
    BY <2>2 DEF AloneInv
  <2>4. Return(p)
    <3>1. \/ Return(p)
          \/ req' = [req EXCEPT ![p].pc = "sync", ![p].user = emp[req[p].e].user]
          \/ req' = [req EXCEPT ![p].pc = "undo"]
          \/ req' = [req EXCEPT ![p].pc = "undo", ![p].unheard = TRUE]
          \/ req' = [req EXCEPT ![p].pc = "sync", ![p].branch = emp[req[p].e].branch]
      BY DEF MoveUpdate, Sync, Goto, UndoMove, UndoLink, LinkUpdate
    <3> QED BY <2>1, <2>2, <3>1 DEF Calling, ReqType
  <2> QED BY <2>3, <2>4, NextStatement
<1>2. Init => AloneInv
  BY DEF Init, AloneInv, Calling, Idle
<1> QED BY <1>1, <1>2, InitAccounts, NextAccounts, NextAlone, PTL DEF Spec, AgreementKept
=============================================================================

-------------------------- MODULE EmployeeAccounts --------------------------
(***************************************************************************)
(* Employees, the platform accounts they are linked to, and the platform's *)
(* own rows those links move: the home branch of an account and the        *)
(* holders of the OWNER role.  HR and the platform are two systems: a      *)
(* branch move or a link commits in HR first and then calls the platform   *)
(* (syncPlatformHomeBranch), and takes its own update back when the call   *)
(* fails, also when the platform did the work and only the answer was      *)
(* lost.  The auth user of an account goes with the account.               *)
(***************************************************************************)
EXTENDS Naturals, FiniteSets

CONSTANTS
    Employee, User, Branch, Proc,
    FirstLinks,    \* the links of the initial states
    MaxRequests,   \* bound on the requests made
    Failures       \* may a request, or an answer of the platform, be lost?

Nobody == "nobody"
Access == {"NOT_LINKED", "PENDING_ACTIVATION", "ACTIVE"}

ASSUME AccountsAssumption ==
    /\ Nobody \notin User
    /\ User # {} /\ IsFiniteSet(User)
    /\ FirstLinks \subseteq [Employee -> User \cup {Nobody}]
    /\ \A links \in FirstLinks : \A e, f \in Employee :
          links[e] = links[f] /\ links[e] # Nobody => e = f
    /\ MaxRequests \in Nat /\ Failures \in BOOLEAN

VARIABLES
    emp,         \* hr.employees: active, branch, linked account, account access
    challenge,   \* employees with a PENDING activation challenge (kept in memory)
    home,        \* platform: home branch of each account
    owners,      \* platform: accounts holding the OWNER role
    req,         \* requests in flight
    made,        \* requests made so far
    undone,      \* history: employees a link of which was taken back
    raced        \* history: have two revocations overlapped?

vars == <<emp, challenge, home, owners, req, made, undone, raced>>

EmpRow == [active : BOOLEAN, branch : Branch, user : User \cup {Nobody}, access : Access]
Idle == [op |-> "none", pc |-> "idle", e |-> "none", user |-> Nobody, branch |-> "none",
         oldBranch |-> "none", oldUser |-> Nobody,
         alone |-> TRUE, aligned |-> TRUE, unheard |-> FALSE]
\* alone, aligned and unheard are history: did nobody else work meanwhile, did
\* HR and the platform agree at the start, and was an answer lost?
ReqType == [op : {"none", "move", "link", "deactivate", "reactivate", "activation", "revoke"},
            pc : {"idle", "update", "sync", "undo"},
            e : Employee \cup {"none"}, user : User \cup {Nobody},
            branch : Branch \cup {"none"}, oldBranch : Branch \cup {"none"},
            oldUser : User \cup {Nobody},
            alone : BOOLEAN, aligned : BOOLEAN, unheard : BOOLEAN]

TypeOK ==
    /\ emp \in [Employee -> EmpRow]
    /\ challenge \subseteq Employee
    /\ home \in [User -> Branch]
    /\ owners \subseteq User
    /\ req \in [Proc -> ReqType]
    /\ made \in 0 .. MaxRequests
    /\ undone \subseteq Employee /\ raced \in BOOLEAN

LinkedTo(e, u) == emp[e].user = u /\ u # Nobody
Holds(e, u) == emp[e].active /\ LinkedTo(e, u)
Aligned(e) == emp[e].user # Nobody => home[emp[e].user] = emp[e].branch

Init ==
    /\ \E links \in FirstLinks, b \in Branch :
         /\ emp = [e \in Employee |->
                     [active |-> TRUE, branch |-> b, user |-> links[e],
                      access |-> IF links[e] = Nobody THEN "NOT_LINKED" ELSE "ACTIVE"]]
         /\ home = [u \in User |-> b]
    /\ challenge = {} /\ owners = User
    /\ req = [p \in Proc |-> Idle]
    /\ made = 0 /\ undone = {} /\ raced = FALSE

-----------------------------------------------------------------------------
InFlight(p) == req[p].op # "none"
At(p, op, pc) == req[p].op = op /\ req[p].pc = pc

\* What a new request does to the others: they are no longer alone.
Disturbed == [q \in Proc |-> [req[q] EXCEPT !.alone = ~ InFlight(q)]]
Counted == made < MaxRequests /\ made' = made + 1

Begin(p, op, e, row) ==
    /\ ~ InFlight(p) /\ Counted
    /\ req' = [Disturbed EXCEPT ![p] =
                 [row EXCEPT !.op = op, !.e = e,
                             !.alone = \A q \in Proc : ~ InFlight(q)]]

Goto(p, pc) == req' = [req EXCEPT ![p].pc = pc]
Return(p) == req' = [req EXCEPT ![p] = Idle]

\* The partial unique indexes on active employees refuse a second holder of u.
IndexRefuses_Never(e, active, u) == FALSE   \* mutant
IndexRefuses(e, active, u) == active /\ \E f \in Employee \ {e} : Holds(f, u)

-----------------------------------------------------------------------------
(* Moving an employee to another branch (updateEmployee).                  *)

MoveStart(p, e, b) ==
    /\ Begin(p, "move", e, [Idle EXCEPT !.pc = "update", !.branch = b,
                              !.oldBranch = emp[e].branch, !.oldUser = emp[e].user,
                              !.aligned = Aligned(e)])
    /\ UNCHANGED <<emp, challenge, home, owners, undone, raced>>

MoveUpdate(p) ==
    /\ At(p, "move", "update")
    /\ LET e == req[p].e
       IN /\ emp' = [emp EXCEPT ![e].branch = req[p].branch]
          /\ IF req[p].branch # req[p].oldBranch /\ emp[e].user # Nobody
             THEN req' = [req EXCEPT ![p].pc = "sync", ![p].user = emp[e].user]
             ELSE Return(p)
    /\ UNCHANGED <<challenge, home, owners, made, undone, raced>>

-----------------------------------------------------------------------------
(* The call to the platform, and what a failed one takes back.             *)

Calling(p) == req[p].op \in {"move", "link"}

Sync(p) ==
    /\ Calling(p) /\ req[p].pc = "sync"
    /\ \/ \* moved, and the answer arrived
          /\ home' = [home EXCEPT ![req[p].user] = req[p].branch]
          /\ Return(p)
       \/ \* refused, or never reached
          /\ Goto(p, "undo")
          /\ UNCHANGED home
       \/ \* moved, but the answer was lost
          /\ Failures
          /\ home' = [home EXCEPT ![req[p].user] = req[p].branch]
          /\ req' = [req EXCEPT ![p].pc = "undo", ![p].unheard = TRUE]
    /\ UNCHANGED <<emp, challenge, owners, made, undone, raced>>

BranchBack_Forgotten(p) == UNCHANGED emp   \* mutant
BranchBack(p) == emp' = [emp EXCEPT ![req[p].e].branch = req[p].oldBranch]

UndoMove(p) ==
    /\ At(p, "move", "undo")
    /\ BranchBack(p)
    /\ Return(p)
    /\ UNCHANGED <<challenge, home, owners, made, undone, raced>>

FormerUser(p) == req[p].oldUser

\* The account goes back, the access to it does not.  The update may itself be
\* refused, when the old account has found another holder.
UndoLink(p) ==
    /\ At(p, "link", "undo")
    /\ LET e == req[p].e
       IN /\ emp' = IF IndexRefuses(e, emp[e].active, FormerUser(p)) THEN emp
                    ELSE [emp EXCEPT ![e].user = FormerUser(p)]
          /\ undone' = undone \cup {e}
    /\ Return(p)
    /\ UNCHANGED <<challenge, home, owners, made, raced>>

-----------------------------------------------------------------------------
(* Links and activation.                                                   *)

Taken(e, u) == \E f \in Employee \ {e} : Holds(f, u)

\* linkPlatformUser; completeEmployeeActivation is the same after it has
\* spent the challenge, whatever becomes of the link.
LinkStart(p, e, u, spend) ==
    /\ IF spend THEN e \in challenge /\ challenge' = challenge \ {e}
       ELSE UNCHANGED challenge
    /\ ~ Taken(e, u)
    /\ Begin(p, "link", e, [Idle EXCEPT !.pc = "update", !.user = u,
                              !.oldBranch = emp[e].branch, !.oldUser = emp[e].user,
                              !.aligned = Aligned(e)])
    /\ UNCHANGED <<emp, home, owners, undone, raced>>

\* An activation whose account is taken has spent its challenge for nothing.
SpendInVain(e) ==
    /\ e \in challenge /\ Counted
    /\ \E u \in User : Taken(e, u)
    /\ challenge' = challenge \ {e}
    /\ req' = Disturbed
    /\ UNCHANGED <<emp, home, owners, undone, raced>>

LinkUpdate(p) ==
    /\ At(p, "link", "update")
    /\ LET e == req[p].e
       IN IF IndexRefuses(e, emp[e].active, req[p].user)
          THEN Return(p) /\ UNCHANGED emp
          ELSE /\ emp' = [emp EXCEPT ![e].user = req[p].user, ![e].access = "ACTIVE"]
               /\ req' = [req EXCEPT ![p].pc = "sync", ![p].branch = emp[e].branch]
    /\ UNCHANGED <<challenge, home, owners, made, undone, raced>>

Unlinked(row) == [row EXCEPT !.user = Nobody, !.access = "NOT_LINKED"]

Unlink(e) ==
    /\ Counted
    /\ emp' = [emp EXCEPT ![e] = Unlinked(emp[e])]
    /\ req' = Disturbed
    /\ UNCHANGED <<challenge, home, owners, undone, raced>>

\* startEmployeeActivation cancels the pending challenge and adds its own,
\* and then writes the access, of a linked employee too.
ActivationStart(p, e) ==
    /\ Begin(p, "activation", e, [Idle EXCEPT !.pc = "update"])
    /\ challenge' = challenge \cup {e}
    /\ UNCHANGED <<emp, home, owners, undone, raced>>

ActivationUpdate(p) ==
    /\ At(p, "activation", "update")
    /\ emp' = [emp EXCEPT ![req[p].e].access = "PENDING_ACTIVATION"]
    /\ Return(p)
    /\ UNCHANGED <<challenge, home, owners, made, undone, raced>>

\* After a day, or when the server restarts: challenges live in its memory.
ForgetChallenge(e) ==
    /\ e \in challenge
    /\ challenge' = challenge \ {e}
    /\ UNCHANGED <<emp, home, owners, req, made, undone, raced>>

-----------------------------------------------------------------------------
(* Leaving and coming back.                                                *)

\* Only platform staff may do this to an employee whose account is an owner's.
OwnerGuard(e, staff) == staff \/ emp[e].user \notin owners

DeactivateStart(p, e, staff) ==
    /\ OwnerGuard(e, staff)
    /\ Begin(p, "deactivate", e, [Idle EXCEPT !.pc = "update"])
    /\ UNCHANGED <<emp, challenge, home, owners, undone, raced>>

DeactivateUpdate(p) ==
    /\ At(p, "deactivate", "update")
    /\ emp' = [emp EXCEPT ![req[p].e].active = FALSE]
    /\ Return(p)
    /\ UNCHANGED <<challenge, home, owners, made, undone, raced>>

ReactivateStart(p, e, staff) ==
    /\ OwnerGuard(e, staff) /\ ~ emp[e].active
    /\ Begin(p, "reactivate", e, [Idle EXCEPT !.pc = "update"])
    /\ UNCHANGED <<emp, challenge, home, owners, undone, raced>>

\* Nobody looks whether the account has another holder by now: the index does.
ReactivateUpdate(p) ==
    /\ At(p, "reactivate", "update")
    /\ LET e == req[p].e
       IN emp' = IF IndexRefuses(e, TRUE, emp[e].user) THEN emp
                 ELSE [emp EXCEPT ![e].active = TRUE]
    /\ Return(p)
    /\ UNCHANGED <<challenge, home, owners, made, undone, raced>>

-----------------------------------------------------------------------------
(* The OWNER role (assignEmployeeRole, revokeEmployeeRole).                *)

AssignOwner(e) ==
    /\ emp[e].user # Nobody /\ Counted
    /\ owners' = owners \cup {emp[e].user}
    /\ req' = Disturbed
    /\ UNCHANGED <<emp, challenge, home, undone, raced>>

LastOwner_OffByOne == Cardinality(owners) < 1   \* mutant
LastOwner == Cardinality(owners) <= 1

RevokeStart(p, u) ==
    /\ u \in owners /\ ~ LastOwner
    /\ Begin(p, "revoke", "none", [Idle EXCEPT !.pc = "update", !.user = u])
    /\ raced' = (raced \/ \E q \in Proc : req[q].op = "revoke")
    /\ UNCHANGED <<emp, challenge, home, owners, undone>>

RevokeUpdate(p) ==
    /\ At(p, "revoke", "update")
    /\ owners' = owners \ {req[p].user}
    /\ Return(p)
    /\ UNCHANGED <<emp, challenge, home, made, undone, raced>>

-----------------------------------------------------------------------------
Step(p) ==
    \/ MoveUpdate(p) \/ Sync(p) \/ UndoMove(p) \/ UndoLink(p) \/ LinkUpdate(p)
    \/ ActivationUpdate(p) \/ DeactivateUpdate(p) \/ ReactivateUpdate(p) \/ RevokeUpdate(p)

\* The server goes down between two statements of a request.
Lose(p) ==
    /\ Failures /\ InFlight(p)
    /\ Return(p)
    /\ UNCHANGED <<emp, challenge, home, owners, made, undone, raced>>

Request(p) ==
    \/ \E e \in Employee :
          \/ \E b \in Branch : MoveStart(p, e, b)
          \/ \E u \in User, spend \in BOOLEAN : LinkStart(p, e, u, spend)
          \/ ActivationStart(p, e)
          \/ \E staff \in BOOLEAN : DeactivateStart(p, e, staff) \/ ReactivateStart(p, e, staff)
    \/ \E u \in User : RevokeStart(p, u)

Next ==
    \/ \E p \in Proc : Request(p) \/ Step(p) \/ Lose(p)
    \/ \E e \in Employee : Unlink(e) \/ AssignOwner(e) \/ SpendInVain(e) \/ ForgetChallenge(e)

Spec == Init /\ [][Next]_vars

-----------------------------------------------------------------------------
(* Properties.                                                             *)

\* An account signs in as one employee: two active employees never share one,
\* however links, undone links and reactivations follow each other (the look-ups
\* of linkPlatformUser come too early to see it; migration 0017 keeps it).
OneActiveLink ==
    \A u \in User : \A e, f \in Employee : Holds(e, u) /\ Holds(f, u) => e = f

\* The access shown for an employee says whether there is an account behind it,
\* except for one whose link was taken back: the undo of linkPlatformUser
\* leaves the access ACTIVE.
AccessMatchesLink ==
    \A e \in Employee \ undone :
        /\ emp[e].access = "ACTIVE" => emp[e].user # Nobody
        /\ emp[e].access = "NOT_LINKED" => emp[e].user = Nobody

\* Every statement of employees.ts keeps the types, the one active employee of an
\* account, and the access in step with the link.
LinkInv == TypeOK /\ OneActiveLink /\ AccessMatchesLink

\* "Keep HR and Platform aligned" (employees.ts): a move or a link that works
\* alone and ends, well or with an error, leaves the home branch of the
\* employee's account equal to the branch HR has, if it was before and no
\* answer was lost.
AgreementKept ==
    [][\A p \in Proc, e \in Employee :
          /\ MoveUpdate(p) \/ Sync(p) \/ UndoMove(p) \/ UndoLink(p) \/ LinkUpdate(p)
          /\ req[p].e = e /\ req[p].alone /\ req[p].aligned /\ ~ req[p].unheard
          /\ req'[p].op = "none"
          => Aligned(e)']_vars

\* The organization keeps an owner, unless two revocations overlapped (the
\* owners are counted before the revocation, revokeEmployeeRole).
OwnerRemains == raced \/ owners # {}
=============================================================================

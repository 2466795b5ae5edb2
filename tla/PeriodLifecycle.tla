--------------------------- MODULE PeriodLifecycle ---------------------------
(***************************************************************************)
(* What the life of a payroll period promises, without the requests that   *)
(* drive it: there is at most one period for a range of dates, it is never *)
(* removed and its payment date never moves; it is born at some stage      *)
(* (1 DRAFT, 2 OPEN, 3 CALCULATING, 4 REVIEW, 5 APPROVED, 6 PAID,          *)
(* 7 LOCKED); and the stage it is moved to is the one after, or before it  *)
(* was paid the one before, a stage it has been at.  A request that was    *)
(* overtaken by another may act on a stage the period has left: that is    *)
(* why the promise is about the stages held and not about the present one. *)
(***************************************************************************)
EXTENDS Integers

CONSTANTS Range, Date

VARIABLES stage, held, due

vars == <<stage, held, due>>

None == 0
Paid == 6
Stages == 1 .. 7
Next_(s) == ({s + 1} \cap Stages) \cup IF s \in 2 .. Paid - 1 THEN {s - 1} ELSE {}

Init ==
    /\ stage = [r \in Range |-> None]
    /\ held = [r \in Range |-> {}]
    /\ due = [r \in Range |-> 0]

Becomes(r, t) == stage' = [stage EXCEPT ![r] = t]

Open(r) ==
    /\ stage[r] = None
    /\ \E t \in Stages : Becomes(r, t) /\ held' = [held EXCEPT ![r] = {t}]
    /\ due'[r] \in Date
    /\ due' = [due EXCEPT ![r] = due'[r]]

Move(r) ==
    /\ stage[r] # None
    /\ \E s \in held[r] : \E t \in Next_(s) :
         Becomes(r, t) /\ held' = [held EXCEPT ![r] = @ \cup {t}]
    /\ UNCHANGED due

Next == \E r \in Range : Open(r) \/ Move(r)

Spec == Init /\ [][Next]_vars
=============================================================================

-------------------------- MODULE MCLeaveRequests --------------------------
(* Small instances of LeaveRequests for TLC.                               *)
EXTENDS LeaveRequests

\* Three overlapping requests of one employee; two possible covers.
MCOwn == [l \in {"l1", "l2", "l3"} |-> "emp"]
MCFirst == [l \in {"l1", "l2", "l3"} |-> IF l = "l2" THEN 2 ELSE 1]
MCLast == [l \in {"l1", "l2", "l3"} |-> IF l = "l3" THEN 1 ELSE 2]
MCAmount == [l \in {"l1", "l2", "l3"} |-> IF l = "l1" THEN 2 ELSE 1]
MCCovers == [l \in {"l1", "l2", "l3"} |-> {"c1", "c2"}]
NoCovers == [l \in {"l1", "l2"} |-> {}]

Plan(e, d) ==
    CASE e = "emp" -> "early"
      [] e = "c1" -> IF d = 1 THEN "late" ELSE "rest"
      [] OTHER -> IF d = 1 THEN "empty" ELSE "late"
Plan2(e, d) ==
    CASE e = "emp" -> IF d = 1 THEN "early" ELSE "rest"
      [] e = "c1" -> "early"
      [] OTHER -> IF d = 1 THEN "rest" ELSE "late"
MCRosters == {[x \in Slot |-> Plan(x[1], x[2])], [x \in Slot |-> Plan2(x[1], x[2])]}
EmptyRosters == {[x \in Slot |-> "empty"]}

\* Two requests of one employee for different days.
OwnOf2 == [l \in {"l1", "l2"} |-> "emp"]
DayOf2 == [l \in {"l1", "l2"} |-> IF l = "l1" THEN 1 ELSE 2]
AmountOf2 == [l \in {"l1", "l2"} |-> IF l = "l1" THEN 1 ELSE 2]
=============================================================================

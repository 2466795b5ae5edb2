-------------------------- MODULE MCAttendanceDays --------------------------
(* Small instances of AttendanceDays for TLC.                              *)
EXTENDS AttendanceDays, TLC

\* Days of three minutes; an early shift, and a night shift over midnight.
MCStart == [s \in {"early", "night"} |-> IF s = "early" THEN 0 ELSE 2]
MCEnd == [s \in {"early", "night"} |-> 1]
NoMinutes == [s \in {"early", "night"} |-> 0]
MCGraceEarly == [s \in {"early", "night"} |-> 1]
MCKind == [k \in {"k1", "k2", "k3"} |-> IF k = "k3" THEN "out" ELSE "in"]
MCWishes == {[in |-> 1, out |-> NoTime]}
On(s) == [shift |-> s, off |-> FALSE]
MCRoster == {[d \in Day |-> On("early")], [d \in Day |-> [shift |-> "night", off |-> TRUE]]}
Alike == Permutations(Proc)
=============================================================================

------------------------- MODULE MCScheduleRequests -------------------------
(* Small instances of ScheduleRequests for TLC.                            *)
EXTENDS ScheduleRequests, TLC

\* Days of four minutes: the night shift of a day ends in the early shift of the next.
MCStart == [s \in {"early", "night"} |-> IF s = "early" THEN 0 ELSE 3]
MCEnd == [s \in {"early", "night"} |-> IF s = "early" THEN 2 ELSE 1]
MCTeams == {{"e1"}}
MCDays == {{1}, {1, 2}}
Alike == Permutations(Period) \cup Permutations(Proc)
=============================================================================

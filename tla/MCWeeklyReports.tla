--------------------------- MODULE MCWeeklyReports ---------------------------
EXTENDS WeeklyReports

(* The student alone over three weeks, one of them archived or none; and one
   week that counts with the student and the users who meet in it. *)
OneWeek(others) == [actors |-> {"student"} \cup others, archived |-> {2, 3}]
SomeSettings ==
    {[actors |-> {"student"}, archived |-> archivedWeeks] : archivedWeeks \in {{}, {2}}}
    \cup {OneWeek({"advisor"}), OneWeek({"advisor", "mentor"}), OneWeek({"mentor", "principal"})}
=============================================================================

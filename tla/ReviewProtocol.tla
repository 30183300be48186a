--------------------------- MODULE ReviewProtocol ---------------------------
(***************************************************************************)
(* What the review of weekly reports promises: a week waits for a report,   *)
(* a report is returned for correction or graded, and a grade is final.     *)
(* Nobody returns or grades what was not handed in.  WeeklyReports           *)
(* implements this module.                                                  *)
(***************************************************************************)
CONSTANT Weeks

VARIABLE phase    \* per week, where its report stands

Phases == {"none", "submitted", "returned", "graded"}

TypeOK == phase \in [Weeks -> Phases]

Init == phase = [w \in Weeks |-> "none"]

Submit(w) ==
    /\ phase[w] # "graded"
    /\ phase' = [phase EXCEPT ![w] = "submitted"]

Return(w) ==
    /\ phase[w] = "submitted"
    /\ phase' = [phase EXCEPT ![w] = "returned"]

Grade(w) ==
    /\ phase[w] \in {"submitted", "returned"}
    /\ phase' = [phase EXCEPT ![w] = "graded"]

(* An evaluation by the mentor or the principal, or a presence. *)
Remark == UNCHANGED phase

Next ==
    \/ Remark
    \/ \E w \in Weeks : Submit(w) \/ Return(w) \/ Grade(w)

Spec == Init /\ [][Next]_phase
=============================================================================

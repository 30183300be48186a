--------------------------- MODULE MCSyllabusWeeks ---------------------------
EXTENDS SyllabusWeeks, TLC

CONSTANTS l1, l2, s1, s2

(* Lessons and calls are interchangeable. *)
Symmetry == Permutations({l1, l2}) \cup Permutations({s1, s2})

(* A careful administrator who changes the table three times, or twice with
   drafts; others are not careful, with two answers that may cross, with two
   changes of the table, or with drafts and the changes they restore. *)
SomeSettings == {[careful |-> TRUE, drafts |-> FALSE, edits |-> 3, calls |-> 1],
                 [careful |-> TRUE, drafts |-> TRUE, edits |-> 2, calls |-> 1],
                 [careful |-> FALSE, drafts |-> FALSE, edits |-> 1, calls |-> 2],
                 [careful |-> FALSE, drafts |-> FALSE, edits |-> 2, calls |-> 1],
                 [careful |-> FALSE, drafts |-> TRUE, edits |-> 0, calls |-> 1]}
=============================================================================

--------------------------- MODULE MCEnrollment ---------------------------
(* Instances of Enrollment for TLC. *)
EXTENDS Enrollment, Sequences, TLC

OneSeason == [k \in Terms |-> "one"]
TwoSeasons == [k \in Terms |-> k]

(* Terms with the lesson offered, one of them open for selection, and the first
   capacity rows of one seat each. *)
Seed(terms_, open, pools) == [
    created |-> terms_,
    terms |-> [k \in Terms |-> IF k > terms_ THEN None ELSE
        [courseSelection |-> k = open, startClasses |-> FALSE, offered |-> TRUE]],
    capacities |-> [c \in CapacityRows |->
        IF c <= Len(pools) THEN [pool |-> pools[c], capacity |-> 1] ELSE None]]

Someone == CHOOSE p \in Professors : TRUE
Other == CHOOSE p \in Professors : p # Someone

FirstTermOpen == {Seed(2, 1, <<<<Someone, 1>>, <<Other, 1>>, <<Someone, 2>>>>),
                  Seed(1, 1, <<<<Someone, 1>>>>)}
SecondTermOpen == {Seed(2, 2, <<<<Someone, 1>>, <<Someone, 2>>>>)}

StudentSymmetry == Permutations(Students)
===========================================================================

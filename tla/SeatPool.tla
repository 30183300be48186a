------------------------------ MODULE SeatPool ------------------------------
(***************************************************************************)
(* What the course selection promises about seats: a professor has a number *)
(* of seats per lesson, an enrollment takes one of them while the lesson    *)
(* runs, and a student takes a lesson once.  The administrator may change   *)
(* the number at any time, below what is taken as well.  Enrollment         *)
(* implements this module.                                                  *)
(***************************************************************************)
EXTENDS Integers, FiniteSets

CONSTANTS
    Seats,       \* the identifiers of enrollments, each used once
    Students,
    Professors,
    Lessons,
    NoSeat       \* an enrollment that was not made or was given up

Pools == Professors \X Lessons
Taken == [student : Students, pool : Pools, done : BOOLEAN]

VARIABLES
    seat,    \* per identifier, the seat it takes
    total    \* per pool, the seats there are

vars == <<seat, total>>

TypeOK ==
    /\ seat \in [Seats -> Taken \cup {NoSeat}]
    /\ total \in [Pools -> Nat]

(* The enrollments that occupy a seat of pool p: a finished one does not. *)
Occupied(p) == {e \in Seats : seat[e] # NoSeat /\ seat[e].pool = p /\ ~seat[e].done}

(* A student holds or has finished a lesson, with whichever professor. *)
Holds(s, l) == \E e \in Seats :
    seat[e] # NoSeat /\ seat[e].student = s /\ seat[e].pool[2] = l

Init ==
    /\ seat = [e \in Seats |-> NoSeat]
    /\ total \in [Pools -> Nat]

Give(e, s, p) ==
    /\ seat[e] = NoSeat
    /\ ~Holds(s, p[2])
    /\ Cardinality(Occupied(p)) < total[p]
    /\ seat' = [seat EXCEPT ![e] = [student |-> s, pool |-> p, done |-> FALSE]]
    /\ UNCHANGED total

Done(x) == [student |-> x.student, pool |-> x.pool, done |-> TRUE]

Finish(e) ==
    /\ seat[e] # NoSeat
    /\ seat' = [seat EXCEPT ![e] = Done(seat[e])]
    /\ UNCHANGED total

Release(e) ==
    /\ seat[e] # NoSeat
    /\ seat' = [seat EXCEPT ![e] = NoSeat]
    /\ UNCHANGED total

Resize ==
    /\ UNCHANGED seat
    /\ total' \in [Pools -> Nat]

Next ==
    \/ Resize
    \/ \E e \in Seats : Finish(e) \/ Release(e)
    \/ \E e \in Seats, s \in Students, p \in Pools : Give(e, s, p)

Spec == Init /\ [][Next]_vars

-----------------------------------------------------------------------------
(* A student takes a lesson once: lessonBlockReason of fake-nest refuses a
   second enrollment, with the same professor or another one. *)
OneSeatPerLesson == \A e, f \in Seats :
    (/\ seat[e] # NoSeat /\ seat[f] # NoSeat
     /\ seat[e].student = seat[f].student
     /\ seat[e].pool[2] = seat[f].pool[2]) => e = f

(* A pool that fills up stays within its total: it may be over it only because
   the administrator lowered the capacity under the running enrollments. *)
FilledWithinTotal == [][\A p \in Pools :
    Cardinality(Occupied(p))' > Cardinality(Occupied(p))
        => Cardinality(Occupied(p))' <= total'[p]]_vars
=============================================================================

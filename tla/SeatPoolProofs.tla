--------------------------- MODULE SeatPoolProofs ---------------------------
(* The promises of SeatPool, for every number of seats, students and pools. *)
EXTENDS SeatPool, FiniteSetTheorems, TLAPS

LEMMA SeatFacts ==
    ASSUME TypeOK, NEW e \in Seats, seat[e] # NoSeat
    PROVE  /\ seat[e] \in Taken
           /\ seat[e].student \in Students
           /\ seat[e].pool \in Pools
           /\ seat[e].pool[2] \in Lessons
BY DEF TypeOK, Taken, Pools

LEMMA GivenIsTaken ==
    ASSUME NEW s \in Students, NEW p \in Pools
    PROVE  [student |-> s, pool |-> p, done |-> FALSE] \in Taken
BY DEF Taken

LEMMA FinishedIsTaken ==
    ASSUME NEW x \in Taken
    PROVE  /\ Done(x) \in Taken
           /\ Done(x).student = x.student
           /\ Done(x).pool = x.pool
           /\ Done(x).done = TRUE
BY DEF Taken, Done

LEMMA OccupiedFinite ==
    ASSUME IsFiniteSet(Seats), NEW p \in Pools
    PROVE  IsFiniteSet(Occupied(p)) /\ Cardinality(Occupied(p)) \in Nat
<1>1. Occupied(p) \subseteq Seats
  BY DEF Occupied
<1>2. QED
  BY <1>1, FS_Subset, FS_CardinalityType

(* The values of the two variables keep their types. *)
THEOREM PoolTypeCorrect == Spec => []TypeOK
<1>1. Init => TypeOK
  BY DEF Init, TypeOK
<1>2. TypeOK /\ [Next]_vars => TypeOK'
  <2> SUFFICES ASSUME TypeOK, [Next]_vars PROVE TypeOK'
    OBVIOUS
  <2>1. CASE Resize
    BY <2>1 DEF Resize, TypeOK
  <2>2. ASSUME NEW e \in Seats, Finish(e) PROVE TypeOK'
    <3>1. seat[e] \in Taken
      BY <2>2, SeatFacts DEF Finish
    <3>2. Done(seat[e]) \in Taken
      BY <3>1, FinishedIsTaken
    <3>3. QED
      BY <2>2, <3>2 DEF Finish, TypeOK
  <2>3. ASSUME NEW e \in Seats, Release(e) PROVE TypeOK'
    BY <2>3 DEF Release, TypeOK
  <2>4. ASSUME NEW e \in Seats, NEW s \in Students, NEW p \in Pools, Give(e, s, p)
        PROVE  TypeOK'
    BY <2>4, GivenIsTaken DEF Give, TypeOK
  <2>5. CASE UNCHANGED vars
    BY <2>5 DEF vars, TypeOK
  <2>6. QED
    BY <2>1, <2>2, <2>3, <2>4, <2>5 DEF Next
<1>3. QED
  BY <1>1, <1>2, PTL DEF Spec

LEMMA OneSeatStep ==
    ASSUME TypeOK, TypeOK', OneSeatPerLesson, [Next]_vars
    PROVE  OneSeatPerLesson'
<1>1. CASE Resize \/ UNCHANGED vars
  BY <1>1 DEF Resize, vars, OneSeatPerLesson
<1>2. ASSUME NEW e \in Seats, Finish(e) PROVE OneSeatPerLesson'
  <2>1. seat[e] \in Taken /\ seat[e] # NoSeat
    BY <1>2, SeatFacts DEF Finish
  <2>2. PICK x : x = Done(seat[e])
    OBVIOUS
  <2>3. x.student = seat[e].student /\ x.pool = seat[e].pool
    BY <2>1, <2>2, FinishedIsTaken
  <2>4. seat' = [seat EXCEPT ![e] = x]
    BY <1>2, <2>2 DEF Finish
  <2>5. ASSUME NEW f \in Seats, seat'[f] # NoSeat
        PROVE  /\ seat[f] # NoSeat
               /\ seat'[f].student = seat[f].student
               /\ seat'[f].pool = seat[f].pool
    BY <2>1, <2>3, <2>4, <2>5 DEF TypeOK
  <2>6. QED
    BY <2>5 DEF OneSeatPerLesson
<1>3. ASSUME NEW e \in Seats, Release(e) PROVE OneSeatPerLesson'
  <2>1. \A f \in Seats : seat'[f] # NoSeat => seat[f] # NoSeat /\ seat'[f] = seat[f]
    BY <1>3 DEF Release, TypeOK
  <2>2. QED
    BY <2>1 DEF OneSeatPerLesson
<1>4. ASSUME NEW e \in Seats, NEW s \in Students, NEW p \in Pools, Give(e, s, p)
      PROVE  OneSeatPerLesson'
  <2>1. PICK x : x = [student |-> s, pool |-> p, done |-> FALSE]
    OBVIOUS
  <2>2. x.student = s /\ x.pool = p
    BY <2>1
  <2>3. seat' = [seat EXCEPT ![e] = x]
    BY <1>4, <2>1 DEF Give
  <2>4. \A f \in Seats \ {e} : seat'[f] = seat[f]
    BY <2>3 DEF TypeOK
  <2>5. seat'[e] = x
    BY <2>3 DEF TypeOK
  <2>6. \A f \in Seats : ~(/\ seat[f] # NoSeat /\ seat[f].student = s
                            /\ seat[f].pool[2] = p[2])
    BY <1>4 DEF Give, Holds
  <2>7. QED
    BY <2>2, <2>4, <2>5, <2>6 DEF OneSeatPerLesson
<1>5. QED
  BY <1>1, <1>2, <1>3, <1>4 DEF Next

(* No student ever holds two seats of one lesson: the guard of POST
   student-enrollments on lessonBlockReason is enough. *)
THEOREM PoolOneSeat == Spec => []OneSeatPerLesson
<1>1. Init => OneSeatPerLesson
  BY DEF Init, OneSeatPerLesson
<1>2. QED
  BY <1>1, PoolTypeCorrect, OneSeatStep, PTL DEF Spec

-----------------------------------------------------------------------------
LEMMA FillStep ==
    ASSUME IsFiniteSet(Seats), TypeOK, TypeOK', [Next]_vars, NEW p \in Pools,
           Cardinality(Occupied(p))' > Cardinality(Occupied(p))
    PROVE  Cardinality(Occupied(p))' <= total'[p]
<1>1. IsFiniteSet(Occupied(p)) /\ Cardinality(Occupied(p)) \in Nat
  BY OccupiedFinite
<1>2. ~(Occupied(p)' \subseteq Occupied(p))
  <2>1. SUFFICES ASSUME Occupied(p)' \subseteq Occupied(p) PROVE FALSE
    OBVIOUS
  <2>2. Cardinality(Occupied(p)') <= Cardinality(Occupied(p))
    BY <1>1, <2>1, FS_Subset
  <2>3. Cardinality(Occupied(p)') \in Nat
    BY <1>1, <2>1, FS_Subset, FS_CardinalityType
  <2>4. QED
    BY <1>1, <2>2, <2>3
<1>3. CASE Resize \/ UNCHANGED vars
  BY <1>2, <1>3 DEF Resize, vars, Occupied
<1>4. ASSUME NEW e \in Seats, Finish(e) PROVE FALSE
  <2>1. seat[e] \in Taken
    BY <1>4, SeatFacts DEF Finish
  <2>2. PICK x : x = Done(seat[e])
    OBVIOUS
  <2>3. x.done = TRUE
    BY <2>1, <2>2, FinishedIsTaken
  <2>4. seat' = [seat EXCEPT ![e] = x]
    BY <1>4, <2>2 DEF Finish
  <2>5. Occupied(p)' \subseteq Occupied(p)
    BY <2>3, <2>4 DEF Occupied, TypeOK
  <2>6. QED
    BY <1>2, <2>5
<1>5. ASSUME NEW e \in Seats, Release(e) PROVE FALSE
  <2>1. Occupied(p)' \subseteq Occupied(p)
    BY <1>5 DEF Release, Occupied, TypeOK
  <2>2. QED
    BY <1>2, <2>1
<1>6. ASSUME NEW e \in Seats, NEW s \in Students, NEW q \in Pools, Give(e, s, q)
      PROVE  Cardinality(Occupied(p))' <= total'[p]
  <2>1. PICK x : x = [student |-> s, pool |-> q, done |-> FALSE]
    OBVIOUS
  <2>2. x.pool = q
    BY <2>1
  <2>3. seat' = [seat EXCEPT ![e] = x] /\ total' = total
    BY <1>6, <2>1 DEF Give
  <2>4. Occupied(p)' \subseteq Occupied(p) \cup {e}
    BY <2>3 DEF Occupied, TypeOK
  <2>5. q = p
    <3>1. SUFFICES ASSUME q # p PROVE FALSE
      OBVIOUS
    <3>2. Occupied(p)' \subseteq Occupied(p)
      BY <2>2, <2>3, <3>1 DEF Occupied, TypeOK
    <3>3. QED
      BY <1>2, <3>2
  <2>6. Cardinality(Occupied(p)) < total[p]
    BY <1>6, <2>5 DEF Give
  <2>7. e \notin Occupied(p)
    BY <1>6 DEF Give, Occupied
  <2>8. /\ IsFiniteSet(Occupied(p) \cup {e})
        /\ Cardinality(Occupied(p) \cup {e}) = Cardinality(Occupied(p)) + 1
    BY <1>1, <2>7, FS_AddElement
  <2>9. Cardinality(Occupied(p)') <= Cardinality(Occupied(p)) + 1
    BY <2>4, <2>8, FS_Subset
  <2>10. Cardinality(Occupied(p)') \in Nat
    BY <2>4, <2>8, FS_Subset, FS_CardinalityType
  <2>11. total[p] \in Nat
    BY DEF TypeOK
  <2>12. QED
    BY <1>1, <2>3, <2>6, <2>9, <2>10, <2>11
<1>7. QED
  BY <1>3, <1>4, <1>5, <1>6 DEF Next

(* A pool fills up only to its total, in every step of every behaviour, as long
   as the identifiers are finitely many, so that the taken seats can be counted. *)
THEOREM PoolFillsWithinTotal ==
    ASSUME IsFiniteSet(Seats)
    PROVE  Spec => FilledWithinTotal
<1>1. TypeOK /\ TypeOK' /\ [Next]_vars =>
        [\A p \in Pools : Cardinality(Occupied(p))' > Cardinality(Occupied(p))
            => Cardinality(Occupied(p))' <= total'[p]]_vars
  BY FillStep
<1>2. QED
  BY <1>1, PoolTypeCorrect, PTL DEF Spec, FilledWithinTotal
=============================================================================

-------------------------- MODULE EnrollmentProofs --------------------------
(***************************************************************************)
(* Proofs about Enrollment for any number of students, professors, terms,   *)
(* enrollments and capacity rows, any seed and any bounds.                  *)
(***************************************************************************)
EXTENDS Enrollment, FiniteSetTheorems, WellFoundedInduction, TLAPS

(***************************************************************************)
(* Least and greatest elements, for the `find` of the page and the server.  *)
(***************************************************************************)
Less == {ss \in Nat \X Nat : ss[1] < ss[2]}

LEMMA LessWellFounded == IsWellFoundedOn(Less, Nat)
<1>1. OpToRel(<, Nat) = Less
  BY Zenon DEF OpToRel, Less
<1>2. QED
  BY <1>1, NatLessThanWellFounded, Zenon

LEMMA LeastExists ==
    ASSUME NEW S, S \subseteq Nat, S # {}
    PROVE  \E x \in S : \A y \in S : x <= y
<1>1. PICK x \in S : \A y \in S : ~ (<<y, x>> \in Less)
  BY LessWellFounded, WFMin
<1>2. \A a, b \in Nat : a < b => <<a, b>> \in Less
  BY Zenon DEF Less
<1>3. \A y \in S : ~(y < x)
  BY <1>1, <1>2
<1>4. QED
  BY <1>3

LEMMA GreatestExists ==
    ASSUME NEW n \in Nat, NEW S, S \subseteq 0..n, S # {}
    PROVE  \E x \in S : \A y \in S : x >= y
<1> DEFINE U == {y \in 0..n : n - y \in S}
<1>1. PICK t \in S : TRUE
  OBVIOUS
<1>2. n - t \in U
  BY <1>1
<1>3. U \subseteq Nat /\ U # {}
  BY <1>2
<1>4. PICK u \in U : \A v \in U : u <= v
  BY <1>3, LeastExists
<1>5. \A y \in S : n - y \in U
  OBVIOUS
<1>6. QED
  BY <1>4, <1>5

LEMMA FirstIn ==
    ASSUME NEW S, S \subseteq Nat, S # {}
    PROVE  First(S) \in S
<1>1. \E x \in S : \A y \in S : x <= y
  BY LeastExists
<1>2. QED
  BY <1>1 DEF First

LEMMA LastIn ==
    ASSUME NEW n \in Nat, NEW S, S \subseteq 0..n, S # {}
    PROVE  Last(S) \in S
<1>1. \E x \in S : \A y \in S : x >= y
  BY GreatestExists
<1>2. QED
  BY <1>1 DEF Last

-----------------------------------------------------------------------------
(***************************************************************************)
(* What the definitions of the page and the server return.                  *)
(***************************************************************************)
LEMMA ChangedRow ==
    ASSUME NEW row \in Row, NEW t \in Teachers \cup {None},
           NEW status \in {"active", "completed", "cancelled"}
    PROVE  /\ Changed(row, t, status) \in Row
           /\ Changed(row, t, status) # None
           /\ Changed(row, t, status).student = row.student
           /\ Changed(row, t, status).pool = row.pool
           /\ Changed(row, t, status).status = status
<1>1. Changed(row, t, status) \in Row
  BY DEF Changed, Row
<1>2. QED
  BY <1>1, NoneAssumption DEF Changed

LEMMA NewRow ==
    ASSUME NEW s \in Students, NEW p \in Pools
    PROVE  [student |-> s, pool |-> p, teacher |-> None, status |-> "active"] \in Row
BY DEF Row

LEMMA RowFields ==
    ASSUME TypeOK, NEW e \in Enrollments, enrollments[e] # None
    PROVE  /\ enrollments[e] \in Row
           /\ enrollments[e].student \in Students
           /\ enrollments[e].pool \in Pools
           /\ enrollments[e].pool[2] \in Terms
           /\ enrollments[e].teacher \in Teachers \cup {None}
           /\ enrollments[e].status \in {"active", "completed", "cancelled"}
BY DEF TypeOK, Row, Pools

LEMMA OpenTermType ==
    /\ OpenTerm \in 0..MaxTerm
    /\ OpenTerm # 0 => OpenTerm \in OpenTerms
<1>1. OpenTerms \subseteq Nat /\ OpenTerms \subseteq 1..MaxTerm
  BY DEF OpenTerms, Terms
<1>2. OpenTerms # {} => First(OpenTerms) \in OpenTerms
  BY <1>1, FirstIn
<1>3. CASE OpenTerms = {}
  <2>1. OpenTerm = 0
    BY <1>3 DEF OpenTerm
  <2>2. QED
    BY <2>1, ConstantsAssumption
<1>4. CASE OpenTerms # {}
  <2>1. OpenTerm \in OpenTerms
    BY <1>2, <1>4 DEF OpenTerm
  <2>2. QED
    BY <1>1, <2>1, ConstantsAssumption
<1>5. QED
  BY <1>3, <1>4

LEMMA EffectiveRowType ==
    ASSUME TypeOK, NEW s \in Students, NEW known \in BOOLEAN
    PROVE  EffectiveRow(s, known) # 0 =>
             \E k \in Terms : EffectiveRow(s, known) \in Taking(s, k)
<1> DEFINE history == HistoryRows(s, known)
           active == {e \in history : enrollments[e].status = "active"}
           here == {e \in active : enrollments[e].pool[2] = OpenTerm}
           earliest == {e \in active : \A f \in active :
                           enrollments[e].pool[2] <= enrollments[f].pool[2]}
<1>1. history \subseteq Enrollments /\ \A e \in history : \E k \in Terms : e \in Taking(s, k)
  BY DEF HistoryRows
<1>2. history \subseteq Nat /\ history \subseteq 0..MaxEnrollment
  BY <1>1, ConstantsAssumption DEF Enrollments
<1>3. here # {} => First(here) \in history
  BY <1>2, FirstIn
<1>4. active # {} => earliest # {}
  <2>1. SUFFICES ASSUME active # {} PROVE earliest # {}
    OBVIOUS
  <2> DEFINE terms_ == {k \in Terms : \E e \in active : enrollments[e].pool[2] = k}
  <2>2. \A e \in active : enrollments[e].pool[2] \in terms_
    BY <1>1, RowFields DEF Taking, Mine
  <2>3. terms_ \subseteq Nat /\ terms_ # {}
    BY <2>1, <2>2 DEF Terms
  <2>4. PICK k \in terms_ : \A j \in terms_ : k <= j
    BY <2>3, LeastExists
  <2>5. PICK e \in active : enrollments[e].pool[2] = k
    OBVIOUS
  <2>6. e \in earliest
    BY <2>2, <2>4, <2>5
  <2>7. QED
    BY <2>6
<1>5. active # {} => First(earliest) \in history
  BY <1>2, <1>4, FirstIn
<1>6. history # {} => Last(history) \in history
  BY <1>2, LastIn, ConstantsAssumption
<1>7. EffectiveRow(s, known) = 0 \/ EffectiveRow(s, known) \in history
  <2>1. EffectiveRow(s, known) =
          CASE here # {} -> First(here)
            [] here = {} /\ OpenTerm # 0 /\ CanSelect(s, OpenTerm) -> 0
            [] OTHER -> IF active # {} THEN First(earliest)
                        ELSE IF history # {} THEN Last(history) ELSE 0
    BY Zenon DEF EffectiveRow
  <2> HIDE DEF history, active, here, earliest
  <2>2. QED
    BY <1>3, <1>5, <1>6, <2>1
<1>8. QED
  BY <1>1, <1>7

LEMMA MutableRowType ==
    ASSUME TypeOK, NEW s \in Students, NEW shown,
           MutableRow(s, shown) # 0
    PROVE  MutableRow(s, shown) \in Candidates(s, shown)
<1> DEFINE candidates == Candidates(s, shown)
           running == {e \in candidates : enrollments[e].status # "completed"}
           here == {e \in candidates : enrollments[e].pool[2] = shown}
<1>1. candidates \subseteq Nat
  BY DEF Candidates, Taking, Mine, Enrollments
<1>2. here \cap running # {} => First(here \cap running) \in candidates
  BY <1>1, FirstIn
<1>3. here # {} => First(here) \in candidates
  BY <1>1, FirstIn
<1>4. running # {} => First(running) \in candidates
  BY <1>1, FirstIn
<1>5. candidates # {} => First(candidates) \in candidates
  BY <1>1, FirstIn
<1>6. MutableRow(s, shown) =
          CASE here \cap running # {} -> First(here \cap running)
            [] here \cap running = {} /\ here # {} -> First(here)
            [] here = {} /\ running # {} -> First(running)
            [] OTHER -> IF candidates # {} THEN First(candidates) ELSE 0
  BY Zenon DEF MutableRow
<1> HIDE DEF candidates, running, here
<1>7. MutableRow(s, shown) \in candidates \/ MutableRow(s, shown) = 0
  BY <1>2, <1>3, <1>4, <1>5, <1>6
<1>8. QED
  BY <1>7 DEF candidates
-----------------------------------------------------------------------------
LEMMA PageStateType ==
    ASSUME TypeOK, NEW s \in Students, NEW known \in BOOLEAN
    PROVE  /\ PageState(s, known) \in Page
           /\ PageState(s, known).scenario \in {"S4", "S5"} =>
                /\ PageState(s, known).term \in Terms
                /\ PageState(s, known).row \in Taking(s, PageState(s, known).term)
           /\ PageState(s, known).form => PageState(s, known).scenario = "S5"
<1> DEFINE row == EffectiveRow(s, known)
           term == IF row # 0 THEN enrollments[row].pool[2] ELSE OpenTerm
           termOpen == term = OpenTerm => terms[term].startClasses
           scenario == IF row # 0 THEN IF termOpen THEN "S5" ELSE "S4"
                       ELSE IF OpenTerm = 0 THEN "S1"
                       ELSE IF CanSelect(s, OpenTerm) THEN "S3" ELSE "S2"
           form == /\ scenario = "S5"
                   /\ enrollments[row].teacher = None
                   /\ enrollments[row].status = "active"
<1>1. PageState(s, known) = [scenario |-> scenario, term |-> term, row |-> row, form |-> form]
  BY Zenon DEF PageState
<1>2. row # 0 => /\ row \in Enrollments
                 /\ term \in Terms
                 /\ row \in Taking(s, term)
  <2>1. SUFFICES ASSUME row # 0 PROVE row \in Enrollments /\ term \in Terms /\ row \in Taking(s, term)
    OBVIOUS
  <2>2. PICK k \in Terms : row \in Taking(s, k)
    BY <2>1, EffectiveRowType
  <2>3. row \in Enrollments /\ enrollments[row].pool[2] = k
    BY <2>2 DEF Taking, Mine
  <2>4. QED
    BY <2>1, <2>2, <2>3
<1>3. row \in 0..MaxEnrollment
  BY <1>2, ConstantsAssumption DEF Enrollments
<1>4. term \in 0..MaxTerm
  BY <1>2, OpenTermType, ConstantsAssumption DEF Terms
<1>5. /\ scenario \in {"S1", "S2", "S3", "S4", "S5"}
      /\ scenario \in {"S4", "S5"} => row # 0
  OBVIOUS
<1>6. form \in BOOLEAN /\ (form => scenario = "S5")
  BY Zenon
<1> HIDE DEF row, term, scenario, form
<1>7. PageState(s, known) \in Page
  BY <1>1, <1>3, <1>4, <1>5, <1>6 DEF Page
<1>8. QED
  BY <1>1, <1>2, <1>5, <1>6, <1>7

LEMMA JobTypes ==
    /\ \A p \in Professors : [op |-> "enroll", professor |-> p] \in Job
    /\ \A p \in Professors, k \in Terms : [op |-> "post", professor |-> p, term |-> k] \in Job
    /\ \A e \in Enrollments : [op |-> "cancel", row |-> e] \in Job
    /\ \A e \in Enrollments, t \in Teachers : [op |-> "assign", row |-> e, teacher |-> t] \in Job
BY DEF Job

LEMMA JobFields ==
    ASSUME TypeOK, NEW s \in Students, job[s] # None
    PROVE  /\ job[s] \in Job
           /\ job[s].op \in {"enroll", "post", "cancel", "assign"}
           /\ job[s].op \in {"enroll", "post"} => job[s].professor \in Professors
           /\ job[s].op = "post" => job[s].term \in Terms
           /\ job[s].op \in {"cancel", "assign"} => job[s].row \in Enrollments
           /\ job[s].op = "assign" => job[s].teacher \in Teachers
<1>1. job[s] \in Job
  BY DEF TypeOK
<1>2. QED
  BY <1>1 DEF Job

LEMMA PagesInit ==
    [scenario |-> "loading", term |-> 0, row |-> 0, form |-> FALSE] \in Page
BY ConstantsAssumption DEF Page

LEMMA ServerTypes ==
    /\ \A a, b, c \in BOOLEAN :
         [courseSelection |-> a, startClasses |-> b, offered |-> c] \in Term
    /\ \A t \in Term : t.courseSelection \in BOOLEAN /\ t.startClasses \in BOOLEAN
                       /\ t.offered \in BOOLEAN
    /\ \A p \in Pools, n \in 0..MaxCapacity : [pool |-> p, capacity |-> n] \in CapacityRow
<1>1. \A a, b, c \in BOOLEAN :
         [courseSelection |-> a, startClasses |-> b, offered |-> c] \in Term
  BY DEF Term
<1>2. \A t \in Term : t.courseSelection \in BOOLEAN /\ t.startClasses \in BOOLEAN
                       /\ t.offered \in BOOLEAN
  BY DEF Term
<1>3. \A p \in Pools, n \in 0..MaxCapacity : [pool |-> p, capacity |-> n] \in CapacityRow
  BY DEF CapacityRow
<1>4. QED
  BY <1>1, <1>2, <1>3
-----------------------------------------------------------------------------
(***************************************************************************)
(* Types, actor by actor.                                                   *)
(***************************************************************************)
LEMMA AdministrationTypes ==
    ASSUME TypeOK, Administration
    PROVE  /\ TypeOK'
           /\ UNCHANGED <<enrollments, page, job>>
<1>1. edits' \in 0..MaxEdit
  BY ConstantsAssumption DEF Administration, TypeOK
<1>2. ASSUME NEW selection \in BOOLEAN, NEW start \in BOOLEAN, PostTerm(selection, start)
      PROVE  TypeOK' /\ UNCHANGED <<enrollments, page, job>>
  <2>1. [courseSelection |-> selection, startClasses |-> start, offered |-> FALSE] \in Term
    BY ServerTypes
  <2>2. created' \in 0..MaxTerm
    BY <1>2, ConstantsAssumption DEF PostTerm, TypeOK
  <2>3. PICK t \in Term : terms' = [terms EXCEPT ![created + 1] = t]
    BY <1>2, <2>1 DEF PostTerm
  <2>4. terms' \in [Terms -> Term \cup {None}]
    BY <2>3 DEF TypeOK
  <2>5. QED
    BY <1>1, <1>2, <2>2, <2>4 DEF PostTerm, TypeOK
<1>3. ASSUME NEW selection \in BOOLEAN, NEW start \in BOOLEAN, NEW k \in Terms,
             PatchTerm(k, selection, start)
      PROVE  TypeOK' /\ UNCHANGED <<enrollments, page, job>>
  <2>1. terms[k] \in Term
    BY <1>3 DEF PatchTerm, TypeOK
  <2>2. [courseSelection |-> selection, startClasses |-> start, offered |-> terms[k].offered] \in Term
    BY <2>1, ServerTypes
  <2>3. QED
    BY <1>1, <1>3, <2>2 DEF PatchTerm, TypeOK
<1>4. ASSUME NEW k \in Terms, DeleteTerm(k)
      PROVE  TypeOK' /\ UNCHANGED <<enrollments, page, job>>
  BY <1>1, <1>4 DEF DeleteTerm, TypeOK
<1>5. ASSUME NEW k \in Terms, NEW status \in BOOLEAN, SetLessonStatus(k, status)
      PROVE  TypeOK' /\ UNCHANGED <<enrollments, page, job>>
  <2>1. terms[k] \in Term
    BY <1>5 DEF SetLessonStatus, TypeOK
  <2>2. [courseSelection |-> terms[k].courseSelection,
         startClasses |-> terms[k].startClasses, offered |-> status] \in Term
    BY <2>1, ServerTypes
  <2>3. QED
    BY <1>1, <1>5, <2>2 DEF SetLessonStatus, TypeOK
<1>6. ASSUME NEW p \in Pools, NEW n \in 0..(MaxCapacity + 1),
             PostCapacity(p, n) \/ PutCapacity(p, n)
      PROVE  TypeOK' /\ UNCHANGED <<enrollments, page, job>>
  <2>1. n \in 0..MaxCapacity
    BY <1>6, ConstantsAssumption DEF PostCapacity, PutCapacity, CapacityAllowed
  <2>2. [pool |-> p, capacity |-> n] \in CapacityRow
    BY <2>1, ServerTypes
  <2>3. CASE PostCapacity(p, n)
    BY <1>1, <2>2, <2>3 DEF PostCapacity, TypeOK
  <2>4. CASE PutCapacity(p, n)
    <3>1. CapacityOf(p) # {} /\ CapacityOf(p) \subseteq Nat /\ CapacityOf(p) \subseteq CapacityRows
      BY <2>4 DEF PutCapacity, CapacityOf, CapacityRows
    <3>2. First(CapacityOf(p)) \in CapacityRows
      BY <3>1, FirstIn
    <3>3. QED
      BY <1>1, <2>2, <2>4, <3>2 DEF PutCapacity, TypeOK
  <2>5. QED
    BY <1>6, <2>3, <2>4
<1>7. QED
  BY <1>2, <1>3, <1>4, <1>5, <1>6 DEF Administration

LEMMA WithStatusType ==
    ASSUME TypeOK, NEW e \in Enrollments, enrollments[e] # None,
           NEW status \in {"active", "completed", "cancelled"}
    PROVE  WithStatus(e, status) \in [Enrollments -> Row \cup {None}]
<1>1. Changed(enrollments[e], enrollments[e].teacher, status) \in Row
  BY RowFields, ChangedRow
<1>2. QED
  BY <1>1 DEF WithStatus, TypeOK

LEMMA WithTeacherType ==
    ASSUME TypeOK, NEW e \in Enrollments, enrollments[e] # None, NEW t \in Teachers
    PROVE  WithTeacher(e, t) \in [Enrollments -> Row \cup {None}]
<1>1. Changed(enrollments[e], t, enrollments[e].status) \in Row
  BY RowFields, ChangedRow
<1>2. QED
  BY <1>1 DEF WithTeacher, TypeOK

(* The row of a cancel or an assignment under way exists. *)
RowOfJobExists == \A s \in Students : Writing(s) => enrollments[job[s].row] # None

LEMMA StudentTypes ==
    ASSUME TypeOK, RowOfJobExists, NEW s \in Students, Student(s)
    PROVE  /\ TypeOK'
           /\ UNCHANGED <<edits, created, terms, capacities>>
<1>1. ASSUME NEW known \in BOOLEAN, Load(s, known)
      PROVE  TypeOK' /\ UNCHANGED <<edits, created, terms, capacities>>
  <2>1. PageState(s, known) \in Page
    BY PageStateType
  <2>2. QED
    BY <1>1, <2>1 DEF Load, TypeOK
<1>2. ASSUME NEW professor \in Professors, ChooseSupervisor(s, professor)
      PROVE  TypeOK' /\ UNCHANGED <<edits, created, terms, capacities>>
  BY <1>2, JobTypes DEF ChooseSupervisor, TypeOK
<1>3. ASSUME ReadOpenTerm(s)
      PROVE  TypeOK' /\ UNCHANGED <<edits, created, terms, capacities>>
  <2>1. job[s].professor \in Professors
    BY <1>3, JobFields DEF ReadOpenTerm
  <2>2. OpenTerm # 0 =>
          [op |-> "post", professor |-> job[s].professor, term |-> OpenTerm] \in Job
    BY <2>1, OpenTermType, JobTypes DEF OpenTerms
  <2>3. QED
    BY <1>3, <2>2 DEF ReadOpenTerm, TypeOK
<1>4. ASSUME PostEnrollment(s)
      PROVE  TypeOK' /\ UNCHANGED <<edits, created, terms, capacities>>
  <2>1. <<job[s].professor, job[s].term>> \in Pools
    BY <1>4, JobFields DEF PostEnrollment, Pools
  <2>2. ASSUME NEW e \in Enrollments, NEW p \in Pools, Created(e, s, p)
        PROVE  enrollments' \in [Enrollments -> Row \cup {None}]
    BY <2>2, NewRow DEF Created, TypeOK
  <2>3. enrollments' \in [Enrollments -> Row \cup {None}]
    BY <1>4, <2>1, <2>2 DEF PostEnrollment, TypeOK
  <2>4. QED
    BY <1>4, <2>3 DEF PostEnrollment, TypeOK
<1>5. ASSUME StartCancel(s)
      PROVE  TypeOK' /\ UNCHANGED <<edits, created, terms, capacities>>
  <2>1. PICK row : row = MutableRow(s, page[s].term)
    OBVIOUS
  <2>2. row # 0 /\ job' = [job EXCEPT ![s] = [op |-> "cancel", row |-> row]]
    BY <1>5, <2>1 DEF StartCancel
  <2>3. row \in Enrollments
    BY <2>1, <2>2, MutableRowType DEF Candidates, Taking, Mine
  <2>4. QED
    BY <1>5, <2>2, <2>3, JobTypes DEF StartCancel, TypeOK
<1>6. ASSUME SendCancel(s)
      PROVE  TypeOK' /\ UNCHANGED <<edits, created, terms, capacities>>
  <2>1. job[s].row \in Enrollments /\ enrollments[job[s].row] # None
    BY <1>6, JobFields DEF SendCancel, RowOfJobExists, Writing
  <2>2. WithStatus(job[s].row, "cancelled") \in [Enrollments -> Row \cup {None}]
    BY <2>1, WithStatusType
  <2>3. enrollments' \in [Enrollments -> Row \cup {None}]
    BY <1>6, <2>2 DEF SendCancel, TypeOK
  <2>4. QED
    BY <1>6, <2>3 DEF SendCancel, TypeOK
<1>7. ASSUME NEW teacher \in Teachers, StartAssign(s, teacher)
      PROVE  TypeOK' /\ UNCHANGED <<edits, created, terms, capacities>>
  <2>1. PICK row : row = MutableRow(s, page[s].term)
    OBVIOUS
  <2>2. row # 0 /\ job' = [job EXCEPT ![s] = [op |-> "assign", row |-> row, teacher |-> teacher]]
    BY <1>7, <2>1 DEF StartAssign
  <2>3. row \in Enrollments
    BY <2>1, <2>2, MutableRowType DEF Candidates, Taking, Mine
  <2>4. QED
    BY <1>7, <2>2, <2>3, JobTypes DEF StartAssign, TypeOK
<1>8. ASSUME SendAssign(s)
      PROVE  TypeOK' /\ UNCHANGED <<edits, created, terms, capacities>>
  <2>1. /\ job[s].row \in Enrollments /\ enrollments[job[s].row] # None
        /\ job[s].teacher \in Teachers
    BY <1>8, JobFields DEF SendAssign, RowOfJobExists, Writing
  <2>2. WithTeacher(job[s].row, job[s].teacher) \in [Enrollments -> Row \cup {None}]
    BY <2>1, WithTeacherType
  <2>3. QED
    BY <1>8, <2>2 DEF SendAssign, TypeOK
<1>9. QED
  BY <1>1, <1>2, <1>3, <1>4, <1>5, <1>6, <1>7, <1>8 DEF Student

LEMMA OtherTypes ==
    ASSUME TypeOK, NEW e \in Enrollments, ProfessorCancels(e) \/ NestCompletes(e)
    PROVE  /\ TypeOK'
           /\ UNCHANGED <<edits, created, terms, capacities, page, job>>
<1>1. enrollments[e] # None
  BY DEF ProfessorCancels, NestCompletes
<1>2. enrollments' \in [Enrollments -> Row \cup {None}]
  BY <1>1, WithStatusType DEF ProfessorCancels, NestCompletes
<1>3. QED
  BY <1>2 DEF ProfessorCancels, NestCompletes, TypeOK
-----------------------------------------------------------------------------
(***************************************************************************)
(* The inductive invariant.  A page that offers to cancel or to assign shows *)
(* an enrollment of the student, the only one of its term that is not        *)
(* cancelled, and stays on the screen while such an operation is under way.  *)
(***************************************************************************)
PageOwned == \A s \in Students :
    page[s].scenario \in {"S4", "S5"} =>
        /\ page[s].term \in Terms
        /\ \A k \in Terms : k = page[s].term =>
             /\ page[s].row \in Mine(s, k)
             /\ \A e \in Taking(s, k) : e = page[s].row

JobFollowsPage == \A s \in Students :
    /\ page[s].form => page[s].scenario = "S5"
    /\ job[s] # None =>
        IF Writing(s) THEN page[s].scenario \in {"S4", "S5"}
        ELSE page[s].scenario = "S3"

IInv ==
    /\ TypeOK
    /\ OneTakenPerLesson
    /\ RowOfJobExists
    /\ PageOwned
    /\ JobFollowsPage
    /\ WriteStaysOnRow

(* What no step does to the rows there are: take away, hand over, revive. *)
RowsKept == \A e \in Enrollments : enrollments[e] # None =>
    /\ enrollments'[e] # None
    /\ enrollments'[e].student = enrollments[e].student
    /\ enrollments'[e].pool = enrollments[e].pool
    /\ enrollments'[e].status # "cancelled" => enrollments[e].status # "cancelled"
    /\ enrollments'[e].status = "active" => enrollments[e].status = "active"

NoRowAdded == \A e \in Enrollments : enrollments[e] = None => enrollments'[e] = None

LEMMA WithStatusKeeps ==
    ASSUME TypeOK, NEW e \in Enrollments, enrollments[e] # None,
           NEW status \in {"completed", "cancelled"},
           status = "completed" => enrollments[e].status = "active",
           enrollments' = WithStatus(e, status)
    PROVE  RowsKept /\ NoRowAdded
<1>1. enrollments[e] \in Row /\ enrollments[e].teacher \in Teachers \cup {None}
  BY RowFields
<1>2. PICK x : x = Changed(enrollments[e], enrollments[e].teacher, status)
  OBVIOUS
<1>3. x # None /\ x.student = enrollments[e].student /\ x.pool = enrollments[e].pool
      /\ x.status = status
  BY <1>1, <1>2, ChangedRow
<1>4. enrollments' = [enrollments EXCEPT ![e] = x]
  BY <1>2 DEF WithStatus
<1>5. QED
  BY <1>3, <1>4 DEF TypeOK, RowsKept, NoRowAdded

LEMMA WithTeacherKeeps ==
    ASSUME TypeOK, NEW e \in Enrollments, enrollments[e] # None, NEW t \in Teachers,
           enrollments' = WithTeacher(e, t)
    PROVE  RowsKept /\ NoRowAdded
<1>1. enrollments[e] \in Row /\ enrollments[e].status \in {"active", "completed", "cancelled"}
  BY RowFields
<1>2. PICK x : x = Changed(enrollments[e], t, enrollments[e].status)
  OBVIOUS
<1>3. x # None /\ x.student = enrollments[e].student /\ x.pool = enrollments[e].pool
      /\ x.status = enrollments[e].status
  BY <1>1, <1>2, ChangedRow
<1>4. enrollments' = [enrollments EXCEPT ![e] = x]
  BY <1>2 DEF WithTeacher
<1>5. QED
  BY <1>3, <1>4 DEF TypeOK, RowsKept, NoRowAdded

LEMMA CreatedKeeps ==
    ASSUME TypeOK, NEW e \in Enrollments, NEW s \in Students, NEW p \in Pools,
           Created(e, s, p)
    PROVE  /\ RowsKept
           /\ enrollments[e] = None
           /\ enrollments'[e] # None
           /\ enrollments'[e].student = s /\ enrollments'[e].pool = p
           /\ enrollments'[e].status = "active"
           /\ \A f \in Enrollments \ {e} : enrollments'[f] = enrollments[f]
<1>1. PICK x : x = [student |-> s, pool |-> p, teacher |-> None, status |-> "active"]
  OBVIOUS
<1>2. enrollments[e] = None
  BY DEF Created, Enrollments
<1>3. enrollments' = [enrollments EXCEPT ![e] = x]
  BY <1>1 DEF Created
<1>4. enrollments'[e] = x /\ \A f \in Enrollments \ {e} : enrollments'[f] = enrollments[f]
  BY <1>3 DEF TypeOK
<1>5. RowsKept
  BY <1>2, <1>4 DEF RowsKept
<1>6. x # None /\ x.student = s /\ x.pool = p /\ x.status = "active"
  BY <1>1, NewRow, NoneAssumption
<1>7. QED
  BY <1>2, <1>4, <1>5, <1>6

(* Every step keeps the rows there are; only a POST adds one, for a student
   whose page shows the selection. *)
LEMMA StepKeepsRows ==
    ASSUME IInv, [Next]_vars
    PROVE  /\ TypeOK'
           /\ RowsKept
           /\ \/ NoRowAdded
              \/ \E s \in Students, e \in Enrollments, p \in Pools :
                   /\ PostEnrollment(s)
                   /\ MayEnroll(s, p)
                   /\ Created(e, s, p)
<1> USE DEF IInv
<1>1. CASE Administration
  BY <1>1, AdministrationTypes DEF RowsKept, NoRowAdded
<1>2. ASSUME NEW e \in Enrollments, ProfessorCancels(e) \/ NestCompletes(e)
      PROVE  TypeOK' /\ RowsKept /\ NoRowAdded
  BY <1>2, OtherTypes, WithStatusKeeps DEF ProfessorCancels, NestCompletes
<1>3. ASSUME NEW s \in Students, Student(s), UNCHANGED enrollments
      PROVE  TypeOK' /\ RowsKept /\ NoRowAdded
  BY <1>3, StudentTypes DEF RowsKept, NoRowAdded
<1>4. ASSUME NEW s \in Students, SendCancel(s)
      PROVE  TypeOK' /\ RowsKept /\ NoRowAdded
  <2>1. job[s].row \in Enrollments /\ enrollments[job[s].row] # None
    BY <1>4, JobFields DEF SendCancel, RowOfJobExists, Writing
  <2>2. TypeOK'
    BY <1>4, StudentTypes DEF Student
  <2>3. QED
    BY <1>4, <2>1, <2>2, WithStatusKeeps DEF SendCancel, RowsKept, NoRowAdded
<1>5. ASSUME NEW s \in Students, SendAssign(s)
      PROVE  TypeOK' /\ RowsKept /\ NoRowAdded
  <2>1. /\ job[s].row \in Enrollments /\ enrollments[job[s].row] # None
        /\ job[s].teacher \in Teachers
    BY <1>5, JobFields DEF SendAssign, RowOfJobExists, Writing
  <2>2. TypeOK'
    BY <1>5, StudentTypes DEF Student
  <2>3. QED
    BY <1>5, <2>1, <2>2, WithTeacherKeeps DEF SendAssign
<1>6. ASSUME NEW s \in Students, PostEnrollment(s)
      PROVE  /\ TypeOK'
             /\ RowsKept
             /\ \/ NoRowAdded
                \/ \E e \in Enrollments, p \in Pools : MayEnroll(s, p) /\ Created(e, s, p)
  <2>1. PICK p : p = <<job[s].professor, job[s].term>>
    OBVIOUS
  <2>2. p \in Pools
    BY <1>6, <2>1, JobFields DEF PostEnrollment, Pools
  <2>3. TypeOK'
    BY <1>6, StudentTypes DEF Student
  <2>4. \/ UNCHANGED enrollments
        \/ \E e \in Enrollments : MayEnroll(s, p) /\ Created(e, s, p)
    BY <1>6, <2>1 DEF PostEnrollment
  <2>5. QED
    BY <2>2, <2>3, <2>4, CreatedKeeps DEF RowsKept, NoRowAdded
<1>7. CASE UNCHANGED vars
  BY <1>7 DEF vars, TypeOK, RowsKept, NoRowAdded
<1>8. ASSUME NEW s \in Students, Student(s)
      PROVE  \/ UNCHANGED enrollments \/ SendCancel(s) \/ SendAssign(s) \/ PostEnrollment(s)
  BY <1>8 DEF Student, Load, ChooseSupervisor, ReadOpenTerm, StartCancel, StartAssign
<1>9. QED
  BY <1>1, <1>2, <1>3, <1>4, <1>5, <1>6, <1>7, <1>8 DEF Next

LEMMA OneTakenStep ==
    ASSUME IInv, [Next]_vars
    PROVE  OneTakenPerLesson'
<1>1. RowsKept
  BY StepKeepsRows
<1>2. CASE NoRowAdded
  BY <1>1, <1>2 DEF IInv, RowsKept, NoRowAdded, OneTakenPerLesson
<1>3. ASSUME NEW s \in Students, NEW e \in Enrollments, NEW p \in Pools,
             MayEnroll(s, p), Created(e, s, p)
      PROVE  OneTakenPerLesson'
  <2>1. \A f \in Enrollments : ~(/\ enrollments[f] # None
                                 /\ enrollments[f].student = s
                                 /\ enrollments[f].pool[2] = p[2]
                                 /\ enrollments[f].status # "cancelled")
    BY <1>3 DEF MayEnroll, CanSelect, Taking, Mine
  <2>2. /\ enrollments'[e].student = s /\ enrollments'[e].pool = p
        /\ \A f \in Enrollments \ {e} : enrollments'[f] = enrollments[f]
    BY <1>3, CreatedKeeps DEF IInv
  <2>3. QED
    BY <2>1, <2>2 DEF IInv, OneTakenPerLesson
<1>4. QED
  BY <1>2, <1>3, StepKeepsRows

LEMMA PageOwnedStep ==
    ASSUME IInv, [Next]_vars
    PROVE  PageOwned'
<1> USE DEF IInv
<1>1. TypeOK' /\ RowsKept
  BY StepKeepsRows
<1>2. ASSUME NEW s \in Students, NEW k \in Terms,
             \A e \in Enrollments :
                enrollments[e] = None => enrollments'[e] = None \/ enrollments'[e].student # s
      PROVE  /\ Mine(s, k)' = Mine(s, k)
             /\ Taking(s, k)' \subseteq Taking(s, k)
  BY <1>1, <1>2 DEF RowsKept, Mine, Taking
<1>3. SUFFICES ASSUME NEW s \in Students, page'[s].scenario \in {"S4", "S5"}
               PROVE  /\ page'[s].term \in Terms
                      /\ \A k \in Terms : k = page'[s].term =>
                           /\ page'[s].row \in Mine(s, k)'
                           /\ \A e \in Taking(s, k)' : e = page'[s].row
  BY DEF PageOwned
<1>4. CASE page'[s] = page[s]
  <2>1. \A e \in Enrollments :
            enrollments[e] = None => enrollments'[e] = None \/ enrollments'[e].student # s
    <3>1. CASE NoRowAdded
      BY <3>1 DEF NoRowAdded
    <3>2. ASSUME NEW t \in Students, NEW e \in Enrollments, NEW p \in Pools,
                 PostEnrollment(t), Created(e, t, p)
          PROVE  \A f \in Enrollments : enrollments[f] = None =>
                    enrollments'[f] = None \/ enrollments'[f].student # s
      <4>1. page[t].scenario = "S3"
        BY <3>2 DEF PostEnrollment, JobFollowsPage, Writing
      <4>2. t # s
        BY <1>3, <1>4, <4>1
      <4>3. /\ enrollments'[e].student = t
            /\ \A f \in Enrollments \ {e} : enrollments'[f] = enrollments[f]
        BY <3>2, CreatedKeeps
      <4>4. QED
        BY <4>2, <4>3
    <3>3. QED
      BY <3>1, <3>2, StepKeepsRows
  <2>2. /\ page[s].term \in Terms
        /\ \A k \in Terms : k = page[s].term =>
             /\ page[s].row \in Mine(s, k)
             /\ \A e \in Taking(s, k) : e = page[s].row
    BY <1>3, <1>4 DEF PageOwned
  <2>3. \A k \in Terms : Mine(s, k)' = Mine(s, k) /\ Taking(s, k)' \subseteq Taking(s, k)
    BY <1>2, <2>1
  <2>4. QED
    BY <1>4, <2>2, <2>3
<1>5. ASSUME NEW known \in BOOLEAN, Load(s, known)
      PROVE  /\ page'[s].term \in Terms
             /\ \A k \in Terms : k = page'[s].term =>
                  /\ page'[s].row \in Mine(s, k)'
                  /\ \A e \in Taking(s, k)' : e = page'[s].row
  <2>1. page'[s] = PageState(s, known) /\ UNCHANGED enrollments
    BY <1>5 DEF Load, TypeOK
  <2>2. PICK k : k = PageState(s, known).term
    OBVIOUS
  <2>3. k \in Terms /\ page'[s].row \in Taking(s, k) /\ page'[s].term = k
    BY <1>3, <2>1, <2>2, PageStateType
  <2>4. Mine(s, k)' = Mine(s, k) /\ Taking(s, k)' = Taking(s, k)
    BY <2>1 DEF Mine, Taking
  <2>5. page'[s].row \in Mine(s, k)
    BY <2>3 DEF Taking
  <2>6. \A e \in Taking(s, k) : e = page'[s].row
    BY <2>3 DEF Taking, Mine, OneTakenPerLesson
  <2>7. QED
    BY <2>3, <2>4, <2>5, <2>6
<1>6. page'[s] = page[s] \/ \E known \in BOOLEAN : Load(s, known)
  <2>1. CASE Administration
    BY <2>1, AdministrationTypes
  <2>2. ASSUME NEW e \in Enrollments, ProfessorCancels(e) \/ NestCompletes(e)
        PROVE  page'[s] = page[s]
    BY <2>2, OtherTypes
  <2>3. ASSUME NEW t \in Students, Student(t)
        PROVE  page'[s] = page[s] \/ \E known \in BOOLEAN : Load(s, known)
    <3>1. ASSUME NEW known \in BOOLEAN, Load(t, known)
          PROVE  page'[s] = page[s] \/ \E known_ \in BOOLEAN : Load(s, known_)
      <4>1. CASE t = s
        BY <3>1, <4>1
      <4>2. CASE t # s
        BY <3>1, <4>2 DEF Load, TypeOK
      <4>3. QED
        BY <4>1, <4>2
    <3>2. (\E known \in BOOLEAN : Load(t, known)) \/ UNCHANGED page
      BY <2>3 DEF Student, ChooseSupervisor, ReadOpenTerm, PostEnrollment, StartCancel,
                  SendCancel, StartAssign, SendAssign
    <3>3. QED
      BY <3>1, <3>2
  <2>4. CASE UNCHANGED vars
    BY <2>4 DEF vars
  <2>5. QED
    BY <2>1, <2>2, <2>3, <2>4 DEF Next
<1>7. QED
  BY <1>3, <1>4, <1>5, <1>6

(* What a step does to the operation and the page of one student. *)
LEMMA StudentJobStep ==
    ASSUME IInv, [Next]_vars, NEW s \in Students
    PROVE  \/ page'[s] = page[s] /\ job'[s] = job[s]
           \/ job'[s] = None /\ (page'[s].form => page'[s].scenario = "S5")
           \/ /\ page'[s] = page[s]
              /\ page[s].scenario = "S3"
              /\ job'[s].op \in {"enroll", "post"}
           \/ /\ page'[s] = page[s]
              /\ page[s].scenario \in {"S4", "S5"}
              /\ job'[s].op \in {"cancel", "assign"}
              /\ job'[s].row \in Candidates(s, page[s].term)
              /\ UNCHANGED enrollments
<1> USE DEF IInv
<1>1. CASE Administration
  BY <1>1, AdministrationTypes
<1>2. ASSUME NEW e \in Enrollments, ProfessorCancels(e) \/ NestCompletes(e)
      PROVE  page'[s] = page[s] /\ job'[s] = job[s]
  BY <1>2, OtherTypes
<1>3. ASSUME NEW t \in Students \ {s}, Student(t)
      PROVE  page'[s] = page[s] /\ job'[s] = job[s]
  BY <1>3 DEF Student, Load, ChooseSupervisor, ReadOpenTerm, PostEnrollment, StartCancel,
              SendCancel, StartAssign, SendAssign, TypeOK
<1>4. ASSUME NEW known \in BOOLEAN, Load(s, known)
      PROVE  job'[s] = None /\ (page'[s].form => page'[s].scenario = "S5")
  BY <1>4, PageStateType DEF Load, TypeOK
<1>5. CASE PostEnrollment(s) \/ SendCancel(s) \/ SendAssign(s)
  BY <1>5 DEF PostEnrollment, SendCancel, SendAssign, TypeOK, JobFollowsPage
<1>6. ASSUME NEW professor \in Professors, ChooseSupervisor(s, professor)
      PROVE  /\ page'[s] = page[s] /\ page[s].scenario = "S3"
             /\ job'[s].op \in {"enroll", "post"}
  BY <1>6 DEF ChooseSupervisor, TypeOK
<1>7. ASSUME ReadOpenTerm(s)
      PROVE  /\ page'[s] = page[s] /\ page[s].scenario = "S3"
             /\ job'[s] = None \/ job'[s].op \in {"enroll", "post"}
  BY <1>7 DEF ReadOpenTerm, TypeOK, JobFollowsPage, Writing
<1>8. ASSUME StartCancel(s)
      PROVE  /\ page'[s] = page[s] /\ page[s].scenario \in {"S4", "S5"}
             /\ job'[s].op \in {"cancel", "assign"}
             /\ job'[s].row \in Candidates(s, page[s].term)
             /\ UNCHANGED enrollments
  <2>1. PICK row : row = MutableRow(s, page[s].term)
    OBVIOUS
  <2>2. row # 0 /\ job' = [job EXCEPT ![s] = [op |-> "cancel", row |-> row]]
    BY <1>8, <2>1 DEF StartCancel
  <2>3. row \in Candidates(s, page[s].term)
    BY <2>1, <2>2, MutableRowType
  <2>4. QED
    BY <1>8, <2>2, <2>3 DEF StartCancel, TypeOK
<1>9. ASSUME NEW teacher \in Teachers, StartAssign(s, teacher)
      PROVE  /\ page'[s] = page[s] /\ page[s].scenario \in {"S4", "S5"}
             /\ job'[s].op \in {"cancel", "assign"}
             /\ job'[s].row \in Candidates(s, page[s].term)
             /\ UNCHANGED enrollments
  <2>1. PICK row : row = MutableRow(s, page[s].term)
    OBVIOUS
  <2>2. row # 0 /\ job' = [job EXCEPT ![s] = [op |-> "assign", row |-> row, teacher |-> teacher]]
    BY <1>9, <2>1 DEF StartAssign
  <2>3. row \in Candidates(s, page[s].term)
    BY <2>1, <2>2, MutableRowType
  <2>4. QED
    BY <1>9, <2>2, <2>3 DEF StartAssign, TypeOK, JobFollowsPage
<1>10. CASE UNCHANGED vars
  BY <1>10 DEF vars
<1>11. ASSUME NEW t \in Students, Student(t)
       PROVE  t # s \/ Student(s)
  BY <1>11
<1>12. ASSUME Student(s)
       PROVE  \/ \E known \in BOOLEAN : Load(s, known)
              \/ \E professor \in Professors : ChooseSupervisor(s, professor)
              \/ ReadOpenTerm(s) \/ PostEnrollment(s) \/ StartCancel(s) \/ SendCancel(s)
              \/ \E teacher \in Teachers : StartAssign(s, teacher)
              \/ SendAssign(s)
  BY <1>12 DEF Student
<1>13. CASE Student(s)
  <2>1. CASE \E known \in BOOLEAN : Load(s, known)
    BY <1>4, <2>1
  <2>2. CASE PostEnrollment(s) \/ SendCancel(s) \/ SendAssign(s)
    BY <1>5, <2>2
  <2>3. CASE \E professor \in Professors : ChooseSupervisor(s, professor)
    BY <1>6, <2>3
  <2>4. CASE ReadOpenTerm(s)
    <3>1. page[s].form => page[s].scenario = "S5"
      BY DEF JobFollowsPage
    <3>2. QED
      BY <1>7, <2>4, <3>1
  <2>5. CASE StartCancel(s)
    BY <1>8, <2>5
  <2>6. CASE \E teacher \in Teachers : StartAssign(s, teacher)
    BY <1>9, <2>6
  <2>7. QED
    BY <1>12, <1>13, <2>1, <2>2, <2>3, <2>4, <2>5, <2>6
<1>14. QED
  BY <1>1, <1>2, <1>3, <1>10, <1>13 DEF Next

LEMMA JobStep ==
    ASSUME IInv, [Next]_vars
    PROVE  RowOfJobExists' /\ JobFollowsPage' /\ WriteStaysOnRow'
<1> USE DEF IInv
<1>1. TypeOK' /\ RowsKept
  BY StepKeepsRows
<1>2. ASSUME NEW s \in Students
      PROVE  /\ page'[s].form => page'[s].scenario = "S5"
             /\ job'[s] # None =>
                  IF Writing(s)' THEN page'[s].scenario \in {"S4", "S5"}
                  ELSE page'[s].scenario = "S3"
             /\ Writing(s)' => enrollments'[job'[s].row] # None
             /\ Writing(s)' /\ enrollments'[job'[s].row].pool[2] = page'[s].term
                  => job'[s].row = page'[s].row
  <2>1. CASE page'[s] = page[s] /\ job'[s] = job[s]
    <3>1. Writing(s)' = Writing(s)
      BY <2>1 DEF Writing
    <3>2. ASSUME Writing(s)
          PROVE  /\ enrollments'[job[s].row] # None
                 /\ enrollments'[job[s].row].pool = enrollments[job[s].row].pool
      <4>1. job[s].row \in Enrollments /\ enrollments[job[s].row] # None
        BY <3>2, JobFields DEF RowOfJobExists, Writing
      <4>2. QED
        BY <1>1, <4>1 DEF RowsKept
    <3>3. QED
      BY <2>1, <3>1, <3>2 DEF JobFollowsPage, WriteStaysOnRow
  <2>2. CASE job'[s] = None /\ (page'[s].form => page'[s].scenario = "S5")
    BY <2>2 DEF Writing
  <2>3. CASE /\ page'[s] = page[s]
             /\ page[s].scenario = "S3"
             /\ job'[s].op \in {"enroll", "post"}
    BY <2>3 DEF Writing, JobFollowsPage
  <2>4. CASE /\ page'[s] = page[s]
             /\ page[s].scenario \in {"S4", "S5"}
             /\ job'[s].op \in {"cancel", "assign"}
             /\ job'[s].row \in Candidates(s, page[s].term)
             /\ UNCHANGED enrollments
    <3>1. PICK k : k = IF OpenTerm # 0 THEN OpenTerm ELSE page[s].term
      OBVIOUS
    <3>2. Candidates(s, page[s].term) = Taking(s, k)
      BY <3>1 DEF Candidates
    <3>3. /\ job'[s].row \in Taking(s, k)
          /\ enrollments[job'[s].row] # None
          /\ enrollments[job'[s].row].pool[2] = k
      BY <2>4, <3>2 DEF Taking, Mine
    <3>4. /\ page[s].term \in Terms
          /\ k = page[s].term => \A e \in Taking(s, k) : e = page[s].row
      BY <2>4 DEF PageOwned
    <3>5. enrollments' = enrollments /\ page'[s] = page[s]
      BY <2>4
    <3>6. enrollments'[job'[s].row] # None /\ enrollments'[job'[s].row].pool[2] = k
      BY <3>3, <3>5
    <3>7. enrollments'[job'[s].row].pool[2] = page'[s].term => job'[s].row = page'[s].row
      BY <3>3, <3>4, <3>5, <3>6
    <3>8. page'[s].form => page'[s].scenario = "S5"
      BY <3>5 DEF JobFollowsPage
    <3>9. page'[s].scenario \in {"S4", "S5"}
      BY <2>4
    <3>10. job'[s] # None => Writing(s)'
      BY <2>4 DEF Writing
    <3>11. QED
      BY <3>6, <3>7, <3>8, <3>9, <3>10
  <2>5. QED
    BY <2>1, <2>2, <2>3, <2>4, StudentJobStep
<1>3. RowOfJobExists'
  BY <1>2 DEF RowOfJobExists
<1>4. JobFollowsPage'
  BY <1>2 DEF JobFollowsPage
<1>5. WriteStaysOnRow'
  BY <1>2 DEF WriteStaysOnRow
<1>6. QED
  BY <1>3, <1>4, <1>5

LEMMA InitInvariant == Init => IInv
<1> SUFFICES ASSUME Init PROVE IInv
  OBVIOUS
<1>1. TypeOK
  BY PagesInit, SeedsAssumption, ConstantsAssumption DEF Init, TypeOK
<1>2. \A s \in Students : page[s].scenario = "loading" /\ page[s].form = FALSE /\ job[s] = None
  BY DEF Init
<1>3. \A e \in Enrollments : enrollments[e] = None
  BY DEF Init
<1>4. QED
  BY <1>1, <1>2, <1>3 DEF IInv, OneTakenPerLesson, RowOfJobExists, PageOwned, JobFollowsPage,
                          WriteStaysOnRow, Writing

(* The invariant holds in every reachable state. *)
THEOREM EnrollmentInvariant == Spec => []IInv
<1>1. IInv /\ [Next]_vars => IInv'
  <2> SUFFICES ASSUME IInv, [Next]_vars PROVE IInv'
    OBVIOUS
  <2>1. TypeOK'
    BY StepKeepsRows
  <2>2. QED
    BY <2>1, OneTakenStep, PageOwnedStep, JobStep DEF IInv
<1>2. QED
  BY <1>1, InitInvariant, PTL DEF Spec

(* The values of the variables keep their types. *)
THEOREM EnrollmentTypeCorrect == Spec => []TypeOK
BY EnrollmentInvariant, PTL DEF IInv

(* A student never has two enrollments of a lesson that are not cancelled. *)
THEOREM OneEnrollmentPerLesson == Spec => []OneTakenPerLesson
BY EnrollmentInvariant, PTL DEF IInv

(* A cancel or an assignment that stays in the term of the page stays on the
   row of the page, however terms, professors and Nest interfere. *)
THEOREM WritesStayOnRow == Spec => []WriteStaysOnRow
BY EnrollmentInvariant, PTL DEF IInv

-----------------------------------------------------------------------------
(***************************************************************************)
(* Enrollment implements SeatPool.                                          *)
(***************************************************************************)
LEMMA TotalIsNatural ==
    ASSUME NEW p \in Pools
    PROVE  Total(p) \in Nat
<1> DEFINE seats == {x \in CapacityRows \X (1..MaxCapacity) :
                        x[1] \in CapacityOf(p) /\ x[2] <= capacities[x[1]].capacity}
<1>1. IsFiniteSet(CapacityRows) /\ IsFiniteSet(1..MaxCapacity)
  BY FS_Interval, ConstantsAssumption DEF CapacityRows
<1>2. IsFiniteSet(CapacityRows \X (1..MaxCapacity))
  BY <1>1, FS_Product
<1>3. seats \subseteq CapacityRows \X (1..MaxCapacity)
  OBVIOUS
<1>4. IsFiniteSet(seats)
  BY <1>2, <1>3, FS_Subset
<1>5. Cardinality(seats) \in Nat
  BY <1>4, FS_CardinalityType
<1>6. Total(p) = Cardinality(seats)
  BY Zenon DEF Total
<1>7. QED
  BY <1>5, <1>6

LEMMA SeatFields ==
    ASSUME TypeOK, NEW e \in Enrollments,
           enrollments[e] # None, enrollments[e].status # "cancelled"
    PROVE  /\ SeatOf(e) # None
           /\ SeatOf(e).student = enrollments[e].student
           /\ SeatOf(e).pool = enrollments[e].pool
           /\ SeatOf(e).done = (enrollments[e].status = "completed")
<1>1. SeatOf(e) = [student |-> enrollments[e].student, pool |-> enrollments[e].pool,
                   done |-> enrollments[e].status = "completed"]
  BY DEF SeatOf
<1>2. (enrollments[e].status = "completed") \in BOOLEAN
  OBVIOUS
<1>3. SeatOf(e) \in Seat
  BY <1>1, <1>2, RowFields DEF Seat
<1>4. QED
  BY <1>1, <1>3, NoneAssumption

LEMMA NoSeatIffNoneTaken ==
    ASSUME TypeOK, NEW e \in Enrollments
    PROVE  SeatOf(e) = None <=> enrollments[e] = None \/ enrollments[e].status = "cancelled"
BY SeatFields DEF SeatOf

LEMMA OccupiedIsActive ==
    ASSUME TypeOK, NEW p \in Pools
    PROVE  SeatsOfRows!Occupied(p) = Active(p)
<1>1. \A e \in Enrollments :
        (SeatOf(e) # None /\ SeatOf(e).pool = p /\ ~SeatOf(e).done)
          <=> (enrollments[e] # None /\ enrollments[e].pool = p /\ enrollments[e].status = "active")
  BY SeatFields, NoSeatIffNoneTaken, RowFields
<1>2. QED
  BY <1>1 DEF SeatsOfRows!Occupied, Active

LEMMA HoldsIsTaking ==
    ASSUME TypeOK, NEW s \in Students, NEW k \in Terms
    PROVE  SeatsOfRows!Holds(s, k) <=> Taking(s, k) # {}
<1>1. \A e \in Enrollments :
        (SeatOf(e) # None /\ SeatOf(e).student = s /\ SeatOf(e).pool[2] = k)
          <=> e \in Taking(s, k)
  BY SeatFields, NoSeatIffNoneTaken DEF Taking, Mine
<1>2. Taking(s, k) \subseteq Enrollments
  BY DEF Taking, Mine
<1>3. QED
  BY <1>1, <1>2 DEF SeatsOfRows!Holds

(* Steps that leave every enrollment, or only its teacher, change, change no
   seat: SeatPool may resize. *)
LEMMA ResizeStep ==
    ASSUME \A e \in Enrollments : SeatOf(e)' = SeatOf(e)
    PROVE  SeatsOfRows!Next
<1>1. \A p \in Pools : Total(p)' \in Nat
  <2>1. ASSUME NEW p \in Pools
        PROVE  Total(p)' \in Nat
    <3> DEFINE seats == {x \in CapacityRows \X (1..MaxCapacity) :
                  /\ x[1] \in {c \in CapacityRows : capacities'[c] # None /\ capacities'[c].pool = p}
                  /\ x[2] <= capacities'[x[1]].capacity}
    <3>1. IsFiniteSet(CapacityRows) /\ IsFiniteSet(1..MaxCapacity)
      BY FS_Interval, ConstantsAssumption DEF CapacityRows
    <3>2. IsFiniteSet(CapacityRows \X (1..MaxCapacity))
      BY <3>1, FS_Product
    <3>3. seats \subseteq CapacityRows \X (1..MaxCapacity)
      OBVIOUS
    <3>4. IsFiniteSet(seats)
      BY <3>2, <3>3, FS_Subset
    <3>5. Cardinality(seats) \in Nat
      BY <3>4, FS_CardinalityType
    <3>6. Total(p)' = Cardinality(seats)
      BY Zenon DEF Total, CapacityOf
    <3>7. QED
      BY <3>5, <3>6
  <2>2. QED
    BY <2>1
<1>2. [p \in Pools |-> Total(p)]' \in [Pools -> Nat]
  BY <1>1
<1>3. [e \in Enrollments |-> SeatOf(e)]' = [e \in Enrollments |-> SeatOf(e)]
  OBVIOUS
<1>4. SeatsOfRows!Resize
  BY <1>2, <1>3 DEF SeatsOfRows!Resize, SeatsOfRows!Pools, Pools
<1>5. QED
  BY <1>4 DEF SeatsOfRows!Next

(* The cardinality of the instance is the cardinality of this module. *)
LEMMA SameCardinality ==
    ASSUME NEW S
    PROVE  SeatsOfRows!Cardinality(S) = Cardinality(S)
BY Zenon DEF SeatsOfRows!Cardinality, Cardinality

LEMMA StatusStep ==
    ASSUME TypeOK, NEW e \in Enrollments, enrollments[e] # None,
           NEW status \in {"completed", "cancelled"},
           enrollments[e].status # "cancelled",
           enrollments' = WithStatus(e, status), UNCHANGED capacities
    PROVE  SeatsOfRows!Next
<1>1. /\ enrollments[e] \in Row /\ enrollments[e].teacher \in Teachers \cup {None}
      /\ enrollments[e].student \in Students /\ enrollments[e].pool \in Pools
  BY RowFields
<1>2. PICK x : x = Changed(enrollments[e], enrollments[e].teacher, status)
  OBVIOUS
<1>3. x # None /\ x.student = enrollments[e].student /\ x.pool = enrollments[e].pool
      /\ x.status = status
  BY <1>1, <1>2, ChangedRow
<1>4. /\ enrollments'[e] = x
      /\ \A f \in Enrollments \ {e} : enrollments'[f] = enrollments[f]
  BY <1>2 DEF WithStatus, TypeOK
<1>5. \A f \in Enrollments \ {e} : SeatOf(f)' = SeatOf(f)
  BY <1>4 DEF SeatOf
<1>6. [p \in Pools |-> Total(p)]' = [p \in Pools |-> Total(p)]
  <2>1. \A p \in Pools : Total(p)' = Total(p)
    BY DEF Total, CapacityOf
  <2>2. QED
    BY <2>1
<1>7. SeatOf(e) # None
  BY SeatFields
<1>8. CASE status = "cancelled"
  <2>1. SeatOf(e)' = None
    BY <1>3, <1>4, <1>8 DEF SeatOf
  <2>2. [f \in Enrollments |-> SeatOf(f)]' =
          [[f \in Enrollments |-> SeatOf(f)] EXCEPT ![e] = None]
    BY <1>5, <2>1
  <2>3. SeatsOfRows!Release(e)
    BY <1>6, <1>7, <2>2 DEF SeatsOfRows!Release
  <2>4. QED
    BY <2>3 DEF SeatsOfRows!Next
<1>9. CASE status = "completed"
  <2>1. SeatOf(e)' = [student |-> x.student, pool |-> x.pool, done |-> TRUE]
    BY <1>3, <1>4, <1>9 DEF SeatOf
  <2>2. SeatOf(e).student = x.student /\ SeatOf(e).pool = x.pool
    BY <1>3, SeatFields
  <2>3. SeatsOfRows!Done(SeatOf(e)) = [student |-> x.student, pool |-> x.pool, done |-> TRUE]
    BY <2>2 DEF SeatsOfRows!Done
  <2>4. [f \in Enrollments |-> SeatOf(f)]' =
          [[f \in Enrollments |-> SeatOf(f)] EXCEPT ![e] = SeatsOfRows!Done(SeatOf(e))]
    BY <1>5, <2>1, <2>3
  <2>5. SeatsOfRows!Finish(e)
    BY <1>6, <1>7, <2>4 DEF SeatsOfRows!Finish
  <2>6. QED
    BY <2>5 DEF SeatsOfRows!Next
<1>10. QED
  BY <1>8, <1>9

LEMMA TeacherStep ==
    ASSUME TypeOK, NEW e \in Enrollments, enrollments[e] # None, NEW t \in Teachers,
           enrollments' = WithTeacher(e, t)
    PROVE  SeatsOfRows!Next
<1>1. enrollments[e] \in Row /\ enrollments[e].status \in {"active", "completed", "cancelled"}
  BY RowFields
<1>2. PICK x : x = Changed(enrollments[e], t, enrollments[e].status)
  OBVIOUS
<1>3. x # None /\ x.student = enrollments[e].student /\ x.pool = enrollments[e].pool
      /\ x.status = enrollments[e].status
  BY <1>1, <1>2, ChangedRow
<1>4. /\ enrollments'[e] = x
      /\ \A f \in Enrollments \ {e} : enrollments'[f] = enrollments[f]
  BY <1>2 DEF WithTeacher, TypeOK
<1>5. \A f \in Enrollments : SeatOf(f)' = SeatOf(f)
  BY <1>3, <1>4 DEF SeatOf
<1>6. QED
  BY <1>5, ResizeStep

LEMMA PostStep ==
    ASSUME TypeOK, NEW e \in Enrollments, NEW s \in Students, NEW p \in Pools,
           MayEnroll(s, p), Created(e, s, p), UNCHANGED capacities
    PROVE  SeatsOfRows!Next
<1>1. /\ enrollments[e] = None /\ enrollments'[e] # None
      /\ enrollments'[e].student = s /\ enrollments'[e].pool = p
      /\ enrollments'[e].status = "active"
      /\ \A f \in Enrollments \ {e} : enrollments'[f] = enrollments[f]
  BY CreatedKeeps
<1>2. SeatOf(e) = None /\ \A f \in Enrollments \ {e} : SeatOf(f)' = SeatOf(f)
  BY <1>1 DEF SeatOf
<1>3. SeatOf(e)' = [student |-> s, pool |-> p, done |-> FALSE]
  BY <1>1 DEF SeatOf
<1>4. [f \in Enrollments |-> SeatOf(f)]' =
        [[f \in Enrollments |-> SeatOf(f)] EXCEPT ![e] = [student |-> s, pool |-> p, done |-> FALSE]]
  BY <1>2, <1>3
<1>5. [q \in Pools |-> Total(q)]' = [q \in Pools |-> Total(q)]
  <2>1. \A q \in Pools : Total(q)' = Total(q)
    BY DEF Total, CapacityOf
  <2>2. QED
    BY <2>1
<1>6. p[2] \in Terms /\ p \in SeatsOfRows!Pools
  BY DEF Pools, SeatsOfRows!Pools
<1>7. ~ SeatsOfRows!Holds(s, p[2])
  BY <1>6, HoldsIsTaking DEF MayEnroll, CanSelect
<1>8. SeatsOfRows!Cardinality(SeatsOfRows!Occupied(p)) < Total(p)
  <2>1. Active(p) \subseteq Enrollments /\ IsFiniteSet(Enrollments)
    BY FS_Interval, ConstantsAssumption DEF Active, Enrollments
  <2>2. Cardinality(Active(p)) \in Nat /\ Total(p) \in Nat
    BY <2>1, FS_Subset, FS_CardinalityType, TotalIsNatural
  <2>3. Total(p) - Cardinality(Active(p)) > 0
    BY DEF MayEnroll, Remaining
  <2>4. QED
    BY <2>2, <2>3, OccupiedIsActive, SameCardinality
<1>9. [q \in Pools |-> Total(q)][p] = Total(p)
  OBVIOUS
<1>10. SeatsOfRows!Give(e, s, p)
  BY <1>2, <1>4, <1>5, <1>7, <1>8, <1>9 DEF SeatsOfRows!Give
<1>11. QED
  BY <1>6, <1>10 DEF SeatsOfRows!Next

LEMMA StepImplements ==
    ASSUME IInv, [Next]_vars
    PROVE  SeatsOfRows!Next
<1> USE DEF IInv
<1>1. CASE UNCHANGED enrollments
  <2>1. \A e \in Enrollments : SeatOf(e)' = SeatOf(e)
    BY <1>1 DEF SeatOf
  <2>2. QED
    BY <2>1, ResizeStep
<1>2. ASSUME NEW e \in Enrollments, ProfessorCancels(e)
      PROVE  SeatsOfRows!Next
  BY <1>2, StatusStep DEF ProfessorCancels
<1>3. ASSUME NEW e \in Enrollments, NestCompletes(e)
      PROVE  SeatsOfRows!Next
  BY <1>3, StatusStep DEF NestCompletes
<1>4. ASSUME NEW s \in Students, SendCancel(s)
      PROVE  SeatsOfRows!Next
  <2>1. job[s].row \in Enrollments /\ enrollments[job[s].row] # None
    BY <1>4, JobFields DEF SendCancel, RowOfJobExists, Writing
  <2>2. UNCHANGED enrollments \/ /\ enrollments[job[s].row].status # "cancelled"
                                 /\ enrollments' = WithStatus(job[s].row, "cancelled")
    BY <1>4 DEF SendCancel
  <2>3. UNCHANGED capacities
    BY <1>4 DEF SendCancel
  <2>4. QED
    BY <1>1, <2>1, <2>2, <2>3, StatusStep
<1>5. ASSUME NEW s \in Students, SendAssign(s)
      PROVE  SeatsOfRows!Next
  <2>1. /\ job[s].row \in Enrollments /\ enrollments[job[s].row] # None
        /\ job[s].teacher \in Teachers
    BY <1>5, JobFields DEF SendAssign, RowOfJobExists, Writing
  <2>2. QED
    BY <1>5, <2>1, TeacherStep DEF SendAssign
<1>6. ASSUME NEW s \in Students, PostEnrollment(s)
      PROVE  SeatsOfRows!Next
  <2>1. PICK p : p = <<job[s].professor, job[s].term>>
    OBVIOUS
  <2>2. p \in Pools
    BY <1>6, <2>1, JobFields DEF PostEnrollment, Pools
  <2>3. \/ UNCHANGED enrollments
        \/ \E e \in Enrollments : MayEnroll(s, p) /\ Created(e, s, p)
    BY <1>6, <2>1 DEF PostEnrollment
  <2>4. UNCHANGED capacities
    BY <1>6 DEF PostEnrollment
  <2>5. QED
    BY <1>1, <2>2, <2>3, <2>4, PostStep
<1>7. ASSUME Administration
      PROVE  UNCHANGED enrollments
  BY <1>7, AdministrationTypes
<1>8. ASSUME NEW s \in Students, Student(s)
      PROVE  \/ UNCHANGED enrollments \/ SendCancel(s) \/ SendAssign(s) \/ PostEnrollment(s)
  BY <1>8 DEF Student, Load, ChooseSupervisor, ReadOpenTerm, StartCancel, StartAssign
<1>9. QED
  BY <1>1, <1>2, <1>3, <1>4, <1>5, <1>6, <1>7, <1>8 DEF Next, vars

LEMMA InitImplements ==
    ASSUME Init
    PROVE  SeatsOfRows!Init
<1>1. \A e \in Enrollments : SeatOf(e) = None
  BY DEF Init, SeatOf
<1>2. [e \in Enrollments |-> SeatOf(e)] = [e \in Enrollments |-> None]
  BY <1>1
<1>3. [p \in Pools |-> Total(p)] \in [Pools -> Nat]
  BY TotalIsNatural
<1>4. QED
  BY <1>2, <1>3 DEF SeatsOfRows!Init, SeatsOfRows!Pools, Pools

(* Enrollment implements SeatPool: seats are given within the total, once per
   student and lesson, whatever the pages and the administrator interleave. *)
THEOREM EnrollmentImplementsSeatPool == Spec => ImplementsSeatPool
<1>1. Init => SeatsOfRows!Init
  BY InitImplements
<1>2. IInv /\ [Next]_vars => [SeatsOfRows!Next]_(SeatsOfRows!vars)
  BY StepImplements
<1>3. QED
  BY <1>1, <1>2, EnrollmentInvariant, PTL DEF Spec, ImplementsSeatPool, SeatsOfRows!Spec

-----------------------------------------------------------------------------
(***************************************************************************)
(* In the terms of the code: remainingProfessorCapacity never goes below    *)
(* zero by an enrollment.                                                   *)
(***************************************************************************)
LEMMA FillStep ==
    ASSUME IInv, [Next]_vars, NEW p \in Pools,
           Cardinality(Active(p))' > Cardinality(Active(p))
    PROVE  Cardinality(Active(p))' <= Total(p)'
<1>1. /\ RowsKept
      /\ \/ NoRowAdded
         \/ \E s \in Students, e \in Enrollments, q \in Pools :
              PostEnrollment(s) /\ MayEnroll(s, q) /\ Created(e, s, q)
  BY StepKeepsRows
<1>2. Active(p) \subseteq Enrollments /\ Active(p)' \subseteq Enrollments
  BY DEF Active
<1>3. /\ IsFiniteSet(Active(p)) /\ IsFiniteSet(Active(p)')
      /\ Cardinality(Active(p)) \in Nat /\ Cardinality(Active(p)') \in Nat
  <2>1. IsFiniteSet(Enrollments)
    BY FS_Interval, ConstantsAssumption DEF Enrollments
  <2>2. QED
    BY <1>2, <2>1, FS_Subset, FS_CardinalityType
<1>4. ~(Active(p)' \subseteq Active(p))
  <2>1. SUFFICES ASSUME Active(p)' \subseteq Active(p) PROVE FALSE
    OBVIOUS
  <2>2. Cardinality(Active(p)') <= Cardinality(Active(p))
    BY <1>3, <2>1, FS_Subset
  <2>3. QED
    BY <1>3, <2>2
<1>5. ~NoRowAdded
  BY <1>1, <1>4 DEF RowsKept, NoRowAdded, Active
<1>6. PICK s \in Students, e \in Enrollments, q \in Pools :
        PostEnrollment(s) /\ MayEnroll(s, q) /\ Created(e, s, q)
  BY <1>1, <1>5
<1>7. /\ enrollments[e] = None /\ enrollments'[e].pool = q
      /\ \A f \in Enrollments \ {e} : enrollments'[f] = enrollments[f]
  BY <1>6, CreatedKeeps DEF IInv
<1>8. q = p
  BY <1>4, <1>7 DEF Active
<1>9. Active(p)' \subseteq Active(p) \cup {e} /\ e \notin Active(p)
  BY <1>7 DEF Active
<1>10. Cardinality(Active(p)') <= Cardinality(Active(p)) + 1
  <2>1. /\ IsFiniteSet(Active(p) \cup {e})
        /\ Cardinality(Active(p) \cup {e}) = Cardinality(Active(p)) + 1
    BY <1>3, <1>9, FS_AddElement
  <2>2. QED
    BY <1>9, <2>1, FS_Subset
<1>11. Total(p) \in Nat /\ Total(p) - Cardinality(Active(p)) > 0
  BY <1>6, <1>8, TotalIsNatural DEF MayEnroll, Remaining
<1>12. Total(p)' = Total(p)
  BY <1>6 DEF PostEnrollment, Total, CapacityOf
<1>13. QED
  BY <1>3, <1>10, <1>11, <1>12

(* The rows a professor has running grow only up to the capacity of that moment,
   whatever the administrator did to it before and whoever asks at the same time. *)
THEOREM PoolsFillWithinCapacity ==
    Spec => [][\A p \in Pools : Cardinality(Active(p))' > Cardinality(Active(p))
                 => Cardinality(Active(p))' <= Total(p)']_vars
<1>1. IInv /\ [Next]_vars =>
        [\A p \in Pools : Cardinality(Active(p))' > Cardinality(Active(p))
            => Cardinality(Active(p))' <= Total(p)']_vars
  BY FillStep
<1>2. QED
  BY <1>1, EnrollmentInvariant, PTL DEF Spec
=============================================================================

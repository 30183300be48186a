----------------------------- MODULE Enrollment -----------------------------
(***************************************************************************)
(* Course selection: the enrollments, terms and capacities of the server    *)
(* (tools/fake-nest), the administrator who edits terms while students      *)
(* enroll, and the page of every student (services/internship-enrollment),  *)
(* which reads, waits for a click, reads again and then writes.  A request  *)
(* is atomic at the server; between two requests of one operation anything  *)
(* may happen.  One course and level is modelled, so a term has one lesson  *)
(* and a lesson is named by its term.                                       *)
(***************************************************************************)
EXTENDS Integers, FiniteSets

CONSTANTS
    Students, Professors, Teachers,
    MaxTerm,        \* bound on the terms created
    MaxEnrollment,  \* bound on the enrollments created
    MaxCapacityRow, \* bound on the rows of professor capacities
    MaxCapacity,    \* generalProfessorCapacity of the settings
    MaxEdit,        \* bound on the edits of the administrator
    Season,         \* the season of each term (academic years are distinct)
    Seeds,          \* the terms and capacities the store may start with
    None

Terms == 1..MaxTerm
Enrollments == 1..MaxEnrollment
CapacityRows == 1..MaxCapacityRow
Pools == Professors \X Terms

Term == [courseSelection : BOOLEAN, startClasses : BOOLEAN, offered : BOOLEAN]
Row == [student : Students, pool : Pools, teacher : Teachers \cup {None},
        status : {"active", "completed", "cancelled"}]
CapacityRow == [pool : Pools, capacity : 0..MaxCapacity]
Seat == [student : Students, pool : Pools, done : BOOLEAN]
Job == [op : {"enroll"}, professor : Professors]
       \cup [op : {"post"}, professor : Professors, term : Terms]
       \cup [op : {"cancel"}, row : Enrollments]
       \cup [op : {"assign"}, row : Enrollments, teacher : Teachers]
Page == [scenario : {"loading", "S1", "S2", "S3", "S4", "S5"},
         term : 0..MaxTerm, row : 0..MaxEnrollment, form : BOOLEAN]

ASSUME ConstantsAssumption ==
    /\ MaxTerm \in Nat /\ MaxEnrollment \in Nat
    /\ MaxCapacityRow \in Nat /\ MaxCapacity \in Nat /\ MaxEdit \in Nat

ASSUME SeedsAssumption ==
    Seeds \subseteq [created : 0..MaxTerm, terms : [Terms -> Term \cup {None}],
                    capacities : [CapacityRows -> CapacityRow \cup {None}]]

ASSUME NoneAssumption ==
    None \notin Row \cup CapacityRow \cup Term \cup Job \cup Seat \cup Teachers

VARIABLES
    edits,        \* edits of the administrator so far
    created,      \* terms created so far: the next identifier is created + 1
    terms,        \* per identifier, the term, or None when absent or deleted
    capacities,   \* rows of professor capacities, in the order of creation
    enrollments,  \* rows of student enrollments, in the order of creation
    page,         \* per student, what the enrollment page shows
    job           \* per student, the operation between two of its requests

vars == <<edits, created, terms, capacities, enrollments, page, job>>

TypeOK ==
    /\ edits \in 0..MaxEdit
    /\ created \in 0..MaxTerm
    /\ terms \in [Terms -> Term \cup {None}]
    /\ capacities \in [CapacityRows -> CapacityRow \cup {None}]
    /\ enrollments \in [Enrollments -> Row \cup {None}]
    /\ page \in [Students -> Page]
    /\ job \in [Students -> Job \cup {None}]

Init ==
    /\ edits = 0
    /\ \E seed \in Seeds :
         /\ created = seed.created
         /\ terms = seed.terms
         /\ capacities = seed.capacities
    /\ enrollments = [e \in Enrollments |-> None]
    /\ page = [s \in Students |-> [scenario |-> "loading", term |-> 0, row |-> 0, form |-> FALSE]]
    /\ job = [s \in Students |-> None]

-----------------------------------------------------------------------------
(* The server's view. *)

First(S) == CHOOSE x \in S : \A y \in S : x <= y
Last(S) == CHOOSE x \in S : \A y \in S : x >= y

Mine(s, k) == {e \in Enrollments :
    enrollments[e] # None /\ enrollments[e].student = s /\ enrollments[e].pool[2] = k}

Taking(s, k) == {e \in Mine(s, k) : enrollments[e].status # "cancelled"}

Active(p) == {e \in Enrollments :
    enrollments[e] # None /\ enrollments[e].pool = p /\ enrollments[e].status = "active"}

CapacityOf(p) == {c \in CapacityRows : capacities[c] # None /\ capacities[c].pool = p}

(* The capacities of a pool added up: one element per seat. *)
Total(p) == Cardinality(
    {x \in CapacityRows \X (1..MaxCapacity) :
        x[1] \in CapacityOf(p) /\ x[2] <= capacities[x[1]].capacity})

Remaining(p) == Total(p) - Cardinality(Active(p))

(* Mutant: only a running enrollment blocks the lesson. *)
CanSelectPassed(s, k) == terms[k].offered
    /\ \A e \in Mine(s, k) : enrollments[e].status # "active"

(* canSelect: the lesson is offered and lessonBlockReason finds nothing. *)
CanSelect(s, k) == terms[k].offered /\ Taking(s, k) = {}

OpenTerms == {k \in Terms : terms[k] # None /\ terms[k].courseSelection}
OpenTerm == IF OpenTerms = {} THEN 0 ELSE First(OpenTerms)

-----------------------------------------------------------------------------
(* The administrator: terms, offered lessons and capacities. *)

PostTerm(selection, start) ==
    /\ created < MaxTerm
    /\ created' = created + 1
    /\ terms' = [terms EXCEPT ![created + 1] =
           [courseSelection |-> selection, startClasses |-> start, offered |-> FALSE]]
    /\ UNCHANGED <<capacities, enrollments, page, job>>

(* Another term of the season with its selection open makes opening fail. *)
PatchTerm(k, selection, start) ==
    /\ terms[k] # None
    /\ selection => \A j \in OpenTerms \ {k} : Season[j] # Season[k]
    /\ terms' = [terms EXCEPT ![k] =
           [courseSelection |-> selection, startClasses |-> start, offered |-> terms[k].offered]]
    /\ UNCHANGED <<created, capacities, enrollments, page, job>>

(* removeSemesterCascade deletes the lessons and capacities, not the enrollments. *)
DeleteTerm(k) ==
    /\ terms[k] # None
    /\ terms' = [terms EXCEPT ![k] = None]
    /\ capacities' = [c \in CapacityRows |->
           IF capacities[c] # None /\ capacities[c].pool[2] = k THEN None ELSE capacities[c]]
    /\ UNCHANGED <<created, enrollments, page, job>>

SetLessonStatus(k, status) ==
    /\ terms[k] # None
    /\ terms' = [terms EXCEPT ![k] =
           [courseSelection |-> terms[k].courseSelection,
            startClasses |-> terms[k].startClasses, offered |-> status]]
    /\ UNCHANGED <<created, capacities, enrollments, page, job>>

(* Mutant: one more than the limit. *)
CapacityBeyond(n) == n <= MaxCapacity + 1

(* assertCapacityItems: the general limit of the settings. *)
CapacityAllowed(n) == n <= MaxCapacity

(* A second POST for the same professor and lesson adds a second row. *)
PostCapacity(p, n) ==
    /\ CapacityAllowed(n)
    /\ terms[p[2]] # None
    /\ \E c \in CapacityRows :
         /\ \A d \in CapacityRows : d < c <=> capacities[d] # None
         /\ capacities' = [capacities EXCEPT ![c] = [pool |-> p, capacity |-> n]]
    /\ UNCHANGED <<created, terms, enrollments, page, job>>

PutCapacity(p, n) ==
    /\ CapacityAllowed(n)
    /\ terms[p[2]] # None
    /\ CapacityOf(p) # {}
    /\ capacities' = [capacities EXCEPT ![First(CapacityOf(p))] = [pool |-> p, capacity |-> n]]
    /\ UNCHANGED <<created, terms, enrollments, page, job>>

-----------------------------------------------------------------------------
(* Enrollments at the server. *)

(* Mutant: the wizard lists only professors with room, so POST trusts it. *)
MayEnrollUncounted(s, p) ==
    /\ terms[p[2]] # None
    /\ terms[p[2]].courseSelection
    /\ CanSelect(s, p[2])

(* The checks of POST student-enrollments, in the order of the handler. *)
MayEnroll(s, p) ==
    /\ terms[p[2]] # None
    /\ terms[p[2]].courseSelection
    /\ CanSelect(s, p[2])
    /\ Remaining(p) > 0

(* createEnrollmentRecords appends a row; its weeks are in WeeklyReports. *)
Created(e, s, p) ==
    /\ \A f \in Enrollments : f < e <=> enrollments[f] # None
    /\ enrollments' = [enrollments EXCEPT ![e] =
           [student |-> s, pool |-> p, teacher |-> None, status |-> "active"]]

(* What PATCH and PATCH cancel leave of row e. *)
Changed(row, teacher, status) ==
    [student |-> row.student, pool |-> row.pool, teacher |-> teacher, status |-> status]
WithStatus(e, status) ==
    [enrollments EXCEPT ![e] = Changed(enrollments[e], enrollments[e].teacher, status)]
WithTeacher(e, teacher) ==
    [enrollments EXCEPT ![e] = Changed(enrollments[e], teacher, enrollments[e].status)]

(* dropReal: the professor cancels an enrollment of the class; a completed one
   is not refused either. *)
ProfessorCancels(e) ==
    /\ enrollments[e] # None
    /\ enrollments[e].status # "cancelled"
    /\ enrollments' = WithStatus(e, "cancelled")
    /\ UNCHANGED <<edits, created, terms, capacities, page, job>>

(* Nest completes an enrollment once every week is graded. *)
NestCompletes(e) ==
    /\ enrollments[e] # None
    /\ enrollments[e].status = "active"
    /\ enrollments' = WithStatus(e, "completed")
    /\ UNCHANGED <<edits, created, terms, capacities, page, job>>

-----------------------------------------------------------------------------
(* The student's page. *)

(* preferLatestEnrolments and findEnrolmentHistoryForLevel: the row shown for a
   term, an active one before the latest completed one; a deleted term shows
   none.  known is FALSE when by-semester failed. *)
HistoryRows(s, known) == {e \in Enrollments : \E k \in Terms :
    /\ known
    /\ terms[k] # None
    /\ e \in Taking(s, k)
    /\ LET running == {f \in Taking(s, k) : enrollments[f].status = "active"}
       IN  e = IF running # {} THEN Last(running) ELSE Last(Taking(s, k))}

(* resolveEffectiveEnrollmentEntry: the enrollment of the page, or 0. *)
EffectiveRow(s, known) ==
    LET history == HistoryRows(s, known)
        active == {e \in history : enrollments[e].status = "active"}
        here == {e \in active : enrollments[e].pool[2] = OpenTerm}
        earliest == {e \in active : \A f \in active :
                        enrollments[e].pool[2] <= enrollments[f].pool[2]}
    IN  CASE here # {} -> First(here)
          [] here = {} /\ OpenTerm # 0 /\ CanSelect(s, OpenTerm) -> 0
          [] OTHER -> IF active # {} THEN First(earliest)
                      ELSE IF history # {} THEN Last(history) ELSE 0

(* toEnrollmentPageState and resolveEnrollmentScenario, without the conflict of
   two levels (S6); form is the delayed choice of a school and a mentor. *)
PageState(s, known) ==
    LET row == EffectiveRow(s, known)
        term == IF row # 0 THEN enrollments[row].pool[2] ELSE OpenTerm
        termOpen == term = OpenTerm => terms[term].startClasses
        scenario == IF row # 0 THEN IF termOpen THEN "S5" ELSE "S4"
                    ELSE IF OpenTerm = 0 THEN "S1"
                    ELSE IF CanSelect(s, OpenTerm) THEN "S3" ELSE "S2"
    IN  [scenario |-> scenario, term |-> term, row |-> row,
         form |-> /\ scenario = "S5"
                  /\ enrollments[row].teacher = None
                  /\ enrollments[row].status = "active"]

Load(s, known) ==
    /\ job[s] = None
    /\ page' = [page EXCEPT ![s] = PageState(s, known)]
    /\ UNCHANGED <<edits, created, terms, capacities, enrollments, job>>

(* The wizard lists the professors with a free seat in the term shown.  The
   bound on enrollments keeps a row for every choice under way. *)
ChooseSupervisor(s, professor) ==
    /\ job[s] = None
    /\ Cardinality({e \in Enrollments : enrollments[e] # None})
         + Cardinality({t \in Students : job[t] # None}) < MaxEnrollment
    /\ page[s].scenario = "S3"
    /\ CapacityOf(<<professor, page[s].term>>) # {}
    /\ Remaining(<<professor, page[s].term>>) > 0
    /\ job' = [job EXCEPT ![s] = [op |-> "enroll", professor |-> professor]]
    /\ UNCHANGED <<edits, created, terms, capacities, enrollments, page>>

(* enrollRealWithSupervisor asks again which term is open and takes that one. *)
ReadOpenTerm(s) ==
    /\ job[s] # None /\ job[s].op = "enroll"
    /\ job' = [job EXCEPT ![s] = IF OpenTerm = 0 THEN None
           ELSE [op |-> "post", professor |-> job[s].professor, term |-> OpenTerm]]
    /\ UNCHANGED <<edits, created, terms, capacities, enrollments, page>>

PostEnrollment(s) ==
    /\ job[s] # None /\ job[s].op = "post"
    /\ LET p == <<job[s].professor, job[s].term>>
       IN  IF MayEnroll(s, p)
           THEN \E e \in Enrollments : Created(e, s, p)
           ELSE UNCHANGED enrollments
    /\ job' = [job EXCEPT ![s] = None]
    /\ UNCHANGED <<edits, created, terms, capacities, page>>

(* Mutant: a cancelled row is a candidate as well. *)
CandidatesCancelled(s, shown) == Mine(s, IF OpenTerm # 0 THEN OpenTerm ELSE shown)

(* The rows of the open term's lesson, or of the term shown when none is open. *)
Candidates(s, shown) == Taking(s, IF OpenTerm # 0 THEN OpenTerm ELSE shown)

(* pickMutableEnrollmentRow: the first that fits best, 0 when none does. *)
MutableRow(s, shown) ==
    LET candidates == Candidates(s, shown)
        running == {e \in candidates : enrollments[e].status # "completed"}
        here == {e \in candidates : enrollments[e].pool[2] = shown}
    IN  CASE here \cap running # {} -> First(here \cap running)
          [] here \cap running = {} /\ here # {} -> First(here)
          [] here = {} /\ running # {} -> First(running)
          [] OTHER -> IF candidates # {} THEN First(candidates) ELSE 0

(* cancelRealEnrollment, its reads: the waiting page (S4) offers it. *)
StartCancel(s) ==
    /\ job[s] = None
    /\ page[s].scenario = "S4"
    /\ LET row == MutableRow(s, page[s].term)
       IN  row # 0 /\ job' = [job EXCEPT ![s] = [op |-> "cancel", row |-> row]]
    /\ UNCHANGED <<edits, created, terms, capacities, enrollments, page>>

SendCancel(s) ==
    /\ job[s] # None /\ job[s].op = "cancel"
    /\ enrollments' = IF enrollments[job[s].row].status = "cancelled" THEN enrollments
                      ELSE WithStatus(job[s].row, "cancelled")
    /\ job' = [job EXCEPT ![s] = None]
    /\ UNCHANGED <<edits, created, terms, capacities, page>>

(* assignRealDelayedSchoolMentor, its reads.  The form pairs a teacher with the
   school it was listed under, so the teacher stands for both. *)
StartAssign(s, teacher) ==
    /\ job[s] = None
    /\ page[s].form
    /\ LET row == MutableRow(s, page[s].term)
       IN  /\ row # 0
           /\ job' = [job EXCEPT ![s] = [op |-> "assign", row |-> row, teacher |-> teacher]]
    /\ UNCHANGED <<edits, created, terms, capacities, enrollments, page>>

(* PATCH checks the student, not the status: a cancelled row takes it as well. *)
SendAssign(s) ==
    /\ job[s] # None /\ job[s].op = "assign"
    /\ enrollments' = WithTeacher(job[s].row, job[s].teacher)
    /\ job' = [job EXCEPT ![s] = None]
    /\ UNCHANGED <<edits, created, terms, capacities, page>>

-----------------------------------------------------------------------------
Administration ==
    /\ edits < MaxEdit
    /\ edits' = edits + 1
    /\ \/ \E selection, start \in BOOLEAN :
            \/ PostTerm(selection, start)
            \/ \E k \in Terms : PatchTerm(k, selection, start)
       \/ \E k \in Terms : DeleteTerm(k)
       \/ \E k \in Terms, status \in BOOLEAN : SetLessonStatus(k, status)
       \/ \E p \in Pools, n \in 0..(MaxCapacity + 1) : PostCapacity(p, n) \/ PutCapacity(p, n)

Student(s) ==
    \/ \E known \in BOOLEAN : Load(s, known)
    \/ \E professor \in Professors : ChooseSupervisor(s, professor)
    \/ ReadOpenTerm(s)
    \/ PostEnrollment(s)
    \/ StartCancel(s)
    \/ SendCancel(s)
    \/ \E teacher \in Teachers : StartAssign(s, teacher)
    \/ SendAssign(s)

Next ==
    \/ Administration
    \/ \E e \in Enrollments : ProfessorCancels(e) \/ NestCompletes(e)
    \/ \E s \in Students : Student(s)

Spec == Init /\ [][Next]_vars

-----------------------------------------------------------------------------
(* Refinement: every row that was not cancelled takes a seat. *)
SeatOf(e) == IF enrollments[e] = None \/ enrollments[e].status = "cancelled" THEN None
             ELSE [student |-> enrollments[e].student, pool |-> enrollments[e].pool,
                   done |-> enrollments[e].status = "completed"]

SeatsOfRows == INSTANCE SeatPool WITH
    Seats <- Enrollments, Lessons <- Terms, NoSeat <- None,
    seat <- [e \in Enrollments |-> SeatOf(e)], total <- [p \in Pools |-> Total(p)]

(* The server keeps the promise of SeatPool, whatever students and the
   administrator interleave: a seat is given only while the professor has one
   left, and a student takes a lesson once (enrollments.ts, the POST handler). *)
ImplementsSeatPool == SeatsOfRows!Spec

(* A student has one enrollment of a lesson that is not cancelled, the premise
   of every `find` of the page over its rows (lesson-matching.ts). *)
OneTakenPerLesson == \A e, f \in Enrollments :
    (/\ enrollments[e] # None /\ enrollments[e].status # "cancelled"
     /\ enrollments[f] # None /\ enrollments[f].status # "cancelled"
     /\ enrollments[e].student = enrollments[f].student
     /\ enrollments[e].pool[2] = enrollments[f].pool[2]) => e = f

Writing(s) == job[s] # None /\ job[s].op \in {"cancel", "assign"}

(* A cancel or an assignment that goes to a row of the term on the page goes to
   the very row the page shows, although pickMutableEnrollmentRow looks it up
   again and the term may hold cancelled rows of the same lesson. *)
WriteStaysOnRow == \A s \in Students :
    Writing(s) /\ enrollments[job[s].row].pool[2] = page[s].term
        => job[s].row = page[s].row

(* The comment of pickMutableEnrollmentRow: the page shows the row of termId, so
   the write must go to that row too.  So no cancel goes to another enrollment
   that is running.  It does when the term on the page is no longer the one
   open: the candidates are the rows of the open term. *)
CancelHitsShownRow == \A s \in Students :
    (/\ job[s] # None /\ job[s].op = "cancel"
     /\ enrollments[job[s].row].status = "active") => job[s].row = page[s].row
=============================================================================

---------------------------- MODULE WeeklyReports ----------------------------
(***************************************************************************)
(* The weekly reports of one enrollment: the student who writes them, the   *)
(* advisor (professor) who returns or grades them, the mentor (teacher) and *)
(* the principal (school_admin) who evaluate them.  The server keeps a       *)
(* record and a conversation per week (tools/fake-nest); every user works    *)
(* on cards read earlier, and one save is a sequence of requests that may    *)
(* stop at any of them.  A request is atomic at the server.                  *)
(***************************************************************************)
EXTENDS Integers, Sequences

CONSTANTS
    NumWeeks,
    Settings,      \* who takes part, and the weeks the syllabus has archived
    MaxMessage     \* bound on the messages of a conversation

Weeks == 1..NumWeeks
Roles == {"student", "advisor", "mentor", "principal"}
Ticks == {"attended", "visited"}

ASSUME ConstantsAssumption ==
    /\ NumWeeks \in Nat \ {0} /\ MaxMessage \in Nat
    /\ Settings \subseteq [actors : SUBSET Roles, archived : SUBSET Weeks]

Week == [status : {"pending", "submitted", "in_progress", "completed"},
         studentStatus : BOOLEAN,                     \* TRUE is "send"
         mentorStatus : {"none", "send", "score"},
         teacherStatus : BOOLEAN, schoolAdminStatus : BOOLEAN,
         isMentorPresent : BOOLEAN, schoolVisited : BOOLEAN,
         approved : SUBSET Ticks]                     \* by the principal
Message == [role : Roles, ticks : SUBSET Ticks]
Card == [status : {"draft", "pending", "approved", "needs_edit", "graded",
                   "archived", "locked_future"},
         sent : BOOLEAN]
Call == {"message", "present", "score", "attended", "visited"}
Kind == {"draft", "submit", "review"}
Job == [kind : Kind, week : Weeks, ticks : SUBSET Ticks, calls : Seq(Call)]

VARIABLES
    setting,    \* who takes part and what is archived: never changes
    cancelled,  \* the enrollment was cancelled
    week,       \* per week, the record of the server
    messages,   \* per week, the conversation
    view,       \* per user, the cards as last read
    editing,    \* the week in the student's dialog, or 0
    job         \* per user, the save under way: what is left to send

server == <<setting, cancelled, week, messages>>
vars == <<server, view, editing, job>>

Idle == [kind |-> "review", week |-> 1, ticks |-> {}, calls |-> <<>>]
Running(a) == job[a].calls # <<>>
-----------------------------------------------------------------------------
(* The server. *)

(* Mutant: the student's message puts the card's "pending" where the rejection was. *)
ApplyWeekStateOfCard(w, role, clears) ==
    IF role = "student"
    THEN [week[w] EXCEPT !.status = "submitted", !.studentStatus = TRUE, !.mentorStatus = "pending"]
    ELSE week[w]

(* applyWeekState.  The Nest in production does not always clear mentorStatus
   when the student sends again (isAdvisorRejectionSuperseded): either. *)
ApplyWeekState(w, role, clears) ==
    IF week[w].status = "completed" THEN week[w]
    ELSE CASE role = "student" ->
                [week[w] EXCEPT !.status = "submitted", !.studentStatus = TRUE,
                                !.mentorStatus = IF clears THEN "none" ELSE @]
           [] role = "advisor" ->
                [week[w] EXCEPT !.status = "in_progress", !.mentorStatus = "send"]
           [] role = "mentor" -> [week[w] EXCEPT !.teacherStatus = TRUE]
           [] role = "principal" -> [week[w] EXCEPT !.schoolAdminStatus = TRUE]

PostMessage(w, role, ticks) ==
    /\ ~cancelled
    /\ Len(messages[w]) < MaxMessage
    /\ messages' = [messages EXCEPT ![w] = Append(@, [role |-> role, ticks |-> ticks])]
    /\ \E clears \in BOOLEAN :
         week' = [week EXCEPT ![w] = ApplyWeekState(w, role, clears)]

(* A second score is taken as well. *)
Score(w, ticks) ==
    /\ ~cancelled
    /\ week' = [week EXCEPT ![w].status = "completed", ![w].mentorStatus = "score",
                            ![w].schoolVisited = "visited" \in ticks]
    /\ UNCHANGED messages

MentorPresent(w) ==
    /\ week' = [week EXCEPT ![w].isMentorPresent = TRUE]
    /\ UNCHANGED messages

Approve(w, tick) ==
    /\ week' = [week EXCEPT ![w].approved = @ \cup {tick}]
    /\ UNCHANGED messages

Request(a, call, w, ticks) ==
    /\ \/ call = "message" /\ PostMessage(w, a, ticks)
       \/ call = "present" /\ MentorPresent(w)
       \/ call = "score" /\ Score(w, ticks)
       \/ call \in Ticks /\ Approve(w, call)
    /\ UNCHANGED <<setting, cancelled>>
-----------------------------------------------------------------------------
(* The cards. *)

(* isAdvisorRejectionSuperseded: the student wrote after the advisor did. *)
Superseded(w) ==
    /\ \E i \in DOMAIN messages[w] : messages[w][i].role = "advisor"
    /\ \E i \in DOMAIN messages[w] :
         /\ messages[w][i].role = "student"
         /\ \A j \in DOMAIN messages[w] : messages[w][j].role = "advisor" => j < i

MapWeekStatus(w, superseded) ==
    IF week[w].status = "completed" THEN "graded"
    ELSE IF week[w].mentorStatus = "send" /\ ~superseded THEN "needs_edit"
    ELSE IF week[w].teacherStatus THEN "approved"
    ELSE IF week[w].studentStatus THEN "pending" ELSE "draft"

(* hasStudentSubmittedWeek *)
Submitted(w) == week[w].status = "completed" \/ week[w].studentStatus

(* Mutant: only the week just before counts, archived or not. *)
LockedByNeighbour(w) == \E p \in Weeks \ setting.archived : p = w - 1 /\ ~Submitted(p)

(* isSequentiallyLocked: the week before, leaving out the archived ones. *)
Locked(w) == \E p \in Weeks \ setting.archived :
    /\ p < w
    /\ \A q \in Weeks \ setting.archived : q < w => q <= p
    /\ ~Submitted(p)

(* mapRealWeeklySessions for the student, mapDailyApprovalWeek for the others;
   read is FALSE when the conversation could not be read. *)
CardOf(a, w, read) ==
    LET own == MapWeekStatus(w, read /\ Superseded(w))
    IN  [status |-> IF a = "student" /\ w \in setting.archived THEN "archived"
                    ELSE IF a = "student" /\ own = "draft" /\ Locked(w) THEN "locked_future"
                    ELSE own,
         sent |-> \/ a = "mentor" /\ week[w].teacherStatus
                  \/ a = "principal" /\ week[w].schoolAdminStatus]

Cards(a, read) == [w \in Weeks |-> CardOf(a, w, read)]

(* A page load, a refetch, or refreshTraineeDerived after opening or saving,
   which may fail and leave the cards as they are. *)
Load(a) ==
    /\ \E read \in BOOLEAN : view' = [view EXCEPT ![a] = Cards(a, read)]
    /\ UNCHANGED <<server, editing, job>>
-----------------------------------------------------------------------------
(* The student's dialog keeps the card it was opened with. *)

(* isWeeklyReportEditable *)
Edit(w) ==
    /\ editing = 0
    /\ view["student"][w].status \in {"draft", "needs_edit"}
    /\ editing' = w
    /\ UNCHANGED <<server, view, job>>

Close ==
    /\ editing # 0
    /\ Running("student") => job["student"].kind = "submit"
    /\ editing' = 0
    /\ UNCHANGED <<server, view, job>>

(* submitForFeedback closes the dialog at once, saveDraft at its answer; both
   post a message to the conversation.  That a user has one save under way is a
   bound of the model: after a submission the page would let a second one start. *)
Write(kind) ==
    /\ editing # 0
    /\ ~Running("student")
    /\ job' = [job EXCEPT !["student"] =
           [kind |-> kind, week |-> editing, ticks |-> {}, calls |-> <<"message">>]]
    /\ editing' = IF kind = "submit" THEN 0 ELSE editing
    /\ UNCHANGED <<server, view>>

-----------------------------------------------------------------------------
(* The reviewers' saves: which requests, in which order. *)

Present(ticks) == IF "visited" \in ticks THEN <<"present">> ELSE <<>>

(* Mutant: the presence after the score. *)
AdvisorSavesScoreFirst(ticks) ==
    {<<"score">> \o Present(ticks), Present(ticks) \o <<"message">>, Present(ticks)} \ {<<>>}

(* scoreRealDailyApprovalWeek: the presence before the score or the rejection, or
   alone. *)
AdvisorSaves(ticks) ==
    {Present(ticks) \o <<"score">>, Present(ticks) \o <<"message">>, Present(ticks)} \ {<<>>}

Approvals(ticks) == (IF "attended" \in ticks THEN <<"attended">> ELSE <<>>)
                    \o (IF "visited" \in ticks THEN <<"visited">> ELSE <<>>)

(* Mutant: the message before the approvals. *)
PrincipalSavesMessageFirst(ticks) == {<<"message">> \o Approvals(ticks)}

(* submitPrincipalFeedbackReal: the approvals before the only message. *)
PrincipalSaves(ticks) == {Approvals(ticks) \o <<"message">>}

(* save of the dialog: its lock follows the card on the screen, where a graded
   week closes all but approveRealPrincipalSupervisorVisits. *)
Saves(a, card, ticks) ==
    LET locked == card.status = "graded" \/ card.sent
    IN  CASE a = "advisor" /\ ~locked /\ "attended" \notin ticks -> AdvisorSaves(ticks)
          [] a = "mentor" /\ ~locked /\ ticks = {} -> {<<"message">>}
          [] a = "principal" /\ ~locked -> PrincipalSaves(ticks)
          [] a = "principal" /\ locked /\ ticks = {"visited"} -> {Approvals(ticks)}
          [] OTHER -> {}

(* Mutant: a week without a report can be opened as well. *)
MayGradeDraft(card) == card.status # "archived"

(* openWeekGrading *)
MayGrade(card) == card.status # "draft"

(* scheduleWeekGradingSave closes the dialog.  One save at a time is a bound of the
   model: opening another week clears actionBusy while this one is under way. *)
Review(a, w, ticks) ==
    /\ a # "student"
    /\ ~Running(a)
    /\ MayGrade(view[a][w])
    /\ \E calls \in Saves(a, view[a][w], ticks) :
         job' = [job EXCEPT ![a] =
             [kind |-> "review", week |-> w, ticks |-> ticks, calls |-> calls]]
    /\ UNCHANGED <<server, view, editing>>

-----------------------------------------------------------------------------
Rest(a) == IF Len(job[a].calls) = 1 THEN Idle
           ELSE [kind |-> job[a].kind, week |-> job[a].week, ticks |-> job[a].ticks,
                 calls |-> Tail(job[a].calls)]

(* The next request of a save succeeds.  updateWeekLocally puts the outcome the
   client assumes on the student's card. *)
Step(a) ==
    /\ Running(a)
    /\ Request(a, Head(job[a].calls), job[a].week, job[a].ticks)
    /\ view' = IF a # "student" THEN view
               ELSE [view EXCEPT ![a][job[a].week].status =
                        IF job[a].kind = "draft" THEN "draft" ELSE "pending"]
    /\ editing' = IF job[a].kind = "draft" THEN 0 ELSE editing
    /\ job' = [job EXCEPT ![a] = Rest(a)]

(* A request is refused or lost, or done with its answer lost: the save ends and
   the dialog is there for another try. *)
Fail(a) ==
    /\ Running(a)
    /\ \/ UNCHANGED server
       \/ Request(a, Head(job[a].calls), job[a].week, job[a].ticks)
    /\ editing' = IF a = "student" THEN job[a].week ELSE editing
    /\ job' = [job EXCEPT ![a] = Idle]
    /\ UNCHANGED view

(* The advisor drops the trainee.  Cards read again by refreshTraineeDerived keep
   the status they had, so every user may go on. *)
Cancel ==
    /\ ~cancelled
    /\ cancelled' = TRUE
    /\ UNCHANGED <<setting, week, messages, view, editing, job>>
-----------------------------------------------------------------------------
Init ==
    /\ setting \in Settings
    /\ cancelled = FALSE
    /\ week = [w \in Weeks |->
          [status |-> "pending", studentStatus |-> FALSE, mentorStatus |-> "none",
           teacherStatus |-> FALSE, schoolAdminStatus |-> FALSE,
           isMentorPresent |-> FALSE, schoolVisited |-> FALSE, approved |-> {}]]
    /\ messages = [w \in Weeks |-> <<>>]
    /\ view = [a \in Roles |-> Cards(a, TRUE)]
    /\ editing = 0
    /\ job = [a \in Roles |-> Idle]

Next ==
    \/ \E a \in setting.actors :
         \/ Load(a)
         \/ \E w \in Weeks, ticks \in SUBSET Ticks : Review(a, w, ticks)
         \/ Step(a)
         \/ Fail(a)
    \/ /\ "student" \in setting.actors
       /\ \/ \E w \in Weeks : Edit(w)
          \/ Close
          \/ \E kind \in {"draft", "submit"} : Write(kind)
    \/ Cancel

Spec == Init /\ [][Next]_vars
-----------------------------------------------------------------------------
TypeOK ==
    /\ setting \in Settings
    /\ cancelled \in BOOLEAN
    /\ week \in [Weeks -> Week]
    /\ messages \in [Weeks -> Seq(Message)]
    /\ view \in [Roles -> [Weeks -> Card]]
    /\ editing \in 0..NumWeeks
    /\ job \in [Roles -> Job]

(* Where the report of week w stands, as its card is coloured. *)
Phase(w) ==
    LET status == MapWeekStatus(w, Superseded(w))
    IN  CASE status = "graded" -> "graded"
          [] status = "needs_edit" -> "returned"
          [] status \in {"approved", "pending", "draft"} ->
               IF week[w].studentStatus THEN "submitted" ELSE "none"

Protocol == INSTANCE ReviewProtocol WITH phase <- [w \in Weeks |-> Phase(w)]

(* However stale the cards, whatever request is lost or repeated, and although
   the server may keep an old rejection: nothing is returned or graded before it
   was handed in, a new submission supersedes a rejection, and a grade stays. *)
ImplementsReviewProtocol == Protocol!Spec

(* A visit counted with a score was recorded as a presence the principal can
   approve: scoreRealDailyApprovalWeek sends the presence first. *)
VisitedOnlyIfPresent == \A w \in Weeks : week[w].schoolVisited => week[w].isMentorPresent

(* The principal's only evaluation is never on the server without the approvals
   that were ticked with it (submitPrincipalFeedbackReal). *)
TicksBeforeEvaluation == \A w \in Weeks : \A i \in DOMAIN messages[w] :
    messages[w][i].role = "principal" => messages[w][i].ticks \subseteq week[w].approved

(* Reports are handed in in order: a week whose report is there has the reports of
   all earlier weeks that are not archived (isSequentiallyLocked). *)
WeeksInOrder == \A v, w \in Weeks \ setting.archived :
    v < w /\ week[w].studentStatus => week[v].studentStatus

(* A report is handed in by a submission: saving a draft leaves the week as it is
   for the reviewers. *)
DraftStaysDraft == [][\A w \in Weeks :
    ~week[w].studentStatus /\ week'[w].studentStatus => job["student"].kind = "submit"]_vars

=============================================================================

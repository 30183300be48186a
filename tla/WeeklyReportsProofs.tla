------------------------- MODULE WeeklyReportsProofs -------------------------
(***************************************************************************)
(* Proofs about WeeklyReports for any number of weeks, any settings and any *)
(* bound on the messages.                                                   *)
(***************************************************************************)
EXTENDS WeeklyReports, SequenceTheorems, WellFoundedInduction, TLAPS

(***************************************************************************)
(* What one request changes.                                                *)
(***************************************************************************)
LEMMA WeekFields ==
    ASSUME TypeOK, NEW w \in Weeks
    PROVE  /\ week[w] \in Week
           /\ week[w] = [status |-> week[w].status, studentStatus |-> week[w].studentStatus,
                         mentorStatus |-> week[w].mentorStatus,
                         teacherStatus |-> week[w].teacherStatus,
                         schoolAdminStatus |-> week[w].schoolAdminStatus,
                         isMentorPresent |-> week[w].isMentorPresent,
                         schoolVisited |-> week[w].schoolVisited,
                         approved |-> week[w].approved]
           /\ week[w].studentStatus \in BOOLEAN
           /\ messages[w] \in Seq(Message)
BY DEF TypeOK, Week

(* The record after a message of each role. *)
LEMMA AppliedState ==
    ASSUME TypeOK, NEW w \in Weeks, NEW role \in Roles, NEW clears \in BOOLEAN,
           NEW r, r = ApplyWeekState(w, role, clears)
    PROVE  /\ r \in Week
           /\ r.isMentorPresent = week[w].isMentorPresent
           /\ r.schoolVisited = week[w].schoolVisited
           /\ r.approved = week[w].approved
           /\ r.status = "completed" <=> week[w].status = "completed"
           /\ week[w].studentStatus => r.studentStatus
           /\ r.studentStatus => week[w].studentStatus \/ role = "student"
           /\ r.teacherStatus => week[w].teacherStatus \/ role = "mentor"
           /\ r.mentorStatus = "send" => week[w].mentorStatus = "send" \/ role = "advisor"
           /\ r.status # "completed" /\ role = "student" => r.studentStatus
           /\ r.status # "completed" /\ role = "advisor" => r.mentorStatus = "send"
           /\ role \in {"mentor", "principal"} => r.mentorStatus = week[w].mentorStatus
<1>1. CASE week[w].status = "completed"
  BY <1>1, WeekFields DEF ApplyWeekState
<1>2. CASE week[w].status # "completed" /\ role = "student"
  BY <1>2, WeekFields DEF ApplyWeekState, Week
<1>3. CASE week[w].status # "completed" /\ role = "advisor"
  BY <1>3, WeekFields DEF ApplyWeekState, Week
<1>4. CASE week[w].status # "completed" /\ role = "mentor"
  BY <1>4, WeekFields DEF ApplyWeekState, Week
<1>5. CASE week[w].status # "completed" /\ role = "principal"
  BY <1>5, WeekFields DEF ApplyWeekState, Week
<1>6. QED
  BY <1>1, <1>2, <1>3, <1>4, <1>5 DEF Roles

(* The rest of the weeks; what no request takes away. *)
Keeps(w) ==
    /\ \A v \in Weeks : v # w => week'[v] = week[v] /\ messages'[v] = messages[v]
    /\ week[w].studentStatus => week'[w].studentStatus
    /\ week[w].isMentorPresent => week'[w].isMentorPresent
    /\ week[w].approved \subseteq week'[w].approved

Typed == week' \in [Weeks -> Week] /\ messages' \in [Weeks -> Seq(Message)]

LEMMA MessageEffect ==
    ASSUME TypeOK, NEW w \in Weeks, NEW a \in Roles, NEW ticks \in SUBSET Ticks,
           PostMessage(w, a, ticks)
    PROVE  /\ Typed
           /\ Keeps(w)
           /\ messages'[w] = Append(messages[w], [role |-> a, ticks |-> ticks])
           /\ \E clears \in BOOLEAN : week'[w] = ApplyWeekState(w, a, clears)
<1>1. PICK clears \in BOOLEAN : week' = [week EXCEPT ![w] = ApplyWeekState(w, a, clears)]
  BY DEF PostMessage
<1> DEFINE r == ApplyWeekState(w, a, clears)
<1>2. /\ r \in Week
      /\ week[w].studentStatus => r.studentStatus
      /\ r.isMentorPresent = week[w].isMentorPresent
      /\ r.approved = week[w].approved
  BY AppliedState
<1> HIDE DEF r
<1>3. week' = [week EXCEPT ![w] = r]
  BY <1>1 DEF r
<1>4. week' \in [Weeks -> Week] /\ week'[w] = r /\ \A v \in Weeks : v # w => week'[v] = week[v]
  BY <1>2, <1>3 DEF TypeOK
<1>5. [role |-> a, ticks |-> ticks] \in Message
  BY DEF Message
<1>6. /\ messages' \in [Weeks -> Seq(Message)]
      /\ messages'[w] = Append(messages[w], [role |-> a, ticks |-> ticks])
      /\ \A v \in Weeks : v # w => messages'[v] = messages[v]
  BY <1>5 DEF TypeOK, PostMessage
<1>7. Keeps(w)
  BY <1>2, <1>4, <1>6 DEF Keeps
<1>8. week'[w] = ApplyWeekState(w, a, clears)
  BY <1>4 DEF r
<1>9. QED
  BY <1>4, <1>6, <1>7, <1>8 DEF Typed

LEMMA ScoreEffect ==
    ASSUME TypeOK, NEW w \in Weeks, NEW ticks \in SUBSET Ticks, Score(w, ticks)
    PROVE  /\ Typed
           /\ Keeps(w)
           /\ messages' = messages
           /\ week'[w].status = "completed"
           /\ week'[w].mentorStatus = "score"
           /\ week'[w].studentStatus = week[w].studentStatus
           /\ week'[w].teacherStatus = week[w].teacherStatus
           /\ week'[w].isMentorPresent = week[w].isMentorPresent
           /\ week'[w].schoolVisited = ("visited" \in ticks)
<1> DEFINE b == "visited" \in ticks
           r == [week[w] EXCEPT !.status = "completed", !.mentorStatus = "score",
                                !.schoolVisited = b]
<1>1. week' = [week EXCEPT ![w] = r]
  BY DEF Score, TypeOK
<1>0. b \in BOOLEAN /\ b = ("visited" \in ticks)
  OBVIOUS
<1> HIDE DEF b
<1>2. /\ r \in Week /\ r.status = "completed" /\ r.mentorStatus = "score"
      /\ r.studentStatus = week[w].studentStatus
      /\ r.teacherStatus = week[w].teacherStatus
      /\ r.isMentorPresent = week[w].isMentorPresent
      /\ r.approved = week[w].approved
      /\ r.schoolVisited = b
  BY <1>0, WeekFields DEF Week
<1> HIDE DEF r
<1>3. week' \in [Weeks -> Week] /\ week'[w] = r /\ \A v \in Weeks : v # w => week'[v] = week[v]
  BY <1>1, <1>2 DEF TypeOK
<1>4. messages' = messages
  BY DEF Score
<1>5. QED
  BY <1>0, <1>2, <1>3, <1>4 DEF Typed, Keeps, TypeOK

(* A presence or an approval. *)
SameReview(w) ==
    /\ week'[w].status = week[w].status
    /\ week'[w].studentStatus = week[w].studentStatus
    /\ week'[w].mentorStatus = week[w].mentorStatus
    /\ week'[w].teacherStatus = week[w].teacherStatus
    /\ week'[w].schoolVisited = week[w].schoolVisited

LEMMA PresentEffect ==
    ASSUME TypeOK, NEW w \in Weeks, MentorPresent(w)
    PROVE  Typed /\ Keeps(w) /\ messages' = messages /\ SameReview(w)
           /\ week'[w].isMentorPresent
<1> DEFINE r == [week[w] EXCEPT !.isMentorPresent = TRUE]
<1>1. week' = [week EXCEPT ![w] = r]
  BY DEF MentorPresent, TypeOK
<1>2. /\ r \in Week /\ r.isMentorPresent
      /\ r.status = week[w].status /\ r.studentStatus = week[w].studentStatus
      /\ r.mentorStatus = week[w].mentorStatus /\ r.teacherStatus = week[w].teacherStatus
      /\ r.schoolVisited = week[w].schoolVisited /\ r.approved = week[w].approved
  BY WeekFields DEF Week
<1> HIDE DEF r
<1>3. week' \in [Weeks -> Week] /\ week'[w] = r /\ \A v \in Weeks : v # w => week'[v] = week[v]
  BY <1>1, <1>2 DEF TypeOK
<1>4. messages' = messages
  BY DEF MentorPresent
<1>5. QED
  BY <1>2, <1>3, <1>4 DEF Typed, Keeps, SameReview, TypeOK

LEMMA ApproveEffect ==
    ASSUME TypeOK, NEW w \in Weeks, NEW tick \in Ticks, Approve(w, tick)
    PROVE  Typed /\ Keeps(w) /\ messages' = messages /\ SameReview(w)
           /\ week'[w].isMentorPresent = week[w].isMentorPresent
           /\ week'[w].approved = week[w].approved \cup {tick}
<1> DEFINE r == [week[w] EXCEPT !.approved = @ \cup {tick}]
<1>1. week' = [week EXCEPT ![w] = r]
  BY DEF Approve, TypeOK
<1>2. /\ r \in Week /\ r.isMentorPresent = week[w].isMentorPresent
      /\ r.status = week[w].status /\ r.studentStatus = week[w].studentStatus
      /\ r.mentorStatus = week[w].mentorStatus /\ r.teacherStatus = week[w].teacherStatus
      /\ r.schoolVisited = week[w].schoolVisited /\ r.approved = week[w].approved \cup {tick}
  BY WeekFields DEF Week
<1> HIDE DEF r
<1>3. week' \in [Weeks -> Week] /\ week'[w] = r /\ \A v \in Weeks : v # w => week'[v] = week[v]
  BY <1>1, <1>2 DEF TypeOK
<1>4. messages' = messages
  BY DEF Approve
<1>5. QED
  BY <1>2, <1>3, <1>4 DEF Typed, Keeps, SameReview, TypeOK

LEMMA RequestEffect ==
    ASSUME TypeOK, NEW w \in Weeks, NEW a \in Roles, NEW ticks \in SUBSET Ticks, NEW call,
           Request(a, call, w, ticks)
    PROVE  Typed /\ Keeps(w) /\ setting' = setting
<1>1. CASE call = "message" /\ PostMessage(w, a, ticks)
  BY <1>1, MessageEffect DEF Request
<1>2. CASE call = "present" /\ MentorPresent(w)
  BY <1>2, PresentEffect DEF Request
<1>3. CASE call = "score" /\ Score(w, ticks)
  BY <1>3, ScoreEffect DEF Request
<1>4. CASE call \in Ticks /\ Approve(w, call)
  BY <1>4, ApproveEffect DEF Request
<1>5. QED
  BY <1>1, <1>2, <1>3, <1>4 DEF Request
-----------------------------------------------------------------------------
(***************************************************************************)
(* The requests of a save.                                                  *)
(***************************************************************************)
LEMMA Literals ==
    /\ \A x : Len(<<x>>) = 1 /\ Head(<<x>>) = x /\ <<x>> # <<>>
    /\ \A x, y : /\ Len(<<x, y>>) = 2 /\ Head(<<x, y>>) = x /\ Tail(<<x, y>>) = <<y>>
                 /\ <<x, y>> # <<>>
    /\ \A x, y, z : /\ Len(<<x, y, z>>) = 3 /\ Head(<<x, y, z>>) = x
                    /\ Tail(<<x, y, z>>) = <<y, z>> /\ <<x, y, z>> # <<>>
OBVIOUS

LEMMA ConcatOne ==
    ASSUME NEW x \in Call, NEW y \in Call
    PROVE  <<x>> \o <<y>> = <<x, y>>
<1>1. <<x>> \in Seq(Call) /\ <<y>> \in Seq(Call) /\ <<x, y>> \in Seq(Call)
  OBVIOUS
<1> DEFINE s == <<x>> \o <<y>>
<1>2. s \in Seq(Call) /\ Len(s) = 2 /\ s[1] = x /\ s[2] = y
  BY <1>1, ConcatProperties
<1> HIDE DEF s
<1>3. s = <<x, y>>
  BY <1>1, <1>2, SeqEqual
<1>4. QED
  BY <1>3 DEF s

LEMMA ConcatTwo ==
    ASSUME NEW x \in Call, NEW y \in Call, NEW z \in Call
    PROVE  <<x, y>> \o <<z>> = <<x, y, z>>
<1>1. <<x, y>> \in Seq(Call) /\ <<z>> \in Seq(Call) /\ <<x, y, z>> \in Seq(Call)
  OBVIOUS
<1> DEFINE s == <<x, y>> \o <<z>>
<1>2. s \in Seq(Call) /\ Len(s) = 3 /\ s[1] = x /\ s[2] = y /\ s[3] = z
  BY <1>1, ConcatProperties
<1> HIDE DEF s
<1>3. s = <<x, y, z>>
  BY <1>1, <1>2, SeqEqual
<1>4. QED
  BY <1>3 DEF s

LEMMA Concatenations ==
    /\ \A x, y \in Call : <<x>> \o <<y>> = <<x, y>>
    /\ \A x, y, z \in Call : <<x, y>> \o <<z>> = <<x, y, z>>
    /\ \A x \in Call : <<>> \o <<x>> = <<x>> /\ <<x>> \o <<>> = <<x>>
    /\ <<>> \o <<>> = <<>>
    /\ {"message", "present", "score", "attended", "visited"} \subseteq Call
<1>1. \A x \in Call : <<x>> \in Seq(Call)
  OBVIOUS
<1>2. <<>> \in Seq(Call)
  OBVIOUS
<1>3. {"message", "present", "score", "attended", "visited"} \subseteq Call
  BY DEF Call
<1>4. QED
  BY <1>1, <1>2, <1>3, ConcatOne, ConcatTwo, ConcatEmptySeq

(* What a save may still have to send, given the record r of its week: the presence
   is there before a score that counts a visit, and the approvals before the
   principal's message. *)
Plan(a, ticks, calls, r) ==
    \/ calls = <<>>
    \/ a \in {"student", "mentor"} /\ calls = <<"message">> /\ ticks = {}
    \/ /\ a = "advisor"
       /\ \/ calls \in {<<"present">>, <<"present", "message">>, <<"present", "score">>,
                        <<"message">>}
          \/ calls = <<"score">> /\ ("visited" \in ticks => r.isMentorPresent)
    \/ /\ a = "principal"
       /\ \/ calls = <<"attended", "visited", "message">>
          \/ calls = <<"attended", "message">> /\ ticks \subseteq r.approved \cup {"attended"}
          \/ calls = <<"visited", "message">> /\ ticks \subseteq r.approved \cup {"visited"}
          \/ calls = <<"message">> /\ ticks \subseteq r.approved
          \/ calls = <<"visited">>

LEMMA PlanType ==
    ASSUME NEW a, NEW ticks, NEW calls, NEW r, Plan(a, ticks, calls, r)
    PROVE  calls \in Seq(Call)
<1>1. {"message", "present", "score", "attended", "visited"} \subseteq Call
  BY DEF Call
<1>2. <<>> \in Seq(Call)
  OBVIOUS
<1>3. \A x \in Call : <<x>> \in Seq(Call)
  OBVIOUS
<1>4. \A x, y \in Call : <<x, y>> \in Seq(Call)
  OBVIOUS
<1>5. \A x, y, z \in Call : <<x, y, z>> \in Seq(Call)
  OBVIOUS
<1>6. QED
  BY <1>1, <1>2, <1>3, <1>4, <1>5 DEF Plan

LEMMA SavesPlan ==
    ASSUME NEW a \in Roles, a # "student", NEW card, NEW ticks \in SUBSET Ticks,
           NEW calls \in Saves(a, card, ticks), NEW r
    PROVE  Plan(a, ticks, calls, r)
<1>1. CASE a = "advisor"
  <2>1. calls \in AdvisorSaves(ticks)
    BY <1>1 DEF Saves
  <2>2. CASE "visited" \in ticks
    <3>1. AdvisorSaves(ticks) \subseteq
            {<<"present">>, <<"present", "message">>, <<"present", "score">>}
      BY <2>2, Concatenations DEF AdvisorSaves, Present
    <3>2. QED
      BY <1>1, <2>1, <3>1 DEF Plan
  <2>3. CASE "visited" \notin ticks
    <3>1. AdvisorSaves(ticks) \subseteq {<<"message">>, <<"score">>}
      BY <2>3, Concatenations DEF AdvisorSaves, Present
    <3>2. QED
      BY <1>1, <2>1, <2>3, <3>1 DEF Plan
  <2>4. QED
    BY <2>2, <2>3
<1>2. CASE a = "mentor"
  BY <1>2 DEF Saves, Plan
<1>3. CASE a = "principal"
  <2>1. \/ calls \in PrincipalSaves(ticks)
        \/ ticks = {"visited"} /\ calls = Approvals(ticks)
    BY <1>3 DEF Saves
  <2>2. CASE ticks = {}
    <3>1. Approvals(ticks) = <<>>
      BY <2>2, Concatenations DEF Approvals
    <3>2. calls = <<"message">>
      BY <2>1, <2>2, <3>1, Concatenations DEF PrincipalSaves
    <3>3. QED
      BY <1>3, <2>2, <3>2 DEF Plan
  <2>3. CASE ticks = {"attended"}
    <3>1. Approvals(ticks) = <<"attended">>
      BY <2>3, Concatenations DEF Approvals
    <3>2. calls = <<"attended", "message">>
      <4>1. <<"attended">> \o <<"message">> = <<"attended", "message">>
        BY Concatenations
      <4>2. QED
        BY <2>1, <2>3, <3>1, <4>1 DEF PrincipalSaves
    <3>3. QED
      BY <1>3, <2>3, <3>2 DEF Plan
  <2>4. CASE ticks = {"visited"}
    <3>1. Approvals(ticks) = <<"visited">>
      BY <2>4, Concatenations DEF Approvals
    <3>2. calls \in {<<"visited", "message">>, <<"visited">>}
      <4>1. <<"visited">> \o <<"message">> = <<"visited", "message">>
        BY Concatenations
      <4>2. QED
        BY <2>1, <2>4, <3>1, <4>1 DEF PrincipalSaves
    <3>3. QED
      BY <1>3, <2>4, <3>2 DEF Plan
  <2>5. CASE ticks = {"attended", "visited"}
    <3>1. Approvals(ticks) = <<"attended", "visited">>
      BY <2>5, Concatenations DEF Approvals
    <3>2. <<"attended", "visited">> \o <<"message">> = <<"attended", "visited", "message">>
      BY Concatenations
    <3>3. ticks # {"visited"}
      BY <2>5
    <3>4. calls = Approvals(ticks) \o <<"message">>
      BY <2>1, <3>3 DEF PrincipalSaves
    <3>5. calls = <<"attended", "visited", "message">>
      BY <3>1, <3>2, <3>4
    <3>6. QED
      BY <1>3, <3>5 DEF Plan
  <2>6. QED
    BY <2>2, <2>3, <2>4, <2>5 DEF Ticks
<1>4. QED
  BY <1>1, <1>2, <1>3 DEF Roles

(* The plan after the next request went through. *)
LEMMA PlanStep ==
    ASSUME TypeOK, NEW w \in Weeks, NEW a \in Roles, NEW ticks \in SUBSET Ticks,
           NEW calls, calls # <<>>, Plan(a, ticks, calls, week[w]),
           Request(a, Head(calls), w, ticks)
    PROVE  IF Len(calls) = 1 THEN TRUE ELSE Plan(a, ticks, Tail(calls), week'[w])
<1>1. CASE calls \in {<<"message">>, <<"present">>, <<"score">>, <<"visited">>}
  BY <1>1, Literals
<1>2. CASE a = "advisor" /\ calls = <<"present", "message">>
  <2>1. Tail(calls) = <<"message">>
    BY <1>2, Literals
  <2>2. QED
    BY <1>2, <2>1 DEF Plan
<1>3. CASE a = "advisor" /\ calls = <<"present", "score">>
  <2>1. Tail(calls) = <<"score">> /\ Head(calls) = "present"
    BY <1>3, Literals
  <2>2. MentorPresent(w)
    BY <2>1 DEF Request, Ticks
  <2>3. week'[w].isMentorPresent
    BY <2>2, PresentEffect
  <2>4. QED
    BY <1>3, <2>1, <2>3 DEF Plan
<1>4. CASE a = "principal" /\ calls = <<"attended", "message">>
           /\ ticks \subseteq week[w].approved \cup {"attended"}
  <2>1. Tail(calls) = <<"message">> /\ Head(calls) = "attended"
    BY <1>4, Literals
  <2>2. Approve(w, "attended")
    BY <2>1 DEF Request, Ticks
  <2>3. week'[w].approved = week[w].approved \cup {"attended"}
    BY <2>2, ApproveEffect DEF Ticks
  <2>4. QED
    BY <1>4, <2>1, <2>3 DEF Plan
<1>5. CASE a = "principal" /\ calls = <<"visited", "message">>
           /\ ticks \subseteq week[w].approved \cup {"visited"}
  <2>1. Tail(calls) = <<"message">> /\ Head(calls) = "visited"
    BY <1>5, Literals
  <2>2. Approve(w, "visited")
    BY <2>1 DEF Request, Ticks
  <2>3. week'[w].approved = week[w].approved \cup {"visited"}
    BY <2>2, ApproveEffect DEF Ticks
  <2>4. QED
    BY <1>5, <2>1, <2>3 DEF Plan
<1>6. CASE a = "principal" /\ calls = <<"attended", "visited", "message">>
  <2>1. Tail(calls) = <<"visited", "message">> /\ Head(calls) = "attended"
    BY <1>6, Literals
  <2>2. Approve(w, "attended")
    BY <2>1 DEF Request, Ticks
  <2>3. week'[w].approved = week[w].approved \cup {"attended"}
    BY <2>2, ApproveEffect DEF Ticks
  <2>4. ticks \subseteq week'[w].approved \cup {"visited"}
    BY <2>3 DEF Ticks
  <2>5. QED
    BY <1>6, <2>1, <2>4 DEF Plan
<1>7. QED
  BY <1>1, <1>2, <1>3, <1>4, <1>5, <1>6 DEF Plan

LEMMA PlanKept ==
    ASSUME NEW a, NEW ticks, NEW calls, NEW r, NEW s, Plan(a, ticks, calls, r),
           r.isMentorPresent => s.isMentorPresent, r.approved \subseteq s.approved
    PROVE  Plan(a, ticks, calls, s)
BY DEF Plan
-----------------------------------------------------------------------------
(***************************************************************************)
(* Types, and what grows on the server.                                     *)
(***************************************************************************)
LEMMA SettingFields ==
    ASSUME TypeOK
    PROVE  setting.actors \subseteq Roles /\ setting.archived \subseteq Weeks
BY ConstantsAssumption DEF TypeOK

LEMMA CardType ==
    ASSUME NEW a \in Roles, NEW w \in Weeks, NEW read \in BOOLEAN
    PROVE  CardOf(a, w, read) \in Card
<1> DEFINE own == MapWeekStatus(w, read /\ Superseded(w))
           sent == \/ a = "mentor" /\ week[w].teacherStatus
                   \/ a = "principal" /\ week[w].schoolAdminStatus
           shown == IF a = "student" /\ w \in setting.archived THEN "archived"
                    ELSE IF a = "student" /\ own = "draft" /\ Locked(w) THEN "locked_future"
                    ELSE own
<1>1. own \in {"draft", "pending", "approved", "needs_edit", "graded"}
  BY DEF MapWeekStatus
<1>2. sent \in BOOLEAN
  OBVIOUS
<1>3. CardOf(a, w, read) = [status |-> shown, sent |-> sent]
  BY Zenon DEF CardOf
<1> HIDE DEF own, sent
<1>4. shown \in {"draft", "pending", "approved", "needs_edit", "graded", "archived",
                 "locked_future"}
  BY <1>1
<1> HIDE DEF shown
<1>5. QED
  BY <1>2, <1>3, <1>4 DEF Card

LEMMA JobFields ==
    ASSUME TypeOK, NEW a \in Roles
    PROVE  /\ job[a] \in Job
           /\ job[a].kind \in Kind /\ job[a].week \in Weeks
           /\ job[a].ticks \in SUBSET Ticks /\ job[a].calls \in Seq(Call)
BY DEF TypeOK, Job

LEMMA IdleType == Idle \in Job /\ Idle.calls = <<>> /\ Idle.ticks = {}
BY ConstantsAssumption DEF Idle, Job, Kind, Weeks, Ticks

LEMMA RestType ==
    ASSUME TypeOK, NEW a \in Roles, Running(a)
    PROVE  Rest(a) \in Job
<1>1. Tail(job[a].calls) \in Seq(Call)
  BY JobFields, HeadTailProperties DEF Running
<1>2. QED
  BY <1>1, JobFields, IdleType DEF Rest, Job

LEMMA RequestOfJob ==
    ASSUME TypeOK, NEW a \in Roles,
           Request(a, Head(job[a].calls), job[a].week, job[a].ticks)
    PROVE  Typed /\ Keeps(job[a].week) /\ setting' = setting
BY JobFields, RequestEffect

(* updateWeekLocally *)
LEMMA ViewOfStep ==
    ASSUME TypeOK, NEW a \in Roles, a = "student", Step(a)
    PROVE  /\ view' \in [Roles -> [Weeks -> Card]]
           /\ view'[a][job[a].week].status \in {"draft", "pending"}
           /\ \A b \in Roles, w \in Weeks :
                <<b, w>> # <<a, job[a].week>> => view'[b][w] = view[b][w]
<1> DEFINE status == IF job[a].kind = "draft" THEN "draft" ELSE "pending"
           w == job[a].week
           old == view[a][w]
           card == [old EXCEPT !.status = status]
<1>1. w \in Weeks /\ old \in Card /\ status \in {"draft", "pending"}
  BY JobFields DEF TypeOK
<1>2. view' = [view EXCEPT ![a] = [view[a] EXCEPT ![w] = card]]
  BY <1>1 DEF Step, TypeOK
<1> HIDE DEF w, old, status
<1>3. card \in Card /\ card.status = status
  BY <1>1 DEF Card
<1> HIDE DEF card
<1>4. /\ view' \in [Roles -> [Weeks -> Card]] /\ view'[a][w] = card
      /\ \A b \in Roles, v \in Weeks : <<b, v>> # <<a, w>> => view'[b][v] = view[b][v]
  BY <1>1, <1>2, <1>3 DEF TypeOK
<1>5. QED
  BY <1>1, <1>3, <1>4 DEF w

LEMMA TypeStep ==
    ASSUME TypeOK, [Next]_vars
    PROVE  TypeOK'
<1>1. ASSUME UNCHANGED vars PROVE TypeOK'
  BY <1>1 DEF vars, server, TypeOK
<1>2. ASSUME NEW a \in Roles, Load(a) PROVE TypeOK'
  <2>1. PICK read \in BOOLEAN : view' = [view EXCEPT ![a] = Cards(a, read)]
    BY <1>2 DEF Load
  <2>2. Cards(a, read) \in [Weeks -> Card]
    BY CardType DEF Cards
  <2>3. view' \in [Roles -> [Weeks -> Card]]
    BY <2>1, <2>2 DEF TypeOK
  <2>4. QED
    BY <1>2, <2>3 DEF Load, server, TypeOK
<1>3. ASSUME NEW a \in Roles, NEW w \in Weeks, NEW ticks \in SUBSET Ticks, Review(a, w, ticks)
      PROVE  TypeOK'
  <2>1. PICK calls \in Saves(a, view[a][w], ticks) :
           job' = [job EXCEPT ![a] =
               [kind |-> "review", week |-> w, ticks |-> ticks, calls |-> calls]]
    BY <1>3 DEF Review
  <2>2. calls \in Seq(Call)
    BY <1>3, <2>1, SavesPlan, PlanType DEF Review
  <2>3. job' \in [Roles -> Job]
    BY <2>1, <2>2 DEF TypeOK, Job, Kind
  <2>4. QED
    BY <1>3, <2>3 DEF Review, server, TypeOK
<1>4. ASSUME NEW a \in Roles, Step(a) PROVE TypeOK'
  <2>1. Typed /\ setting' = setting
    BY <1>4, RequestOfJob DEF Step
  <2>2. job' \in [Roles -> Job]
    BY <1>4, RestType DEF Step, TypeOK
  <2>3. view' \in [Roles -> [Weeks -> Card]]
    <3>1. CASE a # "student"
      BY <1>4, <3>1 DEF Step, TypeOK
    <3>2. CASE a = "student"
      BY <1>4, <3>2, ViewOfStep
    <3>3. QED
      BY <3>1, <3>2
  <2>4. editing' \in 0..NumWeeks
    BY <1>4, ConstantsAssumption DEF Step, TypeOK
  <2>5. QED
    BY <1>4, <2>1, <2>2, <2>3, <2>4 DEF Step, Request, Typed, TypeOK
<1>5. ASSUME NEW a \in Roles, Fail(a) PROVE TypeOK'
  <2>1. /\ setting' = setting /\ cancelled' = cancelled
        /\ week' \in [Weeks -> Week] /\ messages' \in [Weeks -> Seq(Message)]
    <3>1. CASE UNCHANGED server
      BY <3>1 DEF server, TypeOK
    <3>2. CASE Request(a, Head(job[a].calls), job[a].week, job[a].ticks)
      BY <3>2, RequestOfJob DEF Request, Typed
    <3>3. QED
      BY <1>5, <3>1, <3>2 DEF Fail
  <2>2. job' \in [Roles -> Job]
    BY <1>5, IdleType DEF Fail, TypeOK
  <2>3. editing' \in 0..NumWeeks
    BY <1>5, JobFields, ConstantsAssumption DEF Fail, TypeOK, Weeks
  <2>4. QED
    BY <1>5, <2>1, <2>2, <2>3 DEF Fail, TypeOK
<1>6. ASSUME NEW w \in Weeks, Edit(w) PROVE TypeOK'
  BY <1>6, ConstantsAssumption DEF Edit, server, TypeOK, Weeks
<1>7. ASSUME Close PROVE TypeOK'
  BY <1>7, ConstantsAssumption DEF Close, server, TypeOK
<1>8. ASSUME NEW kind \in {"draft", "submit"}, Write(kind) PROVE TypeOK'
  <2>1. editing \in Weeks /\ editing' \in 0..NumWeeks
    BY <1>8, ConstantsAssumption DEF Write, TypeOK, Weeks
  <2>2. <<"message">> \in Seq(Call)
    BY DEF Call
  <2>3. job' \in [Roles -> Job]
    BY <1>8, <2>1, <2>2 DEF Write, TypeOK, Job, Kind, Roles
  <2>4. QED
    BY <1>8, <2>1, <2>3 DEF Write, server, TypeOK
<1>9. ASSUME Cancel PROVE TypeOK'
  BY <1>9 DEF Cancel, TypeOK
<1>10. QED
  BY <1>1, <1>2, <1>3, <1>4, <1>5, <1>6, <1>7, <1>8, <1>9, SettingFields DEF Next
-----------------------------------------------------------------------------
(***************************************************************************)
(* The inductive invariant: what a card, the open dialog and a save on its  *)
(* way have behind them on the server.                                      *)
(***************************************************************************)
EarlierIn(w) == \A v \in Weeks \ setting.archived : v < w => week[v].studentStatus
HandInable(w) == w \notin setting.archived /\ EarlierIn(w)

HasAdvisor(w) == \E i \in DOMAIN messages[w] : messages[w][i].role = "advisor"

RecordInv == \A w \in Weeks :
    /\ week[w].status = "completed" => week[w].studentStatus
    /\ week[w].mentorStatus = "send" => week[w].studentStatus /\ HasAdvisor(w)
    /\ week[w].teacherStatus => week[w].studentStatus

CardInv ==
    /\ \A a \in Roles, w \in Weeks :
         a # "student" /\ view[a][w].status # "draft" => week[w].studentStatus
    /\ \A w \in Weeks :
         view["student"][w].status \in {"draft", "needs_edit"} => HandInable(w)

DialogInv == editing # 0 => HandInable(editing)

JobInv == \A a \in Roles : Running(a) =>
    IF a = "student" THEN HandInable(job[a].week) ELSE week[job[a].week].studentStatus

PlanInv == \A a \in Roles : Plan(a, job[a].ticks, job[a].calls, week[job[a].week])

IInv ==
    /\ TypeOK
    /\ RecordInv
    /\ CardInv
    /\ DialogInv
    /\ JobInv
    /\ PlanInv
    /\ VisitedOnlyIfPresent
    /\ TicksBeforeEvaluation
    /\ WeeksInOrder

(* No step takes a report, a presence or an approval back. *)
Grows ==
    /\ setting' = setting
    /\ \A w \in Weeks :
         /\ week[w].studentStatus => week'[w].studentStatus
         /\ week[w].isMentorPresent => week'[w].isMentorPresent
         /\ week[w].approved \subseteq week'[w].approved

LEMMA KeepsGrows ==
    ASSUME NEW w \in Weeks, Keeps(w), setting' = setting
    PROVE  Grows
BY DEF Keeps, Grows

(* What a step does to the server. *)
LEMMA ServerStep ==
    ASSUME TypeOK, [Next]_vars
    PROVE  \/ setting' = setting /\ week' = week /\ messages' = messages
           \/ \E a \in setting.actors :
                /\ Running(a)
                /\ Request(a, Head(job[a].calls), job[a].week, job[a].ticks)
BY SettingFields
   DEF Next, vars, server, Load, Review, Step, Fail, Edit, Close, Write, Cancel

LEMMA GrowsStep ==
    ASSUME TypeOK, [Next]_vars
    PROVE  Grows
<1>1. CASE setting' = setting /\ week' = week /\ messages' = messages
  BY <1>1 DEF Grows
<1>2. ASSUME NEW a \in setting.actors,
             Request(a, Head(job[a].calls), job[a].week, job[a].ticks)
      PROVE  Grows
  BY <1>2, SettingFields, JobFields, RequestOfJob, KeepsGrows
<1>3. QED
  BY <1>1, <1>2, ServerStep

LEMMA HandInableKept ==
    ASSUME Grows, NEW w, HandInable(w)
    PROVE  HandInable(w)'
BY DEF Grows, HandInable, EarlierIn

LEMMA AppendedMessage ==
    ASSUME TypeOK, NEW w \in Weeks, NEW m \in Message, messages'[w] = Append(messages[w], m)
    PROVE  /\ DOMAIN messages[w] = 1..Len(messages[w]) /\ Len(messages[w]) \in Nat
           /\ DOMAIN messages'[w] = 1..(Len(messages[w]) + 1)
           /\ \A i \in 1..Len(messages[w]) : messages'[w][i] = messages[w][i]
           /\ messages'[w][Len(messages[w]) + 1] = m
BY WeekFields

LEMMA HasAdvisorKept ==
    ASSUME TypeOK, NEW w \in Weeks, NEW m \in Message,
           messages'[w] = messages[w] \/ messages'[w] = Append(messages[w], m), HasAdvisor(w)
    PROVE  HasAdvisor(w)'
<1>1. CASE messages'[w] = messages[w]
  BY <1>1 DEF HasAdvisor
<1>2. CASE messages'[w] = Append(messages[w], m)
  <2>1. PICK i \in DOMAIN messages[w] : messages[w][i].role = "advisor"
    BY DEF HasAdvisor
  <2>2. i \in DOMAIN messages'[w] /\ messages'[w][i] = messages[w][i]
    BY <1>2, <2>1, AppendedMessage
  <2>3. QED
    BY <2>1, <2>2 DEF HasAdvisor
<1>3. QED
  BY <1>1, <1>2

(* The invariants of the server after a request of a save. *)
LEMMA MessageStep ==
    ASSUME IInv, NEW a \in Roles, Running(a), NEW w \in Weeks, w = job[a].week,
           NEW ticks \in SUBSET Ticks, ticks = job[a].ticks,
           Head(job[a].calls) = "message", PostMessage(w, a, ticks), setting' = setting
    PROVE  RecordInv' /\ VisitedOnlyIfPresent' /\ TicksBeforeEvaluation' /\ WeeksInOrder'
<1>1. TypeOK
  BY DEF IInv
<1> DEFINE m == [role |-> a, ticks |-> ticks]
<1>2. /\ Typed /\ Keeps(w)
      /\ messages'[w] = Append(messages[w], m)
      /\ m \in Message /\ m.role = a /\ m.ticks = ticks
  BY <1>1, MessageEffect DEF Message
<1> HIDE DEF m
<1>3. PICK clears \in BOOLEAN : week'[w] = ApplyWeekState(w, a, clears)
  BY <1>1, MessageEffect
<1>4. /\ week'[w].isMentorPresent = week[w].isMentorPresent
      /\ week'[w].schoolVisited = week[w].schoolVisited
      /\ week'[w].approved = week[w].approved
      /\ week'[w].status = "completed" <=> week[w].status = "completed"
      /\ week[w].studentStatus => week'[w].studentStatus
      /\ week'[w].studentStatus => week[w].studentStatus \/ a = "student"
      /\ week'[w].teacherStatus => week[w].teacherStatus \/ a = "mentor"
      /\ week'[w].mentorStatus = "send" => week[w].mentorStatus = "send" \/ a = "advisor"
  BY <1>1, <1>3, AppliedState
<1>5. \A v \in Weeks : v # w => week'[v] = week[v] /\ messages'[v] = messages[v]
  BY <1>2 DEF Keeps
<1>6. /\ DOMAIN messages[w] = 1..Len(messages[w]) /\ Len(messages[w]) \in Nat
      /\ DOMAIN messages'[w] = 1..(Len(messages[w]) + 1)
      /\ \A i \in 1..Len(messages[w]) : messages'[w][i] = messages[w][i]
      /\ messages'[w][Len(messages[w]) + 1] = m
  BY <1>1, <1>2, AppendedMessage
<1>7. a # "student" => week[w].studentStatus
  BY DEF IInv, JobInv
<1>8. \A v \in Weeks : HasAdvisor(v) => HasAdvisor(v)'
  <2>1. HasAdvisor(w) => HasAdvisor(w)'
    BY <1>1, <1>2, HasAdvisorKept
  <2>2. \A v \in Weeks \ {w} : HasAdvisor(v) => HasAdvisor(v)'
    BY <1>5 DEF HasAdvisor
  <2>3. QED
    BY <2>1, <2>2
<1>9. a = "advisor" => HasAdvisor(w)'
  <2>1. Len(messages[w]) + 1 \in DOMAIN messages'[w]
    BY <1>6
  <2>2. QED
    BY <1>2, <1>6, <2>1 DEF HasAdvisor
<1>10. RecordInv'
  <2>1. ASSUME NEW v \in Weeks, v # w
        PROVE  /\ week'[v].status = "completed" => week'[v].studentStatus
               /\ week'[v].mentorStatus = "send" => week'[v].studentStatus /\ HasAdvisor(v)'
               /\ week'[v].teacherStatus => week'[v].studentStatus
    BY <2>1, <1>5, <1>8 DEF IInv, RecordInv
  <2>2. /\ week'[w].status = "completed" => week'[w].studentStatus
        /\ week'[w].mentorStatus = "send" => week'[w].studentStatus /\ HasAdvisor(w)'
        /\ week'[w].teacherStatus => week'[w].studentStatus
    BY <1>4, <1>7, <1>8, <1>9 DEF IInv, RecordInv
  <2>3. QED
    BY <2>1, <2>2 DEF RecordInv
<1>11. VisitedOnlyIfPresent'
  BY <1>4, <1>5 DEF IInv, VisitedOnlyIfPresent
<1>12. TicksBeforeEvaluation'
  <2>1. a = "principal" => ticks \subseteq week[w].approved
    BY Literals DEF IInv, PlanInv, Plan, Running
  <2>2. ASSUME NEW i \in DOMAIN messages'[w], messages'[w][i].role = "principal"
        PROVE  messages'[w][i].ticks \subseteq week'[w].approved
    <3>1. CASE i \in 1..Len(messages[w])
      BY <1>4, <1>6, <2>2, <3>1 DEF IInv, TicksBeforeEvaluation
    <3>2. CASE i = Len(messages[w]) + 1
      BY <1>2, <1>4, <1>6, <2>1, <2>2, <3>2
    <3>3. QED
      BY <1>6, <2>2, <3>1, <3>2
  <2>3. QED
    BY <1>5, <2>2 DEF IInv, TicksBeforeEvaluation
<1>13. WeeksInOrder'
  <2>1. a = "student" => HandInable(w)
    BY DEF IInv, JobInv
  <2>2. QED
    BY <1>4, <1>5, <2>1 DEF IInv, WeeksInOrder, HandInable, EarlierIn
<1>14. QED
  BY <1>10, <1>11, <1>12, <1>13

LEMMA ScoreStep ==
    ASSUME IInv, NEW a \in Roles, Running(a), NEW w \in Weeks, w = job[a].week,
           NEW ticks \in SUBSET Ticks, ticks = job[a].ticks,
           Head(job[a].calls) = "score", Score(w, ticks), setting' = setting
    PROVE  RecordInv' /\ VisitedOnlyIfPresent' /\ TicksBeforeEvaluation' /\ WeeksInOrder'
<1>1. TypeOK
  BY DEF IInv
<1>2. /\ Keeps(w) /\ messages' = messages
      /\ week'[w].status = "completed"
      /\ week'[w].mentorStatus = "score"
      /\ week'[w].studentStatus = week[w].studentStatus
      /\ week'[w].teacherStatus = week[w].teacherStatus
      /\ week'[w].isMentorPresent = week[w].isMentorPresent
      /\ week'[w].schoolVisited = ("visited" \in ticks)
  BY <1>1, ScoreEffect
<1>3. a = "advisor" /\ ("visited" \in ticks => week[w].isMentorPresent)
  BY Literals DEF IInv, PlanInv, Plan, Running
<1>4. week[w].studentStatus
  BY <1>3 DEF IInv, JobInv
<1>5. RecordInv'
  BY <1>2, <1>4 DEF IInv, RecordInv, Keeps, HasAdvisor
<1>6. VisitedOnlyIfPresent'
  BY <1>2, <1>3 DEF IInv, VisitedOnlyIfPresent, Keeps
<1>7. TicksBeforeEvaluation'
  BY <1>2 DEF IInv, TicksBeforeEvaluation, Keeps
<1>8. WeeksInOrder'
  BY <1>2 DEF IInv, WeeksInOrder, Keeps
<1>9. QED
  BY <1>5, <1>6, <1>7, <1>8

LEMMA OtherRequestStep ==
    ASSUME IInv, NEW w \in Weeks, Keeps(w), messages' = messages, SameReview(w),
           setting' = setting
    PROVE  RecordInv' /\ VisitedOnlyIfPresent' /\ TicksBeforeEvaluation' /\ WeeksInOrder'
<1>1. RecordInv'
  BY DEF IInv, RecordInv, Keeps, SameReview, HasAdvisor
<1>2. VisitedOnlyIfPresent'
  BY DEF IInv, VisitedOnlyIfPresent, Keeps, SameReview
<1>3. TicksBeforeEvaluation'
  BY DEF IInv, TicksBeforeEvaluation, Keeps
<1>4. WeeksInOrder'
  BY DEF IInv, WeeksInOrder, Keeps, SameReview
<1>5. QED
  BY <1>1, <1>2, <1>3, <1>4

LEMMA ServerInvariants ==
    ASSUME IInv, [Next]_vars
    PROVE  RecordInv' /\ VisitedOnlyIfPresent' /\ TicksBeforeEvaluation' /\ WeeksInOrder'
<1>1. TypeOK
  BY DEF IInv
<1>2. CASE setting' = setting /\ week' = week /\ messages' = messages
  BY <1>2 DEF IInv, RecordInv, HasAdvisor, VisitedOnlyIfPresent, TicksBeforeEvaluation,
              WeeksInOrder
<1>3. ASSUME NEW a \in setting.actors, Running(a),
             Request(a, Head(job[a].calls), job[a].week, job[a].ticks)
      PROVE  RecordInv' /\ VisitedOnlyIfPresent' /\ TicksBeforeEvaluation' /\ WeeksInOrder'
  <2> DEFINE w == job[a].week
             ticks == job[a].ticks
  <2>1. a \in Roles /\ w \in Weeks /\ ticks \in SUBSET Ticks /\ setting' = setting
    BY <1>1, <1>3, SettingFields, JobFields DEF Request
  <2>2. CASE Head(job[a].calls) = "message" /\ PostMessage(w, a, ticks)
    BY <1>3, <2>1, <2>2, MessageStep
  <2>3. CASE Head(job[a].calls) = "score" /\ Score(w, ticks)
    BY <1>3, <2>1, <2>3, ScoreStep
  <2>4. CASE MentorPresent(w)
    BY <1>1, <2>1, <2>4, PresentEffect, OtherRequestStep
  <2>5. CASE Head(job[a].calls) \in Ticks /\ Approve(w, Head(job[a].calls))
    BY <1>1, <2>1, <2>5, ApproveEffect, OtherRequestStep
  <2>6. QED
    BY <1>3, <2>2, <2>3, <2>4, <2>5 DEF Request
<1>4. QED
  BY <1>1, <1>2, <1>3, ServerStep
-----------------------------------------------------------------------------
(* The greatest element of a finite set of weeks.                            *)
(***************************************************************************)
Less == {ss \in Nat \X Nat : ss[1] < ss[2]}

LEMMA LessWellFounded == IsWellFoundedOn(Less, Nat)
<1>1. OpToRel(<, Nat) = Less
  BY Zenon DEF OpToRel, Less
<1>2. QED
  BY <1>1, NatLessThanWellFounded, Zenon

LEMMA LeastExists ==
    ASSUME NEW S, S \subseteq Nat, S # {}
    PROVE  \E x \in S : \A y \in S : x <= y
<1>1. PICK x \in S : \A y \in S : ~ (<<y, x>> \in Less)
  BY LessWellFounded, WFMin
<1>2. \A a, b \in Nat : a < b => <<a, b>> \in Less
  BY Zenon DEF Less
<1>3. \A y \in S : ~(y < x)
  BY <1>1, <1>2
<1>4. QED
  BY <1>3

LEMMA GreatestExists ==
    ASSUME NEW n \in Nat, NEW S, S \subseteq 0..n, S # {}
    PROVE  \E x \in S : \A y \in S : x >= y
<1> DEFINE U == {y \in 0..n : n - y \in S}
<1>1. PICK t \in S : TRUE
  OBVIOUS
<1>2. n - t \in U
  BY <1>1
<1>3. U \subseteq Nat /\ U # {}
  BY <1>2
<1>4. PICK u \in U : \A v \in U : u <= v
  BY <1>3, LeastExists
<1>5. \A y \in S : n - y \in U
  OBVIOUS
<1>6. QED
  BY <1>4, <1>5

(* A week that is not locked has every earlier report. *)
LEMMA NotLocked ==
    ASSUME RecordInv, WeeksInOrder, NEW w \in Weeks, ~Locked(w)
    PROVE  EarlierIn(w)
<1> DEFINE S == {v \in Weeks \ setting.archived : v < w}
<1>1. SUFFICES ASSUME NEW v \in S
               PROVE  week[v].studentStatus
  BY DEF EarlierIn
<1>2. S \subseteq 0..NumWeeks /\ S # {} /\ NumWeeks \in Nat
  BY <1>1, ConstantsAssumption DEF Weeks
<1>3. PICK p \in S : \A q \in S : p >= q
  BY <1>2, GreatestExists
<1>4. Submitted(p)
  <2>1. \A q \in Weeks \ setting.archived : q < w => q <= p
    BY <1>3 DEF Weeks
  <2>2. QED
    BY <1>3, <2>1 DEF Locked
<1>5. week[p].studentStatus
  BY <1>3, <1>4 DEF Submitted, RecordInv
<1>6. v = p \/ v < p
  BY <1>1, <1>3 DEF Weeks
<1>7. QED
  BY <1>1, <1>3, <1>5, <1>6 DEF WeeksInOrder

LEMMA CardShows ==
    ASSUME RecordInv, WeeksInOrder, NEW a \in Roles, NEW w \in Weeks, NEW read \in BOOLEAN
    PROVE  /\ a # "student" /\ CardOf(a, w, read).status # "draft" => week[w].studentStatus
           /\ a = "student" /\ CardOf(a, w, read).status \in {"draft", "needs_edit"}
                => HandInable(w)
<1> DEFINE own == MapWeekStatus(w, read /\ Superseded(w))
<1>1. /\ a # "student" => CardOf(a, w, read).status = own
      /\ a = "student" /\ CardOf(a, w, read).status \in {"draft", "needs_edit"}
           => /\ w \notin setting.archived
              /\ own = "draft" => ~Locked(w)
              /\ CardOf(a, w, read).status = own
  BY DEF CardOf
<1>2. own # "draft" => week[w].studentStatus
  BY DEF MapWeekStatus, RecordInv
<1>3. week[w].studentStatus /\ w \notin setting.archived => EarlierIn(w)
  BY DEF WeeksInOrder, EarlierIn
<1> HIDE DEF own
<1>4. QED
  BY <1>1, <1>2, <1>3, NotLocked DEF HandInable

LEMMA CardStep ==
    ASSUME IInv, [Next]_vars
    PROVE  CardInv'
<1>1. TypeOK /\ Grows /\ CardInv
  BY GrowsStep DEF IInv
<1>2. ASSUME view' = view PROVE CardInv'
  BY <1>1, <1>2, HandInableKept DEF CardInv, Grows
<1>3. ASSUME NEW a \in Roles, Load(a) PROVE CardInv'
  <2>1. PICK read \in BOOLEAN : view' = [view EXCEPT ![a] = Cards(a, read)]
    BY <1>3 DEF Load
  <2>2. /\ \A w \in Weeks : view'[a][w] = CardOf(a, w, read)
        /\ \A b \in Roles : b # a => view'[b] = view[b]
    BY <1>1, <2>1 DEF Cards, TypeOK
  <2>3. \A b \in Roles, w \in Weeks :
          /\ b # "student" /\ view'[b][w].status # "draft" => week[w].studentStatus
          /\ b = "student" /\ view'[b][w].status \in {"draft", "needs_edit"} => HandInable(w)
    BY <1>1, <2>2, CardShows DEF CardInv, IInv
  <2>4. QED
    BY <1>1, <2>3, HandInableKept DEF CardInv, Grows, Roles
<1>4. ASSUME NEW a \in Roles, Step(a) PROVE CardInv'
  <2>1. CASE a # "student"
    BY <1>2, <1>4, <2>1 DEF Step
  <2>2. CASE a = "student"
    <3>1. HandInable(job[a].week) /\ job[a].week \in Weeks
      BY <1>1, <1>4, <2>2, JobFields DEF IInv, JobInv, Step
    <3>2. \A b \in Roles, w \in Weeks :
            <<b, w>> # <<a, job[a].week>> => view'[b][w] = view[b][w]
      BY <1>1, <1>4, <2>2, ViewOfStep
    <3>3. QED
      BY <1>1, <2>2, <3>1, <3>2, HandInableKept DEF CardInv, Grows, Roles
  <2>3. QED
    BY <2>1, <2>2
<1>5. QED
  BY <1>1, <1>2, <1>3, <1>4, SettingFields
     DEF Next, vars, Review, Fail, Edit, Close, Write, Cancel

LEMMA DialogStep ==
    ASSUME IInv, [Next]_vars
    PROVE  DialogInv'
<1>1. TypeOK /\ Grows /\ DialogInv /\ CardInv
  BY GrowsStep DEF IInv
<1>2. ASSUME editing' \in {0, editing} PROVE DialogInv'
  BY <1>1, <1>2, HandInableKept DEF DialogInv
<1>3. ASSUME NEW w \in Weeks, Edit(w) PROVE DialogInv'
  <2>1. HandInable(w) /\ editing' = w
    BY <1>1, <1>3 DEF Edit, CardInv
  <2>2. QED
    BY <1>1, <2>1, HandInableKept DEF DialogInv
<1>4. ASSUME NEW a \in Roles, Fail(a) PROVE DialogInv'
  <2>1. CASE a = "student"
    <3>1. HandInable(job[a].week) /\ editing' = job[a].week
      BY <1>4, <2>1 DEF Fail, IInv, JobInv
    <3>2. QED
      BY <1>1, <3>1, HandInableKept DEF DialogInv
  <2>2. CASE a # "student"
    BY <1>2, <1>4, <2>2 DEF Fail
  <2>3. QED
    BY <2>1, <2>2
<1>5. QED
  BY <1>1, <1>2, <1>3, <1>4, SettingFields
     DEF Next, vars, Load, Review, Step, Close, Write, Cancel

(* HandInable of the next state, of a week of this one. *)
InableNext(w) ==
    /\ w \notin setting'.archived
    /\ \A v \in Weeks \ setting'.archived : v < w => week'[v].studentStatus

LEMMA InableNextKept ==
    ASSUME Grows, NEW w, HandInable(w)
    PROVE  InableNext(w)
BY DEF Grows, HandInable, EarlierIn, InableNext

(* A save under way after a step: one that was there, one that starts, or none. *)
LEMMA JobChanges ==
    ASSUME TypeOK, [Next]_vars, NEW a \in Roles
    PROVE  \/ job'[a] = job[a]
           \/ job'[a] = Idle
           \/ Step(a) /\ job'[a] = Rest(a)
           \/ \E kind \in {"draft", "submit"} :
                /\ a = "student" /\ Write(kind)
                /\ job'[a] = [kind |-> kind, week |-> editing, ticks |-> {},
                              calls |-> <<"message">>]
           \/ \E w \in Weeks, ticks \in SUBSET Ticks :
                \E calls \in Saves(a, view[a][w], ticks) :
                  /\ Review(a, w, ticks)
                  /\ job'[a] = [kind |-> "review", week |-> w, ticks |-> ticks,
                                calls |-> calls]
<1>1. CASE job' = job
  BY <1>1
<1>2. ASSUME NEW b \in Roles, NEW w \in Weeks, NEW ticks \in SUBSET Ticks, Review(b, w, ticks)
      PROVE  \/ job'[a] = job[a]
             \/ /\ a = b
                /\ \E calls \in Saves(b, view[b][w], ticks) :
                     job'[b] = [kind |-> "review", week |-> w, ticks |-> ticks,
                                calls |-> calls]
  BY <1>2 DEF Review, TypeOK
<1>3. ASSUME NEW b \in Roles, Step(b)
      PROVE  \/ job'[a] = job[a]
             \/ a = b /\ job'[b] = Rest(b)
  BY <1>3 DEF Step, TypeOK
<1>4. ASSUME NEW b \in Roles, Fail(b)
      PROVE  job'[a] = job[a] \/ job'[a] = Idle
  BY <1>4 DEF Fail, TypeOK
<1>5. ASSUME NEW kind \in {"draft", "submit"}, Write(kind)
      PROVE  \/ job'[a] = job[a]
             \/ /\ a = "student"
                /\ job'[a] = [kind |-> kind, week |-> editing, ticks |-> {},
                              calls |-> <<"message">>]
  BY <1>5 DEF Write, TypeOK
<1>6. QED
  BY <1>1, <1>2, <1>3, <1>4, <1>5, SettingFields
     DEF Next, vars, Load, Edit, Close, Cancel

LEMMA JobStep ==
    ASSUME IInv, [Next]_vars
    PROVE  JobInv' /\ PlanInv'
<1>1. TypeOK /\ Grows /\ JobInv /\ PlanInv
  BY GrowsStep DEF IInv
<1> DEFINE Fine(a) ==
      /\ job'[a].calls # <<>> => IF a = "student" THEN InableNext(job'[a].week)
                                 ELSE week'[job'[a].week].studentStatus
      /\ Plan(a, job'[a].ticks, job'[a].calls, week'[job'[a].week])
<1>2. SUFFICES ASSUME NEW a \in Roles PROVE Fine(a)
  BY DEF JobInv, PlanInv, Running, InableNext, HandInable, EarlierIn
<1>3. CASE job'[a] = job[a]
  <2>1. job[a].week \in Weeks
    BY <1>1, JobFields
  <2>2. Plan(a, job[a].ticks, job[a].calls, week'[job[a].week])
    BY <1>1, <2>1, PlanKept DEF PlanInv, Grows
  <2>3. QED
    BY <1>1, <1>3, <2>1, <2>2, InableNextKept DEF JobInv, Running, Grows
<1>4. CASE job'[a] = Idle
  BY <1>4, IdleType DEF Plan
<1>5. CASE Step(a) /\ job'[a] = Rest(a)
  <2>1. /\ Running(a) /\ job[a].week \in Weeks /\ job[a].ticks \in SUBSET Ticks
        /\ Request(a, Head(job[a].calls), job[a].week, job[a].ticks)
    BY <1>1, <1>5, JobFields DEF Step
  <2>2. CASE Len(job[a].calls) = 1
    BY <1>4, <1>5, <2>2 DEF Rest
  <2>3. CASE Len(job[a].calls) # 1
    <3>1. /\ job'[a].week = job[a].week /\ job'[a].ticks = job[a].ticks
          /\ job'[a].calls = Tail(job[a].calls)
      BY <1>5, <2>3 DEF Rest
    <3>2. Plan(a, job[a].ticks, Tail(job[a].calls), week'[job[a].week])
      BY <1>1, <2>1, <2>3, PlanStep DEF PlanInv, Running
    <3>3. QED
      BY <1>1, <2>1, <3>1, <3>2, InableNextKept DEF JobInv, Grows
  <2>4. QED
    BY <2>2, <2>3
<1>6. ASSUME NEW kind \in {"draft", "submit"}, a = "student", Write(kind),
             job'[a] = [kind |-> kind, week |-> editing, ticks |-> {}, calls |-> <<"message">>]
      PROVE  Fine(a)
  <2>1. HandInable(editing)
    BY <1>6 DEF Write, IInv, DialogInv
  <2>2. InableNext(editing)
    BY <1>1, <2>1, InableNextKept
  <2>3. QED
    BY <1>6, <2>2 DEF Plan
<1>7. ASSUME NEW w \in Weeks, NEW ticks \in SUBSET Ticks,
             NEW calls \in Saves(a, view[a][w], ticks), Review(a, w, ticks),
             job'[a] = [kind |-> "review", week |-> w, ticks |-> ticks, calls |-> calls]
      PROVE  Fine(a)
  <2>1. a # "student" /\ view[a][w].status # "draft"
    BY <1>7 DEF Review, MayGrade
  <2>2. week'[w].studentStatus
    BY <1>1, <2>1 DEF IInv, CardInv, Grows
  <2>3. Plan(a, ticks, calls, week'[w])
    BY <1>7, <2>1, SavesPlan
  <2>4. QED
    BY <1>7, <2>1, <2>2, <2>3
<1>8. QED
  BY <1>1, <1>3, <1>4, <1>5, <1>6, <1>7, JobChanges

LEMMA InitInvariant == Init => IInv
<1> SUFFICES ASSUME Init PROVE IInv
  OBVIOUS
<1>1. \A w \in Weeks :
        /\ week[w].status = "pending" /\ ~week[w].studentStatus
        /\ week[w].mentorStatus = "none" /\ ~week[w].teacherStatus
        /\ ~week[w].schoolVisited /\ messages[w] = <<>>
  BY DEF Init
<1>2. week \in [Weeks -> Week] /\ messages \in [Weeks -> Seq(Message)]
  BY DEF Init, Week, Ticks
<1>3. job \in [Roles -> Job] /\ \A a \in Roles : job[a] = Idle
  BY IdleType DEF Init
<1>4. \A a \in Roles, w \in Weeks : view[a][w] = CardOf(a, w, TRUE)
  BY DEF Init, Cards
<1>5. view \in [Roles -> [Weeks -> Card]]
  BY CardType DEF Init, Cards
<1>6. TypeOK
  <2>1. setting \in Settings /\ cancelled \in BOOLEAN /\ editing = 0
    BY DEF Init
  <2>2. 0 \in 0..NumWeeks
    BY ConstantsAssumption
  <2>3. QED
    BY <1>2, <1>3, <1>5, <2>1, <2>2 DEF TypeOK
<1>7. RecordInv /\ WeeksInOrder /\ VisitedOnlyIfPresent
  BY <1>1 DEF RecordInv, WeeksInOrder, VisitedOnlyIfPresent
<1>8. TicksBeforeEvaluation
  BY <1>1 DEF TicksBeforeEvaluation
<1>9. CardInv
  BY <1>4, <1>7, CardShows DEF CardInv, Roles
<1>10. DialogInv
  BY DEF Init, DialogInv
<1>11. JobInv /\ PlanInv
  BY <1>3, IdleType DEF JobInv, PlanInv, Running, Plan
<1>12. QED
  BY <1>6, <1>7, <1>8, <1>9, <1>10, <1>11 DEF IInv

THEOREM WeeklyInvariant == Spec => []IInv
<1>1. IInv /\ [Next]_vars => IInv'
  <2> SUFFICES ASSUME IInv, [Next]_vars PROVE IInv'
    OBVIOUS
  <2>1. TypeOK'
    BY TypeStep DEF IInv
  <2>2. QED
    BY <2>1, ServerInvariants, CardStep, DialogStep, JobStep DEF IInv
<1>2. QED
  BY InitInvariant, <1>1, PTL DEF Spec

(* Every variable keeps its type. *)
THEOREM WeeklyTypeCorrect == Spec => []TypeOK
BY WeeklyInvariant, PTL DEF IInv

(* A visit counted with a score has its presence on the server. *)
THEOREM VisitsArePresences == Spec => []VisitedOnlyIfPresent
BY WeeklyInvariant, PTL DEF IInv

(* The principal's evaluation comes after the approvals ticked with it. *)
THEOREM ApprovalsComeFirst == Spec => []TicksBeforeEvaluation
BY WeeklyInvariant, PTL DEF IInv

(* Reports come in the order of their weeks, whatever the student's cards showed. *)
THEOREM ReportsInOrder == Spec => []WeeksInOrder
BY WeeklyInvariant, PTL DEF IInv
-----------------------------------------------------------------------------
(***************************************************************************)
(* The review protocol.                                                     *)
(***************************************************************************)
LEMMA PhaseIs ==
    ASSUME NEW w
    PROVE  Phase(w) = IF week[w].status = "completed" THEN "graded"
                      ELSE IF week[w].mentorStatus = "send" /\ ~Superseded(w) THEN "returned"
                      ELSE IF week[w].studentStatus THEN "submitted" ELSE "none"
<1> DEFINE sup == Superseded(w)
           status == MapWeekStatus(w, sup)
<1> HIDE DEF sup
<1>1. CASE week[w].status = "completed"
  <2>1. status = "graded"
    BY <1>1 DEF MapWeekStatus
  <2>2. QED
    BY <1>1, <2>1 DEF Phase, sup
<1>2. CASE week[w].status # "completed" /\ week[w].mentorStatus = "send" /\ ~sup
  <2>1. status = "needs_edit"
    BY <1>2 DEF MapWeekStatus
  <2>2. QED
    BY <1>2, <2>1 DEF Phase, sup
<1>3. CASE week[w].status # "completed" /\ ~(week[w].mentorStatus = "send" /\ ~sup)
  <2>1. status \in {"approved", "pending", "draft"}
    BY <1>3 DEF MapWeekStatus
  <2>2. Phase(w) = IF week[w].studentStatus THEN "submitted" ELSE "none"
    BY <2>1 DEF Phase, sup
  <2>3. QED
    BY <1>3, <2>2 DEF sup
<1>4. QED
  BY <1>1, <1>2, <1>3

LEMMA PhaseNextIs ==
    ASSUME NEW w
    PROVE  Phase(w)' = IF week'[w].status = "completed" THEN "graded"
                       ELSE IF week'[w].mentorStatus = "send" /\ ~Superseded(w)' THEN "returned"
                       ELSE IF week'[w].studentStatus THEN "submitted" ELSE "none"
<1> DEFINE Is == Phase(w) = IF week[w].status = "completed" THEN "graded"
                      ELSE IF week[w].mentorStatus = "send" /\ ~Superseded(w) THEN "returned"
                      ELSE IF week[w].studentStatus THEN "submitted" ELSE "none"
<1>1. Is
  BY PhaseIs
<1>2. Is'
  BY <1>1, PTL
<1>3. QED
  BY <1>2

LEMMA PhaseSame ==
    ASSUME NEW w, week'[w].status = week[w].status,
           week'[w].studentStatus = week[w].studentStatus,
           week'[w].mentorStatus = week[w].mentorStatus,
           Superseded(w)' = Superseded(w)
    PROVE  Phase(w)' = Phase(w)
BY PhaseIs, PhaseNextIs

LEMMA SupersededAfter ==
    ASSUME TypeOK, NEW w \in Weeks, NEW m \in Message, messages'[w] = Append(messages[w], m)
    PROVE  /\ m.role = "student" /\ HasAdvisor(w) => Superseded(w)'
           /\ m.role = "advisor" => ~Superseded(w)'
           /\ m.role \in {"mentor", "principal"} => (Superseded(w)' <=> Superseded(w))
<1> DEFINE n == Len(messages[w])
<1>1. /\ n \in Nat
      /\ DOMAIN messages[w] = 1..n
      /\ DOMAIN messages'[w] = 1..(n + 1)
      /\ \A i \in 1..n : messages'[w][i] = messages[w][i]
      /\ messages'[w][n + 1] = m
  BY AppendedMessage
<1> HIDE DEF n
<1>2. ASSUME m.role = "student", HasAdvisor(w) PROVE Superseded(w)'
  <2>1. HasAdvisor(w)'
    BY <1>1, <1>2 DEF HasAdvisor
  <2>2. \A j \in DOMAIN messages'[w] : messages'[w][j].role = "advisor" => j < n + 1
    <3>1. \A j \in DOMAIN messages'[w] : j = n + 1 \/ j < n + 1
      BY <1>1
    <3>2. messages'[w][n + 1].role # "advisor"
      BY <1>1, <1>2
    <3>3. QED
      BY <3>1, <3>2
  <2>3. n + 1 \in DOMAIN messages'[w] /\ messages'[w][n + 1].role = "student"
    BY <1>1, <1>2
  <2>4. QED
    BY <2>1, <2>2, <2>3 DEF Superseded, HasAdvisor
<1>3. ASSUME m.role = "advisor" PROVE ~Superseded(w)'
  BY <1>1, <1>3 DEF Superseded
<1>4. ASSUME m.role \in {"mentor", "principal"} PROVE Superseded(w)' <=> Superseded(w)
  <2>1. messages'[w][n + 1].role \notin {"student", "advisor"}
    BY <1>1, <1>4
  <2>2. DOMAIN messages'[w] = DOMAIN messages[w] \cup {n + 1}
    BY <1>1
  <2>3. \A i \in DOMAIN messages[w] : messages'[w][i] = messages[w][i]
    BY <1>1
  <2>4. QED
    BY <2>1, <2>2, <2>3 DEF Superseded
<1>5. QED
  BY <1>2, <1>3, <1>4

(* A move of one week that the protocol allows. *)
Move(w) ==
    \/ Phase(w)' = Phase(w)
    \/ Phase(w) # "graded" /\ Phase(w)' = "submitted"
    \/ Phase(w) = "submitted" /\ Phase(w)' = "returned"
    \/ Phase(w) \in {"submitted", "returned"} /\ Phase(w)' = "graded"

LEMMA MessageMoves ==
    ASSUME IInv, NEW a \in Roles, Running(a), NEW w \in Weeks, w = job[a].week,
           NEW ticks \in SUBSET Ticks, PostMessage(w, a, ticks)
    PROVE  Move(w)
<1>1. TypeOK
  BY DEF IInv
<1> DEFINE m == [role |-> a, ticks |-> ticks]
<1>2. /\ messages'[w] = Append(messages[w], m)
      /\ m \in Message /\ m.role = a
  BY <1>1, MessageEffect DEF Message
<1> HIDE DEF m
<1>3. PICK clears \in BOOLEAN : week'[w] = ApplyWeekState(w, a, clears)
  BY <1>1, MessageEffect
<1>4. CASE week[w].status = "completed"
  <2>1. week'[w].status = "completed"
    BY <1>1, <1>3, <1>4, AppliedState
  <2>2. QED
    BY <1>4, <2>1, PhaseIs, PhaseNextIs DEF Move
<1>5. CASE week[w].status # "completed" /\ a = "student"
  <2>1. /\ week'[w].status # "completed"
        /\ week'[w].studentStatus
        /\ week'[w].mentorStatus = "send" => week[w].mentorStatus = "send"
    BY <1>1, <1>3, <1>5, AppliedState
  <2>2. week[w].mentorStatus = "send" => HasAdvisor(w)
    BY DEF IInv, RecordInv
  <2>3. week'[w].mentorStatus = "send" => Superseded(w)'
    BY <1>1, <1>2, <1>5, <2>1, <2>2, SupersededAfter
  <2>4. Phase(w)' = "submitted" /\ Phase(w) # "graded"
    BY <1>5, <2>1, <2>3, PhaseIs, PhaseNextIs
  <2>5. QED
    BY <2>4 DEF Move
<1>6. CASE week[w].status # "completed" /\ a = "advisor"
  <2>1. week'[w].status # "completed" /\ week'[w].mentorStatus = "send"
    BY <1>1, <1>3, <1>6, AppliedState
  <2>2. ~Superseded(w)'
    BY <1>1, <1>2, <1>6, SupersededAfter
  <2>3. week[w].studentStatus
    BY <1>6 DEF IInv, JobInv
  <2>4. Phase(w)' = "returned" /\ Phase(w) \in {"submitted", "returned"}
    BY <1>6, <2>1, <2>2, <2>3, PhaseIs, PhaseNextIs
  <2>5. QED
    BY <2>4 DEF Move
<1>7. CASE week[w].status # "completed" /\ a \in {"mentor", "principal"}
  <2>1. /\ week'[w].status # "completed"
        /\ week'[w].mentorStatus = week[w].mentorStatus
        /\ week[w].studentStatus /\ week'[w].studentStatus
    BY <1>1, <1>3, <1>7, AppliedState DEF IInv, JobInv
  <2>2. Superseded(w)' <=> Superseded(w)
    BY <1>1, <1>2, <1>7, SupersededAfter
  <2>3. Phase(w)' = Phase(w)
    BY <1>7, <2>1, <2>2, PhaseIs, PhaseNextIs
  <2>4. QED
    BY <2>3 DEF Move
<1>8. QED
  BY <1>4, <1>5, <1>6, <1>7 DEF Roles

LEMMA ScoreMoves ==
    ASSUME IInv, NEW a \in Roles, Running(a), NEW w \in Weeks, w = job[a].week,
           NEW ticks \in SUBSET Ticks, Head(job[a].calls) = "score", Score(w, ticks)
    PROVE  Move(w)
<1>1. a = "advisor"
  BY Literals DEF IInv, PlanInv, Plan, Running
<1>2. week[w].studentStatus /\ TypeOK
  BY <1>1 DEF IInv, JobInv
<1>3. week'[w].status = "completed"
  BY <1>2, ScoreEffect
<1>4. Phase(w)' = "graded" /\ Phase(w) \in {"submitted", "returned", "graded"}
  BY <1>2, <1>3, PhaseIs, PhaseNextIs
<1>5. QED
  BY <1>4 DEF Move

LEMMA SupersededSame ==
    ASSUME NEW w, messages'[w] = messages[w]
    PROVE  Superseded(w)' = Superseded(w)
BY DEF Superseded

LEMMA StepMoves ==
    ASSUME IInv, [Next]_vars
    PROVE  \/ \A w \in Weeks : Phase(w)' = Phase(w)
           \/ \E w \in Weeks : Move(w) /\ \A v \in Weeks \ {w} : Phase(v)' = Phase(v)
<1>1. TypeOK
  BY DEF IInv
<1>2. CASE setting' = setting /\ week' = week /\ messages' = messages
  BY <1>2, PhaseSame, SupersededSame
<1>3. ASSUME NEW a \in setting.actors, Running(a),
             Request(a, Head(job[a].calls), job[a].week, job[a].ticks)
      PROVE  \E w \in Weeks : Move(w) /\ \A v \in Weeks \ {w} : Phase(v)' = Phase(v)
  <2> DEFINE w == job[a].week
             ticks == job[a].ticks
  <2>1. a \in Roles /\ w \in Weeks /\ ticks \in SUBSET Ticks /\ Keeps(w)
    BY <1>1, <1>3, SettingFields, JobFields, RequestOfJob
  <2>2. \A v \in Weeks \ {w} : Phase(v)' = Phase(v)
    BY <2>1, PhaseSame, SupersededSame DEF Keeps
  <2>3. SUFFICES ASSUME NEW u \in Weeks, u = w PROVE Move(u)
    BY <2>1, <2>2
  <2>4. CASE Head(job[a].calls) = "message" /\ PostMessage(u, a, ticks)
    BY <1>3, <2>1, <2>3, <2>4, MessageMoves
  <2>5. CASE Head(job[a].calls) = "score" /\ Score(u, ticks)
    BY <1>3, <2>1, <2>3, <2>5, ScoreMoves
  <2>6. ASSUME messages' = messages, SameReview(u) PROVE Move(u)
    BY <2>6, PhaseSame, SupersededSame DEF SameReview, Move
  <2>7. CASE MentorPresent(u)
    BY <1>1, <2>6, <2>7, PresentEffect
  <2>8. CASE Head(job[a].calls) \in Ticks /\ Approve(u, Head(job[a].calls))
    BY <1>1, <2>6, <2>8, ApproveEffect
  <2>9. QED
    BY <1>3, <2>3, <2>4, <2>5, <2>7, <2>8 DEF Request
<1>4. QED
  BY <1>1, <1>2, <1>3, ServerStep

(* The protocol's phase of every week. *)
PhaseMap == [w \in Weeks |-> Phase(w)]

LEMMA StepImplements ==
    ASSUME IInv, [Next]_vars
    PROVE  Protocol!Next \/ PhaseMap' = PhaseMap
<1>1. CASE \A w \in Weeks : Phase(w)' = Phase(w)
  BY <1>1 DEF PhaseMap
<1>2. ASSUME NEW w \in Weeks, Move(w), \A v \in Weeks \ {w} : Phase(v)' = Phase(v)
      PROVE  Protocol!Next \/ PhaseMap' = PhaseMap
  <2>1. /\ PhaseMap = [v \in Weeks |-> Phase(v)]
        /\ PhaseMap' = [v \in Weeks |-> Phase(v)']
    BY DEF PhaseMap
  <2>2. PhaseMap' = [PhaseMap EXCEPT ![w] = Phase(w)']
    BY <1>2, <2>1
  <2>3. PhaseMap[w] = Phase(w)
    BY <2>1
  <2>4. CASE Phase(w)' = Phase(w)
    BY <2>2, <2>3, <2>4, <2>1
  <2>5. CASE Phase(w) # "graded" /\ Phase(w)' = "submitted"
    <3>1. Protocol!Submit(w)
      BY <2>2, <2>3, <2>5 DEF Protocol!Submit, PhaseMap
    <3>2. QED
      BY <3>1 DEF Protocol!Next
  <2>6. CASE Phase(w) = "submitted" /\ Phase(w)' = "returned"
    <3>1. Protocol!Return(w)
      BY <2>2, <2>3, <2>6 DEF Protocol!Return, PhaseMap
    <3>2. QED
      BY <3>1 DEF Protocol!Next
  <2>7. CASE Phase(w) \in {"submitted", "returned"} /\ Phase(w)' = "graded"
    <3>1. Protocol!Grade(w)
      BY <2>2, <2>3, <2>7 DEF Protocol!Grade, PhaseMap
    <3>2. QED
      BY <3>1 DEF Protocol!Next
  <2>8. QED
    BY <1>2, <2>4, <2>5, <2>6, <2>7 DEF Move
<1>3. QED
  BY <1>1, <1>2, StepMoves

LEMMA InitImplements == Init => Protocol!Init
<1> SUFFICES ASSUME Init PROVE Protocol!Init
  OBVIOUS
<1>1. \A w \in Weeks : Phase(w) = "none"
  BY PhaseIs DEF Init
<1>2. QED
  BY <1>1 DEF Protocol!Init

(* The reports implement the review protocol: the refinement the run checks on three
   weeks, for every number of weeks and every setting. *)
THEOREM WeeklyImplementsReviewProtocol == Spec => ImplementsReviewProtocol
<1>1. IInv /\ [Next]_vars => [Protocol!Next]_PhaseMap
  BY StepImplements
<1>2. IInv /\ [Next]_vars => [Protocol!Next]_([w \in Weeks |-> Phase(w)])
  BY <1>1 DEF PhaseMap
<1>3. QED
  BY InitImplements, WeeklyInvariant, <1>2, PTL
     DEF Spec, ImplementsReviewProtocol, Protocol!Spec

(* A grade is final: no later message, resubmission, rejection, approval or repeated
   request of anybody, however old the card it was sent from, takes it back. *)
THEOREM GradeIsFinal ==
    Spec => [][\A w \in Weeks : Phase(w) = "graded" => Phase(w)' = "graded"]_vars
<1>1. IInv /\ [Next]_vars => [\A w \in Weeks : Phase(w) = "graded" => Phase(w)' = "graded"]_vars
  BY StepMoves DEF Move
<1>2. QED
  BY <1>1, WeeklyInvariant, PTL DEF Spec
=============================================================================

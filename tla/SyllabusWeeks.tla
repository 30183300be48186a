---------------------------- MODULE SyllabusWeeks ----------------------------
(***************************************************************************)
(* The week editor of a term's lessons: the administrator's table, the       *)
(* requests that fill it and the save that sends it to Nest, which keeps the *)
(* weeks of all lessons in one collection.  Weeks are read with GET, a       *)
(* lesson without weeks is published with one PUT, and a lesson that has     *)
(* some is changed with a PATCH or a POST per week.  Requests fail, lose     *)
(* their answer, and are answered out of order.  A table with unsaved changes *)
(* is kept in the browser as a draft, which the page offers to restore.      *)
(***************************************************************************)
EXTENDS Integers, Sequences, FiniteSets

CONSTANTS
    Lesson,      \* the lessons of the selected term
    Nowhere,     \* no lesson
    Weight,      \* the weights in use; Nest calls them priority
    Slot,        \* getWeeks calls at a time
    Settings,    \* administrators, with the bounds on what they do
    MaxRow,      \* bound: weeks Nest ever stores
    MaxLen,      \* bound: weeks the table can grow to
    MaxFault     \* bound: requests that fail or lose their answer

DefaultWeight == 3

ASSUME ConstantsAssumption ==
    /\ Nowhere \notin Lesson
    /\ Weight \subseteq 1..5 /\ DefaultWeight \in Weight
    /\ Settings \subseteq [careful : BOOLEAN, drafts : BOOLEAN, edits : Nat, calls : Nat]
    /\ MaxRow \in Nat /\ MaxLen \in Nat /\ MaxFault \in Nat

Local == 0                    \* the id of a week that Nest does not know
Row == 1..MaxRow              \* ids in the order in which Nest gives them
Place == Lesson \cup {Nowhere}
Stored == [lesson : Place, weight : Weight, active : BOOLEAN]
Week == [id : Row \cup {Local}, weight : Weight, active : BOOLEAN]
Draft == [weeks : Seq(Week), own : BOOLEAN]
Offer == [of : Place, weeks : Seq(Week), own : BOOLEAN]
Call == [ph : {"idle", "sent", "served"}, lesson : Place, weeks : Seq(Week),
         clears : Place]                  \* the lesson whose draft its answer clears
Save == [ph : {"idle", "read", "put", "write", "reload"},
         lesson : Place, weeks : Seq(Week),
         row : Seq(Row \cup {Local}),     \* which row a week of the save goes to
         left : SUBSET Nat,               \* the weeks still to be sent
         again : BOOLEAN]                 \* the PUT is under way a second time

VARIABLES
    setting,    \* is the administrator careful?  Does the browser keep drafts?  The bounds
    rows,       \* Nest: the stored weeks
    next,       \* Nest: the next id
    lesson, weeks, isWeeksPublished, hasUnsavedChanges,   \* the page
    undo,       \* the table before the last delete, if its toast is open
    draft,      \* local storage: per lesson, the table kept, of its own weeks or not
    offer,      \* the draft last offered; without weeks once the toast is gone
    arrived,    \* the table holds weeks of the lesson chosen: what the user can see
    edits,      \* changes of the table so far
    calls,      \* getWeeks under way
    save,       \* the save under way
    faults

nest == <<rows, next>>
table == <<weeks, isWeeksPublished, hasUnsavedChanges>>
kept == <<draft, offer>>
vars == <<setting, nest, lesson, table, undo, kept, arrived, edits, calls, save, faults>>

NoDraft == [weeks |-> <<>>, own |-> FALSE]
NoOffer == [of |-> Nowhere, weeks |-> <<>>, own |-> FALSE]
IdleCall == [ph |-> "idle", lesson |-> Nowhere, weeks |-> <<>>, clears |-> Nowhere]
IdleSave == [ph |-> "idle", lesson |-> Nowhere, weeks |-> <<>>,
             row |-> <<>>, left |-> {}, again |-> FALSE]
Saving == save.ph # "idle"
Quiet == \A s \in Slot : calls[s].ph = "idle"
Calm == setting.careful => arrived /\ Quiet

(* A change of the table, while it may be touched. *)
Change == Calm /\ edits < setting.edits /\ edits' = edits + 1

Fault == faults < MaxFault /\ faults' = faults + 1
-----------------------------------------------------------------------------
(* Nest and what the client reads from it. *)

(* Mutant: the list is not of the lesson alone. *)
RowsOfTerm(l) == {i \in Row : rows[i].lesson # Nowhere}

RowsOf(l) == {i \in Row : rows[i].lesson = l}

(* parseNestLessonWeekList: a stable sort by weight. *)
Before(i, j) == \/ rows[i].weight < rows[j].weight
                \/ rows[i].weight = rows[j].weight /\ i < j

(* The list of a lesson: the only element of this set. *)
Listings(l) ==
    {s \in [1..Cardinality(RowsOf(l)) -> RowsOf(l)] :
        \A a, b \in DOMAIN s : a < b => Before(s[a], s[b])}

(* getRealWeeksForLesson. *)
Shown(s) == [k \in DOMAIN s |->
    [id |-> s[k], weight |-> rows[s[k]].weight, active |-> rows[s[k]].active]]

Content(l, w) == [lesson |-> l, weight |-> w.weight, active |-> w.active]

(* Mutant: a row is taken by its index even when an earlier week goes to it. *)
GoesToByIndexOnly(k, ws, s, r) ==
    IF ws[k].id \in Row /\ rows[ws[k].id].lesson = save.lesson THEN ws[k].id
    ELSE IF k \in DOMAIN s THEN s[k]
    ELSE ws[k].id

(* planNestWeekWrites, the row for the k-th week of the editor: the row with its
   id, else the row at its index unless an earlier week took it, else the row of
   another lesson whose id it carries, else none (a POST). *)
GoesTo(k, ws, s, r) ==
    IF ws[k].id \in Row /\ rows[ws[k].id].lesson = save.lesson THEN ws[k].id
    ELSE IF k \in DOMAIN s /\ s[k] \notin {r[j] : j \in 1..(k - 1)} THEN s[k]
    ELSE ws[k].id

(* The plan for all weeks of the editor: the only element of this set. *)
Plans(ws, s) ==
    {r \in [DOMAIN ws -> Row \cup {Local}] :
        \A k \in DOMAIN ws : r[k] = GoesTo(k, ws, s, r)}

(* queueUpdate sends nothing for a row of the lesson that has the content. *)
Unchanged(k, ws, r) == r[k] # Local /\ rows[r[k]] = Content(save.lesson, ws[k])
-----------------------------------------------------------------------------
(* The table. *)

Edit(k, w) ==
    /\ Change /\ k \in DOMAIN weeks
    /\ weeks[k] # w /\ weeks[k].id = w.id
    /\ weeks' = [weeks EXCEPT ![k] = w]
    /\ hasUnsavedChanges' = TRUE
    /\ UNCHANGED <<setting, kept, nest, lesson, isWeeksPublished, undo, arrived, calls, save, faults>>

UpdateWeekWeight(k) == \E x \in Weight : Edit(k, [weeks[k] EXCEPT !.weight = x])
ArchiveWeek(k) == Edit(k, [weeks[k] EXCEPT !.active = FALSE])
RestoreWeek(k) == Edit(k, [weeks[k] EXCEPT !.active = TRUE])

NewWeek == [id |-> Local, weight |-> DefaultWeight, active |-> TRUE]

AddWeek ==
    /\ Change /\ Len(weeks) < MaxLen
    /\ weeks' = Append(weeks, NewWeek)
    /\ hasUnsavedChanges' = TRUE
    /\ UNCHANGED <<setting, kept, nest, lesson, isWeeksPublished, undo, arrived, calls, save, faults>>

(* The button deletes the last week, of a lesson that is not published. *)
DeleteWeek ==
    /\ Change /\ ~isWeeksPublished /\ weeks # <<>>
    /\ weeks' = SubSeq(weeks, 1, Len(weeks) - 1)
    /\ hasUnsavedChanges' = TRUE
    /\ undo' = weeks
    /\ UNCHANGED <<setting, kept, nest, lesson, isWeeksPublished, arrived, calls, save, faults>>

(* The toast's Undo puts back the table it captured, whatever is shown by now. *)
UndoDelete ==
    /\ undo # <<>>
    /\ weeks' = undo
    /\ undo' = <<>>
    /\ UNCHANGED <<setting, kept, nest, lesson, isWeeksPublished, hasUnsavedChanges, arrived,
                   edits, calls, save, faults>>
-----------------------------------------------------------------------------
(* The draft in the local storage (useSyllabusWeeksDraft, useLocalFormDraft). *)

(* 400 ms after the last change of the table or of the lesson, and only while
   there are unsaved changes: the table goes under the key of the lesson chosen,
   whether the weeks in it are that lesson's or not yet. *)
DraftStored ==
    /\ setting.drafts /\ hasUnsavedChanges
    /\ draft[lesson] # [weeks |-> weeks, own |-> arrived]
    /\ draft' = [draft EXCEPT ![lesson] = [weeks |-> weeks, own |-> arrived]]
    /\ UNCHANGED <<setting, nest, lesson, table, undo, offer, arrived, edits, calls, save, faults>>

(* Once for a lesson: promptedKeyRef. *)
OfferDraft ==
    /\ ~hasUnsavedChanges /\ draft[lesson].weeks # <<>>
    /\ offer.of # lesson
    /\ offer' = [of |-> lesson, weeks |-> draft[lesson].weeks, own |-> draft[lesson].own]
    /\ UNCHANGED <<setting, nest, lesson, table, undo, draft, arrived, edits, calls, save, faults>>

(* The toast restores the weeks it captured, whatever lesson is chosen by now. *)
RestoreDraft ==
    /\ offer.weeks # <<>>
    /\ setting.careful => Calm /\ offer.own /\ offer.of = lesson
    /\ weeks' = offer.weeks
    /\ hasUnsavedChanges' = TRUE
    /\ arrived' = (offer.own /\ offer.of = lesson)
    /\ offer' = [offer EXCEPT !.weeks = <<>>]
    /\ UNCHANGED <<setting, nest, lesson, isWeeksPublished, undo, draft, edits, calls, save, faults>>

(* clearDraft of the render in which lesson l was chosen. *)
ClearDraft(l) ==
    /\ draft' = [draft EXCEPT ![l] = NoDraft]
    /\ offer' = NoOffer
-----------------------------------------------------------------------------
(* Filling the table. *)

GetWeeks(s, l, clears) ==
    /\ calls[s].ph = "idle"
    /\ Cardinality({x \in Slot : calls[x].ph # "idle"}) < setting.calls
    /\ calls' = [calls EXCEPT ![s] =
           [ph |-> "sent", lesson |-> l, weeks |-> <<>>, clears |-> clears]]

(* commitSelectCourse, after the confirmation when there are unsaved changes:
   the old lesson's weeks stay in the table, editable, until the answer, which
   clears the draft of the old lesson. *)
SelectCourse(s, l) ==
    /\ l # lesson
    /\ setting.careful => Quiet /\ ~Saving
    /\ lesson' = l
    /\ arrived' = FALSE
    /\ GetWeeks(s, l, lesson)
    /\ UNCHANGED <<setting, kept, nest, table, undo, edits, save, faults>>

(* refreshOfferingsAndWeeks, after the lesson shown was offered or withdrawn;
   its answer leaves the draft. *)
RefreshOfferingsAndWeeks(s) ==
    /\ Calm /\ (setting.careful => ~Saving)
    /\ GetWeeks(s, lesson, Nowhere)
    /\ UNCHANGED <<setting, kept, nest, lesson, table, undo, arrived, edits, save, faults>>

Serve(s) ==
    /\ calls[s].ph = "sent"
    /\ \E list \in Listings(calls[s].lesson) :
         calls' = [calls EXCEPT ![s].ph = "served", ![s].weeks = Shown(list)]
    /\ UNCHANGED <<setting, kept, nest, lesson, table, undo, arrived, edits, save, faults>>

(* The answer goes into the table whatever lesson is chosen by now. *)
Answer(s) ==
    /\ calls[s].ph = "served"
    /\ weeks' = calls[s].weeks
    /\ isWeeksPublished' = (calls[s].weeks # <<>>)
    /\ hasUnsavedChanges' = FALSE
    /\ arrived' = (calls[s].lesson = lesson)
    /\ calls' = [calls EXCEPT ![s] = IdleCall]
    /\ IF calls[s].clears = Nowhere THEN UNCHANGED kept ELSE ClearDraft(calls[s].clears)
    /\ UNCHANGED <<setting, nest, lesson, undo, edits, save, faults>>

CallFails(s) ==
    /\ calls[s].ph # "idle" /\ Fault
    /\ calls' = [calls EXCEPT ![s] = IdleCall]
    /\ UNCHANGED <<setting, kept, nest, lesson, table, undo, arrived, edits, save>>
-----------------------------------------------------------------------------
(* The save. *)

(* The bound on rows holds a save back before it starts. *)
Room == LET new == {k \in DOMAIN weeks : RowsOf(lesson) = {} \/ weeks[k].id = Local}
        IN  next - 1 + Cardinality(new) <= MaxRow

SaveSyllabus ==
    /\ Calm /\ ~Saving /\ hasUnsavedChanges /\ weeks # <<>>
    /\ Room
    /\ save' = [IdleSave EXCEPT !.ph = "read", !.lesson = lesson, !.weeks = weeks]
    /\ UNCHANGED <<setting, kept, nest, lesson, table, undo, arrived, edits, calls, faults>>

(* Mutant: the table decides, not the weeks read from the server. *)
FirstPublicationByFlag(list) == ~isWeeksPublished

FirstPublication(list) == list = <<>>

(* The GET of saveRealSyllabusWeeks and the choice it makes. *)
ReadRemote ==
    /\ save.ph = "read"
    /\ \E list \in Listings(save.lesson) :
         IF FirstPublication(list)
         THEN save' = [save EXCEPT !.ph = "put", !.left = DOMAIN save.weeks,
                                   !.row = [k \in DOMAIN save.weeks |-> Local]]
         ELSE \E r \in Plans(save.weeks, list) :
                save' = [save EXCEPT
                  !.ph = "write", !.row = r,
                  !.left = {k \in DOMAIN save.weeks : ~Unchanged(k, save.weeks, r)}]
    /\ UNCHANGED <<setting, kept, nest, lesson, table, undo, arrived, edits, calls, faults>>

(* PUT /admin/lessons/{id}/weeks: the lesson's weeks are deleted, then created. *)
Put ==
    LET last == next - 1 + Len(save.weeks) IN
    /\ save.ph = "put"
    /\ last <= MaxRow
    /\ rows' = [i \in Row |->
         IF i \in next..last THEN Content(save.lesson, save.weeks[i - next + 1])
         ELSE IF rows[i].lesson = save.lesson THEN [rows[i] EXCEPT !.lesson = Nowhere]
         ELSE rows[i]]
    /\ next' = last + 1

(* PATCH /admin/weeks/{id}: the row moves to the lesson of the body. *)
Patch(k) ==
    /\ save.row[k] # Local
    /\ rows[save.row[k]].lesson # Nowhere
    /\ rows' = [rows EXCEPT ![save.row[k]] = Content(save.lesson, save.weeks[k])]
    /\ UNCHANGED next

(* Mutant: an id is given twice. *)
PostSameId(k) ==
    /\ save.row[k] = Local
    /\ next <= MaxRow
    /\ rows' = [rows EXCEPT ![next] = Content(save.lesson, save.weeks[k])]
    /\ UNCHANGED next

(* POST /admin/weeks. *)
Post(k) ==
    /\ save.row[k] = Local
    /\ next <= MaxRow
    /\ rows' = [rows EXCEPT ![next] = Content(save.lesson, save.weeks[k])]
    /\ next' = next + 1

(* The updates are sent in their order, then the creates in theirs. *)
Sends(k) ==
    /\ save.ph = "write" /\ k \in save.left
    /\ \A j \in save.left :
         IF save.row[k] = Local THEN save.row[j] = Local /\ k <= j
         ELSE save.row[j] # Local => k <= j

Request(k) == Sends(k) /\ (Patch(k) \/ Post(k))

NewRows == [k \in DOMAIN save.weeks |-> next + k - 1]

PutAnswered ==
    /\ Put
    /\ save' = [save EXCEPT !.ph = "write", !.left = {}, !.row = NewRows]
    /\ UNCHANGED <<setting, kept, lesson, table, undo, arrived, edits, calls, faults>>

(* The answer is lost or a gateway error: ky sends a PUT (not a PATCH or a POST)
   a second time. *)
PutResent ==
    /\ Put /\ ~save.again /\ Fault
    /\ next - 1 + 2 * Len(save.weeks) <= MaxRow
    /\ save' = [save EXCEPT !.again = TRUE, !.row = NewRows]
    /\ UNCHANGED <<setting, kept, lesson, table, undo, arrived, edits, calls>>

RequestAnswered(k) ==
    /\ Request(k)
    /\ save' = [save EXCEPT !.left = @ \ {k},
                  !.row[k] = IF @ = Local THEN next ELSE @]
    /\ UNCHANGED <<setting, kept, lesson, table, undo, arrived, edits, calls, faults>>

(* The GET or a write fails, or is done and its answer lost: an error, and the
   table stays as it is for another try. *)
SaveFails ==
    /\ save.ph = "read" \/ save.left # {}
    /\ Fault
    /\ UNCHANGED nest \/ Put \/ \E k \in save.left : Request(k)
    /\ save' = IdleSave
    /\ UNCHANGED <<setting, kept, lesson, table, undo, arrived, edits, calls>>

(* getRealSyllabusSnapshot after the last write.  Its failure is not the save's:
   the changes count as saved, but the table is not read again. *)
Written == save.ph = "write" /\ save.left = {}

SnapshotRead ==
    /\ Written
    /\ hasUnsavedChanges' = FALSE
    /\ isWeeksPublished' = TRUE
    /\ save' = [save EXCEPT !.ph = "reload"]
    /\ ClearDraft(save.lesson)
    /\ UNCHANGED <<setting, nest, lesson, weeks, undo, arrived, edits, calls, faults>>

SnapshotFails ==
    /\ Written /\ Fault
    /\ hasUnsavedChanges' = FALSE
    /\ save' = IdleSave
    /\ ClearDraft(save.lesson)
    /\ UNCHANGED <<setting, nest, lesson, weeks, isWeeksPublished, undo, arrived, edits, calls>>

(* getWeeks after the save, into the table whatever lesson is chosen by now.
   Only a save writes, so it may read as late as it is answered. *)
Reload ==
    /\ save.ph = "reload"
    /\ \E list \in Listings(save.lesson) :
         /\ weeks' = Shown(list)
         /\ isWeeksPublished' = (list # <<>>)
    /\ save' = IdleSave
    /\ UNCHANGED <<setting, kept, nest, lesson, hasUnsavedChanges, undo, arrived, edits, calls, faults>>

ReloadFails ==
    /\ save.ph = "reload" /\ Fault
    /\ save' = IdleSave
    /\ UNCHANGED <<setting, kept, nest, lesson, table, undo, arrived, edits, calls>>
-----------------------------------------------------------------------------
(* A lesson is open with its weeks; Nest has any weeks of default content; the
   browser may hold a draft of the lesson, one week longer, of an earlier visit. *)
Init ==
    /\ setting \in Settings
    /\ next \in 1..(MaxRow + 1)
    /\ \E of \in [1..(next - 1) -> Lesson] :
         rows = [i \in Row |-> [lesson |-> IF i < next THEN of[i] ELSE Nowhere,
                                weight |-> DefaultWeight, active |-> TRUE]]
    /\ lesson \in Lesson
    /\ \E list \in Listings(lesson) :
         /\ weeks = Shown(list)
         /\ isWeeksPublished = (list # <<>>)
    /\ hasUnsavedChanges = FALSE
    /\ undo = <<>>
    /\ \E d \in {NoDraft, [weeks |-> Append(weeks, NewWeek), own |-> TRUE]} :
         /\ d # NoDraft => setting.drafts /\ Len(weeks) < MaxLen
         /\ draft = [l \in Lesson |-> IF l = lesson THEN d ELSE NoDraft]
    /\ offer = NoOffer
    /\ arrived = TRUE
    /\ edits = 0
    /\ calls = [s \in Slot |-> IdleCall]
    /\ save = IdleSave
    /\ faults = 0

Next ==
    \/ \E k \in DOMAIN weeks : UpdateWeekWeight(k) \/ ArchiveWeek(k) \/ RestoreWeek(k)
    \/ AddWeek \/ DeleteWeek \/ UndoDelete
    \/ DraftStored \/ OfferDraft \/ RestoreDraft
    \/ \E s \in Slot :
         \/ \E l \in Lesson : SelectCourse(s, l)
         \/ RefreshOfferingsAndWeeks(s) \/ Serve(s) \/ Answer(s) \/ CallFails(s)
    \/ SaveSyllabus \/ ReadRemote
    \/ PutAnswered \/ PutResent \/ \E k \in save.left : RequestAnswered(k)
    \/ SaveFails \/ SnapshotRead \/ SnapshotFails \/ Reload \/ ReloadFails

Spec == Init /\ [][Next]_vars
-----------------------------------------------------------------------------
PageTypes ==
    /\ setting \in Settings
    /\ rows \in [Row -> Stored]
    /\ next \in 1..(MaxRow + 1)
    /\ \A i \in Row : rows[i].lesson # Nowhere => i < next
    /\ lesson \in Lesson
    /\ weeks \in Seq(Week) /\ undo \in Seq(Week)
    /\ isWeeksPublished \in BOOLEAN /\ hasUnsavedChanges \in BOOLEAN
    /\ arrived \in BOOLEAN
    /\ edits \in 0..setting.edits
    /\ calls \in [Slot -> Call]
    /\ save \in Save
    /\ faults \in 0..MaxFault

TypeOK == PageTypes /\ draft \in [Lesson -> Draft] /\ offer \in Offer

(* Only a lesson without weeks is published with a PUT, which deletes what is
   there: whatever answer is lost, however often the first publication is tried
   again and whatever the table believes, a PUT deletes no week but those that
   the same PUT stored when it was sent the first time. *)
PutDeletesOnlyItsOwn == [][\A i \in Row :
    rows[i].lesson # Nowhere /\ rows'[i].lesson = Nowhere
        => save.again /\ \E k \in DOMAIN save.row : save.row[k] = i]_vars

Moves(i) == rows[i].lesson # Nowhere /\ rows'[i].lesson \notin {rows[i].lesson, Nowhere}

(* A save takes no week away from a lesson (saveRealSyllabusWeeks). *)
WeeksStayInLesson == [][\A i \in Row : ~Moves(i)]_vars

(* That holds for a careful administrator, who touches the table only when the
   weeks of the lesson chosen are in it and restores only a draft that was made
   of that lesson's weeks: also with failed and repeated saves, a late Undo, a
   draft older than what was saved since, and a table that was not read again
   after its save. *)
CarefulKeepsWeeksInLesson == [][setting.careful => \A i \in Row : ~Moves(i)]_vars

(* And no save of such an administrator writes one week over another: each week
   that was sent has a row of its own with its content. *)
SavedWeeksAreStored ==
    setting.careful /\ save.ph \in {"write", "reload"} =>
        \A k \in DOMAIN save.weeks \ save.left :
            /\ rows[save.row[k]] = Content(save.lesson, save.weeks[k])
            /\ \A j \in DOMAIN save.weeks : save.row[j] = save.row[k] => j = k
=============================================================================

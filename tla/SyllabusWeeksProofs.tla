------------------------- MODULE SyllabusWeeksProofs -------------------------
(***************************************************************************)
(* The week editor for any lessons, weights, administrators and bounds.      *)
(***************************************************************************)
EXTENDS SyllabusWeeks, FiniteSetTheorems, WellFoundedInduction, TLAPS

(* The weeks of a table are of lesson l, or not stored yet. *)
Known(ws, l) == \A k \in DOMAIN ws :
    ws[k].id # Local => ws[k].id \in Row /\ rows[ws[k].id].lesson = l

Locals(ws) == \A k \in DOMAIN ws : ws[k].id = Local

(* Stored weeks come first, each once. *)
WellFormed(ws) == \A j, k \in DOMAIN ws :
    j < k /\ ws[k].id # Local => ws[j].id # Local /\ ws[j].id # ws[k].id

(* What the table of a careful administrator holds. *)
PageInv == setting.careful =>
    /\ arrived => /\ Known(weeks, lesson) /\ WellFormed(weeks)
                  /\ ~isWeeksPublished => Locals(weeks)
    /\ Locals(undo)

(* An answer on its way: its weeks are the lesson's, and it has some if there are. *)
Answered(c) ==
    /\ Known(c.weeks, c.lesson) /\ WellFormed(c.weeks)
    /\ c.weeks = <<>> => \A i \in Row : rows[i].lesson # c.lesson

CallInv == setting.careful => \A s \in Slot : calls[s].ph = "served" => Answered(calls[s])

(* A PUT under way finds no week but those it stored itself. *)
SaveInv ==
    /\ Saving => save.lesson \in Lesson
    /\ save.left \subseteq DOMAIN save.weeks
    /\ save.ph \in {"put", "write", "reload"} => DOMAIN save.row = DOMAIN save.weeks
    /\ save.ph = "put" => \A i \in Row : rows[i].lesson = save.lesson =>
         save.again /\ \E k \in DOMAIN save.row : save.row[k] = i

(* The save of a careful administrator. *)
WaitInv == setting.careful /\ Saving =>
    /\ save.lesson = lesson /\ arrived /\ Quiet
    /\ save.ph = "read" => Known(save.weeks, save.lesson) /\ WellFormed(save.weeks)
    /\ save.ph = "put" => Locals(weeks)

(* Its plan: a row of the lesson for each week, and no row for two. *)
PlanInv == setting.careful /\ save.ph \in {"write", "reload"} =>
    /\ \A k \in DOMAIN save.weeks : save.row[k] # Local => rows[save.row[k]].lesson = save.lesson
    /\ \A k \in DOMAIN save.weeks \ save.left :
         save.row[k] # Local /\ rows[save.row[k]] = Content(save.lesson, save.weeks[k])
    /\ \A j, k \in DOMAIN save.weeks : save.row[k] # Local /\ save.row[j] = save.row[k] => j = k

Core == PageTypes /\ PageInv /\ CallInv /\ SaveInv /\ WaitInv /\ PlanInv

(* The weeks a careful administrator may restore when lesson l is chosen. *)
OwnTables(l) == {ws \in {draft[l].weeks} : draft[l].own}
                \cup {ws \in {offer.weeks} : offer.own /\ offer.of = l}

(* They are the lesson's, and not stored yet where the table's cannot be. *)
KeptInv ==
    /\ draft \in [Lesson -> Draft] /\ offer \in Offer
    /\ setting.careful =>
         /\ \A l \in Lesson : \A ws \in OwnTables(l) : Known(ws, l) /\ WellFormed(ws)
         /\ \A ws \in OwnTables(lesson) :
              /\ arrived /\ ~isWeeksPublished => Locals(ws)
              /\ save.ph = "put" => Locals(ws)

IInv == Core /\ KeptInv
-----------------------------------------------------------------------------
(* Lists and contents. *)

LEMMA ListingFacts ==
    ASSUME rows \in [Row -> Stored], NEW l \in Place, NEW list \in Listings(l)
    PROVE  /\ Shown(list) \in Seq(Week)
           /\ Known(Shown(list), l)
           /\ WellFormed(Shown(list))
           /\ \A k \in DOMAIN list : list[k] \in Row /\ rows[list[k]].lesson = l
           /\ DOMAIN Shown(list) = DOMAIN list
           /\ list = <<>> \/ Shown(list) = <<>> => \A i \in Row : rows[i].lesson # l
<1> DEFINE n == Cardinality(RowsOf(l))
<1>1. IsFiniteSet(RowsOf(l)) /\ n \in Nat
  <2>1. IsFiniteSet(Row)
    BY FS_Interval, ConstantsAssumption DEF Row
  <2>2. RowsOf(l) \subseteq Row
    BY DEF RowsOf
  <2> QED BY <2>1, <2>2, FS_Subset, FS_CardinalityType
<1>2. list \in [1..n -> RowsOf(l)] /\ \A a, b \in 1..n : a < b => Before(list[a], list[b])
  BY DEF Listings
<1>3. \A k \in 1..n : list[k] \in Row /\ rows[list[k]].lesson = l /\ rows[list[k]] \in Stored
  BY <1>2 DEF RowsOf
<1> DEFINE sh(k) == [id |-> list[k], weight |-> rows[list[k]].weight,
                     active |-> rows[list[k]].active]
<1>4. Shown(list) = [k \in 1..n |-> sh(k)]
  BY <1>2 DEF Shown
<1>5. \A k \in 1..n : sh(k) \in Week
  BY <1>3 DEF Week, Stored
<1> HIDE DEF n
<1>6. Shown(list) \in Seq(Week)
  BY <1>1, <1>4, <1>5
<1>7. \A k \in 1..n : Shown(list)[k].id = list[k]
  BY <1>4
<1>8. Known(Shown(list), l)
  BY <1>3, <1>4, <1>7 DEF Known
<1>9. \A a, b \in 1..n : a < b => list[a] # list[b]
  <2> SUFFICES ASSUME NEW a \in 1..n, NEW b \in 1..n, a < b, list[a] = list[b] PROVE FALSE
    OBVIOUS
  <2>1. Before(list[a], list[a])
    BY <1>2
  <2>2. rows[list[a]] \in Stored /\ list[a] \in Row
    BY <1>3
  <2>3. rows[list[a]].weight \in Weight /\ Weight \subseteq Int
    BY <2>2, ConstantsAssumption DEF Stored
  <2>4. list[a] \in Int
    BY <2>2 DEF Row
  <2> DEFINE w == rows[list[a]].weight  i == list[a]
  <2> HIDE DEF w, i
  <2>5. ~(w < w)
    <3>1. w \in Int
      BY <2>3 DEF w
    <3> QED BY <3>1
  <2>6. ~(i < i)
    <3>1. i \in Int
      BY <2>4 DEF i
    <3> QED BY <3>1
  <2> QED BY <2>1, <2>5, <2>6 DEF Before, w, i
<1>10. WellFormed(Shown(list))
  <2> SUFFICES ASSUME NEW j \in 1..n, NEW k \in 1..n, j < k
               PROVE  list[j] # Local /\ list[j] # list[k]
    BY <1>4, <1>7 DEF WellFormed
  <2> QED BY <1>3, <1>9 DEF Row, Local
<1>11. list = <<>> \/ Shown(list) = <<>> => \A i \in Row : rows[i].lesson # l
  <2> SUFFICES ASSUME list = <<>> \/ Shown(list) = <<>> PROVE RowsOf(l) = {}
    BY DEF RowsOf
  <2>1. n = 0
    <3>1. DOMAIN list = 1..n /\ DOMAIN Shown(list) = 1..n
      BY <1>2, <1>4
    <3>2. CASE list = <<>>
      BY <1>1, <3>1, <3>2
    <3>3. CASE Shown(list) = <<>>
      BY <1>1, <3>1, <3>3
    <3> QED BY <3>2, <3>3
  <2> QED BY <1>1, <2>1, FS_EmptySet DEF n
<1> QED BY <1>2, <1>3, <1>4, <1>6, <1>8, <1>10, <1>11

LEMMA ContentFacts ==
    ASSUME NEW l \in Place, NEW w \in Week
    PROVE  Content(l, w) \in Stored /\ Content(l, w).lesson = l
BY DEF Content, Week, Stored

(* The weeks a table is left with when another is added, changed or taken away. *)
LEMMA AppendFacts ==
    ASSUME NEW ws \in Seq(Week), NEW w \in Week, w.id = Local, NEW l
    PROVE  /\ Append(ws, w) \in Seq(Week)
           /\ Known(ws, l) => Known(Append(ws, w), l)
           /\ WellFormed(ws) => WellFormed(Append(ws, w))
           /\ Locals(ws) => Locals(Append(ws, w))
<1>1. /\ DOMAIN Append(ws, w) = 1..(Len(ws) + 1) /\ DOMAIN ws = 1..Len(ws) /\ Len(ws) \in Nat
      /\ \A k \in 1..Len(ws) : Append(ws, w)[k] = ws[k]
      /\ Append(ws, w)[Len(ws) + 1] = w
  OBVIOUS
<1> DEFINE new == Append(ws, w)
<1>2. new \in Seq(Week)
  OBVIOUS
<1> HIDE DEF new
<1>3. Known(ws, l) => Known(new, l)
  BY <1>1 DEF Known, new
<1>4. WellFormed(ws) => WellFormed(new)
  BY <1>1 DEF WellFormed, new
<1>5. Locals(ws) => Locals(new)
  BY <1>1 DEF Locals, new
<1> QED BY <1>2, <1>3, <1>4, <1>5 DEF new

LEMMA ChangeFacts ==
    ASSUME NEW ws \in Seq(Week), NEW k \in DOMAIN ws, NEW w \in Week, ws[k].id = w.id, NEW l
    PROVE  /\ [ws EXCEPT ![k] = w] \in Seq(Week)
           /\ Known(ws, l) => Known([ws EXCEPT ![k] = w], l)
           /\ WellFormed(ws) => WellFormed([ws EXCEPT ![k] = w])
           /\ Locals(ws) => Locals([ws EXCEPT ![k] = w])
<1> DEFINE new == [ws EXCEPT ![k] = w]
<1>1. new \in Seq(Week) /\ DOMAIN new = DOMAIN ws
  OBVIOUS
<1>2. \A j \in DOMAIN ws : new[j].id = ws[j].id
  OBVIOUS
<1> HIDE DEF new
<1>3. Known(ws, l) => Known(new, l)
  BY <1>1, <1>2 DEF Known
<1>4. WellFormed(ws) => WellFormed(new)
  BY <1>1, <1>2 DEF WellFormed
<1>5. Locals(ws) => Locals(new)
  BY <1>1, <1>2 DEF Locals
<1> QED BY <1>1, <1>3, <1>4, <1>5 DEF new

LEMMA FrontFacts ==
    ASSUME NEW ws \in Seq(Week), ws # <<>>, NEW l
    PROVE  /\ SubSeq(ws, 1, Len(ws) - 1) \in Seq(Week)
           /\ Known(ws, l) => Known(SubSeq(ws, 1, Len(ws) - 1), l)
           /\ WellFormed(ws) => WellFormed(SubSeq(ws, 1, Len(ws) - 1))
           /\ Locals(ws) => Locals(SubSeq(ws, 1, Len(ws) - 1))
<1> DEFINE new == SubSeq(ws, 1, Len(ws) - 1)
<1>1. Len(ws) \in Nat \ {0} /\ DOMAIN ws = 1..Len(ws)
  OBVIOUS
<1>2. new = [k \in 1..(Len(ws) - 1) |-> ws[k]]
  BY <1>1
<1>3. new \in Seq(Week) /\ DOMAIN new \subseteq DOMAIN ws
  BY <1>1, <1>2
<1>4. \A j \in DOMAIN new : new[j] = ws[j]
  BY <1>2
<1> HIDE DEF new
<1>5. Known(ws, l) => Known(new, l)
  BY <1>3, <1>4 DEF Known
<1>6. WellFormed(ws) => WellFormed(new)
  BY <1>3, <1>4 DEF WellFormed
<1>7. Locals(ws) => Locals(new)
  BY <1>3, <1>4 DEF Locals
<1> QED BY <1>3, <1>5, <1>6, <1>7 DEF new
-----------------------------------------------------------------------------
(* The initial states. *)

LEMMA CoreInit == Init => Core
<1> SUFFICES ASSUME Init PROVE Core
  OBVIOUS
<1>1. /\ setting \in Settings /\ setting.edits \in Nat
      /\ next \in 1..(MaxRow + 1) /\ lesson \in Lesson /\ lesson \in Place
  BY ConstantsAssumption DEF Init, Place
<1>2. rows \in [Row -> Stored] /\ \A i \in Row : rows[i].lesson # Nowhere => i < next
  <2>1. PICK of \in [1..(next - 1) -> Lesson] :
          rows = [i \in Row |-> [lesson |-> IF i < next THEN of[i] ELSE Nowhere,
                                 weight |-> DefaultWeight, active |-> TRUE]]
    BY DEF Init
  <2>2. \A i \in Row : i < next => of[i] \in Lesson
    BY <1>1, ConstantsAssumption DEF Row
  <2> QED BY <1>1, <2>1, <2>2, ConstantsAssumption DEF Stored, Place
<1>3. PICK list \in Listings(lesson) : weeks = Shown(list) /\ isWeeksPublished = (list # <<>>)
  BY DEF Init
<1>4. weeks \in Seq(Week) /\ Known(weeks, lesson) /\ WellFormed(weeks) /\ DOMAIN weeks = DOMAIN list
  BY <1>1, <1>2, <1>3, ListingFacts
<1>5. ~isWeeksPublished => Locals(weeks)
  <2> SUFFICES ASSUME list = <<>> PROVE DOMAIN weeks = {}
    BY <1>3 DEF Locals
  <2> QED BY <1>4
<1>6. /\ undo = <<>> /\ undo \in Seq(Week) /\ Locals(undo)
      /\ calls = [s \in Slot |-> IdleCall] /\ save = IdleSave
  BY DEF Init, Locals
<1>7. /\ IdleCall \in Call /\ IdleCall.ph = "idle"
      /\ IdleSave \in Save /\ IdleSave.ph = "idle" /\ IdleSave.left = {}
  BY DEF IdleCall, IdleSave, Call, Save, Place
<1>8. calls \in [Slot -> Call] /\ save \in Save /\ ~Saving
  BY <1>6, <1>7 DEF Saving
<1>9. PageTypes
  <2>1. isWeeksPublished \in BOOLEAN
    BY <1>3
  <2>2. hasUnsavedChanges \in BOOLEAN /\ arrived \in BOOLEAN
    BY DEF Init
  <2>3. edits \in 0..setting.edits /\ faults \in 0..MaxFault
    BY <1>1, ConstantsAssumption DEF Init
  <2> QED BY <1>1, <1>2, <1>4, <1>6, <1>8, <2>1, <2>2, <2>3 DEF PageTypes
<1>10. PageInv
  BY <1>4, <1>5, <1>6 DEF PageInv
<1>11. CallInv /\ SaveInv /\ WaitInv /\ PlanInv
  BY <1>6, <1>7, <1>8 DEF CallInv, SaveInv, WaitInv, PlanInv
<1> QED BY <1>9, <1>10, <1>11 DEF Core

LEMMA KeptInit == Init => KeptInv
<1> SUFFICES ASSUME Init PROVE KeptInv
  OBVIOUS
<1>1. Core /\ lesson \in Lesson /\ weeks \in Seq(Week) /\ save.ph # "put" /\ arrived
  BY CoreInit DEF Core, PageTypes, Init, IdleSave
<1>2. PICK d \in {NoDraft, [weeks |-> Append(weeks, NewWeek), own |-> TRUE]} :
        draft = [l \in Lesson |-> IF l = lesson THEN d ELSE NoDraft]
  BY DEF Init
<1>3. offer = NoOffer /\ NoOffer \in Offer /\ ~NoOffer.own /\ NoDraft \in Draft /\ ~NoDraft.own
  BY DEF Init, NoOffer, Offer, Place, NoDraft, Draft
<1>4. NewWeek \in Week /\ NewWeek.id = Local
  BY ConstantsAssumption DEF NewWeek, Week
<1> DEFINE ws == Append(weeks, NewWeek)
<1>5. /\ ws \in Seq(Week)
      /\ Known(weeks, lesson) => Known(ws, lesson)
      /\ WellFormed(weeks) => WellFormed(ws)
      /\ Locals(weeks) => Locals(ws)
  BY <1>1, <1>4, AppendFacts
<1> HIDE DEF ws
<1>6. d \in Draft /\ (d.own => d.weeks = ws)
  <2>1. CASE d = NoDraft
    BY <1>3, <2>1
  <2>2. CASE d = [weeks |-> ws, own |-> TRUE]
    BY <1>5, <2>2 DEF Draft
  <2>3. d = NoDraft \/ d = [weeks |-> ws, own |-> TRUE]
    BY <1>2 DEF ws
  <2> QED BY <2>1, <2>2, <2>3
<1>7. draft \in [Lesson -> Draft] /\ offer \in Offer
  BY <1>2, <1>3, <1>6
<1>8. \A l \in Lesson : OwnTables(l) \subseteq IF l = lesson THEN {ws} ELSE {}
  BY <1>2, <1>3, <1>6 DEF OwnTables
<1>9. setting.careful => /\ Known(ws, lesson) /\ WellFormed(ws)
                         /\ ~isWeeksPublished => Locals(ws)
  BY <1>1, <1>5 DEF Core, PageInv
<1> QED BY <1>1, <1>7, <1>8, <1>9 DEF KeptInv

LEMMA InitOk == Init => IInv
BY CoreInit, KeptInit DEF IInv
-----------------------------------------------------------------------------
(* Steps that touch the table. *)

LEMMA TableKeeps ==
    ASSUME Core,
           UNCHANGED <<setting, nest, lesson, isWeeksPublished, arrived, calls, save, faults>>,
           hasUnsavedChanges' \in BOOLEAN, edits' \in 0..setting.edits,
           weeks' \in Seq(Week), undo' \in Seq(Week),
           setting.careful =>
             /\ arrived => Known(weeks', lesson) /\ WellFormed(weeks')
             /\ arrived /\ ~isWeeksPublished => Locals(weeks')
             /\ Locals(undo')
             /\ save.ph = "put" => Locals(weeks')
    PROVE  Core'
<1>1. PageTypes'
  BY DEF Core, PageTypes, nest
<1>2. PageInv'
  BY DEF Core, PageInv, Known, WellFormed, Locals, nest
<1>3. CallInv'
  BY DEF Core, CallInv, Answered, Known, WellFormed, nest
<1>4. SaveInv' /\ PlanInv'
  BY DEF Core, SaveInv, PlanInv, Saving, nest
<1>5. WaitInv'
  BY DEF Core, WaitInv, Saving, Quiet, Known, WellFormed, Locals, nest
<1> QED BY <1>1, <1>2, <1>3, <1>4, <1>5 DEF Core

LEMMA EditOk == ASSUME Core, NEW k \in DOMAIN weeks, NEW w \in Week, Edit(k, w) PROVE Core'
<1> DEFINE new == [weeks EXCEPT ![k] = w]
<1>1. weeks' = new /\ weeks \in Seq(Week) /\ undo' = undo /\ undo \in Seq(Week)
  BY DEF Edit, Core, PageTypes
<1>2. /\ new \in Seq(Week)
      /\ Known(weeks, lesson) => Known(new, lesson)
      /\ WellFormed(weeks) => WellFormed(new)
      /\ Locals(weeks) => Locals(new)
  BY <1>1, ChangeFacts DEF Edit
<1> HIDE DEF new
<1>3. edits' \in 0..setting.edits /\ hasUnsavedChanges' \in BOOLEAN
  BY ConstantsAssumption DEF Edit, Change, Core, PageTypes
<1>4. UNCHANGED <<setting, nest, lesson, isWeeksPublished, arrived, calls, save, faults>>
  BY DEF Edit
<1>5. setting.careful =>
        /\ arrived => Known(new, lesson) /\ WellFormed(new)
        /\ arrived /\ ~isWeeksPublished => Locals(new)
        /\ Locals(undo)
        /\ save.ph = "put" => Locals(new)
  BY <1>2 DEF Core, PageInv, WaitInv, Saving
<1> QED BY <1>1, <1>2, <1>3, <1>4, <1>5, TableKeeps

LEMMA AddWeekOk == Core /\ AddWeek => Core'
<1> SUFFICES ASSUME Core, AddWeek PROVE Core'
  OBVIOUS
<1> DEFINE w == [id |-> Local, weight |-> DefaultWeight, active |-> TRUE]
           new == Append(weeks, w)
<1>1. weeks' = new /\ weeks \in Seq(Week) /\ undo' = undo /\ undo \in Seq(Week)
  BY DEF AddWeek, NewWeek, Core, PageTypes
<1>2. w \in Week /\ w.id = Local
  BY ConstantsAssumption DEF Week
<1> HIDE DEF w
<1>3. /\ new \in Seq(Week)
      /\ Known(weeks, lesson) => Known(new, lesson)
      /\ WellFormed(weeks) => WellFormed(new)
      /\ Locals(weeks) => Locals(new)
  BY <1>1, <1>2, AppendFacts
<1> HIDE DEF new
<1>4. edits' \in 0..setting.edits /\ hasUnsavedChanges' \in BOOLEAN
  BY ConstantsAssumption DEF AddWeek, Change, Core, PageTypes
<1>5. UNCHANGED <<setting, nest, lesson, isWeeksPublished, arrived, calls, save, faults>>
  BY DEF AddWeek
<1>6. setting.careful =>
        /\ arrived => Known(new, lesson) /\ WellFormed(new)
        /\ arrived /\ ~isWeeksPublished => Locals(new)
        /\ Locals(undo)
        /\ save.ph = "put" => Locals(new)
  BY <1>3 DEF Core, PageInv, WaitInv, Saving
<1> QED BY <1>1, <1>3, <1>4, <1>5, <1>6, TableKeeps

LEMMA DeleteWeekOk == Core /\ DeleteWeek => Core'
<1> SUFFICES ASSUME Core, DeleteWeek PROVE Core'
  OBVIOUS
<1> DEFINE new == SubSeq(weeks, 1, Len(weeks) - 1)
<1>1. weeks' = new /\ weeks \in Seq(Week) /\ undo' = weeks /\ weeks # <<>>
  BY DEF DeleteWeek, Core, PageTypes
<1>2. /\ new \in Seq(Week)
      /\ Known(weeks, lesson) => Known(new, lesson)
      /\ WellFormed(weeks) => WellFormed(new)
      /\ Locals(weeks) => Locals(new)
  BY <1>1, FrontFacts
<1> HIDE DEF new
<1>3. edits' \in 0..setting.edits /\ hasUnsavedChanges' \in BOOLEAN
  BY ConstantsAssumption DEF DeleteWeek, Change, Core, PageTypes
<1>4. UNCHANGED <<setting, nest, lesson, isWeeksPublished, arrived, calls, save, faults>>
  BY DEF DeleteWeek
<1>5. setting.careful => arrived /\ ~isWeeksPublished
  BY DEF DeleteWeek, Change, Calm
<1>6. setting.careful =>
        /\ arrived => Known(new, lesson) /\ WellFormed(new)
        /\ arrived /\ ~isWeeksPublished => Locals(new)
        /\ Locals(weeks)
        /\ save.ph = "put" => Locals(new)
  BY <1>2, <1>5 DEF Core, PageInv
<1> QED BY <1>1, <1>2, <1>3, <1>4, <1>6, TableKeeps

LEMMA UndoDeleteOk == Core /\ UndoDelete => Core'
<1> SUFFICES ASSUME Core, UndoDelete PROVE Core'
  OBVIOUS
<1>1. /\ weeks' = undo /\ undo \in Seq(Week) /\ undo' = <<>>
      /\ hasUnsavedChanges' \in BOOLEAN /\ edits' \in 0..setting.edits
  BY DEF UndoDelete, Core, PageTypes
<1>2. UNCHANGED <<setting, nest, lesson, isWeeksPublished, arrived, calls, save, faults>>
  BY DEF UndoDelete
<1>3. setting.careful => Locals(undo) /\ Known(undo, lesson) /\ WellFormed(undo) /\ Locals(<<>>)
  BY DEF Core, PageInv, Locals, Known, WellFormed
<1> QED BY <1>1, <1>2, <1>3, TableKeeps
-----------------------------------------------------------------------------
(* Steps of the requests that fill the table. *)

LEMMA CallKeeps ==
    ASSUME Core, UNCHANGED <<setting, nest, table, undo, edits, save>>,
           lesson' \in Lesson, arrived' \in BOOLEAN, faults' \in 0..MaxFault,
           calls' \in [Slot -> Call],
           setting.careful =>
             /\ arrived' => arrived /\ lesson' = lesson
             /\ Saving => lesson' = lesson /\ arrived' /\ Quiet'
             /\ \A s \in Slot : calls'[s].ph = "served" =>
                  Answered(calls'[s])
    PROVE  Core'
<1>1. PageTypes'
  BY DEF Core, PageTypes, nest, table
<1>2. PageInv'
  BY DEF Core, PageInv, Known, WellFormed, Locals, nest, table
<1>3. CallInv'
  BY DEF CallInv, Answered, Known, WellFormed, nest
<1>4. SaveInv' /\ PlanInv'
  BY DEF Core, SaveInv, PlanInv, Saving, nest
<1>5. WaitInv'
  BY DEF Core, WaitInv, Saving, Known, WellFormed, Locals, nest, table
<1> QED BY <1>1, <1>2, <1>3, <1>4, <1>5 DEF Core

LEMMA GetWeeksFacts ==
    ASSUME Core, NEW s \in Slot, NEW l \in Lesson, NEW clears \in Place,
           GetWeeks(s, l, clears), UNCHANGED nest
    PROVE  /\ calls' \in [Slot -> Call]
           /\ setting.careful => \A x \in Slot : calls'[x].ph = "served" =>
                Answered(calls'[x])
<1> DEFINE c == [ph |-> "sent", lesson |-> l, weeks |-> <<>>, clears |-> clears]
<1>1. c \in Call /\ c.ph = "sent"
  BY DEF Call, Place
<1>2. calls' = [calls EXCEPT ![s] = c] /\ calls \in [Slot -> Call]
  BY DEF GetWeeks, Core, PageTypes
<1> HIDE DEF c
<1> QED BY <1>1, <1>2 DEF Core, CallInv

LEMMA SelectCourseOk ==
    ASSUME Core, NEW s \in Slot, NEW l \in Lesson, SelectCourse(s, l) PROVE Core'
<1>1. GetWeeks(s, l, lesson) /\ UNCHANGED <<setting, nest, table, undo, edits, save, faults>>
  BY DEF SelectCourse
<1>2. lesson' = l /\ arrived' = FALSE /\ (setting.careful => ~Saving)
  BY DEF SelectCourse
<1>3. faults' \in 0..MaxFault
  BY <1>1 DEF Core, PageTypes
<1>4. UNCHANGED nest
  BY <1>1
<1>5. lesson \in Place
  BY DEF Core, PageTypes, Place
<1> QED BY <1>1, <1>2, <1>3, <1>4, <1>5, GetWeeksFacts, CallKeeps

LEMMA RefreshOk ==
    ASSUME Core, NEW s \in Slot, RefreshOfferingsAndWeeks(s) PROVE Core'
<1>1. /\ GetWeeks(s, lesson, Nowhere) /\ (setting.careful => ~Saving)
      /\ UNCHANGED <<setting, nest, lesson, table, undo, arrived, edits, save, faults>>
  BY DEF RefreshOfferingsAndWeeks
<1>2. lesson \in Lesson /\ arrived' \in BOOLEAN /\ faults' \in 0..MaxFault /\ UNCHANGED nest
  BY <1>1 DEF Core, PageTypes
<1>3. Nowhere \in Place
  BY DEF Place
<1> QED BY <1>1, <1>2, <1>3, GetWeeksFacts, CallKeeps

LEMMA ServeOk == ASSUME Core, NEW s \in Slot, Serve(s) PROVE Core'
<1>1. /\ calls[s].ph = "sent"
      /\ UNCHANGED <<setting, nest, lesson, table, undo, arrived, edits, save, faults>>
  BY DEF Serve
<1>2. calls \in [Slot -> Call] /\ calls[s] \in Call /\ rows \in [Row -> Stored]
  BY DEF Core, PageTypes
<1> DEFINE c == calls[s]
<1>3. c.lesson \in Place
  BY <1>2 DEF Call
<1>4. PICK list \in Listings(c.lesson) :
        calls' = [calls EXCEPT ![s].ph = "served", ![s].weeks = Shown(list)]
  BY DEF Serve
<1>5. /\ Shown(list) \in Seq(Week) /\ Known(Shown(list), c.lesson) /\ WellFormed(Shown(list))
      /\ Shown(list) = <<>> => \A i \in Row : rows[i].lesson # c.lesson
  BY <1>2, <1>3, ListingFacts
<1> DEFINE d == [c EXCEPT !.ph = "served", !.weeks = Shown(list)]
<1>6. d \in Call /\ d.lesson = c.lesson /\ d.weeks = Shown(list)
  BY <1>2, <1>3, <1>5 DEF Call
<1>7. calls' = [calls EXCEPT ![s] = d]
  BY <1>4
<1> HIDE DEF c, d
<1>8. calls' \in [Slot -> Call]
  BY <1>2, <1>6, <1>7
<1>9. setting.careful => \A x \in Slot : calls'[x].ph = "served" =>
        Answered(calls'[x])
  BY <1>2, <1>5, <1>6, <1>7 DEF Core, CallInv, Answered
<1>10. setting.careful => ~Saving
  BY <1>1 DEF Core, WaitInv, Quiet
<1>11. lesson' \in Lesson /\ arrived' \in BOOLEAN /\ faults' \in 0..MaxFault
  BY <1>1 DEF Core, PageTypes
<1> QED BY <1>1, <1>8, <1>9, <1>10, <1>11, CallKeeps

LEMMA CallFailsOk == ASSUME Core, NEW s \in Slot, CallFails(s) PROVE Core'
<1>1. /\ calls' = [calls EXCEPT ![s] = IdleCall] /\ calls[s].ph # "idle"
      /\ UNCHANGED <<setting, nest, lesson, table, undo, arrived, edits, save>>
  BY DEF CallFails
<1>2. IdleCall \in Call /\ IdleCall.ph = "idle"
  BY DEF IdleCall, Call, Place
<1>3. calls' \in [Slot -> Call] /\ \A x \in Slot : calls'[x] = calls[x] \/ calls'[x].ph = "idle"
  BY <1>1, <1>2 DEF Core, PageTypes
<1>4. setting.careful => ~Saving
  BY <1>1 DEF Core, WaitInv, Quiet
<1>5. setting.careful => \A x \in Slot : calls'[x].ph = "served" =>
        Answered(calls'[x])
  BY <1>3 DEF Core, CallInv
<1>6. lesson' \in Lesson /\ arrived' \in BOOLEAN /\ faults' \in 0..MaxFault
  BY <1>1, ConstantsAssumption DEF Core, PageTypes, CallFails, Fault
<1> QED BY <1>1, <1>3, <1>4, <1>5, <1>6, CallKeeps

LEMMA AnswerOk == ASSUME Core, NEW s \in Slot, Answer(s) PROVE Core'
<1>1. /\ calls[s].ph = "served" /\ weeks' = calls[s].weeks
      /\ isWeeksPublished' = (calls[s].weeks # <<>>) /\ hasUnsavedChanges' = FALSE
      /\ arrived' = (calls[s].lesson = lesson)
      /\ calls' = [calls EXCEPT ![s] = IdleCall]
      /\ UNCHANGED <<setting, nest, lesson, undo, edits, save, faults>>
  BY DEF Answer
<1>2. calls[s] \in Call /\ calls[s].weeks \in Seq(Week)
  BY DEF Core, PageTypes, Call
<1>3. IdleCall \in Call /\ IdleCall.ph = "idle"
  BY DEF IdleCall, Call, Place
<1>4. calls' \in [Slot -> Call] /\ \A x \in Slot : calls'[x] = calls[x] \/ calls'[x].ph = "idle"
  BY <1>1, <1>3 DEF Core, PageTypes
<1>5. setting.careful => ~Saving
  BY <1>1 DEF Core, WaitInv, Quiet
<1>6. PageTypes'
  BY <1>1, <1>2, <1>4 DEF Core, PageTypes, nest
<1>7. PageInv'
  <2> SUFFICES ASSUME setting.careful PROVE PageInv'
    BY <1>1 DEF PageInv
  <2>1. Known(calls[s].weeks, calls[s].lesson) /\ WellFormed(calls[s].weeks)
    BY <1>1 DEF Core, CallInv, Answered
  <2>2. calls[s].weeks = <<>> => Locals(calls[s].weeks)
    BY DEF Locals
  <2> QED BY <1>1, <2>1, <2>2 DEF Core, PageInv, Known, WellFormed, Locals, nest
<1>8. CallInv'
  BY <1>1, <1>4 DEF Core, CallInv, Answered, Known, WellFormed, nest
<1>9. SaveInv' /\ PlanInv'
  BY <1>1 DEF Core, SaveInv, PlanInv, Saving, nest
<1>10. WaitInv'
  BY <1>1, <1>5 DEF WaitInv, Saving
<1> QED BY <1>6, <1>7, <1>8, <1>9, <1>10 DEF Core
-----------------------------------------------------------------------------
(* What a save writes. *)

LEMMA SaveFields ==
    ASSUME save \in Save
    PROVE  /\ save.lesson \in Place /\ save.weeks \in Seq(Week)
           /\ save.row \in Seq(Row \cup {Local}) /\ save.left \in SUBSET Nat
           /\ save.again \in BOOLEAN
           /\ DOMAIN save.weeks = 1..Len(save.weeks) /\ Len(save.weeks) \in Nat
           /\ DOMAIN save.row = 1..Len(save.row)
           /\ \A k \in DOMAIN save.weeks : save.weeks[k] \in Week
           /\ \A k \in DOMAIN save.row : save.row[k] \in Row \cup {Local}
<1>1. save.lesson \in Place /\ save.weeks \in Seq(Week) /\ save.row \in Seq(Row \cup {Local})
  BY DEF Save
<1>2. save.left \in SUBSET Nat /\ save.again \in BOOLEAN
  BY DEF Save
<1> QED BY <1>1, <1>2

LEMMA IdleSaveFacts ==
    IdleSave \in Save /\ IdleSave.ph = "idle" /\ IdleSave.left = {}
BY DEF IdleSave, Save, Place

LEMMA PutFacts ==
    ASSUME Core, Put
    PROVE  /\ rows' \in [Row -> Stored] /\ next' \in 1..(MaxRow + 1)
           /\ \A i \in Row : rows'[i].lesson # Nowhere => i < next'
           /\ \A k \in DOMAIN save.weeks :
                /\ next + k - 1 \in Row
                /\ rows'[next + k - 1] = Content(save.lesson, save.weeks[k])
           /\ \A i \in Row : rows'[i].lesson = save.lesson =>
                \E k \in DOMAIN save.weeks : i = next + k - 1
           /\ \A i \in Row : rows[i].lesson # Nowhere =>
                /\ rows'[i].lesson \in {rows[i].lesson, Nowhere}
                /\ rows'[i].lesson = Nowhere => rows[i].lesson = save.lesson
<1> DEFINE n == Len(save.weeks)
           last == next - 1 + n
<1>1. /\ rows \in [Row -> Stored] /\ next \in 1..(MaxRow + 1) /\ MaxRow \in Nat
      /\ \A i \in Row : rows[i].lesson # Nowhere => i < next
  BY ConstantsAssumption DEF Core, PageTypes
<1>2. save \in Save /\ save.lesson \in Lesson /\ save.ph = "put"
  BY DEF Core, PageTypes, SaveInv, Saving, Put
<1>3. /\ DOMAIN save.weeks = 1..n /\ n \in Nat
      /\ \A k \in 1..n : save.weeks[k] \in Week
  BY <1>2, SaveFields
<1>4. /\ save.lesson \in Place /\ save.lesson # Nowhere /\ Nowhere \in Place
  BY <1>2, ConstantsAssumption DEF Place
<1> HIDE DEF n
<1>5. /\ last <= MaxRow /\ next' = last + 1
      /\ rows' = [i \in Row |->
           IF i \in next..last THEN Content(save.lesson, save.weeks[i - next + 1])
           ELSE IF rows[i].lesson = save.lesson THEN [rows[i] EXCEPT !.lesson = Nowhere]
           ELSE rows[i]]
  BY DEF Put, n
<1>6. \A i \in Row : i \in next..last => i - next + 1 \in 1..n
  BY <1>1, <1>3 DEF Row
<1>7. \A i \in Row : i \in next..last => rows'[i] \in Stored /\ rows'[i].lesson = save.lesson
  <2> TAKE i \in Row
  <2> HAVE i \in next..last
  <2>1. save.weeks[i - next + 1] \in Week
    BY <1>3, <1>6
  <2>2. rows'[i] = Content(save.lesson, save.weeks[i - next + 1])
    BY <1>5
  <2> QED BY <1>4, <2>1, <2>2, ContentFacts
<1>8. \A i \in Row : i \notin next..last /\ rows[i].lesson = save.lesson =>
        rows'[i] \in Stored /\ rows'[i].lesson = Nowhere
  <2> TAKE i \in Row
  <2> HAVE i \notin next..last /\ rows[i].lesson = save.lesson
  <2>1. rows[i] \in Stored
    BY <1>1
  <2>2. rows'[i] = [rows[i] EXCEPT !.lesson = Nowhere]
    BY <1>5
  <2> QED BY <1>4, <2>1, <2>2 DEF Stored
<1>9. \A i \in Row : i \notin next..last /\ rows[i].lesson # save.lesson => rows'[i] = rows[i]
  BY <1>5
<1>10. rows' \in [Row -> Stored]
  BY <1>1, <1>5, <1>7, <1>8, <1>9
<1>11. next' \in 1..(MaxRow + 1)
  BY <1>1, <1>3, <1>5
<1>12. \A i \in Row : rows'[i].lesson # Nowhere => i < next'
  <2> SUFFICES ASSUME NEW i \in Row, rows'[i].lesson # Nowhere PROVE i < last + 1
    BY <1>5
  <2>1. CASE i \in next..last
    BY <1>1, <1>3, <2>1 DEF Row
  <2>2. CASE i \notin next..last
    <3>1. i < next
      BY <1>1, <1>8, <1>9, <2>2
    <3> QED BY <1>1, <1>3, <3>1 DEF Row
  <2> QED BY <2>1, <2>2
<1>13. \A k \in DOMAIN save.weeks :
         /\ next + k - 1 \in Row
         /\ rows'[next + k - 1] = Content(save.lesson, save.weeks[k])
  <2> SUFFICES ASSUME NEW k \in 1..n
               PROVE  /\ next + k - 1 \in Row
                      /\ rows'[next + k - 1] = Content(save.lesson, save.weeks[k])
    BY <1>3
  <2>1. next + k - 1 \in Row /\ next + k - 1 \in next..last
    BY <1>1, <1>3, <1>5 DEF Row
  <2>2. (next + k - 1) - next + 1 = k
    BY <1>1, <1>3
  <2> QED BY <1>5, <2>1, <2>2
<1>14. \A i \in Row : rows'[i].lesson = save.lesson =>
         \E k \in DOMAIN save.weeks : i = next + k - 1
  <2> SUFFICES ASSUME NEW i \in Row, rows'[i].lesson = save.lesson
               PROVE  \E k \in 1..n : i = next + k - 1
    BY <1>3
  <2>1. i \in next..last
    BY <1>4, <1>8, <1>9
  <2>2. i - next + 1 \in 1..n /\ i = next + (i - next + 1) - 1
    BY <1>1, <1>6, <2>1 DEF Row
  <2> QED BY <2>2
<1>15. \A i \in Row : rows[i].lesson # Nowhere => i \notin next..last
  BY <1>1 DEF Row
<1>16. \A i \in Row : rows[i].lesson # Nowhere =>
         /\ rows'[i].lesson \in {rows[i].lesson, Nowhere}
         /\ rows'[i].lesson = Nowhere => rows[i].lesson = save.lesson
  BY <1>8, <1>9, <1>15
<1> QED BY <1>10, <1>11, <1>12, <1>13, <1>14, <1>16

LEMMA RequestFacts ==
    ASSUME Core, NEW k, Request(k), NEW t, t = IF save.row[k] = Local THEN next ELSE save.row[k]
    PROVE  /\ k \in DOMAIN save.weeks /\ k \in save.left /\ save.ph = "write"
           /\ t \in Row /\ rows' = [rows EXCEPT ![t] = Content(save.lesson, save.weeks[k])]
           /\ Content(save.lesson, save.weeks[k]) \in Stored
           /\ Content(save.lesson, save.weeks[k]).lesson = save.lesson
           /\ save.lesson \in Lesson
           /\ rows' \in [Row -> Stored] /\ next' \in 1..(MaxRow + 1)
           /\ \A i \in Row : rows'[i].lesson # Nowhere => i < next'
           /\ \A i \in Row : rows'[i].lesson = Nowhere => rows[i].lesson = Nowhere
           /\ save.row[k] = Local => rows[t].lesson = Nowhere
           /\ setting.careful => \A i \in Row : rows[i].lesson # Nowhere =>
                rows'[i].lesson = rows[i].lesson
<1> DEFINE c == Content(save.lesson, save.weeks[k])
<1>1. /\ rows \in [Row -> Stored] /\ next \in 1..(MaxRow + 1) /\ MaxRow \in Nat
      /\ \A i \in Row : rows[i].lesson # Nowhere => i < next
  BY ConstantsAssumption DEF Core, PageTypes
<1>2. save \in Save /\ save.ph = "write" /\ save.lesson \in Lesson /\ k \in save.left
  BY DEF Core, PageTypes, SaveInv, Saving, Request, Sends
<1>3. k \in DOMAIN save.weeks /\ DOMAIN save.row = DOMAIN save.weeks
  BY <1>2 DEF Core, SaveInv
<1>4. save.weeks[k] \in Week /\ save.row[k] \in Row \cup {Local}
  BY <1>2, <1>3, SaveFields
<1>5. c \in Stored /\ c.lesson = save.lesson /\ save.lesson # Nowhere
  BY <1>2, <1>4, ContentFacts, ConstantsAssumption DEF Place
<1> HIDE DEF c
<1>6. /\ t \in Row /\ rows' = [rows EXCEPT ![t] = c]
      /\ next' \in 1..(MaxRow + 1) /\ next <= next' /\ t < next'
      /\ save.row[k] = Local => rows[t].lesson = Nowhere
      /\ save.row[k] # Local => t = save.row[k]
  <2>1. CASE Patch(k)
    <3>1. /\ t = save.row[k] /\ t \in Row /\ rows[t].lesson # Nowhere
          /\ rows' = [rows EXCEPT ![t] = c] /\ next' = next
      BY <1>4, <2>1 DEF Patch, c
    <3>2. t < next /\ next <= next
      BY <1>1, <3>1
    <3>3. save.row[k] # Local
      BY <2>1 DEF Patch
    <3> QED BY <1>1, <3>1, <3>2, <3>3
  <2>2. CASE Post(k)
    <3>1. t = next /\ rows' = [rows EXCEPT ![t] = c] /\ next' = next + 1 /\ next <= MaxRow
      BY <2>2 DEF Post, c
    <3>2. t \in Row /\ next' \in 1..(MaxRow + 1) /\ next <= next' /\ t < next'
      BY <1>1, <3>1 DEF Row
    <3>3. ~(t < next)
      BY <1>1, <3>1
    <3>4. rows[t].lesson = Nowhere
      BY <1>1, <3>2, <3>3
    <3> QED BY <2>2, <3>1, <3>2, <3>4 DEF Post
  <2> QED BY <2>1, <2>2 DEF Request
<1>7. rows' \in [Row -> Stored]
  BY <1>1, <1>5, <1>6
<1>8. \A i \in Row : rows'[i].lesson # Nowhere => i < next'
  <2> TAKE i \in Row
  <2> HAVE rows'[i].lesson # Nowhere
  <2>1. i = t \/ i < next
    BY <1>1, <1>6
  <2> QED BY <1>1, <1>6, <2>1 DEF Row
<1>9. \A i \in Row : rows'[i].lesson = Nowhere => rows[i].lesson = Nowhere
  BY <1>1, <1>5, <1>6
<1>10. setting.careful => \A i \in Row : rows[i].lesson # Nowhere => rows'[i].lesson = rows[i].lesson
  <2> SUFFICES ASSUME setting.careful, NEW i \in Row, rows[i].lesson # Nowhere
               PROVE  rows'[i].lesson = rows[i].lesson
    OBVIOUS
  <2>1. CASE i = t
    <3>1. save.row[k] # Local /\ t = save.row[k]
      BY <1>6, <2>1
    <3>2. rows[save.row[k]].lesson = save.lesson
      BY <1>2, <1>3, <3>1 DEF Core, PlanInv
    <3> QED BY <1>1, <1>5, <1>6, <2>1, <3>1, <3>2
  <2>2. CASE i # t
    BY <1>1, <1>6, <2>2
  <2> QED BY <2>1, <2>2
<1> QED BY <1>2, <1>3, <1>5, <1>6, <1>7, <1>8, <1>9, <1>10 DEF c
-----------------------------------------------------------------------------
(* Steps of the save.  First what all of them but the reload leave alone. *)

LEMMA SaveKeeps ==
    ASSUME Core, UNCHANGED <<setting, lesson, weeks, undo, arrived, edits, calls>>,
           isWeeksPublished' \in BOOLEAN, isWeeksPublished => isWeeksPublished',
           hasUnsavedChanges' \in BOOLEAN, faults' \in 0..MaxFault, save' \in Save,
           rows' \in [Row -> Stored], next' \in 1..(MaxRow + 1),
           \A i \in Row : rows'[i].lesson # Nowhere => i < next',
           \/ rows' = rows
           \/ setting.careful => Quiet /\ (arrived => Known(weeks, lesson)')
    PROVE  PageTypes' /\ PageInv' /\ CallInv'
<1>1. PageTypes'
  BY DEF Core, PageTypes
<1>2. PageInv'
  <2>1. setting.careful /\ arrived => Known(weeks, lesson)'
    BY DEF Core, PageInv, Known
  <2> QED BY <2>1 DEF Core, PageInv, WellFormed, Locals
<1>3. CallInv'
  <2>1. CASE rows' = rows
    BY <2>1 DEF Core, CallInv, Answered, Known, WellFormed
  <2>2. CASE setting.careful => Quiet
    BY <2>2 DEF CallInv, Quiet
  <2> QED BY <2>1, <2>2
<1> QED BY <1>1, <1>2, <1>3

LEMMA SaveEnds ==
    ASSUME save' = IdleSave
    PROVE  SaveInv' /\ WaitInv' /\ PlanInv'
BY IdleSaveFacts DEF SaveInv, WaitInv, PlanInv, Saving

(* What the steps of a careful administrator leave of the weeks shown. *)
LEMMA PutKeepsTable ==
    ASSUME Core, Put, UNCHANGED <<lesson, weeks>>, setting.careful
    PROVE  Quiet /\ Known(weeks, lesson)' /\ save.lesson = lesson /\ arrived /\ Locals(weeks)
<1>1. Quiet /\ save.lesson = lesson /\ arrived /\ Locals(weeks)
  BY DEF Core, WaitInv, Saving, Put
<1> QED BY <1>1 DEF Known, Locals

LEMMA RequestKeepsTable ==
    ASSUME Core, NEW k, Request(k), UNCHANGED <<lesson, weeks>>, setting.careful
    PROVE  Quiet /\ Known(weeks, lesson)' /\ save.lesson = lesson /\ arrived
<1>1. save.ph = "write" /\ Quiet /\ save.lesson = lesson /\ arrived /\ lesson \in Lesson
  BY DEF Core, PageTypes, WaitInv, Saving, Request, Sends
<1>2. Known(weeks, lesson)
  BY <1>1 DEF Core, PageInv
<1>3. \A i \in Row : rows[i].lesson = lesson => rows'[i].lesson = lesson
  BY <1>1, RequestFacts, ConstantsAssumption
<1> QED BY <1>1, <1>2, <1>3 DEF Known

LEMMA SaveSyllabusOk == Core /\ SaveSyllabus => Core'
<1> SUFFICES ASSUME Core, SaveSyllabus PROVE Core'
  OBVIOUS
<1>1. /\ Calm /\ ~Saving
      /\ save' = [IdleSave EXCEPT !.ph = "read", !.lesson = lesson, !.weeks = weeks]
      /\ UNCHANGED <<setting, nest, lesson, table, undo, arrived, edits, calls, faults>>
  BY DEF SaveSyllabus
<1>2. /\ weeks \in Seq(Week) /\ lesson \in Lesson /\ lesson \in Place
      /\ isWeeksPublished \in BOOLEAN /\ hasUnsavedChanges \in BOOLEAN
  BY DEF Core, PageTypes, Place
<1>3. /\ save'.ph = "read" /\ save'.lesson = lesson /\ save'.weeks = weeks /\ save'.left = {}
      /\ save' \in Save
  <2> DEFINE i == IdleSave
  <2>1. i \in Save /\ i.left = {}
    BY IdleSaveFacts
  <2> HIDE DEF i
  <2>2. save' = [i EXCEPT !.ph = "read", !.lesson = lesson, !.weeks = weeks]
    BY <1>1 DEF i
  <2> QED BY <1>2, <2>1, <2>2 DEF Save
<1>4. PageTypes' /\ PageInv' /\ CallInv'
  BY <1>1, <1>2, <1>3, SaveKeeps DEF Core, PageTypes, nest, table
<1>5. SaveInv' /\ PlanInv'
  BY <1>1, <1>2, <1>3 DEF SaveInv, PlanInv, Saving
<1>6. WaitInv'
  <2>1. setting.careful => arrived /\ Quiet /\ Known(weeks, lesson) /\ WellFormed(weeks)
    BY <1>1 DEF Core, PageInv, Calm
  <2>2. setting.careful => Quiet' /\ arrived' /\ Known(weeks, lesson)' /\ WellFormed(weeks)'
    BY <1>1, <2>1 DEF Quiet, Known, WellFormed, nest, table
  <2>3. save'.lesson = lesson' /\ save'.weeks = weeks' /\ setting' = setting
    BY <1>1, <1>3 DEF table
  <2> QED BY <1>3, <2>2, <2>3 DEF WaitInv
<1> QED BY <1>4, <1>5, <1>6 DEF Core

(* planNestWeekWrites, for a table whose stored weeks are the lesson's: each week
   gets a row of the lesson or none, and no row goes to two weeks. *)
LEMMA PlanFacts ==
    ASSUME save \in Save, save.lesson \in Lesson,
           Known(save.weeks, save.lesson), WellFormed(save.weeks),
           NEW list, \A k \in DOMAIN list : list[k] \in Row /\ rows[list[k]].lesson = save.lesson,
           NEW r \in Plans(save.weeks, list)
    PROVE  /\ \A k \in DOMAIN save.weeks : r[k] # Local => rows[r[k]].lesson = save.lesson
           /\ \A j, k \in DOMAIN save.weeks : r[k] # Local /\ r[j] = r[k] => j = k
<1> DEFINE ws == save.weeks
           Own(k) == ws[k].id \in Row /\ rows[ws[k].id].lesson = save.lesson
<1>1. \A k \in DOMAIN ws : r[k] = GoesTo(k, ws, list, r)
  BY DEF Plans
<1>2. \A k \in DOMAIN ws : ws[k].id # Local => Own(k)
  BY DEF Known
<1>3. \A k \in DOMAIN ws : Own(k) => r[k] = ws[k].id /\ ws[k].id # Local
  BY <1>1 DEF GoesTo, Row, Local
<1>4. \A k \in DOMAIN ws : ~Own(k) /\ r[k] # Local =>
        k \in DOMAIN list /\ r[k] = list[k] /\ list[k] \notin {r[j] : j \in 1..(k - 1)}
  BY <1>1, <1>2 DEF GoesTo
<1>5. DOMAIN ws = 1..Len(ws) /\ Len(ws) \in Nat
  BY SaveFields
<1>6. \A k \in DOMAIN ws : r[k] # Local => rows[r[k]].lesson = save.lesson
  BY <1>3, <1>4
<1>7. ASSUME NEW j \in DOMAIN ws, NEW k \in DOMAIN ws, j < k, r[k] # Local, r[j] = r[k]
      PROVE  FALSE
  <2>1. CASE Own(k)
    <3>1. ws[j].id # Local /\ ws[j].id # ws[k].id
      BY <1>3, <1>7, <2>1 DEF WellFormed
    <3>2. r[j] = ws[j].id /\ r[k] = ws[k].id
      BY <1>2, <1>3, <2>1, <3>1
    <3> QED BY <1>7, <3>1, <3>2
  <2>2. CASE ~Own(k)
    <3>1. j \in 1..(k - 1)
      BY <1>5, <1>7
    <3>2. r[k] \notin {r[x] : x \in 1..(k - 1)}
      BY <1>4, <1>7, <2>2
    <3> QED BY <1>7, <3>1, <3>2
  <2> QED BY <2>1, <2>2
<1>8. \A j, k \in DOMAIN ws : r[k] # Local /\ r[j] = r[k] => j = k
  <2> SUFFICES ASSUME NEW j \in DOMAIN ws, NEW k \in DOMAIN ws, r[k] # Local, r[j] = r[k], j # k
               PROVE  FALSE
    OBVIOUS
  <2>1. j < k \/ k < j
    BY <1>5
  <2> QED BY <1>7, <2>1
<1> QED BY <1>6, <1>8

LEMMA ReadRemoteOk == Core /\ ReadRemote => Core'
<1> SUFFICES ASSUME Core, ReadRemote PROVE Core'
  OBVIOUS
<1>1. /\ save.ph = "read"
      /\ UNCHANGED <<setting, nest, lesson, table, undo, arrived, edits, calls, faults>>
  BY DEF ReadRemote
<1>2. /\ save \in Save /\ save.lesson \in Lesson /\ save.lesson \in Place
      /\ rows \in [Row -> Stored]
      /\ DOMAIN save.weeks = 1..Len(save.weeks) /\ Len(save.weeks) \in Nat
      /\ save.weeks \in Seq(Week)
  BY <1>1, SaveFields DEF Core, PageTypes, SaveInv, Saving
<1>3. PICK list \in Listings(save.lesson) :
        IF FirstPublication(list)
        THEN save' = [save EXCEPT !.ph = "put", !.left = DOMAIN save.weeks,
                                  !.row = [k \in DOMAIN save.weeks |-> Local]]
        ELSE \E r \in Plans(save.weeks, list) :
               save' = [save EXCEPT
                 !.ph = "write", !.row = r,
                 !.left = {k \in DOMAIN save.weeks : ~Unchanged(k, save.weeks, r)}]
  BY DEF ReadRemote
<1>4. /\ \A k \in DOMAIN list : list[k] \in Row /\ rows[list[k]].lesson = save.lesson
      /\ list = <<>> => \A i \in Row : rows[i].lesson # save.lesson
  BY <1>2, ListingFacts
<1>5. setting.careful => /\ save.lesson = lesson /\ arrived /\ Quiet
                       /\ Known(save.weeks, save.lesson) /\ WellFormed(save.weeks)
                       /\ Known(weeks, lesson)
  BY <1>1 DEF Core, WaitInv, PageInv, Saving
<1>6. /\ isWeeksPublished' \in BOOLEAN /\ hasUnsavedChanges' \in BOOLEAN
      /\ isWeeksPublished' = isWeeksPublished /\ faults' \in 0..MaxFault
      /\ rows' = rows /\ rows' \in [Row -> Stored] /\ next' \in 1..(MaxRow + 1)
      /\ \A i \in Row : rows'[i].lesson # Nowhere => i < next'
  BY <1>1 DEF Core, PageTypes, nest, table
<1>7. UNCHANGED <<setting, lesson, weeks, undo, arrived, edits, calls>>
  BY <1>1 DEF table
<1>8. CASE FirstPublication(list)
  <2> DEFINE row == [k \in DOMAIN save.weeks |-> Local]
             left == DOMAIN save.weeks
  <2>1. row \in Seq(Row \cup {Local}) /\ left \in SUBSET Nat /\ DOMAIN row = left
    BY <1>2
  <2> HIDE DEF row, left
  <2>2. save' = [save EXCEPT !.ph = "put", !.left = left, !.row = row]
    BY <1>3, <1>8 DEF row, left
  <2>3. /\ save' \in Save /\ save'.ph = "put" /\ save'.row = row /\ save'.left = left
        /\ save'.lesson = save.lesson /\ save'.weeks = save.weeks
    BY <1>2, <2>1, <2>2 DEF Save
  <2>4. \A i \in Row : rows[i].lesson # save.lesson
    BY <1>4, <1>8 DEF FirstPublication
  <2>5. PageTypes' /\ PageInv' /\ CallInv'
    BY <1>6, <1>7, <2>3, SaveKeeps
  <2>6. SaveInv' /\ PlanInv'
    BY <1>2, <1>6, <2>1, <2>3, <2>4 DEF SaveInv, PlanInv, Saving, left
  <2>7. setting.careful => Locals(weeks)
    BY <1>5, <2>4 DEF Known, Locals
  <2>8. WaitInv'
    BY <1>5, <1>7, <2>3, <2>7 DEF WaitInv, Quiet, Locals
  <2> QED BY <2>5, <2>6, <2>8 DEF Core
<1>9. CASE ~FirstPublication(list)
  <2>1. PICK r \in Plans(save.weeks, list) :
          save' = [save EXCEPT
            !.ph = "write", !.row = r,
            !.left = {k \in DOMAIN save.weeks : ~Unchanged(k, save.weeks, r)}]
    BY <1>3, <1>9
  <2> DEFINE left == {k \in DOMAIN save.weeks : ~Unchanged(k, save.weeks, r)}
  <2>2. /\ r \in Seq(Row \cup {Local}) /\ DOMAIN r = DOMAIN save.weeks
        /\ left \in SUBSET Nat /\ left \subseteq DOMAIN save.weeks
        /\ \A k \in DOMAIN save.weeks \ left : Unchanged(k, save.weeks, r)
    BY <1>2 DEF Plans
  <2> HIDE DEF left
  <2>3. /\ save' \in Save /\ save'.ph = "write" /\ save'.row = r /\ save'.left = left
        /\ save'.lesson = save.lesson /\ save'.weeks = save.weeks
    BY <1>2, <2>1, <2>2 DEF Save, left
  <2>4. PageTypes' /\ PageInv' /\ CallInv'
    BY <1>6, <1>7, <2>3, SaveKeeps
  <2>5. SaveInv'
    BY <1>2, <2>2, <2>3 DEF SaveInv, Saving
  <2>6. WaitInv'
    BY <1>5, <1>7, <2>3 DEF WaitInv, Quiet
  <2>7. PlanInv'
    <3> SUFFICES ASSUME setting.careful PROVE PlanInv'
      BY <1>7 DEF PlanInv
    <3>1. /\ \A k \in DOMAIN save.weeks : r[k] # Local => rows[r[k]].lesson = save.lesson
          /\ \A j, k \in DOMAIN save.weeks : r[k] # Local /\ r[j] = r[k] => j = k
      BY <1>2, <1>4, <1>5, <2>1, PlanFacts
    <3>2. \A k \in DOMAIN save.weeks \ left :
            r[k] # Local /\ rows[r[k]] = Content(save.lesson, save.weeks[k])
      BY <2>2 DEF Unchanged
    <3> QED BY <1>6, <2>3, <3>1, <3>2 DEF PlanInv, Content
  <2> QED BY <2>4, <2>5, <2>6, <2>7 DEF Core
<1> QED BY <1>8, <1>9

LEMMA NewRowsFacts ==
    ASSUME Core, Put
    PROVE  /\ NewRows \in Seq(Row \cup {Local}) /\ DOMAIN NewRows = DOMAIN save.weeks
           /\ \A k \in DOMAIN save.weeks : NewRows[k] = next + k - 1 /\ NewRows[k] \in Row
<1>1. save \in Save
  BY DEF Core, PageTypes
<1>2. DOMAIN save.weeks = 1..Len(save.weeks) /\ Len(save.weeks) \in Nat
  BY <1>1, SaveFields
<1>3. \A k \in DOMAIN save.weeks : next + k - 1 \in Row
  BY PutFacts
<1> QED BY <1>2, <1>3 DEF NewRows

LEMMA PutAnsweredOk == Core /\ PutAnswered => Core'
<1> SUFFICES ASSUME Core, PutAnswered PROVE Core'
  OBVIOUS
<1>1. /\ Put /\ save' = [save EXCEPT !.ph = "write", !.left = {}, !.row = NewRows]
      /\ UNCHANGED <<setting, lesson, table, undo, arrived, edits, calls, faults>>
  BY DEF PutAnswered
<1> DEFINE row == NewRows
<1>2. /\ row \in Seq(Row \cup {Local}) /\ DOMAIN row = DOMAIN save.weeks
      /\ \A k \in DOMAIN save.weeks : row[k] = next + k - 1 /\ row[k] \in Row
  BY <1>1, NewRowsFacts
<1> HIDE DEF row
<1>3. save \in Save /\ save.lesson \in Lesson /\ DOMAIN save.weeks = 1..Len(save.weeks)
  BY <1>1, SaveFields DEF Core, PageTypes, SaveInv, Saving, Put
<1>4. save' = [save EXCEPT !.ph = "write", !.left = {}, !.row = row]
  BY <1>1 DEF row
<1>5. /\ save' \in Save /\ save'.ph = "write" /\ save'.row = row /\ save'.left = {}
      /\ save'.lesson = save.lesson /\ save'.weeks = save.weeks
  BY <1>2, <1>3, <1>4 DEF Save
<1>6. /\ rows' \in [Row -> Stored] /\ next' \in 1..(MaxRow + 1)
      /\ \A i \in Row : rows'[i].lesson # Nowhere => i < next'
      /\ \A k \in DOMAIN save.weeks : rows'[row[k]] = Content(save.lesson, save.weeks[k])
  BY <1>1, <1>2, PutFacts
<1>7. UNCHANGED <<setting, lesson, weeks, undo, arrived, edits, calls>>
  BY <1>1 DEF table
<1>8. setting.careful => Quiet /\ Known(weeks, lesson)' /\ save.lesson = lesson /\ arrived
  BY <1>1, <1>7, PutKeepsTable
<1>9. /\ isWeeksPublished' \in BOOLEAN /\ hasUnsavedChanges' \in BOOLEAN
      /\ isWeeksPublished' = isWeeksPublished /\ faults' \in 0..MaxFault
  BY <1>1 DEF Core, PageTypes, table
<1>10. PageTypes' /\ PageInv' /\ CallInv'
  BY <1>5, <1>6, <1>7, <1>8, <1>9, SaveKeeps
<1>11. SaveInv'
  BY <1>2, <1>3, <1>5 DEF SaveInv, Saving
<1>12. WaitInv'
  BY <1>5, <1>7, <1>8 DEF WaitInv, Quiet
<1>13. PlanInv'
  <2>1. \A k \in DOMAIN save.weeks : row[k] # Local /\ rows'[row[k]].lesson = save.lesson
    <3>1. \A k \in DOMAIN save.weeks : row[k] # Local
      BY <1>2 DEF Row, Local
    <3>2. \A k \in DOMAIN save.weeks : rows'[row[k]].lesson = save.lesson
      <4>1. \A k \in DOMAIN save.weeks :
              Content(save.lesson, save.weeks[k]).lesson = save.lesson
        BY DEF Content
      <4> QED BY <1>6, <4>1
    <3> QED BY <3>1, <3>2
  <2>2. \A j, k \in DOMAIN save.weeks : row[j] = row[k] => j = k
    <3>1. next \in Int
      BY DEF Core, PageTypes
    <3> QED BY <1>2, <1>3, <3>1
  <2> QED BY <1>5, <1>6, <2>1, <2>2 DEF PlanInv, Content
<1> QED BY <1>10, <1>11, <1>12, <1>13 DEF Core

LEMMA PutResentOk == Core /\ PutResent => Core'
<1> SUFFICES ASSUME Core, PutResent PROVE Core'
  OBVIOUS
<1>1. /\ Put /\ Fault /\ save' = [save EXCEPT !.again = TRUE, !.row = NewRows]
      /\ UNCHANGED <<setting, lesson, table, undo, arrived, edits, calls>>
  BY DEF PutResent
<1> DEFINE row == NewRows
<1>2. /\ row \in Seq(Row \cup {Local}) /\ DOMAIN row = DOMAIN save.weeks
      /\ \A k \in DOMAIN save.weeks : row[k] = next + k - 1 /\ row[k] \in Row
  BY <1>1, NewRowsFacts
<1> HIDE DEF row
<1>3. save \in Save /\ save.lesson \in Lesson /\ save.ph = "put"
  BY <1>1 DEF Core, PageTypes, SaveInv, Saving, Put
<1>4. save' = [save EXCEPT !.again = TRUE, !.row = row]
  BY <1>1 DEF row
<1>5. /\ save' \in Save /\ save'.ph = "put" /\ save'.row = row /\ save'.left = save.left
      /\ save'.lesson = save.lesson /\ save'.weeks = save.weeks /\ save'.again = TRUE
  BY <1>2, <1>3, <1>4 DEF Save
<1>6. /\ rows' \in [Row -> Stored] /\ next' \in 1..(MaxRow + 1)
      /\ \A i \in Row : rows'[i].lesson # Nowhere => i < next'
      /\ \A i \in Row : rows'[i].lesson = save.lesson => \E k \in DOMAIN row : row[k] = i
  BY <1>1, <1>2, PutFacts
<1>7. UNCHANGED <<setting, lesson, weeks, undo, arrived, edits, calls>>
  BY <1>1 DEF table
<1>8. setting.careful =>
        Quiet /\ Known(weeks, lesson)' /\ save.lesson = lesson /\ arrived /\ Locals(weeks)
  BY <1>1, <1>7, PutKeepsTable
<1>9. /\ isWeeksPublished' \in BOOLEAN /\ hasUnsavedChanges' \in BOOLEAN
      /\ isWeeksPublished' = isWeeksPublished /\ faults' \in 0..MaxFault
  BY <1>1, ConstantsAssumption DEF Core, PageTypes, table, Fault
<1>10. PageTypes' /\ PageInv' /\ CallInv'
  BY <1>5, <1>6, <1>7, <1>8, <1>9, SaveKeeps
<1>11. SaveInv'
  BY <1>2, <1>3, <1>5, <1>6 DEF Core, SaveInv, Saving
<1>12. WaitInv'
  BY <1>5, <1>7, <1>8 DEF WaitInv, Quiet, Locals
<1>13. PlanInv'
  BY <1>5 DEF PlanInv
<1> QED BY <1>10, <1>11, <1>12, <1>13 DEF Core

LEMMA RequestAnsweredOk == ASSUME Core, NEW k, RequestAnswered(k) PROVE Core'
<1>1. /\ Request(k)
      /\ save' = [save EXCEPT !.left = @ \ {k}, !.row[k] = IF @ = Local THEN next ELSE @]
      /\ UNCHANGED <<setting, lesson, table, undo, arrived, edits, calls, faults>>
  BY DEF RequestAnswered
<1> DEFINE t == IF save.row[k] = Local THEN next ELSE save.row[k]
           c == Content(save.lesson, save.weeks[k])
           row == [save.row EXCEPT ![k] = t]
           left == save.left \ {k}
<1>2. /\ k \in DOMAIN save.weeks /\ save.ph = "write" /\ save.lesson \in Lesson
      /\ t \in Row /\ rows' = [rows EXCEPT ![t] = c] /\ c.lesson = save.lesson
      /\ rows' \in [Row -> Stored] /\ next' \in 1..(MaxRow + 1)
      /\ \A i \in Row : rows'[i].lesson # Nowhere => i < next'
      /\ save.row[k] = Local => rows[t].lesson = Nowhere
      /\ save.row[k] # Local => t = save.row[k]
  BY <1>1, RequestFacts
<1>3. /\ save \in Save /\ DOMAIN save.row = DOMAIN save.weeks
      /\ save.left \subseteq DOMAIN save.weeks /\ rows \in [Row -> Stored]
  BY <1>2 DEF Core, PageTypes, SaveInv
<1>4. save' = [save EXCEPT !.left = left, !.row = row]
  BY <1>1
<1> HIDE DEF t, c
<1>5. /\ row \in Seq(Row \cup {Local}) /\ DOMAIN row = DOMAIN save.weeks
      /\ row[k] = t /\ \A j \in DOMAIN save.weeks : j # k => row[j] = save.row[j]
      /\ left \in SUBSET Nat /\ left \subseteq DOMAIN save.weeks
  <2>1. save.row \in Seq(Row \cup {Local}) /\ save.left \in SUBSET Nat
    BY <1>3, SaveFields
  <2> QED BY <1>2, <1>3, <2>1
<1> HIDE DEF row, left
<1>6. /\ save' \in Save /\ save'.ph = "write" /\ save'.row = row /\ save'.left = left
      /\ save'.lesson = save.lesson /\ save'.weeks = save.weeks
  BY <1>2, <1>3, <1>4, <1>5 DEF Save
<1>7. UNCHANGED <<setting, lesson, weeks, undo, arrived, edits, calls>>
  BY <1>1 DEF table
<1>8. setting.careful => Quiet /\ Known(weeks, lesson)' /\ save.lesson = lesson /\ arrived
  BY <1>1, <1>7, RequestKeepsTable
<1>9. /\ isWeeksPublished' \in BOOLEAN /\ hasUnsavedChanges' \in BOOLEAN
      /\ isWeeksPublished' = isWeeksPublished /\ faults' \in 0..MaxFault
  BY <1>1 DEF Core, PageTypes, table
<1>10. PageTypes' /\ PageInv' /\ CallInv'
  BY <1>2, <1>6, <1>7, <1>8, <1>9, SaveKeeps
<1>11. SaveInv'
  BY <1>2, <1>5, <1>6 DEF SaveInv, Saving
<1>12. WaitInv'
  BY <1>6, <1>7, <1>8 DEF WaitInv, Quiet
<1>13. PlanInv'
  <2> SUFFICES ASSUME setting.careful PROVE PlanInv'
    BY <1>7 DEF PlanInv
  <2>1. /\ \A j \in DOMAIN save.weeks :
             save.row[j] # Local => rows[save.row[j]].lesson = save.lesson
        /\ \A j \in DOMAIN save.weeks \ save.left :
             save.row[j] # Local /\ rows[save.row[j]] = Content(save.lesson, save.weeks[j])
        /\ \A i, j \in DOMAIN save.weeks :
             save.row[j] # Local /\ save.row[i] = save.row[j] => i = j
    BY <1>2 DEF Core, PlanInv
  <2>2. save.lesson # Nowhere /\ t # Local
    BY <1>2, ConstantsAssumption DEF Row, Local
  <2>3. \A j \in DOMAIN save.weeks : j # k => save.row[j] # t
    <3> SUFFICES ASSUME NEW j \in DOMAIN save.weeks, j # k, save.row[j] = t PROVE FALSE
      OBVIOUS
    <3>1. rows[t].lesson = save.lesson
      BY <2>1, <2>2
    <3> QED BY <1>2, <2>1, <2>2, <3>1
  <2>4. \A j \in DOMAIN save.weeks : j # k /\ save.row[j] # Local =>
          save.row[j] \in Row /\ rows'[row[j]] = rows[save.row[j]]
    <3>1. \A j \in DOMAIN save.weeks : save.row[j] \in Row \cup {Local}
      BY <1>3, SaveFields
    <3> QED BY <1>2, <1>3, <1>5, <2>3, <3>1
  <2>5. rows'[row[k]] = c
    BY <1>2, <1>3, <1>5
  <2>6. \A j \in DOMAIN save.weeks : row[j] # Local => rows'[row[j]].lesson = save.lesson
    BY <1>2, <1>5, <2>1, <2>4, <2>5
  <2>7. \A j \in DOMAIN save.weeks \ left :
          row[j] # Local /\ rows'[row[j]] = Content(save.lesson, save.weeks[j])
    <3> TAKE j \in DOMAIN save.weeks \ left
    <3>1. CASE j = k
      BY <1>5, <2>2, <2>5, <3>1 DEF c
    <3>2. CASE j # k
      <4>1. j \in DOMAIN save.weeks \ save.left
        BY <3>2 DEF left
      <4> QED BY <1>5, <2>1, <2>4, <3>2, <4>1
    <3> QED BY <3>1, <3>2
  <2>8. \A i, j \in DOMAIN save.weeks : row[j] # Local /\ row[i] = row[j] => i = j
    BY <1>5, <2>1, <2>3
  <2> QED BY <1>6, <2>6, <2>7, <2>8 DEF PlanInv, Content
<1> QED BY <1>10, <1>11, <1>12, <1>13 DEF Core

LEMMA SaveFailsOk == Core /\ SaveFails => Core'
<1> SUFFICES ASSUME Core, SaveFails PROVE Core'
  OBVIOUS
<1>1. /\ Fault /\ save' = IdleSave
      /\ UNCHANGED nest \/ Put \/ \E k \in save.left : Request(k)
      /\ UNCHANGED <<setting, lesson, table, undo, arrived, edits, calls>>
  BY DEF SaveFails
<1>2. UNCHANGED <<setting, lesson, weeks, undo, arrived, edits, calls>>
  BY <1>1 DEF table
<1>3. /\ rows' \in [Row -> Stored] /\ next' \in 1..(MaxRow + 1)
      /\ \A i \in Row : rows'[i].lesson # Nowhere => i < next'
      /\ \/ rows' = rows
         \/ setting.careful => Quiet /\ (arrived => Known(weeks, lesson)')
  <2>1. CASE UNCHANGED nest
    BY <2>1 DEF Core, PageTypes, nest
  <2>2. CASE Put
    BY <1>2, <2>2, PutFacts, PutKeepsTable
  <2>3. CASE \E k \in save.left : Request(k)
    BY <1>2, <2>3, RequestFacts, RequestKeepsTable
  <2> QED BY <1>1, <2>1, <2>2, <2>3
<1>4. /\ isWeeksPublished' \in BOOLEAN /\ hasUnsavedChanges' \in BOOLEAN
      /\ isWeeksPublished' = isWeeksPublished /\ faults' \in 0..MaxFault
  BY <1>1, ConstantsAssumption DEF Core, PageTypes, table, Fault
<1>5. PageTypes' /\ PageInv' /\ CallInv'
  BY <1>1, <1>2, <1>3, <1>4, IdleSaveFacts, SaveKeeps
<1> QED BY <1>1, <1>5, SaveEnds DEF Core

LEMMA SnapshotReadOk == Core /\ SnapshotRead => Core'
<1> SUFFICES ASSUME Core, SnapshotRead PROVE Core'
  OBVIOUS
<1>1. /\ save.ph = "write" /\ save.left = {}
      /\ hasUnsavedChanges' = FALSE /\ isWeeksPublished' = TRUE
      /\ save' = [save EXCEPT !.ph = "reload"]
      /\ UNCHANGED <<setting, nest, lesson, weeks, undo, arrived, edits, calls, faults>>
  BY DEF SnapshotRead, Written
<1>2. save \in Save
  BY DEF Core, PageTypes
<1>3. /\ save' \in Save /\ save'.ph = "reload" /\ save'.row = save.row
      /\ save'.left = save.left /\ save'.lesson = save.lesson /\ save'.weeks = save.weeks
  BY <1>1, <1>2 DEF Save
<1>4. /\ rows' = rows /\ rows' \in [Row -> Stored] /\ next' \in 1..(MaxRow + 1)
      /\ \A i \in Row : rows'[i].lesson # Nowhere => i < next'
      /\ faults' \in 0..MaxFault
  BY <1>1 DEF Core, PageTypes, nest
<1>5. PageTypes' /\ PageInv' /\ CallInv'
  BY <1>1, <1>3, <1>4, SaveKeeps
<1>6. SaveInv'
  BY <1>1, <1>3 DEF Core, SaveInv, Saving
<1>7. WaitInv'
  BY <1>1, <1>3 DEF Core, WaitInv, Saving, Quiet
<1>8. PlanInv'
  BY <1>1, <1>3, <1>4 DEF Core, PlanInv, Content
<1> QED BY <1>5, <1>6, <1>7, <1>8 DEF Core

LEMMA QuietEndOk ==
    ASSUME Core, SnapshotFails \/ ReloadFails PROVE Core'
<1>1. /\ Fault /\ save' = IdleSave /\ isWeeksPublished' = isWeeksPublished
      /\ hasUnsavedChanges' \in {hasUnsavedChanges, FALSE}
      /\ UNCHANGED <<setting, nest, lesson, weeks, undo, arrived, edits, calls>>
  BY DEF SnapshotFails, ReloadFails, table
<1>2. /\ rows' = rows /\ rows' \in [Row -> Stored] /\ next' \in 1..(MaxRow + 1)
      /\ \A i \in Row : rows'[i].lesson # Nowhere => i < next'
      /\ isWeeksPublished' \in BOOLEAN /\ hasUnsavedChanges' \in BOOLEAN
      /\ faults' \in 0..MaxFault
  <2>1. /\ rows' = rows /\ rows' \in [Row -> Stored] /\ next' \in 1..(MaxRow + 1)
        /\ \A i \in Row : rows'[i].lesson # Nowhere => i < next'
    BY <1>1 DEF Core, PageTypes, nest
  <2>2. isWeeksPublished' \in BOOLEAN
    BY <1>1 DEF Core, PageTypes
  <2>3. hasUnsavedChanges' \in BOOLEAN
    <3>1. hasUnsavedChanges \in BOOLEAN /\ FALSE \in BOOLEAN
      BY DEF Core, PageTypes
    <3> QED BY <1>1, <3>1
  <2>4. faults' \in 0..MaxFault
    BY <1>1, ConstantsAssumption DEF Core, PageTypes, Fault
  <2> QED BY <2>1, <2>2, <2>3, <2>4
<1>3. PageTypes' /\ PageInv' /\ CallInv'
  BY <1>1, <1>2, IdleSaveFacts, SaveKeeps
<1> QED BY <1>1, <1>3, SaveEnds DEF Core

LEMMA ReloadOk == Core /\ Reload => Core'
<1> SUFFICES ASSUME Core, Reload PROVE Core'
  OBVIOUS
<1>1. /\ save.ph = "reload" /\ save' = IdleSave
      /\ UNCHANGED <<setting, nest, lesson, hasUnsavedChanges, undo, arrived, edits, calls, faults>>
  BY DEF Reload
<1>2. rows \in [Row -> Stored] /\ save.lesson \in Place
  BY SaveFields DEF Core, PageTypes
<1>3. PICK list \in Listings(save.lesson) :
        weeks' = Shown(list) /\ isWeeksPublished' = (list # <<>>)
  BY DEF Reload
<1>4. /\ Shown(list) \in Seq(Week) /\ Known(Shown(list), save.lesson)
      /\ WellFormed(Shown(list)) /\ DOMAIN Shown(list) = DOMAIN list
  BY <1>2, <1>3, ListingFacts
<1>5. PageTypes'
  <2>1. isWeeksPublished' \in BOOLEAN
    BY <1>3
  <2> QED BY <1>1, <1>3, <1>4, <2>1, IdleSaveFacts DEF Core, PageTypes, nest
<1>6. PageInv'
  <2>1. ~isWeeksPublished' => Locals(weeks')
    <3>1. list = <<>> => DOMAIN Shown(list) = {}
      BY <1>4
    <3> QED BY <1>3, <3>1 DEF Locals
  <2>2. setting.careful => save.lesson = lesson
    BY <1>1 DEF Core, WaitInv, Saving
  <2>3. setting.careful => Known(Shown(list), lesson) /\ Locals(undo)
    BY <1>4, <2>2 DEF Core, PageInv
  <2>4. Known(Shown(list), lesson) => Known(weeks, lesson)'
    BY <1>1, <1>3 DEF Known, nest
  <2>5. WellFormed(weeks')
    BY <1>3, <1>4
  <2> QED BY <1>1, <2>1, <2>3, <2>4, <2>5 DEF PageInv, WellFormed, Locals
<1>7. CallInv'
  BY <1>1 DEF Core, CallInv, Answered, Known, WellFormed, nest
<1> QED BY <1>1, <1>5, <1>6, <1>7, SaveEnds DEF Core
-----------------------------------------------------------------------------
(* A restored draft. *)
LEMMA RestoreDraftOk == IInv /\ RestoreDraft => Core'
<1> SUFFICES ASSUME IInv, RestoreDraft PROVE Core'
  OBVIOUS
<1>1. /\ weeks' = offer.weeks /\ hasUnsavedChanges' = TRUE
      /\ arrived' = (offer.own /\ offer.of = lesson)
      /\ UNCHANGED <<setting, nest, lesson, isWeeksPublished, undo, draft, edits,
                     calls, save, faults>>
      /\ setting.careful => Calm /\ offer.own /\ offer.of = lesson
  BY DEF RestoreDraft
<1>2. Core /\ offer \in Offer /\ offer.weeks \in Seq(Week) /\ offer.own \in BOOLEAN
  BY DEF IInv, KeptInv, Offer
<1>3. CASE setting.careful
  <2>1. arrived /\ arrived' = arrived
    BY <1>1, <1>3 DEF Calm
  <2>2. lesson \in Lesson /\ offer.weeks \in OwnTables(lesson)
    BY <1>1, <1>2, <1>3 DEF OwnTables, Core, PageTypes
  <2>3. /\ Known(offer.weeks, lesson) /\ WellFormed(offer.weeks)
        /\ arrived /\ ~isWeeksPublished => Locals(offer.weeks)
        /\ save.ph = "put" => Locals(offer.weeks)
    BY <1>3, <2>2 DEF IInv, KeptInv
  <2>4. Locals(undo) /\ undo' \in Seq(Week) /\ edits' \in 0..setting.edits
    BY <1>1, <1>2, <1>3 DEF Core, PageInv, PageTypes
  <2> QED BY <1>1, <1>2, <2>1, <2>3, <2>4, TableKeeps
<1>4. CASE ~setting.careful
  <2>1. arrived' \in BOOLEAN
    BY <1>1
  <2>2. PageTypes'
    BY <1>1, <1>2, <2>1 DEF Core, PageTypes, nest
  <2>3. SaveInv'
    BY <1>1, <1>2 DEF Core, SaveInv, Saving, nest
  <2>4. PageInv' /\ CallInv' /\ WaitInv' /\ PlanInv'
    BY <1>1, <1>4 DEF PageInv, CallInv, WaitInv, PlanInv
  <2> QED BY <2>2, <2>3, <2>4 DEF Core
<1> QED BY <1>3, <1>4
-----------------------------------------------------------------------------
(* The drafts. *)

(* The rows that a step may change: those of a PUT and the one of a request. *)
RowStep == rows' = rows \/ Put \/ \E k \in save.left : Request(k)

LEMMA KeptKnown ==
    ASSUME IInv, setting.careful, RowStep,
           NEW l \in Lesson, NEW ws \in OwnTables(l)
    PROVE  Known(ws, l)'
<1>1. Core /\ Known(ws, l)
  BY DEF IInv, KeptInv
<1>2. l # Nowhere
  BY ConstantsAssumption
<1>3. CASE rows' = rows
  BY <1>1, <1>3 DEF Known
<1>4. CASE Put
  <2>1. save.ph = "put" /\ save.lesson = lesson
    BY <1>1, <1>4 DEF Put, Core, WaitInv, Saving
  <2>2. CASE l = lesson
    <3>1. Locals(ws)
      BY <2>1, <2>2 DEF IInv, KeptInv
    <3> QED BY <3>1 DEF Known, Locals
  <2>3. CASE l # lesson
    <3>1. \A i \in Row : rows[i].lesson = l => rows'[i].lesson = l
      BY <1>1, <1>2, <1>4, <2>1, <2>3, PutFacts
    <3> QED BY <1>1, <3>1 DEF Known
  <2> QED BY <2>2, <2>3
<1>5. CASE \E k \in save.left : Request(k)
  <2>1. \A i \in Row : rows[i].lesson = l => rows'[i].lesson = l
    BY <1>1, <1>2, <1>5, RequestFacts
  <2> QED BY <1>1, <2>1 DEF Known
<1> QED BY <1>3, <1>4, <1>5 DEF RowStep

LEMMA KeptKeeps ==
    ASSUME IInv, RowStep, setting' = setting,
           draft' \in [Lesson -> Draft], offer' \in Offer, lesson' \in Lesson,
           \A l \in Lesson : OwnTables(l)' \subseteq OwnTables(l) \cup {<<>>},
           NEW now, now = lesson',
           setting.careful => \A ws \in OwnTables(now) :
             /\ arrived' /\ ~isWeeksPublished' => Locals(ws)
             /\ save'.ph = "put" => Locals(ws)
    PROVE  KeptInv'
<1> SUFFICES ASSUME setting.careful PROVE KeptInv'
  BY DEF KeptInv
<1>1. ASSUME NEW l \in Lesson, NEW ws \in OwnTables(l)'
      PROVE  Known(ws, l)' /\ WellFormed(ws)
  <2>1. CASE ws = <<>>
    BY <2>1 DEF Known, WellFormed
  <2>2. CASE ws \in OwnTables(l)
    <3>1. WellFormed(ws)
      BY <2>2 DEF IInv, KeptInv
    <3> QED BY <2>2, <3>1, KeptKnown
  <2> QED BY <1>1, <2>1, <2>2
<1>2. ASSUME NEW ws \in OwnTables(lesson)'
      PROVE  /\ arrived' /\ ~isWeeksPublished' => Locals(ws)
             /\ save'.ph = "put" => Locals(ws)
  <2>1. ws \in OwnTables(now) \cup {<<>>}
    BY <1>2 DEF OwnTables
  <2>2. Locals(<<>>)
    BY DEF Locals
  <2> QED BY <2>1, <2>2
<1> QED BY <1>1, <1>2 DEF KeptInv, WellFormed, Locals

(* Steps that leave the drafts, the lesson and what is there of it. *)
LEMMA KeptSame ==
    ASSUME IInv, RowStep, UNCHANGED <<setting, kept, lesson, arrived>>,
           isWeeksPublished => isWeeksPublished',
           save'.ph = "put" => save.ph = "put"
    PROVE  KeptInv'
<1>1. draft' = draft /\ offer' = offer /\ lesson' = lesson /\ arrived' = arrived
  BY DEF kept
<1>2. draft' \in [Lesson -> Draft] /\ offer' \in Offer /\ lesson' \in Lesson
  BY <1>1 DEF IInv, KeptInv, Core, PageTypes
<1>3. \A l \in Lesson : OwnTables(l)' \subseteq OwnTables(l) \cup {<<>>}
  BY <1>1 DEF OwnTables
<1>4. setting.careful => \A ws \in OwnTables(lesson) :
        /\ arrived' /\ ~isWeeksPublished' => Locals(ws)
        /\ save'.ph = "put" => Locals(ws)
  BY <1>1 DEF IInv, KeptInv
<1> QED BY <1>1, <1>2, <1>3, <1>4, KeptKeeps

LEMMA ClearDraftFacts ==
    ASSUME IInv, NEW k, ClearDraft(k)
    PROVE  /\ draft' \in [Lesson -> Draft] /\ offer' \in Offer
           /\ \A l \in Lesson : OwnTables(l)' \subseteq OwnTables(l)
<1>1. NoDraft \in Draft /\ ~NoDraft.own /\ NoOffer \in Offer /\ ~NoOffer.own
  BY DEF NoDraft, NoOffer, Draft, Offer, Place
<1>2. draft \in [Lesson -> Draft] /\ draft' = [draft EXCEPT ![k] = NoDraft] /\ offer' = NoOffer
  BY DEF IInv, KeptInv, ClearDraft
<1> QED BY <1>1, <1>2 DEF OwnTables

(* Without a row of the lesson its drafts hold none that is stored. *)
LEMMA NoRowsNoneStored ==
    ASSUME IInv, setting.careful, NEW l \in Lesson,
           \A i \in Row : rows[i].lesson # l, NEW ws \in OwnTables(l)
    PROVE  Locals(ws)
<1>1. Known(ws, l)
  BY DEF IInv, KeptInv
<1> QED BY <1>1 DEF Known, Locals

LEMMA DraftStoredKept == IInv /\ DraftStored => KeptInv'
<1> SUFFICES ASSUME IInv, DraftStored PROVE KeptInv'
  OBVIOUS
<1> DEFINE d == [weeks |-> weeks, own |-> arrived]
<1>1. /\ draft' = [draft EXCEPT ![lesson] = d] /\ offer' = offer
      /\ UNCHANGED <<setting, nest, lesson, table, arrived, save>>
  BY DEF DraftStored
<1>2. /\ d \in Draft /\ d.weeks = weeks /\ d.own = arrived
      /\ lesson \in Lesson /\ draft \in [Lesson -> Draft] /\ offer \in Offer
  BY DEF IInv, KeptInv, Core, PageTypes, Draft
<1> HIDE DEF d
<1>3. draft' \in [Lesson -> Draft] /\ offer' \in Offer
  BY <1>1, <1>2
<1>4. ASSUME setting.careful, NEW l \in Lesson, NEW ws \in OwnTables(l)'
      PROVE  \/ ws \in OwnTables(l)
             \/ (l = lesson /\ ws = weeks /\ arrived)
  BY <1>1, <1>2, <1>4 DEF OwnTables
<1>5. setting.careful /\ arrived =>
        /\ Known(weeks, lesson) /\ WellFormed(weeks)
        /\ ~isWeeksPublished => Locals(weeks)
        /\ save.ph = "put" => Locals(weeks)
  BY DEF IInv, Core, PageInv, WaitInv, Saving
<1>6. ASSUME setting.careful, NEW l \in Lesson, NEW ws \in OwnTables(l)'
      PROVE  Known(ws, l)' /\ WellFormed(ws)
  <2>1. Known(ws, l) /\ WellFormed(ws)
    BY <1>4, <1>5, <1>6 DEF IInv, KeptInv
  <2> QED BY <1>1, <2>1 DEF Known, nest
<1>7. ASSUME setting.careful, NEW ws \in OwnTables(lesson)'
      PROVE  /\ arrived /\ ~isWeeksPublished => Locals(ws)
             /\ save.ph = "put" => Locals(ws)
  <2>1. ws \in OwnTables(lesson) \/ (ws = weeks /\ arrived)
    BY <1>1, <1>2, <1>7 DEF OwnTables
  <2> QED BY <1>5, <1>7, <2>1 DEF IInv, KeptInv
<1>8. setting' = setting /\ isWeeksPublished' = isWeeksPublished /\ arrived' = arrived /\ save' = save
  BY <1>1 DEF table
<1> QED BY <1>3, <1>6, <1>7, <1>8 DEF KeptInv, WellFormed, Locals

LEMMA OfferKept == IInv /\ (OfferDraft \/ RestoreDraft) => KeptInv'
<1> SUFFICES ASSUME IInv, OfferDraft \/ RestoreDraft PROVE KeptInv'
  OBVIOUS
<1>1. /\ UNCHANGED <<setting, nest, lesson, isWeeksPublished, save>> /\ draft' = draft
      /\ setting.careful => arrived' = arrived
  <2>1. CASE OfferDraft
    BY <2>1 DEF OfferDraft, table
  <2>2. CASE RestoreDraft
    BY <2>2 DEF RestoreDraft, Calm
  <2> QED BY <2>1, <2>2
<1>2. /\ lesson \in Lesson /\ draft \in [Lesson -> Draft] /\ offer \in Offer
      /\ draft[lesson] \in Draft /\ <<>> \in Seq(Week)
  BY DEF IInv, KeptInv, Core, PageTypes
<1>3. offer' \in Offer /\ \A l \in Lesson : OwnTables(l)' \subseteq OwnTables(l) \cup {<<>>}
  <2>1. CASE OfferDraft
    <3>1. offer' = [of |-> lesson, weeks |-> draft[lesson].weeks, own |-> draft[lesson].own]
      BY <2>1 DEF OfferDraft
    <3>2. offer' \in Offer
      BY <1>2, <3>1 DEF Offer, Draft, Place
    <3> QED BY <1>1, <3>1, <3>2 DEF OwnTables
  <2>2. CASE RestoreDraft
    <3>1. offer' = [offer EXCEPT !.weeks = <<>>]
      BY <2>2 DEF RestoreDraft
    <3>2. offer' \in Offer /\ offer'.weeks = <<>>
      BY <1>2, <3>1 DEF Offer
    <3> QED BY <1>1, <3>2 DEF OwnTables
  <2> QED BY <2>1, <2>2
<1>4. setting.careful => \A ws \in OwnTables(lesson) :
        /\ arrived' /\ ~isWeeksPublished' => Locals(ws)
        /\ save'.ph = "put" => Locals(ws)
  BY <1>1 DEF IInv, KeptInv
<1>5. RowStep /\ setting' = setting /\ lesson' = lesson
  BY <1>1 DEF RowStep, nest
<1> QED BY <1>1, <1>2, <1>3, <1>4, <1>5, KeptKeeps

LEMMA SelectCourseKept ==
    ASSUME IInv, NEW s \in Slot, NEW l \in Lesson, SelectCourse(s, l) PROVE KeptInv'
<1>1. /\ lesson' = l /\ arrived' = FALSE /\ (setting.careful => ~Saving)
      /\ UNCHANGED <<setting, nest, save>> /\ draft' = draft /\ offer' = offer
  BY DEF SelectCourse, kept
<1>2. /\ draft' \in [Lesson -> Draft] /\ offer' \in Offer
      /\ \A m \in Lesson : OwnTables(m)' \subseteq OwnTables(m) \cup {<<>>}
  BY <1>1 DEF IInv, KeptInv, OwnTables
<1>3. setting.careful => save'.ph # "put"
  BY <1>1 DEF Saving
<1>4. RowStep
  BY <1>1 DEF RowStep, nest
<1> QED BY <1>1, <1>2, <1>3, <1>4, KeptKeeps

LEMMA AnswerKept == ASSUME IInv, NEW s \in Slot, Answer(s) PROVE KeptInv'
<1>1. /\ calls[s].ph = "served" /\ isWeeksPublished' = (calls[s].weeks # <<>>)
      /\ arrived' = (calls[s].lesson = lesson)
      /\ UNCHANGED <<setting, nest, lesson, save>>
      /\ UNCHANGED kept \/ ClearDraft(calls[s].clears)
  BY DEF Answer
<1>2. /\ draft' \in [Lesson -> Draft] /\ offer' \in Offer
      /\ \A m \in Lesson : OwnTables(m)' \subseteq OwnTables(m) \cup {<<>>}
  <2>1. CASE UNCHANGED kept
    BY <2>1 DEF IInv, KeptInv, OwnTables, kept
  <2>2. CASE ClearDraft(calls[s].clears)
    BY <2>2, ClearDraftFacts
  <2> QED BY <1>1, <2>1, <2>2
<1>3. lesson \in Lesson /\ lesson' = lesson /\ setting' = setting /\ RowStep
  BY <1>1 DEF IInv, Core, PageTypes, RowStep, nest
<1>4. ASSUME setting.careful, NEW ws \in OwnTables(lesson)
      PROVE  /\ arrived' /\ ~isWeeksPublished' => Locals(ws)
             /\ save'.ph # "put"
  <2>1. arrived' /\ ~isWeeksPublished' => \A i \in Row : rows[i].lesson # lesson
    BY <1>1, <1>4 DEF IInv, Core, CallInv, Answered
  <2>2. ~Saving
    BY <1>1, <1>4 DEF IInv, Core, WaitInv, Quiet
  <2> QED BY <1>1, <1>3, <1>4, <2>1, <2>2, NoRowsNoneStored DEF Saving
<1> QED BY <1>2, <1>3, <1>4, KeptKeeps

LEMMA ReadRemoteKept == IInv /\ ReadRemote => KeptInv'
<1> SUFFICES ASSUME IInv, ReadRemote PROVE KeptInv'
  OBVIOUS
<1>1. /\ save.ph = "read"
      /\ UNCHANGED <<setting, nest, lesson, arrived>> /\ draft' = draft /\ offer' = offer
      /\ isWeeksPublished' = isWeeksPublished
  BY DEF ReadRemote, kept, table
<1>2. /\ save \in Save /\ save.lesson \in Place /\ rows \in [Row -> Stored] /\ lesson \in Lesson
  BY SaveFields DEF IInv, Core, PageTypes
<1>3. save'.ph = "put" => \A i \in Row : rows[i].lesson # save.lesson
  <2>1. PICK list \in Listings(save.lesson) :
          IF FirstPublication(list)
          THEN save' = [save EXCEPT !.ph = "put", !.left = DOMAIN save.weeks,
                                    !.row = [k \in DOMAIN save.weeks |-> Local]]
          ELSE \E r \in Plans(save.weeks, list) :
                 save' = [save EXCEPT
                   !.ph = "write", !.row = r,
                   !.left = {k \in DOMAIN save.weeks : ~Unchanged(k, save.weeks, r)}]
    BY DEF ReadRemote
  <2>2. CASE FirstPublication(list)
    BY <1>2, <2>2, ListingFacts DEF FirstPublication
  <2>3. CASE ~FirstPublication(list)
    <3>1. PICK r : save' = [save EXCEPT
                   !.ph = "write", !.row = r,
                   !.left = {k \in DOMAIN save.weeks : ~Unchanged(k, save.weeks, r)}]
      BY <2>1, <2>3
    <3>2. save'.ph = "write"
      BY <1>2, <3>1 DEF Save
    <3> QED BY <3>2
  <2> QED BY <2>2, <2>3
<1>4. /\ draft' \in [Lesson -> Draft] /\ offer' \in Offer /\ lesson' = lesson
      /\ \A m \in Lesson : OwnTables(m)' \subseteq OwnTables(m) \cup {<<>>}
  BY <1>1 DEF IInv, KeptInv, OwnTables
<1>5. ASSUME setting.careful, NEW ws \in OwnTables(lesson)
      PROVE  /\ arrived' /\ ~isWeeksPublished' => Locals(ws)
             /\ save'.ph = "put" => Locals(ws)
  <2>1. save.lesson = lesson
    BY <1>1, <1>5 DEF IInv, Core, WaitInv, Saving
  <2>2. arrived /\ ~isWeeksPublished => Locals(ws)
    BY <1>5 DEF IInv, KeptInv
  <2> QED BY <1>1, <1>2, <1>3, <1>5, <2>1, <2>2, NoRowsNoneStored
<1>6. RowStep
  BY <1>1 DEF RowStep, nest
<1> QED BY <1>1, <1>2, <1>4, <1>5, <1>6, KeptKeeps

LEMMA SnapshotKept == IInv /\ (SnapshotRead \/ SnapshotFails) => KeptInv'
<1> SUFFICES ASSUME IInv, SnapshotRead \/ SnapshotFails PROVE KeptInv'
  OBVIOUS
<1>1. /\ UNCHANGED <<setting, nest, lesson, arrived>> /\ ClearDraft(save.lesson)
      /\ isWeeksPublished => isWeeksPublished'
      /\ save'.ph # "put"
  <2>1. save \in Save
    BY DEF IInv, Core, PageTypes
  <2>2. CASE SnapshotRead
    <3>1. save' = [save EXCEPT !.ph = "reload"]
      BY <2>2 DEF SnapshotRead
    <3>2. save'.ph = "reload"
      BY <2>1, <3>1 DEF Save
    <3> QED BY <2>2, <3>2 DEF SnapshotRead
  <2>3. CASE SnapshotFails
    BY <2>3, IdleSaveFacts DEF SnapshotFails
  <2> QED BY <2>2, <2>3
<1>2. /\ draft' \in [Lesson -> Draft] /\ offer' \in Offer
      /\ \A m \in Lesson : OwnTables(m)' \subseteq OwnTables(m) \cup {<<>>}
  BY <1>1, ClearDraftFacts
<1>3. lesson \in Lesson /\ lesson' = lesson /\ setting' = setting /\ RowStep
  BY <1>1 DEF IInv, Core, PageTypes, RowStep, nest
<1>4. setting.careful => \A ws \in OwnTables(lesson) :
        /\ arrived' /\ ~isWeeksPublished' => Locals(ws)
        /\ save'.ph = "put" => Locals(ws)
  BY <1>1 DEF IInv, KeptInv
<1> QED BY <1>2, <1>3, <1>4, KeptKeeps

LEMMA ReloadKept == IInv /\ Reload => KeptInv'
<1> SUFFICES ASSUME IInv, Reload PROVE KeptInv'
  OBVIOUS
<1>1. /\ save.ph = "reload" /\ save' = IdleSave
      /\ UNCHANGED <<setting, nest, lesson, arrived>> /\ draft' = draft /\ offer' = offer
  BY DEF Reload, kept
<1>2. /\ save.lesson \in Place /\ rows \in [Row -> Stored] /\ lesson \in Lesson
  BY SaveFields DEF IInv, Core, PageTypes
<1>3. PICK list \in Listings(save.lesson) : isWeeksPublished' = (list # <<>>)
  BY DEF Reload
<1>4. ~isWeeksPublished' => \A i \in Row : rows[i].lesson # save.lesson
  BY <1>2, <1>3, ListingFacts
<1>5. /\ draft' \in [Lesson -> Draft] /\ offer' \in Offer /\ lesson' = lesson
      /\ \A m \in Lesson : OwnTables(m)' \subseteq OwnTables(m) \cup {<<>>}
  BY <1>1 DEF IInv, KeptInv, OwnTables
<1>6. ASSUME setting.careful, NEW ws \in OwnTables(lesson)
      PROVE  /\ arrived' /\ ~isWeeksPublished' => Locals(ws)
             /\ save'.ph # "put"
  <2>1. save.lesson = lesson
    BY <1>1, <1>6 DEF IInv, Core, WaitInv, Saving
  <2> QED BY <1>1, <1>2, <1>4, <1>6, <2>1, NoRowsNoneStored, IdleSaveFacts
<1>7. RowStep
  BY <1>1 DEF RowStep, nest
<1> QED BY <1>1, <1>2, <1>5, <1>6, <1>7, KeptKeeps

(* All other steps leave the drafts alone. *)
LEMMA OthersKept ==
    ASSUME IInv, RowStep,
           \/ UNCHANGED <<setting, kept, lesson, arrived, isWeeksPublished, save>>
           \/ SaveSyllabus \/ PutAnswered \/ PutResent \/ SaveFails \/ ReloadFails
           \/ \E k \in save.left : RequestAnswered(k)
    PROVE  KeptInv'
<1>1. save \in Save
  BY DEF IInv, Core, PageTypes
<1>2. CASE UNCHANGED <<setting, kept, lesson, arrived, isWeeksPublished, save>>
  BY <1>2, KeptSame
<1>3. CASE SaveSyllabus
  <2>1. save'.ph = "read"
    BY <1>3 DEF SaveSyllabus, IdleSave
  <2> QED BY <1>3, <2>1, KeptSame DEF SaveSyllabus, table
<1>4. CASE PutAnswered \/ PutResent
  <2>1. save.ph = "put"
    BY <1>4 DEF PutAnswered, PutResent, Put
  <2> QED BY <1>4, <2>1, KeptSame DEF PutAnswered, PutResent, table
<1>5. CASE SaveFails \/ ReloadFails
  BY <1>5, IdleSaveFacts, KeptSame DEF SaveFails, ReloadFails, table
<1>6. CASE \E k \in save.left : RequestAnswered(k)
  <2>1. PICK k \in save.left : RequestAnswered(k)
    BY <1>6
  <2>2. save'.ph = save.ph
    BY <1>1, <2>1 DEF RequestAnswered, Save
  <2> QED BY <2>1, <2>2, KeptSame DEF RequestAnswered, table
<1> QED BY <1>2, <1>3, <1>4, <1>5, <1>6
-----------------------------------------------------------------------------
(* The theorems. *)

LEMMA RowSteps == [Next]_vars => RowStep
<1> SUFFICES ASSUME [Next]_vars PROVE RowStep
  OBVIOUS
<1>2. ASSUME NEW k \in DOMAIN weeks, UpdateWeekWeight(k) \/ ArchiveWeek(k) \/ RestoreWeek(k)
      PROVE  rows' = rows
  <2>1. PICK w : Edit(k, w)
    BY <1>2 DEF UpdateWeekWeight, ArchiveWeek, RestoreWeek
  <2> QED BY <2>1 DEF Edit, nest
<1>3. AddWeek \/ DeleteWeek \/ UndoDelete => rows' = rows
  BY DEF AddWeek, DeleteWeek, UndoDelete, nest
<1>1. DraftStored \/ OfferDraft \/ RestoreDraft => rows' = rows
  BY DEF DraftStored, OfferDraft, RestoreDraft, nest
<1>4. ASSUME NEW s \in Slot,
             \/ \E l \in Lesson : SelectCourse(s, l)
             \/ RefreshOfferingsAndWeeks(s) \/ Serve(s) \/ Answer(s) \/ CallFails(s)
      PROVE  rows' = rows
  BY <1>4 DEF SelectCourse, RefreshOfferingsAndWeeks, Serve, Answer, CallFails, nest
<1>5. SaveSyllabus \/ ReadRemote => rows' = rows
  BY DEF SaveSyllabus, ReadRemote, nest
<1>6. PutAnswered \/ PutResent => Put
  BY DEF PutAnswered, PutResent
<1>7. \A k \in save.left : RequestAnswered(k) => Request(k)
  BY DEF RequestAnswered
<1>8. SaveFails => rows' = rows \/ Put \/ \E k \in save.left : Request(k)
  BY DEF SaveFails, nest
<1>9. SnapshotRead \/ SnapshotFails \/ Reload \/ ReloadFails => rows' = rows
  BY DEF SnapshotRead, SnapshotFails, Reload, ReloadFails, nest
<1>10. CASE UNCHANGED vars
  BY <1>10 DEF vars, nest, RowStep
<1> QED BY <1>1, <1>2, <1>3, <1>4, <1>5, <1>6, <1>7, <1>8, <1>9, <1>10 DEF Next, RowStep

LEMMA CoreStep == IInv /\ [Next]_vars => Core'
<1> SUFFICES ASSUME IInv, [Next]_vars PROVE Core'
  OBVIOUS
<1>0. Core
  BY DEF IInv
<1>1. ASSUME NEW k \in DOMAIN weeks, UpdateWeekWeight(k) \/ ArchiveWeek(k) \/ RestoreWeek(k)
      PROVE  Core'
  <2>1. weeks[k] \in Week
    BY <1>0 DEF Core, PageTypes
  <2>2. CASE UpdateWeekWeight(k)
    <3>1. PICK x \in Weight : Edit(k, [weeks[k] EXCEPT !.weight = x])
      BY <2>2 DEF UpdateWeekWeight
    <3>2. [weeks[k] EXCEPT !.weight = x] \in Week
      BY <2>1 DEF Week
    <3> QED BY <3>1, <3>2, <1>0, EditOk
  <2>3. CASE ArchiveWeek(k)
    <3>1. [weeks[k] EXCEPT !.active = FALSE] \in Week
      BY <2>1 DEF Week
    <3> QED BY <2>3, <3>1, <1>0, EditOk DEF ArchiveWeek
  <2>4. CASE RestoreWeek(k)
    <3>1. [weeks[k] EXCEPT !.active = TRUE] \in Week
      BY <2>1 DEF Week
    <3> QED BY <2>4, <3>1, <1>0, EditOk DEF RestoreWeek
  <2> QED BY <1>1, <2>2, <2>3, <2>4
<1>2. CASE AddWeek \/ DeleteWeek \/ UndoDelete
  BY <1>0, <1>2, AddWeekOk, DeleteWeekOk, UndoDeleteOk
<1>3. ASSUME NEW s \in Slot,
             \/ \E l \in Lesson : SelectCourse(s, l)
             \/ RefreshOfferingsAndWeeks(s) \/ Serve(s) \/ Answer(s) \/ CallFails(s)
      PROVE  Core'
  BY <1>0, <1>3, SelectCourseOk, RefreshOk, ServeOk, AnswerOk, CallFailsOk
<1>4. CASE SaveSyllabus \/ ReadRemote
  BY <1>0, <1>4, SaveSyllabusOk, ReadRemoteOk
<1>5. CASE PutAnswered \/ PutResent
  BY <1>0, <1>5, PutAnsweredOk, PutResentOk
<1>6. ASSUME NEW k \in save.left, RequestAnswered(k) PROVE Core'
  BY <1>0, <1>6, RequestAnsweredOk
<1>7. CASE SaveFails \/ SnapshotRead \/ SnapshotFails \/ Reload \/ ReloadFails
  BY <1>0, <1>7, SaveFailsOk, SnapshotReadOk, QuietEndOk, ReloadOk
<1>8. CASE DraftStored \/ OfferDraft \/ UNCHANGED vars
  <2>1. UNCHANGED <<setting, nest, lesson, table, undo, arrived, edits, calls, save, faults>>
    BY <1>8 DEF vars, DraftStored, OfferDraft
  <2>2. UNCHANGED <<setting, nest, lesson, isWeeksPublished, arrived, calls, save, faults>>
    BY <2>1 DEF table
  <2>3. /\ hasUnsavedChanges' \in BOOLEAN /\ edits' \in 0..setting.edits
        /\ weeks' = weeks /\ undo' = undo /\ weeks' \in Seq(Week) /\ undo' \in Seq(Week)
    BY <1>0, <2>1 DEF Core, PageTypes, table
  <2>4. setting.careful =>
          /\ arrived => Known(weeks, lesson) /\ WellFormed(weeks)
          /\ arrived /\ ~isWeeksPublished => Locals(weeks)
          /\ Locals(undo)
          /\ save.ph = "put" => Locals(weeks)
    BY <1>0 DEF Core, PageInv, WaitInv, Saving
  <2> QED BY <2>2, <2>3, <2>4, <1>0, TableKeeps
<1>9. CASE RestoreDraft
  BY <1>9, RestoreDraftOk
<1> QED BY <1>1, <1>2, <1>3, <1>4, <1>5, <1>6, <1>7, <1>8, <1>9 DEF Next

LEMMA KeptStep == IInv /\ [Next]_vars => KeptInv'
<1> SUFFICES ASSUME IInv, [Next]_vars PROVE KeptInv'
  OBVIOUS
<1>1. RowStep
  BY RowSteps
<1> DEFINE Others == UNCHANGED <<setting, kept, lesson, arrived, isWeeksPublished, save>>
<1>2. ASSUME NEW k \in DOMAIN weeks, UpdateWeekWeight(k) \/ ArchiveWeek(k) \/ RestoreWeek(k)
      PROVE  Others
  <2>1. PICK w : Edit(k, w)
    BY <1>2 DEF UpdateWeekWeight, ArchiveWeek, RestoreWeek
  <2> QED BY <2>1 DEF Edit
<1>3. AddWeek \/ DeleteWeek \/ UndoDelete => Others
  BY DEF AddWeek, DeleteWeek, UndoDelete
<1>4. ASSUME NEW s \in Slot, RefreshOfferingsAndWeeks(s) \/ Serve(s) \/ CallFails(s)
      PROVE  Others
  BY <1>4 DEF RefreshOfferingsAndWeeks, Serve, CallFails, table
<1>5. UNCHANGED vars => Others
  BY DEF vars, table
<1>6. CASE Others
  BY <1>1, <1>6, OthersKept
<1>7. CASE \/ SaveSyllabus \/ PutAnswered \/ PutResent \/ SaveFails \/ ReloadFails
           \/ \E k \in save.left : RequestAnswered(k)
  BY <1>1, <1>7, OthersKept
<1>8. ASSUME NEW s \in Slot, (\E l \in Lesson : SelectCourse(s, l)) \/ Answer(s) PROVE KeptInv'
  BY <1>8, SelectCourseKept, AnswerKept
<1>9. CASE DraftStored \/ OfferDraft \/ RestoreDraft
  BY <1>9, DraftStoredKept, OfferKept
<1>10. CASE ReadRemote \/ SnapshotRead \/ SnapshotFails \/ Reload
  BY <1>10, ReadRemoteKept, SnapshotKept, ReloadKept
<1> HIDE DEF Others
<1> QED BY <1>2, <1>3, <1>4, <1>5, <1>6, <1>7, <1>8, <1>9, <1>10 DEF Next

LEMMA StepOk == IInv /\ [Next]_vars => IInv'
BY CoreStep, KeptStep DEF IInv

(* The inductive invariant holds in every behaviour. *)
THEOREM SyllabusInvariant == Spec => []IInv
<1> QED BY InitOk, StepOk, PTL DEF Spec

(* The editor's table, its requests and Nest's weeks keep their types. *)
THEOREM SyllabusTypeCorrect == Spec => []TypeOK
<1>1. IInv => TypeOK
  BY DEF IInv, Core, KeptInv, TypeOK
<1> QED BY <1>1, SyllabusInvariant, PTL

(* A PUT deletes no week but those that the same PUT stored when it was sent the
   first time, whatever the administrator does and whatever answer is lost. *)
THEOREM PutDeletesItsOwn == Spec => PutDeletesOnlyItsOwn
<1> DEFINE Lost(i) == rows[i].lesson # Nowhere /\ rows'[i].lesson = Nowhere
           A == \A i \in Row :
             rows[i].lesson # Nowhere /\ rows'[i].lesson = Nowhere
               => save.again /\ \E k \in DOMAIN save.row : save.row[k] = i
<1>1. ASSUME IInv, [Next]_vars PROVE A
  <2>0. Core /\ RowStep
    BY <1>1, RowSteps DEF IInv
  <2> SUFFICES ASSUME NEW i \in Row, Lost(i)
               PROVE  save.again /\ \E k \in DOMAIN save.row : save.row[k] = i
    OBVIOUS
  <2>1. CASE rows' = rows
    BY <2>1
  <2>2. CASE Put
    <3>1. rows[i].lesson = save.lesson
      BY <2>0, <2>2, PutFacts
    <3> QED BY <2>0, <2>2, <3>1 DEF Core, SaveInv, Put
  <2>3. CASE \E k \in save.left : Request(k)
    BY <2>0, <2>3, RequestFacts
  <2> QED BY <2>0, <2>1, <2>2, <2>3 DEF RowStep
<1>2. IInv /\ [Next]_vars => [A]_vars
  BY <1>1
<1> QED BY <1>2, SyllabusInvariant, PTL DEF Spec, PutDeletesOnlyItsOwn

(* No step of a careful administrator takes
   a week from one lesson to another. *)
THEOREM CarefulKeepsWeeks == Spec => CarefulKeepsWeeksInLesson
<1> DEFINE A == setting.careful => \A i \in Row : ~Moves(i)
<1>1. ASSUME IInv, [Next]_vars PROVE A
  <2>0. Core /\ RowStep
    BY <1>1, RowSteps DEF IInv
  <2> SUFFICES ASSUME setting.careful, NEW i \in Row PROVE ~Moves(i)
    OBVIOUS
  <2>1. CASE rows' = rows
    BY <2>1 DEF Moves
  <2>2. CASE Put
    BY <2>0, <2>2, PutFacts DEF Moves
  <2>3. CASE \E k \in save.left : Request(k)
    BY <2>0, <2>3, RequestFacts DEF Moves
  <2> QED BY <2>0, <2>1, <2>2, <2>3 DEF RowStep
<1>2. IInv /\ [Next]_vars => [A]_vars
  BY <1>1
<1> QED BY <1>2, SyllabusInvariant, PTL DEF Spec, CarefulKeepsWeeksInLesson

(* Each week that a save of such an administrator has sent has a row of its own,
   with its content. *)
THEOREM SavedWeeksStored == Spec => []SavedWeeksAreStored
<1>1. ASSUME IInv PROVE SavedWeeksAreStored
  BY <1>1 DEF IInv, Core, PlanInv, SavedWeeksAreStored
<1> QED BY <1>1, SyllabusInvariant, PTL

-----------------------------------------------------------------------------
(***************************************************************************)
(* Nest's list of a lesson and the plan of a save are written as the only   *)
(* element of a set: the set has one, and no second.                        *)
(***************************************************************************)
Smaller == {ss \in Nat \X Nat : ss[1] < ss[2]}

LEMMA SmallerWellFounded == IsWellFoundedOn(Smaller, Nat)
<1>1. OpToRel(<, Nat) = Smaller
  BY Zenon DEF OpToRel, Smaller
<1> QED BY <1>1, NatLessThanWellFounded, Zenon

LEMMA LeastExists ==
    ASSUME NEW S, S \subseteq Nat, S # {}
    PROVE  \E x \in S : \A y \in S : x <= y
<1>1. PICK x \in S : \A y \in S : ~ (<<y, x>> \in Smaller)
  BY SmallerWellFounded, WFMin
<1>2. \A a, b \in Nat : a < b => <<a, b>> \in Smaller
  BY Zenon DEF Smaller
<1>3. \A y \in S : ~(y < x)
  BY <1>1, <1>2
<1> QED BY <1>3

LEMMA GreatestExists ==
    ASSUME NEW n \in Nat, NEW S, S \subseteq 0..n, S # {}
    PROVE  \E x \in S : \A y \in S : x >= y
<1> DEFINE U == {y \in 0..n : n - y \in S}
<1>1. PICK t \in S : TRUE
  OBVIOUS
<1>2. n - t \in U
  BY <1>1
<1>3. U \subseteq Nat /\ U # {}
  BY <1>2
<1>4. PICK u \in U : \A v \in U : u <= v
  BY <1>3, LeastExists
<1>5. \A y \in S : n - y \in U
  OBVIOUS
<1> QED BY <1>4, <1>5

(* The row of the k-th week depends on the rows of the weeks before it only. *)
LEMMA GoesToLooksBack ==
    ASSUME NEW k \in Nat, NEW ws, NEW s, NEW r, NEW q, \A j \in 1..(k - 1) : r[j] = q[j]
    PROVE  GoesTo(k, ws, s, r) = GoesTo(k, ws, s, q)
<1>1. {r[j] : j \in 1..(k - 1)} = {q[j] : j \in 1..(k - 1)}
  OBVIOUS
<1> QED BY <1>1 DEF GoesTo

LEMMA PlanUnique ==
    ASSUME NEW ws \in Seq(Week), NEW s, NEW r \in Plans(ws, s), NEW q \in Plans(ws, s)
    PROVE  r = q
<1>1. DOMAIN ws = 1..Len(ws) /\ Len(ws) \in Nat
  OBVIOUS
<1>2. /\ r \in [1..Len(ws) -> Row \cup {Local}] /\ q \in [1..Len(ws) -> Row \cup {Local}]
      /\ \A k \in 1..Len(ws) : r[k] = GoesTo(k, ws, s, r) /\ q[k] = GoesTo(k, ws, s, q)
  BY <1>1 DEF Plans
<1> DEFINE D == {k \in 1..Len(ws) : r[k] # q[k]}
<1>3. SUFFICES ASSUME D # {} PROVE FALSE
  BY <1>2
<1>4. PICK k \in D : \A j \in D : k <= j
  <2>1. D \subseteq Nat
    BY <1>1
  <2>2. \E k \in D : \A j \in D : k <= j
    BY <1>3, <2>1, LeastExists
  <2> QED BY <2>2
<1>5. k \in 1..Len(ws) /\ \A j \in 1..(k - 1) : r[j] = q[j]
  BY <1>1, <1>4
<1>6. GoesTo(k, ws, s, r) = GoesTo(k, ws, s, q)
  BY <1>1, <1>5, GoesToLooksBack
<1> QED BY <1>2, <1>4, <1>5, <1>6

(* The plan of the first m weeks. *)
Planned(m, ws, s, r) ==
    /\ r \in [1..m -> Row \cup {Local}]
    /\ \A k \in 1..m : r[k] = GoesTo(k, ws, s, r)

LEMMA PlanExists ==
    ASSUME NEW ws \in Seq(Week), NEW s, \A k \in DOMAIN s : s[k] \in Row
    PROVE  Plans(ws, s) # {}
<1>1. DOMAIN ws = 1..Len(ws) /\ Len(ws) \in Nat /\ \A k \in 1..Len(ws) : ws[k] \in Week
  OBVIOUS
<1> DEFINE Unplanned == {m \in 0..Len(ws) : \A r : ~Planned(m, ws, s, r)}
<1>2. ASSUME Unplanned # {} PROVE FALSE
  <2>1. PICK m \in Unplanned : \A x \in Unplanned : m <= x
    <3>1. Unplanned \subseteq Nat
      BY <1>1
    <3>2. \E m \in Unplanned : \A x \in Unplanned : m <= x
      BY <1>2, <3>1, LeastExists
    <3> QED BY <3>2
  <2>2. m # 0
    <3>1. Planned(0, ws, s, [k \in 1..0 |-> Local])
      BY DEF Planned
    <3> QED BY <3>1, <2>1
  <2>3. m \in 1..Len(ws) /\ m - 1 \in 0..Len(ws) /\ m - 1 \notin Unplanned
    BY <1>1, <2>1, <2>2
  <2>4. PICK r : Planned(m - 1, ws, s, r)
    BY <2>3
  <2>5. PICK g : g = GoesTo(m, ws, s, r)
    OBVIOUS
  <2>6. g \in Row \cup {Local}
    BY <1>1, <2>3, <2>5 DEF GoesTo, Week
  <2>7. PICK q : q = [k \in 1..m |-> IF k = m THEN g ELSE r[k]]
    OBVIOUS
  <2>8. q \in [1..m -> Row \cup {Local}]
    BY <2>3, <2>4, <2>6, <2>7 DEF Planned
  <2>9. \A j \in 1..(m - 1) : q[j] = r[j]
    BY <2>3, <2>7
  <2>10. ASSUME NEW k \in 1..m PROVE q[k] = GoesTo(k, ws, s, q)
    <3>1. k \in Nat /\ \A j \in 1..(k - 1) : q[j] = r[j]
      BY <2>3, <2>9
    <3>2. GoesTo(k, ws, s, q) = GoesTo(k, ws, s, r)
      BY <3>1, GoesToLooksBack
    <3>3. CASE k = m
      BY <2>5, <2>7, <3>2, <3>3
    <3>4. CASE k # m
      <4>1. k \in 1..(m - 1)
        BY <2>3, <3>4
      <4>2. r[k] = GoesTo(k, ws, s, r)
        BY <2>4, <4>1 DEF Planned
      <4> QED BY <2>9, <3>2, <4>1, <4>2
    <3> QED BY <3>3, <3>4
  <2>11. Planned(m, ws, s, q)
    BY <2>8, <2>10 DEF Planned
  <2> QED BY <2>1, <2>11
<1>3. Len(ws) \notin Unplanned
  BY <1>2
<1>4. PICK r : Planned(Len(ws), ws, s, r)
  BY <1>1, <1>3
<1>5. r \in Plans(ws, s)
  BY <1>1, <1>4 DEF Planned, Plans
<1> QED BY <1>5

(* However the weeks of the table carry the ids of rows, of rows of another lesson or
   of none, planNestWeekWrites gives every week exactly one row or a POST. *)
THEOREM PlanIsDetermined ==
    ASSUME NEW ws \in Seq(Week), NEW s, \A k \in DOMAIN s : s[k] \in Row
    PROVE  \E r : Plans(ws, s) = {r}
<1>1. PICK r \in Plans(ws, s) : TRUE
  BY PlanExists
<1>2. \A q \in Plans(ws, s) : q = r
  BY PlanUnique
<1> QED BY <1>1, <1>2

(* The sort of parseNestLessonWeekList is total: ids break the ties of weights. *)
LEMMA BeforeIsOrder ==
    ASSUME rows \in [Row -> Stored], NEW i \in Row, NEW j \in Row
    PROVE  /\ ~Before(i, i)
           /\ i # j => Before(i, j) \/ Before(j, i)
           /\ ~(Before(i, j) /\ Before(j, i))
<1>1. rows[i].weight \in 1..5 /\ rows[j].weight \in 1..5
  BY ConstantsAssumption DEF Stored
<1>2. i \in Nat /\ j \in Nat
  BY DEF Row
<1> QED BY <1>1, <1>2 DEF Before

Sorted(f, n) == \A a, b \in 1..n : a < b => Before(f[a], f[b])

(* A sorted list without gaps has every row of the lesson, each once. *)
LEMMA ListingBijective ==
    ASSUME rows \in [Row -> Stored], NEW l, NEW f \in Listings(l)
    PROVE  LET n == Cardinality(RowsOf(l))
           IN  /\ n \in Nat
               /\ f \in [1..n -> RowsOf(l)] /\ Sorted(f, n)
               /\ \A a, b \in 1..n : a # b => f[a] # f[b]
               /\ \A i \in RowsOf(l) : \E a \in 1..n : f[a] = i
<1> DEFINE n == Cardinality(RowsOf(l))
<1>1. RowsOf(l) \subseteq Row /\ IsFiniteSet(Row)
  BY FS_Interval, ConstantsAssumption DEF Row, RowsOf
<1>2. IsFiniteSet(RowsOf(l)) /\ n \in Nat
  BY <1>1, FS_Subset, FS_CardinalityType
<1>3. f \in [1..n -> RowsOf(l)] /\ Sorted(f, n)
  BY DEF Listings, Sorted
<1>4. ASSUME NEW a \in 1..n, NEW b \in 1..n, a < b PROVE f[a] # f[b]
  <2>1. Before(f[a], f[b]) /\ f[a] \in Row
    BY <1>1, <1>3, <1>4 DEF Sorted
  <2> QED BY <2>1, BeforeIsOrder
<1>5. \A a, b \in 1..n : a # b => f[a] # f[b]
  BY <1>2, <1>4
<1>6. f \in Injection(1..n, RowsOf(l))
  BY <1>3, <1>5 DEF Injection, IsInjective
<1>7. Cardinality(1..n) = n
  BY <1>2, FS_Interval
<1>8. f \in Surjection(1..n, RowsOf(l))
  BY <1>2, <1>6, <1>7, FS_Injection
<1>9. \A i \in RowsOf(l) : \E a \in 1..n : f[a] = i
  BY <1>8 DEF Surjection
<1> QED BY <1>2, <1>3, <1>5, <1>9

(* Of two lists that agree before place k, neither has the earlier row there. *)
LEMMA NotEarlier ==
    ASSUME rows \in [Row -> Stored], NEW l, NEW f \in Listings(l), NEW g \in Listings(l),
           NEW k \in 1..Cardinality(RowsOf(l)), \A j \in 1..(k - 1) : f[j] = g[j],
           f[k] # g[k]
    PROVE  ~Before(f[k], g[k])
<1> DEFINE n == Cardinality(RowsOf(l))
<1>1. n \in Nat /\ f[k] \in RowsOf(l) /\ g[k] \in RowsOf(l)
  BY ListingBijective
<1>2. PICK j \in 1..n : g[j] = f[k]
  BY <1>1, ListingBijective
<1>3. ~(j < k)
  <2>1. SUFFICES ASSUME j < k PROVE FALSE
    OBVIOUS
  <2>2. f[j] = f[k] /\ j # k
    BY <1>1, <1>2, <2>1
  <2> QED BY <1>1, <2>2, ListingBijective
<1>4. k < j
  BY <1>1, <1>2, <1>3
<1>5. Before(g[k], g[j])
  BY <1>4, ListingBijective DEF Sorted
<1>6. f[k] \in Row /\ g[k] \in Row
  BY <1>1 DEF RowsOf
<1> QED BY <1>2, <1>5, <1>6, BeforeIsOrder

LEMMA ListingUnique ==
    ASSUME rows \in [Row -> Stored], NEW l, NEW f \in Listings(l), NEW g \in Listings(l)
    PROVE  f = g
<1> DEFINE n == Cardinality(RowsOf(l))
           D == {k \in 1..n : f[k] # g[k]}
<1>1. n \in Nat /\ f \in [1..n -> RowsOf(l)] /\ g \in [1..n -> RowsOf(l)]
  BY ListingBijective
<1>2. SUFFICES ASSUME D # {} PROVE FALSE
  BY <1>1
<1>3. D \subseteq Nat
  BY <1>1
<1>4. PICK k \in D : \A j \in D : k <= j
  BY <1>2, <1>3, LeastExists
<1>5. k \in 1..n /\ f[k] # g[k] /\ \A j \in 1..(k - 1) : f[j] = g[j]
  BY <1>1, <1>4
<1>6. ~Before(f[k], g[k]) /\ ~Before(g[k], f[k])
  BY <1>5, NotEarlier
<1>7. f[k] \in Row /\ g[k] \in Row
  BY <1>1, <1>5 DEF RowsOf
<1> QED BY <1>5, <1>6, <1>7, BeforeIsOrder

(* Some row comes after all others: the heaviest, and of those the newest. *)
LEMMA LastRowExists ==
    ASSUME rows \in [Row -> Stored], NEW S, S \subseteq Row, S # {}
    PROVE  \E m \in S : \A i \in S \ {m} : Before(i, m)
<1> DEFINE W == {rows[i].weight : i \in S}
<1>1. \A i \in S : rows[i].weight \in 1..5 /\ i \in Nat /\ i <= MaxRow
  <2>1. TAKE i \in S
  <2>2. i \in Row /\ rows[i] \in Stored
    OBVIOUS
  <2>3. rows[i].weight \in 1..5
    BY <2>2, ConstantsAssumption DEF Stored
  <2>4. i \in Nat /\ i <= MaxRow
    BY <2>2, ConstantsAssumption DEF Row
  <2> QED BY <2>3, <2>4
<1>2. W \subseteq 0..5 /\ W # {}
  BY <1>1
<1>3. PICK w \in W : \A x \in W : w >= x
  BY <1>2, GreatestExists
<1> DEFINE T == {i \in S : rows[i].weight = w}
<1>4. T \subseteq 0..MaxRow /\ T # {} /\ MaxRow \in Nat
  BY <1>1, <1>3, ConstantsAssumption
<1>5. PICK m \in T : \A i \in T : m >= i
  BY <1>4, GreatestExists
<1>6. ASSUME NEW i \in S \ {m} PROVE Before(i, m)
  <2>1. rows[m].weight = w /\ rows[i].weight \in W
    BY <1>5
  <2>2. w >= rows[i].weight /\ rows[i].weight \in Nat /\ w \in Nat
    BY <1>1, <1>2, <1>3, <2>1
  <2>3. rows[i].weight = w => i < m
    BY <1>1, <1>4, <1>5
  <2> QED BY <2>1, <2>2, <2>3 DEF Before
<1> QED BY <1>5, <1>6

LEMMA ListingExists ==
    ASSUME rows \in [Row -> Stored], NEW l
    PROVE  Listings(l) # {}
<1> DEFINE Has(S, n) == \E f \in [1..n -> S] : Sorted(f, n)
           Unlisted == {n \in Nat : \E S \in SUBSET Row : Cardinality(S) = n /\ ~Has(S, n)}
<1>1. IsFiniteSet(Row)
  BY FS_Interval, ConstantsAssumption DEF Row
<1>2. ASSUME Unlisted # {} PROVE FALSE
  <2>1. PICK n \in Unlisted : \A x \in Unlisted : n <= x
    <3>1. Unlisted \subseteq Nat
      OBVIOUS
    <3>2. \E n \in Unlisted : \A x \in Unlisted : n <= x
      BY <1>2, <3>1, LeastExists
    <3> QED BY <3>2
  <2>2. PICK S \in SUBSET Row : Cardinality(S) = n /\ ~Has(S, n)
    BY <2>1
  <2>3. n \in Nat /\ IsFiniteSet(S)
    BY <1>1, <2>1, FS_Subset
  <2>4. n # 0
    <3>1. SUFFICES ASSUME n = 0 PROVE FALSE
      OBVIOUS
    <3>2. [k \in 1..0 |-> 0] \in [1..0 -> S] /\ Sorted([k \in 1..0 |-> 0], 0)
      BY DEF Sorted
    <3> QED BY <2>2, <3>1, <3>2
  <2>5. S # {}
    BY <2>2, <2>4, FS_EmptySet
  <2>6. PICK m \in S : \A i \in S \ {m} : Before(i, m)
    BY <2>2, <2>5, LastRowExists
  <2>7. Cardinality(S \ {m}) = n - 1 /\ n - 1 \in Nat /\ S \ {m} \in SUBSET Row
    <3>1. m \in S
      BY <2>6
    <3>2. Cardinality(S \ {m}) = Cardinality(S) - 1
      BY <2>3, <3>1, FS_RemoveElement
    <3>3. S \ {m} \in SUBSET Row
      BY <2>2
    <3>4. n - 1 \in Nat
      BY <2>3, <2>4
    <3> QED BY <2>2, <3>2, <3>3, <3>4
  <2>8. n - 1 \notin Unlisted
    BY <2>1, <2>3, <2>7
  <2>9. PICK f \in [1..(n - 1) -> S \ {m}] : Sorted(f, n - 1)
    BY <2>7, <2>8
  <2>10. PICK g : g = [k \in 1..n |-> IF k = n THEN m ELSE f[k]]
    OBVIOUS
  <2>11. \A k \in 1..n : k # n => k \in 1..(n - 1) /\ g[k] = f[k] /\ f[k] \in S \ {m}
    BY <2>3, <2>9, <2>10
  <2>12. g \in [1..n -> S] /\ g[n] = m
    BY <2>3, <2>4, <2>6, <2>10, <2>11
  <2>13. ASSUME NEW a \in 1..n, NEW b \in 1..n, a < b PROVE Before(g[a], g[b])
    <3>1. a # n /\ a \in 1..(n - 1) /\ g[a] = f[a] /\ f[a] \in S \ {m}
      BY <2>3, <2>11, <2>13
    <3>2. CASE b = n
      BY <2>6, <2>12, <3>1, <3>2
    <3>3. CASE b # n
      BY <2>9, <2>11, <2>13, <3>1, <3>3 DEF Sorted
    <3> QED BY <3>2, <3>3
  <2>14. Has(S, n)
    BY <2>12, <2>13 DEF Sorted
  <2> QED BY <2>2, <2>14
<1>3. RowsOf(l) \in SUBSET Row /\ Cardinality(RowsOf(l)) \in Nat
  BY <1>1, FS_Subset, FS_CardinalityType DEF RowsOf
<1>4. Has(RowsOf(l), Cardinality(RowsOf(l)))
  BY <1>2, <1>3
<1>5. PICK f \in [1..Cardinality(RowsOf(l)) -> RowsOf(l)] : Sorted(f, Cardinality(RowsOf(l)))
  BY <1>4
<1>6. f \in Listings(l)
  BY <1>5 DEF Listings, Sorted
<1> QED BY <1>6

(* Whatever rows Nest holds, a lesson has exactly one list: no GET of the page is left
   without an answer, and no two readings of the same rows differ. *)
THEOREM ListingIsDetermined ==
    ASSUME rows \in [Row -> Stored], NEW l
    PROVE  \E f : Listings(l) = {f}
<1>1. PICK f \in Listings(l) : TRUE
  BY ListingExists
<1>2. \A g \in Listings(l) : g = f
  BY ListingUnique
<1> QED BY <1>1, <1>2
=============================================================================

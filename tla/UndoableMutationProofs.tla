----------------------- MODULE UndoableMutationProofs -----------------------
(***************************************************************************)
(* Proofs about UndoableMutation for any set of rows, any callers, both     *)
(* modes and any bounds.                                                   *)
(***************************************************************************)
EXTENDS UndoableMutation, TLAPS

(* A step leaves the closures of the other rows alone and gives row r a new one. *)
Replaces(r, o) == op' = [op EXCEPT ![r] = o]

LEMMA OpReplaced ==
    ASSUME op \in [Rows -> OpType], NEW r \in Rows, NEW o \in OpType, Replaces(r, o)
    PROVE  /\ op' \in [Rows -> OpType]
           /\ op'[r] = o
           /\ \A q \in Rows \ {r} : op'[q] = op[q]
  BY DEF Replaces

(* What a closure may become: its fields keep their types. *)
LEMMA FieldTypes ==
    ASSUME NEW o \in OpType
    PROVE  /\ \A v \in {"none", "delete", "create"} : [o EXCEPT !.kind = v] \in OpType
           /\ \A v \in {"open", "closing", "gone"} : [o EXCEPT !.toast = v] \in OpType
           /\ \A v \in {"waiting", "ended"} : [o EXCEPT !.undo = v] \in OpType
           /\ \A v \in BOOLEAN : [o EXCEPT !.undone = v] \in OpType
           /\ \A v \in SUBSET Rows : [o EXCEPT !.saved = v] \in OpType
           /\ \A v \in SUBSET Rows : [o EXCEPT !.list = v] \in OpType
  BY DEF OpType

LEMMA UndoFields ==
    ASSUME NEW o \in OpType, NEW u \in {"waiting", "ended"}
    PROVE  /\ Undoing(o, u) \in OpType
           /\ Undoing(o, u).undone = TRUE
           /\ Undoing(o, u).undo = u
           /\ Undoing(o, u).kind = o.kind
           /\ Undoing(o, u).write = o.write
           /\ Undoing(o, u).failed = o.failed
           /\ Undoing(o, u).started = o.started
           /\ Undoing(o, u).posts = o.posts
           /\ Undoing(o, u).toast = "closing"
           /\ Undoing(o, u).saved = o.saved
           /\ Undoing(o, u).list = o.list
  <1>1. PICK a : a = [o EXCEPT !.undone = TRUE]
    OBVIOUS
  <1>2. PICK b : b = [a EXCEPT !.toast = "closing"]
    OBVIOUS
  <1>3. PICK p : p = [b EXCEPT !.undo = u]
    OBVIOUS
  <1>4. a \in OpType /\ b \in OpType /\ p \in OpType
    BY <1>1, <1>2, <1>3, FieldTypes
  <1>5. /\ a.undone = TRUE /\ a.kind = o.kind /\ a.write = o.write
        /\ a.failed = o.failed /\ a.started = o.started /\ a.posts = o.posts
        /\ a.saved = o.saved /\ a.list = o.list
    BY <1>1 DEF OpType
  <1>6. /\ b.undone = a.undone /\ b.kind = a.kind /\ b.write = a.write
        /\ b.failed = a.failed /\ b.started = a.started /\ b.posts = a.posts
        /\ b.saved = a.saved /\ b.list = a.list /\ b.toast = "closing"
    BY <1>2, <1>4 DEF OpType
  <1>7. /\ p.undone = b.undone /\ p.kind = b.kind /\ p.write = b.write
        /\ p.failed = b.failed /\ p.started = b.started /\ p.posts = b.posts
        /\ p.saved = b.saved /\ p.list = b.list /\ p.toast = b.toast
    BY <1>3, <1>4 DEF OpType
  <1>8. p.undo = u
    BY <1>3, <1>4 DEF OpType
  <1>9. Undoing(o, u) = p
    BY <1>1, <1>2, <1>3 DEF Undoing
  <1>10. QED
    BY <1>4, <1>5, <1>6, <1>7, <1>8, <1>9

LEMMA CommittingType ==
    ASSUME NEW o \in OpType
    PROVE  Committing(o) \in OpType
  <1>1. o.posts + 1 \in Nat
    BY DEF OpType
  <1>2. [o EXCEPT !.started = TRUE, !.write = "sent"] \in OpType
    BY DEF OpType
  <1>3. [[o EXCEPT !.started = TRUE, !.write = "sent"] EXCEPT !.posts = o.posts + 1] \in OpType
    BY <1>1, <1>2 DEF OpType
  <1>4. Committing(o) = [[o EXCEPT !.started = TRUE, !.write = "sent"] EXCEPT !.posts = o.posts + 1]
    BY DEF Committing, OpType
  <1>5. QED
    BY <1>3, <1>4

LEMMA ClosedToastType ==
    ASSUME TypeOK, NEW r \in Rows, NEW stage \in {"closing", "gone"}
    PROVE  ClosedToast(r, stage) \in OpType
  <1>1. [op[r] EXCEPT !.toast = stage] \in OpType
    BY DEF TypeOK, OpType
  <1>2. QED
    BY <1>1, CommittingType DEF ClosedToast

LEMMA SchedulingTypes ==
    ASSUME TypeOK, NEW r \in Rows
    PROVE  Deleting(r) \in OpType /\ Creating(r) \in OpType
  <1>0. Rendered(r) \in SUBSET Rows
    BY DEF Rendered, TypeOK, OpType
  <1>1. [op[r] EXCEPT !.kind = "delete", !.toast = "open", !.saved = Rendered(r)] \in OpType
    <2>1. [op[r] EXCEPT !.kind = "delete"] \in OpType
      BY FieldTypes DEF TypeOK
    <2>2. [[op[r] EXCEPT !.kind = "delete"] EXCEPT !.toast = "open"] \in OpType
      BY <2>1, FieldTypes
    <2>3. [[[op[r] EXCEPT !.kind = "delete"] EXCEPT !.toast = "open"]
             EXCEPT !.saved = Rendered(r)] \in OpType
      BY <1>0, <2>2, FieldTypes
    <2>4. QED
      BY <2>3
  <1>2. [op[r] EXCEPT !.kind = "create", !.toast = "gone", !.saved = ui] \in OpType
    <2>1. [op[r] EXCEPT !.kind = "create"] \in OpType
      BY FieldTypes DEF TypeOK
    <2>2. [[op[r] EXCEPT !.kind = "create"] EXCEPT !.toast = "gone"] \in OpType
      BY <2>1, FieldTypes
    <2>3. [[[op[r] EXCEPT !.kind = "create"] EXCEPT !.toast = "gone"] EXCEPT !.saved = ui] \in OpType
      BY <2>2, FieldTypes DEF TypeOK
    <2>4. QED
      BY <2>3
  <1>3. QED
    BY <1>1, <1>2, CommittingType DEF Deleting, Creating

(* The closure each action gives to its row, and that it is one. *)
LEMMA RowSteps ==
    ASSUME TypeOK, NEW r \in Rows
    PROVE
           /\ CheckTerm(r) =>
                LET o == [op[r] EXCEPT !.toast = "checking", !.saved = ui]
                IN  o \in OpType /\ Replaces(r, o)
           /\ TermCheckRefuses(r) =>
                LET o == [op[r] EXCEPT !.toast = "none", !.saved = {}]
                IN  o \in OpType /\ Replaces(r, o)
           /\ ScheduleDelete(r) =>
                LET o == Deleting(r)
                IN  o \in OpType /\ Replaces(r, o)
           /\ ScheduleCreate(r) =>
                LET o == Creating(r)
                IN  o \in OpType /\ Replaces(r, o)
           /\ ToastCloses(r) =>
                LET o == ClosedToast(r, "closing")
                IN  o \in OpType /\ Replaces(r, o)
           /\ ToastRemoved(r) =>
                LET o == ClosedToast(r, "gone")
                IN  o \in OpType /\ Replaces(r, o)
           /\ ClickUndo(r) =>
                LET o == Undoing(op[r], IF Deferred THEN "ended" ELSE "waiting")
                IN  o \in OpType /\ Replaces(r, o)
           /\ ServerApplies(r) =>
                LET o == [op[r] EXCEPT !.write = "applied"]
                IN  o \in OpType /\ Replaces(r, o)
           /\ ServerRefuses(r) =>
                LET o == [op[r] EXCEPT !.write = "refused"]
                IN  o \in OpType /\ Replaces(r, o)
           /\ AnswerLost(r) =>
                LET o == [op[r] EXCEPT !.write = "refused"]
                IN  o \in OpType /\ Replaces(r, o)
           /\ CommitSucceeds(r) =>
                LET o == [op[r] EXCEPT !.write = IF site.refetch \/ op[r].kind = "create" THEN "refreshing" ELSE "settled"]
                IN  o \in OpType /\ Replaces(r, o)
           /\ CommitRefreshed(r) =>
                LET o == [op[r] EXCEPT !.write = "settled"]
                IN  o \in OpType /\ Replaces(r, o)
           /\ CommitFails(r) =>
                LET o == [op[r] EXCEPT !.write = "settled", !.failed = TRUE]
                IN  o \in OpType /\ Replaces(r, o)
           /\ UndoReverses(r) =>
                LET o == [op[r] EXCEPT !.undo = "reversing"]
                IN  o \in OpType /\ Replaces(r, o)
           /\ ServerReverses(r) =>
                LET o == [op[r] EXCEPT !.undo = "reversed"]
                IN  o \in OpType /\ Replaces(r, o)
           /\ ReverseFails(r) =>
                LET o == [op[r] EXCEPT !.undo = "ended"]
                IN  o \in OpType /\ Replaces(r, o)
           /\ UndoReverts(r) =>
                LET o == [op[r] EXCEPT !.undo = "ended"]
                IN  o \in OpType /\ Replaces(r, o)
           /\ UndoFindsFailure(r) =>
                LET o == [op[r] EXCEPT !.undo = "ended"]
                IN  o \in OpType /\ Replaces(r, o)
           /\ SnapshotRead(r) =>
                LET o == [op[r] EXCEPT !.write = "listed", !.list = srv]
                IN  o \in OpType /\ Replaces(r, o)
           /\ SnapshotApplied(r) =>
                LET o == [op[r] EXCEPT !.write = "settled"]
                IN  o \in OpType /\ Replaces(r, o)
           /\ SnapshotFails(r) =>
                LET o == [op[r] EXCEPT !.write = "settled"]
                IN  o \in OpType /\ Replaces(r, o)
  <1>1. ASSUME CheckTerm(r)
        PROVE  LET o == [op[r] EXCEPT !.toast = "checking", !.saved = ui]
               IN  o \in OpType /\ Replaces(r, o)
    <2>1. [op[r] EXCEPT !.toast = "checking", !.saved = ui] \in OpType
      <3>1. op[r] \in OpType /\ ui \in SUBSET Rows
        BY DEF TypeOK
      <3>2. [op[r] EXCEPT !.toast = "checking"] \in OpType
        BY <3>1 DEF OpType
      <3>3. [[op[r] EXCEPT !.toast = "checking"] EXCEPT !.saved = ui] \in OpType
        BY <3>1, <3>2, FieldTypes
      <3>4. QED
        BY <3>3
    <2>2. Replaces(r, [op[r] EXCEPT !.toast = "checking", !.saved = ui])
      BY <1>1 DEF CheckTerm, Replaces
    <2>3. QED
      BY <2>1, <2>2
  <1>2. ASSUME TermCheckRefuses(r)
        PROVE  LET o == [op[r] EXCEPT !.toast = "none", !.saved = {}]
               IN  o \in OpType /\ Replaces(r, o)
    <2>1. [op[r] EXCEPT !.toast = "none", !.saved = {}] \in OpType
      <3>1. op[r] \in OpType /\ {} \in SUBSET Rows
        BY DEF TypeOK
      <3>2. [op[r] EXCEPT !.toast = "none"] \in OpType
        BY <3>1 DEF OpType
      <3>3. [[op[r] EXCEPT !.toast = "none"] EXCEPT !.saved = {}] \in OpType
        BY <3>1, <3>2, FieldTypes
      <3>4. QED
        BY <3>3
    <2>2. Replaces(r, [op[r] EXCEPT !.toast = "none", !.saved = {}])
      BY <1>2 DEF TermCheckRefuses, Replaces
    <2>3. QED
      BY <2>1, <2>2
  <1>3. ASSUME ScheduleDelete(r)
        PROVE  LET o == Deleting(r)
               IN  o \in OpType /\ Replaces(r, o)
    BY <1>3, SchedulingTypes DEF ScheduleDelete, Replaces
  <1>4. ASSUME ScheduleCreate(r)
        PROVE  LET o == Creating(r)
               IN  o \in OpType /\ Replaces(r, o)
    BY <1>4, SchedulingTypes DEF ScheduleCreate, Replaces
  <1>5. ASSUME ToastCloses(r)
        PROVE  LET o == ClosedToast(r, "closing")
               IN  o \in OpType /\ Replaces(r, o)
    BY <1>5, ClosedToastType DEF ToastCloses, Replaces
  <1>6. ASSUME ToastRemoved(r)
        PROVE  LET o == ClosedToast(r, "gone")
               IN  o \in OpType /\ Replaces(r, o)
    BY <1>6, ClosedToastType DEF ToastRemoved, Replaces
  <1>7. ASSUME ClickUndo(r)
        PROVE  LET o == Undoing(op[r], IF Deferred THEN "ended" ELSE "waiting")
               IN  o \in OpType /\ Replaces(r, o)
    <2>1. Undoing(op[r], IF Deferred THEN "ended" ELSE "waiting") \in OpType
      BY UndoFields DEF TypeOK
    <2>2. Replaces(r, Undoing(op[r], IF Deferred THEN "ended" ELSE "waiting"))
      BY <1>7 DEF ClickUndo, Replaces
    <2>3. QED
      BY <2>1, <2>2
  <1>8. ASSUME ServerApplies(r)
        PROVE  LET o == [op[r] EXCEPT !.write = "applied"]
               IN  o \in OpType /\ Replaces(r, o)
    <2>1. [op[r] EXCEPT !.write = "applied"] \in OpType
      BY <1>8 DEF ServerApplies, TypeOK, OpType
    <2>2. Replaces(r, [op[r] EXCEPT !.write = "applied"])
      BY <1>8 DEF ServerApplies, Replaces
    <2>3. QED
      BY <2>1, <2>2
  <1>9. ASSUME ServerRefuses(r)
        PROVE  LET o == [op[r] EXCEPT !.write = "refused"]
               IN  o \in OpType /\ Replaces(r, o)
    <2>1. [op[r] EXCEPT !.write = "refused"] \in OpType
      BY <1>9 DEF ServerRefuses, TypeOK, OpType
    <2>2. Replaces(r, [op[r] EXCEPT !.write = "refused"])
      BY <1>9 DEF ServerRefuses, Replaces
    <2>3. QED
      BY <2>1, <2>2
  <1>10. ASSUME AnswerLost(r)
        PROVE  LET o == [op[r] EXCEPT !.write = "refused"]
               IN  o \in OpType /\ Replaces(r, o)
    <2>1. [op[r] EXCEPT !.write = "refused"] \in OpType
      BY <1>10 DEF AnswerLost, TypeOK, OpType
    <2>2. Replaces(r, [op[r] EXCEPT !.write = "refused"])
      BY <1>10 DEF AnswerLost, Replaces
    <2>3. QED
      BY <2>1, <2>2
  <1>11. ASSUME CommitSucceeds(r)
        PROVE  LET o == [op[r] EXCEPT !.write = IF site.refetch \/ op[r].kind = "create" THEN "refreshing" ELSE "settled"]
               IN  o \in OpType /\ Replaces(r, o)
    <2>1. [op[r] EXCEPT !.write = IF site.refetch \/ op[r].kind = "create" THEN "refreshing" ELSE "settled"] \in OpType
      BY <1>11 DEF CommitSucceeds, TypeOK, OpType
    <2>2. Replaces(r, [op[r] EXCEPT !.write = IF site.refetch \/ op[r].kind = "create" THEN "refreshing" ELSE "settled"])
      BY <1>11 DEF CommitSucceeds, Replaces
    <2>3. QED
      BY <2>1, <2>2
  <1>12. ASSUME CommitRefreshed(r)
        PROVE  LET o == [op[r] EXCEPT !.write = "settled"]
               IN  o \in OpType /\ Replaces(r, o)
    <2>1. [op[r] EXCEPT !.write = "settled"] \in OpType
      BY <1>12 DEF CommitRefreshed, TypeOK, OpType
    <2>2. Replaces(r, [op[r] EXCEPT !.write = "settled"])
      BY <1>12 DEF CommitRefreshed, Replaces
    <2>3. QED
      BY <2>1, <2>2
  <1>13. ASSUME CommitFails(r)
        PROVE  LET o == [op[r] EXCEPT !.write = "settled", !.failed = TRUE]
               IN  o \in OpType /\ Replaces(r, o)
    <2>1. [op[r] EXCEPT !.write = "settled", !.failed = TRUE] \in OpType
      <3>1. op[r] \in OpType
        BY DEF TypeOK
      <3>2. QED
        BY <3>1 DEF OpType
    <2>2. Replaces(r, [op[r] EXCEPT !.write = "settled", !.failed = TRUE])
      BY <1>13 DEF CommitFails, Replaces
    <2>3. QED
      BY <2>1, <2>2
  <1>14. ASSUME UndoReverses(r)
        PROVE  LET o == [op[r] EXCEPT !.undo = "reversing"]
               IN  o \in OpType /\ Replaces(r, o)
    <2>1. [op[r] EXCEPT !.undo = "reversing"] \in OpType
      BY <1>14 DEF UndoReverses, TypeOK, OpType
    <2>2. Replaces(r, [op[r] EXCEPT !.undo = "reversing"])
      BY <1>14 DEF UndoReverses, Replaces
    <2>3. QED
      BY <2>1, <2>2
  <1>15. ASSUME ServerReverses(r)
        PROVE  LET o == [op[r] EXCEPT !.undo = "reversed"]
               IN  o \in OpType /\ Replaces(r, o)
    <2>1. [op[r] EXCEPT !.undo = "reversed"] \in OpType
      BY <1>15 DEF ServerReverses, TypeOK, OpType
    <2>2. Replaces(r, [op[r] EXCEPT !.undo = "reversed"])
      BY <1>15 DEF ServerReverses, Replaces
    <2>3. QED
      BY <2>1, <2>2
  <1>16. ASSUME ReverseFails(r)
        PROVE  LET o == [op[r] EXCEPT !.undo = "ended"]
               IN  o \in OpType /\ Replaces(r, o)
    <2>1. [op[r] EXCEPT !.undo = "ended"] \in OpType
      BY <1>16 DEF ReverseFails, TypeOK, OpType
    <2>2. Replaces(r, [op[r] EXCEPT !.undo = "ended"])
      BY <1>16 DEF ReverseFails, Replaces
    <2>3. QED
      BY <2>1, <2>2
  <1>17. ASSUME UndoReverts(r)
        PROVE  LET o == [op[r] EXCEPT !.undo = "ended"]
               IN  o \in OpType /\ Replaces(r, o)
    <2>1. [op[r] EXCEPT !.undo = "ended"] \in OpType
      BY <1>17 DEF UndoReverts, TypeOK, OpType
    <2>2. Replaces(r, [op[r] EXCEPT !.undo = "ended"])
      BY <1>17 DEF UndoReverts, Replaces
    <2>3. QED
      BY <2>1, <2>2
  <1>18. ASSUME UndoFindsFailure(r)
        PROVE  LET o == [op[r] EXCEPT !.undo = "ended"]
               IN  o \in OpType /\ Replaces(r, o)
    <2>1. [op[r] EXCEPT !.undo = "ended"] \in OpType
      BY DEF TypeOK, OpType
    <2>2. Replaces(r, [op[r] EXCEPT !.undo = "ended"])
      BY <1>18 DEF UndoFindsFailure, Replaces
    <2>3. QED
      BY <2>1, <2>2
  <1>19. ASSUME SnapshotRead(r)
        PROVE  LET o == [op[r] EXCEPT !.write = "listed", !.list = srv]
               IN  o \in OpType /\ Replaces(r, o)
    <2>1. [op[r] EXCEPT !.write = "listed", !.list = srv] \in OpType
      <3>1. op[r] \in OpType /\ srv \in SUBSET Rows
        BY DEF TypeOK
      <3>2. [op[r] EXCEPT !.write = "listed"] \in OpType
        BY <3>1 DEF OpType
      <3>3. [[op[r] EXCEPT !.write = "listed"] EXCEPT !.list = srv] \in OpType
        BY <3>1, <3>2, FieldTypes
      <3>4. QED
        BY <3>3
    <2>2. Replaces(r, [op[r] EXCEPT !.write = "listed", !.list = srv])
      BY <1>19 DEF SnapshotRead, Replaces
    <2>3. QED
      BY <2>1, <2>2
  <1>20. ASSUME SnapshotApplied(r)
        PROVE  LET o == [op[r] EXCEPT !.write = "settled"]
               IN  o \in OpType /\ Replaces(r, o)
    <2>1. [op[r] EXCEPT !.write = "settled"] \in OpType
      BY <1>20 DEF SnapshotApplied, TypeOK, OpType
    <2>2. Replaces(r, [op[r] EXCEPT !.write = "settled"])
      BY <1>20 DEF SnapshotApplied, Replaces
    <2>3. QED
      BY <2>1, <2>2
  <1>21. ASSUME SnapshotFails(r)
        PROVE  LET o == [op[r] EXCEPT !.write = "settled"]
               IN  o \in OpType /\ Replaces(r, o)
    <2>1. [op[r] EXCEPT !.write = "settled"] \in OpType
      BY <1>21 DEF SnapshotFails, TypeOK, OpType
    <2>2. Replaces(r, [op[r] EXCEPT !.write = "settled"])
      BY <1>21 DEF SnapshotFails, Replaces
    <2>3. QED
      BY <2>1, <2>2
  <1>22. QED
    BY <1>1, <1>2, <1>3, <1>4, <1>5, <1>6, <1>7, <1>8, <1>9, <1>10, <1>11, <1>12, <1>13, <1>14, <1>15, <1>16, <1>17, <1>18, <1>19, <1>20, <1>21

-----------------------------------------------------------------------------
RowNext(r) == UserNext(r) \/ ToastNext(r) \/ WriteNext(r) \/ UndoNext(r)

LEMMA FaultCounted ==
    ASSUME TypeOK, Fault
    PROVE  faults' \in 0..MaxFaults
  BY ConstantsAssumption DEF TypeOK, Fault

LEMMA TypeInductive ==
    ASSUME TypeOK, [Next]_vars
    PROVE  TypeOK'
  <1> USE ConstantsAssumption
  <1>1. ASSUME NEW r \in Rows, RowNext(r)
        PROVE  TypeOK'
    <2>1. op' \in [Rows -> OpType]
      BY <1>1, RowSteps, OpReplaced
      DEF RowNext, UserNext, ToastNext, WriteNext, UndoNext, TypeOK
    <2>2. CASE CheckTerm(r)
      BY <2>1, <2>2 DEF CheckTerm, TypeOK
    <2>3. CASE TermCheckRefuses(r)
      BY <2>1, <2>3 DEF TermCheckRefuses, TypeOK
    <2>4. CASE ScheduleDelete(r)
      BY <2>1, <2>4 DEF ScheduleDelete, TypeOK, FetchAfterPatch, Idle, FetchType, Rendered, OpType
    <2>5. CASE ScheduleCreate(r)
      BY <2>1, <2>5 DEF ScheduleCreate, TypeOK, FetchAfterPatch, Idle, FetchType
    <2>6. CASE ToastCloses(r)
      BY <2>1, <2>6 DEF ToastCloses, TypeOK
    <2>7. CASE ToastRemoved(r)
      BY <2>1, <2>7 DEF ToastRemoved, TypeOK
    <2>8. CASE ClickUndo(r)
      BY <2>1, <2>8 DEF ClickUndo, TypeOK, FetchAfterPatch, Idle, Asked, FetchType, OpType
    <2>9. CASE ServerApplies(r)
      BY <2>1, <2>9 DEF ServerApplies, TypeOK
    <2>10. CASE ServerRefuses(r)
      BY <2>1, <2>10 DEF ServerRefuses, TypeOK, Fault
    <2>11. CASE AnswerLost(r)
      BY <2>1, <2>11, FaultCounted DEF AnswerLost, TypeOK
    <2>12. CASE CommitSucceeds(r)
      BY <2>1, <2>12 DEF CommitSucceeds, TypeOK, Asked, FetchType, Released
    <2>13. CASE CommitRefreshed(r)
      BY <2>1, <2>13 DEF CommitRefreshed, TypeOK, Released
    <2>14. CASE CommitFails(r)
      BY <2>1, <2>14 DEF CommitFails, TypeOK, Reverted, Released, FetchAfterPatch, Idle, FetchType, OpType
    <2>15. CASE UndoReverses(r)
      BY <2>1, <2>15 DEF UndoReverses, TypeOK
    <2>16. CASE ServerReverses(r)
      BY <2>1, <2>16 DEF ServerReverses, TypeOK
    <2>17. CASE ReverseFails(r)
      BY <2>1, <2>17 DEF ReverseFails, TypeOK, Fault
    <2>18. CASE UndoReverts(r)
      BY <2>1, <2>18 DEF UndoReverts, TypeOK, FetchAfterPatch, Idle, Asked, FetchType, OpType
    <2>19. CASE UndoFindsFailure(r)
      BY <2>1, <2>19 DEF UndoFindsFailure, TypeOK
    <2>20. CASE SnapshotRead(r)
      BY <2>1, <2>20 DEF SnapshotRead, TypeOK
    <2>21. CASE SnapshotApplied(r)
      BY <2>1, <2>21 DEF SnapshotApplied, TypeOK, Released, OpType
    <2>22. CASE SnapshotFails(r)
      BY <2>1, <2>22, FaultCounted DEF SnapshotFails, TypeOK, Released
    <2>23. QED
      BY <1>1, <2>20, <2>21, <2>22, <2>2, <2>3, <2>4, <2>5, <2>6, <2>7, <2>8, <2>9, <2>10, <2>11, <2>12, <2>13, <2>14, <2>15, <2>16, <2>17, <2>18, <2>19
      DEF RowNext, UserNext, ToastNext, WriteNext, UndoNext
  <1>2. CASE PageReload
    BY <1>2 DEF PageReload, TypeOK, FetchType, Asked
  <1>3. CASE FetchRead
    BY <1>3 DEF FetchRead, TypeOK, FetchType
  <1>4. CASE FetchArrives
    BY <1>4 DEF FetchArrives, TypeOK, FetchType, Idle
  <1>5. CASE FetchFails
    BY <1>5, FaultCounted DEF FetchFails, TypeOK, FetchType, Idle
  <1>6. CASE UNCHANGED vars
    BY <1>6 DEF vars, TypeOK
  <1>7. QED
    BY <1>1, <1>2, <1>3, <1>4, <1>5, <1>6 DEF Next, FetchNext, RowNext

(* Every reachable state of UndoableMutation is well typed. *)
THEOREM UndoableTypeCorrect == Spec => []TypeOK
  <1>1. Init => TypeOK
    <2>1. NoOp \in OpType
      BY DEF NoOp, OpType
    <2>2. QED
      BY <2>1, ConstantsAssumption, SitesAssumption DEF Init, TypeOK, FetchType, Idle
  <1>2. TypeOK /\ [Next]_vars => TypeOK'
    BY TypeInductive
  <1>3. QED
    BY <1>1, <1>2, PTL DEF Spec

-----------------------------------------------------------------------------
(***************************************************************************)
(* The strengthening: what one closure and the server know of each other.   *)
(***************************************************************************)
RowInv(r) ==
    /\ op[r].posts = IF op[r].started THEN 1 ELSE 0
    /\ op[r].kind = "none" =>
         ~op[r].started /\ ~op[r].undone /\ op[r].undo = "none" /\ op[r].write = "none"
    /\ op[r].undo # "none" => op[r].kind = "delete" /\ op[r].undone
    /\ op[r].undo = "reversing" => op[r].write = "settled" /\ ~op[r].failed
    /\ (/\ op[r].kind = "delete"
        /\ op[r].write \in {"applied", "refreshing", "listed", "settled"}
        /\ ~op[r].failed
        /\ op[r].undo \in {"none", "waiting", "reversing"}) => r \notin srv

ClosuresInv == \A r \in Rows : RowInv(r)

(* A step of row r leaves the invariant of the other rows alone. *)
LEMMA OtherRows ==
    ASSUME ClosuresInv, NEW r \in Rows, NEW q \in Rows \ {r},
           op'[q] = op[q], srv' \ {r} = srv \ {r}
    PROVE  RowInv(q)'
  BY DEF ClosuresInv, RowInv

LEMMA ClosuresInductive ==
    ASSUME TypeOK, ClosuresInv, [Next]_vars
    PROVE  ClosuresInv'
  <1>1. ASSUME NEW r \in Rows, RowNext(r)
        PROVE  ClosuresInv'
    <2>1. \A q \in Rows \ {r} : op'[q] = op[q]
      BY <1>1, RowSteps, OpReplaced
      DEF RowNext, UserNext, ToastNext, WriteNext, UndoNext, TypeOK
    <2>2. RowInv(r)
      BY DEF ClosuresInv
    <2>3. RowInv(r)' 
      <3>1. CASE CheckTerm(r)
        BY <3>1, <2>2 DEF CheckTerm, RowInv, TypeOK, OpType
      <3>2. CASE TermCheckRefuses(r)
        BY <3>2, <2>2 DEF TermCheckRefuses, RowInv, TypeOK, OpType
      <3>3. CASE ScheduleDelete(r)
        BY <3>3, <2>2 DEF ScheduleDelete, RowInv, TypeOK, OpType, Deleting, Committing
      <3>4. CASE ScheduleCreate(r)
        BY <3>4, <2>2 DEF ScheduleCreate, RowInv, TypeOK, OpType, Creating, Committing, NoOp
      <3>5. CASE ToastCloses(r)
        BY <3>5, <2>2 DEF ToastCloses, RowInv, TypeOK, OpType, ClosedToast, CanCommit, Committing
      <3>6. CASE ToastRemoved(r)
        BY <3>6, <2>2 DEF ToastRemoved, RowInv, TypeOK, OpType, ClosedToast, CanCommit, Committing
      <3>7. CASE ClickUndo(r)
        <4>1. PICK u \in {"waiting", "ended"} : op' = [op EXCEPT ![r] = Undoing(op[r], u)]
          BY <3>7 DEF ClickUndo
        <4>2. /\ op'[r].undone = TRUE /\ op'[r].undo = u
              /\ op'[r].kind = op[r].kind /\ op'[r].write = op[r].write
              /\ op'[r].failed = op[r].failed /\ op'[r].started = op[r].started
              /\ op'[r].posts = op[r].posts
          <5>1. op'[r] = Undoing(op[r], u) /\ op[r] \in OpType
            BY <4>1 DEF TypeOK
          <5>2. /\ Undoing(op[r], u).undone = TRUE
                /\ Undoing(op[r], u).undo = u
                /\ Undoing(op[r], u).kind = op[r].kind
                /\ Undoing(op[r], u).write = op[r].write
                /\ Undoing(op[r], u).failed = op[r].failed
                /\ Undoing(op[r], u).started = op[r].started
                /\ Undoing(op[r], u).posts = op[r].posts
            BY <5>1, UndoFields
          <5>3. QED
            BY <5>1, <5>2
        <4>3. op[r].kind = "delete" /\ ~op[r].undone /\ srv' = srv
          BY <3>7 DEF ClickUndo
        <4>4. op[r].undo = "none"
          BY <2>2, <4>3 DEF RowInv, TypeOK, OpType
        <4>5. QED
          BY <2>2, <4>1, <4>2, <4>3, <4>4 DEF RowInv
      <3>8. CASE ServerApplies(r)
        BY <3>8, <2>2 DEF ServerApplies, RowInv, TypeOK, OpType
      <3>9. CASE ServerRefuses(r)
        BY <3>9, <2>2 DEF ServerRefuses, RowInv, TypeOK, OpType
      <3>10. CASE AnswerLost(r)
        BY <3>10, <2>2 DEF AnswerLost, RowInv, TypeOK, OpType
      <3>11. CASE CommitSucceeds(r)
        BY <3>11, <2>2 DEF CommitSucceeds, RowInv, TypeOK, OpType
      <3>12. CASE CommitRefreshed(r)
        BY <3>12, <2>2 DEF CommitRefreshed, RowInv, TypeOK, OpType
      <3>13. CASE CommitFails(r)
        BY <3>13, <2>2 DEF CommitFails, RowInv, TypeOK, OpType
      <3>14. CASE UndoReverses(r)
        BY <3>14, <2>2 DEF UndoReverses, CommitEnded, RowInv, TypeOK, OpType
      <3>15. CASE ServerReverses(r)
        BY <3>15, <2>2 DEF ServerReverses, RowInv, TypeOK, OpType
      <3>16. CASE ReverseFails(r)
        BY <3>16, <2>2 DEF ReverseFails, RowInv, TypeOK, OpType
      <3>17. CASE UndoReverts(r)
        BY <3>17, <2>2 DEF UndoReverts, CommitEnded, RowInv, TypeOK, OpType
      <3>18. CASE UndoFindsFailure(r)
        BY <3>18, <2>2 DEF UndoFindsFailure, CommitEnded, RowInv, TypeOK, OpType
      <3>19. CASE SnapshotRead(r)
        BY <3>19, <2>2 DEF SnapshotRead, RowInv, TypeOK, OpType
      <3>20. CASE SnapshotApplied(r)
        BY <3>20, <2>2 DEF SnapshotApplied, RowInv, TypeOK, OpType
      <3>21. CASE SnapshotFails(r)
        BY <3>21, <2>2 DEF SnapshotFails, RowInv, TypeOK, OpType
      <3>22. QED
        BY <1>1, <3>19, <3>20, <3>21, <3>1, <3>2, <3>3, <3>4, <3>5, <3>6, <3>7, <3>8, <3>9, <3>10, <3>11, <3>12, <3>13, <3>14, <3>15, <3>16, <3>17, <3>18
        DEF RowNext, UserNext, ToastNext, WriteNext, UndoNext
    <2>4. srv' \ {r} = srv \ {r}
      BY <1>1 DEF RowNext, UserNext, ToastNext, WriteNext, UndoNext,
        CheckTerm, TermCheckRefuses, ScheduleDelete, ScheduleCreate, ToastCloses, ToastRemoved, ClickUndo, ServerApplies, ServerRefuses, AnswerLost, CommitSucceeds, CommitRefreshed, SnapshotRead, SnapshotApplied, SnapshotFails, CommitFails, UndoReverses, ServerReverses, ReverseFails, UndoReverts, UndoFindsFailure
    <2>5. QED
      BY <2>1, <2>3, <2>4, OtherRows DEF ClosuresInv
  <1>2. CASE UNCHANGED <<op, srv>>
    BY <1>2 DEF ClosuresInv, RowInv
  <1>3. QED
    BY <1>1, <1>2 DEF Next, FetchNext, RowNext, vars, PageReload, FetchRead, FetchArrives, FetchFails

(* The closures and the server agree as ClosuresInv says, in every reachable state. *)
THEOREM ClosuresAgree == Spec => []ClosuresInv
  <1>1. Init => ClosuresInv
    BY DEF Init, NoOp, ClosuresInv, RowInv
  <1>2. TypeOK /\ ClosuresInv /\ [Next]_vars => ClosuresInv'
    BY ClosuresInductive
  <1>3. QED
    BY <1>1, <1>2, UndoableTypeCorrect, PTL DEF Spec

(* However often the toast reports its end, commit is called at most once. *)
THEOREM CommitCalledOnce == Spec => []OneCommit
  <1>1. ClosuresInv => OneCommit
    BY DEF ClosuresInv, RowInv, OneCommit
  <1>2. QED
    BY <1>1, ClosuresAgree, PTL

(* The reverse write starts after the write it reverses was applied. *)
THEOREM ReverseComesLast == Spec => []ReverseFollowsCommit
  <1>1. TypeOK /\ ClosuresInv => ReverseFollowsCommit
    BY DEF TypeOK, OpType, ClosuresInv, RowInv, ReverseFollowsCommit
  <1>2. QED
    BY <1>1, ClosuresAgree, UndoableTypeCorrect, PTL

(* A delete undone in time is never sent. *)
THEOREM UndoInTimeHolds == Spec => UndoneInTimeIsNeverSent
  <1>1. ASSUME TypeOK, ClosuresInv, [Next]_vars, NEW r \in Rows, op[r].undone, ~op[r].started
        PROVE  ~op'[r].started
    <2>1. op[r].kind # "none"
      BY <1>1 DEF ClosuresInv, RowInv
    <2>2. ASSUME NEW q \in Rows, RowNext(q), q # r
          PROVE  op'[r] = op[r]
      BY <1>1, <2>2, RowSteps, OpReplaced
      DEF RowNext, UserNext, ToastNext, WriteNext, UndoNext, TypeOK
    <2>3. ASSUME RowNext(r)
          PROVE  ~op'[r].started
      <3>1. ~ScheduleDelete(r) /\ ~ScheduleCreate(r)
        BY <2>1 DEF ScheduleDelete, ScheduleCreate, NoOp
      <3>2. CASE ToastCloses(r)
        BY <1>1, <3>2 DEF ToastCloses, ClosedToast, CanCommit, TypeOK, OpType
      <3>3. CASE ToastRemoved(r)
        BY <1>1, <3>3 DEF ToastRemoved, ClosedToast, CanCommit, TypeOK, OpType
      <3>4. CASE TermCheckRefuses(r)
        BY <1>1, <3>4 DEF TermCheckRefuses, TypeOK, OpType
      <3>5. CASE ServerApplies(r)
        BY <1>1, <3>5 DEF ServerApplies, TypeOK, OpType
      <3>6. CASE ServerRefuses(r)
        BY <1>1, <3>6 DEF ServerRefuses, TypeOK, OpType
      <3>7. CASE AnswerLost(r)
        BY <1>1, <3>7 DEF AnswerLost, TypeOK, OpType
      <3>8. CASE CommitSucceeds(r)
        BY <1>1, <3>8 DEF CommitSucceeds, TypeOK, OpType
      <3>9. CASE CommitRefreshed(r)
        BY <1>1, <3>9 DEF CommitRefreshed, TypeOK, OpType
      <3>10. CASE CommitFails(r)
        BY <1>1, <3>10 DEF CommitFails, TypeOK, OpType
      <3>11. CASE UndoReverses(r)
        BY <1>1, <3>11 DEF UndoReverses, TypeOK, OpType
      <3>12. CASE ServerReverses(r)
        BY <1>1, <3>12 DEF ServerReverses, TypeOK, OpType
      <3>13. CASE ReverseFails(r)
        BY <1>1, <3>13 DEF ReverseFails, TypeOK, OpType
      <3>14. CASE UndoReverts(r)
        BY <1>1, <3>14 DEF UndoReverts, TypeOK, OpType
      <3>15. CASE UndoFindsFailure(r)
        BY <1>1, <3>15 DEF UndoFindsFailure, TypeOK, OpType
      <3>16. CASE CheckTerm(r)
        BY <1>1, <3>16 DEF CheckTerm, TypeOK, OpType
      <3>17. CASE ClickUndo(r)
        BY <1>1, <3>17 DEF ClickUndo
      <3>18. CASE SnapshotRead(r)
        BY <1>1, <3>18 DEF SnapshotRead, TypeOK, OpType
      <3>19. CASE SnapshotApplied(r)
        BY <1>1, <3>19 DEF SnapshotApplied, TypeOK, OpType
      <3>20. CASE SnapshotFails(r)
        BY <1>1, <3>20 DEF SnapshotFails, TypeOK, OpType
      <3>21. QED
        BY <2>3, <3>18, <3>19, <3>20, <3>1, <3>2, <3>3, <3>4, <3>5, <3>6, <3>7, <3>8, <3>9, <3>10, <3>11, <3>12, <3>13, <3>14, <3>15, <3>16, <3>17
        DEF RowNext, UserNext, ToastNext, WriteNext, UndoNext
    <2>4. CASE UNCHANGED op
      BY <1>1, <2>4
    <2>5. QED
      BY <1>1, <2>2, <2>3, <2>4
      DEF Next, FetchNext, RowNext, vars, PageReload, FetchRead, FetchArrives, FetchFails
  <1>2. TypeOK /\ ClosuresInv /\ [Next]_vars =>
          [\A r \in Rows : op[r].undone /\ ~op[r].started => ~op'[r].started]_vars
    BY <1>1
  <1>3. QED
    BY <1>2, ClosuresAgree, UndoableTypeCorrect, PTL DEF Spec, UndoneInTimeIsNeverSent

-----------------------------------------------------------------------------
(***************************************************************************)
(* The list on screen.  While the history is calm at most one row is busy,  *)
(* and Phase says for each stage of its write and its Undo what the server  *)
(* and the screen hold, compared with the snapshot taken when the row was   *)
(* scheduled.                                                               *)
(***************************************************************************)
Busy(r) == op[r].kind # "none" /\ ~SettledRow(r)

ToastInv(r) ==
    /\ op[r].kind = "none" <=> op[r].toast \in {"none", "checking"}
    /\ op[r].kind = "create" => op[r].toast = "gone" /\ op[r].started
    /\ op[r].write # "none" <=> op[r].started
    /\ op[r].kind = "delete" => Deferred \/ op[r].started
    /\ op[r].failed => op[r].write = "settled"

(* The next answer is the server's list, and without one the screen is. *)
FetchFresh == fetch.stage = "read" => fetch.rows = srv
Synced == FetchFresh /\ (fetch.stage = "idle" => ui = srv)

Result(r) == IF op[r].kind = "delete" THEN op[r].saved \ {r} ELSE op[r].saved \cup {r}

(* No refetch can reach the screen before the one the write asks for. *)
Patched(r) == fetch.stage = "idle" /\ ui = Result(r)

Refetches(r) == site.refetch \/ op[r].kind = "create"

(* A caller that puts a list on screen itself has no refetch under way that could
   put an older one over it. *)
Unrivalled == site.direct => fetch.stage = "idle"

Pending(r) == op[r].undo # "ended" =>
    /\ op[r].write \in {"none", "sent", "refused"} => srv = op[r].saved /\ FetchFresh
    /\ op[r].write \in {"none", "sent", "refused", "applied"} /\ ~Refetches(r) => Patched(r)
    /\ op[r].write \in {"applied", "refreshing", "listed"} => srv = Result(r)
    /\ op[r].write = "refreshing" /\ ~site.direct => Synced
    /\ op[r].write = "listed" => site.direct /\ op[r].list = srv

Ended(r) == op[r].write = "settled" /\ op[r].undo # "ended" =>
    IF op[r].failed THEN Synced
    ELSE /\ Patched(r)
         /\ srv = IF op[r].undo = "reversed" THEN op[r].saved ELSE Result(r)

Phase(r) ==
    /\ Unrivalled
    /\ Pending(r)
    /\ Ended(r)
    /\ op[r].undo = "ended" => Synced /\ op[r].write \in {"none", "settled"}
    /\ op[r].undone /\ op[r].write = "none" => op[r].undo = "ended"
    /\ op[r].kind = "delete" /\ site.reverse => r \in op[r].saved
    /\ op[r].undo \in {"reversing", "reversed"} => site.reverse /\ op[r].write = "settled" /\ ~op[r].failed

CallerInv ==
    /\ site.cancel \/ site.refetch
    /\ site.direct => site.refetch /\ ~site.undoReload
    /\ ~(site.lock /\ site.reverse)

ListInv ==
    /\ CallerInv
    /\ fetch.stage = "idle" => fetch = Idle
    /\ \A r \in Rows : ToastInv(r)
    /\ calm => /\ \A q, r \in Rows : Busy(q) /\ Busy(r) => q = r
               /\ \A r \in Rows : Busy(r) => Phase(r)
               /\ (\A r \in Rows : ~Busy(r)) => Synced

(* A row that is scheduled and settled takes no further step. *)
LEMMA SettledRowRests ==
    ASSUME TypeOK, NEW r \in Rows, ToastInv(r), op[r].kind # "none", SettledRow(r)
    PROVE  ~RowNext(r)
  <1>1. /\ op[r].toast = "gone"
        /\ op[r].write \in {"none", "settled"}
        /\ op[r].undo \in {"none", "ended"}
    BY DEF ToastInv, SettledRow, TypeOK, OpType
  <1>2. ~UserNext(r)
    BY <1>1 DEF UserNext, CheckTerm, ScheduleDelete, ScheduleCreate, ClickUndo, NoOp
  <1>3. ~ToastNext(r)
    BY <1>1 DEF ToastNext, ToastCloses, ToastRemoved
  <1>4. ~WriteNext(r)
    BY <1>1 DEF WriteNext, TermCheckRefuses, ServerApplies, ServerRefuses, AnswerLost,
      CommitSucceeds, CommitRefreshed, CommitFails, SnapshotRead, SnapshotApplied, SnapshotFails
  <1>5. ~UndoNext(r)
    BY <1>1 DEF UndoNext, UndoReverses, ServerReverses, ReverseFails, UndoReverts, UndoFindsFailure
  <1>6. QED
    BY <1>2, <1>3, <1>4, <1>5 DEF RowNext

(* A row at the end of its phases leaves the list in order. *)
LEMMA PhaseEndsSynced ==
    ASSUME TypeOK', NEW r \in Rows, op'[r].kind # "none", Phase(r)', SettledRow(r)'
    PROVE  Synced'
  BY DEF Phase, Ended, Pending, SettledRow, Patched, Synced, FetchFresh, TypeOK, OpType

(* The closure after a click on Undo. *)
LEMMA ClickFields ==
    ASSUME TypeOK, NEW r \in Rows, ClickUndo(r)
    PROVE  /\ op'[r].undone = TRUE /\ op'[r].toast = "closing"
           /\ op'[r].undo = IF Deferred THEN "ended" ELSE "waiting"
           /\ op'[r].kind = op[r].kind /\ op'[r].write = op[r].write
           /\ op'[r].failed = op[r].failed /\ op'[r].started = op[r].started
           /\ op'[r].posts = op[r].posts /\ op'[r].saved = op[r].saved
           /\ op'[r].list = op[r].list
  <1>1. PICK u \in {"waiting", "ended"} :
          u = (IF Deferred THEN "ended" ELSE "waiting") /\ op' = [op EXCEPT ![r] = Undoing(op[r], u)]
    BY DEF ClickUndo
  <1>2. op'[r] = Undoing(op[r], u) /\ op[r] \in OpType
    BY <1>1 DEF TypeOK
  <1>3. /\ op'[r].undone = TRUE /\ op'[r].undo = u /\ op'[r].toast = "closing"
        /\ op'[r].kind = op[r].kind /\ op'[r].write = op[r].write
        /\ op'[r].failed = op[r].failed /\ op'[r].started = op[r].started
        /\ op'[r].posts = op[r].posts /\ op'[r].saved = op[r].saved
        /\ op'[r].list = op[r].list
    <2>1. PICK o \in OpType : o = op[r] /\ op'[r] = Undoing(o, u)
      BY <1>2
    <2>2. QED
      <3>1. /\ Undoing(o, u).undone = TRUE /\ Undoing(o, u).undo = u
            /\ Undoing(o, u).toast = "closing"
            /\ Undoing(o, u).kind = o.kind /\ Undoing(o, u).write = o.write
            /\ Undoing(o, u).failed = o.failed /\ Undoing(o, u).started = o.started
            /\ Undoing(o, u).posts = o.posts /\ Undoing(o, u).saved = o.saved
            /\ Undoing(o, u).list = o.list
        BY UndoFields
      <3>2. QED
        BY <2>1, <3>1
  <1>4. QED
    BY <1>1, <1>3

LEMMA ToastStep ==
    ASSUME TypeOK, NEW r \in Rows, RowInv(r), ToastInv(r), RowNext(r)
    PROVE  ToastInv(r)'
  <1>1. CASE CheckTerm(r)
    BY <1>1 DEF CheckTerm, ToastInv, Deferred, RowInv, TypeOK, OpType
  <1>2. CASE TermCheckRefuses(r)
    BY <1>2 DEF TermCheckRefuses, ToastInv, Deferred, RowInv, TypeOK, OpType
  <1>3. CASE ScheduleDelete(r)
    BY <1>3 DEF ScheduleDelete, Deleting, Committing, ToastInv, Deferred, RowInv, TypeOK, OpType
  <1>4. CASE ScheduleCreate(r)
    BY <1>4 DEF ScheduleCreate, Creating, Committing, NoOp, ToastInv, Deferred, RowInv, TypeOK, OpType
  <1>5. CASE ClickUndo(r)
    <2>1. op[r].kind = "delete"
      BY <1>5 DEF ClickUndo
    <2>2. QED
      BY <1>5, <2>1, ClickFields DEF ClickUndo, ToastInv, Deferred
  <1>6. CASE ToastCloses(r)
    BY <1>6 DEF ToastCloses, ClosedToast, CanCommit, Committing, ToastInv, Deferred, RowInv, TypeOK, OpType
  <1>7. CASE ToastRemoved(r)
    BY <1>7 DEF ToastRemoved, ClosedToast, CanCommit, Committing, ToastInv, Deferred, RowInv, TypeOK, OpType
  <1>8. CASE ServerApplies(r)
    BY <1>8 DEF ServerApplies, ToastInv, Deferred, RowInv, TypeOK, OpType
  <1>9. CASE ServerRefuses(r)
    BY <1>9 DEF ServerRefuses, ToastInv, Deferred, RowInv, TypeOK, OpType
  <1>10. CASE AnswerLost(r)
    BY <1>10 DEF AnswerLost, ToastInv, Deferred, RowInv, TypeOK, OpType
  <1>11. CASE CommitSucceeds(r)
    BY <1>11 DEF CommitSucceeds, ToastInv, Deferred, RowInv, TypeOK, OpType
  <1>12. CASE CommitRefreshed(r)
    BY <1>12 DEF CommitRefreshed, ToastInv, Deferred, RowInv, TypeOK, OpType
  <1>13. CASE CommitFails(r)
    BY <1>13 DEF CommitFails, ToastInv, Deferred, RowInv, TypeOK, OpType
  <1>14. CASE UndoReverses(r)
    BY <1>14 DEF UndoReverses, ToastInv, Deferred, RowInv, TypeOK, OpType
  <1>15. CASE ServerReverses(r)
    BY <1>15 DEF ServerReverses, ToastInv, Deferred, RowInv, TypeOK, OpType
  <1>16. CASE ReverseFails(r)
    BY <1>16 DEF ReverseFails, ToastInv, Deferred, RowInv, TypeOK, OpType
  <1>17. CASE UndoReverts(r)
    BY <1>17 DEF UndoReverts, ToastInv, Deferred, RowInv, TypeOK, OpType
  <1>18. CASE UndoFindsFailure(r)
    BY <1>18 DEF UndoFindsFailure, ToastInv, Deferred, RowInv, TypeOK, OpType
  <1>19. CASE SnapshotRead(r)
    BY <1>19 DEF SnapshotRead, ToastInv, Deferred, RowInv, TypeOK, OpType
  <1>20. CASE SnapshotApplied(r)
    BY <1>20 DEF SnapshotApplied, ToastInv, Deferred, RowInv, TypeOK, OpType
  <1>21. CASE SnapshotFails(r)
    BY <1>21 DEF SnapshotFails, ToastInv, Deferred, RowInv, TypeOK, OpType
  <1>22. QED
    BY <1>19, <1>20, <1>21, <1>1, <1>2, <1>3, <1>4, <1>5, <1>6, <1>7, <1>8, <1>9, <1>10, <1>11, <1>12, <1>13, <1>14, <1>15, <1>16, <1>17, <1>18
    DEF RowNext, UserNext, ToastNext, WriteNext, UndoNext

LEMMA ScheduledOnce ==
    ASSUME NEW r \in Rows, ToastInv(r), op[r].kind # "none"
    PROVE  ~CheckTerm(r) /\ ~TermCheckRefuses(r) /\ ~ScheduleDelete(r) /\ ~ScheduleCreate(r)
  BY DEF ToastInv, CheckTerm, TermCheckRefuses, ScheduleDelete, ScheduleCreate, NoOp

(* Nothing takes a schedule back, and nothing but a term check precedes it. *)
LEMMA KindStays ==
    ASSUME TypeOK, NEW r \in Rows, ToastInv(r)', ToastInv(r), op[r].kind # "none", RowNext(r)
    PROVE  op'[r].kind # "none"
  <1>1. ~UserNext(r) \/ ClickUndo(r)
    BY ScheduledOnce DEF UserNext
  <1>2. CASE ClickUndo(r)
    BY <1>2, ClickFields
  <1>3. CASE ToastNext(r)
    <2>1. CASE ToastCloses(r)
      BY <2>1 DEF ToastCloses, ClosedToast, Committing, TypeOK, OpType
    <2>2. CASE ToastRemoved(r)
      BY <2>2 DEF ToastRemoved, ClosedToast, Committing, TypeOK, OpType
    <2>3. QED
      BY <1>3, <2>1, <2>2 DEF ToastNext
  <1>4. CASE WriteNext(r) \/ UndoNext(r)
    <2>1. ~TermCheckRefuses(r)
      BY ScheduledOnce
    <2>2. CASE ServerApplies(r)
      BY <2>2 DEF ServerApplies, TypeOK, OpType
    <2>3. CASE ServerRefuses(r)
      BY <2>3 DEF ServerRefuses, TypeOK, OpType
    <2>4. CASE AnswerLost(r)
      BY <2>4 DEF AnswerLost, TypeOK, OpType
    <2>5. CASE CommitSucceeds(r)
      BY <2>5 DEF CommitSucceeds, TypeOK, OpType
    <2>6. CASE CommitRefreshed(r)
      BY <2>6 DEF CommitRefreshed, TypeOK, OpType
    <2>7. CASE CommitFails(r)
      BY <2>7 DEF CommitFails, TypeOK, OpType
    <2>8. CASE UndoReverses(r)
      BY <2>8 DEF UndoReverses, TypeOK, OpType
    <2>9. CASE ServerReverses(r)
      BY <2>9 DEF ServerReverses, TypeOK, OpType
    <2>10. CASE ReverseFails(r)
      BY <2>10 DEF ReverseFails, TypeOK, OpType
    <2>11. CASE UndoReverts(r)
      BY <2>11 DEF UndoReverts, TypeOK, OpType
    <2>12. CASE UndoFindsFailure(r)
      BY <2>12 DEF UndoFindsFailure, TypeOK, OpType
    <2>13. CASE SnapshotRead(r)
      BY <2>13 DEF SnapshotRead, TypeOK, OpType
    <2>14. CASE SnapshotApplied(r)
      BY <2>14 DEF SnapshotApplied, TypeOK, OpType
    <2>15. CASE SnapshotFails(r)
      BY <2>15 DEF SnapshotFails, TypeOK, OpType
    <2>16. QED
      BY <2>13, <2>14, <2>15, <1>4, <2>1, <2>2, <2>3, <2>4, <2>5, <2>6, <2>7, <2>8, <2>9, <2>10, <2>11, <2>12
      DEF WriteNext, UndoNext
  <1>5. QED
    BY <1>1, <1>2, <1>3, <1>4 DEF RowNext

LEMMA NoneStep ==
    ASSUME TypeOK, NEW r \in Rows, RowInv(r), ToastInv(r), op[r].kind = "none", RowNext(r)
    PROVE  CheckTerm(r) \/ TermCheckRefuses(r) \/ ScheduleDelete(r) \/ ScheduleCreate(r)
  <1>1. /\ op[r].undo = "none" /\ op[r].write = "none" /\ op[r].toast \in {"none", "checking"}
    BY DEF RowInv, ToastInv
  <1>2. QED
    BY <1>1 DEF RowNext, UserNext, ToastNext, WriteNext, UndoNext, ClickUndo,
      ToastCloses, ToastRemoved, ServerApplies, ServerRefuses, AnswerLost, CommitSucceeds,
      CommitRefreshed, SnapshotRead, SnapshotApplied, SnapshotFails, CommitFails, UndoReverses, ServerReverses, ReverseFails, UndoReverts,
      UndoFindsFailure

(* Each step of a busy row takes it from one phase to the next. *)
LEMMA PhaseStep ==
    ASSUME TypeOK, TypeOK', NEW r \in Rows, RowInv(r), ToastInv(r), ToastInv(r)', CallerInv,
           fetch.stage = "idle" => fetch = Idle,
           op[r].kind # "none", Phase(r), calm', RowNext(r)
    PROVE  Phase(r)'
  <1> USE DEF Phase, Pending, Ended, Patched, Result, Refetches, Synced, FetchFresh, Unrivalled, ToastInv, RowInv, CallerInv
  <1>1. CASE ClickUndo(r)
    <2>1. op[r].kind = "delete" /\ op[r].undo = "none" /\ ~op[r].undone /\ ~op[r].failed /\ srv' = srv /\ site' = site
      BY <1>1 DEF ClickUndo, TypeOK, OpType
    <2>2. CASE Deferred
      <3>1. ~op[r].started /\ ui' = op[r].saved /\ op'[r].undo = "ended"
        BY <1>1, <2>2, ClickFields DEF ClickUndo
      <3>2. op[r].write = "none" /\ srv = op[r].saved
        BY <2>1, <3>1 DEF TypeOK, OpType
      <3>3. fetch' \in {Asked, Idle, fetch}
        BY <1>1, <2>2 DEF ClickUndo, FetchAfterPatch
      <3>4. Synced'
        BY <2>1, <3>1, <3>2, <3>3 DEF Asked, Idle
      <3>5. Unrivalled'
        BY <1>1, <2>1, <2>2 DEF ClickUndo, FetchAfterPatch, Idle
      <3>6. /\ op'[r].kind = op[r].kind /\ op'[r].write = op[r].write
            /\ op'[r].undone = TRUE /\ op'[r].saved = op[r].saved
        BY <1>1, ClickFields
      <3>7. QED
        BY <2>1, <3>1, <3>2, <3>4, <3>5, <3>6
    <2>3. CASE ~Deferred
      <3>1. op'[r].undo = "waiting" /\ ui' = ui /\ fetch' = fetch
        BY <1>1, <2>3, ClickFields DEF ClickUndo
      <3>2. op[r].write # "none"
        BY <2>1, <2>3
      <3>3. /\ op'[r].kind = op[r].kind /\ op'[r].write = op[r].write
            /\ op'[r].failed = op[r].failed /\ op'[r].saved = op[r].saved
            /\ op'[r].list = op[r].list
        BY <1>1, ClickFields
      <3>4. Pending(r)'
        BY <2>1, <3>1, <3>3
      <3>5. Ended(r)'
        BY <2>1, <3>1, <3>3
      <3>6. QED
        BY <2>1, <3>1, <3>2, <3>3, <3>4, <3>5
    <2>4. QED
      BY <2>2, <2>3
  <1>2. CASE ToastCloses(r)
    BY <1>2 DEF ToastCloses, ClosedToast, CanCommit, Committing, TypeOK, OpType
  <1>3. CASE ToastRemoved(r)
    BY <1>3 DEF ToastRemoved, ClosedToast, CanCommit, Committing, TypeOK, OpType
  <1>4. CASE ServerApplies(r)
    <2>1. /\ op[r].write = "sent" /\ op'[r] = [op[r] EXCEPT !.write = "applied"]
          /\ ui' = ui /\ fetch' = fetch /\ site' = site /\ op[r] \in OpType
      BY <1>4 DEF ServerApplies, TypeOK
    <2>2. op[r].undo \in {"none", "waiting"} /\ srv = op[r].saved
      BY <2>1 DEF OpType
    <2>3. srv' = Result(r)
      BY <1>4, <2>2 DEF ServerApplies
    <2>4. QED
      BY <2>1, <2>2, <2>3 DEF OpType
  <1>5. CASE ServerRefuses(r)
    BY <1>5 DEF ServerRefuses, TypeOK, OpType
  <1>6. CASE AnswerLost(r)
    BY <1>6 DEF AnswerLost, TypeOK, OpType
  <1>7. CASE CommitSucceeds(r)
    <2>1. /\ op[r].write = "applied" /\ op[r] \in OpType
          /\ op[r].undo \in {"none", "waiting"} /\ srv = Result(r)
          /\ UNCHANGED <<ui, srv, site>>
      BY <1>7 DEF CommitSucceeds, TypeOK, OpType
    <2>2. CASE Refetches(r)
      <3>1. /\ op'[r] = [op[r] EXCEPT !.write = "refreshing"]
            /\ fetch' = IF site.direct THEN fetch ELSE Asked
        BY <1>7, <2>2 DEF CommitSucceeds, TypeOK
      <3>2. QED
        BY <2>1, <3>1 DEF Asked, OpType
    <2>3. CASE ~Refetches(r)
      <3>1. op'[r] = [op[r] EXCEPT !.write = "settled"] /\ fetch' = fetch
        BY <1>7, <2>3 DEF CommitSucceeds, TypeOK
      <3>2. ~op[r].failed
        BY <2>1
      <3>3. QED
        BY <2>1, <2>3, <3>1 DEF OpType
    <2>4. QED
      BY <2>2, <2>3
  <1>8. CASE CommitRefreshed(r)
    BY <1>8 DEF CommitRefreshed, Idle, TypeOK, OpType
  <1>9. CASE CommitFails(r)
    BY <1>9 DEF CommitFails, Reverted, FetchAfterPatch, Idle, TypeOK, OpType
  <1>10. CASE UndoReverses(r)
    BY <1>10 DEF UndoReverses, CommitEnded, TypeOK, OpType
  <1>11. CASE ServerReverses(r)
    BY <1>11 DEF ServerReverses, TypeOK, OpType
  <1>12. CASE ReverseFails(r)
    <2>1. /\ op[r].undo = "reversing" /\ op'[r] = [op[r] EXCEPT !.undo = "ended"]
          /\ UNCHANGED <<ui, srv, fetch, site>> /\ op[r] \in OpType
      BY <1>12 DEF ReverseFails, TypeOK
    <2>2. op[r].write = "settled" /\ ~op[r].failed
      BY <2>1
    <2>3. Synced
      BY <2>1, <2>2
    <2>4. QED
      BY <2>1, <2>2, <2>3 DEF OpType
  <1>13. CASE UndoReverts(r)
    BY <1>13 DEF UndoReverts, CommitEnded, FetchAfterPatch, Asked, Idle, TypeOK, OpType
  <1>14. CASE UndoFindsFailure(r)
    BY <1>14 DEF UndoFindsFailure, CommitEnded, TypeOK, OpType
  <1>15. ~CheckTerm(r) /\ ~TermCheckRefuses(r) /\ ~ScheduleDelete(r) /\ ~ScheduleCreate(r)
    BY ScheduledOnce
  <1>16. CASE SnapshotRead(r)
    <2>1. /\ op[r].write = "refreshing" /\ op'[r] = [op[r] EXCEPT !.write = "listed", !.list = srv]
          /\ UNCHANGED <<ui, srv, fetch, site>> /\ op[r] \in OpType /\ site.direct
      BY <1>16 DEF SnapshotRead, TypeOK
    <2>2. QED
      BY <2>1 DEF OpType
  <1>17. CASE SnapshotApplied(r)
    <2>1. /\ op[r].write = "listed" /\ op'[r] = [op[r] EXCEPT !.write = "settled"]
          /\ ui' = op[r].list /\ UNCHANGED <<srv, fetch, site>> /\ op[r] \in OpType
      BY <1>17 DEF SnapshotApplied, TypeOK
    <2>2. op[r].undo \in {"none", "waiting"} /\ ~op[r].failed
      BY <2>1 DEF OpType
    <2>3. ui' = srv /\ srv = Result(r) /\ fetch.stage = "idle"
      BY <2>1, <2>2
    <2>4. QED
      BY <2>1, <2>2, <2>3 DEF OpType
  <1>18. CASE SnapshotFails(r)
    BY <1>18 DEF SnapshotFails
  <1>19. QED
    BY <1>16, <1>17, <1>18, <1>1, <1>2, <1>3, <1>4, <1>5, <1>6, <1>7, <1>8, <1>9, <1>10, <1>11, <1>12, <1>13, <1>14, <1>15
    DEF RowNext, UserNext, ToastNext, WriteNext, UndoNext

(* The first step of a row: the snapshot is the list, and the list the server's. *)
LEMMA PhaseBegins ==
    ASSUME TypeOK, NEW r \in Rows, RowInv(r), ToastInv(r), CallerInv,
           fetch.stage = "idle" => fetch = Idle,
           Synced, Undisturbed(r), ScheduleDelete(r) \/ ScheduleCreate(r)
    PROVE  Phase(r)'
  <1>0. ui = srv /\ Rendered(r) = ui /\ (site.direct => fetch.stage = "idle")
    BY DEF Undisturbed, Idle
  <1>1. CASE ScheduleDelete(r)
    <2>1. /\ op[r].kind = "none" /\ op[r].undo = "none" /\ op[r].write = "none"
          /\ ~op[r].undone /\ op[r] \in OpType
      BY <1>1 DEF ScheduleDelete, RowInv, TypeOK
    <2>2. /\ op'[r].kind = "delete" /\ op'[r].saved = ui /\ op'[r].undo = "none"
          /\ op'[r].write \in {"none", "sent"} /\ ~op'[r].undone
      BY <1>0, <1>1, <2>1 DEF ScheduleDelete, Deleting, Committing, TypeOK, OpType
    <2>3. /\ ui' = ui \ {r} /\ fetch' = FetchAfterPatch /\ srv' = srv /\ site' = site
          /\ r \in ui \/ site.lock
      BY <1>0, <1>1 DEF ScheduleDelete
    <2>4. FetchFresh'
      BY <2>3 DEF FetchAfterPatch, Idle, Synced, FetchFresh
    <2>5. ~site.refetch => fetch'.stage = "idle"
      BY <2>3 DEF FetchAfterPatch, Idle, CallerInv
    <2>6. Pending(r)'
      BY <1>0, <2>2, <2>3, <2>4, <2>5 DEF Pending, Patched, Refetches, Result
    <2>7. Ended(r)'
      BY <2>2 DEF Ended
    <2>8. site.reverse => r \in ui
      BY <2>3 DEF CallerInv
    <2>9. Unrivalled'
      BY <1>0, <2>3 DEF Unrivalled, FetchAfterPatch, Idle
    <2>10. QED
      BY <2>2, <2>3, <2>6, <2>7, <2>8, <2>9 DEF Phase
  <1>2. CASE ScheduleCreate(r)
    <2>1. /\ op'[r].kind = "create" /\ op'[r].saved = ui /\ op'[r].undo = "none"
          /\ op'[r].write = "sent" /\ ~op'[r].undone
      BY <1>2 DEF ScheduleCreate, Creating, Committing, NoOp, TypeOK, OpType
    <2>2. fetch' = FetchAfterPatch /\ srv' = srv /\ site' = site
      BY <1>2 DEF ScheduleCreate
    <2>3. FetchFresh'
      BY <2>2 DEF FetchAfterPatch, Idle, Synced, FetchFresh
    <2>4. Unrivalled'
      BY <1>0, <2>2 DEF Unrivalled, FetchAfterPatch, Idle
    <2>5. QED
      BY <1>0, <2>1, <2>2, <2>3, <2>4 DEF Phase, Pending, Ended, Refetches
  <1>3. QED
    BY <1>1, <1>2

LEMMA IdleStep ==
    ASSUME fetch.stage = "idle" => fetch = Idle, [Next]_vars
    PROVE  (fetch.stage = "idle" => fetch = Idle)'
  <1>1. fetch' \in {fetch, Idle, Asked, [stage |-> "read", rows |-> srv]}
    BY DEF Next, UserNext, ToastNext, WriteNext, UndoNext, FetchNext, vars,
      CheckTerm, TermCheckRefuses, ScheduleDelete, ScheduleCreate, ToastCloses, ToastRemoved,
      ClickUndo, ServerApplies, ServerRefuses, AnswerLost, CommitSucceeds, CommitRefreshed,
      CommitFails, UndoReverses, ServerReverses, ReverseFails, UndoReverts, UndoFindsFailure,
      SnapshotRead, SnapshotApplied, SnapshotFails, PageReload, FetchRead, FetchArrives, FetchFails, FetchAfterPatch
  <1>2. QED
    BY <1>1 DEF Idle, Asked

LEMMA ListStepOfRow ==
    ASSUME TypeOK, TypeOK', ClosuresInv, ListInv, NEW r \in Rows, RowNext(r)
    PROVE  ListInv'
  <1>1. \A q \in Rows \ {r} : op'[q] = op[q]
    BY RowSteps, OpReplaced DEF RowNext, UserNext, ToastNext, WriteNext, UndoNext, TypeOK
  <1>2. /\ site' = site /\ mock' = mock /\ (calm' => calm)
    <2>1. CASE UserNext(r)
      BY <2>1 DEF UserNext, CheckTerm, ScheduleDelete, ScheduleCreate, ClickUndo
    <2>2. CASE ToastNext(r)
      BY <2>2 DEF ToastNext, ToastCloses, ToastRemoved
    <2>3. CASE WriteNext(r)
      BY <2>3 DEF WriteNext, TermCheckRefuses, ServerApplies, ServerRefuses, AnswerLost,
        CommitSucceeds, CommitRefreshed, CommitFails, SnapshotRead, SnapshotApplied, SnapshotFails
    <2>4. CASE UndoNext(r)
      <3>1. CASE UndoReverts(r)
        BY <3>1 DEF UndoReverts
      <3>2. CASE ~UndoReverts(r)
        BY <2>4, <3>2 DEF UndoNext, UndoReverses, ServerReverses, ReverseFails, UndoFindsFailure
      <3>3. QED
        BY <3>1, <3>2
    <2>5. QED
      BY <2>1, <2>2, <2>3, <2>4 DEF RowNext
  <1>3. CallerInv'
    BY <1>2 DEF ListInv, CallerInv
  <1>4. (fetch.stage = "idle" => fetch = Idle)'
    BY IdleStep DEF ListInv, Next, RowNext
  <1>5. \A q \in Rows : ToastInv(q)'
    <2>1. ToastInv(r)'
      BY ToastStep DEF ListInv, ClosuresInv
    <2>2. ASSUME NEW q \in Rows \ {r} PROVE ToastInv(q)'
      BY <1>1, <1>2, <2>2 DEF ListInv, ToastInv, Deferred
    <2>3. QED
      BY <2>1, <2>2
  <1>6. \A q \in Rows \ {r} : Busy(q)' <=> Busy(q)
    BY <1>1 DEF Busy, SettledRow
  <1>7. ASSUME calm', op[r].kind # "none"
        PROVE  Phase(r)' /\ op'[r].kind # "none" /\ \A q \in Rows \ {r} : ~Busy(q)'
    <2>1. Busy(r)
      BY <1>7, SettledRowRests DEF ListInv, Busy
    <2>2. Phase(r) /\ \A q \in Rows \ {r} : ~Busy(q)
      BY <1>2, <1>7, <2>1 DEF ListInv
    <2>3. Phase(r)'
      BY <1>5, <1>7, <2>2, PhaseStep DEF ListInv, ClosuresInv
    <2>4. op'[r].kind # "none"
      BY <1>5, <1>7, ScheduledOnce, KindStays DEF ListInv
    <2>5. QED
      BY <1>6, <2>2, <2>3, <2>4
  <1>8. ASSUME calm', ScheduleDelete(r) \/ ScheduleCreate(r)
        PROVE  Phase(r)' /\ op'[r].kind # "none" /\ \A q \in Rows \ {r} : ~Busy(q)'
    <2>1. calm /\ Undisturbed(r) /\ \A q \in Rows \ {r} : SettledRow(q)
      BY <1>8 DEF ScheduleDelete, ScheduleCreate, Undisturbed
    <2>2. op[r].kind = "none"
      <3>1. CASE ScheduleDelete(r)
        BY <3>1 DEF ScheduleDelete
      <3>2. CASE ScheduleCreate(r)
        BY <3>2 DEF ScheduleCreate, NoOp
      <3>3. QED
        BY <1>8, <3>1, <3>2
    <2>3. \A q \in Rows : ~Busy(q)
      BY <2>1, <2>2 DEF Busy
    <2>4. Synced
      BY <2>1, <2>3 DEF ListInv
    <2>5. Phase(r)'
      BY <1>8, <2>1, <2>4, PhaseBegins DEF ListInv, ClosuresInv
    <2>6. op'[r].kind # "none"
      <3>1. CASE ScheduleDelete(r)
        BY <3>1 DEF ScheduleDelete, Deleting, Committing, TypeOK, OpType
      <3>2. CASE ScheduleCreate(r)
        BY <3>2 DEF ScheduleCreate, Creating, Committing, TypeOK, OpType
      <3>3. QED
        BY <1>8, <3>1, <3>2
    <2>7. QED
      BY <1>6, <2>3, <2>5, <2>6
  <1>9. ASSUME calm', Phase(r)', op'[r].kind # "none", \A q \in Rows \ {r} : ~Busy(q)'
        PROVE  /\ \A q, s \in Rows : Busy(q)' /\ Busy(s)' => q = s
               /\ \A q \in Rows : Busy(q)' => Phase(q)'
               /\ (\A q \in Rows : ~Busy(q)') => Synced'
    <2>1. SettledRow(r)' => Synced'
      BY <1>9, PhaseEndsSynced
    <2>2. QED
      BY <1>9, <2>1 DEF Busy
  <1>10. ASSUME calm', op[r].kind = "none", ~ScheduleDelete(r), ~ScheduleCreate(r)
         PROVE  /\ \A q, s \in Rows : Busy(q)' /\ Busy(s)' => q = s
                /\ \A q \in Rows : Busy(q)' => Phase(q)'
                /\ (\A q \in Rows : ~Busy(q)') => Synced'
    <2>1. CheckTerm(r) \/ TermCheckRefuses(r)
      BY <1>10, NoneStep DEF ListInv, ClosuresInv
    <2>2. op'[r].kind = "none" /\ UNCHANGED <<ui, srv, fetch>>
      <3>1. CASE CheckTerm(r)
        BY <1>10, <3>1 DEF CheckTerm, TypeOK, OpType
      <3>2. CASE TermCheckRefuses(r)
        BY <1>10, <3>2 DEF TermCheckRefuses, TypeOK, OpType
      <3>3. QED
        BY <2>1, <3>1, <3>2
    <2>3. \A q \in Rows : Busy(q)' <=> Busy(q)
      BY <1>6, <1>10, <2>2 DEF Busy
    <2>4. Synced' <=> Synced
      BY <2>2 DEF Synced, FetchFresh
    <2>5. ASSUME NEW q \in Rows, Busy(q), Phase(q) PROVE Phase(q)'
      <3>1. op'[q] = op[q]
        BY <1>1, <1>10, <2>5 DEF Busy
      <3>2. QED
        BY <1>2, <2>2, <2>5, <3>1
        DEF Phase, Pending, Ended, Patched, Result, Refetches, Synced, FetchFresh, Unrivalled
    <2>6. QED
      BY <1>2, <1>10, <2>3, <2>4, <2>5 DEF ListInv
  <1>11. QED
    BY <1>3, <1>4, <1>5, <1>7, <1>8, <1>9, <1>10 DEF ListInv

(* A refetch moves the busy row along its phase, or the screen to the server. *)
LEMMA ListStepOfFetch ==
    ASSUME TypeOK, ListInv, FetchNext
    PROVE  ListInv'
  <1>1. UNCHANGED <<op, srv, site, mock>> /\ (calm' => calm)
    <2>1. CASE PageReload
      BY <2>1 DEF PageReload
    <2>2. CASE FetchRead \/ FetchArrives \/ FetchFails
      BY <2>2 DEF FetchRead, FetchArrives, FetchFails
    <2>3. QED
      BY <2>1, <2>2 DEF FetchNext
  <1>2. CallerInv' /\ \A r \in Rows : ToastInv(r)'
    BY <1>1 DEF ListInv, CallerInv, ToastInv, Deferred
  <1>3. (fetch.stage = "idle" => fetch = Idle)'
    BY IdleStep DEF ListInv, Next
  <1>4. \A r \in Rows : Busy(r)' <=> Busy(r)
    BY <1>1 DEF Busy, SettledRow
  <1>5. ASSUME calm' PROVE FetchFresh' /\ (Synced => Synced')
    <2> USE DEF Synced, FetchFresh, Asked, Idle
    <2>1. CASE PageReload
      BY <2>1 DEF PageReload
    <2>2. CASE FetchRead
      BY <2>2 DEF FetchRead
    <2>3. CASE FetchArrives
      BY <2>3 DEF FetchArrives
    <2>4. CASE FetchFails
      BY <1>5, <2>4 DEF FetchFails
    <2>5. QED
      BY <2>1, <2>2, <2>3, <2>4 DEF FetchNext
  <1>6. ASSUME calm', NEW r \in Rows, Busy(r), Phase(r) PROVE Phase(r)'
    <2>1. ~PageReload /\ fetch.stage # "idle"
      BY <1>6 DEF Busy, FetchNext, PageReload, FetchRead, FetchArrives, FetchFails
    <2>2. ~Patched(r)
      BY <2>1 DEF Patched
    <2>3. QED
      BY <1>1, <1>5, <1>6, <2>1, <2>2 DEF Phase, Pending, Ended, Result, Refetches, Unrivalled
  <1>7. QED
    BY <1>1, <1>2, <1>3, <1>4, <1>5, <1>6 DEF ListInv

(* In calm histories the screen, the server and the snapshot of the one busy row
   are always as its phase says. *)
THEOREM ListAgrees == Spec => []ListInv
  <1>1. Init => ListInv
    <2> SUFFICES ASSUME Init PROVE ListInv
      OBVIOUS
    <2>1. CallerInv
      BY CallersAssumption DEF Init, CallerInv
    <2>2. \A r \in Rows : ToastInv(r) /\ ~Busy(r)
      BY DEF Init, NoOp, ToastInv, Busy
    <2>3. Synced /\ (fetch.stage = "idle" => fetch = Idle)
      BY DEF Init, Idle, Synced, FetchFresh
    <2>4. QED
      BY <2>1, <2>2, <2>3 DEF ListInv
  <1>2. TypeOK /\ TypeOK' /\ ClosuresInv /\ ListInv /\ [Next]_vars => ListInv'
    <2> SUFFICES ASSUME TypeOK, TypeOK', ClosuresInv, ListInv, [Next]_vars PROVE ListInv'
      OBVIOUS
    <2>1. ASSUME NEW r \in Rows, RowNext(r) PROVE ListInv'
      BY <2>1, ListStepOfRow
    <2>2. CASE FetchNext
      BY <2>2, ListStepOfFetch
    <2>3. CASE UNCHANGED vars
      BY <2>3 DEF vars, ListInv, CallerInv, ToastInv, Deferred, Busy, SettledRow, Phase, Pending,
        Ended, Patched, Result, Refetches, Synced, FetchFresh, Unrivalled
    <2>4. QED
      BY <2>1, <2>2, <2>3 DEF Next, RowNext
  <1>3. QED
    BY <1>1, <1>2, UndoableTypeCorrect, ClosuresAgree, PTL DEF Spec

(* When everything is settled, the screen shows what the server holds, for any
   number of rows deleted and created one after the other. *)
THEOREM SettledListAgrees == Spec => []SettledListIsServers
  <1>1. ListInv => SettledListIsServers
    BY DEF ListInv, SettledListIsServers, AllSettled, Busy, Synced, Idle
  <1>2. QED
    BY <1>1, ListAgrees, PTL

=============================================================================

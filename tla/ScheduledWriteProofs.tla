------------------------ MODULE ScheduledWriteProofs ------------------------
(***************************************************************************)
(* What the server sees of UndoableMutation, for any set of rows, callers,  *)
(* modes and bounds: the term deletes one at a time (LockIsItsDelete), and  *)
(* the writes as ScheduledWrite promises them.                              *)
(***************************************************************************)
EXTENDS UndoableMutationProofs

(* The flags of one closure: commitStarted is up once the write has begun, a failure
   is known only at its end, and the question about a term has no closure yet. *)
Flags(r) ==
    /\ op[r].started <=> op[r].write # "none"
    /\ op[r].failed => op[r].write = "settled"
    /\ op[r].toast = "checking" => site.lock /\ op[r].kind = "none"
    /\ op[r].toast \in {"open", "closing"} => op[r].kind = "delete"
    /\ op[r].undo = "reversed" => op[r].write = "settled" /\ ~op[r].failed

(* The term lock, for one term. *)
LockRow(r) ==
    site.lock =>
      /\ InDeletion(r) => lock = r
      /\ lock = r => InDeletion(r) \/ (op[r].undone /\ ~op[r].started)

LockInv == \A r \in Rows : Flags(r) /\ LockRow(r)

(* The rows a list may show: those the server holds, and those with a write of
   their own. *)
Known == {q \in Rows : q \in srv \/ op[q].kind # "none"}

(* Until its write is taken a row to delete is stored and a row to create is not, and
   the other way round just after it; and a closure keeps no list of unknown rows. *)
Ungone(r) ==
    /\ op[r].toast = "checking" => r \in srv
    /\ op[r].kind = "delete" /\ op[r].write \in {"none", "sent"} => r \in srv
    /\ op[r].kind = "create" => op[r].write # "none"
    /\ op[r].kind = "create" /\ op[r].write = "sent" => r \notin srv
    /\ op[r].write = "applied" => (r \in srv <=> op[r].kind = "create")
    /\ op[r].saved \subseteq Known
    /\ op[r].list \subseteq Known

OnlyKnownShown ==
    /\ ui \subseteq Known
    /\ fetch.stage = "read" => fetch.rows \subseteq Known
    /\ \A r \in Rows : Ungone(r)
-----------------------------------------------------------------------------
LEMMA FlagsStep ==
    ASSUME TypeOK, ClosuresInv, NEW r \in Rows, Flags(r), RowNext(r)
    PROVE  Flags(r)'
  <1>1. RowNext(r) /\ RowInv(r)
    BY DEF ClosuresInv
  <1>2. Flags(r)'
    <2>1. CASE CheckTerm(r)
      BY <2>1, <1>1
      DEF CheckTerm, LockFree, Flags, RowInv, TypeOK, OpType
    <2>2. CASE TermCheckRefuses(r)
      BY <2>2, <1>1
      DEF TermCheckRefuses, Flags, RowInv, TypeOK, OpType
    <2>3. CASE ScheduleDelete(r)
      BY <2>3, <1>1
      DEF ScheduleDelete, Deleting, Rendered, Committing, Flags, RowInv, TypeOK, OpType
    <2>4. CASE ScheduleCreate(r)
      BY <2>4, <1>1
      DEF ScheduleCreate, Creating, Committing, NoOp, Flags, RowInv, TypeOK, OpType
    <2>5. CASE ToastCloses(r)
      BY <2>5, <1>1
      DEF ToastCloses, ClosedToast, CanCommit, Committing, Flags, RowInv, TypeOK, OpType
    <2>6. CASE ToastRemoved(r)
      BY <2>6, <1>1
      DEF ToastRemoved, ClosedToast, CanCommit, Committing, Flags, RowInv, TypeOK, OpType
    <2>7. CASE ClickUndo(r)
      <3>1. op[r].kind = "delete" /\ ~op[r].undone /\ UNCHANGED <<site, lock, srv>>
        BY <2>7 DEF ClickUndo
      <3>2. QED
        BY <2>7, <1>1, <3>1, ClickFields DEF Flags, RowInv, Deferred
    <2>8. CASE ServerApplies(r)
      BY <2>8, <1>1
      DEF ServerApplies, Flags, RowInv, TypeOK, OpType
    <2>9. CASE ServerRefuses(r)
      BY <2>9, <1>1
      DEF ServerRefuses, Flags, RowInv, TypeOK, OpType
    <2>10. CASE AnswerLost(r)
      BY <2>10, <1>1
      DEF AnswerLost, Flags, RowInv, TypeOK, OpType
    <2>11. CASE CommitSucceeds(r)
      BY <2>11, <1>1
      DEF CommitSucceeds, Released, Flags, RowInv, TypeOK, OpType
    <2>12. CASE CommitRefreshed(r)
      BY <2>12, <1>1
      DEF CommitRefreshed, Released, Flags, RowInv, TypeOK, OpType
    <2>13. CASE CommitFails(r)
      BY <2>13, <1>1
      DEF CommitFails, Released, Flags, RowInv, TypeOK, OpType
    <2>14. CASE UndoReverses(r)
      BY <2>14, <1>1
      DEF UndoReverses, CommitEnded, Flags, RowInv, TypeOK, OpType
    <2>15. CASE ServerReverses(r)
      BY <2>15, <1>1
      DEF ServerReverses, Flags, RowInv, TypeOK, OpType
    <2>16. CASE ReverseFails(r)
      BY <2>16, <1>1
      DEF ReverseFails, Flags, RowInv, TypeOK, OpType
    <2>17. CASE UndoReverts(r)
      BY <2>17, <1>1
      DEF UndoReverts, CommitEnded, Flags, RowInv, TypeOK, OpType
    <2>18. CASE UndoFindsFailure(r)
      BY <2>18, <1>1
      DEF UndoFindsFailure, CommitEnded, Flags, RowInv, TypeOK, OpType
    <2>19. CASE SnapshotRead(r)
      BY <2>19, <1>1
      DEF SnapshotRead, Flags, RowInv, TypeOK, OpType
    <2>20. CASE SnapshotApplied(r)
      BY <2>20, <1>1
      DEF SnapshotApplied, Released, Flags, RowInv, TypeOK, OpType
    <2>21. CASE SnapshotFails(r)
      BY <2>21, <1>1
      DEF SnapshotFails, Released, Flags, RowInv, TypeOK, OpType
    <2>22. QED
      BY <2>19, <2>20, <2>21, <1>1, <2>1, <2>2, <2>3, <2>4, <2>5, <2>6, <2>7, <2>8, <2>9, <2>10, <2>11, <2>12, <2>13, <2>14, <2>15, <2>16, <2>17, <2>18
      DEF RowNext, UserNext, ToastNext, WriteNext, UndoNext
  <1>3. QED
    BY <1>2

LEMMA LockRowStep ==
    ASSUME TypeOK, ClosuresInv, NEW r \in Rows, Flags(r), LockRow(r), RowNext(r)
    PROVE  LockRow(r)'
  <1>1. RowNext(r) /\ RowInv(r)
    BY DEF ClosuresInv
  <1>2. LockRow(r)'
    <2>1. CASE CheckTerm(r)
      BY <2>1, <1>1, ConstantsAssumption
      DEF CheckTerm, LockFree, LockRow, InDeletion, Flags, RowInv, TypeOK, OpType
    <2>2. CASE TermCheckRefuses(r)
      BY <2>2, <1>1, ConstantsAssumption
      DEF TermCheckRefuses, LockRow, InDeletion, Flags, RowInv, TypeOK, OpType
    <2>3. CASE ScheduleDelete(r)
      BY <2>3, <1>1
      DEF ScheduleDelete, Deleting, Rendered, Committing, LockRow, InDeletion, Flags, RowInv, TypeOK, OpType
    <2>4. CASE ScheduleCreate(r)
      BY <2>4, <1>1
      DEF ScheduleCreate, Creating, Committing, NoOp, LockRow, InDeletion, Flags, RowInv, TypeOK, OpType
    <2>5. CASE ToastCloses(r)
      BY <2>5, <1>1
      DEF ToastCloses, ClosedToast, CanCommit, Committing, LockRow, InDeletion, Flags, RowInv, TypeOK, OpType
    <2>6. CASE ToastRemoved(r)
      BY <2>6, <1>1
      DEF ToastRemoved, ClosedToast, CanCommit, Committing, LockRow, InDeletion, Flags, RowInv, TypeOK, OpType
    <2>7. CASE ClickUndo(r)
      <3>1. op[r].kind = "delete" /\ ~op[r].undone /\ UNCHANGED <<site, lock, srv>>
        BY <2>7 DEF ClickUndo
      <3>2. QED
        BY <2>7, <1>1, <3>1, ClickFields DEF LockRow, InDeletion, Flags
    <2>8. CASE ServerApplies(r)
      BY <2>8, <1>1
      DEF ServerApplies, LockRow, InDeletion, Flags, RowInv, TypeOK, OpType
    <2>9. CASE ServerRefuses(r)
      BY <2>9, <1>1
      DEF ServerRefuses, LockRow, InDeletion, Flags, RowInv, TypeOK, OpType
    <2>10. CASE AnswerLost(r)
      BY <2>10, <1>1
      DEF AnswerLost, LockRow, InDeletion, Flags, RowInv, TypeOK, OpType
    <2>11. CASE CommitSucceeds(r)
      BY <2>11, <1>1, ConstantsAssumption
      DEF CommitSucceeds, Released, LockRow, InDeletion, Flags, RowInv, TypeOK, OpType
    <2>12. CASE CommitRefreshed(r)
      BY <2>12, <1>1, ConstantsAssumption
      DEF CommitRefreshed, Released, LockRow, InDeletion, Flags, RowInv, TypeOK, OpType
    <2>13. CASE CommitFails(r)
      BY <2>13, <1>1, ConstantsAssumption
      DEF CommitFails, Released, LockRow, InDeletion, Flags, RowInv, TypeOK, OpType
    <2>14. CASE UndoReverses(r)
      BY <2>14, <1>1
      DEF UndoReverses, CommitEnded, LockRow, InDeletion, Flags, RowInv, TypeOK, OpType
    <2>15. CASE ServerReverses(r)
      BY <2>15, <1>1
      DEF ServerReverses, LockRow, InDeletion, Flags, RowInv, TypeOK, OpType
    <2>16. CASE ReverseFails(r)
      BY <2>16, <1>1
      DEF ReverseFails, LockRow, InDeletion, Flags, RowInv, TypeOK, OpType
    <2>17. CASE UndoReverts(r)
      BY <2>17, <1>1
      DEF UndoReverts, CommitEnded, LockRow, InDeletion, Flags, RowInv, TypeOK, OpType
    <2>18. CASE UndoFindsFailure(r)
      BY <2>18, <1>1
      DEF UndoFindsFailure, CommitEnded, LockRow, InDeletion, Flags, RowInv, TypeOK, OpType
    <2>19. CASE SnapshotRead(r)
      BY <2>19, <1>1, ConstantsAssumption
      DEF SnapshotRead, LockRow, InDeletion, Flags, RowInv, TypeOK, OpType
    <2>20. CASE SnapshotApplied(r)
      BY <2>20, <1>1, ConstantsAssumption
      DEF SnapshotApplied, Released, LockRow, InDeletion, Flags, RowInv, TypeOK, OpType
    <2>21. CASE SnapshotFails(r)
      BY <2>21, <1>1, ConstantsAssumption
      DEF SnapshotFails, Released, LockRow, InDeletion, Flags, RowInv, TypeOK, OpType
    <2>22. QED
      BY <2>19, <2>20, <2>21, <1>1, <2>1, <2>2, <2>3, <2>4, <2>5, <2>6, <2>7, <2>8, <2>9, <2>10, <2>11, <2>12, <2>13, <2>14, <2>15, <2>16, <2>17, <2>18
      DEF RowNext, UserNext, ToastNext, WriteNext, UndoNext
  <1>3. QED
    BY <1>2

(* A step takes the lock when it is free, frees it at the end of the delete that holds
   it, or leaves it. *)
LEMMA LockMoves ==
    ASSUME TypeOK, ClosuresInv, NEW r \in Rows, Flags(r), LockRow(r), RowNext(r), site.lock
    PROVE  \/ lock' = lock
           \/ lock = NoRow /\ lock' = r
           \/ lock = r /\ lock' = NoRow
  <1>1. CASE CheckTerm(r)
    BY <1>1 DEF CheckTerm, LockFree
  <1>2. CASE TermCheckRefuses(r)
    BY <1>2 DEF TermCheckRefuses, LockRow, InDeletion
  <1>3. CASE CommitSucceeds(r)
    BY <1>3 DEF CommitSucceeds, Released, LockRow, InDeletion, Flags
  <1>4. CASE CommitRefreshed(r)
    BY <1>4 DEF CommitRefreshed, Released, LockRow, InDeletion, Flags
  <1>5. CASE CommitFails(r)
    BY <1>5 DEF CommitFails, Released, LockRow, InDeletion, Flags
  <1>6. CASE SnapshotApplied(r) \/ SnapshotFails(r)
    BY <1>6 DEF SnapshotApplied, SnapshotFails, Released, LockRow, InDeletion, Flags
  <1>7. CASE UNCHANGED lock
    BY <1>7
  <1>8. QED
    BY <1>1, <1>2, <1>3, <1>4, <1>5, <1>6, <1>7
    DEF SnapshotRead, RowNext, UserNext, ToastNext, WriteNext, UndoNext, ScheduleDelete, ScheduleCreate,
      ClickUndo, ToastCloses, ToastRemoved, ServerApplies, ServerRefuses, AnswerLost,
      UndoReverses, ServerReverses, ReverseFails, UndoReverts, UndoFindsFailure

(* The step of another row leaves the lock of row q as it is. *)
LEMMA LockOthers ==
    ASSUME LockInv, NEW r \in Rows, NEW q \in Rows \ {r}, op'[q] = op[q], site' = site,
           site.lock => \/ lock' = lock
                        \/ lock = NoRow /\ lock' = r
                        \/ lock = r /\ lock' = NoRow
    PROVE  Flags(q)' /\ LockRow(q)'
  <1>1. Flags(q) /\ LockRow(q) /\ q # NoRow /\ q # r
    BY ConstantsAssumption DEF LockInv
  <1>2. Flags(q)'
    BY <1>1 DEF Flags
  <1>3. InDeletion(q)' <=> InDeletion(q)
    BY DEF InDeletion
  <1>4. site.lock => (lock' = q <=> lock = q)
    BY <1>1
  <1>5. LockRow(q)'
    BY <1>1, <1>3, <1>4 DEF LockRow
  <1>6. QED
    BY <1>2, <1>5

LEMMA SiteFixed == ASSUME [Next]_vars PROVE site' = site
  BY DEF Next, UserNext, ToastNext, WriteNext, UndoNext, FetchNext, CheckTerm, TermCheckRefuses,
    ScheduleDelete, ScheduleCreate, ClickUndo, ToastCloses, ToastRemoved, ServerApplies,
    ServerRefuses, AnswerLost, CommitSucceeds, CommitRefreshed, SnapshotRead, SnapshotApplied,
    SnapshotFails, CommitFails, UndoReverses,
    ServerReverses, ReverseFails, UndoReverts, UndoFindsFailure, PageReload, FetchRead,
    FetchArrives, FetchFails, vars

LEMMA OthersKept ==
    ASSUME TypeOK, NEW r \in Rows, RowNext(r)
    PROVE  \A q \in Rows \ {r} : op'[q] = op[q]
  BY RowSteps, OpReplaced DEF RowNext, UserNext, ToastNext, WriteNext, UndoNext, TypeOK

LEMMA LockInductive ==
    ASSUME TypeOK, ClosuresInv, LockInv, [Next]_vars
    PROVE  LockInv'
  <1>1. ASSUME NEW r \in Rows, RowNext(r)
        PROVE  LockInv'
    <2>1. Flags(r) /\ LockRow(r)
      BY DEF LockInv
    <2>2. Flags(r)' /\ LockRow(r)'
      BY <1>1, <2>1, FlagsStep, LockRowStep
    <2>3. ASSUME NEW q \in Rows \ {r}
          PROVE  Flags(q)' /\ LockRow(q)'
      <3>1. op'[q] = op[q] /\ site' = site
        BY <1>1, OthersKept, SiteFixed
      <3>2. site.lock => \/ lock' = lock
                         \/ lock = NoRow /\ lock' = r
                         \/ lock = r /\ lock' = NoRow
        BY <1>1, <2>1, LockMoves
      <3>3. QED
        BY <3>1, <3>2, LockOthers
    <2>4. QED
      BY <2>2, <2>3 DEF LockInv
  <1>2. CASE UNCHANGED <<site, op, lock>>
    BY <1>2 DEF LockInv, Flags, LockRow, InDeletion
  <1>3. QED
    BY <1>1, <1>2
    DEF Next, FetchNext, RowNext, vars, PageReload, FetchRead, FetchArrives, FetchFails

(* The flags of every closure and the holder of the term lock, in every state. *)
THEOREM LockAgrees == Spec => []LockInv
  <1>1. Init => LockInv
    BY ConstantsAssumption DEF Init, NoOp, LockInv, Flags, LockRow, InDeletion
  <1>2. TypeOK /\ ClosuresInv /\ LockInv /\ [Next]_vars => LockInv'
    BY LockInductive
  <1>3. QED
    BY <1>1, <1>2, UndoableTypeCorrect, ClosuresAgree, PTL DEF Spec

(* pendingDeleteTermId is the term whose delete is under way, for any number of terms:
   deletes never overlap, none frees the lock of another, and only an Undo in time
   leaves it set. *)
THEOREM TermDeletesOneAtATime == Spec => []LockIsItsDelete
  <1>1. LockInv => LockIsItsDelete
    BY DEF LockInv, LockRow, LockIsItsDelete
  <1>2. QED
    BY <1>1, LockAgrees, PTL

-----------------------------------------------------------------------------
(***************************************************************************)
(* No list, snapshot or answer holds a row that is neither stored nor one   *)
(* this page has written, so that what is scheduled is a delete of a stored *)
(* row.                                                                     *)
(***************************************************************************)
LEMMA KindKept ==
    ASSUME TypeOK, NEW r \in Rows, RowNext(r)
    PROVE  op[r].kind # "none" => op'[r].kind # "none"
  <1>1. RowNext(r)
    OBVIOUS
  <1>2. op[r].kind # "none" => op'[r].kind # "none"
    <2>1. CASE CheckTerm(r)
      BY <2>1, <1>1
      DEF CheckTerm, LockFree, TypeOK, OpType
    <2>2. CASE TermCheckRefuses(r)
      BY <2>2, <1>1
      DEF TermCheckRefuses, TypeOK, OpType
    <2>3. CASE ScheduleDelete(r)
      BY <2>3, <1>1
      DEF ScheduleDelete, Deleting, Rendered, Committing, TypeOK, OpType
    <2>4. CASE ScheduleCreate(r)
      BY <2>4, <1>1
      DEF ScheduleCreate, Creating, Committing, NoOp, TypeOK, OpType
    <2>5. CASE ToastCloses(r)
      BY <2>5, <1>1
      DEF ToastCloses, ClosedToast, CanCommit, Committing, TypeOK, OpType
    <2>6. CASE ToastRemoved(r)
      BY <2>6, <1>1
      DEF ToastRemoved, ClosedToast, CanCommit, Committing, TypeOK, OpType
    <2>7. CASE ClickUndo(r)
      <3>1. op'[r].kind = op[r].kind
        BY <2>7, ClickFields
      <3>2. QED
        BY <3>1
    <2>8. CASE ServerApplies(r)
      BY <2>8, <1>1
      DEF ServerApplies, TypeOK, OpType
    <2>9. CASE ServerRefuses(r)
      BY <2>9, <1>1
      DEF ServerRefuses, TypeOK, OpType
    <2>10. CASE AnswerLost(r)
      BY <2>10, <1>1
      DEF AnswerLost, TypeOK, OpType
    <2>11. CASE CommitSucceeds(r)
      BY <2>11, <1>1
      DEF CommitSucceeds, Released, TypeOK, OpType
    <2>12. CASE CommitRefreshed(r)
      BY <2>12, <1>1
      DEF CommitRefreshed, Released, TypeOK, OpType
    <2>13. CASE CommitFails(r)
      BY <2>13, <1>1
      DEF CommitFails, Released, TypeOK, OpType
    <2>14. CASE UndoReverses(r)
      BY <2>14, <1>1
      DEF UndoReverses, CommitEnded, TypeOK, OpType
    <2>15. CASE ServerReverses(r)
      BY <2>15, <1>1
      DEF ServerReverses, TypeOK, OpType
    <2>16. CASE ReverseFails(r)
      BY <2>16, <1>1
      DEF ReverseFails, TypeOK, OpType
    <2>17. CASE UndoReverts(r)
      BY <2>17, <1>1
      DEF UndoReverts, CommitEnded, TypeOK, OpType
    <2>18. CASE UndoFindsFailure(r)
      BY <2>18, <1>1
      DEF UndoFindsFailure, CommitEnded, TypeOK, OpType
    <2>19. CASE SnapshotRead(r)
      BY <2>19, <1>1
      DEF SnapshotRead, TypeOK, OpType
    <2>20. CASE SnapshotApplied(r)
      BY <2>20, <1>1
      DEF SnapshotApplied, Released, TypeOK, OpType
    <2>21. CASE SnapshotFails(r)
      BY <2>21, <1>1
      DEF SnapshotFails, Released, TypeOK, OpType
    <2>22. QED
      BY <2>19, <2>20, <2>21, <1>1, <2>1, <2>2, <2>3, <2>4, <2>5, <2>6, <2>7, <2>8, <2>9, <2>10, <2>11, <2>12, <2>13, <2>14, <2>15, <2>16, <2>17, <2>18
      DEF RowNext, UserNext, ToastNext, WriteNext, UndoNext
  <1>3. QED
    BY <1>2

(* Only the server's own steps on row r change what it holds, and they change only r. *)
LEMMA StoredMoves ==
    ASSUME NEW r \in Rows, RowNext(r)
    PROVE  \/ srv' = srv
           \/ srv' = srv \cup {r}
           \/ srv' = srv \ {r} /\ op[r].kind = "delete"
  BY DEF RowNext, UserNext, ToastNext, WriteNext, UndoNext, CheckTerm, TermCheckRefuses,
    ScheduleDelete, ScheduleCreate, ClickUndo, ToastCloses, ToastRemoved, ServerApplies,
    ServerRefuses, AnswerLost, CommitSucceeds, CommitRefreshed, SnapshotRead, SnapshotApplied,
    SnapshotFails, CommitFails, UndoReverses,
    ServerReverses, ReverseFails, UndoReverts, UndoFindsFailure

LEMMA KnownGrows ==
    ASSUME TypeOK, NEW r \in Rows, RowNext(r)
    PROVE  Known \subseteq Known'
  <1>1. \A q \in Rows \ {r} : op'[q] = op[q]
    BY OthersKept
  <1>2. op[r].kind # "none" => op'[r].kind # "none"
    BY KindKept
  <1>3. \A q \in srv : q \in srv' \/ (q = r /\ op[r].kind # "none")
    BY StoredMoves
  <1>4. QED
    BY <1>1, <1>2, <1>3 DEF Known

(* What row r puts on screen: its schedule hides or shows it, its failure and its
   Undo bring the snapshot back. *)
LEMMA ScreenMoves ==
    ASSUME TypeOK, NEW r \in Rows, RowNext(r)
    PROVE  \/ ui' = ui
           \/ ui' = ui \ {r}
           \/ ui' = ui \cup {r} /\ ScheduleCreate(r)
           \/ ui' = op[r].saved
           \/ ui' = op[r].saved \ {r}
           \/ ui' = op[r].list
  <1>1. CASE ClickUndo(r)
    BY <1>1 DEF ClickUndo
  <1>2. CASE CommitFails(r)
    BY <1>2 DEF CommitFails, Reverted
  <1>3. CASE ScheduleDelete(r)
    BY <1>3 DEF ScheduleDelete, Rendered
  <1>4. CASE ScheduleCreate(r)
    BY <1>4 DEF ScheduleCreate
  <1>5. CASE UndoReverts(r)
    BY <1>5 DEF UndoReverts
  <1>6. CASE SnapshotApplied(r)
    BY <1>6 DEF SnapshotApplied
  <1>7. CASE UNCHANGED ui
    BY <1>7
  <1>8. QED
    BY <1>1, <1>2, <1>3, <1>4, <1>5, <1>6, <1>7
    DEF SnapshotRead, SnapshotFails, RowNext, UserNext, ToastNext, WriteNext, UndoNext, CheckTerm, TermCheckRefuses,
      ToastCloses, ToastRemoved, ServerApplies, ServerRefuses, AnswerLost, CommitSucceeds,
      CommitRefreshed, UndoReverses, ServerReverses, ReverseFails, UndoFindsFailure

LEMMA FetchMoves ==
    ASSUME NEW r \in Rows, RowNext(r)
    PROVE  fetch' = fetch \/ fetch'.stage # "read"
  BY DEF RowNext, UserNext, ToastNext, WriteNext, UndoNext, CheckTerm, TermCheckRefuses,
    ScheduleDelete, ScheduleCreate, ClickUndo, ToastCloses, ToastRemoved, ServerApplies,
    ServerRefuses, AnswerLost, CommitSucceeds, CommitRefreshed, SnapshotRead, SnapshotApplied,
    SnapshotFails, CommitFails, UndoReverses,
    ServerReverses, ReverseFails, UndoReverts, UndoFindsFailure, FetchAfterPatch, Idle, Asked

(* The snapshot a closure keeps is the list on screen when it was scheduled. *)
LEMMA SnapshotMoves ==
    ASSUME TypeOK, NEW r \in Rows, RowNext(r)
    PROVE  op'[r].saved \in {op[r].saved, ui, {}}
  <1>1. RowNext(r)
    OBVIOUS
  <1>2. op'[r].saved \in {op[r].saved, ui, {}}
    <2>1. CASE CheckTerm(r)
      BY <2>1, <1>1
      DEF CheckTerm, LockFree, TypeOK, OpType
    <2>2. CASE TermCheckRefuses(r)
      BY <2>2, <1>1
      DEF TermCheckRefuses, TypeOK, OpType
    <2>3. CASE ScheduleDelete(r)
      BY <2>3, <1>1
      DEF ScheduleDelete, Deleting, Rendered, Committing, TypeOK, OpType
    <2>4. CASE ScheduleCreate(r)
      BY <2>4, <1>1
      DEF ScheduleCreate, Creating, Committing, NoOp, TypeOK, OpType
    <2>5. CASE ToastCloses(r)
      BY <2>5, <1>1
      DEF ToastCloses, ClosedToast, CanCommit, Committing, TypeOK, OpType
    <2>6. CASE ToastRemoved(r)
      BY <2>6, <1>1
      DEF ToastRemoved, ClosedToast, CanCommit, Committing, TypeOK, OpType
    <2>7. CASE ClickUndo(r)
      <3>1. op'[r].saved = op[r].saved
        BY <2>7, ClickFields
      <3>2. QED
        BY <3>1
    <2>8. CASE ServerApplies(r)
      BY <2>8, <1>1
      DEF ServerApplies, TypeOK, OpType
    <2>9. CASE ServerRefuses(r)
      BY <2>9, <1>1
      DEF ServerRefuses, TypeOK, OpType
    <2>10. CASE AnswerLost(r)
      BY <2>10, <1>1
      DEF AnswerLost, TypeOK, OpType
    <2>11. CASE CommitSucceeds(r)
      BY <2>11, <1>1
      DEF CommitSucceeds, Released, TypeOK, OpType
    <2>12. CASE CommitRefreshed(r)
      BY <2>12, <1>1
      DEF CommitRefreshed, Released, TypeOK, OpType
    <2>13. CASE CommitFails(r)
      BY <2>13, <1>1
      DEF CommitFails, Released, TypeOK, OpType
    <2>14. CASE UndoReverses(r)
      BY <2>14, <1>1
      DEF UndoReverses, CommitEnded, TypeOK, OpType
    <2>15. CASE ServerReverses(r)
      BY <2>15, <1>1
      DEF ServerReverses, TypeOK, OpType
    <2>16. CASE ReverseFails(r)
      BY <2>16, <1>1
      DEF ReverseFails, TypeOK, OpType
    <2>17. CASE UndoReverts(r)
      BY <2>17, <1>1
      DEF UndoReverts, CommitEnded, TypeOK, OpType
    <2>18. CASE UndoFindsFailure(r)
      BY <2>18, <1>1
      DEF UndoFindsFailure, CommitEnded, TypeOK, OpType
    <2>19. CASE SnapshotRead(r)
      BY <2>19, <1>1
      DEF SnapshotRead, TypeOK, OpType
    <2>20. CASE SnapshotApplied(r)
      BY <2>20, <1>1
      DEF SnapshotApplied, Released, TypeOK, OpType
    <2>21. CASE SnapshotFails(r)
      BY <2>21, <1>1
      DEF SnapshotFails, Released, TypeOK, OpType
    <2>22. QED
      BY <2>19, <2>20, <2>21, <1>1, <2>1, <2>2, <2>3, <2>4, <2>5, <2>6, <2>7, <2>8, <2>9, <2>10, <2>11, <2>12, <2>13, <2>14, <2>15, <2>16, <2>17, <2>18
      DEF RowNext, UserNext, ToastNext, WriteNext, UndoNext
  <1>3. QED
    BY <1>2

(* The list a commit reads after its write is the server's. *)
LEMMA ListMoves ==
    ASSUME TypeOK, NEW r \in Rows, RowNext(r)
    PROVE  op'[r].list \in {op[r].list, srv}
  <1>1. RowNext(r)
    OBVIOUS
  <1>2. op'[r].list \in {op[r].list, srv}
    <2>1. CASE CheckTerm(r)
      BY <2>1, <1>1
      DEF CheckTerm, LockFree, TypeOK, OpType
    <2>2. CASE TermCheckRefuses(r)
      BY <2>2, <1>1
      DEF TermCheckRefuses, TypeOK, OpType
    <2>3. CASE ScheduleDelete(r)
      BY <2>3, <1>1
      DEF ScheduleDelete, Deleting, Rendered, Committing, TypeOK, OpType
    <2>4. CASE ScheduleCreate(r)
      BY <2>4, <1>1
      DEF ScheduleCreate, Creating, Committing, NoOp, TypeOK, OpType
    <2>5. CASE ToastCloses(r)
      BY <2>5, <1>1
      DEF ToastCloses, ClosedToast, CanCommit, Committing, TypeOK, OpType
    <2>6. CASE ToastRemoved(r)
      BY <2>6, <1>1
      DEF ToastRemoved, ClosedToast, CanCommit, Committing, TypeOK, OpType
    <2>7. CASE ClickUndo(r)
      <3>1. op'[r].list = op[r].list
        BY <2>7, ClickFields
      <3>2. QED
        BY <3>1
    <2>8. CASE ServerApplies(r)
      BY <2>8, <1>1
      DEF ServerApplies, TypeOK, OpType
    <2>9. CASE ServerRefuses(r)
      BY <2>9, <1>1
      DEF ServerRefuses, TypeOK, OpType
    <2>10. CASE AnswerLost(r)
      BY <2>10, <1>1
      DEF AnswerLost, TypeOK, OpType
    <2>11. CASE CommitSucceeds(r)
      BY <2>11, <1>1
      DEF CommitSucceeds, Released, TypeOK, OpType
    <2>12. CASE CommitRefreshed(r)
      BY <2>12, <1>1
      DEF CommitRefreshed, Released, TypeOK, OpType
    <2>13. CASE CommitFails(r)
      BY <2>13, <1>1
      DEF CommitFails, Released, TypeOK, OpType
    <2>14. CASE UndoReverses(r)
      BY <2>14, <1>1
      DEF UndoReverses, CommitEnded, TypeOK, OpType
    <2>15. CASE ServerReverses(r)
      BY <2>15, <1>1
      DEF ServerReverses, TypeOK, OpType
    <2>16. CASE ReverseFails(r)
      BY <2>16, <1>1
      DEF ReverseFails, TypeOK, OpType
    <2>17. CASE UndoReverts(r)
      BY <2>17, <1>1
      DEF UndoReverts, CommitEnded, TypeOK, OpType
    <2>18. CASE UndoFindsFailure(r)
      BY <2>18, <1>1
      DEF UndoFindsFailure, CommitEnded, TypeOK, OpType
    <2>19. CASE SnapshotRead(r)
      BY <2>19, <1>1
      DEF SnapshotRead, TypeOK, OpType
    <2>20. CASE SnapshotApplied(r)
      BY <2>20, <1>1
      DEF SnapshotApplied, Released, TypeOK, OpType
    <2>21. CASE SnapshotFails(r)
      BY <2>21, <1>1
      DEF SnapshotFails, Released, TypeOK, OpType
    <2>22. QED
      BY <2>19, <2>20, <2>21, <1>1, <2>1, <2>2, <2>3, <2>4, <2>5, <2>6, <2>7, <2>8, <2>9, <2>10, <2>11, <2>12, <2>13, <2>14, <2>15, <2>16, <2>17, <2>18
      DEF RowNext, UserNext, ToastNext, WriteNext, UndoNext
  <1>3. QED
    BY <1>2

(* Until its write is taken a row to delete is stored and a row to create is not. *)
LEMMA UngoneStep ==
    ASSUME TypeOK, ClosuresInv, NEW r \in Rows, Flags(r), Ungone(r), ui \subseteq Known,
           RowNext(r)
    PROVE  Ungone(r)'
  <1>1. RowNext(r) /\ RowInv(r)
    BY DEF ClosuresInv
  <1>2. r \in ui /\ op[r].kind = "none" => r \in srv
    BY DEF Known
  <1>3. op'[r].saved \subseteq Known' /\ op'[r].list \subseteq Known'
    <2>1. srv \subseteq Known
      BY DEF Known, TypeOK
    <2>2. QED
      BY <2>1, SnapshotMoves, ListMoves, KnownGrows DEF Ungone
  <1>4. Ungone(r)'
    <2>1. CASE CheckTerm(r)
      BY <2>1, <1>1, <1>2, <1>3
      DEF CheckTerm, LockFree, Ungone, Flags, RowInv, TypeOK, OpType
    <2>2. CASE TermCheckRefuses(r)
      BY <2>2, <1>1, <1>2, <1>3
      DEF TermCheckRefuses, Ungone, Flags, RowInv, TypeOK, OpType
    <2>3. CASE ScheduleDelete(r)
      BY <2>3, <1>1, <1>2, <1>3
      DEF ScheduleDelete, Deleting, Rendered, Committing, Ungone, Flags, RowInv, TypeOK, OpType
    <2>4. CASE ScheduleCreate(r)
      BY <2>4, <1>1, <1>2, <1>3
      DEF ScheduleCreate, Creating, Committing, NoOp, Ungone, Flags, RowInv, TypeOK, OpType
    <2>5. CASE ToastCloses(r)
      BY <2>5, <1>1, <1>2, <1>3
      DEF ToastCloses, ClosedToast, CanCommit, Committing, Ungone, Flags, RowInv, TypeOK, OpType
    <2>6. CASE ToastRemoved(r)
      BY <2>6, <1>1, <1>2, <1>3
      DEF ToastRemoved, ClosedToast, CanCommit, Committing, Ungone, Flags, RowInv, TypeOK, OpType
    <2>7. CASE ClickUndo(r)
      <3>1. srv' = srv
        BY <2>7 DEF ClickUndo
      <3>2. QED
        BY <2>7, <1>1, <1>3, <3>1, ClickFields DEF Ungone
    <2>8. CASE ServerApplies(r)
      BY <2>8, <1>1, <1>2, <1>3
      DEF ServerApplies, Ungone, Flags, RowInv, TypeOK, OpType
    <2>9. CASE ServerRefuses(r)
      BY <2>9, <1>1, <1>2, <1>3
      DEF ServerRefuses, Ungone, Flags, RowInv, TypeOK, OpType
    <2>10. CASE AnswerLost(r)
      BY <2>10, <1>1, <1>2, <1>3
      DEF AnswerLost, Ungone, Flags, RowInv, TypeOK, OpType
    <2>11. CASE CommitSucceeds(r)
      BY <2>11, <1>1, <1>2, <1>3
      DEF CommitSucceeds, Released, Ungone, Flags, RowInv, TypeOK, OpType
    <2>12. CASE CommitRefreshed(r)
      BY <2>12, <1>1, <1>2, <1>3
      DEF CommitRefreshed, Released, Ungone, Flags, RowInv, TypeOK, OpType
    <2>13. CASE CommitFails(r)
      BY <2>13, <1>1, <1>2, <1>3
      DEF CommitFails, Released, Ungone, Flags, RowInv, TypeOK, OpType
    <2>14. CASE UndoReverses(r)
      BY <2>14, <1>1, <1>2, <1>3
      DEF UndoReverses, CommitEnded, Ungone, Flags, RowInv, TypeOK, OpType
    <2>15. CASE ServerReverses(r)
      BY <2>15, <1>1, <1>2, <1>3
      DEF ServerReverses, Ungone, Flags, RowInv, TypeOK, OpType
    <2>16. CASE ReverseFails(r)
      BY <2>16, <1>1, <1>2, <1>3
      DEF ReverseFails, Ungone, Flags, RowInv, TypeOK, OpType
    <2>17. CASE UndoReverts(r)
      BY <2>17, <1>1, <1>2, <1>3
      DEF UndoReverts, CommitEnded, Ungone, Flags, RowInv, TypeOK, OpType
    <2>18. CASE UndoFindsFailure(r)
      BY <2>18, <1>1, <1>2, <1>3
      DEF UndoFindsFailure, CommitEnded, Ungone, Flags, RowInv, TypeOK, OpType
    <2>19. CASE SnapshotRead(r)
      BY <2>19, <1>1, <1>2, <1>3
      DEF SnapshotRead, Ungone, Flags, RowInv, TypeOK, OpType
    <2>20. CASE SnapshotApplied(r)
      BY <2>20, <1>1, <1>2, <1>3
      DEF SnapshotApplied, Released, Ungone, Flags, RowInv, TypeOK, OpType
    <2>21. CASE SnapshotFails(r)
      BY <2>21, <1>1, <1>2, <1>3
      DEF SnapshotFails, Released, Ungone, Flags, RowInv, TypeOK, OpType
    <2>22. QED
      BY <2>19, <2>20, <2>21, <1>1, <2>1, <2>2, <2>3, <2>4, <2>5, <2>6, <2>7, <2>8, <2>9, <2>10, <2>11, <2>12, <2>13, <2>14, <2>15, <2>16, <2>17, <2>18
      DEF RowNext, UserNext, ToastNext, WriteNext, UndoNext
  <1>5. QED
    BY <1>4

LEMMA OnlyKnownInductive ==
    ASSUME TypeOK, ClosuresInv, LockInv, OnlyKnownShown, [Next]_vars
    PROVE  OnlyKnownShown'
  <1>1. ASSUME NEW r \in Rows, RowNext(r)
        PROVE  OnlyKnownShown'
    <2>1. Known \subseteq Known'
      BY <1>1, KnownGrows
    <2>2. ui' \subseteq Known'
      <3>1. ScheduleCreate(r) => r \in Known'
        BY DEF ScheduleCreate, Creating, Committing, NoOp, Known, TypeOK, OpType
      <3>2. op[r].saved \subseteq Known /\ op[r].list \subseteq Known /\ ui \subseteq Known
        BY DEF OnlyKnownShown, Ungone
      <3>3. QED
        BY <1>1, <2>1, <3>1, <3>2, ScreenMoves
    <2>3. fetch'.stage = "read" => fetch'.rows \subseteq Known'
      BY <1>1, <2>1, FetchMoves DEF OnlyKnownShown
    <2>4. Ungone(r)'
      BY <1>1, UngoneStep DEF OnlyKnownShown, LockInv
    <2>5. ASSUME NEW q \in Rows \ {r}
          PROVE  Ungone(q)'
      <3>1. op'[q] = op[q] /\ (q \in srv' <=> q \in srv)
        BY <1>1, OthersKept, StoredMoves
      <3>2. Ungone(q)
        BY DEF OnlyKnownShown
      <3>3. QED
        BY <2>1, <3>1, <3>2 DEF Ungone
    <2>6. QED
      BY <2>2, <2>3, <2>4, <2>5 DEF OnlyKnownShown
  <1>2. CASE FetchNext
    <2>1. UNCHANGED <<op, srv>>
      BY <1>2 DEF FetchNext, PageReload, FetchRead, FetchArrives, FetchFails
    <2>2. Known' = Known
      BY <2>1 DEF Known
    <2>3. ui' \subseteq Known
      BY <1>2 DEF FetchNext, PageReload, FetchRead, FetchArrives, FetchFails, OnlyKnownShown
    <2>4. srv \subseteq Known
      BY DEF Known, TypeOK
    <2>5. fetch'.stage = "read" => fetch'.rows \subseteq Known
      BY <1>2, <2>4 DEF FetchNext, PageReload, FetchRead, FetchArrives, FetchFails, Asked, Idle
    <2>6. \A q \in Rows : Ungone(q)'
      BY <2>1, <2>2 DEF OnlyKnownShown, Ungone
    <2>7. QED
      BY <2>2, <2>3, <2>5, <2>6 DEF OnlyKnownShown
  <1>3. CASE UNCHANGED vars
    BY <1>3 DEF vars, OnlyKnownShown, Ungone, Known
  <1>4. QED
    BY <1>1, <1>2, <1>3 DEF Next, RowNext

(* What any list, snapshot or answer holds is stored, or this page itself has
   scheduled a write of it, be it refused, undone or over by now (a row like that can
   come back on screen from an old snapshot); and a row whose delete was not sent is
   stored, one whose creation was not is not.  In every reachable state. *)
THEOREM ShownRowsAreKnown == Spec => []OnlyKnownShown
  <1>1. Init => OnlyKnownShown
    BY DEF Init, NoOp, Idle, OnlyKnownShown, Ungone, Known
  <1>2. TypeOK /\ ClosuresInv /\ LockInv /\ OnlyKnownShown /\ [Next]_vars => OnlyKnownShown'
    BY OnlyKnownInductive
  <1>3. QED
    BY <1>1, <1>2, UndoableTypeCorrect, ClosuresAgree, LockAgrees, PTL DEF Spec

-----------------------------------------------------------------------------
(***************************************************************************)
(* The refinement: a step of row r moves its write as ScheduledWrite allows *)
(* or leaves stage and store alone, and so does every other step.           *)
(***************************************************************************)
StageMap == [q \in Rows |-> WriteStage(q)]

From(r, a, b) == WriteStage(r) = a /\ WriteStage(r)' = b

StageMove(r) ==
    \/ WriteStage(r)' = WriteStage(r) /\ srv' = srv
    \/ From(r, "idle", "held") /\ r \in srv /\ srv' = srv
    \/ From(r, "idle", "sent") /\ srv' = srv
    \/ From(r, "held", "sent") /\ srv' = srv
    \/ From(r, "held", "dropped") /\ srv' = srv
    \/ From(r, "sent", "taken") /\ srv' = IF r \in srv THEN srv \ {r} ELSE srv \cup {r}
    \/ From(r, "sent", "refused") /\ srv' = srv
    \/ From(r, "taken", "reversed") /\ r \notin srv /\ srv' = srv \cup {r}

LEMMA RowMoves ==
    ASSUME TypeOK, ClosuresInv, NEW r \in Rows, Flags(r), Ungone(r), ui \subseteq Known,
           RowNext(r)
    PROVE  StageMove(r)
  <1>1. RowNext(r) /\ RowInv(r)
    BY DEF ClosuresInv
  <1>2. r \in ui /\ op[r].kind = "none" => r \in srv
    BY DEF Known
  <1>3. StageMove(r)
    <2>1. CASE CheckTerm(r)
      BY <2>1, <1>1, <1>2
      DEF CheckTerm, LockFree, StageMove, From, WriteStage, Ungone, Flags, RowInv, TypeOK, OpType
    <2>2. CASE TermCheckRefuses(r)
      BY <2>2, <1>1, <1>2
      DEF TermCheckRefuses, StageMove, From, WriteStage, Ungone, Flags, RowInv, TypeOK, OpType
    <2>3. CASE ScheduleDelete(r)
      BY <2>3, <1>1, <1>2
      DEF ScheduleDelete, Deleting, Rendered, Committing, StageMove, From, WriteStage, Ungone, Flags, RowInv, TypeOK, OpType
    <2>4. CASE ScheduleCreate(r)
      BY <2>4, <1>1, <1>2
      DEF ScheduleCreate, Creating, Committing, NoOp, StageMove, From, WriteStage, Ungone, Flags, RowInv, TypeOK, OpType
    <2>5. CASE ToastCloses(r)
      BY <2>5, <1>1, <1>2
      DEF ToastCloses, ClosedToast, CanCommit, Committing, StageMove, From, WriteStage, Ungone, Flags, RowInv, TypeOK, OpType
    <2>6. CASE ToastRemoved(r)
      BY <2>6, <1>1, <1>2
      DEF ToastRemoved, ClosedToast, CanCommit, Committing, StageMove, From, WriteStage, Ungone, Flags, RowInv, TypeOK, OpType
    <2>7. CASE ClickUndo(r)
      <3>1. UNCHANGED srv /\ op[r].kind = "delete" /\ ~op[r].undone
        BY <2>7 DEF ClickUndo
      <3>2. CASE op[r].started
        <4>1. WriteStage(r)' = WriteStage(r)
          BY <2>7, <3>1, <3>2, ClickFields DEF WriteStage
        <4>2. QED
          BY <3>1, <4>1 DEF StageMove
      <3>3. CASE ~op[r].started
        <4>1. WriteStage(r) = "held" /\ WriteStage(r)' = "dropped"
          <5>1. op[r].kind = "delete" /\ op'[r].kind = "delete"
            BY <2>7, <3>1, ClickFields
          <5>2. ~op'[r].started /\ op'[r].undone
            BY <2>7, <3>3, ClickFields
          <5>3. WriteStage(r) = "held"
            BY <3>1, <3>3, <5>1 DEF WriteStage
          <5>4. WriteStage(r)' = "dropped"
            BY <5>1, <5>2 DEF WriteStage
          <5>5. QED
            BY <5>3, <5>4
        <4>2. QED
          BY <3>1, <4>1 DEF StageMove, From
      <3>4. QED
        BY <3>2, <3>3
    <2>8. CASE ServerApplies(r)
      BY <2>8, <1>1, <1>2
      DEF ServerApplies, StageMove, From, WriteStage, Ungone, Flags, RowInv, TypeOK, OpType
    <2>9. CASE ServerRefuses(r)
      BY <2>9, <1>1, <1>2
      DEF ServerRefuses, StageMove, From, WriteStage, Ungone, Flags, RowInv, TypeOK, OpType
    <2>10. CASE AnswerLost(r)
      BY <2>10, <1>1, <1>2
      DEF AnswerLost, StageMove, From, WriteStage, Ungone, Flags, RowInv, TypeOK, OpType
    <2>11. CASE CommitSucceeds(r)
      BY <2>11, <1>1, <1>2
      DEF CommitSucceeds, Released, StageMove, From, WriteStage, Ungone, Flags, RowInv, TypeOK, OpType
    <2>12. CASE CommitRefreshed(r)
      BY <2>12, <1>1, <1>2
      DEF CommitRefreshed, Released, StageMove, From, WriteStage, Ungone, Flags, RowInv, TypeOK, OpType
    <2>13. CASE CommitFails(r)
      BY <2>13, <1>1, <1>2
      DEF CommitFails, Released, StageMove, From, WriteStage, Ungone, Flags, RowInv, TypeOK, OpType
    <2>14. CASE UndoReverses(r)
      BY <2>14, <1>1, <1>2
      DEF UndoReverses, CommitEnded, StageMove, From, WriteStage, Ungone, Flags, RowInv, TypeOK, OpType
    <2>15. CASE ServerReverses(r)
      BY <2>15, <1>1, <1>2
      DEF ServerReverses, StageMove, From, WriteStage, Ungone, Flags, RowInv, TypeOK, OpType
    <2>16. CASE ReverseFails(r)
      BY <2>16, <1>1, <1>2
      DEF ReverseFails, StageMove, From, WriteStage, Ungone, Flags, RowInv, TypeOK, OpType
    <2>17. CASE UndoReverts(r)
      BY <2>17, <1>1, <1>2
      DEF UndoReverts, CommitEnded, StageMove, From, WriteStage, Ungone, Flags, RowInv, TypeOK, OpType
    <2>18. CASE UndoFindsFailure(r)
      BY <2>18, <1>1, <1>2
      DEF UndoFindsFailure, CommitEnded, StageMove, From, WriteStage, Ungone, Flags, RowInv, TypeOK, OpType
    <2>19. CASE SnapshotRead(r)
      BY <2>19, <1>1, <1>2
      DEF SnapshotRead, StageMove, From, WriteStage, Ungone, Flags, RowInv, TypeOK, OpType
    <2>20. CASE SnapshotApplied(r)
      BY <2>20, <1>1, <1>2
      DEF SnapshotApplied, Released, StageMove, From, WriteStage, Ungone, Flags, RowInv, TypeOK, OpType
    <2>21. CASE SnapshotFails(r)
      BY <2>21, <1>1, <1>2
      DEF SnapshotFails, Released, StageMove, From, WriteStage, Ungone, Flags, RowInv, TypeOK, OpType
    <2>22. QED
      BY <2>19, <2>20, <2>21, <1>1, <2>1, <2>2, <2>3, <2>4, <2>5, <2>6, <2>7, <2>8, <2>9, <2>10, <2>11, <2>12, <2>13, <2>14, <2>15, <2>16, <2>17, <2>18
      DEF RowNext, UserNext, ToastNext, WriteNext, UndoNext
  <1>4. QED
    BY <1>3

LEMMA OtherStages ==
    ASSUME TypeOK, NEW r \in Rows, RowNext(r), NEW q \in Rows \ {r}
    PROVE  WriteStage(q)' = WriteStage(q) /\ (q \in srv' <=> q \in srv)
  <1>1. op'[q] = op[q]
    BY OthersKept
  <1>2. q \in srv' <=> q \in srv
    BY StoredMoves
  <1>3. QED
    BY <1>1, <1>2 DEF WriteStage

(* A write that goes from stage a to stage b, seen in the map of all stages. *)
LEMMA MapMoves ==
    ASSUME NEW r \in Rows, NEW a, NEW b, From(r, a, b),
           \A q \in Rows \ {r} : WriteStage(q)' = WriteStage(q)
    PROVE  Server!Moves(r, a, b)
  <1>1. StageMap[r] = a
    BY DEF StageMap, From
  <1>2. StageMap' = [StageMap EXCEPT ![r] = b]
    BY DEF StageMap, From
  <1>3. QED
    BY <1>1, <1>2 DEF StageMap, Server!Moves

LEMMA RowImplements ==
    ASSUME TypeOK, NEW r \in Rows, RowNext(r), StageMove(r)
    PROVE  Server!Step(r) \/ UNCHANGED <<StageMap, srv>>
  <1>1. \A q \in Rows \ {r} : WriteStage(q)' = WriteStage(q)
    BY OtherStages
  <1>2. \A a, b : From(r, a, b) => Server!Moves(r, a, b)
    BY <1>1, MapMoves
  <1>3. CASE WriteStage(r)' = WriteStage(r) /\ srv' = srv
    BY <1>1, <1>3 DEF StageMap
  <1>4. CASE From(r, "idle", "held") /\ r \in srv /\ srv' = srv
    BY <1>2, <1>4 DEF Server!Step, Server!Hold
  <1>5. CASE From(r, "idle", "sent") /\ srv' = srv
    BY <1>2, <1>5 DEF Server!Step, Server!SendAtOnce
  <1>6. CASE From(r, "held", "sent") /\ srv' = srv
    BY <1>2, <1>6 DEF Server!Step, Server!SendHeld
  <1>7. CASE From(r, "held", "dropped") /\ srv' = srv
    BY <1>2, <1>7 DEF Server!Step, Server!Drop
  <1>8. CASE From(r, "sent", "taken") /\ srv' = IF r \in srv THEN srv \ {r} ELSE srv \cup {r}
    BY <1>2, <1>8 DEF Server!Step, Server!Take
  <1>9. CASE From(r, "sent", "refused") /\ srv' = srv
    BY <1>2, <1>9 DEF Server!Step, Server!Refuse
  <1>10. CASE From(r, "taken", "reversed") /\ r \notin srv /\ srv' = srv \cup {r}
    BY <1>2, <1>10 DEF Server!Step, Server!Reverse
  <1>11. QED
    BY <1>3, <1>4, <1>5, <1>6, <1>7, <1>8, <1>9, <1>10 DEF StageMove

LEMMA StepImplements ==
    ASSUME TypeOK, ClosuresInv, LockInv, OnlyKnownShown, [Next]_vars
    PROVE  [Server!Next]_(<<StageMap, srv>>)
  <1>1. ASSUME NEW r \in Rows, RowNext(r)
        PROVE  [Server!Next]_(<<StageMap, srv>>)
    <2>1. StageMove(r)
      BY <1>1, RowMoves DEF LockInv, OnlyKnownShown
    <2>2. Server!Step(r) \/ UNCHANGED <<StageMap, srv>>
      BY <1>1, <2>1, RowImplements
    <2>3. QED
      BY <2>2 DEF Server!Next
  <1>2. CASE UNCHANGED <<op, srv>>
    BY <1>2 DEF StageMap, WriteStage
  <1>3. QED
    BY <1>1, <1>2
    DEF Next, FetchNext, RowNext, vars, PageReload, FetchRead, FetchArrives, FetchFails

(* Behind any caller, mode, fault and order of toasts, answers and Undos, the server
   sees the writes as ScheduledWrite promises them: the refinement the run checks on
   two rows, for any number of them. *)
THEOREM UndoableImplementsScheduledWrite == Spec => ImplementsScheduledWrite
  <1>1. Init => Server!Init
    <2>1. Init => StageMap = [r \in Rows |-> "idle"] /\ srv \in SUBSET Rows
      BY DEF Init, NoOp, StageMap, WriteStage
    <2>2. QED
      BY <2>1 DEF StageMap, Server!Init
  <1>2. TypeOK /\ ClosuresInv /\ LockInv /\ OnlyKnownShown /\ [Next]_vars => [Server!Next]_(Server!vars)
    BY StepImplements DEF StageMap, Server!vars
  <1>3. QED
    BY <1>1, <1>2, UndoableTypeCorrect, ClosuresAgree, LockAgrees, ShownRowsAreKnown, PTL
    DEF Spec, ImplementsScheduledWrite, Server!Spec

(* A write that was dropped, refused or reversed is over: no later step of the toast,
   the answers or the Undo, its own or another row's, touches its row on the server. *)
THEOREM OverIsOver ==
    Spec => [][\A r \in Rows : WriteStage(r) \in {"dropped", "refused", "reversed"} =>
                 /\ WriteStage(r)' = WriteStage(r)
                 /\ r \in srv' <=> r \in srv]_vars
  <1>1. ASSUME TypeOK, ClosuresInv, LockInv, OnlyKnownShown, [Next]_vars, NEW r \in Rows,
               WriteStage(r) \in {"dropped", "refused", "reversed"}
        PROVE  WriteStage(r)' = WriteStage(r) /\ (r \in srv' <=> r \in srv)
    <2>1. CASE RowNext(r)
      BY <1>1, <2>1, RowMoves DEF LockInv, OnlyKnownShown, StageMove, From
    <2>2. ASSUME NEW q \in Rows \ {r}, RowNext(q)
          PROVE  WriteStage(r)' = WriteStage(r) /\ (r \in srv' <=> r \in srv)
      BY <1>1, <2>2, OtherStages
    <2>3. CASE UNCHANGED <<op, srv>>
      BY <2>3 DEF WriteStage
    <2>4. QED
      BY <1>1, <2>1, <2>2, <2>3
      DEF Next, FetchNext, RowNext, vars, PageReload, FetchRead, FetchArrives, FetchFails
  <1>2. TypeOK /\ ClosuresInv /\ LockInv /\ OnlyKnownShown /\ [Next]_vars =>
          [\A r \in Rows : WriteStage(r) \in {"dropped", "refused", "reversed"} =>
             /\ WriteStage(r)' = WriteStage(r)
             /\ r \in srv' <=> r \in srv]_vars
    BY <1>1
  <1>3. QED
    BY <1>2, UndoableTypeCorrect, ClosuresAgree, LockAgrees, ShownRowsAreKnown, PTL DEF Spec

=============================================================================

-------------------------- MODULE UndoableMutation --------------------------
(***************************************************************************)
(* Optimistic list writes with an Undo toast, lib/undoable-mutation.ts,     *)
(* together with the five kinds of caller it has: the deletes of the        *)
(* organizational structure, of a trainee, of a landing block and of an     *)
(* academic term, and the caller its own test file writes.  One list is on  *)
(* screen (ui), its truth is on the server (srv), and every row is the      *)
(* subject of at most one delete or one creation.  Between the two run the  *)
(* toast (sonner: timer, click, exit animation), the write and its answer,  *)
(* one refetch of the list at a time (react-query), and the readings that   *)
(* the term callers make themselves.                                        *)
(***************************************************************************)
EXTENDS Naturals, FiniteSets

CONSTANTS
    Rows,         \* the rows the list may hold
    NoRow,        \* "no row": the value null of pendingDeleteTermId
    Sites,        \* the callers of scheduleUndoableMutation to consider
    Modes,        \* values of IS_MOCK_MODE to consider
    MaxReloads,   \* bound on refetches that no write asks for
    MaxFaults     \* bound on refused writes, lost answers, failed refetches

ASSUME ConstantsAssumption ==
    /\ NoRow \notin Rows
    /\ Modes \subseteq BOOLEAN
    /\ MaxReloads \in Nat
    /\ MaxFaults \in Nat

(***************************************************************************)
(* What a caller gives to scheduleUndoableMutation.  `reverse`: it passes a *)
(* reverse; `result`: its commit resolves to a value other than undefined;  *)
(* `refetch`: after a successful write the commit waits for a new list;     *)
(* `direct`: it reads that list itself (reloadAfterWrite) and puts it on    *)
(* screen, past the refetch of the page; `undoReload`: onUndone refetches;  *)
(* `lock`: pendingDeleteTermId, and a question to the server before the     *)
(* delete; `cancel`: apply and revert cancel the refetch under way          *)
(* (patchItems); `create`: the page also creates rows, with                 *)
(* scheduleOptimisticMutation.                                              *)
(***************************************************************************)
SiteType == [reverse: BOOLEAN, result: BOOLEAN, refetch: BOOLEAN,
             direct: BOOLEAN, undoReload: BOOLEAN, lock: BOOLEAN, cancel: BOOLEAN,
             create: BOOLEAN]

ASSUME SitesAssumption == Sites \subseteq SiteType

(* A caller that leaves the refetch under way alone has a new list after its write,
   one that reads that list itself does so without a refetch of the page, and none
   with a lock can reverse. *)
ASSUME CallersAssumption == \A s \in Sites :
    /\ s.cancel \/ s.refetch
    /\ s.direct => s.refetch /\ ~s.undoReload
    /\ ~(s.lock /\ s.reverse)

OrgDelete == [reverse |-> FALSE, result |-> FALSE, refetch |-> TRUE,
              direct |-> FALSE, undoReload |-> FALSE, lock |-> FALSE, cancel |-> TRUE,
              create |-> TRUE]
TraineeDrop == [reverse |-> TRUE, result |-> FALSE, refetch |-> FALSE,
                direct |-> FALSE, undoReload |-> TRUE, lock |-> FALSE, cancel |-> TRUE,
                create |-> FALSE]
LandingDelete == [reverse |-> FALSE, result |-> FALSE, refetch |-> TRUE,
                  direct |-> FALSE, undoReload |-> FALSE, lock |-> FALSE, cancel |-> FALSE,
                  create |-> TRUE]
TermDelete == [reverse |-> FALSE, result |-> TRUE, refetch |-> TRUE,
               direct |-> TRUE, undoReload |-> FALSE, lock |-> TRUE, cancel |-> FALSE,
               create |-> TRUE]
TestedCaller == [reverse |-> TRUE, result |-> TRUE, refetch |-> FALSE,
                 direct |-> FALSE, undoReload |-> FALSE, lock |-> FALSE, cancel |-> TRUE,
                 create |-> FALSE]

VARIABLES
    site,      \* the caller on screen, fixed in a behaviour
    mock,      \* IS_MOCK_MODE, fixed in a behaviour
    ui,        \* the rows on screen
    srv,       \* the rows the server (or the mock's localStorage) holds
    op,        \* per row, the one delete or creation it undergoes
    fetch,     \* the refetch of the list under way
    lock,      \* pendingDeleteTermId
    reloads,   \* refetches asked by the page itself so far
    faults,    \* failures so far
    calm       \* history: nothing happened that excuses ui from agreeing with srv

vars == <<site, mock, ui, srv, op, fetch, lock, reloads, faults, calm>>

(* The closure of one schedule call (undone, commitFailed, commitStarted, the
   snapshot its caller keeps, the list it read after its write), its toast, its
   write, and the Undo of an immediate commit.  `posts` counts the calls of commit. *)
OpType == [kind: {"none", "delete", "create"},
           toast: {"none", "checking", "open", "closing", "gone"},
           write: {"none", "sent", "applied", "refused", "refreshing", "listed",
                 "settled"},
           undo: {"none", "waiting", "reversing", "reversed", "ended"},
           undone: BOOLEAN, failed: BOOLEAN, started: BOOLEAN,
           posts: Nat, saved: SUBSET Rows, list: SUBSET Rows]

NoOp == [kind |-> "none", toast |-> "none", write |-> "none", undo |-> "none",
         undone |-> FALSE, failed |-> FALSE, started |-> FALSE,
         posts |-> 0, saved |-> {}, list |-> {}]

FetchType == [stage: {"idle", "asked", "read"}, rows: SUBSET Rows]

Idle == [stage |-> "idle", rows |-> {}]
Asked == [stage |-> "asked", rows |-> {}]

TypeOK ==
    /\ site \in SiteType
    /\ mock \in BOOLEAN
    /\ ui \in SUBSET Rows
    /\ srv \in SUBSET Rows
    /\ op \in [Rows -> OpType]
    /\ fetch \in FetchType
    /\ lock \in Rows \cup {NoRow}
    /\ reloads \in 0..MaxReloads
    /\ faults \in 0..MaxFaults
    /\ calm \in BOOLEAN

(* The page opens on a fresh list. *)
Init ==
    /\ site \in Sites
    /\ mock \in Modes
    /\ srv \in SUBSET Rows
    /\ ui = srv
    /\ op = [r \in Rows |-> NoOp]
    /\ fetch = Idle
    /\ lock = NoRow
    /\ reloads = 0
    /\ faults = 0
    /\ calm = TRUE

-----------------------------------------------------------------------------
(* deferCommit: !IS_MOCK_MODE, in all four callers. *)
Deferred == ~mock

Fault == faults < MaxFaults /\ faults' = faults + 1

SettledRow(r) ==
    /\ op[r].toast \in {"none", "gone"}
    /\ \/ op[r].write = "settled"
       \/ op[r].write = "none" /\ (op[r].kind = "none" \/ op[r].undone)
    /\ op[r].undo \in {"none", "ended"}

AllSettled == fetch = Idle /\ \A r \in Rows : SettledRow(r)

(* patchItems cancels the refetch under way before it writes the list;
   setQueryData and setTerms alone do not. *)
FetchAfterPatch == IF site.cancel THEN Idle ELSE fetch

(* The entry guard of runCommit. *)
CanCommitTwice(r) == ~op[r].undone     \* mutant: commitStarted is forgotten
CanCommitUndone(r) == ~op[r].started   \* mutant: undone is forgotten
CanCommit(r) == ~op[r].undone /\ ~op[r].started

Committing(o) ==
    [o EXCEPT !.started = TRUE, !.write = "sent", !.posts = @ + 1]

(* Mutant: neither callback is passed to the toast. *)
ClosedToastUnheard(r, stage) == [op[r] EXCEPT !.toast = stage]

(* onAutoClose and onDismiss both call runCommit, in deferred mode only. *)
ClosedToast(r, stage) ==
    LET o == [op[r] EXCEPT !.toast = stage]
    IN  IF Deferred /\ op[r].kind = "delete" /\ CanCommit(r) THEN Committing(o) ELSE o

-----------------------------------------------------------------------------
(* The entry guard of guardedDeleteTerm. *)
LockUnread == TRUE             \* mutant: pendingDeleteTermId is not looked at
LockFree == lock = NoRow

(* guardedDeleteTerm takes the lock and asks whether the term has a history.  What
   follows the answer is still a closure of this click's render: it takes the list
   of the click for its snapshot and for the list without the row. *)
CheckTerm(r) ==
    /\ site.lock
    /\ LockFree
    /\ r \in ui
    /\ op[r].kind = "none"
    /\ op[r].toast = "none"
    /\ lock' = r
    /\ op' = [op EXCEPT ![r] = [@ EXCEPT !.toast = "checking", !.saved = ui]]
    /\ UNCHANGED <<site, mock, ui, srv, fetch, reloads, faults, calm>>

(* It has one, or the question failed: the lock is freed. *)
TermCheckRefuses(r) ==
    /\ op[r].toast = "checking"
    /\ lock' = NoRow
    /\ op' = [op EXCEPT ![r] = [@ EXCEPT !.toast = "none", !.saved = {}]]
    /\ UNCHANGED <<site, mock, ui, srv, fetch, reloads, faults, calm>>

(* The list of the render whose closure schedules row r. *)
Rendered(r) == IF op[r].toast = "checking" THEN op[r].saved ELSE ui

(* Row r is scheduled with the list up to date and nothing else under way. *)
Undisturbed(r) ==
    /\ ui = srv
    /\ Rendered(r) = ui
    /\ site.direct => fetch = Idle
    /\ \A q \in Rows \ {r} : SettledRow(q)

Deleting(r) ==
    LET o == [op[r] EXCEPT !.kind = "delete", !.toast = "open", !.saved = Rendered(r)]
    IN  IF Deferred THEN o ELSE Committing(o)

(* scheduleUndoableMutation: the row leaves the screen at once, the write goes
   out now (mock) or when the toast closes (real). *)
ScheduleDelete(r) ==
    /\ op[r].kind = "none"
    /\ op[r].toast = IF site.lock THEN "checking" ELSE "none"
    /\ r \in ui \/ site.lock
    /\ ui' = Rendered(r) \ {r}
    /\ fetch' = FetchAfterPatch
    /\ op' = [op EXCEPT ![r] = Deleting(r)]
    /\ calm' = (calm /\ Undisturbed(r))
    /\ UNCHANGED <<site, mock, srv, lock, reloads, faults>>

Creating(r) ==
    Committing([op[r] EXCEPT !.kind = "create", !.toast = "gone", !.saved = ui])

(* scheduleOptimisticMutation of a new row: no Undo, the write goes out now. *)
ScheduleCreate(r) ==
    /\ site.create
    /\ op[r] = NoOp
    /\ r \notin ui
    /\ r \notin srv
    /\ ui' = ui \cup {r}
    /\ fetch' = FetchAfterPatch
    /\ op' = [op EXCEPT ![r] = Creating(r)]
    /\ calm' = (calm /\ Undisturbed(r))
    /\ UNCHANGED <<site, mock, srv, lock, reloads, faults>>

(* The timer runs out (onAutoClose) or the user closes the toast (onDismiss). *)
ToastCloses(r) ==
    /\ op[r].toast = "open"
    /\ op' = [op EXCEPT ![r] = ClosedToast(r, "closing")]
    /\ UNCHANGED <<site, mock, ui, srv, fetch, lock, reloads, faults, calm>>

(* sonner removes the toast after its exit animation, whatever closed it, and
   calls onDismiss again. *)
ToastRemoved(r) ==
    /\ op[r].toast = "closing"
    /\ op' = [op EXCEPT ![r] = ClosedToast(r, "gone")]
    /\ UNCHANGED <<site, mock, ui, srv, fetch, lock, reloads, faults, calm>>

Undoing(o, stage) ==
    [o EXCEPT !.undone = TRUE, !.toast = "closing", !.undo = stage]

(* The Undo button, which stays clickable during the exit animation.  A deferred
   delete is given up on screen alone; an immediate one waits for its commit. *)
ClickUndo(r) ==
    /\ op[r].kind = "delete"
    /\ op[r].toast \in {"open", "closing"}
    /\ ~op[r].undone
    /\ ~op[r].failed
    /\ IF Deferred
         THEN /\ op' = [op EXCEPT ![r] = Undoing(op[r], "ended")]
              /\ ui' = op[r].saved
              /\ fetch' = IF site.undoReload THEN Asked ELSE FetchAfterPatch
              /\ calm' = (calm /\ ~op[r].started)
         ELSE /\ op' = [op EXCEPT ![r] = Undoing(op[r], "waiting")]
              /\ UNCHANGED <<ui, fetch, calm>>
    /\ UNCHANGED <<site, mock, srv, lock, reloads, faults>>

-----------------------------------------------------------------------------
(* The server takes the write. *)
ServerApplies(r) ==
    /\ op[r].write = "sent"
    /\ srv' = IF op[r].kind = "delete" THEN srv \ {r} ELSE srv \cup {r}
    /\ op' = [op EXCEPT ![r] = [@ EXCEPT !.write = "applied"]]
    /\ UNCHANGED <<site, mock, ui, fetch, lock, reloads, faults, calm>>

(* The server refuses it, or it never arrives. *)
ServerRefuses(r) ==
    /\ op[r].write = "sent"
    /\ Fault
    /\ op' = [op EXCEPT ![r] = [@ EXCEPT !.write = "refused"]]
    /\ UNCHANGED <<site, mock, ui, srv, fetch, lock, reloads, calm>>

(* It was applied, but the client sees a timeout or a broken connection. *)
AnswerLost(r) ==
    /\ op[r].write = "applied"
    /\ ~mock
    /\ Fault
    /\ op' = [op EXCEPT ![r] = [@ EXCEPT !.write = "refused"]]
    /\ calm' = FALSE
    /\ UNCHANGED <<site, mock, ui, srv, fetch, lock, reloads>>

(* The finally of a delete's commit frees the lock, whoever holds it, once the list
   is read again. *)
Released(r) == IF op[r].kind = "delete" THEN NoRow ELSE lock

(* commit succeeds.  A caller that wants a new list asks for a refetch (onCommitted)
   or reads the list itself; the others are done. *)
CommitSucceeds(r) ==
    /\ op[r].write = "applied"
    /\ IF site.refetch \/ op[r].kind = "create"
         THEN /\ op' = [op EXCEPT ![r] = [@ EXCEPT !.write = "refreshing"]]
              /\ fetch' = IF site.direct THEN fetch ELSE Asked
              /\ UNCHANGED lock
         ELSE /\ op' = [op EXCEPT ![r] = [@ EXCEPT !.write = "settled"]]
              /\ lock' = Released(r)
              /\ UNCHANGED fetch
    /\ UNCHANGED <<site, mock, ui, srv, reloads, faults, calm>>

(* The refetch the commit waits for is over, one way or the other: a failed one
   is reported and never undoes the write. *)
CommitRefreshed(r) ==
    /\ op[r].write = "refreshing"
    /\ ~site.direct
    /\ fetch = Idle
    /\ op' = [op EXCEPT ![r] = [@ EXCEPT !.write = "settled"]]
    /\ lock' = Released(r)
    /\ UNCHANGED <<site, mock, ui, srv, fetch, reloads, faults, calm>>

(* reloadAfterWrite: the snapshot is read... *)
SnapshotRead(r) ==
    /\ op[r].write = "refreshing"
    /\ site.direct
    /\ op' = [op EXCEPT ![r] = [@ EXCEPT !.write = "listed", !.list = srv]]
    /\ UNCHANGED <<site, mock, ui, srv, fetch, lock, reloads, faults, calm>>

(* ...and put on screen (applySnapshotTerms), whatever refetch is under way... *)
SnapshotApplied(r) ==
    /\ op[r].write = "listed"
    /\ op' = [op EXCEPT ![r] = [@ EXCEPT !.write = "settled"]]
    /\ ui' = op[r].list
    /\ lock' = Released(r)
    /\ UNCHANGED <<site, mock, srv, fetch, reloads, faults, calm>>

(* ...or it cannot be read: PostCommitRefreshError, a warning and no new list. *)
SnapshotFails(r) ==
    /\ op[r].write = "refreshing"
    /\ site.direct /\ ~mock
    /\ Fault
    /\ op' = [op EXCEPT ![r] = [@ EXCEPT !.write = "settled"]]
    /\ lock' = Released(r)
    /\ calm' = FALSE
    /\ UNCHANGED <<site, mock, ui, srv, fetch, reloads>>

(* commit fails: the caller's revert puts its snapshot back. *)
NotReverted(r) == ui            \* mutant: the failure is only reported
RevertedToNothing(r) == {NoRow}   \* mutant: the snapshot is a list of nothing
Reverted(r) == op[r].saved

CommitFails(r) ==
    /\ op[r].write = "refused"
    /\ op' = [op EXCEPT ![r] = [@ EXCEPT !.write = "settled", !.failed = TRUE]]
    /\ ui' = Reverted(r)
    /\ fetch' = FetchAfterPatch
    /\ lock' = Released(r)
    /\ UNCHANGED <<site, mock, srv, reloads, faults, calm>>

-----------------------------------------------------------------------------
(* The Undo of an immediate commit, once that commit is over: `reverse` runs
   only on a result, then the snapshot comes back and onUndone runs. *)
CommitNotAwaited(r) == TRUE     \* mutant: immediateCommitPromise is not awaited
CommitEnded(r) == op[r].write = "settled"

UndoReverses(r) ==
    /\ op[r].undo = "waiting"
    /\ CommitEnded(r)
    /\ ~op[r].failed
    /\ site.reverse /\ site.result
    /\ op' = [op EXCEPT ![r] = [@ EXCEPT !.undo = "reversing"]]
    /\ UNCHANGED <<site, mock, ui, srv, fetch, lock, reloads, faults, calm>>

(* The server takes the reverse write. *)
ServerReverses(r) ==
    /\ op[r].undo = "reversing"
    /\ srv' = srv \cup {r}
    /\ op' = [op EXCEPT ![r] = [@ EXCEPT !.undo = "reversed"]]
    /\ UNCHANGED <<site, mock, ui, fetch, lock, reloads, faults, calm>>

(* The reverse write fails: an error toast, and the screen stays as it was. *)
ReverseFails(r) ==
    /\ op[r].undo = "reversing"
    /\ Fault
    /\ op' = [op EXCEPT ![r] = [@ EXCEPT !.undo = "ended"]]
    /\ UNCHANGED <<site, mock, ui, srv, fetch, lock, reloads, calm>>

(* The snapshot comes back; without a reverse the server keeps the delete. *)
UndoReverts(r) ==
    /\ \/ op[r].undo = "reversed"
       \/ /\ op[r].undo = "waiting"
          /\ CommitEnded(r)
          /\ ~op[r].failed
          /\ ~(site.reverse /\ site.result)
    /\ op' = [op EXCEPT ![r] = [@ EXCEPT !.undo = "ended"]]
    /\ ui' = op[r].saved
    /\ fetch' = IF site.undoReload THEN Asked ELSE FetchAfterPatch
    /\ calm' = (calm /\ (op[r].undo = "reversed" \/ site.undoReload))
    /\ UNCHANGED <<site, mock, srv, lock, reloads, faults>>

(* The commit had failed and put the row back itself. *)
UndoFindsFailure(r) ==
    /\ op[r].undo = "waiting"
    /\ CommitEnded(r)
    /\ op[r].failed
    /\ op' = [op EXCEPT ![r] = [@ EXCEPT !.undo = "ended"]]
    /\ UNCHANGED <<site, mock, ui, srv, fetch, lock, reloads, faults, calm>>

-----------------------------------------------------------------------------
(* The page refetches on its own: focus, navigation, a reload button.  A refetch
   asked while a write is pending may bring back what the write takes away. *)
PageReload ==
    /\ reloads < MaxReloads
    /\ reloads' = reloads + 1
    /\ fetch' = Asked
    /\ calm' = (calm /\ \A r \in Rows : SettledRow(r))
    /\ UNCHANGED <<site, mock, ui, srv, op, lock, faults>>

FetchRead ==
    /\ fetch.stage = "asked"
    /\ fetch' = [stage |-> "read", rows |-> srv]
    /\ UNCHANGED <<site, mock, ui, srv, op, lock, reloads, faults, calm>>

FetchArrives ==
    /\ fetch.stage = "read"
    /\ ui' = fetch.rows
    /\ fetch' = Idle
    /\ UNCHANGED <<site, mock, srv, op, lock, reloads, faults, calm>>

FetchFails ==
    /\ fetch.stage # "idle"
    /\ Fault
    /\ fetch' = Idle
    /\ calm' = FALSE
    /\ UNCHANGED <<site, mock, ui, srv, op, lock, reloads>>

UserNext(r) ==
    \/ CheckTerm(r) \/ ScheduleDelete(r) \/ ScheduleCreate(r) \/ ClickUndo(r)

ToastNext(r) == ToastCloses(r) \/ ToastRemoved(r)

WriteNext(r) ==
    \/ TermCheckRefuses(r)
    \/ ServerApplies(r) \/ ServerRefuses(r) \/ AnswerLost(r)
    \/ CommitSucceeds(r) \/ CommitRefreshed(r) \/ CommitFails(r)
    \/ SnapshotRead(r) \/ SnapshotApplied(r) \/ SnapshotFails(r)

UndoNext(r) ==
    \/ UndoReverses(r) \/ ServerReverses(r) \/ ReverseFails(r)
    \/ UndoReverts(r) \/ UndoFindsFailure(r)

FetchNext == PageReload \/ FetchRead \/ FetchArrives \/ FetchFails

Next ==
    \/ \E r \in Rows : UserNext(r) \/ ToastNext(r) \/ WriteNext(r) \/ UndoNext(r)
    \/ FetchNext

Spec == Init /\ [][Next]_vars

(* The toast's timer and exit animation end, the server answers or times out, and
   the page's own continuations run.  The user owes nothing. *)
Fairness ==
    /\ \A r \in Rows :
         /\ WF_vars(ToastNext(r))
         /\ WF_vars(TermCheckRefuses(r) \/ (site.lock /\ ScheduleDelete(r)))
         /\ WF_vars(ServerApplies(r) \/ ServerRefuses(r))
         /\ WF_vars(CommitSucceeds(r) \/ CommitRefreshed(r) \/ CommitFails(r))
         /\ WF_vars(SnapshotRead(r) \/ SnapshotApplied(r) \/ SnapshotFails(r))
         /\ WF_vars(UndoNext(r))
    /\ WF_vars(FetchRead \/ FetchArrives \/ FetchFails)

FairSpec == Spec /\ Fairness

-----------------------------------------------------------------------------
(* A scheduled write reaches the server at most once, though sonner reports the
   end of one toast twice (the comment on commitStarted). *)
OneCommit == \A r \in Rows : op[r].posts <= 1

(* A delete undone before its commit started is never sent afterwards, whatever
   the toast still reports while it disappears. *)
UndoneInTimeIsNeverSent ==
    [][\A r \in Rows :
         op[r].undone /\ ~op[r].started => ~op'[r].started]_vars

(* The reverse write never overtakes or replaces the write it reverses: it is
   under way only when that write has been applied and is over. *)
ReverseFollowsCommit ==
    \A r \in Rows :
      op[r].undo = "reversing" =>
        op[r].write = "settled" /\ ~op[r].failed /\ r \notin srv

(* The term delete of row r is under way: its history is asked for, its toast waits
   for the Undo, or its commit is not over. *)
InDeletion(r) ==
    \/ op[r].toast = "checking"
    \/ /\ op[r].kind = "delete"
       /\ op[r].write # "settled"
       /\ op[r].started \/ ~op[r].undone

(* pendingDeleteTermId is the term whose delete is under way, so that two never
   overlap and none is freed by the end of another (each finally clears the lock
   without looking at it); it outlives its delete only when an Undo in time keeps
   the commit, and its finally, from running. *)
LockIsItsDelete ==
    site.lock => \A r \in Rows :
      /\ InDeletion(r) => lock = r
      /\ lock = r => InDeletion(r) \/ (op[r].undone /\ ~op[r].started)

(* Once nothing is pending the list on screen is the server's, however the
   writes were refused, undone in time or reversed.  `calm` excludes the cases
   in which the code leaves them apart: overlapping schedules (snapshots), a term
   delete whose click saw another list than the one its check ends in, an answer
   lost after the write was applied, an Undo clicked after its commit started, an
   Undo without a reverse, a refetch asked while a write is pending or one that
   fails, and, for the term callers, a refetch already under way or a list that
   could not be read after the write. *)
SettledListIsServers == AllSettled /\ calm => ui = srv

(* How far the write of row r has come on the server, whatever the client believes:
   a write whose answer was lost is taken although the client calls it refused. *)
WriteStage(r) ==
    LET taken == (r \in srv) = (op[r].kind = "create")
    IN  IF op[r].kind = "none" THEN "idle"
        ELSE IF ~op[r].started THEN IF op[r].undone THEN "dropped" ELSE "held"
        ELSE IF op[r].write = "sent" THEN "sent"
        ELSE IF taken THEN "taken"
        ELSE IF op[r].write = "refused" \/ op[r].failed THEN "refused"
        ELSE "reversed"

Server == INSTANCE ScheduledWrite
            WITH stage <- [r \in Rows |-> WriteStage(r)], stored <- srv

(* The server sees every scheduled write once, at once or after the toast, or never
   if it was undone in time; a reverse comes after the delete it reverses; and no
   Undo, refused answer or second report of the toast makes anything of it again. *)
ImplementsScheduledWrite == Server!Spec

(* Every delete or creation the user schedules comes to an end: written, refused
   and put back, or undone, with its toast gone and its Undo finished. *)
WritesSettle == \A r \in Rows : op[r].kind # "none" ~> SettledRow(r)

=============================================================================

# Karoita front end in TLA+

Karoita (`src/`) is the web front end of an internship system for student
teachers: a Next.js application that talks to a Nest API through its own proxy
(`/api/nest`), runs on mock services in *mock mode*, and carries a complete
*fake Nest* (`tools/fake-nest`) for development. This directory specifies the
parts of it whose correctness depends on the order of things: the session, the
optimistic writes with Undo, the catalog cache of the proxy, course selection,
weekly reports with their review, and the week editor of the syllabus. All paths
below are relative to the repository (the application's own start with
`src/src/` there).

Contents: [1 Inventory](#1-inventory) · [2 Modules](#2-modules-and-the-code) ·
[3 Runs](#3-runs) · [4 Proofs](#4-proofs) · [5 Findings](#5-findings) ·
[6 Limits](#6-what-is-not-modelled) · [7 Plan](#7-plan)

## 1 Inventory

| Component | State it keeps | Operations | Hard behaviour | What makes it correct |
|---|---|---|---|---|
| Browser session, real mode (`services/auth*`, `services/api-token.ts`, `store/sessionBoot.ts`) | access token, expiry and surface in module memory; write generation; refresh promise; rotation promise; 401 flag; boot flag; active user | sign in, refresh, restore, sign out, write and clear tokens | several promises at once, detached requests, timeouts, reloads, several tabs with one cookie | one rotation at a time; store and boot flag agree; a rollback spares newer tokens; restores and sign-outs end |
| API client (`services/api-client*.ts`) | none; one ky instance | request, 401 hook, retry | concurrent 401s, a 401 after a retry | a call is retried with the new token, or is an error of its own |
| Auth routes (`app/api/auth/*`) | cookie jar (httpOnly) | refresh, set-tokens, clear-tokens | the browser aborts, the route goes on | the cookie is the last pair issued |
| Guard, edge gate, keep-alive (`proxy.ts`, `components/shared/shell`) | page, transition phase | restore, redirect, warm up | timers and focus during a sign-out | the shell is shown to a signed-in user only |
| Undoable mutations (`lib/undoable-mutation.ts`) | one closure per toast: undone, started, failed, result | schedule, commit, undo, reverse, revert | toast callbacks twice, click during the exit animation, refused writes | commit once or never; reverse after commit; the list is the server's in the end |
| Their callers (structure, approvals, landing CMS, terms) | snapshot, `pendingDeleteTermId` | delete, create | lock freed in a callback that may not run | the lock means a pending delete |
| Infinite list (`hooks/useOffsetLimitInfiniteList.ts`) | react-query pages | load, load more, reload, patch | a refetch over an optimistic patch | no duplicate, no gap, no lost patch |
| Catalog cache of the proxy (`lib/nest-catalog-cache.ts`, `lib/nest-proxy-forward.ts`) | process-wide map of bodies | hit, miss and fill, invalidate | concurrent handlers, lost answers, restarts | an administrator sees what he wrote in the list of its kind; staleness is bounded |
| Notifications (`store/useNotificationsStore.ts`) | list, page, flags | load, load more, mark read | rollback to a captured list | no mark is lost |
| Course selection (`tools/fake-nest/handlers/enrollments.ts`, `domain.ts`; `services/internship-enrollment`) | terms, offers, capacities, enrollments; the page of each student | enroll, cancel, choose school and mentor; edit terms and capacities | two students and one seat; a term opened, deleted or taken again between two requests of one operation | a seat is given only while one is left; a lesson is taken once; a write hits the row shown |
| Weekly reports and their review (`handlers/student-weeks.ts`, `handlers/conversations.ts`; `services/daily-approvals`, weekly part of `internship-enrollment`) | a record and a conversation per week; the cards of every user | draft, submit, return, score, evaluate, record and approve presences | old cards, saves of several requests that stop half-way, answers lost after the work is done | reports in order; nothing graded before it was handed in; a grade stays |
| Week editor (`features/karvita/syllabus-config`, `services/syllabus-config/real`, `handlers/syllabus.ts`) | weeks of all lessons; the table, its flags, the lesson chosen | edit, add, delete, undo, choose a lesson, save | answers for another lesson, saves that stop and are tried again, a PUT sent twice | a save changes the lesson on screen and no other week |
| Other fake Nest handlers (`tools/fake-nest`) | in-memory database | CRUD on a seed | none | unit tests |
| Mock services (`services/*/mock*`) | localStorage | the same domain operations | reload between writes | agrees with the real service |
| Capacities, onboarding, profiles (client services) | forms | mapping, staged choices | none or few | eligibility rules |
| Uploads, PWA, navigation, forms, reports, marketing, UI | — | — | pure I/O, pure string functions or presentation | unit tests |

How they interact: a page calls a service; the service calls the API client; the
client attaches the token in memory, goes through the proxy (and its cache), and
on a 401 calls the session, which calls the route, which calls Nest and sets the
cookie. The session writes the user store and the boot flag, which the guard
reads. A page patches its list optimistically, schedules the write with a toast,
and refetches the list through the same client. The domain pages read several
lists, show what they computed, and send a sequence of requests later; the server
checks each request on its own.

`PROJECT.json` lists the components one by one with what is modelled, and every
hazard of the code at the line where it bites.

## 2 Modules and the code

### AuthSession

One Nest account, any number of tabs. An access token and the refresh token
issued with it are one number (a *pair*), in the order of issue; Nest keeps the
set `valid` of pairs it has not revoked; the browser keeps the shared `cookie`
and the readable `presence` cookie. Per tab:

| Variable | Code |
|---|---|
| `mem`, `stale`, `wgen` | `_mem`, its expiry against the skew, `_writeGeneration` (`real-auth.tokens.ts`) |
| `refresh` | `refreshInFlight` and how far `performRealRefresh` has come (`bridge/session.ts`) |
| `rotating` | `browserRotateAccessPromise` (`api-token.ts`) |
| `active`, `boot` | `useUserStore.activeUser`, `runtimeBoot` (`sessionBoot.ts`) |
| `restoring` | `restorePromise`: waiting for a refresh or for `me` |
| `login`, `signout`, `handling` | sign-in of the login page; `AuthService.logout()` of the menu and of the 401 handler; `handlingUnauthorized` |
| `clears` | detached `clear-tokens` requests without an answer |
| `call` | API calls, `BootCall` being the `me` of the restore or of the refresh's fallback |
| `ghosts` | refresh requests the route still serves for a tab that has given up |

Steps are cut where the code awaits. So `performRealRefresh` is `RouteRotates`,
`RouteRefuses`, `RouteFails`, `RefreshHangs`, `RefreshGivesUp`, `RefreshDead`,
`RefreshHeaders` (the cookie is set and the abort timer cleared), `RefreshBodyLost`,
`RefreshBodyHangs`, `RefreshReceive` (the body is read, up to the await of
set-tokens), `RefreshPersisted`, `RefreshPersistRetry`, `RefreshPersistFails`, and the fallback without `me`:
`RefreshAsksMe`, `RefreshMeLost`, `RefreshMeForbidden`, `SelfWaitTimeout`.
`GhostRotates` is the route that goes on after an abort. A call is `StartCall`,
`CallAnswered`, `CallRefused`, `CallRotates` (the hook), `CallRetried` (the one
retry spent on a 5xx), `CallForbidden` (401 of a retry), `CallLost`, `CallBodyHangs`.
The POST of a sign-out that failed reads the body of the error
(`SignOutErrorRead`, `SignOutBodyHangs`). Everything
that happens synchronously when a promise settles is inside one action: `Settle`
ends the rotation, sends the waiting calls again and resumes the restore.

`EarlierVisit` says how the browser may open: `TRUE`, with the refresh cookie of an
earlier visit, which lives for seven days while the presence cookie ends with the
browser, or `FALSE`, with a fresh jar.

Three points need saying. A timeout bounds a request up to its headers only: the
15 s of the refresh are cleared there (`bridge/session.ts:99`), and the bodies of
calls are read after the call of ky has its response. A body that hangs is the phase
"stuck", from which nothing but a reload leads on. The model lets the keep-alive run during a sign-out,
because the leaving loader that hides it gives up after eight seconds
(`AUTH_TRANSITION_FAILSAFE_MS`). And a refresh without `me` in the answer calls
`me` inside itself; if that gets a 401, the hook joins the refresh that waits for
it. Only a timeout can end this; whether the timeout of ky covers a hook is the
constant `KyBoundsHooks`, because ky is not in the repository.

### UndoableMutation

One list with its server, one closure per row. `op[r]` is the closure of
`scheduleUndoableMutation` (undone, failed, started, snapshot), its toast, its
write and its Undo. `site` is the caller on screen, a record of what it passes
(`OrgDelete`, `TraineeDrop`, `LandingDelete`, `TermDelete`, and `TestedCaller`,
the one of `lib/undoable-mutation.test.ts`, the only one whose reverse runs);
`mock` is IS_MOCK_MODE, which decides whether the commit is deferred. A creation
(`scheduleOptimisticMutation`) is the same without a toast.
`ToastCloses` and `ToastRemoved` are the two reports sonner makes of one toast;
the refetch is react-query's, cancelled by `patchItems` and not by callers that
write the cache directly. The term list (`direct`) is not refetched after a delete:
the commit reads a snapshot (`SnapshotRead`, `SnapshotFails`), which the page puts
on screen beside whatever refetch is under way (`SnapshotApplied`). The delete of a
term goes on after its check with the list of the render in which it was clicked
(`Rendered`). `lock` is `pendingDeleteTermId`, which `LockFree` reads
and only a refused term check and the callbacks of the commit clear.

`calm` is a history variable: it becomes false where the code itself lets the
screen and the server part (overlapping snapshots; a term delete whose click saw
another list than the one its check ends in; a lost answer; an Undo after the commit
was sent; a refetch during a pending write, or for terms one already under way; a
failed refetch or snapshot). In these histories the list can stay wrong until it is
read again, which is a hazard listed and not a property. `calm` never guards a step.
A row is scheduled once in a behaviour.

### ScheduledWrite

What the library promises of the server, without screen, toast or closure: the one
write of a row is sent at once, or held and then sent or dropped; what is sent is
taken or refused; a delete that was taken may be reversed; after that the server
hears no more of it. `WriteStage` of `UndoableMutation` is the mapping. An Undo
drops a held write from the moment `undone` is set, long before the toast is gone.

### CatalogCache

The map of one server instance and the handlers of `forwardToNestApi`. Every path
of CACHEABLE, every rule of MUTATION_CASCADE, and every write the front end sends
or fake-nest serves, with the tables it changes. Nest numbers the writes it takes;
an entry carries the number its data was read after. `Shows` says which tables a
list is made of, `Own` which of them its rows are of: a city is a row of `cities`,
and shows the title of its province, and whether it may be deleted, from counts of
schools and users. No rule of MUTATION_CASCADE covers such joins, so `OwnRowsFresh`
is about the own rows, and what is joined is only bounded in age. Time passes in ticks of one
upstream timeout (60 s), so open-course-selection lives one tick and everything
else more than one (two stand for it); a request older than a tick has been
aborted. `crossed` is a history flag: a write was answered between the reading of
the data and its storing.

### SeatPool and Enrollment

`Enrollment` is the server (`tools/fake-nest`), its administrator, and the page of
each student in real mode. A request is one atomic step at the server; an operation
of the page is cut where it waits for one. One course and level is modelled, so a
term has one lesson and is its name; identifiers grow, so order of creation is `<`.

| Variable | Code |
|---|---|
| `terms`, `created` | `store.semesters` with the lesson of the course, and the next identifier |
| `capacities` | `store.professorCapacities`, rows in order of creation (a pool may have several) |
| `enrollments` | `store.enrollments` |
| `page[s]` | scenario, term, row and delayed form of `InternshipEnrollmentPageState` |
| `job[s]` | the write under way, between two of its requests |

`MayEnroll` is the list of checks of `POST student-enrollments`; `Created`,
`WithTeacher`, `WithStatus` are what POST, PATCH and PATCH cancel change.
`Load` computes the page (`HistoryRows` = `preferLatestEnrolments` and
`findEnrolmentHistoryForLevel`, `EffectiveRow` = `resolveEffectiveEnrollmentEntry`,
`PageState` = `toEnrollmentPageState`); with `known = FALSE`, `by-semester` failed.
`ChooseSupervisor`, `ReadOpenTerm` and `PostEnrollment` are the wizard and
`enrollRealWithSupervisor`; `StartCancel`/`SendCancel` and
`StartAssign`/`SendAssign` the other two writes, both through `MutableRow`
(`pickMutableEnrollmentRow`). `NestCompletes` is external: the Nest in production
closes enrollments, the fake one only seeds such rows.

`SeatPool` is the promise: seats are given, finished, released, and the number of
seats may be changed at any time. The mapping `SeatsOfRows` takes every row that is
not cancelled as a seat, a completed one as a finished seat, and the capacities of
a pool added up as its total.

### ReviewProtocol and WeeklyReports

One enrollment, its weeks, and four users. The names follow the client: the
*advisor* is the professor (role `mentor` of Nest), the *mentor* the teacher of the
school (role `teacher`), the *principal* its head (role `school_admin`).

| Variable | Code |
|---|---|
| `week`, `messages` | `store.studentWeeks`, the week's conversation |
| `view[a]` | the cards user `a` read last: status, and whether the own evaluation was sent |
| `editing` | the week in the student's dialog |
| `job[a]` | what a save still has to send, in order |
| `setting` | who takes part, and the weeks archived in the syllabus |

`ApplyWeekState`, `Score`, `MentorPresent`, `Approve` are the requests; the clearing
of `mentorStatus` by a new submission is a choice, because the client says that the
Nest in production does not always do it (`isAdvisorRejectionSuperseded`) and fake
Nest always does. `CardOf` is `mapWeekStatus` with the sequential lock. `Saves` is
what the dialog lets a role send, locked by the card on the screen; `Step` sends the
next request, `Fail` ends the save, with the request done or not. `Load` may fail to
read the conversation, and need never happen: cards are as old as the run wants.
After the enrollment was cancelled users go on with the cards they have and the
server refuses messages and scores.

`ReviewProtocol` is the automaton of a week: none, submitted, returned, graded.
`Phase` maps a record and its conversation to it by the colour of the card.

### SyllabusWeeks

The table of one page and the weeks of all lessons at the server.

| Variable | Code |
|---|---|
| `rows`, `next` | `store.weeks` and the next identifier |
| `lesson`, `weeks`, `isWeeksPublished`, `hasUnsavedChanges` | the state of the page of the same names (`selectedCourse`) |
| `undo` | the table captured by the toast of the last delete |
| `calls` | `getWeeks` under way, in `commitSelectCourse` and `refreshOfferingsAndWeeks` |
| `save` | `saveSyllabus` and `saveRealSyllabusWeeks`: reading, PUT, updates and creates, reload |
| `draft`, `offer` | the drafts in the local storage, per lesson, and the toast that offers one (`useSyllabusWeeksDraft`, `useLocalFormDraft`) |
| `arrived` | history: the table holds the weeks of the lesson chosen; a draft's `own` is this flag when it was stored |

`Serve` and `Answer` are apart, so that answers cross. `Plans` is
`planNestWeekWrites` (`GoesTo` its three rules for one week), `Sends` the order of
its requests. `PutResent` is the second try of ky, which repeats a PUT and no PATCH
or POST; `SaveFails` ends a save anywhere, with its request done or not, and the
table stays for another try. The reload after a save reads when it is answered:
only a save writes.

`DraftStored` keeps the table under the lesson now chosen whenever there are unsaved
changes: the debounce of 400 ms may end at any time. So while the weeks of a lesson
just chosen are awaited, the table of the old lesson may become the draft of the new
one; the answer clears the draft of the lesson that was left (`Call.clears`), a
refresh clears none. `OfferDraft` and `RestoreDraft` are the toast and its button.

`setting.careful` is the administrator, not the code: one who touches the table and
presses Save only when the weeks of the lesson chosen have arrived, and restores a
draft only if it is of the lesson chosen and was made of its weeks. The page does
neither make anybody wait, which is the finding `SyllabusMoved`, nor show whose weeks
a draft holds, which is a hazard of its own: who waits and restores what is offered
can move weeks too. The properties for the careful one say that the other orders of
answers, faults, repeated saves and drafts move nothing. `setting.drafts` says whether
the browser keeps drafts, for its storage may be unavailable.

The `MC*` modules only name constants for TLC and a symmetry set (calls, handlers,
students, lessons: never in a run with liveness; `SeatPool`'s refinement and the
action properties do not tell the symmetric values apart).

## 3 Runs

| Run | Bounds | Shows |
|---|---|---|
| `AuthFaults` | 1 tab, 1 call, the pair of an earlier visit and 2 new ones, 2 set-tokens attempts, 1 fault | types; store and boot flag agree; nobody waits for a promise that was dropped; the rollback spares newer tokens |
| `AuthLiveness` | 1 tab, no ordinary call, the pair of an earlier visit and 2 new ones, 1 attempt, 2 faults | restores and sign-outs end, with hangs, reloads and lost answers, except behind a body that hangs or a refresh that waits for itself |
| `AuthWorkday` | 1 tab, with and without an earlier visit, 3 calls, 6 pairs, no fault | the shared rotation never costs a session |
| `AuthTwoTabs` ✗ | 2 tabs, 1 call, 3 pairs | two tabs refresh in parallel and lose the session |
| `Undoable` | 2 rows, 5 callers, both modes, 1 reload, 1 fault | one commit, undo in time, reverse after commit, settled list; the term lock is its delete's; implements `ScheduledWrite`; everything settles |
| `Catalog` | 2 handlers, each list with each write, 2 writes, 1 restart | the cascade covers the own rows of each list; staleness bounded |
| `Enrollment` | 2 students, 2 professors, 2 terms of one season, 2 rows, 4 capacity rows of 1 seat, 2 edits | types; one enrollment per lesson; a write stays on the row shown; implements `SeatPool` |
| `EnrollmentShownRow` ✗ | 1 student, 1 professor, 2 terms of two seasons, 2 edits | a cancel goes to the running row of another term |
| `WeeklyReports` | 3 weeks for the student alone, none or the second archived; 1 week with the advisor, advisor and mentor, mentor and principal; 3 messages | saves keep their order; reports in order; implements `ReviewProtocol` |
| `WeeklyDraftSubmits` ✗ | as above | saving a draft hands the report in |
| `SyllabusWeeks` | 2 lessons, 3 stored weeks, a table of 3, 2 weights, 2 faults; a careful administrator with 3 edits, or 2 with drafts; others with 1 edit and 2 answers under way, 2 edits and 1 answer, or drafts and no edit but theirs | a PUT deletes its own weeks only; with care, no week moves and each is stored |
| `SyllabusMoved` ✗ | as above | a save before the answer moves the old lesson's weeks |

✗ marks runs whose property TLC refutes (section 5).

**Why the bounds are enough.** Every race found or excluded in the session needs
two pairs (an old one and the one that replaces it), the rollback a third (the
cookie that lets a refresh overlap a sign-in); the workday has six so that
several expiries follow one another, and three calls so that two of them join a
rotation a third began. One fault covers each single failure at each point,
including those inside the retries of set-tokens; the liveness run has two, so that
the answer without `me` is followed by the loss of the `me` asked instead. In the Undo model two rows are
one that is written and one that overlaps it; more rows only repeat this, since a
snapshot is the whole list. In the cache, entries of different lists and writes of
different kinds never influence each other, so one list and one kind of write per
behaviour, over all pairs, is every case; two handlers are a GET and the write
that overtakes it, or two writes answered in the other order. In course selection
two students ask for one seat, two terms are the one shown and another that is open
at the write, and two edits open one term and close or delete another. For the
reports, three weeks with the middle one archived are the first case where the
week before is not the neighbour; users of one week meet in it pairwise, and three
messages are a submission, its rejection and the next submission. In the week
editor three stored weeks let a lesson have two, one of which was stored by a write
whose answer was lost; two weights make the order of the list differ from the order
of storing; two faults are a failed save and a failed retry. The page may open with
a draft of an earlier visit, made of its lesson's weeks and one more, so a draft is
restored even where no edit is left to make one. The safety theorems of
section 4 hold without these bounds.

**Fairness.** `AuthSession!Fairness`: the continuations of a tab and the answers
to its requests come in the end, as the event loop and the timeouts (15 s for a
refresh, 40 s for a call) make them. Faults, the clock, keep-alive, navigation and
the user are not fair. Nothing is assumed of a refresh that hangs before its headers
but that its abort fires, and nothing at all of a body that hangs: both liveness
properties name as exceptions a refresh, a `me` or a sign-out whose body hangs and a
refresh that waits for itself. `MaxPair` may hold back a Nest that would rotate once
more; both except exactly that state too (`AtBound`). `UndoableMutation!Fairness`:
toast timers and exit animations end, the server answers or the client gives up,
continuations run, the snapshot after a write is read or fails, and the term check
is answered. The user owes nothing. The three
domain modules state safety only: what they do next is up to users.

**WorkSpec** (`AuthWorkday`, `AuthTwoTabs`) is the next-state relation without
reloads and sign-outs by the user, with one sign-in and no fault. It is the
situation in which the code promises that a session survives.

**Deadlock** is checked except in the two runs of the working day (the pairs of the
bound run out and everybody is idle) and the run `Undoable` (all rows are settled
and the page has no reload left): there the behaviour really ends. Elsewhere a
reload, a tick or a page load is always possible, so the deadlock check says
little; the liveness properties carry that question.

## 4 Proofs

All theorems hold for every value of the constants under the named assumptions of
the modules: finite bounds are natural numbers; `BootCall` is no ordinary call;
`NoRow`, `None` and `Nowhere` are no rows, values or lessons; the lists, writes,
settings and seeds asked for are among those the types allow. TLC evaluates the
assumptions in every run.

* `AuthSessionProofs`. `TypeCorrect`, by one lemma per group of actions over the
  type invariant split in five parts. `StoreAndBootAgree`: every step either
  leaves store and boot alone, or dispatches, or resets, or moves the boot flag
  between values that are not "authenticated". `NoWaitIsInVain` says that every wait
  has somebody at work for it. Its invariant splits by what is waited for:
  `RefreshWaits` for the shared refresh, behind a rotation or a restore, and
  `HandlerWaits` for the 401 handler, behind a sign-out. Few actions touch both
  (a reload starts both afresh), and those that end a refresh release everything behind it in the same
  step (`Settle`), which is what the `finally` blocks of the code do.
  `RollbackIsSafe` is not inductive:
  the test `_writeGeneration === generation` says that nobody wrote since, but
  only `WriterInv` says what memory holds then, namely the writer's own pair or
  nothing; and that the remembered generation is never ahead of the counter, so
  that a later write cannot make it current again. `WriterOwnsItsGeneration`
  proves it. `WorkingSessionIsSafe` is about `WorkSpec` and a single tab, with any
  number of calls and pairs. Its invariant `DayInv` says that Nest honours one pair,
  that the cookie is that pair except between the route's rotation and its receipt
  (`CookieIsLast`), that a refresh in flight carries it (`RefreshHasLast`), and that
  until the first session stands no call is under way, so that the restore never
  asks `me` with a token a rotation could overtake (`FirstRefresh`).
* `UndoableMutationProofs`. `ClosuresInv` relates for each row the flags of the
  closure, the count of commits, the write, the Undo, and what the server holds
  of the row. From it `CommitCalledOnce`, `ReverseComesLast` and, as an action
  property, `UndoInTimeHolds`. The step lemma for another row (`OtherRows`) makes
  the proof independent of the number of rows. `SettledListAgrees` needs a second
  invariant, `ListInv`: while the history is calm at most one row is busy, and
  `Phase` says for each stage of its write and Undo whether the server holds the
  snapshot or the result, whether a refetch under way is fresh, and whether the
  screen already agrees. It holds for every caller that cancels the refetch under
  way, refetches after its write, or puts the snapshot of its write on screen, and
  that does not combine a lock with a reverse (`CallersAssumption`, which all callers of the code satisfy): a caller
  with neither would leave the answer of an old refetch on screen.
* `ScheduledWriteProofs`, about `UndoableMutation` too. `TermDeletesOneAtATime`: a
  `finally` clears the lock without looking at whose it is, so the proof needs that
  no other delete can be under way then, which is `LockInv`: the flags of each
  closure (`Flags`) with, for each term, what the lock says of it (`LockRow`).
  `UndoableImplementsScheduledWrite` maps each step of a row to a move of its write
  or to a stutter, for any caller, mode and fault, and without `calm`. That a row to
  delete is still stored when its write is taken is not evident: the row comes from
  the screen, which may be an old list, a snapshot put back, or the answer of a
  refetch. `OnlyKnownShown` says that all of these, and the render a term delete waits
  with, show only rows that are stored or have a write of their own (`Known`), and a
  row with a write of its own is not written again. `OverIsOver` reads off the mapping that a write which was dropped, refused
  or reversed is over, whatever the toast and the Undo do afterwards.
* `CatalogCacheProofs`. `CacheInv` = types, ages (the data of a request is not
  older than its flight, the data of an entry not older than its age and one
  flight) and freshness (a write answered is a write taken; data that no write
  crossed shows every answered write to its own rows). `CascadeComplete` is the
  finite fact about the tables on which it rests: for every write and every
  administrator list with rows of a table it changes, a rule invalidates the list.
  `OwnRowsAreFresh` and `StalenessIsBounded` follow for any number of handlers,
  writes and restarts.
* `SeatPoolProofs`. Of the abstract pool: `PoolOneSeat` (a student takes a lesson
  once) and `PoolFillsWithinTotal` (a pool that fills up stays within its total).
  The second counts, so its statement asks for finitely many identifiers: every
  step other than giving a seat leaves the occupied set the same or smaller.
* `EnrollmentProofs`. `IInv` = types, `OneTakenPerLesson`, that a page and a job
  under way name a row of their own student (`PageOwned`, `RowOfJobExists`), that a
  job follows the page it was started from (`JobFollowsPage`) and
  `WriteStaysOnRow`. It rests on `RowsKept`: no step takes a row away, hands it to
  another student or pool, or revives it. The first and the last row of a set (`First`, `Last`, the code's
  `find` and its latest-first sort) are shown to exist and to be members. From it
  `OneEnrollmentPerLesson`, `WritesStayOnRow` and `EnrollmentImplementsSeatPool`:
  enrolling is `Give`, because the remaining capacity is the total less the
  occupied seats; cancelling is `Release`; the completion is `Finish`; edits of
  capacities are `Resize`; everything else stutters. `PoolsFillWithinCapacity`
  counts in the detailed system: a step that adds a row to a pool is a POST that
  found a seat left (`FillStep`), and every other step leaves the rows running the
  same or fewer, because `RowsKept` revives none.
* `WeeklyReportsProofs`. `IInv` has a part for records, cards, the student's
  dialog, the jobs under way and the order of what they still send. The cards are
  the difficulty: they are older than the records, so no invariant may say that
  they are equal. The lemma `Grows` says what a step never takes back (a report
  handed in stays handed in, a grade stays), and `CardInv` only says of a card
  what growth preserves: a card that is no draft means a report handed in, a card
  the student may edit means that the weeks before it were handed in. From it
  `VisitsArePresences`, `ApprovalsComeFirst`, `ReportsInOrder` and
  `WeeklyImplementsReviewProtocol`. `GradeIsFinal` comes from the step lemma of the
  refinement (`StepMoves`): no move of the automaton leaves "graded".
* `SyllabusWeeksProofs`. `IInv` relates the table to the server row by row.
  For everybody: a PUT under way finds in its lesson no week but those it stored
  itself (`SaveInv`). For a careful administrator: once arrived, the
  identifiers in the table are of the lesson and all different (`PageInv`); so are
  those of every draft, kept or offered, that was made of its lesson's weeks
  (`KeptInv`); an answer holds rows of the lesson it was asked for (`CallInv`); the
  save and the table are of one lesson (`WaitInv`); and the plan gives each week a row of its
  own, which holds the week once it was sent (`PlanInv`). From it
  `PutDeletesItsOwn`, `CarefulKeepsWeeks` and `SavedWeeksStored`. The module states
  the plan of a save and the list of a lesson by their properties, as sets `Plans`
  and `Listings`, where the code computes one value. `PlanIsDetermined` and
  `ListingIsDetermined` show that each set has exactly one member, so the `\E` of the
  actions hides no choice and no dead end. Induction being out of reach, both argue
  by the least counterexample: the first week two plans differ in, and the smallest
  set of rows without a sorted list, from which the last row is taken away.

Every safety property of the runs is proved. Model-checked only: the liveness
properties (`RestoreEnds`, `SignOutEnds`, `WritesSettle`), since liveness under
fairness is out of the prover's reach; that an answer comes at all is theirs, and
`NoWaitIsInVain` is the safety half of it. No module declares a RECURSIVE operator.

Nothing rests on `KyBoundsHooks`: the liveness run has it `FALSE`, the theorems hold
for both values.

## 5 Findings

Each is a run that TLC refutes, with the sentence of the repository it refutes
quoted in `PROJECT.json`.

1. `AuthTwoTabs`: the promise that keeps parallel refreshes apart is per tab; two
   tabs with one cookie refresh in parallel, and Nest drops the session.
2. `EnrollmentShownRow`: cancelling is meant for the row on the page, but the
   candidates are filtered by the term open at the moment of the write. If the term on
   the page was closed since, and another in which the student runs too is open, the
   row of that other term is cancelled.
3. `WeeklyDraftSubmits`: saving a draft sends the same message as submitting, and
   the server takes a student's first message as the submission.
4. `SyllabusMoved`: a save pressed after choosing a lesson, before its weeks have
   arrived or after they failed to, moves the weeks of the old lesson to the new.

Behaviours the models have and no sentence of the repository excludes are listed as
hazards: a detached `clear-tokens` that deletes the cookie of the next
sign-in, a session answer that survives a sign-out, a lock of the term list that an
Undo keeps, a commit without a result that is never reversed, a fill of the cache that
lands after the invalidation, joined titles and counts that stay old for an hour, and
a term list that shows a refused term again. One comes with a comment that says
otherwise: `bridge/session.ts:80` means its 15 s to keep the guard from pending for
ever, and the body of the answer is read without a bound.

## 6 What is not modelled

* **Session.** Surfaces (admin / user) and the header that carries them; OTP,
  registration and password reset; the mock session. There is one account. Cookie
  attributes, the origin guard, header filtering, compression.
* **Lists and cache.** Several lists on one page, page boundaries of the infinite
  list, filters. Several server instances; a shared cache in front of the server.
* **Course selection.** Mock mode; the conflict of two levels of one course in one
  term; the report of an earlier term; the caches of names; `open-course-selection`
  out of the proxy's cache (a page reads the open term itself).
* **Weekly reports.** Texts, files and the value of a score; the student's draft in
  the local storage; read marks and the general conversation; the `canWatchOthers`
  switch; the bulk extension, which is a mock only. A user has one save under way;
  that is a bound of the model, for the busy flag does not ensure it (opening another
  week clears it, and a submission closes its dialog before it is answered). A user
  reads all cards at once. The archived
  weeks do not change during a behaviour.
* **Week editor.** Terms and their panes, the verification read of a remembered
  pane, the page opened again later, the audience of a term, alerts, and a second
  administrator, who would make the reload after a save differ. A request whose
  answer is lost is applied when the client gives up, or never; the proxy waits for
  its upstream 20 s longer than the client and does not abort it, so a write could
  still arrive after the next save.
* **Notifications and infinite lists** are only in the list of hazards.
* The pages, forms and pure string functions listed as `not_modelled` in
  `PROJECT.json`, with the reason for each.
* **Nest** itself is external. It is modelled from how the front end uses it and
  from the fake Nest's handlers: refresh rotates and revokes, a sign-in does not
  revoke, a sign-out revokes; enrollments are completed by Nest only.

Most of the repository's lines are presentation, forms, text, styles, seeds and
documentation, which have no behaviour to check; the modules stand for the code
whose correctness depends on an order of steps.

## 7 Plan

Order: what can lose a user's work or session first.

1. `AuthSession`, `UndoableMutation` with `ScheduledWrite`, `CatalogCache`,
   `Enrollment` with `SeatPool`, `WeeklyReports` with `ReviewProtocol`,
   `SyllabusWeeks`: done, as above.
2. `NotificationsStore` (`store/useNotificationsStore.ts`): refresh, load more and
   mark one read, the three operations the header uses. The rollback of a failed
   mark restores a list captured before a load-more, and the next page then starts
   past a gap.
3. `InfiniteList` (`hooks/useOffsetLimitInfiniteList*`): pages over a changing
   server; pure helpers against reference definitions.
4. An abstract session (signed out, signing in, signed in) with `AuthSession` shown
   to implement it, as `UndoableMutation` implements `ScheduledWrite`.
5. Composition: `Enrollment` behind `CatalogCache`, where one student's
   `open-course-selection` is served to another; two server instances.

Runs stay few by intention: a run is a question. The domain modules do not share
state in the code beyond the enrollment, so they are checked apart; refinements
are properties of runs that exist; liveness and a different environment are the
reasons for a second run.

# Verification of the Prosvet learning platform

TLA+ models of the platform's core: how a course is authored, how a release of it
reaches learners through moderation, how progress and diagnostics make up the
learning path, how clients keep their session, and how the simulation studio and
the other screens of the web admin work over the service. TLC checks them on small
instances; TLAPS proves what is stated of releases, hotspots and scenarios for
every size. All paths below are relative to the repository root.

## 1. The system

Prosvet is a FastAPI backend on PostgreSQL (`backend/app`), a Next.js web admin
(`web`) and a Kotlin Multiplatform client (`mobile`). Everything shared lives in
the database; the three parts talk over HTTP only.

**The backend.** `get_db` (`backend/app/shared/db/deps.py`) gives every request its
own transaction: commit when the handler returns, rollback on any exception. The
isolation level is PostgreSQL's default (READ COMMITTED), the session has
`autoflush=False` (`shared/db/session.py`), no query uses `FOR UPDATE`, and no table
has a version column. Handlers are synchronous functions in a thread pool, so two
requests overlap freely. What protects the data is therefore: unique constraints
and foreign keys, the row lock an UPDATE holds until commit, and the unit of work,
which writes a column only if its value differs from the one it loaded.

**The web admin.** A page is rendered on the server from the cookies of the browser;
then its components hold copies of rows in their state and send requests through a
proxy (`web/src/shared/server/backend-admin-proxy.ts`) that refreshes the session
when it must. A component reads state, awaits a request, and writes state with what
it read; nothing cancels a request whose question is no longer asked. Most hazards
of the web admin are of this kind.

### Inventory

| Component | State | Operations | What makes it correct | Module |
|---|---|---|---|---|
| Catalog releases (`modules/catalog`) | `course_releases`, `courses.status` | create, publish, submit, roll back, delete course, serve the latest bundle | a version is created once; learners get what was published last; a deletion takes everything along | `ReleaseLifecycle` |
| Moderation (`modules/moderation`) | release status, reviews, history | submit, approve, reject, resubmit | row and history agree; the trail only grows | `ReleaseLifecycle`, `ReleaseWorkflow`, `ReleaseSerial` |
| Draft structure (`modules/catalog`) | `course_lessons`, `lesson_tasks`: `order_index`, status | create, patch, archive, restore, reorder, bulk update, roll back | a save leaves exactly its payload in its order | `CourseStructure` |
| Course builder (`features/course-builder`) | copy of the course, undo and redo, dirty and saving flags | edit, undo, redo, save, autosave, load, roll back | no edit lost; a refused save is tried again | `CourseEditor`, `LessonTasks` |
| Header of the builder, competencies | title, description, links to competencies | PATCH of the texts, replacement of the links, hide and create competencies | what is shown is stored; no link is dropped unseen | `CourseSettings` |
| Submission dialog | version, releases listed, submissions | check, submit, second try, roll back | one press, one release | `CourseSubmission` |
| Course wizard (`features/course-wizard`) | store of four steps, timers, saves | edit, autosave, publish | at rest, what is shown is stored | `CourseWizard` |
| Progress (`modules/progress`) | `lesson_progress`, glossary, analytics | upsert progress, my progress | completion reaches glossary and trajectory | `LearningPath` |
| Diagnostics (`modules/diagnostics`) | attempts, answers, scores, trajectory | start, answer, complete | results are final; the trajectory agrees with the scores | `LearningPath` |
| Authentication (`modules/auth`), mobile session (`mobile/core/data`), proxy and auth routes (`web`) | sessions, QR codes, pair of tokens held | login, activation, refresh, logout, calls with a retry | a token is spent once; a client stays signed in | `AuthSessions` |
| Pages of the web admin (`web/app`) | cookies, permissions of the profile | render, redirect, refresh route | offered sections open; visits end | `AdminPages` |
| Access policies (`modules/rbac`) | `rbac_policy_rules` | check, toggle, delete, save of the whole table | a save that is reported is stored | `AccessPolicies` |
| Users and audit log (`modules/users`) | accounts, log, table and forms | create, edit, block, unblock | the log explains the rows | `UsersAdmin` |
| Groups (`modules/groups`) | groups, members, assignments, link | create, rename, archive, roster, assign, link, join | what is saved for a group was shown for it | `GroupsWorkspace` |
| Simulation editor (`features/simulation/ui/editor`) | screens, hotspots, links, history, save under way | edit, undo, link, insert, load, save | links stay on the canvas; undo restores; a save is consistent | `SimulationCanvas`, `HotspotGeometry` |
| Application media, library panel | pictures, bindings, lists and dialogs | upload, rebind, rename, delete, reload | a dialog shows its version; a list is current | `SimulationMedia`, `LibraryPanel` |
| Scenario rules | – | normalise, check, export, expand, create release | what the editor accepts, the service accepts | `ScenarioRules` |
| Store links (`store/resolve/route.ts`) | – | ask the store, read its page | no name from a challenge page | `StoreResolve` |
| Mobile player (`mobile/feature/player`) | screen, completed screens, telemetry | navigate, finish, close, report | each lesson reported once, with its own telemetry | planned |
| Support (`modules/support`) | requests, reply, time it was viewed | create, answer, list, mark read | a reply is unread until read | planned |
| Catalog panel (`features/catalog`) | none of its own | single-lesson requests | as the draft structure | `CourseEditor` (as a colleague's requests) |
| Search, mail, storage, events, seeds, block editors | – | queries, I/O, forms | – | not modelled |

How they interact: the builder and its dialogs write the draft structure; a release
is cut from what is saved and goes to moderation; approval activates the course; a
rollback rebuilds the draft (deleting its lessons, and by cascade the progress on
them). Completing the last lesson of a course calls diagnostics in the transaction
of the progress request. The studio's scenarios become screens of a release when a
course with a simulation task is submitted. Every request of the web admin passes
the proxy and `require_policy`, whose rules the access table edits.

### Behaviours that are hard to test

`PROJECT.json` lists each at its line with the properties that speak of it. In
short: two moderators deciding on one snapshot; a course archived or deleted
between the read and the flush of a publication; the unique constraint on
`order_index` being checked at every UPDATE of a renumbering; a save built on an
outdated copy, or repeated after a lost answer; edits made while a save is under
way; two requests each completing "the last but one" lesson; a refresh whose answer
is lost, or two refreshes of one token; answers that arrive for a dialog that now
shows something else; saves of several requests of which one fails.

## 2. Modules

### `ReleaseLifecycle`, `ReleaseWorkflow`, `ReleaseSerial`: releases

A handler (`Client`) is idle or holds what its transaction has read. A request is
a *check* action (`CheckReview`, `CheckCreate`, `CheckRollback`, ...), which is
the handler up to its last early return and takes the snapshot, and a *commit*
action with all its writes. `approve_release` has a third, `ReadCourse`, because it
flushes its UPDATE (taking the row lock, `Locked`) before it reads the course.
`Flush(loaded, assigned, current)` is the unit of work: a column assigned the
value it was loaded with is not written, so whatever another transaction committed
stays. `Abort` is every rollback: a violated constraint, an UPDATE that finds no
row, a crash. An HTTP error in a check leaves no trace and is no step. `clock`
counts accepted requests and stands for `now()`. Screens, slugs, comments and
access checks are left out.

`ReleaseWorkflow` is the status graph with one atomic step per operation.
`ReleaseSerial` maps the rows to it and states that `ReleaseLifecycle` with a
single handler implements it. With two handlers it does not, which is the finding
of `release_reject_race`.

### `CourseStructure`, `CourseEditor`, `LessonTasks`: the draft and its builder

`CourseStructure` has the repository's operations on the lessons of a course as
operators on the table, each returning whether the database accepts it. A flush
emits one UPDATE per row in key order and the constraint is immediate:
`OrderSeenBy` is the order of the other rows at the time each row is written.
`Bulk` is `update_course_structure_bulk`: archive what is missing, then move or
insert item by item. Archived lessons keep an `order_index`.

`CourseEditor` is the store of the builder (copy, undo, redo, dirty flag, a save
under way with its payload and its answer) with a colleague's single-lesson
requests as a second writer. A save is three steps (`Save`, `BulkSave`, `Saved` or
`SaveFailed`), and the user edits in between; the key saves without changes too
(`SaveUnchanged`). `SaveFailed` covers an error answer and a connection lost before
or after the server committed; the error then takes the place of the builder, while
keys and autosave go on behind it (`Drawn`). New rows get any key no row has and no
builder remembers, because primary keys are random UUIDs. Each server request on
the draft is one atomic step here: the races modelled are those between the copies.

`LessonTasks` is the same for the tasks of one lesson, whose rows are deleted and
not archived (`Removed`), with the confirmation of a deletion, and with the
duplication of a task, a request of its own whose answer joins the tasks with the
order it got when it was served. A duplication at a time is modelled. A task that is
not saved yet has no row, so its duplication is refused and the error replaces the
builder. A copy made while a save is under way is deleted by that save, whose payload
does not know it. Titles shorter than two characters block saves without a message
(`isCourseDraftValid`); the models take the draft to be valid.

### `CourseSettings`: what the header changes

Title and description are in the store, with its undo history, and sent by a PATCH of
their own; the save of the lessons does not send them but its answer replaces them.
The dialog of the competencies is modelled with its load, its marks, and the
replacement of all links in two statements (`CheckPut`, `WritePut`), for two tabs
(`panes`), one of them possibly reloaded or left while a request is under way.
Creating and hiding a competency are one step each, the load of the page too. The
cover is left out. Read in this code: emptying a description is ignored by the
service (`repository.py:189` takes null for "not sent") and the old one comes back
with the next save; a dialog whose load failed can be saved, which erases all links;
a course linked to a hidden competency cannot save its links at all; two saves of links
that overlap leave the union or collide; the answer of a save closes whichever dialog
is open then; marks changed during a save are lost.

### `CourseSubmission`, `CourseWizard`

`CourseSubmission` has the dialog that checks the copy on the screen, forms a version
from the releases it listed, and submits what the *service* has; a second try after
a refusal it recognises; closing and opening meanwhile (`publishDialogOpen` is not
reset by `store.reset`). A colleague may release a version at any time. `Odd` is a
version that is not of the form the dialog counts. The service does not run
`_validate_screens` on this path.

`CourseWizard` has the store of the four steps, the timer of the effect, which starts
at every render because a dependency is new each time (`Rerendered`), and the saves
that work on the store as it was when the timer fired, one request after the other,
in two slots, since nothing keeps two saves apart. A request and its answer are one
step; a second press of the first step's button is left out. No page of the
application draws the wizard; its `courseId` follows the store. Resetting it after
publishing reuses local ids while a save runs (`store.ts:163`).

### `LearningPath`: progress, diagnostics, trajectory

One learner, requests as transactions again: a check on a snapshot, a flush that
takes row locks (`Saving`, `Updating`, `Completing`, `Deleting`), a commit.
`FlushProgress` writes the row, then counts the lessons among what is committed
plus its own row, then picks the first trajectory item of the course.
`ReplaceTrajectory` deletes the items it sees; `CommitComplete` adds the new ones,
ranked by severity, course type and title. Competency links stand for the explicit
links of a course as well as for the keyword fallback (whose links are of type
`foundation`). Weights of questions are 1, as in the default bank. Courses are
active throughout; their lessons are archived and restored.

### `AuthSessions`: tokens

One user. Token `n` is the pair issued `n`-th, with its session row. A `Call` is a
coroutine of the mobile app or a request through the proxy of the web admin
(`client` says which), suspended at each request it sends; it refreshes once on a 401
and retries once. Answers get lost, the app is killed, tokens expire in the order of
their issue, the account is blocked, and another device activates the same QR code
(`Rival`). `lost` and `overlapped` record that an answer was lost and that two calls
were spending a token at the same time; properties that hold only without them say so.
The page `/auth` shows its form to whoever is signed in, and its route neither looks at
the cookies there are nor revokes them: a browser may sign in over a live pair, at any
time and beside other requests, and the app only when it holds none. The pair that such a
sign-in replaces stays active with nobody to use it. `left` records these pairs, and
`NoOrphanSession` says that there is no other active session without a holder.

### `AdminPages`, `AccessPolicies`, `UsersAdmin`, `GroupsWorkspace`

`AdminPages` is what the server components of the pages do for a token, a set of
permissions and requests that fail: render, render in part, crash, redirect to the
dashboard, or to the refresh route and back. `OfferedSectionsOpen` names the two cases
in which a tile leads to a page that does not open. Also read: the page of moderation
filters by own courses only if the request for courses succeeded; the action of
support without a cookie drops the reply; `course-builder/new` creates a course at
every load.

`AccessPolicies` has the rules, the check with its fall back to the default map for a
policy that no role keeps, and the table that saves every cell by a request of its
own, all at once.

`UsersAdmin` has the table, its forms and requests that overlap. A PATCH is two steps:
`FindUser` reads the row, without a lock, and checks it, and `UpdateUser` compares with
what was read, and commits the columns that differ (`Written`) with the entry that tells
them (`Entry`). Two PATCHes of one user may have read the same row; the entry of the
second then starts from values the first has replaced, and the `from` of an entry need not
be the `to` of the one before. What the log does guarantee, entry by entry and field by
field, is `LogExplains`: the last entry that tells a field has its value.

`GroupsWorkspace` has the page's copies of what belongs to a group and the requests
that change it; a request is sent, served and answered. "closed" stands for the three
statuses other than active of an assignment. Read in this code: saving the status of
an assignment erases its `starts_at` and `ends_at`; two overlapping issues of a link
(`services.py:231`) may both stay; the action that blocks a user sends no display name,
and the service then erases the one there is. Search, filters and descriptions are left
out.

### `SimulationCanvas`, `HotspotGeometry`, `SimulationMedia`, `LibraryPanel`, `ScenarioRules`, `StoreResolve`

`SimulationCanvas` has the nodes and edges, the history that an effect records after a
render (`due`: the effect has not run yet; React decides when, so both are possible),
links drawn by the pointer, scenarios inserted from the library, and the save with its
three requests against the draft and the library item. Positions are cells, and the
measurement by React Flow is external. `HotspotGeometry` is the pointer code of a
hotspot on one axis (the code treats both alike) in integers; the code uses floats.
`SimulationMedia` and `LibraryPanel` have reads that join one another and writes of
several requests; object storage is I/O.

In `SimulationMedia` the dialog remembers of each picture it shows for which version it
was read or uploaded (`came`), and `DialogShowsItsVersion` is about these pictures. Two
ways by which the dialog shows another version's are excepted by name: the answer of an
upload goes into the dialog that is open by then (`late`), and a failed read leaves what
was there (`failed`; this matters only while a new application is entered, since an edit
opens with the pictures of its version, and only an edit moves them). Left out: the search
of the dialog, which leaves out of a submit the pictures it filters away. Read: the answer
that resolves a link merges into whatever dialog is open; the prefix that clears a cache
(`SimulationEditor.tsx:2322`) never matches its keys; `modalMediaLoading` may stay set.

In `LibraryPanel` a filter is the application on the canvas and the word in the search
together, one value, and a scenario passes one of them at most. A save or a deletion holds
what its closure held when the button was pressed (`Pressed`): the filter, and whether the
dialog was open. It reads the lists again with these (`Reloaded`). `behind` records that
the list was read last with a filter that is no longer the one shown. The panel is drawn
anew when another tab is left for it; a behaviour is one such time.

`ScenarioRules` compares the checks of the editor and its export with those of the
service on graphs of screens with at most one other flaw. The hotspot of a scenario is
measured in thousandths of a percent along one axis: the editor checks the measures as
they are (`InBounds`), the export clamps each and rounds it to two decimals (`Rounded`; a
tie may go either way, as it does for binary fractions), and the service checks what comes
(`InsideScreen`). A hotspot that ends within a hundredth of a percent of the edge may be
rounded over it (`RoundsOver`): 0.125 and 99.875 become 0.13 and 99.88, and the service
refuses. No page calls the editor's check and export. `StoreResolve` is the route from the
link to an application's name; `og:title` is one of the texts of a page, not told from its
other metas, and reading the body is untimed.

### MC modules

`MCAuthoring`, `MCStudio` and `MCAdmin` put components side by side that share no
state. A behaviour has a `focus`: only that component moves while the others stay at
one initial state, which covers each fully without their product. `MCRelease`,
`MCLearning`, `MCAuth`, `MCCourseEditor`, `MCGroups`, `MCSubmission` and `MCTasks`
give constants to one component. Above most definitions with a mutant stands a
variant marked "Slip": a plausible bug in that code.

## 3. Runs

| Run | Instance | What it shows |
|---|---|---|
| `release_race` | 2 versions, 2 handlers, 5 requests, symmetric | However requests overlap: row and history agree, a deletion is complete, no version is created over another and the trail only grows, no request that saw the course archived revives it. |
| `release_serial` | 2 versions, 1 handler, 7 requests | Refinement of the workflow; exactly published releases are dated; publishing changes what is served. |
| `authoring` | 1 builder and a colleague, 3 lessons, 3 steps; 3 task keys, 2 edits; 2 presses, 3 versions; 2 PATCHes, 2 tabs, 2 competencies; wizard of 2 lessons with 2 save slots, 5 changes | A save leaves exactly its payload in its order, lessons and tasks alike; the autosave keeps trying; one press makes one release; a header without changes shows what is stored; no save drops a link its dialog never listed; a wizard at rest shows what is stored, and it comes to rest. |
| `learning` | 2 handlers, 2 attempts, 2 lessons, 3 questions, 2 courses, 4 requests, symmetric | Trajectory and scores agree; glossary follows completion; the trajectory is that of the latest result; what is recommended is weak, in the right order; completion reaches the trajectory. |
| `sessions` | 2 calls, 1 rival device, 3 pairs | No token is spent twice; the app never rests on a pair that is revoked; a session without a holder is one that a browser signed in over; nobody is signed out without a cause; every call ends. |
| `studio` | canvas of 3 screens, 3 pieces of work, a history of 2; axis of 6 steps, least size 1 or 2; 2 pictures, 2 versions of an application, 2 writes; 2 scenarios in the library; graphs of up to 3 screens, 4 hotspots | An inserted scenario links to itself only; undo and redo restore; draft and library item agree after a save that succeeds, and there is one item; a hotspot stays inside and does not drift; a dialog shows pictures of its version; a submit moves all pictures; the list is current; a scenario that passes the editor passes the service; no application is named after a challenge page. |
| `admin` | 2 groups, 2 accounts, 2 requests and 5 inputs, 2 policies and 2 roles, 2 editors, all subsets of permissions, 2 troubles | The log explains the accounts; offered sections open; a table that is reported as saved is stored; every visit ends. The requests of the groups page run here as well. |
| `release_reject_race` | as `release_race` | A published release is rejected by a moderator who saw it pending. Violation |
| `builder_lost_edit` | 1 builder, 4 lessons, 3 steps | An edit made during a save disappears. Violation |
| `tasks_order` | 4 task keys, 2 edits | Two tasks that are swapped cannot be saved. Violation |
| `groups_roster` | 2 groups, 1 learner | The marks of one group become the members of another. Violation |
| `submission_taken` | 2 presses, 3 versions | The refusal of a version taken meanwhile is not recognised. Violation |

**Bounds.** Two handlers are enough for what goes wrong between a check and its
commit, since each property speaks of one pair of transactions; five requests let
a release be created, submitted, decided twice and its course archived or deleted.
Seven serial requests reach reject, resubmit, approve, rollback and approve again.
Three lessons with three steps allow an archived lesson below, between and above
live ones and a save after an undo; one of the violations needs a fourth key. Two
edits of tasks combine a reordering or removal with a duplication, an undo or a load
during a save; a redo costs no edit. In `learning`, course 1 has two lessons and two
competencies, course 2 competes for one of them; four requests are enough for both
lessons and both completions. Three pairs of tokens allow a rotation of a rotation
with a lost answer in between, two calls allow every overlap of two refreshes. A
canvas of three screens has a link to a screen that is deleted and one that stays; a
history of two forgets its oldest step. Six steps of an axis with a least size of two
let a hotspot be stretched over its other end and past both borders. Of the four
hotspots of the scenarios one is ordinary, one is rounded over the edge by the export, and
two are out of bounds. Five inputs let the form of a user be opened and filled, its status
be toggled, and both PATCHes overlap. Two tabs, two
versions, two pictures or two roles are the fewest that can be confused. All bounds
are constants in guards (`MaxRequests`, `MaxSteps`, `MaxEdits`, `MaxMoves`,
`MaxChanges`, `MaxPatches`, `MaxPuts`, `MaxActs`, `MaxTokens`, `MaxWork`, `MaxTouches`,
`MaxTurns`, `MaxClicks`, `MaxInputs`, `MaxToggles`, `MaxTrouble`); deadlock is not
checked because the system stops when a budget is used up.

**Properties with a condition.** Each names its condition in its comment. The code
breaks the property without it, and no document promises otherwise:

- `TrajectoryOfLatestResult`, `CompletionReachesTrajectory`: no two requests of the
  learner have overlapped (two trajectories survive, both last lessons miss the
  completion). `TrajectoryMatchesScores` and `GlossaryUnlocked` hold whatever overlaps.
- `SpentOnce`, `StaysSignedIn`, `NoOrphanSession`: no two calls were spending a token
  at once; the last two also: no answer was lost. `NoOrphanSession` also excepts the pairs
  that a browser's sign-in has replaced, and sessions opened by a QR code, which another
  device may hold. `DeadPairIsHandled` and `CallsEnd` hold regardless.
- `SaveKeepsOrder`, `SaveKeepsTasks`: the payload is in ascending order, as it is after a
  load, a removal or a move; an added lesson may not be.
- `SavedTextsAreStored`: the save that was answered last overlapped no PATCH.
- `SavedAtRest`: no two saves of the wizard overlapped and no request was lost.
- `SavedTogether`, `OneLibraryItem`: no request of a save has failed. `HistoryFollows`:
  the effect has recorded the last change.
- `QuickListIsCurrent`: no read failed or crossed a change, and the last one was not for a
  change begun under another filter (`EmptyMeansNone` in section 4 shows why). `SubmitMovesTogether`:
  no second submit overlapped. `DialogShowsItsVersion`: the picture was not brought by an
  upload begun for another version; of a new application, the read did not fail.
- `CheckedScenarioIsAccepted`: the export rounds no hotspot over the edge.
- `SavedIsStored`: no other editor saved meanwhile. `OfferedSectionsOpen`: the role may
  read groups and courses, and is the administrator's for the page of the users.

**Fairness.** `Save(e)`: `useAutosave` sets a timer whenever the store is dirty and no
save is under way, and the effect runs again when `isDirty` or `isSaving` changes.
`Saved(e) \/ SaveFailed(e)`: a fetch settles. `Autosave` of the wizard: a timer fires,
and a save that started sends its requests. `Progress(c)` of a session: a request that
was sent is answered or fails, and a coroutine goes on. `ToRefresh \/ Render` and
`RefreshRoute`: a browser follows redirects and the server renders what it is asked for;
`ProfileFails` and `Lapse` are bounded by `MaxTrouble`, which says that trouble ends. All
are weak. Nothing is assumed of users, colleagues, or of a request succeeding.

**Mutants.** Each property of a passing run is violated when the slip that
`PROJECT.json` names replaces the definition it stands above.

**Stated, not among the runs.** Properties that hold on the instance of the run in
brackets, and are kept for their proofs: `LockedRowExists` (`release_race`; part of the
inductive invariant), `UniqueOrder` (`builder_lost_edit`), `ReplacedIsRevoked`
(`sessions`), `ResultIsFinal` (`learning`), `PlansStayPut` (`admin`), `OtherEndHolds`,
`HistoryBounded`, `GivesUpLast` (`studio`), and the type invariants. Section 4 lists those
that do not hold.

## 4. Findings

With a run of their own:

- *A published release can be rejected* (`RejectsOnlyPending`). `_transition_release`
  checks the status on a row it read and nothing protects it until the UPDATE. The
  second of two moderators overwrites the first.
- *Edits made during a save are lost* (`SaveLosesNoEdit`). The answer replaces the
  store and clears the dirty flag; the header then says "saved".
- *Swapped tasks cannot be saved* (`NoOrderConflict`). `reorder_task` renumbers in one
  flush whose UPDATEs come in key order; depending on the random keys, a move takes a
  slot that is not left yet and the whole save of the course is refused, each time.
- *A roster is saved for another group* (`RosterSavedForItsGroup`). Picking a group
  leaves the marks of the one before.
- *A taken version is not tried again* (`TakenVersionIsRetried`). The dialog looks for
  words that the translated message does not have.

Stated in the modules and refuted when added to the configuration in brackets:

- *A rollback is not traceable* (`QueueTraceable`, `release_race`). The submission
  endpoint records a history entry "so the release is traceable in the queue"; the
  rollback, which queues a release too, records none.
- *Freed slots are not free* (`SlotsAreFree`, `builder_lost_edit`). Archived lessons are
  parked at the next order of the *old* rows; a longer payload asks for that slot and
  the save is refused, at every retry.
- *An appended lesson moves* (`SaveKeepsPositions`, `builder_lost_edit`). `addLesson`
  takes the number of lessons for the next order, although the loaded orders may start
  at 1 or have gaps.
- *Completion rate above 1* (`RateWithinBounds`, `learning`). Completed lessons are
  counted with the archived ones, the total without.
- *A file name alone does not rename* (`RenamingTakes`, `studio`).
- *A saved scenario is missing from the list* (`EmptyMeansNone`, `studio`). A save reads the
  list again with the word that was in the search when its button was pressed; if another is
  there by now, the answer replaces the list of that one, and "No scenarios" may be said of
  a search that the scenario just saved passes.
- *Switching off the last role opens a policy to its default roles* (`SavedIsEnforced`,
  `admin` with `MaxToggles = 2`).
- *A QR code signs in two devices that activate it at once* (`QrActivatedOnce`,
  `sessions`).

## 5. Proofs

Theorems stand in eight modules, each about the specification of a component and for every
value of its constants under the assumptions named there. All invariants of the passing
runs are proved but those listed at the end of this section. Each proof has one lemma per
action (or per group of actions that disturb the same conjuncts); an action property is
proved from the invariant, action by action.

### `ReleaseLifecycleProofs`, `ReleaseSerialProofs`

For any sets `Version` and `Client`, any `MaxRequests` in `Nat` and any `NoRelease` that
is not a row (`ReleaseConstants`):

- `TypeCorrect`, `DecisionsRecorded`, `DeletionComplete` follow from the inductive
  invariant `IInv` = `TypeOK` and `NothingOutlivesCourse` and `DecisionOnRecord` and
  `LockedRowExists`. Neither of the middle two is inductive alone: the commit of an
  approval writes a row without looking whether it is still there, and only
  `LockedRowExists` (a row with a flushed UPDATE exists) tells that no deletion has
  come between; that in turn needs that `CommitDeleteCourse` waits for locks.
- `TrailPreserved` and `ArchivePreserved` are the action properties `TrailOnlyGrows` and
  `ArchivedStaysArchived`, proved from `IInv`.
- `SerialRefinement`: if `Client` has at most one member, `Spec` implements the
  workflow. The simulation needs `FreshChecks`: what the request in flight has
  checked is still so. It is invariant exactly because no second handler can
  commit in between; the proof shows each commit to be a workflow step or a stutter.
- `DatesMarkPublished`, `PublishedIsServed`: the same single handler, with the invariant
  `SerialInv`, which adds `PublishedIffDated` and that dates are not in the future
  (`DatesInOrder`), so that what is published now is the newest.

### `LearningPathProofs`

For any finite sets of lessons and links, any questions, attempts and requests
(`LearningConstants`), and a `None` that is no row (`NoneIsNoValue`). `LearningInv` has

- for all interleavings: requests are about attempts that exist; rows that a request has
  written and not committed are its own (`RowsAreLocked`: one transaction rewrites the
  results of an attempt and has deleted all their items, the item that a lesson completes
  is there and in nobody else's hands); batches are numbered apart. `TrajectoryMatchesScores`
  (theorem `TrajectoryAlwaysMatches`) is inductive only with these, since
  `complete_attempt` and `apply_course_completion` both write it, from what they read before
  they waited for each other.
- while no requests have overlapped (`Serial`): what the one request in flight has read is
  still so. `TrajectoryOfLatest`, `CompletionReaches` and `ResultsAreFinal` rest on it.

`NewTrajectoryIsRanked` needs that `Before` is a strict total order on ranks and that
counting those before gives distinct places in that order; `GlossaryAlwaysUnlocked` is
inductive with the types. `LearningTyped` states the types.

### `AuthSessionsProofs`

For any set of calls, `Rival` not among them, and any `MaxTokens` (`AuthConstants`).
`AuthInv` has three layers. Whatever happens, a pair in an answer is known to nobody
else and active (`OwnAnswer`), what was replaced stays revoked (`ReplacedStaysRevoked`), and
a revoked pair of the app has a call that will replace or drop it (`DeadPairHasHandler`).
While no two calls spend tokens at once (`Solo`), what a call checked still holds when it
acts (`CheckedHolds`), which gives `TokensSpentOnce`. If no answer is lost either, the call
that is spending decides what becomes of the pair that is held (`Decides`,
`RevokedByDecider`), unless a browser signs in over it: this is what `NoSessionOrphaned` and the action property
`StaysSignedInUnlessTold` need. `DeadPairsHandled` and `SessionsTyped` hold without either
condition.

The same module proves `SavedTableIsStored` of the table of the policies (`AccessPolicies`),
for any policies, roles and tables: `AnsweredFirst` says that cells are out only while a save
is under way, which is read back if none was refused, `WrittenStands` that each cell a save
has written still stands while no other editor crosses it.

### `AuthoringProofs`

- `PressCreatesOnce`, for any presses, contents and `MaxVersion` (`SubmissionAssumption`): a press whose
  answer may still lead to a try has made no release yet (`UnansweredMadeNone`). That the
  next version is a number although the list may be empty or hold odd versions
  (`NextIsNumber`) is proved with well-founded induction on the distance to `MaxVersion`.
- `SavedTextsStored`, `UnlistedLinksStay`, for any tabs, texts, competencies and saves
  (`SettingsAssumption`): `ShownIsStored` adds the answer of the save in flight to what is
  shown, `UnlistedIsMarked` follows the links that a dialog was told of and could not list
  through its marks into what it sends. `SubmissionIsTyped` and `SettingsAreTyped` state the types.
- `WizardSavedAtRest`, whatever the constants of `CourseWizard`: `WizardInv` holds while no two
  saves overlapped and no request was lost. Items are numbered apart (`IsWizard`), a row is
  one item's own and stands where its item does (`RowsFit`), and each request of a save
  creates the row of the item it was made for or writes to it (`Aimed`), also when the item
  has changed or is gone. `Settled` is the heart of it: unless the timer of the effect runs,
  everything sent is what is shown (`SentIsShown`), and everything shown is stored, sent, or
  waits for the row of its lesson (`StoredOrSent`), a row whose arrival starts the timer
  again. `ListFiltered` says what dropping items leaves, by counting (`CountedOff`).

### `WebAdminProofs`

- `NamesAreTheStores`: whatever the stores answer; no assumption.
- `QuickListStaysCurrent`: `AwaitsItsFilter`, while nothing has crossed and the last read is not
  that of an old press, the list waits for the scenarios that pass its filter and for no
  other answer.
- `DialogAlwaysShowsItsVersion`, `SubmitsMoveTogether` (`MediaAssumption`: finitely many
  pictures): the dialog listens to the read of its own version only
  (`ListensToItsVersion`), an edit is filled with the pictures of its version before it
  listens, whatever is uploaded is new (`UploadsAreNew`), and a submit
  without company has moved what it was told of (`AloneMoves`).
- `HistoryAlwaysFollows`, `LinksAlwaysInside`, `SavedStaysTogether`, `OneItemAlways`
  (`CanvasAssumption`: `MaxPast` is positive, the items of the panel are items, and each has
  finitely many hotspots): `HistoryInv` says that undo and redo are not left half applied,
  and of every canvas, the shown one and those of the history, that its ids and links are
  below `nextId`. Inductive with it is `ScenariosInv`: what a draft and a save hold was this
  canvas (`OwnScreens`), while an item of the library may hold ids of another, which
  `Insert` replaces (`LinksRetargeted`). `KeptScreens` says what dropping screens leaves, by
  counting. `SaveInv` names the stage of the save (`PuttingDraft`, `Updating`,
  `CreatingItem`, `PuttingAgain`) and what it implies for draft and library.
- `LogAlwaysExplains` (`UsersAssumption`): whoever the table, its forms and its requests name
  exists (`AboutUsers`), what the log tells of a user was read of or written to the own row
  (`LogOfUsers`), and an entry keeps the log if every column it leaves untold is left as it
  is and every one it tells is written (`LogGrows`). Whether the row that was read is still
  the one that is written to does not matter.
- `OfferedAlwaysOpen`: `PageInv` says on which page a visit that was offered a section can
  be, the refresh route included.

### `HotspotGeometryProofs`

For any axis `Full` of at least one step and any set `Least` of sizes up to it
(`GeoConstants`):

- `HotspotStaysInside`: the inductive invariant `GeoInv` adds to the types that the
  extent a gesture started from lies inside too. `StretchInside`, `ShiftInside` and
  `BetweenInside` say of each kind of drag that it ends on the screen.
- `DragsDoNotDrift`: since a drag is computed from where it started (`StretchByNothing`
  for a resize), bringing the pointer back brings the hotspot back.

### `ScenarioRulesProofs`

For any number of screens and any measures of the hotspot (`RulesConstants`):

- `CheckedIsAccepted`: `PassingScenario` says what no error means, `OneStartThatEnds`
  that the service's search reaches an end from the same start over the same links,
  and `RulesAgree` puts the two together for the export and for the service's own
  expansion. `RoundedInside` says that rounding keeps a hotspot inside that is not at the
  edge or has two decimals at most, each measure moving by half a hundredth of a percent
  (`Rounding`). What is reached is the same recursive function of the same links on
  both sides (`Visited`), so it is never unfolded and no induction is needed.

### Only model-checked

- `AutosaveRetries`, `AutosaveSettles`, `CallsEnd`, `VisitsEnd`: liveness, which the prover
  does not reach (nor `ENABLED`).
- `SaveKeepsOrder`, `SaveKeepsTasks`: what the folds of `Bulk` and `BulkTasks` compute for
  payloads of every length needs induction over sequences with operator parameters.

The builder (`CourseEditor`) and the groups are model-checked only.

## 6. Plan

1. Proofs: `GroupsWorkspace` (`PlansStayPut`).
2. `LessonPlayer`: navigation and the coroutines that report completion and session
   telemetry, composed with the server side of `LearningPath`.
3. `SupportInbox`: replies, viewed and updated times, racing staff and learner.
4. The rest of the components that `PROJECT.json` calls partly modelled; its notes say
   what each leaves out.

### Not modelled

Search, mail, storage, events, seeds, migrations and scripts: read-only queries, I/O and
one-shot programs. The editors of a block and what pages render: forms over a copy that
other modules keep. `catalog-write-panel.tsx`, which no page draws any more, beyond its
lesson requests. E-mail codes, password recovery and personal QR codes: rows of their
own, written by one request each.

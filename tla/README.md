# wuFlow: a verification development

wuFlow is an issue tracker: a Go backend over SQLite (`backend/`, `main.go`) and a
JavaScript front end without a framework (`static/js/`). This directory holds TLA+ models of
the parts of it in which several actors share state, the TLC runs that check them on small
instances, and TLAPS proofs of the main results for every instance. Paths below are those of
the repository.

## Inventory

| Component | State | Operations | What makes it correct | Module |
|---|---|---|---|---|
| Issue endpoints (`handlers.go`, `db.go`, `activity.go`): issues, reordering, labels, releases, projects, history | the tables issues, labels, releases, projects, users, issue_history; per request what its handler has read | create, PUT, archive, unarchive, move, delete, reorder; labels, releases, projects, deletion of users | references hold, an ETag names one version, what is deleted stays deleted | `IssueStore` |
| Users (`handlers.go`, `db.go`) | users: role, active, email, password | create, update by an administrator, update of oneself, delete | an active system administrator remains | `Accounts`, `SysAdmins` |
| Sessions and tokens (`auth.go`, `handlers.go`) | sessions, tokens held by browsers, the secret key | login, refresh with rotation and reuse detection, logout, revocation, expiry, restart | an ended session stays ended, no token without its session, who is deactivated loses access | `Accounts` |
| Rate limiting (`ratelimit.go`) | failure and call counters with their windows | check, record, reset, clean up, allow | a limit holds up to the logins already past its check, a block lasts as long as its window and no longer | `RateLimits` |
| Issue modal (`modal.js`, `api.js`, `utils.js`) | `state.currentIssue`, `currentEtag`, `issueLoad`, `issueSaveChain`, open editors and dialogs | open, revalidate, edit, queued save, conflict, reload, move, archive, delete, Done | no save overwrites what it was not built on, every save carries an ETag, the queue empties | `IssueModal` |
| Session renewal in the browser (`session.js`, `api.js`) | requests of every tab, the renewal they share, the re-login dialog | send, retry, renew, replay, log in, check, log out | a write runs once, nobody waits for ever, a refresh token is used once | `SessionClient` |
| Issue list cache, refresh, views (`issue-lists.js`, `app.js`, `toolbar.js`, `releases.js`, `project-settings.js`) | list generation, requests under way, cached issues, labels, releases, columns, the selected project | switch view or project, load, merge, refresh, save settings | the caches are those of the selected project, whatever order answers come in | `Workspace` |
| Cards on board, backlog, archive and planning panel (`list-utils.js`, `drag.js`, `board.js`, `backlog.js`, `archive.js`, `planning.js`, `card.js`) | the issues of the page, the lists drawn, gestures being saved | drag, menu moves, quick edits, roll back, read again | the page ends up with what the server has, a drop lands where it was dropped | `CardMoves` |
| Comments and history in the modal (`activity.js`, `utils.js`) | editors and drafts, sequence numbers of reads, the shared confirm dialog | load, refresh, edit, create, delete, close | the page shows the open issue, one editor, one question at a time, unsent text stays | `Activity` |
| Tasks in the modal (`tasks.js`) | tasks, their checkboxes and order on the page, saves under way | tick, rename, drag, add, delete, put back | page and server agree when nothing is under way | `Tasks` |
| Settings dialogs, status configuration | forms; one row of columns per project | save | what they leave in the caches | partly in `Workspace` |
| Permissions, validation, middleware, presentation, deployment | tables of constants, or none | pure functions, drawing | | not modelled |

How they interact. Every HTTP request runs in a goroutine of its own and reaches the tables
only through SQL statements; there are hardly any transactions, so a handler is a sequence of
atomic steps with every other handler in between. Browsers know the server through the
answers they have got: an ETag (`updated_at`) for issues, a refresh and an access token for
sessions, lists and copies that grow old for everything else. In a browser, code runs to
completion between two `await`s; the user, the network and other tabs act at each of them.
The components for users and for issues share the users table: the deletion of a user
unassigns his issues (in `IssueStore`) and ends his sessions (in `Accounts`). All requests of
the front end go through `authFetch` (in `SessionClient`). What it is refused by a limiter (in
`RateLimits`) is in `SessionClient` a refresh that answers without looking at the token
(`RefuseRefresh`); `BlocksEnd` says that this ends.

What is hard to test: interleavings of handler statements; rows read early and written back
late; deletions that overtake a handler; a crash between the two writes of one request;
answers that arrive after the modal was closed, after another project was selected or in
another order than the requests; saves given up by the browser and executed by the server;
optimistic changes put back after others overlapped them; everything of a tab waiting for
one renewal. `PROJECT.json` lists these hazards with their lines and the properties that
cover them.

## Modules

In every module an action is what the program does without interruption: one SQL statement
(or transaction) with the local code around it on the server, one stretch between two awaits
in the browser.

### IssueStore

`req[c]` is the request that client `c` has in flight, `pc` the statement it runs next. For
example a PUT is `PutIssue` (read the row, compare If-Match), `CheckAssignee`, `CheckLabel`,
`CheckRelease`, `Stamp` (`time.Now()`), `UpdateIssue`, `RereadIssue`, `RecordHistory`,
`RespondWithUpdatedIssue`. A refusal by the first statement is an action that is not enabled;
a later one returns the handler to idle. Foreign keys, `ON DELETE SET NULL` and `CASCADE` are
those of `createTables`. Text, priority, deadline and planned dates are one abstract value,
because no handler treats them differently. Rows of labels, releases and projects are model
values that go from `Free` to used to `Gone`, as `AUTOINCREMENT` ids do.

Assumed: `time.Now()` returns distinct, increasing stamps. The stamp of a handler that writes
in the statement right after taking it (`TriggerRelease`, `DeleteUser`) is taken with it.

### Accounts and SysAdmins

Handlers of users and sessions, statement by statement, in the same way. What a browser
holds is the set of all refresh tokens and access tokens ever handed out and not expired, and
any of them may be presented at any time, so lost and repeated answers, several tabs and old
cookies are included. `Abort` is a failing statement or a lost connection, `Restart` ends all
requests in flight and may come with a new secret key. Access tokens are checked without the
database, as `ValidateToken` does: they are claims that hold until they expire. Assumed: the
random secret of a token is never drawn twice.

`SysAdmins` is the abstract promise: rights are granted and withdrawn one user at a time and
never withdrawn from the last administrator. `Accounts` implements it with `admins` mapped to
the active users of role sysadmin.

### RateLimits

`byIP` and `byIPAndEmail` are the maps of `loginLimiter`, `counts` that of a `keyedLimiter`,
which stands for `apiLimiter` and `refreshLimiter`. A login is `CheckIP`, `CheckIPAndEmail`
and, after the slow password check, `RecordFailure` or `ResetOnSuccess`; each is one critical
section of the mutex, and logins overlap between them. Instead of `windowEnd` an entry holds
the time it has `left`, which `Tick` counts down; below `-MaxAge` nothing is told apart, so the
clock needs no bound. A key without an entry is one whose window ended long ago, which is how
all three functions treat it. The cleanup of every `CleanupEvery`-th call is part of the
call. As in the code the window of an entry is set once and does not slide, though comments
(`ratelimit.go:61`) call it sliding: two windows can follow each other. The counters are in
memory; a restart is a new behaviour.

### IssueModal

One browser tab with the modal, the server as it answers this tab, and the other users. The
content of an issue is the set of edits it holds; a save replaces the set by the one it was
built from, so an edit that disappears has been overwritten. Versions are numbered, the number
is the ETag. `queue` and `run` are `issueSaveChain`: the writes that wait and the one that
runs; `same` remembers whether `state.currentIssue` is still the object the running save was
made from, which is what `etagForSave` and `saveIssueChanges` find out by comparing or writing
to the object. The inline editors for title and description are one editor. Requests can time
out after having been handled, before it (`late`: the server handles them afterwards) or
without being handled. `calm` is a history variable for a property. Left out: the form for a
new issue, drawing.

The server compares the ETag and writes in one step here; that this is two steps is what
`IssueStore` is about.

### SessionClient

`req` holds the requests of all tabs as `authFetch` follows them: sent, retried after a lost
answer (reads only), denied, waiting for `renewSessionOnce`, replayed. `renewal[t]` is the
refresh in flight of a tab, or its re-login dialog; tabs share the cookies and nothing else.
On the server a refresh is two statements, `CompareToken` and `RotateToken`
(`RefreshSession`), and a token seen twice ends the session. `runs` counts how often a request
was executed. The bounds on rows and secrets are assumptions that the other bounds imply, so
no guard ever refuses a step of the program for them. Left out: when a tab asks for a check of
its own accord, the banner.

### Workspace

`fetches` are requests for issue lists, each with the `generation` of its load; `refreshes`
are calls of `refreshApp` that wait for the projects; `answers` are the other requests whose
answer goes into a cache. A cache is modelled by whose data it holds, and by whose it is
believed to be where the code keeps that apart (`labels`, `form`). The server is an
environment in which others move each project's issue between lists and delete projects.
Users, filters and drawing are left out. `calm` is history: it ends when the selection changes
while other answers are awaited, and when the columns are saved in a form that still names the
project selected before (`saveProjectStatusConfig` caches what it saved for the form's project
as the columns of the selected one). That takes three steps of the user, one more than the run
explores; the proof of `CachesOfSelected` brought it up.

### CardMoves

The lists of the three views are one page of columns. `heap` is the sequence of issue arrays:
a refresh makes new objects and callbacks hold on to the old ones, which is why `drawn` names
the epoch of the lists the cards were drawn from. A gesture changes `local` at once, then
saves by single PUTs and one positions request, which are served in any order; what fails is
put back by hand and a refresh follows. `excused` is history: it notes the overlaps after
which the code knowingly leaves the page as it is (see the hazards). `Rendered` sorts by
position and then by the order of the issues (`Sorted`), `Reordered` moves one card after the
other (`Moved`), as a renumbered list may name an issue that an earlier card has moved.

`DropLands` speaks of the drops after which every issue of the lists has its one card on the
page (`OneCardEach`, `Complete`). Otherwise the next rendering shows an issue somewhere in
between that had no card: one dragged since before it was archived and then dropped on a
section, or one that a refresh has read and not drawn yet. The bounds of the run do not reach
this; the proof of `DropLands` brought it up.

### Activity and Tasks

`Activity` keeps what the page shows (`ui.page`) apart from what has been read (`ui.view`),
and every editor that was drawn apart from the one `ctx.activeEditor` names, because the code
does. Comments are versions: zero is none. The confirm dialog is one object that several
askers may wait for. `Tasks` keeps the checkboxes of every rendering, because the handlers of
an old rendering go on with their own checkbox. One user may edit every comment; the
deadline of a task is saved like its title and is left out.

### Modules for TLC

`MCIssueStore`, `MCAccounts`, `MCIssueModal`, `MCSessionClient`, `MCWorkspace`, `MCCardMoves`
and `MCIssuePanels` give the initial states and bounds of the runs. Where components share no
state, or requests do not meet, a run explores several workloads one beside the other: the
variable `work` (or `panel`) is chosen in the initial state, never changes and says which
operations occur in the behaviour.

## What is checked

Passing runs:

| Run | Workloads | Shows |
|---|---|---|
| `issues` | `board`: from an empty database, two clients create an issue, drag it in bulk and by position, edit it. `edit`: two clients edit, archive, restore, drag and delete one issue while its assignee is deactivated or deleted | `TypeOK`, `ReferencesHold`, `ETagNamesVersion`, `DeletedStaysDeleted` |
| `references` | `move`: edits race moves between two projects, a label and the target project come and go. `release`: edits and archiving race renaming, triggering, reopening and deleting a release | `ReferencesHold`, `ETagNamesVersion` |
| `accounts` | `admins`: two requests at a time promote, demote, deactivate and delete users and save profiles. `sessions`: a user who is being deactivated logs in, refreshes with any token, logs out. With failing statements, expiry and restarts | `TypeOK`, `SysAdminRemains`, `SessionHasUser`, `ImplementsSysAdmins`, `RevokedStaysRevoked`, `TokensComeWithSession`, `DeactivatedIsSignedOut` (liveness) |
| `modal` | One tab and other users, with conflicts, reloads, moves, archiving, deletion, failing revalidations, a timeout | `TypeOK`, `SaveCarriesETag`, `EditsSurviveWhenCalm`, `WritesFinish` (liveness) |
| `browser` | `tabs`: two tabs send requests while tokens expire, sessions end, answers are lost, the dialog asks. `logins`: three logins at a time from one address for two emails. `calls`: somebody calls more often than he may | `TypeOK`, `WritesRunOnce`, `NoWaiterIsForgotten`, `ReuseIsExcused`, `RequestsSettle` (liveness); `FailuresBounded`, `BlocksLast`, `BlocksEnd` (liveness) |
| `workspace` | Views and projects are switched and settings saved while answers of overlapping loads come in any order | `TypeOK`, `IssuesOfSelected`, `NoIssueTwice`, `CachesOfSelected`, `ViewShowsItsIssues` (liveness) |
| `cards` | Two gestures at a time on two cards, across a refresh, one request refused or its answer lost | `TypeOK`, `LocalIsServer`, `DropLands` |
| `issue_panels` | `comments`: comments of two issues are written, edited, deleted while the modal closes and opens. `tasks`: three changes of two tasks overlap, one fails | `TypeOK`, `PageShowsIssue`, `OneEditor`, `OnlySentTextIsCleared`, `OneQuestion`, `TasksTypeOK`, `TasksAsStored` |

Every property has a mutant in `PROJECT.json`, a plausible mistake in the code that breaks it.

### Bounds, and why they are enough

- Two clients, handlers or tabs: the properties relate one request to one that overtakes it;
  where there is a proof, it covers any number.
- `issues`, `references`: one issue, with one label, release and user, because rows of
  different issues do not interact (the bulk statements of `TriggerRelease` and `DeleteUser`
  treat each row alike). `MaxClock = 3` is two stamps after that of the row that exists: a
  write by either client. Except in `board`, behaviours start with rows that requests have left
  behind (`InUse`); the label, the release and the second project may also be absent and are
  created then. `board` stays with statuses that are not archived or done, which `edit`
  explores. In `move` and `release` at most one PUT is in flight (`OnePut`), beside any other
  request; two PUTs race in `edit` and `board`.
- `accounts`: two users with two sessions and two secrets, of the roles user and sysadmin (in
  the proofs every role): a login, a refresh, and a reuse. While administrators work, the key
  stays and the email of other users is not changed. `sessions` starts with a deactivation
  whose first statements are behind it; which session, secret and handler these concern makes
  no difference, so one is picked (`AnyOf`).
- `modal`: three edits in the first modal as long as all is calm, otherwise two (`Within`), two
  openings, one timeout: a change by another user, one that outlives the first modal, one made
  in the second. The proof lifts these bounds for the three safety properties.
- `browser`: two requests, two expiries, one lost message; a limit of three failures per
  address and two per email, with three logins at a time, so that a limit is overshot by two;
  windows of two ticks, entries old enough to be cleaned up, a cleanup in every second call.
- `workspace`: two steps of the user or of others (or failures), at most two refreshes and five
  requests for lists at a time (`Within`); the default project's issue starts as active and
  the other's as open.
- `cards`: two cards, two columns and the archive, two gestures, one failure. The cards start
  in one list or in two, with equal or different positions.
- `issue_panels`: two issues with one comment between them and room for another, four actions,
  one failure; two tasks and room for two more, three saves, one failure. Issues and comments
  are interchangeable (`Symmetry`).

`CHECK_DEADLOCK FALSE` is set where budgets of user actions end or where the user may simply
stop; in `issues`, `references` and `accounts` some request can always arrive, and deadlock is
checked.

### Fairness

- `accounts`: each access token expires (`TimePasses`, weak fairness of `ExpireAccess`;
  `GenerateAccessToken` sets `exp`), and nothing is assumed of the handlers: revoking may never
  run.
- `modal`: callbacks of settled promises run and requests are answered (weak fairness of
  `Script` and of `Server`): `rawFetch` aborts after `REQUEST_TIMEOUT_MS`, so what the network
  never settles is settled by the timer. Nothing is assumed of the user: `WritesFinish` allows
  a dialog to stay open.
- `browser`: the same for the requests, renewals and checks of each tab; and, because a
  dialog waits for the user, that he logs in. Of `RateLimits` only that time passes
  (`WF_limitVars(Tick)`).
- `workspace`: every request is answered or fails; the user and others may stop, and run out
  of steps in any case.
- `cards` and `issue_panels` check safety only.

### Findings

- `if_match` (`IfMatchHoldsAtWrite`): `handlePutIssue` compares If-Match with a row read
  before several other statements, and `UpdateIssue` writes `WHERE id = ?`. Two PUTs with the
  same ETag both pass and the second overwrites the first.
- `modal_close` (`EditsSurvive`): a field changed after Done was clicked is not waited for.
  Its answer sets `currentEtag` of the modal that was opened next, whose copy is older, and
  the next save overwrites the change without a conflict.
- `selection` (`RefreshReplacesSelection`): when the selected project is gone, the requests for
  its labels and releases fail, `refreshApp` gives up with them, and the step that would select
  another project is never reached.
- `comment_editor` (`EditStaysOnPage`): a rendering of the comments drops the editor of a
  comment with its text, while the modal goes on to count it as open.

Further races the models have and no property excludes are in the hazards with a note: a PUT
that overtakes archiving or the closing of a release, a profile that is written back over a
demotion, a nil dereference when an issue is deleted between an update and its answer, the
authorship of history entries, sessions that outlive a role change, the loss of a rotated
token, and the overlaps that `CardMoves`, `Activity` and `Tasks` except by history variables.

`EditsSurviveWhenCalm` names its conditions. Beside changes made while the modal closes it
excepts revalidations that miss an issue which is there: one that fails is reported as "not
found" by `fetchIssueById`, and one that names a project the issue has left finds nothing. Both
close the modal with saves and questions under way, and then a conflict dialog can outlive its
modal, and its Reload answers into the next one.

## What is proved

TLAPS checks these for any sets of clients, rows, users, sessions, tabs, issues and projects and
any bounds.

| Theorem | Module |
|---|---|
| `TypeCorrect`, `ReferencesAlwaysHold`, `ETagsNameVersions`, `DeletedIdsStayDeleted` | `IssueStoreProofs` |
| `AccountsTyped`, `SysAdminAlwaysRemains`, `SessionsAlwaysHaveUsers`, `TokensAlwaysComeWithSession`, `RevokedSessionsStayRevoked`, `AccountsImplementSysAdmins` | `AccountsProofs` |
| `FailuresAlwaysBounded`, `BlocksAlwaysLast` (of `RateLimits`) | `SessionClientProofs` |
| `SessionTyped`, `NoWriteRunsTwice`, `WaitersAreServed`, `TokensAreUsedOnce` | `SessionClientProofs` |
| `ModalTyped`, `EverySaveCarriesETag`, `ChangesSurvive` | `IssueModalProofs` |
| `WorkspaceTyped`, `OnlyIssuesOfSelected`, `EachIssueOnce`, `CachesAreOfSelected` | `WorkspaceProofs` |
| `CardsTyped`, `PageAlwaysAgrees`, `DropsAlwaysLand` | `CardMovesProofs` |
| `ActivityTyped`, `PageAlwaysShowsIssue`, `OneEditorAtATime`, `OnlySentTextIsLost`, `OneQuestionAtATime` | `IssuePanelsProofs` |
| `TasksTyped`, `TasksShownAsStored` | `IssuePanelsProofs` |

`FiniteLemmas` holds what the last three modules need of numbers, finite sets and sequences.

Hardly any of these properties is inductive as it stands. TLC checked the strengthened
invariants on the instances of the runs before they were proved. What is added, and why:

- `ReferencesHold`: a handler checks the label of an issue in one statement and writes it in
  another. `RequestOK` says what survives in between: the label of the row about to be written
  is of its project, or has been deleted since (`LabelFits`); in the second case the foreign
  key refuses the write. This works because a label never changes its project and no id is
  used twice.
- `ETagNamesVersion`: stamps in use are in the past (`StampsInPast`), a stamp a handler has
  taken and not written yet is nowhere else (`PendingStampsFresh`), and a PUT has none before it
  takes one (`UnstampedSoFar`). `ETagStep` reduces each action to what it does to one row and
  to the copies of it.
- `SysAdminRemains`: the condition on the last administrator is part of the UPDATE and DELETE
  statements, not of the code before them; `AccountsInductive` adds that what a request is
  about to write is a live row and that the statements that name a session name one. The
  refinement of `SysAdmins` follows from the same lemmas: every action changes the
  administrators by at most one.
- `FailuresBounded`: the property itself counts the logins past a check, which makes it
  inductive with the types: a login passes only while the counter is below the limit, and then
  all logins together do not exceed the bound; a failure turns a login that passed into one
  that was counted, which leaves the sum as it is (`OneLoginLess`).
- `EditsSurviveWhenCalm`: the versions of an issue only gain edits (`Monotone`), so a save is
  harmless if the version its ETag names is contained in its body (`Built`). That holds because
  the copy in the modal is never older than its ETag (`ETagFits`), because a save waits while a
  revalidation may still replace the copy (`SavesAfterLoad`, `BaseFits`), and because a write
  outlives its modal only if its issue has been deleted (`RunHere`): Done and Archive wait for
  every write there is (`DoneWaits`), and what closes the modal otherwise has found the issue
  gone (`ShownHere`, `DeleteHere`).
- `WritesRunOnce`: a request has been executed at most once more than its attempts that are
  known to be over; an attempt that failed has no execution to spare unless it was a read
  (`Spare`).
- `ReuseIsExcused`: the token in the cookie is the one the row holds, or a renewal under way has
  it, and only one renewal is under way unless the case is excused. `NoWaiterIsForgotten` needs
  that the renewal a request waits for is under way in its own tab.
- `IssuesOfSelected`, `NoIssueTwice`: a request of the newest load is for the selected project
  (`FetchOK`), and the extra lists of a load are merged only after its active issues
  (`LoadsOK`), each once.

- `TokensComeWithSession`: a refresh reads the session, then the user, then rotates the token
  and hands out an access token for the user it has read. In between the row of the session
  may end, but never passes to another user (`SessionsMove`), so what the refresh has read
  stays true or the rotation fails (`RefreshesKnow`).
- `CachesOfSelected`: labels, releases and the form are those of the selected project unless a
  refresh that will fill them is under way; the columns are, unless their answer is
  (`ColumnsAwaited`), and no refresh ends before the columns it asked for (`CachesKept`).
- `PageShowsIssue`: each of the two lists of the open issue is what the server has, or the
  newest read brings it, or a save that changed it is about to ask for it (`ListsCurrent`).
  Reads of the newest sequence number are at most one, and of the open issue (`ReadsOK`).
  `OneEditor`: every editor that is on the page is the one the modal knows (`OneShown`).
- `TasksAsStored`: what the page shows of a task is what the newest request for it will have
  written; while a single request is under way, taking its change back leaves what the server
  has. The order on the page is a sorted list, and a finite set has one enumeration along a
  linear order, so equal positions make equal lists (`SortedEnumerates`).
- `LocalIsServer`: of each issue the page's status, priority and position are each either the
  server's or promised by the newest request under way that writes this part (`Promised`); a
  request served earlier cannot disturb a promise, because requests that are overtaken are
  excused. A reorder that is still saving statuses owes the positions, which its second
  request will carry (`PosOwed`). A move to a lane, whose answer
  is merged into the issue, is under way alone, and its answer makes the page what the server
  is (`LaneAgrees`); while a change of a field is under way alone, putting it back does
  (`ToggleAgrees`). While the issues are read again nothing is saved, and what has been read
  is what the server has (`Reading`).
- `DropLands` follows from the types: after a drop the position of an issue is the place of its
  card (`MovedUpTo`), so the cards of a list are an enumeration of its issues along the order
  by position, of which there is one.

Assumptions used are the named ones of each module on its constants, which TLC evaluates in
the runs.

The library's induction theorems take a predicate as a parameter, which the provers cannot
instantiate. Where the proofs need induction over the length of a list, `FiniteLemmas` states
it for a set of numbers (`InductionUpTo`, `IterationExists`), from the well-foundedness of
finite sets.

Only model-checked: liveness (`DeactivatedIsSignedOut`, `WritesFinish`, `RequestsSettle`,
`BlocksEnd`, `ViewShowsItsIssues`), which is out of the prover's reach. Every safety property
of the passing runs is proved. That a user's ended sessions stay ended is proved for the
tables, not composed with `SessionClient`, which models the same rows as far as one browser
sees them.

## Not modelled

Permissions are a constant table, validation is functions of one field, both covered by the
unit tests. Middleware, routing and logging have no state. The forms of the settings keep
nothing beyond what they send; filters, Markdown and cards only draw. Packaging and the tests
are not part of the program. SQLite itself is taken at its word: a statement or transaction is
atomic and durable.

Parts of modelled components that are left out are named with each component in
`PROJECT.json`; the larger ones are the form for a new issue, the renaming of projects, who may
change which comment, and the questions asked before a card is archived.

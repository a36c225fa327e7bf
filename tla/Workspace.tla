----------------------------- MODULE Workspace -----------------------------
(* What one browser tab keeps of the selected project, and how it loads it: *)
(* the issue lists (static/js/issue-lists.js), the refresh of the whole app *)
(* (static/js/app.js), the project selector (components/toolbar.js) and the *)
(* views that load on their own (components/releases.js,                    *)
(* components/project-settings.js).  The server's data are an environment:  *)
(* each project has one issue, which others move from list to list.         *)
EXTENDS Integers, FiniteSets

CONSTANTS
    Projects,
    DefaultProject,   \* cannot be deleted, first in the list
    Views,            \* the views in play
    Null,             \* no project
    MaxMoves          \* bound: steps of the user, changes by others, and requests that
                      \* fail though the server could answer

ASSUME ProjectsAssumption == DefaultProject \in Projects /\ Null \notin Projects
ASSUME ViewsAssumption ==
    Views \subseteq {"board", "backlog", "archive", "releases", "project-settings", "system-settings"}
ASSUME BoundsAssumption == MaxMoves \in Nat

VARIABLES
    selected, view,
    generation,       \* of issue-lists.js: the load that counts
    lists,            \* the extra lists the current generation has asked for
    fetches,          \* requests for a list of issues
    issues,           \* state.issues
    refreshes,        \* waiting for the projects: calls of refreshApp, and (generation 0)
                      \* the system settings after a project has been saved
    answers,          \* other requests whose answer goes into a cache
    labels,           \* state.labels: whose they are and whose they are said to be
    releases, config, \* whose releases and status columns are cached
    form,             \* the columns in the project settings: of which project, filled from whose
    exists, at,       \* on the server: the projects, the list each project's issue is in
    calm,             \* history: the selection never changed while other answers were awaited,
                      \* and no columns were saved from the form of another project
    steps, changes, failures
vars == <<selected, view, generation, lists, fetches, issues, refreshes, answers, labels,
          releases, config, form, exists, at, calm, steps, changes, failures>>

Kinds == {"active", "open", "archived"}
Choices == Projects \cup {Null}
Fetches == [kind : Kinds, gen : Nat, project : Choices, pc : {"sent", "answered"}, found : BOOLEAN]
Refreshes == [gen : Nat, project : Choices, pc : {"sent", "answered"}, known : SUBSET Projects]
Answers == [cache : {"labels", "releases", "config"}, gen : Nat, project : Choices]

TypeOK ==
    /\ selected \in Choices
    /\ view \in Views \cup {"board"}
    /\ generation \in Nat
    /\ lists \subseteq Kinds \ {"active"}
    /\ \A f \in fetches : f \in Fetches
    /\ issues \subseteq [project : Projects, kind : Kinds]
    /\ \A r \in refreshes : r \in Refreshes
    /\ \A a \in answers : a \in Answers
    /\ labels \in [of : Choices, key : Choices]
    /\ releases \in Choices
    /\ config \in Choices
    /\ form \in [of : Choices, filled : Choices]
    /\ exists \in SUBSET Projects /\ DefaultProject \in exists
    /\ at \in [Projects -> Kinds]
    /\ calm \in BOOLEAN
    /\ steps \in Nat
    /\ changes \in Nat
    /\ failures \in Nat

-----------------------------------------------------------------------------
(* Loading. *)

\* Mutant: the active issues among them.
EveryList(v) == IF v = "releases" THEN Kinds ELSE {}

\* The lists a view needs on top of the active issues.
VIEW_ISSUE_LISTS(v) ==
    CASE v = "backlog" -> {"open"}
      [] v = "archive" -> {"archived"}
      [] v = "releases" -> {"open", "archived"}
      [] OTHER -> {}

Request(kind, gen, project) ==
    [kind |-> kind, gen |-> gen, project |-> project, pc |-> "sent", found |-> FALSE]

\* Mutant: the lists loaded for the previous project are taken for loaded.
LoadActiveIssues(project, kinds) ==
    /\ generation' = generation + 1
    /\ lists' = lists \cup kinds
    /\ fetches' = fetches \cup {Request(k, generation + 1, project) : k \in (kinds \ lists) \cup {"active"}}

\* A new generation: what was loaded before and what is in flight no longer counts.
LoadIssues(project, kinds) ==
    /\ generation' = generation + 1
    /\ lists' = kinds
    /\ fetches' = fetches \cup {Request(k, generation + 1, project) : k \in kinds \cup {"active"}}

\* Only lists the current generation has not asked for are fetched.
EnsureIssueLists(kinds) ==
    /\ lists' = lists \cup kinds
    /\ fetches' = fetches \cup {Request(k, generation, selected) : k \in kinds \ lists}
    /\ UNCHANGED generation

Refresh(gen, project) == [gen |-> gen, project |-> project, pc |-> "sent", known |-> {}]

\* refreshApp: one wave of requests; waiting, and the answers to caches, from others.
RefreshApp(project, v, others, rest) ==
    /\ LoadIssues(project, VIEW_ISSUE_LISTS(v))
    /\ refreshes' = others \cup {Refresh(generation + 1, project)}
    /\ answers' = rest \cup {[cache |-> "config", gen |-> generation + 1, project |-> project]}

\* The settings are those of the default project while none is selected.
OrDefault(p) == IF p = Null THEN DefaultProject ELSE p

LabelsRequest(project) == [cache |-> "labels", gen |-> 0, project |-> OrDefault(project)]

\* The app has just been opened on the project remembered from the last visit, if any.
Init ==
    /\ selected \in Choices
    /\ view = "board"
    /\ generation = 1
    /\ lists = {}
    /\ fetches = {Request("active", 1, selected)}
    /\ issues = {}
    /\ refreshes = {Refresh(1, selected)}
    /\ answers = {[cache |-> "config", gen |-> 1, project |-> selected]}
    /\ labels = [of |-> Null, key |-> Null]
    /\ releases = Null
    /\ config = Null
    /\ form = [of |-> Null, filled |-> Null]
    /\ exists = Projects
    /\ at \in [Projects -> Kinds]
    /\ calm = TRUE
    /\ steps = 0
    /\ changes = 0
    /\ failures = 0

ServerData == <<exists, at, changes, failures>>
Caches == <<labels, releases, config>>

-----------------------------------------------------------------------------
(* The user. *)

MovesLeft == steps + changes + failures < MaxMoves
Acts == steps' = steps + 1 /\ MovesLeft

SelectProject(p) ==
    /\ Acts
    /\ p \in exists /\ p # selected
    /\ view # "system-settings"
    /\ selected' = p
    /\ RefreshApp(p, view, refreshes, answers)
    /\ calm' = (calm /\ refreshes = {} /\ answers = {})
    /\ UNCHANGED <<view, issues, Caches, form, ServerData>>

\* renderProjectSettingsView: the columns from the cache, the labels from the server.
RenderProjectSettings(project, rest) ==
    /\ form' = [of |-> OrDefault(project), filled |-> config]
    /\ answers' = rest \cup {LabelsRequest(project)}

\* Entering a list of issues refreshes everything.
EnterIssues(v) ==
    /\ Acts
    /\ v \in {"board", "backlog", "archive"}
    /\ view' = v
    /\ RefreshApp(selected, v, refreshes, answers)
    /\ UNCHANGED <<selected, issues, Caches, form, calm, ServerData>>

EnterReleases ==
    /\ Acts
    /\ view' = "releases"
    /\ EnsureIssueLists(VIEW_ISSUE_LISTS("releases"))
    /\ UNCHANGED <<selected, issues, refreshes, answers, Caches, form, calm, ServerData>>

\* Also after a label has been added or deleted there.
EnterProjectSettings ==
    /\ Acts
    /\ view' = "project-settings"
    /\ RenderProjectSettings(selected, answers)
    /\ UNCHANGED <<selected, generation, lists, fetches, issues, refreshes, Caches, calm, ServerData>>

EnterSystemSettings ==
    /\ Acts
    /\ view' = "system-settings"
    /\ UNCHANGED <<selected, generation, lists, fetches, issues, refreshes, answers, Caches, form,
                   calm, ServerData>>

SwitchView(v) ==
    \/ EnterIssues(v)
    \/ v = "releases" /\ EnterReleases
    \/ v = "project-settings" /\ EnterProjectSettings
    \/ v = "system-settings" /\ EnterSystemSettings

\* Deleting or triggering a release changes issues on the server: their lists are loaded
\* again (refreshIssuesAfterReleaseSideEffect).
ChangeRelease ==
    /\ Acts
    /\ view = "releases" /\ selected # Null
    /\ LoadIssues(selected, VIEW_ISSUE_LISTS("releases"))
    /\ UNCHANGED <<selected, view, issues, refreshes, answers, Caches, form, calm, ServerData>>

\* A new release is followed by a reload of the releases.
CreateRelease ==
    /\ Acts
    /\ view = "releases"
    /\ answers' = answers \cup {[cache |-> "releases", gen |-> 0, project |-> OrDefault(selected)]}
    /\ UNCHANGED <<selected, view, generation, lists, fetches, issues, refreshes, Caches, form, calm,
                   ServerData>>

\* The form knows its project from when it was rendered.
SaveColumns ==
    /\ Acts
    /\ view = "project-settings"
    /\ answers' = answers \cup {[cache |-> "config", gen |-> 0, project |-> form.of]}
    /\ calm' = (calm /\ form.of = OrDefault(selected))
    /\ UNCHANGED <<selected, view, generation, lists, fetches, issues, refreshes, Caches, form,
                   ServerData>>

\* The system settings read the projects again for the selector: handleDeleteProject (an
\* issue would keep its project) and, with nothing deleted, handleProjectSubmit.
ChangeProjects(deleted) ==
    /\ Acts
    /\ view = "system-settings"
    /\ deleted \subseteq exists \ {DefaultProject}
    /\ exists' = exists \ deleted
    /\ refreshes' = refreshes \cup {Refresh(0, Null)}
    /\ UNCHANGED <<selected, view, generation, lists, fetches, issues, answers, Caches, form, calm,
                   at, changes, failures>>

-----------------------------------------------------------------------------
(* Answers. *)

\* A request that gets no answer, of the bounded number of them.
Fails ==
    /\ MovesLeft
    /\ failures' = failures + 1
    /\ UNCHANGED <<exists, at, changes>>

\* A request that fails is answered with no issues (fetchActiveIssuesByProject).
ServeFetch(f, reached) ==
    /\ f.pc = "sent"
    /\ fetches' = (fetches \ {f}) \cup
         {[f EXCEPT !.pc = "answered",
                    !.found = reached /\ f.project \in exists /\ at[f.project] = f.kind]}
    /\ IF reached THEN UNCHANGED ServerData ELSE Fails
    /\ UNCHANGED <<selected, view, generation, lists, issues, refreshes, answers, Caches, form, calm, steps>>

\* Mutant: any answer counts.
AnyCounts(f) == TRUE

\* An answer counts only if no newer load has begun.
Counts(f) == f.gen = generation

\* The active issues of the load are in place (activeLoad).
ActiveInPlace(gen) == ~\E f \in fetches : f.kind = "active" /\ f.gen = gen

\* Mutant: the list is appended.
Appended(found) == issues \cup found

\* mergeIntoIssues: what is there already stays as it is.
Merged(found) == issues \cup {i \in found : \A j \in issues : j.project # i.project}

FetchReturns(f) ==
    LET found == IF f.found THEN {[project |-> f.project, kind |-> f.kind]} ELSE {} IN
    /\ f.pc = "answered"
    /\ f.kind # "active" => ActiveInPlace(f.gen)
    /\ fetches' = fetches \ {f}
    /\ issues' = IF ~Counts(f) THEN issues ELSE IF f.kind = "active" THEN found ELSE Merged(found)
    /\ UNCHANGED <<selected, view, generation, lists, refreshes, answers, Caches, form, calm, steps, ServerData>>

\* Labels loaded in the settings go into the cache only if their project is still selected.
Wanted(a) == a.project = selected

AnswerReturns(a) ==
    /\ a.project \in exists \cup {Null}
    /\ answers' = answers \ {a}
    /\ labels' = IF a.cache = "labels" /\ Wanted(a) THEN [of |-> a.project, key |-> selected] ELSE labels
    /\ releases' = IF a.cache = "releases" THEN a.project ELSE releases
    /\ config' = IF a.cache = "config" THEN a.project ELSE config
    /\ UNCHANGED <<selected, view, generation, lists, fetches, issues, refreshes, form, calm, steps, ServerData>>

\* A refresh that gets no status config goes on with none; a project that is gone has none.
AnswerFails(a) ==
    /\ IF a.project \in exists \cup {Null} THEN Fails ELSE UNCHANGED ServerData
    /\ answers' = answers \ {a}
    /\ config' = IF a.cache = "config" /\ a.gen > 0 THEN Null ELSE config
    /\ UNCHANGED <<selected, view, generation, lists, fetches, issues, refreshes, labels, releases, form, calm, steps>>

\* A failure to read the projects is an empty list of them.
ServeRefresh(r, reached) ==
    /\ r.pc = "sent"
    /\ r.project \in exists \cup {Null}
    /\ refreshes' = (refreshes \ {r}) \cup
         {[r EXCEPT !.pc = "answered", !.known = IF reached THEN exists ELSE {}]}
    /\ IF reached THEN UNCHANGED ServerData ELSE Fails
    /\ UNCHANGED <<selected, view, generation, lists, fetches, issues, answers, Caches, form, calm, steps>>

\* The labels or the releases are not to be had: the refresh ends without effect, while
\* its lists and its status config go on.
RefreshFails(r) ==
    /\ r.pc = "sent" /\ r.gen > 0
    /\ IF r.project \in exists \cup {Null} THEN Fails ELSE UNCHANGED ServerData
    /\ refreshes' = refreshes \ {r}
    /\ UNCHANGED <<selected, view, generation, lists, fetches, issues, answers, Caches, form, calm, steps>>

\* updateProjectSelectorOptions: a selection that is not in the list is replaced.
Fallback(known) ==
    IF selected \in known THEN selected ELSE IF known = {} THEN Null ELSE DefaultProject

\* Mutant: the selection is replaced and nothing loaded for it.
OnlyFallBack(r, rest) ==
    /\ selected' = Fallback(r.known)
    /\ EnsureIssueLists(VIEW_ISSUE_LISTS(view))
    /\ refreshes' = refreshes \ {r}
    /\ answers' = rest
    /\ UNCHANGED calm

\* ... and the app refreshed for the new one.
SelectOrFallBack(r, rest) ==
    LET p == Fallback(r.known) IN
    /\ selected' = p
    /\ calm' = (calm /\ (p # selected => refreshes = {r} /\ answers = {}))
    /\ IF p # selected
       THEN RefreshApp(p, view, refreshes \ {r}, rest)
       ELSE /\ EnsureIssueLists(VIEW_ISSUE_LISTS(view))
            /\ refreshes' = refreshes \ {r}
            /\ answers' = rest

ProjectsReturn(r) ==
    /\ r.pc = "answered" /\ r.gen = 0
    /\ SelectOrFallBack(r, answers)
    /\ UNCHANGED <<view, issues, Caches, form, steps, ServerData>>

\* All answers are there (Promise.all): the caches are filled, the selection is checked and
\* the visible view rendered, which asks for its lists.
RefreshReturns(r) ==
    /\ r.pc = "answered" /\ r.gen > 0
    /\ ActiveInPlace(r.gen)
    /\ \A a \in answers : a.cache = "config" => a.gen # r.gen
    /\ labels' = [of |-> r.project, key |-> selected]
    /\ releases' = r.project
    /\ SelectOrFallBack(r, IF view = "project-settings" THEN answers \cup {LabelsRequest(Fallback(r.known))}
                           ELSE answers)
    /\ form' = IF view = "project-settings" THEN [of |-> OrDefault(Fallback(r.known)), filled |-> config]
               ELSE form
    /\ UNCHANGED <<view, issues, config, steps, ServerData>>

-----------------------------------------------------------------------------
(* Other users. *)

OthersDelete(p) ==
    /\ p \in exists \ {DefaultProject} /\ MovesLeft
    /\ changes' = changes + 1
    /\ exists' = exists \ {p}
    /\ UNCHANGED <<selected, view, generation, lists, fetches, issues, refreshes, answers, Caches,
                   form, calm, steps, at, failures>>

OthersMove(p, k) ==
    /\ at[p] # k /\ MovesLeft
    /\ changes' = changes + 1
    /\ at' = [at EXCEPT ![p] = k]
    /\ UNCHANGED <<selected, view, generation, lists, fetches, issues, refreshes, answers, Caches,
                   form, calm, steps, exists, failures>>

-----------------------------------------------------------------------------
Loading(f) == ServeFetch(f, TRUE) \/ FetchReturns(f)
Filling(a) == AnswerReturns(a) \/ AnswerFails(a)
Refreshing(r) ==
    ServeRefresh(r, TRUE) \/ RefreshFails(r) \/ RefreshReturns(r) \/ ProjectsReturn(r)

Next ==
    \/ \E p \in Projects : SelectProject(p) \/ OthersDelete(p)
    \/ \E p \in Projects, k \in Kinds : OthersMove(p, k)
    \/ \E v \in Views : SwitchView(v)
    \/ ChangeRelease \/ CreateRelease \/ SaveColumns
    \/ \E deleted \in {{}} \cup {{p} : p \in Projects} : ChangeProjects(deleted)
    \/ \E f \in fetches : Loading(f) \/ ServeFetch(f, FALSE)
    \/ \E a \in answers : Filling(a)
    \/ \E r \in refreshes : Refreshing(r) \/ ServeRefresh(r, FALSE)

\* Every request is answered in the end, or fails.
Fairness ==
    /\ WF_vars(\E f \in fetches : Loading(f))
    /\ WF_vars(\E a \in answers : Filling(a))
    /\ WF_vars(\E r \in refreshes : Refreshing(r))

Spec == Init /\ [][Next]_vars /\ Fairness

-----------------------------------------------------------------------------
(* Properties. *)

\* Nothing is awaited.
Settled == refreshes = {} /\ answers = {} /\ fetches = {}

\* Once the active issues of the newest load are in place, every issue shown is of the
\* selected project, in whatever order the answers of overlapping loads came in
\* (generation in loadIssues and ensureIssueLists).
IssuesOfSelected == ActiveInPlace(generation) => \A i \in issues : i.project = selected

\* An issue that moved from one list to another between two answers is shown once
\* (mergeIntoIssues, and the wait for activeLoad before it).
NoIssueTwice == \A i, j \in issues : i.project = j.project => i = j

\* If the selection never changed while answers were awaited, no form of another project was
\* saved and no request failed, the caches and the form of the project settings are of the
\* selected project (refreshApp, loadStatusConfig, renderProjectSettingsView).
CachesOfSelected ==
    calm /\ failures = 0 /\ Settled /\ selected \in exists =>
        /\ labels = [of |-> selected, key |-> selected]
        /\ releases = selected
        /\ config = selected
        /\ view = "project-settings" => form = [of |-> selected, filled |-> selected]

\* Without changes by others and without failures a view ends up with every issue that it
\* lists (ensureIssueLists and VIEW_ISSUE_LISTS, after any switching of views and projects).
ViewShowsItsIssues ==
    <>[](changes = 0 /\ failures = 0 /\ view # "system-settings" =>
            /\ selected \in exists
            /\ at[selected] \in VIEW_ISSUE_LISTS(view) \cup {"active"} =>
                   [project |-> selected, kind |-> at[selected]] \in issues)

\* A refresh that is sent after the selected project has been deleted, and of which no
\* request fails on the way, replaces the selection by another project
\* (updateProjectSelectorOptions).
RefreshReplacesSelection ==
    (selected \notin exists /\ \E r \in refreshes : r.pc = "sent" /\ r.project = selected)
        ~> selected \in exists \/ failures > 0
=============================================================================

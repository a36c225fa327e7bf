--------------------------- MODULE WorkspaceProofs ---------------------------
(***************************************************************************)
(* For every set of projects and views and every number of steps: once the *)
(* newest load is in place, the issues shown are those of the selected     *)
(* project, and none is shown twice, in whatever order answers come in.    *)
(***************************************************************************)
EXTENDS Workspace, TLAPS

Extra == {"open", "archived"}

LEMMA ViewLists == \A v : VIEW_ISSUE_LISTS(v) \subseteq Extra
BY DEF VIEW_ISSUE_LISTS, Extra

LEMMA RequestTyped ==
    ASSUME NEW kind \in Kinds, NEW gen \in Nat, NEW project \in Choices
    PROVE  LET f == Request(kind, gen, project) IN
           /\ f \in Fetches /\ f.kind = kind /\ f.gen = gen /\ f.project = project
           /\ ~f.found
BY DEF Request, Fetches

-----------------------------------------------------------------------------
(* What is loaded. *)

\* A request for a list belongs to a load that has begun, and one of the newest load is
\* for the selected project.
FetchOK(f) ==
    /\ f \in Fetches
    /\ f.gen <= generation
    /\ f.gen = generation => f.project = selected
    /\ f.found => f.project \in Projects

LoadsTyped ==
    /\ selected \in Choices
    /\ generation \in Nat
    /\ lists \subseteq Extra
    /\ issues \subseteq [project : Projects, kind : Kinds]

LoadsOK ==
    /\ LoadsTyped
    /\ \A f \in fetches : FetchOK(f)
    /\ IssuesOfSelected
    /\ NoIssueTwice

\* A new load begins: its active issues are not in place yet.
LEMMA LoadBegins ==
    ASSUME LoadsOK, NEW project \in Choices, NEW kinds \in SUBSET Extra,
           LoadIssues(project, kinds), selected' = project, UNCHANGED issues
    PROVE  LoadsOK'
<1>1. generation \in Nat /\ generation' = generation + 1 /\ generation + 1 \in Nat
  BY DEF LoadsOK, LoadsTyped, LoadIssues
<1>2. LoadsTyped'
  BY <1>1 DEF LoadsOK, LoadsTyped, LoadIssues
<1>3. ASSUME NEW f \in fetches'
      PROVE  /\ f \in Fetches /\ f.gen <= generation + 1
             /\ f.gen = generation + 1 => f.project = project
             /\ f.found => f.project \in Projects
  <2>1. CASE f \in fetches
    <3>1. FetchOK(f)
      BY <2>1 DEF LoadsOK
    <3>2. f.gen \in Nat
      BY <3>1 DEF FetchOK, Fetches
    <3> QED
      BY <1>1, <3>1, <3>2 DEF FetchOK
  <2>2. CASE f \notin fetches
    <3>1. PICK k \in kinds \cup {"active"} : f = Request(k, generation + 1, project)
      BY <2>2 DEF LoadIssues
    <3>2. k \in Kinds
      BY DEF Kinds, Extra
    <3> QED
      BY <1>1, <3>1, <3>2, RequestTyped
  <2> QED
    BY <2>1, <2>2
<1>4. ~(ActiveInPlace(generation)')
  <2> DEFINE f == Request("active", generation + 1, project)
  <2>1. f \in fetches' /\ "active" \in Kinds
    BY DEF LoadIssues, Kinds
  <2>2. f.kind = "active" /\ f.gen = generation + 1
    BY <1>1, <2>1, RequestTyped
  <2> HIDE DEF f
  <2> QED
    BY <1>1, <2>1, <2>2 DEF ActiveInPlace
<1> QED
  BY <1>1, <1>2, <1>3, <1>4 DEF LoadsOK, FetchOK, IssuesOfSelected, NoIssueTwice

\* The load goes on with more lists.
LEMMA LoadGrows ==
    ASSUME LoadsOK, NEW kinds \in SUBSET Extra, EnsureIssueLists(kinds),
           UNCHANGED <<selected, issues>>
    PROVE  LoadsOK'
<1>1. generation \in Nat /\ generation' = generation /\ selected \in Choices
  BY DEF LoadsOK, LoadsTyped, EnsureIssueLists
<1>2. LoadsTyped'
  BY <1>1 DEF LoadsOK, LoadsTyped, EnsureIssueLists
<1>3. ASSUME NEW f \in fetches', f \notin fetches
      PROVE  FetchOK(f) /\ f.kind # "active"
  <2>1. PICK k \in kinds \ lists : f = Request(k, generation, selected)
    BY <1>3 DEF EnsureIssueLists
  <2>2. k \in Kinds /\ k # "active"
    BY DEF Kinds, Extra
  <2> QED
    BY <1>1, <2>1, <2>2, RequestTyped DEF FetchOK
<1>4. fetches \subseteq fetches'
  BY DEF EnsureIssueLists
<1>5. \A f \in fetches' : FetchOK(f)
  BY <1>3 DEF LoadsOK
<1>6. ActiveInPlace(generation)' <=> ActiveInPlace(generation)
  BY <1>1, <1>3, <1>4 DEF ActiveInPlace
<1> QED
  BY <1>1, <1>2, <1>5, <1>6 DEF LoadsOK, FetchOK, IssuesOfSelected, NoIssueTwice

LEMMA LoadStays ==
    ASSUME LoadsOK, UNCHANGED <<selected, generation, lists, fetches, issues>>
    PROVE  LoadsOK'
BY DEF LoadsOK, LoadsTyped, FetchOK, IssuesOfSelected, NoIssueTwice, ActiveInPlace

LEMMA LoadServed ==
    ASSUME LoadsOK, exists \subseteq Projects, NEW f \in fetches, NEW reached \in BOOLEAN,
           ServeFetch(f, reached)
    PROVE  LoadsOK'
<1> DEFINE found == reached /\ f.project \in exists /\ at[f.project] = f.kind
           g == [f EXCEPT !.pc = "answered", !.found = found]
<1>1. /\ UNCHANGED <<selected, generation, lists, issues>>
      /\ fetches' = (fetches \ {f}) \cup {g}
  BY DEF ServeFetch
<1>2. FetchOK(f) /\ f \in Fetches
  BY DEF LoadsOK, FetchOK
<1>3. found \in BOOLEAN
  BY Zenon
<1>4. g \in Fetches /\ g.kind = f.kind /\ g.gen = f.gen /\ g.project = f.project /\ (g.found <=> found)
  BY <1>2, <1>3 DEF Fetches
<1>5. found => f.project \in Projects
  OBVIOUS
<1> HIDE DEF g, found
<1>6. FetchOK(g)
  BY <1>2, <1>4, <1>5 DEF FetchOK
<1>7. \A h \in fetches' : FetchOK(h)
  BY <1>1, <1>6 DEF LoadsOK
<1>8. ActiveInPlace(generation)' <=> ActiveInPlace(generation)
  BY <1>1, <1>4 DEF ActiveInPlace
<1> QED
  BY <1>1, <1>7, <1>8 DEF LoadsOK, LoadsTyped, FetchOK, IssuesOfSelected, NoIssueTwice

LEMMA LoadReturned ==
    ASSUME LoadsOK, NEW f \in fetches, FetchReturns(f)
    PROVE  LoadsOK'
<1> DEFINE i == [project |-> f.project, kind |-> f.kind]
           found == IF f.found THEN {i} ELSE {}
<1>1. /\ UNCHANGED <<selected, generation, lists>>
      /\ fetches' = fetches \ {f}
      /\ issues' = IF ~Counts(f) THEN issues ELSE IF f.kind = "active" THEN found ELSE Merged(found)
  BY DEF FetchReturns
<1>2. FetchOK(f) /\ f \in Fetches /\ f.kind \in Kinds
  BY DEF LoadsOK, FetchOK, Fetches
<1>3. f.found => i \in [project : Projects, kind : Kinds]
  BY <1>2 DEF FetchOK
<1>4. i.project = f.project /\ (Counts(f) => f.project = selected)
  BY <1>2 DEF Counts, FetchOK
<1> HIDE DEF i
<1>5. \A h \in fetches' : FetchOK(h)'
  BY <1>1 DEF LoadsOK, FetchOK
<1>6. \A j \in issues' : j \in issues \/ (Counts(f) /\ f.found /\ j = i)
  BY <1>1 DEF Merged
<1>7. LoadsTyped'
  BY <1>1, <1>3, <1>6 DEF LoadsOK, LoadsTyped
<1>8. NoIssueTwice'
  <2>1. CASE issues' = issues \/ issues' = found
    BY <2>1 DEF LoadsOK, NoIssueTwice
  <2>2. CASE issues' = Merged(found)
    BY <1>4, <2>2 DEF LoadsOK, NoIssueTwice, Merged
  <2> QED
    BY <1>1, <2>1, <2>2
<1>9. IssuesOfSelected'
  <2> SUFFICES ASSUME ActiveInPlace(generation)', NEW j \in issues'
               PROVE  j.project = selected
    BY <1>1 DEF IssuesOfSelected
  <2>1. CASE ~Counts(f)
    <3>1. ActiveInPlace(generation)
      BY <1>1, <2>1 DEF ActiveInPlace, Counts
    <3> QED
      BY <1>1, <2>1, <3>1 DEF LoadsOK, IssuesOfSelected
  <2>2. CASE Counts(f) /\ f.kind = "active"
    BY <1>1, <1>4, <2>2
  <2>3. CASE Counts(f) /\ f.kind # "active"
    <3>1. ActiveInPlace(generation)
      BY <1>1, <2>3 DEF ActiveInPlace
    <3> QED
      BY <1>4, <1>6, <2>3, <3>1 DEF LoadsOK, IssuesOfSelected
  <2> QED
    BY <2>1, <2>2, <2>3
<1> QED
  BY <1>5, <1>7, <1>8, <1>9 DEF LoadsOK

-----------------------------------------------------------------------------
(* The rest of the state. *)

RestTyped ==
    /\ view \in Views \cup {"board"}
    /\ \A r \in refreshes : r \in Refreshes
    /\ \A a \in answers : a \in Answers
    /\ labels \in [of : Choices, key : Choices]
    /\ releases \in Choices
    /\ config \in Choices
    /\ form \in [of : Choices, filled : Choices]
    /\ exists \in SUBSET Projects /\ DefaultProject \in exists
    /\ at \in [Projects -> Kinds]
    /\ calm \in BOOLEAN
    /\ steps \in Nat
    /\ changes \in Nat
    /\ failures \in Nat

Inv == LoadsOK /\ RestTyped

LEMMA FallbackTyped ==
    ASSUME selected \in Choices, NEW known
    PROVE  Fallback(known) \in Choices
BY ProjectsAssumption DEF Fallback, Choices

LEMMA LoadsStep ==
    ASSUME Inv, [Next]_vars
    PROVE  LoadsOK'
<1>1. LoadsOK /\ selected \in Choices /\ exists \subseteq Projects
  BY DEF Inv, LoadsOK, LoadsTyped, RestTyped
<1>2. \A v : VIEW_ISSUE_LISTS(v) \in SUBSET Extra
  BY ViewLists
<1>3. ASSUME NEW p \in Projects, SelectProject(p)
      PROVE  LoadsOK'
  <2>1. /\ LoadIssues(p, VIEW_ISSUE_LISTS(view)) /\ selected' = p /\ UNCHANGED issues
        /\ p \in Choices
    BY <1>3 DEF SelectProject, RefreshApp, Choices
  <2> QED
    BY <1>1, <1>2, <2>1, LoadBegins
<1>4. ASSUME NEW v \in Views, EnterIssues(v)
      PROVE  LoadsOK'
  <2>1. LoadIssues(selected, VIEW_ISSUE_LISTS(v)) /\ UNCHANGED <<selected, issues>>
    BY <1>4 DEF EnterIssues, RefreshApp
  <2> QED
    BY <1>1, <1>2, <2>1, LoadBegins
<1>5. CASE EnterReleases
  <2>1. EnsureIssueLists(VIEW_ISSUE_LISTS("releases")) /\ UNCHANGED <<selected, issues>>
    BY <1>5 DEF EnterReleases
  <2> QED
    BY <1>1, <1>2, <2>1, LoadGrows
<1>6. CASE ChangeRelease
  <2>1. LoadIssues(selected, VIEW_ISSUE_LISTS("releases")) /\ UNCHANGED <<selected, issues>>
    BY <1>6 DEF ChangeRelease
  <2> QED
    BY <1>1, <1>2, <2>1, LoadBegins
<1>7. ASSUME NEW f \in fetches, NEW reached \in BOOLEAN, ServeFetch(f, reached)
      PROVE  LoadsOK'
  BY <1>1, <1>7, LoadServed
<1>8. ASSUME NEW f \in fetches, FetchReturns(f)
      PROVE  LoadsOK'
  BY <1>1, <1>8, LoadReturned
<1>9. ASSUME NEW r \in refreshes, NEW rest, SelectOrFallBack(r, rest), UNCHANGED issues
      PROVE  LoadsOK'
  <2> DEFINE p == Fallback(r.known)
  <2>1. p \in Choices /\ selected' = p
    BY <1>1, <1>9, FallbackTyped DEF SelectOrFallBack
  <2>2. CASE p # selected
    <3>1. LoadIssues(p, VIEW_ISSUE_LISTS(view))
      BY <1>9, <2>2 DEF SelectOrFallBack, RefreshApp
    <3> HIDE DEF p
    <3> QED
      BY <1>1, <1>2, <1>9, <2>1, <3>1, LoadBegins
  <2>3. CASE p = selected
    <3>1. EnsureIssueLists(VIEW_ISSUE_LISTS(view)) /\ UNCHANGED selected
      BY <1>9, <2>1, <2>3 DEF SelectOrFallBack
    <3> QED
      BY <1>1, <1>2, <1>9, <3>1, LoadGrows
  <2> QED
    BY <2>2, <2>3
<1>10. ASSUME NEW r \in refreshes, ProjectsReturn(r) \/ RefreshReturns(r)
       PROVE  LoadsOK'
  BY <1>9, <1>10 DEF ProjectsReturn, RefreshReturns
<1>11. ASSUME NEW p \in Projects, OthersDelete(p) \/ \E k \in Kinds : OthersMove(p, k)
       PROVE  LoadsOK'
  BY <1>1, <1>11, LoadStays DEF OthersDelete, OthersMove
<1>12. ASSUME \/ EnterProjectSettings \/ EnterSystemSettings \/ CreateRelease \/ SaveColumns
              \/ \E deleted : ChangeProjects(deleted)
       PROVE  LoadsOK'
  BY <1>1, <1>12, LoadStays
     DEF EnterProjectSettings, EnterSystemSettings, CreateRelease, SaveColumns, ChangeProjects
<1>13. ASSUME NEW a \in answers, AnswerReturns(a) \/ AnswerFails(a)
       PROVE  LoadsOK'
  BY <1>1, <1>13, LoadStays DEF AnswerReturns, AnswerFails
<1>14. ASSUME NEW r \in refreshes, NEW reached \in BOOLEAN, ServeRefresh(r, reached) \/ RefreshFails(r)
       PROVE  LoadsOK'
  BY <1>1, <1>14, LoadStays DEF ServeRefresh, RefreshFails
<1>15. CASE UNCHANGED vars
  BY <1>1, <1>15, LoadStays DEF vars
<1>16. ASSUME NEW v \in Views, SwitchView(v)
       PROVE  LoadsOK'
  BY <1>4, <1>5, <1>12, <1>16 DEF SwitchView
<1> QED
  BY <1>3, <1>6, <1>7, <1>8, <1>10, <1>11, <1>12, <1>13, <1>14, <1>15, <1>16
     DEF Next, Loading, Filling, Refreshing

\* What is asked for besides the issues.
LEMMA AskedTyped ==
    ASSUME NEW gen \in Nat, NEW project \in Choices
    PROVE  /\ Refresh(gen, project) \in Refreshes
           /\ [cache |-> "config", gen |-> gen, project |-> project] \in Answers
           /\ OrDefault(project) \in Projects /\ OrDefault(project) \in Choices
           /\ LabelsRequest(project) \in Answers
           /\ [cache |-> "releases", gen |-> 0, project |-> OrDefault(project)] \in Answers
<1>1. OrDefault(project) \in Projects /\ OrDefault(project) \in Choices
  BY ProjectsAssumption DEF OrDefault, Choices
<1> QED
  BY <1>1 DEF Refresh, Refreshes, Answers, LabelsRequest

LEMMA AppRefreshed ==
    ASSUME generation \in Nat, NEW project \in Choices, NEW v, NEW others, NEW rest,
           RefreshApp(project, v, others, rest),
           \A r \in others : r \in Refreshes, \A a \in rest : a \in Answers
    PROVE  (\A r \in refreshes' : r \in Refreshes) /\ (\A a \in answers' : a \in Answers)
<1>1. generation + 1 \in Nat
  OBVIOUS
<1> QED
  BY <1>1, AskedTyped DEF RefreshApp

LEMMA RestStep ==
    ASSUME Inv, [Next]_vars
    PROVE  RestTyped'
<1> DEFINE Asked == (\A r \in refreshes' : r \in Refreshes) /\ (\A a \in answers' : a \in Answers)
           Goal == RestTyped'
<1>1. /\ RestTyped /\ selected \in Choices /\ generation \in Nat /\ generation + 1 \in Nat
      /\ \A r \in refreshes : r \in Refreshes
      /\ \A a \in answers : a \in Answers
  BY DEF Inv, LoadsOK, LoadsTyped, RestTyped
<1>2. ASSUME NEW p \in Projects, SelectProject(p)
      PROVE  Goal
  <2>1. Asked
    BY <1>1, <1>2, AppRefreshed DEF SelectProject, Choices
  <2> QED
    BY <1>1, <1>2, <2>1 DEF RestTyped, SelectProject, Acts, Caches, ServerData
<1>3. ASSUME NEW v \in Views, EnterIssues(v)
      PROVE  Goal
  <2>1. Asked
    BY <1>1, <1>3, AppRefreshed DEF EnterIssues
  <2> QED
    BY <1>1, <1>3, <2>1 DEF RestTyped, EnterIssues, Acts, Caches, ServerData
<1>4. CASE EnterProjectSettings /\ "project-settings" \in Views
  <2>1. Asked
    BY <1>1, <1>4, AskedTyped DEF EnterProjectSettings, RenderProjectSettings
  <2>2. form' \in [of : Choices, filled : Choices]
    BY <1>1, <1>4, AskedTyped DEF EnterProjectSettings, RenderProjectSettings, RestTyped
  <2> QED
    BY <1>1, <1>4, <2>1, <2>2 DEF RestTyped, EnterProjectSettings, Acts, Caches, ServerData
<1>5. CASE EnterReleases /\ "releases" \in Views
  BY <1>1, <1>5 DEF RestTyped, EnterReleases, Acts, Caches, ServerData
<1>6. CASE EnterSystemSettings /\ "system-settings" \in Views
  BY <1>1, <1>6 DEF RestTyped, EnterSystemSettings, Acts, Caches, ServerData
<1>7. ASSUME NEW v \in Views, SwitchView(v)
      PROVE  Goal
  BY <1>3, <1>4, <1>5, <1>6, <1>7 DEF SwitchView
<1>8. CASE ChangeRelease
  BY <1>1, <1>8 DEF RestTyped, ChangeRelease, Acts, Caches, ServerData
<1>9. CASE CreateRelease
  <2>1. Asked
    BY <1>1, <1>9, AskedTyped DEF CreateRelease
  <2> QED
    BY <1>1, <1>9, <2>1 DEF RestTyped, CreateRelease, Acts, Caches, ServerData
<1>10. CASE SaveColumns
  <2>1. form.of \in Choices
    BY <1>1 DEF RestTyped
  <2>2. Asked
    BY <1>1, <1>10, <2>1, AskedTyped DEF SaveColumns
  <2> QED
    BY <1>1, <1>10, <2>2 DEF RestTyped, SaveColumns, Acts, Caches, ServerData
<1>11. ASSUME NEW deleted, ChangeProjects(deleted)
       PROVE  Goal
  <2>1. Null \in Choices
    BY DEF Choices
  <2>2. Asked
    BY <1>1, <1>11, <2>1, AskedTyped DEF ChangeProjects
  <2>3. exists' \in SUBSET Projects /\ DefaultProject \in exists'
    BY <1>1, <1>11 DEF RestTyped, ChangeProjects
  <2> QED
    BY <1>1, <1>11, <2>2, <2>3 DEF RestTyped, ChangeProjects, Acts, Caches
<1>12. ASSUME NEW f \in fetches, \/ FetchReturns(f)
                                 \/ \E reached \in BOOLEAN : ServeFetch(f, reached)
       PROVE  Goal
  <2>1. /\ UNCHANGED <<view, refreshes, answers, labels, releases, config, form, calm, steps>>
        /\ UNCHANGED <<exists, at, changes>>
        /\ failures' \in {failures, failures + 1}
    BY <1>12 DEF FetchReturns, ServeFetch, Fails, Caches, ServerData
  <2> QED
    BY <1>1, <2>1 DEF RestTyped
<1>13. ASSUME NEW a \in answers, AnswerReturns(a)
       PROVE  Goal
  <2>1. a.project \in Choices
    BY <1>1 DEF Answers
  <2>2. Asked
    BY <1>1, <1>13 DEF AnswerReturns
  <2>3. /\ labels' \in [of : Choices, key : Choices]
        /\ releases' \in Choices /\ config' \in Choices
    BY <1>1, <1>13, <2>1 DEF AnswerReturns, RestTyped
  <2> QED
    BY <1>1, <1>13, <2>2, <2>3 DEF RestTyped, AnswerReturns, ServerData
<1>14. ASSUME NEW a \in answers, AnswerFails(a)
       PROVE  Goal
  <2>1. Asked
    BY <1>1, <1>14 DEF AnswerFails
  <2>2. config' \in Choices
    BY <1>1, <1>14 DEF AnswerFails, RestTyped, Choices
  <2>3. UNCHANGED <<exists, at, changes>> /\ failures' \in Nat
    BY <1>1, <1>14 DEF AnswerFails, Fails, ServerData, RestTyped
  <2> QED
    BY <1>1, <1>14, <2>1, <2>2, <2>3 DEF RestTyped, AnswerFails
<1>15. ASSUME NEW r \in refreshes, NEW reached \in BOOLEAN, ServeRefresh(r, reached)
       PROVE  Goal
  <2> DEFINE known == IF reached THEN exists ELSE {}
             x == [r EXCEPT !.pc = "answered", !.known = known]
  <2>1. r \in Refreshes /\ known \in SUBSET Projects
    BY <1>1 DEF RestTyped
  <2>2. x \in Refreshes
    BY <2>1 DEF Refreshes
  <2>3. refreshes' = (refreshes \ {r}) \cup {x} /\ UNCHANGED answers
    BY <1>15 DEF ServeRefresh
  <2> HIDE DEF x
  <2>4. Asked
    BY <1>1, <2>2, <2>3
  <2>5. UNCHANGED <<exists, at, changes>> /\ failures' \in Nat
    BY <1>1, <1>15 DEF ServeRefresh, Fails, ServerData, RestTyped
  <2> QED
    BY <1>1, <1>15, <2>4, <2>5 DEF RestTyped, ServeRefresh, Caches
<1>16. ASSUME NEW r \in refreshes, RefreshFails(r)
       PROVE  Goal
  <2>1. UNCHANGED <<exists, at, changes>> /\ failures' \in Nat
    BY <1>1, <1>16 DEF RefreshFails, Fails, ServerData, RestTyped
  <2> QED
    BY <1>1, <1>16, <2>1 DEF RestTyped, RefreshFails, Caches
<1>17. ASSUME NEW r \in refreshes, NEW rest, SelectOrFallBack(r, rest), \A a \in rest : a \in Answers
       PROVE  Asked /\ calm' \in BOOLEAN
  <2>1. Fallback(r.known) \in Choices
    BY <1>1, FallbackTyped
  <2>2. calm' \in BOOLEAN
    BY <1>1, <1>17 DEF SelectOrFallBack, RestTyped
  <2>3. CASE Fallback(r.known) # selected
    <3>1. RefreshApp(Fallback(r.known), view, refreshes \ {r}, rest)
      BY <1>17, <2>3 DEF SelectOrFallBack
    <3> QED
      BY <1>1, <1>17, <2>1, <2>2, <3>1, AppRefreshed
  <2>4. CASE Fallback(r.known) = selected
    BY <1>1, <1>17, <2>2, <2>4 DEF SelectOrFallBack
  <2> QED
    BY <2>3, <2>4
<1>18. ASSUME NEW r \in refreshes, ProjectsReturn(r)
       PROVE  Goal
  <2>1. Asked /\ calm' \in BOOLEAN
    BY <1>1, <1>17, <1>18 DEF ProjectsReturn
  <2> QED
    BY <1>1, <1>18, <2>1 DEF RestTyped, ProjectsReturn, Caches, ServerData
<1>19. ASSUME NEW r \in refreshes, RefreshReturns(r)
       PROVE  Goal
  <2> DEFINE p == Fallback(r.known)
             rest == IF view = "project-settings" THEN answers \cup {LabelsRequest(p)} ELSE answers
  <2>1. p \in Choices /\ r.project \in Choices
    BY <1>1, FallbackTyped DEF Refreshes
  <2>2. LabelsRequest(p) \in Answers /\ OrDefault(p) \in Choices
    BY <2>1, AskedTyped, <1>1
  <2>3. SelectOrFallBack(r, rest)
    BY <1>19 DEF RefreshReturns
  <2>4. \A a \in rest : a \in Answers
    BY <1>1, <2>2
  <2>5. Asked /\ calm' \in BOOLEAN
    <3> HIDE DEF rest
    <3> QED
      BY <1>17, <2>3, <2>4
  <2>6. selected' = p
    BY <2>3 DEF SelectOrFallBack
  <2>7. labels' \in [of : Choices, key : Choices] /\ releases' \in Choices
    BY <1>1, <1>19, <2>1 DEF RefreshReturns
  <2>8. form' \in [of : Choices, filled : Choices]
    BY <1>1, <1>19, <2>2 DEF RefreshReturns, RestTyped
  <2> QED
    BY <1>1, <1>19, <2>5, <2>7, <2>8 DEF RestTyped, RefreshReturns, ServerData
<1>20. ASSUME NEW p \in Projects, OthersDelete(p) \/ \E k \in Kinds : OthersMove(p, k)
       PROVE  Goal
  BY <1>1, <1>20 DEF RestTyped, OthersDelete, OthersMove, Caches
<1>21. CASE UNCHANGED vars
  BY <1>1, <1>21 DEF RestTyped, vars
<1> QED
  BY <1>2, <1>7, <1>8, <1>9, <1>10, <1>11, <1>12, <1>13, <1>14, <1>15, <1>16, <1>18, <1>19, <1>20,
     <1>21 DEF Next, Loading, Filling, Refreshing

-----------------------------------------------------------------------------
(* The invariants. *)

LEMMA InitInv == Init => Inv
<1> SUFFICES ASSUME Init
             PROVE  Inv
  OBVIOUS
<1>1. selected \in Choices /\ 1 \in Nat /\ "active" \in Kinds /\ generation = 1
  BY DEF Init, Kinds
<1>2. \A f \in fetches : FetchOK(f)
  <2> DEFINE f == Request("active", 1, selected)
  <2>1. fetches = {f}
    BY DEF Init
  <2>2. f \in Fetches /\ f.gen = 1 /\ f.project = selected /\ ~f.found
    BY <1>1, RequestTyped
  <2> HIDE DEF f
  <2> QED
    BY <1>1, <2>1, <2>2 DEF FetchOK
<1>3. LoadsOK
  BY <1>1, <1>2 DEF Init, LoadsOK, LoadsTyped, IssuesOfSelected, NoIssueTwice
<1>4. /\ \A r \in refreshes : r \in Refreshes
      /\ \A a \in answers : a \in Answers
  BY <1>1, AskedTyped DEF Init
<1>5. Null \in Choices /\ DefaultProject \in Projects
  BY ProjectsAssumption DEF Choices
<1>6. /\ labels \in [of : Choices, key : Choices]
      /\ form \in [of : Choices, filled : Choices]
  BY <1>5 DEF Init
<1> QED
  BY <1>3, <1>4, <1>5, <1>6 DEF Init, Inv, RestTyped

LEMMA StepInv == Inv /\ [Next]_vars => Inv'
BY LoadsStep, RestStep DEF Inv

\* In every reachable state loads and caches are as described above.
THEOREM Invariant == Spec => []Inv
BY InitInv, StepInv, PTL DEF Spec

\* The caches, the selection and the requests under way keep their types.
THEOREM WorkspaceTyped == Spec => []TypeOK
<1>1. Inv => TypeOK
  <2> SUFFICES ASSUME Inv
               PROVE  TypeOK
    OBVIOUS
  <2>1. \A f \in fetches : f \in Fetches
    BY DEF Inv, LoadsOK, FetchOK
  <2>2. lists \subseteq Kinds \ {"active"}
    BY DEF Inv, LoadsOK, LoadsTyped, Extra, Kinds
  <2> QED
    BY <2>1, <2>2 DEF Inv, LoadsOK, LoadsTyped, RestTyped, TypeOK
<1> QED
  BY <1>1, Invariant, PTL

\* loadIssues: once the active issues of the newest load are there, what is shown is of the
\* selected project, for any number of overlapping loads.
THEOREM OnlyIssuesOfSelected == Spec => []IssuesOfSelected
<1>1. Inv => IssuesOfSelected
  BY DEF Inv, LoadsOK
<1> QED
  BY <1>1, Invariant, PTL

\* mergeIntoIssues: no issue is shown twice, whatever lists it moves between.
THEOREM EachIssueOnce == Spec => []NoIssueTwice
<1>1. Inv => NoIssueTwice
  BY DEF Inv, LoadsOK
<1> QED
  BY <1>1, Invariant, PTL

-----------------------------------------------------------------------------
(* The caches. *)

RefreshFits(r, project, there) ==
    /\ r.project = IF r.gen > 0 THEN project ELSE Null
    /\ r.pc = "answered" => there \subseteq r.known

AnswerFits(a, project) ==
    a.project = IF a.cache = "config" /\ a.gen > 0 THEN project ELSE OrDefault(project)

\* A refresh of the app is awaited, which fills labels, releases and the form when it ends ...
Awaited == \E r \in refreshes : r.gen > 0

\* ... and not before its columns are there.
ColumnsAwaited ==
    \E a \in answers, r \in refreshes : a.cache = "config" /\ r.gen > 0 /\ a.gen = r.gen

Filled ==
    /\ Awaited \/ (labels = [of |-> selected, key |-> selected] /\ releases = selected)
    /\ ColumnsAwaited \/ config = selected
    /\ view = "project-settings" => Awaited \/ form = [of |-> selected, filled |-> selected]

CachesKept ==
    calm /\ failures = 0 =>
        /\ \A r \in refreshes : RefreshFits(r, selected, exists)
        /\ \A a \in answers : AnswerFits(a, selected)
        /\ selected \in exists => Filled

\* A refresh of the app for the project that is selected then makes up for everything.
LEMMA RefreshFills ==
    ASSUME generation \in Nat, NEW project \in Choices, NEW v, NEW others, NEW rest,
           RefreshApp(project, v, others, rest), selected' = project,
           \A r \in others : RefreshFits(r, project, exists'),
           \A a \in rest : AnswerFits(a, project)
    PROVE  CachesKept'
<1> DEFINE new == Refresh(generation + 1, project)
           columns == [cache |-> "config", gen |-> generation + 1, project |-> project]
<1>1. refreshes' = others \cup {new} /\ answers' = rest \cup {columns}
  BY DEF RefreshApp
<1>2. new.gen = generation + 1 /\ new.project = project /\ new.pc = "sent" /\ generation + 1 > 0
  BY DEF Refresh
<1>3. columns.cache = "config" /\ columns.gen = generation + 1 /\ columns.project = project
  OBVIOUS
<1> HIDE DEF new, columns
<1>4. RefreshFits(new, project, exists') /\ AnswerFits(columns, project)
  BY <1>2, <1>3 DEF RefreshFits, AnswerFits
<1>5. ColumnsAwaited' /\ Awaited'
  BY <1>1, <1>2, <1>3 DEF ColumnsAwaited, Awaited
<1> QED
  BY <1>1, <1>4, <1>5 DEF CachesKept, Filled

\* What is awaited for the selected project, when nothing has gone wrong.
LEMMA LabelsFit ==
    ASSUME NEW project
    PROVE  AnswerFits(LabelsRequest(project), project)
BY DEF AnswerFits, LabelsRequest

LEMMA CachesStep ==
    ASSUME Inv, CachesKept, [Next]_vars
    PROVE  CachesKept'
<1> USE DEF ServerData, Caches
<1>1. /\ generation \in Nat /\ selected \in Choices /\ exists \subseteq Projects /\ failures \in Nat
      /\ Null \notin exists /\ \A r \in refreshes : r \in Refreshes
      /\ \A a \in answers : a \in Answers
      /\ form \in [of : Choices, filled : Choices]
  BY ProjectsAssumption DEF Inv, LoadsOK, LoadsTyped, RestTyped
<1> DEFINE Goal == CachesKept'
           Good == /\ \A r \in refreshes : RefreshFits(r, selected, exists)
                   /\ \A a \in answers : AnswerFits(a, selected)
                   /\ selected \in exists => Filled
<1> SUFFICES ASSUME calm', failures' = 0
             PROVE  Goal
  BY DEF CachesKept
<1>2. ASSUME NEW p \in Projects, SelectProject(p)
      PROVE  Goal
  <2>1. /\ RefreshApp(p, view, {}, {}) /\ selected' = p /\ p \in Choices
    BY <1>2 DEF SelectProject, Choices
  <2> QED
    BY <1>1, <2>1, RefreshFills
<1>3. ASSUME UNCHANGED <<calm, failures>>
      PROVE  Good
  BY <1>3 DEF CachesKept
<1>4. ASSUME NEW v \in Views, EnterIssues(v)
      PROVE  Goal
  <2>1. /\ RefreshApp(selected, v, refreshes, answers)
        /\ UNCHANGED <<selected, exists, calm, failures>>
    BY <1>4 DEF EnterIssues
  <2>2. Good
    BY <1>3, <2>1
  <2> QED
    BY <1>1, <2>1, <2>2, RefreshFills
<1>5. ASSUME UNCHANGED <<selected, exists, refreshes, answers, Caches, form, calm, failures>>,
             view' = view \/ view' # "project-settings"
      PROVE  Goal
  <2>1. Good
    BY <1>3, <1>5
  <2> QED
    BY <1>5, <2>1 DEF CachesKept, Filled, Awaited, ColumnsAwaited
<1>6. CASE EnterReleases \/ EnterSystemSettings \/ ChangeRelease
  BY <1>5, <1>6 DEF EnterReleases, EnterSystemSettings, ChangeRelease
<1>7. ASSUME NEW f, FetchReturns(f)
      PROVE  Goal
  BY <1>5, <1>7 DEF FetchReturns
<1>8. ASSUME failures' = failures + 1
      PROVE  FALSE
  BY <1>1, <1>8
<1>9. ASSUME NEW f, NEW reached, ServeFetch(f, reached)
      PROVE  Goal
  <2>1. CASE reached
    BY <1>5, <1>9, <2>1 DEF ServeFetch
  <2>2. CASE ~reached
    BY <1>8, <1>9, <2>2 DEF ServeFetch, Fails
  <2> QED
    BY <2>1, <2>2
<1>10. ASSUME NEW p, NEW k, OthersMove(p, k)
       PROVE  Goal
  BY <1>5, <1>10 DEF OthersMove
<1>11. ASSUME NEW a, answers' = answers \cup {a}, AnswerFits(a, selected),
              UNCHANGED <<selected, exists, refreshes, Caches, failures>>, calm,
              \/ UNCHANGED <<view, form>>
              \/ form' = [of |-> OrDefault(selected), filled |-> config]
       PROVE  Goal
  <2>1. Good
    BY <1>11 DEF CachesKept
  <2>2. CASE selected \in exists
    <3>1. Filled /\ (ColumnsAwaited => Awaited) /\ (ColumnsAwaited => ColumnsAwaited') /\ (Awaited => Awaited')
      BY <1>11, <2>1, <2>2 DEF Awaited, ColumnsAwaited
    <3>2. OrDefault(selected) = selected
      BY <1>1, <2>2 DEF OrDefault
    <3>3. Filled'
      BY <1>11, <3>1, <3>2 DEF Filled
    <3> QED
      BY <1>11, <2>1, <3>3 DEF CachesKept
  <2> QED
    BY <1>11, <2>1, <2>2 DEF CachesKept
<1>12. CASE EnterProjectSettings
  <2>1. /\ answers' = answers \cup {LabelsRequest(selected)}
        /\ form' = [of |-> OrDefault(selected), filled |-> config]
        /\ UNCHANGED <<selected, exists, refreshes, Caches, failures, calm>>
    BY <1>12 DEF EnterProjectSettings, RenderProjectSettings
  <2>2. calm
    BY <2>1
  <2> QED
    BY <1>11, <2>1, <2>2, LabelsFit
<1>13. CASE CreateRelease
  <2> DEFINE a == [cache |-> "releases", gen |-> 0, project |-> OrDefault(selected)]
  <2>1. /\ answers' = answers \cup {a} /\ AnswerFits(a, selected)
        /\ UNCHANGED <<selected, exists, refreshes, Caches, failures, calm, view, form>>
    BY <1>13 DEF CreateRelease, AnswerFits
  <2>2. calm
    BY <2>1
  <2> HIDE DEF a
  <2> QED
    BY <1>11, <2>1, <2>2
<1>14. CASE SaveColumns
  <2> DEFINE a == [cache |-> "config", gen |-> 0, project |-> form.of]
  <2>1. calm' = (calm /\ form.of = OrDefault(selected))
    BY <1>14 DEF SaveColumns
  <2>2. calm /\ form.of = OrDefault(selected)
    BY <2>1
  <2>3. /\ answers' = answers \cup {a}
        /\ UNCHANGED <<selected, exists, refreshes, Caches, failures, view, form>>
    BY <1>14 DEF SaveColumns
  <2>4. AnswerFits(a, selected)
    BY <2>2 DEF AnswerFits
  <2> HIDE DEF a
  <2> QED
    BY <1>11, <2>2, <2>3, <2>4
<1>15. ASSUME exists' \subseteq exists, NEW new \in SUBSET {Refresh(0, Null)},
              refreshes' = refreshes \cup new,
              UNCHANGED <<selected, view, answers, Caches, form, calm, failures>>
       PROVE  Goal
  <2>1. Good
    BY <1>3, <1>15
  <2>2. RefreshFits(Refresh(0, Null), selected, exists')
    BY DEF RefreshFits, Refresh
  <2>3. \A r \in refreshes' : RefreshFits(r, selected, exists')
    BY <1>15, <2>1, <2>2 DEF RefreshFits
  <2>4. (Awaited => Awaited') /\ (ColumnsAwaited => ColumnsAwaited')
    BY <1>15 DEF Awaited, ColumnsAwaited
  <2> QED
    BY <1>15, <2>1, <2>3, <2>4 DEF CachesKept, Filled
<1>16. ASSUME NEW deleted, ChangeProjects(deleted)
       PROVE  Goal
  <2>1. exists' \subseteq exists /\ refreshes' = refreshes \cup {Refresh(0, Null)}
    BY <1>16 DEF ChangeProjects
  <2> QED
    BY <1>15, <1>16, <2>1 DEF ChangeProjects
<1>17. ASSUME NEW p \in Projects, OthersDelete(p)
       PROVE  Goal
  <2>1. exists' \subseteq exists /\ refreshes' = refreshes \cup {}
    BY <1>17 DEF OthersDelete
  <2> QED
    BY <1>15, <1>17, <2>1 DEF OthersDelete
<1>18. ASSUME NEW a \in answers, AnswerReturns(a)
       PROVE  Goal
  <2>1. /\ Good /\ AnswerFits(a, selected)
        /\ UNCHANGED <<selected, exists, refreshes, form, view, calm, failures>>
        /\ answers' \subseteq answers
    BY <1>3, <1>18 DEF AnswerReturns
  <2>2. CASE selected \in exists
    <3>1. a.project = selected /\ Filled
      BY <1>1, <2>1, <2>2 DEF AnswerFits, OrDefault
    <3>2. /\ labels' = labels \/ labels' = [of |-> selected, key |-> selected]
          /\ releases' = releases \/ releases' = selected
          /\ config' = IF a.cache = "config" THEN selected ELSE config
          /\ answers' = answers \ {a}
      BY <1>18, <3>1 DEF AnswerReturns
    <3>3. (ColumnsAwaited => ColumnsAwaited' \/ config' = selected) /\ (Awaited => Awaited')
      BY <2>1, <3>2 DEF ColumnsAwaited, Awaited
    <3>4. config = selected => config' = selected
      BY <3>2
    <3>5. Filled'
      BY <2>1, <3>1, <3>2, <3>3, <3>4 DEF Filled
    <3> QED
      BY <2>1, <3>5 DEF CachesKept
  <2> QED
    BY <2>1, <2>2 DEF CachesKept
<1>19. ASSUME NEW a \in answers, AnswerFails(a)
       PROVE  Goal
  <2>1. a.project \notin exists \cup {Null}
    BY <1>8, <1>19 DEF AnswerFails, Fails
  <2>2. /\ Good /\ AnswerFits(a, selected)
        /\ UNCHANGED <<selected, exists, refreshes, form, view, labels, releases, calm, failures>>
        /\ answers' = answers \ {a}
    BY <1>3, <1>19, <2>1 DEF AnswerFails
  <2>3. selected \notin exists
    BY <1>1, <2>1, <2>2 DEF AnswerFits, OrDefault
  <2> QED
    BY <2>2, <2>3 DEF CachesKept
<1>20. ASSUME NEW r \in refreshes, NEW reached \in BOOLEAN, ServeRefresh(r, reached)
       PROVE  Goal
  <2>1. reached
    BY <1>8, <1>20 DEF ServeRefresh, Fails
  <2> DEFINE s == [r EXCEPT !.pc = "answered", !.known = exists]
  <2>2. /\ Good /\ RefreshFits(r, selected, exists)
        /\ UNCHANGED <<selected, exists, answers, Caches, form, view, calm, failures>>
        /\ refreshes' = (refreshes \ {r}) \cup {s}
    BY <1>3, <1>20, <2>1 DEF ServeRefresh
  <2>3. s.gen = r.gen /\ s.project = r.project /\ s.known = exists
    BY <1>1 DEF Refreshes
  <2> HIDE DEF s
  <2>4. RefreshFits(s, selected, exists)
    BY <2>2, <2>3 DEF RefreshFits
  <2>5. (Awaited => Awaited') /\ (ColumnsAwaited => ColumnsAwaited')
    BY <2>2, <2>3 DEF Awaited, ColumnsAwaited
  <2> QED
    BY <2>2, <2>4, <2>5 DEF CachesKept, Filled
<1>21. ASSUME NEW r \in refreshes, RefreshFails(r)
       PROVE  Goal
  <2>1. r.project \notin exists \cup {Null}
    BY <1>8, <1>21 DEF RefreshFails, Fails
  <2>2. /\ Good /\ RefreshFits(r, selected, exists) /\ r.gen > 0
        /\ UNCHANGED <<selected, exists, answers, Caches, form, view, calm, failures>>
        /\ refreshes' = refreshes \ {r}
    BY <1>3, <1>21, <2>1 DEF RefreshFails
  <2>3. selected \notin exists
    BY <2>1, <2>2 DEF RefreshFits
  <2> QED
    BY <2>2, <2>3 DEF CachesKept
\* A selection that is replaced is awaited by nothing else; one that stays was not missing.
<1>22. ASSUME NEW r \in refreshes, r.pc = "answered", NEW rest, SelectOrFallBack(r, rest),
              Fallback(r.known) # selected, \A a \in rest : AnswerFits(a, Fallback(r.known)) \/ a \in answers
       PROVE  Goal
  <2> DEFINE p == Fallback(r.known)
  <2>1. /\ RefreshApp(p, view, {}, rest) /\ selected' = p /\ p \in Choices /\ answers = {}
    BY <1>1, <1>22, FallbackTyped DEF SelectOrFallBack
  <2> HIDE DEF p
  <2>2. \A a \in rest : AnswerFits(a, p)
    BY <1>22, <2>1 DEF p
  <2> QED
    BY <1>1, <2>1, <2>2, RefreshFills
<1>23. ASSUME NEW r \in refreshes, ProjectsReturn(r)
       PROVE  Goal
  <2>1. r.pc = "answered" /\ r.gen = 0 /\ SelectOrFallBack(r, answers)
        /\ UNCHANGED <<view, Caches, form, exists, failures>>
    BY <1>23 DEF ProjectsReturn
  <2>2. CASE Fallback(r.known) = selected
    <3>1. /\ UNCHANGED <<selected, answers, calm>> /\ refreshes' = refreshes \ {r}
      BY <2>1, <2>2 DEF SelectOrFallBack
    <3>2. Good
      BY <1>3, <2>1, <3>1
    <3>3. (Awaited => Awaited') /\ (ColumnsAwaited => ColumnsAwaited')
      BY <2>1, <3>1 DEF Awaited, ColumnsAwaited
    <3> QED
      BY <2>1, <3>1, <3>2, <3>3 DEF CachesKept, Filled
  <2> QED
    BY <1>22, <2>1, <2>2
<1>24. ASSUME NEW r \in refreshes, RefreshReturns(r)
       PROVE  Goal
  <2> DEFINE p == Fallback(r.known)
             rest == IF view = "project-settings" THEN answers \cup {LabelsRequest(p)} ELSE answers
  <2>1. /\ r.pc = "answered" /\ r.gen > 0 /\ SelectOrFallBack(r, rest)
        /\ \A a \in answers : a.cache = "config" => a.gen # r.gen
        /\ labels' = [of |-> r.project, key |-> selected] /\ releases' = r.project
        /\ form' = IF view = "project-settings" THEN [of |-> OrDefault(p), filled |-> config] ELSE form
        /\ UNCHANGED <<view, config, exists, failures>>
    BY <1>24 DEF RefreshReturns
  <2>2. \A a \in rest : AnswerFits(a, p) \/ a \in answers
    BY LabelsFit
  <2>3. CASE p = selected
    <3>1. /\ UNCHANGED <<selected, calm>> /\ refreshes' = refreshes \ {r} /\ answers' = rest
      BY <2>1, <2>3 DEF SelectOrFallBack
    <3>2. Good /\ r.project = selected
      BY <1>3, <2>1, <3>1 DEF RefreshFits
    <3>3. \A a \in answers' : AnswerFits(a, selected)
      BY <2>2, <2>3, <3>1, <3>2
    <3>4. ASSUME selected \in exists
          PROVE  Filled'
      <4>1. OrDefault(p) = selected
        BY <1>1, <2>3, <3>4 DEF OrDefault
      <4>2. ColumnsAwaited => ColumnsAwaited' /\ Awaited'
        BY <2>1, <3>1 DEF ColumnsAwaited, Awaited
      <4>3. Filled
        BY <3>2, <3>4
      <4> QED
        BY <2>1, <3>1, <3>2, <4>1, <4>2, <4>3 DEF Filled
    <3> QED
      BY <2>1, <3>1, <3>2, <3>3, <3>4 DEF CachesKept
  <2> HIDE DEF rest
  <2>4. CASE p # selected
    BY <1>22, <2>1, <2>2, <2>4
  <2> QED
    BY <2>3, <2>4
<1>25. CASE UNCHANGED vars
  BY <1>5, <1>25 DEF vars
<1>26. ASSUME NEW v \in Views, SwitchView(v)
       PROVE  Goal
  BY <1>4, <1>6, <1>12, <1>26 DEF SwitchView
<1> HIDE DEF Goal
<1> QED
  BY <1>2, <1>6, <1>7, <1>9, <1>10, <1>13, <1>14, <1>16, <1>17, <1>18, <1>19, <1>20, <1>21, <1>23,
     <1>24, <1>25, <1>26 DEF Next, Loading, Filling, Refreshing

LEMMA CachesInit == Init => CachesKept
<1> SUFFICES ASSUME Init
             PROVE  CachesKept
  OBVIOUS
<1> DEFINE r == Refresh(1, selected)
           a == [cache |-> "config", gen |-> 1, project |-> selected]
<1>1. refreshes = {r} /\ answers = {a} /\ view = "board"
  BY DEF Init
<1>2. r.gen = 1 /\ r.project = selected /\ r.pc = "sent" /\ a.cache = "config" /\ a.gen = 1
      /\ a.project = selected
  BY DEF Refresh
<1> HIDE DEF r, a
<1>3. Awaited /\ ColumnsAwaited
  BY <1>1, <1>2 DEF Awaited, ColumnsAwaited
<1> QED
  BY <1>1, <1>2, <1>3 DEF CachesKept, Filled, RefreshFits, AnswerFits

\* refreshApp, loadStatusConfig, renderProjectSettingsView: labels, releases, columns and the
\* form of the settings end up with the selected project, unless its selection, or a form of
\* another project, ran into answers that were awaited.
THEOREM CachesAreOfSelected == Spec => []CachesOfSelected
<1>1. CachesKept => CachesOfSelected
  BY DEF CachesKept, CachesOfSelected, Settled, Filled, Awaited, ColumnsAwaited
<1>2. Inv /\ CachesKept /\ [Next]_vars => CachesKept'
  BY CachesStep
<1> QED
  BY <1>1, <1>2, CachesInit, Invariant, PTL DEF Spec

=============================================================================

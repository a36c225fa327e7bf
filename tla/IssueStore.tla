----------------------------- MODULE IssueStore -----------------------------
(***************************************************************************)
(* The issue endpoints of the wuFlow backend (backend/handlers.go) over    *)
(* the tables they share (backend/db.go): projects, labels, releases,      *)
(* users, issues and issue_history.                                        *)
(*                                                                         *)
(* Every request runs in a goroutine of its own.  A handler is a sequence  *)
(* of SQL statements; SQLite makes each statement (and each explicit       *)
(* transaction) atomic, and nothing else is: between two statements of one *)
(* handler any statement of any other handler may run.  So one action is   *)
(* one statement, with the local code around it.                           *)
(*                                                                         *)
(* A request that is refused before its first write changes no state, so a *)
(* refusal by a handler's first statement is an action that is not         *)
(* enabled; a refusal later on returns the handler to "idle".              *)
(***************************************************************************)
EXTENDS Integers

CONSTANTS
    Clients,         \* browsers: each has at most one request in flight
    Projects,        \* ids of the projects table
    DefaultProject,  \* project 1, seeded by createTables
    Labels,          \* ids of the labels table
    Releases,        \* ids of the releases table
    Names,           \* release names
    Users,           \* ids of the users table that can be assignees
    Issues,          \* ids of the issues table
    Statuses,        \* the issue statuses in play
    Texts,           \* title, description, priority, deadline, planned dates
    Ops,             \* the endpoints in play
    MaxClock,        \* bound: time stamps taken
    MaxPos,          \* bound: list positions
    Null,            \* SQL NULL
    Free, Gone       \* an id not used yet, and the id of a deleted row

ASSUME IdAssumption ==
    /\ DefaultProject \in Projects
    /\ Null \notin Labels \cup Releases \cup Users \cup Issues
    /\ Free \notin Projects /\ Gone \notin Projects /\ Free # Gone

ASSUME DataAssumption ==
    /\ {"Open", "Done", "Archive"} \subseteq Statuses
    /\ Texts # {} /\ Names # {}
    /\ MaxClock \in Nat /\ MaxPos \in Nat

VARIABLES
    project,   \* projects:  "free", "live" or "gone"
    label,     \* labels:    project_id, or Free / Gone
    release,   \* releases:  project_id (or Free / Gone), name, status
    user,      \* users:     "active", "inactive" or "gone"
    issue,     \* issues:    one row per id; project Free / Gone = no row
    history,   \* issue_history: [iss, event]
    clock,     \* time.Now(): the next time stamp
    req,       \* the request each client has in flight
    seen       \* the issue, with its ETag, a client was sent and has not yet used

tables == <<project, label, release, user, issue, history>>
vars == <<project, label, release, user, issue, history, clock, req, seen>>

\* All ids are AUTOINCREMENT: an id goes Free -> used -> Gone and never back.
IdState == {"free", "live", "gone"}
Owner == Projects \cup {Free, Gone}

\* A row of issues.  etag is updated_at; 0 is "no If-Match header".
Rows == [project : Owner, status : Statuses, label : Labels \cup {Null},
         release : Releases \cup {Null}, assignee : Users \cup {Null},
         text : Texts, pos : 0 .. MaxPos, etag : 0 .. MaxClock]

ReleaseRows == [project : Owner, name : Names, status : {"open", "closed"}]

NoETag == 0

NoRow == [project |-> Free, status |-> "Open", label |-> Null, release |-> Null,
          assignee |-> Null, text |-> CHOOSE t \in Texts : TRUE,
          pos |-> 0, etag |-> NoETag]

NoRelease == [project |-> Free, name |-> CHOOSE n \in Names : TRUE, status |-> "open"]

\* What the JSON body of a create or an update carries (validateIssue).
Bodies == [status : Statuses, label : Labels \cup {Null}, release : Releases \cup {Null},
           assignee : Users \cup {Null}, text : Texts, pos : 0 .. MaxPos]

IssueOps == {"create", "put", "archive", "unarchive", "move", "delete"}
OtherOps == {"putRelease", "triggerRelease", "deleteProject"}
AtomicOps == {"get", "positions", "label", "release", "project", "user"}

\* Where a handler stands: the statement it runs next.
Steps == {"idle", "assignee", "label", "release", "position", "project", "maxpos", "stamp",
          "write", "insert", "delete", "reread", "record", "respond", "panic",
          "updateRelease", "archiveDone", "deleteProject"}

\* iss, rel, prj: the ids the statements name.  new: the row to be written.
\* cur: the row a PUT read first, kept to be compared with new and with the result.
Requests == [op : IssueOps \cup OtherOps \cup {"none"}, pc : Steps,
             iss : Issues \cup {Null}, rel : Releases \cup {Null}, prj : Projects,
             name : Names, ifMatch : 0 .. MaxClock, cur : Rows, new : Rows]

Idle == [op |-> "none", pc |-> "idle", iss |-> Null, rel |-> Null, prj |-> DefaultProject,
         name |-> CHOOSE n \in Names : TRUE, ifMatch |-> NoETag, cur |-> NoRow, new |-> NoRow]

\* What a client knows of an issue, and nothing.
Views == [iss : Issues \cup {Null}, row : Rows]
NoView == [iss |-> Null, row |-> NoRow]

HistoryEntries == [iss : Issues,
                   event : {"created", "updated", "archived", "unarchived", "moved"}]

TypeOK ==
    /\ project \in [Projects -> IdState]
    /\ label \in [Labels -> Owner]
    /\ release \in [Releases -> ReleaseRows]
    /\ user \in [Users -> {"active", "inactive", "gone"}]
    /\ issue \in [Issues -> Rows]
    /\ history \subseteq HistoryEntries
    /\ clock \in 1 .. MaxClock + 1
    /\ req \in [Clients -> Requests]
    /\ seen \in [Clients -> Views]

-----------------------------------------------------------------------------
(* Tables and constraints.                                                 *)

Live(i) == issue[i].project \in Projects

\* issueContentHash: everything but the position and the time stamp.
Content(row) == [f \in {"project", "status", "label", "release", "assignee", "text"} |-> row[f]]

\* diffIssueFields: the same without the project, which a PUT cannot change.
Edited(old, updated) ==
    \E f \in {"status", "label", "release", "assignee", "text"} : old[f] # updated[f]

\* The foreign keys SQLite checks when a row of issues is written (_fk=1).
\* They ask that the referenced row exists, never that it is of the same project.
ForeignKeysHold(row) ==
    /\ project[row.project] = "live"
    /\ row.label # Null => label[row.label] \in Projects
    /\ row.release # Null => release[row.release].project \in Projects
    /\ row.assignee # Null => user[row.assignee] # "gone"

\* ON DELETE SET NULL: updated_at stays as it is.
DropReferences(ls, rs) ==
    [i \in Issues |-> [issue[i] EXCEPT
        !.label = IF @ \in ls THEN Null ELSE @,
        !.release = IF @ \in rs THEN Null ELSE @]]

(* What the UPDATE statements make of a row.                               *)

\* Mutant: a status that is none of IssueStatus.
ArchivedStatus(op) == IF op = "archive" THEN "Archived" ELSE "Done"

\* handleArchiveIssue, handleUnarchiveIssue: archiveToggleOpts.newStatus
ToggledStatus(op) == IF op = "archive" THEN "Archive" ELSE "Done"

\* Mutant: the label and the release come along.
MovedWithLabel(row, q) == [row EXCEPT !.project = q, !.status = "Open"]

\* handleMoveIssue: what moves is the row as it was read.
Moved(row, q) ==
    [row EXCEPT !.project = q, !.label = Null, !.release = Null, !.status = "Open"]

\* Mutant: updated_at is not among the columns set.
WrittenWithoutStamp(row, new) == [new EXCEPT !.etag = row.etag]

\* UpdateIssue: UPDATE issues SET <every column>
Written(row, new) == new

\* UpdateIssuePosition: UPDATE issues SET position = ?
Repositioned(row, new) == [row EXCEPT !.pos = new.pos]

\* TriggerRelease: UPDATE issues SET status = ?, updated_at = ?
ArchivedByRelease(row, now) == [row EXCEPT !.status = "Archive", !.etag = now]

\* Mutants: the issue keeps its assignee; it keeps its updated_at.
StillAssigned(row, now) == row
UnassignedWithoutStamp(row, now) == [row EXCEPT !.assignee = Null]

\* DeleteUser: UPDATE issues SET assignee_id = NULL, updated_at = ?
Unassigned(row, now) == [row EXCEPT !.assignee = Null, !.etag = now]

\* Mutant: rows affected are not counted and the row is put back.
AlwaysAffected(i) == TRUE

\* checkRowsAffected, for UPDATE issues ... WHERE id = ?
RowAffected(i) == Live(i)

Entry(i, e) == [iss |-> i, event |-> e]

At(c, step) == req[c].pc = step
Goto(c, step) == req' = [req EXCEPT ![c].pc = step]
Finish(c) == req' = [req EXCEPT ![c] = Idle]
May(c, op) == req[c].pc = "idle" /\ op \in Ops

\* A request starts.  What the client was sent before is spent: an ETag that still
\* is the issue's can be had again with GetIssue, any other gets a 409.
Start(c, r) == /\ req' = [req EXCEPT ![c] = r]
               /\ seen' = [seen EXCEPT ![c] = NoView]
Receive(c, i, row) == seen' = [seen EXCEPT ![c] = [iss |-> i, row |-> row]]

-----------------------------------------------------------------------------
(* The first statement of each handler.  checkProjectAccess reads the      *)
(* projects table first; a row of issues in project p implies that p       *)
(* exists, so the SELECT by (id, project_id) decides alone.                *)

\* handleGetIssue; 404 when there is no such issue.
GetIssue(c, i) ==
    /\ May(c, "get")
    /\ IF Live(i) THEN Receive(c, i, issue[i]) ELSE UNCHANGED seen
    /\ UNCHANGED <<tables, clock, req>>

\* handlePutIssue up to checkAssignee: the row is read, If-Match compared with
\* it (409 unless they match), the body decoded, the project pinned to the URL's.
PutIssue(c, i, body, ifMatch) ==
    /\ May(c, "put")
    /\ Live(i)
    /\ ifMatch \in {NoETag, issue[i].etag}
    /\ Start(c, [Idle EXCEPT
                  !.op = "put", !.pc = "assignee", !.iss = i, !.ifMatch = ifMatch,
                  !.cur = issue[i],
                  !.new = [project |-> issue[i].project, status |-> body.status,
                           label |-> body.label, release |-> body.release,
                           assignee |-> body.assignee, text |-> body.text,
                           pos |-> body.pos, etag |-> NoETag]])
    /\ UNCHANGED <<tables, clock>>

\* handleCreateIssue up to checkAssignee.  An archived issue may be created.
CreateIssue(c, p, body) ==
    /\ May(c, "create")
    /\ project[p] = "live"
    /\ Start(c, [Idle EXCEPT
                  !.op = "create", !.pc = "assignee",
                  !.new = [project |-> p, status |-> body.status,
                           label |-> body.label, release |-> body.release,
                           assignee |-> body.assignee, text |-> body.text,
                           pos |-> 0, etag |-> NoETag]])
    /\ UNCHANGED <<tables, clock>>

\* handleIssueArchiveToggle: the whole row read is the row to write back.
ToggleArchive(c, i, op) ==
    /\ May(c, op)
    /\ Live(i)
    /\ (issue[i].status = "Archive") <=> (op = "unarchive")
    /\ Start(c, [Idle EXCEPT
                  !.op = op, !.pc = "stamp", !.iss = i,
                  !.new = [issue[i] EXCEPT
                      !.status = ToggledStatus(op)]])
    /\ UNCHANGED <<tables, clock>>

\* handleMoveIssue: the row is read; the admin password is checked next.
MoveIssue(c, i, q) ==
    /\ May(c, "move")
    /\ Live(i)
    /\ issue[i].status # "Archive"
    /\ q # issue[i].project
    /\ Start(c, [Idle EXCEPT
                  !.op = "move", !.pc = "project", !.iss = i, !.prj = q,
                  !.new = issue[i]])
    /\ UNCHANGED <<tables, clock>>

\* handleDeleteIssue: the row is read; the admin password is checked next.
DeleteIssue(c, i) ==
    /\ May(c, "delete")
    /\ Live(i)
    /\ issue[i].status # "Archive"
    /\ Start(c, [Idle EXCEPT !.op = "delete", !.pc = "delete", !.iss = i])
    /\ UNCHANGED <<tables, clock>>

-----------------------------------------------------------------------------
(* The later statements.                                                   *)

\* checkAssignee: a new assignee must be active, the present one must exist.
CheckAssignee(c) ==
    LET a == req[c].new.assignee IN
    /\ At(c, "assignee")
    /\ IF \/ a = Null
          \/ a # req[c].cur.assignee /\ user[a] = "active"
          \/ a = req[c].cur.assignee /\ user[a] # "gone"
       THEN Goto(c, "label")
       ELSE Finish(c)
    /\ UNCHANGED <<tables, clock, seen>>

\* checkLabel
CheckLabel(c) ==
    LET l == req[c].new.label IN
    /\ At(c, "label")
    /\ IF l = Null \/ label[l] = req[c].new.project
       THEN Goto(c, "release")
       ELSE Finish(c)
    /\ UNCHANGED <<tables, clock, seen>>

\* What a PUT does once its checks passed (handlePutIssue, persistIssueUpdate).
\* The archive rules look at the row read first, not at the table.
AfterChecks(r) ==
    CASE r.op = "create" -> "maxpos"
      [] r.op = "put" /\ "Archive" \in {r.cur.status, r.new.status} -> "idle"
      [] r.op = "put" /\ Content(r.new) # Content(r.cur) -> "stamp"
      [] r.op = "put" /\ r.new.pos # r.cur.pos -> "position"
      [] OTHER -> "reread"

\* checkRelease
CheckRelease(c) ==
    LET r == req[c].new.release
        passed == r = Null \/ release[r].project = req[c].new.project
    IN
    /\ At(c, "release")
    /\ IF passed /\ AfterChecks(req[c]) # "idle"
       THEN Goto(c, AfterChecks(req[c]))
       ELSE Finish(c)
    /\ UNCHANGED <<tables, clock, seen>>

\* UpdateIssuePosition: no time stamp.
UpdateIssuePosition(c) ==
    LET i == req[c].iss IN
    /\ At(c, "position")
    /\ IF RowAffected(i)
       THEN /\ issue' = [issue EXCEPT ![i] = Repositioned(@, req[c].new)]
            /\ Goto(c, "reread")
       ELSE Finish(c) /\ UNCHANGED issue
    /\ UNCHANGED <<project, label, release, user, history, clock, seen>>

\* GetProjectByID in handleMoveIssue
CheckTargetProject(c) ==
    /\ At(c, "project")
    /\ IF project[req[c].prj] = "live"
       THEN req' = [req EXCEPT
                ![c].pc = "stamp",
                ![c].new = Moved(@, req[c].prj)]
       ELSE Finish(c)
    /\ UNCHANGED <<tables, clock, seen>>

\* m is MAX(position) over the issues of a status, in all projects; 0 for none.
IsMaxPosition(s, m) ==
    LET positions == {issue[i].pos : i \in {j \in Issues : Live(j) /\ issue[j].status = s}} IN
    /\ m \in positions \cup {0}
    /\ \A n \in positions : n <= m

\* CreateIssue: SELECT MAX(position) FROM issues WHERE status = ?
SelectMaxPosition(c) ==
    /\ At(c, "maxpos")
    /\ \E m \in 0 .. MaxPos - 1 :
         /\ IsMaxPosition(req[c].new.status, m)
         /\ req' = [req EXCEPT ![c].pc = "stamp", ![c].new.pos = m + 1]
    /\ UNCHANGED <<tables, clock, seen>>

\* i.UpdatedAt = time.Now().UTC(), in UpdateIssue and CreateIssue.
Stamp(c) ==
    /\ At(c, "stamp")
    /\ clock <= MaxClock
    /\ clock' = clock + 1
    /\ req' = [req EXCEPT ![c].pc = IF req[c].op = "create" THEN "insert" ELSE "write",
                          ![c].new.etag = clock]
    /\ UNCHANGED <<tables, seen>>

\* UpdateIssue: UPDATE issues SET <every column> WHERE id = ?.
UpdateIssue(c) ==
    LET i == req[c].iss IN
    /\ At(c, "write")
    /\ IF RowAffected(i) /\ ForeignKeysHold(req[c].new)
       THEN /\ issue' = [issue EXCEPT ![i] = Written(@, req[c].new)]
            /\ Goto(c, IF req[c].op = "put" THEN "reread" ELSE "record")
       ELSE Finish(c) /\ UNCHANGED issue
    /\ UNCHANGED <<project, label, release, user, history, clock, seen>>

\* CreateIssue: INSERT INTO issues.
InsertIssue(c) ==
    /\ At(c, "insert")
    /\ IF ForeignKeysHold(req[c].new)
       THEN \E i \in Issues :
              /\ issue[i].project = Free
              /\ issue' = [issue EXCEPT ![i] = req[c].new]
              /\ req' = [req EXCEPT ![c].pc = "record", ![c].iss = i]
       ELSE Finish(c) /\ UNCHANGED issue
    /\ UNCHANGED <<project, label, release, user, history, clock, seen>>

\* DeleteIssue: DELETE FROM issues WHERE id = ?; issue_history cascades.
DeleteIssueRow(c) ==
    LET i == req[c].iss IN
    /\ At(c, "delete")
    /\ issue' = IF Live(i) THEN [issue EXCEPT ![i] = [NoRow EXCEPT !.project = Gone]]
                           ELSE issue
    /\ history' = {h \in history : h.iss # i}
    /\ Finish(c)
    /\ UNCHANGED <<project, label, release, user, clock, seen>>

\* recordIssueEditHistory: the row is read again, by id, and compared with the
\* row read first.  When it is gone, respondWithUpdatedIssue reads it once more.
RereadIssue(c) ==
    LET i == req[c].iss IN
    /\ At(c, "reread")
    /\ IF Live(i)
       THEN /\ Receive(c, i, issue[i])
            /\ IF Edited(req[c].cur, issue[i]) THEN Goto(c, "record") ELSE Finish(c)
       ELSE Goto(c, "respond") /\ UNCHANGED seen
    /\ UNCHANGED <<tables, clock>>

Event(op) ==
    CASE op = "put" -> "updated"
      [] op = "create" -> "created"
      [] op = "archive" -> "archived"
      [] op = "unarchive" -> "unarchived"
      [] op = "move" -> "moved"

\* recordHistory is best-effort: an INSERT that fails is logged and ignored, and
\* it does fail when the issue is gone.  handleMoveIssue answers with the row it
\* wrote, without reading it again.
RecordHistory(c) ==
    LET i == req[c].iss
        op == req[c].op
    IN
    /\ At(c, "record")
    /\ \/ Live(i) /\ history' = history \cup {Entry(i, Event(op))}
       \/ UNCHANGED history
    /\ IF op \in {"archive", "unarchive"} THEN Goto(c, "respond") ELSE Finish(c)
    /\ IF op = "move" THEN Receive(c, i, req[c].new) ELSE UNCHANGED seen
    /\ UNCHANGED <<project, label, release, user, issue, clock>>

\* respondWithUpdatedIssue: respondWithIssue dereferences the row it is given.
RespondWithUpdatedIssue(c) ==
    LET i == req[c].iss IN
    /\ At(c, "respond")
    /\ IF Live(i)
       THEN Receive(c, i, issue[i]) /\ Finish(c)
       ELSE Goto(c, "panic") /\ UNCHANGED seen
    /\ UNCHANGED <<tables, clock>>

\* net/http recovers the panic of a handler and closes the connection.
RecoverPanic(c) ==
    /\ At(c, "panic")
    /\ Finish(c)
    /\ UNCHANGED <<tables, clock, seen>>

\* Any statement may fail (the client hung up, TimeoutMiddleware cancelled the
\* context, the database stayed locked, a wrong admin password): the handler
\* answers with an error and keeps what it already wrote.
Abort(c) ==
    /\ req[c].pc \notin {"idle", "panic"}
    /\ Finish(c)
    /\ UNCHANGED <<tables, clock, seen>>

-----------------------------------------------------------------------------
(* Reordering: handlePutIssuePositions, one transaction.                   *)

\* UpdateIssuePositions: all the positions, or none (rollback).
UpdateIssuePositions(c, p, S, f) ==
    /\ May(c, "positions")
    /\ S # {}
    /\ \A i \in S : issue[i].project = p /\ issue[i].status # "Archive"
    /\ issue' = [i \in Issues |-> IF i \in S THEN [issue[i] EXCEPT !.pos = f[i]] ELSE issue[i]]
    /\ UNCHANGED <<project, label, release, user, history, clock, req, seen>>

-----------------------------------------------------------------------------
(* Labels, releases, projects, users.  Labels and releases never change    *)
(* their project, so a handler that checks the project and then runs one   *)
(* guarded statement is one action.                                        *)

\* handleCreateLabel
CreateLabel(l, p) ==
    /\ "label" \in Ops
    /\ label[l] = Free /\ project[p] = "live"
    /\ label' = [label EXCEPT ![l] = p]
    /\ UNCHANGED <<project, release, user, issue, history, clock, req, seen>>

\* handleDeleteLabel
DeleteLabel(l) ==
    /\ "label" \in Ops
    /\ label[l] \in Projects
    /\ label' = [label EXCEPT ![l] = Gone]
    /\ issue' = DropReferences({l}, {})
    /\ UNCHANGED <<project, release, user, history, clock, req, seen>>

\* UNIQUE(project_id, name)
NameTaken(r, p, n) ==
    \E s \in Releases \ {r} : release[s].project = p /\ release[s].name = n

\* handleCreateRelease
CreateRelease(r, p, n) ==
    /\ "release" \in Ops
    /\ release[r].project = Free /\ project[p] = "live"
    /\ ~NameTaken(r, p, n)
    /\ release' = [release EXCEPT ![r] = [project |-> p, name |-> n, status |-> "open"]]
    /\ UNCHANGED <<project, label, user, issue, history, clock, req, seen>>

\* handleDeleteRelease
DeleteRelease(r) ==
    /\ "release" \in Ops
    /\ release[r].project \in Projects
    /\ release' = [release EXCEPT ![r] = [NoRelease EXCEPT !.project = Gone]]
    /\ issue' = DropReferences({}, {r})
    /\ UNCHANGED <<project, label, user, history, clock, req, seen>>

\* ReopenRelease: UPDATE ... WHERE id = ? AND status = 'closed'.
ReopenRelease(r) ==
    /\ "release" \in Ops
    /\ release[r].project \in Projects
    /\ release[r].status = "closed"
    /\ release' = [release EXCEPT ![r].status = "open"]
    /\ UNCHANGED <<project, label, user, issue, history, clock, req, seen>>

\* handlePutRelease: the release is read and must not be closed.
PutRelease(c, r, n) ==
    /\ May(c, "putRelease")
    /\ release[r].project \in Projects
    /\ release[r].status # "closed"
    /\ Start(c, [Idle EXCEPT
                  !.op = "putRelease", !.pc = "updateRelease", !.rel = r, !.name = n])
    /\ UNCHANGED <<tables, clock>>

\* UpdateRelease: UPDATE ... WHERE id = ?.
UpdateRelease(c) ==
    LET r == req[c].rel IN
    /\ At(c, "updateRelease")
    /\ release' =
         IF release[r].project \in Projects /\ ~NameTaken(r, release[r].project, req[c].name)
         THEN [release EXCEPT ![r].name = req[c].name]
         ELSE release
    /\ Finish(c)
    /\ UNCHANGED <<project, label, user, issue, history, clock, seen>>

\* TriggerRelease, first statement: UPDATE ... WHERE id = ? AND status = 'open'.
TriggerRelease(c, r, archiveDone) ==
    /\ May(c, "triggerRelease")
    /\ clock <= MaxClock
    /\ release[r].project \in Projects
    /\ release[r].status = "open"
    /\ release' = [release EXCEPT ![r].status = "closed"]
    /\ clock' = clock + 1
    /\ Start(c, IF archiveDone
                THEN [Idle EXCEPT !.op = "triggerRelease", !.pc = "archiveDone",
                                  !.rel = r, !.new.etag = clock]
                ELSE Idle)
    /\ UNCHANGED <<project, label, user, issue, history>>

\* TriggerRelease, second statement: the Done issues of the release are archived.
ArchiveDoneIssues(c) ==
    LET r == req[c].rel IN
    /\ At(c, "archiveDone")
    /\ issue' = [i \in Issues |->
                   IF Live(i) /\ issue[i].release = r /\ issue[i].status = "Done"
                   THEN ArchivedByRelease(issue[i], req[c].new.etag)
                   ELSE issue[i]]
    /\ Finish(c)
    /\ UNCHANGED <<project, label, release, user, history, clock, seen>>

\* handleCreateProject
CreateProject(p) ==
    /\ "project" \in Ops
    /\ project[p] = "free"
    /\ project' = [project EXCEPT ![p] = "live"]
    /\ UNCHANGED <<label, release, user, issue, history, clock, req, seen>>

\* handleDeleteProject: not project 1, and CountIssuesByProject must be 0.
DeleteProject(c, p) ==
    /\ May(c, "deleteProject")
    /\ p # DefaultProject
    /\ \A i \in Issues : issue[i].project # p
    /\ Start(c, [Idle EXCEPT
                  !.op = "deleteProject", !.pc = "deleteProject", !.prj = p])
    /\ UNCHANGED <<tables, clock>>

\* DeleteProject: the foreign key of issues restricts, those of labels and
\* releases cascade, and theirs set the references of issues to NULL.
DeleteProjectRow(c) ==
    LET p == req[c].prj
        ls == {l \in Labels : label[l] = p}
        rs == {r \in Releases : release[r].project = p}
    IN
    /\ At(c, "deleteProject")
    /\ IF project[p] = "live" /\ \A i \in Issues : issue[i].project # p
       THEN /\ project' = [project EXCEPT ![p] = "gone"]
            /\ label' = [l \in Labels |-> IF l \in ls THEN Gone ELSE label[l]]
            /\ release' = [r \in Releases |->
                             IF r \in rs THEN [NoRelease EXCEPT !.project = Gone] ELSE release[r]]
            /\ issue' = DropReferences(ls, rs)
       ELSE UNCHANGED <<project, label, release, issue>>
    /\ Finish(c)
    /\ UNCHANGED <<user, history, clock, seen>>

\* UpdateUser, as far as assignees are concerned: the active flag.
SetUserActive(u, state) ==
    /\ "user" \in Ops
    /\ user[u] # "gone"
    /\ user' = [user EXCEPT ![u] = state]
    /\ UNCHANGED <<project, label, release, issue, history, clock, req, seen>>

\* DeleteUser: one transaction; the unassigned issues get a new time stamp.
DeleteUser(u) ==
    LET assigned == {i \in Issues : Live(i) /\ issue[i].assignee = u} IN
    /\ "user" \in Ops
    /\ clock <= MaxClock
    /\ user[u] # "gone"
    /\ user' = [user EXCEPT ![u] = "gone"]
    /\ issue' = [i \in Issues |->
                   IF i \in assigned THEN Unassigned(issue[i], clock) ELSE issue[i]]
    /\ history' = history \cup {Entry(i, "updated") : i \in assigned}
    /\ clock' = clock + 1
    /\ UNCHANGED <<project, label, release, req, seen>>

-----------------------------------------------------------------------------
\* createTables on an empty database.
Init ==
    /\ project = [p \in Projects |-> IF p = DefaultProject THEN "live" ELSE "free"]
    /\ label = [l \in Labels |-> Free]
    /\ release = [r \in Releases |-> NoRelease]
    /\ user = [u \in Users |-> "active"]
    /\ issue = [i \in Issues |-> NoRow]
    /\ history = {}
    /\ clock = 1
    /\ req = [c \in Clients |-> Idle]
    /\ seen = [c \in Clients |-> NoView]

\* A client sends the ETag it was given, or none (a drag of a card).
Arrive(c) ==
    \/ \E i \in Issues :
         \/ GetIssue(c, i)
         \/ \E b \in Bodies :
              \/ PutIssue(c, i, b, NoETag)
              \/ seen[c].iss = i /\ PutIssue(c, i, b, seen[c].row.etag)
         \/ \E op \in {"archive", "unarchive"} : ToggleArchive(c, i, op)
         \/ \E q \in Projects : MoveIssue(c, i, q)
         \/ DeleteIssue(c, i)
    \/ \E p \in Projects :
         \/ \E b \in Bodies : CreateIssue(c, p, b)
         \/ \E S \in SUBSET Issues : \E f \in [S -> 0 .. MaxPos] : UpdateIssuePositions(c, p, S, f)
         \/ DeleteProject(c, p)
    \/ \E r \in Releases :
         \/ \E n \in Names : PutRelease(c, r, n)
         \/ \E a \in BOOLEAN : TriggerRelease(c, r, a)

Proceed(c) ==
    \/ CheckAssignee(c) \/ CheckLabel(c) \/ CheckRelease(c)
    \/ UpdateIssuePosition(c) \/ CheckTargetProject(c) \/ SelectMaxPosition(c)
    \/ Stamp(c) \/ UpdateIssue(c) \/ InsertIssue(c) \/ DeleteIssueRow(c)
    \/ RereadIssue(c) \/ RecordHistory(c) \/ RespondWithUpdatedIssue(c)
    \/ RecoverPanic(c) \/ UpdateRelease(c) \/ ArchiveDoneIssues(c) \/ DeleteProjectRow(c)

Administer ==
    \/ \E l \in Labels : DeleteLabel(l) \/ \E p \in Projects : CreateLabel(l, p)
    \/ \E r \in Releases :
         \/ DeleteRelease(r)
         \/ ReopenRelease(r)
         \/ \E p \in Projects, n \in Names : CreateRelease(r, p, n)
    \/ \E p \in Projects : CreateProject(p)
    \/ \E u \in Users :
         \/ \E s \in {"active", "inactive"} : SetUserActive(u, s)
         \/ DeleteUser(u)

Next ==
    \/ \E c \in Clients : Arrive(c) \/ Proceed(c) \/ Abort(c)
    \/ Administer

Spec == Init /\ [][Next]_vars

-----------------------------------------------------------------------------
(* Properties.                                                             *)

\* A label of an issue is a label of the issue's own project, and likewise its
\* release; its project and its assignee exist; an audit entry belongs to an
\* issue that exists.  SQLite guards existence only.  That the projects agree
\* rests on checkLabel and checkRelease, whose answers may be stale by the time
\* UpdateIssue runs: a move, a deletion or a project change may come in between.
ReferencesHold ==
    /\ \A i \in Issues : Live(i) =>
         /\ project[issue[i].project] = "live"
         /\ issue[i].label # Null => label[issue[i].label] = issue[i].project
         /\ issue[i].release # Null => release[issue[i].release].project = issue[i].project
         /\ issue[i].assignee # Null => user[issue[i].assignee] # "gone"
    /\ \A h \in history : Live(h.iss)

\* now is the version old, but for its position and for references that the
\* deletion of a label or a release has set to NULL.
SameVersion(old, now) ==
    /\ \A f \in {"project", "status", "assignee", "text"} : now[f] = old[f]
    /\ \/ now.label = old.label
       \/ now.label = Null /\ label[old.label] = Gone
    /\ \/ now.release = old.release
       \/ now.release = Null /\ release[old.release].project = Gone

\* The copy row of issue i is what i holds, if i still carries the ETag of the copy.
CopyHolds(i, row) ==
    Live(i) /\ issue[i].etag = row.etag => SameVersion(row, issue[i])

\* An ETag names one version: as long as an issue carries the ETag that a client
\* was sent, or that a handler read or wrote, it holds the content that came with
\* it.  This is what makes comparing If-Match with updated_at meaningful
\* (formatETag, checkIfMatchConflict), for time stamps taken before the write.
ETagNamesVersion ==
    \A c \in Clients, i \in Issues :
      /\ seen[c].iss = i => CopyHolds(i, seen[c].row)
      /\ req[c].iss = i /\ req[c].op = "put" => CopyHolds(i, req[c].cur)
      /\ req[c].iss = i /\ req[c].pc \in {"reread", "record", "respond"}
           => CopyHolds(i, req[c].new)

\* An id that was deleted stays deleted: a handler that read the row before the
\* deletion and writes after it changes nothing (checkRowsAffected), and no
\* AUTOINCREMENT id is handed out twice.
StayDeleted ==
    /\ \A i \in Issues : issue[i].project = Gone => issue'[i].project = Gone
    /\ \A l \in Labels : label[l] = Gone => label'[l] = Gone
    /\ \A r \in Releases : release[r].project = Gone => release'[r].project = Gone
    /\ \A p \in Projects : project[p] = "gone" => project'[p] = "gone"
DeletedStaysDeleted == [][StayDeleted]_vars

\* Why ReferencesHold is inductive.  The answer of checkLabel stays good in the only
\* way that matters: a label that was of project p is of project p or deleted.
LabelFits(row) == row.label # Null => label[row.label] \in {row.project, Gone}
ReleaseFits(row) == row.release # Null => release[row.release].project \in {row.project, Gone}

WriteOps == {"create", "put", "archive", "unarchive", "move"}

\* What holds of a request in flight: which handler can be at which statement,
\* that the ids the statement needs are there, and that the row about to be written
\* has passed the checks of the statements already run.
RequestOK(r) ==
    /\ r.pc \in {"assignee", "label", "release"} => r.op \in {"create", "put"}
    /\ r.pc \in {"maxpos", "insert"} => r.op = "create"
    /\ r.pc \in {"position", "reread"} => r.op = "put"
    /\ r.pc = "project" => r.op = "move"
    /\ r.pc = "write" => r.op \in WriteOps \ {"create"}
    /\ r.pc \in {"stamp", "record"} => r.op \in WriteOps
    /\ r.pc \in {"delete", "respond"} => r.op \in IssueOps \ {"create"}
    /\ r.pc \in {"updateRelease", "archiveDone"} => r.rel \in Releases
    /\ r.op \in IssueOps \ {"create"} => r.iss \in Issues
    /\ r.op = "create" /\ r.pc = "record" => r.iss \in Issues
    /\ r.op \in WriteOps => r.new.project \in Projects
    /\ r.op \in WriteOps /\ r.pc \notin {"assignee", "label"} => LabelFits(r.new)
    /\ r.op \in WriteOps /\ r.pc \notin {"assignee", "label", "release"} => ReleaseFits(r.new)

ReferencesInductive ==
    /\ TypeOK
    /\ ReferencesHold
    /\ \A c \in Clients : RequestOK(req[c])

\* Why ETagNamesVersion is inductive: every time stamp in use is in the past, and a
\* stamp that a handler has taken and not yet written is nowhere else.
StampsInPast ==
    /\ \A i \in Issues : issue[i].etag < clock /\ (Live(i) => issue[i].etag > NoETag)
    /\ \A c \in Clients :
         /\ seen[c].row.etag < clock
         /\ req[c].cur.etag < clock
         /\ req[c].new.etag < clock

StampPending(c) == req[c].pc \in {"write", "insert", "archiveDone"}

PendingStampsFresh ==
    \A c \in Clients : StampPending(c) =>
      LET e == req[c].new.etag IN
      /\ e > NoETag
      /\ \A i \in Issues : issue[i].etag # e
      /\ \A d \in Clients : /\ seen[d].row.etag # e
                            /\ req[d].cur.etag # e
                            /\ d # c => req[d].new.etag # e

\* A PUT carries no stamp before it takes one.
UnstampedSoFar ==
    \A c \in Clients :
      req[c].pc \in {"assignee", "label", "release", "position"} => req[c].new.etag = NoETag

ETagInductive ==
    /\ StampsInPast
    /\ PendingStampsFresh
    /\ UnstampedSoFar
    /\ ETagNamesVersion

\* docs/concurrency-control.md:10: the server rejects an update whose If-Match is
\* not the current ETag.  Here: when UpdateIssue runs for a PUT that carried one,
\* the row still has that ETag.
IfMatchHoldsAtWrite ==
    [][\A c \in Clients :
         /\ req[c].op = "put" /\ req[c].ifMatch # NoETag
         /\ req[c].pc = "write" /\ req'[c].pc = "reread"
         => issue[req[c].iss].etag = req[c].ifMatch]_vars

=============================================================================

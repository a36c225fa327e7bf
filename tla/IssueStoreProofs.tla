-------------------------- MODULE IssueStoreProofs --------------------------
(* Proofs about IssueStore, for every set of clients, rows and statuses.   *)
EXTENDS IssueStore, TLAPS

LEMMA DefaultsOK ==
    /\ NoRow \in Rows
    /\ NoRelease \in ReleaseRows
    /\ NoView \in Views
    /\ Idle \in Requests
    /\ RequestOK(Idle)
<1>1. (CHOOSE t \in Texts : TRUE) \in Texts /\ (CHOOSE n \in Names : TRUE) \in Names
  BY DataAssumption
<1>2. NoRow \in Rows
  BY <1>1, DataAssumption DEF NoRow, Rows, Owner, NoETag
<1>3. NoRelease \in ReleaseRows
  BY <1>1 DEF NoRelease, ReleaseRows, Owner
<1>4. NoView \in Views
  BY <1>2 DEF NoView, Views
<1>5. Idle \in Requests
  BY <1>1, <1>2, IdAssumption, DataAssumption DEF Idle, Requests, Steps, NoETag
<1>6. RequestOK(Idle)
  BY DEF Idle, RequestOK, WriteOps, IssueOps
<1> QED
  BY <1>2, <1>3, <1>4, <1>5, <1>6

\* A step that changes no table and replaces one request by one that is in order.
LEMMA RequestStep ==
    ASSUME ReferencesInductive, NEW c \in Clients, NEW r \in Requests, RequestOK(r),
           req' = [req EXCEPT ![c] = r], UNCHANGED tables,
           clock' \in 1 .. MaxClock + 1, seen' \in [Clients -> Views]
    PROVE  ReferencesInductive'
<1>1. TypeOK'
  BY DEF ReferencesInductive, TypeOK, tables
<1>2. ReferencesHold'
  BY DEF ReferencesInductive, ReferencesHold, Live, tables
<1>3. ASSUME NEW d \in Clients PROVE RequestOK(req[d])'
  <2>1. req[d]' = IF d = c THEN r ELSE req[d]
    BY DEF ReferencesInductive, TypeOK
  <2>2. RequestOK(req[d])
    BY DEF ReferencesInductive
  <2> QED
    BY <2>1, <2>2 DEF RequestOK, LabelFits, ReleaseFits, tables
<1> QED
  BY <1>1, <1>2, <1>3 DEF ReferencesInductive

\* The tables' rows that a request may copy are in order.
LEMMA RowsOK ==
    ASSUME ReferencesInductive, NEW i \in Issues
    PROVE  /\ issue[i] \in Rows
           /\ Live(i) => LabelFits(issue[i]) /\ ReleaseFits(issue[i])
BY DEF ReferencesInductive, TypeOK, ReferencesHold, Live, LabelFits, ReleaseFits

\* Start and Receive, as far as types go.
LEMMA SeenOK ==
    ASSUME ReferencesInductive, NEW c \in Clients, NEW i \in Issues, NEW row \in Rows
    PROVE  /\ [seen EXCEPT ![c] = NoView] \in [Clients -> Views]
           /\ [seen EXCEPT ![c] = [iss |-> i, row |-> row]] \in [Clients -> Views]
BY DefaultsOK DEF ReferencesInductive, TypeOK, Views

LEMMA FinishOK ==
    ASSUME ReferencesInductive, NEW c \in Clients, Finish(c),
           UNCHANGED <<tables, clock>>, seen' \in [Clients -> Views]
    PROVE  ReferencesInductive'
BY DefaultsOK, RequestStep DEF Finish, ReferencesInductive, TypeOK

LEMMA GotoOK ==
    ASSUME ReferencesInductive, NEW c \in Clients, NEW step \in Steps,
           RequestOK([req[c] EXCEPT !.pc = step]), Goto(c, step),
           UNCHANGED <<tables, clock>>, seen' \in [Clients -> Views]
    PROVE  ReferencesInductive'
<1> DEFINE r == [req[c] EXCEPT !.pc = step]
<1>1. r \in Requests /\ req' = [req EXCEPT ![c] = r]
  BY DEF ReferencesInductive, TypeOK, Requests, Goto
<1> QED
  BY <1>1, RequestStep DEF ReferencesInductive, TypeOK

LEMMA StartOK ==
    ASSUME ReferencesInductive, NEW c \in Clients, NEW r \in Requests, RequestOK(r),
           Start(c, r), UNCHANGED <<tables, clock>>
    PROVE  ReferencesInductive'
<1>1. seen' \in [Clients -> Views] /\ clock' \in 1 .. MaxClock + 1
  BY DefaultsOK DEF Start, ReferencesInductive, TypeOK
<1> QED
  BY <1>1, RequestStep DEF Start

-----------------------------------------------------------------------------
(* The first statements of the handlers.                                   *)

LEMMA GetIssueOK ==
    ASSUME ReferencesInductive, NEW c \in Clients, NEW i \in Issues, GetIssue(c, i)
    PROVE  ReferencesInductive'
<1>1. seen' \in [Clients -> Views]
  BY SeenOK, RowsOK DEF GetIssue, Receive, ReferencesInductive, TypeOK
<1>2. TypeOK'
  BY <1>1 DEF ReferencesInductive, TypeOK, GetIssue, tables
<1> QED
  BY <1>2 DEF ReferencesInductive, ReferencesHold, RequestOK, LabelFits, ReleaseFits, Live,
     GetIssue, tables

LEMMA PutIssueOK ==
    ASSUME ReferencesInductive, NEW c \in Clients, NEW i \in Issues, NEW body \in Bodies,
           NEW ifMatch \in 0 .. MaxClock, PutIssue(c, i, body, ifMatch)
    PROVE  ReferencesInductive'
<1> DEFINE new == [project |-> issue[i].project, status |-> body.status,
                   label |-> body.label, release |-> body.release,
                   assignee |-> body.assignee, text |-> body.text,
                   pos |-> body.pos, etag |-> NoETag]
           r == [Idle EXCEPT !.op = "put", !.pc = "assignee", !.iss = i,
                             !.ifMatch = ifMatch, !.cur = issue[i], !.new = new]
<1>1. new \in Rows
  BY RowsOK, DataAssumption DEF Bodies, Rows, NoETag
<1>2. r \in Requests
  BY <1>1, RowsOK, DefaultsOK DEF Requests, IssueOps, Steps
<1>3. /\ r.op = "put" /\ r.pc = "assignee" /\ r.iss = i /\ r.new = new
      /\ new.project \in Projects
  BY DEF Idle, PutIssue, Live
<1>4. RequestOK(r)
  BY <1>3 DEF RequestOK, WriteOps, IssueOps
<1> QED
  BY <1>2, <1>4, StartOK DEF PutIssue

LEMMA CreateIssueOK ==
    ASSUME ReferencesInductive, NEW c \in Clients, NEW p \in Projects, NEW body \in Bodies,
           CreateIssue(c, p, body)
    PROVE  ReferencesInductive'
<1> DEFINE new == [project |-> p, status |-> body.status,
                   label |-> body.label, release |-> body.release,
                   assignee |-> body.assignee, text |-> body.text,
                   pos |-> 0, etag |-> NoETag]
           r == [Idle EXCEPT !.op = "create", !.pc = "assignee", !.new = new]
<1>1. new \in Rows
  BY DataAssumption DEF Bodies, Rows, NoETag, Owner
<1>2. r \in Requests
  BY <1>1, DefaultsOK DEF Requests, IssueOps, Steps
<1>3. r.op = "create" /\ r.pc = "assignee" /\ r.new = new /\ new.project \in Projects
  BY DEF Idle
<1>4. RequestOK(r)
  BY <1>3 DEF RequestOK, WriteOps, IssueOps
<1> QED
  BY <1>2, <1>4, StartOK DEF CreateIssue

LEMMA ToggleArchiveOK ==
    ASSUME ReferencesInductive, NEW c \in Clients, NEW i \in Issues,
           NEW op \in {"archive", "unarchive"}, ToggleArchive(c, i, op)
    PROVE  ReferencesInductive'
<1> DEFINE new == [issue[i] EXCEPT !.status = ToggledStatus(op)]
           r == [Idle EXCEPT !.op = op, !.pc = "stamp", !.iss = i, !.new = new]
<1>1. new \in Rows /\ new.project = issue[i].project
      /\ new.label = issue[i].label /\ new.release = issue[i].release
  BY RowsOK, DataAssumption DEF Rows, ToggledStatus
<1>2. r \in Requests
  BY <1>1, DefaultsOK DEF Requests, IssueOps, Steps
<1>3. r.op = op /\ r.pc = "stamp" /\ r.iss = i /\ r.new = new
  BY DEF Idle
<1>4. new.project \in Projects /\ LabelFits(new) /\ ReleaseFits(new)
  BY <1>1, RowsOK DEF ToggleArchive, Live, LabelFits, ReleaseFits
<1>5. RequestOK(r)
  BY <1>3, <1>4 DEF RequestOK, WriteOps, IssueOps
<1> QED
  BY <1>2, <1>5, StartOK DEF ToggleArchive

LEMMA MoveIssueOK ==
    ASSUME ReferencesInductive, NEW c \in Clients, NEW i \in Issues, NEW q \in Projects,
           MoveIssue(c, i, q)
    PROVE  ReferencesInductive'
<1> DEFINE r == [Idle EXCEPT !.op = "move", !.pc = "project", !.iss = i, !.prj = q,
                             !.new = issue[i]]
<1>1. r \in Requests
  BY RowsOK, DefaultsOK DEF Requests, IssueOps, Steps
<1>2. r.op = "move" /\ r.pc = "project" /\ r.iss = i /\ r.new = issue[i]
  BY DEF Idle
<1>3. issue[i].project \in Projects /\ LabelFits(issue[i]) /\ ReleaseFits(issue[i])
  BY RowsOK DEF MoveIssue, Live
<1>4. RequestOK(r)
  BY <1>2, <1>3 DEF RequestOK, WriteOps, IssueOps
<1> QED
  BY <1>1, <1>4, StartOK DEF MoveIssue

LEMMA DeleteIssueOK ==
    ASSUME ReferencesInductive, NEW c \in Clients, NEW i \in Issues, DeleteIssue(c, i)
    PROVE  ReferencesInductive'
<1> DEFINE r == [Idle EXCEPT !.op = "delete", !.pc = "delete", !.iss = i]
<1>1. r \in Requests
  BY DefaultsOK DEF Requests, IssueOps, Steps
<1>2. r.op = "delete" /\ r.pc = "delete" /\ r.iss = i
  BY DEF Idle
<1>3. RequestOK(r)
  BY <1>2 DEF RequestOK, WriteOps, IssueOps
<1> QED
  BY <1>1, <1>3, StartOK DEF DeleteIssue

LEMMA PutReleaseOK ==
    ASSUME ReferencesInductive, NEW c \in Clients, NEW r \in Releases, NEW n \in Names,
           PutRelease(c, r, n)
    PROVE  ReferencesInductive'
<1> DEFINE q == [Idle EXCEPT !.op = "putRelease", !.pc = "updateRelease", !.rel = r, !.name = n]
<1>1. q \in Requests
  BY DefaultsOK DEF Requests, OtherOps, Steps
<1>2. q.op = "putRelease" /\ q.pc = "updateRelease" /\ q.rel = r
  BY DEF Idle
<1>3. RequestOK(q)
  BY <1>2 DEF RequestOK, WriteOps, IssueOps
<1> QED
  BY <1>1, <1>3, StartOK DEF PutRelease

LEMMA DeleteProjectOK ==
    ASSUME ReferencesInductive, NEW c \in Clients, NEW p \in Projects, DeleteProject(c, p)
    PROVE  ReferencesInductive'
<1> DEFINE q == [Idle EXCEPT !.op = "deleteProject", !.pc = "deleteProject", !.prj = p]
<1>1. q \in Requests
  BY DefaultsOK DEF Requests, OtherOps, Steps
<1>2. q.op = "deleteProject" /\ q.pc = "deleteProject"
  BY DEF Idle
<1>3. RequestOK(q)
  BY <1>2 DEF RequestOK, WriteOps, IssueOps
<1> QED
  BY <1>1, <1>3, StartOK DEF DeleteProject

-----------------------------------------------------------------------------
(* The later statements: those that only read.                             *)

\* What GotoOK asks of a request that moves on, in terms of the request.
LEMMA NextStepOK ==
    ASSUME ReferencesInductive, NEW c \in Clients, NEW step \in Steps
    PROVE  LET r == [req[c] EXCEPT !.pc = step] IN
           /\ req[c] \in Requests /\ RequestOK(req[c])
           /\ r.pc = step /\ r.op = req[c].op /\ r.iss = req[c].iss
           /\ r.rel = req[c].rel /\ r.new = req[c].new
BY DEF ReferencesInductive, TypeOK, Requests

LEMMA CheckAssigneeOK ==
    ASSUME ReferencesInductive, NEW c \in Clients, CheckAssignee(c)
    PROVE  ReferencesInductive'
<1>1. CASE Finish(c)
  BY <1>1, FinishOK DEF CheckAssignee, ReferencesInductive, TypeOK
<1>2. CASE Goto(c, "label")
  <2>1. "label" \in Steps
    BY DEF Steps
  <2>2. RequestOK([req[c] EXCEPT !.pc = "label"])
    BY <2>1, NextStepOK DEF CheckAssignee, At, RequestOK, WriteOps, IssueOps
  <2> QED
    BY <1>2, <2>1, <2>2, GotoOK DEF CheckAssignee, ReferencesInductive, TypeOK
<1> QED
  BY <1>1, <1>2 DEF CheckAssignee

LEMMA CheckLabelOK ==
    ASSUME ReferencesInductive, NEW c \in Clients, CheckLabel(c)
    PROVE  ReferencesInductive'
<1>1. CASE Finish(c)
  BY <1>1, FinishOK DEF CheckLabel, ReferencesInductive, TypeOK
<1>2. CASE Goto(c, "release") /\ LabelFits(req[c].new)
  <2>1. "release" \in Steps
    BY DEF Steps
  <2>2. RequestOK([req[c] EXCEPT !.pc = "release"])
    BY <1>2, <2>1, NextStepOK DEF CheckLabel, At, RequestOK, WriteOps, IssueOps
  <2> QED
    BY <1>2, <2>1, <2>2, GotoOK DEF CheckLabel, ReferencesInductive, TypeOK
<1> QED
  BY <1>1, <1>2 DEF CheckLabel, LabelFits

LEMMA CheckReleaseOK ==
    ASSUME ReferencesInductive, NEW c \in Clients, CheckRelease(c)
    PROVE  ReferencesInductive'
<1> DEFINE step == AfterChecks(req[c])
<1>1. CASE Finish(c)
  BY <1>1, FinishOK DEF CheckRelease, ReferencesInductive, TypeOK
<1>2. CASE Goto(c, step) /\ step # "idle" /\ ReleaseFits(req[c].new)
  <2>1. req[c].pc = "release" /\ req[c].op \in {"create", "put"}
    BY DEF CheckRelease, At, ReferencesInductive, RequestOK
  <2>2. \/ req[c].op = "create" /\ step = "maxpos"
        \/ req[c].op = "put" /\ step \in {"stamp", "position", "reread"}
    BY <1>2, <2>1 DEF AfterChecks
  <2>3. step \in Steps
    BY <2>2 DEF Steps
  <2> HIDE DEF step
  <2>4. RequestOK([req[c] EXCEPT !.pc = step])
    BY <1>2, <2>1, <2>2, <2>3, NextStepOK DEF RequestOK, WriteOps, IssueOps
  <2> QED
    BY <1>2, <2>3, <2>4, GotoOK DEF CheckRelease, ReferencesInductive, TypeOK
<1> QED
  BY <1>1, <1>2 DEF CheckRelease, ReleaseFits

LEMMA CheckTargetProjectOK ==
    ASSUME ReferencesInductive, NEW c \in Clients, CheckTargetProject(c)
    PROVE  ReferencesInductive'
<1>1. CASE Finish(c)
  BY <1>1, FinishOK DEF CheckTargetProject, ReferencesInductive, TypeOK
<1>2. CASE ~Finish(c)
  <2> DEFINE new == Moved(req[c].new, req[c].prj)
             r == [req[c] EXCEPT !.pc = "stamp", !.new = new]
  <2>1. req[c] \in Requests /\ RequestOK(req[c]) /\ req[c].pc = "project"
    BY DEF ReferencesInductive, TypeOK, CheckTargetProject, At
  <2>2. /\ new \in Rows /\ new.project \in Projects
        /\ new.label = Null /\ new.release = Null
    BY <2>1, DataAssumption DEF Moved, Rows, Owner, Requests
  <2>3. r \in Requests /\ r.op = req[c].op /\ r.pc = "stamp" /\ r.iss = req[c].iss /\ r.new = new
    BY <2>1, <2>2 DEF Requests, Steps
  <2>4. req' = [req EXCEPT ![c] = r]
    BY <1>2 DEF CheckTargetProject, ReferencesInductive, TypeOK, Requests
  <2> HIDE DEF new, r
  <2>5. RequestOK(r)
    BY <2>1, <2>2, <2>3 DEF RequestOK, WriteOps, IssueOps, LabelFits, ReleaseFits
  <2> QED
    BY <2>3, <2>4, <2>5, RequestStep DEF CheckTargetProject, ReferencesInductive, TypeOK
<1> QED
  BY <1>1, <1>2

LEMMA SelectMaxPositionOK ==
    ASSUME ReferencesInductive, NEW c \in Clients, SelectMaxPosition(c)
    PROVE  ReferencesInductive'
<1>1. PICK m \in 0 .. MaxPos - 1 :
        req' = [req EXCEPT ![c].pc = "stamp", ![c].new.pos = m + 1]
  BY DEF SelectMaxPosition
<1> DEFINE new == [req[c].new EXCEPT !.pos = m + 1]
           r == [req[c] EXCEPT !.pc = "stamp", !.new = new]
<1>2. req[c] \in Requests /\ RequestOK(req[c]) /\ req[c].pc = "maxpos"
  BY DEF ReferencesInductive, TypeOK, SelectMaxPosition, At
<1>3. /\ new \in Rows /\ new.project = req[c].new.project
      /\ new.label = req[c].new.label /\ new.release = req[c].new.release
  BY <1>2, DataAssumption DEF Rows, Requests
<1>4. r \in Requests /\ r.op = req[c].op /\ r.pc = "stamp" /\ r.iss = req[c].iss /\ r.new = new
  BY <1>2, <1>3 DEF Requests, Steps
<1>5. req' = [req EXCEPT ![c] = r]
  BY <1>1 DEF ReferencesInductive, TypeOK, Requests
<1> HIDE DEF new, r
<1>6. RequestOK(r)
  BY <1>2, <1>3, <1>4 DEF RequestOK, WriteOps, IssueOps, LabelFits, ReleaseFits
<1> QED
  BY <1>4, <1>5, <1>6, RequestStep DEF SelectMaxPosition, ReferencesInductive, TypeOK

LEMMA StampOK ==
    ASSUME ReferencesInductive, NEW c \in Clients, Stamp(c)
    PROVE  ReferencesInductive'
<1> DEFINE step == IF req[c].op = "create" THEN "insert" ELSE "write"
           new == [req[c].new EXCEPT !.etag = clock]
           r == [req[c] EXCEPT !.pc = step, !.new = new]
<1>1. req[c] \in Requests /\ RequestOK(req[c]) /\ req[c].pc = "stamp"
  BY DEF ReferencesInductive, TypeOK, Stamp, At
<1>2. clock \in 0 .. MaxClock /\ clock' \in 1 .. MaxClock + 1
  BY DataAssumption DEF ReferencesInductive, TypeOK, Stamp
<1>3. /\ new \in Rows /\ new.project = req[c].new.project
      /\ new.label = req[c].new.label /\ new.release = req[c].new.release
  BY <1>1, <1>2 DEF Rows, Requests
<1>4. r \in Requests /\ r.op = req[c].op /\ r.pc = step /\ r.iss = req[c].iss /\ r.new = new
  BY <1>1, <1>3 DEF Requests, Steps
<1>5. req' = [req EXCEPT ![c] = r]
  BY DEF Stamp, ReferencesInductive, TypeOK, Requests
<1>6. \/ r.op = "create" /\ r.pc = "insert"
      \/ r.op # "create" /\ r.pc = "write"
  BY <1>4
<1> HIDE DEF new, r, step
<1>7. RequestOK(r)
  BY <1>1, <1>3, <1>4, <1>6 DEF RequestOK, WriteOps, IssueOps, LabelFits, ReleaseFits
<1> QED
  BY <1>2, <1>4, <1>5, <1>7, RequestStep DEF Stamp, ReferencesInductive, TypeOK

LEMMA RereadIssueOK ==
    ASSUME ReferencesInductive, NEW c \in Clients, RereadIssue(c)
    PROVE  ReferencesInductive'
<1>1. req[c].pc = "reread" /\ req[c].op = "put" /\ req[c].iss \in Issues
      /\ RequestOK(req[c])
  BY DEF RereadIssue, At, ReferencesInductive, RequestOK, IssueOps
<1>2. seen' \in [Clients -> Views]
  BY <1>1, SeenOK, RowsOK DEF RereadIssue, Receive, ReferencesInductive, TypeOK
<1>3. CASE Finish(c)
  BY <1>2, <1>3, FinishOK DEF RereadIssue
<1>4. ASSUME NEW step \in {"record", "respond"}, Goto(c, step) PROVE ReferencesInductive'
  <2>1. step \in Steps
    BY DEF Steps
  <2>2. RequestOK([req[c] EXCEPT !.pc = step])
    BY <1>1, <2>1, NextStepOK DEF RequestOK, WriteOps, IssueOps
  <2> QED
    BY <1>2, <1>4, <2>1, <2>2, GotoOK DEF RereadIssue
<1> QED
  BY <1>3, <1>4 DEF RereadIssue

LEMMA RespondWithUpdatedIssueOK ==
    ASSUME ReferencesInductive, NEW c \in Clients, RespondWithUpdatedIssue(c)
    PROVE  ReferencesInductive'
<1>1. req[c].pc = "respond" /\ req[c].op \in IssueOps \ {"create"} /\ req[c].iss \in Issues
      /\ RequestOK(req[c])
  BY DEF RespondWithUpdatedIssue, At, ReferencesInductive, RequestOK
<1>2. seen' \in [Clients -> Views]
  BY <1>1, SeenOK, RowsOK DEF RespondWithUpdatedIssue, Receive, ReferencesInductive, TypeOK
<1>3. CASE Finish(c)
  BY <1>2, <1>3, FinishOK DEF RespondWithUpdatedIssue
<1>4. CASE Goto(c, "panic")
  <2>1. "panic" \in Steps
    BY DEF Steps
  <2>2. RequestOK([req[c] EXCEPT !.pc = "panic"])
    BY <1>1, <2>1, NextStepOK DEF RequestOK, WriteOps, IssueOps
  <2> QED
    BY <1>2, <1>4, <2>1, <2>2, GotoOK DEF RespondWithUpdatedIssue
<1> QED
  BY <1>3, <1>4 DEF RespondWithUpdatedIssue

LEMMA EndOK ==
    ASSUME ReferencesInductive, NEW c \in Clients, RecoverPanic(c) \/ Abort(c)
    PROVE  ReferencesInductive'
BY FinishOK DEF RecoverPanic, Abort, ReferencesInductive, TypeOK

-----------------------------------------------------------------------------
(* The statements that write.                                              *)

\* Labels and releases appear in a project, and go, but never change project.
Monotone ==
    /\ \A l \in Labels : label[l] = Free \/ label'[l] \in {label[l], Gone}
    /\ \A r \in Releases :
         release[r].project = Free \/ release'[r].project \in {release[r].project, Gone}

\* So what the checks of a handler found stays good enough, whoever else writes.
LEMMA RequestsStable ==
    ASSUME Monotone,
           \A d \in Clients : req'[d] \in Requests /\ RequestOK(req'[d])
    PROVE  \A d \in Clients : RequestOK(req[d])'
<1> SUFFICES ASSUME NEW d \in Clients PROVE RequestOK(req[d])'
  OBVIOUS
<1>1. req'[d] \in Requests /\ RequestOK(req'[d])
  OBVIOUS
<1>2. /\ req'[d].new.label \in Labels \cup {Null}
      /\ req'[d].new.release \in Releases \cup {Null}
  BY <1>1 DEF Requests, Rows
<1>3. ASSUME req'[d].new.project \in Projects
      PROVE  /\ LabelFits(req'[d].new) => LabelFits(req[d].new)'
             /\ ReleaseFits(req'[d].new) => ReleaseFits(req[d].new)'
  BY <1>2, <1>3, IdAssumption DEF LabelFits, ReleaseFits, Monotone
<1> QED
  BY <1>1, <1>3 DEF RequestOK

\* The request moves on, ends or is left alone while the tables change.
LEMMA RequestsAfter ==
    ASSUME ReferencesInductive, NEW c \in Clients, NEW r \in Requests, RequestOK(r),
           req' \in {req, [req EXCEPT ![c] = r], [req EXCEPT ![c] = Idle]}
    PROVE  /\ req' \in [Clients -> Requests]
           /\ \A d \in Clients : req'[d] \in Requests /\ RequestOK(req'[d])
BY DefaultsOK DEF ReferencesInductive, TypeOK

\* One row of issues is written and nothing else: a row that fits and whose
\* references exist keeps the tables in order.
LEMMA WriteRowStep ==
    ASSUME ReferencesInductive, NEW c \in Clients, NEW i \in Issues, NEW row \in Rows,
           row.project \in Projects, project[row.project] = "live",
           row.label # Null => label[row.label] = row.project,
           row.release # Null => release[row.release].project = row.project,
           row.assignee # Null => user[row.assignee] # "gone",
           NEW r \in Requests, RequestOK(r),
           req' = [req EXCEPT ![c] = r],
           issue' = [issue EXCEPT ![i] = row],
           UNCHANGED <<project, label, release, user, history, clock, seen>>
    PROVE  ReferencesInductive'
<1>1. TypeOK'
  BY RequestsAfter DEF ReferencesInductive, TypeOK
<1>2. ReferencesHold'
  <2>1. \A j \in Issues : issue'[j] = IF j = i THEN row ELSE issue[j]
    BY DEF ReferencesInductive, TypeOK
  <2>2. \A h \in history : h.iss \in Issues
    BY DEF ReferencesInductive, TypeOK, HistoryEntries
  <2> QED
    BY <2>1, <2>2 DEF ReferencesInductive, ReferencesHold, Live
<1>3. Monotone
  BY DEF Monotone
<1> QED
  BY <1>1, <1>2, <1>3, RequestsStable, RequestsAfter DEF ReferencesInductive

LEMMA UpdateIssueOK ==
    ASSUME ReferencesInductive, NEW c \in Clients, UpdateIssue(c)
    PROVE  ReferencesInductive'
<1> DEFINE i == req[c].iss
           new == req[c].new
           step == IF req[c].op = "put" THEN "reread" ELSE "record"
           r == [req[c] EXCEPT !.pc = step]
<1>1. CASE Finish(c) /\ UNCHANGED issue
  BY <1>1, FinishOK DEF UpdateIssue, tables, ReferencesInductive, TypeOK
<1>2. CASE ~(Finish(c) /\ UNCHANGED issue)
  <2>1. /\ RowAffected(i) /\ ForeignKeysHold(new)
        /\ issue' = [issue EXCEPT ![i] = new] /\ Goto(c, step)
    BY <1>2 DEF UpdateIssue, Written
  <2>2. req[c] \in Requests /\ RequestOK(req[c]) /\ req[c].pc = "write"
    BY DEF ReferencesInductive, TypeOK, UpdateIssue, At
  <2>3. /\ i \in Issues /\ new \in Rows /\ new.project \in Projects
        /\ LabelFits(new) /\ ReleaseFits(new) /\ req[c].op \in WriteOps \ {"create"}
    BY <2>2 DEF Requests, RequestOK, WriteOps, IssueOps
  <2>4. step \in Steps
    BY DEF Steps
  <2>5. r \in Requests /\ req' = [req EXCEPT ![c] = r]
    BY <2>1, <2>2, <2>4 DEF Requests, Goto, ReferencesInductive, TypeOK
  <2>6. RequestOK(r)
    BY <2>2, <2>3, <2>4, NextStepOK DEF RequestOK, WriteOps, IssueOps
  <2>7. /\ project[new.project] = "live"
        /\ new.label # Null => label[new.label] = new.project
        /\ new.release # Null => release[new.release].project = new.project
        /\ new.assignee # Null => user[new.assignee] # "gone"
    BY <2>1, <2>3, IdAssumption DEF ForeignKeysHold, LabelFits, ReleaseFits
  <2> HIDE DEF i, new, r, step
  <2> QED
    BY <2>1, <2>3, <2>5, <2>6, <2>7, WriteRowStep DEF UpdateIssue
<1> QED
  BY <1>1, <1>2

LEMMA InsertIssueOK ==
    ASSUME ReferencesInductive, NEW c \in Clients, InsertIssue(c)
    PROVE  ReferencesInductive'
<1> DEFINE new == req[c].new
<1>1. CASE Finish(c) /\ UNCHANGED issue
  BY <1>1, FinishOK DEF InsertIssue, tables, ReferencesInductive, TypeOK
<1>2. CASE ~(Finish(c) /\ UNCHANGED issue)
  <2>1. PICK i \in Issues : /\ issue' = [issue EXCEPT ![i] = new]
                            /\ req' = [req EXCEPT ![c].pc = "record", ![c].iss = i]
    BY <1>2 DEF InsertIssue
  <2> DEFINE r == [req[c] EXCEPT !.pc = "record", !.iss = i]
  <2>2. req[c] \in Requests /\ RequestOK(req[c]) /\ req[c].pc = "insert" /\ ForeignKeysHold(new)
    BY <1>2 DEF ReferencesInductive, TypeOK, InsertIssue, At
  <2>3. /\ new \in Rows /\ new.project \in Projects
        /\ LabelFits(new) /\ ReleaseFits(new) /\ req[c].op = "create"
    BY <2>2 DEF Requests, RequestOK, WriteOps
  <2>4. /\ r \in Requests /\ req' = [req EXCEPT ![c] = r]
        /\ r.pc = "record" /\ r.iss = i /\ r.op = "create" /\ r.new = new
    BY <2>1, <2>2, <2>3 DEF Requests, Steps, ReferencesInductive, TypeOK
  <2>5. RequestOK(r)
    BY <2>2, <2>3, <2>4 DEF RequestOK, WriteOps, IssueOps
  <2>6. /\ project[new.project] = "live"
        /\ new.label # Null => label[new.label] = new.project
        /\ new.release # Null => release[new.release].project = new.project
        /\ new.assignee # Null => user[new.assignee] # "gone"
    BY <2>2, <2>3, IdAssumption DEF ForeignKeysHold, LabelFits, ReleaseFits
  <2> HIDE DEF new, r
  <2> QED
    BY <2>1, <2>3, <2>4, <2>5, <2>6, WriteRowStep DEF InsertIssue
<1> QED
  BY <1>1, <1>2

LEMMA UpdateIssuePositionOK ==
    ASSUME ReferencesInductive, NEW c \in Clients, UpdateIssuePosition(c)
    PROVE  ReferencesInductive'
<1> DEFINE i == req[c].iss
           row == [issue[i] EXCEPT !.pos = req[c].new.pos]
           r == [req[c] EXCEPT !.pc = "reread"]
<1>1. CASE Finish(c) /\ UNCHANGED issue
  BY <1>1, FinishOK DEF UpdateIssuePosition, tables, ReferencesInductive, TypeOK
<1>2. CASE ~(Finish(c) /\ UNCHANGED issue)
  <2>1. req[c] \in Requests /\ RequestOK(req[c]) /\ req[c].pc = "position"
    BY DEF ReferencesInductive, TypeOK, UpdateIssuePosition, At
  <2>2. i \in Issues /\ req[c].op = "put" /\ req[c].new.pos \in 0 .. MaxPos
    BY <2>1 DEF RequestOK, IssueOps, Requests, Rows
  <2>3. /\ Live(i) /\ Goto(c, "reread")
        /\ issue' = [issue EXCEPT ![i] = row]
    BY <1>2 DEF UpdateIssuePosition, Repositioned, RowAffected, ReferencesInductive, TypeOK
  <2>4. /\ row \in Rows /\ row.project = issue[i].project /\ row.label = issue[i].label
        /\ row.release = issue[i].release /\ row.assignee = issue[i].assignee
    BY <2>2, RowsOK DEF Rows
  <2>5. "reread" \in Steps
    BY DEF Steps
  <2>6. r \in Requests /\ req' = [req EXCEPT ![c] = r]
    BY <2>1, <2>3, <2>5 DEF Requests, Goto, ReferencesInductive, TypeOK
  <2>7. RequestOK(r)
    BY <2>1, <2>2, <2>5, NextStepOK DEF RequestOK, WriteOps, IssueOps
  <2> HIDE DEF row, r
  <2>8. /\ row.project \in Projects /\ project[row.project] = "live"
        /\ row.label # Null => label[row.label] = row.project
        /\ row.release # Null => release[row.release].project = row.project
        /\ row.assignee # Null => user[row.assignee] # "gone"
    BY <2>2, <2>3, <2>4 DEF ReferencesInductive, ReferencesHold, Live
  <2> HIDE DEF i
  <2> QED
    BY <2>2, <2>3, <2>4, <2>6, <2>7, <2>8, WriteRowStep DEF UpdateIssuePosition
<1> QED
  BY <1>1, <1>2

\* Rows change in columns other than the references, or lose references: the
\* tables stay in order if what the rows still refer to stays where it is.
LEMMA TableStep ==
    ASSUME TypeOK, ReferencesHold, TypeOK', Monotone,
           \A d \in Clients : req'[d] \in Requests /\ RequestOK(req'[d]),
           ReferencesHold'
    PROVE  ReferencesInductive'
BY RequestsStable DEF ReferencesInductive

LEMMA DeleteIssueRowOK ==
    ASSUME ReferencesInductive, NEW c \in Clients, DeleteIssueRow(c)
    PROVE  ReferencesInductive'
<1> DEFINE i == req[c].iss
           gone == [NoRow EXCEPT !.project = Gone]
<1>1. i \in Issues
  BY DEF DeleteIssueRow, At, ReferencesInductive, RequestOK, IssueOps
<1>2. gone \in Rows /\ gone.project = Gone
  BY DefaultsOK DEF Rows, Owner
<1>3. issue' = IF Live(i) THEN [issue EXCEPT ![i] = gone] ELSE issue
  BY DEF DeleteIssueRow
<1> HIDE DEF gone
<1>4. \A j \in Issues : issue'[j] = IF j = i /\ Live(i) THEN gone ELSE issue[j]
  BY <1>1, <1>3 DEF ReferencesInductive, TypeOK
<1>5. /\ req' \in [Clients -> Requests]
      /\ \A d \in Clients : req'[d] \in Requests /\ RequestOK(req'[d])
  BY RequestsAfter, DefaultsOK DEF DeleteIssueRow, Finish
<1>6. TypeOK'
  BY <1>1, <1>2, <1>3, <1>5 DEF DeleteIssueRow, ReferencesInductive, TypeOK
<1>7. ReferencesHold'
  <2>1. \A h \in history' : h \in history /\ h.iss # i /\ h.iss \in Issues
    BY DEF DeleteIssueRow, ReferencesInductive, TypeOK, HistoryEntries
  <2> QED
    BY <1>2, <1>4, <2>1, IdAssumption DEF DeleteIssueRow, ReferencesInductive, ReferencesHold, Live
<1>8. Monotone
  BY DEF Monotone, DeleteIssueRow
<1> QED
  BY <1>5, <1>6, <1>7, <1>8, TableStep DEF ReferencesInductive

LEMMA RecordHistoryOK ==
    ASSUME ReferencesInductive, NEW c \in Clients, RecordHistory(c)
    PROVE  ReferencesInductive'
<1> DEFINE i == req[c].iss
           op == req[c].op
           r == [req[c] EXCEPT !.pc = "respond"]
<1>1. req[c] \in Requests /\ RequestOK(req[c]) /\ req[c].pc = "record"
  BY DEF ReferencesInductive, TypeOK, RecordHistory, At
<1>2. i \in Issues /\ op \in WriteOps /\ req[c].new \in Rows
  BY <1>1 DEF RequestOK, IssueOps, WriteOps, Requests
<1>3. history' \subseteq HistoryEntries /\ \A h \in history' : h \in history \/ (h.iss = i /\ Live(i))
  BY <1>2 DEF RecordHistory, Entry, Event, HistoryEntries, WriteOps, ReferencesInductive, TypeOK
<1>4. seen' \in [Clients -> Views]
  BY <1>2, SeenOK DEF RecordHistory, Receive, ReferencesInductive, TypeOK
<1>5. "respond" \in Steps
  BY DEF Steps
<1>6. \/ req' = [req EXCEPT ![c] = r] /\ op # "create"
      \/ req' = [req EXCEPT ![c] = Idle]
  BY DEF RecordHistory, Goto, Finish, ReferencesInductive, TypeOK
<1>7. op # "create" => r \in Requests /\ RequestOK(r)
  BY <1>1, <1>2, <1>5, NextStepOK DEF RequestOK, Requests, WriteOps, IssueOps
<1> HIDE DEF r
<1>8. /\ req' \in [Clients -> Requests]
      /\ \A d \in Clients : req'[d] \in Requests /\ RequestOK(req'[d])
  BY <1>6, <1>7, RequestsAfter, DefaultsOK
<1>9. TypeOK'
  BY <1>3, <1>4, <1>8 DEF RecordHistory, ReferencesInductive, TypeOK
<1>10. ReferencesHold'
  BY <1>3 DEF RecordHistory, ReferencesInductive, ReferencesHold, Live
<1>11. Monotone
  BY DEF Monotone, RecordHistory
<1> QED
  BY <1>8, <1>9, <1>10, <1>11, TableStep DEF ReferencesInductive

LEMMA UpdateIssuePositionsOK ==
    ASSUME ReferencesInductive, NEW c \in Clients, NEW p \in Projects,
           NEW S \in SUBSET Issues, NEW f \in [S -> 0 .. MaxPos],
           UpdateIssuePositions(c, p, S, f)
    PROVE  ReferencesInductive'
<1>1. \A j \in Issues :
        /\ issue'[j] \in Rows /\ issue'[j].project = issue[j].project
        /\ issue'[j].label = issue[j].label /\ issue'[j].release = issue[j].release
        /\ issue'[j].assignee = issue[j].assignee
  BY RowsOK DEF UpdateIssuePositions, Rows
<1>2. TypeOK'
  <2>1. issue' \in [Issues -> Rows]
    BY <1>1 DEF UpdateIssuePositions
  <2> QED
    BY <2>1 DEF UpdateIssuePositions, ReferencesInductive, TypeOK
<1>3. ReferencesHold'
  BY <1>1 DEF UpdateIssuePositions, ReferencesInductive, ReferencesHold, Live, TypeOK, HistoryEntries
<1>4. Monotone
  BY DEF Monotone, UpdateIssuePositions
<1>5. \A d \in Clients : req'[d] \in Requests /\ RequestOK(req'[d])
  BY DEF UpdateIssuePositions, ReferencesInductive, TypeOK
<1> QED
  BY <1>2, <1>3, <1>4, <1>5, TableStep DEF ReferencesInductive

\* ON DELETE SET NULL takes references away and changes nothing else.
LEMMA DropReferencesOK ==
    ASSUME TypeOK, NEW ls, NEW rs
    PROVE  /\ DropReferences(ls, rs) \in [Issues -> Rows]
           /\ \A i \in Issues : LET row == DropReferences(ls, rs)[i] IN
                /\ row.project = issue[i].project /\ row.assignee = issue[i].assignee
                /\ row.label = IF issue[i].label \in ls THEN Null ELSE issue[i].label
                /\ row.release = IF issue[i].release \in rs THEN Null ELSE issue[i].release
BY DEF DropReferences, TypeOK, Rows

LEMMA CreateLabelOK ==
    ASSUME ReferencesInductive, NEW l \in Labels, NEW p \in Projects, CreateLabel(l, p)
    PROVE  ReferencesInductive'
<1>1. \A m \in Labels : label'[m] = IF m = l THEN p ELSE label[m]
  BY DEF CreateLabel, ReferencesInductive, TypeOK
<1>2. TypeOK'
  BY DEF CreateLabel, ReferencesInductive, TypeOK, Owner
<1>3. ReferencesHold'
  <2>1. \A i \in Issues : issue[i].label \in Labels \cup {Null}
    BY RowsOK DEF Rows
  <2> QED
    BY <1>1, <2>1, IdAssumption DEF CreateLabel, ReferencesInductive, ReferencesHold, Live
<1>4. Monotone
  BY <1>1 DEF Monotone, CreateLabel
<1>5. \A d \in Clients : req'[d] \in Requests /\ RequestOK(req'[d])
  BY DEF CreateLabel, ReferencesInductive, TypeOK
<1> QED
  BY <1>2, <1>3, <1>4, <1>5, TableStep DEF ReferencesInductive

\* A release appears, or changes in a column other than its project.
LEMMA ReleaseStep ==
    ASSUME ReferencesInductive, NEW r \in Releases, NEW row \in ReleaseRows,
           release[r].project \in {Free, row.project},
           release' = [release EXCEPT ![r] = row],
           TypeOK', \A d \in Clients : req'[d] \in Requests /\ RequestOK(req'[d]),
           UNCHANGED <<project, label, user, issue, history>>
    PROVE  ReferencesInductive'
<1>1. \A s \in Releases : release'[s] = IF s = r THEN row ELSE release[s]
  BY DEF ReferencesInductive, TypeOK
<1>2. ReferencesHold'
  <2>1. \A i \in Issues : issue[i].release \in Releases \cup {Null}
    BY RowsOK DEF Rows
  <2> QED
    BY <1>1, <2>1, IdAssumption DEF ReferencesInductive, ReferencesHold, Live
<1>3. Monotone
  BY <1>1 DEF Monotone
<1> QED
  BY <1>2, <1>3, TableStep DEF ReferencesInductive

LEMMA CreateReleaseOK ==
    ASSUME ReferencesInductive, NEW r \in Releases, NEW p \in Projects, NEW n \in Names,
           CreateRelease(r, p, n)
    PROVE  ReferencesInductive'
<1> DEFINE row == [project |-> p, name |-> n, status |-> "open"]
<1>1. row \in ReleaseRows
  BY DEF ReleaseRows, Owner
<1>2. TypeOK'
  BY <1>1 DEF CreateRelease, ReferencesInductive, TypeOK
<1>3. \A d \in Clients : req'[d] \in Requests /\ RequestOK(req'[d])
  BY DEF CreateRelease, ReferencesInductive, TypeOK
<1> QED
  BY <1>1, <1>2, <1>3, ReleaseStep DEF CreateRelease

LEMMA ReopenReleaseOK ==
    ASSUME ReferencesInductive, NEW r \in Releases, ReopenRelease(r)
    PROVE  ReferencesInductive'
<1> DEFINE row == [release[r] EXCEPT !.status = "open"]
<1>1. row \in ReleaseRows /\ row.project = release[r].project
  BY DEF ReleaseRows, ReferencesInductive, TypeOK
<1>2. release' = [release EXCEPT ![r] = row]
  BY DEF ReopenRelease, ReferencesInductive, TypeOK
<1> HIDE DEF row
<1>3. TypeOK'
  BY <1>1, <1>2 DEF ReopenRelease, ReferencesInductive, TypeOK
<1>4. \A d \in Clients : req'[d] \in Requests /\ RequestOK(req'[d])
  BY DEF ReopenRelease, ReferencesInductive, TypeOK
<1> QED
  BY <1>1, <1>2, <1>3, <1>4, ReleaseStep DEF ReopenRelease

LEMMA UpdateReleaseOK ==
    ASSUME ReferencesInductive, NEW c \in Clients, UpdateRelease(c)
    PROVE  ReferencesInductive'
<1> DEFINE r == req[c].rel
           row == IF release' = release THEN release[r]
                  ELSE [release[r] EXCEPT !.name = req[c].name]
<1>1. r \in Releases /\ req[c].name \in Names
  BY DEF UpdateRelease, At, ReferencesInductive, RequestOK, TypeOK, Requests
<1>2. row \in ReleaseRows /\ row.project = release[r].project
  BY <1>1 DEF ReleaseRows, ReferencesInductive, TypeOK
<1>3. release' = [release EXCEPT ![r] = row]
  BY <1>1 DEF UpdateRelease, ReferencesInductive, TypeOK
<1>4. /\ req' \in [Clients -> Requests]
      /\ \A d \in Clients : req'[d] \in Requests /\ RequestOK(req'[d])
  BY RequestsAfter, DefaultsOK DEF UpdateRelease, Finish
<1> HIDE DEF row, r
<1>5. TypeOK'
  BY <1>1, <1>2, <1>3, <1>4 DEF UpdateRelease, ReferencesInductive, TypeOK
<1> QED
  BY <1>1, <1>2, <1>3, <1>4, <1>5, ReleaseStep DEF UpdateRelease

LEMMA TriggerReleaseOK ==
    ASSUME ReferencesInductive, NEW c \in Clients, NEW r \in Releases,
           NEW archiveDone \in BOOLEAN, TriggerRelease(c, r, archiveDone)
    PROVE  ReferencesInductive'
<1> DEFINE row == [release[r] EXCEPT !.status = "closed"]
           new == [NoRow EXCEPT !.etag = clock]
           q == [Idle EXCEPT !.op = "triggerRelease", !.pc = "archiveDone", !.rel = r,
                             !.new.etag = clock]
<1>1. row \in ReleaseRows /\ row.project = release[r].project
  BY DEF ReleaseRows, ReferencesInductive, TypeOK
<1>2. release' = [release EXCEPT ![r] = row]
  BY DEF TriggerRelease, ReferencesInductive, TypeOK
<1>3. clock \in 0 .. MaxClock /\ clock' \in 1 .. MaxClock + 1
  BY DataAssumption DEF TriggerRelease, ReferencesInductive, TypeOK
<1>4. new \in Rows
  BY <1>3, DefaultsOK DEF Rows
<1>5. q = [Idle EXCEPT !.op = "triggerRelease", !.pc = "archiveDone", !.rel = r, !.new = new]
  BY DEF Idle
<1>6. q \in Requests
  BY <1>4, <1>5, DefaultsOK DEF Requests, OtherOps, Steps
<1>7. RequestOK(q)
  <2>1. q.op = "triggerRelease" /\ q.pc = "archiveDone" /\ q.rel = r
    BY DEF Idle
  <2> QED
    BY <2>1 DEF RequestOK, WriteOps, IssueOps
<1>8. /\ req' \in [Clients -> Requests]
      /\ \A d \in Clients : req'[d] \in Requests /\ RequestOK(req'[d])
  BY <1>6, <1>7, RequestsAfter DEF TriggerRelease, Start
<1> HIDE DEF row, q, new
<1>9. TypeOK'
  BY <1>1, <1>2, <1>3, <1>8, DefaultsOK DEF TriggerRelease, Start, ReferencesInductive, TypeOK
<1> QED
  BY <1>1, <1>2, <1>8, <1>9, ReleaseStep DEF TriggerRelease

\* Labels ls and releases rs are deleted, with the references to them.
LEMMA DropStep ==
    ASSUME ReferencesInductive, TypeOK', NEW ls, NEW rs,
           issue' = DropReferences(ls, rs),
           \A l \in Labels : label'[l] = IF l \in ls THEN Gone ELSE label[l],
           \A r \in Releases :
             release'[r].project = IF r \in rs THEN Gone ELSE release[r].project,
           \A i \in Issues : Live(i) => project'[issue[i].project] = "live",
           UNCHANGED <<user, history>>,
           \A d \in Clients : req'[d] \in Requests /\ RequestOK(req'[d])
    PROVE  ReferencesInductive'
<1>1. \A i \in Issues :
        /\ issue'[i].project = issue[i].project /\ issue'[i].assignee = issue[i].assignee
        /\ issue'[i].label = (IF issue[i].label \in ls THEN Null ELSE issue[i].label)
        /\ issue'[i].release = (IF issue[i].release \in rs THEN Null ELSE issue[i].release)
  BY DropReferencesOK DEF ReferencesInductive
<1>2. ReferencesHold'
  <2>1. ASSUME NEW i \in Issues, Live(i)'
        PROVE  /\ project'[issue'[i].project] = "live"
               /\ issue'[i].label # Null => label'[issue'[i].label] = issue'[i].project
               /\ issue'[i].release # Null => release'[issue'[i].release].project = issue'[i].project
               /\ issue'[i].assignee # Null => user'[issue'[i].assignee] # "gone"
    <3>1. Live(i) /\ issue[i].label \in Labels \cup {Null} /\ issue[i].release \in Releases \cup {Null}
      BY <1>1, <2>1, RowsOK DEF Rows, Live
    <3>2. /\ issue[i].label # Null => label[issue[i].label] = issue[i].project
          /\ issue[i].release # Null => release[issue[i].release].project = issue[i].project
          /\ issue[i].assignee # Null => user[issue[i].assignee] # "gone"
      BY <3>1 DEF ReferencesInductive, ReferencesHold
    <3> QED
      BY <1>1, <3>1, <3>2
  <2>2. ASSUME NEW h \in history' PROVE Live(h.iss)'
    BY <1>1 DEF ReferencesInductive, TypeOK, HistoryEntries, ReferencesHold, Live
  <2> QED
    BY <2>1, <2>2 DEF ReferencesHold
<1>3. Monotone
  BY DEF Monotone
<1> QED
  BY <1>2, <1>3, TableStep DEF ReferencesInductive

LEMMA DeleteLabelOK ==
    ASSUME ReferencesInductive, NEW l \in Labels, DeleteLabel(l)
    PROVE  ReferencesInductive'
<1>1. \A m \in Labels : label'[m] = IF m \in {l} THEN Gone ELSE label[m]
  BY DEF DeleteLabel, ReferencesInductive, TypeOK
<1>2. \A r \in Releases :
        release'[r].project = IF r \in {} THEN Gone ELSE release[r].project
  BY DEF DeleteLabel
<1>3. TypeOK'
  BY DropReferencesOK DEF DeleteLabel, ReferencesInductive, TypeOK, Owner
<1>4. \A i \in Issues : Live(i) => project'[issue[i].project] = "live"
  BY DEF DeleteLabel, ReferencesInductive, ReferencesHold
<1>5. \A d \in Clients : req'[d] \in Requests /\ RequestOK(req'[d])
  BY DEF DeleteLabel, ReferencesInductive, TypeOK
<1>6. issue' = DropReferences({l}, {}) /\ UNCHANGED <<user, history>>
  BY DEF DeleteLabel
<1> QED
  BY <1>1, <1>2, <1>3, <1>4, <1>5, <1>6, DropStep

LEMMA DeleteReleaseOK ==
    ASSUME ReferencesInductive, NEW r \in Releases, DeleteRelease(r)
    PROVE  ReferencesInductive'
<1> DEFINE row == [NoRelease EXCEPT !.project = Gone]
<1>1. row \in ReleaseRows /\ row.project = Gone
  BY DefaultsOK DEF ReleaseRows, Owner
<1>2. \A s \in Releases :
        release'[s].project = IF s \in {r} THEN Gone ELSE release[s].project
  BY <1>1 DEF DeleteRelease, ReferencesInductive, TypeOK
<1>3. \A l \in Labels : label'[l] = IF l \in {} THEN Gone ELSE label[l]
  BY DEF DeleteRelease
<1>4. TypeOK'
  BY <1>1, DropReferencesOK DEF DeleteRelease, ReferencesInductive, TypeOK
<1>5. \A i \in Issues : Live(i) => project'[issue[i].project] = "live"
  BY DEF DeleteRelease, ReferencesInductive, ReferencesHold
<1>6. \A d \in Clients : req'[d] \in Requests /\ RequestOK(req'[d])
  BY DEF DeleteRelease, ReferencesInductive, TypeOK
<1>7. issue' = DropReferences({}, {r}) /\ UNCHANGED <<user, history>>
  BY DEF DeleteRelease
<1> QED
  BY <1>2, <1>3, <1>4, <1>5, <1>6, <1>7, DropStep

LEMMA DeleteProjectRowOK ==
    ASSUME ReferencesInductive, NEW c \in Clients, DeleteProjectRow(c)
    PROVE  ReferencesInductive'
<1> DEFINE p == req[c].prj
           ls == {l \in Labels : label[l] = p}
           rs == {r \in Releases : release[r].project = p}
<1>1. /\ req' \in [Clients -> Requests]
      /\ \A d \in Clients : req'[d] \in Requests /\ RequestOK(req'[d])
  BY RequestsAfter, DefaultsOK DEF DeleteProjectRow, Finish
<1>2. CASE UNCHANGED <<project, label, release, issue>>
  BY <1>2, FinishOK DEF DeleteProjectRow, tables, ReferencesInductive, TypeOK
<1>3. CASE ~UNCHANGED <<project, label, release, issue>>
  <2>1. /\ \A i \in Issues : issue[i].project # p
        /\ project' = [project EXCEPT ![p] = "gone"]
        /\ label' = [l \in Labels |-> IF l \in ls THEN Gone ELSE label[l]]
        /\ release' = [r \in Releases |->
                         IF r \in rs THEN [NoRelease EXCEPT !.project = Gone] ELSE release[r]]
        /\ issue' = DropReferences(ls, rs)
        /\ UNCHANGED <<user, history, clock, seen>>
    BY <1>3 DEF DeleteProjectRow
  <2>2. p \in Projects
    BY DEF ReferencesInductive, TypeOK, Requests
  <2>3. [NoRelease EXCEPT !.project = Gone] \in ReleaseRows
        /\ [NoRelease EXCEPT !.project = Gone].project = Gone
    BY DefaultsOK DEF ReleaseRows, Owner
  <2> HIDE DEF ls, rs
  <2>4. TypeOK'
    BY <1>1, <2>1, <2>2, <2>3, DropReferencesOK DEF ReferencesInductive, TypeOK, IdState, Owner
  <2>5. \A i \in Issues : Live(i) => project'[issue[i].project] = "live"
    BY <2>1, <2>2 DEF ReferencesInductive, ReferencesHold, TypeOK, Live
  <2>6. \A r \in Releases :
          release'[r].project = IF r \in rs THEN Gone ELSE release[r].project
    BY <2>1, <2>3
  <2> QED
    BY <1>1, <2>1, <2>4, <2>5, <2>6, DropStep
<1> QED
  BY <1>2, <1>3

LEMMA ArchiveDoneIssuesOK ==
    ASSUME ReferencesInductive, NEW c \in Clients, ArchiveDoneIssues(c)
    PROVE  ReferencesInductive'
<1>1. /\ req' \in [Clients -> Requests]
      /\ \A d \in Clients : req'[d] \in Requests /\ RequestOK(req'[d])
  BY RequestsAfter, DefaultsOK DEF ArchiveDoneIssues, Finish
<1>2. req[c].new.etag \in 0 .. MaxClock
  BY DEF ReferencesInductive, TypeOK, Requests, Rows
<1>3. \A i \in Issues :
        /\ issue'[i] \in Rows /\ issue'[i].project = issue[i].project
        /\ issue'[i].label = issue[i].label /\ issue'[i].release = issue[i].release
        /\ issue'[i].assignee = issue[i].assignee
  BY <1>2, RowsOK, DataAssumption DEF ArchiveDoneIssues, ArchivedByRelease, Rows
<1>4. issue' \in [Issues -> Rows]
  BY <1>3 DEF ArchiveDoneIssues
<1>5. TypeOK'
  BY <1>1, <1>4 DEF ArchiveDoneIssues, ReferencesInductive, TypeOK
<1>6. UNCHANGED <<project, label, release, user, history>>
  BY DEF ArchiveDoneIssues
<1>7. ReferencesHold'
  BY <1>3, <1>6 DEF ReferencesInductive, ReferencesHold, Live, TypeOK, HistoryEntries
<1>8. Monotone
  BY <1>6 DEF Monotone
<1> QED
  BY <1>1, <1>5, <1>7, <1>8, TableStep DEF ReferencesInductive

LEMMA CreateProjectOK ==
    ASSUME ReferencesInductive, NEW p \in Projects, CreateProject(p)
    PROVE  ReferencesInductive'
<1>1. TypeOK'
  BY DEF CreateProject, ReferencesInductive, TypeOK, IdState
<1>2. ReferencesHold'
  BY DEF CreateProject, ReferencesInductive, ReferencesHold, TypeOK, Live
<1>3. Monotone
  BY DEF Monotone, CreateProject
<1>4. \A d \in Clients : req'[d] \in Requests /\ RequestOK(req'[d])
  BY DEF CreateProject, ReferencesInductive, TypeOK
<1> QED
  BY <1>1, <1>2, <1>3, <1>4, TableStep DEF ReferencesInductive

LEMMA SetUserActiveOK ==
    ASSUME ReferencesInductive, NEW u \in Users, NEW s \in {"active", "inactive"},
           SetUserActive(u, s)
    PROVE  ReferencesInductive'
<1>1. TypeOK'
  BY DEF SetUserActive, ReferencesInductive, TypeOK
<1>2. ReferencesHold'
  BY DEF SetUserActive, ReferencesInductive, ReferencesHold, TypeOK, Live
<1>3. Monotone
  BY DEF Monotone, SetUserActive
<1>4. \A d \in Clients : req'[d] \in Requests /\ RequestOK(req'[d])
  BY DEF SetUserActive, ReferencesInductive, TypeOK
<1> QED
  BY <1>1, <1>2, <1>3, <1>4, TableStep DEF ReferencesInductive

LEMMA DeleteUserOK ==
    ASSUME ReferencesInductive, NEW u \in Users, DeleteUser(u)
    PROVE  ReferencesInductive'
<1> DEFINE assigned == {i \in Issues : Live(i) /\ issue[i].assignee = u}
<1>1. clock \in 0 .. MaxClock /\ clock' \in 1 .. MaxClock + 1
  BY DataAssumption DEF DeleteUser, ReferencesInductive, TypeOK
<1>2. \A i \in Issues :
        /\ issue'[i] \in Rows /\ issue'[i].project = issue[i].project
        /\ issue'[i].label = issue[i].label /\ issue'[i].release = issue[i].release
        /\ issue'[i].assignee = IF i \in assigned THEN Null ELSE issue[i].assignee
  BY <1>1, RowsOK DEF DeleteUser, Unassigned, Rows
<1>3. issue' \in [Issues -> Rows]
  BY <1>2 DEF DeleteUser
<1>4. history' \subseteq HistoryEntries /\ \A h \in history' : h \in history \/ h.iss \in assigned
  BY DEF DeleteUser, Entry, HistoryEntries, ReferencesInductive, TypeOK
<1>5. UNCHANGED <<project, label, release, req, seen>> /\ user' = [user EXCEPT ![u] = "gone"]
  BY DEF DeleteUser
<1>6. TypeOK'
  BY <1>1, <1>3, <1>4, <1>5 DEF ReferencesInductive, TypeOK
<1>7. ReferencesHold'
  <2>1. ASSUME NEW i \in Issues, Live(i)' PROVE
               /\ project'[issue'[i].project] = "live"
               /\ issue'[i].label # Null => label'[issue'[i].label] = issue'[i].project
               /\ issue'[i].release # Null => release'[issue'[i].release].project = issue'[i].project
               /\ issue'[i].assignee # Null => user'[issue'[i].assignee] # "gone"
    <3>1. Live(i) /\ issue[i].assignee \in Users \cup {Null}
      BY <1>2, <2>1, RowsOK DEF Rows, Live
    <3>2. \A v \in Users : user'[v] = IF v = u THEN "gone" ELSE user[v]
      BY <1>5 DEF ReferencesInductive, TypeOK
    <3> QED
      BY <1>2, <1>5, <3>1, <3>2 DEF ReferencesInductive, ReferencesHold
  <2>2. ASSUME NEW h \in history' PROVE Live(h.iss)'
    BY <1>2, <1>4 DEF ReferencesInductive, TypeOK, HistoryEntries, ReferencesHold, Live
  <2> QED
    BY <2>1, <2>2 DEF ReferencesHold
<1>8. Monotone
  BY <1>5 DEF Monotone
<1>9. \A d \in Clients : req'[d] \in Requests /\ RequestOK(req'[d])
  BY <1>5 DEF ReferencesInductive, TypeOK
<1> QED
  BY <1>6, <1>7, <1>8, <1>9, TableStep DEF ReferencesInductive

-----------------------------------------------------------------------------
LEMMA InitOK == Init => ReferencesInductive
<1> SUFFICES ASSUME Init PROVE ReferencesInductive
  OBVIOUS
<1>1. NoRow.project = Free /\ NoRelease.project = Free
  BY DEF NoRow, NoRelease
<1>2. TypeOK
  BY DefaultsOK, DataAssumption, IdAssumption DEF Init, TypeOK, IdState, Owner
<1>3. ReferencesHold
  BY <1>1, IdAssumption DEF Init, ReferencesHold, Live
<1>4. \A c \in Clients : RequestOK(req[c])
  BY DefaultsOK DEF Init
<1> QED
  BY <1>2, <1>3, <1>4 DEF ReferencesInductive

LEMMA ArriveOK ==
    ASSUME ReferencesInductive, NEW c \in Clients, Arrive(c)
    PROVE  ReferencesInductive'
<1>1. NoETag \in 0 .. MaxClock /\ seen[c].row.etag \in 0 .. MaxClock
  BY DataAssumption DEF NoETag, ReferencesInductive, TypeOK, Views, Rows
<1> QED
  BY <1>1, GetIssueOK, PutIssueOK, CreateIssueOK, ToggleArchiveOK, MoveIssueOK, DeleteIssueOK,
     UpdateIssuePositionsOK, DeleteProjectOK, PutReleaseOK, TriggerReleaseOK
  DEF Arrive

LEMMA ProceedOK ==
    ASSUME ReferencesInductive, NEW c \in Clients, Proceed(c)
    PROVE  ReferencesInductive'
BY CheckAssigneeOK, CheckLabelOK, CheckReleaseOK, UpdateIssuePositionOK, CheckTargetProjectOK,
   SelectMaxPositionOK, StampOK, UpdateIssueOK, InsertIssueOK, DeleteIssueRowOK, RereadIssueOK,
   RecordHistoryOK, RespondWithUpdatedIssueOK, EndOK, UpdateReleaseOK, ArchiveDoneIssuesOK,
   DeleteProjectRowOK
DEF Proceed

LEMMA AdministerOK ==
    ASSUME ReferencesInductive, Administer
    PROVE  ReferencesInductive'
BY CreateLabelOK, DeleteLabelOK, CreateReleaseOK, DeleteReleaseOK, ReopenReleaseOK,
   CreateProjectOK, SetUserActiveOK, DeleteUserOK
DEF Administer

LEMMA StutterOK ==
    ASSUME ReferencesInductive, UNCHANGED vars
    PROVE  ReferencesInductive'
<1>1. TypeOK'
  BY DEF vars, ReferencesInductive, TypeOK
<1> QED
  BY <1>1 DEF vars, ReferencesInductive, ReferencesHold, RequestOK, LabelFits, ReleaseFits, Live

\* ReferencesInductive is an invariant.
THEOREM ReferencesInductiveHolds == Spec => []ReferencesInductive
<1>1. ReferencesInductive /\ [Next]_vars => ReferencesInductive'
  BY ArriveOK, ProceedOK, EndOK, AdministerOK, StutterOK DEF Next
<1> QED
  BY InitOK, <1>1, PTL DEF Spec

\* Every table and every request in flight keeps its type: no sequence of handler
\* steps writes a value a column cannot hold.
THEOREM TypeCorrect == Spec => []TypeOK
BY ReferencesInductiveHolds, PTL DEF ReferencesInductive

\* No interleaving of handlers leaves an issue with a label or a release of another
\* project, with a project or an assignee that is gone, or history without its issue.
THEOREM ReferencesAlwaysHold == Spec => []ReferencesHold
BY ReferencesInductiveHolds, PTL DEF ReferencesInductive

-----------------------------------------------------------------------------
(* An ETag names one version of an issue, and a deleted id stays deleted. *)

\* The time stamps that somebody other than the handler that took them may hold.
Known(e) ==
    \/ e = NoETag
    \/ \E i \in Issues : e = issue[i].etag
    \/ \E d \in Clients : e = seen[d].row.etag \/ e = req[d].cur.etag
    \/ \E d \in Clients : ~StampPending(d) /\ e = req[d].new.etag

LEMMA KnownStamps ==
    ASSUME TypeOK, ETagInductive, NEW e, Known(e)
    PROVE  e < clock /\ \A c \in Clients : StampPending(c) => req[c].new.etag # e
<1>1. NoETag < clock
  BY DEF TypeOK, NoETag
<1>2. e < clock
  BY <1>1 DEF Known, ETagInductive, StampsInPast
<1>3. ASSUME NEW c \in Clients, StampPending(c) PROVE req[c].new.etag # e
  BY <1>3 DEF Known, ETagInductive, PendingStampsFresh, NoETag
<1> QED
  BY <1>2, <1>3

\* Issue i keeps its version in this step: it may move in its list, and it may
\* lose references to what is deleted.
Kept(i) ==
    /\ issue'[i].project = issue[i].project /\ issue'[i].status = issue[i].status
    /\ issue'[i].assignee = issue[i].assignee /\ issue'[i].text = issue[i].text
    /\ issue'[i].etag = issue[i].etag
    /\ \/ issue'[i].label = issue[i].label
       \/ issue'[i].label = Null /\ label'[issue[i].label] = Gone
    /\ \/ issue'[i].release = issue[i].release
       \/ issue'[i].release = Null /\ release'[issue[i].release].project = Gone

Retired ==
    /\ \A l \in Labels : label[l] = Gone => label'[l] = Gone
    /\ \A r \in Releases : release[r].project = Gone => release'[r].project = Gone

\* What a copy says of issue i it says after the step too, unless the step has
\* given the issue a new stamp.
LEMMA CopyStable ==
    ASSUME TypeOK, Retired, NEW i \in Issues, NEW row \in Rows, CopyHolds(i, row),
           Live(i)' => Kept(i) \/ issue'[i].etag # row.etag
    PROVE  CopyHolds(i, row)'
<1> SUFFICES ASSUME Live(i)', issue'[i].etag = row.etag, Kept(i)
             PROVE  SameVersion(row, issue[i])'
  BY DEF CopyHolds
<1>1. Live(i) /\ issue[i].etag = row.etag
  BY DEF Kept, Live
<1>2. SameVersion(row, issue[i])
  BY <1>1 DEF CopyHolds
<1>3. row.label \in Labels \cup {Null} /\ row.release \in Releases \cup {Null}
  BY DEF Rows
<1>4. issue[i].label \in Labels \cup {Null} /\ issue[i].release \in Releases \cup {Null}
  BY DEF TypeOK, Rows
<1>5. \A f \in {"project", "status", "assignee", "text"} : issue'[i][f] = row[f]
  BY <1>2 DEF SameVersion, Kept
<1>6. \/ issue'[i].label = row.label
      \/ issue'[i].label = Null /\ label'[row.label] = Gone
  BY <1>2, <1>3, <1>4 DEF SameVersion, Kept, Retired
<1>7. \/ issue'[i].release = row.release
      \/ issue'[i].release = Null /\ release'[row.release].project = Gone
  BY <1>2, <1>3, <1>4 DEF SameVersion, Kept, Retired
<1> QED
  BY <1>5, <1>6, <1>7 DEF SameVersion

\* What the copies of client d must satisfy once a step that writes the stamps R
\* has changed them.
Settled(e, R) == Known(e) \/ e \in R

ViewFine(d, R) ==
    /\ Settled(seen'[d].row.etag, R)
    /\ \A i \in Issues : seen'[d].iss = i => CopyHolds(i, seen[d].row)'

\* The request of d holds no stamp that is not written yet.  It keeps its copies,
\* or holds new ones that are right.
RequestFine(d, R) ==
    /\ ~StampPending(d)'
    /\ Settled(req'[d].cur.etag, R)
    /\ Settled(req'[d].new.etag, R)
    /\ req'[d].pc \in {"assignee", "label", "release", "position"} => req'[d].new.etag = NoETag
    /\ \A i \in Issues : req'[d].iss = i /\ req'[d].op = "put" =>
         \/ req[d].iss = i /\ req[d].op = "put" /\ req'[d].cur = req[d].cur
         \/ CopyHolds(i, req[d].cur)'
    /\ \A i \in Issues : req'[d].iss = i /\ req'[d].pc \in {"reread", "record", "respond"} =>
         \/ /\ req[d].iss = i /\ req[d].pc \in {"reread", "record", "respond"}
            /\ req'[d].new = req[d].new
         \/ CopyHolds(i, req[d].new)'

\* A step that writes the stamps R, which nobody else holds, and takes no stamp that
\* stays pending.
LEMMA ETagStep ==
    ASSUME TypeOK, TypeOK', ETagInductive, Retired, clock' >= clock, NEW R \in SUBSET Nat,
           \A e \in R : /\ e > NoETag /\ e < clock' /\ ~Known(e)
                        /\ \A d \in Clients : StampPending(d)' => req'[d].new.etag # e,
           \A i \in Issues : \/ Kept(i)
                             \/ ~Live(i)' /\ issue'[i].etag = NoETag
                             \/ issue'[i].etag \in R,
           \A d \in Clients : seen'[d] = seen[d] \/ ViewFine(d, R),
           \A d \in Clients : req'[d] = req[d] \/ RequestFine(d, R)
    PROVE  ETagInductive'
<1>1. ASSUME NEW e, Settled(e, R)
      PROVE  e < clock' /\ \A d \in Clients : StampPending(d)' => req'[d].new.etag # e
  <2>1. CASE e \in R
    BY <2>1
  <2>2. CASE Known(e)
    <3>1. e < clock /\ \A d \in Clients : StampPending(d) => req[d].new.etag # e
      BY <2>2, KnownStamps
    <3>2. \A d \in Clients : StampPending(d)' => StampPending(d) /\ req'[d].new.etag = req[d].new.etag
      BY DEF RequestFine, StampPending
    <3>3. e \in Int
      BY <2>2 DEF Known, NoETag, TypeOK, Rows, Views, Requests
    <3> QED
      BY <3>1, <3>2, <3>3 DEF TypeOK
  <2> QED
    BY <1>1, <2>1, <2>2 DEF Settled
<1>2. \A i \in Issues : Settled(issue'[i].etag, R) /\ (Live(i)' => issue'[i].etag > NoETag)
  BY DEF Settled, Known, Kept, ETagInductive, StampsInPast, Live
<1>3. \A d \in Clients : Settled(seen'[d].row.etag, R)
  BY DEF ViewFine, Settled, Known
<1>4. \A d \in Clients : Settled(req'[d].cur.etag, R)
  BY DEF RequestFine, Settled, Known
<1>5. \A d \in Clients : ~StampPending(d)' => Settled(req'[d].new.etag, R)
  BY DEF RequestFine, Settled, Known, StampPending
<1>6. \A d \in Clients : StampPending(d)' => req'[d] = req[d] /\ StampPending(d)
  BY DEF RequestFine, StampPending
<1>7. \A d \in Clients : req'[d].new.etag < clock'
  <2> SUFFICES ASSUME NEW d \in Clients PROVE req'[d].new.etag < clock'
    OBVIOUS
  <2>1. CASE ~StampPending(d)'
    BY <1>1, <1>5, <2>1
  <2>2. CASE StampPending(d)'
    <3>1. req'[d].new.etag < clock /\ req'[d].new.etag \in Int
      BY <1>6, <2>2 DEF ETagInductive, StampsInPast, TypeOK, Requests, Rows
    <3> QED
      BY <3>1 DEF TypeOK
  <2> QED
    BY <2>1, <2>2
<1>8. StampsInPast'
  BY <1>1, <1>2, <1>3, <1>4, <1>7 DEF StampsInPast
<1>9. PendingStampsFresh'
  <2> SUFFICES ASSUME NEW c \in Clients, StampPending(c)'
               PROVE  /\ req'[c].new.etag > NoETag
                      /\ \A i \in Issues : issue'[i].etag # req'[c].new.etag
                      /\ \A d \in Clients : /\ seen'[d].row.etag # req'[c].new.etag
                                            /\ req'[d].cur.etag # req'[c].new.etag
                                            /\ d # c => req'[d].new.etag # req'[c].new.etag
    BY DEF PendingStampsFresh
  <2>1. req'[c].new.etag > NoETag
    BY <1>6 DEF ETagInductive, PendingStampsFresh
  <2>2. ASSUME NEW d \in Clients, d # c PROVE req'[d].new.etag # req'[c].new.etag
    <3>1. CASE ~StampPending(d)'
      BY <1>1, <1>5, <3>1
    <3>2. CASE StampPending(d)'
      BY <1>6, <2>2, <3>2 DEF ETagInductive, PendingStampsFresh
    <3> QED
      BY <3>1, <3>2
  <2> QED
    BY <1>1, <1>2, <1>3, <1>4, <2>1, <2>2
<1>10. UnstampedSoFar'
  BY DEF RequestFine, ETagInductive, UnstampedSoFar
<1>11. ASSUME NEW i \in Issues, NEW e, Known(e), Live(i)' PROVE Kept(i) \/ issue'[i].etag # e
  BY <1>11
<1>12. ETagNamesVersion'
  <2> SUFFICES ASSUME NEW c \in Clients, NEW i \in Issues
               PROVE  /\ seen'[c].iss = i => CopyHolds(i, seen[c].row)'
                      /\ req'[c].iss = i /\ req'[c].op = "put" => CopyHolds(i, req[c].cur)'
                      /\ req'[c].iss = i /\ req'[c].pc \in {"reread", "record", "respond"}
                           => CopyHolds(i, req[c].new)'
    BY DEF ETagNamesVersion
  <2>1. seen[c].row \in Rows /\ req[c].cur \in Rows /\ req[c].new \in Rows
    BY DEF TypeOK, Views, Requests
  <2>2. ASSUME seen'[c].iss = i PROVE CopyHolds(i, seen[c].row)'
    <3>1. CASE ViewFine(c, R)
      BY <2>2, <3>1 DEF ViewFine
    <3>2. CASE seen'[c] = seen[c]
      <4>1. Known(seen[c].row.etag) /\ CopyHolds(i, seen[c].row)
        BY <2>2, <3>2 DEF Known, ETagInductive, ETagNamesVersion
      <4> QED
        BY <1>11, <2>1, <3>2, <4>1, CopyStable DEF CopyHolds, SameVersion, Live
    <3> QED
      BY <3>1, <3>2
  <2>3. ASSUME req'[c].iss = i, req'[c].op = "put" PROVE CopyHolds(i, req[c].cur)'
    <3>1. CASE CopyHolds(i, req[c].cur)'
      BY <3>1
    <3>2. CASE req[c].iss = i /\ req[c].op = "put" /\ req'[c].cur = req[c].cur
      <4>1. Known(req[c].cur.etag) /\ CopyHolds(i, req[c].cur)
        BY <3>2 DEF Known, ETagInductive, ETagNamesVersion
      <4> QED
        BY <1>11, <2>1, <3>2, <4>1, CopyStable DEF CopyHolds, SameVersion, Live
    <3> QED
      BY <2>3, <3>1, <3>2 DEF RequestFine
  <2>4. ASSUME req'[c].iss = i, req'[c].pc \in {"reread", "record", "respond"}
        PROVE  CopyHolds(i, req[c].new)'
    <3>1. CASE CopyHolds(i, req[c].new)'
      BY <3>1
    <3>2. CASE /\ req[c].iss = i /\ req[c].pc \in {"reread", "record", "respond"}
               /\ req'[c].new = req[c].new
      <4>1. Known(req[c].new.etag) /\ CopyHolds(i, req[c].new)
        BY <3>2 DEF Known, StampPending, ETagInductive, ETagNamesVersion
      <4> QED
        BY <1>11, <2>1, <3>2, <4>1, CopyStable DEF CopyHolds, SameVersion, Live
    <3> QED
      BY <2>4, <3>1, <3>2 DEF RequestFine
  <2> QED
    BY <2>2, <2>3, <2>4
<1> QED
  BY <1>8, <1>9, <1>10, <1>12 DEF ETagInductive

-----------------------------------------------------------------------------
(* Steps that write no row of issues.                                      *)

LEMMA NothingFine ==
    ASSUME NEW c \in Clients, NEW R
    PROVE  /\ req'[c] = Idle => RequestFine(c, R)
           /\ seen'[c] = NoView => ViewFine(c, R)
BY IdAssumption DEF Idle, NoView, NoRow, RequestFine, ViewFine, Settled, Known, StampPending

\* A step that takes no stamp and writes none.
LEMMA KeepStep ==
    ASSUME TypeOK, TypeOK', ETagInductive, Retired, clock' >= clock,
           \A i \in Issues : Kept(i) \/ (~Live(i)' /\ issue'[i].etag = NoETag),
           \A d \in Clients : seen'[d] = seen[d] \/ ViewFine(d, {}),
           \A d \in Clients : req'[d] = req[d] \/ RequestFine(d, {})
    PROVE  ETagInductive'
BY ETagStep

LEMMA QuietStep ==
    ASSUME TypeOK, TypeOK', ETagInductive, Retired, clock' >= clock, UNCHANGED issue,
           \A d \in Clients : seen'[d] = seen[d] \/ ViewFine(d, {}),
           \A d \in Clients : req'[d] = req[d] \/ RequestFine(d, {})
    PROVE  ETagInductive'
<1>1. \A i \in Issues : Kept(i)
  BY DEF Kept
<1> QED
  BY <1>1, KeepStep

\* An issue is its own copy.
LEMMA CopyOfIssue ==
    ASSUME NEW i \in Issues, NEW row, row = issue[i]
    PROVE  CopyHolds(i, row)
BY DEF CopyHolds, SameVersion

LEMMA StartFine ==
    ASSUME TypeOK, TypeOK', ETagInductive, Retired, clock' >= clock, UNCHANGED issue,
           NEW c \in Clients, NEW r \in Requests, Start(c, r),
           r.pc \notin {"write", "insert", "archiveDone", "position", "reread", "record", "respond"},
           r.pc \in {"assignee", "label", "release"} => r.new.etag = NoETag,
           Known(r.cur.etag), Known(r.new.etag),
           r.op = "put" => r.iss \in Issues /\ r.cur = issue[r.iss]
    PROVE  ETagInductive'
<1>1. \A d \in Clients : /\ req'[d] = IF d = c THEN r ELSE req[d]
                         /\ seen'[d] = IF d = c THEN NoView ELSE seen[d]
  BY DEF Start, TypeOK
<1>2. ASSUME r.op = "put" PROVE CopyHolds(r.iss, req[c].cur)'
  BY <1>1, <1>2 DEF CopyHolds, SameVersion, Live
<1>3. RequestFine(c, {})
  BY <1>1, <1>2 DEF RequestFine, Settled, StampPending
<1> QED
  BY <1>1, <1>3, NothingFine, QuietStep

LEMMA GetIssueETag ==
    ASSUME TypeOK, TypeOK', ETagInductive, NEW c \in Clients, NEW i \in Issues, GetIssue(c, i)
    PROVE  ETagInductive'
<1>1. \A d \in Clients : \/ seen'[d] = seen[d]
                         \/ seen'[d] = [iss |-> i, row |-> issue[i]]
  BY DEF GetIssue, Receive, TypeOK
<1>2. UNCHANGED <<issue, label, release, clock, req>>
  BY DEF GetIssue, tables
<1>3. ASSUME NEW d \in Clients, seen'[d] = [iss |-> i, row |-> issue[i]] PROVE ViewFine(d, {})
  BY <1>2, <1>3 DEF ViewFine, Settled, Known, CopyHolds, SameVersion, Live
<1> QED
  BY <1>1, <1>2, <1>3, QuietStep DEF Retired, TypeOK

LEMMA PutIssueETag ==
    ASSUME TypeOK, TypeOK', ETagInductive, NEW c \in Clients, NEW i \in Issues,
           NEW body \in Bodies, NEW ifMatch \in 0 .. MaxClock, PutIssue(c, i, body, ifMatch)
    PROVE  ETagInductive'
<1> DEFINE new == [project |-> issue[i].project, status |-> body.status,
                   label |-> body.label, release |-> body.release,
                   assignee |-> body.assignee, text |-> body.text,
                   pos |-> body.pos, etag |-> NoETag]
           r == [Idle EXCEPT !.op = "put", !.pc = "assignee", !.iss = i,
                             !.ifMatch = ifMatch, !.cur = issue[i], !.new = new]
<1>1. /\ r.op = "put" /\ r.pc = "assignee" /\ r.iss = i
      /\ r.cur = issue[i] /\ r.new.etag = NoETag
  BY DEF Idle, NoRow
<1>2. Start(c, r)
  BY DEF PutIssue
<1>3. r \in Requests
  BY <1>2 DEF Start, TypeOK
<1>4. Known(r.cur.etag) /\ Known(r.new.etag)
  BY <1>1 DEF Known
<1>5. UNCHANGED <<issue, label, release, clock>>
  BY DEF PutIssue, tables
<1> HIDE DEF r
<1> QED
  BY <1>1, <1>2, <1>3, <1>4, <1>5, StartFine DEF Retired, TypeOK

LEMMA CreateIssueETag ==
    ASSUME TypeOK, TypeOK', ETagInductive, NEW c \in Clients, NEW p \in Projects,
           NEW body \in Bodies, CreateIssue(c, p, body)
    PROVE  ETagInductive'
<1> DEFINE new == [project |-> p, status |-> body.status,
                   label |-> body.label, release |-> body.release,
                   assignee |-> body.assignee, text |-> body.text,
                   pos |-> 0, etag |-> NoETag]
           r == [Idle EXCEPT !.op = "create", !.pc = "assignee", !.new = new]
<1>1. /\ r.op = "create" /\ r.pc = "assignee"
      /\ r.cur.etag = NoETag /\ r.new.etag = NoETag
  BY DEF Idle, NoRow
<1>2. Start(c, r)
  BY DEF CreateIssue
<1>3. r \in Requests
  BY <1>2 DEF Start, TypeOK
<1>4. Known(r.cur.etag) /\ Known(r.new.etag)
  BY <1>1 DEF Known
<1>5. UNCHANGED <<issue, label, release, clock>>
  BY DEF CreateIssue, tables
<1> HIDE DEF r
<1> QED
  BY <1>1, <1>2, <1>3, <1>4, <1>5, StartFine DEF Retired, TypeOK

LEMMA ToggleArchiveETag ==
    ASSUME TypeOK, TypeOK', ETagInductive, NEW c \in Clients, NEW i \in Issues,
           NEW op \in {"archive", "unarchive"}, ToggleArchive(c, i, op)
    PROVE  ETagInductive'
<1> DEFINE new == [issue[i] EXCEPT !.status = ToggledStatus(op)]
           r == [Idle EXCEPT !.op = op, !.pc = "stamp", !.iss = i, !.new = new]
<1>1. new.etag = issue[i].etag
  BY DEF TypeOK, Rows
<1>2. r.op = op /\ r.pc = "stamp" /\ r.cur.etag = NoETag /\ r.new = new
  BY DEF Idle, NoRow
<1>3. Start(c, r)
  BY DEF ToggleArchive
<1>4. r \in Requests
  BY <1>3 DEF Start, TypeOK
<1>5. Known(r.cur.etag) /\ Known(r.new.etag)
  BY <1>1, <1>2 DEF Known
<1>6. UNCHANGED <<issue, label, release, clock>>
  BY DEF ToggleArchive, tables
<1> HIDE DEF r, new
<1> QED
  BY <1>2, <1>3, <1>4, <1>5, <1>6, StartFine DEF Retired, TypeOK

LEMMA MoveIssueETag ==
    ASSUME TypeOK, TypeOK', ETagInductive, NEW c \in Clients, NEW i \in Issues,
           NEW q \in Projects, MoveIssue(c, i, q)
    PROVE  ETagInductive'
<1> DEFINE r == [Idle EXCEPT !.op = "move", !.pc = "project", !.iss = i, !.prj = q,
                             !.new = issue[i]]
<1>1. /\ r.op = "move" /\ r.pc = "project"
      /\ r.cur.etag = NoETag /\ r.new = issue[i]
  BY DEF Idle, NoRow
<1>2. Start(c, r)
  BY DEF MoveIssue
<1>3. r \in Requests
  BY <1>2 DEF Start, TypeOK
<1>4. Known(r.cur.etag) /\ Known(r.new.etag)
  BY <1>1 DEF Known
<1>5. UNCHANGED <<issue, label, release, clock>>
  BY DEF MoveIssue, tables
<1> HIDE DEF r
<1> QED
  BY <1>1, <1>2, <1>3, <1>4, <1>5, StartFine DEF Retired, TypeOK

\* A request that carries no row yet: DELETE, PUT of a release, DELETE of a project.
LEMMA BareStartETag ==
    ASSUME TypeOK, TypeOK', ETagInductive, NEW c \in Clients, NEW r, Start(c, r),
           UNCHANGED <<tables, clock>>,
           r.pc \in {"delete", "updateRelease", "deleteProject"}, r.op # "put",
           r.cur.etag = NoETag, r.new.etag = NoETag
    PROVE  ETagInductive'
<1>1. r \in Requests
  BY DEF Start, TypeOK
<1> QED
  BY <1>1, StartFine DEF tables, Retired, TypeOK, Known

LEMMA DeleteIssueETag ==
    ASSUME TypeOK, TypeOK', ETagInductive, NEW c \in Clients, NEW i \in Issues, DeleteIssue(c, i)
    PROVE  ETagInductive'
BY BareStartETag DEF DeleteIssue, Idle, NoRow

LEMMA PutReleaseETag ==
    ASSUME TypeOK, TypeOK', ETagInductive, NEW c \in Clients, NEW r \in Releases,
           NEW n \in Names, PutRelease(c, r, n)
    PROVE  ETagInductive'
BY BareStartETag DEF PutRelease, Idle, NoRow

LEMMA DeleteProjectETag ==
    ASSUME TypeOK, TypeOK', ETagInductive, NEW c \in Clients, NEW p \in Projects,
           DeleteProject(c, p)
    PROVE  ETagInductive'
BY BareStartETag DEF DeleteProject, Idle, NoRow

\* A handler that holds no pending stamp runs a statement that writes no row, and
\* ends or moves on with the rows it has.
LEMMA MoveOn ==
    ASSUME TypeOK, TypeOK', ETagInductive, Retired, clock' >= clock, UNCHANGED issue,
           NEW c \in Clients, \A d \in Clients \ {c} : req'[d] = req[d],
           \A d \in Clients : seen'[d] = seen[d] \/ ViewFine(d, {}),
           \/ req'[c] = Idle
           \/ /\ ~StampPending(c) /\ ~StampPending(c)'
              /\ req'[c].op = req[c].op /\ req'[c].iss = req[c].iss /\ req'[c].cur = req[c].cur
              /\ req'[c].new.etag = req[c].new.etag
              /\ req'[c].pc \in {"assignee", "label", "release", "position"}
                   => req[c].pc \in {"assignee", "label", "release", "position"}
              /\ req'[c].pc \in {"reread", "record", "respond"} =>
                   /\ req'[c].new = req[c].new
                   /\ \/ req[c].pc \in {"reread", "record", "respond"}
                      \/ req[c].new.etag = NoETag
    PROVE  ETagInductive'
<1>1. RequestFine(c, {})
  <2>1. CASE req'[c] = Idle
    BY <2>1, NothingFine
  <2>2. CASE req'[c] # Idle
    <3>1. Settled(req'[c].cur.etag, {}) /\ Settled(req'[c].new.etag, {})
      BY <2>2 DEF Settled, Known
    <3>2. req'[c].pc \in {"assignee", "label", "release", "position"} => req'[c].new.etag = NoETag
      BY <2>2 DEF ETagInductive, UnstampedSoFar
    <3>3. ASSUME NEW i \in Issues, req[c].new.etag = NoETag, req'[c].new.etag = req[c].new.etag
          PROVE  CopyHolds(i, req[c].new)'
      BY <3>3 DEF CopyHolds, ETagInductive, StampsInPast, Live, NoETag, TypeOK, Rows
    <3> QED
      BY <2>2, <3>1, <3>2, <3>3 DEF RequestFine
  <2> QED
    BY <2>1, <2>2
<1> QED
  BY <1>1, QuietStep

\* The same for statements that only read and send nothing to the client.
LEMMA MoveOnSilently ==
    ASSUME TypeOK, TypeOK', ETagInductive, NEW c \in Clients, NEW step \in Steps,
           UNCHANGED <<issue, label, release, clock, seen>>,
           \/ Finish(c)
           \/ /\ Goto(c, step) /\ ~StampPending(c)
              /\ step \notin {"write", "insert", "archiveDone"}
              /\ step \in {"assignee", "label", "release", "position"}
                   => req[c].pc \in {"assignee", "label", "release", "position"}
              /\ step \in {"reread", "record", "respond"} =>
                   \/ req[c].pc \in {"reread", "record", "respond"}
                   \/ req[c].new.etag = NoETag
    PROVE  ETagInductive'
<1>1. \A d \in Clients \ {c} : req'[d] = req[d]
  BY DEF Finish, Goto, TypeOK
<1>2. CASE Finish(c)
  <2>1. req'[c] = Idle
    BY <1>2 DEF Finish, TypeOK
  <2> QED
    BY <1>1, <2>1, MoveOn DEF Retired, TypeOK
<1>3. CASE Goto(c, step)
  <2>1. /\ req'[c].pc = step /\ req'[c].op = req[c].op /\ req'[c].iss = req[c].iss
        /\ req'[c].cur = req[c].cur /\ req'[c].new = req[c].new
    BY <1>3 DEF Goto, TypeOK, Requests
  <2>2. CASE ~Finish(c)
    BY <1>1, <1>3, <2>1, <2>2, MoveOn DEF Retired, TypeOK, StampPending
  <2> QED
    BY <1>2, <2>2
<1> QED
  BY <1>2, <1>3

LEMMA CheckAssigneeETag ==
    ASSUME TypeOK, TypeOK', ETagInductive, NEW c \in Clients, CheckAssignee(c)
    PROVE  ETagInductive'
<1>1. "label" \in Steps
  BY DEF Steps
<1> QED
  BY <1>1, MoveOnSilently DEF CheckAssignee, At, tables, StampPending

LEMMA CheckLabelETag ==
    ASSUME TypeOK, TypeOK', ETagInductive, NEW c \in Clients, CheckLabel(c)
    PROVE  ETagInductive'
<1>1. "release" \in Steps
  BY DEF Steps
<1> QED
  BY <1>1, MoveOnSilently DEF CheckLabel, At, tables, StampPending

LEMMA CheckReleaseETag ==
    ASSUME TypeOK, TypeOK', ETagInductive, NEW c \in Clients, CheckRelease(c)
    PROVE  ETagInductive'
<1> DEFINE step == AfterChecks(req[c])
<1>1. req[c].pc = "release" /\ req[c].new.etag = NoETag
  BY DEF CheckRelease, At, ETagInductive, UnstampedSoFar
<1>2. Finish(c) \/ Goto(c, step)
  BY DEF CheckRelease
<1>3. step \in {"maxpos", "idle", "stamp", "position", "reread"}
  BY DEF AfterChecks
<1>4. UNCHANGED <<issue, label, release, clock, seen>>
  BY DEF CheckRelease, tables
<1> HIDE DEF step
<1>5. step \in Steps
  BY <1>3 DEF Steps
<1> QED
  BY <1>1, <1>2, <1>3, <1>4, <1>5, MoveOnSilently DEF StampPending

LEMMA CheckTargetProjectETag ==
    ASSUME TypeOK, TypeOK', ETagInductive, NEW c \in Clients, CheckTargetProject(c)
    PROVE  ETagInductive'
<1>1. CASE Finish(c)
  <2>1. "idle" \in Steps
    BY DEF Steps
  <2> QED
    BY <1>1, <2>1, MoveOnSilently DEF CheckTargetProject, tables
<1>2. CASE req' = [req EXCEPT ![c].pc = "stamp", ![c].new = Moved(@, req[c].prj)]
  <2>1. /\ req'[c].pc = "stamp" /\ req'[c].op = req[c].op /\ req'[c].iss = req[c].iss
        /\ req'[c].cur = req[c].cur /\ req'[c].new = Moved(req[c].new, req[c].prj)
    BY <1>2 DEF TypeOK, Requests
  <2>2. req'[c].new.etag = req[c].new.etag
    BY <2>1 DEF Moved, TypeOK, Requests, Rows
  <2>3. \A d \in Clients \ {c} : req'[d] = req[d]
    BY <1>2 DEF TypeOK
  <2>4. UNCHANGED <<issue, label, release, clock, seen>> /\ req[c].pc = "project"
    BY DEF CheckTargetProject, At, tables
  <2> QED
    BY <2>1, <2>2, <2>3, <2>4, MoveOn DEF Retired, TypeOK, StampPending
<1> QED
  BY <1>1, <1>2 DEF CheckTargetProject

LEMMA SelectMaxPositionETag ==
    ASSUME TypeOK, TypeOK', ETagInductive, NEW c \in Clients, SelectMaxPosition(c)
    PROVE  ETagInductive'
<1>1. PICK m \in 0 .. MaxPos - 1 :
        req' = [req EXCEPT ![c].pc = "stamp", ![c].new.pos = m + 1]
  BY DEF SelectMaxPosition
<1>2. /\ req'[c].pc = "stamp" /\ req'[c].op = req[c].op /\ req'[c].iss = req[c].iss
      /\ req'[c].cur = req[c].cur /\ req'[c].new.etag = req[c].new.etag
  BY <1>1 DEF TypeOK, Requests, Rows
<1>3. \A d \in Clients \ {c} : req'[d] = req[d]
  BY <1>1 DEF TypeOK
<1>4. UNCHANGED <<issue, label, release, clock, seen>> /\ req[c].pc = "maxpos"
  BY DEF SelectMaxPosition, At, tables
<1> QED
  BY <1>2, <1>3, <1>4, MoveOn DEF Retired, TypeOK, StampPending

\* A handler takes a time stamp that it has yet to write.
LEMMA TakeStamp ==
    ASSUME TypeOK, TypeOK', ETagInductive, Retired, clock' = clock + 1, UNCHANGED issue,
           NEW c \in Clients, \A d \in Clients \ {c} : req'[d] = req[d],
           \A d \in Clients : seen'[d] \in {seen[d], NoView},
           StampPending(c)', req'[c].new.etag = clock, Known(req'[c].cur.etag),
           req'[c].op = "put" =>
             req[c].op = "put" /\ req'[c].iss = req[c].iss /\ req'[c].cur = req[c].cur
    PROVE  ETagInductive'
<1>1. /\ NoView.row.etag = NoETag /\ NoView.iss \notin Issues
      /\ NoETag < clock /\ clock \in Nat
  BY IdAssumption DEF NoView, NoRow, NoETag, TypeOK
<1>2. /\ \A i \in Issues : issue[i].etag < clock /\ issue[i].etag \in Nat
      /\ \A d \in Clients : /\ seen[d].row.etag < clock /\ seen[d].row.etag \in Nat
                            /\ req[d].cur.etag < clock /\ req[d].cur.etag \in Nat
                            /\ req[d].new.etag < clock /\ req[d].new.etag \in Nat
      /\ req'[c].cur.etag < clock /\ req'[c].cur.etag \in Nat
  BY KnownStamps DEF ETagInductive, StampsInPast, TypeOK, Rows, Views, Requests
<1>3. StampsInPast'
  <2>1. \A i \in Issues : issue'[i].etag < clock' /\ (Live(i)' => issue'[i].etag > NoETag)
    BY <1>1, <1>2 DEF ETagInductive, StampsInPast, Live
  <2>2. ASSUME NEW d \in Clients
        PROVE  seen'[d].row.etag < clock' /\ req'[d].cur.etag < clock' /\ req'[d].new.etag < clock'
    <3>1. seen'[d].row.etag < clock'
      <4>1. CASE seen'[d] = NoView
        BY <1>1, <4>1 DEF NoETag
      <4>2. CASE seen'[d] = seen[d]
        BY <1>1, <1>2, <4>2
      <4> QED
        BY <4>1, <4>2
    <3>2. CASE d = c
      BY <1>1, <1>2, <3>1, <3>2
    <3>3. CASE d # c
      <4>1. req'[d] = req[d]
        BY <3>3
      <4> QED
        BY <1>1, <1>2, <3>1, <4>1
    <3> QED
      BY <3>2, <3>3
  <2> QED
    BY <2>1, <2>2 DEF StampsInPast
<1>4. ASSUME NEW d \in Clients, StampPending(d)'
      PROVE  /\ req'[d].new.etag > NoETag
             /\ \A i \in Issues : issue'[i].etag # req'[d].new.etag
             /\ \A b \in Clients : /\ seen'[b].row.etag # req'[d].new.etag
                                   /\ req'[b].cur.etag # req'[d].new.etag
                                   /\ b # d => req'[b].new.etag # req'[d].new.etag
  <2>1. CASE d = c
    BY <1>1, <1>2, <2>1 DEF NoETag
  <2>2. CASE d # c
    <3>1. StampPending(d) /\ req'[d] = req[d]
      BY <1>4, <2>2 DEF StampPending
    <3>2. req[d].new.etag # req'[c].cur.etag /\ req[d].new.etag # req'[c].new.etag
      BY <1>2, <3>1, KnownStamps
    <3> QED
      BY <1>1, <3>1, <3>2 DEF ETagInductive, PendingStampsFresh, NoETag
  <2> QED
    BY <2>1, <2>2
<1>5. PendingStampsFresh'
  BY <1>4 DEF PendingStampsFresh
<1>6. UnstampedSoFar'
  BY DEF ETagInductive, UnstampedSoFar, StampPending
<1>7. ETagNamesVersion'
  <2> SUFFICES ASSUME NEW d \in Clients, NEW i \in Issues
               PROVE  /\ seen'[d].iss = i => CopyHolds(i, seen[d].row)'
                      /\ req'[d].iss = i /\ req'[d].op = "put" => CopyHolds(i, req[d].cur)'
                      /\ req'[d].iss = i /\ req'[d].pc \in {"reread", "record", "respond"}
                           => CopyHolds(i, req[d].new)'
    BY DEF ETagNamesVersion
  <2>1. Kept(i)
    BY DEF Kept
  <2>2. seen[d].row \in Rows /\ req[d].cur \in Rows /\ req[d].new \in Rows
    BY DEF TypeOK, Views, Requests
  <2>3. ASSUME seen'[d].iss = i PROVE CopyHolds(i, seen[d].row)'
    <3>1. seen'[d] = seen[d] /\ CopyHolds(i, seen[d].row)
      BY <1>1, <2>3 DEF ETagInductive, ETagNamesVersion
    <3> QED
      BY <2>1, <2>2, <3>1, CopyStable DEF CopyHolds, SameVersion, Live
  <2>4. ASSUME req'[d].iss = i, req'[d].op = "put" PROVE CopyHolds(i, req[d].cur)'
    <3>1. req'[d].cur = req[d].cur /\ CopyHolds(i, req[d].cur)
      BY <2>4 DEF ETagInductive, ETagNamesVersion
    <3> QED
      BY <2>1, <2>2, <3>1, CopyStable DEF CopyHolds, SameVersion, Live
  <2>5. ASSUME req'[d].iss = i, req'[d].pc \in {"reread", "record", "respond"}
        PROVE  CopyHolds(i, req[d].new)'
    <3>1. d # c
      BY <2>5 DEF StampPending
    <3>2. req'[d].new = req[d].new /\ CopyHolds(i, req[d].new)
      BY <2>5, <3>1 DEF ETagInductive, ETagNamesVersion
    <3> QED
      BY <2>1, <2>2, <3>2, CopyStable DEF CopyHolds, SameVersion, Live
  <2> QED
    BY <2>3, <2>4, <2>5
<1> QED
  BY <1>3, <1>5, <1>6, <1>7 DEF ETagInductive

LEMMA StampETag ==
    ASSUME TypeOK, TypeOK', ETagInductive, NEW c \in Clients, Stamp(c)
    PROVE  ETagInductive'
<1>1. /\ req'[c].pc \in {"insert", "write"} /\ req'[c].op = req[c].op
      /\ req'[c].iss = req[c].iss /\ req'[c].cur = req[c].cur /\ req'[c].new.etag = clock
  BY DEF Stamp, TypeOK, Requests, Rows
<1>2. \A d \in Clients \ {c} : req'[d] = req[d]
  BY DEF Stamp, TypeOK
<1>3. UNCHANGED <<issue, label, release, seen>> /\ clock' = clock + 1
  BY DEF Stamp, tables
<1>4. Known(req'[c].cur.etag)
  BY <1>1 DEF Known
<1> QED
  BY <1>1, <1>2, <1>3, <1>4, TakeStamp DEF Retired, StampPending

LEMMA TriggerReleaseETag ==
    ASSUME TypeOK, TypeOK', ETagInductive, NEW c \in Clients, NEW r \in Releases,
           NEW archiveDone \in BOOLEAN, TriggerRelease(c, r, archiveDone)
    PROVE  ETagInductive'
<1>1. Retired
  BY DEF TriggerRelease, Retired, TypeOK, ReleaseRows
<1>2. UNCHANGED issue /\ clock' = clock + 1
  BY DEF TriggerRelease
<1>3. \A d \in Clients \ {c} : req'[d] = req[d]
  BY DEF TriggerRelease, Start, TypeOK
<1>4. \A d \in Clients : seen'[d] \in {seen[d], NoView}
  BY DEF TriggerRelease, Start, TypeOK
<1>5. CASE archiveDone
  <2>1. /\ req'[c].pc = "archiveDone" /\ req'[c].op = "triggerRelease"
        /\ req'[c].new.etag = clock /\ req'[c].cur.etag = NoETag
    BY <1>5 DEF TriggerRelease, Start, Idle, NoRow, TypeOK
  <2> QED
    BY <1>1, <1>2, <1>3, <1>4, <2>1, TakeStamp DEF Known, StampPending
<1>6. CASE ~archiveDone
  <2>1. req'[c] = Idle
    BY <1>6 DEF TriggerRelease, Start, TypeOK
  <2>2. \A d \in Clients : seen'[d] = seen[d] \/ ViewFine(d, {})
    BY <1>4, NothingFine
  <2> QED
    BY <1>1, <1>2, <1>3, <2>1, <2>2, MoveOn DEF TypeOK
<1> QED
  BY <1>5, <1>6

LEMMA RereadIssueETag ==
    ASSUME TypeOK, TypeOK', ETagInductive, NEW c \in Clients, req[c].iss \in Issues,
           RereadIssue(c)
    PROVE  ETagInductive'
<1> DEFINE i == req[c].iss
<1>1. UNCHANGED <<issue, label, release, clock>> /\ req[c].pc = "reread"
  BY DEF RereadIssue, At, tables
<1>2. \A d \in Clients \ {c} : req'[d] = req[d] /\ seen'[d] = seen[d]
  BY DEF RereadIssue, Goto, Finish, Receive, TypeOK
<1>3. seen'[c] = seen[c] \/ seen'[c] = [iss |-> i, row |-> issue[i]]
  BY DEF RereadIssue, Receive, TypeOK
<1>4. ASSUME seen'[c] = [iss |-> i, row |-> issue[i]] PROVE ViewFine(c, {})
  BY <1>1, <1>4 DEF ViewFine, Settled, Known, CopyHolds, SameVersion, Live
<1>5. \/ req'[c] = Idle
      \/ /\ req'[c].pc \in {"record", "respond"} /\ req'[c].op = req[c].op
         /\ req'[c].iss = req[c].iss /\ req'[c].cur = req[c].cur /\ req'[c].new = req[c].new
  BY DEF RereadIssue, Goto, Finish, TypeOK, Requests
<1> HIDE DEF i
<1> QED
  BY <1>1, <1>2, <1>3, <1>4, <1>5, MoveOn DEF Retired, TypeOK, StampPending

LEMMA RespondWithUpdatedIssueETag ==
    ASSUME TypeOK, TypeOK', ETagInductive, NEW c \in Clients, req[c].iss \in Issues,
           RespondWithUpdatedIssue(c)
    PROVE  ETagInductive'
<1> DEFINE i == req[c].iss
<1>1. UNCHANGED <<issue, label, release, clock>> /\ req[c].pc = "respond"
  BY DEF RespondWithUpdatedIssue, At, tables
<1>2. \A d \in Clients \ {c} : req'[d] = req[d] /\ seen'[d] = seen[d]
  BY DEF RespondWithUpdatedIssue, Goto, Finish, Receive, TypeOK
<1>3. seen'[c] = seen[c] \/ seen'[c] = [iss |-> i, row |-> issue[i]]
  BY DEF RespondWithUpdatedIssue, Receive, TypeOK
<1>4. ASSUME seen'[c] = [iss |-> i, row |-> issue[i]] PROVE ViewFine(c, {})
  BY <1>1, <1>4 DEF ViewFine, Settled, Known, CopyHolds, SameVersion, Live
<1>5. \/ req'[c] = Idle
      \/ /\ req'[c].pc = "panic" /\ req'[c].op = req[c].op
         /\ req'[c].iss = req[c].iss /\ req'[c].cur = req[c].cur /\ req'[c].new = req[c].new
  BY DEF RespondWithUpdatedIssue, Goto, Finish, TypeOK, Requests
<1> HIDE DEF i
<1> QED
  BY <1>1, <1>2, <1>3, <1>4, <1>5, MoveOn DEF Retired, TypeOK, StampPending

LEMMA RecordHistoryETag ==
    ASSUME TypeOK, TypeOK', ETagInductive, NEW c \in Clients, req[c].iss \in Issues,
           RecordHistory(c)
    PROVE  ETagInductive'
<1> DEFINE i == req[c].iss
<1>1. UNCHANGED <<issue, label, release, clock>> /\ req[c].pc = "record"
  BY DEF RecordHistory, At
<1>2. \A d \in Clients \ {c} : req'[d] = req[d] /\ seen'[d] = seen[d]
  BY DEF RecordHistory, Goto, Finish, Receive, TypeOK
<1>3. seen'[c] = seen[c] \/ seen'[c] = [iss |-> i, row |-> req[c].new]
  BY DEF RecordHistory, Receive, TypeOK
<1>4. ASSUME seen'[c] = [iss |-> i, row |-> req[c].new] PROVE ViewFine(c, {})
  <2>1. Known(req[c].new.etag)
    BY <1>1 DEF Known, StampPending
  <2>2. CopyHolds(i, req[c].new)
    BY <1>1 DEF ETagInductive, ETagNamesVersion
  <2> QED
    BY <1>1, <1>4, <2>1, <2>2 DEF ViewFine, Settled, CopyHolds, SameVersion, Live
<1>5. \/ req'[c] = Idle
      \/ /\ req'[c].pc = "respond" /\ req'[c].op = req[c].op
         /\ req'[c].iss = req[c].iss /\ req'[c].cur = req[c].cur /\ req'[c].new = req[c].new
  BY DEF RecordHistory, Goto, Finish, TypeOK, Requests
<1> HIDE DEF i
<1> QED
  BY <1>1, <1>2, <1>3, <1>4, <1>5, MoveOn DEF Retired, TypeOK, StampPending

LEMMA EndETag ==
    ASSUME TypeOK, TypeOK', ETagInductive, NEW c \in Clients, RecoverPanic(c) \/ Abort(c)
    PROVE  ETagInductive'
<1>1. "idle" \in Steps
  BY DEF Steps
<1> QED
  BY <1>1, MoveOnSilently DEF RecoverPanic, Abort, tables

LEMMA UpdateReleaseETag ==
    ASSUME TypeOK, TypeOK', ETagInductive, NEW c \in Clients, UpdateRelease(c)
    PROVE  ETagInductive'
<1>1. Retired
  BY DEF UpdateRelease, Retired, TypeOK, ReleaseRows
<1>2. req'[c] = Idle /\ \A d \in Clients \ {c} : req'[d] = req[d]
  BY DEF UpdateRelease, Finish, TypeOK
<1>3. UNCHANGED <<issue, clock, seen>>
  BY DEF UpdateRelease
<1> QED
  BY <1>1, <1>2, <1>3, MoveOn DEF TypeOK

-----------------------------------------------------------------------------
(* Steps that write rows of issues.                                        *)

\* Nobody but the handler that took it knows a pending stamp.
LEMMA PendingUnknown ==
    ASSUME TypeOK, ETagInductive, NEW c \in Clients, StampPending(c)
    PROVE  /\ ~Known(req[c].new.etag)
           /\ req[c].new.etag > NoETag /\ req[c].new.etag < clock /\ req[c].new.etag \in Nat
           /\ \A d \in Clients \ {c} : StampPending(d) => req[d].new.etag # req[c].new.etag
<1>1. req[c].new.etag > NoETag /\ req[c].new.etag < clock /\ req[c].new.etag \in Nat
  BY DEF ETagInductive, StampsInPast, PendingStampsFresh, TypeOK, Requests, Rows
<1> QED
  BY <1>1, KnownStamps DEF ETagInductive, PendingStampsFresh

LEMMA UpdateIssuePositionETag ==
    ASSUME TypeOK, TypeOK', ETagInductive, NEW c \in Clients, req[c].iss \in Issues,
           UpdateIssuePosition(c)
    PROVE  ETagInductive'
<1> DEFINE i == req[c].iss
<1>1. CASE Finish(c) /\ UNCHANGED issue
  <2>1. "idle" \in Steps
    BY DEF Steps
  <2> QED
    BY <1>1, <2>1, MoveOnSilently DEF UpdateIssuePosition
<1>2. CASE Goto(c, "reread") /\ issue' = [issue EXCEPT ![i] = Repositioned(@, req[c].new)]
  <2>1. \A j \in Issues : Kept(j)
    BY <1>2 DEF Kept, Repositioned, TypeOK, Rows
  <2>2. /\ req'[c].pc = "reread" /\ req'[c].op = req[c].op /\ req'[c].iss = i
        /\ req'[c].cur = req[c].cur /\ req'[c].new = req[c].new
        /\ \A d \in Clients \ {c} : req'[d] = req[d]
    BY <1>2 DEF Goto, TypeOK, Requests
  <2>3. req[c].new.etag = NoETag
    BY DEF UpdateIssuePosition, At, ETagInductive, UnstampedSoFar
  <2>4. ASSUME NEW j \in Issues PROVE CopyHolds(j, req[c].new)'
    <3>1. Live(j)' => Live(j) /\ issue'[j].etag = issue[j].etag
      BY <2>1 DEF Kept, Live
    <3>2. Live(j) => issue[j].etag > NoETag /\ issue[j].etag \in Nat
      BY DEF ETagInductive, StampsInPast, TypeOK, Rows
    <3> QED
      BY <2>2, <2>3, <3>1, <3>2 DEF CopyHolds, NoETag
  <2>5. RequestFine(c, {})
    BY <2>2, <2>3, <2>4 DEF RequestFine, Settled, Known, StampPending
  <2>6. Retired /\ clock' >= clock /\ UNCHANGED seen
    BY DEF UpdateIssuePosition, Retired, TypeOK
  <2> QED
    BY <2>1, <2>2, <2>5, <2>6, KeepStep
<1> QED
  BY <1>1, <1>2 DEF UpdateIssuePosition

\* A pending stamp is written, with its row, to one issue.
LEMMA WriteStamped ==
    ASSUME TypeOK, TypeOK', ETagInductive, NEW c \in Clients, NEW i \in Issues,
           StampPending(c), issue' = [issue EXCEPT ![i] = req[c].new],
           UNCHANGED <<label, release, clock, seen>>,
           \A d \in Clients \ {c} : req'[d] = req[d],
           req'[c].pc \in {"reread", "record"}, req'[c].iss = i, req'[c].new = req[c].new,
           req'[c].cur = req[c].cur, req'[c].op = req[c].op, req[c].op = "put" => req[c].iss = i
    PROVE  ETagInductive'
<1> DEFINE R == {req[c].new.etag}
<1>1. \A j \in Issues : Kept(j) \/ issue'[j].etag \in R
  BY DEF Kept, TypeOK
<1>2. \A e \in R : /\ e > NoETag /\ e < clock' /\ ~Known(e)
                   /\ \A d \in Clients : StampPending(d)' => req'[d].new.etag # e
  BY PendingUnknown DEF StampPending
<1>3. CopyHolds(i, req[c].new)'
  BY DEF CopyHolds, SameVersion, TypeOK
<1>4. RequestFine(c, R)
  <2>1. Settled(req'[c].cur.etag, R) /\ Settled(req'[c].new.etag, R)
    BY DEF Settled, Known
  <2> QED
    BY <1>3, <2>1 DEF RequestFine, StampPending
<1>5. R \in SUBSET Nat
  BY PendingUnknown
<1> HIDE DEF R
<1> QED
  BY <1>1, <1>2, <1>4, <1>5, ETagStep DEF Retired, TypeOK

LEMMA UpdateIssueETag ==
    ASSUME TypeOK, TypeOK', ETagInductive, NEW c \in Clients, req[c].iss \in Issues,
           UpdateIssue(c)
    PROVE  ETagInductive'
<1> DEFINE i == req[c].iss
           step == IF req[c].op = "put" THEN "reread" ELSE "record"
<1>1. CASE Finish(c) /\ UNCHANGED issue
  <2>1. "idle" \in Steps
    BY DEF Steps
  <2> QED
    BY <1>1, <2>1, MoveOnSilently DEF UpdateIssue
<1>2. CASE Goto(c, step) /\ issue' = [issue EXCEPT ![i] = req[c].new]
  <2>1. /\ req'[c].pc \in {"reread", "record"} /\ req'[c].op = req[c].op /\ req'[c].iss = i
        /\ req'[c].cur = req[c].cur /\ req'[c].new = req[c].new
        /\ \A d \in Clients \ {c} : req'[d] = req[d]
    BY <1>2 DEF Goto, TypeOK, Requests
  <2>2. UNCHANGED <<label, release, clock, seen>> /\ StampPending(c)
    BY DEF UpdateIssue, At, StampPending
  <2> QED
    BY <1>2, <2>1, <2>2, WriteStamped
<1> QED
  BY <1>1, <1>2 DEF UpdateIssue, Written

LEMMA InsertIssueETag ==
    ASSUME TypeOK, TypeOK', ETagInductive, NEW c \in Clients, req[c].op = "create",
           InsertIssue(c)
    PROVE  ETagInductive'
<1>1. CASE Finish(c) /\ UNCHANGED issue
  <2>1. "idle" \in Steps
    BY DEF Steps
  <2> QED
    BY <1>1, <2>1, MoveOnSilently DEF InsertIssue
<1>2. CASE ~(Finish(c) /\ UNCHANGED issue)
  <2>1. PICK i \in Issues : /\ issue' = [issue EXCEPT ![i] = req[c].new]
                            /\ req' = [req EXCEPT ![c].pc = "record", ![c].iss = i]
    BY <1>2 DEF InsertIssue
  <2>2. /\ req'[c].pc = "record" /\ req'[c].op = req[c].op /\ req'[c].iss = i
        /\ req'[c].cur = req[c].cur /\ req'[c].new = req[c].new
        /\ \A d \in Clients \ {c} : req'[d] = req[d]
    BY <2>1 DEF TypeOK, Requests
  <2>3. UNCHANGED <<label, release, clock, seen>> /\ StampPending(c)
    BY DEF InsertIssue, At, StampPending
  <2> QED
    BY <2>1, <2>2, <2>3, WriteStamped
<1> QED
  BY <1>1, <1>2

LEMMA DeleteIssueRowETag ==
    ASSUME TypeOK, TypeOK', ETagInductive, NEW c \in Clients, DeleteIssueRow(c)
    PROVE  ETagInductive'
<1>1. \A j \in Issues : Kept(j) \/ (~Live(j)' /\ issue'[j].etag = NoETag)
  BY IdAssumption DEF DeleteIssueRow, Kept, Live, TypeOK, NoRow
<1>2. req'[c] = Idle /\ \A d \in Clients \ {c} : req'[d] = req[d]
  BY DEF DeleteIssueRow, Finish, TypeOK
<1>3. Retired /\ clock' >= clock /\ UNCHANGED seen
  BY DEF DeleteIssueRow, Retired, TypeOK
<1>4. RequestFine(c, {})
  BY <1>2, NothingFine
<1> QED
  BY <1>1, <1>2, <1>3, <1>4, KeepStep

LEMMA ArchiveDoneIssuesETag ==
    ASSUME TypeOK, TypeOK', ETagInductive, NEW c \in Clients, ArchiveDoneIssues(c)
    PROVE  ETagInductive'
<1> DEFINE R == {req[c].new.etag}
<1>1. ASSUME NEW j \in Issues PROVE Kept(j) \/ issue'[j].etag \in R
  <2>1. issue'[j] = issue[j] \/ issue'[j] = ArchivedByRelease(issue[j], req[c].new.etag)
    BY DEF ArchiveDoneIssues
  <2>2. ArchivedByRelease(issue[j], req[c].new.etag).etag = req[c].new.etag
    BY DEF ArchivedByRelease, TypeOK, Rows
  <2> QED
    BY <2>1, <2>2 DEF Kept
<1>2. req'[c] = Idle /\ \A d \in Clients \ {c} : req'[d] = req[d]
  BY DEF ArchiveDoneIssues, Finish, TypeOK
<1>3. UNCHANGED <<label, release, clock, seen>> /\ StampPending(c)
  BY DEF ArchiveDoneIssues, At, StampPending
<1>4. RequestFine(c, R)
  BY <1>2, NothingFine
<1>5. \A e \in R : /\ e > NoETag /\ e < clock' /\ ~Known(e)
                   /\ \A d \in Clients : StampPending(d)' => req'[d].new.etag # e
  BY <1>2, <1>3, <1>4, PendingUnknown DEF RequestFine, StampPending
<1>6. R \in SUBSET Nat
  BY <1>3, PendingUnknown
<1> HIDE DEF R
<1> QED
  BY <1>1, <1>2, <1>3, <1>4, <1>5, <1>6, ETagStep DEF Retired, TypeOK

\* References dropped by ON DELETE SET NULL.
LEMMA DropKeeps ==
    ASSUME TypeOK, NEW ls \in SUBSET Labels, NEW rs \in SUBSET Releases,
           issue' = DropReferences(ls, rs),
           \A l \in ls : label'[l] = Gone, \A r \in rs : release'[r].project = Gone
    PROVE  \A i \in Issues : Kept(i)
<1> SUFFICES ASSUME NEW i \in Issues PROVE Kept(i)
  OBVIOUS
<1> DEFINE row == issue[i]
<1>1. row \in Rows
  BY DEF TypeOK
<1>2. issue'[i] = [row EXCEPT !.label = IF row.label \in ls THEN Null ELSE row.label,
                              !.release = IF row.release \in rs THEN Null ELSE row.release]
  BY DEF DropReferences
<1> HIDE DEF row
<1>3. /\ issue'[i].project = row.project
      /\ issue'[i].status = row.status
      /\ issue'[i].assignee = row.assignee
      /\ issue'[i].text = row.text
      /\ issue'[i].etag = row.etag
  BY <1>1, <1>2 DEF Rows
<1>4. issue'[i].label = IF row.label \in ls THEN Null ELSE row.label
  BY <1>1, <1>2 DEF Rows
<1>5. issue'[i].release = IF row.release \in rs THEN Null ELSE row.release
  BY <1>1, <1>2 DEF Rows
<1> QED
  BY <1>3, <1>4, <1>5 DEF Kept, row

LEMMA DeleteProjectRowETag ==
    ASSUME TypeOK, TypeOK', ETagInductive, NEW c \in Clients, DeleteProjectRow(c)
    PROVE  ETagInductive'
<1> DEFINE p == req[c].prj
           ls == {l \in Labels : label[l] = p}
           rs == {r \in Releases : release[r].project = p}
<1>1. req'[c] = Idle /\ \A d \in Clients \ {c} : req'[d] = req[d]
  BY DEF DeleteProjectRow, Finish, TypeOK
<1>2. UNCHANGED <<clock, seen>>
  BY DEF DeleteProjectRow
<1>3. CASE UNCHANGED <<project, label, release, issue>>
  BY <1>1, <1>2, <1>3, MoveOn DEF Retired, TypeOK
<1>4. CASE ~UNCHANGED <<project, label, release, issue>>
  <2>1. /\ label' = [l \in Labels |-> IF l \in ls THEN Gone ELSE label[l]]
        /\ release' = [r \in Releases |->
                         IF r \in rs THEN [NoRelease EXCEPT !.project = Gone] ELSE release[r]]
        /\ issue' = DropReferences(ls, rs)
    BY <1>4 DEF DeleteProjectRow
  <2>2. [NoRelease EXCEPT !.project = Gone].project = Gone
    BY DEF NoRelease
  <2> HIDE DEF ls, rs
  <2>3. Retired /\ (\A l \in Labels : l \in ls => label'[l] = Gone)
        /\ \A r \in Releases : r \in rs => release'[r].project = Gone
    BY <2>1, <2>2 DEF Retired
  <2>4. \A i \in Issues : Kept(i)
    BY <2>1, <2>3, DropKeeps DEF ls, rs
  <2>5. RequestFine(c, {})
    BY <1>1, NothingFine
  <2> QED
    BY <1>1, <1>2, <2>3, <2>4, <2>5, KeepStep DEF TypeOK
<1> QED
  BY <1>3, <1>4

\* Requests and clients are left alone.
LEMMA AdministerETag ==
    ASSUME TypeOK, TypeOK', ETagInductive,
           Administer \/ \E c \in Clients, p \in Projects, S \in SUBSET Issues :
                           \E f \in [S -> 0 .. MaxPos] : UpdateIssuePositions(c, p, S, f)
    PROVE  ETagInductive'
<1>1. ASSUME NEW l \in Labels, DeleteLabel(l) PROVE ETagInductive'
  <2>1. \A i \in Issues : Kept(i)
    BY <1>1, DropKeeps DEF DeleteLabel, TypeOK
  <2>2. Retired /\ clock' >= clock /\ UNCHANGED <<req, seen>>
    BY <1>1 DEF DeleteLabel, Retired, TypeOK
  <2> QED
    BY <2>1, <2>2, KeepStep
<1>2. ASSUME NEW r \in Releases, DeleteRelease(r) PROVE ETagInductive'
  <2>1. release'[r].project = Gone
    BY <1>2 DEF DeleteRelease, NoRelease, TypeOK
  <2>2. \A i \in Issues : Kept(i)
    BY <1>2, <2>1, DropKeeps DEF DeleteRelease
  <2>3. Retired /\ clock' >= clock /\ UNCHANGED <<req, seen>>
    BY <1>2, <2>1 DEF DeleteRelease, Retired, TypeOK
  <2> QED
    BY <2>2, <2>3, KeepStep
<1>3. ASSUME NEW u \in Users, DeleteUser(u) PROVE ETagInductive'
  <2> DEFINE R == {clock}
  <2>1. ASSUME NEW i \in Issues PROVE Kept(i) \/ issue'[i].etag \in R
    <3>1. issue'[i] = issue[i] \/ issue'[i] = Unassigned(issue[i], clock)
      BY <1>3 DEF DeleteUser
    <3>2. Unassigned(issue[i], clock).etag = clock
      BY DEF Unassigned, TypeOK, Rows
    <3> QED
      BY <3>1, <3>2 DEF Kept
  <2>2. ~Known(clock) /\ clock > NoETag /\ clock \in Nat /\ clock' = clock + 1
    BY <1>3, KnownStamps DEF DeleteUser, TypeOK, NoETag
  <2>3. \A d \in Clients : req[d].new.etag < clock
    BY DEF ETagInductive, StampsInPast
  <2>4. UNCHANGED <<label, release, req, seen>>
    BY <1>3 DEF DeleteUser
  <2>5. \A e \in R : /\ e > NoETag /\ e < clock' /\ ~Known(e)
                     /\ \A d \in Clients : StampPending(d)' => req'[d].new.etag # e
    BY <2>2, <2>3, <2>4
  <2>6. clock' >= clock /\ R \in SUBSET Nat
    BY <2>2
  <2> HIDE DEF R
  <2> QED
    BY <2>1, <2>4, <2>5, <2>6, ETagStep DEF Retired
<1>4. ASSUME NEW c \in Clients, NEW p \in Projects, NEW S \in SUBSET Issues,
             NEW f \in [S -> 0 .. MaxPos], UpdateIssuePositions(c, p, S, f)
      PROVE  ETagInductive'
  <2>1. \A i \in Issues : Kept(i)
    BY <1>4 DEF UpdateIssuePositions, Kept, TypeOK, Rows
  <2>2. Retired /\ clock' >= clock /\ UNCHANGED <<req, seen>>
    BY <1>4 DEF UpdateIssuePositions, Retired, TypeOK
  <2> QED
    BY <2>1, <2>2, KeepStep
<1>5. ASSUME NEW l \in Labels, NEW p \in Projects, CreateLabel(l, p) PROVE ETagInductive'
  <2>1. Retired
    BY <1>5, IdAssumption DEF CreateLabel, Retired, TypeOK
  <2> QED
    BY <1>5, <2>1, QuietStep DEF CreateLabel, TypeOK
<1>6. ASSUME NEW r \in Releases, NEW p \in Projects, NEW n \in Names, CreateRelease(r, p, n)
      PROVE  ETagInductive'
  <2>1. Retired
    BY <1>6, IdAssumption DEF CreateRelease, Retired, TypeOK
  <2> QED
    BY <1>6, <2>1, QuietStep DEF CreateRelease, TypeOK
<1>7. ASSUME NEW r \in Releases, ReopenRelease(r) PROVE ETagInductive'
  <2>1. Retired
    BY <1>7 DEF ReopenRelease, Retired, TypeOK, ReleaseRows
  <2> QED
    BY <1>7, <2>1, QuietStep DEF ReopenRelease, TypeOK
<1>8. ASSUME NEW p \in Projects, CreateProject(p) PROVE ETagInductive'
  BY <1>8, QuietStep DEF CreateProject, Retired, TypeOK
<1>9. ASSUME NEW u \in Users, NEW s \in {"active", "inactive"}, SetUserActive(u, s)
      PROVE  ETagInductive'
  BY <1>9, QuietStep DEF SetUserActive, Retired, TypeOK
<1> QED
  BY <1>1, <1>2, <1>3, <1>4, <1>5, <1>6, <1>7, <1>8, <1>9 DEF Administer

-----------------------------------------------------------------------------
LEMMA InitETag == Init => ETagInductive
<1> SUFFICES ASSUME Init PROVE ETagInductive
  OBVIOUS
<1>1. /\ NoRow.etag = NoETag /\ NoRow.project \notin Projects /\ NoView.iss \notin Issues
      /\ NoView.row.etag = NoETag /\ Idle.pc = "idle" /\ Idle.iss \notin Issues
      /\ Idle.cur.etag = NoETag /\ Idle.new.etag = NoETag
  BY IdAssumption DEF NoRow, NoView, Idle
<1>2. StampsInPast
  BY <1>1 DEF Init, StampsInPast, Live, NoETag
<1>3. PendingStampsFresh /\ UnstampedSoFar /\ ETagNamesVersion
  BY <1>1 DEF Init, PendingStampsFresh, StampPending, UnstampedSoFar, ETagNamesVersion
<1> QED
  BY <1>2, <1>3 DEF ETagInductive

LEMMA NextETag ==
    ASSUME ReferencesInductive, ReferencesInductive', ETagInductive, Next
    PROVE  ETagInductive'
<1>1. TypeOK /\ TypeOK'
  BY DEF ReferencesInductive
<1>2. ASSUME NEW c \in Clients, Arrive(c) PROVE ETagInductive'
  <2>1. NoETag \in 0 .. MaxClock /\ seen[c].row.etag \in 0 .. MaxClock
    BY <1>1, DataAssumption DEF NoETag, TypeOK, Views, Rows
  <2> QED
    BY <1>1, <1>2, <2>1, GetIssueETag, PutIssueETag, CreateIssueETag, ToggleArchiveETag,
       MoveIssueETag, DeleteIssueETag, AdministerETag, DeleteProjectETag, PutReleaseETag,
       TriggerReleaseETag
    DEF Arrive
<1>3. ASSUME NEW c \in Clients, Proceed(c) PROVE ETagInductive'
  <2>1. RequestOK(req[c])
    BY DEF ReferencesInductive
  <2>2. req[c].pc \in {"position", "write", "reread", "record", "respond"} => req[c].iss \in Issues
    BY <2>1 DEF RequestOK, WriteOps, IssueOps
  <2>3. req[c].pc = "insert" => req[c].op = "create"
    BY <2>1 DEF RequestOK
  <2>4. UpdateIssuePosition(c) \/ UpdateIssue(c) \/ RereadIssue(c) \/ RecordHistory(c)
          \/ RespondWithUpdatedIssue(c) => req[c].iss \in Issues
    BY <2>2 DEF UpdateIssuePosition, UpdateIssue, RereadIssue, RecordHistory,
       RespondWithUpdatedIssue, At
  <2>5. InsertIssue(c) => req[c].op = "create"
    BY <2>3 DEF InsertIssue, At
  <2> QED
    BY <1>1, <1>3, <2>4, <2>5, CheckAssigneeETag, CheckLabelETag, CheckReleaseETag,
       UpdateIssuePositionETag, CheckTargetProjectETag, SelectMaxPositionETag, StampETag,
       UpdateIssueETag, InsertIssueETag, DeleteIssueRowETag, RereadIssueETag, RecordHistoryETag,
       RespondWithUpdatedIssueETag, EndETag, UpdateReleaseETag, ArchiveDoneIssuesETag,
       DeleteProjectRowETag
    DEF Proceed
<1>4. ASSUME NEW c \in Clients, Abort(c) PROVE ETagInductive'
  BY <1>1, <1>4, EndETag
<1> QED
  BY <1>1, <1>2, <1>3, <1>4, AdministerETag DEF Next

\* An ETag names one version: an issue that carries the ETag a client was sent, or a
\* handler read or wrote, holds the content that came with it, whatever the handlers'
\* statements did in between.
THEOREM ETagsNameVersions == Spec => []ETagNamesVersion
<1>1. ReferencesInductive /\ ReferencesInductive' /\ ETagInductive /\ [Next]_vars => ETagInductive'
  <2> SUFFICES ASSUME ReferencesInductive, ReferencesInductive', ETagInductive, [Next]_vars
               PROVE  ETagInductive'
    OBVIOUS
  <2>1. CASE UNCHANGED vars
    <3>1. UNCHANGED <<issue, label, release, clock, req, seen>>
      BY <2>1 DEF vars
    <3> QED
      BY <3>1, QuietStep DEF ReferencesInductive, Retired, TypeOK
  <2> QED
    BY <2>1, NextETag
<1>2. ETagInductive => ETagNamesVersion
  BY DEF ETagInductive
<1> QED
  BY <1>1, <1>2, InitETag, ReferencesInductiveHolds, PTL DEF Spec

-----------------------------------------------------------------------------
(* Deleted ids.                                                            *)

\* The statements that leave every table that hands out ids alone.
LEMMA TablesKept ==
    ASSUME UNCHANGED <<project, label, issue>>, TypeOK,
           \A r \in Releases : release[r].project = Gone => release'[r].project = Gone
    PROVE  StayDeleted
BY DEF StayDeleted

LEMMA WritersStayDeleted ==
    ASSUME ReferencesInductive, NEW c \in Clients, Proceed(c)
    PROVE  StayDeleted
<1>1. TypeOK /\ RequestOK(req[c])
  BY DEF ReferencesInductive
<1>2. CASE UpdateIssuePosition(c)
  BY <1>1, <1>2 DEF UpdateIssuePosition, Repositioned, StayDeleted, TypeOK, Rows
<1>3. CASE UpdateIssue(c)
  BY <1>1, <1>3, IdAssumption DEF UpdateIssue, RowAffected, Live, StayDeleted, TypeOK
<1>4. CASE InsertIssue(c)
  BY <1>1, <1>4, IdAssumption DEF InsertIssue, StayDeleted, TypeOK
<1>5. CASE DeleteIssueRow(c)
  BY <1>1, <1>5 DEF DeleteIssueRow, NoRow, StayDeleted, TypeOK
<1>6. CASE ArchiveDoneIssues(c)
  <2>1. \A i \in Issues : issue'[i].project = issue[i].project
    BY <1>1, <1>6 DEF ArchiveDoneIssues, ArchivedByRelease, TypeOK, Rows
  <2> QED
    BY <1>6, <2>1 DEF ArchiveDoneIssues, StayDeleted
<1>7. CASE UpdateRelease(c)
  <2>1. \A r \in Releases : release[r].project = Gone => release'[r].project = Gone
    BY <1>1, <1>7 DEF UpdateRelease, TypeOK, ReleaseRows
  <2> QED
    BY <1>1, <1>7, <2>1, TablesKept DEF UpdateRelease
<1>8. CASE DeleteProjectRow(c)
  <2>1. \A i \in Issues : issue'[i].project = issue[i].project
    BY <1>1, <1>8, DropReferencesOK DEF DeleteProjectRow
  <2>2. \A r \in Releases : release[r].project = Gone => release'[r].project = Gone
    BY <1>1, <1>8 DEF DeleteProjectRow, NoRelease
  <2>3. \A l \in Labels : label[l] = Gone => label'[l] = Gone
    BY <1>1, <1>8 DEF DeleteProjectRow
  <2>4. \A p \in Projects : project[p] = "gone" => project'[p] = "gone"
    BY <1>1, <1>8 DEF DeleteProjectRow, TypeOK
  <2> QED
    BY <2>1, <2>2, <2>3, <2>4 DEF StayDeleted
<1>9. CASE UNCHANGED <<project, label, release, issue>>
  BY <1>1, <1>9, TablesKept
<1> QED
  BY <1>2, <1>3, <1>4, <1>5, <1>6, <1>7, <1>8, <1>9
  DEF Proceed, CheckAssignee, CheckLabel, CheckRelease, CheckTargetProject, SelectMaxPosition,
      Stamp, RereadIssue, RecordHistory, RespondWithUpdatedIssue, RecoverPanic, tables

LEMMA ArrivalsStayDeleted ==
    ASSUME TypeOK, NEW c \in Clients, Arrive(c)
    PROVE  StayDeleted
<1>1. ASSUME NEW p \in Projects, NEW S \in SUBSET Issues, NEW f \in [S -> 0 .. MaxPos],
             UpdateIssuePositions(c, p, S, f)
      PROVE  StayDeleted
  BY <1>1 DEF UpdateIssuePositions, StayDeleted, TypeOK, Rows
<1>2. ASSUME NEW r \in Releases, NEW a \in BOOLEAN, TriggerRelease(c, r, a) PROVE StayDeleted
  <2>1. \A s \in Releases : release[s].project = Gone => release'[s].project = Gone
    BY <1>2 DEF TriggerRelease, TypeOK, ReleaseRows
  <2> QED
    BY <1>2, <2>1, TablesKept DEF TriggerRelease
<1>3. CASE UNCHANGED <<project, label, release, issue>>
  BY <1>3, TablesKept
<1> QED
  BY <1>1, <1>2, <1>3
  DEF Arrive, GetIssue, PutIssue, CreateIssue, ToggleArchive, MoveIssue, DeleteIssue,
      DeleteProject, PutRelease, tables

LEMMA AdministerStaysDeleted ==
    ASSUME TypeOK, Administer
    PROVE  StayDeleted
<1>1. ASSUME NEW l \in Labels, DeleteLabel(l) PROVE StayDeleted
  BY <1>1, DropReferencesOK DEF DeleteLabel, StayDeleted, TypeOK
<1>2. ASSUME NEW l \in Labels, NEW p \in Projects, CreateLabel(l, p) PROVE StayDeleted
  BY <1>2, IdAssumption DEF CreateLabel, StayDeleted, TypeOK
<1>3. ASSUME NEW r \in Releases, DeleteRelease(r) PROVE StayDeleted
  BY <1>3, DropReferencesOK DEF DeleteRelease, NoRelease, StayDeleted, TypeOK
<1>4. ASSUME NEW r \in Releases, ReopenRelease(r) PROVE StayDeleted
  BY <1>4 DEF ReopenRelease, StayDeleted, TypeOK, ReleaseRows
<1>5. ASSUME NEW r \in Releases, NEW p \in Projects, NEW n \in Names, CreateRelease(r, p, n)
      PROVE  StayDeleted
  BY <1>5, IdAssumption DEF CreateRelease, StayDeleted, TypeOK
<1>6. ASSUME NEW p \in Projects, CreateProject(p) PROVE StayDeleted
  BY <1>6 DEF CreateProject, StayDeleted, TypeOK
<1>7. ASSUME NEW u \in Users, DeleteUser(u) PROVE StayDeleted
  BY <1>7 DEF DeleteUser, Unassigned, StayDeleted, TypeOK, Rows
<1>8. ASSUME NEW u \in Users, NEW s \in {"active", "inactive"}, SetUserActive(u, s)
      PROVE  StayDeleted
  BY <1>8 DEF SetUserActive, StayDeleted
<1> QED
  BY <1>1, <1>2, <1>3, <1>4, <1>5, <1>6, <1>7, <1>8 DEF Administer

\* No handler that read a row before it was deleted brings it back, and no id of an
\* issue, a label, a release or a project is used again.
THEOREM DeletedIdsStayDeleted == Spec => DeletedStaysDeleted
<1>1. ReferencesInductive /\ [Next]_vars => [StayDeleted]_vars
  <2> SUFFICES ASSUME ReferencesInductive, Next PROVE StayDeleted
    OBVIOUS
  <2>1. TypeOK
    BY DEF ReferencesInductive
  <2>2. ASSUME NEW c \in Clients, Abort(c) PROVE StayDeleted
    BY <2>1, <2>2, TablesKept DEF Abort, tables
  <2> QED
    BY <2>1, <2>2, WritersStayDeleted, ArrivalsStayDeleted, AdministerStaysDeleted DEF Next
<1> QED
  BY <1>1, ReferencesInductiveHolds, PTL DEF Spec, DeletedStaysDeleted

=============================================================================

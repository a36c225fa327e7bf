----------------------------- MODULE IssueModal -----------------------------
(***************************************************************************)
(* The issue modal of one browser tab (static/js/components/modal.js) with *)
(* its requests to the server (static/js/api.js).                          *)
(*                                                                         *)
(* The modal shows an issue from the list at once and revalidates it in    *)
(* the background (issueLoad); field changes are queued and saved one at a *)
(* time (issueSaveChain), each with the ETag the one before returned       *)
(* (currentEtag).  JavaScript runs to completion between two awaits, so an *)
(* action is one such stretch; the server, another user and the clock act  *)
(* in between.                                                             *)
(*                                                                         *)
(* The content of an issue is the set of edits it holds, each one standing *)
(* for a new value of some field: a save sends the whole issue, so what it *)
(* sends replaces the set on the server.  (The label, release and status   *)
(* that a move resets on purpose are not among them.)  The ETag of a       *)
(* version is its number.  The server compares and writes in one step      *)
(* here; the race between the two is a subject of IssueStore.              *)
(***************************************************************************)
EXTENDS Naturals, Sequences, FiniteSets

CONSTANTS
    Issues,      \* the issues of the list
    Projects,    \* the projects an issue can be moved to
    MaxEdits,    \* how many changes users make
    NoIssue,     \* state.currentIssue = null
    MaxOpens,    \* how often the modal is opened
    MaxTimeouts  \* how many requests run into their timeout

ASSUME ModalAssumption ==
    /\ NoIssue \notin Issues /\ Issues # {} /\ Projects # {}
    /\ MaxEdits \in Nat /\ MaxOpens \in Nat /\ MaxTimeouts \in Nat

VARIABLES
    server,   \* per issue: its versions, the last one is stored
    gone,     \* the deleted issues
    shown,    \* the modal is visible
    cur,      \* state.currentIssue
    etag,     \* currentEtag
    load,     \* issueLoad, the revalidation of the open issue
    editor,   \* the text of the inline editor, NoEdit if none is open
    queue,    \* the writes behind the running one in issueSaveChain
    run,      \* the running write
    closing,  \* where handleDone, handleArchiveIssue or handleDeleteIssue is
    wait,     \* the number of writes it still waits for
    late,     \* PUTs the browser gave up on that the server may yet handle
    used,     \* the number of edits made so far
    opens, timeouts,
    calm      \* history: nothing happened that defeats the ETags (EditsSurviveWhenCalm)

browser == <<shown, cur, etag, load, editor, queue, run, closing, wait>>
backend == <<server, gone, late>>
counts == <<used, opens, timeouts, calm>>
vars == <<server, gone, late, shown, cur, etag, load, editor, queue, run, closing,
          wait, used, opens, timeouts, calm>>

-----------------------------------------------------------------------------
(* State.                                                                  *)

\* Versions are numbered from 1 in order of their writing.
Version(i) == Len(server[i])
Edits == 1 .. MaxEdits
NoEdit == 0
Contents == [edits : SUBSET Edits, proj : Projects, arch : BOOLEAN]
New == [edits |-> {}, proj |-> CHOOSE p \in Projects : TRUE, arch |-> FALSE]

\* An ETag names a version of an issue; NoETag is null, Stale is STALE_ETAG.
ETags == (Issues \cup {NoIssue}) \X Nat
NoETag == <<NoIssue, 0>>
Stale == <<NoIssue, 1>>

\* The issue object the modal holds: v is its updated_at.
Copies == [iss : Issues \cup {NoIssue}, v : Nat, data : Contents]
NoCopy == [iss |-> NoIssue, v |-> 0, data |-> New]
CopyOf(i, n) == [iss |-> i, v |-> n, data |-> server[i][n]]

\* base and proj are those of the copy it was opened with; got is the version in the
\* answer, 0 for none.
Loads == [stage : {"none", "sent", "answered"}, iss : Issues \cup {NoIssue}, base : Nat, proj : Projects, got : Nat]
NoLoad == [stage |-> "none", iss |-> NoIssue, base |-> 0, proj |-> New.proj, got |-> 0]

Writes == [kind : {"field", "editor", "move"}, iss : Issues, edit : Edits, to : Projects]

\* data is the body of the save; same: state.currentIssue is still the object it was
\* built from; got is the version in the answer, 0 for a conflict.
Runs == [kind : {"none", "field", "editor", "move"}, iss : Issues \cup {NoIssue},
         edit : Edits \cup {NoEdit}, to : Projects,
         stage : {"none", "load", "oldload", "sent", "answered", "refused", "asking",
                  "reload", "reloaded", "confirm", "moving", "moved"},
         data : Contents, etag : ETags, same : BOOLEAN, got : Nat]
NoRun == [kind |-> "none", iss |-> NoIssue, edit |-> NoEdit, to |-> New.proj,
          stage |-> "none", data |-> New,
          etag |-> NoETag, same |-> FALSE, got |-> 0]

\* iss and proj are those the request to archive or delete names; arch: it archives,
\* otherwise it unarchives.
Closings == [stage : {"no", "done", "saving", "archive", "archiveAsk", "archiveSent",
                      "archived", "deleteAsk", "deleteSent", "deleted"},
             iss : Issues \cup {NoIssue}, proj : Projects, arch : BOOLEAN]
NotClosing == [stage |-> "no", iss |-> NoIssue, proj |-> New.proj, arch |-> FALSE]

Puts == [iss : Issues, data : Contents, etag : ETags]

TypeOK ==
    /\ server \in [Issues -> Seq(Contents)]
    /\ gone \subseteq Issues
    /\ shown \in BOOLEAN
    /\ cur \in Copies
    /\ etag \in ETags
    /\ load \in Loads
    /\ editor \in Edits \cup {NoEdit}
    /\ queue \in Seq(Writes)
    /\ run \in Runs
    /\ closing \in Closings
    /\ wait \in Nat
    /\ late \subseteq Puts
    /\ used \in 0 .. MaxEdits /\ opens \in 0 .. MaxOpens /\ timeouts \in 0 .. MaxTimeouts
    /\ calm \in BOOLEAN

-----------------------------------------------------------------------------
(* Helpers.                                                                *)

Open(i) == i \notin gone
Running == run # NoRun
\* Microtasks come before the next event: a write whose turn it is has started.
Settled == Running \/ queue = <<>>
\* The dialogs lie over the modal and the list.
DialogOpen ==
    \/ run.stage \in {"asking", "confirm", "moving", "moved"}
    \/ closing.stage \in {"archiveAsk", "deleteAsk", "deleteSent", "deleted"}
\* Done and Archive go on, before the next event, when the writes ahead have settled.
Resumes == closing.stage \in {"done", "archive"} /\ wait = 0
UserMay == Settled /\ ~Resumes /\ ~DialogOpen
Editable == UserMay /\ shown /\ cur.iss # NoIssue /\ ~cur.data.arch

\* Every edit has its own number.
NewEdit == used + 1
MakeEdit == used < MaxEdits /\ used' = NewEdit
Unless(risk) == calm' = (calm /\ ~risk)
LeftAlone == closing = NotClosing

\* handleDone, handleArchiveIssue or handleDeleteIssue gets to a stage.
At(stage) == [closing EXCEPT !.stage = stage, !.iss = cur.iss, !.proj = cur.data.proj]

\* enqueueIssueWrite
Enqueued(w) == Append(queue, w)

\* setCurrentIssue, as the running write notices it (etagForSave, saveIssueChanges).
Superseded(r) ==
    [r EXCEPT !.same = FALSE, !.stage = IF @ = "load" THEN "oldload" ELSE @]

\* Mutant: a save that waited takes the ETag of the issue that replaced its own.
CurrentETag(r, e) == e

\* etagForSave, after the wait.
ETagAfterLoad(r, e) == IF r.same THEN e ELSE Stale

\* closeModal; r is what becomes of the running write.
CloseModal(r) ==
    /\ shown' = FALSE
    /\ cur' = NoCopy
    /\ etag' = NoETag
    /\ load' = NoLoad
    /\ editor' = NoEdit
    /\ run' = r

\* The running write settles.  Done and Archive wait for the ones ahead of their
\* click; Done also for the save of the open editor, which keeps the modal open if it
\* fails.
Settle(saved) ==
    /\ run' = NoRun
    /\ wait' = IF wait > 0 THEN wait - 1 ELSE 0
    /\ closing' = IF closing.stage = "saving" /\ run.kind = "editor"
                  THEN (IF saved THEN At("done") ELSE NotClosing) ELSE closing

EditorPending ==
    \/ run.kind = "editor"
    \/ \E k \in 1 .. Len(queue) : queue[k].kind = "editor"

-----------------------------------------------------------------------------
(* The user.                                                               *)

\* openModal; the list holds any version it was sent, also an old one.
OpenModal(i, n) ==
    /\ UserMay /\ ~shown
    /\ opens < MaxOpens /\ opens' = opens + 1
    /\ n \in 1 .. Version(i)
    /\ shown' = TRUE
    /\ cur' = CopyOf(i, n)
    /\ etag' = NoETag
    /\ load' = [stage |-> "sent", iss |-> i, base |-> n, proj |-> server[i][n].proj, got |-> 0]
    /\ run' = IF Running THEN Superseded(run) ELSE NoRun
    /\ UNCHANGED <<backend, used, timeouts, calm, editor, queue, closing, wait>>

\* saveSidebarField, handleDeadlineChange, addPlannedDate, removePlannedDate
ChangeField ==
    /\ Editable
    /\ MakeEdit
    /\ queue' = Enqueued([kind |-> "field", iss |-> cur.iss, edit |-> NewEdit, to |-> cur.data.proj])
    /\ Unless(~LeftAlone)
    /\ UNCHANGED <<backend, opens, timeouts, shown, cur, etag, load, editor, run, closing, wait>>

\* Title, description: click and type.
StartEditing ==
    /\ Editable /\ editor = NoEdit
    /\ MakeEdit
    /\ editor' = NewEdit
    /\ Unless(~LeftAlone)
    /\ UNCHANGED <<backend, opens, timeouts, shown, cur, etag, load, queue, run, closing, wait>>

\* _cancelTitleFn, _cancelDescFn; the field is busy while it is being saved.
CancelEditing ==
    /\ Editable /\ editor # NoEdit /\ ~EditorPending
    /\ editor' = NoEdit
    /\ UNCHANGED <<backend, counts, shown, cur, etag, load, queue, run, closing, wait>>

\* Mutant: the text is read after the field was reset.
SaveOfEmptyEditor == [kind |-> "editor", iss |-> cur.iss, edit |-> NoEdit, to |-> cur.data.proj]

SaveOfEditor == [kind |-> "editor", iss |-> cur.iss, edit |-> editor, to |-> cur.data.proj]

\* saveTitle, saveDesc through guardSubmit
SaveEditor ==
    /\ Editable /\ editor # NoEdit /\ ~EditorPending
    /\ queue' = Enqueued(SaveOfEditor)
    /\ Unless(~LeftAlone)
    /\ UNCHANGED <<backend, used, opens, timeouts, shown, cur, etag, load, editor, run, closing, wait>>

\* The project dropdown: the move is queued like the saves.
ChangeProject(p) ==
    /\ Editable /\ p # cur.data.proj
    /\ MakeEdit
    /\ queue' = Enqueued([kind |-> "move", iss |-> cur.iss, edit |-> NewEdit, to |-> p])
    /\ Unless(~LeftAlone)
    /\ UNCHANGED <<backend, opens, timeouts, shown, cur, etag, load, editor, run, closing, wait>>

\* await issueSaveChain
WritesAhead == Len(queue) + (IF Running THEN 1 ELSE 0)

\* handleDone, handleArchiveIssue and handleUnarchiveIssue up to their first await.
ClickDone(how) ==
    /\ UserMay /\ shown /\ cur.iss # NoIssue
    /\ closing = NotClosing
    /\ closing' = [At(how) EXCEPT !.arch = ~cur.data.arch]
    /\ wait' = WritesAhead
    /\ UNCHANGED <<backend, counts, shown, cur, etag, load, editor, queue, run>>

\* handleDone: the title is saved, the description after asking; a save that is on
\* its way is joined.
DoneSavesEditor ==
    /\ Settled /\ closing.stage = "done" /\ wait = 0 /\ editor # NoEdit
    /\ closing' = At("saving")
    /\ queue' = IF EditorPending THEN queue ELSE Enqueued(SaveOfEditor)
    /\ UNCHANGED <<backend, counts, shown, cur, etag, load, editor, run, wait>>

\* handleDone: nothing is being edited, or the text is discarded.
DoneCloses ==
    /\ Settled /\ closing.stage = "done" /\ wait = 0
    /\ editor = NoEdit \/ ~EditorPending
    /\ closing' = NotClosing
    /\ CloseModal(IF Running THEN Superseded(run) ELSE NoRun)
    /\ UNCHANGED <<backend, counts, queue, wait>>

\* handleArchiveIssue: the question, its answer, the answer of the server.
ArchiveAsks ==
    /\ Settled /\ closing.stage = "archive" /\ wait = 0
    /\ closing' = IF cur.iss = NoIssue THEN NotClosing ELSE At("archiveAsk")
    /\ UNCHANGED <<backend, counts, shown, cur, etag, load, editor, queue, run, wait>>

AnswerArchive(yes) ==
    /\ Settled /\ closing.stage = "archiveAsk"
    /\ closing' = IF yes /\ cur.iss # NoIssue THEN At("archiveSent") ELSE NotClosing
    /\ UNCHANGED <<backend, counts, shown, cur, etag, load, editor, queue, run, wait>>

\* handleDeleteIssue: asks for the password and waits for no write.
ClickDelete ==
    /\ Editable /\ closing = NotClosing
    /\ closing' = At("deleteAsk")
    /\ UNCHANGED <<backend, counts, shown, cur, etag, load, editor, queue, run, wait>>

AnswerDelete(yes) ==
    /\ Settled /\ closing.stage = "deleteAsk" /\ (yes => cur.iss # NoIssue)
    /\ closing' = IF yes THEN At("deleteSent") ELSE NotClosing
    /\ UNCHANGED <<backend, counts, shown, cur, etag, load, editor, queue, run, wait>>

\* The server has archived or deleted the issue: closeModal.
ClosedByServer ==
    /\ Settled /\ closing.stage \in {"archived", "deleted"}
    /\ closing' = NotClosing
    /\ CloseModal(IF Running THEN Superseded(run) ELSE NoRun)
    /\ UNCHANGED <<backend, counts, queue, wait>>

-----------------------------------------------------------------------------
(* The writes of the chain.                                                *)

\* Mutant: the save goes out with whatever ETag there is.
NeverWaits == FALSE

\* etagForSave: a revalidation is pending.
WaitsForLoad == load # NoLoad

\* saveIssueChanges once it is its turn: the body is the current issue with the
\* changes; without a pending revalidation it is sent at once.
StartSave ==
    LET w == Head(queue) IN
    /\ ~Running /\ queue # <<>> /\ w.kind # "move" /\ cur.iss = w.iss
    /\ queue' = Tail(queue)
    /\ run' = [kind |-> w.kind, iss |-> w.iss, edit |-> w.edit, to |-> w.to,
               stage |-> IF WaitsForLoad THEN "load" ELSE "sent",
               data |-> [cur.data EXCEPT !.edits = @ \cup {w.edit}],
               etag |-> etag, same |-> TRUE, got |-> 0]
    /\ UNCHANGED <<backend, counts, shown, cur, etag, load, editor, closing, wait>>

\* moveIssueToProject asks for the password.
StartMove ==
    LET w == Head(queue) IN
    /\ ~Running /\ queue # <<>> /\ w.kind = "move" /\ cur.iss # NoIssue
    /\ queue' = Tail(queue)
    /\ run' = [NoRun EXCEPT !.kind = "move", !.iss = cur.iss, !.edit = w.edit, !.to = w.to,
                            !.stage = "confirm", !.data.proj = cur.data.proj]
    /\ UNCHANGED <<backend, counts, shown, cur, etag, load, editor, closing, wait>>

\* The modal was closed or shows another issue: the write is dropped.
DropWrite ==
    LET w == Head(queue) IN
    /\ ~Running /\ queue # <<>>
    /\ IF w.kind = "move" THEN cur.iss = NoIssue ELSE cur.iss # w.iss
    /\ queue' = Tail(queue)
    /\ wait' = IF wait > 0 THEN wait - 1 ELSE 0
    /\ closing' = IF closing.stage = "saving" /\ w.kind = "editor" THEN NotClosing ELSE closing
    /\ UNCHANGED <<backend, counts, shown, cur, etag, load, editor, run>>

\* A save that waits for the revalidation goes out when that has returned.
Resumed(r, e) == [r EXCEPT !.stage = "sent", !.etag = ETagAfterLoad(r, e)]
AfterLoad(r, e) == IF r.stage = "load" THEN Resumed(r, e) ELSE r

\* revalidateIssue after the answer; fetchIssueById turns every error into "not found".
LoadFindsNothing ==
    /\ load.stage = "answered" /\ load.got = 0
    /\ CloseModal(AfterLoad([run EXCEPT !.same = FALSE], NoETag))
    /\ UNCHANGED <<backend, counts, queue, closing, wait>>

\* Nothing changed since the list was loaded.
LoadConfirms ==
    /\ load.stage = "answered" /\ load.got = load.base
    /\ load' = NoLoad
    /\ etag' = <<load.iss, load.got>>
    /\ run' = AfterLoad(run, etag')
    /\ UNCHANGED <<backend, counts, shown, cur, editor, queue, closing, wait>>

\* A newer version arrived: it is shown, unless somebody is editing, whose first save
\* STALE_ETAG makes run into a conflict.
LoadUpdates ==
    /\ load.stage = "answered" /\ load.got \notin {0, load.base}
    /\ load' = NoLoad
    /\ IF editor # NoEdit
       THEN /\ etag' = Stale
            /\ run' = AfterLoad(run, etag')
            /\ cur' = cur
       ELSE /\ cur' = CopyOf(load.iss, load.got)
            /\ etag' = <<load.iss, load.got>>
            /\ run' = AfterLoad([run EXCEPT !.same = FALSE], etag')
    /\ UNCHANGED <<backend, counts, shown, editor, queue, closing, wait>>

\* The revalidation of an issue that is no longer open returns.
OldLoadReturns ==
    /\ run.stage = "oldload"
    /\ run' = Resumed(run, etag)
    /\ UNCHANGED <<backend, counts, shown, cur, etag, load, editor, queue, closing, wait>>

\* saveIssueWithConflictCheck and saveIssueChanges after a 200: the new ETag is stored,
\* and the issue that was saved takes over the server's copy.
SaveSucceeds ==
    /\ run.stage = "answered" /\ run.got > 0
    /\ etag' = <<run.iss, run.got>>
    /\ cur' = IF run.same THEN CopyOf(run.iss, run.got) ELSE cur
    /\ editor' = IF run.kind = "editor" THEN NoEdit ELSE editor
    /\ Settle(TRUE)
    /\ UNCHANGED <<backend, counts, shown, load, queue>>

\* After a 409 the conflict dialog opens; it takes the place of an open question.
SaveConflicts ==
    /\ run.stage = "answered" /\ run.got = 0
    /\ run' = [run EXCEPT !.stage = "asking"]
    /\ closing' = IF closing.stage = "archiveAsk" THEN NotClosing ELSE closing
    /\ UNCHANGED <<backend, counts, shown, cur, etag, load, editor, queue, wait>>

\* Mutant: the chain goes on from the failed write, without its catch.
ChainStops == run.stage = "refused" /\ UNCHANGED vars

\* updateIssue throws: the caller shows the error, the issue keeps its ETag.
SaveFails ==
    /\ run.stage = "refused"
    /\ Settle(FALSE)
    /\ UNCHANGED <<backend, counts, shown, cur, etag, load, editor, queue>>

AnswerConflict(reload) ==
    /\ run.stage = "asking"
    /\ IF reload THEN run' = [run EXCEPT !.stage = "reload"] /\ UNCHANGED <<wait, closing>>
                 ELSE Settle(FALSE)
    /\ UNCHANGED <<backend, counts, shown, cur, etag, load, editor, queue>>

\* The fresh copy replaces what the modal holds; an open editor is left.
ReloadReturns ==
    /\ run.stage = "reloaded"
    /\ IF run.got > 0
       THEN /\ etag' = <<run.iss, run.got>>
            /\ cur' = CopyOf(run.iss, run.got)
            /\ editor' = NoEdit
       ELSE UNCHANGED <<etag, cur, editor>>
    /\ Settle(FALSE)
    /\ UNCHANGED <<backend, counts, shown, load, queue>>

\* The password dialog of a move; a failed move leaves it open.
AnswerMove(yes) ==
    /\ run.stage = "confirm"
    /\ IF yes THEN /\ cur.iss # NoIssue
                   /\ run' = [run EXCEPT !.stage = "moving", !.iss = cur.iss, !.data.proj = cur.data.proj]
                   /\ UNCHANGED <<wait, closing>>
              ELSE Settle(FALSE)
    /\ UNCHANGED <<backend, counts, shown, cur, etag, load, editor, queue>>

MoveReturns ==
    /\ run.stage = "moved"
    /\ etag' = <<run.iss, run.got>>
    /\ cur' = CopyOf(run.iss, run.got)
    /\ editor' = NoEdit
    /\ Settle(TRUE)
    /\ UNCHANGED <<backend, counts, shown, load, queue>>

-----------------------------------------------------------------------------
(* The server, other users, the network.                                   *)

Stored(i, c) == server' = [server EXCEPT ![i] = Append(@, c)]
Last(i) == server[i][Version(i)]
Found(i, p) == Open(i) /\ Last(i).proj = p
Latest(i, p) == IF Found(i, p) THEN Version(i) ELSE 0

\* handleGetIssue for the revalidation
ServeLoad ==
    /\ load.stage = "sent"
    /\ load' = [load EXCEPT !.stage = "answered", !.got = Latest(load.iss, load.proj)]
    /\ Unless(Open(load.iss) /\ ~Found(load.iss, load.proj))
    /\ UNCHANGED <<backend, used, opens, timeouts, shown, cur, etag, editor, queue, run, closing, wait>>

\* handlePutIssue: an absent If-Match is not compared; what is archived is read-only,
\* and a PUT does not archive.
Matches(r) == r.etag = NoETag \/ r.etag = <<r.iss, Version(r.iss)>>
Refused(r) ==
    \/ ~Found(r.iss, r.data.proj)
    \/ Matches(r) /\ (Last(r.iss).arch \/ r.data.arch)
Accepted(r) == Matches(r) /\ ~Refused(r)

AcceptSave ==
    /\ run.stage = "sent" /\ Accepted(run)
    /\ Stored(run.iss, run.data)
    /\ run' = [run EXCEPT !.stage = "answered", !.got = Version(run.iss) + 1]
    /\ UNCHANGED <<gone, late, counts, shown, cur, etag, load, editor, queue, closing, wait>>

RejectSave ==
    /\ run.stage = "sent" /\ ~Matches(run) /\ ~Refused(run)
    /\ run' = [run EXCEPT !.stage = "answered", !.got = 0]
    /\ UNCHANGED <<backend, counts, shown, cur, etag, load, editor, queue, closing, wait>>

RefuseSave ==
    /\ run.stage = "sent" /\ Refused(run)
    /\ run' = [run EXCEPT !.stage = "refused"]
    /\ UNCHANGED <<backend, counts, shown, cur, etag, load, editor, queue, closing, wait>>

ServeReload ==
    /\ run.stage = "reload"
    /\ run' = [run EXCEPT !.stage = "reloaded", !.got = Latest(run.iss, run.data.proj)]
    /\ UNCHANGED <<backend, counts, shown, cur, etag, load, editor, queue, closing, wait>>

\* handleMoveIssue compares no ETag.
ServeMove ==
    /\ run.stage = "moving"
    /\ IF Found(run.iss, run.data.proj) /\ ~Last(run.iss).arch
       THEN /\ Stored(run.iss, [Last(run.iss) EXCEPT !.edits = @ \cup {run.edit}, !.proj = run.to])
            /\ run' = [run EXCEPT !.stage = "moved", !.got = Version(run.iss) + 1]
       ELSE run' = [run EXCEPT !.stage = "confirm"] /\ UNCHANGED server
    /\ UNCHANGED <<gone, late, counts, shown, cur, etag, load, editor, queue, closing, wait>>

\* After an error the modal stays open, and so does the password dialog of a deletion.
ClosingFailed == IF closing.stage \in {"archiveSent", "archived"} THEN NotClosing ELSE At("deleteAsk")

\* handleArchiveIssue, handleUnarchiveIssue and handleDeleteIssue
ServeClosing ==
    LET i == closing.iss
        found == Found(i, closing.proj)
    IN
    /\ \/ /\ closing.stage = "archiveSent" /\ found /\ Last(i).arch # closing.arch
          /\ Stored(i, [Last(i) EXCEPT !.arch = closing.arch])
          /\ closing' = [closing EXCEPT !.stage = "archived"]
          /\ UNCHANGED gone
       \/ /\ closing.stage = "deleteSent" /\ found /\ ~Last(i).arch
          /\ gone' = gone \cup {i}
          /\ closing' = [closing EXCEPT !.stage = "deleted"]
          /\ UNCHANGED server
       \/ /\ \/ closing.stage = "archiveSent" /\ ~(found /\ Last(i).arch # closing.arch)
             \/ closing.stage = "deleteSent" /\ ~(found /\ ~Last(i).arch)
          /\ closing' = ClosingFailed
          /\ UNCHANGED <<server, gone>>
    /\ UNCHANGED <<late, counts, shown, cur, etag, load, editor, queue, run, wait>>

\* Somebody else saves, moves, archives or unarchives the version he sees, or deletes it.
OtherEdits(i, p, a) ==
    /\ Open(i)
    /\ Last(i).arch => ~a
    /\ Last(i).arch \/ a => p = Last(i).proj
    /\ MakeEdit
    /\ Stored(i, [edits |-> Last(i).edits \cup {NewEdit}, proj |-> p, arch |-> a])
    /\ UNCHANGED <<gone, late, opens, timeouts, calm, browser>>

OtherDeletes(i) ==
    /\ Open(i) /\ ~Last(i).arch
    /\ gone' = gone \cup {i}
    /\ UNCHANGED <<server, late, counts, browser>>

TimesOut == timeouts < MaxTimeouts /\ timeouts' = timeouts + 1

\* rawFetch aborts a save after REQUEST_TIMEOUT_MS: the server has handled it, or
\* will yet, or never sees it.
SaveTimesOut ==
    /\ TimesOut /\ run.stage \in {"sent", "answered"}
    /\ run' = [run EXCEPT !.stage = "refused"]
    /\ late' = IF run.stage = "sent"
               THEN late \cup {[iss |-> run.iss, data |-> run.data, etag |-> run.etag]} ELSE late
    /\ UNCHANGED <<server, gone, used, opens, calm, shown, cur, etag, load, editor, queue, closing, wait>>

HandleLate(r) ==
    /\ late' = late \ {r}
    /\ IF Accepted(r) THEN Stored(r.iss, r.data) ELSE UNCHANGED server
    /\ UNCHANGED <<gone, counts, browser>>

\* A reload that fails changes nothing; a failed move keeps its dialog.
OtherTimesOut ==
    /\ TimesOut
    /\ \/ /\ run.stage \in {"reload", "reloaded"}
          /\ run' = [run EXCEPT !.stage = "reloaded", !.got = 0]
          /\ UNCHANGED closing
       \/ /\ run.stage \in {"moving", "moved"}
          /\ run' = [run EXCEPT !.stage = "confirm", !.got = 0]
          /\ UNCHANGED closing
       \/ /\ closing.stage \in {"archiveSent", "archived", "deleteSent", "deleted"}
          /\ closing' = ClosingFailed
          /\ UNCHANGED run
    /\ UNCHANGED <<backend, used, opens, calm, shown, cur, etag, load, editor, queue, wait>>

LoadTimesOut ==
    /\ TimesOut /\ load.stage # "none" /\ calm' = FALSE
    /\ load' = [load EXCEPT !.stage = "answered", !.got = 0]
    /\ UNCHANGED <<backend, used, opens, shown, cur, etag, editor, queue, run, closing, wait>>

-----------------------------------------------------------------------------
Init ==
    /\ server = [i \in Issues |-> <<New>>]
    /\ gone = {} /\ late = {}
    /\ shown = FALSE /\ cur = NoCopy /\ etag = NoETag /\ load = NoLoad
    /\ editor = NoEdit /\ queue = <<>> /\ run = NoRun
    /\ closing = NotClosing /\ wait = 0
    /\ used = 0 /\ opens = 0 /\ timeouts = 0 /\ calm = TRUE

User ==
    \/ \E i \in Issues : \E n \in 1 .. Version(i) : OpenModal(i, n)
    \/ ChangeField \/ StartEditing \/ \E p \in Projects : ChangeProject(p)
    \/ CancelEditing \/ SaveEditor \/ ClickDelete
    \/ \E how \in {"done", "archive"} : ClickDone(how)
    \/ \E yes \in BOOLEAN :
         AnswerArchive(yes) \/ AnswerDelete(yes) \/ AnswerConflict(yes) \/ AnswerMove(yes)

Script ==
    \/ DoneSavesEditor \/ DoneCloses \/ ArchiveAsks \/ ClosedByServer
    \/ StartSave \/ StartMove \/ DropWrite
    \/ LoadFindsNothing \/ LoadConfirms \/ LoadUpdates \/ OldLoadReturns
    \/ SaveSucceeds \/ SaveConflicts \/ SaveFails \/ ReloadReturns \/ MoveReturns

Server == ServeLoad \/ AcceptSave \/ RejectSave \/ RefuseSave \/ ServeReload
          \/ ServeMove \/ ServeClosing

Environment ==
    \/ \E i \in Issues : OtherDeletes(i) \/ \E p \in Projects, a \in BOOLEAN : OtherEdits(i, p, a)
    \/ \E r \in late : HandleLate(r)
    \/ SaveTimesOut \/ OtherTimesOut \/ LoadTimesOut

Next == User \/ Script \/ Server \/ Environment

\* Callbacks run once their promises are settled, and every request is answered or,
\* at the latest, aborted; what the user does is up to him.
Fairness == WF_vars(Script) /\ WF_vars(Server)

Spec == Init /\ [][Next]_vars /\ Fairness

-----------------------------------------------------------------------------
(* Properties.                                                             *)

Survive(i) == Last(i).edits \subseteq server'[i][Len(server'[i])].edits

\* No save overwrites a change it was not built on: what is stored in an issue, by this
\* user or by somebody else, stays stored, because the ETag of a save belongs to the very
\* copy its body was made from.  It holds as long as
\*   - nobody changes a field of the modal after Done, Archive or Delete was clicked: the
\*     answer of a save that outlives the modal sets currentEtag of the next one;
\*   - no revalidation misses an issue that is there, by an error or because it was moved
\*     to another project: the modal closes as if it was deleted, with saves and questions
\*     under way.
EditsSurviveWhenCalm == [][calm => \A i \in Issues : Survive(i)]_vars

\* The same without these conditions, as modal.js:213 promises: outdated data is never
\* saved without the conflict dialog.
EditsSurvive == [][\A i \in Issues : Survive(i)]_vars

\* docs/concurrency-control.md:57: a save never goes out without an ETag.
SaveCarriesETag ==
    /\ run.stage = "sent" => run.etag # NoETag
    /\ \A r \in late : r.etag # NoETag

\* Queued writes are not stuck: unless a dialog waits for the user, the chain gets
\* empty, whatever happens to the issue, the modal or the connection.
WritesFinish == (Running \/ queue # <<>>) ~> (~Running /\ queue = <<>>) \/ DialogOpen

=============================================================================

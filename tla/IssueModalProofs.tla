--------------------------- MODULE IssueModalProofs ---------------------------
(***************************************************************************)
(* For every set of issues and projects and every number of edits: each    *)
(* save carries an ETag, and, under the conditions named at the property,  *)
(* no stored change is overwritten.  The argument: the versions of an      *)
(* issue only gain edits (Monotone), and a save replaces a version that is *)
(* not newer than the copy it was built on (ETagFits, SaveFits), because a *)
(* write outlives its modal only if its issue has been deleted (RunHere).  *)
(***************************************************************************)
EXTENDS IssueModal, TLAPS

-----------------------------------------------------------------------------
(* The invariant.                                                          *)

Live(i) == i \in Issues /\ i \notin gone

\* Every issue has a version.
ServerOK ==
    /\ server \in [Issues -> Seq(Contents)]
    /\ \A i \in Issues : Len(server[i]) >= 1
    /\ gone \subseteq Issues

\* What the modal holds is a version of the server; without a revalidation under way it
\* has an ETag, and only an open issue is edited.
TabOK ==
    /\ shown \in BOOLEAN
    /\ cur \in Copies
    /\ cur.iss \in Issues => cur.v \in 1 .. Len(server[cur.iss]) /\ cur.data = server[cur.iss][cur.v]
    /\ etag \in ETags
    /\ load = NoLoad /\ cur.iss # NoIssue => etag # NoETag
    /\ editor \in Edits \cup {NoEdit}
    /\ editor # NoEdit => cur.iss # NoIssue
    /\ queue \in Seq(Writes)

LoadOK ==
    /\ load \in Loads
    /\ load # NoLoad =>
         /\ load.stage # "none" /\ load.iss \in Issues /\ shown
         /\ load.base \in 1 .. Len(server[load.iss])
         /\ load.got \in 0 .. Len(server[load.iss])

SaveStages == {"load", "oldload", "sent", "answered", "refused", "asking", "reload", "reloaded"}
MoveStages == {"confirm", "moving", "moved"}

\* The write that runs; one that waits for a revalidation still has its issue.
RunOK ==
    /\ run \in Runs
    /\ run # NoRun =>
         /\ run.iss \in Issues /\ run.edit \in Edits
         /\ run.got \in 0 .. Len(server[run.iss])
         /\ \/ run.kind \in {"field", "editor"} /\ run.stage \in SaveStages
            \/ run.kind = "move" /\ run.stage \in MoveStages /\ ~run.same
    /\ run.stage \in {"confirm", "moving"} => run.got = 0
    /\ run.stage = "moved" => run.got > 0
    /\ run.stage = "load" => run.same
    /\ run.stage = "oldload" => ~run.same
    /\ run.stage = "sent" => run.etag # NoETag

LateOK == late \subseteq Puts /\ \A r \in late : r.etag # NoETag

ClosingOK ==
    /\ closing \in Closings
    /\ wait \in Nat
    /\ closing.stage \in {"archiveSent", "deleteSent"} => closing.iss \in Issues

CountsOK ==
    /\ used \in 0 .. MaxEdits /\ opens \in 0 .. MaxOpens /\ timeouts \in 0 .. MaxTimeouts
    /\ calm \in BOOLEAN

\* No version lacks an edit of an earlier one.
Monotone ==
    \A i \in Issues : \A m, n \in 1 .. Len(server[i]) :
        m <= n => server[i][m].edits \subseteq server[i][n].edits

\* What a save replaces is what it was built on.
Built(r) ==
    r.iss \notin gone /\ r.etag[1] = r.iss =>
      /\ r.etag[2] \in 1 .. Len(server[r.iss])
      /\ server[r.iss][r.etag[2]].edits \subseteq r.data.edits

\* A write of an issue that is there is one of the issue in the modal.
RunHere == run # NoRun /\ run.iss \notin gone => shown /\ cur.iss = run.iss

\* Only what is gone may be in a modal that is closed, or in that of another issue.
ShownHere ==
    /\ Live(cur.iss) => shown
    /\ load # NoLoad => cur.iss = load.iss \/ cur.iss \in gone
    /\ load.stage = "answered" /\ load.got = 0 => load.iss \in gone

\* The copy is not older than the version the revalidation may confirm.
BaseFits ==
    load # NoLoad =>
      /\ cur.iss = load.iss /\ cur.iss \notin gone => load.base <= cur.v
      /\ run.stage = "moved" /\ run.iss = load.iss => load.base <= run.got

\* Saves go out when the revalidation has returned.
SavesAfterLoad ==
    load # NoLoad /\ run # NoRun /\ run.iss \notin gone /\ run.kind # "move" => run.stage = "load"

\* The copy is not older than its ETag.
ETagFits ==
    load = NoLoad /\ Live(cur.iss) /\ etag[1] = cur.iss => etag[2] \in 1 .. cur.v

SaveFits ==
    /\ run.stage = "load" /\ run.iss \notin gone => cur.data.edits \subseteq run.data.edits
    /\ run.stage = "sent" => Built(run)
    /\ run # NoRun /\ run.iss \notin gone /\ ~run.same =>
         /\ run.stage = "sent" => run.etag[1] = NoIssue
         /\ run.stage = "answered" => run.got = 0

LateFits == \A r \in late : Built(r)

\* Done and Archive wait for every write there is.
DoneWaits ==
    /\ closing.stage \in {"done", "archive"} => WritesAhead <= wait
    /\ closing.stage = "saving" =>
         /\ wait = 0 /\ WritesAhead <= 1
         /\ Running => run.kind = "editor"
         /\ queue # <<>> => Head(queue).kind = "editor"
    /\ closing.stage \in {"archiveAsk", "archiveSent", "archived"} => wait = 0 /\ WritesAhead = 0

\* The issue to delete is the one in the modal.
DeleteHere ==
    /\ closing.stage = "deleteSent" =>
         \/ closing.iss \in gone
         \/ /\ cur.iss \in {closing.iss, NoIssue} \cup gone
            /\ load # NoLoad => load.iss \in {closing.iss} \cup gone
    /\ closing.stage = "deleted" =>
         /\ cur.iss \in {NoIssue} \cup gone
         /\ load # NoLoad => load.iss \in gone

Typed == ServerOK /\ TabOK /\ LoadOK /\ RunOK /\ LateOK /\ ClosingOK /\ CountsOK

CalmInv ==
    /\ Monotone
    /\ RunHere
    /\ ShownHere
    /\ BaseFits
    /\ SavesAfterLoad
    /\ ETagFits
    /\ SaveFits
    /\ LateFits
    /\ DoneWaits
    /\ DeleteHere

IInv == Typed /\ (calm => CalmInv)

-----------------------------------------------------------------------------
(* Values.                                                                 *)

LEMMA NewTyped == New \in Contents /\ New.proj \in Projects /\ New.edits = {}
<1>1. (CHOOSE p \in Projects : TRUE) \in Projects
  BY ModalAssumption
<1> QED
  BY <1>1 DEF New, Contents

LEMMA ConstantsTyped ==
    /\ NoCopy \in Copies /\ NoCopy.iss = NoIssue
    /\ NoETag \in ETags /\ Stale \in ETags
    /\ NoETag # Stale /\ Stale[1] = NoIssue /\ NoETag[1] = NoIssue
    /\ NoLoad \in Loads /\ NoLoad.stage = "none"
    /\ NotClosing \in Closings /\ NotClosing.stage = "no"
    /\ NoIssue \notin Issues
<1>1. NoCopy \in Copies /\ NoCopy.iss = NoIssue
  BY NewTyped DEF NoCopy, Copies
<1>2. NoLoad \in Loads /\ NoLoad.stage = "none"
  BY NewTyped DEF NoLoad, Loads
<1>3. NotClosing \in Closings /\ NotClosing.stage = "no"
  BY NewTyped DEF NotClosing, Closings
<1> QED
  BY <1>1, <1>2, <1>3, ModalAssumption DEF NoETag, Stale, ETags

LEMMA NoRunTyped ==
    /\ NoRun \in Runs /\ NoRun.stage = "none" /\ NoRun.kind = "none" /\ ~NoRun.same
    /\ NoRun.got = 0 /\ NoRun.iss = NoIssue
BY NewTyped, ConstantsTyped DEF NoRun, Runs, NoEdit

LEMMA ETagOf ==
    ASSUME NEW i \in Issues, NEW n \in Nat
    PROVE  <<i, n>> \in ETags /\ <<i, n>> # NoETag /\ <<i, n>> # Stale
BY ModalAssumption DEF ETags, NoETag, Stale

LEMMA CopyTyped ==
    ASSUME ServerOK, NEW i \in Issues, NEW n \in 1 .. Len(server[i])
    PROVE  /\ CopyOf(i, n) \in Copies
           /\ CopyOf(i, n).iss = i /\ CopyOf(i, n).v = n
           /\ CopyOf(i, n).data = server[i][n]
           /\ server[i][n] \in Contents
<1>1. server[i] \in Seq(Contents)
  BY DEF ServerOK
<1>2. server[i][n] \in Contents
  BY <1>1
<1> QED
  BY <1>2 DEF CopyOf, Copies

Stages == {"none", "load", "oldload", "sent", "answered", "refused", "asking",
           "reload", "reloaded", "confirm", "moving", "moved"}

LEMMA SupersededTyped ==
    ASSUME NEW r \in Runs
    PROVE  LET q == Superseded(r) IN
           /\ q \in Runs
           /\ q.kind = r.kind /\ q.iss = r.iss /\ q.edit = r.edit /\ q.to = r.to
           /\ q.stage = IF r.stage = "load" THEN "oldload" ELSE r.stage
           /\ q.data = r.data /\ q.etag = r.etag
           /\ ~q.same /\ q.got = r.got
BY DEF Runs, Superseded

LEMMA DetachedTyped ==
    ASSUME NEW r \in Runs
    PROVE  LET q == [r EXCEPT !.same = FALSE] IN
           /\ q \in Runs
           /\ q.kind = r.kind /\ q.iss = r.iss /\ q.edit = r.edit /\ q.to = r.to
           /\ q.stage = r.stage /\ q.data = r.data /\ q.etag = r.etag
           /\ ~q.same /\ q.got = r.got
BY DEF Runs

\* A write that goes on once the revalidation has returned.
LEMMA ResumedTyped ==
    ASSUME NEW r \in Runs, NEW e \in ETags
    PROVE  LET q == Resumed(r, e) IN
           /\ q \in Runs
           /\ q.kind = r.kind /\ q.iss = r.iss /\ q.edit = r.edit /\ q.to = r.to
           /\ q.stage = "sent" /\ q.data = r.data
           /\ q.etag = IF r.same THEN e ELSE Stale
           /\ q.same = r.same /\ q.got = r.got
<1>1. ETagAfterLoad(r, e) \in ETags
  BY ConstantsTyped DEF ETagAfterLoad
<1> DEFINE x == ETagAfterLoad(r, e)
<1>2. x = IF r.same THEN e ELSE Stale
  BY DEF ETagAfterLoad
<1>3. Resumed(r, e) = [r EXCEPT !.stage = "sent", !.etag = x]
  BY DEF Resumed
<1> HIDE DEF x
<1> QED
  BY <1>1, <1>2, <1>3 DEF Runs, x

LEMMA ClosingAt ==
    ASSUME cur \in Copies, closing \in Closings,
           NEW s \in {"no", "done", "saving", "archive", "archiveAsk", "archiveSent",
                      "archived", "deleteAsk", "deleteSent", "deleted"}
    PROVE  At(s) \in Closings /\ At(s).stage = s /\ At(s).iss = cur.iss
BY DEF At, Closings, Copies, Contents

-----------------------------------------------------------------------------
(* What a step leaves alone.                                               *)

\* The server only adds versions and deletes issues.
Grows ==
    /\ \A i \in Issues :
         /\ Len(server[i]) <= Len(server'[i])
         /\ \A n \in 1 .. Len(server[i]) : server'[i][n] = server[i][n]
    /\ gone \subseteq gone'

LEMMA NothingStored == ASSUME UNCHANGED <<server, gone>> PROVE Grows
<1>1. \A i \in Issues : Len(server[i]) \in Nat => Len(server[i]) <= Len(server'[i])
  OBVIOUS
<1> QED
  BY <1>1 DEF Grows

LEMMA VersionsKept ==
    ASSUME ServerOK, ServerOK', Grows, NEW i \in Issues
    PROVE  /\ Len(server[i]) \in Nat /\ Len(server'[i]) \in Nat
           /\ Len(server[i]) <= Len(server'[i])
           /\ 1 .. Len(server[i]) \subseteq 1 .. Len(server'[i])
           /\ 0 .. Len(server[i]) \subseteq 0 .. Len(server'[i])
           /\ \A n \in 1 .. Len(server[i]) : server'[i][n] = server[i][n]
<1>1. server[i] \in Seq(Contents) /\ server'[i] \in Seq(Contents)
  BY DEF ServerOK
<1>2. Len(server[i]) \in Nat /\ Len(server'[i]) \in Nat /\ Len(server[i]) <= Len(server'[i])
  BY <1>1 DEF Grows
<1> QED
  BY <1>2 DEF Grows

LEMMA TypedStays ==
    ASSUME Typed, ServerOK', Grows
    PROVE  /\ UNCHANGED <<shown, cur, etag, load, editor, queue>> => TabOK'
           /\ UNCHANGED <<load, shown>> => LoadOK'
           /\ UNCHANGED run => RunOK'
           /\ UNCHANGED late => LateOK'
           /\ UNCHANGED <<closing, wait>> => ClosingOK'
           /\ UNCHANGED <<used, opens, timeouts, calm>> => CountsOK'
<1> USE DEF Typed
<1>1. UNCHANGED <<shown, cur, etag, load, editor, queue>> => TabOK'
  <2> SUFFICES ASSUME UNCHANGED <<shown, cur, etag, load, editor, queue>> PROVE TabOK'
    OBVIOUS
  <2>1. cur.iss \in Issues =>
           cur.v \in 1 .. Len(server'[cur.iss]) /\ cur.data = server'[cur.iss][cur.v]
    BY VersionsKept DEF TabOK
  <2> QED
    BY <2>1 DEF TabOK
<1>2. UNCHANGED <<load, shown>> => LoadOK'
  BY VersionsKept DEF LoadOK
<1>3. UNCHANGED run => RunOK'
  BY VersionsKept DEF RunOK
<1>4. UNCHANGED late => LateOK'
  BY DEF LateOK
<1>5. UNCHANGED <<closing, wait>> => ClosingOK'
  BY DEF ClosingOK
<1>6. UNCHANGED <<used, opens, timeouts, calm>> => CountsOK'
  BY DEF CountsOK
<1> QED
  BY <1>1, <1>2, <1>3, <1>4, <1>5, <1>6

\* What was built on a version of the server stays so.
LEMMA BuiltStays ==
    ASSUME ServerOK, ServerOK', Grows, NEW r, r.iss \in Issues, Built(r)
    PROVE  Built(r)'
BY VersionsKept DEF Built, Grows

LEMMA CalmStays ==
    ASSUME Typed, CalmInv, ServerOK', Grows
    PROVE  /\ UNCHANGED <<run, shown, cur>> => RunHere'
           /\ UNCHANGED <<cur, shown, load>> => ShownHere'
           /\ UNCHANGED <<cur, load, run>> => BaseFits'
           /\ UNCHANGED <<load, run>> => SavesAfterLoad'
           /\ UNCHANGED <<cur, load, etag>> => ETagFits'
           /\ UNCHANGED <<run, cur>> => SaveFits'
           /\ UNCHANGED late => LateFits'
           /\ UNCHANGED <<closing, wait, run, queue>> => DoneWaits'
           /\ UNCHANGED <<closing, cur, load>> => DeleteHere'
<1> USE DEF CalmInv, Grows
<1>1. UNCHANGED <<run, shown, cur>> => RunHere'
  BY DEF RunHere
<1>2. UNCHANGED <<cur, shown, load>> => ShownHere'
  BY DEF ShownHere, Live
<1>3. UNCHANGED <<cur, load, run>> => BaseFits'
  BY DEF BaseFits
<1>4. UNCHANGED <<load, run>> => SavesAfterLoad'
  BY DEF SavesAfterLoad
<1>5. UNCHANGED <<cur, load, etag>> => ETagFits'
  BY DEF ETagFits, Live
<1>6. UNCHANGED <<run, cur>> => SaveFits'
  <2>1. \A r : r.iss \in Issues /\ Built(r) => Built(r)'
    BY BuiltStays DEF Typed
  <2>2. run.stage = "sent" => Built(run) /\ run.iss \in Issues
    BY NoRunTyped DEF SaveFits, Typed, RunOK
  <2>3. run' = run => (run'.stage = "sent" => Built(run)')
    BY <2>1, <2>2 DEF Built
  <2> QED
    BY <2>3 DEF SaveFits
<1>7. UNCHANGED late => LateFits'
  <2>1. \A r \in late : r.iss \in Issues
    BY DEF Typed, LateOK, Puts
  <2>2. \A r \in late : Built(r)'
    BY <2>1, BuiltStays DEF LateFits, Typed
  <2> QED
    BY <2>2 DEF LateFits
<1>8. UNCHANGED <<closing, wait, run, queue>> => DoneWaits'
  BY DEF DoneWaits, WritesAhead, Running
<1>9. UNCHANGED <<closing, cur, load>> => DeleteHere'
  BY DEF DeleteHere
<1> QED
  BY <1>1, <1>2, <1>3, <1>4, <1>5, <1>6, <1>7, <1>8, <1>9

LEMMA ServerStays == ASSUME ServerOK, UNCHANGED <<server, gone>> PROVE ServerOK' /\ Grows
BY NothingStored DEF ServerOK

LEMMA MonotoneStays == ASSUME Monotone, UNCHANGED server PROVE Monotone'
BY DEF Monotone

-----------------------------------------------------------------------------
(* The user.                                                               *)

LEMMA OneMoreWrite ==
    ASSUME queue \in Seq(Writes), NEW w, run' = run, queue' = Append(queue, w)
    PROVE  WritesAhead \in Nat /\ WritesAhead' = WritesAhead + 1
<1>1. Len(queue') = Len(queue) + 1 /\ Len(queue) \in Nat
  OBVIOUS
<1> QED
  BY <1>1 DEF WritesAhead, Running

\* A write is queued while nothing waits for the queue.
LEMMA WriteQueued ==
    ASSUME IInv, NEW w \in Writes, queue' = Enqueued(w), CountsOK',
           calm' => calm /\ LeftAlone,
           UNCHANGED <<backend, shown, cur, etag, load, editor, run, closing, wait>>
    PROVE  IInv'
<1>1. ServerOK' /\ Grows
  BY ServerStays DEF IInv, Typed, backend
<1>2. queue' \in Seq(Writes)
  BY DEF IInv, Typed, TabOK, Enqueued
<1>3. TabOK'
  BY <1>2 DEF IInv, Typed, TabOK, backend
<1>4. Typed'
  BY <1>1, <1>3, TypedStays DEF IInv, Typed, backend
<1>5. calm' => DoneWaits'
  BY ConstantsTyped DEF LeftAlone, DoneWaits
<1>6. calm' => CalmInv'
  BY <1>1, <1>5, CalmStays, MonotoneStays DEF IInv, CalmInv, backend
<1> QED
  BY <1>4, <1>6 DEF IInv

LEMMA EditMade ==
    ASSUME CountsOK, MakeEdit
    PROVE  NewEdit \in Edits /\ used' \in 0 .. MaxEdits /\ used' = NewEdit
BY ModalAssumption DEF CountsOK, MakeEdit, NewEdit, Edits

LEMMA StaysCalm ==
    ASSUME CountsOK, NEW risk \in BOOLEAN, Unless(risk)
    PROVE  calm' \in BOOLEAN /\ (calm' => calm /\ ~risk)
BY DEF CountsOK, Unless

LEMMA CurTyped ==
    ASSUME Typed, cur.iss # NoIssue
    PROVE  cur.iss \in Issues /\ cur.data.proj \in Projects
BY DEF Typed, TabOK, Copies, Contents

LEMMA ChangeFieldStep == ASSUME IInv, ChangeField PROVE IInv'
<1>1. NewEdit \in Edits /\ used' \in 0 .. MaxEdits /\ CountsOK /\ Typed
  BY EditMade DEF IInv, Typed, ChangeField
<1>2. calm' \in BOOLEAN /\ (calm' => calm /\ LeftAlone)
  BY <1>1, StaysCalm DEF ChangeField, LeftAlone
<1>3. CountsOK'
  BY <1>1, <1>2 DEF CountsOK, ChangeField
<1>4. [kind |-> "field", iss |-> cur.iss, edit |-> NewEdit, to |-> cur.data.proj] \in Writes
  BY <1>1, CurTyped DEF ChangeField, Editable, Writes
<1> QED
  BY <1>2, <1>3, <1>4, WriteQueued DEF ChangeField

LEMMA ChangeProjectStep == ASSUME IInv, NEW p \in Projects, ChangeProject(p) PROVE IInv'
<1>1. NewEdit \in Edits /\ used' \in 0 .. MaxEdits /\ CountsOK /\ Typed
  BY EditMade DEF IInv, Typed, ChangeProject
<1>2. calm' \in BOOLEAN /\ (calm' => calm /\ LeftAlone)
  BY <1>1, StaysCalm DEF ChangeProject, LeftAlone
<1>3. CountsOK'
  BY <1>1, <1>2 DEF CountsOK, ChangeProject
<1>4. [kind |-> "move", iss |-> cur.iss, edit |-> NewEdit, to |-> p] \in Writes
  BY <1>1, CurTyped DEF ChangeProject, Editable, Writes
<1> QED
  BY <1>2, <1>3, <1>4, WriteQueued DEF ChangeProject

LEMMA EditorWrite ==
    ASSUME Typed, editor # NoEdit
    PROVE  SaveOfEditor \in Writes /\ SaveOfEditor.kind = "editor"
<1>1. editor \in Edits /\ cur.iss # NoIssue
  BY DEF Typed, TabOK
<1> QED
  BY <1>1, CurTyped DEF SaveOfEditor, Writes

LEMMA SaveEditorStep == ASSUME IInv, SaveEditor PROVE IInv'
<1>1. SaveOfEditor \in Writes /\ CountsOK /\ Typed
  BY EditorWrite DEF IInv, Typed, SaveEditor
<1>2. calm' \in BOOLEAN /\ (calm' => calm /\ LeftAlone)
  BY <1>1, StaysCalm DEF SaveEditor, LeftAlone
<1>3. CountsOK'
  BY <1>1, <1>2 DEF CountsOK, SaveEditor
<1> QED
  BY <1>1, <1>2, <1>3, WriteQueued DEF SaveEditor

\* Text is typed or discarded.
LEMMA EditorChanges ==
    ASSUME IInv, editor' \in Edits \cup {NoEdit}, cur.iss # NoIssue, CountsOK', calm' => calm,
           UNCHANGED <<backend, shown, cur, etag, load, queue, run, closing, wait>>
    PROVE  IInv'
<1>1. ServerOK' /\ Grows
  BY ServerStays DEF IInv, Typed, backend
<1>2. TabOK'
  BY DEF IInv, Typed, TabOK, backend
<1>3. Typed'
  BY <1>1, <1>2, TypedStays DEF IInv, Typed, backend
<1>4. calm' => CalmInv'
  BY <1>1, CalmStays, MonotoneStays DEF IInv, CalmInv, backend
<1> QED
  BY <1>3, <1>4 DEF IInv

LEMMA EditingSteps == ASSUME IInv, StartEditing \/ CancelEditing PROVE IInv'
<1>1. CASE StartEditing
  <2>1. NewEdit \in Edits /\ used' \in 0 .. MaxEdits /\ CountsOK
    BY <1>1, EditMade DEF IInv, Typed, StartEditing
  <2>2. calm' \in BOOLEAN /\ (calm' => calm)
    BY <1>1, <2>1, StaysCalm DEF StartEditing, LeftAlone
  <2>3. CountsOK'
    BY <1>1, <2>1, <2>2 DEF CountsOK, StartEditing
  <2> QED
    BY <1>1, <2>1, <2>2, <2>3, EditorChanges DEF StartEditing, Editable
<1>2. CASE CancelEditing
  <2>1. CountsOK'
    BY <1>2 DEF IInv, Typed, CountsOK, CancelEditing, counts
  <2> QED
    BY <1>2, <2>1, EditorChanges DEF CancelEditing, Editable, counts
<1> QED
  BY <1>1, <1>2

\* Done, Archive or Delete gets on.
LEMMA ClosingChanges ==
    ASSUME IInv, ClosingOK', calm => DoneWaits' /\ DeleteHere',
           UNCHANGED <<backend, counts, shown, cur, etag, load, editor, queue, run>>
    PROVE  IInv'
<1>1. ServerOK' /\ Grows
  BY ServerStays DEF IInv, Typed, backend
<1>2. Typed'
  BY <1>1, TypedStays DEF IInv, Typed, backend, counts
<1>3. calm' => CalmInv'
  BY <1>1, CalmStays, MonotoneStays DEF IInv, CalmInv, backend, counts
<1> QED
  BY <1>2, <1>3 DEF IInv

LEMMA WritesCounted == ASSUME TabOK PROVE WritesAhead \in Nat
BY DEF TabOK, WritesAhead

LEMMA ClickDoneStep == ASSUME IInv, NEW how \in {"done", "archive"}, ClickDone(how) PROVE IInv'
<1>1. cur \in Copies /\ closing \in Closings /\ WritesAhead \in Nat
  BY WritesCounted DEF IInv, Typed, TabOK, ClosingOK
<1>2. At(how) \in Closings /\ At(how).stage = how
  BY <1>1, ClosingAt
<1>3. (~cur.data.arch) \in BOOLEAN
  BY Zenon
<1>4. closing' \in Closings /\ closing'.stage = how
  BY <1>2, <1>3 DEF ClickDone, Closings
<1>5. ClosingOK'
  BY <1>1, <1>4 DEF ClosingOK, ClickDone
<1>6. WritesAhead' = WritesAhead
  BY DEF ClickDone, WritesAhead, Running
<1>7. DoneWaits' /\ DeleteHere'
  BY <1>1, <1>4, <1>6 DEF DoneWaits, DeleteHere, ClickDone
<1> QED
  BY <1>5, <1>7, ClosingChanges DEF ClickDone

\* Done and Archive find the queue empty, as nothing was added to it.
LEMMA NothingAhead ==
    ASSUME IInv, calm, closing.stage \in {"done", "archive"}, wait = 0
    PROVE  ~Running /\ queue = <<>> /\ WritesAhead = 0
<1>1. queue \in Seq(Writes) /\ WritesAhead \in Nat /\ WritesAhead <= 0
  BY WritesCounted DEF IInv, CalmInv, Typed, TabOK, DoneWaits
<1>2. Len(queue) \in Nat
  BY <1>1
<1>3. Len(queue) = 0 /\ ~Running /\ WritesAhead = 0
  BY <1>1, <1>2 DEF WritesAhead
<1> QED
  BY <1>1, <1>3

LEMMA ArchiveAsksStep == ASSUME IInv, ArchiveAsks PROVE IInv'
<1>1. cur \in Copies /\ closing \in Closings /\ wait' = wait /\ wait = 0
  BY DEF IInv, Typed, TabOK, ClosingOK, ArchiveAsks
<1>2. closing' \in Closings /\ closing'.stage \in {"no", "archiveAsk"}
  BY <1>1, ClosingAt, ConstantsTyped DEF ArchiveAsks
<1>3. ClosingOK'
  BY <1>1, <1>2 DEF ClosingOK
<1>4. calm => WritesAhead = 0
  BY NothingAhead DEF ArchiveAsks
<1>5. WritesAhead' = WritesAhead
  BY DEF ArchiveAsks, WritesAhead, Running
<1>6. calm => DoneWaits' /\ DeleteHere'
  BY <1>1, <1>2, <1>4, <1>5 DEF DoneWaits, DeleteHere
<1> QED
  BY <1>3, <1>6, ClosingChanges DEF ArchiveAsks

LEMMA AnswerArchiveStep == ASSUME IInv, NEW yes \in BOOLEAN, AnswerArchive(yes) PROVE IInv'
<1>1. cur \in Copies /\ closing \in Closings /\ wait' = wait /\ wait \in Nat
  BY DEF IInv, Typed, TabOK, ClosingOK, AnswerArchive
<1>2. \/ closing' = NotClosing
      \/ closing' = At("archiveSent") /\ cur.iss # NoIssue
  BY DEF AnswerArchive
<1>3. closing' \in Closings /\ closing'.stage \in {"no", "archiveSent"}
  BY <1>1, <1>2, ClosingAt, ConstantsTyped
<1>4. closing'.stage = "archiveSent" => closing'.iss \in Issues
  BY <1>1, <1>2, ClosingAt, ConstantsTyped, CurTyped DEF IInv
<1>5. ClosingOK'
  BY <1>1, <1>3, <1>4 DEF ClosingOK
<1>6. calm => wait = 0 /\ WritesAhead = 0
  BY DEF IInv, CalmInv, DoneWaits, AnswerArchive
<1>7. WritesAhead' = WritesAhead
  BY DEF AnswerArchive, WritesAhead, Running
<1>8. calm => DoneWaits' /\ DeleteHere'
  BY <1>1, <1>3, <1>6, <1>7 DEF DoneWaits, DeleteHere
<1> QED
  BY <1>5, <1>8, ClosingChanges DEF AnswerArchive

LEMMA ClickDeleteStep == ASSUME IInv, ClickDelete PROVE IInv'
<1>1. cur \in Copies /\ closing \in Closings /\ wait' = wait /\ wait \in Nat
  BY DEF IInv, Typed, TabOK, ClosingOK, ClickDelete
<1>2. closing' \in Closings /\ closing'.stage = "deleteAsk"
  BY <1>1, ClosingAt DEF ClickDelete
<1>3. ClosingOK' /\ DoneWaits' /\ DeleteHere'
  BY <1>1, <1>2 DEF ClosingOK, DoneWaits, DeleteHere
<1> QED
  BY <1>3, ClosingChanges DEF ClickDelete

LEMMA AnswerDeleteStep == ASSUME IInv, NEW yes \in BOOLEAN, AnswerDelete(yes) PROVE IInv'
<1>1. cur \in Copies /\ closing \in Closings /\ wait' = wait /\ wait \in Nat
  BY DEF IInv, Typed, TabOK, ClosingOK, AnswerDelete
<1>2. \/ closing' = NotClosing
      \/ closing' = At("deleteSent") /\ cur.iss # NoIssue
  BY DEF AnswerDelete
<1>3. /\ closing' \in Closings /\ closing'.stage \in {"no", "deleteSent"}
      /\ closing'.stage = "deleteSent" => closing'.iss = cur.iss /\ cur.iss \in Issues
  BY <1>1, <1>2, ClosingAt, ConstantsTyped, CurTyped DEF IInv
<1>4. ClosingOK'
  BY <1>1, <1>3 DEF ClosingOK
<1>5. UNCHANGED <<cur, load, gone>>
  BY DEF AnswerDelete, backend
<1>6. calm => DoneWaits' /\ DeleteHere'
  BY <1>3, <1>5 DEF IInv, CalmInv, ShownHere, DoneWaits, DeleteHere
<1> QED
  BY <1>4, <1>6, ClosingChanges DEF AnswerDelete

\* Done saves the open text.
LEMMA DoneSavesEditorStep == ASSUME IInv, DoneSavesEditor PROVE IInv'
<1>1. /\ cur \in Copies /\ closing \in Closings /\ wait' = wait /\ wait = 0
      /\ queue \in Seq(Writes) /\ run' = run
  BY DEF IInv, Typed, TabOK, ClosingOK, DoneSavesEditor
<1>2. SaveOfEditor \in Writes /\ SaveOfEditor.kind = "editor"
  BY EditorWrite DEF IInv, DoneSavesEditor
<1>3. queue' \in {queue, Append(queue, SaveOfEditor)}
  BY DEF DoneSavesEditor, Enqueued
<1>4. queue' \in Seq(Writes)
  BY <1>1, <1>2, <1>3
<1>5. closing' \in Closings /\ closing'.stage = "saving"
  BY <1>1, ClosingAt DEF DoneSavesEditor
<1>6. ServerOK' /\ Grows
  BY ServerStays DEF IInv, Typed, DoneSavesEditor, backend
<1>7. ClosingOK' /\ TabOK'
  BY <1>1, <1>4, <1>5 DEF ClosingOK, IInv, Typed, TabOK, DoneSavesEditor, backend
<1>8. Typed'
  BY <1>6, <1>7, TypedStays DEF IInv, Typed, DoneSavesEditor, backend, counts
<1>9. ASSUME calm
      PROVE  DoneWaits' /\ DeleteHere'
  <2>1. queue = <<>> /\ ~Running /\ WritesAhead = 0
    BY <1>9, NothingAhead DEF DoneSavesEditor
  <2>2. queue' \in {<<>>, <<SaveOfEditor>>}
    BY <1>3, <2>1
  <2>3. ~(Running') /\ WritesAhead' <= 1
    BY <1>1, <2>1, <2>2 DEF Running, WritesAhead
  <2>4. queue' # <<>> => Head(queue').kind = "editor"
    BY <1>2, <2>2
  <2> QED
    BY <1>1, <1>5, <2>3, <2>4 DEF DoneWaits, DeleteHere
<1>10. calm => CalmInv'
  BY <1>6, <1>9, CalmStays, MonotoneStays DEF IInv, CalmInv, DoneSavesEditor, backend, counts
<1> QED
  BY <1>8, <1>10 DEF IInv, DoneSavesEditor, counts

\* The modal closes.  While all is calm, a write that goes on is one of a deleted issue.
LEMMA ModalCloses ==
    ASSUME IInv, NEW VARIABLE r, CloseModal(r), ClosingOK',
           UNCHANGED <<backend, counts, queue, wait>>,
           run = NoRun => r = NoRun,
           run # NoRun =>
             /\ r \in Runs /\ r.kind = run.kind /\ r.iss = run.iss /\ r.edit = run.edit /\ r.got = run.got /\ ~r.same
             /\ r.stage = IF run.stage = "load" THEN r.stage ELSE run.stage
             /\ r.stage # "load" /\ (run.stage = "load" => r.stage \in {"oldload", "sent"})
             /\ r.stage = "sent" => r.etag # NoETag,
           calm /\ run # NoRun => run.iss \in gone,
           calm => closing' = closing \/ closing' = NotClosing
    PROVE  IInv'
<1>1. ServerOK' /\ Grows
  BY ServerStays DEF IInv, Typed, backend
<1>2. /\ shown' = FALSE /\ cur' = NoCopy /\ etag' = NoETag /\ load' = NoLoad
      /\ editor' = NoEdit /\ run' = r
  BY DEF CloseModal
<1>3. TabOK'
  BY <1>2, ConstantsTyped DEF IInv, Typed, TabOK, backend
<1>4. LoadOK'
  BY <1>2, ConstantsTyped DEF LoadOK
<1>5. CASE run = NoRun
  <2>1. run' = run
    BY <1>2, <1>5
  <2>2. Typed'
    BY <1>1, <1>3, <1>4, <2>1, TypedStays DEF IInv, Typed, backend, counts
  <2>3. ASSUME calm PROVE CalmInv'
    <3>1. RunHere' /\ SaveFits' /\ SavesAfterLoad'
      BY <1>5, <2>1, NoRunTyped DEF RunHere, SaveFits, SavesAfterLoad
    <3>2. ShownHere' /\ BaseFits' /\ ETagFits'
      BY <1>2, ConstantsTyped DEF ShownHere, BaseFits, ETagFits, Live
    <3>3. DoneWaits' /\ DeleteHere'
      <4>1. CASE closing' = NotClosing
        BY <4>1, ConstantsTyped DEF DoneWaits, DeleteHere
      <4>2. CASE closing' = closing
        <5>1. DoneWaits'
          BY <2>1, <2>3, <4>2, <1>1, CalmStays DEF IInv
        <5>2. DeleteHere'
          BY <1>2, <4>2, ConstantsTyped DEF DeleteHere
        <5> QED
          BY <5>1, <5>2
      <4> QED
        BY <2>3, <4>1, <4>2
    <3>4. Monotone' /\ LateFits'
      BY <1>1, <2>3, CalmStays, MonotoneStays DEF IInv, CalmInv, backend
    <3> QED
      BY <3>1, <3>2, <3>3, <3>4 DEF CalmInv
  <2> QED
    BY <2>2, <2>3 DEF IInv, counts
<1>6. CASE run # NoRun
  <2>1. run' # NoRun
    BY <1>2, <1>6, NoRunTyped DEF IInv, Typed, RunOK
  <2>2. RunOK'
    BY <1>2, <1>6, <2>1 DEF IInv, Typed, RunOK, SaveStages, MoveStages, backend
  <2>3. Typed'
    BY <1>1, <1>3, <1>4, <2>2, TypedStays DEF IInv, Typed, backend, counts
  <2>4. ASSUME calm PROVE CalmInv'
    <3>1. run'.iss \in gone' /\ gone' = gone
      BY <1>2, <1>6, <2>4 DEF backend
    <3>2. RunHere' /\ SaveFits' /\ SavesAfterLoad'
      BY <3>1 DEF RunHere, SaveFits, SavesAfterLoad, Built
    <3>3. ShownHere' /\ BaseFits' /\ ETagFits'
      BY <1>2, ConstantsTyped DEF ShownHere, BaseFits, ETagFits, Live
    <3>4. DoneWaits' /\ DeleteHere'
      <4>1. CASE closing' = NotClosing
        BY <4>1, ConstantsTyped DEF DoneWaits, DeleteHere
      <4>2. CASE closing' = closing
        <5>1. WritesAhead' = WritesAhead /\ Running /\ Running' /\ run'.kind = run.kind
          BY <1>2, <1>6, <2>1 DEF WritesAhead, Running
        <5>2. DoneWaits'
          BY <2>4, <4>2, <5>1 DEF DoneWaits, IInv, CalmInv
        <5>3. DeleteHere'
          BY <1>2, <4>2, ConstantsTyped DEF DeleteHere
        <5> QED
          BY <5>2, <5>3
      <4> QED
        BY <2>4, <4>1, <4>2
    <3>5. Monotone' /\ LateFits'
      BY <1>1, <2>4, CalmStays, MonotoneStays DEF IInv, CalmInv, backend
    <3> QED
      BY <3>2, <3>3, <3>4, <3>5 DEF CalmInv
  <2> QED
    BY <2>3, <2>4 DEF IInv, counts
<1> QED
  BY <1>5, <1>6

\* What becomes of a write when its modal closes or another opens.
LEMMA RunSuperseded ==
    ASSUME RunOK, run # NoRun
    PROVE  LET r == Superseded(run) IN
           /\ r \in Runs /\ r.kind = run.kind /\ r.iss = run.iss /\ r.edit = run.edit /\ r.got = run.got /\ ~r.same
           /\ r.stage = IF run.stage = "load" THEN "oldload" ELSE run.stage
           /\ r.stage # "load" /\ r.data = run.data /\ r.etag = run.etag
           /\ r.stage = "sent" => r.etag # NoETag
           /\ r # NoRun
BY SupersededTyped, NoRunTyped DEF RunOK

LEMMA DoneClosesStep == ASSUME IInv, DoneCloses PROVE IInv'
<1> DEFINE r == IF Running THEN Superseded(run) ELSE NoRun
<1>1. ClosingOK' /\ closing' = NotClosing
  BY ConstantsTyped DEF IInv, Typed, ClosingOK, DoneCloses
<1>2. RunOK
  BY DEF IInv, Typed
<1>3. calm => run = NoRun
  BY NothingAhead DEF DoneCloses, Running
<1>4. run = NoRun => r = NoRun
  BY DEF Running
<1>5. run # NoRun => r = Superseded(run)
  BY DEF Running
<1>6. CloseModal(r) /\ UNCHANGED <<backend, counts, queue, wait>>
  BY DEF DoneCloses
<1> HIDE DEF r
<1> QED
  BY <1>1, <1>2, <1>3, <1>4, <1>5, <1>6, RunSuperseded, ModalCloses

LEMMA ClosedByServerStep == ASSUME IInv, ClosedByServer PROVE IInv'
<1> DEFINE r == IF Running THEN Superseded(run) ELSE NoRun
<1>1. ClosingOK' /\ closing' = NotClosing
  BY ConstantsTyped DEF IInv, Typed, ClosingOK, ClosedByServer
<1>2. RunOK
  BY DEF IInv, Typed
<1>3. ASSUME calm, run # NoRun PROVE run.iss \in gone
  <2>1. CASE closing.stage = "archived"
    <3>1. WritesAhead = 0 /\ queue \in Seq(Writes)
      BY <1>3, <2>1 DEF IInv, CalmInv, DoneWaits, Typed, TabOK
    <3>2. Len(queue) \in Nat
      BY <3>1
    <3> QED
      BY <1>3, <3>1, <3>2 DEF WritesAhead, Running
  <2>2. CASE closing.stage = "deleted"
    <3>1. cur.iss \in {NoIssue} \cup gone
      BY <1>3, <2>2 DEF IInv, CalmInv, DeleteHere
    <3>2. run.iss \in Issues
      BY <1>3 DEF IInv, Typed, RunOK
    <3> QED
      BY <1>3, <3>1, <3>2, ModalAssumption DEF IInv, CalmInv, RunHere
  <2> QED
    BY <2>1, <2>2 DEF ClosedByServer
<1>4. run = NoRun => r = NoRun
  BY DEF Running
<1>5. run # NoRun => r = Superseded(run)
  BY DEF Running
<1>6. CloseModal(r) /\ UNCHANGED <<backend, counts, queue, wait>>
  BY DEF ClosedByServer
<1> HIDE DEF r
<1> QED
  BY <1>1, <1>2, <1>3, <1>4, <1>5, <1>6, RunSuperseded, ModalCloses

\* The modal opens with an old version; no write of an issue that is there goes on.
LEMMA OpenModalStep ==
    ASSUME IInv, NEW i \in Issues, NEW n \in 1 .. Version(i), OpenModal(i, n)
    PROVE  IInv'
<1> DEFINE r == IF Running THEN Superseded(run) ELSE NoRun
           l == [stage |-> "sent", iss |-> i, base |-> n, proj |-> server[i][n].proj, got |-> 0]
<1>1. ServerOK' /\ Grows /\ ServerOK
  BY ServerStays DEF IInv, Typed, OpenModal, backend
<1>2. n \in 1 .. Len(server[i]) /\ server[i][n].proj \in Projects
  BY <1>1, CopyTyped DEF Version, Contents
<1>3. /\ CopyOf(i, n) \in Copies /\ CopyOf(i, n).iss = i /\ CopyOf(i, n).v = n
      /\ CopyOf(i, n).data = server[i][n]
  BY <1>1, <1>2, CopyTyped
<1>4. /\ l \in Loads /\ l # NoLoad /\ l.stage = "sent" /\ l.iss = i /\ l.base = n /\ l.got = 0
  BY <1>2, ConstantsTyped DEF Loads
<1>5. /\ shown' = TRUE /\ cur' = CopyOf(i, n) /\ etag' = NoETag /\ load' = l /\ run' = r
      /\ ~shown /\ UserMay
      /\ UNCHANGED <<server, gone, late, used, timeouts, calm, editor, queue, closing, wait>>
  BY DEF OpenModal, backend
<1>6. opens' \in 0 .. MaxOpens
  BY ModalAssumption DEF OpenModal, IInv, Typed, CountsOK
<1>7. run = NoRun => r = NoRun
  BY DEF Running
<1>8. run # NoRun => r = Superseded(run)
  BY DEF Running
<1> HIDE DEF r, l
<1>9. Len(server[i]) \in Nat
  BY <1>1 DEF ServerOK
<1>10. TabOK'
  BY <1>2, <1>3, <1>4, <1>5, ConstantsTyped, ModalAssumption DEF IInv, Typed, TabOK
<1>11. LoadOK'
  BY <1>2, <1>4, <1>5, <1>9 DEF LoadOK
<1>12. RunOK'
  <2>1. CASE run = NoRun
    BY <1>5, <1>7, <2>1 DEF IInv, Typed, RunOK
  <2>2. CASE run # NoRun
    BY <1>5, <1>8, <2>2, RunSuperseded DEF IInv, Typed, RunOK, SaveStages, MoveStages
  <2> QED
    BY <2>1, <2>2
<1>13. Typed'
  BY <1>1, <1>5, <1>6, <1>10, <1>11, <1>12, TypedStays DEF IInv, Typed, CountsOK
<1>14. ASSUME calm PROVE CalmInv'
  <2>1. run' # NoRun => run # NoRun /\ run'.iss \in gone' /\ run'.stage # "load" /\ run'.kind = run.kind
    <3>1. run # NoRun => run.iss \in gone
      BY <1>5, <1>14 DEF IInv, CalmInv, RunHere
    <3> QED
      BY <1>5, <1>7, <1>8, <3>1, RunSuperseded DEF IInv, Typed
  <2>2. run' = NoRun => run'.stage = "none"
    BY NoRunTyped
  <2>3. RunHere' /\ SavesAfterLoad' /\ SaveFits'
    BY <2>1, <2>2 DEF RunHere, SavesAfterLoad, SaveFits, Built
  <2>4. ShownHere'
    BY <1>3, <1>4, <1>5 DEF ShownHere
  <2>5. run'.stage # "moved"
    <3>1. run.stage # "moved"
      BY <1>5 DEF UserMay, DialogOpen
    <3> QED
      BY <1>5, <1>7, <1>8, <2>2, <3>1, RunSuperseded DEF IInv, Typed
  <2>6. BaseFits'
    BY <1>2, <1>3, <1>4, <1>5, <2>5 DEF BaseFits
  <2>7. ETagFits'
    BY <1>4, <1>5 DEF ETagFits
  <2>8. DoneWaits'
    <3>1. Running' <=> Running
      BY <1>5, <1>7, <1>8, RunSuperseded DEF Running, IInv, Typed
    <3>2. WritesAhead' = WritesAhead
      BY <1>5, <3>1 DEF WritesAhead
    <3> QED
      BY <1>5, <1>14, <2>1, <3>1, <3>2 DEF DoneWaits, IInv, CalmInv, Running
  <2>9. DeleteHere'
    BY <1>5 DEF DeleteHere, UserMay, DialogOpen
  <2>10. LateFits' /\ Monotone'
    BY <1>1, <1>5, <1>14, CalmStays, MonotoneStays DEF IInv, CalmInv
  <2> QED
    BY <2>3, <2>4, <2>6, <2>7, <2>8, <2>9, <2>10 DEF CalmInv
<1> QED
  BY <1>5, <1>13, <1>14 DEF IInv

-----------------------------------------------------------------------------
(* The writes of the chain.                                                *)

LEMMA WriteTaken ==
    ASSUME queue \in Seq(Writes), queue # <<>>, queue' = Tail(queue)
    PROVE  /\ Head(queue) \in Writes /\ queue' \in Seq(Writes)
           /\ Len(queue) \in Nat /\ Len(queue) >= 1 /\ Len(queue') = Len(queue) - 1
           /\ Len(queue) = 1 => queue' = <<>>
OBVIOUS

\* The write that starts is the first of those ahead.
LEMMA AheadStays ==
    ASSUME IInv, calm, queue # <<>>, queue' = Tail(queue), ~Running, run' # NoRun,
           run'.kind = Head(queue).kind, UNCHANGED <<closing, wait>>
    PROVE  DoneWaits'
<1>1. queue \in Seq(Writes)
  BY DEF IInv, Typed, TabOK
<1>2. WritesAhead' = WritesAhead /\ WritesAhead = Len(queue) /\ Len(queue) \in Nat
  BY <1>1, WriteTaken DEF WritesAhead, Running
<1>3. Len(queue) <= 1 => queue' = <<>>
  BY <1>1, <1>2, WriteTaken
<1>4. DoneWaits
  BY DEF IInv, CalmInv
<1> QED
  BY <1>2, <1>3, <1>4 DEF DoneWaits

LEMMA StartSaveStep == ASSUME IInv, StartSave PROVE IInv'
<1> DEFINE w == Head(queue)
           d == [cur.data EXCEPT !.edits = @ \cup {w.edit}]
           s == IF WaitsForLoad THEN "load" ELSE "sent"
           r == [kind |-> w.kind, iss |-> w.iss, edit |-> w.edit, to |-> w.to, stage |-> s,
                 data |-> d, etag |-> etag, same |-> TRUE, got |-> 0]
<1>1. ServerOK' /\ Grows /\ ServerOK
  BY ServerStays DEF IInv, Typed, StartSave, backend
<1>2. /\ ~Running /\ queue # <<>> /\ w.kind # "move" /\ cur.iss = w.iss
      /\ queue' = Tail(queue) /\ run' = r
      /\ UNCHANGED <<server, gone, late, used, opens, timeouts, calm, shown, cur, etag, load,
                     editor, closing, wait>>
  BY DEF StartSave, backend, counts
<1>3. queue \in Seq(Writes) /\ cur \in Copies /\ etag \in ETags
  BY DEF IInv, Typed, TabOK
<1>4. w \in Writes /\ queue' \in Seq(Writes)
  BY <1>2, <1>3, WriteTaken
<1>5. w.kind \in {"field", "editor"} /\ w.iss \in Issues /\ w.edit \in Edits
  BY <1>2, <1>4 DEF Writes
<1>6. d \in Contents /\ cur.data.edits \subseteq d.edits
  BY <1>3, <1>4 DEF Copies, Contents, Writes
<1>7. s \in {"load", "sent"} /\ (s = "sent" <=> load = NoLoad)
  BY DEF WaitsForLoad
<1> HIDE DEF d, s
<1>8. r \in Runs
  BY <1>3, <1>4, <1>5, <1>6, <1>7 DEF Runs, Writes
<1>9. /\ r.kind = w.kind /\ r.iss = w.iss /\ r.edit = w.edit /\ r.stage = s /\ r.data = d /\ r.etag = etag
      /\ r.same /\ r.got = 0
  OBVIOUS
<1>10. r # NoRun
  BY <1>5, <1>9, NoRunTyped
<1> HIDE DEF r
<1>11. TabOK'
  BY <1>2, <1>4 DEF IInv, Typed, TabOK
<1>12. Len(server[w.iss]) \in Nat
  BY <1>1, <1>5 DEF ServerOK
<1>13. s = "sent" => etag # NoETag
  BY <1>2, <1>5, <1>7, ModalAssumption DEF IInv, Typed, TabOK
<1>14. RunOK'
  BY <1>2, <1>5, <1>7, <1>8, <1>9, <1>12, <1>13 DEF RunOK, SaveStages
<1>15. Typed'
  BY <1>1, <1>2, <1>11, <1>14, TypedStays DEF IInv, Typed
<1>16. ASSUME calm PROVE CalmInv'
  <2>1. RunHere'
    BY <1>2, <1>5, <1>9, <1>16 DEF RunHere, IInv, CalmInv, ShownHere, Live
  <2>2. BaseFits' /\ SavesAfterLoad'
    BY <1>2, <1>7, <1>9, <1>16 DEF BaseFits, SavesAfterLoad, IInv, CalmInv
  <2>3. SaveFits'
    <3>1. ASSUME s = "sent", w.iss \notin gone, etag[1] = w.iss
          PROVE  etag[2] \in 1 .. Len(server[w.iss]) /\ server[w.iss][etag[2]].edits \subseteq d.edits
      <4>1. etag[2] \in 1 .. cur.v
        BY <1>2, <1>5, <1>7, <1>16, <3>1 DEF IInv, CalmInv, ETagFits, Live
      <4>2. cur.v \in 1 .. Len(server[w.iss]) /\ cur.data = server[w.iss][cur.v]
        BY <1>2, <1>5 DEF IInv, Typed, TabOK
      <4>3. etag[2] \in 1 .. Len(server[w.iss]) /\ etag[2] <= cur.v
        BY <1>12, <4>1, <4>2
      <4>4. server[w.iss][etag[2]].edits \subseteq server[w.iss][cur.v].edits
        BY <1>5, <1>16, <4>2, <4>3 DEF IInv, CalmInv, Monotone
      <4> QED
        BY <1>6, <4>2, <4>3, <4>4
    <3>2. run'.stage = "sent" => Built(run)'
      BY <1>2, <1>9, <3>1 DEF Built
    <3> QED
      BY <1>2, <1>6, <1>9, <3>2 DEF SaveFits
  <2>4. DoneWaits'
    BY <1>2, <1>9, <1>10, <1>16, AheadStays
  <2>5. ShownHere' /\ ETagFits' /\ LateFits' /\ DeleteHere' /\ Monotone'
    BY <1>1, <1>2, <1>16, CalmStays, MonotoneStays DEF IInv, CalmInv
  <2> QED
    BY <2>1, <2>2, <2>3, <2>4, <2>5 DEF CalmInv
<1> QED
  BY <1>2, <1>15, <1>16 DEF IInv

LEMMA StartMoveStep == ASSUME IInv, StartMove PROVE IInv'
<1> DEFINE w == Head(queue)
           r == [NoRun EXCEPT !.kind = "move", !.iss = cur.iss, !.edit = w.edit, !.to = w.to,
                              !.stage = "confirm", !.data.proj = cur.data.proj]
<1>1. ServerOK' /\ Grows /\ ServerOK
  BY ServerStays DEF IInv, Typed, StartMove, backend
<1>2. /\ ~Running /\ queue # <<>> /\ w.kind = "move" /\ cur.iss # NoIssue
      /\ queue' = Tail(queue) /\ run' = r
      /\ UNCHANGED <<server, gone, late, used, opens, timeouts, calm, shown, cur, etag, load,
                     editor, closing, wait>>
  BY DEF StartMove, backend, counts
<1>3. queue \in Seq(Writes) /\ cur.iss \in Issues /\ cur.data.proj \in Projects
  BY <1>2, CurTyped DEF IInv, Typed, TabOK
<1>4. w \in Writes /\ queue' \in Seq(Writes)
  BY <1>2, <1>3, WriteTaken
<1>5. r \in Runs /\ r.kind = "move" /\ r.iss = cur.iss /\ r.edit \in Edits /\ r.stage = "confirm" /\ ~r.same /\ r.got = 0
  BY <1>3, <1>4, NoRunTyped DEF Runs, Writes, Contents
<1>6. r # NoRun
  BY <1>5, NoRunTyped
<1> HIDE DEF r
<1>7. TabOK'
  BY <1>2, <1>4 DEF IInv, Typed, TabOK
<1>8. Len(server[cur.iss]) \in Nat
  BY <1>1, <1>3 DEF ServerOK
<1>9. RunOK'
  BY <1>2, <1>3, <1>5, <1>8 DEF RunOK, MoveStages
<1>10. Typed'
  BY <1>1, <1>2, <1>7, <1>9, TypedStays DEF IInv, Typed
<1>11. ASSUME calm PROVE CalmInv'
  <2>1. RunHere'
    BY <1>2, <1>3, <1>5, <1>11 DEF RunHere, IInv, CalmInv, ShownHere, Live
  <2>2. BaseFits' /\ SavesAfterLoad' /\ SaveFits'
    BY <1>2, <1>5, <1>11 DEF BaseFits, SavesAfterLoad, SaveFits, IInv, CalmInv
  <2>3. DoneWaits'
    BY <1>2, <1>5, <1>6, <1>11, AheadStays
  <2>4. ShownHere' /\ ETagFits' /\ LateFits' /\ DeleteHere' /\ Monotone'
    BY <1>1, <1>2, <1>11, CalmStays, MonotoneStays DEF IInv, CalmInv
  <2> QED
    BY <2>1, <2>2, <2>3, <2>4 DEF CalmInv
<1> QED
  BY <1>2, <1>10, <1>11 DEF IInv

LEMMA DropWriteStep == ASSUME IInv, DropWrite PROVE IInv'
<1> DEFINE w == Head(queue)
<1>1. ServerOK' /\ Grows
  BY ServerStays DEF IInv, Typed, DropWrite, backend
<1>2. /\ ~Running /\ queue # <<>> /\ queue' = Tail(queue)
      /\ wait' = IF wait > 0 THEN wait - 1 ELSE 0
      /\ closing' = IF closing.stage = "saving" /\ w.kind = "editor" THEN NotClosing ELSE closing
      /\ UNCHANGED <<server, gone, late, used, opens, timeouts, calm, shown, cur, etag, load,
                     editor, run>>
  BY DEF DropWrite, backend, counts
<1>3. queue \in Seq(Writes) /\ wait \in Nat
  BY DEF IInv, Typed, TabOK, ClosingOK
<1>4. /\ queue' \in Seq(Writes) /\ Len(queue) \in Nat /\ Len(queue) >= 1
      /\ Len(queue') = Len(queue) - 1
  BY <1>2, <1>3, WriteTaken
<1>5. TabOK' /\ ClosingOK'
  BY <1>2, <1>3, <1>4, ConstantsTyped DEF IInv, Typed, TabOK, ClosingOK
<1>6. Typed'
  BY <1>1, <1>2, <1>5, TypedStays DEF IInv, Typed
<1>7. ASSUME calm PROVE DoneWaits' /\ DeleteHere'
  <2>1. WritesAhead = Len(queue) /\ WritesAhead' = Len(queue) - 1
    BY <1>2, <1>4 DEF WritesAhead, Running
  <2>2. DoneWaits /\ DeleteHere
    BY <1>7 DEF IInv, CalmInv
  <2>3. closing.stage = "saving" => closing' = NotClosing
    BY <1>2, <2>2 DEF DoneWaits
  <2>4. CASE closing' = NotClosing
    BY <2>4, ConstantsTyped DEF DoneWaits, DeleteHere
  <2>5. CASE closing' = closing /\ closing.stage # "saving"
    <3>1. DoneWaits'
      BY <1>2, <1>3, <1>4, <2>1, <2>2, <2>5 DEF DoneWaits
    <3> QED
      BY <1>2, <2>2, <2>5, <3>1 DEF DeleteHere
  <2> QED
    BY <1>2, <2>3, <2>4, <2>5
<1>8. calm => CalmInv'
  BY <1>1, <1>2, <1>7, CalmStays, MonotoneStays DEF IInv, CalmInv
<1> QED
  BY <1>2, <1>6, <1>8 DEF IInv

-----------------------------------------------------------------------------
(* The revalidation.                                                       *)

LEMMA AnsweredTyped ==
    ASSUME LoadOK, load # NoLoad, ServerOK, NEW n \in 0 .. Len(server[load.iss])
    PROVE  LET l == [load EXCEPT !.stage = "answered", !.got = n] IN
           /\ l \in Loads /\ l # NoLoad /\ l.stage = "answered" /\ l.got = n
           /\ l.iss = load.iss /\ l.base = load.base /\ l.proj = load.proj
<1>1. load \in Loads /\ load.iss \in Issues
  BY DEF LoadOK
<1>2. server[load.iss] \in Seq(Contents)
  BY <1>1 DEF ServerOK
<1>3. n \in Nat
  BY <1>2
<1> QED
  BY <1>1, <1>3, ConstantsTyped DEF Loads

\* The answer arrives, or is given up.
LEMMA LoadAnswered ==
    ASSUME IInv, load # NoLoad, NEW n \in 0 .. Len(server[load.iss]),
           load' = [load EXCEPT !.stage = "answered", !.got = n],
           CountsOK', calm' => calm /\ (n = 0 => load.iss \in gone),
           UNCHANGED <<backend, shown, cur, etag, editor, queue, run, closing, wait>>
    PROVE  IInv'
<1>1. ServerOK' /\ Grows /\ ServerOK /\ LoadOK
  BY ServerStays DEF IInv, Typed, backend
<1>2. /\ load' \in Loads /\ load' # NoLoad /\ load'.stage = "answered" /\ load'.got = n
      /\ load'.iss = load.iss /\ load'.base = load.base
  BY <1>1, AnsweredTyped
<1>3. LoadOK' /\ TabOK'
  BY <1>1, <1>2 DEF LoadOK, IInv, Typed, TabOK, backend
<1>4. Typed'
  BY <1>1, <1>3, TypedStays DEF IInv, Typed, backend
<1>5. ASSUME calm' PROVE CalmInv'
  <2>1. ShownHere' /\ BaseFits' /\ SavesAfterLoad' /\ ETagFits' /\ DeleteHere'
    BY <1>2, <1>5
       DEF ShownHere, BaseFits, SavesAfterLoad, ETagFits, DeleteHere, IInv, CalmInv, Live, backend
  <2>2. RunHere' /\ SaveFits' /\ LateFits' /\ DoneWaits' /\ Monotone'
    BY <1>1, <1>5, CalmStays, MonotoneStays DEF IInv, CalmInv, backend
  <2> QED
    BY <2>1, <2>2 DEF CalmInv
<1> QED
  BY <1>4, <1>5 DEF IInv

LEMMA LatestTyped ==
    ASSUME ServerOK, NEW i \in Issues, NEW p
    PROVE  /\ Len(server[i]) \in Nat /\ Len(server[i]) >= 1
           /\ Latest(i, p) \in 0 .. Len(server[i])
           /\ Latest(i, p) = 0 <=> ~Found(i, p)
           /\ Found(i, p) => i \notin gone
<1>1. server[i] \in Seq(Contents) /\ Len(server[i]) >= 1
  BY DEF ServerOK
<1>2. Len(server[i]) \in Nat
  BY <1>1
<1> QED
  BY <1>1, <1>2 DEF Latest, Found, Version, Open

LEMMA ServeLoadStep == ASSUME IInv, ServeLoad PROVE IInv'
<1>1. load # NoLoad /\ load.iss \in Issues /\ ServerOK /\ CountsOK
  BY ConstantsTyped DEF IInv, Typed, LoadOK, ServeLoad
<1> DEFINE n == Latest(load.iss, load.proj)
<1>2. n \in 0 .. Len(server[load.iss]) /\ (n = 0 <=> ~Found(load.iss, load.proj))
  BY <1>1, LatestTyped
<1>3. (Open(load.iss) /\ ~Found(load.iss, load.proj)) \in BOOLEAN
  BY Zenon
<1>4. calm' \in BOOLEAN /\ (calm' => calm /\ ~(Open(load.iss) /\ ~Found(load.iss, load.proj)))
  BY <1>1, <1>3, StaysCalm DEF ServeLoad
<1>5. calm' => calm /\ (n = 0 => load.iss \in gone)
  BY <1>2, <1>4 DEF Open
<1>6. CountsOK'
  BY <1>1, <1>4 DEF CountsOK, ServeLoad
<1>7. load' = [load EXCEPT !.stage = "answered", !.got = n]
  BY DEF ServeLoad
<1> HIDE DEF n
<1> QED
  BY <1>1, <1>2, <1>5, <1>6, <1>7, LoadAnswered DEF ServeLoad

LEMMA TimeoutCounted ==
    ASSUME CountsOK, TimesOut, UNCHANGED <<used, opens>>, calm' \in BOOLEAN
    PROVE  CountsOK'
BY ModalAssumption DEF CountsOK, TimesOut

LEMMA LoadTimesOutStep == ASSUME IInv, LoadTimesOut PROVE IInv'
<1>1. load # NoLoad /\ load.iss \in Issues /\ ServerOK /\ CountsOK
  BY ConstantsTyped DEF IInv, Typed, LoadOK, LoadTimesOut
<1>2. Len(server[load.iss]) \in Nat
  BY <1>1, LatestTyped
<1>3. 0 \in 0 .. Len(server[load.iss])
  BY <1>2
<1>4. CountsOK'
  BY <1>1, TimeoutCounted DEF LoadTimesOut
<1> QED
  BY <1>1, <1>3, <1>4, LoadAnswered DEF LoadTimesOut

LEMMA LoadFindsNothingStep == ASSUME IInv, LoadFindsNothing PROVE IInv'
<1> DEFINE q == [run EXCEPT !.same = FALSE]
           r == AfterLoad(q, NoETag)
<1>1. RunOK /\ load # NoLoad /\ load.iss \in Issues /\ run \in Runs
  BY ConstantsTyped DEF IInv, Typed, RunOK, LoadOK, LoadFindsNothing
<1>2. ClosingOK' /\ closing' = closing
  BY DEF IInv, Typed, ClosingOK, LoadFindsNothing
<1>3. CloseModal(r) /\ UNCHANGED <<backend, counts, queue, wait>>
  BY DEF LoadFindsNothing
<1>4. /\ q \in Runs /\ q.kind = run.kind /\ q.iss = run.iss /\ q.edit = run.edit /\ q.stage = run.stage
      /\ q.etag = run.etag /\ ~q.same /\ q.got = run.got
  BY <1>1, DetachedTyped
<1>5. run = NoRun => q = NoRun
  BY NoRunTyped DEF Runs
<1> HIDE DEF q
<1>6. /\ Resumed(q, NoETag) \in Runs /\ Resumed(q, NoETag).kind = run.kind
      /\ Resumed(q, NoETag).iss = run.iss /\ Resumed(q, NoETag).edit = run.edit
      /\ Resumed(q, NoETag).stage = "sent"
      /\ Resumed(q, NoETag).etag = Stale /\ ~Resumed(q, NoETag).same
      /\ Resumed(q, NoETag).got = run.got
  BY <1>4, ResumedTyped, ConstantsTyped
<1>7. run = NoRun => r = NoRun
  BY <1>5, NoRunTyped DEF AfterLoad
<1>8. run # NoRun =>
        /\ r \in Runs /\ r.kind = run.kind /\ r.iss = run.iss /\ r.edit = run.edit /\ r.got = run.got /\ ~r.same
        /\ r.stage = IF run.stage = "load" THEN r.stage ELSE run.stage
        /\ r.stage # "load" /\ (run.stage = "load" => r.stage \in {"oldload", "sent"})
        /\ r.stage = "sent" => r.etag # NoETag
  BY <1>1, <1>4, <1>6, ConstantsTyped DEF AfterLoad, RunOK
<1>9. calm /\ run # NoRun => run.iss \in gone
  BY <1>1 DEF LoadFindsNothing, IInv, CalmInv, ShownHere, RunHere
<1> HIDE DEF r
<1> QED
  BY <1>2, <1>3, <1>7, <1>8, <1>9, ModalCloses

\* A save that waited goes out.
LEMMA RunAfterLoad ==
    ASSUME RunOK, NEW e \in ETags, e # NoETag, NEW VARIABLE q, q \in Runs,
           q.kind = run.kind, q.iss = run.iss, q.edit = run.edit, q.data = run.data, q.etag = run.etag,
           q.got = run.got, q.stage = run.stage, q.same => run.same,
           run = NoRun => q = NoRun, run' = AfterLoad(q, e), UNCHANGED <<server, gone>>
    PROVE  /\ RunOK'
           /\ run = NoRun => run' = run
           /\ run # NoRun =>
                /\ run' # NoRun /\ run'.kind = run.kind /\ run'.iss = run.iss /\ run'.edit = run.edit
                /\ run'.data = run.data /\ run'.got = run.got
                /\ run'.stage = IF run.stage = "load" THEN "sent" ELSE run.stage
                /\ run'.same <=> q.same
                /\ run'.etag = IF run.stage # "load" THEN run.etag
                               ELSE IF q.same THEN e ELSE Stale
<1>1. CASE run.stage = "load"
  <2>1. run # NoRun
    BY <1>1, NoRunTyped
  <2>2. run' = Resumed(q, e)
    BY <1>1 DEF AfterLoad
  <2>3. /\ run' \in Runs /\ run'.kind = q.kind /\ run'.iss = q.iss /\ run'.edit = q.edit /\ run'.stage = "sent"
        /\ run'.data = q.data /\ run'.got = q.got /\ run'.same = q.same
        /\ run'.etag = IF q.same THEN e ELSE Stale
    BY <2>2, ResumedTyped
  <2>4. run' # NoRun
    BY <2>3, NoRunTyped
  <2>5. run.kind \in {"field", "editor"}
    BY <1>1, <2>1 DEF RunOK, MoveStages
  <2>6. RunOK'
    BY <2>1, <2>3, <2>5, ConstantsTyped DEF RunOK, SaveStages
  <2> QED
    BY <1>1, <2>1, <2>3, <2>4, <2>6
<1>2. CASE run.stage # "load"
  <2>1. run' = q
    BY <1>2 DEF AfterLoad
  <2>2. run # NoRun => run' # NoRun
    BY <2>1, NoRunTyped DEF RunOK
  <2>3. RunOK'
    <3>1. CASE run = NoRun
      BY <2>1, <3>1 DEF RunOK
    <3>2. CASE run # NoRun
      BY <1>2, <2>1, <2>2, <3>2 DEF RunOK, MoveStages
    <3> QED
      BY <3>1, <3>2
  <2> QED
    BY <1>2, <2>1, <2>2, <2>3
<1> QED
  BY <1>1, <1>2

\* The version the copy comes from is still the stored one.
LEMMA LoadConfirmsStep == ASSUME IInv, LoadConfirms PROVE IInv'
<1>1. ServerOK' /\ Grows /\ ServerOK
  BY ServerStays DEF IInv, Typed, LoadConfirms, backend
<1> DEFINE e == <<load.iss, load.got>>
<1>2. /\ load' = NoLoad /\ etag' = e /\ run' = AfterLoad(run, e)
      /\ load.stage = "answered" /\ load.got = load.base
      /\ UNCHANGED <<server, gone, late, used, opens, timeouts, calm, shown, cur, editor, queue,
                     closing, wait>>
  BY DEF LoadConfirms, backend, counts
<1>3. /\ load # NoLoad /\ load.iss \in Issues /\ load.base \in 1 .. Len(server[load.iss])
      /\ load.got \in Nat
  BY <1>2, ConstantsTyped DEF IInv, Typed, LoadOK, Loads
<1>4. e \in ETags /\ e # NoETag /\ e[1] = load.iss /\ e[2] = load.base
  BY <1>2, <1>3, ETagOf
<1> HIDE DEF e
<1>5. RunOK /\ run \in Runs
  BY DEF IInv, Typed, RunOK
<1>6. /\ RunOK'
      /\ run = NoRun => run' = run
      /\ run # NoRun =>
           /\ run' # NoRun /\ run'.kind = run.kind /\ run'.iss = run.iss
           /\ run'.data = run.data /\ run'.got = run.got /\ (run'.same <=> run.same)
           /\ run'.stage = IF run.stage = "load" THEN "sent" ELSE run.stage
           /\ run'.etag = IF run.stage # "load" THEN run.etag ELSE IF run.same THEN e ELSE Stale
  BY <1>2, <1>4, <1>5, RunAfterLoad
<1>7. TabOK' /\ LoadOK'
  BY <1>2, <1>4, ConstantsTyped DEF IInv, Typed, TabOK, LoadOK
<1>8. Typed'
  BY <1>1, <1>2, <1>6, <1>7, TypedStays DEF IInv, Typed
<1>9. ASSUME calm PROVE CalmInv'
  <2>1. RunHere' /\ ShownHere' /\ BaseFits' /\ SavesAfterLoad' /\ DeleteHere'
    BY <1>2, <1>6, <1>9, ConstantsTyped
       DEF RunHere, ShownHere, BaseFits, SavesAfterLoad, DeleteHere, Live, IInv, CalmInv
  <2>2. cur.iss = load.iss /\ cur.iss \notin gone => load.base <= cur.v
    BY <1>3, <1>9 DEF IInv, CalmInv, BaseFits
  <2>3. cur.iss \in Issues =>
           cur.v \in 1 .. Len(server[cur.iss]) /\ cur.data = server[cur.iss][cur.v]
    BY DEF IInv, Typed, TabOK
  <2>4. Len(server[load.iss]) \in Nat
    BY <1>1, <1>3, LatestTyped
  <2>5. ETagFits'
    BY <1>2, <1>3, <1>4, <2>2, <2>3, <2>4 DEF ETagFits, Live
  <2>6. SaveFits'
    <3>1. CASE run.stage = "load"
      <4>1. run # NoRun /\ run.same /\ run.iss \in Issues
        BY <1>5, <3>1, NoRunTyped DEF RunOK
      <4>2. ASSUME run.iss \notin gone, load.iss = run.iss
            PROVE  server[run.iss][load.base].edits \subseteq run.data.edits
        <5>1. cur.iss = run.iss /\ cur.data.edits \subseteq run.data.edits
          BY <1>9, <3>1, <4>1, <4>2 DEF IInv, CalmInv, RunHere, SaveFits
        <5>2. server[run.iss][load.base].edits \subseteq server[run.iss][cur.v].edits
          BY <1>3, <1>9, <2>2, <2>3, <4>1, <4>2, <5>1 DEF IInv, CalmInv, Monotone
        <5> QED
          BY <2>3, <4>1, <5>1, <5>2
      <4>3. Built(run)'
        BY <1>2, <1>3, <1>4, <1>6, <3>1, <4>1, <4>2 DEF Built
      <4> QED
        BY <1>6, <3>1, <4>1, <4>3 DEF SaveFits
    <3>2. CASE run.stage # "load"
      <4>1. run' = run
        BY <1>2, <3>2 DEF AfterLoad
      <4> QED
        BY <1>1, <1>2, <1>9, <4>1, CalmStays DEF IInv
    <3> QED
      BY <3>1, <3>2
  <2>7. DoneWaits'
    <3>1. WritesAhead' = WritesAhead /\ (Running' <=> Running)
      BY <1>2, <1>6 DEF WritesAhead, Running
    <3> QED
      BY <1>2, <1>6, <1>9, <3>1 DEF DoneWaits, Running, IInv, CalmInv
  <2>8. LateFits' /\ Monotone'
    BY <1>1, <1>2, <1>9, CalmStays, MonotoneStays DEF IInv, CalmInv
  <2> QED
    BY <2>1, <2>5, <2>6, <2>7, <2>8 DEF CalmInv
<1> QED
  BY <1>2, <1>8, <1>9 DEF IInv

\* A newer version arrives: what waits, waits for a conflict.
LEMMA LoadUpdatesStep == ASSUME IInv, LoadUpdates PROVE IInv'
<1>1. ServerOK' /\ Grows /\ ServerOK
  BY ServerStays DEF IInv, Typed, LoadUpdates, backend
<1>2. /\ load' = NoLoad /\ load.stage = "answered" /\ load.got # 0
      /\ UNCHANGED <<server, gone, late, used, opens, timeouts, calm, shown, editor, queue,
                     closing, wait>>
  BY DEF LoadUpdates, backend, counts
<1>3. /\ load # NoLoad /\ load.iss \in Issues /\ shown
      /\ load.got \in 0 .. Len(server[load.iss]) /\ load.got \in Nat
  BY <1>2, ConstantsTyped DEF IInv, Typed, LoadOK, Loads
<1>4. Len(server[load.iss]) \in Nat
  BY <1>1, <1>3, LatestTyped
<1>5. load.got \in 1 .. Len(server[load.iss])
  BY <1>2, <1>3, <1>4
<1> DEFINE e == IF editor # NoEdit THEN Stale ELSE <<load.iss, load.got>>
           q == IF editor # NoEdit THEN run ELSE [run EXCEPT !.same = FALSE]
           c == IF editor # NoEdit THEN cur ELSE CopyOf(load.iss, load.got)
<1>6. etag' = e /\ run' = AfterLoad(q, e) /\ cur' = c
  BY DEF LoadUpdates
<1>7. e \in ETags /\ e # NoETag
  BY <1>3, ETagOf, ConstantsTyped
<1>8. RunOK /\ run \in Runs
  BY DEF IInv, Typed, RunOK
<1>9. /\ q \in Runs /\ q.kind = run.kind /\ q.iss = run.iss /\ q.edit = run.edit /\ q.data = run.data
      /\ q.etag = run.etag /\ q.got = run.got /\ q.stage = run.stage
      /\ q.same => run.same /\ e = Stale
      /\ run = NoRun => q = NoRun
  <2>1. CASE editor # NoEdit
    BY <1>8, <2>1
  <2>2. CASE editor = NoEdit
    <3>1. q = [run EXCEPT !.same = FALSE]
      BY <2>2
    <3>2. run = NoRun => q = NoRun
      BY <3>1, NoRunTyped DEF Runs
    <3> QED
      BY <1>8, <3>1, <3>2, DetachedTyped
  <2> QED
    BY <2>1, <2>2
<1>10. \/ c = cur /\ e = Stale
       \/ /\ c \in Copies /\ c.iss = load.iss /\ c.v = load.got /\ editor = NoEdit
          /\ c.data = server[load.iss][load.got] /\ e = <<load.iss, load.got>>
  BY <1>1, <1>3, <1>5, CopyTyped
<1> HIDE DEF e, q, c
<1>11. /\ RunOK'
       /\ run = NoRun => run' = run
       /\ run # NoRun =>
            /\ run' # NoRun /\ run'.kind = run.kind /\ run'.iss = run.iss
            /\ run'.data = run.data /\ run'.got = run.got
            /\ run'.stage = IF run.stage = "load" THEN "sent" ELSE run.stage
            /\ run'.same <=> q.same
            /\ run'.etag = IF run.stage # "load" THEN run.etag ELSE IF q.same THEN e ELSE Stale
  BY <1>2, <1>6, <1>7, <1>8, <1>9, RunAfterLoad
<1>12. TabOK'
  BY <1>2, <1>3, <1>5, <1>6, <1>7, <1>10 DEF IInv, Typed, TabOK
<1>13. LoadOK'
  BY <1>2, ConstantsTyped DEF LoadOK
<1>14. Typed'
  BY <1>1, <1>2, <1>11, <1>12, <1>13, TypedStays DEF IInv, Typed
<1>15. ASSUME calm PROVE CalmInv'
  <2>1. c.iss = cur.iss \/ c.iss = load.iss
    BY <1>10
  <2>2. cur.iss = load.iss \/ cur.iss \in gone
    BY <1>3, <1>15 DEF IInv, CalmInv, ShownHere
  <2>3. RunHere'
    BY <1>2, <1>3, <1>6, <1>11, <1>15, <2>1, <2>2 DEF RunHere, IInv, CalmInv
  <2>4. ShownHere'
    BY <1>2, <1>3, ConstantsTyped DEF ShownHere, Live
  <2>5. BaseFits' /\ SavesAfterLoad'
    BY <1>2 DEF BaseFits, SavesAfterLoad
  <2>6. ETagFits'
    BY <1>2, <1>3, <1>5, <1>6, <1>10, ConstantsTyped DEF ETagFits, Live
  <2>7. SaveFits'
    <3>1. CASE run = NoRun
      BY <1>11, <3>1, NoRunTyped DEF SaveFits
    <3>2. CASE run # NoRun /\ run.stage = "load"
      <4>1. run'.stage = "sent" /\ run'.etag = Stale /\ run'.iss \in Issues
        BY <1>8, <1>9, <1>11, <3>2 DEF RunOK
      <4>2. Built(run)'
        BY <4>1, ConstantsTyped DEF Built
      <4> QED
        BY <4>1, <4>2, ConstantsTyped DEF SaveFits
    <3>3. CASE run # NoRun /\ run.stage # "load"
      <4>1. run.kind # "move" => run.iss \in gone
        BY <1>3, <1>15, <3>3 DEF IInv, CalmInv, SavesAfterLoad
      <4>2. run.kind = "move" => run.stage \notin {"sent", "answered", "load"}
        BY <1>8, <3>3 DEF RunOK, MoveStages
      <4> QED
        BY <1>2, <1>11, <3>3, <4>1, <4>2 DEF SaveFits, Built
    <3> QED
      BY <3>1, <3>2, <3>3
  <2>8. DoneWaits'
    <3>1. WritesAhead' = WritesAhead /\ (Running' <=> Running)
      BY <1>2, <1>11 DEF WritesAhead, Running
    <3> QED
      BY <1>2, <1>11, <1>15, <3>1 DEF DoneWaits, Running, IInv, CalmInv
  <2>9. DeleteHere'
    BY <1>2, <1>3, <1>6, <1>15, <2>1 DEF DeleteHere, IInv, CalmInv
  <2>10. LateFits' /\ Monotone'
    BY <1>1, <1>2, <1>15, CalmStays, MonotoneStays DEF IInv, CalmInv
  <2> QED
    BY <2>3, <2>4, <2>5, <2>6, <2>7, <2>8, <2>9, <2>10 DEF CalmInv
<1> QED
  BY <1>2, <1>14, <1>15 DEF IInv

LEMMA OldLoadReturnsStep == ASSUME IInv, OldLoadReturns PROVE IInv'
<1>1. ServerOK' /\ Grows /\ ServerOK
  BY ServerStays DEF IInv, Typed, OldLoadReturns, backend
<1>2. /\ run.stage = "oldload" /\ run' = Resumed(run, etag)
      /\ UNCHANGED <<server, gone, late, used, opens, timeouts, calm, shown, cur, etag, load,
                     editor, queue, closing, wait>>
  BY DEF OldLoadReturns, backend, counts
<1>3. run \in Runs /\ ~run.same /\ run # NoRun /\ etag \in ETags
  BY <1>2, NoRunTyped DEF IInv, Typed, RunOK, TabOK
<1>4. /\ run' \in Runs /\ run'.kind = run.kind /\ run'.iss = run.iss /\ run'.edit = run.edit
      /\ run'.stage = "sent"
      /\ run'.etag = Stale /\ ~run'.same /\ run'.got = run.got
  BY <1>2, <1>3, ResumedTyped
<1>5. run' # NoRun
  BY <1>4, NoRunTyped
<1>6. RunOK'
  BY <1>2, <1>3, <1>4, ConstantsTyped DEF RunOK, SaveStages, MoveStages, IInv, Typed
<1>7. Typed'
  BY <1>1, <1>2, <1>6, TypedStays DEF IInv, Typed
<1>8. ASSUME calm PROVE CalmInv'
  <2>1. RunHere' /\ BaseFits'
    BY <1>2, <1>3, <1>4, <1>8 DEF RunHere, BaseFits, IInv, CalmInv
  <2>2. SavesAfterLoad'
    BY <1>2, <1>3, <1>4, <1>8 DEF SavesAfterLoad, IInv, Typed, RunOK, CalmInv, MoveStages
  <2>3. run'.iss \in Issues
    BY <1>5, <1>6 DEF RunOK
  <2>4. SaveFits'
    BY <1>4, <2>3, ConstantsTyped DEF SaveFits, Built
  <2>5. DoneWaits'
    <3>1. WritesAhead' = WritesAhead /\ Running' /\ Running
      BY <1>2, <1>3, <1>5 DEF WritesAhead, Running
    <3> QED
      BY <1>2, <1>4, <1>8, <3>1 DEF DoneWaits, IInv, CalmInv
  <2>6. ShownHere' /\ ETagFits' /\ LateFits' /\ DeleteHere' /\ Monotone'
    BY <1>1, <1>2, <1>8, CalmStays, MonotoneStays DEF IInv, CalmInv
  <2> QED
    BY <2>1, <2>2, <2>4, <2>5, <2>6 DEF CalmInv
<1> QED
  BY <1>2, <1>7, <1>8 DEF IInv

-----------------------------------------------------------------------------
(* A write settles.                                                        *)

LEMMA QueueGoesOn ==
    ASSUME IInv, run # NoRun, NEW saved \in BOOLEAN, Settle(saved), queue' = queue
    PROVE  /\ ClosingOK' /\ (calm => DoneWaits')
           /\ closing' \in {closing, NotClosing} \/ closing'.stage = "done"
<1>1. /\ cur \in Copies /\ closing \in Closings /\ wait \in Nat /\ queue \in Seq(Writes)
      /\ WritesAhead \in Nat
  BY WritesCounted DEF IInv, Typed, TabOK, ClosingOK
<1>2. /\ run' = NoRun /\ wait' = IF wait > 0 THEN wait - 1 ELSE 0
      /\ closing' = IF closing.stage = "saving" /\ run.kind = "editor"
                    THEN (IF saved THEN At("done") ELSE NotClosing) ELSE closing
  BY DEF Settle
<1>3. At("done") \in Closings /\ At("done").stage = "done"
  BY <1>1, ClosingAt
<1>4. ClosingOK'
  BY <1>1, <1>2, <1>3, ConstantsTyped DEF IInv, Typed, ClosingOK
<1>5. WritesAhead = Len(queue) + 1 /\ WritesAhead' = Len(queue) /\ Len(queue) \in Nat
  BY <1>1, <1>2 DEF WritesAhead, Running
<1>6. ASSUME calm PROVE DoneWaits'
  <2>1. DoneWaits /\ Running
    BY <1>6 DEF IInv, CalmInv, Running
  <2>2. CASE closing.stage = "saving"
    <3>1. wait = 0 /\ Len(queue) = 0 /\ run.kind = "editor"
      BY <1>5, <2>1, <2>2 DEF DoneWaits
    <3>2. wait' = 0 /\ WritesAhead' = 0 /\ closing'.stage \in {"done", "no"}
      BY <1>2, <1>3, <1>5, <2>2, <3>1, ConstantsTyped
    <3> QED
      BY <3>2 DEF DoneWaits
  <2>3. CASE closing.stage # "saving"
    <3>1. closing' = closing
      BY <1>2, <2>3
    <3> QED
      BY <1>1, <1>2, <1>5, <2>1, <2>3, <3>1 DEF DoneWaits
  <2> QED
    BY <2>2, <2>3
<1> QED
  BY <1>2, <1>3, <1>4, <1>6

LEMMA WriteSettles ==
    ASSUME IInv, run # NoRun, NEW saved \in BOOLEAN, Settle(saved), TabOK',
           UNCHANGED <<backend, counts, shown, load, queue>>,
           calm => /\ ETagFits'
                   /\ cur'.iss \in {cur.iss} \cup gone
                   /\ load # NoLoad /\ cur'.iss = load.iss /\ cur'.iss \notin gone
                        => load.base <= cur'.v
    PROVE  IInv'
<1>1. ServerOK' /\ Grows
  BY ServerStays DEF IInv, Typed, backend
<1>2. run' = NoRun /\ run'.stage = "none"
  BY NoRunTyped DEF Settle
<1>3. /\ ClosingOK' /\ (calm => DoneWaits')
      /\ closing' \in {closing, NotClosing} \/ closing'.stage = "done"
  BY QueueGoesOn
<1>4. RunOK'
  BY <1>2, NoRunTyped DEF RunOK
<1>5. Typed'
  BY <1>1, <1>3, <1>4, TypedStays DEF IInv, Typed, backend, counts
<1>6. ASSUME calm PROVE CalmInv'
  <2>1. RunHere' /\ SavesAfterLoad' /\ SaveFits'
    BY <1>2 DEF RunHere, SavesAfterLoad, SaveFits
  <2>2. ShownHere'
    BY <1>6 DEF ShownHere, Live, IInv, CalmInv, backend
  <2>3. BaseFits'
    BY <1>2, <1>6 DEF BaseFits, backend
  <2>4. DeleteHere'
    <3>1. CASE closing' = closing
      BY <1>6, <3>1 DEF DeleteHere, IInv, CalmInv, backend
    <3>2. CASE closing'.stage \in {"no", "done"}
      BY <3>2 DEF DeleteHere
    <3> QED
      BY <1>3, <3>1, <3>2, ConstantsTyped
  <2>5. LateFits' /\ Monotone'
    BY <1>1, <1>6, CalmStays, MonotoneStays DEF IInv, CalmInv, backend
  <2> QED
    BY <1>3, <1>6, <2>1, <2>2, <2>3, <2>4, <2>5 DEF CalmInv
<1> QED
  BY <1>5, <1>6 DEF IInv, counts

\* The modal is left as it is.
LEMMA WriteEnds ==
    ASSUME IInv, run # NoRun, NEW saved \in BOOLEAN, Settle(saved),
           UNCHANGED <<backend, counts, shown, cur, etag, load, editor, queue>>
    PROVE  IInv'
<1>1. ServerOK' /\ Grows
  BY ServerStays DEF IInv, Typed, backend
<1>2. TabOK' /\ (calm => ETagFits')
  BY <1>1, TypedStays, CalmStays DEF IInv
<1>3. calm => (load # NoLoad /\ cur.iss = load.iss /\ cur.iss \notin gone => load.base <= cur.v)
  BY DEF IInv, CalmInv, BaseFits
<1> QED
  BY <1>2, <1>3, WriteSettles

\* What the server returned is shown.
LEMMA CopyShown ==
    ASSUME IInv, run # NoRun, NEW saved \in BOOLEAN, Settle(saved), run.got > 0,
           run.stage \in {"answered", "reloaded", "moved"},
           cur' = CopyOf(run.iss, run.got), etag' = <<run.iss, run.got>>,
           editor' \in {editor, NoEdit}, UNCHANGED <<backend, counts, shown, load, queue>>
    PROVE  IInv'
<1>1. /\ RunOK /\ ServerOK /\ run.iss \in Issues /\ run.got \in 0 .. Len(server[run.iss])
      /\ server' = server /\ gone' = gone
  BY DEF IInv, Typed, RunOK, backend
<1>2. Len(server[run.iss]) \in Nat
  BY <1>1, LatestTyped
<1>3. run.got \in 1 .. Len(server[run.iss]) /\ run.got \in Nat
  BY <1>1, <1>2
<1>4. /\ cur' \in Copies /\ cur'.iss = run.iss /\ cur'.v = run.got
      /\ cur'.data = server[run.iss][run.got]
  BY <1>1, <1>3, CopyTyped
<1>5. etag' \in ETags /\ etag' # NoETag /\ etag'[1] = run.iss /\ etag'[2] = run.got
  BY <1>1, <1>3, ETagOf
<1>6. TabOK'
  BY <1>1, <1>3, <1>4, <1>5, ModalAssumption DEF IInv, Typed, TabOK
<1>7. ETagFits'
  BY <1>3, <1>4, <1>5 DEF ETagFits
<1>8. calm => cur'.iss \in {cur.iss} \cup gone
  BY <1>4 DEF IInv, CalmInv, RunHere
<1>9. ASSUME calm, load # NoLoad, cur'.iss = load.iss, cur'.iss \notin gone
      PROVE  load.base <= cur'.v
  <2>1. CASE run.stage = "moved"
    BY <1>4, <1>9, <2>1 DEF IInv, CalmInv, BaseFits
  <2>2. CASE run.stage # "moved"
    <3>1. run.kind # "move"
      BY <1>1, <2>2 DEF RunOK, MoveStages
    <3> QED
      BY <1>4, <1>9, <3>1 DEF IInv, CalmInv, SavesAfterLoad
  <2> QED
    BY <2>1, <2>2
<1> QED
  BY <1>6, <1>7, <1>8, <1>9, WriteSettles

LEMMA NotIdle == ASSUME run.stage # "none" PROVE run # NoRun
BY NoRunTyped

LEMMA SaveSucceedsStep == ASSUME IInv, SaveSucceeds PROVE IInv'
<1>1. /\ run # NoRun /\ run.stage = "answered" /\ run.got > 0 /\ Settle(TRUE)
      /\ etag' = <<run.iss, run.got>> /\ editor' \in {editor, NoEdit}
      /\ UNCHANGED <<backend, counts, shown, load, queue>>
  BY NotIdle DEF SaveSucceeds
<1>2. CASE run.same
  <2>1. cur' = CopyOf(run.iss, run.got)
    BY <1>2 DEF SaveSucceeds
  <2> QED
    BY <1>1, <2>1, CopyShown
<1>3. CASE ~run.same
  <2>1. cur' = cur
    BY <1>3 DEF SaveSucceeds
  <2>2. /\ run.iss \in Issues /\ run.got \in 0 .. Len(server[run.iss]) /\ ServerOK
        /\ server' = server /\ gone' = gone
    BY <1>1 DEF IInv, Typed, RunOK, backend
  <2>3. Len(server[run.iss]) \in Nat
    BY <2>2, LatestTyped
  <2>4. run.got \in Nat
    BY <2>2, <2>3
  <2>5. etag' \in ETags /\ etag' # NoETag /\ etag'[1] = run.iss
    BY <1>1, <2>2, <2>4, ETagOf
  <2>6. TabOK'
    BY <1>1, <2>1, <2>2, <2>5 DEF IInv, Typed, TabOK
  <2>7. ASSUME calm
        PROVE  /\ ETagFits'
               /\ cur'.iss \in {cur.iss} \cup gone
               /\ load # NoLoad /\ cur'.iss = load.iss /\ cur'.iss \notin gone
                    => load.base <= cur'.v
    <3>1. run.iss \in gone
      BY <1>1, <1>3, <2>4, <2>7 DEF IInv, CalmInv, SaveFits
    <3>2. ETagFits'
      BY <2>2, <2>5, <3>1 DEF ETagFits, Live
    <3> QED
      BY <2>1, <2>7, <3>2 DEF IInv, CalmInv, BaseFits
  <2> QED
    BY <1>1, <2>6, <2>7, WriteSettles
<1> QED
  BY <1>2, <1>3

LEMMA ReloadReturnsStep == ASSUME IInv, ReloadReturns PROVE IInv'
<1>1. run # NoRun /\ run.stage = "reloaded" /\ Settle(FALSE) /\ UNCHANGED <<backend, counts, shown, load, queue>>
  BY NotIdle DEF ReloadReturns
<1>2. CASE run.got > 0
  BY <1>1, <1>2, CopyShown DEF ReloadReturns
<1>3. CASE ~(run.got > 0)
  BY <1>1, <1>3, WriteEnds DEF ReloadReturns
<1> QED
  BY <1>2, <1>3

LEMMA MoveReturnsStep == ASSUME IInv, MoveReturns PROVE IInv'
<1>1. run # NoRun /\ run.stage = "moved" /\ Settle(TRUE) /\ editor' = NoEdit
  BY NotIdle DEF MoveReturns
<1>2. run.got > 0
  BY <1>1 DEF IInv, Typed, RunOK
<1> QED
  BY <1>1, <1>2, CopyShown DEF MoveReturns

LEMMA SaveFailsStep == ASSUME IInv, SaveFails PROVE IInv'
BY NotIdle, WriteEnds DEF SaveFails

-----------------------------------------------------------------------------
(* A write gets on, and the server's part in it.                           *)

LEMMA RunChanges ==
    ASSUME IInv, ServerOK', Grows, RunOK', LateOK', ClosingOK', CountsOK',
           run # NoRun, run' # NoRun, run'.kind = run.kind,
           closing' \in {closing, NotClosing}, calm' => calm,
           UNCHANGED <<shown, cur, etag, load, editor, queue, wait>>,
           calm => RunHere' /\ BaseFits' /\ SavesAfterLoad' /\ SaveFits' /\ LateFits' /\ Monotone'
    PROVE  IInv'
<1>1. Typed'
  BY TypedStays DEF IInv, Typed
<1>2. ASSUME calm PROVE CalmInv'
  <2>1. ShownHere' /\ ETagFits'
    BY <1>2, CalmStays DEF IInv
  <2>2. DoneWaits' /\ DeleteHere'
    <3>1. CASE closing' = NotClosing
      BY <3>1, ConstantsTyped DEF DoneWaits, DeleteHere
    <3>2. CASE closing' = closing
      <4>1. WritesAhead' = WritesAhead /\ Running /\ Running'
        BY DEF WritesAhead, Running
      <4>2. DoneWaits'
        BY <1>2, <3>2, <4>1 DEF DoneWaits, IInv, CalmInv
      <4>3. DeleteHere'
        BY <1>2, <3>2, CalmStays DEF IInv
      <4> QED
        BY <4>2, <4>3
    <3> QED
      BY <3>1, <3>2
  <2> QED
    BY <1>2, <2>1, <2>2 DEF CalmInv
<1> QED
  BY <1>1, <1>2 DEF IInv

\* The write gets to a stage in which nothing is sent.
LEMMA StageChanges ==
    ASSUME IInv, run # NoRun, run.stage \notin {"load", "oldload"},
           NEW s \in {"answered", "refused", "asking", "reload", "reloaded", "confirm"},
           NEW n \in 0 .. Len(server[run.iss]), s \in {"answered", "confirm"} => n = 0,
           s = "confirm" <=> run.kind = "move",
           run' = [run EXCEPT !.stage = s, !.got = n],
           LateOK', calm => LateFits', CountsOK', calm' => calm,
           closing' \in {closing, NotClosing},
           UNCHANGED <<server, gone, shown, cur, etag, load, editor, queue, wait>>
    PROVE  IInv'
<1>1. ServerOK' /\ Grows /\ RunOK /\ run \in Runs /\ ServerOK /\ run.iss \in Issues
  BY ServerStays DEF IInv, Typed, RunOK
<1>2. Len(server[run.iss]) \in Nat
  BY <1>1, LatestTyped
<1>3. n \in Nat
  BY <1>2
<1>4. /\ run' \in Runs /\ run'.kind = run.kind /\ run'.iss = run.iss /\ run'.edit = run.edit /\ run'.stage = s
      /\ run'.got = n /\ run'.same = run.same
  <2>1. s \in Stages
    BY DEF Stages
  <2> DEFINE q == [run EXCEPT !.stage = s, !.got = n]
  <2>2. /\ q \in Runs /\ q.kind = run.kind /\ q.iss = run.iss /\ q.edit = run.edit /\ q.stage = s
        /\ q.got = n /\ q.same = run.same
    BY <1>1, <1>3, <2>1 DEF Runs, Stages
  <2>3. run' = q
    OBVIOUS
  <2> QED
    BY <2>2, <2>3
<1>5. run' # NoRun
  BY <1>4, NoRunTyped
<1>6. RunOK'
  <2>1. s # "confirm" => run'.kind \in {"field", "editor"} /\ run'.stage \in SaveStages
    BY <1>1, <1>4 DEF RunOK, SaveStages
  <2>2. s = "confirm" => run'.kind = "move" /\ run'.stage \in MoveStages /\ ~run'.same
    BY <1>1, <1>4 DEF RunOK, MoveStages
  <2> QED
    BY <1>1, <1>4, <2>1, <2>2 DEF RunOK
<1>7. ClosingOK'
  BY ConstantsTyped DEF IInv, Typed, ClosingOK
<1>8. ASSUME calm
      PROVE  RunHere' /\ BaseFits' /\ SavesAfterLoad' /\ SaveFits' /\ Monotone'
  <2>1. RunHere' /\ BaseFits' /\ SavesAfterLoad'
    BY <1>4, <1>8 DEF RunHere, BaseFits, SavesAfterLoad, IInv, CalmInv
  <2>2. SaveFits' /\ Monotone'
    BY <1>4, <1>8, MonotoneStays DEF SaveFits, IInv, CalmInv
  <2> QED
    BY <2>1, <2>2
<1> QED
  BY <1>1, <1>4, <1>5, <1>6, <1>7, <1>8, RunChanges

LEMMA SameGot ==
    ASSUME IInv, run # NoRun, NEW s
    PROVE  /\ run.got \in 0 .. Len(server[run.iss])
           /\ [run EXCEPT !.stage = s] = [run EXCEPT !.stage = s, !.got = run.got]
<1>1. run \in Runs /\ run.got \in 0 .. Len(server[run.iss])
  BY DEF IInv, Typed, RunOK
<1> QED
  BY <1>1 DEF Runs

LEMMA LateStays ==
    ASSUME IInv, UNCHANGED <<server, gone, late>>
    PROVE  LateOK' /\ (calm => LateFits')
<1>1. ServerOK' /\ Grows
  BY ServerStays DEF IInv, Typed
<1> QED
  BY <1>1, TypedStays, CalmStays DEF IInv

LEMMA CountsStay == ASSUME IInv, UNCHANGED counts PROVE CountsOK' /\ calm' = calm
BY DEF IInv, Typed, CountsOK, counts

LEMMA SaveKind ==
    ASSUME IInv, run # NoRun, run.stage \notin MoveStages
    PROVE  run.kind # "move"
BY DEF IInv, Typed, RunOK

LEMMA SaveConflictsStep == ASSUME IInv, SaveConflicts PROVE IInv'
<1>1. run # NoRun /\ run.stage = "answered" /\ run.kind # "move"
  BY NotIdle, SaveKind DEF SaveConflicts, MoveStages
<1>2. run.got \in 0 .. Len(server[run.iss]) /\ run' = [run EXCEPT !.stage = "asking", !.got = run.got]
  BY <1>1, SameGot DEF SaveConflicts
<1>3. LateOK' /\ (calm => LateFits') /\ CountsOK' /\ calm' = calm
  BY LateStays, CountsStay DEF SaveConflicts, backend
<1> QED
  BY <1>1, <1>2, <1>3, StageChanges DEF SaveConflicts, backend

LEMMA AnswerConflictStep == ASSUME IInv, NEW reload \in BOOLEAN, AnswerConflict(reload) PROVE IInv'
<1>1. run # NoRun /\ run.stage = "asking" /\ run.kind # "move"
  BY NotIdle, SaveKind DEF AnswerConflict, MoveStages
<1>2. CASE reload
  <2>1. run.got \in 0 .. Len(server[run.iss]) /\ run' = [run EXCEPT !.stage = "reload", !.got = run.got]
    BY <1>1, <1>2, SameGot DEF AnswerConflict
  <2>2. LateOK' /\ (calm => LateFits') /\ CountsOK' /\ calm' = calm
    BY LateStays, CountsStay DEF AnswerConflict, backend
  <2> QED
    BY <1>1, <1>2, <2>1, <2>2, StageChanges DEF AnswerConflict, backend
<1>3. CASE ~reload
  BY <1>1, <1>3, WriteEnds DEF AnswerConflict
<1> QED
  BY <1>2, <1>3

LEMMA RejectSaveStep == ASSUME IInv, RejectSave PROVE IInv'
<1>1. run # NoRun /\ run.stage = "sent" /\ run.kind # "move" /\ run.iss \in Issues /\ ServerOK
  BY NotIdle, SaveKind DEF RejectSave, MoveStages, IInv, Typed, RunOK
<1>2. Len(server[run.iss]) \in Nat
  BY <1>1, LatestTyped
<1>3. 0 \in 0 .. Len(server[run.iss])
  BY <1>2
<1>4. LateOK' /\ (calm => LateFits') /\ CountsOK' /\ calm' = calm
  BY LateStays, CountsStay DEF RejectSave, backend
<1> QED
  BY <1>1, <1>3, <1>4, StageChanges DEF RejectSave, backend

LEMMA RefuseSaveStep == ASSUME IInv, RefuseSave PROVE IInv'
<1>1. run # NoRun /\ run.stage = "sent" /\ run.kind # "move"
  BY NotIdle, SaveKind DEF RefuseSave, MoveStages
<1>2. run.got \in 0 .. Len(server[run.iss]) /\ run' = [run EXCEPT !.stage = "refused", !.got = run.got]
  BY <1>1, SameGot DEF RefuseSave
<1>3. LateOK' /\ (calm => LateFits') /\ CountsOK' /\ calm' = calm
  BY LateStays, CountsStay DEF RefuseSave, backend
<1> QED
  BY <1>1, <1>2, <1>3, StageChanges DEF RefuseSave, backend

LEMMA ServeReloadStep == ASSUME IInv, ServeReload PROVE IInv'
<1>1. run # NoRun /\ run.stage = "reload" /\ run.kind # "move" /\ run.iss \in Issues /\ ServerOK
  BY NotIdle, SaveKind DEF ServeReload, MoveStages, IInv, Typed, RunOK
<1> DEFINE n == Latest(run.iss, run.data.proj)
<1>2. n \in 0 .. Len(server[run.iss])
  BY <1>1, LatestTyped
<1>3. run' = [run EXCEPT !.stage = "reloaded", !.got = n]
  BY DEF ServeReload
<1>4. LateOK' /\ (calm => LateFits') /\ CountsOK' /\ calm' = calm
  BY LateStays, CountsStay DEF ServeReload, backend
<1> HIDE DEF n
<1> QED
  BY <1>1, <1>2, <1>3, <1>4, StageChanges DEF ServeReload, backend

LEMMA SaveTimesOutStep == ASSUME IInv, SaveTimesOut PROVE IInv'
<1> DEFINE p == [iss |-> run.iss, data |-> run.data, etag |-> run.etag]
<1>1. run # NoRun /\ run.stage \in {"sent", "answered"} /\ run.kind # "move"
  BY NotIdle, SaveKind DEF SaveTimesOut, MoveStages
<1>2. run.got \in 0 .. Len(server[run.iss]) /\ run' = [run EXCEPT !.stage = "refused", !.got = run.got]
  BY <1>1, SameGot DEF SaveTimesOut
<1>3. CountsOK' /\ calm' = calm
  BY TimeoutCounted DEF SaveTimesOut, IInv, Typed, CountsOK
<1>4. late' \subseteq late \cup {p} /\ (p \in late' => p \in late \/ run.stage = "sent")
  BY DEF SaveTimesOut
<1>5. run.iss \in Issues /\ run.data \in Contents /\ run.etag \in ETags
  BY <1>1 DEF IInv, Typed, RunOK, Runs
<1>6. p \in Puts /\ p.iss = run.iss /\ p.data = run.data /\ p.etag = run.etag
  BY <1>5 DEF Puts
<1>7. run.stage = "sent" => run.etag # NoETag /\ (calm => Built(run))
  BY DEF IInv, Typed, RunOK, CalmInv, SaveFits
<1>8. run.stage = "sent" /\ calm => Built(p)
  BY <1>6, <1>7 DEF Built
<1> HIDE DEF p
<1>9. LateOK'
  BY <1>4, <1>6, <1>7 DEF IInv, Typed, LateOK
<1>10. UNCHANGED <<server, gone, shown, cur, etag, load, editor, queue, closing, wait>>
  BY DEF SaveTimesOut
<1>11. ASSUME calm PROVE LateFits'
  <2>1. \A r \in late' : Built(r)
    BY <1>4, <1>8, <1>11 DEF IInv, CalmInv, LateFits
  <2> QED
    BY <1>10, <2>1 DEF LateFits, Built
<1> QED
  BY <1>1, <1>2, <1>3, <1>9, <1>10, <1>11, StageChanges

\* A version is stored.
LEMMA VersionStored ==
    ASSUME ServerOK, NEW i \in Issues, NEW c \in Contents, Stored(i, c), gone' = gone
    PROVE  /\ ServerOK' /\ Grows
           /\ Len(server[i]) \in Nat /\ Len(server'[i]) = Len(server[i]) + 1
           /\ Monotone /\ Last(i).edits \subseteq c.edits => Monotone'
<1>1. /\ server \in [Issues -> Seq(Contents)] /\ server[i] \in Seq(Contents)
      /\ Len(server[i]) \in Nat /\ Len(server[i]) >= 1
  BY DEF ServerOK
<1>2. server'[i] = Append(server[i], c) /\ \A j \in Issues \ {i} : server'[j] = server[j]
  BY <1>1 DEF Stored
<1>3. server' \in [Issues -> Seq(Contents)]
  <2> DEFINE x == Append(server[i], c)
  <2>1. x \in Seq(Contents)
    BY <1>1
  <2>2. server' = [server EXCEPT ![i] = x]
    BY DEF Stored
  <2> HIDE DEF x
  <2> QED
    BY <1>1, <2>1, <2>2
<1>4. /\ Len(server'[i]) = Len(server[i]) + 1
      /\ server'[i][Len(server[i]) + 1] = c
      /\ \A n \in 1 .. Len(server[i]) : server'[i][n] = server[i][n]
  BY <1>1, <1>2
<1>5. \A j \in Issues : Len(server[j]) \in Nat
  BY <1>1
<1>6. Grows
  BY <1>2, <1>4, <1>5 DEF Grows
<1>7. ServerOK'
  <2>1. Len(server'[i]) >= 1
    BY <1>1, <1>4
  <2>2. \A j \in Issues : Len(server'[j]) >= 1
    BY <1>2, <2>1 DEF ServerOK
  <2> QED
    BY <1>3, <2>2 DEF ServerOK
<1>8. ASSUME Monotone, Last(i).edits \subseteq c.edits PROVE Monotone'
  <2> SUFFICES ASSUME NEW j \in Issues, NEW m \in 1 .. Len(server'[j]),
                      NEW n \in 1 .. Len(server'[j]), m <= n
               PROVE  server'[j][m].edits \subseteq server'[j][n].edits
    BY DEF Monotone
  <2>1. CASE j # i
    BY <1>2, <1>8, <2>1 DEF Monotone
  <2>2. CASE j = i /\ n # Len(server[i]) + 1
    <3>1. m \in 1 .. Len(server[i]) /\ n \in 1 .. Len(server[i])
      BY <1>1, <1>4, <2>2
    <3> QED
      BY <1>4, <1>8, <2>2, <3>1 DEF Monotone
  <2>3. CASE j = i /\ n = Len(server[i]) + 1 /\ m # n
    <3>1. m \in 1 .. Len(server[i]) /\ Len(server[i]) \in 1 .. Len(server[i]) /\ m <= Len(server[i])
      BY <1>1, <1>4, <2>3
    <3>2. server[i][m].edits \subseteq server[i][Len(server[i])].edits
      BY <1>8, <3>1 DEF Monotone
    <3> QED
      BY <1>4, <1>8, <2>3, <3>1, <3>2 DEF Last, Version
  <2>4. CASE j = i /\ n = Len(server[i]) + 1 /\ m = n
    BY <2>4
  <2> QED
    BY <2>1, <2>2, <2>3, <2>4
<1> QED
  BY <1>1, <1>4, <1>6, <1>7, <1>8

LEMMA LastTyped ==
    ASSUME ServerOK, NEW i \in Issues
    PROVE  /\ Last(i) \in Contents /\ Version(i) = Len(server[i])
           /\ Version(i) \in 1 .. Len(server[i]) /\ Last(i) = server[i][Version(i)]
<1>1. server[i] \in Seq(Contents) /\ Len(server[i]) >= 1
  BY DEF ServerOK
<1> QED
  BY <1>1 DEF Last, Version

\* An accepted save replaces what it was built on.
LEMMA AcceptedBuilt ==
    ASSUME ServerOK, NEW r, r.iss \in Issues, r.etag # NoETag, Accepted(r)
    PROVE  /\ r.iss \notin gone /\ r.etag = <<r.iss, Version(r.iss)>>
           /\ Built(r) => Last(r.iss).edits \subseteq r.data.edits
<1>1. r.etag = <<r.iss, Version(r.iss)>> /\ r.iss \notin gone
  BY DEF Accepted, Matches, Refused, Found, Open
<1>2. r.etag[1] = r.iss /\ r.etag[2] = Version(r.iss)
  BY <1>1
<1> QED
  BY <1>1, <1>2, LastTyped DEF Built

LEMMA AcceptSaveStep == ASSUME IInv, AcceptSave PROVE IInv'
<1> DEFINE n == Version(run.iss) + 1
<1>1. run # NoRun /\ run.stage = "sent" /\ run.kind # "move"
  BY NotIdle, SaveKind DEF AcceptSave, MoveStages
<1>2. /\ run \in Runs /\ run.iss \in Issues /\ run.data \in Contents /\ ServerOK
      /\ run.etag # NoETag /\ run.kind \in {"field", "editor"} /\ run.edit \in Edits
  BY <1>1 DEF IInv, Typed, RunOK, Runs
<1>3. /\ run.iss \notin gone /\ run.etag = <<run.iss, Version(run.iss)>>
      /\ Built(run) => Last(run.iss).edits \subseteq run.data.edits
  BY <1>2, AcceptedBuilt DEF AcceptSave
<1>4. /\ Stored(run.iss, run.data)
      /\ UNCHANGED <<gone, late, counts, shown, cur, etag, load, editor, queue, closing, wait>>
  BY DEF AcceptSave
<1>5. /\ ServerOK' /\ Grows /\ Len(server'[run.iss]) = Len(server[run.iss]) + 1
      /\ Len(server[run.iss]) \in Nat
      /\ Monotone /\ Last(run.iss).edits \subseteq run.data.edits => Monotone'
  BY <1>2, <1>4, VersionStored
<1>6. n = Len(server'[run.iss]) /\ n \in Nat
  BY <1>2, <1>5, LastTyped
<1>7. run' = [run EXCEPT !.stage = "answered", !.got = n]
  BY DEF AcceptSave
<1> HIDE DEF n
<1>8. /\ run' \in Runs /\ run'.kind = run.kind /\ run'.iss = run.iss /\ run'.edit = run.edit /\ run'.stage = "answered"
      /\ run'.got = n /\ run'.same = run.same
  BY <1>2, <1>6, <1>7 DEF Runs
<1>9. run' # NoRun
  BY <1>8, NoRunTyped
<1>10. RunOK'
  BY <1>2, <1>5, <1>6, <1>8 DEF RunOK, SaveStages
<1>11. LateOK' /\ ClosingOK' /\ CountsOK' /\ calm' = calm
  BY <1>4, <1>5, TypedStays DEF IInv, counts
<1>12. ASSUME calm
       PROVE  RunHere' /\ BaseFits' /\ SavesAfterLoad' /\ SaveFits' /\ LateFits' /\ Monotone'
  <2>1. RunHere' /\ BaseFits' /\ SavesAfterLoad'
    BY <1>1, <1>4, <1>8, <1>12 DEF RunHere, BaseFits, SavesAfterLoad, IInv, CalmInv
  <2>2. run.same
    <3>1. run.etag[1] = run.iss
      BY <1>3
    <3> QED
      BY <1>1, <1>2, <1>3, <1>12, <3>1, ModalAssumption DEF IInv, CalmInv, SaveFits
  <2>3. SaveFits'
    BY <1>8, <2>2 DEF SaveFits
  <2>4. Monotone'
    BY <1>1, <1>3, <1>5, <1>12 DEF IInv, CalmInv, SaveFits
  <2>5. LateFits'
    BY <1>4, <1>5, <1>12, CalmStays DEF IInv
  <2> QED
    BY <2>1, <2>3, <2>4, <2>5
<1> QED
  BY <1>1, <1>4, <1>5, <1>8, <1>9, <1>10, <1>11, <1>12, RunChanges

LEMMA MoveKind ==
    ASSUME IInv, run # NoRun, run.stage \in MoveStages
    PROVE  run.kind = "move" /\ ~run.same
BY DEF IInv, Typed, RunOK, MoveStages, SaveStages

LEMMA ServeMoveStep == ASSUME IInv, ServeMove PROVE IInv'
<1>1. run # NoRun /\ run.stage = "moving" /\ run.kind = "move" /\ ~run.same /\ run.got = 0
  BY NotIdle, MoveKind DEF ServeMove, MoveStages, IInv, Typed, RunOK
<1>2. /\ run \in Runs /\ run.iss \in Issues /\ run.to \in Projects /\ ServerOK
      /\ run.edit \in Edits \cup {NoEdit}
  BY <1>1 DEF IInv, Typed, RunOK, Runs
<1>3. UNCHANGED <<gone, late, counts, shown, cur, etag, load, editor, queue, closing, wait>>
  BY DEF ServeMove
<1>4. CASE Found(run.iss, run.data.proj) /\ ~Last(run.iss).arch
  <2> DEFINE n == Version(run.iss) + 1
             c == [Last(run.iss) EXCEPT !.edits = @ \cup {run.edit}, !.proj = run.to]
  <2>1. Stored(run.iss, c) /\ run' = [run EXCEPT !.stage = "moved", !.got = n]
    BY <1>4 DEF ServeMove
  <2>2. Last(run.iss) \in Contents /\ Version(run.iss) = Len(server[run.iss])
    BY <1>2, LastTyped
  <2>3. run.edit \in Edits
    BY <1>1, <1>2 DEF IInv, Typed, RunOK
  <2>4. c \in Contents /\ Last(run.iss).edits \subseteq c.edits
    BY <1>2, <2>2, <2>3 DEF Contents
  <2> HIDE DEF c
  <2>5. /\ ServerOK' /\ Grows /\ Len(server'[run.iss]) = Len(server[run.iss]) + 1
        /\ Len(server[run.iss]) \in Nat
        /\ Monotone => Monotone'
    BY <1>2, <1>3, <2>1, <2>4, VersionStored
  <2>6. n = Len(server'[run.iss]) /\ n \in Nat /\ n > 0
    BY <2>2, <2>5
  <2> HIDE DEF n
  <2>7. /\ run' \in Runs /\ run'.kind = "move" /\ run'.iss = run.iss /\ run'.edit = run.edit /\ run'.stage = "moved"
        /\ run'.got = n /\ ~run'.same
    BY <1>1, <1>2, <2>1, <2>6 DEF Runs
  <2>8. run' # NoRun
    BY <2>7, NoRunTyped
  <2>9. RunOK'
    BY <1>2, <2>3, <2>5, <2>6, <2>7 DEF RunOK, MoveStages
  <2>10. LateOK' /\ ClosingOK' /\ CountsOK' /\ calm' = calm
    BY <1>3, <2>5, TypedStays DEF IInv, counts
  <2>11. ASSUME calm
         PROVE  RunHere' /\ BaseFits' /\ SavesAfterLoad' /\ SaveFits' /\ LateFits' /\ Monotone'
    <3>1. RunHere' /\ SavesAfterLoad' /\ SaveFits'
      BY <1>1, <1>3, <2>7, <2>11 DEF RunHere, SavesAfterLoad, SaveFits, IInv, CalmInv
    <3>2. load # NoLoad /\ load.iss = run.iss => load.base <= n
      <4>1. load # NoLoad => load.base \in 1 .. Len(server[load.iss])
        BY DEF IInv, Typed, LoadOK
      <4> QED
        BY <2>5, <2>6, <4>1
    <3>3. BaseFits'
      BY <1>3, <2>7, <2>11, <3>2 DEF BaseFits, IInv, CalmInv
    <3>4. LateFits' /\ Monotone'
      BY <1>3, <2>5, <2>11, CalmStays DEF IInv, CalmInv
    <3> QED
      BY <3>1, <3>3, <3>4
  <2> QED
    BY <1>1, <1>3, <2>5, <2>7, <2>8, <2>9, <2>10, <2>11, RunChanges
<1>5. CASE ~(Found(run.iss, run.data.proj) /\ ~Last(run.iss).arch)
  <2>1. run' = [run EXCEPT !.stage = "confirm"] /\ server' = server
    BY <1>5 DEF ServeMove
  <2>2. run.got \in 0 .. Len(server[run.iss]) /\ run' = [run EXCEPT !.stage = "confirm", !.got = run.got]
    BY <1>1, <2>1, SameGot
  <2>3. LateOK' /\ (calm => LateFits') /\ CountsOK' /\ calm' = calm
    BY <1>3, <2>1, LateStays, CountsStay
  <2> QED
    BY <1>1, <1>3, <2>1, <2>2, <2>3, StageChanges
<1> QED
  BY <1>4, <1>5

LEMMA AnswerMoveStep == ASSUME IInv, NEW yes \in BOOLEAN, AnswerMove(yes) PROVE IInv'
<1>1. run # NoRun /\ run.stage = "confirm" /\ run.kind = "move" /\ ~run.same /\ run.got = 0
  BY NotIdle, MoveKind DEF AnswerMove, MoveStages, IInv, Typed, RunOK
<1>2. CASE yes
  <2>1. /\ run' = [run EXCEPT !.stage = "moving", !.iss = cur.iss, !.data.proj = cur.data.proj]
        /\ cur.iss # NoIssue
        /\ UNCHANGED <<backend, counts, shown, cur, etag, load, editor, queue, closing, wait>>
    BY <1>2 DEF AnswerMove
  <2>2. /\ cur.iss \in Issues /\ cur.data.proj \in Projects /\ run \in Runs /\ ServerOK
        /\ run.edit \in Edits
    BY <1>1, <2>1, CurTyped DEF IInv, Typed, RunOK
  <2>3. /\ run' \in Runs /\ run'.kind = "move" /\ run'.iss = cur.iss /\ run'.edit = run.edit /\ run'.stage = "moving"
        /\ run'.got = 0 /\ ~run'.same
    BY <1>1, <2>1, <2>2 DEF Runs, Contents
  <2>4. run' # NoRun
    BY <2>3, NoRunTyped
  <2>5. ServerOK' /\ Grows /\ Len(server[cur.iss]) \in Nat /\ server' = server /\ gone' = gone
    BY <2>1, <2>2, ServerStays, LatestTyped DEF backend
  <2>6. RunOK'
    BY <2>2, <2>3, <2>5 DEF RunOK, MoveStages
  <2>7. LateOK' /\ ClosingOK' /\ CountsOK' /\ calm' = calm
    BY <2>1, <2>5, TypedStays DEF IInv, counts, backend
  <2>8. ASSUME calm
        PROVE  RunHere' /\ BaseFits' /\ SavesAfterLoad' /\ SaveFits' /\ LateFits' /\ Monotone'
    <3>1. RunHere'
      BY <2>1, <2>2, <2>3, <2>5, <2>8 DEF RunHere, IInv, CalmInv, ShownHere, Live
    <3>2. BaseFits' /\ SavesAfterLoad' /\ SaveFits'
      BY <2>1, <2>3, <2>5, <2>8 DEF BaseFits, SavesAfterLoad, SaveFits, IInv, CalmInv
    <3>3. LateFits' /\ Monotone'
      BY <2>1, <2>5, <2>8, CalmStays, MonotoneStays DEF IInv, CalmInv, backend
    <3> QED
      BY <3>1, <3>2, <3>3
  <2> QED
    BY <1>1, <2>1, <2>3, <2>4, <2>5, <2>6, <2>7, <2>8, RunChanges
<1>3. CASE ~yes
  BY <1>1, <1>3, WriteEnds DEF AnswerMove
<1> QED
  BY <1>2, <1>3

-----------------------------------------------------------------------------
(* Closing, other users, the network.                                      *)

\* The server's answer to Archive or Delete.
LEMMA ClosingServed ==
    ASSUME IInv, ServerOK', Grows, ClosingOK', CountsOK', calm' = calm,
           calm => Monotone' /\ DoneWaits' /\ DeleteHere',
           UNCHANGED <<late, shown, cur, etag, load, editor, queue, run>>
    PROVE  IInv'
<1>1. Typed'
  BY TypedStays DEF IInv, Typed
<1>2. calm => CalmInv'
  BY CalmStays DEF IInv, CalmInv
<1> QED
  BY <1>1, <1>2 DEF IInv

\* The dialog says so, or Archive gives up.
LEMMA ClosingGivenUp ==
    ASSUME IInv, closing.stage \in {"archiveSent", "archived", "deleteSent", "deleted"},
           closing' = ClosingFailed, CountsOK', calm' = calm,
           UNCHANGED <<backend, shown, cur, etag, load, editor, queue, run, wait>>
    PROVE  IInv'
<1>1. ServerOK' /\ Grows
  BY ServerStays DEF IInv, Typed, backend
<1>2. cur \in Copies /\ closing \in Closings /\ wait \in Nat
  BY DEF IInv, Typed, TabOK, ClosingOK
<1>3. closing' \in Closings /\ closing'.stage \in {"no", "deleteAsk"}
  BY <1>2, ClosingAt, ConstantsTyped DEF ClosingFailed
<1>4. ClosingOK' /\ DoneWaits' /\ DeleteHere'
  BY <1>2, <1>3 DEF ClosingOK, DoneWaits, DeleteHere
<1>5. calm => Monotone'
  BY MonotoneStays DEF IInv, CalmInv, backend
<1> QED
  BY <1>1, <1>4, <1>5, ClosingServed DEF backend

LEMMA ServeClosingStep == ASSUME IInv, ServeClosing PROVE IInv'
<1> DEFINE i == closing.iss
           found == Found(i, closing.proj)
<1>1. UNCHANGED <<late, counts, shown, cur, etag, load, editor, queue, run, wait>>
  BY DEF ServeClosing
<1>2. CountsOK' /\ calm' = calm
  BY <1>1, CountsStay
<1>3. ServerOK /\ closing \in Closings /\ wait \in Nat /\ gone \subseteq Issues
  BY DEF IInv, Typed, ClosingOK, ServerOK
<1>4. ASSUME closing.stage = "archiveSent", found, Last(i).arch # closing.arch,
             Stored(i, [Last(i) EXCEPT !.arch = closing.arch]),
             closing' = [closing EXCEPT !.stage = "archived"], UNCHANGED gone
      PROVE  IInv'
  <2> DEFINE c == [Last(i) EXCEPT !.arch = closing.arch]
  <2>1. i \in Issues
    BY <1>4 DEF IInv, Typed, ClosingOK
  <2>2. Last(i) \in Contents /\ closing.arch \in BOOLEAN
    BY <1>3, <2>1, LastTyped DEF Closings
  <2>3. c \in Contents /\ Last(i).edits \subseteq c.edits
    BY <2>2 DEF Contents
  <2>4. Stored(i, c)
    BY <1>4
  <2> HIDE DEF c
  <2>5. ServerOK' /\ Grows /\ (Monotone => Monotone')
    BY <1>3, <1>4, <2>1, <2>3, <2>4, VersionStored
  <2>6. closing' \in Closings /\ closing'.stage = "archived"
    BY <1>3, <1>4 DEF Closings
  <2>7. ClosingOK'
    BY <1>1, <1>3, <2>6 DEF ClosingOK
  <2>8. ASSUME calm PROVE Monotone' /\ DoneWaits' /\ DeleteHere'
    <3>1. WritesAhead' = WritesAhead
      BY <1>1 DEF WritesAhead, Running
    <3> QED
      BY <1>1, <1>4, <2>5, <2>6, <2>8, <3>1 DEF DoneWaits, DeleteHere, IInv, CalmInv
  <2> QED
    BY <1>1, <1>2, <2>5, <2>7, <2>8, ClosingServed
<1>5. ASSUME closing.stage = "deleteSent", found, gone' = gone \cup {i},
             closing' = [closing EXCEPT !.stage = "deleted"], UNCHANGED server
      PROVE  IInv'
  <2>1. i \in Issues /\ i \notin gone
    BY <1>5 DEF IInv, Typed, ClosingOK, Found, Open
  <2>2. ServerOK'
    BY <1>3, <1>5, <2>1 DEF ServerOK
  <2>3. Grows
    <3>1. \A j \in Issues : Len(server[j]) \in Nat
      BY <1>3 DEF ServerOK
    <3> QED
      BY <1>5, <3>1 DEF Grows
  <2>4. closing' \in Closings /\ closing'.stage = "deleted" /\ closing'.iss = i
    BY <1>3, <1>5 DEF Closings
  <2>5. ClosingOK'
    BY <1>1, <1>3, <2>4 DEF ClosingOK
  <2>6. ASSUME calm PROVE Monotone' /\ DoneWaits' /\ DeleteHere'
    <3>1. /\ cur.iss \in {i, NoIssue} \cup gone
          /\ load # NoLoad => load.iss \in {i} \cup gone
      BY <1>5, <2>1, <2>6 DEF IInv, CalmInv, DeleteHere
    <3>2. DeleteHere'
      BY <1>1, <1>5, <2>4, <3>1 DEF DeleteHere
    <3>3. DoneWaits' /\ Monotone'
      BY <1>5, <2>4, <2>6, MonotoneStays DEF DoneWaits, IInv, CalmInv
    <3> QED
      BY <3>2, <3>3
  <2> QED
    BY <1>1, <1>2, <2>2, <2>3, <2>5, <2>6, ClosingServed
<1>6. ASSUME closing.stage \in {"archiveSent", "deleteSent"}, closing' = ClosingFailed,
             UNCHANGED <<server, gone>>
      PROVE  IInv'
  BY <1>1, <1>2, <1>6, ClosingGivenUp DEF backend
<1> QED
  BY <1>4, <1>5, <1>6 DEF ServeClosing

\* Others change an issue, or the server handles a save the browser gave up.
LEMMA OthersStore ==
    ASSUME IInv, NEW i \in Issues, NEW c \in Contents, Stored(i, c),
           calm => Last(i).edits \subseteq c.edits,
           late' \subseteq late, CountsOK', calm' = calm, UNCHANGED <<gone, browser>>
    PROVE  IInv'
<1>1. ServerOK' /\ Grows /\ (Monotone /\ Last(i).edits \subseteq c.edits => Monotone')
  BY VersionStored DEF IInv, Typed
<1>2. UNCHANGED <<shown, cur, etag, load, editor, queue, run, closing, wait>>
  BY DEF browser
<1>3. LateOK'
  BY DEF IInv, Typed, LateOK
<1>4. Typed'
  BY <1>1, <1>2, <1>3, TypedStays DEF IInv, Typed
<1>5. ASSUME calm PROVE CalmInv'
  <2>1. \A r \in late : r.iss \in Issues /\ Built(r)
    BY <1>5 DEF IInv, CalmInv, LateFits, Typed, LateOK, Puts
  <2>2. \A r \in late : Built(r)'
    BY <1>1, <2>1, BuiltStays DEF IInv, Typed
  <2>3. LateFits'
    BY <2>2 DEF LateFits
  <2> QED
    BY <1>1, <1>2, <1>5, <2>3, CalmStays DEF IInv, CalmInv
<1> QED
  BY <1>4, <1>5 DEF IInv

LEMMA OtherEditsStep ==
    ASSUME IInv, NEW i \in Issues, NEW p \in Projects, NEW a \in BOOLEAN, OtherEdits(i, p, a)
    PROVE  IInv'
<1> DEFINE c == [edits |-> Last(i).edits \cup {NewEdit}, proj |-> p, arch |-> a]
<1>1. ServerOK /\ CountsOK
  BY DEF IInv, Typed
<1>2. NewEdit \in Edits /\ used' \in 0 .. MaxEdits
  BY <1>1, EditMade DEF OtherEdits
<1>3. Last(i) \in Contents
  BY <1>1, LastTyped
<1>4. c \in Contents /\ Last(i).edits \subseteq c.edits
  BY <1>2, <1>3 DEF Contents
<1>5. Stored(i, c) /\ late' = late /\ UNCHANGED <<gone, browser>> /\ calm' = calm
  BY DEF OtherEdits
<1>6. CountsOK'
  BY <1>1, <1>2 DEF CountsOK, OtherEdits
<1> HIDE DEF c
<1> QED
  BY <1>4, <1>5, <1>6, OthersStore

LEMMA OtherDeletesStep == ASSUME IInv, NEW i \in Issues, OtherDeletes(i) PROVE IInv'
<1>1. gone' = gone \cup {i} /\ UNCHANGED <<server, late, counts, browser>>
  BY DEF OtherDeletes
<1>2. ServerOK' /\ ServerOK
  BY <1>1 DEF IInv, Typed, ServerOK
<1>3. Grows
  <2>1. \A j \in Issues : Len(server[j]) \in Nat
    BY <1>2 DEF ServerOK
  <2> QED
    BY <1>1, <2>1 DEF Grows
<1>4. UNCHANGED <<shown, cur, etag, load, editor, queue, run, closing, wait>>
  BY <1>1 DEF browser
<1>5. UNCHANGED <<used, opens, timeouts, calm>>
  BY <1>1 DEF counts
<1>6. Typed'
  BY <1>1, <1>2, <1>3, <1>4, <1>5, TypedStays DEF IInv, Typed
<1>7. calm => CalmInv'
  BY <1>1, <1>2, <1>3, <1>4, CalmStays, MonotoneStays DEF IInv, CalmInv
<1> QED
  BY <1>5, <1>6, <1>7 DEF IInv

LEMMA HandleLateStep == ASSUME IInv, NEW r \in late, HandleLate(r) PROVE IInv'
<1>1. /\ r \in Puts /\ r.iss \in Issues /\ r.data \in Contents /\ r.etag # NoETag
      /\ ServerOK /\ (calm => Built(r))
  BY DEF IInv, Typed, LateOK, Puts, CalmInv, LateFits
<1>2. late' = late \ {r} /\ UNCHANGED <<gone, counts, browser>>
  BY DEF HandleLate
<1>3. CountsOK' /\ calm' = calm
  BY <1>2, CountsStay
<1>4. CASE Accepted(r)
  <2>1. Stored(r.iss, r.data)
    BY <1>4 DEF HandleLate
  <2>2. calm => Last(r.iss).edits \subseteq r.data.edits
    BY <1>1, <1>4, AcceptedBuilt
  <2> QED
    BY <1>1, <1>2, <1>3, <2>1, <2>2, OthersStore
<1>5. CASE ~Accepted(r)
  <2>1. server' = server
    BY <1>5 DEF HandleLate
  <2>2. ServerOK' /\ Grows
    BY <1>1, <1>2, <2>1, ServerStays
  <2>3. UNCHANGED <<shown, cur, etag, load, editor, queue, run, closing, wait>>
    BY <1>2 DEF browser
  <2>4. LateOK'
    BY <1>2 DEF IInv, Typed, LateOK
  <2>5. Typed'
    BY <1>3, <2>2, <2>3, <2>4, TypedStays DEF IInv, Typed
  <2>6. ASSUME calm PROVE CalmInv'
    <3>1. LateFits'
      BY <1>2, <2>1, <2>6 DEF IInv, CalmInv, LateFits, Built
    <3> QED
      BY <2>1, <2>2, <2>3, <2>6, <3>1, CalmStays, MonotoneStays DEF IInv, CalmInv
  <2> QED
    BY <1>3, <2>5, <2>6 DEF IInv
<1> QED
  BY <1>4, <1>5

LEMMA OtherTimesOutStep == ASSUME IInv, OtherTimesOut PROVE IInv'
<1>1. CountsOK' /\ calm' = calm
  BY TimeoutCounted DEF OtherTimesOut, IInv, Typed, CountsOK
<1>2. UNCHANGED <<backend, shown, cur, etag, load, editor, queue, wait>>
  BY DEF OtherTimesOut
<1>3. LateOK' /\ (calm => LateFits') /\ UNCHANGED <<server, gone>>
  BY <1>2, LateStays DEF backend
<1>4. ASSUME run # NoRun PROVE 0 \in 0 .. Len(server[run.iss])
  <2>1. run.iss \in Issues /\ ServerOK
    BY <1>4 DEF IInv, Typed, RunOK
  <2>2. Len(server[run.iss]) \in Nat
    BY <2>1, LatestTyped
  <2> QED
    BY <2>2
<1>5. ASSUME run.stage \in {"reload", "reloaded"}, closing' = closing,
             run' = [run EXCEPT !.stage = "reloaded", !.got = 0]
      PROVE  IInv'
  <2>1. run # NoRun /\ run.kind # "move"
    BY <1>5, NotIdle, SaveKind DEF MoveStages
  <2> QED
    BY <1>1, <1>2, <1>3, <1>4, <1>5, <2>1, StageChanges
<1>6. ASSUME run.stage \in {"moving", "moved"}, closing' = closing,
             run' = [run EXCEPT !.stage = "confirm", !.got = 0]
      PROVE  IInv'
  <2>1. run # NoRun /\ run.kind = "move"
    BY <1>6, NotIdle, MoveKind DEF MoveStages
  <2> QED
    BY <1>1, <1>2, <1>3, <1>4, <1>6, <2>1, StageChanges
<1>7. ASSUME closing.stage \in {"archiveSent", "archived", "deleteSent", "deleted"},
             closing' = ClosingFailed, run' = run
      PROVE  IInv'
  BY <1>1, <1>2, <1>7, ClosingGivenUp
<1> QED
  BY <1>5, <1>6, <1>7 DEF OtherTimesOut

-----------------------------------------------------------------------------
(* The theorems.                                                           *)

LEMMA InitHolds == Init => IInv
<1> SUFFICES ASSUME Init PROVE IInv
  OBVIOUS
<1> USE DEF Init
<1>1. \A i \in Issues : server[i] = <<New>>
  OBVIOUS
<1>2. \A i \in Issues : server[i] \in Seq(Contents) /\ Len(server[i]) = 1 /\ server[i][1] = New
  BY <1>1, NewTyped
<1>3. ServerOK
  <2>1. <<New>> \in Seq(Contents)
    BY NewTyped
  <2> QED
    BY <1>2, <2>1 DEF ServerOK
<1>4. TabOK /\ LoadOK
  <2>1. cur \in Copies /\ cur.iss = NoIssue /\ etag \in ETags
    BY ConstantsTyped
  <2>2. queue \in Seq(Writes)
    OBVIOUS
  <2>3. shown \in BOOLEAN
    BY Zenon
  <2>4. TabOK
    BY <2>1, <2>2, <2>3, ConstantsTyped DEF TabOK
  <2> QED
    BY <2>4, ConstantsTyped DEF LoadOK
<1>5. RunOK /\ LateOK
  BY NoRunTyped DEF RunOK, LateOK
<1>6. ClosingOK /\ CountsOK
  BY ConstantsTyped, ModalAssumption DEF ClosingOK, CountsOK
<1>7. Monotone
  BY <1>2 DEF Monotone
<1>8. RunHere /\ ShownHere /\ BaseFits /\ SavesAfterLoad /\ ETagFits
  BY ConstantsTyped DEF RunHere, ShownHere, BaseFits, SavesAfterLoad, ETagFits, Live
<1>9. SaveFits /\ LateFits /\ DoneWaits /\ DeleteHere
  BY ConstantsTyped, NoRunTyped DEF SaveFits, LateFits, DoneWaits, DeleteHere
<1> QED
  BY <1>3, <1>4, <1>5, <1>6, <1>7, <1>8, <1>9 DEF IInv, Typed, CalmInv

LEMMA UserStep == ASSUME IInv, User PROVE IInv'
<1>1. CASE \E i \in Issues : \E n \in 1 .. Version(i) : OpenModal(i, n)
  BY <1>1, OpenModalStep
<1>2. CASE ChangeField \/ StartEditing \/ \E p \in Projects : ChangeProject(p)
  BY <1>2, ChangeFieldStep, EditingSteps, ChangeProjectStep
<1>3. CASE CancelEditing \/ SaveEditor \/ ClickDelete
  BY <1>3, EditingSteps, SaveEditorStep, ClickDeleteStep
<1>4. CASE \E how \in {"done", "archive"} : ClickDone(how)
  BY <1>4, ClickDoneStep
<1>5. ASSUME NEW yes \in BOOLEAN,
             AnswerArchive(yes) \/ AnswerDelete(yes) \/ AnswerConflict(yes) \/ AnswerMove(yes)
      PROVE  IInv'
  BY <1>5, AnswerArchiveStep, AnswerDeleteStep, AnswerConflictStep, AnswerMoveStep
<1> QED
  BY <1>1, <1>2, <1>3, <1>4, <1>5 DEF User

LEMMA ScriptStep == ASSUME IInv, Script PROVE IInv'
BY DoneSavesEditorStep, DoneClosesStep, ArchiveAsksStep, ClosedByServerStep, StartSaveStep,
   StartMoveStep, DropWriteStep, LoadFindsNothingStep, LoadConfirmsStep, LoadUpdatesStep,
   OldLoadReturnsStep, SaveSucceedsStep, SaveConflictsStep, SaveFailsStep, ReloadReturnsStep,
   MoveReturnsStep DEF Script

LEMMA ServerStep == ASSUME IInv, Server PROVE IInv'
BY ServeLoadStep, AcceptSaveStep, RejectSaveStep, RefuseSaveStep, ServeReloadStep, ServeMoveStep,
   ServeClosingStep DEF Server

LEMMA EnvironmentStep == ASSUME IInv, Environment PROVE IInv'
BY OtherDeletesStep, OtherEditsStep, HandleLateStep, SaveTimesOutStep, OtherTimesOutStep,
   LoadTimesOutStep DEF Environment

LEMMA Inductive == IInv /\ [Next]_vars => IInv'
<1> SUFFICES ASSUME IInv, [Next]_vars PROVE IInv'
  OBVIOUS
<1>1. CASE Next
  BY <1>1, UserStep, ScriptStep, ServerStep, EnvironmentStep DEF Next
<1>2. CASE UNCHANGED vars
  <2>1. UNCHANGED <<server, gone, late, shown, cur, etag, load, editor, queue, run, closing,
                    wait, used, opens, timeouts, calm>>
    BY <1>2 DEF vars
  <2>2. ServerOK' /\ Grows
    BY <2>1, ServerStays DEF IInv, Typed
  <2>3. Typed'
    BY <2>1, <2>2, TypedStays DEF IInv, Typed
  <2>4. calm => CalmInv'
    BY <2>1, <2>2, CalmStays, MonotoneStays DEF IInv, CalmInv
  <2> QED
    BY <2>1, <2>3, <2>4 DEF IInv
<1> QED
  BY <1>1, <1>2

\* The modal, its queue and the versions on the server, as every step leaves them.
THEOREM Invariant == Spec => []IInv
<1> QED
  BY InitHolds, Inductive, PTL DEF Spec

\* The modal, its dialogs and the queue of writes keep their types (modal.js:14).
THEOREM ModalTyped == Spec => []TypeOK
<1>1. IInv => TypeOK
  BY DEF IInv, Typed, ServerOK, TabOK, LoadOK, RunOK, LateOK, ClosingOK, CountsOK, TypeOK
<1> QED
  BY <1>1, Invariant, PTL

\* A save never goes out without an ETag, in time or late (etagForSave).
THEOREM EverySaveCarriesETag == Spec => []SaveCarriesETag
<1>1. IInv => SaveCarriesETag
  BY DEF IInv, Typed, RunOK, LateOK, SaveCarriesETag
<1> QED
  BY <1>1, Invariant, PTL

\* Versions are only added, by steps that leave calm alone.
LEMMA ServerSteps ==
    ASSUME Next
    PROVE  \/ server' = server
           \/ calm' = calm /\ \E i, c : Stored(i, c)
<1>1. ASSUME User PROVE server' = server
  <2>1. ASSUME NEW i \in Issues, NEW n \in 1 .. Version(i), OpenModal(i, n) PROVE server' = server
    BY <2>1 DEF OpenModal, backend
  <2>2. ASSUME ChangeField \/ StartEditing \/ CancelEditing \/ SaveEditor \/ ClickDelete
        PROVE  server' = server
    BY <2>2 DEF ChangeField, StartEditing, CancelEditing, SaveEditor, ClickDelete, backend
  <2>3. ASSUME NEW p \in Projects, ChangeProject(p) PROVE server' = server
    BY <2>3 DEF ChangeProject, backend
  <2>4. ASSUME NEW how \in {"done", "archive"}, ClickDone(how) PROVE server' = server
    BY <2>4 DEF ClickDone, backend
  <2>5. ASSUME NEW yes \in BOOLEAN,
               AnswerArchive(yes) \/ AnswerDelete(yes) \/ AnswerConflict(yes) \/ AnswerMove(yes)
        PROVE  server' = server
    BY <2>5 DEF AnswerArchive, AnswerDelete, AnswerConflict, AnswerMove, backend
  <2> QED
    BY <1>1, <2>1, <2>2, <2>3, <2>4, <2>5 DEF User
<1>2. ASSUME Script PROVE server' = server
  <2>1. ASSUME DoneSavesEditor \/ DoneCloses \/ ArchiveAsks \/ ClosedByServer
        PROVE  server' = server
    BY <2>1 DEF DoneSavesEditor, DoneCloses, ArchiveAsks, ClosedByServer, backend
  <2>2. ASSUME StartSave \/ StartMove \/ DropWrite
        PROVE  server' = server
    BY <2>2 DEF StartSave, StartMove, DropWrite, backend
  <2>3. ASSUME LoadFindsNothing \/ LoadConfirms \/ LoadUpdates \/ OldLoadReturns
        PROVE  server' = server
    BY <2>3 DEF LoadFindsNothing, LoadConfirms, LoadUpdates, OldLoadReturns, backend
  <2>4. ASSUME SaveSucceeds \/ SaveConflicts \/ SaveFails
        PROVE  server' = server
    BY <2>4 DEF SaveSucceeds, SaveConflicts, SaveFails, backend
  <2>5. ASSUME ReloadReturns \/ MoveReturns
        PROVE  server' = server
    BY <2>5 DEF ReloadReturns, MoveReturns, backend
  <2> QED
    BY <1>2, <2>1, <2>2, <2>3, <2>4, <2>5 DEF Script
<1> DEFINE Kept == \/ server' = server
                   \/ calm' = calm /\ \E i, c : Stored(i, c)
<1>3. ASSUME Server PROVE Kept
  <2>1. ASSUME ServeLoad \/ RejectSave \/ RefuseSave \/ ServeReload PROVE server' = server
    BY <2>1 DEF ServeLoad, RejectSave, RefuseSave, ServeReload, backend
  <2>2. CASE AcceptSave
    <3>1. Stored(run.iss, run.data) /\ calm' = calm
      BY <2>2 DEF AcceptSave, counts
    <3> QED
      BY <3>1
  <2>3. CASE ServeMove
    <3>1. server' = server \/ Stored(run.iss, [Last(run.iss) EXCEPT !.edits = @ \cup {run.edit}, !.proj = run.to])
      BY <2>3 DEF ServeMove
    <3>2. calm' = calm
      BY <2>3 DEF ServeMove, counts
    <3> QED
      BY <3>1, <3>2
  <2>4. CASE ServeClosing
    <3>1. server' = server \/ Stored(closing.iss, [Last(closing.iss) EXCEPT !.arch = closing.arch])
      BY <2>4 DEF ServeClosing
    <3>2. calm' = calm
      BY <2>4 DEF ServeClosing, counts
    <3> QED
      BY <3>1, <3>2
  <2> QED
    BY <1>3, <2>1, <2>2, <2>3, <2>4 DEF Server
<1>4. ASSUME Environment PROVE Kept
  <2>1. ASSUME NEW i \in Issues, OtherDeletes(i) PROVE server' = server
    BY <2>1 DEF OtherDeletes
  <2>2. ASSUME NEW i \in Issues, NEW p \in Projects, NEW a \in BOOLEAN, OtherEdits(i, p, a)
        PROVE  Kept
    <3>1. /\ Stored(i, [edits |-> Last(i).edits \cup {NewEdit}, proj |-> p, arch |-> a])
          /\ calm' = calm
      BY <2>2 DEF OtherEdits
    <3> QED
      BY <3>1
  <2>3. ASSUME NEW r \in late, HandleLate(r) PROVE Kept
    <3>1. server' = server \/ Stored(r.iss, r.data)
      BY <2>3 DEF HandleLate
    <3>2. calm' = calm
      BY <2>3 DEF HandleLate, counts
    <3> QED
      BY <3>1, <3>2
  <2>4. ASSUME SaveTimesOut \/ OtherTimesOut \/ LoadTimesOut PROVE server' = server
    BY <2>4 DEF SaveTimesOut, OtherTimesOut, LoadTimesOut, backend
  <2> QED
    BY <1>4, <2>1, <2>2, <2>3, <2>4 DEF Environment
<1> QED
  BY <1>1, <1>2, <1>3, <1>4 DEF Next

LEMMA StoredSurvives ==
    ASSUME ServerOK, ServerOK', Monotone', NEW i, NEW c, Stored(i, c), NEW j \in Issues
    PROVE  Survive(j)
<1>1. /\ server \in [Issues -> Seq(Contents)] /\ server[j] \in Seq(Contents)
      /\ Len(server[j]) \in Nat /\ Len(server[j]) >= 1
  BY DEF ServerOK
<1>2. CASE j = i
  <2>1. server'[j] = Append(server[j], c)
    BY <1>1, <1>2 DEF Stored
  <2>2. /\ Len(server'[j]) = Len(server[j]) + 1
        /\ server'[j][Len(server[j])] = server[j][Len(server[j])]
    BY <1>1, <2>1
  <2>3. /\ Len(server[j]) \in 1 .. Len(server'[j]) /\ Len(server'[j]) \in 1 .. Len(server'[j])
        /\ Len(server[j]) <= Len(server'[j])
    BY <1>1, <2>2
  <2>4. server'[j][Len(server[j])].edits \subseteq server'[j][Len(server'[j])].edits
    BY <2>3 DEF Monotone
  <2> QED
    BY <2>2, <2>4 DEF Survive, Last, Version
<1>3. CASE j # i
  <2>1. server'[j] = server[j]
    BY <1>1, <1>3 DEF Stored
  <2> QED
    BY <2>1 DEF Survive, Last, Version
<1> QED
  BY <1>2, <1>3

\* While all is calm, no save overwrites a change it was not built on, however answers,
\* conflicts, reloads and timeouts fall (saveIssueChanges, saveIssueWithConflictCheck).
THEOREM ChangesSurvive == Spec => EditsSurviveWhenCalm
<1>1. ASSUME IInv, IInv', [Next]_vars
      PROVE  [calm => \A i \in Issues : Survive(i)]_vars
  <2> SUFFICES ASSUME Next, calm, NEW i \in Issues PROVE Survive(i)
    BY <1>1
  <2>1. CASE server' = server
    BY <2>1 DEF Survive, Last, Version
  <2>2. ASSUME calm' = calm, NEW j, NEW c, Stored(j, c) PROVE Survive(i)
    <3>1. ServerOK /\ ServerOK' /\ Monotone'
      BY <1>1, <2>2 DEF IInv, Typed, CalmInv
    <3> QED
      BY <2>2, <3>1, StoredSurvives
  <2> QED
    BY <2>1, <2>2, ServerSteps
<1> QED
  BY <1>1, Invariant, PTL DEF Spec, EditsSurviveWhenCalm
=============================================================================

------------------------------ MODULE Activity ------------------------------
(* The activity area of the issue modal (static/js/components/activity.js):   *)
(* the comments and the history of the issue, the editors of the comments and *)
(* the confirm dialog they share with the rest of the page (static/js/        *)
(* utils.js).  An action is what runs between two awaits.  Requests of all    *)
(* kinds are served and answered in any order.  One user, who may edit every  *)
(* comment.  The confirm dialog lies over the page, only the Escape key of an *)
(* editor reaches what lies under it.                                         *)
EXTENDS Naturals, FiniteSets

CONSTANTS
    Issues,
    Comments,         \* all comments there can be, of all issues
    None,
    New,              \* ctx.activeEditor = 'new'
    MaxActions,       \* bound: saves, and openings of the modal and of a comment's editor
    MaxFailures       \* bound: requests that fail, or whose answer is lost

ASSUME ActivityAssumption ==
    /\ None \notin Issues \cup Comments /\ New \notin Comments \cup {None}
    /\ MaxActions \in Nat /\ MaxFailures \in Nat

VARIABLES
    ui,        \* the modal, ctx of activity.js and what the page shows of it
    dialog,    \* the confirm dialog: its question, and who waits for the answer
    seq,       \* requestSeq
    reads,     \* requests for comments and history
    saves,     \* requests that change a comment or a field of the issue
    server,    \* per issue: its comments with their versions, and the length of its history
    actions, failures,
    excuse     \* history: see Missed and Late
areaVars == <<ui, dialog, seq, reads, saves, server, actions, failures, excuse>>

View == [comments : [Comments -> Nat], history : Nat]   \* version 0: no such comment
Empty == [comments |-> [c \in Comments |-> 0], history |-> 0]
Editor == [n : 1..MaxActions, comment : Comments, changed : BOOLEAN, shown : BOOLEAN]
Drafts == {None, New} \cup 1..MaxActions                \* ctx.draft
Question == [kind : {"delete", "discard", "done"}, comment : Comments \cup {None}, draft : Drafts]
SaveKinds == {"create", "update", "delete", "field"}

Page == [open : BOOLEAN, issue : Issues \cup {None}, view : View, page : View,
         editor : {None, New} \cup Comments, draft : Drafts,
         text : Issues \cup {None}, editors : SUBSET Editor]
Reading == [seq : Nat, kind : {"load", "history", "comments"}, issue : Issues,
            pc : {"sent", "answered", "failed"}, view : View]
Saving == [n : Nat, kind : SaveKinds, issue : Issues, comment : Comments \cup {None},
           draft : Drafts, text : Issues \cup {None}, close : BOOLEAN,
           pc : {"sent", "saved", "failed", "refreshes"}, seq : Nat]

TypeOK ==
    /\ ui \in Page
    /\ dialog \in [asks : Question \cup {None}, waiting : SUBSET Question, refused : Question \cup {None}]
    /\ seq \in Nat
    /\ reads \subseteq Reading /\ \A r \in reads : r.seq \in 1..seq
    /\ saves \subseteq Saving /\ \A s \in saves : s.n \in 1..actions /\ s.seq \in 0..seq
    /\ server \in [Issues -> View]
    /\ actions \in 0..MaxActions /\ failures \in 0..MaxFailures
    /\ excuse \in [missed : BOOLEAN, late : BOOLEAN]

-----------------------------------------------------------------------------
(* The page. *)

\* renderAll: both lists anew, without the editors that stood in them.
Rendered(u) ==
    [u EXCEPT !.page = u.view, !.editors = {[e EXCEPT !.shown = FALSE] : e \in @}]

\* finish() of a comment's editor: it clears whatever editor is the active one.
Finished(u, n) == [u EXCEPT !.editor = None, !.draft = None, !.editors = {e \in @ : e.n # n}]

\* closeNewCommentForm({ clear: true }).
NewFormClosed(u) ==
    IF u.editor = New THEN [u EXCEPT !.text = None, !.editor = None, !.draft = None]
    ELSE [u EXCEPT !.text = None]

\* The discard() of a draft.
Discarded(u, d) ==
    CASE d = None -> u
      [] d = New -> NewFormClosed(u)
      [] OTHER -> Rendered(Finished(u, d))

\* closeCommentEditors.
EditorsClosed(u) == NewFormClosed(Discarded(u, u.draft))

\* closeModal.
Closed(u) == EditorsClosed([u EXCEPT !.open = FALSE])

\* The field is busy until the save and the refresh behind it are done (guardSubmit).
Busy(d) == \E s \in saves : s.draft = d
Changed(d) == IF d = New THEN ui.text # None ELSE \E e \in ui.editors : e.n = d /\ e.changed

-----------------------------------------------------------------------------
(* Requests. *)

\* Missed: the answer of a read is lost, or it is dropped though nothing newer of its kind
\* is read: a refresh of the history drops the comments that are being read, and the other
\* way round.
Missed(kind) == \E r \in reads : r.seq = seq /\ r.kind # kind

\* Mutant: an answer is taken whenever it comes.
NeverStale(r) == FALSE

\* isStale.
IsStale(r) == r.seq # seq

\* Mutant: nextSeq does not keep the number it gives.
ReadUncounted(kind, issue) ==
    /\ seq' = seq
    /\ reads' = reads \cup {[seq |-> seq + 1, kind |-> kind, issue |-> issue, pc |-> "sent", view |-> Empty]}

\* nextSeq, and the requests.
Read(kind, issue) ==
    /\ seq' = seq + 1
    /\ reads' = reads \cup {[seq |-> seq + 1, kind |-> kind, issue |-> issue, pc |-> "sent", view |-> Empty]}

\* Actions are numbered.
Act == actions < MaxActions /\ actions' = actions + 1

Save(kind, comment, draft, close) ==
    /\ Act
    /\ saves' = saves \cup
         {[n |-> actions', kind |-> kind, issue |-> ui.issue, comment |-> comment,
           draft |-> draft, text |-> IF kind = "create" THEN ui.text ELSE None, close |-> close, pc |-> "sent", seq |-> 0]}

-----------------------------------------------------------------------------
(* The confirm dialog. *)

\* Mutant: the dialog that is open stays open behind the new one.
AsksToo(q) ==
    dialog' = [dialog EXCEPT !.asks = q, !.waiting = @ \cup {q}]

\* showConfirm: whoever waits for the dialog that is open gets false.
Ask(q) ==
    dialog' = [asks |-> q, waiting |-> {q},
               refused |-> IF dialog.asks = None THEN None ELSE dialog.asks]

NoDialog == [asks |-> None, waiting |-> {}, refused |-> None]

\* processFieldOnDone: anything but Save discards the text, and the modal closes.
Refuse(q) ==
    ui' = IF q.kind = "done" THEN Closed(Discarded(ui, q.draft)) ELSE ui

\* The asker whose question was replaced goes on before anything else happens.
Refused ==
    /\ dialog.refused # None
    /\ Refuse(dialog.refused)
    /\ dialog' = [dialog EXCEPT !.refused = None]
    /\ UNCHANGED <<seq, reads, saves, server, actions, failures, excuse>>

Cancel ==
    /\ \E q \in dialog.waiting : Refuse(q)
    /\ dialog' = NoDialog
    /\ UNCHANGED <<seq, reads, saves, server, actions, failures, excuse>>

\* The comment of a draft; a draft is saved under the issue that is open then.
SaveDraft(d, close) ==
    IF d = New THEN Save("create", None, New, close)
    ELSE \E e \in ui.editors : e.n = d /\ Save("update", e.comment, d, close)

\* Done, answered with Save: a save under way is joined.
SaveAndClose(d) ==
    IF Busy(d)
    THEN saves' = {IF s.draft = d THEN [s EXCEPT !.close = TRUE] ELSE s : s \in saves} /\ UNCHANGED actions
    ELSE IF Changed(d) THEN SaveDraft(d, TRUE) ELSE UNCHANGED <<saves, actions>>

Confirm ==
    /\ dialog' = NoDialog
    /\ \E q \in dialog.waiting :
          \/ /\ q.kind = "delete"
             /\ Save("delete", q.comment, None, FALSE)
             /\ UNCHANGED ui
          \/ /\ q.kind = "discard"
             /\ ui' = Discarded(ui, q.draft)
             /\ UNCHANGED <<saves, actions>>
          \/ /\ q.kind = "done"
             /\ SaveAndClose(q.draft)
             /\ UNCHANGED ui
    /\ UNCHANGED <<seq, reads, server, failures, excuse>>

-----------------------------------------------------------------------------
(* The user. *)

\* loadActivity: what the page shows stays there until the answers have come.
Open(i) ==
    /\ ~ui.open
    /\ Act
    /\ ui' = EditorsClosed([ui EXCEPT !.open = TRUE, !.issue = i, !.view = Empty])
    /\ Read("load", i)
    /\ excuse' = [excuse EXCEPT !.missed = FALSE]
    /\ UNCHANGED <<dialog, saves, server, failures>>

\* switchTab.
SwitchTab ==
    /\ ui.open
    /\ ui' = Rendered(ui)
    /\ UNCHANGED <<dialog, seq, reads, saves, server, actions, failures, excuse>>

\* Mutant: the field can be typed into while it is saved.
WritesAlways == ui.editor \in {None, New}

\* Not while a comment is edited, nor while the field is busy.
MayWrite == ui.editor \in {None, New} /\ ~Busy(New)

\* The new-comment form opens on focus (openNewCommentForm), and text is typed.
WriteNew ==
    /\ ui.open /\ ui.text = None
    /\ MayWrite
    /\ ui' = [ui EXCEPT !.editor = New, !.draft = New, !.text = ui.issue]
    /\ UNCHANGED <<dialog, seq, reads, saves, server, actions, failures, excuse>>

SubmitNew ==
    /\ ui.open /\ ui.text # None /\ ~Busy(New)
    /\ Save("create", None, New, FALSE)
    /\ UNCHANGED <<ui, dialog, seq, reads, server, failures, excuse>>

\* Mutant: an editor opens beside the one that is open.
EditsAny(c) == TRUE

\* The guard of enterCommentEdit.
MayEdit(c) == ui.editor = None

\* enterCommentEdit.
EnterEdit(c, changed) ==
    /\ ui.open /\ ui.page.comments[c] > 0
    /\ ~\E e \in ui.editors : e.comment = c /\ e.shown
    /\ MayEdit(c)
    /\ Act
    /\ ui' = [ui EXCEPT !.editor = c, !.draft = actions',
                        !.editors = @ \cup {[n |-> actions', comment |-> c, changed |-> changed, shown |-> TRUE]}]
    /\ UNCHANGED <<dialog, seq, reads, saves, server, failures, excuse>>

SaveEdit(e) ==
    /\ e.shown /\ ~Busy(e.n)
    /\ Save("update", e.comment, e.n, FALSE)
    /\ UNCHANGED <<ui, dialog, seq, reads, server, failures, excuse>>

\* discardNewComment and discardEdit: asks only if there is something to lose.
Discard(d) ==
    /\ ~Busy(d)
    /\ \/ Changed(d) /\ Ask([kind |-> "discard", comment |-> None, draft |-> d]) /\ UNCHANGED ui
       \/ ~Changed(d) /\ ui' = Discarded(ui, d) /\ UNCHANGED dialog
    /\ UNCHANGED <<seq, reads, saves, server, actions, failures, excuse>>

CancelEditor ==
    \/ ui.editor = New /\ Discard(New)
    \/ \E e \in ui.editors : e.shown /\ Discard(e.n)

\* removeComment; the button is hidden while another editor is open.
RemoveComment(c) ==
    /\ ui.open /\ ui.page.comments[c] > 0
    /\ ui.editor \in {None, c}
    /\ Ask([kind |-> "delete", comment |-> c, draft |-> None])
    /\ UNCHANGED <<ui, seq, reads, saves, server, actions, failures, excuse>>

\* A field of the issue is changed and saved.
ChangeField ==
    /\ ui.open
    /\ Save("field", None, None, FALSE)
    /\ UNCHANGED <<ui, dialog, seq, reads, server, failures, excuse>>

\* handleDone, as far as the comments are concerned.
Done ==
    /\ ui.open
    /\ \/ ui.draft # None /\ Changed(ui.draft)
          /\ Ask([kind |-> "done", comment |-> None, draft |-> ui.draft]) /\ UNCHANGED ui
       \/ (ui.draft = None \/ ~Changed(ui.draft)) /\ ui' = Closed(Discarded(ui, ui.draft)) /\ UNCHANGED dialog
    /\ UNCHANGED <<seq, reads, saves, server, actions, failures, excuse>>

-----------------------------------------------------------------------------
(* The server. *)

Fresh(c) == \A i \in Issues : server[i].comments[c] = 0
Allowed(s) ==
    CASE s.kind \in {"update", "delete"} -> server[s.issue].comments[s.comment] > 0
      [] s.kind = "create" -> \E c \in Comments : Fresh(c)
      [] s.kind = "field" -> TRUE

Apply(s) ==
    \/ s.kind = "update" /\ server' = [server EXCEPT ![s.issue].comments[s.comment] = @ + 1]
    \/ s.kind = "delete" /\ server' = [server EXCEPT ![s.issue].comments[s.comment] = 0]
    \/ s.kind = "create" /\ \E c \in Comments :
           Fresh(c) /\ server' = [server EXCEPT ![s.issue].comments[c] = 1]
    \/ s.kind = "field" /\ server' = [server EXCEPT ![s.issue].history = @ + 1]

Served(s, pc) == saves' = (saves \ {s}) \cup {[s EXCEPT !.pc = pc]}

Serve(s) ==
    /\ s.pc = "sent"
    /\ IF Allowed(s) THEN Apply(s) ELSE UNCHANGED server
    /\ Served(s, IF Allowed(s) THEN "saved" ELSE "failed")
    /\ UNCHANGED <<ui, dialog, seq, reads, actions, failures, excuse>>

Fail == failures < MaxFailures /\ failures' = failures + 1

ServeInVain(s, executed) ==
    /\ s.pc = "sent" /\ Fail
    /\ executed => Allowed(s)
    /\ IF executed THEN Apply(s) ELSE UNCHANGED server
    /\ Served(s, "failed")
    /\ excuse' = [excuse EXCEPT !.missed = @ \/ executed]
    /\ UNCHANGED <<ui, dialog, seq, reads, actions>>

ServeRead(r, fails) ==
    /\ r.pc = "sent"
    /\ IF fails THEN Fail ELSE UNCHANGED failures
    /\ reads' = (reads \ {r}) \cup
         {[r EXCEPT !.pc = IF fails THEN "failed" ELSE "answered",
                    !.view = IF fails THEN Empty ELSE server[r.issue]]}
    /\ UNCHANGED <<ui, dialog, seq, saves, server, actions, excuse>>

-----------------------------------------------------------------------------
(* Answers. *)

SaveFails(s) ==
    /\ s.pc = "failed"
    /\ saves' = saves \ {s}
    /\ UNCHANGED <<ui, dialog, seq, reads, server, actions, failures, excuse>>

\* refreshComments; the History tab alone after the save of a field.
Refreshes(s) == IF s.kind = "field" THEN "history" ELSE "comments"

\* Late: the editor that was saved is no longer the one that is open.
SaveReturns(s) ==
    LET kind == Refreshes(s) IN
    /\ s.pc = "saved"
    /\ ui' = CASE s.kind = "create" -> NewFormClosed(ui)
               [] s.kind = "update" -> Finished(ui, s.draft)
               [] OTHER -> ui
    /\ Read(kind, ui.issue)
    /\ saves' = (saves \ {s}) \cup
         (IF s.kind = "field" THEN {} ELSE {[s EXCEPT !.pc = "refreshes", !.seq = seq + 1]})
    /\ excuse' = [missed |-> excuse.missed \/ Missed(kind),
                  late |-> excuse.late \/ (s.kind = "update" /\ ui.draft # s.draft)]
    /\ UNCHANGED <<dialog, server, actions, failures>>

Taken(u, r) ==
    CASE r.kind = "load" -> [u EXCEPT !.view = r.view]
      [] r.kind = "history" -> [u EXCEPT !.view.history = r.view.history]
      [] r.kind = "comments" -> [u EXCEPT !.view.comments = r.view.comments]

\* The save that waited for the refresh is done; the modal closes if Done waited for it.
ReadReturns(r) ==
    LET taken == IF r.pc = "failed" \/ IsStale(r) THEN ui ELSE Rendered(Taken(ui, r))
        ended == {s \in saves : s.seq = r.seq}
    IN /\ r.pc # "sent"
       /\ ui' = IF \E s \in ended : s.close THEN Closed(taken) ELSE taken
       /\ reads' = reads \ {r}
       /\ saves' = saves \ ended
       /\ excuse' = [excuse EXCEPT !.missed = @ \/ (r.pc = "failed" /\ r.seq = seq)]
       /\ UNCHANGED <<dialog, seq, server, actions, failures>>

-----------------------------------------------------------------------------
\* Every issue has at most one comment; the modal is closed.
Init ==
    /\ server \in [Issues -> {v \in [comments : [Comments -> 0..1], history : {0}] :
                                 Cardinality({c \in Comments : v.comments[c] = 1}) <= 1}]
    /\ \A c \in Comments : Cardinality({i \in Issues : server[i].comments[c] = 1}) <= 1
    /\ ui = [open |-> FALSE, issue |-> None, view |-> Empty, page |-> Empty,
             editor |-> None, draft |-> None, text |-> None, editors |-> {}]
    /\ dialog = NoDialog
    /\ seq = 0 /\ reads = {} /\ saves = {}
    /\ actions = 0 /\ failures = 0
    /\ excuse = [missed |-> FALSE, late |-> FALSE]

User ==
    \/ \E i \in Issues : Open(i)
    \/ SwitchTab \/ WriteNew \/ SubmitNew \/ ChangeField \/ Done
    \/ \E c \in Comments : RemoveComment(c) \/ \E changed \in BOOLEAN : EnterEdit(c, changed)
    \/ \E e \in ui.editors : SaveEdit(e)

Dialog == Cancel \/ Confirm

Network ==
    \/ \E s \in saves : Serve(s) \/ (\E executed \in BOOLEAN : ServeInVain(s, executed))
                        \/ SaveFails(s) \/ SaveReturns(s)
    \/ \E r \in reads : (\E fails \in BOOLEAN : ServeRead(r, fails)) \/ ReadReturns(r)

Next ==
    \/ Refused
    \/ dialog.refused = None /\ dialog.asks = None /\ User
    \/ dialog.refused = None /\ (CancelEditor \/ Dialog \/ Network)

Spec == Init /\ [][Next]_areaVars

-----------------------------------------------------------------------------
(* Properties. *)

\* When nothing is under way, the page shows the comments and the history of the open
\* issue as they are, unless a refresh was missed (loadActivity, refreshComments,
\* refreshHistory and their sequence numbers).
PageShowsIssue ==
    ui.open /\ reads = {} /\ saves = {} /\ ~excuse.missed => ui.page = server[ui.issue]

\* "Only one comment may be in edit mode at a time" (activity.js): of all editors on the
\* page, the new-comment form among them, one is open, and it is the one the modal knows,
\* unless an answer came late.
OneEditor ==
    LET shown == {e \in ui.editors : e.shown} IN
    ~excuse.late =>
        /\ shown # {} => ui.editor # New
        /\ \A e \in shown : e.n = ui.draft

\* While a new comment is being sent, the field holds nothing else: the answer, which
\* clears it, takes no text that was not sent (guardSubmit, markBusy).
OnlySentTextIsCleared ==
    \A s \in saves : s.kind = "create" /\ s.pc # "refreshes" => ui.text \in {None, s.text}

\* One click answers one question, the one on the screen (showConfirm).
OneQuestion == dialog.waiting \subseteq {dialog.asks}

\* "... otherwise saving one triggers a refreshComments() re-render that discards any
\* other comment's in-progress (unsaved) edit" (activity.js): a comment in edit mode keeps
\* its editor on the page.
EditStaysOnPage == ui.draft \notin {None, New} => \E e \in ui.editors : e.n = ui.draft /\ e.shown
=============================================================================
